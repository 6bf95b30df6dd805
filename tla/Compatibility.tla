--------------------------- MODULE Compatibility ---------------------------
(***************************************************************************)
(* "Check Match" on the Home screen, with the scorer behind it: the        *)
(* user's profile is compiled once, when the screen has loaded it, and     *)
(* each check scores a peer's profile against it at the signal strength    *)
(* of the moment.                                                          *)
(*                                                                         *)
(* The code has one peer profile, a mock.  The scorer is written for any,  *)
(* so a check takes any peer here.                                         *)
(***************************************************************************)
EXTENDS Scoring

CONSTANTS
  MyProfile,    \* profiles of the user
  PeerProfile,  \* profiles of peers
  Rssi,         \* signal strengths
  None          \* null

ASSUME CompatibilityAssumption ==
  /\ \A p \in MyProfile \cup PeerProfile :
       p.age \in Nat /\ p.interests \in Seq(Interest) /\ p.bio \subseteq Word
  /\ Rssi \subseteq Int

VARIABLES
  myCompiledProfile,  \* React state; None until the profile is loaded
  checked             \* the check whose result an alert shows, or None

vars == <<myCompiledProfile, checked>>

Init == myCompiledProfile = None /\ checked = None

\* The effect of the Home screen: loadProfile() resolves with a profile.
LoadProfile(p) ==
  /\ myCompiledProfile = None
  /\ myCompiledProfile' = CompileProfile(p)
  /\ UNCHANGED checked

\* Without a profile the check only says so; an alert shows the result.
CheckCompatibility(peer, rssi) ==
  /\ myCompiledProfile # None
  /\ checked = None
  /\ checked' = [peer |-> peer, rssi |-> rssi,
                 score |-> TotalScore(myCompiledProfile, peer, rssi)]
  /\ UNCHANGED myCompiledProfile

\* OK under the result.
DismissResult ==
  /\ checked # None
  /\ checked' = None
  /\ UNCHANGED myCompiledProfile

Next ==
  \/ DismissResult
  \/ \E p \in MyProfile : LoadProfile(p)
  \/ \E peer \in PeerProfile, rssi \in Rssi : CheckCompatibility(peer, rssi)

Spec == Init /\ [][Next]_vars

-----------------------------------------------------------------------------
(***************************************************************************)
(* Properties.                                                             *)
(***************************************************************************)
IsMask(m) == \A h \in {m.hi, m.lo} : h \in (0..(Half - 1)) \X (0..(Half - 1))

\* Masks are 64 bits, and a score is a percentage however near the peer is,
\* whatever the five terms add up to (fast.ts:138, Home.tsx:192).
TypeOK ==
  /\ myCompiledProfile # None =>
       /\ myCompiledProfile.raw \in MyProfile
       /\ IsMask(myCompiledProfile.interestMask)
       /\ IsMask(myCompiledProfile.bioMask)
  /\ checked # None =>
       checked.peer \in PeerProfile /\ checked.rssi \in Rssi /\ checked.score \in 0..100

Bits(W) == {Bit[w] : w \in W}

(***************************************************************************)
(* The masks compute the Jaccard index of the sets of bits they stand for: *)
(* shifting, the sign of bit 31, counting by multiplication and the two    *)
(* halves lose and double nothing (fast.ts:42-83), whatever words collide. *)
(***************************************************************************)
MasksAreSets ==
  checked # None =>
    LET mine == InterestWords(myCompiledProfile.raw.interests)
        theirs == InterestWords(checked.peer.interests)
    IN  JaccardMask(myCompiledProfile.interestMask,
                    CompileProfile(checked.peer).interestMask)
          = Jaccard(Bits(mine), Bits(theirs))

(***************************************************************************)
(* An interest that both entered among their first ones is never scored as *)
(* nothing ("avoid exact-zero when any token overlaps", fast.ts:122), also *)
(* when it has no word long enough for the masks.                          *)
(***************************************************************************)
SharedInterestCounts ==
  checked # None =>
    LET peer == CompileProfile(checked.peer)
    IN  FirstInterests(myCompiledProfile.raw) \cap FirstInterests(checked.peer) # {}
          => InterestSimilarity(myCompiledProfile, peer)[1] > 0

\* The same peer a step nearer never scores less, across both ends of the
\* range and the cutoff (fast.ts:85-90, 120).
CloserNoWorse ==
  checked # None =>
    \A rssi \in Rssi : rssi > checked.rssi =>
      TotalScore(myCompiledProfile, checked.peer, rssi) >= checked.score

\* At least one in n of all that is in A or B is in both.
HaveInCommon(n, A, B) ==
  A \cap B # {} /\ Cardinality(A \cup B) <= n * Cardinality(A \cap B)

NoCollision(W) == \A v, w \in W : Bit[v] = Bit[w] => v = w

(***************************************************************************)
(* A total of 70, which is explained to the user as "high shared           *)
(* interests" (Home.tsx:198), needs one in five of the words of the two    *)
(* lists, or one in three of their first entries, to be common to both:    *)
(* age, gender, bio and proximity together do not get there.  This is so   *)
(* as long as no two different words of the two lists share a bit.         *)
(***************************************************************************)
HighScoreSharesInterests ==
  checked # None /\ checked.score >= 70 =>
    LET mine == InterestWords(myCompiledProfile.raw.interests)
        theirs == InterestWords(checked.peer.interests)
    IN  NoCollision(mine \cup theirs) =>
          \/ HaveInCommon(5, mine, theirs)
          \/ HaveInCommon(3, FirstInterests(myCompiledProfile.raw),
                             FirstInterests(checked.peer))
=============================================================================

---------------------------- MODULE MCCandidates ----------------------------
(***************************************************************************)
(* Candidates for TLC.  The scores are those that module Scoring gives the *)
(* mock peer of checkCompatibility for a user who likes music and films.   *)
(***************************************************************************)
EXTENDS Candidates, TLC

CONSTANTS ana, ben, cid

\* Bytes with different digits, different in every id and every position.
First == ana :> 17 @@ ben :> 90 @@ cid :> 203
EphemeralIds == [i \in Id |-> [k \in 1..8 |-> First[i] + 5 * k]]
Fingerprints == [i \in Id |-> [k \in 1..8 |-> 31 * k]]

\* Words with the bits that FNV-1a gives them.
BitOf == "music" :> 20 @@ "hiking" :> 53 @@ "books" :> 17 @@ "film" :> 27

Scorer == INSTANCE Scoring
  WITH Word <- DOMAIN BitOf, Interest <- DOMAIN BitOf,
       Words <- [w \in DOMAIN BitOf |-> {w}], Bit <- BitOf, FallbackTokens <- 16

MockPeer ==
  [age |-> 25, sex |-> "female", interests |-> <<"music", "hiking", "books">>,
   bio |-> {}]

Me == [age |-> 30, gender |-> {"female"}, interests |-> <<"music", "film">>,
       bio |-> {}]

\* A good match, and one too far away.
NearAndFar == {-60, -84}
Scores == -60 :> 47 @@ -84 :> 0

ASSUME ScoresAreReal ==
  \A r \in NearAndFar :
    Scores[r] = Scorer!TotalScore(Scorer!CompileProfile(Me), MockPeer, r)
=============================================================================

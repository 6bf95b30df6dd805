------------------------------- MODULE MCChat -------------------------------
(***************************************************************************)
(* Instances of Chat for TLC.                                              *)
(***************************************************************************)
EXTENDS Chat, TLC

CONSTANTS ana, ben, cid, s1, s2

\* One session between ana, who sends the request, and ben.
Pair == {ana, ben}
OneSession == {s1}
CallerAna == [s \in Session |-> ana]
CalleeBen == [s \in Session |-> ben]

\* Two sessions: ana and cid each request a chat with ben.
Trio == {ana, ben, cid}
TwoSessions == {s1, s2}
CallerAnaCid == s1 :> ana @@ s2 :> cid

\* Two sessions between the same two are interchangeable.
SessionSymmetry == Permutations(Session)
=============================================================================

----------------------------- MODULE Rendezvous -----------------------------
(***************************************************************************)
(* What the exchange of link requests promises to the chat: who enters a   *)
(* session, and when.  A session is entered first by its caller, then at   *)
(* most by the callee, and by each of them once.  This is what the action  *)
(* Navigate of module Chat takes for granted.                              *)
(***************************************************************************)
CONSTANTS
  Session,  \* the session ids
  Caller,   \* the device whose link request created a session
  Callee    \* the device it was addressed to

VARIABLE entered  \* <<device, session>> when device has opened the session

Call(s) ==
  /\ <<Caller[s], s>> \notin entered
  /\ entered' = entered \cup {<<Caller[s], s>>}

Answer(s) ==
  /\ <<Caller[s], s>> \in entered
  /\ <<Callee[s], s>> \notin entered
  /\ entered' = entered \cup {<<Callee[s], s>>}

Init == entered = {}

Next == \E s \in Session : Call(s) \/ Answer(s)

Spec == Init /\ [][Next]_entered
=============================================================================

----------------------------- MODULE ComeCloser -----------------------------
(***************************************************************************)
(* What the "Come Closer" dialogue of a chat session promises, with the    *)
(* messages, dialogs and screens left out.  Each party answers at most     *)
(* once while it is in the chat, Yes or No, and does not take it back; a   *)
(* handle is shown only when both said Yes, and once someone said No it    *)
(* never will be.  A dialog may outlive the chat, so a party may answer    *)
(* again, and otherwise, after it has left: that counts for nothing.       *)
(***************************************************************************)
CONSTANTS
  Session,  \* the session ids
  Members   \* the two devices of each session

VARIABLES
  agreed,   \* <<d, s>> when device d has said Yes in session s
  refused,  \* <<d, s>> when it has said No
  late,     \* <<d, s, a>> when it has answered a after it had left
  shown     \* <<d, s>> while it shows the handle of the other one

vars == <<agreed, refused, late, shown>>

Everyone(s) == Members[s] \X {s}

\* Has d given no answer that shows that it has left?
Present(d, s) == \A a \in {"Yes", "No"} : <<d, s, a>> \notin late

\* May d show the handle in s when the answers of Yes are A?
Open(A, s) == Everyone(s) \subseteq A /\ Everyone(s) \cap refused = {}

Init == agreed = {} /\ refused = {} /\ late = {} /\ shown = {}

\* A Yes; if it is the second one, the handle may show at once.
Agree(d, s) ==
  /\ Present(d, s)
  /\ <<d, s>> \notin refused
  /\ agreed' = agreed \cup {<<d, s>>}
  /\ \/ shown' = shown
     \/ Open(agreed', s) /\ shown' = shown \cup {<<d, s>>}
  /\ UNCHANGED <<refused, late>>

Refuse(d, s) ==
  /\ Present(d, s)
  /\ <<d, s>> \notin agreed
  /\ refused' = refused \cup {<<d, s>>}
  /\ UNCHANGED <<agreed, late, shown>>

Reveal(d, s) ==
  /\ Present(d, s)
  /\ Open(agreed, s)
  /\ shown' = shown \cup {<<d, s>>}
  /\ UNCHANGED <<agreed, refused, late>>

Leave(d, s) ==
  /\ shown' = shown \ {<<d, s>>}
  /\ UNCHANGED <<agreed, refused, late>>

\* A No after a Yes is not among the late answers: a Yes is asked for once.
AnswerLate(d, s, a) ==
  /\ <<d, s>> \notin shown
  /\ a = "No" => <<d, s>> \notin agreed
  /\ late' = late \cup {<<d, s, a>>}
  /\ UNCHANGED <<agreed, refused, shown>>

Next ==
  \E s \in Session : \E d \in Members[s] :
    \/ Agree(d, s) \/ Refuse(d, s) \/ Reveal(d, s) \/ Leave(d, s)
    \/ \E a \in {"Yes", "No"} : AnswerLate(d, s, a)

Spec == Init /\ [][Next]_vars
=============================================================================

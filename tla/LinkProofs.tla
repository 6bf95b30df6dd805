----------------------------- MODULE LinkProofs -----------------------------
(***************************************************************************)
(* Theorems about module LinkRequests, for any number of phones, turn-ons, *)
(* requests and broken sockets.                                            *)
(***************************************************************************)
EXTENDS LinkRequests, TLAPS, SequenceTheorems

-----------------------------------------------------------------------------
(***************************************************************************)
(* Type correctness.                                                       *)
(***************************************************************************)
LEMMA InitType == Init => TypeOK
  BY LinkAssumption DEF Init, TypeOK

\* A phone's socket is one of its own.
LEMMA OwnSocket ==
  ASSUME TypeOK, NEW p \in Phone, ws[p] # None
  PROVE  ws[p] \in Id /\ Owner(ws[p]) = p
  BY DEF TypeOK, Owner

\* A request that is sent is one of a new session of the sender.
LEMMA NewSession ==
  ASSUME TypeOK, NEW p \in Phone, NEW to \in Id, SendLinkRequest(p, to)
  PROVE  LET s == [from |-> ws[p], to |-> to, n |-> now']
         IN  /\ s \in Session
             /\ Caller[s] = p
             /\ Append(up[ws[p]], s) \in Seq(Session)
<1> DEFINE s == [from |-> ws[p], to |-> to, n |-> now']
<1>1. ws[p] \in Id /\ Owner(ws[p]) = p /\ Owner(to) # p
  BY OwnSocket DEF SendLinkRequest
<1>2. now' \in 1..MaxSent
  BY LinkAssumption DEF SendLinkRequest, TypeOK
<1>3. s \in Session
  BY <1>1, <1>2 DEF Session
<1>4. Caller[s] = p
  BY <1>1, <1>3 DEF Caller
<1>5. up[ws[p]] \in Seq(Session)
  BY <1>1 DEF TypeOK
<1>6. Append(up[ws[p]], s) \in Seq(Session)
  BY <1>3, <1>5, AppendProperties
<1>7. QED
  BY <1>3, <1>4, <1>6

LEMMA PhoneType ==
  ASSUME TypeOK, NEW p \in Phone,
         \/ TurnOn(p) \/ TurnOff(p) \/ BackHome(p)
         \/ HandleAcceptRequest(p) \/ RejectRequest(p)
         \/ \E to \in Id : SendLinkRequest(p, to)
         \/ \E s \in leaving[p] : NavigateTimer(p, s)
  PROVE  TypeOK'
<1>1. CASE TurnOn(p)
  <2>1. <<p, starts[p] + 1>> \in Id /\ starts[p] + 1 \in 0..MaxStart
    BY <1>1, LinkAssumption DEF TurnOn, TypeOK, Id
  <2>2. QED
    BY <1>1, <2>1 DEF TurnOn, TypeOK, serverVars
<1>2. CASE TurnOff(p)
  BY <1>2, OwnSocket DEF TurnOff, Disconnect, TypeOK, serverVars
<1>3. CASE BackHome(p)
  BY <1>3 DEF BackHome, TypeOK, socketVars, serverVars
<1>4. CASE HandleAcceptRequest(p)
  <2>1. Head(alerts[p]) \in Session /\ Tail(alerts[p]) \in Seq(Session)
    BY <1>4, HeadTailProperties DEF HandleAcceptRequest, TypeOK
  <2>2. QED
    BY <1>4, <2>1 DEF HandleAcceptRequest, TypeOK, socketVars, serverVars
<1>5. CASE RejectRequest(p)
  <2>1. Tail(alerts[p]) \in Seq(Session)
    BY <1>5, HeadTailProperties DEF RejectRequest, TypeOK
  <2>2. QED
    BY <1>5, <2>1 DEF RejectRequest, TypeOK, socketVars, serverVars
<1>6. CASE \E to \in Id : SendLinkRequest(p, to)
  <2>1. PICK to \in Id : SendLinkRequest(p, to)
    BY <1>6
  <2> DEFINE s == [from |-> ws[p], to |-> to, n |-> now']
  <2>2. s \in Session /\ Append(up[ws[p]], s) \in Seq(Session)
    BY <2>1, NewSession
  <2>3. ws[p] \in Id
    BY <2>1, OwnSocket DEF SendLinkRequest
  <2>4. now' \in 0..MaxSent
    BY <2>1, LinkAssumption DEF SendLinkRequest, TypeOK
  <2>5. /\ up' = [up EXCEPT ![ws[p]] = Append(@, s)]
        /\ place' = [place EXCEPT ![p] = s]
        /\ entered' = entered \cup {<<p, s>>}
    BY <2>1 DEF SendLinkRequest
  <2> HIDE DEF s
  <2>6. QED
    BY <2>1, <2>2, <2>3, <2>4, <2>5
    DEF SendLinkRequest, Disconnect, TypeOK, serverVars
<1>7. CASE \E s \in leaving[p] : NavigateTimer(p, s)
  BY <1>7 DEF NavigateTimer, TypeOK, socketVars, serverVars
<1>8. QED
  BY <1>1, <1>2, <1>3, <1>4, <1>5, <1>6, <1>7

\* What a handler or an onmessage takes from a queue.
LEMMA QueueType ==
  ASSUME NEW S, NEW q \in Seq(S), q # <<>>
  PROVE  Head(q) \in S /\ Tail(q) \in Seq(S)
  BY HeadTailProperties

LEMMA SocketsType ==
  ASSUME TypeOK, NEW i \in Id,
         \/ SocketOpens(i) \/ SocketBreaks(i) \/ Register(i)
         \/ Forward(i) \/ ForwardRaises(i) \/ ForwardCrashes(i) \/ Deregister(i)
         \/ ReceiveRequest(i)
  PROVE  TypeOK'
<1>1. CASE SocketOpens(i)
  BY <1>1 DEF SocketOpens, TypeOK, phoneVars, serverVars
<1>2. CASE SocketBreaks(i)
  BY <1>2 DEF SocketBreaks, TypeOK, phoneVars, serverVars
<1>3. CASE Register(i)
  BY <1>3 DEF Register, TypeOK, phoneVars, socketVars
<1>4. CASE Forward(i)
  <2>1. Head(up[i]) \in Session /\ Tail(up[i]) \in Seq(Session)
    BY <1>4, QueueType DEF Forward, TypeOK
  <2>2. down' \in [Id -> Seq(Session)]
    <3>1. CASE UNCHANGED down
      BY <3>1 DEF TypeOK
    <3>2. CASE \E r \in Recipient(Head(up[i])) :
                 down' = [down EXCEPT ![r] = Append(@, Head(up[i]))]
      <4>1. PICK r \in Recipient(Head(up[i])) :
                 down' = [down EXCEPT ![r] = Append(@, Head(up[i]))]
        BY <3>2
      <4>2. r \in Id
        BY <4>1 DEF Recipient, TypeOK
      <4>3. Append(down[r], Head(up[i])) \in Seq(Session)
        BY <4>2, <2>1, AppendProperties DEF TypeOK
      <4>4. QED
        BY <4>1, <4>2, <4>3 DEF TypeOK
    <3>3. QED
      BY <1>4, <3>1, <3>2 DEF Forward
  <2>3. up' \in [Id -> Seq(Session)]
    BY <1>4, <2>1, EmptySeq DEF Forward, TypeOK
  <2>4. /\ handler[i] = "running"
        /\ handler' = [handler EXCEPT ![i] = IF i \in dead THEN "crashed" ELSE @]
        /\ UNCHANGED <<phoneVars, readyState, link_request_connections, dead, now>>
    BY <1>4 DEF Forward
  <2>5. /\ handler' \in [Id -> {"none", "running", "ended", "crashed"}]
        /\ link_request_connections' =
             {j \in Id : handler'[j] \in {"running", "crashed"}}
    BY <2>4 DEF TypeOK
  <2>6. QED
    BY <2>2, <2>3, <2>4, <2>5 DEF TypeOK, phoneVars
<1>5. CASE ForwardRaises(i)
  BY <1>5 DEF ForwardRaises, HandlerEnds, Recipient, TypeOK, phoneVars
<1>6. CASE ForwardCrashes(i)
  BY <1>6 DEF ForwardCrashes, HandlerEnds, TypeOK, phoneVars
<1>7. CASE Deregister(i)
  BY <1>7 DEF Deregister, TypeOK, phoneVars
<1>8. CASE ReceiveRequest(i)
  <2>1. Head(down[i]) \in Session /\ Tail(down[i]) \in Seq(Session)
    BY <1>8, QueueType DEF ReceiveRequest, TypeOK
  <2>2. Owner(i) \in Phone
    BY DEF Owner, Id
  <2>3. <<Head(down[i])>> \o alerts[Owner(i)] \in Seq(Session)
    BY <2>1, <2>2, ConcatProperties DEF TypeOK
  <2>4. QED
    BY <1>8, <2>1, <2>2, <2>3 DEF ReceiveRequest, TypeOK, serverVars
<1>9. QED
  BY <1>1, <1>2, <1>3, <1>4, <1>5, <1>6, <1>7, <1>8

\* The two kinds of steps, as the lemmas above and below treat them.
LEMMA Steps ==
  ASSUME Next
  PROVE  \/ \E p \in Phone :
              \/ TurnOn(p) \/ TurnOff(p) \/ BackHome(p)
              \/ HandleAcceptRequest(p) \/ RejectRequest(p)
              \/ \E to \in Id : SendLinkRequest(p, to)
              \/ \E s \in leaving[p] : NavigateTimer(p, s)
         \/ \E i \in Id :
              \/ SocketOpens(i) \/ SocketBreaks(i) \/ Register(i)
              \/ Forward(i) \/ ForwardRaises(i) \/ ForwardCrashes(i) \/ Deregister(i)
              \/ ReceiveRequest(i)
  BY DEF Next, System, User

(***************************************************************************)
(* Link requests keep their types, and the server's dict holds exactly the *)
(* sockets whose handler is in its loop (main.py:34-78).                   *)
(***************************************************************************)
THEOREM LinkTypeCorrect == Spec => []TypeOK
<1>1. TypeOK /\ [Next]_vars => TypeOK'
  <2> SUFFICES ASSUME TypeOK, [Next]_vars PROVE TypeOK'
    OBVIOUS
  <2>1. CASE Next
    BY <2>1, Steps, PhoneType, SocketsType
  <2>2. CASE UNCHANGED vars
    BY <2>2 DEF TypeOK, vars, phoneVars, socketVars, serverVars
  <2>3. QED
    BY <2>1, <2>2
<1>2. QED
  BY <1>1, InitType, PTL DEF Spec

-----------------------------------------------------------------------------
(***************************************************************************)
(* Invitations.                                                            *)
(***************************************************************************)
\* More sessions opened, more requests that are in order.
LEMMA InvitedMonotone ==
  ASSUME NEW E, NEW F, E \subseteq F, NEW p
  PROVE  SentBy(E, p) \subseteq SentBy(F, p) /\ InvitedTo(E, p) \subseteq InvitedTo(F, p)
  BY DEF Called, SentBy, InvitedTo

LEMMA SeqMonotone ==
  ASSUME NEW S, NEW T, S \subseteq T, NEW q \in Seq(S)
  PROVE  q \in Seq(T)
  BY SeqDef

\* What is in order stays so when only entered changes, and only grows.
LEMMA InvitationMonotone ==
  ASSUME InvitationInv, entered \subseteq entered'
  PROVE  /\ \A i \in Id : /\ up[i] \in Seq(SentBy(entered', i))
                         /\ down[i] \in Seq(InvitedTo(entered', Owner(i)))
         /\ \A p \in Phone : /\ alerts[p] \in Seq(InvitedTo(entered', p))
                            /\ leaving[p] \subseteq InvitedTo(entered', p)
  BY InvitedMonotone, SeqMonotone DEF InvitationInv

LEMMA InitInvitation == Init => InvitationInv
  BY EmptySeq DEF Init, InvitationInv

LEMMA PhoneInvitation ==
  ASSUME TypeOK, InvitationInv, NEW p \in Phone,
         \/ TurnOn(p) \/ TurnOff(p) \/ BackHome(p)
         \/ HandleAcceptRequest(p) \/ RejectRequest(p)
         \/ \E to \in Id : SendLinkRequest(p, to)
         \/ \E s \in leaving[p] : NavigateTimer(p, s)
  PROVE  InvitationInv'
<1>1. CASE TurnOn(p) \/ TurnOff(p) \/ BackHome(p)
  BY <1>1
  DEF TurnOn, TurnOff, BackHome, InvitationInv, socketVars
<1>2. CASE HandleAcceptRequest(p)
  <2>1. /\ Head(alerts[p]) \in InvitedTo(entered, p)
        /\ Tail(alerts[p]) \in Seq(InvitedTo(entered, p))
    BY <1>2, QueueType DEF HandleAcceptRequest, InvitationInv
  <2>2. QED
    BY <1>2, <2>1
    DEF HandleAcceptRequest, TypeOK, InvitationInv, socketVars
<1>3. CASE RejectRequest(p)
  <2>1. Tail(alerts[p]) \in Seq(InvitedTo(entered, p))
    BY <1>3, QueueType DEF RejectRequest, InvitationInv
  <2>2. QED
    BY <1>3, <2>1
    DEF RejectRequest, TypeOK, InvitationInv, socketVars
<1>4. CASE \E to \in Id : SendLinkRequest(p, to)
  <2>1. PICK to \in Id : SendLinkRequest(p, to)
    BY <1>4
  <2> DEFINE s == [from |-> ws[p], to |-> to, n |-> now']
  <2>2. s \in Session /\ Caller[s] = p /\ s.from = ws[p]
    BY <2>1, NewSession
  <2>3. ws[p] \in Id
    BY <2>1, OwnSocket DEF SendLinkRequest
  <2>4. /\ up' = [up EXCEPT ![ws[p]] = Append(@, s)]
        /\ entered' = entered \cup {<<p, s>>}
        /\ UNCHANGED <<alerts, leaving, down>>
    BY <2>1 DEF SendLinkRequest
  <2> HIDE DEF s
  <2>5. s \in SentBy(entered', ws[p])
    BY <2>2, <2>4 DEF Called, SentBy
  <2>6. Append(up[ws[p]], s) \in Seq(SentBy(entered', ws[p]))
    BY <2>3, <2>4, <2>5, InvitationMonotone, AppendProperties
  <2>7. QED
    BY <2>3, <2>4, <2>6, InvitationMonotone DEF InvitationInv, TypeOK
<1>5. CASE \E s \in leaving[p] : NavigateTimer(p, s)
  <2>1. PICK s \in leaving[p] : NavigateTimer(p, s)
    BY <1>5
  <2>2. /\ entered \subseteq entered'
        /\ UNCHANGED <<alerts, up, down>>
        /\ leaving' = [leaving EXCEPT ![p] = @ \ {s}]
    BY <2>1 DEF NavigateTimer, socketVars
  <2>3. QED
    BY <2>2, InvitationMonotone DEF InvitationInv, TypeOK
<1>6. QED
  BY <1>1, <1>2, <1>3, <1>4, <1>5

LEMMA SocketsInvitation ==
  ASSUME TypeOK, InvitationInv, NEW i \in Id,
         \/ SocketOpens(i) \/ SocketBreaks(i) \/ Register(i)
         \/ Forward(i) \/ ForwardRaises(i) \/ ForwardCrashes(i) \/ Deregister(i)
         \/ ReceiveRequest(i)
  PROVE  InvitationInv'
<1>1. CASE SocketOpens(i) \/ Register(i)
  BY <1>1
  DEF SocketOpens, Register, InvitationInv, phoneVars, socketVars
<1>2. CASE \/ SocketBreaks(i) \/ ForwardRaises(i) \/ ForwardCrashes(i)
           \/ Deregister(i)
  <2>1. /\ UNCHANGED <<entered, alerts, leaving>>
        /\ up' \in {up, [up EXCEPT ![i] = <<>>]}
        /\ down' = [down EXCEPT ![i] = <<>>]
    BY <1>2 DEF SocketBreaks, ForwardRaises, ForwardCrashes, HandlerEnds,
              Deregister, phoneVars
  <2>2. \A j \in Id : /\ up'[j] \in Seq(SentBy(entered, j))
                     /\ down'[j] \in Seq(InvitedTo(entered, Owner(j)))
    BY <2>1, EmptySeq DEF TypeOK, InvitationInv
  <2>3. QED
    BY <2>1, <2>2 DEF InvitationInv
<1>3. CASE Forward(i)
  <2> DEFINE s == Head(up[i])
  <2>1. s \in SentBy(entered, i) /\ Tail(up[i]) \in Seq(SentBy(entered, i))
    BY <1>3, QueueType DEF Forward, InvitationInv
  <2>2. \A j \in Id : down'[j] \in Seq(InvitedTo(entered, Owner(j)))
    <3>1. CASE UNCHANGED down
      BY <3>1 DEF InvitationInv
    <3>2. CASE \E r \in Recipient(s) :
                 down' = [down EXCEPT ![r] = Append(@, s)]
      <4>1. PICK r \in Recipient(s) : down' = [down EXCEPT ![r] = Append(@, s)]
        BY <3>2
      <4>2. r \in Id /\ r = s.to
        BY <4>1 DEF Recipient, TypeOK
      <4>3. s \in InvitedTo(entered, Owner(r))
        BY <2>1, <4>2 DEF InvitedTo, SentBy, Called, Callee
      <4>4. Append(down[r], s) \in Seq(InvitedTo(entered, Owner(r)))
        BY <4>2, <4>3, AppendProperties DEF InvitationInv
      <4>5. QED
        BY <4>1, <4>2, <4>4 DEF InvitationInv, TypeOK
    <3>3. QED
      BY <1>3, <3>1, <3>2 DEF Forward
  <2>3. \A j \in Id : up'[j] \in Seq(SentBy(entered, j))
    BY <1>3, <2>1, EmptySeq DEF Forward, TypeOK, InvitationInv
  <2>4. QED
    BY <1>3, <2>2, <2>3 DEF Forward, InvitationInv, phoneVars
<1>4. CASE ReceiveRequest(i)
  <2> DEFINE p == Owner(i)
  <2>1. p \in Phone
    BY DEF Owner, Id
  <2>2. /\ Head(down[i]) \in InvitedTo(entered, p)
        /\ Tail(down[i]) \in Seq(InvitedTo(entered, p))
    BY <1>4, QueueType DEF ReceiveRequest, InvitationInv
  <2>3. <<Head(down[i])>> \o alerts[p] \in Seq(InvitedTo(entered, p))
    BY <2>1, <2>2, ConcatProperties DEF InvitationInv
  <2>4. /\ UNCHANGED <<entered, up, leaving>>
        /\ down' = [down EXCEPT ![i] = Tail(@)]
        /\ alerts' = [alerts EXCEPT ![p] = <<Head(down[i])>> \o @]
    BY <1>4 DEF ReceiveRequest
  <2> HIDE DEF p
  <2>5. \A q \in Phone : alerts'[q] \in Seq(InvitedTo(entered, q))
    BY <2>1, <2>3, <2>4 DEF InvitationInv, TypeOK
  <2>6. \A j \in Id : down'[j] \in Seq(InvitedTo(entered, Owner(j)))
    BY <2>2, <2>4 DEF InvitationInv, TypeOK, p
  <2>7. QED
    BY <2>4, <2>5, <2>6 DEF InvitationInv
<1>5. QED
  BY <1>1, <1>2, <1>3, <1>4

(***************************************************************************)
(* Every request on its way, shown or accepted belongs to a session that   *)
(* its caller has opened, and reaches only the phone it is addressed to    *)
(* (Home.tsx:243-269, main.py:46-56).                                      *)
(***************************************************************************)
THEOREM InvitationInvariant == Spec => []InvitationInv
<1>1. TypeOK /\ InvitationInv /\ [Next]_vars => InvitationInv'
  <2> SUFFICES ASSUME TypeOK, InvitationInv, [Next]_vars PROVE InvitationInv'
    OBVIOUS
  <2>1. CASE Next
    BY <2>1, Steps, PhoneInvitation, SocketsInvitation
  <2>2. CASE UNCHANGED vars
    BY <2>2 DEF InvitationInv, vars, phoneVars, socketVars
  <2>3. QED
    BY <2>1, <2>2
<1>2. QED
  BY <1>1, InitInvitation, LinkTypeCorrect, PTL DEF Spec

-----------------------------------------------------------------------------
(***************************************************************************)
(* Crashes.                                                                *)
(***************************************************************************)
\* Nothing that accounts for a crash goes away again.
LEMMA CrashAccountGrows ==
  ASSUME TypeOK, [Next]_vars
  PROVE  /\ dead \subseteq dead'
         /\ \A i \in Id : SentBy(entered, i) \subseteq SentBy(entered', i)
<1>1. dead \subseteq dead' /\ entered \subseteq entered'
  <2>1. CASE UNCHANGED vars
    BY <2>1 DEF vars, phoneVars, serverVars
  <2>2. CASE Next
    BY <2>2, Steps
    DEF TurnOn, TurnOff, BackHome, HandleAcceptRequest, RejectRequest,
        SendLinkRequest, NavigateTimer, SocketOpens, SocketBreaks, Register,
        Forward, ForwardRaises, ForwardCrashes, Deregister, ReceiveRequest,
        phoneVars, serverVars
  <2>3. QED
    BY <2>1, <2>2
<1>2. QED
  BY <1>1, InvitedMonotone

\* The steps by which a handler crashes.
LEMMA WhoCrashes ==
  ASSUME TypeOK, [Next]_vars, NEW i \in Id,
         handler[i] # "crashed", handler'[i] = "crashed"
  PROVE  ForwardCrashes(i) \/ (Forward(i) /\ i \in dead)
<1>1. CASE UNCHANGED vars
  BY <1>1 DEF vars, serverVars
<1>2. CASE Next
  <2>1. handler' # handler
    OBVIOUS
  <2>2. PICK j \in Id : \/ Register(j) \/ Forward(j) \/ ForwardRaises(j)
                        \/ ForwardCrashes(j) \/ Deregister(j)
    BY <1>2, <2>1, Steps
    DEF TurnOn, TurnOff, BackHome, HandleAcceptRequest, RejectRequest,
        SendLinkRequest, NavigateTimer, SocketOpens, SocketBreaks,
        ReceiveRequest, serverVars
  <2>3. QED
    BY <2>2
    DEF Register, Forward, ForwardRaises, ForwardCrashes, Deregister,
        HandlerEnds, TypeOK
<1>3. QED
  BY <1>1, <1>2

(***************************************************************************)
(* A handler of /link-requests crashes, and leaves its entry behind, only  *)
(* if its phone sent a request and a send to the phone itself or to the    *)
(* one it asked for had raised before (main.py:53, 76).                    *)
(***************************************************************************)
THEOREM CrashesNeedAGhost == Spec => []CrashNeedsGhost
<1>1. Init => CrashNeedsGhost
  BY DEF Init, CrashNeedsGhost
<1>2. TypeOK /\ InvitationInv /\ CrashNeedsGhost /\ [Next]_vars => CrashNeedsGhost'
  <2> SUFFICES ASSUME TypeOK, InvitationInv, CrashNeedsGhost, [Next]_vars,
                      NEW i \in Id, handler'[i] = "crashed"
               PROVE  \E s \in SentBy(entered', i) : i \in dead' \/ s.to \in dead'
    BY DEF CrashNeedsGhost
  <2>1. CASE handler[i] = "crashed"
    BY <2>1, CrashAccountGrows DEF CrashNeedsGhost
  <2>2. CASE handler[i] # "crashed"
    <3>1. up[i] # <<>> /\ (i \in dead \/ \E r \in Recipient(Head(up[i])) : r \in dead)
      BY <2>2, WhoCrashes DEF Forward, ForwardCrashes
    <3>2. Head(up[i]) \in SentBy(entered, i)
      BY <3>1, QueueType DEF InvitationInv
    <3>3. i \in dead \/ Head(up[i]).to \in dead
      BY <3>1 DEF Recipient
    <3>4. QED
      BY <3>2, <3>3, CrashAccountGrows
  <2>3. QED
    BY <2>1, <2>2
<1>3. QED
  BY <1>1, <1>2, LinkTypeCorrect, InvitationInvariant, PTL DEF Spec

-----------------------------------------------------------------------------
(***************************************************************************)
(* Refinement.                                                             *)
(***************************************************************************)
LEMMA MeetingStep ==
  ASSUME TypeOK, InvitationInv, [Next]_vars
  PROVE  [Meeting!Next]_entered
<1>1. CASE UNCHANGED entered
  BY <1>1
<1>2. CASE \E p \in Phone, to \in Id : SendLinkRequest(p, to)
  <2>1. PICK p \in Phone, to \in Id : SendLinkRequest(p, to)
    BY <1>2
  <2> DEFINE s == [from |-> ws[p], to |-> to, n |-> now']
  <2>2. s \in Session /\ Caller[s] = p
    BY <2>1, NewSession
  <2>3. entered' = entered \cup {<<p, s>>}
    BY <2>1 DEF SendLinkRequest
  <2> HIDE DEF s
  <2>4. CASE <<p, s>> \in entered
    BY <2>3, <2>4
  <2>5. CASE <<p, s>> \notin entered
    BY <2>2, <2>3, <2>5 DEF Meeting!Next, Meeting!Call
  <2>6. QED
    BY <2>4, <2>5
<1>3. CASE \E p \in Phone : \E s \in leaving[p] : NavigateTimer(p, s)
  <2>1. PICK p \in Phone : \E s \in leaving[p] : NavigateTimer(p, s)
    BY <1>3
  <2>2. PICK s \in leaving[p] : NavigateTimer(p, s)
    BY <2>1
  <2>3. s \in Session /\ <<Caller[s], s>> \in entered /\ Callee[s] = p
    BY <2>2 DEF InvitationInv, InvitedTo, Called
  <2>4. entered' = entered \cup {<<p, s>>}
    BY <2>2 DEF NavigateTimer
  <2>5. CASE <<p, s>> \in entered
    BY <2>4, <2>5
  <2>6. CASE <<p, s>> \notin entered
    BY <2>3, <2>4, <2>6 DEF Meeting!Next, Meeting!Answer
  <2>7. QED
    BY <2>5, <2>6
<1>4. QED
  <2>1. CASE UNCHANGED vars
    BY <2>1, <1>1 DEF vars, phoneVars
  <2>2. CASE Next
    BY <2>2, <1>1, <1>2, <1>3, Steps
    DEF TurnOn, TurnOff, BackHome, HandleAcceptRequest, RejectRequest,
        SocketOpens, SocketBreaks, Register, Forward, ForwardRaises,
        ForwardCrashes, Deregister, ReceiveRequest, phoneVars
  <2>3. QED
    BY <2>1, <2>2

(***************************************************************************)
(* The exchange of link requests implements Rendezvous: whatever the       *)
(* server drops or delays, a chat session is opened by its caller first,   *)
(* and then only by the phone that was invited (Home.tsx:269, 302).        *)
(***************************************************************************)
THEOREM LinkImplementsRendezvous == Spec => MeetingSpec
<1>1. Init => Meeting!Init
  BY DEF Init, Meeting!Init
<1>2. QED
  BY <1>1, MeetingStep, LinkTypeCorrect, InvitationInvariant, PTL
  DEF Spec, MeetingSpec, Meeting!Spec
=============================================================================

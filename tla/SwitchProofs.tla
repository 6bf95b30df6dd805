---------------------------- MODULE SwitchProofs ----------------------------
(***************************************************************************)
(* What still holds when a mounted chat screen is reused for another       *)
(* session (Switch): for any number of devices, sessions and texts, no     *)
(* device shows a text of a session it is not a party of.                  *)
(***************************************************************************)
EXTENDS ChatProofs

-----------------------------------------------------------------------------
(***************************************************************************)
(* The inductive invariant: a text stays in the queues of its own session, *)
(* and a screen listens in sessions of its device only.                    *)
(***************************************************************************)
Of(s) == {m \in Message : m.type = "msg" => m.body.session = s}

QueuesApart ==
  \A d \in Device, s \in Session : LET c == <<d, s>> IN
    /\ pendingMessages[c] \in Seq(Of(s))
    /\ up[c] \in Seq(Of(s))
    /\ down[c] \in Seq(Of(s))

\* The texts that device d may show.
Addressed(d) == {b \in Body : d \in Parties(b.session)}

Attends(d, r) ==
  /\ \A s \in r.runs : d \in Parties(s)
  /\ r.heard \in Seq(Addressed(d))

HearInv == QueuesApart /\ \A d \in Device : Attends(d, chat[d])

-----------------------------------------------------------------------------
(***************************************************************************)
(* The queues.                                                             *)
(***************************************************************************)
LEMMA ApartSame ==
  ASSUME QueuesApart, UNCHANGED <<pendingMessages, up, down>>
  PROVE  QueuesApart'
  BY DEF QueuesApart

LEMMA ApartSend ==
  ASSUME TransportTypeOK, QueuesApart, NEW d \in Device, NEW s \in Session,
         NEW m \in Of(s), ClientSend(<<d, s>>, m)
  PROVE  QueuesApart'
<1> DEFINE c == <<d, s>>
<1>0. c \in Client /\ \A x \in Device, t \in Session : <<x, t>> \in Client
  BY DEF Client
<1>1. \A x \in Device, t \in Session :
        /\ pendingMessages[<<x, t>>] \in Seq(Of(t))
        /\ up[<<x, t>>] \in Seq(Of(t))
        /\ down[<<x, t>>] \in Seq(Of(t))
  BY DEF QueuesApart
<1>2. Append(pendingMessages[c], m) \in Seq(Of(s)) /\ Append(up[c], m) \in Seq(Of(s))
  BY <1>1, AppendProperties
<1>3. \A x \in Device, t \in Session :
        /\ pendingMessages'[<<x, t>>] \in
             {pendingMessages[<<x, t>>]}
               \cup (IF <<x, t>> = c THEN {Append(pendingMessages[c], m)} ELSE {})
        /\ up'[<<x, t>>] \in
             {up[<<x, t>>]} \cup (IF <<x, t>> = c THEN {Append(up[c], m)} ELSE {})
  BY <1>0 DEF ClientSend, TransportTypeOK
<1>4. down' = down
  BY DEF ClientSend
<1> QED
  BY <1>1, <1>2, <1>3, <1>4 DEF QueuesApart

LEMMA ApartReceive ==
  ASSUME TransportTypeOK, QueuesApart, NEW d \in Device, NEW s \in Session, NEW type,
         Arrives(d, s, type)
  PROVE  /\ QueuesApart'
         /\ Head(down[<<d, s>>]) \in Of(s)
<1> DEFINE c == <<d, s>>
<1>0. c \in Client /\ \A x \in Device, t \in Session : <<x, t>> \in Client
  BY DEF Client
<1>1. down[c] # <<>> /\ down[c] \in Seq(Of(s))
  BY DEF Arrives, ClientReceive, QueuesApart
<1>2. Head(down[c]) \in Of(s) /\ Tail(down[c]) \in Seq(Of(s))
  BY <1>1, HeadTailProperties
<1>3. /\ \A x \in Device, t \in Session :
           down'[<<x, t>>] = IF <<x, t>> = c THEN Tail(down[c]) ELSE down[<<x, t>>]
      /\ UNCHANGED <<pendingMessages, up>>
  BY <1>0 DEF Arrives, ClientReceive, TransportTypeOK
<1> QED
  BY <1>2, <1>3 DEF QueuesApart

LEMMA ApartTransport ==
  ASSUME TransportTypeOK, QueuesApart, NEW d \in Device, NEW s \in Session,
         Transport(<<d, s>>) \/ SocketBreaks(<<d, s>>)
  PROVE  QueuesApart'
<1> DEFINE c == <<d, s>>
<1>0. c \in Client /\ \A x \in Device, t \in Session : <<x, t>> \in Client
  BY DEF Client
<1>1. \A x \in Device, t \in Session :
        /\ pendingMessages[<<x, t>>] \in Seq(Of(t))
        /\ up[<<x, t>>] \in Seq(Of(t))
        /\ down[<<x, t>>] \in Seq(Of(t))
        /\ <<>> \in Seq(Of(t))
  BY EmptySeq DEF QueuesApart
<1>2. CASE ClientOpened(c)
  <2>1. up[c] \o pendingMessages[c] \in Seq(Of(s))
    BY <1>1, ConcatProperties
  <2>2. \A x \in Device, t \in Session :
          up'[<<x, t>>] = IF <<x, t>> = c THEN up[c] \o pendingMessages[c]
                          ELSE up[<<x, t>>]
    BY <1>0, <1>2 DEF ClientOpened, TransportTypeOK
  <2>3. \A x \in Device, t \in Session :
          pendingMessages'[<<x, t>>] = IF <<x, t>> = c THEN <<>>
                                       ELSE pendingMessages[<<x, t>>]
    BY <1>0, <1>2 DEF ClientOpened, TransportTypeOK
  <2>4. down' = down
    BY <1>2 DEF ClientOpened
  <2> QED
    BY <1>1, <2>1, <2>2, <2>3, <2>4 DEF QueuesApart
<1>3. CASE RelayJoin(c)
  BY <1>3, ApartSame DEF RelayJoin, clientVars
<1>4. CASE RelayForward(c)
  <2>1. up[c] # <<>> /\ up[c] \in Seq(Of(s))
    BY <1>1, <1>4 DEF RelayForward
  <2>2. Head(up[c]) \in Of(s) /\ Tail(up[c]) \in Seq(Of(s))
    BY <2>1, HeadTailProperties
  <2>3. \A x \in Device, t \in Session :
          up'[<<x, t>>] = IF <<x, t>> = c THEN Tail(up[c]) ELSE up[<<x, t>>]
    BY <1>0, <1>4 DEF RelayForward, TransportTypeOK
  <2>4. ASSUME NEW x \in Device, NEW t \in Session
        PROVE  down'[<<x, t>>] \in Seq(Of(t))
    <3>1. \/ down'[<<x, t>>] = down[<<x, t>>]
          \/ t = s /\ down'[<<x, t>>] = Append(down[<<x, t>>], Head(up[c]))
      BY <1>0, <1>4 DEF RelayForward, PeersOf
    <3>2. Append(down[<<x, s>>], Head(up[c])) \in Seq(Of(s))
      BY <1>1, <2>2, AppendProperties
    <3> QED
      BY <1>1, <3>1, <3>2
  <2>5. pendingMessages' = pendingMessages
    BY <1>4 DEF RelayForward
  <2> QED
    BY <1>1, <2>2, <2>3, <2>4, <2>5 DEF QueuesApart
<1>5. CASE RelayLeave(c)
  <2>1. /\ \A x \in Device, t \in Session :
             down'[<<x, t>>] = IF <<x, t>> = c THEN <<>> ELSE down[<<x, t>>]
        /\ UNCHANGED <<pendingMessages, up>>
    BY <1>0, <1>5 DEF RelayLeave, TransportTypeOK
  <2> QED
    BY <1>1, <2>1 DEF QueuesApart
<1>6. CASE ClientLost(c)
  <2>1. /\ \A x \in Device, t \in Session :
             /\ down'[<<x, t>>] = IF <<x, t>> = c THEN <<>> ELSE down[<<x, t>>]
             /\ up'[<<x, t>>] = IF <<x, t>> = c THEN <<>> ELSE up[<<x, t>>]
        /\ UNCHANGED pendingMessages
    BY <1>0, <1>6 DEF ClientLost, TransportTypeOK
  <2> QED
    BY <1>1, <2>1 DEF QueuesApart
<1> QED
  BY <1>2, <1>3, <1>4, <1>5, <1>6 DEF Transport, SocketBreaks

-----------------------------------------------------------------------------
(***************************************************************************)
(* The screens.                                                            *)
(***************************************************************************)
LEMMA OneAttends ==
  ASSUME chat \in [Device -> Screen], \A x \in Device : Attends(x, chat[x]),
         NEW d \in Device, NEW r, chat' = [chat EXCEPT ![d] = r], Attends(d, r)
  PROVE  \A x \in Device : Attends(x, chat'[x])
  OBVIOUS

LEMMA NoScreenAttends ==
  ASSUME NEW d
  PROVE  Attends(d, NoScreen)
  BY EmptySeq DEF Attends, NoScreen

\* A step that neither runs an effect nor shows a text.
LEMMA ScreensAttend ==
  ASSUME \A x \in Device : Attends(x, chat[x]),
         \A x \in Device : chat'[x].runs = chat[x].runs /\ chat'[x].heard = chat[x].heard
  PROVE  \A x \in Device : Attends(x, chat'[x])
  BY DEF Attends

-----------------------------------------------------------------------------
(***************************************************************************)
(* The invariant holds.                                                    *)
(***************************************************************************)
LEMMA InitHear == Init => HearInv
<1> SUFFICES ASSUME Init PROVE HearInv
  OBVIOUS
<1>1. \A d \in Device : Attends(d, chat[d])
  BY NoScreenAttends DEF Init
<1>2. \A d \in Device, s \in Session : <<d, s>> \in Client
  BY DEF Client
<1>3. QueuesApart
  BY <1>2, EmptySeq DEF Init, RelayInit, ClientInit, QueuesApart
<1> QED
  BY <1>1, <1>3 DEF HearInv

\* What is sent besides texts belongs to any session.
LEMMA SignalOf ==
  ASSUME NEW s, NEW m \in Message, m.type # "msg"
  PROVE  m \in Of(s)
  BY DEF Of

\* Entering, reusing and leaving the screen.
LEMMA RouteHear ==
  ASSUME ScreenTypeOK, HearInv, NEW d \in Device,
         GoBack(d) \/ \E s \in Session : Navigate(d, s) \/ Switch(d, s)
  PROVE  HearInv'
<1>0. /\ chat \in [Device -> Screen] /\ QueuesApart
      /\ \A x \in Device : Attends(x, chat[x])
  BY DEF ScreenTypeOK, HearInv
<1>1. CASE GoBack(d)
  <2>1. QueuesApart' /\ chat' = [chat EXCEPT ![d] = NoScreen]
    BY <1>0, <1>1, ApartSame DEF GoBack
  <2> QED
    BY <1>0, <2>1, NoScreenAttends, OneAttends DEF HearInv
<1>2. ASSUME NEW s \in Session, Navigate(d, s) PROVE HearInv'
  <2>1. /\ QueuesApart' /\ chat' = [chat EXCEPT ![d] = FreshScreen(d, s)]
        /\ d \in Parties(s)
    BY <1>0, <1>2, ApartSame DEF Navigate
  <2>2. FreshScreen(d, s).runs = {s} /\ FreshScreen(d, s).heard = <<>>
    BY DEF FreshScreen, NoScreen
  <2>3. Attends(d, FreshScreen(d, s))
    BY <2>1, <2>2, EmptySeq DEF Attends
  <2> QED
    BY <1>0, <2>1, <2>3, OneAttends DEF HearInv
<1>3. ASSUME NEW s \in Session, Switch(d, s) PROVE HearInv'
  <2> DEFINE r == [chat[d] EXCEPT !.session = s, !.runs = @ \cup {s},
                                  !.hello = @ \cup {s}]
  <2>1. QueuesApart' /\ chat' = [chat EXCEPT ![d] = r] /\ d \in Parties(s)
    BY <1>0, <1>3, ApartSame DEF Switch, Parties
  <2>2. r.runs = chat[d].runs \cup {s} /\ r.heard = chat[d].heard
    BY <1>0 DEF Screen
  <2> HIDE DEF r
  <2>3. Attends(d, r)
    BY <1>0, <2>1, <2>2 DEF Attends
  <2> QED
    BY <1>0, <2>1, <2>3, OneAttends DEF HearInv
<1> QED
  BY <1>1, <1>2, <1>3

\* The handshake and the texts.
LEMMA TalkHear ==
  ASSUME ScreenTypeOK, HearInv, NEW d \in Device,
         \/ Reply(d) \/ Say(d)
         \/ \E s \in Session : SendPublicKey(d, s) \/ ReceivePubkey(d, s) \/ ReceiveMsg(d, s)
  PROVE  HearInv'
<1>0. /\ chat \in [Device -> Screen] /\ QueuesApart /\ TransportTypeOK
      /\ \A x \in Device : Attends(x, chat[x])
  BY DEF ScreenTypeOK, HearInv
<1>1. CASE Reply(d)
  <2>1. chat[d].session \in Session /\ chat[d].keyPair \in Key
    BY <1>1, ActiveScreen DEF Reply
  <2>2. PubKey(d) \in Of(chat[d].session)
    BY <2>1, PubKeyType, SignalOf DEF PubKey
  <2>3. QueuesApart'
    BY <1>0, <1>1, <2>1, <2>2, ApartSend DEF Reply, Current
  <2>4. \A x \in Device : chat'[x].runs = chat[x].runs /\ chat'[x].heard = chat[x].heard
    BY <1>0, <1>1 DEF Reply, Screen
  <2> QED
    BY <1>0, <2>3, <2>4, ScreensAttend DEF HearInv
<1>2. CASE Say(d)
  <2> DEFINE m == [type |-> "msg", box |-> chat[d].sessionKey,
                   body |-> [from |-> d, session |-> chat[d].session, n |-> said[d] + 1]]
  <2>1. chat[d].session \in Session
    BY <1>2, ActiveScreen DEF Say
  <2>2. m.body \in Body /\ chat[d].sessionKey \in SUBSET Key
    BY <1>2, <2>1, MaxSaidAssumption DEF Say, Body, ScreenTypeOK, Screen
  <2>3. m \in Message
    BY <2>2 DEF Message
  <2>4. m \in Of(chat[d].session)
    BY <2>3 DEF Of
  <2>5. ClientSend(<<d, chat[d].session>>, m) /\ chat' = chat
    BY <1>2 DEF Say, Current
  <2> HIDE DEF m
  <2>6. QueuesApart'
    BY <1>0, <2>1, <2>4, <2>5, ApartSend
  <2> QED
    BY <1>0, <2>5, <2>6, ScreensAttend DEF HearInv
<1>3. ASSUME NEW s \in Session, SendPublicKey(d, s) PROVE HearInv'
  <2>1. chat[d].keyPair \in Key
    BY <1>3, ActiveScreen DEF SendPublicKey
  <2>2. PubKey(d) \in Of(s)
    BY <2>1, PubKeyType, SignalOf DEF PubKey
  <2>3. QueuesApart'
    BY <1>0, <1>3, <2>2, ApartSend DEF SendPublicKey
  <2>4. \A x \in Device : chat'[x].runs = chat[x].runs /\ chat'[x].heard = chat[x].heard
    BY <1>0, <1>3 DEF SendPublicKey, Screen
  <2> QED
    BY <1>0, <2>3, <2>4, ScreensAttend DEF HearInv
<1>4. ASSUME NEW s \in Session, ReceivePubkey(d, s) PROVE HearInv'
  <2> DEFINE ev == Head(down[<<d, s>>])
             r == [chat[d] EXCEPT
                     !.sessionKey = SharedKey(chat[d].keyPair, ev.key),
                     !.peerInstagram = IF ev.from \in HasHandle THEN ev.from ELSE @,
                     !.reply = @ \/ chat[d].sessionKey = {}]
  <2>1. QueuesApart' /\ chat' = [chat EXCEPT ![d] = r]
    BY <1>0, <1>4, ApartReceive DEF ReceivePubkey, Receive
  <2>2. r.runs = chat[d].runs /\ r.heard = chat[d].heard
    BY <1>0 DEF Screen
  <2> HIDE DEF r
  <2>3. Attends(d, r)
    BY <1>0, <2>2 DEF Attends
  <2> QED
    BY <1>0, <2>1, <2>3, OneAttends DEF HearInv
<1>5. ASSUME NEW s \in Session, ReceiveMsg(d, s) PROVE HearInv'
  <2> DEFINE ev == Head(down[<<d, s>>])
             r == [chat[d] EXCEPT !.heard = IF chat[d].sessionKey = ev.box
                                            THEN Append(@, ev.body) ELSE @]
  <2>1. Receive(d, s, "msg") /\ chat' = [chat EXCEPT ![d] = r]
    BY <1>5 DEF ReceiveMsg
  <2>2. QueuesApart' /\ ev \in Of(s) /\ ev.type = "msg" /\ s \in chat[d].runs
    BY <1>0, <2>1, ApartReceive DEF Receive, Arrives
  <2>3. ev.body \in Body /\ ev.body.session = s
    BY <2>2 DEF Of, Message
  <2>4. d \in Parties(s)
    BY <1>0, <2>2 DEF Attends
  <2>5. ev.body \in Addressed(d)
    BY <2>3, <2>4 DEF Addressed
  <2>6. chat[d].heard \in Seq(Addressed(d))
    BY <1>0 DEF Attends
  <2>7. Append(chat[d].heard, ev.body) \in Seq(Addressed(d))
    BY <2>5, <2>6, AppendProperties
  <2>8. /\ r.runs = chat[d].runs
        /\ r.heard = IF chat[d].sessionKey = ev.box THEN Append(chat[d].heard, ev.body)
                     ELSE chat[d].heard
    BY <1>0 DEF Screen
  <2> HIDE DEF r, ev
  <2>9. Attends(d, r)
    BY <1>0, <2>6, <2>7, <2>8 DEF Attends
  <2> QED
    BY <1>0, <2>1, <2>2, <2>9, OneAttends DEF HearInv
<1> QED
  BY <1>1, <1>2, <1>3, <1>4, <1>5

\* "Come Closer".
LEMMA DialogueHear ==
  ASSUME ScreenTypeOK, HearInv, NEW d \in Device,
         \/ HandleCloseRequest(d) \/ ConfirmYes(d) \/ ConfirmCancel(d)
         \/ PromptYes(d) \/ PromptNo(d) \/ DismissCloser(d)
         \/ \E s \in Session : \/ ReceiveCloseRequest(d, s) \/ ReceiveCloseAccept(d, s)
                               \/ ReceiveCloseReject(d, s)
  PROVE  HearInv'
<1>0. /\ chat \in [Device -> Screen] /\ QueuesApart /\ TransportTypeOK
      /\ \A x \in Device : Attends(x, chat[x])
  BY DEF ScreenTypeOK, HearInv
<1>s. ASSUME NEW type \in {"close_request", "close_accept", "close_reject"}, NEW kind,
             Asked(d, kind), ClientSend(Current(d), Control(type))
      PROVE  QueuesApart'
  <2>1. chat[d].session \in Session
    BY <1>s, ActiveScreen DEF Asked
  <2>2. Control(type) \in Of(chat[d].session)
    BY <1>s, ControlType, SignalOf DEF Control
  <2> QED
    BY <1>0, <1>s, <2>1, <2>2, ApartSend DEF Current
<1>e. ASSUME QueuesApart',
             \A x \in Device : chat'[x].runs = chat[x].runs /\ chat'[x].heard = chat[x].heard
      PROVE  HearInv'
  BY <1>0, <1>e, ScreensAttend DEF HearInv
<1>1. CASE HandleCloseRequest(d)
  <2>1. QueuesApart'
    BY <1>0, <1>1, ApartSame DEF HandleCloseRequest, relayVars, clientVars
  <2>2. \A x \in Device : chat'[x].runs = chat[x].runs /\ chat'[x].heard = chat[x].heard
    BY <1>0, <1>1 DEF HandleCloseRequest, Screen
  <2> QED
    BY <1>e, <2>1, <2>2
<1>2. CASE ConfirmCancel(d)
  <2>1. QueuesApart'
    BY <1>0, <1>2, ApartSame DEF ConfirmCancel, relayVars, clientVars
  <2>2. \A x \in Device : chat'[x].runs = chat[x].runs /\ chat'[x].heard = chat[x].heard
    BY <1>0, <1>2 DEF ConfirmCancel, Screen
  <2> QED
    BY <1>e, <2>1, <2>2
<1>3. CASE ConfirmYes(d)
  <2>1. QueuesApart'
    BY <1>3, <1>s DEF ConfirmYes
  <2>2. \A x \in Device : chat'[x].runs = chat[x].runs /\ chat'[x].heard = chat[x].heard
    BY <1>0, <1>3 DEF ConfirmYes, Screen
  <2> QED
    BY <1>e, <2>1, <2>2
<1>4. CASE PromptYes(d)
  <2>1. QueuesApart'
    BY <1>4, <1>s DEF PromptYes
  <2>2. \A x \in Device : chat'[x].runs = chat[x].runs /\ chat'[x].heard = chat[x].heard
    BY <1>0, <1>4 DEF PromptYes, Screen
  <2> QED
    BY <1>e, <2>1, <2>2
<1>5. CASE PromptNo(d)
  <2>1. QueuesApart'
    BY <1>5, <1>s DEF PromptNo
  <2>2. \A x \in Device : chat'[x].runs = chat[x].runs /\ chat'[x].heard = chat[x].heard
    BY <1>0, <1>5 DEF PromptNo, Screen
  <2> QED
    BY <1>e, <2>1, <2>2
<1>6. CASE DismissCloser(d)
  <2>1. QueuesApart'
    BY <1>0, <1>6, ApartSame DEF DismissCloser, relayVars, clientVars
  <2>2. \A x \in Device : chat'[x].runs = chat[x].runs /\ chat'[x].heard = chat[x].heard
    BY <1>0, <1>6 DEF DismissCloser, Screen
  <2> QED
    BY <1>e, <2>1, <2>2
<1>7. ASSUME NEW s \in Session, ReceiveCloseRequest(d, s) PROVE HearInv'
  <2> DEFINE r == [chat[d] EXCEPT
                     !.peerWantsToClose = TRUE,
                     !.showInstagram = @ \/ chat[d].myWantsToClose,
                     !.alerts = IF chat[d].myWantsToClose THEN @
                                ELSE Push(d, "prompt", s)]
  <2>1. QueuesApart' /\ chat' = [chat EXCEPT ![d] = r]
    BY <1>0, <1>7, ApartReceive DEF ReceiveCloseRequest, Receive
  <2>2. r.runs = chat[d].runs /\ r.heard = chat[d].heard
    BY <1>0 DEF Screen
  <2> HIDE DEF r
  <2>3. \A x \in Device : chat'[x].runs = chat[x].runs /\ chat'[x].heard = chat[x].heard
    BY <1>0, <2>1, <2>2
  <2> QED
    BY <1>e, <2>1, <2>3
<1>8. ASSUME NEW s \in Session, ReceiveCloseAccept(d, s) PROVE HearInv'
  <2>1. QueuesApart'
    BY <1>0, <1>8, ApartReceive DEF ReceiveCloseAccept, Receive
  <2>2. \A x \in Device : chat'[x].runs = chat[x].runs /\ chat'[x].heard = chat[x].heard
    BY <1>0, <1>8 DEF ReceiveCloseAccept, Screen
  <2> QED
    BY <1>e, <2>1, <2>2
<1>9. ASSUME NEW s \in Session, ReceiveCloseReject(d, s) PROVE HearInv'
  <2>1. QueuesApart'
    BY <1>0, <1>9, ApartReceive DEF ReceiveCloseReject, Receive
  <2>2. \A x \in Device : chat'[x].runs = chat[x].runs /\ chat'[x].heard = chat[x].heard
    BY <1>0, <1>9 DEF ReceiveCloseReject, Screen
  <2> QED
    BY <1>e, <2>1, <2>2
<1> QED
  BY <1>1, <1>2, <1>3, <1>4, <1>5, <1>6, <1>7, <1>8, <1>9

LEMMA NextHear == ScreenTypeOK /\ HearInv /\ [SwitchNext]_vars => HearInv'
<1> SUFFICES ASSUME ScreenTypeOK, HearInv, [SwitchNext]_vars PROVE HearInv'
  OBVIOUS
<1>1. ASSUME NEW k \in Client, Transport(k) \/ SocketBreaks(k) PROVE HearInv'
  <2>1. PICK d \in Device, s \in Session : k = <<d, s>>
    BY DEF Client
  <2>2. QueuesApart' /\ chat' = chat
    BY <1>1, <2>1, ApartTransport DEF HearInv, ScreenTypeOK, Transport, SocketBreaks
  <2> QED
    BY <2>2 DEF HearInv
<1>2. ASSUME NEW k \in Client, LateStep(k) PROVE HearInv'
  <2>1. k[1] \in Device
    BY DEF Client
  <2>2. CASE UNCHANGED <<relayVars, chat, said, consented, refused>>
    BY <2>2, ApartSame DEF relayVars, clientVars, HearInv
  <2>3. ASSUME NEW s \in Session, Arrives(k[1], s, Head(down[<<k[1], s>>]).type),
               UNCHANGED <<chat, said, consented, refused>>
        PROVE  HearInv'
    BY <2>1, <2>3, ApartReceive DEF HearInv, ScreenTypeOK
  <2>4. CASE chat[k[1]].session # None /\ GoBack(k[1])
    BY <2>1, <2>4, RouteHear
  <2> QED
    BY <1>2, <2>2, <2>3, <2>4, LateShape
<1>3. CASE System
  <2>1. ASSUME NEW d \in Device, NEW s \in Session, OnMessage(d, s) PROVE HearInv'
    BY <2>1, TalkHear, DialogueHear DEF OnMessage
  <2> QED
    BY <1>1, <1>3, <1>2, <2>1, TalkHear, RouteHear
       DEF System, BackTimerFires, Leaves, LateStep
<1>4. CASE User
  BY <1>4, <1>2, RouteHear, TalkHear, DialogueHear
     DEF User, AtScreen, UserBack, DismissEnded, Leaves, LateStep
<1>5. CASE \E d \in Device, s \in Session : Switch(d, s)
  BY <1>5, RouteHear
<1>6. CASE UNCHANGED vars
  BY <1>6, ApartSame DEF vars, relayVars, clientVars, HearInv
<1> QED
  BY <1>1, <1>3, <1>4, <1>5, <1>6 DEF SwitchNext, Next

LEMMA HeardByParties == HearInv => OnlyPartiesHear
<1> SUFFICES ASSUME HearInv, NEW d \in Device, NEW i \in 1..Len(chat[d].heard)
             PROVE  d \in Parties(chat[d].heard[i].session)
  BY DEF OnlyPartiesHear
<1>1. chat[d].heard \in Seq(Addressed(d))
  BY DEF HearInv, Attends
<1>2. chat[d].heard[i] \in Addressed(d)
  BY <1>1
<1> QED
  BY <1>2 DEF Addressed

(***************************************************************************)
(* No device shows a text of a session it is not a party of, also when one *)
(* instance of the screen serves several sessions in turn: the clients of  *)
(* ws.ts, one per run of the effect in Chat.tsx, keep the sessions apart.  *)
(***************************************************************************)
THEOREM PartiesOnly == SwitchSpec => []OnlyPartiesHear
<1>1. ScreenTypeOK /\ HearInv /\ [SwitchNext]_vars => HearInv'
  BY NextHear
<1> QED
  BY <1>1, InitHear, SwitchScreenTypeCorrect, HeardByParties, PTL DEF SwitchSpec

\* Users who switch and talk are users of SwitchSpec.
LEMMA SwitchTalkIsSwitch == SwitchTalkSpec => SwitchSpec
<1>1. [SwitchTalkNext]_vars => [SwitchNext]_vars
  BY DEF SwitchTalkNext, SwitchNext, Next, User, AtScreen
<1> QED
  BY <1>1, PTL DEF SwitchTalkSpec, SwitchSpec

(***************************************************************************)
(* The same of the users who switch and talk and do nothing else.          *)
(***************************************************************************)
THEOREM TalkersPartiesOnly == SwitchTalkSpec => []OnlyPartiesHear
  BY SwitchTalkIsSwitch, PartiesOnly, PTL
=============================================================================

-------------------------------- MODULE Chat --------------------------------
(***************************************************************************)
(* The chat screen, mobile/CloseApp/src/screens/Chat.tsx, on every device, *)
(* talking through the relay: the key handshake, the encrypted texts and   *)
(* the "Come Closer" dialogue that reveals the two social handles.         *)
(*                                                                         *)
(* Cryptography is symbolic.  A key pair is the pair <<device, session>>   *)
(* of the screen instance that generated it, the key two pairs agree on is *)
(* the unordered set of both, and a box opens only under the key it was    *)
(* sealed with.                                                            *)
(*                                                                         *)
(* Dialogs are modal and the newest is on top (what React Native's Alert   *)
(* does on the device), so a user answers Head(alerts) and can use the     *)
(* screen itself only while there is none.  They belong to the phone, not  *)
(* to the screen, and stay when it unmounts.  Dialogs with a lone OK that  *)
(* does nothing are left out.                                              *)
(***************************************************************************)
EXTENDS Relay

CONSTANTS
  Caller,     \* the device whose link request created the session
  Callee,     \* the device that accepted it
  HasHandle,  \* the devices whose profile holds a social handle
  None,       \* null
  Talker,     \* bound: the devices whose users send texts
  MaxSaid     \* bound: how many texts a device sends

Parties(s) == {Caller[s], Callee[s]}

Other(d, s) == IF d = Caller[s] THEN Callee[s] ELSE Caller[s]

ASSUME PartiesAssumption ==
  /\ Caller \in [Session -> Device]
  /\ Callee \in [Session -> Device]
  /\ \A s \in Session : Caller[s] # Callee[s]

ASSUME HandleAssumption == HasHandle \subseteq Device

ASSUME NoneAssumption ==
  None \notin Device /\ None \notin Session /\ None \notin Client

ASSUME MaxSaidAssumption == MaxSaid \in Nat

VARIABLES
  chat,       \* the Chat screen of each device
  said,       \* how many texts each device has sent
  consented,  \* history: <<d, s>> when d answered Yes in session s
  refused,    \* history: <<d, s>> when d answered No to a request in s
  gone,       \* what an unmounted screen has left behind, by its key pair
  late        \* history: <<d, s, a>> when d answered a after leaving s

vars == <<relayVars, chat, said, consented, refused, gone, late>>

historyVars == <<consented, refused>>

leftVars == <<gone, late>>

-----------------------------------------------------------------------------
(***************************************************************************)
(* Messages, keys and dialogs.                                             *)
(***************************************************************************)
Key == Device \X Session

Body == [from : Device, session : Session, n : 1..MaxSaid]

Message ==
       [type : {"pubkey"}, from : Device, key : Key]
  \cup [type : {"msg"}, box : SUBSET Key, body : Body]
  \cup [type : {"close_request", "close_accept", "close_reject"}]

Dialog == [kind : {"confirm", "prompt", "ended", "closer"}, session : Session]

\* sha256(scalarMult(secretKey, peerPub)): the same from either side.
SharedKey(own, peer) == {own, peer}

(***************************************************************************)
(* The state of a screen: the refs and React state of the component, the   *)
(* sessions whose effect has run in this instance, the effects still       *)
(* awaiting loadProfile() before they send the public key, whether the     *)
(* handshake's own loadProfile() is still pending, and the dialogs shown.  *)
(***************************************************************************)
Screen ==
  [session : Session \cup {None}, runs : SUBSET Session,
   keyPair : Key \cup {None}, sessionKey : SUBSET Key,
   hello : SUBSET Session, reply : BOOLEAN,
   myWantsToClose : BOOLEAN, peerWantsToClose : BOOLEAN,
   showInstagram : BOOLEAN, peerInstagram : Device \cup {None},
   alerts : Seq(Dialog), backTimer : BOOLEAN, heard : Seq(Body)]

\* No instance of the screen, or nothing left of one.
NoScreen ==
  [session |-> None, runs |-> {}, keyPair |-> None, sessionKey |-> {},
   hello |-> {}, reply |-> FALSE,
   myWantsToClose |-> FALSE, peerWantsToClose |-> FALSE,
   showInstagram |-> FALSE, peerInstagram |-> None,
   alerts |-> <<>>, backTimer |-> FALSE, heard |-> <<>>]

\* Variant with a bug: the key pair is not generated on mount.
FreshScreenNoKeys(d, s) ==
  [NoScreen EXCEPT !.session = s, !.runs = {s}, !.hello = {s}]

\* A new instance after its first effect: new keys, connecting, no secrets.
FreshScreen(d, s) ==
  [NoScreen EXCEPT !.session = s, !.runs = {s}, !.keyPair = <<d, s>>,
                   !.hello = {s}]

(***************************************************************************)
(* What is left of screen r when it unmounts: the dialogs, the timer, the  *)
(* handlers of the sockets that are closing, and the refs these read.  Its *)
(* React state is gone, and its client is closed: what it still sends      *)
(* enters a queue that is never flushed, and is left out.                  *)
(***************************************************************************)
Remains(r) ==
  [NoScreen EXCEPT !.runs = r.runs, !.myWantsToClose = r.myWantsToClose,
                   !.peerWantsToClose = r.peerWantsToClose,
                   !.alerts = r.alerts, !.backTimer = r.backTimer]

\* No dialog that a screen of d has left behind covers the current one.
Uncovered(d) == \A s \in Session : gone[<<d, s>>].alerts = <<>>

Push(d, kind, s) == <<[kind |-> kind, session |-> s]>> \o chat[d].alerts

Asked(d, kind) == chat[d].alerts # <<>> /\ Head(chat[d].alerts).kind = kind

\* The session the dialog on top was opened for.
AskedIn(d) == Head(chat[d].alerts).session

\* The client clientRef.current points to.
Current(d) == <<d, chat[d].session>>

Init ==
  /\ RelayInit
  /\ chat = [d \in Device |-> NoScreen]
  /\ said = [d \in Device |-> 0]
  /\ consented = {}
  /\ refused = {}
  /\ gone = [k \in Client |-> NoScreen]
  /\ late = {}

-----------------------------------------------------------------------------
(***************************************************************************)
(* Entering and leaving the screen.                                        *)
(***************************************************************************)
\* Home navigates: the caller when it sends the request, the callee when it
\* accepts one in a dialog.  The instance mounts, its effect connects.
Navigate(d, s) ==
  /\ chat[d].session = None
  /\ d \in Parties(s)
  /\ readyState[<<d, s>>] = "NONE"
  /\ IF d = Callee[s] THEN readyState[<<Caller[s], s>>] # "NONE" ELSE Uncovered(d)
  /\ chat' = [chat EXCEPT ![d] = FreshScreen(d, s)]
  /\ readyState' = [readyState EXCEPT ![<<d, s>>] = "CONNECTING"]
  /\ UNCHANGED <<pendingMessages, up, down, joined, said, historyVars, leftVars>>

(***************************************************************************)
(* A second request is accepted while a chat is open: navigate() finds the *)
(* Chat route and only replaces its params, so the same instance closes    *)
(* the old client and runs the effect again.  Every ref and state          *)
(* variable, the key pair included, is kept.                               *)
(***************************************************************************)
Switch(d, s) ==
  /\ chat[d].session \notin {None, s}
  /\ d = Callee[s]
  /\ readyState[<<d, s>>] = "NONE"
  /\ readyState[<<Caller[s], s>>] # "NONE"
  /\ chat' = [chat EXCEPT ![d].session = s,
                          ![d].runs = @ \cup {s},
                          ![d].hello = @ \cup {s}]
  /\ readyState' = [AfterClose(readyState, Current(d))
                      EXCEPT ![<<d, s>>] = "CONNECTING"]
  /\ UNCHANGED <<pendingMessages, up, down, joined, said, historyVars, leftVars>>

\* Variant with a bug: the effect has no cleanup.
GoBackConnected(d) ==
  /\ chat' = [chat EXCEPT ![d] = NoScreen]
  /\ UNCHANGED <<relayVars, said, historyVars>>

\* nav.goBack(): the instance unmounts and its effect closes the client.
GoBack(d) ==
  /\ chat' = [chat EXCEPT ![d] = NoScreen]
  /\ readyState' = AfterClose(readyState, Current(d))
  /\ UNCHANGED <<pendingMessages, up, down, joined, said, historyVars>>

\* The screen of d is left, and r is what it was like at that moment.
Leaves(d, r) ==
  /\ GoBack(d)
  /\ gone' = [gone EXCEPT ![chat[d].keyPair] = Remains(r)]
  /\ UNCHANGED late

UserBack(d) ==
  /\ chat[d].session # None
  /\ chat[d].alerts = <<>>
  /\ Uncovered(d)
  /\ Leaves(d, chat[d])

-----------------------------------------------------------------------------
(***************************************************************************)
(* The handshake.                                                          *)
(***************************************************************************)
PubKey(d) == [type |-> "pubkey", from |-> d, key |-> chat[d].keyPair]

\* loadProfile() resolves in sendPublicKey: the key goes out on the client
\* of the effect that started it.
SendPublicKey(d, s) ==
  /\ s \in chat[d].hello
  /\ chat' = [chat EXCEPT ![d].hello = @ \ {s}]
  /\ ClientSend(<<d, s>>, PubKey(d))
  /\ UNCHANGED <<joined, said, historyVars, leftVars>>

\* loadProfile() resolves after a first handshake: the answer goes out on
\* whatever client is current by then.
Reply(d) ==
  /\ chat[d].reply
  /\ chat' = [chat EXCEPT ![d].reply = FALSE]
  /\ ClientSend(Current(d), PubKey(d))
  /\ UNCHANGED <<joined, said, historyVars, leftVars>>

\* A message of this type comes out of the socket of <<d, s>>.
Arrives(d, s, type) ==
  /\ ClientReceive(<<d, s>>)
  /\ Head(down[<<d, s>>]).type = type
  /\ UNCHANGED joined

\* The handler of an effect of this instance gets it.
Receive(d, s, type) == s \in chat[d].runs /\ Arrives(d, s, type)

\* Variant with a bug: a first handshake is not answered.
ReceivePubkeySilent(d, s) ==
  /\ Receive(d, s, "pubkey")
  /\ LET ev == Head(down[<<d, s>>])
     IN  chat' = [chat EXCEPT
           ![d].sessionKey = SharedKey(chat[d].keyPair, ev.key),
           ![d].peerInstagram = IF ev.from \in HasHandle THEN ev.from ELSE @]
  /\ UNCHANGED <<said, historyVars, leftVars>>

\* Variant with a bug: every public key is answered, not only the first.
ReceivePubkeyEager(d, s) ==
  /\ Receive(d, s, "pubkey")
  /\ LET ev == Head(down[<<d, s>>])
     IN  chat' = [chat EXCEPT
           ![d].sessionKey = SharedKey(chat[d].keyPair, ev.key),
           ![d].peerInstagram = IF ev.from \in HasHandle THEN ev.from ELSE @,
           ![d].reply = TRUE]
  /\ UNCHANGED <<said, historyVars, leftVars>>

ReceivePubkey(d, s) ==
  /\ Receive(d, s, "pubkey")
  /\ LET ev == Head(down[<<d, s>>])
         isFirstHandshake == chat[d].sessionKey = {}
     IN  chat' = [chat EXCEPT
           ![d].sessionKey = SharedKey(chat[d].keyPair, ev.key),
           ![d].peerInstagram = IF ev.from \in HasHandle THEN ev.from ELSE @,
           ![d].reply = @ \/ isFirstHandshake]
  /\ UNCHANGED <<said, historyVars, leftVars>>

-----------------------------------------------------------------------------
(***************************************************************************)
(* Texts.                                                                  *)
(***************************************************************************)
Say(d) ==
  /\ d \in Talker
  /\ chat[d].session # None
  /\ chat[d].alerts = <<>>
  /\ Uncovered(d)
  /\ chat[d].sessionKey # {}
  /\ said[d] < MaxSaid
  /\ said' = [said EXCEPT ![d] = @ + 1]
  /\ ClientSend(Current(d),
                [type |-> "msg", box |-> chat[d].sessionKey,
                 body |-> [from |-> d, session |-> chat[d].session,
                           n |-> said[d] + 1]])
  /\ UNCHANGED <<joined, chat, historyVars, leftVars>>

\* Variant with a bug: a new text is put before the ones already shown.
ReceiveMsgPrepends(d, s) ==
  /\ Receive(d, s, "msg")
  /\ LET ev == Head(down[<<d, s>>])
     IN  chat' = [chat EXCEPT
           ![d].heard = IF chat[d].sessionKey = ev.box
                        THEN <<ev.body>> \o @ ELSE @]
  /\ UNCHANGED <<said, historyVars, leftVars>>

\* A text that does not open under the current key is dropped in silence.
ReceiveMsg(d, s) ==
  /\ Receive(d, s, "msg")
  /\ LET ev == Head(down[<<d, s>>])
     IN  chat' = [chat EXCEPT
           ![d].heard = IF chat[d].sessionKey = ev.box
                        THEN Append(@, ev.body) ELSE @]
  /\ UNCHANGED <<said, historyVars, leftVars>>

-----------------------------------------------------------------------------
(***************************************************************************)
(* "Come Closer".                                                          *)
(***************************************************************************)
Control(type) == [type |-> type]

\* The Close button, shown once there is a session key.
HandleCloseRequest(d) ==
  /\ chat[d].session # None
  /\ chat[d].alerts = <<>>
  /\ Uncovered(d)
  /\ chat[d].sessionKey # {}
  /\ ~chat[d].myWantsToClose
  /\ chat' = [chat EXCEPT ![d].alerts = Push(d, "confirm", chat[d].session)]
  /\ UNCHANGED <<relayVars, said, historyVars, leftVars>>

ConfirmCancel(d) ==
  /\ Asked(d, "confirm")
  /\ chat' = [chat EXCEPT ![d].alerts = Tail(@)]
  /\ UNCHANGED <<relayVars, said, historyVars, leftVars>>

ConfirmYes(d) ==
  /\ Asked(d, "confirm")
  /\ consented' = consented \cup {<<d, AskedIn(d)>>}
  /\ chat' = [chat EXCEPT
       ![d].myWantsToClose = TRUE,
       ![d].showInstagram = @ \/ chat[d].peerWantsToClose,
       ![d].alerts = IF chat[d].peerWantsToClose
                     THEN <<[kind |-> "closer", session |-> AskedIn(d)]>> \o Tail(@)
                     ELSE Tail(@)]
  /\ ClientSend(Current(d), Control("close_request"))
  /\ UNCHANGED <<joined, said, refused, leftVars>>

\* Variant with a bug: a request reveals before this user has agreed.
ReceiveCloseRequestReveals(d, s) ==
  /\ Receive(d, s, "close_request")
  /\ chat' = [chat EXCEPT
       ![d].peerWantsToClose = TRUE,
       ![d].showInstagram = TRUE,
       ![d].alerts = IF chat[d].myWantsToClose THEN @
                     ELSE Push(d, "prompt", s)]
  /\ UNCHANGED <<said, historyVars, leftVars>>

\* Variant with a bug: a request that crosses ours is asked about again.
ReceiveCloseRequestAsks(d, s) ==
  /\ Receive(d, s, "close_request")
  /\ chat' = [chat EXCEPT
       ![d].peerWantsToClose = TRUE,
       ![d].showInstagram = @ \/ chat[d].myWantsToClose,
       ![d].alerts = Push(d, "prompt", s)]
  /\ UNCHANGED <<said, historyVars, leftVars>>

\* Variant with a bug: a request that crosses ours is only noted.
ReceiveCloseRequestNoted(d, s) ==
  /\ Receive(d, s, "close_request")
  /\ chat' = [chat EXCEPT
       ![d].peerWantsToClose = TRUE,
       ![d].alerts = IF chat[d].myWantsToClose THEN @
                     ELSE Push(d, "prompt", s)]
  /\ UNCHANGED <<said, historyVars, leftVars>>

ReceiveCloseRequest(d, s) ==
  /\ Receive(d, s, "close_request")
  /\ chat' = [chat EXCEPT
       ![d].peerWantsToClose = TRUE,
       ![d].showInstagram = @ \/ chat[d].myWantsToClose,
       ![d].alerts = IF chat[d].myWantsToClose THEN @
                     ELSE Push(d, "prompt", s)]
  /\ UNCHANGED <<said, historyVars, leftVars>>

PromptYes(d) ==
  /\ Asked(d, "prompt")
  /\ consented' = consented \cup {<<d, AskedIn(d)>>}
  /\ chat' = [chat EXCEPT ![d].myWantsToClose = TRUE,
                          ![d].showInstagram = TRUE,
                          ![d].alerts = Tail(@)]
  /\ ClientSend(Current(d), Control("close_accept"))
  /\ UNCHANGED <<joined, said, refused, leftVars>>

\* Variant with a bug: No leaves the user in the chat.
PromptNoStays(d) ==
  /\ Asked(d, "prompt")
  /\ refused' = refused \cup {<<d, AskedIn(d)>>}
  /\ chat' = [chat EXCEPT ![d].alerts = Tail(@)]
  /\ ClientSend(Current(d), Control("close_reject"))
  /\ UNCHANGED <<joined, said, consented, leftVars>>

\* Variant with a bug: No is not sent to the other party.
PromptNoUnsent(d) ==
  /\ Asked(d, "prompt")
  /\ refused' = refused \cup {<<d, AskedIn(d)>>}
  /\ chat' = [chat EXCEPT
       ![d].alerts = <<[kind |-> "ended", session |-> AskedIn(d)]>> \o Tail(@)]
  /\ UNCHANGED <<relayVars, said, consented, leftVars>>

PromptNo(d) ==
  /\ Asked(d, "prompt")
  /\ refused' = refused \cup {<<d, AskedIn(d)>>}
  /\ chat' = [chat EXCEPT
       ![d].alerts = <<[kind |-> "ended", session |-> AskedIn(d)]>> \o Tail(@)]
  /\ ClientSend(Current(d), Control("close_reject"))
  /\ UNCHANGED <<joined, said, consented, leftVars>>

ReceiveCloseAccept(d, s) ==
  /\ Receive(d, s, "close_accept")
  /\ chat' = [chat EXCEPT ![d].showInstagram = TRUE]
  /\ UNCHANGED <<said, historyVars, leftVars>>

ReceiveCloseReject(d, s) ==
  /\ Receive(d, s, "close_reject")
  /\ chat' = [chat EXCEPT ![d].alerts = Push(d, "ended", s)]
  /\ UNCHANGED <<said, historyVars, leftVars>>

\* OK under "Chat ended."
DismissEnded(d) ==
  Asked(d, "ended") /\ Leaves(d, [chat[d] EXCEPT !.alerts = Tail(@)])

\* OK under "You both agreed!" starts the timer that leaves the screen.
DismissCloser(d) ==
  /\ Asked(d, "closer")
  /\ chat' = [chat EXCEPT ![d].alerts = Tail(@), ![d].backTimer = TRUE]
  /\ UNCHANGED <<relayVars, said, historyVars, leftVars>>

BackTimerFires(d) ==
  chat[d].backTimer /\ Leaves(d, [chat[d] EXCEPT !.backTimer = FALSE])

-----------------------------------------------------------------------------
(***************************************************************************)
(* After the screen was left.  The instance with key pair k of device k[1] *)
(* is unmounted, but the handlers it handed to dialogs, to its timer and   *)
(* to sockets that are still closing run when their turn comes.  Which of  *)
(* the dialogs of several instances is on top is left open.                *)
(***************************************************************************)
Lingers(k, kind) == gone[k].alerts # <<>> /\ Head(gone[k].alerts).kind = kind

LateAnswer(k, answer) == <<k[1], Head(gone[k].alerts).session, answer>>

\* Variant with a bug: asked although this user has agreed.
LateReceiveAsks(k, s) ==
  /\ s \in gone[k].runs
  /\ Arrives(k[1], s, "close_request")
  /\ gone' = [gone EXCEPT
       ![k].peerWantsToClose = TRUE,
       ![k].alerts = <<[kind |-> "prompt", session |-> s]>> \o @]
  /\ UNCHANGED <<chat, said, historyVars, late>>

\* A frame arrives on a socket in its closing handshake.
LateReceive(k, s) ==
  LET type == Head(down[<<k[1], s>>]).type IN
  /\ s \in gone[k].runs
  /\ Arrives(k[1], s, type)
  /\ gone' = [gone EXCEPT
       ![k].peerWantsToClose = @ \/ type = "close_request",
       ![k].alerts =
         IF type = "close_request" /\ ~gone[k].myWantsToClose
         THEN <<[kind |-> "prompt", session |-> s]>> \o @
         ELSE IF type = "close_reject"
         THEN <<[kind |-> "ended", session |-> s]>> \o @
         ELSE @]
  /\ UNCHANGED <<chat, said, historyVars, late>>

LateCancel(k) ==
  /\ Lingers(k, "confirm")
  /\ gone' = [gone EXCEPT ![k].alerts = Tail(@)]
  /\ UNCHANGED <<relayVars, chat, said, historyVars, late>>

LateConfirmYes(k) ==
  /\ Lingers(k, "confirm")
  /\ late' = late \cup {LateAnswer(k, "Yes")}
  /\ gone' = [gone EXCEPT
       ![k].myWantsToClose = TRUE,
       ![k].alerts = IF gone[k].peerWantsToClose
                     THEN <<[kind |-> "closer", session |-> Head(@).session]>> \o Tail(@)
                     ELSE Tail(@)]
  /\ UNCHANGED <<relayVars, chat, said, historyVars>>

LatePromptYes(k) ==
  /\ Lingers(k, "prompt")
  /\ late' = late \cup {LateAnswer(k, "Yes")}
  /\ gone' = [gone EXCEPT ![k].myWantsToClose = TRUE, ![k].alerts = Tail(@)]
  /\ UNCHANGED <<relayVars, chat, said, historyVars>>

LatePromptNo(k) ==
  /\ Lingers(k, "prompt")
  /\ late' = late \cup {LateAnswer(k, "No")}
  /\ gone' = [gone EXCEPT
       ![k].alerts = <<[kind |-> "ended", session |-> Head(@).session]>> \o Tail(@)]
  /\ UNCHANGED <<relayVars, chat, said, historyVars>>

LateDismissCloser(k) ==
  /\ Lingers(k, "closer")
  /\ gone' = [gone EXCEPT ![k].alerts = Tail(@), ![k].backTimer = TRUE]
  /\ UNCHANGED <<relayVars, chat, said, historyVars, late>>

(***************************************************************************)
(* goBack() of an unmounted screen pops whatever route is current: at Home *)
(* there is none to pop, but a chat opened in the meantime is left.        *)
(***************************************************************************)
LateBack(k, r) ==
  LET d == k[1] IN
  /\ \/ /\ chat[d].session = None
        /\ gone' = [gone EXCEPT ![k] = r]
        /\ UNCHANGED <<relayVars, chat, said, historyVars>>
     \/ /\ chat[d].session # None
        /\ gone' = [gone EXCEPT ![k] = r, ![chat[d].keyPair] = Remains(chat[d])]
        /\ GoBack(d)
  /\ UNCHANGED late

LateDismissEnded(k) ==
  Lingers(k, "ended") /\ LateBack(k, [gone[k] EXCEPT !.alerts = Tail(@)])

LateTimerFires(k) ==
  gone[k].backTimer /\ LateBack(k, [gone[k] EXCEPT !.backTimer = FALSE])

-----------------------------------------------------------------------------
\* The sockets and the relay, which leave the screens alone.
Transport(c) ==
  /\ \/ ClientOpened(c) /\ UNCHANGED joined
     \/ RelayJoin(c)
     \/ RelayForward(c)
     \/ RelayLeave(c)
  /\ UNCHANGED <<chat, said, historyVars, leftVars>>

SocketBreaks(c) ==
  ClientLost(c) /\ UNCHANGED <<joined, chat, said, historyVars, leftVars>>

OnMessage(d, s) ==
  \/ ReceivePubkey(d, s)
  \/ ReceiveMsg(d, s)
  \/ ReceiveCloseRequest(d, s)
  \/ ReceiveCloseAccept(d, s)
  \/ ReceiveCloseReject(d, s)

\* What happens by itself: network, event loop and timers.
System ==
  \/ \E c \in Client : Transport(c)
  \/ \E d \in Device, s \in Session : OnMessage(d, s) \/ SendPublicKey(d, s)
  \/ \E d \in Device : Reply(d) \/ BackTimerFires(d)
  \/ \E k \in Client, s \in Session : LateReceive(k, s)
  \/ \E k \in Client : LateTimerFires(k)

\* What a user may do, or not, with the phone as it is.
AtScreen ==
  \/ \E d \in Device :
       \/ UserBack(d) \/ Say(d)
       \/ HandleCloseRequest(d) \/ ConfirmYes(d) \/ ConfirmCancel(d)
       \/ PromptYes(d) \/ PromptNo(d)
       \/ DismissEnded(d) \/ DismissCloser(d)
  \/ \E k \in Client :
       \/ LateCancel(k) \/ LateConfirmYes(k) \/ LatePromptYes(k)
       \/ LatePromptNo(k) \/ LateDismissEnded(k) \/ LateDismissCloser(k)

User == AtScreen \/ \E d \in Device, s \in Session : Navigate(d, s)

Next == System \/ User \/ \E c \in Client : SocketBreaks(c)

Fairness == WF_vars(System)

Spec == Init /\ [][Next]_vars /\ Fairness

Talked == \E d \in Device : said[d] > 0

Touched ==
  \/ consented # {} \/ refused # {}
  \/ \E d \in Device : chat[d].alerts # <<>>
  \/ \E k \in Client : gone[k].alerts # <<>>

\* Users who take only one call, though they may make another, and who either
\* talk or touch Close.
AgainNext ==
  /\ \/ System \/ AtScreen
     \/ \E d \in Device, s \in Session :
          /\ d = Callee[s] => \A t \in Session : readyState[<<d, t>>] = "NONE"
          /\ Navigate(d, s)
     \/ \E c \in Client : SocketBreaks(c)
  /\ ~(Talked' /\ Touched')

AgainSpec == Init /\ [][AgainNext]_vars /\ Fairness

\* Spec with the reuse of a mounted screen for another session.
SwitchNext == Next \/ \E d \in Device, s \in Session : Switch(d, s)

SwitchSpec == Init /\ [][SwitchNext]_vars /\ Fairness

\* Users who switch and talk, but do not go back and do not touch Close.
SwitchTalkNext ==
  \/ System
  \/ \E d \in Device, s \in Session : Navigate(d, s) \/ Switch(d, s)
  \/ \E d \in Device : Say(d)

SwitchTalkSpec == Init /\ [][SwitchTalkNext]_vars /\ Fairness

-----------------------------------------------------------------------------
(***************************************************************************)
(* Properties.                                                             *)
(***************************************************************************)
TransportTypeOK ==
  /\ readyState \in [Client -> ReadyState]
  /\ pendingMessages \in [Client -> Seq(Message)]
  /\ up \in [Client -> Seq(Message)]
  /\ down \in [Client -> Seq(Message)]
  /\ joined \subseteq Client

Mounted(d) == chat[d].session # None /\ chat[d].keyPair # None

Answer == {"Yes", "No"}

LeftTypeOK ==
  /\ gone \in [Client -> Screen]
  /\ late \subseteq Device \X Session \X Answer

ScreenTypeOK ==
  /\ TransportTypeOK
  /\ chat \in [Device -> Screen]
  /\ \A d \in Device : chat[d] = NoScreen \/ Mounted(d)
  /\ said \in [Device -> 0..MaxSaid]
  /\ consented \subseteq Client
  /\ refused \subseteq Client

\* Every variable holds values of its kind, and a screen is either not
\* there or has a session and a key pair to work with.
TypeOK == ScreenTypeOK /\ LeftTypeOK

\* The header renders the peer's handle (Chat.tsx:327).
Revealed(d) == chat[d].showInstagram /\ chat[d].peerInstagram # None

(***************************************************************************)
(* A handle is on screen only if both its owner and the viewer answered    *)
(* Yes in one and the same session ("Both want to close - reveal           *)
(* Instagram", Chat.tsx:177), however the two dialogues interleave.        *)
(***************************************************************************)
MutualConsent ==
  \A d \in Device : Revealed(d) =>
    \E s \in Session : {<<d, s>>, <<chat[d].peerInstagram, s>>} \subseteq consented

(***************************************************************************)
(* The inductive invariant behind MutualConsent and KeyAgreement, for      *)
(* screens that are not reused.  C is the set of consents so far.  Who has *)
(* sent a message is told by the queue it is in, so what a message claims  *)
(* about consent can be stated for every queue on its way: a request means *)
(* that its sender agreed, an acceptance that both did.                    *)
(***************************************************************************)
Sent(C, d, s) ==
  {m \in Message :
     /\ m.type = "pubkey" => m.from = d /\ m.key = <<d, s>>
     /\ m.type = "close_request" => <<d, s>> \in C
     /\ m.type = "close_accept" => <<d, s>> \in C /\ <<Other(d, s), s>> \in C}

Asking(C, d, s) ==
  {a \in Dialog : a.session = s /\ (a.kind = "prompt" => <<Other(d, s), s>> \in C)}

\* What screen r of device d has concluded is backed by the consents C.
Backed(C, d, r) ==
  r.session # None =>
    LET s == r.session
        e == Other(d, s)
    IN  /\ d \in Parties(s)
        /\ r.runs = {s} /\ r.hello \subseteq {s} /\ r.keyPair = <<d, s>>
        /\ r.sessionKey \in {{}, {<<d, s>>, <<e, s>>}}
        /\ r.peerInstagram \in {None, e}
        /\ r.alerts \in Seq(Asking(C, d, s))
        /\ r.myWantsToClose => <<d, s>> \in C
        /\ r.peerWantsToClose => <<e, s>> \in C
        /\ r.showInstagram => <<d, s>> \in C /\ <<e, s>> \in C

QueuesBacked ==
  \A d \in Device, s \in Session : LET c == <<d, s>> IN
    /\ readyState[c] # "NONE" \/ c \in joined => d \in Parties(s)
    /\ pendingMessages[c] \in Seq(Sent(consented, d, s))
    /\ up[c] \in Seq(Sent(consented, d, s))
    /\ down[c] \in Seq(Sent(consented, Other(d, s), s))

(***************************************************************************)
(* Every key, flag, dialog and message in flight is backed by the consents *)
(* its senders have really given (the whole dialogue, Chat.tsx:108-309).   *)
(***************************************************************************)
ConsentInv ==
  QueuesBacked /\ \A d \in Device : Backed(consented, d, chat[d])

(***************************************************************************)
(* Two screens of one session that both finished the handshake hold the    *)
(* same key, made of the key pairs the two generated for that session.     *)
(***************************************************************************)
KeyAgreement ==
  \A d \in Device : LET s == chat[d].session IN
    s # None => chat[d].sessionKey \in {{}, {<<Caller[s], s>>, <<Callee[s], s>>}}

(***************************************************************************)
(* After a No in a session nobody's screen of that session ever shows the  *)
(* other's handle: what was under way when the user refused, and what the  *)
(* other side does before it hears of it, cannot lead to a reveal; neither *)
(* when the No was given after leaving, and is never sent at all.          *)
(***************************************************************************)
RefusalStands ==
  \A d, e \in Device, s \in Session :
    /\ <<d, s>> \in refused \/ <<d, s, "No">> \in late
    /\ chat[e].session = s
    => ~chat[e].showInstagram

\* The screens that show, or would show, the handle of the other party.
ShownIn == {<<d, chat[d].session>> : d \in {e \in Device : chat[e].showInstagram}}

Dialogue == INSTANCE ComeCloser
  WITH Session <- Session, Members <- [s \in Session |-> Parties(s)],
       agreed <- consented, refused <- refused, late <- late, shown <- ShownIn

(***************************************************************************)
(* The chat implements the abstract dialogue: a shown handle is the flag   *)
(* showInstagram of the screen, the answers are those given to its         *)
(* dialogs.  So nobody on the screen is asked again once he agreed or      *)
(* refused, what a user answers to a dialog that outlived his screen, even *)
(* against his own No, changes nothing for anyone, nothing shows that was  *)
(* not agreed by both, and what is shown stays until the screen is left    *)
(* (Chat.tsx:166-309).                                                     *)
(***************************************************************************)
ComeCloserSpec == Dialogue!Spec

(***************************************************************************)
(* What a screen has left behind stays apart from what goes on: it belongs *)
(* to a session its device has left for good, asks a question only if the  *)
(* user had not agreed there, and a No to it is a No of someone who never  *)
(* agreed (Chat.tsx:172-218 and the cleanup at 241).  Inductive.           *)
(***************************************************************************)
LeftApart(d, s) ==
  LET k == <<d, s>>
      left == gone[k]
  IN  /\ left.runs \subseteq {s}
      /\ s \in left.runs =>
           /\ d \in Parties(s) /\ chat[d].session # s /\ readyState[k] # "NONE"
           /\ k \in consented => left.myWantsToClose
      /\ left.alerts # <<>> => s \in left.runs
      /\ \A i \in 1..Len(left.alerts) :
           /\ left.alerts[i].session = s
           /\ left.alerts[i].kind = "prompt" => k \notin consented
      /\ \A a \in Answer : <<d, s, a>> \in late =>
           s \in left.runs /\ (a = "No" => k \notin consented)

LeftInv == \A d \in Device, s \in Session : LeftApart(d, s)

(***************************************************************************)
(* A socket that is open or opening is that of the session on screen: no   *)
(* way of leaving, not even through a dialog or timer of an earlier chat,  *)
(* leaves a connection behind (the effect's cleanup, Chat.tsx:241-244).    *)
(***************************************************************************)
SocketsOwned ==
  \A d \in Device, s \in Session :
    readyState[<<d, s>>] \in {"CONNECTING", "OPEN"} => chat[d].session = s

(***************************************************************************)
(* The texts a screen shows are a contiguous run of what the other party   *)
(* said in this session: in order, none twice, and none missing between    *)
(* two that are shown.  (Texts before the first may be lost.)              *)
(***************************************************************************)
TextsContiguous ==
  \A d \in Device : LET heard == chat[d].heard IN
    \A i \in 1..Len(heard) :
      /\ heard[i].from = Other(d, chat[d].session)
      /\ heard[i].session = chat[d].session
      /\ i > 1 => heard[i].n = heard[i - 1].n + 1

(***************************************************************************)
(* No device shows a text of a session it is not a party of, even when one *)
(* screen instance serves several sessions in turn.                        *)
(***************************************************************************)
OnlyPartiesHear ==
  \A d \in Device : \A i \in 1..Len(chat[d].heard) :
    d \in Parties(chat[d].heard[i].session)

In(d, s) == chat[d].session = s

\* Someone has left the session, or the network has cut someone off.
Ended(s) == \E d \in Parties(s) : ~In(d, s) \/ readyState[<<d, s>>] = "LOST"

(***************************************************************************)
(* Once both parties are in the session, both get the session key (or the  *)
(* session ends), whoever joined first and whatever the relay dropped      *)
(* before the other one was there (the answer of Chat.tsx:133).            *)
(***************************************************************************)
HandshakeCompletes ==
  \A s \in Session :
    (\A d \in Parties(s) : In(d, s))
      ~> (Ended(s) \/ \A d \in Parties(s) : chat[d].sessionKey # {})

(***************************************************************************)
(* Public keys stop flowing: the two sides do not answer each other's      *)
(* answers for ever ("prevents infinite loop", Chat.tsx:134).              *)
(***************************************************************************)
HandshakeQuiesces ==
  <>[](\A d \in Device, s \in Session :
         /\ ~chat[d].reply
         /\ \A i \in 1..Len(up[<<d, s>>]) : up[<<d, s>>][i].type # "pubkey")

(***************************************************************************)
(* If both parties said Yes, both screens come to show the handles, also   *)
(* when the two requests cross on the wire.                                *)
(***************************************************************************)
MutualReveal ==
  \A s \in Session :
    (\A d \in Parties(s) : <<d, s>> \in consented)
      ~> (Ended(s) \/ \A d \in Parties(s) : chat[d].showInstagram)

\* A No reaches the other party, although the one who refused may leave.
RefusalReaches ==
  \A d \in Device, s \in Session :
    LET e == Other(d, s) IN
    <<d, s>> \in refused
      ~> \/ ~In(e, s)
         \/ \E c \in {<<d, s>>, <<e, s>>} : readyState[c] = "LOST"
         \/ \E i \in 1..Len(chat[e].alerts) : chat[e].alerts[i].kind = "ended"

(***************************************************************************)
(* A text that arrives at a mounted screen of its own session can be read  *)
(* there ("each client decrypts locally and renders", README.md:97).       *)
(***************************************************************************)
ArrivingTextReadable ==
  \A d \in Device, s \in Session :
    LET c == <<d, s>> IN
    In(d, s) /\ readyState[c] = "OPEN" /\ down[c] # <<>> /\ Head(down[c]).type = "msg"
      => chat[d].sessionKey = Head(down[c]).box
=============================================================================

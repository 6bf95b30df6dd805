----------------------------- MODULE ChatProofs -----------------------------
(***************************************************************************)
(* Theorems about module Chat, for any number of devices, sessions, texts  *)
(* and broken sockets: that it keeps its types, and, in every run in which *)
(* no mounted screen is reused, that handles are revealed by mutual        *)
(* consent only and that the two sides agree on the key.                   *)
(***************************************************************************)
EXTENDS Chat, TLAPS, SequenceTheorems

-----------------------------------------------------------------------------
(***************************************************************************)
(* Type correctness.                                                       *)
(***************************************************************************)
LEMMA NoScreenType == NoScreen \in Screen
  BY DEF NoScreen, Screen

LEMMA InitType == Init => ScreenTypeOK
<1> SUFFICES ASSUME Init PROVE ScreenTypeOK
  OBVIOUS
<1>1. TransportTypeOK
  BY DEF Init, RelayInit, ClientInit, TransportTypeOK, ReadyState
<1>2. said \in [Device -> 0..MaxSaid]
  BY MaxSaidAssumption DEF Init
<1>3. chat \in [Device -> Screen] /\ \A d \in Device : chat[d] = NoScreen
  BY NoScreenType DEF Init
<1>4. QED
  BY <1>1, <1>2, <1>3 DEF Init, ScreenTypeOK

\* A screen that has done anything is mounted, and its client exists.
LEMMA ActiveScreen ==
  ASSUME ScreenTypeOK, NEW d \in Device,
         \/ chat[d].session # None
         \/ chat[d].runs # {}
         \/ chat[d].hello # {}
         \/ chat[d].reply
         \/ chat[d].alerts # <<>>
         \/ chat[d].backTimer
  PROVE  /\ Mounted(d)
         /\ chat[d].session \in Session
         /\ chat[d].keyPair \in Key
         /\ Current(d) \in Client
  BY DEF ScreenTypeOK, Mounted, NoScreen, Screen, Current, Client

LEMMA SendType ==
  ASSUME TransportTypeOK, NEW c \in Client, NEW m \in Message,
         ClientSend(c, m), joined' = joined
  PROVE  TransportTypeOK'
<1>1. /\ Append(up[c], m) \in Seq(Message)
      /\ Append(pendingMessages[c], m) \in Seq(Message)
  BY AppendProperties DEF TransportTypeOK
<1>2. CASE readyState[c] = "OPEN"
  BY <1>1, <1>2 DEF TransportTypeOK, ClientSend
<1>3. CASE readyState[c] # "OPEN"
  BY <1>1, <1>3 DEF TransportTypeOK, ClientSend
<1>4. QED
  BY <1>2, <1>3

LEMMA TransportType ==
  ASSUME TransportTypeOK, NEW c \in Client,
         \/ Transport(c)
         \/ SocketBreaks(c)
  PROVE  TransportTypeOK'
<1>1. CASE ClientOpened(c) /\ UNCHANGED joined
  BY <1>1 DEF TransportTypeOK, ClientOpened, ReadyState
<1>2. CASE RelayJoin(c)
  BY <1>2 DEF TransportTypeOK, RelayJoin, clientVars
<1>3. CASE RelayForward(c)
  BY <1>3 DEF TransportTypeOK, RelayForward
<1>4. CASE RelayLeave(c)
  BY <1>4 DEF TransportTypeOK, RelayLeave, ReadyState
<1>5. CASE ClientLost(c) /\ UNCHANGED joined
  BY <1>5 DEF TransportTypeOK, ClientLost, ReadyState
<1>6. QED
  BY <1>1, <1>2, <1>3, <1>4, <1>5 DEF Transport, SocketBreaks

LEMMA CloseType ==
  ASSUME TransportTypeOK, NEW c \in Client
  PROVE  AfterClose(readyState, c) \in [Client -> ReadyState]
  BY DEF TransportTypeOK, AfterClose, ReadyState

\* What the delivery of a message leaves typed, and what is delivered.
LEMMA ReceiveType ==
  ASSUME ScreenTypeOK, NEW d \in Device, NEW s \in Session, NEW type,
         Receive(d, s, type)
  PROVE  /\ TransportTypeOK'
         /\ Head(down[<<d, s>>]) \in Message
         /\ Head(down[<<d, s>>]).type = type
         /\ Mounted(d) /\ chat[d].session \in Session /\ chat[d].keyPair \in Key
<1> DEFINE c == <<d, s>>
<1>1. c \in Client /\ down[c] \in Seq(Message) /\ down[c] # <<>>
  BY DEF Receive, Arrives, ClientReceive, ScreenTypeOK, TransportTypeOK, Client
<1>2. Head(down[c]) \in Message /\ Tail(down[c]) \in Seq(Message)
  BY <1>1
<1>3. TransportTypeOK'
  BY <1>1, <1>2 DEF Receive, Arrives, ClientReceive, ScreenTypeOK, TransportTypeOK
<1>4. chat[d].runs # {}
  BY DEF Receive, Arrives
<1>5. QED
  BY <1>2, <1>3, <1>4, ActiveScreen DEF Receive, Arrives

\* A dialog put on top of a stack of dialogs.
LEMMA PushType ==
  ASSUME NEW a \in Dialog, NEW st \in Seq(Dialog)
  PROVE  /\ <<a>> \o st \in Seq(Dialog)
         /\ st # <<>> => Head(st) \in Dialog /\ Tail(st) \in Seq(Dialog)
  OBVIOUS

LEMMA PubKeyType ==
  ASSUME NEW d \in Device, chat[d].keyPair \in Key
  PROVE  PubKey(d) \in Message
  BY DEF PubKey, Message

LEMMA ControlType ==
  ASSUME NEW type \in {"close_request", "close_accept", "close_reject"}
  PROVE  Control(type) \in Message
  BY DEF Control, Message

\* A change to one mounted screen keeps the screens typed.
LEMMA ScreenUpdate ==
  ASSUME ScreenTypeOK, NEW d \in Device, NEW r \in Screen,
         chat' = [chat EXCEPT ![d] = r],
         r = NoScreen \/ (r.session # None /\ r.keyPair # None)
  PROVE  /\ chat' \in [Device -> Screen]
         /\ \A x \in Device : chat'[x] = NoScreen \/ Mounted(x)'
  BY DEF ScreenTypeOK, Mounted

\* A change to one screen that leaves it in its session with its key pair.
Edits(c, r) == r \in Screen /\ r.session = c.session /\ r.keyPair = c.keyPair

LEMMA EditFlags ==
  ASSUME NEW c \in Screen, NEW b \in BOOLEAN
  PROVE  /\ Edits(c, [c EXCEPT !.reply = b])
         /\ Edits(c, [c EXCEPT !.showInstagram = b])
  BY DEF Screen, Edits

LEMMA EditHello ==
  ASSUME NEW c \in Screen, NEW h \in SUBSET Session
  PROVE  Edits(c, [c EXCEPT !.hello = h])
  BY DEF Screen, Edits

LEMMA EditKey ==
  ASSUME NEW c \in Screen, NEW k \in SUBSET Key, NEW p \in Device \cup {None},
         NEW b \in BOOLEAN
  PROVE  Edits(c, [c EXCEPT !.sessionKey = k, !.peerInstagram = p, !.reply = b])
  BY DEF Screen, Edits

LEMMA EditHeard ==
  ASSUME NEW c \in Screen, NEW h \in Seq(Body)
  PROVE  Edits(c, [c EXCEPT !.heard = h])
  BY DEF Screen, Edits

LEMMA EditAlerts ==
  ASSUME NEW c \in Screen, NEW st \in Seq(Dialog), NEW b \in BOOLEAN, NEW v \in BOOLEAN
  PROVE  /\ Edits(c, [c EXCEPT !.alerts = st])
         /\ Edits(c, [c EXCEPT !.alerts = st, !.backTimer = b])
         /\ Edits(c, [c EXCEPT !.myWantsToClose = b, !.showInstagram = v, !.alerts = st])
         /\ Edits(c, [c EXCEPT !.peerWantsToClose = b, !.showInstagram = v, !.alerts = st])
<1>1. /\ Edits(c, [c EXCEPT !.alerts = st])
      /\ Edits(c, [c EXCEPT !.alerts = st, !.backTimer = b])
  BY DEF Screen, Edits
<1>2. Edits(c, [c EXCEPT !.myWantsToClose = b, !.showInstagram = v, !.alerts = st])
  BY DEF Screen, Edits
<1>3. Edits(c, [c EXCEPT !.peerWantsToClose = b, !.showInstagram = v, !.alerts = st])
  BY DEF Screen, Edits
<1>4. QED
  BY <1>1, <1>2, <1>3

\* The screen c that is reused for session s.
Moves(c, r, s) == r \in Screen /\ r.session = s /\ r.keyPair = c.keyPair

LEMMA EditSession ==
  ASSUME NEW c \in Screen, NEW s \in Session, NEW R \in SUBSET Session,
         NEW h \in SUBSET Session
  PROVE  Moves(c, [c EXCEPT !.session = s, !.runs = R, !.hello = h], s)
  BY DEF Screen, Moves

LEMMA ScreenOf ==
  ASSUME ScreenTypeOK, NEW d \in Device
  PROVE  chat[d] \in Screen
  BY DEF ScreenTypeOK

\* An edited screen is still mounted.
LEMMA StillMounted ==
  ASSUME NEW d, NEW r, Mounted(d), Edits(chat[d], r)
  PROVE  r \in Screen /\ r.session # None /\ r.keyPair # None
  BY DEF Mounted, Edits

(***************************************************************************)
(* What a handler of an unmounted screen does to everything but the rest   *)
(* of that screen: nothing, or it takes a frame out of a closing socket,   *)
(* or it leaves the screen that is current now.                            *)
(***************************************************************************)
LateStep(k) ==
  \/ \E s \in Session : LateReceive(k, s)
  \/ LateCancel(k) \/ LateConfirmYes(k) \/ LatePromptYes(k) \/ LatePromptNo(k)
  \/ LateDismissEnded(k) \/ LateDismissCloser(k) \/ LateTimerFires(k)

LEMMA LateShape ==
  ASSUME NEW k \in Client, LateStep(k)
  PROVE  \/ UNCHANGED <<relayVars, chat, said, consented, refused>>
         \/ /\ \E s \in Session :
                 Arrives(k[1], s, Head(down[<<k[1], s>>]).type)
            /\ UNCHANGED <<chat, said, consented, refused>>
         \/ chat[k[1]].session # None /\ GoBack(k[1])
<1> USE DEF historyVars
<1>1. ASSUME NEW s \in Session, LateReceive(k, s)
      PROVE  /\ Arrives(k[1], s, Head(down[<<k[1], s>>]).type)
             /\ UNCHANGED <<chat, said, consented, refused>>
  BY <1>1 DEF LateReceive
<1>2. ASSUME \/ LateCancel(k) \/ LateConfirmYes(k) \/ LatePromptYes(k)
             \/ LatePromptNo(k) \/ LateDismissCloser(k)
      PROVE  UNCHANGED <<relayVars, chat, said, consented, refused>>
  BY <1>2 DEF LateCancel, LateConfirmYes, LatePromptYes, LatePromptNo, LateDismissCloser
<1>3. ASSUME NEW r, LateBack(k, r)
      PROVE  \/ UNCHANGED <<relayVars, chat, said, consented, refused>>
             \/ chat[k[1]].session # None /\ GoBack(k[1])
  BY <1>3 DEF LateBack
<1> QED
  BY <1>1, <1>2, <1>3 DEF LateStep, LateDismissEnded, LateTimerFires

\* A frame taken out of a socket leaves the queues typed.
LEMMA ArrivesType ==
  ASSUME TransportTypeOK, NEW d \in Device, NEW s \in Session, NEW type,
         Arrives(d, s, type)
  PROVE  TransportTypeOK'
<1> DEFINE c == <<d, s>>
<1>1. c \in Client /\ down[c] \in Seq(Message) /\ down[c] # <<>>
  BY DEF Arrives, ClientReceive, TransportTypeOK, Client
<1>2. Tail(down[c]) \in Seq(Message)
  BY <1>1
<1> QED
  BY <1>1, <1>2 DEF Arrives, ClientReceive, TransportTypeOK

\* Every step, one by one, keeps the screens and the sockets typed.
LEMMA SwitchNextType == ScreenTypeOK /\ [SwitchNext]_vars => ScreenTypeOK'
<1> SUFFICES ASSUME ScreenTypeOK, [SwitchNext]_vars PROVE ScreenTypeOK'
  OBVIOUS
<1> USE DEF historyVars
<1>a. ASSUME NEW c \in Client, Transport(c) \/ SocketBreaks(c) PROVE ScreenTypeOK'
  <2>1. TransportTypeOK'
    BY <1>a, TransportType DEF ScreenTypeOK
  <2>2. UNCHANGED <<chat, said, consented, refused>>
    BY <1>a DEF Transport, SocketBreaks
  <2>3. QED
    BY <2>1, <2>2 DEF ScreenTypeOK, Mounted
<1>b. ASSUME NEW d \in Device, NEW s \in Session, Navigate(d, s) PROVE ScreenTypeOK'
  <2>0. <<d, s>> \in Key /\ {s} \in SUBSET Session
    BY DEF Key
  <2>1. FreshScreen(d, s) \in Screen
    BY <2>0, NoScreenType DEF FreshScreen, Screen
  <2>2. FreshScreen(d, s).session # None /\ FreshScreen(d, s).keyPair # None
    BY NoneAssumption DEF FreshScreen, NoScreen, Client
  <2>3. TransportTypeOK'
    BY <1>b DEF Navigate, ScreenTypeOK, TransportTypeOK, ReadyState
  <2>4. QED
    BY <1>b, <2>1, <2>2, <2>3, ScreenUpdate DEF Navigate, ScreenTypeOK
<1>c. ASSUME NEW d \in Device, NEW s \in Session, Switch(d, s) PROVE ScreenTypeOK'
  <2> DEFINE r == [chat[d] EXCEPT !.session = s, !.runs = @ \cup {s},
                                  !.hello = @ \cup {s}]
  <2>1. chat[d].session # None /\ Mounted(d) /\ Current(d) \in Client
    BY <1>c, ActiveScreen DEF Switch
  <2>a. chat[d].runs \cup {s} \in SUBSET Session /\ chat[d].hello \cup {s} \in SUBSET Session
    BY DEF ScreenTypeOK, Screen
  <2>b. Moves(chat[d], r, s)
    BY <2>a, ScreenOf, EditSession
  <2>2. r \in Screen /\ chat' = [chat EXCEPT ![d] = r]
    BY <1>c, <2>b DEF Switch, ScreenTypeOK, Moves
  <2>3. r.session # None /\ r.keyPair # None
    BY <2>1, <2>b, NoneAssumption DEF Mounted, Moves
  <2>4. TransportTypeOK'
    BY <1>c, <2>1, CloseType DEF Switch, ScreenTypeOK, TransportTypeOK, ReadyState
  <2> HIDE DEF r
  <2>5. QED
    BY <1>c, <2>2, <2>3, <2>4, ScreenUpdate DEF Switch, ScreenTypeOK
<1>d. ASSUME NEW d \in Device, GoBack(d), Mounted(d), Current(d) \in Client
      PROVE  ScreenTypeOK'
  <2>1. TransportTypeOK'
    BY <1>d, CloseType DEF GoBack, ScreenTypeOK, TransportTypeOK
  <2>2. QED
    BY <1>d, <2>1, NoScreenType, ScreenUpdate DEF GoBack, ScreenTypeOK
<1>e. ASSUME NEW d \in Device,
             UserBack(d) \/ DismissEnded(d) \/ BackTimerFires(d)
      PROVE  ScreenTypeOK'
  BY <1>d, <1>e, ActiveScreen DEF UserBack, DismissEnded, BackTimerFires, Asked, Leaves
<1>f. ASSUME NEW d \in Device, NEW s \in Session, SendPublicKey(d, s)
      PROVE  ScreenTypeOK'
  <2> DEFINE r == [chat[d] EXCEPT !.hello = @ \ {s}]
  <2>1. Mounted(d) /\ chat[d].keyPair \in Key
    BY <1>f, ActiveScreen DEF SendPublicKey
  <2>2. chat' = [chat EXCEPT ![d] = r]
    BY <1>f DEF SendPublicKey, ScreenTypeOK
  <2>a. chat[d].hello \ {s} \in SUBSET Session
    BY ScreenOf DEF Screen
  <2>b. Edits(chat[d], r)
    BY <2>a, ScreenOf, EditHello
  <2>3. r \in Screen /\ r.session # None /\ r.keyPair # None
    BY <2>1, <2>b, StillMounted
  <2>4. <<d, s>> \in Client
    BY DEF Client
  <2>5. TransportTypeOK'
    BY <1>f, <2>1, <2>4, PubKeyType, SendType DEF SendPublicKey, ScreenTypeOK
  <2> HIDE DEF r
  <2>6. QED
    BY <1>f, <2>2, <2>3, <2>5, ScreenUpdate DEF SendPublicKey, ScreenTypeOK
<1>g. ASSUME NEW d \in Device, Reply(d) PROVE ScreenTypeOK'
  <2> DEFINE r == [chat[d] EXCEPT !.reply = FALSE]
  <2>1. Mounted(d) /\ chat[d].keyPair \in Key /\ Current(d) \in Client
    BY <1>g, ActiveScreen DEF Reply
  <2>2. chat' = [chat EXCEPT ![d] = r]
    BY <1>g DEF Reply, ScreenTypeOK
  <2>a. Edits(chat[d], r)
    BY ScreenOf, EditFlags
  <2>3. r \in Screen /\ r.session # None /\ r.keyPair # None
    BY <2>1, <2>a, StillMounted
  <2>4. TransportTypeOK'
    BY <1>g, <2>1, PubKeyType, SendType DEF Reply, ScreenTypeOK
  <2> HIDE DEF r
  <2>5. QED
    BY <1>g, <2>2, <2>3, <2>4, ScreenUpdate DEF Reply, ScreenTypeOK
<1>h. ASSUME NEW d \in Device, NEW s \in Session, ReceivePubkey(d, s)
      PROVE  ScreenTypeOK'
  <2> DEFINE ev == Head(down[<<d, s>>])
             r == [chat[d] EXCEPT
                     !.sessionKey = SharedKey(chat[d].keyPair, ev.key),
                     !.peerInstagram = IF ev.from \in HasHandle THEN ev.from ELSE @,
                     !.reply = @ \/ chat[d].sessionKey = {}]
  <2>1. /\ Mounted(d) /\ chat[d].keyPair \in Key
        /\ TransportTypeOK'
        /\ ev \in Message /\ ev.type = "pubkey"
    BY <1>h, ReceiveType DEF ReceivePubkey
  <2>2. ev.from \in Device /\ ev.key \in Key
    BY <2>1 DEF Message
  <2>3. SharedKey(chat[d].keyPair, ev.key) \in SUBSET Key
    BY <2>1, <2>2 DEF SharedKey
  <2>4. chat' = [chat EXCEPT ![d] = r]
    BY <1>h DEF ReceivePubkey, ScreenTypeOK
  <2>a. (IF ev.from \in HasHandle THEN ev.from ELSE chat[d].peerInstagram)
          \in Device \cup {None}
    BY <2>2, ScreenOf DEF Screen
  <2>b. (chat[d].reply \/ chat[d].sessionKey = {}) \in BOOLEAN
    OBVIOUS
  <2>5. Edits(chat[d], r)
    BY <2>a, <2>b, <2>3, ScreenOf, EditKey
  <2> HIDE DEF r
  <2>6. r \in Screen /\ r.session # None /\ r.keyPair # None
    BY <2>1, <2>5, StillMounted
  <2>7. QED
    BY <1>h, <2>1, <2>4, <2>6, ScreenUpdate DEF ReceivePubkey, ScreenTypeOK
<1>i. ASSUME NEW d \in Device, Say(d) PROVE ScreenTypeOK'
  <2> DEFINE m == [type |-> "msg", box |-> chat[d].sessionKey,
                   body |-> [from |-> d, session |-> chat[d].session,
                             n |-> said[d] + 1]]
  <2>1. chat[d].session \in Session /\ Current(d) \in Client
    BY <1>i, ActiveScreen DEF Say
  <2>2. said[d] + 1 \in 1..MaxSaid /\ said' \in [Device -> 0..MaxSaid]
    BY <1>i, MaxSaidAssumption DEF Say, ScreenTypeOK
  <2>3. m.body \in Body /\ chat[d].sessionKey \in SUBSET Key
    BY <2>1, <2>2 DEF Body, ScreenTypeOK, Screen
  <2>4. m \in Message
    BY <2>3 DEF Message
  <2>5. TransportTypeOK'
    BY <1>i, <2>1, <2>4, SendType DEF Say, ScreenTypeOK
  <2>6. QED
    BY <1>i, <2>2, <2>5 DEF Say, ScreenTypeOK, Mounted
<1>j. ASSUME NEW d \in Device, NEW s \in Session, ReceiveMsg(d, s)
      PROVE  ScreenTypeOK'
  <2> DEFINE ev == Head(down[<<d, s>>])
             h == IF chat[d].sessionKey = ev.box
                  THEN Append(chat[d].heard, ev.body) ELSE chat[d].heard
             r == [chat[d] EXCEPT !.heard = h]
  <2>1. /\ Mounted(d) /\ TransportTypeOK'
        /\ ev \in Message /\ ev.type = "msg"
    BY <1>j, ReceiveType DEF ReceiveMsg
  <2>2. ev.body \in Body
    BY <2>1 DEF Message
  <2>3. h \in Seq(Body)
    BY <2>2 DEF ScreenTypeOK, Screen
  <2>4. chat' = [chat EXCEPT ![d] = r]
    BY <1>j DEF ReceiveMsg, ScreenTypeOK
  <2>a. Edits(chat[d], r)
    BY <2>3, ScreenOf, EditHeard
  <2> HIDE DEF r
  <2>5. r \in Screen /\ r.session # None /\ r.keyPair # None
    BY <2>1, <2>a, StillMounted
  <2>6. QED
    BY <1>j, <2>1, <2>4, <2>5, ScreenUpdate DEF ReceiveMsg, ScreenTypeOK
<1>k. ASSUME NEW d \in Device, HandleCloseRequest(d) PROVE ScreenTypeOK'
  <2> DEFINE st == Push(d, "confirm", chat[d].session)
             r == [chat[d] EXCEPT !.alerts = st]
  <2>1. Mounted(d) /\ chat[d].session \in Session
    BY <1>k, ActiveScreen DEF HandleCloseRequest
  <2>2. [kind |-> "confirm", session |-> chat[d].session] \in Dialog
    BY <2>1 DEF Dialog
  <2>3. st \in Seq(Dialog)
    BY <2>2, PushType DEF Push, ScreenTypeOK, Screen
  <2>4. chat' = [chat EXCEPT ![d] = r]
    BY <1>k DEF HandleCloseRequest, ScreenTypeOK
  <2>a. Edits(chat[d], r)
    BY <2>3, ScreenOf, EditAlerts
  <2> HIDE DEF r
  <2>5. r \in Screen /\ r.session # None /\ r.keyPair # None
    BY <2>1, <2>a, StillMounted
  <2>6. QED
    BY <1>k, <2>4, <2>5, ScreenUpdate
       DEF HandleCloseRequest, ScreenTypeOK, TransportTypeOK, relayVars, clientVars
<1>l. ASSUME NEW d \in Device, chat[d].alerts # <<>>
      PROVE  /\ Mounted(d) /\ Current(d) \in Client
             /\ <<d, AskedIn(d)>> \in Client
             /\ Tail(chat[d].alerts) \in Seq(Dialog)
             /\ \A kind \in {"closer", "ended"} :
                  <<[kind |-> kind, session |-> AskedIn(d)]>> \o Tail(chat[d].alerts)
                    \in Seq(Dialog)
  <2>1. Mounted(d) /\ Current(d) \in Client
    BY <1>l, ActiveScreen
  <2>2. chat[d].alerts \in Seq(Dialog)
    BY DEF ScreenTypeOK, Screen
  <2>3. Head(chat[d].alerts) \in Dialog /\ Tail(chat[d].alerts) \in Seq(Dialog)
    BY <1>l, <2>2
  <2>4. AskedIn(d) \in Session
    BY <2>3 DEF AskedIn, Dialog
  <2>5. \A kind \in {"closer", "ended"} :
          [kind |-> kind, session |-> AskedIn(d)] \in Dialog
    BY <2>4 DEF Dialog
  <2>6. QED
    BY <2>1, <2>3, <2>4, <2>5, PushType DEF Client
<1>m. ASSUME NEW d \in Device, ConfirmCancel(d) \/ DismissCloser(d)
      PROVE  ScreenTypeOK'
  <2> DEFINE rc == [chat[d] EXCEPT !.alerts = Tail(@)]
             rd == [chat[d] EXCEPT !.alerts = Tail(@), !.backTimer = TRUE]
  <2>1. chat[d].alerts # <<>>
    BY <1>m DEF ConfirmCancel, DismissCloser, Asked
  <2>a. Edits(chat[d], rc) /\ Edits(chat[d], rd)
    BY <1>l, <2>1, ScreenOf, EditAlerts
  <2>3. chat' = [chat EXCEPT ![d] = rc] \/ chat' = [chat EXCEPT ![d] = rd]
    BY <1>m DEF ConfirmCancel, DismissCloser, ScreenTypeOK
  <2>4. UNCHANGED <<relayVars, said, consented, refused>>
    BY <1>m DEF ConfirmCancel, DismissCloser
  <2> HIDE DEF rc, rd
  <2>2. /\ rc \in Screen /\ rc.session # None /\ rc.keyPair # None
        /\ rd \in Screen /\ rd.session # None /\ rd.keyPair # None
    BY <1>l, <2>1, <2>a, StillMounted
  <2>5. QED
    BY <2>2, <2>3, <2>4, ScreenUpdate
       DEF ScreenTypeOK, TransportTypeOK, relayVars, clientVars
<1>n. ASSUME NEW d \in Device, ConfirmYes(d) PROVE ScreenTypeOK'
  <2> DEFINE show == chat[d].showInstagram \/ chat[d].peerWantsToClose
             st == IF chat[d].peerWantsToClose
                   THEN <<[kind |-> "closer", session |-> AskedIn(d)]>>
                          \o Tail(chat[d].alerts)
                   ELSE Tail(chat[d].alerts)
             r == [chat[d] EXCEPT !.myWantsToClose = TRUE,
                                  !.showInstagram = show, !.alerts = st]
  <2>1. chat[d].alerts # <<>>
    BY <1>n DEF ConfirmYes, Asked
  <2>2. st \in Seq(Dialog)
    BY <1>l, <2>1
  <2>3. show \in BOOLEAN
    OBVIOUS
  <2>4. chat' = [chat EXCEPT ![d] = r]
    BY <1>n DEF ConfirmYes, ScreenTypeOK
  <2>a. Mounted(d)
    BY <1>l, <2>1
  <2> HIDE DEF st, show
  <2>b. Edits(chat[d], r)
    BY <2>2, <2>3, ScreenOf, EditAlerts
  <2>5. r \in Screen /\ r.session # None /\ r.keyPair # None
    BY <2>a, <2>b, StillMounted
  <2>6. TransportTypeOK'
    BY <1>n, <1>l, <2>1, ControlType, SendType DEF ConfirmYes, ScreenTypeOK
  <2> HIDE DEF r
  <2>7. QED
    BY <1>n, <1>l, <2>1, <2>4, <2>5, <2>6, ScreenUpdate DEF ConfirmYes, ScreenTypeOK
<1>o. ASSUME NEW d \in Device, PromptYes(d) PROVE ScreenTypeOK'
  <2> DEFINE r == [chat[d] EXCEPT !.myWantsToClose = TRUE,
                                  !.showInstagram = TRUE, !.alerts = Tail(@)]
  <2>1. chat[d].alerts # <<>>
    BY <1>o DEF PromptYes, Asked
  <2>2. chat' = [chat EXCEPT ![d] = r]
    BY <1>o DEF PromptYes, ScreenTypeOK
  <2>a. Edits(chat[d], r)
    BY <1>l, <2>1, ScreenOf, EditAlerts
  <2>3. r \in Screen /\ r.session # None /\ r.keyPair # None
    BY <1>l, <2>1, <2>a, StillMounted
  <2>4. TransportTypeOK'
    BY <1>o, <1>l, <2>1, ControlType, SendType DEF PromptYes, ScreenTypeOK
  <2> HIDE DEF r
  <2>5. QED
    BY <1>o, <1>l, <2>1, <2>2, <2>3, <2>4, ScreenUpdate DEF PromptYes, ScreenTypeOK
<1>p. ASSUME NEW d \in Device, PromptNo(d) PROVE ScreenTypeOK'
  <2> DEFINE st == <<[kind |-> "ended", session |-> AskedIn(d)]>>
                     \o Tail(chat[d].alerts)
             r == [chat[d] EXCEPT !.alerts = st]
  <2>1. chat[d].alerts # <<>>
    BY <1>p DEF PromptNo, Asked
  <2>2. st \in Seq(Dialog)
    BY <1>l, <2>1
  <2>3. chat' = [chat EXCEPT ![d] = r]
    BY <1>p DEF PromptNo, ScreenTypeOK
  <2>a. Edits(chat[d], r)
    BY <2>2, ScreenOf, EditAlerts
  <2>4. r \in Screen /\ r.session # None /\ r.keyPair # None
    BY <1>l, <2>1, <2>a, StillMounted
  <2>5. TransportTypeOK'
    BY <1>p, <1>l, <2>1, ControlType, SendType DEF PromptNo, ScreenTypeOK
  <2> HIDE DEF r
  <2>6. QED
    BY <1>p, <1>l, <2>1, <2>3, <2>4, <2>5, ScreenUpdate DEF PromptNo, ScreenTypeOK
<1>q. ASSUME NEW d \in Device, NEW s \in Session,
             \/ ReceiveCloseRequest(d, s)
             \/ ReceiveCloseAccept(d, s)
             \/ ReceiveCloseReject(d, s)
      PROVE  ScreenTypeOK'
  <2> DEFINE show == chat[d].showInstagram \/ chat[d].myWantsToClose
             st == IF chat[d].myWantsToClose THEN chat[d].alerts
                   ELSE Push(d, "prompt", s)
             r1 == [chat[d] EXCEPT !.peerWantsToClose = TRUE,
                                   !.showInstagram = show, !.alerts = st]
             r2 == [chat[d] EXCEPT !.showInstagram = TRUE]
             r3 == [chat[d] EXCEPT !.alerts = Push(d, "ended", s)]
  <2>1. Mounted(d) /\ TransportTypeOK'
    BY <1>q, ReceiveType
       DEF ReceiveCloseRequest, ReceiveCloseAccept, ReceiveCloseReject
  <2>2. \A kind \in {"prompt", "ended"} : [kind |-> kind, session |-> s] \in Dialog
    BY DEF Dialog
  <2>3. chat[d].alerts \in Seq(Dialog)
    BY DEF ScreenTypeOK, Screen
  <2>4. /\ Push(d, "prompt", s) \in Seq(Dialog)
        /\ Push(d, "ended", s) \in Seq(Dialog)
    BY <2>2, <2>3, PushType DEF Push
  <2>5. st \in Seq(Dialog)
    BY <2>3, <2>4
  <2>6. show \in BOOLEAN
    OBVIOUS
  <2>7. Edits(chat[d], r1)
    BY <2>5, <2>6, ScreenOf, EditAlerts
  <2>8. Edits(chat[d], r2)
    BY ScreenOf, EditFlags
  <2>9. Edits(chat[d], r3)
    BY <2>4, ScreenOf, EditAlerts
  <2>10. \E r \in {r1, r2, r3} : chat' = [chat EXCEPT ![d] = r]
    BY <1>q DEF ReceiveCloseRequest, ReceiveCloseAccept, ReceiveCloseReject, ScreenTypeOK
  <2>11. UNCHANGED <<said, consented, refused>>
    BY <1>q DEF ReceiveCloseRequest, ReceiveCloseAccept, ReceiveCloseReject
  <2> HIDE DEF r1, r2, r3
  <2>12. \A r \in {r1, r2, r3} : r \in Screen /\ r.session # None /\ r.keyPair # None
    BY <2>1, <2>7, <2>8, <2>9, StillMounted
  <2>13. QED
    BY <2>1, <2>10, <2>11, <2>12, ScreenUpdate DEF ScreenTypeOK
<1>r. ASSUME UNCHANGED vars PROVE ScreenTypeOK'
  BY <1>r DEF vars, relayVars, clientVars, ScreenTypeOK, TransportTypeOK, Mounted
<1>t. ASSUME NEW k \in Client, LateStep(k) PROVE ScreenTypeOK'
  <2>1. k[1] \in Device
    BY DEF Client
  <2>2. CASE UNCHANGED <<relayVars, chat, said, consented, refused>>
    BY <2>2 DEF relayVars, clientVars, ScreenTypeOK, TransportTypeOK, Mounted
  <2>3. ASSUME NEW s \in Session, Arrives(k[1], s, Head(down[<<k[1], s>>]).type),
               UNCHANGED <<chat, said, consented, refused>>
        PROVE  ScreenTypeOK'
    <3>1. TransportTypeOK'
      BY <2>1, <2>3, ArrivesType DEF ScreenTypeOK
    <3> QED
      BY <2>3, <3>1 DEF ScreenTypeOK, Mounted
  <2>4. CASE chat[k[1]].session # None /\ GoBack(k[1])
    BY <1>d, <2>1, <2>4, ActiveScreen
  <2> QED
    BY <1>t, <2>2, <2>3, <2>4, LateShape
<1>s. QED
  BY <1>a, <1>b, <1>c, <1>e, <1>f, <1>g, <1>h, <1>i, <1>j, <1>k, <1>m, <1>n,
     <1>o, <1>p, <1>q, <1>r, <1>t
     DEF SwitchNext, Next, System, User, AtScreen, OnMessage, LateStep

LEMMA SwitchScreenTypeCorrect == SwitchSpec => []ScreenTypeOK
  BY InitType, SwitchNextType, PTL DEF SwitchSpec

LEMMA ScreenTypeCorrect == Spec => []ScreenTypeOK
<1>1. [Next]_vars => [SwitchNext]_vars
  BY DEF SwitchNext
<1>2. ScreenTypeOK /\ [Next]_vars => ScreenTypeOK'
  BY <1>1, SwitchNextType
<1>3. QED
  BY InitType, <1>2, PTL DEF Spec

-----------------------------------------------------------------------------
(***************************************************************************)
(* What an unmounted screen leaves behind.                                 *)
(***************************************************************************)
LEMMA RemainsType ==
  ASSUME NEW r \in Screen
  PROVE  /\ Remains(r) \in Screen /\ Remains(r).runs = r.runs
         /\ Remains(r).alerts = r.alerts
         /\ Remains(r).myWantsToClose = r.myWantsToClose
         /\ Remains(r).peerWantsToClose = r.peerWantsToClose
<1>1. /\ r.runs \in SUBSET Session /\ r.alerts \in Seq(Dialog)
      /\ r.myWantsToClose \in BOOLEAN /\ r.peerWantsToClose \in BOOLEAN
      /\ r.backTimer \in BOOLEAN
  BY DEF Screen
<1> QED
  BY <1>1, NoScreenType DEF Remains, Screen

\* A dialog that lingers on phone k[1] is answered.
LEMMA LingersType ==
  ASSUME LeftTypeOK, NEW k \in Client, gone[k].alerts # <<>>
  PROVE  /\ gone[k] \in Screen
         /\ Head(gone[k].alerts) \in Dialog /\ Tail(gone[k].alerts) \in Seq(Dialog)
         /\ Head(gone[k].alerts).session \in Session
         /\ \A kind \in {"closer", "ended"} :
              <<[kind |-> kind, session |-> Head(gone[k].alerts).session]>>
                \o Tail(gone[k].alerts) \in Seq(Dialog)
<1>1. gone[k] \in Screen /\ gone[k].alerts \in Seq(Dialog)
  BY DEF LeftTypeOK, Screen
<1>2. Head(gone[k].alerts) \in Dialog /\ Tail(gone[k].alerts) \in Seq(Dialog)
  BY <1>1
<1>3. Head(gone[k].alerts).session \in Session
  BY <1>2 DEF Dialog
<1>4. \A kind \in {"closer", "ended"} :
        [kind |-> kind, session |-> Head(gone[k].alerts).session] \in Dialog
  BY <1>3 DEF Dialog
<1> QED
  BY <1>1, <1>2, <1>3, <1>4, PushType

LEMMA InitLeftType == Init => LeftTypeOK
  BY NoScreenType DEF Init, LeftTypeOK

\* Handlers of mounted screens, sockets and relay touch nothing left behind.
LEMMA LeftUntouched ==
  ASSUME [SwitchNext]_vars,
         ~ \E d \in Device : UserBack(d) \/ DismissEnded(d) \/ BackTimerFires(d),
         ~ \E k \in Client : LateStep(k)
  PROVE  UNCHANGED <<gone, late>>
<1> USE DEF leftVars
<1>1. ASSUME NEW c \in Client, Transport(c) \/ SocketBreaks(c)
      PROVE  UNCHANGED <<gone, late>>
  BY <1>1 DEF Transport, SocketBreaks
<1>2. ASSUME NEW d \in Device, NEW s \in Session,
             Navigate(d, s) \/ Switch(d, s) \/ SendPublicKey(d, s)
      PROVE  UNCHANGED <<gone, late>>
  BY <1>2 DEF Navigate, Switch, SendPublicKey
<1>3. ASSUME NEW d \in Device, NEW s \in Session, OnMessage(d, s)
      PROVE  UNCHANGED <<gone, late>>
  BY <1>3 DEF OnMessage, ReceivePubkey, ReceiveMsg, ReceiveCloseRequest,
              ReceiveCloseAccept, ReceiveCloseReject
<1>4. ASSUME NEW d \in Device,
             \/ Reply(d) \/ Say(d) \/ HandleCloseRequest(d) \/ ConfirmYes(d)
             \/ ConfirmCancel(d) \/ PromptYes(d) \/ PromptNo(d) \/ DismissCloser(d)
      PROVE  UNCHANGED <<gone, late>>
  BY <1>4 DEF Reply, Say, HandleCloseRequest, ConfirmYes, ConfirmCancel, PromptYes,
              PromptNo, DismissCloser
<1>5. CASE UNCHANGED vars
  BY <1>5 DEF vars
<1> QED
  BY <1>1, <1>2, <1>3, <1>4, <1>5
     DEF SwitchNext, Next, System, User, AtScreen, LateStep

LEMMA LeavesType ==
  ASSUME ScreenTypeOK, LeftTypeOK, NEW d \in Device, NEW r \in Screen, Mounted(d),
         Leaves(d, r)
  PROVE  LeftTypeOK'
<1>1. chat[d].keyPair \in Client
  BY DEF ScreenTypeOK, Screen, Mounted, Key, Client
<1>2. Remains(r) \in Screen
  BY RemainsType
<1> QED
  BY <1>1, <1>2 DEF Leaves, LeftTypeOK

LEMMA LateType ==
  ASSUME ScreenTypeOK, LeftTypeOK, NEW k \in Client, LateStep(k)
  PROVE  LeftTypeOK'
<1> DEFINE g == gone[k]
<1>0. g \in Screen /\ g.alerts \in Seq(Dialog) /\ k[1] \in Device
      /\ gone \in [Client -> Screen]
  BY DEF LeftTypeOK, Screen, Client
<1>a. ASSUME NEW r \in Screen, gone' = [gone EXCEPT ![k] = r],
             late' \subseteq late \cup (Device \X Session \X Answer)
      PROVE  LeftTypeOK'
  BY <1>a DEF LeftTypeOK
<1>b. ASSUME g.alerts # <<>>, NEW a \in Answer
      PROVE  LateAnswer(k, a) \in Device \X Session \X Answer
  BY <1>0, <1>b, LingersType DEF LateAnswer
<1>1. ASSUME NEW s \in Session, LateReceive(k, s) PROVE LeftTypeOK'
  <2> DEFINE type == Head(down[<<k[1], s>>]).type
             st == IF type = "close_request" /\ ~g.myWantsToClose
                   THEN <<[kind |-> "prompt", session |-> s]>> \o g.alerts
                   ELSE IF type = "close_reject"
                   THEN <<[kind |-> "ended", session |-> s]>> \o g.alerts
                   ELSE g.alerts
             w == g.peerWantsToClose \/ type = "close_request"
             r == [g EXCEPT !.peerWantsToClose = w, !.alerts = st]
  <2>1. \A kind \in {"prompt", "ended"} : [kind |-> kind, session |-> s] \in Dialog
    BY DEF Dialog
  <2>2. st \in Seq(Dialog)
    BY <1>0, <2>1, PushType
  <2>3. w \in BOOLEAN
    OBVIOUS
  <2>4. gone' = [gone EXCEPT ![k] = r] /\ late' = late
    BY <1>0, <1>1 DEF LateReceive
  <2> HIDE DEF st, w
  <2>5. r \in Screen
    BY <1>0, <2>2, <2>3 DEF Screen
  <2> HIDE DEF r
  <2> QED
    BY <1>a, <2>4, <2>5
<1>2. CASE LateCancel(k)
  <2> DEFINE r == [g EXCEPT !.alerts = Tail(@)]
  <2>1. r \in Screen
    BY <1>0, <1>2, LingersType DEF LateCancel, Lingers, Screen
  <2>2. gone' = [gone EXCEPT ![k] = r] /\ late' = late
    BY <1>0, <1>2 DEF LateCancel
  <2> HIDE DEF r
  <2> QED
    BY <1>a, <2>1, <2>2
<1>3. CASE LateConfirmYes(k)
  <2> DEFINE st == IF g.peerWantsToClose
                   THEN <<[kind |-> "closer", session |-> Head(g.alerts).session]>>
                          \o Tail(g.alerts)
                   ELSE Tail(g.alerts)
             r == [g EXCEPT !.myWantsToClose = TRUE, !.alerts = st]
  <2>0. g.alerts # <<>>
    BY <1>3 DEF LateConfirmYes, Lingers
  <2>1. st \in Seq(Dialog)
    BY <1>0, <2>0, LingersType
  <2>2. gone' = [gone EXCEPT ![k] = r] /\ late' = late \cup {LateAnswer(k, "Yes")}
    BY <1>0, <1>3 DEF LateConfirmYes
  <2> HIDE DEF st
  <2>3. r \in Screen
    BY <1>0, <2>1 DEF Screen
  <2> HIDE DEF r
  <2> QED
    BY <1>a, <1>b, <2>0, <2>2, <2>3 DEF Answer
<1>4. CASE LatePromptYes(k)
  <2> DEFINE r == [g EXCEPT !.myWantsToClose = TRUE, !.alerts = Tail(@)]
  <2>0. g.alerts # <<>>
    BY <1>4 DEF LatePromptYes, Lingers
  <2>1. r \in Screen
    BY <1>0, <2>0, LingersType DEF Screen
  <2>2. gone' = [gone EXCEPT ![k] = r] /\ late' = late \cup {LateAnswer(k, "Yes")}
    BY <1>0, <1>4 DEF LatePromptYes
  <2> HIDE DEF r
  <2> QED
    BY <1>a, <1>b, <2>0, <2>1, <2>2 DEF Answer
<1>5. CASE LatePromptNo(k)
  <2> DEFINE r == [g EXCEPT !.alerts = <<[kind |-> "ended", session |-> Head(@).session]>>
                                         \o Tail(@)]
  <2>0. g.alerts # <<>>
    BY <1>5 DEF LatePromptNo, Lingers
  <2>1. r \in Screen
    BY <1>0, <2>0, LingersType DEF Screen
  <2>2. gone' = [gone EXCEPT ![k] = r] /\ late' = late \cup {LateAnswer(k, "No")}
    BY <1>0, <1>5 DEF LatePromptNo
  <2> HIDE DEF r
  <2> QED
    BY <1>a, <1>b, <2>0, <2>1, <2>2 DEF Answer
<1>6. CASE LateDismissCloser(k)
  <2> DEFINE r == [g EXCEPT !.alerts = Tail(@), !.backTimer = TRUE]
  <2>1. r \in Screen
    BY <1>0, <1>6, LingersType DEF LateDismissCloser, Lingers, Screen
  <2>2. gone' = [gone EXCEPT ![k] = r] /\ late' = late
    BY <1>0, <1>6 DEF LateDismissCloser
  <2> HIDE DEF r
  <2> QED
    BY <1>a, <2>1, <2>2
<1>7. ASSUME NEW r \in Screen, LateBack(k, r) PROVE LeftTypeOK'
  <2>1. CASE gone' = [gone EXCEPT ![k] = r]
    BY <1>a, <1>7, <2>1 DEF LateBack
  <2>2. CASE /\ chat[k[1]].session # None
             /\ gone' = [gone EXCEPT ![k] = r,
                                      ![chat[k[1]].keyPair] = Remains(chat[k[1]])]
    <3>1. chat[k[1]] \in Screen /\ chat[k[1]].keyPair \in Client
      BY <1>0, <2>2, ActiveScreen DEF ScreenTypeOK, Screen, Key, Client
    <3>2. Remains(chat[k[1]]) \in Screen
      BY <3>1, RemainsType
    <3>3. gone' \in [Client -> Screen] /\ late' = late
      BY <1>0, <1>7, <2>2, <3>1, <3>2 DEF LateBack
    <3> QED
      BY <3>3 DEF LeftTypeOK
  <2> QED
    BY <1>7, <2>1, <2>2 DEF LateBack
<1>8. CASE LateDismissEnded(k) \/ LateTimerFires(k)
  <2>1. [g EXCEPT !.alerts = Tail(@)] \in Screen \/ ~LateDismissEnded(k)
    BY <1>0, LingersType DEF LateDismissEnded, Lingers, Screen
  <2>2. [g EXCEPT !.backTimer = FALSE] \in Screen
    BY <1>0 DEF Screen
  <2> QED
    BY <1>7, <1>8, <2>1, <2>2 DEF LateDismissEnded, LateTimerFires
<1> QED
  BY <1>1, <1>2, <1>3, <1>4, <1>5, <1>6, <1>8 DEF LateStep

\* Answering the dialog on top, or the timer, leaves a screen a screen.
LEMMA LeavingScreens ==
  ASSUME ScreenTypeOK, NEW d \in Device
  PROVE  /\ chat[d].alerts # <<>> => [chat[d] EXCEPT !.alerts = Tail(@)] \in Screen
         /\ [chat[d] EXCEPT !.backTimer = FALSE] \in Screen
<1>1. chat[d] \in Screen /\ chat[d].alerts \in Seq(Dialog)
  BY DEF ScreenTypeOK, Screen
<1>2. chat[d].alerts # <<>> => Tail(chat[d].alerts) \in Seq(Dialog)
  BY <1>1
<1> QED
  BY <1>1, <1>2 DEF Screen

LEMMA SwitchNextLeftType ==
  ScreenTypeOK /\ LeftTypeOK /\ [SwitchNext]_vars => LeftTypeOK'
<1> SUFFICES ASSUME ScreenTypeOK, LeftTypeOK, [SwitchNext]_vars PROVE LeftTypeOK'
  OBVIOUS
<1>1. ASSUME NEW d \in Device, UserBack(d) \/ DismissEnded(d) \/ BackTimerFires(d)
      PROVE  LeftTypeOK'
  <2>1. Mounted(d) /\ chat[d] \in Screen
    BY <1>1, ActiveScreen, ScreenOf DEF UserBack, DismissEnded, BackTimerFires, Asked
  <2>2. \E r \in Screen : Leaves(d, r)
    BY <1>1, <2>1, LeavingScreens DEF UserBack, DismissEnded, BackTimerFires, Asked
  <2> QED
    BY <2>1, <2>2, LeavesType
<1>2. ASSUME NEW k \in Client, LateStep(k) PROVE LeftTypeOK'
  BY <1>2, LateType
<1>3. CASE UNCHANGED <<gone, late>>
  BY <1>3 DEF LeftTypeOK
<1> QED
  BY <1>1, <1>2, <1>3, LeftUntouched

(***************************************************************************)
(* The screens, dialogs, sockets and queues, and what a screen has left    *)
(* behind, keep their types, also when a mounted screen is reused for      *)
(* another session.                                                        *)
(***************************************************************************)
THEOREM SwitchTypeCorrect == SwitchSpec => []TypeOK
<1>1. SwitchSpec => []LeftTypeOK
  BY InitLeftType, SwitchNextLeftType, SwitchScreenTypeCorrect, PTL DEF SwitchSpec
<1> QED
  BY <1>1, SwitchScreenTypeCorrect, PTL DEF TypeOK

\* The same when no screen is reused.
THEOREM TypeCorrect == Spec => []TypeOK
<1>1. ScreenTypeOK /\ LeftTypeOK /\ [Next]_vars => LeftTypeOK'
  BY SwitchNextLeftType DEF SwitchNext
<1>2. Spec => []LeftTypeOK
  BY <1>1, InitLeftType, ScreenTypeCorrect, PTL DEF Spec
<1> QED
  BY <1>2, ScreenTypeCorrect, PTL DEF TypeOK

-----------------------------------------------------------------------------
(***************************************************************************)
(* Facts about the operators the invariant is made of.                     *)
(***************************************************************************)
LEMMA OtherParty ==
  ASSUME NEW s \in Session, NEW d \in Parties(s)
  PROVE  /\ d \in Device
         /\ Other(d, s) \in Parties(s)
         /\ Other(d, s) \in Device
         /\ Other(d, s) # d
         /\ Other(Other(d, s), s) = d
         /\ Parties(s) = {d, Other(d, s)}
  BY PartiesAssumption DEF Parties, Other

LEMMA OtherDevice ==
  ASSUME NEW s \in Session, NEW d \in Device
  PROVE  Other(d, s) \in Device
  BY PartiesAssumption DEF Other

\* Consent is never taken back, so what was backed stays backed.
LEMMA SentGrows ==
  ASSUME NEW C, NEW D, C \subseteq D, NEW d, NEW s, NEW q \in Seq(Sent(C, d, s))
  PROVE  q \in Seq(Sent(D, d, s))
<1>1. Sent(C, d, s) \subseteq Sent(D, d, s)
  BY DEF Sent
<1>2. QED
  BY <1>1, SeqMonotonic

LEMMA AskingGrows ==
  ASSUME NEW C, NEW D, C \subseteq D, NEW d, NEW s, NEW q \in Seq(Asking(C, d, s))
  PROVE  q \in Seq(Asking(D, d, s))
<1>1. Asking(C, d, s) \subseteq Asking(D, d, s)
  BY DEF Asking
<1>2. QED
  BY <1>1, SeqMonotonic

LEMMA BackedGrows ==
  ASSUME NEW C, NEW D, C \subseteq D, NEW d, NEW r, Backed(C, d, r)
  PROVE  Backed(D, d, r)
  BY AskingGrows DEF Backed

\* A change to one screen.
LEMMA ScreensBacked ==
  ASSUME \A x \in Device : Backed(consented, x, chat[x]),
         chat \in [Device -> Screen],
         consented \subseteq consented',
         NEW d \in Device, NEW r,
         chat' = [chat EXCEPT ![d] = r],
         Backed(consented', d, r)
  PROVE  \A x \in Device : Backed(consented', x, chat'[x])
  BY BackedGrows

LEMMA NoScreenBacked ==
  ASSUME NEW C, NEW d
  PROVE  Backed(C, d, NoScreen)
  BY DEF Backed, NoScreen

-----------------------------------------------------------------------------
(***************************************************************************)
(* The queues.                                                             *)
(***************************************************************************)
LEMMA QueuesUnchanged ==
  ASSUME QueuesBacked, consented \subseteq consented',
         UNCHANGED <<pendingMessages, up, down, joined>>,
         \A d \in Device, s \in Session :
           readyState'[<<d, s>>] # "NONE" =>
             readyState[<<d, s>>] # "NONE" \/ d \in Parties(s)
  PROVE  QueuesBacked'
  BY SentGrows DEF QueuesBacked

\* send(): the message is one its sender may claim.
LEMMA QueuesSend ==
  ASSUME TransportTypeOK, QueuesBacked, consented \subseteq consented',
         NEW d \in Device, NEW s \in Session,
         NEW m \in Sent(consented', d, s),
         ClientSend(<<d, s>>, m), joined' = joined
  PROVE  QueuesBacked'
<1> DEFINE c == <<d, s>>
<1>0. c \in Client
  BY DEF Client
<1>1. \A x \in Device, t \in Session :
        /\ pendingMessages[<<x, t>>] \in Seq(Sent(consented', x, t))
        /\ up[<<x, t>>] \in Seq(Sent(consented', x, t))
        /\ down[<<x, t>>] \in Seq(Sent(consented', Other(x, t), t))
        /\ readyState[<<x, t>>] # "NONE" \/ <<x, t>> \in joined => x \in Parties(t)
  BY SentGrows DEF QueuesBacked
<1>2. /\ Append(pendingMessages[c], m) \in Seq(Sent(consented', d, s))
      /\ Append(up[c], m) \in Seq(Sent(consented', d, s))
  BY <1>1, AppendProperties
<1>3. \A x \in Device, t \in Session :
        /\ pendingMessages'[<<x, t>>] \in Seq(Sent(consented', x, t))
        /\ up'[<<x, t>>] \in Seq(Sent(consented', x, t))
  <2> SUFFICES ASSUME NEW x \in Device, NEW t \in Session
               PROVE  /\ pendingMessages'[<<x, t>>] \in Seq(Sent(consented', x, t))
                      /\ up'[<<x, t>>] \in Seq(Sent(consented', x, t))
    OBVIOUS
  <2>1. <<x, t>> \in Client
    BY DEF Client
  <2>2. CASE <<x, t>> = c
    BY <1>0, <1>1, <1>2, <2>2 DEF ClientSend, TransportTypeOK
  <2>3. CASE <<x, t>> # c
    BY <1>0, <1>1, <2>1, <2>3 DEF ClientSend, TransportTypeOK
  <2>4. QED
    BY <2>2, <2>3
<1>4. QED
  BY <1>1, <1>3 DEF QueuesBacked, ClientSend

\* onmessage: what arrives was sent by the other party.
LEMMA QueuesReceive ==
  ASSUME TransportTypeOK, QueuesBacked, consented' = consented,
         NEW d \in Device, NEW s \in Session, NEW type, Arrives(d, s, type)
  PROVE  /\ QueuesBacked'
         /\ Head(down[<<d, s>>]) \in Sent(consented, Other(d, s), s)
         /\ Head(down[<<d, s>>]).type = type
<1> DEFINE c == <<d, s>>
<1>1. c \in Client /\ down[c] # <<>> /\ down[c] \in Seq(Sent(consented, Other(d, s), s))
  BY DEF Arrives, ClientReceive, QueuesBacked, Client
<1>2. /\ Head(down[c]) \in Sent(consented, Other(d, s), s)
      /\ Tail(down[c]) \in Seq(Sent(consented, Other(d, s), s))
  BY <1>1, HeadTailProperties
<1>3. \A x \in Device, t \in Session :
        down'[<<x, t>>] \in Seq(Sent(consented, Other(x, t), t))
  <2> SUFFICES ASSUME NEW x \in Device, NEW t \in Session
               PROVE  down'[<<x, t>>] \in Seq(Sent(consented, Other(x, t), t))
    OBVIOUS
  <2>1. <<x, t>> \in Client
    BY DEF Client
  <2>2. CASE <<x, t>> = c
    BY <1>1, <1>2, <2>2 DEF Arrives, ClientReceive, TransportTypeOK
  <2>3. CASE <<x, t>> # c
    BY <1>1, <2>1, <2>3 DEF Arrives, ClientReceive, TransportTypeOK, QueuesBacked
  <2>4. QED
    BY <2>2, <2>3
<1>4. QED
  BY <1>2, <1>3 DEF Arrives, ClientReceive, QueuesBacked

\* The sockets and the relay only pass messages on, to the other party.
LEMMA QueuesTransport ==
  ASSUME TransportTypeOK, QueuesBacked, consented' = consented,
         NEW d \in Device, NEW s \in Session,
         Transport(<<d, s>>) \/ SocketBreaks(<<d, s>>)
  PROVE  QueuesBacked'
<1> DEFINE c == <<d, s>>
           Up(x, t) == Seq(Sent(consented, x, t))
<1>0. c \in Client /\ \A x \in Device, t \in Session : <<x, t>> \in Client
  BY DEF Client
<1>1. \A x \in Device, t \in Session :
        /\ pendingMessages[<<x, t>>] \in Up(x, t)
        /\ up[<<x, t>>] \in Up(x, t)
        /\ down[<<x, t>>] \in Up(Other(x, t), t)
        /\ readyState[<<x, t>>] # "NONE" \/ <<x, t>> \in joined => x \in Parties(t)
  BY DEF QueuesBacked
<1>2. ASSUME \A x \in Device, t \in Session :
               /\ pendingMessages'[<<x, t>>] \in Up(x, t)
               /\ up'[<<x, t>>] \in Up(x, t)
               /\ down'[<<x, t>>] \in Up(Other(x, t), t)
               /\ readyState'[<<x, t>>] # "NONE" \/ <<x, t>> \in joined'
                    => x \in Parties(t)
      PROVE  QueuesBacked'
  BY <1>2 DEF QueuesBacked
<1>e. \A x \in Device, t \in Session : <<>> \in Up(x, t)
  BY EmptySeq
<1> HIDE DEF Up
<1>3. CASE ClientOpened(c) /\ UNCHANGED joined
  <2>1. up[c] \o pendingMessages[c] \in Up(d, s)
    BY <1>1, ConcatProperties DEF Up
  <2>2. \A x \in Device, t \in Session :
          up'[<<x, t>>] = IF <<x, t>> = c THEN up[c] \o pendingMessages[c]
                          ELSE up[<<x, t>>]
    BY <1>0, <1>3 DEF ClientOpened, TransportTypeOK
  <2>3. \A x \in Device, t \in Session :
          pendingMessages'[<<x, t>>] = IF <<x, t>> = c THEN <<>>
                                       ELSE pendingMessages[<<x, t>>]
    BY <1>0, <1>3 DEF ClientOpened, TransportTypeOK
  <2>4. \A x \in Device, t \in Session :
          readyState'[<<x, t>>] # "NONE" => readyState[<<x, t>>] # "NONE"
    BY <1>0, <1>3 DEF ClientOpened, TransportTypeOK
  <2>5. down' = down /\ joined' = joined
    BY <1>3 DEF ClientOpened
  <2>6. QED
    BY <1>1, <1>2, <1>e, <2>1, <2>2, <2>3, <2>4, <2>5
<1>4. CASE RelayJoin(c)
  <2>1. d \in Parties(s)
    BY <1>1, <1>4 DEF RelayJoin
  <2>2. QED
    BY <1>1, <1>2, <1>4, <2>1 DEF RelayJoin, clientVars
<1>5. CASE RelayForward(c)
  <2>1. d \in Parties(s) /\ up[c] \in Up(d, s) /\ up[c] # <<>>
    BY <1>1, <1>5 DEF RelayForward
  <2>2. Head(up[c]) \in Sent(consented, d, s) /\ Tail(up[c]) \in Up(d, s)
    BY <2>1, HeadTailProperties DEF Up
  <2>3. \A x \in Device, t \in Session :
          up'[<<x, t>>] = IF <<x, t>> = c THEN Tail(up[c]) ELSE up[<<x, t>>]
    BY <1>0, <1>5 DEF RelayForward, TransportTypeOK
  <2>4. ASSUME NEW x \in Device, NEW t \in Session, <<x, t>> \in PeersOf(c)
        PROVE  t = s /\ Other(x, t) = d
    <3>1. t = s /\ x # d /\ x \in Parties(t)
      BY <1>1, <2>4 DEF PeersOf
    <3>2. QED
      BY <2>1, <3>1, OtherParty
  <2>5. ASSUME NEW x \in Device, NEW t \in Session
        PROVE  down'[<<x, t>>] \in Up(Other(x, t), t)
    <3>1. down'[<<x, t>>] = IF <<x, t>> \in PeersOf(c) /\ Reachable(<<x, t>>)
                            THEN Append(down[<<x, t>>], Head(up[c]))
                            ELSE down[<<x, t>>]
      BY <1>0, <1>5 DEF RelayForward
    <3>2. CASE <<x, t>> \in PeersOf(c)
      <4>1. down[<<x, t>>] \in Up(d, s)
        BY <1>1, <2>4, <3>2
      <4>2. Append(down[<<x, t>>], Head(up[c])) \in Up(d, s)
        BY <2>2, <4>1, AppendProperties DEF Up
      <4>3. QED
        BY <2>4, <3>1, <3>2, <4>1, <4>2
    <3>3. CASE <<x, t>> \notin PeersOf(c)
      BY <1>1, <3>1, <3>3
    <3>4. QED
      BY <3>2, <3>3
  <2>6. /\ joined' \subseteq joined
        /\ UNCHANGED <<readyState, pendingMessages>>
    BY <1>5 DEF RelayForward
  <2>7. QED
    BY <1>1, <1>2, <2>2, <2>3, <2>5, <2>6
<1>6. CASE RelayLeave(c)
  <2>1. \A x \in Device, t \in Session :
          /\ down'[<<x, t>>] = IF <<x, t>> = c THEN <<>> ELSE down[<<x, t>>]
          /\ readyState'[<<x, t>>] # "NONE" => readyState[<<x, t>>] # "NONE"
    BY <1>0, <1>6 DEF RelayLeave, TransportTypeOK
  <2>2. joined' \subseteq joined /\ UNCHANGED <<pendingMessages, up>>
    BY <1>6 DEF RelayLeave
  <2>3. QED
    BY <1>1, <1>2, <1>e, <2>1, <2>2, OtherDevice
<1>7. CASE ClientLost(c) /\ UNCHANGED joined
  <2>1. \A x \in Device, t \in Session :
          /\ down'[<<x, t>>] = IF <<x, t>> = c THEN <<>> ELSE down[<<x, t>>]
          /\ up'[<<x, t>>] = IF <<x, t>> = c THEN <<>> ELSE up[<<x, t>>]
          /\ readyState'[<<x, t>>] # "NONE" => readyState[<<x, t>>] # "NONE"
    BY <1>0, <1>7 DEF ClientLost, TransportTypeOK
  <2>2. UNCHANGED <<joined, pendingMessages>>
    BY <1>7 DEF ClientLost
  <2>3. QED
    BY <1>1, <1>2, <1>e, <2>1, <2>2, OtherDevice
<1>8. QED
  BY <1>3, <1>4, <1>5, <1>6, <1>7 DEF Transport, SocketBreaks

-----------------------------------------------------------------------------
(***************************************************************************)
(* The invariant holds.                                                    *)
(***************************************************************************)
LEMMA InitConsent == Init => ConsentInv
<1> SUFFICES ASSUME Init PROVE ConsentInv
  OBVIOUS
<1>1. \A d \in Device : Backed(consented, d, chat[d])
  BY NoScreenBacked DEF Init
<1>2. \A d \in Device, s \in Session : <<d, s>> \in Client
  BY DEF Client
<1>3. QueuesBacked
  BY <1>2, EmptySeq DEF Init, RelayInit, ClientInit, QueuesBacked
<1>4. QED
  BY <1>1, <1>3 DEF ConsentInv

\* What the invariant says of a mounted screen.
LEMMA MountedBacked ==
  ASSUME ScreenTypeOK, ConsentInv, NEW d \in Device, Mounted(d)
  PROVE  LET s == chat[d].session
             e == Other(d, s)
         IN  /\ s \in Session /\ d \in Parties(s) /\ e \in Device
             /\ Current(d) = <<d, s>>
             /\ chat[d].runs = {s} /\ chat[d].hello \subseteq {s}
             /\ chat[d].keyPair = <<d, s>>
             /\ chat[d].sessionKey \in {{}, {<<d, s>>, <<e, s>>}}
             /\ chat[d].peerInstagram \in {None, e}
             /\ chat[d].alerts \in Seq(Asking(consented, d, s))
             /\ chat[d].myWantsToClose => <<d, s>> \in consented
             /\ chat[d].peerWantsToClose => <<e, s>> \in consented
             /\ chat[d].showInstagram => <<d, s>> \in consented /\ <<e, s>> \in consented
  BY OtherDevice DEF ScreenTypeOK, ConsentInv, Backed, Mounted, Screen, Current

\* What the invariant says of the dialog on top.
LEMMA TopBacked ==
  ASSUME ScreenTypeOK, ConsentInv, NEW d \in Device, NEW kind, Asked(d, kind)
  PROVE  LET s == chat[d].session IN
         /\ Mounted(d) /\ s \in Session
         /\ AskedIn(d) = s
         /\ kind = "prompt" => <<Other(d, s), s>> \in consented
         /\ Tail(chat[d].alerts) \in Seq(Asking(consented, d, s))
<1> DEFINE s == chat[d].session
<1>1. Mounted(d) /\ chat[d].alerts # <<>>
  BY ActiveScreen DEF Asked
<1>2. chat[d].alerts \in Seq(Asking(consented, d, s)) /\ s \in Session
  BY <1>1, MountedBacked
<1>3. /\ Head(chat[d].alerts) \in Asking(consented, d, s)
      /\ Tail(chat[d].alerts) \in Seq(Asking(consented, d, s))
  BY <1>1, <1>2, HeadTailProperties
<1>4. QED
  BY <1>1, <1>2, <1>3 DEF Asked, AskedIn, Asking

\* A dialog of session s put on top.
LEMMA PushBacked ==
  ASSUME NEW C, NEW d \in Device, NEW s \in Session,
         NEW kind \in {"confirm", "prompt", "ended", "closer"},
         kind = "prompt" => <<Other(d, s), s>> \in C,
         NEW st \in Seq(Asking(C, d, s))
  PROVE  <<[kind |-> kind, session |-> s]>> \o st \in Seq(Asking(C, d, s))
<1>1. [kind |-> kind, session |-> s] \in Asking(C, d, s)
  BY DEF Asking, Dialog
<1>2. <<[kind |-> kind, session |-> s]>> \in Seq(Asking(C, d, s))
  BY <1>1
<1>3. QED
  BY <1>2, ConcatProperties

LEMMA ControlBacked ==
  ASSUME NEW C, NEW d, NEW s,
         NEW type \in {"close_request", "close_accept", "close_reject"},
         type = "close_request" => <<d, s>> \in C,
         type = "close_accept" => <<d, s>> \in C /\ <<Other(d, s), s>> \in C
  PROVE  Control(type) \in Sent(C, d, s)
  BY ControlType DEF Control, Sent

LEMMA PubKeyBacked ==
  ASSUME NEW C, NEW d \in Device, NEW s \in Session, chat[d].keyPair = <<d, s>>
  PROVE  PubKey(d) \in Sent(C, d, s)
<1>1. chat[d].keyPair \in Key
  BY DEF Key
<1>2. PubKey(d) \in Message
  BY <1>1, PubKeyType
<1>3. QED
  BY <1>2 DEF PubKey, Sent

LEMMA CloseKeepsNone ==
  ASSUME TransportTypeOK, NEW c \in Client, NEW x \in Client
  PROVE  AfterClose(readyState, c)[x] # "NONE" => readyState[x] # "NONE"
  BY DEF TransportTypeOK, AfterClose

\* The fields of a screen that the invariant speaks of, but for its dialogs
\* and pending greetings.
Claims(r) ==
  <<r.session, r.runs, r.keyPair, r.sessionKey, r.peerInstagram,
    r.myWantsToClose, r.peerWantsToClose, r.showInstagram>>

LEMMA BackedAs ==
  ASSUME NEW C, NEW d, NEW q, Backed(C, d, q),
         NEW r, Claims(r) = Claims(q), r.hello \subseteq q.hello,
         r.alerts = q.alerts \/ r.alerts \in Seq(Asking(C, d, q.session))
  PROVE  Backed(C, d, r)
  BY DEF Claims, Backed

LEMMA NextConsent ==
  ScreenTypeOK /\ ConsentInv /\ [Next]_vars => ConsentInv'
<1> SUFFICES ASSUME ScreenTypeOK, ConsentInv, [Next]_vars PROVE ConsentInv'
  OBVIOUS
<1> USE DEF historyVars
<1>0. /\ TransportTypeOK /\ QueuesBacked
      /\ chat \in [Device -> Screen]
      /\ \A d \in Device : Backed(consented, d, chat[d])
  BY DEF ScreenTypeOK, ConsentInv
<1>1. ASSUME NEW c \in Client, Transport(c) \/ SocketBreaks(c) PROVE ConsentInv'
  <2>1. UNCHANGED <<chat, consented>>
    BY <1>1 DEF Transport, SocketBreaks
  <2>2. PICK d \in Device, s \in Session : c = <<d, s>>
    BY DEF Client
  <2>3. QueuesBacked'
    BY <1>0, <1>1, <2>1, <2>2, QueuesTransport
  <2>4. QED
    BY <1>0, <2>1, <2>3 DEF ConsentInv
<1>2. ASSUME NEW d \in Device, NEW s \in Session, Navigate(d, s) PROVE ConsentInv'
  <2>1. Backed(consented, d, FreshScreen(d, s))
    <3>1. <<>> \in Seq(Asking(consented, d, s))
      BY EmptySeq
    <3>2. QED
      BY <1>2, <3>1 DEF Navigate, Backed, FreshScreen, NoScreen
  <2>2. \A x \in Device, t \in Session :
          readyState'[<<x, t>>] # "NONE" =>
            readyState[<<x, t>>] # "NONE" \/ x \in Parties(t)
    BY <1>0, <1>2 DEF Navigate, TransportTypeOK, Client
  <2>3. QueuesBacked'
    BY <1>0, <1>2, <2>2, QueuesUnchanged DEF Navigate
  <2>4. QED
    BY <1>0, <1>2, <2>1, <2>3, ScreensBacked DEF Navigate, ConsentInv
<1>3. ASSUME NEW d \in Device, GoBack(d), Current(d) \in Client PROVE ConsentInv'
  <2>1. \A x \in Device, t \in Session :
          readyState'[<<x, t>>] # "NONE" => readyState[<<x, t>>] # "NONE"
    BY <1>0, <1>3, CloseKeepsNone DEF GoBack, Client
  <2>2. QueuesBacked'
    BY <1>0, <1>3, <2>1, QueuesUnchanged DEF GoBack
  <2>3. QED
    BY <1>0, <1>3, <2>2, NoScreenBacked, ScreensBacked DEF GoBack, ConsentInv
<1>4. ASSUME NEW d \in Device,
             UserBack(d) \/ DismissEnded(d) \/ BackTimerFires(d)
      PROVE  ConsentInv'
  BY <1>3, <1>4, ActiveScreen DEF UserBack, DismissEnded, BackTimerFires, Asked, Leaves
<1>5. ASSUME NEW d \in Device, NEW s \in Session, SendPublicKey(d, s)
      PROVE  ConsentInv'
  <2> DEFINE r == [chat[d] EXCEPT !.hello = @ \ {s}]
  <2>1. Mounted(d)
    BY <1>5, ActiveScreen DEF SendPublicKey
  <2>2. s = chat[d].session /\ chat[d].keyPair = <<d, s>>
    BY <1>5, <2>1, MountedBacked DEF SendPublicKey
  <2>3. QueuesBacked'
    BY <1>0, <1>5, <2>2, PubKeyBacked, QueuesSend DEF SendPublicKey
  <2>4. chat' = [chat EXCEPT ![d] = r]
    BY <1>5 DEF SendPublicKey
  <2>a. /\ Claims(r) = Claims(chat[d]) /\ r.hello \subseteq chat[d].hello
        /\ r.alerts = chat[d].alerts
    BY <1>0 DEF Screen, Claims
  <2>5. Backed(consented, d, r)
    BY <1>0, <2>a, BackedAs
  <2> HIDE DEF r
  <2>6. QED
    BY <1>0, <1>5, <2>3, <2>4, <2>5, ScreensBacked DEF SendPublicKey, ConsentInv
<1>6. ASSUME NEW d \in Device, Reply(d) PROVE ConsentInv'
  <2> DEFINE r == [chat[d] EXCEPT !.reply = FALSE]
             s == chat[d].session
  <2>1. Mounted(d)
    BY <1>6, ActiveScreen DEF Reply
  <2>2. s \in Session /\ Current(d) = <<d, s>> /\ chat[d].keyPair = <<d, s>>
    BY <2>1, MountedBacked
  <2>3. QueuesBacked'
    BY <1>0, <1>6, <2>2, PubKeyBacked, QueuesSend DEF Reply
  <2>4. chat' = [chat EXCEPT ![d] = r]
    BY <1>6 DEF Reply
  <2>a. /\ Claims(r) = Claims(chat[d]) /\ r.hello \subseteq chat[d].hello
        /\ r.alerts = chat[d].alerts
    BY <1>0 DEF Screen, Claims
  <2>5. Backed(consented, d, r)
    BY <1>0, <2>a, BackedAs
  <2> HIDE DEF r
  <2>6. QED
    BY <1>0, <1>6, <2>3, <2>4, <2>5, ScreensBacked DEF Reply, ConsentInv
<1>7. ASSUME NEW d \in Device, NEW s \in Session, ReceivePubkey(d, s)
      PROVE  ConsentInv'
  <2> DEFINE ev == Head(down[<<d, s>>])
             e == Other(d, s)
             r == [chat[d] EXCEPT
                     !.sessionKey = SharedKey(chat[d].keyPair, ev.key),
                     !.peerInstagram = IF ev.from \in HasHandle THEN ev.from ELSE @,
                     !.reply = @ \/ chat[d].sessionKey = {}]
  <2>1. Receive(d, s, "pubkey") /\ UNCHANGED <<consented, refused>>
    BY <1>7 DEF ReceivePubkey
  <2>2. QueuesBacked' /\ ev \in Sent(consented, e, s) /\ ev.type = "pubkey"
    BY <1>0, <2>1, QueuesReceive DEF Receive
  <2>3. ev.from = e /\ ev.key = <<e, s>>
    BY <2>2 DEF Sent
  <2>4. Mounted(d) /\ s \in chat[d].runs
    BY <2>1, ReceiveType DEF Receive, Arrives
  <2>5. s = chat[d].session /\ chat[d].keyPair = <<d, s>>
    BY <2>4, MountedBacked
  <2>6. SharedKey(chat[d].keyPair, ev.key) = {<<d, s>>, <<e, s>>}
    BY <2>3, <2>5 DEF SharedKey
  <2>7. chat' = [chat EXCEPT ![d] = r]
    BY <1>7 DEF ReceivePubkey
  <2>a. /\ r.session = s /\ r.runs = chat[d].runs /\ r.hello = chat[d].hello
        /\ r.keyPair = chat[d].keyPair /\ r.alerts = chat[d].alerts
        /\ r.myWantsToClose = chat[d].myWantsToClose
        /\ r.peerWantsToClose = chat[d].peerWantsToClose
        /\ r.showInstagram = chat[d].showInstagram
        /\ r.sessionKey = SharedKey(chat[d].keyPair, ev.key)
        /\ r.peerInstagram = IF ev.from \in HasHandle THEN ev.from
                             ELSE chat[d].peerInstagram
    BY <1>0, <2>5 DEF Screen
  <2> HIDE DEF r
  <2>8. Backed(consented, d, r)
    BY <1>0, <2>a, <2>3, <2>5, <2>6 DEF Backed
  <2> HIDE DEF r
  <2>9. QED
    BY <1>0, <2>1, <2>2, <2>7, <2>8, ScreensBacked DEF ConsentInv
<1>8. ASSUME NEW d \in Device, Say(d) PROVE ConsentInv'
  <2> DEFINE s == chat[d].session
             m == [type |-> "msg", box |-> chat[d].sessionKey,
                   body |-> [from |-> d, session |-> s, n |-> said[d] + 1]]
  <2>1. Mounted(d) /\ s \in Session /\ Current(d) = <<d, s>>
    BY <1>8, ActiveScreen, MountedBacked DEF Say
  <2>2. m.body \in Body /\ chat[d].sessionKey \in SUBSET Key
    BY <1>8, <2>1, MaxSaidAssumption DEF Say, Body, ScreenTypeOK, Screen
  <2>3. m \in Sent(consented, d, s)
    BY <2>2 DEF Sent, Message
  <2>4. QueuesBacked'
    BY <1>0, <1>8, <2>1, <2>3, QueuesSend DEF Say
  <2>5. QED
    BY <1>0, <1>8, <2>4 DEF Say, ConsentInv
<1>9. ASSUME NEW d \in Device, NEW s \in Session, ReceiveMsg(d, s)
      PROVE  ConsentInv'
  <2> DEFINE ev == Head(down[<<d, s>>])
             r == [chat[d] EXCEPT !.heard = IF chat[d].sessionKey = ev.box
                                            THEN Append(@, ev.body) ELSE @]
  <2>1. Receive(d, s, "msg") /\ UNCHANGED <<consented, refused>>
    BY <1>9 DEF ReceiveMsg
  <2>2. QueuesBacked'
    BY <1>0, <2>1, QueuesReceive DEF Receive
  <2>3. chat' = [chat EXCEPT ![d] = r]
    BY <1>9 DEF ReceiveMsg
  <2>a. /\ Claims(r) = Claims(chat[d]) /\ r.hello = chat[d].hello
        /\ r.alerts = chat[d].alerts
    BY <1>0 DEF Screen, Claims
  <2>4. Backed(consented, d, r)
    BY <1>0, <2>a, BackedAs
  <2> HIDE DEF r
  <2>5. QED
    BY <1>0, <2>1, <2>2, <2>3, <2>4, ScreensBacked DEF ConsentInv
<1>10. ASSUME NEW d \in Device, HandleCloseRequest(d) PROVE ConsentInv'
  <2> DEFINE s == chat[d].session
             r == [chat[d] EXCEPT !.alerts = Push(d, "confirm", s)]
  <2>1. Mounted(d) /\ s \in Session /\ chat[d].alerts \in Seq(Asking(consented, d, s))
    BY <1>10, ActiveScreen, MountedBacked DEF HandleCloseRequest
  <2>2. Push(d, "confirm", s) \in Seq(Asking(consented, d, s))
    BY <2>1, PushBacked DEF Push
  <2>3. chat' = [chat EXCEPT ![d] = r]
    BY <1>10 DEF HandleCloseRequest
  <2>a. /\ Claims(r) = Claims(chat[d]) /\ r.hello = chat[d].hello
        /\ r.alerts = Push(d, "confirm", s)
    BY <1>0 DEF Screen, Claims
  <2>4. Backed(consented, d, r)
    BY <1>0, <2>2, <2>a, BackedAs
  <2>5. UNCHANGED <<relayVars, consented>>
    BY <1>10 DEF HandleCloseRequest
  <2>6. QueuesBacked'
    BY <1>0, <2>5, QueuesUnchanged DEF relayVars, clientVars
  <2> HIDE DEF r
  <2>7. QED
    BY <1>0, <2>3, <2>4, <2>5, <2>6, ScreensBacked DEF ConsentInv
<1>11. ASSUME NEW d \in Device, ConfirmCancel(d) \/ DismissCloser(d)
       PROVE  ConsentInv'
  <2> DEFINE s == chat[d].session
             r1 == [chat[d] EXCEPT !.alerts = Tail(@)]
             r2 == [chat[d] EXCEPT !.alerts = Tail(@), !.backTimer = TRUE]
  <2>1. Asked(d, "confirm") \/ Asked(d, "closer")
    BY <1>11 DEF ConfirmCancel, DismissCloser
  <2>2. Tail(chat[d].alerts) \in Seq(Asking(consented, d, s))
    BY <2>1, TopBacked
  <2>3. \E r \in {r1, r2} : chat' = [chat EXCEPT ![d] = r]
    BY <1>11 DEF ConfirmCancel, DismissCloser
  <2>a. \A r \in {r1, r2} : /\ Claims(r) = Claims(chat[d])
                            /\ r.hello = chat[d].hello
                            /\ r.alerts = Tail(chat[d].alerts)
    BY <1>0 DEF Screen, Claims
  <2>4. Backed(consented, d, r1) /\ Backed(consented, d, r2)
    BY <1>0, <2>2, <2>a, BackedAs
  <2>5. UNCHANGED <<relayVars, consented>>
    BY <1>11 DEF ConfirmCancel, DismissCloser
  <2>6. QueuesBacked'
    BY <1>0, <2>5, QueuesUnchanged DEF relayVars, clientVars
  <2> HIDE DEF r1, r2
  <2>7. QED
    BY <1>0, <2>3, <2>4, <2>5, <2>6, ScreensBacked DEF ConsentInv
<1>12. ASSUME NEW d \in Device, ConfirmYes(d) PROVE ConsentInv'
  <2> DEFINE s == chat[d].session
             e == Other(d, s)
             st == IF chat[d].peerWantsToClose
                   THEN <<[kind |-> "closer", session |-> AskedIn(d)]>>
                          \o Tail(chat[d].alerts)
                   ELSE Tail(chat[d].alerts)
             r == [chat[d] EXCEPT !.myWantsToClose = TRUE,
                                  !.showInstagram = @ \/ chat[d].peerWantsToClose,
                                  !.alerts = st]
  <2>1. /\ Mounted(d) /\ s \in Session /\ AskedIn(d) = s
        /\ Tail(chat[d].alerts) \in Seq(Asking(consented, d, s))
    BY <1>12, TopBacked DEF ConfirmYes
  <2>2. consented' = consented \cup {<<d, s>>}
    BY <1>12, <2>1 DEF ConfirmYes
  <2>3. Tail(chat[d].alerts) \in Seq(Asking(consented', d, s))
    BY <2>1, <2>2, AskingGrows
  <2>4. <<[kind |-> "closer", session |-> s]>> \o Tail(chat[d].alerts)
          \in Seq(Asking(consented', d, s))
    BY <2>1, <2>3, PushBacked
  <2>5. st \in Seq(Asking(consented', d, s))
    BY <2>1, <2>3, <2>4
  <2> HIDE DEF st
  <2>6. chat' = [chat EXCEPT ![d] = r]
    BY <1>12 DEF ConfirmYes, st
  <2>7. /\ r.session = s /\ r.runs = chat[d].runs /\ r.hello = chat[d].hello
        /\ r.keyPair = chat[d].keyPair /\ r.alerts = st
        /\ r.peerWantsToClose = chat[d].peerWantsToClose
        /\ r.showInstagram = (chat[d].showInstagram \/ chat[d].peerWantsToClose)
        /\ r.sessionKey = chat[d].sessionKey
        /\ r.peerInstagram = chat[d].peerInstagram
    BY <1>0 DEF Screen
  <2> HIDE DEF r
  <2>8. Backed(consented', d, chat[d])
    BY <1>0, <2>2, BackedGrows
  <2>9. Backed(consented', d, r)
    BY <2>2, <2>5, <2>7, <2>8 DEF Backed
  <2>10. Control("close_request") \in Sent(consented', d, s)
    BY <2>2, ControlBacked
  <2>11. QueuesBacked'
    BY <1>0, <1>12, <2>1, <2>2, <2>10, QueuesSend DEF ConfirmYes, Current
  <2>12. QED
    BY <1>0, <2>2, <2>6, <2>9, <2>11, ScreensBacked DEF ConsentInv
<1>13. ASSUME NEW d \in Device, PromptYes(d) PROVE ConsentInv'
  <2> DEFINE s == chat[d].session
             e == Other(d, s)
             r == [chat[d] EXCEPT !.myWantsToClose = TRUE,
                                  !.showInstagram = TRUE, !.alerts = Tail(@)]
  <2>1. /\ Mounted(d) /\ s \in Session /\ AskedIn(d) = s
        /\ <<e, s>> \in consented
        /\ Tail(chat[d].alerts) \in Seq(Asking(consented, d, s))
    BY <1>13, TopBacked DEF PromptYes
  <2>2. consented' = consented \cup {<<d, s>>}
    BY <1>13, <2>1 DEF PromptYes
  <2>3. Tail(chat[d].alerts) \in Seq(Asking(consented', d, s))
    BY <2>1, <2>2, AskingGrows
  <2>4. chat' = [chat EXCEPT ![d] = r]
    BY <1>13 DEF PromptYes
  <2>5. /\ r.session = s /\ r.runs = chat[d].runs /\ r.hello = chat[d].hello
        /\ r.keyPair = chat[d].keyPair /\ r.alerts = Tail(chat[d].alerts)
        /\ r.peerWantsToClose = chat[d].peerWantsToClose
        /\ r.sessionKey = chat[d].sessionKey
        /\ r.peerInstagram = chat[d].peerInstagram
    BY <1>0 DEF Screen
  <2> HIDE DEF r
  <2>6. Backed(consented', d, chat[d])
    BY <1>0, <2>2, BackedGrows
  <2>7. Backed(consented', d, r)
    BY <2>1, <2>2, <2>3, <2>5, <2>6 DEF Backed
  <2>8. Control("close_accept") \in Sent(consented', d, s)
    BY <2>1, <2>2, ControlBacked
  <2>9. QueuesBacked'
    BY <1>0, <1>13, <2>1, <2>2, <2>8, QueuesSend DEF PromptYes, Current
  <2>10. QED
    BY <1>0, <2>2, <2>4, <2>7, <2>9, ScreensBacked DEF ConsentInv
<1>14. ASSUME NEW d \in Device, PromptNo(d) PROVE ConsentInv'
  <2> DEFINE s == chat[d].session
             st == <<[kind |-> "ended", session |-> AskedIn(d)]>>
                     \o Tail(chat[d].alerts)
             r == [chat[d] EXCEPT !.alerts = st]
  <2>1. /\ Mounted(d) /\ s \in Session /\ AskedIn(d) = s
        /\ Tail(chat[d].alerts) \in Seq(Asking(consented, d, s))
    BY <1>14, TopBacked DEF PromptNo
  <2>2. st \in Seq(Asking(consented, d, s))
    BY <2>1, PushBacked
  <2>3. chat' = [chat EXCEPT ![d] = r] /\ consented' = consented
    BY <1>14 DEF PromptNo
  <2> HIDE DEF st
  <2>4. Claims(r) = Claims(chat[d]) /\ r.hello = chat[d].hello /\ r.alerts = st
    BY <1>0 DEF Screen, Claims
  <2> HIDE DEF r
  <2>5. Backed(consented, d, r)
    BY <1>0, <2>2, <2>4, BackedAs
  <2>6. Control("close_reject") \in Sent(consented, d, s)
    BY ControlBacked
  <2>7. QueuesBacked'
    BY <1>0, <1>14, <2>1, <2>3, <2>6, QueuesSend DEF PromptNo, Current
  <2>8. QED
    BY <1>0, <2>3, <2>5, <2>7, ScreensBacked DEF ConsentInv
<1>15. ASSUME NEW d \in Device, NEW s \in Session, ReceiveCloseRequest(d, s)
       PROVE  ConsentInv'
  <2> DEFINE e == Other(d, s)
             st == IF chat[d].myWantsToClose THEN chat[d].alerts
                   ELSE Push(d, "prompt", s)
             r == [chat[d] EXCEPT !.peerWantsToClose = TRUE,
                                  !.showInstagram = @ \/ chat[d].myWantsToClose,
                                  !.alerts = st]
  <2>1. Receive(d, s, "close_request") /\ UNCHANGED <<consented, refused>>
    BY <1>15 DEF ReceiveCloseRequest
  <2>2. QueuesBacked' /\ <<e, s>> \in consented
    BY <1>0, <2>1, QueuesReceive DEF Receive, Sent
  <2>3. Mounted(d) /\ s \in chat[d].runs
    BY <2>1, ReceiveType DEF Receive, Arrives
  <2>4. s = chat[d].session /\ chat[d].alerts \in Seq(Asking(consented, d, s))
    BY <2>3, MountedBacked
  <2>5. Push(d, "prompt", s) \in Seq(Asking(consented, d, s))
    BY <2>2, <2>4, PushBacked DEF Push
  <2>6. st \in Seq(Asking(consented, d, s))
    BY <2>4, <2>5
  <2>7. chat' = [chat EXCEPT ![d] = r]
    BY <1>15 DEF ReceiveCloseRequest
  <2> HIDE DEF st
  <2>8. /\ r.session = s /\ r.runs = chat[d].runs /\ r.hello = chat[d].hello
        /\ r.keyPair = chat[d].keyPair /\ r.alerts = st
        /\ r.myWantsToClose = chat[d].myWantsToClose
        /\ r.showInstagram = (chat[d].showInstagram \/ chat[d].myWantsToClose)
        /\ r.sessionKey = chat[d].sessionKey
        /\ r.peerInstagram = chat[d].peerInstagram
    BY <1>0, <2>4 DEF Screen
  <2> HIDE DEF r
  <2>9. Backed(consented, d, r)
    BY <1>0, <2>2, <2>4, <2>6, <2>8 DEF Backed
  <2>10. QED
    BY <1>0, <2>1, <2>2, <2>7, <2>9, ScreensBacked DEF ConsentInv
<1>16. ASSUME NEW d \in Device, NEW s \in Session, ReceiveCloseAccept(d, s)
       PROVE  ConsentInv'
  <2> DEFINE e == Other(d, s)
             r == [chat[d] EXCEPT !.showInstagram = TRUE]
  <2>1. Receive(d, s, "close_accept") /\ UNCHANGED <<consented, refused>>
    BY <1>16 DEF ReceiveCloseAccept
  <2>2. QueuesBacked' /\ <<e, s>> \in consented /\ <<Other(e, s), s>> \in consented
    BY <1>0, <2>1, QueuesReceive DEF Receive, Sent
  <2>3. Mounted(d) /\ s \in chat[d].runs
    BY <2>1, ReceiveType DEF Receive, Arrives
  <2>4. s = chat[d].session /\ d \in Parties(s)
    BY <2>3, MountedBacked
  <2>5. <<d, s>> \in consented
    BY <2>2, <2>4, OtherParty
  <2>6. chat' = [chat EXCEPT ![d] = r]
    BY <1>16 DEF ReceiveCloseAccept
  <2>7. /\ r.session = s /\ r.runs = chat[d].runs /\ r.hello = chat[d].hello
        /\ r.keyPair = chat[d].keyPair /\ r.alerts = chat[d].alerts
        /\ r.myWantsToClose = chat[d].myWantsToClose
        /\ r.peerWantsToClose = chat[d].peerWantsToClose
        /\ r.sessionKey = chat[d].sessionKey
        /\ r.peerInstagram = chat[d].peerInstagram
    BY <1>0, <2>4 DEF Screen
  <2> HIDE DEF r
  <2>8. Backed(consented, d, r)
    BY <1>0, <2>2, <2>4, <2>5, <2>7 DEF Backed
  <2>9. QED
    BY <1>0, <2>1, <2>2, <2>6, <2>8, ScreensBacked DEF ConsentInv
<1>17. ASSUME NEW d \in Device, NEW s \in Session, ReceiveCloseReject(d, s)
       PROVE  ConsentInv'
  <2> DEFINE r == [chat[d] EXCEPT !.alerts = Push(d, "ended", s)]
  <2>1. Receive(d, s, "close_reject") /\ UNCHANGED <<consented, refused>>
    BY <1>17 DEF ReceiveCloseReject
  <2>2. QueuesBacked'
    BY <1>0, <2>1, QueuesReceive DEF Receive
  <2>3. Mounted(d) /\ s \in chat[d].runs
    BY <2>1, ReceiveType DEF Receive, Arrives
  <2>4. s = chat[d].session /\ chat[d].alerts \in Seq(Asking(consented, d, s))
    BY <2>3, MountedBacked
  <2>5. Push(d, "ended", s) \in Seq(Asking(consented, d, s))
    BY <2>4, PushBacked DEF Push
  <2>6. chat' = [chat EXCEPT ![d] = r]
    BY <1>17 DEF ReceiveCloseReject
  <2>7. /\ Claims(r) = Claims(chat[d]) /\ r.hello = chat[d].hello
        /\ r.alerts = Push(d, "ended", s)
    BY <1>0 DEF Screen, Claims
  <2> HIDE DEF r
  <2>8. Backed(consented, d, r)
    BY <1>0, <2>4, <2>5, <2>7, BackedAs
  <2>9. QED
    BY <1>0, <2>1, <2>2, <2>6, <2>8, ScreensBacked DEF ConsentInv
<1>18. ASSUME UNCHANGED vars PROVE ConsentInv'
  <2>1. UNCHANGED <<readyState, pendingMessages, up, down, joined, chat, consented>>
    BY <1>18 DEF vars, relayVars, clientVars
  <2>2. QED
    BY <1>0, <2>1, QueuesUnchanged DEF ConsentInv
<1>19. ASSUME NEW k \in Client, LateStep(k) PROVE ConsentInv'
  <2>1. k[1] \in Device
    BY DEF Client
  <2>2. CASE UNCHANGED <<relayVars, chat, said, consented, refused>>
    <3>1. UNCHANGED <<readyState, pendingMessages, up, down, joined, chat, consented>>
      BY <2>2 DEF relayVars, clientVars
    <3> QED
      BY <1>0, <3>1, QueuesUnchanged DEF ConsentInv
  <2>3. ASSUME NEW s \in Session, Arrives(k[1], s, Head(down[<<k[1], s>>]).type),
               UNCHANGED <<chat, said, consented, refused>>
        PROVE  ConsentInv'
    BY <1>0, <2>1, <2>3, QueuesReceive DEF ConsentInv
  <2>4. CASE chat[k[1]].session # None /\ GoBack(k[1])
    BY <1>3, <2>1, <2>4, ActiveScreen
  <2> QED
    BY <1>19, <2>2, <2>3, <2>4, LateShape
<1>20. QED
  BY <1>1, <1>2, <1>4, <1>5, <1>6, <1>7, <1>8, <1>9, <1>10, <1>11, <1>12,
     <1>13, <1>14, <1>15, <1>16, <1>17, <1>18, <1>19
     DEF Next, System, User, AtScreen, OnMessage, LateStep

(***************************************************************************)
(* Along every run without reuse of a screen, all that screens conclude    *)
(* and all messages claim is backed by consents really given.              *)
(***************************************************************************)
THEOREM ConsentInvariant == Spec => []ConsentInv
  BY InitConsent, NextConsent, ScreenTypeCorrect, PTL DEF Spec

\* A handle is shown only after both parties of one session said Yes.
THEOREM RevealNeedsConsent == Spec => []MutualConsent
<1>1. ScreenTypeOK /\ ConsentInv => MutualConsent
  <2> SUFFICES ASSUME ScreenTypeOK, ConsentInv, NEW d \in Device, Revealed(d)
               PROVE  \E s \in Session :
                        {<<d, s>>, <<chat[d].peerInstagram, s>>} \subseteq consented
    BY DEF MutualConsent
  <2>1. Mounted(d)
    BY DEF Revealed, ScreenTypeOK, NoScreen
  <2>2. /\ chat[d].session \in Session
        /\ <<d, chat[d].session>> \in consented
        /\ <<chat[d].peerInstagram, chat[d].session>> \in consented
    BY <2>1, MountedBacked DEF Revealed
  <2>3. QED
    BY <2>2
<1>2. QED
  BY <1>1, ScreenTypeCorrect, ConsentInvariant, PTL

\* Both ends of a session compute the same key from the session's own pairs.
THEOREM KeysAgree == Spec => []KeyAgreement
<1>1. ScreenTypeOK /\ ConsentInv => KeyAgreement
  <2> SUFFICES ASSUME ScreenTypeOK, ConsentInv, NEW d \in Device,
                      chat[d].session # None
               PROVE  LET s == chat[d].session IN
                      chat[d].sessionKey \in {{}, {<<Caller[s], s>>, <<Callee[s], s>>}}
    BY DEF KeyAgreement
  <2> DEFINE s == chat[d].session
             e == Other(d, s)
  <2>1. Mounted(d)
    BY ActiveScreen
  <2>2. /\ s \in Session /\ d \in Parties(s)
        /\ chat[d].sessionKey \in {{}, {<<d, s>>, <<e, s>>}}
    BY <2>1, MountedBacked
  <2>3. {<<d, s>>, <<e, s>>} = {<<Caller[s], s>>, <<Callee[s], s>>}
    BY <2>2 DEF Parties, Other
  <2>4. QED
    BY <2>2, <2>3
<1>2. QED
  BY <1>1, ScreenTypeCorrect, ConsentInvariant, PTL
=============================================================================

---------------------------- MODULE LinkRequests ----------------------------
(***************************************************************************)
(* How two phones come to share a chat session: the link request client    *)
(* (network/linkRequests.ts), the endpoint /link-requests of the server    *)
(* (server/main.py) and what Home does with requests (screens/Home.tsx).   *)
(*                                                                         *)
(* Every turn-on of visibility has a fresh ephemeral id and opens one      *)
(* socket under it, so both are named by the phone and the number of the   *)
(* turn-on, and the server's dict is the set of the sockets in it.  Turning*)
(* on and off are single steps here; module Visibility takes them apart.   *)
(* The app never sends respond_to_request, which is therefore left out.    *)
(***************************************************************************)
EXTENDS Naturals, Sequences, FiniteSets

CONSTANTS
  Phone,     \* the phones
  None,      \* null
  MaxStart,  \* bound: how often each phone turns visibility on
  MaxSent,   \* bound: how many requests are sent
  MaxLost    \* bound: how many sockets the network may break

ASSUME LinkAssumption ==
  /\ MaxStart \in Nat /\ MaxSent \in Nat /\ MaxLost \in Nat
  /\ None \notin Phone \X Nat

Id == Phone \X (1..MaxStart)

Owner(i) == i[1]

\* `${myEphemeralId}-${id}-${Date.now()}`; the number stands for the time.
Session ==
  {s \in [from : Id, to : Id, n : 1..MaxSent] : Owner(s.from) # Owner(s.to)}

Caller == [s \in Session |-> Owner(s.from)]

Callee == [s \in Session |-> Owner(s.to)]

VARIABLES
  \* on the phones
  starts,   \* how often visibility was turned on
  ws,       \* the manager's socket, or None
  alerts,   \* "Link Request!" dialogs, the newest first
  leaving,  \* accepted sessions whose 100 ms timer is running
  place,    \* the session of the Chat screen in front, or None for Home
  entered,  \* history: <<phone, session>> when the chat was opened
  \* the sockets
  readyState,
  up,
  down,
  \* on the server
  handler,                  \* "none", "running", "ended" or "crashed"
  link_request_connections, \* the ids that are registered
  dead,                     \* the sockets a send to which has raised
  \* the clock
  now       \* Date.now(), advancing with each request that takes its time

phoneVars == <<starts, ws, alerts, leaving, place, entered>>
socketVars == <<readyState, up, down>>
serverVars == <<handler, link_request_connections, dead>>
vars == <<phoneVars, socketVars, serverVars, now>>

Init ==
  /\ starts = [p \in Phone |-> 0]
  /\ ws = [p \in Phone |-> None] /\ alerts = [p \in Phone |-> <<>>]
  /\ leaving = [p \in Phone |-> {}] /\ place = [p \in Phone |-> None]
  /\ entered = {}
  /\ readyState = [i \in Id |-> "NONE"]
  /\ up = [i \in Id |-> <<>>] /\ down = [i \in Id |-> <<>>]
  /\ handler = [i \in Id |-> "none"]
  /\ link_request_connections = {} /\ dead = {}
  /\ now = 0

-----------------------------------------------------------------------------
(***************************************************************************)
(* The phones.                                                             *)
(***************************************************************************)
\* connect(): a new socket under the id of this turn-on.
TurnOn(p) ==
  /\ place[p] = None /\ alerts[p] = <<>>
  /\ ws[p] = None
  /\ starts[p] < MaxStart
  /\ starts' = [starts EXCEPT ![p] = @ + 1]
  /\ LET i == <<p, starts[p] + 1>> IN
       /\ ws' = [ws EXCEPT ![p] = i]
       /\ readyState' = [readyState EXCEPT ![i] = "CONNECTING"]
  /\ UNCHANGED <<alerts, leaving, place, entered, up, down, serverVars, now>>

\* disconnect(): what was sent still goes out before the socket closes.
Disconnect(p) ==
  /\ readyState' = [readyState EXCEPT ![ws[p]] =
       CASE @ = "OPEN" -> "CLOSING" [] @ = "CONNECTING" -> "CLOSED" [] OTHER -> @]
  /\ ws' = [ws EXCEPT ![p] = None]

TurnOff(p) ==
  /\ place[p] = None /\ alerts[p] = <<>>
  /\ ws[p] # None
  /\ Disconnect(p)
  /\ UNCHANGED <<starts, alerts, leaving, place, entered, up, down,
                 serverVars, now>>

(***************************************************************************)
(* "Send Request" to an id in the list, which may be that of a phone that  *)
(* has gone.  The caller goes to the chat at once and disconnects.         *)
(***************************************************************************)
SendLinkRequest(p, to) ==
  /\ place[p] = None /\ alerts[p] = <<>>
  /\ ws[p] # None
  /\ readyState[ws[p]] = "OPEN"
  /\ Owner(to) # p /\ readyState[to] # "NONE"
  /\ now < MaxSent
  /\ now' = now + 1
  /\ LET s == [from |-> ws[p], to |-> to, n |-> now'] IN
       /\ up' = [up EXCEPT ![ws[p]] = Append(@, s)]
       /\ place' = [place EXCEPT ![p] = s]
       /\ entered' = entered \cup {<<p, s>>}
  /\ Disconnect(p)
  /\ UNCHANGED <<starts, alerts, leaving, down, serverVars>>

\* onmessage: the dialog comes up over whatever screen is in front.
ReceiveRequest(i) ==
  /\ readyState[i] \in {"OPEN", "CLOSING"}
  /\ down[i] # <<>>
  /\ down' = [down EXCEPT ![i] = Tail(@)]
  /\ alerts' = [alerts EXCEPT ![Owner(i)] = <<Head(down[i])>> \o @]
  /\ UNCHANGED <<starts, ws, leaving, place, entered, readyState, up,
                 serverVars, now>>

\* "Accept": nothing is stopped (the closure is stale) and nothing is sent.
HandleAcceptRequest(p) ==
  /\ alerts[p] # <<>>
  /\ alerts' = [alerts EXCEPT ![p] = Tail(@)]
  /\ leaving' = [leaving EXCEPT ![p] = @ \cup {Head(alerts[p])}]
  /\ UNCHANGED <<starts, ws, place, entered, socketVars, serverVars, now>>

\* "Reject": the caller is not told.
RejectRequest(p) ==
  /\ alerts[p] # <<>>
  /\ alerts' = [alerts EXCEPT ![p] = Tail(@)]
  /\ UNCHANGED <<starts, ws, leaving, place, entered, socketVars,
                 serverVars, now>>

NavigateTimer(p, s) ==
  /\ s \in leaving[p]
  /\ leaving' = [leaving EXCEPT ![p] = @ \ {s}]
  /\ place' = [place EXCEPT ![p] = s]
  /\ entered' = entered \cup {<<p, s>>}
  /\ UNCHANGED <<starts, ws, alerts, socketVars, serverVars, now>>

BackHome(p) ==
  /\ place[p] # None /\ alerts[p] = <<>>
  /\ place' = [place EXCEPT ![p] = None]
  /\ UNCHANGED <<starts, ws, alerts, leaving, entered, socketVars,
                 serverVars, now>>

-----------------------------------------------------------------------------
(***************************************************************************)
(* The sockets and the server.                                             *)
(***************************************************************************)
SocketOpens(i) ==
  /\ readyState[i] = "CONNECTING"
  /\ readyState' = [readyState EXCEPT ![i] = "OPEN"]
  /\ UNCHANGED <<phoneVars, up, down, serverVars, now>>

SocketBreaks(i) ==
  /\ readyState[i] \in {"CONNECTING", "OPEN", "CLOSING"}
  /\ Cardinality({j \in Id : readyState[j] = "LOST"}) < MaxLost
  /\ readyState' = [readyState EXCEPT ![i] = "LOST"]
  /\ up' = [up EXCEPT ![i] = <<>>]
  /\ down' = [down EXCEPT ![i] = <<>>]
  /\ UNCHANGED <<phoneVars, serverVars, now>>

\* ws.accept() is done and the id is registered.
Register(i) ==
  /\ readyState[i] \in {"CONNECTING", "OPEN", "CLOSING"}
  /\ handler[i] = "none"
  /\ handler' = [handler EXCEPT ![i] = "running"]
  /\ link_request_connections' = link_request_connections \cup {i}
  /\ UNCHANGED <<phoneVars, socketVars, dead, now>>

\* Variant with a bug: the request goes to whoever else is registered.
RecipientAnyone(s) == link_request_connections \ {s.from}

\* Variant with a bug: the request is looked up under the sender's id.
RecipientSender(s) == link_request_connections \cap {s.from}

\* The registered socket of the id that a request is addressed to, if any.
Recipient(s) == link_request_connections \cap {s.to}

\* A send to this socket may be lost, or raise WebSocketDisconnect.
MayFail(i) == readyState[i] \in {"CLOSING", "CLOSED", "LOST"}

(***************************************************************************)
(* One turn of the receive loop; a request to an unknown id is dropped.    *)
(* To the library a socket is disconnected once a send to it has raised:   *)
(* if it is the handler's own, its next receive_text() raises RuntimeError,*)
(* which nothing catches, and the entry stays.                             *)
(***************************************************************************)
Forward(i) ==
  /\ handler[i] = "running"
  /\ up[i] # <<>>
  /\ \/ Recipient(Head(up[i])) = {} /\ UNCHANGED down
     \/ \E r \in Recipient(Head(up[i])) \ dead :
          \/ /\ readyState[r] \in {"CONNECTING", "OPEN", "CLOSING"}
             /\ down' = [down EXCEPT ![r] = Append(@, Head(up[i]))]
          \/ MayFail(r) /\ UNCHANGED down
  /\ up' = [up EXCEPT ![i] = IF i \in dead THEN <<>> ELSE Tail(@)]
  /\ handler' = [handler EXCEPT ![i] = IF i \in dead THEN "crashed" ELSE @]
  /\ UNCHANGED <<phoneVars, readyState, link_request_connections, dead, now>>

\* The handler returns or crashes, and with it goes the socket.
HandlerEnds(i, how) ==
  /\ handler' = [handler EXCEPT ![i] = how]
  /\ readyState' = [readyState EXCEPT ![i] = IF @ = "LOST" THEN @ ELSE "CLOSED"]
  /\ up' = [up EXCEPT ![i] = <<>>]
  /\ down' = [down EXCEPT ![i] = <<>>]

(***************************************************************************)
(* The send raises.  Only the outer try catches it, which belongs to the   *)
(* sender: it is the sender that is deregistered and whose handler ends.   *)
(***************************************************************************)
ForwardRaises(i) ==
  /\ handler[i] = "running"
  /\ up[i] # <<>>
  /\ \E r \in Recipient(Head(up[i])) \ dead :
       MayFail(r) /\ dead' = dead \cup {r}
  /\ link_request_connections' = link_request_connections \ {i}
  /\ HandlerEnds(i, "ended")
  /\ UNCHANGED <<phoneVars, now>>

(***************************************************************************)
(* A second send to a socket that has raised is a RuntimeError, which the  *)
(* outer try does not catch: the sender's handler crashes, and the sender  *)
(* stays registered.                                                       *)
(***************************************************************************)
ForwardCrashes(i) ==
  /\ handler[i] = "running"
  /\ up[i] # <<>>
  /\ \E r \in Recipient(Head(up[i])) : r \in dead
  /\ HandlerEnds(i, "crashed")
  /\ UNCHANGED <<phoneVars, link_request_connections, dead, now>>

\* Variant with a bug: the entry of a closed socket stays.
DeregisterNothing(i) ==
  /\ handler[i] = "running"
  /\ up[i] = <<>>
  /\ readyState[i] \in {"CLOSING", "CLOSED", "LOST"}
  /\ handler' = [handler EXCEPT ![i] = "ended"]
  /\ readyState' = [readyState EXCEPT ![i] = IF @ = "CLOSING" THEN "CLOSED" ELSE @]
  /\ down' = [down EXCEPT ![i] = <<>>]
  /\ UNCHANGED <<phoneVars, up, link_request_connections, dead, now>>

\* receive_text() raises WebSocketDisconnect once the last frame is read.
Deregister(i) ==
  /\ handler[i] = "running"
  /\ up[i] = <<>>
  /\ readyState[i] \in {"CLOSING", "CLOSED", "LOST"}
  /\ link_request_connections' = link_request_connections \ {i}
  /\ handler' = [handler EXCEPT ![i] = "ended"]
  /\ readyState' = [readyState EXCEPT ![i] = IF @ = "CLOSING" THEN "CLOSED" ELSE @]
  /\ down' = [down EXCEPT ![i] = <<>>]
  /\ UNCHANGED <<phoneVars, up, dead, now>>

-----------------------------------------------------------------------------
System ==
  \/ \E i \in Id : \/ SocketOpens(i) \/ Register(i)
                   \/ Forward(i) \/ ForwardRaises(i) \/ ForwardCrashes(i)
                   \/ Deregister(i) \/ ReceiveRequest(i)
  \/ \E p \in Phone : \E s \in leaving[p] : NavigateTimer(p, s)

User ==
  \E p \in Phone :
    \/ TurnOn(p) \/ TurnOff(p) \/ BackHome(p)
    \/ \E to \in Id : SendLinkRequest(p, to)
    \/ HandleAcceptRequest(p) \/ RejectRequest(p)

Next == System \/ User \/ \E i \in Id : SocketBreaks(i)

Fairness == WF_vars(System)

Spec == Init /\ [][Next]_vars /\ Fairness

-----------------------------------------------------------------------------
(***************************************************************************)
(* Properties.                                                             *)
(***************************************************************************)
\* Every variable holds values of its kind; a phone's present socket is the
\* one of its last turn-on; the sockets in the dict are exactly those whose
\* handler is still in its receive loop, or left it by an uncaught exception.
TypeOK ==
  /\ starts \in [Phone -> 0..MaxStart]
  /\ now \in 0..MaxSent
  /\ ws \in [Phone -> Id \cup {None}]
  /\ \A p \in Phone : ws[p] \in {None, <<p, starts[p]>>}
  /\ alerts \in [Phone -> Seq(Session)]
  /\ leaving \in [Phone -> SUBSET Session]
  /\ place \in [Phone -> Session \cup {None}]
  /\ entered \subseteq Phone \X Session
  /\ readyState \in
       [Id -> {"NONE", "CONNECTING", "OPEN", "CLOSING", "CLOSED", "LOST"}]
  /\ up \in [Id -> Seq(Session)]
  /\ down \in [Id -> Seq(Session)]
  /\ handler \in [Id -> {"none", "running", "ended", "crashed"}]
  /\ link_request_connections =
       {i \in Id : handler[i] \in {"running", "crashed"}}
  /\ dead \subseteq Id

(***************************************************************************)
(* What makes the exchange a rendezvous, as an inductive invariant: every  *)
(* request on its way, shown or accepted belongs to a session its caller   *)
(* has opened; it goes up on the socket it is from, and from the server on *)
(* it is where it was addressed to.                                        *)
(***************************************************************************)
Called(E) == {s \in Session : <<Caller[s], s>> \in E}

SentBy(E, i) == {s \in Called(E) : s.from = i}

InvitedTo(E, p) == {s \in Called(E) : Callee[s] = p}

InvitationInv ==
  /\ \A i \in Id : /\ up[i] \in Seq(SentBy(entered, i))
                   /\ down[i] \in Seq(InvitedTo(entered, Owner(i)))
  /\ \A p \in Phone : /\ alerts[p] \in Seq(InvitedTo(entered, p))
                      /\ leaving[p] \subseteq InvitedTo(entered, p)

Meeting == INSTANCE Rendezvous
  WITH Session <- Session, Caller <- Caller, Callee <- Callee, entered <- entered

(***************************************************************************)
(* The exchange of link requests implements Rendezvous: a session is       *)
(* opened by its caller, then at most by the phone its request was         *)
(* addressed to, each once (Home.tsx:269, 302).                            *)
(***************************************************************************)
MeetingSpec == Meeting!Spec

(***************************************************************************)
(* Entries of phones that have disconnected, or were cut off, do not stay  *)
(* (main.py:76-78): again and again everyone in the dict is connected,     *)
(* whatever the handlers were doing when their phones went.  The entries   *)
(* of handlers that crashed are excepted: nothing ever removes those.      *)
(***************************************************************************)
NoLastingGhosts ==
  []<>(\A i \in link_request_connections :
         handler[i] = "crashed" \/ readyState[i] \in {"CONNECTING", "OPEN"})

(***************************************************************************)
(* What it takes for an entry to stay for good: a handler crashes only     *)
(* after a send to a phone that had left raised in somebody else's, and    *)
(* then only that of a phone which has sent a request (main.py:53, 76).    *)
(***************************************************************************)
CrashNeedsGhost ==
  \A i \in Id : handler[i] = "crashed" =>
    \E s \in SentBy(entered, i) : i \in dead \/ s.to \in dead

Waiting(s) == \E k \in 1..Len(up[s.from]) : up[s.from][k] = s

Shown(s) == \E k \in 1..Len(alerts[Callee[s]]) : alerts[Callee[s]][k] = s

(***************************************************************************)
(* A request comes up on the phone it is addressed to, unless that phone   *)
(* is not there to receive it or the caller's socket breaks first, even    *)
(* though the caller disconnects right after sending.                      *)
(***************************************************************************)
RequestShown ==
  \A n \in 1..MaxSent :
    (\E s \in Session : s.n = n /\ Waiting(s))
      ~> \E s \in Called(entered) :
           /\ s.n = n
           /\ \/ Shown(s)
              \/ readyState[s.to] # "OPEN"
              \/ s.to \notin link_request_connections
              \/ readyState[s.from] = "LOST"
=============================================================================

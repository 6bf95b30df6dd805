--------------------------- MODULE RefusalProofs ---------------------------
(***************************************************************************)
(* That a No stands: nobody who said Yes is still asked, nobody who said   *)
(* No can still agree, and so the chat implements the abstract dialogue    *)
(* ComeCloser; for any number of devices, sessions and broken sockets, in  *)
(* every run in which no mounted screen is reused.                         *)
(***************************************************************************)
EXTENDS ChatProofs

(***************************************************************************)
(* The invariant.  A No cannot be overtaken by a Yes because each side is  *)
(* asked at most once, and it is asked at most once because the other side *)
(* sends at most one request.  The code has no counter of requests: it is  *)
(* the button (hidden once myWantsToClose is set), the dialogs in front of *)
(* it and the fact that a session is opened once that keep it to one.  So  *)
(* the invariant follows the one request through pendingMessages, up and   *)
(* down until it is noted in peerWantsToClose.                             *)
(***************************************************************************)
Has(q) == \E i \in 1..Len(q) : q[i].type = "close_request"

Once(q) ==
  \A i, j \in 1..Len(q) :
    q[i].type = "close_request" /\ q[j].type = "close_request" => i = j

Some(p, u, w) == Has(p) \/ Has(u) \/ Has(w)

Single(p, u, w) ==
  /\ Once(p) /\ Once(u) /\ Once(w)
  /\ ~(Has(p) /\ Has(u)) /\ ~(Has(p) /\ Has(w)) /\ ~(Has(u) /\ Has(w))

\* A request of d is on its way to the other party of s.
Asks(d, s) ==
  Some(pendingMessages[<<d, s>>], up[<<d, s>>], down[<<Other(d, s), s>>])

AsksOnce(d, s) ==
  Single(pendingMessages[<<d, s>>], up[<<d, s>>], down[<<Other(d, s), s>>])

\* The screen of d has noted a request of the other party of s.
Noted(d, s) == chat[d].session = s /\ chat[d].peerWantsToClose

Shows(st, kind) == \E i \in 1..Len(st) : st[i].kind = kind

\* The user of d may still come to confirm a request in s.
MayAsk(d, s) ==
  \/ readyState[<<d, s>>] = "NONE"
  \/ /\ chat[d].session = s
     /\ ~chat[d].myWantsToClose \/ Shows(chat[d].alerts, "confirm")

OneRequest(d, s) ==
  /\ AsksOnce(d, s)
  /\ ~(Asks(d, s) /\ Noted(Other(d, s), s))
  /\ MayAsk(d, s) => ~Asks(d, s) /\ ~Noted(Other(d, s), s)

Unopened(d, s) ==
  readyState[<<d, s>>] = "NONE" =>
    <<d, s>> \notin consented /\ <<d, s>> \notin refused /\ chat[d].session # s

\* At most one question is asked, and the user's own one lies at the bottom.
StackOK(st) ==
  /\ \A i \in 1..Len(st) : st[i].kind = "confirm" => i = Len(st)
  /\ \A i, j \in 1..Len(st) :
       st[i].kind = "prompt" /\ st[j].kind = "prompt" => i = j

\* Screen r of device d agrees with the answers C and R given so far.
Answers(C, R, d, r) ==
  r.session # None =>
    LET c == <<d, r.session>> IN
    /\ StackOK(r.alerts)
    /\ c \in C => r.myWantsToClose
    /\ Shows(r.alerts, "prompt") => r.peerWantsToClose /\ ~r.myWantsToClose /\ c \notin R
    /\ c \in R => r.peerWantsToClose /\ r.alerts # <<>> /\ Head(r.alerts).kind = "ended"

OneRequestEach == \A s \in Session : \A d \in Parties(s) : OneRequest(d, s)

UnopenedAll == \A s \in Session : \A d \in Parties(s) : Unopened(d, s)

AllAnswer == \A d \in Device : Answers(consented, refused, d, chat[d])

RefusalInv ==
  consented \cap refused = {} /\ OneRequestEach /\ UnopenedAll /\ AllAnswer

-----------------------------------------------------------------------------
(***************************************************************************)
(* Requests in a queue.                                                    *)
(***************************************************************************)
LEMMA EmptyHasNone == ~Has(<<>>) /\ Once(<<>>)
  BY DEF Has, Once

LEMMA HasAppend ==
  ASSUME NEW q \in Seq(Message), NEW m \in Message
  PROVE  /\ Has(Append(q, m)) <=> Has(q) \/ m.type = "close_request"
         /\ Once(q) /\ ~(Has(q) /\ m.type = "close_request") => Once(Append(q, m))
<1>1. /\ Len(Append(q, m)) = Len(q) + 1 /\ Len(q) \in Nat
      /\ Append(q, m)[Len(q) + 1] = m
      /\ \A i \in 1..Len(q) : Append(q, m)[i] = q[i]
  OBVIOUS
<1> DEFINE a == Append(q, m)
<1> HIDE DEF a
<1>2. Has(a) <=> Has(q) \/ m.type = "close_request"
  BY <1>1 DEF Has, a
<1>3. ASSUME Once(q), ~(Has(q) /\ m.type = "close_request") PROVE Once(a)
  BY <1>1, <1>3 DEF Has, Once, a
<1> QED
  BY <1>2, <1>3 DEF a

LEMMA HasTail ==
  ASSUME NEW q \in Seq(Message), q # <<>>
  PROVE  /\ Has(q) <=> Has(Tail(q)) \/ Head(q).type = "close_request"
         /\ Once(q) => Once(Tail(q))
         /\ Once(q) => ~(Has(Tail(q)) /\ Head(q).type = "close_request")
<1>1. /\ Len(Tail(q)) = Len(q) - 1 /\ Len(q) \in Nat \ {0}
      /\ Head(q) = q[1]
      /\ \A i \in 1..(Len(q) - 1) : Tail(q)[i] = q[i + 1]
  OBVIOUS
<1> DEFINE t == Tail(q)
<1> HIDE DEF t
<1>2. Has(t) => Has(q)
  BY <1>1 DEF Has, t
<1>3. ASSUME Has(q), Head(q).type # "close_request" PROVE Has(t)
  <2>1. PICK i \in 1..Len(q) : q[i].type = "close_request"
    BY <1>3 DEF Has
  <2>2. i # 1 /\ i - 1 \in 1..(Len(q) - 1) /\ t[i - 1] = q[i]
    BY <1>1, <1>3, <2>1 DEF t
  <2> QED
    BY <1>1, <2>1, <2>2 DEF Has, t
<1>4. Head(q).type = "close_request" => Has(q)
  BY <1>1 DEF Has
<1>5. Once(q) => Once(t)
  BY <1>1 DEF Once, t
<1>6. Once(q) => ~(Has(t) /\ Head(q).type = "close_request")
  BY <1>1 DEF Has, Once, t
<1> QED
  BY <1>2, <1>3, <1>4, <1>5, <1>6 DEF t

LEMMA HasConcat ==
  ASSUME NEW p \in Seq(Message), NEW q \in Seq(Message)
  PROVE  /\ Has(p \o q) <=> Has(p) \/ Has(q)
         /\ Once(p) /\ Once(q) /\ ~(Has(p) /\ Has(q)) => Once(p \o q)
<1>1. /\ Len(p \o q) = Len(p) + Len(q) /\ Len(p) \in Nat /\ Len(q) \in Nat
      /\ \A i \in 1..(Len(p) + Len(q)) :
           (p \o q)[i] = IF i <= Len(p) THEN p[i] ELSE q[i - Len(p)]
  BY ConcatProperties
<1> DEFINE c == p \o q
<1> HIDE DEF c
<1>2. Has(c) => Has(p) \/ Has(q)
  BY <1>1 DEF Has, c
<1>3. Has(p) => Has(c)
  BY <1>1 DEF Has, c
<1>4. ASSUME Has(q) PROVE Has(c)
  <2>1. PICK i \in 1..Len(q) : q[i].type = "close_request"
    BY <1>4 DEF Has
  <2>2. i + Len(p) \in 1..(Len(p) + Len(q)) /\ c[i + Len(p)] = q[i]
    BY <1>1, <2>1 DEF c
  <2> QED
    BY <1>1, <2>1, <2>2 DEF Has, c
<1>5. ASSUME Once(p), Once(q), ~(Has(p) /\ Has(q)) PROVE Once(c)
  <2> SUFFICES ASSUME NEW i \in 1..Len(c), NEW j \in 1..Len(c),
                      c[i].type = "close_request", c[j].type = "close_request"
               PROVE  i = j
    BY DEF Once
  <2>1. CASE i <= Len(p) /\ j <= Len(p)
    BY <1>1, <1>5, <2>1 DEF Once, c
  <2>2. CASE i > Len(p) /\ j > Len(p)
    BY <1>1, <1>5, <2>2, SMTT(30) DEF Once, c
  <2>3. CASE i <= Len(p) /\ j > Len(p)
    BY <1>1, <1>5, <2>3 DEF Has, c
  <2>4. CASE i > Len(p) /\ j <= Len(p)
    BY <1>1, <1>5, <2>4 DEF Has, c
  <2> QED
    BY <1>1, <2>1, <2>2, <2>3, <2>4 DEF c
<1> QED
  BY <1>2, <1>3, <1>4, <1>5 DEF c

-----------------------------------------------------------------------------
(***************************************************************************)
(* The way of the one request.                                             *)
(***************************************************************************)
LEMMA PipeType ==
  ASSUME TransportTypeOK, NEW s \in Session, NEW d \in Parties(s)
  PROVE  /\ <<d, s>> \in Client /\ <<Other(d, s), s>> \in Client
         /\ <<d, s>> # <<Other(d, s), s>>
         /\ pendingMessages[<<d, s>>] \in Seq(Message)
         /\ up[<<d, s>>] \in Seq(Message)
         /\ down[<<Other(d, s), s>>] \in Seq(Message)
  BY OtherParty DEF TransportTypeOK, Client

\* send(): only a request adds one, and only if there was none.
LEMMA PipeSend ==
  ASSUME TransportTypeOK, NEW c \in Client, NEW m \in Message, ClientSend(c, m),
         NEW s \in Session, NEW d \in Parties(s), AsksOnce(d, s),
         c = <<d, s>> /\ m.type = "close_request" => ~Asks(d, s)
  PROVE  /\ AsksOnce(d, s)'
         /\ Asks(d, s)' => Asks(d, s) \/ (c = <<d, s>> /\ m.type = "close_request")
<1> DEFINE k == <<d, s>>
           p == pendingMessages[k]
           u == up[k]
           w == down[<<Other(d, s), s>>]
<1>1. k \in Client /\ p \in Seq(Message) /\ u \in Seq(Message)
  BY PipeType
<1>2. down' = down
  BY DEF ClientSend
<1>3. CASE c # k
  <2>1. pendingMessages'[k] = p /\ up'[k] = u
    BY <1>1, <1>3 DEF ClientSend, TransportTypeOK
  <2> QED
    BY <1>2, <2>1 DEF AsksOnce, Asks
<1>4. CASE c = k /\ readyState[c] = "OPEN"
  <2>1. pendingMessages'[k] = p /\ up'[k] = Append(u, m)
    BY <1>1, <1>4 DEF ClientSend, TransportTypeOK
  <2> HIDE DEF p, u, w
  <2>2. Single(p, u, w) /\ (m.type = "close_request" => ~Some(p, u, w))
    BY <1>4 DEF AsksOnce, Asks, p, u, w
  <2>3. /\ Single(p, Append(u, m), w)
        /\ Some(p, Append(u, m), w) => Some(p, u, w) \/ m.type = "close_request"
    BY <1>1, <2>2, HasAppend DEF Single, Some
  <2> QED
    BY <1>2, <1>4, <2>1, <2>3 DEF AsksOnce, Asks, p, u, w
<1>5. CASE c = k /\ readyState[c] # "OPEN"
  <2>1. pendingMessages'[k] = Append(p, m) /\ up'[k] = u
    BY <1>1, <1>5 DEF ClientSend, TransportTypeOK
  <2> HIDE DEF p, u, w
  <2>2. Single(p, u, w) /\ (m.type = "close_request" => ~Some(p, u, w))
    BY <1>5 DEF AsksOnce, Asks, p, u, w
  <2>3. /\ Single(Append(p, m), u, w)
        /\ Some(Append(p, m), u, w) => Some(p, u, w) \/ m.type = "close_request"
    BY <1>1, <2>2, HasAppend DEF Single, Some
  <2> QED
    BY <1>2, <1>5, <2>1, <2>3 DEF AsksOnce, Asks, p, u, w
<1> QED
  BY <1>3, <1>4, <1>5

\* onmessage: a request that is received was the only one.
LEMMA PipeReceive ==
  ASSUME TransportTypeOK, NEW x \in Device, NEW t \in Session, NEW type,
         Arrives(x, t, type), NEW s \in Session, NEW d \in Parties(s), AsksOnce(d, s)
  PROVE  /\ AsksOnce(d, s)'
         /\ Asks(d, s)' => Asks(d, s)
         /\ <<x, t>> = <<Other(d, s), s>> /\ type = "close_request" =>
              Asks(d, s) /\ ~Asks(d, s)'
<1> DEFINE k == <<Other(d, s), s>>
           p == pendingMessages[<<d, s>>]
           u == up[<<d, s>>]
           w == down[k]
<1>1. k \in Client /\ w \in Seq(Message)
  BY PipeType
<1>2. UNCHANGED <<pendingMessages, up>>
  BY DEF Arrives, ClientReceive
<1>3. CASE <<x, t>> # k
  <2>1. down'[k] = w
    BY <1>1, <1>3 DEF Arrives, ClientReceive, TransportTypeOK
  <2> QED
    BY <1>2, <1>3, <2>1 DEF AsksOnce, Asks
<1>4. CASE <<x, t>> = k
  <2>1. down'[k] = Tail(w) /\ w # <<>> /\ Head(w).type = type
    BY <1>1, <1>4 DEF Arrives, ClientReceive, TransportTypeOK
  <2> HIDE DEF p, u, w
  <2>2. Single(p, u, w)
    BY DEF AsksOnce, p, u, w
  <2>3. /\ Single(p, u, Tail(w))
        /\ Some(p, u, Tail(w)) => Some(p, u, w)
        /\ type = "close_request" => Some(p, u, w) /\ ~Some(p, u, Tail(w))
    BY <1>1, <2>1, <2>2, HasTail DEF Single, Some
  <2> QED
    BY <1>2, <2>1, <2>3 DEF AsksOnce, Asks, p, u, w
<1> QED
  BY <1>3, <1>4

\* The sockets and the relay pass a request on or lose it.
LEMMA PipeTransport ==
  ASSUME TransportTypeOK, QueuesBacked, NEW c \in Client,
         Transport(c) \/ SocketBreaks(c),
         NEW s \in Session, NEW d \in Parties(s), AsksOnce(d, s)
  PROVE  AsksOnce(d, s)' /\ (Asks(d, s)' => Asks(d, s))
<1> DEFINE k == <<d, s>>
           l == <<Other(d, s), s>>
           p == pendingMessages[k]
           u == up[k]
           w == down[l]
<1>1. /\ k \in Client /\ l \in Client /\ k # l
      /\ p \in Seq(Message) /\ u \in Seq(Message) /\ w \in Seq(Message)
  BY PipeType
<1>2. Single(p, u, w)
  BY DEF AsksOnce
<1>3. ASSUME Single(pendingMessages'[k], up'[k], down'[l]),
             Some(pendingMessages'[k], up'[k], down'[l]) => Some(p, u, w)
      PROVE  AsksOnce(d, s)' /\ (Asks(d, s)' => Asks(d, s))
  BY <1>3 DEF AsksOnce, Asks
<1>4. CASE ClientOpened(c)
  <2>1. CASE c = k
    <3>1. pendingMessages'[k] = <<>> /\ up'[k] = u \o p /\ down'[l] = w
      BY <1>1, <1>4, <2>1 DEF ClientOpened, TransportTypeOK
    <3> HIDE DEF p, u, w
    <3> QED
      BY <1>1, <1>2, <1>3, <3>1, HasConcat, EmptyHasNone DEF Single, Some
  <2>2. CASE c # k
    <3>1. pendingMessages'[k] = p /\ up'[k] = u /\ down'[l] = w
      BY <1>1, <1>4, <2>2 DEF ClientOpened, TransportTypeOK
    <3> QED
      BY <1>2, <1>3, <3>1
  <2> QED
    BY <2>1, <2>2
<1>5. CASE RelayJoin(c)
  BY <1>2, <1>3, <1>5 DEF RelayJoin, clientVars
<1>6. CASE RelayForward(c)
  <2>1. PICK x \in Device, t \in Session : c = <<x, t>>
    BY DEF Client
  <2>2. x \in Parties(t)
    BY <1>6, <2>1 DEF RelayForward, QueuesBacked
  <2>3. pendingMessages'[k] = p
    BY <1>6 DEF RelayForward
  <2>4. CASE c = k
    <3>1. u # <<>> /\ up'[k] = Tail(u)
      BY <1>1, <1>6, <2>4 DEF RelayForward, TransportTypeOK
    <3>2. down'[l] \in {w, Append(w, Head(u))}
      BY <1>1, <1>6, <2>4 DEF RelayForward
    <3> HIDE DEF p, u, w
    <3>3. Head(u) \in Message
      BY <1>1, <3>1
    <3>4. CASE down'[l] = w
      BY <1>1, <1>2, <1>3, <2>3, <3>1, <3>4, HasTail DEF Single, Some
    <3>5. CASE down'[l] = Append(w, Head(u))
      <4>1. /\ Single(p, Tail(u), Append(w, Head(u)))
            /\ Some(p, Tail(u), Append(w, Head(u))) => Some(p, u, w)
        BY <1>1, <1>2, <3>1, <3>3, HasTail, HasAppend DEF Single, Some
      <4> QED
        BY <1>3, <2>3, <3>1, <3>5, <4>1
    <3> QED
      BY <3>2, <3>4, <3>5
  <2>5. CASE c # k
    <3>1. up'[k] = u
      BY <1>1, <1>6, <2>5 DEF RelayForward, TransportTypeOK
    <3>2. l \notin PeersOf(c)
      <4>1. ASSUME l \in PeersOf(c) PROVE FALSE
        <5>1. t = s /\ x # Other(d, s)
          BY <2>1, <4>1 DEF PeersOf
        <5> QED
          BY <2>1, <2>2, <2>5, <5>1, OtherParty
      <4> QED
        BY <4>1
    <3>3. down'[l] = w
      BY <1>1, <1>6, <3>2 DEF RelayForward
    <3> QED
      BY <1>2, <1>3, <2>3, <3>1, <3>3
  <2> QED
    BY <2>4, <2>5
<1>7. CASE RelayLeave(c)
  <2>1. /\ pendingMessages'[k] = p /\ up'[k] = u
        /\ down'[l] = w \/ down'[l] = <<>>
    BY <1>1, <1>7 DEF RelayLeave, TransportTypeOK
  <2> HIDE DEF p, u, w
  <2> QED
    BY <1>2, <1>3, <2>1, EmptyHasNone DEF Single, Some
<1>8. CASE ClientLost(c)
  <2>1. /\ pendingMessages'[k] = p
        /\ up'[k] = u \/ up'[k] = <<>>
        /\ down'[l] = w \/ down'[l] = <<>>
    BY <1>1, <1>8 DEF ClientLost, TransportTypeOK
  <2> HIDE DEF p, u, w
  <2> QED
    BY <1>2, <1>3, <2>1, EmptyHasNone DEF Single, Some
<1> QED
  BY <1>4, <1>5, <1>6, <1>7, <1>8 DEF Transport, SocketBreaks

-----------------------------------------------------------------------------
(***************************************************************************)
(* The dialogs of a screen.                                                *)
(***************************************************************************)
\* A dialog other than the user's own question is put on top.
LEMMA StackPush ==
  ASSUME NEW st \in Seq(Dialog), NEW a \in Dialog, StackOK(st),
         a.kind # "confirm" \/ st = <<>>,
         a.kind = "prompt" => ~Shows(st, "prompt")
  PROVE  /\ StackOK(<<a>> \o st) /\ <<a>> \o st # <<>> /\ Head(<<a>> \o st) = a
         /\ \A kind : Shows(<<a>> \o st, kind) <=> a.kind = kind \/ Shows(st, kind)
<1> DEFINE q == <<a>> \o st
<1>1. /\ Len(q) = Len(st) + 1 /\ Len(st) \in Nat /\ q[1] = a /\ q # <<>> /\ Head(q) = a
      /\ \A i \in 2..(Len(st) + 1) : q[i] = st[i - 1]
      /\ \A i \in 1..Len(st) : q[i + 1] = st[i]
      /\ st = <<>> => Len(st) = 0
  OBVIOUS
<1> HIDE DEF q
<1>2. \A i \in 1..Len(q) : q[i].kind = "confirm" => i = Len(q)
  BY <1>1 DEF StackOK
<1>3. \A i, j \in 1..Len(q) : q[i].kind = "prompt" /\ q[j].kind = "prompt" => i = j
  <2> SUFFICES ASSUME NEW i \in 1..Len(q), NEW j \in 1..Len(q),
                      q[i].kind = "prompt", q[j].kind = "prompt"
               PROVE  i = j
    OBVIOUS
  <2>1. CASE i = 1 \/ j = 1
    BY <1>1, <2>1 DEF Shows
  <2>2. CASE i # 1 /\ j # 1
    <3>1. i - 1 \in 1..Len(st) /\ j - 1 \in 1..Len(st) /\ q[i] = st[i - 1] /\ q[j] = st[j - 1]
      BY <1>1, <2>2
    <3>2. i - 1 = j - 1
      BY <3>1 DEF StackOK
    <3> QED
      BY <1>1, <3>2
  <2> QED
    BY <2>1, <2>2
<1>4. ASSUME NEW kind PROVE Shows(q, kind) <=> a.kind = kind \/ Shows(st, kind)
  <2>1. ASSUME Shows(q, kind) PROVE a.kind = kind \/ Shows(st, kind)
    BY <1>1, <2>1 DEF Shows
  <2>2. ASSUME Shows(st, kind) PROVE Shows(q, kind)
    <3>1. PICK i \in 1..Len(st) : st[i].kind = kind
      BY <2>2 DEF Shows
    <3>2. i + 1 \in 1..Len(q) /\ q[i + 1].kind = kind
      BY <1>1, <3>1
    <3> QED
      BY <3>2 DEF Shows
  <2>3. a.kind = kind => Shows(q, kind)
    BY <1>1 DEF Shows
  <2> QED
    BY <2>1, <2>2, <2>3
<1> QED
  BY <1>1, <1>2, <1>3, <1>4 DEF StackOK, q

\* The dialog on top is answered.
LEMMA StackPop ==
  ASSUME NEW st \in Seq(Dialog), st # <<>>, StackOK(st)
  PROVE  /\ Tail(st) \in Seq(Dialog) /\ StackOK(Tail(st)) /\ Head(st) \in Dialog
         /\ Shows(st, Head(st).kind)
         /\ \A kind : Shows(Tail(st), kind) => Shows(st, kind)
         /\ Head(st).kind = "prompt" => ~Shows(Tail(st), "prompt")
         /\ Head(st).kind = "confirm" => Tail(st) = <<>>
<1> DEFINE q == Tail(st)
<1>1. /\ q \in Seq(Dialog) /\ Len(q) = Len(st) - 1 /\ Len(st) \in Nat \ {0}
      /\ Head(st) = st[1] /\ Head(st) \in Dialog
      /\ \A i \in 1..(Len(st) - 1) : q[i] = st[i + 1]
  OBVIOUS
<1>a. Len(q) = 0 => q = <<>>
  BY <1>1, EmptySeq
<1> HIDE DEF q
<1>2. StackOK(q)
  <2>1. \A i \in 1..Len(q) : q[i].kind = "confirm" => i = Len(q)
    BY <1>1 DEF StackOK
  <2>2. ASSUME NEW i \in 1..Len(q), NEW j \in 1..Len(q),
               q[i].kind = "prompt", q[j].kind = "prompt"
        PROVE  i = j
    <3>0. /\ i + 1 \in 1..Len(st) /\ j + 1 \in 1..Len(st)
          /\ st[i + 1] = q[i] /\ st[j + 1] = q[j]
      BY <1>1
    <3>1. i + 1 = j + 1
      BY <2>2, <3>0 DEF StackOK
    <3> QED
      BY <1>1, <3>1
  <2> QED
    BY <2>1, <2>2 DEF StackOK
<1>3. \A kind : Shows(q, kind) => Shows(st, kind)
  BY <1>1 DEF Shows
<1>4. Head(st).kind = "prompt" => ~Shows(q, "prompt")
  BY <1>1 DEF Shows, StackOK
<1>5. Head(st).kind = "confirm" => q = <<>>
  BY <1>1, <1>a DEF StackOK
<1>6. Shows(st, Head(st).kind)
  BY <1>1 DEF Shows
<1> QED
  BY <1>1, <1>2, <1>3, <1>4, <1>5, <1>6 DEF q

-----------------------------------------------------------------------------
(***************************************************************************)
(* Steps of one screen.                                                    *)
(***************************************************************************)
\* The queues keep their one request, or lose it.
PipeCalm ==
  \A s \in Session : \A d \in Parties(s) :
    AsksOnce(d, s) => AsksOnce(d, s)' /\ (Asks(d, s)' => Asks(d, s))

LEMMA PipeUnchanged ==
  ASSUME UNCHANGED <<pendingMessages, up, down>>
  PROVE  PipeCalm
  BY DEF PipeCalm, AsksOnce, Asks

LEMMA PipeSendCalm ==
  ASSUME TransportTypeOK, NEW c \in Client, NEW m \in Message, ClientSend(c, m),
         m.type # "close_request"
  PROVE  PipeCalm
  BY PipeSend DEF PipeCalm

LEMMA PipeReceiveCalm ==
  ASSUME TransportTypeOK, NEW x \in Device, NEW t \in Session, NEW type,
         Arrives(x, t, type)
  PROVE  PipeCalm
  BY PipeReceive DEF PipeCalm

\* Screen r may still lead to a request.
Undecided(r) == ~r.myWantsToClose \/ Shows(r.alerts, "confirm")

LEMMA QuietRequests ==
  ASSUME OneRequestEach, PipeCalm,
         \A s \in Session : \A d \in Parties(s) :
           /\ MayAsk(d, s)' => MayAsk(d, s)
           /\ Noted(d, s)' => Noted(d, s)
  PROVE  OneRequestEach'
<1> SUFFICES ASSUME NEW s \in Session, NEW d \in Parties(s)
             PROVE  OneRequest(d, s)'
  BY DEF OneRequestEach
<1>1. OneRequest(d, s) /\ Other(d, s) \in Parties(s)
  BY OtherParty DEF OneRequestEach
<1>2. AsksOnce(d, s)' /\ (Asks(d, s)' => Asks(d, s))
  BY <1>1 DEF PipeCalm, OneRequest
<1>3. Noted(Other(d, s), s)' => Noted(Other(d, s), s)
  BY <1>1
<1>4. MayAsk(d, s)' => MayAsk(d, s)
  OBVIOUS
<1> QED
  BY <1>1, <1>2, <1>3, <1>4 DEF OneRequest

LEMMA ScreenRequests ==
  ASSUME OneRequestEach, PipeCalm, chat \in [Device -> Screen],
         NEW d \in Device, NEW r, chat' = [chat EXCEPT ![d] = r],
         readyState' = readyState, r.session = chat[d].session,
         Undecided(r) => Undecided(chat[d]),
         r.peerWantsToClose => chat[d].peerWantsToClose
  PROVE  OneRequestEach'
<1> SUFFICES ASSUME NEW s \in Session, NEW x \in Parties(s)
             PROVE  /\ MayAsk(x, s)' => MayAsk(x, s)
                    /\ Noted(x, s)' => Noted(x, s)
  BY QuietRequests
<1>1. CASE x = d
  BY <1>1 DEF MayAsk, Noted, Undecided
<1>2. CASE x # d
  <2>1. chat'[x] = chat[x]
    BY <1>2, OtherParty
  <2> QED
    BY <2>1 DEF MayAsk, Noted
<1> QED
  BY <1>1, <1>2

\* The screen of d changes, and with it perhaps the answers of d.
LEMMA ScreenAnswers ==
  ASSUME UnopenedAll, AllAnswer, chat \in [Device -> Screen],
         NEW d \in Device, NEW r, chat' = [chat EXCEPT ![d] = r],
         readyState' = readyState, r.session = chat[d].session, chat[d].session # None,
         consented' \subseteq consented \cup {<<d, chat[d].session>>},
         refused' \subseteq refused \cup {<<d, chat[d].session>>},
         Answers(consented', refused', d, r)
  PROVE  UnopenedAll' /\ AllAnswer'
<1>1. ASSUME NEW s \in Session, NEW x \in Parties(s)
      PROVE  Unopened(x, s)'
  <2>1. Unopened(x, s) /\ x \in Device
    BY OtherParty DEF UnopenedAll
  <2>2. chat'[x].session = chat[x].session
    BY <2>1
  <2>3. CASE readyState[<<x, s>>] = "NONE"
    <3>1. <<x, s>> # <<d, chat[d].session>>
      BY <2>1, <2>3 DEF Unopened
    <3> QED
      BY <2>1, <2>2, <2>3, <3>1 DEF Unopened
  <2> QED
    BY <2>3 DEF Unopened
<1>2. ASSUME NEW x \in Device
      PROVE  Answers(consented', refused', x, chat'[x])
  <2>1. CASE x = d
    BY <2>1
  <2>2. CASE x # d
    <3>1. chat'[x] = chat[x] /\ Answers(consented, refused, x, chat[x])
      BY <2>2 DEF AllAnswer
    <3>2. /\ <<x, chat[x].session>> \in consented' => <<x, chat[x].session>> \in consented
          /\ <<x, chat[x].session>> \in refused' => <<x, chat[x].session>> \in refused
      BY <2>2
    <3> HIDE DEF AllAnswer, UnopenedAll
    <3> QED
      BY <3>1, <3>2 DEF Answers
  <2> QED
    BY <2>1, <2>2
<1> QED
  BY <1>1, <1>2 DEF UnopenedAll, AllAnswer

\* A step of a screen that gives no answer and leads to no new request.
LEMMA ScreenQuiet ==
  ASSUME RefusalInv, PipeCalm, chat \in [Device -> Screen],
         NEW d \in Device, NEW r, chat' = [chat EXCEPT ![d] = r],
         UNCHANGED <<readyState, consented, refused>>,
         r.session = chat[d].session, chat[d].session # None,
         Undecided(r) => Undecided(chat[d]),
         r.peerWantsToClose => chat[d].peerWantsToClose,
         Answers(consented, refused, d, r)
  PROVE  RefusalInv'
<1>1. OneRequestEach'
  BY ScreenRequests DEF RefusalInv
<1>2. UnopenedAll' /\ AllAnswer'
  BY ScreenAnswers DEF RefusalInv
<1> QED
  BY <1>1, <1>2 DEF RefusalInv

\* A step of a screen that touches neither its flags nor its dialogs.
LEMMA ScreenIdle ==
  ASSUME RefusalInv, PipeCalm, chat \in [Device -> Screen],
         NEW d \in Device, NEW r, chat' = [chat EXCEPT ![d] = r],
         UNCHANGED <<readyState, consented, refused>>,
         r.session = chat[d].session, chat[d].session # None,
         r.alerts = chat[d].alerts, r.myWantsToClose = chat[d].myWantsToClose,
         r.peerWantsToClose = chat[d].peerWantsToClose
  PROVE  RefusalInv'
<1>1. Answers(consented, refused, d, r)
  BY DEF RefusalInv, AllAnswer, Answers
<1> QED
  BY <1>1, ScreenQuiet DEF Undecided

\* What the invariant says of a mounted screen.
LEMMA MountedAnswers ==
  ASSUME ScreenTypeOK, ConsentInv, RefusalInv, NEW d \in Device, Mounted(d)
  PROVE  LET s == chat[d].session
             c == <<d, s>>
             st == chat[d].alerts
         IN  /\ s \in Session /\ d \in Parties(s) /\ s # None
             /\ st \in Seq(Dialog) /\ StackOK(st)
             /\ c \in consented => chat[d].myWantsToClose
             /\ Shows(st, "prompt") =>
                  /\ chat[d].peerWantsToClose /\ ~chat[d].myWantsToClose
                  /\ c \notin refused
             /\ c \in refused =>
                  chat[d].peerWantsToClose /\ st # <<>> /\ Head(st).kind = "ended"
             /\ readyState[c] # "NONE"
             /\ OneRequest(d, s) /\ OneRequest(Other(d, s), s)
<1> DEFINE s == chat[d].session
<1>1. s \in Session /\ d \in Parties(s) /\ s # None
  BY MountedBacked DEF Mounted
<1>2. Answers(consented, refused, d, chat[d]) /\ chat[d].alerts \in Seq(Dialog)
  BY DEF RefusalInv, AllAnswer, ScreenTypeOK, Screen
<1>3. readyState[<<d, s>>] # "NONE"
  BY <1>1 DEF RefusalInv, UnopenedAll, Unopened
<1>4. OneRequest(d, s) /\ OneRequest(Other(d, s), s)
  BY <1>1, OtherParty DEF RefusalInv, OneRequestEach
<1> QED
  BY <1>1, <1>2, <1>3, <1>4 DEF Answers

-----------------------------------------------------------------------------
(***************************************************************************)
(* The invariant holds.                                                    *)
(***************************************************************************)
LEMMA InitRefusal == Init => RefusalInv
<1> SUFFICES ASSUME Init PROVE RefusalInv
  OBVIOUS
<1>1. \A d \in Device, s \in Session : <<d, s>> \in Client
  BY DEF Client
<1>2. \A d \in Device : chat[d] = NoScreen
  BY DEF Init
<1>3. ASSUME NEW s \in Session, NEW d \in Parties(s)
      PROVE  OneRequest(d, s) /\ Unopened(d, s)
  <2>1. d \in Device /\ Other(d, s) \in Device /\ s # None
    BY OtherParty, NoneAssumption
  <2>2. ~Noted(Other(d, s), s) /\ chat[d].session # s
    BY <1>2, <2>1 DEF Noted, NoScreen
  <2>3. /\ pendingMessages[<<d, s>>] = <<>> /\ up[<<d, s>>] = <<>>
        /\ down[<<Other(d, s), s>>] = <<>>
    BY <1>1, <2>1 DEF Init, RelayInit, ClientInit
  <2>4. AsksOnce(d, s) /\ ~Asks(d, s)
    BY <2>3, EmptyHasNone DEF AsksOnce, Asks, Single, Some
  <2> QED
    BY <2>2, <2>4 DEF OneRequest, Unopened, Init
<1>4. AllAnswer
  BY <1>2 DEF AllAnswer, Answers, NoScreen
<1> QED
  BY <1>3, <1>4 DEF Init, RefusalInv, OneRequestEach, UnopenedAll

\* The sockets and the relay.
LEMMA TransportRefusal ==
  ASSUME ScreenTypeOK, ConsentInv, RefusalInv, NEW c \in Client,
         Transport(c) \/ SocketBreaks(c)
  PROVE  RefusalInv'
<1>1. UNCHANGED <<chat, consented, refused>>
  BY DEF Transport, SocketBreaks, historyVars
<1>2. PipeCalm
  BY PipeTransport DEF PipeCalm, ScreenTypeOK, ConsentInv
<1>3. \A x \in Client : readyState'[x] = "NONE" => readyState[x] = "NONE"
  BY DEF Transport, SocketBreaks, ClientOpened, RelayJoin, RelayForward, RelayLeave,
         ClientLost, clientVars, ScreenTypeOK, TransportTypeOK
<1>4. ASSUME NEW s \in Session, NEW d \in Parties(s)
      PROVE  /\ MayAsk(d, s)' => MayAsk(d, s)
             /\ Noted(d, s)' => Noted(d, s)
             /\ Unopened(d, s)'
  <2>1. <<d, s>> \in Client /\ Unopened(d, s)
    BY OtherParty DEF Client, RefusalInv, UnopenedAll
  <2> QED
    BY <1>1, <1>3, <2>1 DEF MayAsk, Noted, Unopened
<1>5. OneRequestEach'
  BY <1>2, <1>4, QuietRequests DEF RefusalInv
<1> QED
  BY <1>1, <1>4, <1>5 DEF RefusalInv, UnopenedAll, AllAnswer

\* A session is opened.
LEMMA NavigateRefusal ==
  ASSUME ScreenTypeOK, ConsentInv, RefusalInv, NEW d \in Device, NEW s \in Session,
         Navigate(d, s)
  PROVE  RefusalInv'
<1>1. /\ chat[d].session = None /\ d \in Parties(s) /\ readyState[<<d, s>>] = "NONE"
      /\ chat' = [chat EXCEPT ![d] = FreshScreen(d, s)]
      /\ readyState' = [readyState EXCEPT ![<<d, s>>] = "CONNECTING"]
      /\ UNCHANGED <<pendingMessages, up, down, consented, refused>>
  BY DEF Navigate, historyVars
<1>2. /\ FreshScreen(d, s).session = s /\ ~FreshScreen(d, s).peerWantsToClose
      /\ FreshScreen(d, s).alerts = <<>>
  BY DEF FreshScreen, NoScreen
<1>3. chat \in [Device -> Screen] /\ readyState \in [Client -> ReadyState]
  BY DEF ScreenTypeOK, TransportTypeOK
<1>4. PipeCalm
  BY <1>1, PipeUnchanged
<1>5. ASSUME NEW t \in Session, NEW x \in Parties(t)
      PROVE  /\ MayAsk(x, t)' => MayAsk(x, t)
             /\ Noted(x, t)' => Noted(x, t)
             /\ Unopened(x, t)'
  <2>1. x \in Device /\ <<x, t>> \in Client /\ <<d, s>> \in Client /\ Unopened(x, t)
    BY OtherParty DEF Client, RefusalInv, UnopenedAll
  <2>2. CASE x = d
    <3>1. chat'[x] = FreshScreen(d, s)
      BY <1>1, <1>3, <2>2
    <3>2. CASE t = s
      <4>1. readyState'[<<x, t>>] = "CONNECTING"
        BY <1>1, <1>3, <2>1, <2>2, <3>2
      <4> QED
        BY <1>1, <1>2, <2>2, <3>1, <3>2, <4>1 DEF MayAsk, Noted, Unopened
    <3>3. CASE t # s
      <4>1. readyState'[<<x, t>>] = readyState[<<x, t>>]
        BY <1>1, <1>3, <2>1, <3>3
      <4> QED
        BY <1>1, <1>2, <2>1, <3>1, <3>3, <4>1 DEF MayAsk, Noted, Unopened
    <3> QED
      BY <3>2, <3>3
  <2>3. CASE x # d
    <3>1. chat'[x] = chat[x] /\ readyState'[<<x, t>>] = readyState[<<x, t>>]
      BY <1>1, <1>3, <2>1, <2>3
    <3> QED
      BY <1>1, <2>1, <3>1 DEF MayAsk, Noted, Unopened
  <2> QED
    BY <2>2, <2>3
<1>6. OneRequestEach'
  BY <1>4, <1>5, QuietRequests DEF RefusalInv
<1>7. Answers(consented, refused, d, FreshScreen(d, s))
  <2>1. <<d, s>> \notin consented /\ <<d, s>> \notin refused
    BY <1>1 DEF RefusalInv, UnopenedAll, Unopened
  <2> QED
    BY <1>2, <2>1 DEF Answers, StackOK, Shows
<1>8. AllAnswer'
  BY <1>1, <1>3, <1>7 DEF RefusalInv, AllAnswer
<1> QED
  BY <1>1, <1>5, <1>6, <1>8 DEF RefusalInv, UnopenedAll

\* client.close() does not undo the opening of a session.
LEMMA CloseNone ==
  ASSUME TransportTypeOK, NEW c \in Client, NEW x \in Client,
         AfterClose(readyState, c)[x] = "NONE"
  PROVE  readyState[x] = "NONE"
  BY DEF TransportTypeOK, AfterClose, ReadyState

\* A screen is left.
LEMMA GoBackRefusal ==
  ASSUME ScreenTypeOK, RefusalInv, NEW d \in Device, GoBack(d), Current(d) \in Client
  PROVE  RefusalInv'
<1>1. /\ chat' = [chat EXCEPT ![d] = NoScreen]
      /\ readyState' = AfterClose(readyState, Current(d))
      /\ UNCHANGED <<pendingMessages, up, down, consented, refused>>
  BY DEF GoBack, historyVars
<1>2. chat \in [Device -> Screen] /\ TransportTypeOK
  BY DEF ScreenTypeOK
<1>3. PipeCalm
  BY <1>1, PipeUnchanged
<1>4. ASSUME NEW t \in Session, NEW x \in Parties(t)
      PROVE  /\ MayAsk(x, t)' => MayAsk(x, t)
             /\ Noted(x, t)' => Noted(x, t)
             /\ Unopened(x, t)'
  <2>1. x \in Device /\ <<x, t>> \in Client /\ Unopened(x, t) /\ t # None
    BY OtherParty, NoneAssumption DEF Client, RefusalInv, UnopenedAll
  <2>2. readyState'[<<x, t>>] = "NONE" => readyState[<<x, t>>] = "NONE"
    BY <1>1, <1>2, <2>1, CloseNone
  <2>3. chat'[x] \in {chat[x], NoScreen}
    BY <1>1, <1>2, <2>1
  <2>4. NoScreen.session = None
    BY DEF NoScreen
  <2> QED
    BY <1>1, <2>1, <2>2, <2>3, <2>4 DEF MayAsk, Noted, Unopened
<1>5. OneRequestEach'
  BY <1>3, <1>4, QuietRequests DEF RefusalInv
<1>6. AllAnswer'
  <2>1. Answers(consented, refused, d, NoScreen)
    BY DEF Answers, NoScreen
  <2> QED
    BY <1>1, <1>2, <2>1 DEF RefusalInv, AllAnswer
<1> QED
  BY <1>1, <1>4, <1>5, <1>6 DEF RefusalInv, UnopenedAll

\* The steps of the handshake and the texts.
LEMMA TalkRefusal ==
  ASSUME ScreenTypeOK, ConsentInv, RefusalInv, NEW d \in Device,
         \/ Reply(d) \/ Say(d)
         \/ \E s \in Session : SendPublicKey(d, s) \/ ReceivePubkey(d, s) \/ ReceiveMsg(d, s)
  PROVE  RefusalInv'
<1> USE DEF historyVars
<1>0. chat \in [Device -> Screen] /\ TransportTypeOK
  BY DEF ScreenTypeOK
<1>1. CASE Reply(d)
  <2> DEFINE r == [chat[d] EXCEPT !.reply = FALSE]
  <2>1. Mounted(d) /\ chat[d].keyPair \in Key /\ Current(d) \in Client
    BY <1>1, ActiveScreen DEF Reply
  <2>2. PubKey(d) \in Message /\ PubKey(d).type # "close_request"
    BY <2>1, PubKeyType DEF PubKey
  <2>3. PipeCalm /\ readyState' = readyState
    BY <1>0, <1>1, <2>1, <2>2, PipeSendCalm DEF Reply, ClientSend
  <2>4. chat' = [chat EXCEPT ![d] = r] /\ UNCHANGED <<consented, refused>>
    BY <1>1 DEF Reply
  <2>5. /\ r.session = chat[d].session /\ r.alerts = chat[d].alerts
        /\ r.myWantsToClose = chat[d].myWantsToClose
        /\ r.peerWantsToClose = chat[d].peerWantsToClose
    BY <1>0 DEF Screen
  <2> HIDE DEF r
  <2> QED
    BY <1>0, <2>1, <2>3, <2>4, <2>5, ScreenIdle DEF Mounted
<1>2. CASE Say(d)
  <2> DEFINE m == [type |-> "msg", box |-> chat[d].sessionKey,
                   body |-> [from |-> d, session |-> chat[d].session, n |-> said[d] + 1]]
  <2>1. chat[d].session # None /\ chat[d].session \in Session /\ Current(d) \in Client
    BY <1>2, ActiveScreen DEF Say
  <2>2. m.body \in Body /\ chat[d].sessionKey \in SUBSET Key
    BY <1>2, <2>1, MaxSaidAssumption DEF Say, Body, ScreenTypeOK, Screen
  <2>3. m \in Message /\ m.type # "close_request"
    BY <2>2 DEF Message
  <2>4. PipeCalm /\ readyState' = readyState
    BY <1>0, <1>2, <2>1, <2>3, PipeSendCalm DEF Say, ClientSend
  <2>5. chat' = [chat EXCEPT ![d] = chat[d]] /\ UNCHANGED <<consented, refused>>
    BY <1>0, <1>2 DEF Say
  <2> QED
    BY <1>0, <2>1, <2>4, <2>5, ScreenIdle
<1>3. ASSUME NEW s \in Session, SendPublicKey(d, s) PROVE RefusalInv'
  <2> DEFINE r == [chat[d] EXCEPT !.hello = @ \ {s}]
  <2>1. Mounted(d) /\ chat[d].keyPair \in Key /\ <<d, s>> \in Client
    BY <1>3, ActiveScreen DEF SendPublicKey, Client
  <2>2. PubKey(d) \in Message /\ PubKey(d).type # "close_request"
    BY <2>1, PubKeyType DEF PubKey
  <2>3. PipeCalm /\ readyState' = readyState
    BY <1>0, <1>3, <2>1, <2>2, PipeSendCalm DEF SendPublicKey, ClientSend
  <2>4. chat' = [chat EXCEPT ![d] = r] /\ UNCHANGED <<consented, refused>>
    BY <1>3 DEF SendPublicKey
  <2>5. /\ r.session = chat[d].session /\ r.alerts = chat[d].alerts
        /\ r.myWantsToClose = chat[d].myWantsToClose
        /\ r.peerWantsToClose = chat[d].peerWantsToClose
    BY <1>0 DEF Screen
  <2> HIDE DEF r
  <2> QED
    BY <1>0, <2>1, <2>3, <2>4, <2>5, ScreenIdle DEF Mounted
<1>4. ASSUME NEW s \in Session, ReceivePubkey(d, s) PROVE RefusalInv'
  <2> DEFINE ev == Head(down[<<d, s>>])
             r == [chat[d] EXCEPT
                     !.sessionKey = SharedKey(chat[d].keyPair, ev.key),
                     !.peerInstagram = IF ev.from \in HasHandle THEN ev.from ELSE @,
                     !.reply = @ \/ chat[d].sessionKey = {}]
  <2>1. Receive(d, s, "pubkey") /\ UNCHANGED <<consented, refused>>
    BY <1>4 DEF ReceivePubkey
  <2>2. Mounted(d) /\ PipeCalm /\ readyState' = readyState
    BY <1>0, <2>1, ReceiveType, PipeReceiveCalm DEF Receive, Arrives, ClientReceive
  <2>3. chat' = [chat EXCEPT ![d] = r]
    BY <1>4 DEF ReceivePubkey
  <2>4. /\ r.session = chat[d].session /\ r.alerts = chat[d].alerts
        /\ r.myWantsToClose = chat[d].myWantsToClose
        /\ r.peerWantsToClose = chat[d].peerWantsToClose
    BY <1>0 DEF Screen
  <2> HIDE DEF r
  <2> QED
    BY <1>0, <2>1, <2>2, <2>3, <2>4, ScreenIdle DEF Mounted
<1>5. ASSUME NEW s \in Session, ReceiveMsg(d, s) PROVE RefusalInv'
  <2> DEFINE ev == Head(down[<<d, s>>])
             r == [chat[d] EXCEPT !.heard = IF chat[d].sessionKey = ev.box
                                            THEN Append(@, ev.body) ELSE @]
  <2>1. Receive(d, s, "msg") /\ UNCHANGED <<consented, refused>>
    BY <1>5 DEF ReceiveMsg
  <2>2. Mounted(d) /\ PipeCalm /\ readyState' = readyState
    BY <1>0, <2>1, ReceiveType, PipeReceiveCalm DEF Receive, Arrives, ClientReceive
  <2>3. chat' = [chat EXCEPT ![d] = r]
    BY <1>5 DEF ReceiveMsg
  <2>4. /\ r.session = chat[d].session /\ r.alerts = chat[d].alerts
        /\ r.myWantsToClose = chat[d].myWantsToClose
        /\ r.peerWantsToClose = chat[d].peerWantsToClose
    BY <1>0 DEF Screen
  <2> HIDE DEF r
  <2> QED
    BY <1>0, <2>1, <2>2, <2>3, <2>4, ScreenIdle DEF Mounted
<1> QED
  BY <1>1, <1>2, <1>3, <1>4, <1>5

\* What the user answers, but for the request itself.
LEMMA AnswerRefusal ==
  ASSUME ScreenTypeOK, ConsentInv, RefusalInv, NEW d \in Device,
         \/ HandleCloseRequest(d) \/ ConfirmCancel(d) \/ DismissCloser(d)
         \/ PromptYes(d) \/ PromptNo(d)
  PROVE  RefusalInv'
<1> USE DEF historyVars
<1> DEFINE s == chat[d].session
           c == <<d, s>>
           st == chat[d].alerts
<1>0. chat \in [Device -> Screen] /\ TransportTypeOK
  BY DEF ScreenTypeOK
<1>1. Mounted(d) /\ Current(d) = c /\ c \in Client
  BY ActiveScreen
  DEF HandleCloseRequest, ConfirmCancel, DismissCloser, PromptYes, PromptNo, Asked, Current
<1>2. /\ s \in Session /\ d \in Parties(s) /\ s # None
      /\ st \in Seq(Dialog) /\ StackOK(st)
      /\ c \in consented => chat[d].myWantsToClose
      /\ Shows(st, "prompt") =>
           chat[d].peerWantsToClose /\ ~chat[d].myWantsToClose /\ c \notin refused
      /\ c \in refused => chat[d].peerWantsToClose /\ st # <<>> /\ Head(st).kind = "ended"
  BY <1>1, MountedAnswers
<1>3. consented \cap refused = {}
  BY DEF RefusalInv
<1>4. ASSUME NEW kind, Asked(d, kind)
      PROVE  /\ st # <<>> /\ Head(st).kind = kind /\ Shows(st, kind)
             /\ AskedIn(d) = s
             /\ Tail(st) \in Seq(Dialog) /\ StackOK(Tail(st))
             /\ \A k : Shows(Tail(st), k) => Shows(st, k)
             /\ kind = "prompt" => ~Shows(Tail(st), "prompt")
             /\ kind = "confirm" => Tail(st) = <<>>
  <2>1. st # <<>> /\ Head(st).kind = kind
    BY <1>4 DEF Asked
  <2>2. AskedIn(d) = s
    BY <1>4, TopBacked
  <2> QED
    BY <1>2, <2>1, <2>2, StackPop
<1>5. CASE HandleCloseRequest(d)
  <2> DEFINE a == [kind |-> "confirm", session |-> s]
             r == [chat[d] EXCEPT !.alerts = <<a>> \o st]
  <2>1. st = <<>> /\ ~chat[d].myWantsToClose
        /\ UNCHANGED <<relayVars, consented, refused>>
    BY <1>5 DEF HandleCloseRequest
  <2>2. chat' = [chat EXCEPT ![d] = r]
    BY <1>5 DEF HandleCloseRequest, Push
  <2>3. a \in Dialog /\ a.kind = "confirm"
    BY <1>2 DEF Dialog
  <2>4. ~Shows(st, "prompt")
    BY <2>1 DEF Shows
  <2> HIDE DEF a
  <2>5. StackOK(<<a>> \o st) /\ ~Shows(<<a>> \o st, "prompt")
    BY <1>2, <2>1, <2>3, <2>4, StackPush
  <2>6. /\ r.session = s /\ r.alerts = <<a>> \o st
        /\ r.myWantsToClose = chat[d].myWantsToClose
        /\ r.peerWantsToClose = chat[d].peerWantsToClose
    BY <1>0 DEF Screen
  <2> HIDE DEF r
  <2>7. c \notin refused
    BY <1>2, <2>1
  <2>8. Answers(consented, refused, d, r)
    BY <1>2, <2>5, <2>6, <2>7 DEF Answers
  <2>9. PipeCalm /\ readyState' = readyState
    BY <2>1, PipeUnchanged DEF relayVars, clientVars
  <2> QED
    BY <1>0, <1>2, <2>1, <2>2, <2>6, <2>8, <2>9, ScreenQuiet DEF Undecided
<1>6. CASE ConfirmCancel(d) \/ DismissCloser(d)
  <2>1. Asked(d, "confirm") \/ Asked(d, "closer")
    BY <1>6 DEF ConfirmCancel, DismissCloser
  <2>2. UNCHANGED <<relayVars, consented, refused>>
    BY <1>6 DEF ConfirmCancel, DismissCloser
  <2>3. PICK r : /\ chat' = [chat EXCEPT ![d] = r]
                 /\ r.session = s /\ r.alerts = Tail(st)
                 /\ r.myWantsToClose = chat[d].myWantsToClose
                 /\ r.peerWantsToClose = chat[d].peerWantsToClose
    <3> DEFINE r1 == [chat[d] EXCEPT !.alerts = Tail(@)]
               r2 == [chat[d] EXCEPT !.alerts = Tail(@), !.backTimer = TRUE]
    <3>1. \E r \in {r1, r2} : chat' = [chat EXCEPT ![d] = r]
      BY <1>6 DEF ConfirmCancel, DismissCloser
    <3>2. \A r \in {r1, r2} : /\ r.session = s /\ r.alerts = Tail(st)
                              /\ r.myWantsToClose = chat[d].myWantsToClose
                              /\ r.peerWantsToClose = chat[d].peerWantsToClose
      BY <1>0 DEF Screen
    <3> HIDE DEF r1, r2
    <3> QED
      BY <3>1, <3>2
  <2>4. c \notin refused
    BY <1>2, <1>4, <2>1
  <2>5. Answers(consented, refused, d, r)
    BY <1>2, <1>4, <2>1, <2>3, <2>4 DEF Answers
  <2>6. Undecided(r) => Undecided(chat[d])
    BY <1>4, <2>1, <2>3 DEF Undecided
  <2>7. PipeCalm /\ readyState' = readyState
    BY <2>2, PipeUnchanged DEF relayVars, clientVars
  <2> QED
    BY <1>0, <1>2, <2>2, <2>3, <2>5, <2>6, <2>7, ScreenQuiet
<1>7. CASE PromptYes(d)
  <2> DEFINE r == [chat[d] EXCEPT !.myWantsToClose = TRUE,
                                  !.showInstagram = TRUE, !.alerts = Tail(@)]
  <2>1. Asked(d, "prompt") /\ chat' = [chat EXCEPT ![d] = r] /\ refused' = refused
    BY <1>7 DEF PromptYes
  <2>2. consented' = consented \cup {c}
    BY <1>4, <1>7, <2>1 DEF PromptYes
  <2>3. c \notin refused
    BY <1>2, <1>4, <2>1
  <2>4. /\ r.session = s /\ r.alerts = Tail(st) /\ r.myWantsToClose
        /\ r.peerWantsToClose = chat[d].peerWantsToClose
    BY <1>0 DEF Screen
  <2> HIDE DEF r
  <2>5. Answers(consented', refused', d, r)
    BY <1>4, <2>1, <2>3, <2>4 DEF Answers
  <2>6. Control("close_accept") \in Message
        /\ Control("close_accept").type # "close_request"
    BY ControlType DEF Control
  <2>7. PipeCalm /\ readyState' = readyState
    BY <1>0, <1>1, <1>7, <2>6, PipeSendCalm DEF PromptYes, ClientSend
  <2>8. Undecided(r) => Undecided(chat[d])
    BY <1>4, <2>1, <2>4 DEF Undecided
  <2>9. OneRequestEach'
    BY <1>0, <2>1, <2>4, <2>7, <2>8, ScreenRequests DEF RefusalInv
  <2>10. UnopenedAll' /\ AllAnswer'
    BY <1>0, <1>2, <2>1, <2>2, <2>4, <2>5, <2>7, ScreenAnswers DEF RefusalInv
  <2> QED
    BY <1>3, <2>1, <2>2, <2>3, <2>9, <2>10 DEF RefusalInv
<1>8. CASE PromptNo(d)
  <2> DEFINE a == [kind |-> "ended", session |-> s]
             r == [chat[d] EXCEPT !.alerts = <<a>> \o Tail(st)]
  <2>1. Asked(d, "prompt") /\ consented' = consented
    BY <1>8 DEF PromptNo
  <2>2. refused' = refused \cup {c} /\ chat' = [chat EXCEPT ![d] = r]
    BY <1>4, <1>8, <2>1 DEF PromptNo
  <2>3. a \in Dialog /\ a.kind = "ended"
    BY <1>2 DEF Dialog
  <2> HIDE DEF a
  <2>4. /\ StackOK(<<a>> \o Tail(st)) /\ <<a>> \o Tail(st) # <<>>
        /\ Head(<<a>> \o Tail(st)) = a
        /\ ~Shows(<<a>> \o Tail(st), "prompt")
        /\ Shows(<<a>> \o Tail(st), "confirm") => Shows(st, "confirm")
    BY <1>4, <2>1, <2>3, StackPush
  <2>5. chat[d].peerWantsToClose /\ ~chat[d].myWantsToClose
    BY <1>2, <1>4, <2>1
  <2>6. c \notin consented
    BY <1>2, <2>5
  <2>7. /\ r.session = s /\ r.alerts = <<a>> \o Tail(st)
        /\ r.myWantsToClose = chat[d].myWantsToClose
        /\ r.peerWantsToClose = chat[d].peerWantsToClose
    BY <1>0 DEF Screen
  <2> HIDE DEF r
  <2>8. Answers(consented', refused', d, r)
    BY <2>1, <2>3, <2>4, <2>5, <2>6, <2>7 DEF Answers
  <2>9. Control("close_reject") \in Message
        /\ Control("close_reject").type # "close_request"
    BY ControlType DEF Control
  <2>10. PipeCalm /\ readyState' = readyState
    BY <1>0, <1>1, <1>8, <2>9, PipeSendCalm DEF PromptNo, ClientSend
  <2>11. OneRequestEach'
    BY <1>0, <2>2, <2>4, <2>7, <2>10, ScreenRequests DEF RefusalInv, Undecided
  <2>12. UnopenedAll' /\ AllAnswer'
    BY <1>0, <1>2, <2>1, <2>2, <2>7, <2>8, <2>10, ScreenAnswers DEF RefusalInv
  <2> QED
    BY <1>3, <2>1, <2>2, <2>6, <2>11, <2>12 DEF RefusalInv
<1> QED
  BY <1>5, <1>6, <1>7, <1>8

\* The user confirms the request: there was none before, and there is one now.
LEMMA ConfirmRefusal ==
  ASSUME ScreenTypeOK, ConsentInv, RefusalInv, NEW d \in Device, ConfirmYes(d)
  PROVE  RefusalInv'
<1> DEFINE s == chat[d].session
           c == <<d, s>>
           st == chat[d].alerts
           e == Other(d, s)
           a == [kind |-> "closer", session |-> AskedIn(d)]
           q == IF chat[d].peerWantsToClose THEN <<a>> \o Tail(st) ELSE Tail(st)
           r == [chat[d] EXCEPT !.myWantsToClose = TRUE,
                                !.showInstagram = @ \/ chat[d].peerWantsToClose,
                                !.alerts = q]
           m == Control("close_request")
<1>0. chat \in [Device -> Screen] /\ TransportTypeOK
  BY DEF ScreenTypeOK
<1>1. Asked(d, "confirm") /\ st # <<>> /\ Head(st).kind = "confirm"
  BY DEF ConfirmYes, Asked
<1>2. Mounted(d) /\ Current(d) = c /\ c \in Client /\ AskedIn(d) = s
  BY <1>1, ActiveScreen, TopBacked DEF Current
<1>3. /\ s \in Session /\ d \in Parties(s) /\ s # None
      /\ st \in Seq(Dialog) /\ StackOK(st)
      /\ c \in refused => Head(st).kind = "ended"
      /\ OneRequest(d, s)
  BY <1>2, MountedAnswers
<1>4. Tail(st) = <<>> /\ Shows(st, "confirm")
  BY <1>1, <1>3, StackPop
<1>5. c \notin refused
  BY <1>1, <1>3
<1>6. ~Asks(d, s) /\ ~Noted(e, s) /\ AsksOnce(d, s)
  BY <1>3, <1>4 DEF OneRequest, MayAsk
<1>7. /\ chat' = [chat EXCEPT ![d] = r] /\ refused' = refused
      /\ consented' = consented \cup {c}
      /\ ClientSend(c, m) /\ readyState' = readyState
  BY <1>2 DEF ConfirmYes, ClientSend
<1>8. m \in Message /\ m.type = "close_request"
  BY ControlType DEF Control
<1>9. StackOK(q) /\ ~Shows(q, "confirm") /\ ~Shows(q, "prompt")
  <2>1. <<a>> \o <<>> = <<a>> /\ a.kind = "closer"
    OBVIOUS
  <2> HIDE DEF a
  <2>2. q = <<>> \/ q = <<a>>
    BY <1>4, <2>1
  <2> HIDE DEF q
  <2>3. CASE q = <<>>
    BY <2>3 DEF StackOK, Shows
  <2>4. CASE q = <<a>>
    <3>1. Len(q) = 1 /\ q[1] = a
      BY <2>4
    <3> QED
      BY <2>1, <3>1 DEF StackOK, Shows
  <2> QED
    BY <2>2, <2>3, <2>4
<1> HIDE DEF q, a
<1>10. /\ r.session = s /\ r.alerts = q /\ r.myWantsToClose
       /\ r.peerWantsToClose = chat[d].peerWantsToClose
  BY <1>0 DEF Screen
<1> HIDE DEF r, m
<1>11. Answers(consented', refused', d, r)
  BY <1>5, <1>7, <1>9, <1>10 DEF Answers
<1>12. UnopenedAll' /\ AllAnswer'
  BY <1>0, <1>3, <1>7, <1>10, <1>11, ScreenAnswers DEF RefusalInv
<1>13. ASSUME NEW t \in Session, NEW x \in Parties(t) PROVE OneRequest(x, t)'
  <2>1. OneRequest(x, t) /\ x \in Device /\ Other(x, t) \in Device
    BY OtherParty DEF RefusalInv, OneRequestEach
  <2>2. AsksOnce(x, t)' /\ (Asks(x, t)' => Asks(x, t) \/ c = <<x, t>>)
    <3>1. c = <<x, t>> /\ m.type = "close_request" => ~Asks(x, t)
      BY <1>6
    <3> QED
      BY <1>0, <1>2, <1>7, <1>8, <2>1, <3>1, PipeSend DEF OneRequest
  <2>3. \A y \in Device : Noted(y, t)' => Noted(y, t)
    BY <1>0, <1>7, <1>10 DEF Noted
  <2>4. CASE c = <<x, t>>
    <3>1. ~MayAsk(x, t)'
      <4>1. chat'[d] = r /\ readyState[c] # "NONE"
        BY <1>0, <1>2, <1>7, MountedAnswers
      <4> QED
        BY <1>7, <1>9, <1>10, <2>4, <4>1 DEF MayAsk
    <3>2. ~Noted(Other(x, t), t)'
      BY <1>6, <2>1, <2>3, <2>4
    <3> QED
      BY <2>2, <3>1, <3>2 DEF OneRequest
  <2>5. CASE c # <<x, t>>
    <3>1. MayAsk(x, t)' => MayAsk(x, t)
      <4>1. CASE x = d
        BY <1>0, <1>7, <1>10, <2>5, <4>1 DEF MayAsk
      <4>2. CASE x # d
        BY <1>0, <1>7, <2>1, <4>2 DEF MayAsk
      <4> QED
        BY <4>1, <4>2
    <3> QED
      BY <2>1, <2>2, <2>3, <2>5, <3>1 DEF OneRequest
  <2> QED
    BY <2>4, <2>5
<1>14. consented' \cap refused' = {}
  BY <1>5, <1>7 DEF RefusalInv
<1> QED
  BY <1>12, <1>13, <1>14 DEF RefusalInv, OneRequestEach

\* The request arrives: it was the only one, so nothing was noted or asked.
LEMMA RequestRefusal ==
  ASSUME ScreenTypeOK, ConsentInv, RefusalInv, NEW d \in Device, NEW s \in Session,
         ReceiveCloseRequest(d, s)
  PROVE  RefusalInv'
<1> DEFINE c == <<d, s>>
           st == chat[d].alerts
           e == Other(d, s)
           a == [kind |-> "prompt", session |-> s]
           q == IF chat[d].myWantsToClose THEN st ELSE <<a>> \o st
           r == [chat[d] EXCEPT !.peerWantsToClose = TRUE,
                                !.showInstagram = @ \/ chat[d].myWantsToClose,
                                !.alerts = q]
<1>0. chat \in [Device -> Screen] /\ TransportTypeOK
  BY DEF ScreenTypeOK
<1>1. /\ Receive(d, s, "close_request") /\ chat' = [chat EXCEPT ![d] = r]
      /\ UNCHANGED <<readyState, consented, refused>>
  BY DEF ReceiveCloseRequest, Receive, Arrives, ClientReceive, Push, historyVars
<1>2. Mounted(d) /\ chat[d].session = s
  <2>1. Mounted(d) /\ s \in chat[d].runs
    BY <1>1, ReceiveType DEF Receive, Arrives
  <2> QED
    BY <2>1, MountedBacked
<1>3. /\ d \in Parties(s) /\ s # None /\ st \in Seq(Dialog) /\ StackOK(st)
      /\ c \in consented => chat[d].myWantsToClose
      /\ Shows(st, "prompt") => chat[d].peerWantsToClose
      /\ c \in refused => chat[d].peerWantsToClose
      /\ OneRequest(e, s)
  BY <1>2, MountedAnswers
<1>4. /\ e \in Parties(s) /\ Other(e, s) = d /\ e \in Device /\ e # d
  BY <1>3, OtherParty
<1>5. Asks(e, s) /\ ~Asks(e, s)' /\ AsksOnce(e, s)'
  BY <1>0, <1>1, <1>3, <1>4, PipeReceive DEF OneRequest, Receive
<1>6. ~chat[d].peerWantsToClose /\ ~MayAsk(e, s)
  BY <1>2, <1>3, <1>4, <1>5 DEF OneRequest, Noted
<1>7. c \notin refused /\ ~Shows(st, "prompt")
  BY <1>3, <1>6
<1>8. a \in Dialog /\ a.kind = "prompt"
  BY DEF Dialog
<1> HIDE DEF a
<1>9. /\ StackOK(q)
      /\ chat[d].myWantsToClose => ~Shows(q, "prompt")
      /\ Shows(q, "confirm") => Shows(st, "confirm")
  BY <1>3, <1>7, <1>8, StackPush
<1> HIDE DEF q
<1>10. /\ r.session = s /\ r.alerts = q /\ r.peerWantsToClose
       /\ r.myWantsToClose = chat[d].myWantsToClose
  BY <1>0, <1>2 DEF Screen
<1> HIDE DEF r
<1>11. Answers(consented, refused, d, r)
  BY <1>3, <1>7, <1>9, <1>10 DEF Answers
<1>12. UnopenedAll' /\ AllAnswer'
  BY <1>0, <1>1, <1>2, <1>3, <1>10, <1>11, ScreenAnswers DEF RefusalInv
<1>13. ASSUME NEW t \in Session, NEW x \in Parties(t) PROVE OneRequest(x, t)'
  <2>1. OneRequest(x, t) /\ x \in Device /\ Other(x, t) \in Device /\ Other(x, t) # x
    BY OtherParty DEF RefusalInv, OneRequestEach
  <2>2. AsksOnce(x, t)' /\ (Asks(x, t)' => Asks(x, t))
    BY <1>0, <1>1, <2>1, PipeReceive DEF OneRequest, Receive
  <2>3. MayAsk(x, t)' => MayAsk(x, t)
    <3>1. CASE x = d
      BY <1>0, <1>1, <1>2, <1>9, <1>10, <3>1 DEF MayAsk
    <3>2. CASE x # d
      BY <1>0, <1>1, <2>1, <3>2 DEF MayAsk
    <3> QED
      BY <3>1, <3>2
  <2>4. CASE <<x, t>> = <<e, s>>
    BY <1>5, <1>6, <2>2, <2>3, <2>4 DEF OneRequest
  <2>5. CASE <<x, t>> # <<e, s>>
    <3>1. Noted(Other(x, t), t)' => Noted(Other(x, t), t)
      <4>1. CASE Other(x, t) = d
        <5>1. t # s
          BY <1>3, <1>4, <2>1, <2>5, <4>1, OtherParty
        <5> QED
          BY <1>0, <1>1, <1>10, <4>1, <5>1 DEF Noted
      <4>2. CASE Other(x, t) # d
        BY <1>0, <1>1, <2>1, <4>2 DEF Noted
      <4> QED
        BY <4>1, <4>2
    <3> QED
      BY <2>1, <2>2, <2>3, <3>1 DEF OneRequest
  <2> QED
    BY <2>4, <2>5
<1> QED
  BY <1>1, <1>12, <1>13 DEF RefusalInv, OneRequestEach

\* The answer to the request arrives.
LEMMA ReplyRefusal ==
  ASSUME ScreenTypeOK, ConsentInv, RefusalInv, NEW d \in Device, NEW s \in Session,
         ReceiveCloseAccept(d, s) \/ ReceiveCloseReject(d, s)
  PROVE  RefusalInv'
<1> USE DEF historyVars
<1>0. chat \in [Device -> Screen] /\ TransportTypeOK
  BY DEF ScreenTypeOK
<1>1. PICK type : Receive(d, s, type)
  BY DEF ReceiveCloseAccept, ReceiveCloseReject
<1>2. /\ PipeCalm /\ UNCHANGED <<readyState, consented, refused>>
      /\ Mounted(d) /\ chat[d].session = s
  <2>1. Mounted(d) /\ s \in chat[d].runs
    BY <1>1, ReceiveType DEF Receive, Arrives
  <2>2. PipeCalm /\ UNCHANGED readyState
    BY <1>0, <1>1, PipeReceiveCalm DEF Receive, Arrives, ClientReceive
  <2> QED
    BY <2>1, <2>2, MountedBacked DEF ReceiveCloseAccept, ReceiveCloseReject
<1>3. CASE ReceiveCloseAccept(d, s)
  <2> DEFINE r == [chat[d] EXCEPT !.showInstagram = TRUE]
  <2>1. chat' = [chat EXCEPT ![d] = r]
    BY <1>3 DEF ReceiveCloseAccept
  <2>2. /\ r.session = chat[d].session /\ r.alerts = chat[d].alerts
        /\ r.myWantsToClose = chat[d].myWantsToClose
        /\ r.peerWantsToClose = chat[d].peerWantsToClose
    BY <1>0 DEF Screen
  <2> HIDE DEF r
  <2> QED
    BY <1>0, <1>2, <2>1, <2>2, ScreenIdle DEF Mounted
<1>4. CASE ReceiveCloseReject(d, s)
  <2> DEFINE st == chat[d].alerts
             a == [kind |-> "ended", session |-> s]
             r == [chat[d] EXCEPT !.alerts = <<a>> \o st]
  <2>1. chat' = [chat EXCEPT ![d] = r]
    BY <1>4 DEF ReceiveCloseReject, Push
  <2>2. a \in Dialog /\ a.kind = "ended"
    BY DEF Dialog
  <2> HIDE DEF a
  <2>3. /\ s # None /\ st \in Seq(Dialog) /\ StackOK(st)
        /\ Answers(consented, refused, d, chat[d])
    BY <1>2, MountedAnswers DEF RefusalInv, AllAnswer
  <2>4. /\ StackOK(<<a>> \o st) /\ <<a>> \o st # <<>> /\ Head(<<a>> \o st) = a
        /\ Shows(<<a>> \o st, "prompt") => Shows(st, "prompt")
        /\ Shows(<<a>> \o st, "confirm") => Shows(st, "confirm")
    BY <2>2, <2>3, StackPush
  <2>5. /\ r.session = chat[d].session /\ r.alerts = <<a>> \o st
        /\ r.myWantsToClose = chat[d].myWantsToClose
        /\ r.peerWantsToClose = chat[d].peerWantsToClose
    BY <1>0 DEF Screen
  <2> HIDE DEF r
  <2>6. Answers(consented, refused, d, r)
    BY <1>2, <2>2, <2>3, <2>4, <2>5 DEF Answers
  <2> QED
    BY <1>0, <1>2, <2>1, <2>3, <2>4, <2>5, <2>6, ScreenQuiet DEF Undecided
<1> QED
  BY <1>3, <1>4

LEMMA NextRefusal ==
  ScreenTypeOK /\ ConsentInv /\ RefusalInv /\ [Next]_vars => RefusalInv'
<1> SUFFICES ASSUME ScreenTypeOK, ConsentInv, RefusalInv, [Next]_vars PROVE RefusalInv'
  OBVIOUS
<1>1. ASSUME NEW d \in Device, UserBack(d) \/ DismissEnded(d) \/ BackTimerFires(d)
      PROVE  RefusalInv'
  BY <1>1, ActiveScreen, GoBackRefusal
     DEF UserBack, DismissEnded, BackTimerFires, Asked, Leaves
<1>2. CASE PipeCalm /\ UNCHANGED <<readyState, chat, consented, refused>>
  BY <1>2, QuietRequests
  DEF RefusalInv, UnopenedAll, Unopened, AllAnswer, MayAsk, Noted
<1>3. CASE UNCHANGED vars
  BY <1>2, <1>3, PipeUnchanged DEF vars, relayVars, clientVars
<1>4. ASSUME NEW k \in Client, LateStep(k) PROVE RefusalInv'
  <2>1. k[1] \in Device
    BY DEF Client
  <2>2. CASE UNCHANGED <<relayVars, chat, said, consented, refused>>
    BY <1>2, <2>2, PipeUnchanged DEF relayVars, clientVars
  <2>3. ASSUME NEW s \in Session, Arrives(k[1], s, Head(down[<<k[1], s>>]).type),
               UNCHANGED <<chat, said, consented, refused>>
        PROVE  RefusalInv'
    <3>1. PipeCalm
      BY <2>1, <2>3, PipeReceiveCalm DEF ScreenTypeOK
    <3> QED
      BY <1>2, <2>3, <3>1 DEF Arrives, ClientReceive
  <2>4. CASE chat[k[1]].session # None /\ GoBack(k[1])
    BY <2>1, <2>4, ActiveScreen, GoBackRefusal
  <2> QED
    BY <1>4, <2>2, <2>3, <2>4, LateShape
<1> QED
  BY <1>1, <1>3, <1>4, TransportRefusal, NavigateRefusal, TalkRefusal, AnswerRefusal,
     ConfirmRefusal, RequestRefusal, ReplyRefusal
  DEF Next, System, User, AtScreen, OnMessage, LateStep

-----------------------------------------------------------------------------
(***************************************************************************)
(* Theorems.                                                               *)
(***************************************************************************)
(***************************************************************************)
(* Each side of a session sends at most one request, so each is asked at   *)
(* most once and nobody answers both Yes and No (Chat.tsx:166-309).        *)
(***************************************************************************)
THEOREM RefusalInvariant == Spec => []RefusalInv
  BY InitRefusal, NextRefusal, ScreenTypeCorrect, ConsentInvariant, PTL DEF Spec

\* Only the parties of a session are ever asked in it.
RefusedByParties ==
  \A d \in Device, s \in Session : <<d, s>> \in refused => d \in Parties(s)

LEMMA NextRefusedByParties ==
  ScreenTypeOK /\ ConsentInv /\ RefusedByParties /\ [Next]_vars => RefusedByParties'
<1> SUFFICES ASSUME ScreenTypeOK, ConsentInv, RefusedByParties, [Next]_vars
             PROVE  RefusedByParties'
  OBVIOUS
<1>1. ASSUME NEW d \in Device, PromptNo(d) PROVE RefusedByParties'
  <2>1. Mounted(d) /\ AskedIn(d) = chat[d].session
    BY <1>1, TopBacked DEF PromptNo
  <2>2. refused' = refused \cup {<<d, chat[d].session>>}
    BY <1>1, <2>1 DEF PromptNo
  <2> QED
    BY <2>1, <2>2, MountedBacked DEF RefusedByParties
<1>2. CASE UNCHANGED refused
  BY <1>2 DEF RefusedByParties
<1>3. ASSUME NEW k \in Client, LateStep(k) PROVE UNCHANGED refused
  BY <1>3, LateShape DEF GoBack, historyVars
<1>4. \/ UNCHANGED refused
      \/ \E d \in Device : PromptNo(d)
      \/ \E k \in Client : LateStep(k)
  BY ZenonT(60) DEF Next, System, User, AtScreen, OnMessage, Transport, SocketBreaks,
         Navigate, UserBack, GoBack, Leaves, DismissEnded, BackTimerFires, Say,
         HandleCloseRequest, ConfirmYes, ConfirmCancel, PromptYes, DismissCloser,
         SendPublicKey, Reply, ReceivePubkey, ReceiveMsg, ReceiveCloseRequest,
         ReceiveCloseAccept, ReceiveCloseReject, LateStep, historyVars, vars
<1> QED
  BY <1>1, <1>2, <1>3, <1>4

LEMMA OnlyPartiesRefuse == Spec => []RefusedByParties
<1>1. Init => RefusedByParties
  BY DEF Init, RefusedByParties
<1> QED
  BY <1>1, NextRefusedByParties, ScreenTypeCorrect, ConsentInvariant, PTL DEF Spec

-----------------------------------------------------------------------------
(***************************************************************************)
(* What a screen has left behind stays apart.                              *)
(***************************************************************************)
\* Dialogs of session s that ask nobody who agreed.
Settled(C, d, s, st) ==
  \A i \in 1..Len(st) :
    st[i].session = s /\ (st[i].kind = "prompt" => <<d, s>> \notin C)

\* What is left of the screen of d in session s, seen by itself.
Apart(C, d, s, left) ==
  /\ left.runs \subseteq {s}
  /\ s \in left.runs /\ <<d, s>> \in C => left.myWantsToClose
  /\ left.alerts # <<>> => s \in left.runs
  /\ Settled(C, d, s, left.alerts)

LEMMA SettledPop ==
  ASSUME NEW C, NEW d, NEW s, NEW st \in Seq(Dialog), st # <<>>, Settled(C, d, s, st)
  PROVE  /\ Settled(C, d, s, Tail(st)) /\ Head(st).session = s
         /\ Head(st).kind = "prompt" => <<d, s>> \notin C
<1>1. /\ Len(Tail(st)) = Len(st) - 1 /\ Len(st) \in Nat \ {0}
      /\ Head(st) = st[1]
      /\ \A i \in 1..(Len(st) - 1) : Tail(st)[i] = st[i + 1]
  OBVIOUS
<1> DEFINE t == Tail(st)
<1> HIDE DEF t
<1>2. Settled(C, d, s, t)
  BY <1>1 DEF Settled, t
<1>3. Head(st).session = s /\ (Head(st).kind = "prompt" => <<d, s>> \notin C)
  BY <1>1 DEF Settled
<1> QED
  BY <1>2, <1>3 DEF t

LEMMA SettledPush ==
  ASSUME NEW C, NEW d, NEW s \in Session, NEW st \in Seq(Dialog), Settled(C, d, s, st),
         NEW kind \in {"prompt", "ended", "closer"}, kind = "prompt" => <<d, s>> \notin C
  PROVE  Settled(C, d, s, <<[kind |-> kind, session |-> s]>> \o st)
<1> DEFINE a == [kind |-> kind, session |-> s]
           q == <<a>> \o st
<1>1. a \in Dialog
  BY DEF Dialog
<1>2. /\ Len(q) = Len(st) + 1 /\ Len(st) \in Nat
      /\ q[1] = a
      /\ \A i \in 2..(Len(st) + 1) : q[i] = st[i - 1]
  BY <1>1
<1>3. a.session = s /\ a.kind = kind
  OBVIOUS
<1> HIDE DEF a, q
<1>4. Settled(C, d, s, q)
  BY <1>2, <1>3 DEF Settled
<1> QED
  BY <1>4 DEF a, q

\* No step forgets a session that was opened, or enters one that was; a Yes
\* is said in the session on screen; and sockets go with their screens.
Kept ==
  /\ \A d \in Device, s \in Session :
       /\ readyState[<<d, s>>] # "NONE" => readyState'[<<d, s>>] # "NONE"
       /\ chat'[d].session = s => chat[d].session = s \/ readyState[<<d, s>>] = "NONE"
       /\ <<d, s>> \in consented' => <<d, s>> \in consented \/ chat[d].session = s
  /\ SocketsOwned => SocketsOwned'

LEMMA KeptIdle ==
  ASSUME readyState' = readyState, consented' = consented,
         \A x \in Device : chat'[x].session = chat[x].session
  PROVE  Kept
  BY DEF Kept, SocketsOwned

LEMMA KeptGoBack ==
  ASSUME ScreenTypeOK, NEW d \in Device, GoBack(d), Current(d) \in Client
  PROVE  Kept
<1>1. /\ chat' = [chat EXCEPT ![d] = NoScreen] /\ consented' = consented
      /\ readyState' = AfterClose(readyState, Current(d))
  BY DEF GoBack, historyVars
<1>2. chat \in [Device -> Screen] /\ TransportTypeOK
  BY DEF ScreenTypeOK
<1>3. ASSUME NEW x \in Device, NEW s \in Session
      PROVE  /\ readyState'[<<x, s>>] = "NONE" => readyState[<<x, s>>] = "NONE"
             /\ chat'[x].session = s => chat[x].session = s
  <2>1. <<x, s>> \in Client /\ s # None /\ NoScreen.session = None
    BY NoneAssumption DEF Client, NoScreen
  <2>2. chat'[x] \in {chat[x], NoScreen}
    BY <1>1, <1>2
  <2> QED
    BY <1>1, <1>2, <2>1, <2>2, CloseNone
<1>4. ASSUME SocketsOwned, NEW x \in Device, NEW s \in Session,
             readyState'[<<x, s>>] \in {"CONNECTING", "OPEN"}
      PROVE  chat'[x].session = s
  <2>1. <<x, s>> \in Client
    BY DEF Client
  <2>2. readyState[<<x, s>>] \in {"CONNECTING", "OPEN"} /\ <<x, s>> # Current(d)
    BY <1>1, <1>2, <1>4, <2>1 DEF AfterClose, TransportTypeOK
  <2>3. chat[x].session = s
    BY <1>4, <2>2 DEF SocketsOwned
  <2>4. x # d
    BY <2>2, <2>3 DEF Current
  <2> QED
    BY <1>1, <1>2, <2>3, <2>4
<1> QED
  BY <1>1, <1>3, <1>4 DEF Kept, SocketsOwned

LEMMA NextKept ==
  ASSUME ScreenTypeOK, ConsentInv, [Next]_vars
  PROVE  Kept
<1> USE DEF historyVars
<1>0. chat \in [Device -> Screen] /\ TransportTypeOK
  BY DEF ScreenTypeOK
<1>1. ASSUME NEW c \in Client, Transport(c) \/ SocketBreaks(c) PROVE Kept
  <2>1. UNCHANGED <<chat, consented>>
    BY <1>1 DEF Transport, SocketBreaks
  <2>2. \A x \in Client : readyState'[x] = "NONE" => readyState[x] = "NONE"
    BY <1>0, <1>1 DEF Transport, SocketBreaks, ClientOpened, RelayJoin, RelayForward,
           RelayLeave, ClientLost, clientVars, TransportTypeOK
  <2>3. \A x \in Client : readyState'[x] \in {"CONNECTING", "OPEN"} =>
                           readyState[x] \in {"CONNECTING", "OPEN"}
    BY <1>0, <1>1 DEF Transport, SocketBreaks, ClientOpened, RelayJoin, RelayForward,
           RelayLeave, ClientLost, clientVars, TransportTypeOK
  <2> QED
    BY <2>1, <2>2, <2>3 DEF Kept, SocketsOwned, Client
<1>2. ASSUME NEW d \in Device, NEW s \in Session, Navigate(d, s) PROVE Kept
  <2>1. /\ chat' = [chat EXCEPT ![d] = FreshScreen(d, s)] /\ consented' = consented
        /\ readyState' = [readyState EXCEPT ![<<d, s>>] = "CONNECTING"]
        /\ readyState[<<d, s>>] = "NONE" /\ FreshScreen(d, s).session = s
        /\ chat[d].session = None
    BY <1>2 DEF Navigate, FreshScreen, NoScreen
  <2>2. ASSUME NEW x \in Device, NEW t \in Session
        PROVE  /\ readyState[<<x, t>>] # "NONE" => readyState'[<<x, t>>] # "NONE"
               /\ chat'[x].session = t => chat[x].session = t \/ readyState[<<x, t>>] = "NONE"
    <3>1. <<x, t>> \in Client
      BY DEF Client
    <3> QED
      BY <1>0, <2>1, <3>1 DEF TransportTypeOK
  <2>3. ASSUME SocketsOwned, NEW x \in Device, NEW t \in Session,
               readyState'[<<x, t>>] \in {"CONNECTING", "OPEN"}
        PROVE  chat'[x].session = t
    <3>1. <<x, t>> \in Client /\ t # None
      BY NoneAssumption DEF Client
    <3>2. CASE <<x, t>> = <<d, s>>
      BY <1>0, <2>1, <3>2
    <3>3. CASE <<x, t>> # <<d, s>>
      <4>1. chat[x].session = t
        BY <1>0, <2>1, <2>3, <3>1, <3>3 DEF TransportTypeOK, SocketsOwned
      <4>2. x # d
        BY <2>1, <3>1, <4>1
      <4> QED
        BY <1>0, <2>1, <4>1, <4>2
    <3> QED
      BY <3>2, <3>3
  <2> QED
    BY <2>1, <2>2, <2>3 DEF Kept, SocketsOwned
<1>3. ASSUME NEW d \in Device, UserBack(d) \/ DismissEnded(d) \/ BackTimerFires(d)
      PROVE  Kept
  BY <1>3, ActiveScreen, KeptGoBack
     DEF UserBack, DismissEnded, BackTimerFires, Asked, Leaves
<1>4. ASSUME NEW k \in Client, LateStep(k) PROVE Kept
  <2>1. k[1] \in Device
    BY DEF Client
  <2>2. CASE UNCHANGED <<relayVars, chat, said, consented, refused>>
    BY <2>2, KeptIdle DEF relayVars, clientVars
  <2>3. ASSUME NEW s \in Session, Arrives(k[1], s, Head(down[<<k[1], s>>]).type),
               UNCHANGED <<chat, said, consented, refused>>
        PROVE  Kept
    BY <2>3, KeptIdle DEF Arrives, ClientReceive
  <2>4. CASE chat[k[1]].session # None /\ GoBack(k[1])
    BY <2>1, <2>4, ActiveScreen, KeptGoBack
  <2> QED
    BY <1>4, <2>2, <2>3, <2>4, LateShape
<1>5. ASSUME NEW d \in Device, NEW s \in Session, OnMessage(d, s) \/ SendPublicKey(d, s)
      PROVE  Kept
  <2>1. readyState' = readyState /\ consented' = consented
    BY <1>5 DEF OnMessage, SendPublicKey, ReceivePubkey, ReceiveMsg, ReceiveCloseRequest,
                ReceiveCloseAccept, ReceiveCloseReject, Receive, Arrives, ClientReceive,
                ClientSend
  <2>2. \A x \in Device : chat'[x].session = chat[x].session
    <3>1. CASE ReceivePubkey(d, s)
      BY <1>0, <3>1 DEF ReceivePubkey, Screen
    <3>2. CASE ReceiveMsg(d, s)
      BY <1>0, <3>2 DEF ReceiveMsg, Screen
    <3>3. CASE ReceiveCloseRequest(d, s)
      BY <1>0, <3>3 DEF ReceiveCloseRequest, Screen
    <3>4. CASE ReceiveCloseAccept(d, s)
      BY <1>0, <3>4 DEF ReceiveCloseAccept, Screen
    <3>5. CASE ReceiveCloseReject(d, s)
      BY <1>0, <3>5 DEF ReceiveCloseReject, Screen
    <3>6. CASE SendPublicKey(d, s)
      BY <1>0, <3>6 DEF SendPublicKey, Screen
    <3> QED
      BY <1>5, <3>1, <3>2, <3>3, <3>4, <3>5, <3>6 DEF OnMessage
  <2> QED
    BY <2>1, <2>2, KeptIdle
<1>6. ASSUME NEW d \in Device,
             \/ Reply(d) \/ Say(d) \/ HandleCloseRequest(d) \/ ConfirmCancel(d)
             \/ PromptNo(d) \/ DismissCloser(d)
      PROVE  Kept
  <2>1. readyState' = readyState /\ consented' = consented
    BY <1>6 DEF Reply, Say, HandleCloseRequest, ConfirmCancel, PromptNo, DismissCloser,
                ClientSend, relayVars, clientVars
  <2>2. \A x \in Device : chat'[x].session = chat[x].session
    <3>1. CASE Reply(d)
      BY <1>0, <3>1 DEF Reply, Screen
    <3>2. CASE Say(d)
      BY <1>0, <3>2 DEF Say
    <3>3. CASE HandleCloseRequest(d)
      BY <1>0, <3>3 DEF HandleCloseRequest, Screen
    <3>4. CASE ConfirmCancel(d)
      BY <1>0, <3>4 DEF ConfirmCancel, Screen
    <3>5. CASE PromptNo(d)
      BY <1>0, <3>5 DEF PromptNo, Screen
    <3>6. CASE DismissCloser(d)
      BY <1>0, <3>6 DEF DismissCloser, Screen
    <3> QED
      BY <1>6, <3>1, <3>2, <3>3, <3>4, <3>5, <3>6
  <2> QED
    BY <2>1, <2>2, KeptIdle
<1>7. ASSUME NEW d \in Device, ConfirmYes(d) \/ PromptYes(d) PROVE Kept
  <2>1. readyState' = readyState
    BY <1>7 DEF ConfirmYes, PromptYes, ClientSend
  <2>2. consented' = consented \cup {<<d, chat[d].session>>}
    BY <1>7, TopBacked DEF ConfirmYes, PromptYes
  <2>3. \A x \in Device : chat'[x].session = chat[x].session
    <3>1. CASE ConfirmYes(d)
      BY <1>0, <3>1 DEF ConfirmYes, Screen
    <3>2. CASE PromptYes(d)
      BY <1>0, <3>2 DEF PromptYes, Screen
    <3> QED
      BY <1>7, <3>1, <3>2
  <2> QED
    BY <2>1, <2>2, <2>3 DEF Kept, SocketsOwned
<1>8. CASE UNCHANGED vars
  BY <1>8, KeptIdle DEF vars, relayVars, clientVars
<1> QED
  BY <1>1, <1>2, <1>3, <1>4, <1>5, <1>6, <1>7, <1>8
     DEF Next, System, User, AtScreen, LateStep

\* Nothing but the timer tells g from h.
Alike(h, g) ==
  h.runs = g.runs /\ h.myWantsToClose = g.myWantsToClose /\ h.alerts = g.alerts

\* What is needed of a step for what was left to stay apart.
LEMMA LeftBy ==
  ASSUME LeftInv, Kept,
         \A d \in Device, s \in Session : LET k == <<d, s>> IN
           \/ Alike(gone'[k], gone[k])
           \/ /\ s \in gone[k].runs /\ gone'[k].runs = gone[k].runs
              /\ Apart(consented', d, s, gone'[k])
           \/ /\ chat'[d].session = None /\ d \in Parties(s)
              /\ readyState[k] # "NONE" /\ s \in gone'[k].runs
              /\ Apart(consented', d, s, gone'[k]),
         \A d \in Device, s \in Session, a \in Answer : <<d, s, a>> \in late' =>
           \/ <<d, s, a>> \in late
           \/ s \in gone[<<d, s>>].runs /\ (a = "No" => <<d, s>> \notin consented)
  PROVE  LeftInv'
<1> SUFFICES ASSUME NEW d \in Device, NEW s \in Session PROVE LeftApart(d, s)'
  BY DEF LeftInv
<1> DEFINE k == <<d, s>>
           g == gone[k]
           h == gone'[k]
<1>1. /\ Apart(consented, d, s, g)
      /\ s \in g.runs => d \in Parties(s) /\ chat[d].session # s /\ readyState[k] # "NONE"
      /\ \A a \in Answer : <<d, s, a>> \in late =>
           s \in g.runs /\ (a = "No" => k \notin consented)
  BY DEF LeftInv, LeftApart, Apart, Settled
<1>2. /\ readyState[k] # "NONE" => readyState'[k] # "NONE"
      /\ chat'[d].session = s => chat[d].session = s \/ readyState[k] = "NONE"
      /\ k \in consented' => k \in consented \/ chat[d].session = s
  BY DEF Kept
<1>3. s # None
  BY NoneAssumption
<1>4. ASSUME s \in g.runs
      PROVE  /\ d \in Parties(s) /\ chat'[d].session # s /\ readyState'[k] # "NONE"
             /\ k \in consented' => k \in consented
  BY <1>1, <1>2, <1>4
<1>5. s \in g.runs => s \in h.runs
  BY DEF Alike
<1>6. /\ Apart(consented', d, s, h)
      /\ s \in h.runs => d \in Parties(s) /\ chat'[d].session # s /\ readyState'[k] # "NONE"
  <2>1. CASE Alike(h, g)
    <3>1. CASE s \in g.runs
      BY <1>1, <1>4, <2>1, <3>1 DEF Alike, Apart, Settled
    <3>2. CASE s \notin g.runs
      <4>1. g.alerts = <<>>
        BY <1>1, <3>2 DEF Apart
      <4> QED
        BY <1>1, <2>1, <3>2, <4>1 DEF Alike, Apart, Settled
    <3> QED
      BY <3>1, <3>2
  <2>2. CASE s \in g.runs /\ h.runs = g.runs /\ Apart(consented', d, s, h)
    BY <1>4, <2>2
  <2>3. CASE /\ chat'[d].session = None /\ d \in Parties(s)
             /\ readyState[k] # "NONE" /\ s \in h.runs
             /\ Apart(consented', d, s, h)
    BY <1>2, <1>3, <2>3
  <2> QED
    BY <2>1, <2>2, <2>3
<1>7. ASSUME NEW a \in Answer, <<d, s, a>> \in late'
      PROVE  s \in h.runs /\ (a = "No" => k \notin consented')
  <2>1. s \in g.runs /\ (a = "No" => k \notin consented)
    BY <1>1, <1>7
  <2> QED
    BY <1>4, <1>5, <2>1
<1> QED
  BY <1>6, <1>7 DEF LeftApart, Apart, Settled

\* A screen that is left, with or without the dialog on top.
LEMMA ScreenApart ==
  ASSUME ScreenTypeOK, ConsentInv, RefusalInv, NEW d \in Device, Mounted(d),
         NEW r \in Screen, r.runs = chat[d].runs,
         r.myWantsToClose = chat[d].myWantsToClose,
         \/ r.alerts = chat[d].alerts
         \/ chat[d].alerts # <<>> /\ r.alerts = Tail(chat[d].alerts)
  PROVE  LET s == chat[d].session IN
         /\ s \in Session /\ d \in Parties(s) /\ readyState[<<d, s>>] # "NONE"
         /\ chat[d].keyPair = <<d, s>>
         /\ s \in Remains(r).runs /\ Apart(consented, d, s, Remains(r))
<1> DEFINE s == chat[d].session
           st == chat[d].alerts
<1>1. /\ s \in Session /\ d \in Parties(s) /\ chat[d].runs = {s}
      /\ chat[d].keyPair = <<d, s>> /\ st \in Seq(Asking(consented, d, s))
  BY MountedBacked
<1>2. /\ st \in Seq(Dialog) /\ readyState[<<d, s>>] # "NONE"
      /\ <<d, s>> \in consented => chat[d].myWantsToClose
      /\ Shows(st, "prompt") => ~chat[d].myWantsToClose
  BY MountedAnswers
<1>3. \A i \in 1..Len(st) : st[i] \in Asking(consented, d, s)
  BY <1>1
<1>4. Settled(consented, d, s, st)
  BY <1>2, <1>3 DEF Settled, Asking, Shows
<1>5. Settled(consented, d, s, r.alerts)
  BY <1>2, <1>4, SettledPop
<1>6. /\ Remains(r).runs = {s} /\ Remains(r).alerts = r.alerts
      /\ Remains(r).myWantsToClose = chat[d].myWantsToClose
  BY <1>1, RemainsType
<1> QED
  BY <1>1, <1>2, <1>5, <1>6 DEF Apart

LEMMA LeftLeaves ==
  ASSUME ScreenTypeOK, LeftTypeOK, ConsentInv, RefusalInv, LeftInv, Kept,
         NEW d \in Device,
         UserBack(d) \/ DismissEnded(d) \/ BackTimerFires(d)
  PROVE  LeftInv'
<1> DEFINE s == chat[d].session
<1>1. Mounted(d) /\ chat[d] \in Screen
  BY ActiveScreen, ScreenOf DEF UserBack, DismissEnded, BackTimerFires, Asked
<1>2. PICK r \in Screen :
        /\ Leaves(d, r) /\ r.runs = chat[d].runs
        /\ r.myWantsToClose = chat[d].myWantsToClose
        /\ \/ r.alerts = chat[d].alerts
           \/ chat[d].alerts # <<>> /\ r.alerts = Tail(chat[d].alerts)
  <2>1. CASE UserBack(d)
    BY <1>1, <2>1 DEF UserBack
  <2>2. CASE DismissEnded(d)
    BY <1>1, <2>2, LeavingScreens DEF DismissEnded, Asked, Screen
  <2>3. CASE BackTimerFires(d)
    BY <1>1, <2>3, LeavingScreens DEF BackTimerFires, Screen
  <2> QED
    BY <2>1, <2>2, <2>3
<1>3. /\ s \in Session /\ d \in Parties(s) /\ readyState[<<d, s>>] # "NONE"
      /\ chat[d].keyPair = <<d, s>>
      /\ s \in Remains(r).runs /\ Apart(consented, d, s, Remains(r))
  BY <1>1, <1>2, ScreenApart
<1>4. /\ gone' = [gone EXCEPT ![<<d, s>>] = Remains(r)] /\ late' = late
      /\ consented' = consented /\ chat'[d].session = None
  BY <1>2, <1>3 DEF Leaves, GoBack, historyVars, ScreenTypeOK, NoScreen
<1>5. gone \in [Client -> Screen]
  BY DEF LeftTypeOK
<1>6. ASSUME NEW x \in Device, NEW t \in Session
      PROVE  \/ gone'[<<x, t>>] = gone[<<x, t>>]
             \/ x = d /\ t = s /\ gone'[<<x, t>>] = Remains(r)
  <2>1. <<x, t>> \in Client
    BY DEF Client
  <2> QED
    BY <1>4, <1>5, <2>1
<1> QED
  BY <1>3, <1>4, <1>6, LeftBy DEF Alike

\* What is left of one screen changes, and perhaps another screen is left.
LEMMA LeftEdit ==
  ASSUME LeftTypeOK, LeftInv, Kept, NEW d \in Device, NEW s \in Session,
         s \in gone[<<d, s>>].runs, NEW r \in Screen, r.runs = gone[<<d, s>>].runs,
         Apart(consented, d, s, r), gone' = [gone EXCEPT ![<<d, s>>] = r],
         consented' = consented,
         NEW a \in Answer, late' \subseteq late \cup {<<d, s, a>>},
         a = "No" => <<d, s>> \notin consented
  PROVE  LeftInv'
<1>1. gone \in [Client -> Screen]
  BY DEF LeftTypeOK
<1>2. ASSUME NEW x \in Device, NEW t \in Session
      PROVE  \/ gone'[<<x, t>>] = gone[<<x, t>>]
             \/ x = d /\ t = s /\ gone'[<<x, t>>] = r
  <2>1. <<x, t>> \in Client
    BY DEF Client
  <2> QED
    BY <1>1, <2>1
<1>3. \A x \in Device, t \in Session, b \in Answer : <<x, t, b>> \in late' =>
        <<x, t, b>> \in late \/ (x = d /\ t = s /\ b = a)
  OBVIOUS
<1> QED
  BY <1>2, <1>3, LeftBy DEF Alike

LEMMA LateLeft ==
  ASSUME ScreenTypeOK, LeftTypeOK, ConsentInv, RefusalInv, LeftInv, Kept,
         NEW k \in Client, LateStep(k)
  PROVE  LeftInv'
<1> USE DEF historyVars
<1>0. PICK d \in Device, s \in Session : k = <<d, s>>
  BY DEF Client
<1> DEFINE g == gone[k]
<1>1. /\ k[1] = d /\ g \in Screen /\ g.alerts \in Seq(Dialog)
      /\ gone \in [Client -> Screen]
  BY <1>0 DEF LeftTypeOK, Screen
<1>2. /\ Apart(consented, d, s, g)
      /\ s \in g.runs => chat[d].session # s
  BY <1>0 DEF LeftInv, LeftApart, Apart, Settled
<1>3. g.alerts # <<>> =>
        /\ s \in g.runs /\ Head(g.alerts).session = s
        /\ Settled(consented, d, s, Tail(g.alerts)) /\ Tail(g.alerts) \in Seq(Dialog)
        /\ Head(g.alerts).kind = "prompt" => k \notin consented
        /\ \A kind \in {"ended", "closer"} :
             Settled(consented, d, s, <<[kind |-> kind, session |-> s]>> \o Tail(g.alerts))
  <2> SUFFICES ASSUME g.alerts # <<>>
               PROVE  /\ s \in g.runs /\ Head(g.alerts).session = s
                      /\ Settled(consented, d, s, Tail(g.alerts))
                      /\ Tail(g.alerts) \in Seq(Dialog)
                      /\ Head(g.alerts).kind = "prompt" => k \notin consented
                      /\ \A kind \in {"ended", "closer"} :
                           Settled(consented, d, s,
                                   <<[kind |-> kind, session |-> s]>> \o Tail(g.alerts))
    OBVIOUS
  <2>1. s \in g.runs /\ Settled(consented, d, s, g.alerts)
    BY <1>2 DEF Apart
  <2>3. Tail(g.alerts) \in Seq(Dialog)
    BY LingersType
  <2> HIDE DEF g
  <2>4. g.alerts \in Seq(Dialog)
    BY <1>1
  <2>5. /\ Head(g.alerts).session = s /\ Settled(consented, d, s, Tail(g.alerts))
        /\ Head(g.alerts).kind = "prompt" => <<d, s>> \notin consented
    <3> DEFINE st == g.alerts
    <3>1. st \in Seq(Dialog) /\ st # <<>> /\ Settled(consented, d, s, st)
      BY <2>1, <2>4
    <3> HIDE DEF st
    <3>2. /\ Head(st).session = s /\ Settled(consented, d, s, Tail(st))
          /\ Head(st).kind = "prompt" => <<d, s>> \notin consented
      BY <3>1, SettledPop, Zenon
    <3> QED
      BY <3>2 DEF st
  <2>2. /\ Head(g.alerts).session = s /\ Settled(consented, d, s, Tail(g.alerts))
        /\ Head(g.alerts).kind = "prompt" => k \notin consented
    BY <1>0, <2>5
  <2>6. \A kind \in {"ended", "closer"} :
          Settled(consented, d, s, <<[kind |-> kind, session |-> s]>> \o Tail(g.alerts))
    BY <2>2, <2>3, SettledPush
  <2> QED
    BY <2>1, <2>2, <2>3, <2>6
<1>a. ASSUME s \in g.runs, NEW r \in Screen, r.runs = g.runs,
             r.myWantsToClose = g.myWantsToClose \/ r.myWantsToClose,
             Settled(consented, d, s, r.alerts),
             gone' = [gone EXCEPT ![k] = r], consented' = consented, late' = late
      PROVE  LeftInv'
  <2>1. Apart(consented, d, s, r)
    BY <1>0, <1>2, <1>a DEF Apart
  <2> QED
    BY <1>0, <1>a, <2>1, LeftEdit DEF Answer
<1>b. ASSUME s \in g.runs, NEW r \in Screen, r.runs = g.runs,
             r.myWantsToClose = g.myWantsToClose \/ r.myWantsToClose,
             Settled(consented, d, s, r.alerts), NEW a \in Answer,
             a = "No" => k \notin consented,
             gone' = [gone EXCEPT ![k] = r], consented' = consented,
             late' = late \cup {<<d, s, a>>}
      PROVE  LeftInv'
  <2>1. Apart(consented, d, s, r)
    BY <1>0, <1>2, <1>b DEF Apart
  <2> QED
    BY <1>0, <1>b, <2>1, LeftEdit
<1>4. ASSUME NEW t \in Session, LateReceive(k, t) PROVE LeftInv'
  <2> DEFINE type == Head(down[<<k[1], t>>]).type
             st == IF type = "close_request" /\ ~g.myWantsToClose
                   THEN <<[kind |-> "prompt", session |-> t]>> \o g.alerts
                   ELSE IF type = "close_reject"
                   THEN <<[kind |-> "ended", session |-> t]>> \o g.alerts
                   ELSE g.alerts
             w == g.peerWantsToClose \/ type = "close_request"
             r == [g EXCEPT !.peerWantsToClose = w, !.alerts = st]
  <2>1. t = s /\ s \in g.runs
    BY <1>2, <1>4 DEF LateReceive, Apart
  <2>2. ~g.myWantsToClose => k \notin consented
    BY <1>0, <1>2, <2>1 DEF Apart
  <2>3. \A kind \in {"prompt", "ended"} : [kind |-> kind, session |-> s] \in Dialog
    BY DEF Dialog
  <2>4. st \in Seq(Dialog) /\ w \in BOOLEAN
    BY <1>1, <2>1, <2>3, PushType
  <2>5. Settled(consented, d, s, st)
    BY <1>0, <1>1, <1>2, <2>1, <2>2, SettledPush DEF Apart
  <2>6. gone' = [gone EXCEPT ![k] = r] /\ late' = late /\ consented' = consented
    BY <1>1, <1>4 DEF LateReceive
  <2> HIDE DEF st, w
  <2>7. /\ r \in Screen /\ r.runs = g.runs /\ r.myWantsToClose = g.myWantsToClose
        /\ r.alerts = st
    BY <1>1, <2>4 DEF Screen
  <2> HIDE DEF r
  <2> QED
    BY <1>a, <2>1, <2>5, <2>6, <2>7
<1>5. CASE LateCancel(k) \/ LateDismissCloser(k)
  <2> DEFINE r1 == [g EXCEPT !.alerts = Tail(@)]
             r2 == [g EXCEPT !.alerts = Tail(@), !.backTimer = TRUE]
  <2>1. g.alerts # <<>>
    BY <1>5 DEF LateCancel, LateDismissCloser, Lingers
  <2>2. \A r \in {r1, r2} : /\ r \in Screen /\ r.runs = g.runs
                            /\ r.myWantsToClose = g.myWantsToClose
                            /\ r.alerts = Tail(g.alerts)
    BY <1>1, <1>3, <2>1 DEF Screen
  <2>3. /\ \E r \in {r1, r2} : gone' = [gone EXCEPT ![k] = r]
        /\ late' = late /\ consented' = consented
    BY <1>1, <1>5 DEF LateCancel, LateDismissCloser
  <2> HIDE DEF r1, r2
  <2> QED
    BY <1>3, <1>a, <2>1, <2>2, <2>3
<1>6. CASE LateConfirmYes(k)
  <2> DEFINE st == IF g.peerWantsToClose
                   THEN <<[kind |-> "closer", session |-> Head(g.alerts).session]>>
                          \o Tail(g.alerts)
                   ELSE Tail(g.alerts)
             r == [g EXCEPT !.myWantsToClose = TRUE, !.alerts = st]
  <2>1. g.alerts # <<>>
    BY <1>6 DEF LateConfirmYes, Lingers
  <2>2. st \in Seq(Dialog)
    BY <2>1, LingersType
  <2>3. Settled(consented, d, s, st)
    BY <1>3, <2>1
  <2>4. /\ gone' = [gone EXCEPT ![k] = r] /\ late' = late \cup {<<d, s, "Yes">>}
        /\ consented' = consented
    BY <1>1, <1>3, <1>6, <2>1 DEF LateConfirmYes, LateAnswer
  <2> HIDE DEF st
  <2>5. /\ r \in Screen /\ r.runs = g.runs /\ r.myWantsToClose = TRUE
        /\ r.alerts = st
    BY <1>1, <2>2 DEF Screen
  <2> HIDE DEF r
  <2> QED
    BY <1>3, <1>b, <2>1, <2>3, <2>4, <2>5 DEF Answer
<1>7. CASE LatePromptYes(k)
  <2> DEFINE r == [g EXCEPT !.myWantsToClose = TRUE, !.alerts = Tail(@)]
  <2>1. g.alerts # <<>>
    BY <1>7 DEF LatePromptYes, Lingers
  <2>2. /\ gone' = [gone EXCEPT ![k] = r] /\ late' = late \cup {<<d, s, "Yes">>}
        /\ consented' = consented
    BY <1>1, <1>3, <1>7, <2>1 DEF LatePromptYes, LateAnswer
  <2>3. /\ r \in Screen /\ r.runs = g.runs /\ r.myWantsToClose = TRUE
        /\ r.alerts = Tail(g.alerts)
    BY <1>1, <1>3, <2>1 DEF Screen
  <2> HIDE DEF r
  <2> QED
    BY <1>3, <1>b, <2>1, <2>2, <2>3 DEF Answer
<1>8. CASE LatePromptNo(k)
  <2> DEFINE st == <<[kind |-> "ended", session |-> Head(g.alerts).session]>>
                     \o Tail(g.alerts)
             r == [g EXCEPT !.alerts = st]
  <2>1. g.alerts # <<>> /\ Head(g.alerts).kind = "prompt"
    BY <1>8 DEF LatePromptNo, Lingers
  <2>2. st \in Seq(Dialog)
    BY <2>1, LingersType
  <2>3. Settled(consented, d, s, st)
    BY <1>3, <2>1
  <2>4. /\ gone' = [gone EXCEPT ![k] = r] /\ late' = late \cup {<<d, s, "No">>}
        /\ consented' = consented
    BY <1>1, <1>3, <1>8, <2>1 DEF LatePromptNo, LateAnswer
  <2> HIDE DEF st
  <2>5. /\ r \in Screen /\ r.runs = g.runs /\ r.myWantsToClose = g.myWantsToClose
        /\ r.alerts = st
    BY <1>1, <2>2 DEF Screen
  <2> HIDE DEF r
  <2> QED
    BY <1>3, <1>b, <2>1, <2>3, <2>4, <2>5 DEF Answer
<1>9. ASSUME NEW r \in Screen, LateBack(k, r),
             Alike(r, g) \/ (s \in g.runs /\ r.runs = g.runs /\ Apart(consented, d, s, r))
      PROVE  LeftInv'
  <2>1. consented' = consented /\ late' = late
    BY <1>9 DEF LateBack, GoBack
  <2>2. CASE gone' = [gone EXCEPT ![k] = r]
    <3>1. ASSUME NEW x \in Device, NEW t \in Session
          PROVE  gone'[<<x, t>>] = gone[<<x, t>>] \/ (x = d /\ t = s /\ gone'[<<x, t>>] = r)
      <4>1. <<x, t>> \in Client
        BY DEF Client
      <4> QED
        BY <1>0, <1>1, <2>2, <4>1
    <3> QED
      BY <1>0, <1>9, <2>1, <3>1, LeftBy DEF Alike
  <2>3. CASE /\ chat[d].session # None /\ GoBack(d)
             /\ gone' = [gone EXCEPT ![k] = r, ![chat[d].keyPair] = Remains(chat[d])]
    <3> DEFINE u == chat[d].session
    <3>1. Mounted(d) /\ chat[d] \in Screen
      BY <2>3, ActiveScreen, ScreenOf
    <3>2. /\ u \in Session /\ d \in Parties(u) /\ readyState[<<d, u>>] # "NONE"
          /\ chat[d].keyPair = <<d, u>>
          /\ u \in Remains(chat[d]).runs /\ Apart(consented, d, u, Remains(chat[d]))
      BY <3>1, ScreenApart
    <3>3. chat'[d].session = None
      BY <2>3 DEF GoBack, ScreenTypeOK, NoScreen
    <3>4. ASSUME NEW x \in Device, NEW t \in Session
          PROVE  \/ gone'[<<x, t>>] = gone[<<x, t>>]
                 \/ x = d /\ t = s /\ gone'[<<x, t>>] = r
                 \/ x = d /\ t = u /\ gone'[<<x, t>>] = Remains(chat[d])
      <4>1. <<x, t>> \in Client
        BY DEF Client
      <4> QED
        BY <1>0, <1>1, <2>3, <3>2, <4>1
    <3> QED
      BY <1>0, <1>9, <2>1, <3>2, <3>3, <3>4, LeftBy DEF Alike
  <2> QED
    BY <1>1, <1>9, <2>2, <2>3 DEF LateBack
<1>10. CASE LateDismissEnded(k)
  <2> DEFINE r == [g EXCEPT !.alerts = Tail(@)]
  <2>1. g.alerts # <<>> /\ LateBack(k, r)
    BY <1>10 DEF LateDismissEnded, Lingers
  <2>2. /\ r \in Screen /\ r.runs = g.runs /\ r.myWantsToClose = g.myWantsToClose
        /\ r.alerts = Tail(g.alerts)
    BY <1>1, <1>3, <2>1 DEF Screen
  <2> HIDE DEF r
  <2>3. s \in g.runs /\ Apart(consented, d, s, r)
    BY <1>2, <1>3, <2>1, <2>2 DEF Apart
  <2> QED
    BY <1>9, <2>1, <2>2, <2>3
<1>11. CASE LateTimerFires(k)
  <2> DEFINE r == [g EXCEPT !.backTimer = FALSE]
  <2>1. LateBack(k, r)
    BY <1>11 DEF LateTimerFires
  <2>2. r \in Screen /\ Alike(r, g)
    BY <1>1 DEF Screen, Alike
  <2> HIDE DEF r
  <2> QED
    BY <1>9, <2>1, <2>2
<1> QED
  BY <1>4, <1>5, <1>6, <1>7, <1>8, <1>10, <1>11 DEF LateStep

LEMMA NextLeft ==
  /\ ScreenTypeOK /\ LeftTypeOK /\ ConsentInv /\ RefusalInv /\ LeftInv
  /\ [Next]_vars
  => LeftInv'
<1> SUFFICES ASSUME ScreenTypeOK, LeftTypeOK, ConsentInv, RefusalInv, LeftInv, [Next]_vars
             PROVE  LeftInv'
  OBVIOUS
<1>1. Kept
  BY NextKept
<1>2. CASE UNCHANGED <<gone, late>>
  BY <1>1, <1>2, LeftBy DEF Alike
<1>3. [SwitchNext]_vars
  BY DEF SwitchNext
<1> QED
  BY <1>1, <1>2, <1>3, LeftLeaves, LateLeft, LeftUntouched

(***************************************************************************)
(* What an unmounted screen leaves behind belongs to a session its device  *)
(* has left for good, asks nothing of a user who agreed there, and gets a  *)
(* No only from one who did not (Chat.tsx:172-218, 241).                   *)
(***************************************************************************)
THEOREM LeftInvariant == Spec => []LeftInv
<1>1. Init => LeftInv
  <2>1. \A d \in Device, s \in Session : <<d, s>> \in Client
    BY DEF Client
  <2>2. /\ NoScreen.runs = {} /\ NoScreen.alerts = <<>>
        /\ Len(<<>>) = 0 /\ 1..0 = {}
    BY DEF NoScreen
  <2>3. Init => \A d \in Device, s \in Session : gone[<<d, s>>] = NoScreen
    BY <2>1 DEF Init
  <2> QED
    BY <2>2, <2>3 DEF Init, LeftInv, LeftApart
<1>2. TypeOK => ScreenTypeOK /\ LeftTypeOK
  BY DEF TypeOK
<1> QED
  BY <1>1, <1>2, NextLeft, TypeCorrect, ConsentInvariant, RefusalInvariant, PTL DEF Spec

(***************************************************************************)
(* Whichever way a chat is left, by the user, a dialog, the timer or a     *)
(* leftover of an earlier chat, its socket is not left open: a socket that *)
(* is open or opening is that of the session on screen (Chat.tsx:241-244). *)
(***************************************************************************)
THEOREM NoSocketLeftOpen == Spec => []SocketsOwned
<1>1. Init => SocketsOwned
  <2>1. \A d \in Device, s \in Session : <<d, s>> \in Client
    BY DEF Client
  <2> QED
    BY <2>1 DEF Init, RelayInit, ClientInit, SocketsOwned
<1>2. ScreenTypeOK /\ ConsentInv /\ SocketsOwned /\ [Next]_vars => SocketsOwned'
  BY NextKept DEF Kept
<1> QED
  BY <1>1, <1>2, ScreenTypeCorrect, ConsentInvariant, PTL DEF Spec

-----------------------------------------------------------------------------
\* Only mounted screens show a handle, and only with the consent of both.
LEMMA ShownBacked ==
  ASSUME ScreenTypeOK, ConsentInv, NEW d \in Device, chat[d].showInstagram
  PROVE  LET s == chat[d].session IN
         /\ Mounted(d) /\ s \in Session /\ d \in Parties(s)
         /\ <<d, s>> \in consented /\ <<Other(d, s), s>> \in consented
<1>1. Mounted(d)
  BY DEF ScreenTypeOK, NoScreen
<1> QED
  BY <1>1, MountedBacked

(***************************************************************************)
(* After a No in a session nobody's screen of that session shows the       *)
(* other's handle, whatever was on the wire or on the screens when it was  *)
(* said (Chat.tsx:197-216).                                                *)
(***************************************************************************)
THEOREM NoMeansNo == Spec => []RefusalStands
<1>1. ScreenTypeOK /\ ConsentInv /\ RefusalInv /\ RefusedByParties /\ LeftInv
        => RefusalStands
  <2> SUFFICES ASSUME ScreenTypeOK, ConsentInv, RefusalInv, RefusedByParties, LeftInv,
                      NEW d \in Device, NEW e \in Device, NEW s \in Session,
                      <<d, s>> \in refused \/ <<d, s, "No">> \in late,
                      chat[e].session = s, chat[e].showInstagram
               PROVE  FALSE
    BY DEF RefusalStands
  <2>1. /\ e \in Parties(s) /\ <<e, s>> \in consented /\ <<Other(e, s), s>> \in consented
    BY ShownBacked
  <2>2. <<d, s, "No">> \in late => d \in Parties(s) /\ <<d, s>> \notin consented
    BY DEF LeftInv, LeftApart, Answer
  <2>3. d \in Parties(s)
    BY <2>2 DEF RefusedByParties
  <2>4. <<d, s>> \in consented
    BY <2>1, <2>3, OtherParty
  <2> QED
    BY <2>2, <2>4 DEF RefusalInv
<1> QED
  BY <1>1, ScreenTypeCorrect, ConsentInvariant, RefusalInvariant, OnlyPartiesRefuse,
     LeftInvariant, PTL

-----------------------------------------------------------------------------
(***************************************************************************)
(* Refinement: which screens show a handle, before and after a step.       *)
(***************************************************************************)
LEMMA ShownSame ==
  ASSUME \A x \in Device : /\ chat'[x].showInstagram <=> chat[x].showInstagram
                           /\ chat[x].showInstagram => chat'[x].session = chat[x].session
  PROVE  ShownIn' = ShownIn
  BY DEF ShownIn

LEMMA ShownMore ==
  ASSUME chat \in [Device -> Screen], NEW d \in Device, NEW r,
         chat' = [chat EXCEPT ![d] = r], r.session = chat[d].session, r.showInstagram
  PROVE  ShownIn' = ShownIn \cup {<<d, chat[d].session>>}
<1>1. chat'[d] = r /\ \A x \in Device : x # d => chat'[x] = chat[x]
  OBVIOUS
<1> QED
  BY <1>1 DEF ShownIn

LEMMA ShownLess ==
  ASSUME chat \in [Device -> Screen], NEW d \in Device, chat' = [chat EXCEPT ![d] = NoScreen]
  PROVE  ShownIn' = ShownIn \ {<<d, chat[d].session>>}
<1>1. /\ chat'[d] = NoScreen /\ ~NoScreen.showInstagram
      /\ \A x \in Device : x # d => chat'[x] = chat[x]
  BY DEF NoScreen
<1> QED
  BY <1>1 DEF ShownIn

\* Both parties agreed and neither refused: the handle may show.
LEMMA MayShow ==
  ASSUME NEW C, NEW s \in Session, NEW d \in Parties(s),
         <<d, s>> \in C, <<Other(d, s), s>> \in C, C \cap refused = {}
  PROVE  Dialogue!Open(C, s)
<1>1. Dialogue!Everyone(s) = Parties(s) \X {s}
  BY DEF Dialogue!Everyone
<1>2. Parties(s) \X {s} \subseteq C
  BY OtherParty
<1> QED
  BY <1>1, <1>2 DEF Dialogue!Open

LEMMA Members ==
  ASSUME NEW s \in Session, NEW d \in Parties(s),
         \/ Dialogue!Agree(d, s) \/ Dialogue!Refuse(d, s)
         \/ Dialogue!Reveal(d, s) \/ Dialogue!Leave(d, s)
         \/ \E a \in Answer : Dialogue!AnswerLate(d, s, a)
  PROVE  Dialogue!Next
  BY DEF Dialogue!Next, Answer

\* Who is in a session has given no answer after leaving it.
LEMMA OnScreen ==
  ASSUME LeftInv, NEW d \in Device, chat[d].session \in Session
  PROVE  Dialogue!Present(d, chat[d].session)
  BY DEF LeftInv, LeftApart, Answer, Dialogue!Present

LEMMA DialogueStep ==
  ASSUME ScreenTypeOK, LeftTypeOK, ConsentInv, RefusalInv, RefusalInv', LeftInv,
         [Next]_vars
  PROVE  [Dialogue!Next]_(Dialogue!vars)
<1> USE DEF historyVars, leftVars
<1>0. chat \in [Device -> Screen]
  BY DEF ScreenTypeOK
<1>a. ASSUME UNCHANGED <<consented, refused, late>>,
             \A x \in Device : /\ chat'[x].showInstagram <=> chat[x].showInstagram
                               /\ chat[x].showInstagram => chat'[x].session = chat[x].session
      PROVE  UNCHANGED Dialogue!vars
  BY <1>a, ShownSame DEF Dialogue!vars
<1>b. ASSUME UNCHANGED <<consented, refused, late>>, NEW d \in Device, NEW r,
             chat' = [chat EXCEPT ![d] = r], r.session = chat[d].session,
             r.showInstagram <=> chat[d].showInstagram
      PROVE  UNCHANGED Dialogue!vars
  <2>1. \A x \in Device : /\ chat'[x].showInstagram <=> chat[x].showInstagram
                          /\ chat'[x].session = chat[x].session
    BY <1>0, <1>b
  <2> QED
    BY <1>a, <1>b, <2>1
<1>c. ASSUME NEW d \in Device, Mounted(d), GoBack(d), UNCHANGED late
      PROVE  Dialogue!Next
  <2>1. chat' = [chat EXCEPT ![d] = NoScreen] /\ UNCHANGED <<consented, refused, late>>
    BY <1>c DEF GoBack
  <2>2. chat[d].session \in Session /\ d \in Parties(chat[d].session)
    BY <1>c, MountedBacked
  <2>3. Dialogue!Leave(d, chat[d].session)
    BY <1>0, <2>1, ShownLess DEF Dialogue!Leave
  <2> QED
    BY <2>2, <2>3, Members
<1>1. ASSUME UNCHANGED <<chat, consented, refused, late>> PROVE UNCHANGED Dialogue!vars
  BY <1>1, <1>a
<1>2. ASSUME NEW d \in Device, NEW s \in Session, Navigate(d, s)
      PROVE  UNCHANGED Dialogue!vars
  <2>1. chat[d].session = None /\ chat' = [chat EXCEPT ![d] = FreshScreen(d, s)]
        /\ UNCHANGED <<consented, refused, late>>
    BY <1>2 DEF Navigate
  <2>2. ~chat[d].showInstagram /\ ~FreshScreen(d, s).showInstagram
    BY <2>1 DEF ScreenTypeOK, Mounted, NoScreen, FreshScreen
  <2>3. \A x \in Device : /\ chat'[x].showInstagram <=> chat[x].showInstagram
                          /\ chat[x].showInstagram => chat'[x].session = chat[x].session
    BY <1>0, <2>1, <2>2
  <2> QED
    BY <1>a, <2>1, <2>3
<1>3. ASSUME NEW d \in Device, UserBack(d) \/ DismissEnded(d) \/ BackTimerFires(d)
      PROVE  Dialogue!Next
  BY <1>3, <1>c, ActiveScreen DEF UserBack, DismissEnded, BackTimerFires, Asked, Leaves
<1>4. ASSUME NEW d \in Device,
             \/ Reply(d) \/ HandleCloseRequest(d) \/ ConfirmCancel(d) \/ DismissCloser(d)
             \/ \E s \in Session : \/ SendPublicKey(d, s) \/ ReceivePubkey(d, s)
                                   \/ ReceiveMsg(d, s) \/ ReceiveCloseReject(d, s)
      PROVE  UNCHANGED Dialogue!vars
  <2>1. UNCHANGED <<consented, refused, late>>
    BY <1>4 DEF Reply, HandleCloseRequest, ConfirmCancel, DismissCloser, SendPublicKey,
                ReceivePubkey, ReceiveMsg, ReceiveCloseReject
  <2>2. \A x \in Device : /\ chat'[x].showInstagram = chat[x].showInstagram
                          /\ chat'[x].session = chat[x].session
    <3>1. CASE Reply(d)
      BY <1>0, <3>1 DEF Reply, Screen
    <3>2. CASE HandleCloseRequest(d)
      BY <1>0, <3>2 DEF HandleCloseRequest, Screen
    <3>3. CASE ConfirmCancel(d)
      BY <1>0, <3>3 DEF ConfirmCancel, Screen
    <3>4. CASE DismissCloser(d)
      BY <1>0, <3>4 DEF DismissCloser, Screen
    <3>5. CASE \E s \in Session : SendPublicKey(d, s)
      BY <1>0, <3>5 DEF SendPublicKey, Screen
    <3>6. CASE \E s \in Session : ReceivePubkey(d, s)
      BY <1>0, <3>6 DEF ReceivePubkey, Screen
    <3>7. CASE \E s \in Session : ReceiveMsg(d, s)
      BY <1>0, <3>7 DEF ReceiveMsg, Screen
    <3>8. CASE \E s \in Session : ReceiveCloseReject(d, s)
      BY <1>0, <3>8 DEF ReceiveCloseReject, Screen
    <3> QED
      BY <1>4, <3>1, <3>2, <3>3, <3>4, <3>5, <3>6, <3>7, <3>8
  <2> QED
    BY <1>a, <2>1, <2>2
<1>5. ASSUME NEW d \in Device, PromptNo(d) PROVE Dialogue!Next
  <2> DEFINE s == chat[d].session
             r == [chat[d] EXCEPT !.alerts = <<[kind |-> "ended", session |-> AskedIn(d)]>>
                                               \o Tail(@)]
  <2>1. Mounted(d) /\ AskedIn(d) = s /\ s \in Session /\ d \in Parties(s)
    BY <1>5, TopBacked, MountedBacked DEF PromptNo
  <2>2. /\ chat' = [chat EXCEPT ![d] = r] /\ consented' = consented
        /\ refused' = refused \cup {<<d, s>>} /\ late' = late
    BY <1>5, <2>1 DEF PromptNo
  <2>3. r.session = s /\ r.showInstagram = chat[d].showInstagram
    BY <1>0 DEF Screen
  <2> HIDE DEF r
  <2>4. \A x \in Device : /\ chat'[x].showInstagram <=> chat[x].showInstagram
                          /\ chat'[x].session = chat[x].session
    BY <1>0, <2>2, <2>3
  <2>5. ShownIn' = ShownIn
    BY <2>4, ShownSame
  <2>6. <<d, s>> \notin consented
    BY <2>2 DEF RefusalInv
  <2>7. Dialogue!Refuse(d, s)
    BY <2>1, <2>2, <2>5, <2>6, OnScreen DEF Dialogue!Refuse
  <2> QED
    BY <2>1, <2>7, Members
<1>6. ASSUME NEW d \in Device, ConfirmYes(d) \/ PromptYes(d) PROVE Dialogue!Next
  <2> DEFINE s == chat[d].session
  <2>1. Mounted(d) /\ AskedIn(d) = s /\ s \in Session /\ d \in Parties(s)
    BY <1>6, TopBacked, MountedBacked DEF ConfirmYes, PromptYes
  <2>2. consented' = consented \cup {<<d, s>>} /\ UNCHANGED <<refused, late>>
    BY <1>6, <2>1 DEF ConfirmYes, PromptYes
  <2>3. <<d, s>> \notin refused /\ consented' \cap refused = {}
    BY <2>2 DEF RefusalInv
  <2>4. /\ chat'[d].session = s
        /\ \A x \in Device : x # d => chat'[x] = chat[x]
        /\ chat' = [chat EXCEPT ![d] = chat'[d]]
        /\ chat[d].showInstagram => chat'[d].showInstagram
        /\ chat'[d].showInstagram =>
             chat[d].showInstagram \/ chat[d].peerWantsToClose \/ PromptYes(d)
    <3>1. CASE ConfirmYes(d)
      BY <1>0, <3>1, ZenonT(60) DEF ConfirmYes, Screen
    <3>2. CASE PromptYes(d)
      BY <1>0, <3>2 DEF PromptYes, Screen
    <3> QED
      BY <1>6, <3>1, <3>2
  <2>5. CASE chat'[d].showInstagram <=> chat[d].showInstagram
    <3>1. ShownIn' = ShownIn
      BY <2>4, <2>5, ShownSame
    <3>2. Dialogue!Agree(d, s)
      BY <2>1, <2>2, <2>3, <3>1, OnScreen DEF Dialogue!Agree
    <3> QED
      BY <2>1, <3>2, Members
  <2>6. CASE chat'[d].showInstagram /\ ~chat[d].showInstagram
    <3>1. <<Other(d, s), s>> \in consented
      BY <2>1, <2>4, <2>6, TopBacked, MountedBacked DEF PromptYes
    <3>2. Dialogue!Open(consented', s)
      BY <2>1, <2>2, <2>3, <3>1, MayShow
    <3>3. ShownIn' = ShownIn \cup {<<d, s>>}
      BY <1>0, <2>4, <2>6, ShownMore
    <3>4. Dialogue!Agree(d, s)
      BY <2>1, <2>2, <2>3, <3>2, <3>3, OnScreen DEF Dialogue!Agree
    <3> QED
      BY <2>1, <3>4, Members
  <2> QED
    BY <2>4, <2>5, <2>6
<1>7. ASSUME NEW d \in Device, NEW s \in Session,
             ReceiveCloseRequest(d, s) \/ ReceiveCloseAccept(d, s)
      PROVE  [Dialogue!Next]_(Dialogue!vars)
  <2>1. PICK type \in {"close_request", "close_accept"} : Receive(d, s, type)
    BY <1>7 DEF ReceiveCloseRequest, ReceiveCloseAccept
  <2>2. Mounted(d) /\ chat[d].session = s /\ d \in Parties(s)
    <3>1. Mounted(d) /\ s \in chat[d].runs
      BY <2>1, ReceiveType DEF Receive, Arrives
    <3> QED
      BY <3>1, MountedBacked
  <2>3. UNCHANGED <<consented, refused, late>> /\ consented \cap refused = {}
    BY <1>7 DEF ReceiveCloseRequest, ReceiveCloseAccept, RefusalInv
  <2>4. /\ chat'[d].session = s
        /\ \A x \in Device : x # d => chat'[x] = chat[x]
        /\ chat' = [chat EXCEPT ![d] = chat'[d]]
        /\ chat[d].showInstagram => chat'[d].showInstagram
    <3>1. CASE ReceiveCloseRequest(d, s)
      BY <1>0, <2>2, <3>1, ZenonT(60) DEF ReceiveCloseRequest, Screen
    <3>2. CASE ReceiveCloseAccept(d, s)
      BY <1>0, <2>2, <3>2 DEF ReceiveCloseAccept, Screen
    <3> QED
      BY <1>7, <3>1, <3>2
  <2>5. CASE chat'[d].showInstagram <=> chat[d].showInstagram
    BY <1>b, <2>2, <2>3, <2>4, <2>5
  <2>6. CASE chat'[d].showInstagram /\ ~chat[d].showInstagram
    <3>1. ConsentInv'
      BY NextConsent
    <3>2. <<d, s>> \in consented /\ <<Other(d, s), s>> \in consented
      BY <2>2, <2>3, <2>4, <2>6, <3>1 DEF ConsentInv, Backed, Mounted
    <3>3. Dialogue!Open(consented, s)
      BY <2>2, <2>3, <3>2, MayShow
    <3>4. ShownIn' = ShownIn \cup {<<d, s>>}
      BY <1>0, <2>2, <2>4, <2>6, ShownMore
    <3>5. Dialogue!Reveal(d, s)
      BY <2>2, <2>3, <3>3, <3>4, OnScreen DEF Dialogue!Reveal
    <3> QED
      BY <2>2, <3>5, Members
  <2> QED
    BY <2>4, <2>5, <2>6
<1>8. CASE UNCHANGED vars
  BY <1>1, <1>8 DEF vars
<1>9. ASSUME NEW c \in Client, Transport(c) \/ SocketBreaks(c)
      PROVE  UNCHANGED Dialogue!vars
  BY <1>1, <1>9 DEF Transport, SocketBreaks
<1>10. ASSUME NEW d \in Device, Say(d) PROVE UNCHANGED Dialogue!vars
  BY <1>1, <1>10 DEF Say
<1>11. ASSUME NEW k \in Client, LateStep(k) PROVE [Dialogue!Next]_(Dialogue!vars)
  <2>0. PICK d \in Device, s \in Session : k = <<d, s>>
    BY DEF Client
  <2>1. ASSUME \/ LateCancel(k) \/ LateDismissCloser(k)
               \/ \E t \in Session : LateReceive(k, t)
        PROVE  UNCHANGED Dialogue!vars
    BY <1>1, <2>1 DEF LateCancel, LateDismissCloser, LateReceive
  <2>2. ASSUME LateDismissEnded(k) \/ LateTimerFires(k)
        PROVE  [Dialogue!Next]_(Dialogue!vars)
    <3>1. PICK r : LateBack(k, r)
      BY <2>2 DEF LateDismissEnded, LateTimerFires
    <3>2. CASE UNCHANGED <<chat, consented, refused>>
      BY <1>1, <3>1, <3>2 DEF LateBack
    <3>3. CASE chat[d].session # None /\ GoBack(d)
      BY <1>c, <3>1, <3>3, ActiveScreen DEF LateBack
    <3> QED
      BY <2>0, <3>1, <3>2, <3>3 DEF LateBack
  <2>3. ASSUME NEW a \in Answer, late' = late \cup {<<d, s, a>>},
               UNCHANGED <<chat, consented, refused>>,
               s \in gone[k].runs, a = "No" => k \notin consented
        PROVE  Dialogue!Next
    <3>1. d \in Parties(s) /\ chat[d].session # s
      BY <2>0, <2>3 DEF LeftInv, LeftApart
    <3>2. <<d, s>> \notin ShownIn
      BY <3>1 DEF ShownIn
    <3>3. ShownIn' = ShownIn
      BY <2>3, ShownSame
    <3>4. Dialogue!AnswerLate(d, s, a)
      BY <2>0, <2>3, <3>2, <3>3 DEF Dialogue!AnswerLate
    <3> QED
      BY <3>1, <3>4, Members
  <2>4. ASSUME gone[k].alerts # <<>>
        PROVE  /\ s \in gone[k].runs /\ Head(gone[k].alerts).session = s
               /\ Head(gone[k].alerts).kind = "prompt" => k \notin consented
    <3>1. gone[k].alerts \in Seq(Dialog)
      BY DEF LeftTypeOK, Screen
    <3>2. 1 \in 1..Len(gone[k].alerts) /\ Head(gone[k].alerts) = gone[k].alerts[1]
      BY <2>4, <3>1
    <3> QED
      BY <2>0, <2>4, <3>2 DEF LeftInv, LeftApart
  <2>5. CASE LateConfirmYes(k) \/ LatePromptYes(k)
    <3>1. /\ gone[k].alerts # <<>> /\ UNCHANGED <<chat, consented, refused>>
          /\ late' = late \cup {LateAnswer(k, "Yes")}
      BY <2>5 DEF LateConfirmYes, LatePromptYes, Lingers
    <3>2. LateAnswer(k, "Yes") = <<d, s, "Yes">>
      BY <2>0, <2>4, <3>1 DEF LateAnswer
    <3> QED
      BY <2>3, <2>4, <3>1, <3>2 DEF Answer
  <2>6. CASE LatePromptNo(k)
    <3>1. /\ gone[k].alerts # <<>> /\ Head(gone[k].alerts).kind = "prompt"
          /\ UNCHANGED <<chat, consented, refused>>
          /\ late' = late \cup {LateAnswer(k, "No")}
      BY <2>6 DEF LatePromptNo, Lingers
    <3>2. LateAnswer(k, "No") = <<d, s, "No">>
      BY <2>0, <2>4, <3>1 DEF LateAnswer
    <3> QED
      BY <2>3, <2>4, <3>1, <3>2 DEF Answer
  <2> QED
    BY <1>11, <2>1, <2>2, <2>5, <2>6 DEF LateStep
<1> QED
  BY <1>2, <1>3, <1>4, <1>5, <1>6, <1>7, <1>8, <1>9, <1>10, <1>11
  DEF Next, System, User, AtScreen, OnMessage, LateStep

(***************************************************************************)
(* The chat implements the abstract dialogue: every handler is a Yes or a  *)
(* No, given in the chat or after leaving it, a reveal both agreed to, the *)
(* end of one, or invisible to it (Chat.tsx:166-309).                      *)
(***************************************************************************)
THEOREM ChatImplementsComeCloser == Spec => ComeCloserSpec
<1>1. Init => Dialogue!Init
  BY DEF Init, Dialogue!Init, ShownIn, NoScreen
<1>2. TypeOK /\ ConsentInv /\ RefusalInv /\ RefusalInv' /\ LeftInv /\ [Next]_vars
        => [Dialogue!Next]_(Dialogue!vars)
  BY DialogueStep DEF TypeOK
<1> QED
  BY <1>1, <1>2, TypeCorrect, ConsentInvariant, RefusalInvariant, LeftInvariant, PTL
  DEF Spec, ComeCloserSpec, Dialogue!Spec
=============================================================================

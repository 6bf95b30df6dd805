----------------------------- MODULE TextProofs -----------------------------
(***************************************************************************)
(* That the texts a screen shows are a contiguous run of what the other    *)
(* party said, for any number of devices, sessions and texts and whatever  *)
(* sockets break, in every run of Chat in which no mounted screen is       *)
(* reused.                                                                 *)
(***************************************************************************)
EXTENDS RefusalProofs

-----------------------------------------------------------------------------
(***************************************************************************)
(* The inductive invariant.  It follows the texts of party d of session s  *)
(* on their way to the other party e: the queue of d's client, its socket, *)
(* the socket of e's client and e's screen.                                *)
(***************************************************************************)
NoText(q) == \A i \in 1..Len(q) : q[i].type # "msg"

\* The texts in queue q are those with the numbers a + 1 to b, in order.
Run(q, a, b) ==
  /\ \A i \in 1..Len(q) : q[i].type = "msg" => q[i].body.n \in (a + 1)..b
  /\ \A i, j \in 1..Len(q) :
       i < j /\ q[i].type = "msg" /\ q[j].type = "msg" => q[i].body.n < q[j].body.n
  /\ \A k \in (a + 1)..b :
       \E i \in 1..Len(q) : q[i].type = "msg" /\ q[i].body.n = k

\* What d sends in s: its texts name it and are sealed with the key of s.
Spoken(d, s) ==
  {m \in Message : m.type = "msg" =>
     /\ m.body.from = d /\ m.body.session = s
     /\ m.box = {<<d, s>>, <<Other(d, s), s>>}}

Typed(d, s) ==
  /\ pendingMessages[<<d, s>>] \in Seq(Spoken(d, s))
  /\ up[<<d, s>>] \in Seq(Spoken(d, s))
  /\ down[<<Other(d, s), s>>] \in Seq(Spoken(d, s))

\* Before its socket opens d has no key and no text of it is under way.
Silent(d, s) ==
  readyState[<<d, s>>] \in {"NONE", "CONNECTING"} =>
    /\ up[<<d, s>>] = <<>>
    /\ NoText(pendingMessages[<<d, s>>]) /\ NoText(down[<<Other(d, s), s>>])
    /\ In(d, s) => chat[d].sessionKey = {}
    /\ In(Other(d, s), s) => chat[Other(d, s)].heard = <<>>

Consecutive(h, d, s) ==
  \A i \in 1..Len(h) :
    h[i].from = d /\ h[i].session = s /\ (i > 1 => h[i].n = h[i - 1].n + 1)

\* A client the relay has not yet registered has got nothing, and what a
\* screen without a key gets it does not show.
Listener(e, s) ==
  LET l == <<e, s>> IN
  /\ readyState[l] = "NONE" => l \notin joined
  /\ readyState[l] \in {"NONE", "CONNECTING", "OPEN"} /\ l \notin joined => down[l] = <<>>
  /\ In(e, s) =>
       /\ readyState[l] \in {"CONNECTING", "OPEN", "LOST"}
       /\ l \notin joined /\ readyState[l] # "LOST" => chat[e].heard = <<>>
       /\ chat[e].sessionKey = {} => chat[e].heard = <<>>
       /\ Consecutive(chat[e].heard, Other(e, s), s)

Speaking(d, s) == In(d, s) /\ readyState[<<d, s>>] = "OPEN"

Listening(e, s) == In(e, s) /\ readyState[<<e, s>>] # "LOST"

\* Of the texts of d, those up to a have reached e's screen or are lost for
\* it, those up to b have left the relay, and those up to c were sent.
Stages(d, s, a, b, c) ==
  LET e == Other(d, s) IN
  /\ a <= b /\ b <= c
  /\ Run(up[<<d, s>>], b, c)
  /\ Speaking(d, s) => c = said[d]
  /\ Listening(e, s) =>
       /\ Run(down[<<e, s>>], a, b)
       /\ chat[e].heard # <<>> => chat[e].heard[Len(chat[e].heard)].n = a

Flow(d, s) == \E a, b, c \in 0..MaxSaid : Stages(d, s, a, b, c)

Channel(d, s) ==
  Typed(d, s) /\ Silent(d, s) /\ Listener(Other(d, s), s) /\ Flow(d, s)

TextInv == \A s \in Session : \A d \in Parties(s) : Channel(d, s)

-----------------------------------------------------------------------------
(***************************************************************************)
(* Texts in a queue.                                                       *)
(***************************************************************************)
LEMMA TextNumber ==
  ASSUME NEW m \in Message, m.type = "msg"
  PROVE  /\ m.body \in Body /\ m.body.n \in 1..MaxSaid /\ m.body.n \in Nat
         /\ m.box \in SUBSET Key
  BY MaxSaidAssumption DEF Message, Body

LEMMA RunNone ==
  ASSUME NEW q \in Seq(Message), NoText(q), NEW a \in Nat
  PROVE  Run(q, a, a)
  BY DEF NoText, Run

LEMMA EmptyRun ==
  ASSUME NEW a \in Nat
  PROVE  NoText(<<>>) /\ Run(<<>>, a, a)
  BY DEF NoText, Run

LEMMA AppendOther ==
  ASSUME NEW q \in Seq(Message), NEW m \in Message, m.type # "msg",
         NEW a \in Nat, NEW b \in Nat
  PROVE  /\ NoText(q) => NoText(Append(q, m))
         /\ Run(q, a, b) => Run(Append(q, m), a, b)
<1> DEFINE r == Append(q, m)
<1>1. /\ Len(r) = Len(q) + 1 /\ Len(q) \in Nat
      /\ r[Len(q) + 1] = m
      /\ \A i \in 1..Len(q) : r[i] = q[i]
  OBVIOUS
<1> HIDE DEF r
<1>2. ASSUME NoText(q) PROVE NoText(r)
  BY <1>1, <1>2 DEF NoText
<1>3. ASSUME Run(q, a, b) PROVE Run(r, a, b)
  <2>1. \A i \in 1..Len(r) : r[i].type = "msg" => i \in 1..Len(q) /\ r[i] = q[i]
    BY <1>1
  <2>2. \A i \in 1..Len(q) : i \in 1..Len(r) /\ r[i] = q[i]
    BY <1>1
  <2>3. \A i \in 1..Len(r) : r[i].type = "msg" => r[i].body.n \in (a + 1)..b
    BY <1>3, <2>1 DEF Run
  <2>4. ASSUME NEW i \in 1..Len(r), NEW j \in 1..Len(r),
               i < j, r[i].type = "msg", r[j].type = "msg"
        PROVE  r[i].body.n < r[j].body.n
    BY <1>3, <2>1, <2>4 DEF Run
  <2>5. ASSUME NEW k \in (a + 1)..b
        PROVE  \E i \in 1..Len(r) : r[i].type = "msg" /\ r[i].body.n = k
    <3>1. PICK i \in 1..Len(q) : q[i].type = "msg" /\ q[i].body.n = k
      BY <1>3 DEF Run
    <3> QED
      BY <2>2, <3>1
  <2> QED
    BY <2>3, <2>4, <2>5 DEF Run
<1> QED
  BY <1>2, <1>3 DEF r

LEMMA AppendText ==
  ASSUME NEW q \in Seq(Message), NEW m \in Message, m.type = "msg",
         NEW a \in Nat, NEW b \in Nat, a <= b,
         Run(q, a, b), m.body.n = b + 1
  PROVE  Run(Append(q, m), a, b + 1)
<1> DEFINE r == Append(q, m)
<1>1. /\ Len(r) = Len(q) + 1 /\ Len(q) \in Nat
      /\ r[Len(q) + 1] = m
      /\ \A i \in 1..Len(q) : r[i] = q[i]
  OBVIOUS
<1> HIDE DEF r
<1>2. \A i \in 1..Len(q) : q[i].type = "msg" => q[i].body.n \in (a + 1)..b
  BY DEF Run
<1>3. \A i \in 1..Len(r) : r[i].type = "msg" => r[i].body.n \in (a + 1)..(b + 1)
  BY <1>1, <1>2
<1>4. ASSUME NEW i \in 1..Len(r), NEW j \in 1..Len(r),
             i < j, r[i].type = "msg", r[j].type = "msg"
      PROVE  r[i].body.n < r[j].body.n
  <2>1. i \in 1..Len(q) /\ r[i] = q[i]
    BY <1>1, <1>4
  <2>2. CASE j = Len(q) + 1
    BY <1>1, <1>2, <1>4, <2>1, <2>2
  <2>3. CASE j # Len(q) + 1
    <3>1. j \in 1..Len(q) /\ r[j] = q[j]
      BY <1>1, <2>3
    <3> QED
      BY <1>4, <2>1, <3>1 DEF Run
  <2> QED
    BY <2>2, <2>3
<1>5. ASSUME NEW k \in (a + 1)..(b + 1)
      PROVE  \E i \in 1..Len(r) : r[i].type = "msg" /\ r[i].body.n = k
  <2>1. CASE k = b + 1
    <3>1. Len(q) + 1 \in 1..Len(r)
      BY <1>1
    <3> QED
      BY <1>1, <2>1, <3>1
  <2>2. CASE k # b + 1
    <3>0. k \in (a + 1)..b
      BY <2>2
    <3>1. PICK i \in 1..Len(q) : q[i].type = "msg" /\ q[i].body.n = k
      BY <3>0 DEF Run
    <3> QED
      BY <1>1, <3>1
  <2> QED
    BY <2>1, <2>2
<1> QED
  BY <1>3, <1>4, <1>5 DEF Run, r

LEMMA TailOther ==
  ASSUME NEW q \in Seq(Message), q # <<>>, Head(q).type # "msg",
         NEW a \in Nat, NEW b \in Nat, Run(q, a, b)
  PROVE  Run(Tail(q), a, b)
<1> DEFINE r == Tail(q)
<1>1. /\ Len(r) = Len(q) - 1 /\ Len(q) \in Nat \ {0}
      /\ Head(q) = q[1]
      /\ \A i \in 1..(Len(q) - 1) : r[i] = q[i + 1]
  OBVIOUS
<1> HIDE DEF r
<1>2. \A i \in 1..Len(r) : i + 1 \in 1..Len(q) /\ r[i] = q[i + 1]
  BY <1>1
<1>3. ASSUME NEW i \in 1..Len(r), r[i].type = "msg" PROVE r[i].body.n \in (a + 1)..b
  <2>1. i + 1 \in 1..Len(q) /\ q[i + 1].type = "msg" /\ r[i] = q[i + 1]
    BY <1>2, <1>3
  <2> QED
    BY <2>1 DEF Run
<1>4. ASSUME NEW i \in 1..Len(r), NEW j \in 1..Len(r),
             i < j, r[i].type = "msg", r[j].type = "msg"
      PROVE  r[i].body.n < r[j].body.n
  <2>1. i + 1 < j + 1
    BY <1>1, <1>4
  <2>2. /\ i + 1 \in 1..Len(q) /\ q[i + 1].type = "msg" /\ r[i] = q[i + 1]
        /\ j + 1 \in 1..Len(q) /\ q[j + 1].type = "msg" /\ r[j] = q[j + 1]
    BY <1>2, <1>4
  <2> QED
    BY <2>1, <2>2 DEF Run
<1>5. ASSUME NEW k \in (a + 1)..b
      PROVE  \E i \in 1..Len(r) : r[i].type = "msg" /\ r[i].body.n = k
  <2>1. PICK i \in 1..Len(q) : q[i].type = "msg" /\ q[i].body.n = k
    BY DEF Run
  <2>2. i # 1 /\ i - 1 \in 1..Len(r) /\ r[i - 1] = q[i]
    BY <1>1, <2>1
  <2> QED
    BY <2>1, <2>2
<1> QED
  BY <1>3, <1>4, <1>5 DEF Run, r

LEMMA TailText ==
  ASSUME NEW q \in Seq(Message), q # <<>>, Head(q).type = "msg",
         NEW a \in Nat, NEW b \in Nat, Run(q, a, b)
  PROVE  a + 1 <= b /\ Head(q).body.n = a + 1 /\ Run(Tail(q), a + 1, b)
<1> DEFINE r == Tail(q)
<1>1. /\ Len(r) = Len(q) - 1 /\ Len(q) \in Nat \ {0}
      /\ Head(q) = q[1] /\ 1 \in 1..Len(q)
      /\ \A i \in 1..(Len(q) - 1) : r[i] = q[i + 1]
  OBVIOUS
<1> HIDE DEF r
<1>2. \A i \in 1..Len(r) : i + 1 \in 1..Len(q) /\ r[i] = q[i + 1]
  BY <1>1
<1>3. q[1].type = "msg" /\ q[1].body.n \in (a + 1)..b
  BY <1>1 DEF Run
<1>4. a + 1 \in (a + 1)..b
  BY <1>3
<1>5. PICK i \in 1..Len(q) : q[i].type = "msg" /\ q[i].body.n = a + 1
  BY <1>4 DEF Run
<1>6. i = 1
  <2>1. ASSUME 1 < i PROVE FALSE
    <3>1. q[1].body.n < q[i].body.n
      BY <1>1, <1>3, <1>5, <2>1 DEF Run
    <3> QED
      BY <1>3, <1>5, <3>1
  <2> QED
    BY <1>1, <2>1
<1>7. ASSUME NEW j \in 1..Len(r), r[j].type = "msg"
      PROVE  r[j].body.n \in (a + 2)..b
  <2>1. /\ j + 1 \in 1..Len(q) /\ q[j + 1].type = "msg" /\ r[j] = q[j + 1]
        /\ 1 < j + 1
    BY <1>1, <1>2, <1>7
  <2>2. q[1].body.n < q[j + 1].body.n /\ q[j + 1].body.n \in (a + 1)..b
    BY <1>1, <1>3, <2>1 DEF Run
  <2> QED
    BY <1>5, <1>6, <2>1, <2>2
<1>8. ASSUME NEW j \in 1..Len(r), NEW k \in 1..Len(r),
             j < k, r[j].type = "msg", r[k].type = "msg"
      PROVE  r[j].body.n < r[k].body.n
  <2>1. j + 1 < k + 1
    BY <1>1, <1>8
  <2>2. /\ j + 1 \in 1..Len(q) /\ q[j + 1].type = "msg" /\ r[j] = q[j + 1]
        /\ k + 1 \in 1..Len(q) /\ q[k + 1].type = "msg" /\ r[k] = q[k + 1]
    BY <1>2, <1>8
  <2> QED
    BY <2>1, <2>2 DEF Run
<1>9. ASSUME NEW k \in (a + 2)..b
      PROVE  \E j \in 1..Len(r) : r[j].type = "msg" /\ r[j].body.n = k
  <2>0. k \in (a + 1)..b
    OBVIOUS
  <2>1. PICK j \in 1..Len(q) : q[j].type = "msg" /\ q[j].body.n = k
    BY <2>0 DEF Run
  <2>2. j # 1
    BY <1>5, <1>6, <2>1
  <2>3. j - 1 \in 1..Len(r) /\ r[j - 1] = q[j]
    BY <1>1, <2>2
  <2> QED
    BY <2>1, <2>3
<1>10. Run(r, a + 1, b)
  <2>1. (a + 1) + 1 = a + 2
    OBVIOUS
  <2> QED
    BY <1>7, <1>8, <1>9, <2>1 DEF Run
<1> QED
  BY <1>1, <1>3, <1>4, <1>5, <1>6, <1>10 DEF r

LEMMA TailSilent ==
  ASSUME NEW q \in Seq(Message), q # <<>>, NoText(q)
  PROVE  NoText(Tail(q)) /\ Head(q).type # "msg"
<1>1. /\ Len(Tail(q)) = Len(q) - 1 /\ Len(q) \in Nat \ {0}
      /\ Head(q) = q[1]
      /\ \A i \in 1..(Len(q) - 1) : Tail(q)[i] = q[i + 1]
  OBVIOUS
<1> QED
  BY <1>1 DEF NoText

LEMMA AppendHeard ==
  ASSUME NEW h \in Seq(Body), NEW m \in Body, NEW d, NEW s,
         Consecutive(h, d, s), m.from = d, m.session = s,
         h # <<>> => m.n = h[Len(h)].n + 1
  PROVE  /\ Consecutive(Append(h, m), d, s)
         /\ Append(h, m) \in Seq(Body) /\ Append(h, m) # <<>>
         /\ Append(h, m)[Len(Append(h, m))] = m
<1> DEFINE r == Append(h, m)
<1>1. /\ Len(r) = Len(h) + 1 /\ Len(h) \in Nat
      /\ r[Len(h) + 1] = m
      /\ \A i \in 1..Len(h) : r[i] = h[i]
      /\ r \in Seq(Body) /\ r # <<>>
  BY AppendProperties
<1> HIDE DEF r
<1>2. ASSUME NEW i \in 1..Len(r)
      PROVE  r[i].from = d /\ r[i].session = s /\ (i > 1 => r[i].n = r[i - 1].n + 1)
  <2>1. CASE i = Len(h) + 1
    <3>1. ASSUME i > 1 PROVE r[i].n = r[i - 1].n + 1
      <4>1. i - 1 = Len(h) /\ i - 1 \in 1..Len(h)
        BY <1>1, <2>1, <3>1
      <4>2. h # <<>>
        BY <4>1, <1>1
      <4> QED
        BY <1>1, <2>1, <4>1, <4>2
    <3> QED
      BY <1>1, <2>1, <3>1
  <2>2. CASE i # Len(h) + 1
    <3>1. i \in 1..Len(h) /\ r[i] = h[i]
      BY <1>1, <2>2
    <3>2. i > 1 => i - 1 \in 1..Len(h) /\ r[i - 1] = h[i - 1]
      BY <1>1, <3>1
    <3> QED
      BY <3>1, <3>2 DEF Consecutive
  <2> QED
    BY <2>1, <2>2
<1> QED
  BY <1>1, <1>2 DEF Consecutive, r

-----------------------------------------------------------------------------
(***************************************************************************)
(* Steps that move no text of d in s.                                      *)
(***************************************************************************)
Gone == {"CLOSING", "CLOSED", "LOST"}

QuietSpeaker(d, s) ==
  LET k == <<d, s>>
      Signal == {m \in Spoken(d, s) : m.type # "msg"}
  IN  /\ readyState'[k] = readyState[k] \/ readyState'[k] \in {"CLOSING", "CLOSED"}
      /\ \/ pendingMessages'[k] = pendingMessages[k]
         \/ \E m \in Signal : pendingMessages'[k] = Append(pendingMessages[k], m)
      /\ \/ up'[k] = up[k]
         \/ readyState[k] = "OPEN" /\ \E m \in Signal : up'[k] = Append(up[k], m)
      /\ In(d, s)' =>
           /\ In(d, s) /\ readyState'[k] = readyState[k] /\ said'[d] = said[d]
           /\ \/ chat'[d].sessionKey = chat[d].sessionKey
              \/ readyState[k] \notin {"NONE", "CONNECTING"}

QuietListener(e, s) ==
  LET l == <<e, s>> IN
  /\ \/ readyState'[l] = readyState[l]
     \/ readyState'[l] \in Gone
     \/ readyState[l] = "CONNECTING" /\ readyState'[l] = "OPEN"
  /\ l \in joined' => l \in joined \/ readyState'[l] # "NONE"
  /\ l \in joined => l \in joined' \/ readyState'[l] \in Gone
  /\ \/ down'[l] = down[l]
     \/ /\ down[l] # <<>> /\ down'[l] = Tail(down[l])
        /\ Head(down[l]).type # "msg" \/ ~In(e, s)'
     \/ down'[l] = <<>> /\ readyState'[l] \in Gone
  /\ In(e, s)' =>
       /\ In(e, s) /\ readyState'[l] \notin {"CLOSING", "CLOSED"}
       /\ readyState[l] = "LOST" => readyState'[l] = "LOST"
       /\ chat'[e].heard = chat[e].heard
       /\ chat'[e].sessionKey = chat[e].sessionKey \/ chat'[e].sessionKey # {}

\* What Typed says of the queues, as plain messages.
LEMMA TypedQueues ==
  ASSUME NEW s \in Session, NEW d \in Parties(s), Typed(d, s)
  PROVE  /\ pendingMessages[<<d, s>>] \in Seq(Message)
         /\ up[<<d, s>>] \in Seq(Message)
         /\ down[<<Other(d, s), s>>] \in Seq(Message)
<1>1. Spoken(d, s) \subseteq Message
  BY DEF Spoken
<1> QED
  BY <1>1, SeqMonotonic DEF Typed

LEMMA QuietTyped ==
  ASSUME NEW s \in Session, NEW d \in Parties(s), Typed(d, s),
         QuietSpeaker(d, s), QuietListener(Other(d, s), s)
  PROVE  Typed(d, s)'
<1> DEFINE T == Spoken(d, s)
           k == <<d, s>>
           l == <<Other(d, s), s>>
<1>1. pendingMessages[k] \in Seq(T) /\ up[k] \in Seq(T) /\ down[l] \in Seq(T)
  BY DEF Typed
<1>2. /\ \/ pendingMessages'[k] = pendingMessages[k]
         \/ \E m \in T : pendingMessages'[k] = Append(pendingMessages[k], m)
      /\ \/ up'[k] = up[k]
         \/ \E m \in T : up'[k] = Append(up[k], m)
  BY DEF QuietSpeaker
<1>3. \/ down'[l] = down[l]
      \/ down[l] # <<>> /\ down'[l] = Tail(down[l])
      \/ down'[l] = <<>>
  BY DEF QuietListener
<1> HIDE DEF T, k, l
<1>a. \A q \in Seq(T), m \in T : Append(q, m) \in Seq(T)
  BY AppendProperties
<1>4. pendingMessages'[k] \in Seq(T)
  BY <1>1, <1>2, <1>a
<1>5. up'[k] \in Seq(T)
  BY <1>1, <1>2, <1>a
<1>6. down'[l] \in Seq(T)
  BY <1>1, <1>3, HeadTailProperties, EmptySeq
<1> QED
  BY <1>4, <1>5, <1>6 DEF Typed, T, k, l

LEMMA QuietSilent ==
  ASSUME NEW s \in Session, NEW d \in Parties(s), Typed(d, s), Silent(d, s),
         QuietSpeaker(d, s), QuietListener(Other(d, s), s)
  PROVE  Silent(d, s)'
<1> DEFINE k == <<d, s>>
           e == Other(d, s)
           l == <<e, s>>
<1> SUFFICES ASSUME readyState'[k] \in {"NONE", "CONNECTING"}
             PROVE  /\ up'[k] = <<>>
                    /\ NoText(pendingMessages'[k]) /\ NoText(down'[l])
                    /\ In(d, s)' => chat'[d].sessionKey = {}
                    /\ In(e, s)' => chat'[e].heard = <<>>
  BY DEF Silent
<1>1. readyState'[k] = readyState[k]
  BY DEF QuietSpeaker
<1>2. /\ up[k] = <<>> /\ NoText(pendingMessages[k]) /\ NoText(down[l])
      /\ In(d, s) => chat[d].sessionKey = {}
      /\ In(e, s) => chat[e].heard = <<>>
  BY <1>1 DEF Silent
<1>3. pendingMessages[k] \in Seq(Message) /\ down[l] \in Seq(Message)
  BY TypedQueues
<1>4. up'[k] = <<>>
  BY <1>1, <1>2 DEF QuietSpeaker
<1>5. NoText(pendingMessages'[k])
  <2>1. CASE pendingMessages'[k] = pendingMessages[k]
    BY <1>2, <2>1
  <2>2. CASE pendingMessages'[k] # pendingMessages[k]
    <3>1. PICK m \in Spoken(d, s) :
            m.type # "msg" /\ pendingMessages'[k] = Append(pendingMessages[k], m)
      BY <2>2 DEF QuietSpeaker
    <3>2. m \in Message /\ 0 \in Nat
      BY DEF Spoken
    <3> QED
      BY <1>2, <1>3, <3>1, <3>2, AppendOther
  <2> QED
    BY <2>1, <2>2
<1>6. NoText(down'[l])
  <2>1. down'[l] \in {down[l], <<>>} \/ (down[l] # <<>> /\ down'[l] = Tail(down[l]))
    BY DEF QuietListener
  <2>2. NoText(<<>>)
    BY EmptyRun
  <2> HIDE DEF l
  <2> QED
    BY <1>2, <1>3, <2>1, <2>2, TailSilent
<1>7. In(d, s)' => chat'[d].sessionKey = {}
  BY <1>1, <1>2 DEF QuietSpeaker
<1>8. In(e, s)' => chat'[e].heard = <<>>
  BY <1>2 DEF QuietListener
<1> QED
  BY <1>4, <1>5, <1>6, <1>7, <1>8

LEMMA QuietListens ==
  ASSUME NEW s \in Session, NEW e \in Parties(s), Listener(e, s), QuietListener(e, s)
  PROVE  Listener(e, s)'
<1> DEFINE l == <<e, s>>
<1>1. /\ readyState[l] = "NONE" => l \notin joined
      /\ readyState[l] \in {"NONE", "CONNECTING", "OPEN"} /\ l \notin joined =>
           down[l] = <<>>
  BY DEF Listener
<1>2. readyState'[l] = "NONE" => l \notin joined'
  BY <1>1 DEF QuietListener, Gone
<1>3. ASSUME readyState'[l] \in {"NONE", "CONNECTING", "OPEN"}, l \notin joined'
      PROVE  down'[l] = <<>>
  <2>1. readyState'[l] \notin Gone
    BY <1>3 DEF Gone
  <2>2. l \notin joined /\ readyState[l] \in {"NONE", "CONNECTING", "OPEN"}
    BY <1>3, <2>1 DEF QuietListener
  <2>3. down[l] = <<>>
    BY <1>1, <2>2
  <2> QED
    BY <2>1, <2>3 DEF QuietListener
<1>4. ASSUME In(e, s)'
      PROVE  /\ readyState'[l] \in {"CONNECTING", "OPEN", "LOST"}
             /\ l \notin joined' /\ readyState'[l] # "LOST" => chat'[e].heard = <<>>
             /\ chat'[e].sessionKey = {} => chat'[e].heard = <<>>
             /\ Consecutive(chat'[e].heard, Other(e, s), s)
  <2>1. /\ In(e, s) /\ readyState'[l] \notin {"CLOSING", "CLOSED"}
        /\ readyState[l] = "LOST" => readyState'[l] = "LOST"
        /\ chat'[e].heard = chat[e].heard
        /\ chat'[e].sessionKey = chat[e].sessionKey \/ chat'[e].sessionKey # {}
    BY <1>4 DEF QuietListener
  <2>2. /\ readyState[l] \in {"CONNECTING", "OPEN", "LOST"}
        /\ l \notin joined /\ readyState[l] # "LOST" => chat[e].heard = <<>>
        /\ chat[e].sessionKey = {} => chat[e].heard = <<>>
        /\ Consecutive(chat[e].heard, Other(e, s), s)
    BY <2>1 DEF Listener
  <2>3. readyState'[l] \in {"CONNECTING", "OPEN", "LOST"}
    BY <2>1, <2>2 DEF QuietListener, Gone
  <2>4. l \notin joined' /\ readyState'[l] # "LOST" => l \notin joined
    BY <2>3 DEF QuietListener, Gone
  <2> QED
    BY <2>1, <2>2, <2>3, <2>4
<1> QED
  BY <1>2, <1>3, <1>4 DEF Listener

\* A socket of e that is open in its screen was not broken before.
LEMMA QuietListening ==
  ASSUME NEW e, NEW s, QuietListener(e, s), Listening(e, s)'
  PROVE  /\ Listening(e, s) /\ readyState'[<<e, s>>] \notin Gone
         /\ chat'[e].heard = chat[e].heard
  BY DEF QuietListener, Listening, Gone

\* The downstream half of the stages.
LEMMA QuietDown ==
  ASSUME NEW s \in Session, NEW d \in Parties(s), Typed(d, s),
         QuietListener(Other(d, s), s),
         NEW a \in Nat, NEW b \in Nat, NEW c \in Nat, Stages(d, s, a, b, c),
         Listening(Other(d, s), s)'
  PROVE  LET e == Other(d, s) IN
         /\ Run(down'[<<e, s>>], a, b)
         /\ chat'[e].heard # <<>> => chat'[e].heard[Len(chat'[e].heard)].n = a
<1> DEFINE e == Other(d, s)
           l == <<e, s>>
<1>1. /\ Listening(e, s) /\ readyState'[l] \notin Gone
      /\ chat'[e].heard = chat[e].heard
  BY QuietListening
<1>2. /\ Run(down[l], a, b)
      /\ chat[e].heard # <<>> => chat[e].heard[Len(chat[e].heard)].n = a
  BY <1>1 DEF Stages
<1>3. /\ down[l] \in Seq(Message)
      /\ \/ down'[l] = down[l]
         \/ down[l] # <<>> /\ down'[l] = Tail(down[l]) /\ Head(down[l]).type # "msg"
  BY <1>1, TypedQueues DEF QuietListener, Listening
<1> HIDE DEF l
<1>4. Run(down'[l], a, b)
  BY <1>2, <1>3, TailOther
<1> QED
  BY <1>1, <1>2, <1>4 DEF l

\* The upstream half.
LEMMA QuietUp ==
  ASSUME NEW s \in Session, NEW d \in Parties(s), Typed(d, s), QuietSpeaker(d, s),
         NEW a \in Nat, NEW b \in Nat, NEW c \in Nat, Stages(d, s, a, b, c)
  PROVE  /\ Run(up'[<<d, s>>], b, c)
         /\ Speaking(d, s)' => c = said'[d]
<1> DEFINE k == <<d, s>>
<1>1. Run(up[k], b, c) /\ (Speaking(d, s) => c = said[d])
  BY DEF Stages
<1>2. up[k] \in Seq(Message)
  BY TypedQueues
<1>3. up'[k] = up[k] \/ \E m \in Spoken(d, s) : m.type # "msg" /\ up'[k] = Append(up[k], m)
  BY DEF QuietSpeaker
<1>4. Spoken(d, s) \subseteq Message
  BY DEF Spoken
<1> HIDE DEF k
<1>5. Run(up'[k], b, c)
  BY <1>1, <1>2, <1>3, <1>4, AppendOther
<1> USE DEF k
<1>6. Speaking(d, s)' => Speaking(d, s) /\ said'[d] = said[d]
  BY DEF QuietSpeaker, Speaking
<1> QED
  BY <1>1, <1>5, <1>6

LEMMA Numbers == 0..MaxSaid \subseteq Nat
  BY MaxSaidAssumption

\* A channel on which no text moves.
LEMMA QuietChannel ==
  ASSUME NEW s \in Session, NEW d \in Parties(s), Channel(d, s),
         QuietSpeaker(d, s), QuietListener(Other(d, s), s)
  PROVE  Channel(d, s)'
<1> DEFINE e == Other(d, s)
<1>1. Typed(d, s) /\ Silent(d, s) /\ Listener(e, s) /\ Flow(d, s)
  BY DEF Channel
<1>2. Typed(d, s)' /\ Silent(d, s)'
  BY <1>1, QuietTyped, QuietSilent
<1>3. Listener(e, s)'
  BY <1>1, QuietListens, OtherParty
<1>4. PICK a \in 0..MaxSaid, b \in 0..MaxSaid, c \in 0..MaxSaid : Stages(d, s, a, b, c)
  BY <1>1 DEF Flow
<1>5. a \in Nat /\ b \in Nat /\ c \in Nat
  BY Numbers
<1>6. Stages(d, s, a, b, c)'
  <2>1. a <= b /\ b <= c
    BY <1>4 DEF Stages
  <2>2. Run(up'[<<d, s>>], b, c) /\ (Speaking(d, s)' => c = said'[d])
    BY <1>1, <1>4, <1>5, QuietUp
  <2>3. Listening(e, s)' =>
          /\ Run(down'[<<e, s>>], a, b)
          /\ chat'[e].heard # <<>> => chat'[e].heard[Len(chat'[e].heard)].n = a
    BY <1>1, <1>4, <1>5, QuietDown
  <2> QED
    BY <2>1, <2>2, <2>3 DEF Stages
<1> QED
  BY <1>2, <1>3, <1>6 DEF Channel, Flow

-----------------------------------------------------------------------------
(***************************************************************************)
(* The steps that open or break a channel, or move a text along it.        *)
(***************************************************************************)
\* A state of a channel, from its parts.
LEMMA ChannelBy ==
  ASSUME NEW s \in Session, NEW d \in Parties(s),
         NEW a \in 0..MaxSaid, NEW b \in 0..MaxSaid, NEW c \in 0..MaxSaid,
         Typed(d, s)', Silent(d, s)', Listener(Other(d, s), s)', Stages(d, s, a, b, c)'
  PROVE  Channel(d, s)'
  BY DEF Channel, Flow

\* The screen of d mounts: nothing of d was under way.
LEMMA SpeakerEnters ==
  ASSUME NEW s \in Session, NEW d \in Parties(s), Channel(d, s),
         readyState[<<d, s>>] = "NONE", readyState'[<<d, s>>] = "CONNECTING",
         chat'[d].sessionKey = {},
         UNCHANGED <<pendingMessages, up>>,
         UNCHANGED <<down, joined, chat[Other(d, s)], readyState[<<Other(d, s), s>>]>>
  PROVE  Channel(d, s)'
<1> DEFINE e == Other(d, s)
<1>1. Typed(d, s) /\ Silent(d, s) /\ Listener(e, s) /\ Flow(d, s)
  BY DEF Channel
<1>2. Typed(d, s)'
  BY <1>1 DEF Typed
<1>3. Silent(d, s)'
  BY <1>1 DEF Silent, In
<1>4. Listener(e, s)'
  BY <1>1 DEF Listener, In
<1>5. PICK a \in 0..MaxSaid, b \in 0..MaxSaid, c \in 0..MaxSaid : Stages(d, s, a, b, c)
  BY <1>1 DEF Flow
<1>6. ~Speaking(d, s)' /\ (Listening(e, s)' <=> Listening(e, s))
  BY DEF Speaking, Listening, In
<1>7. Stages(d, s, a, b, c)'
  BY <1>5, <1>6 DEF Stages
<1> QED
  BY <1>2, <1>3, <1>4, <1>7, ChannelBy

\* The screen of the other party mounts: it has heard nothing.
LEMMA ListenerEnters ==
  ASSUME NEW s \in Session, NEW d \in Parties(s), Channel(d, s),
         readyState[<<Other(d, s), s>>] = "NONE",
         readyState'[<<Other(d, s), s>>] = "CONNECTING",
         chat'[Other(d, s)].heard = <<>>,
         UNCHANGED <<pendingMessages, up, down, joined>>,
         UNCHANGED <<chat[d], said[d], readyState[<<d, s>>]>>
  PROVE  Channel(d, s)'
<1> DEFINE e == Other(d, s)
<1>1. Typed(d, s) /\ Silent(d, s) /\ Listener(e, s) /\ Flow(d, s)
  BY DEF Channel
<1>2. Typed(d, s)'
  BY <1>1 DEF Typed
<1>3. Silent(d, s)'
  BY <1>1 DEF Silent, In
<1>4. <<e, s>> \notin joined /\ down[<<e, s>>] = <<>>
  BY <1>1 DEF Listener
<1>5. Consecutive(<<>>, Other(e, s), s)
  BY DEF Consecutive
<1>6. Listener(e, s)'
  BY <1>4, <1>5 DEF Listener, In
<1>7. PICK a \in 0..MaxSaid, b \in 0..MaxSaid, c \in 0..MaxSaid : Stages(d, s, a, b, c)
  BY <1>1 DEF Flow
<1>8. Run(<<>>, b, b) /\ b <= b
  BY EmptyRun, Numbers
<1>9. Stages(d, s, b, b, c)'
  BY <1>4, <1>7, <1>8 DEF Stages, Speaking, Listening, In
<1> QED
  BY <1>2, <1>3, <1>6, <1>9, ChannelBy

\* The socket of d opens: what was queued holds no text.
LEMMA SpeakerOpens ==
  ASSUME ScreenTypeOK, NEW s \in Session, NEW d \in Parties(s), Channel(d, s),
         ClientOpened(<<d, s>>), UNCHANGED <<joined, chat, said>>
  PROVE  Channel(d, s)'
<1> DEFINE e == Other(d, s)
           k == <<d, s>>
           l == <<e, s>>
           n == said[d]
<1>1. Typed(d, s) /\ Silent(d, s) /\ Listener(e, s)
  BY DEF Channel
<1>2. /\ d \in Device /\ k \in Client /\ l \in Client /\ k # l
      /\ said[d] \in 0..MaxSaid
      /\ readyState \in [Client -> ReadyState]
      /\ up \in [Client -> Seq(Message)] /\ pendingMessages \in [Client -> Seq(Message)]
  BY OtherParty DEF Client, ScreenTypeOK, TransportTypeOK
<1>3. /\ readyState[k] = "CONNECTING" /\ readyState'[k] = "OPEN"
      /\ readyState'[l] = readyState[l] /\ down' = down
      /\ up'[k] = up[k] \o pendingMessages[k] /\ pendingMessages'[k] = <<>>
  BY <1>2 DEF ClientOpened
<1>4. /\ up[k] = <<>> /\ NoText(pendingMessages[k]) /\ NoText(down[l])
      /\ In(e, s) => chat[e].heard = <<>>
  BY <1>1, <1>3 DEF Silent
<1>5. up'[k] = pendingMessages[k]
  BY <1>2, <1>3, <1>4
<1>6. Typed(d, s)'
  BY <1>1, <1>3, <1>5, EmptySeq DEF Typed
<1>7. Silent(d, s)'
  BY <1>3 DEF Silent
<1>8. Listener(e, s)'
  BY <1>1, <1>3 DEF Listener, In
<1>9. Run(pendingMessages[k], n, n) /\ Run(down[l], n, n) /\ n <= n
  BY <1>1, <1>2, <1>4, TypedQueues, RunNone, Numbers
<1>10. Stages(d, s, n, n, n)'
  BY <1>3, <1>4, <1>5, <1>9 DEF Stages, Listening, In
<1> QED
  BY <1>2, <1>6, <1>7, <1>8, <1>10, ChannelBy

\* The socket of d breaks: what it had not yet handed over is lost.
LEMMA SpeakerLost ==
  ASSUME ScreenTypeOK, NEW s \in Session, NEW d \in Parties(s), Channel(d, s),
         ClientLost(<<d, s>>), UNCHANGED <<joined, chat, said>>
  PROVE  Channel(d, s)'
<1> DEFINE e == Other(d, s)
           k == <<d, s>>
           l == <<e, s>>
<1>1. Typed(d, s) /\ Listener(e, s) /\ Flow(d, s)
  BY DEF Channel
<1>2. /\ k \in Client /\ l \in Client /\ k # l
      /\ readyState \in [Client -> ReadyState]
      /\ up \in [Client -> Seq(Message)] /\ down \in [Client -> Seq(Message)]
  BY OtherParty DEF Client, ScreenTypeOK, TransportTypeOK
<1>3. /\ readyState'[k] = "LOST" /\ readyState'[l] = readyState[l]
      /\ down'[l] = down[l] /\ up'[k] = <<>> /\ pendingMessages' = pendingMessages
  BY <1>2 DEF ClientLost
<1>4. Typed(d, s)'
  BY <1>1, <1>3, EmptySeq DEF Typed
<1>5. Silent(d, s)'
  BY <1>3 DEF Silent
<1>6. Listener(e, s)'
  BY <1>1, <1>3 DEF Listener, In
<1>7. PICK a \in 0..MaxSaid, b \in 0..MaxSaid, c \in 0..MaxSaid : Stages(d, s, a, b, c)
  BY <1>1 DEF Flow
<1>8. Run(<<>>, b, b) /\ b <= b
  BY EmptyRun, Numbers
<1>9. Stages(d, s, a, b, b)'
  BY <1>3, <1>7, <1>8 DEF Stages, Speaking, Listening, In
<1> QED
  BY <1>4, <1>5, <1>6, <1>9, ChannelBy

\* d says something: the text is next after the last it has sent.
LEMMA SpeakerSays ==
  ASSUME ScreenTypeOK, ConsentInv, NEW s \in Session, NEW d \in Parties(s), Channel(d, s),
         Say(d), chat[d].session = s
  PROVE  Channel(d, s)'
<1> DEFINE e == Other(d, s)
           k == <<d, s>>
           l == <<e, s>>
           m == [type |-> "msg", box |-> chat[d].sessionKey,
                 body |-> [from |-> d, session |-> s, n |-> said[d] + 1]]
<1>1. Typed(d, s) /\ Silent(d, s) /\ Listener(e, s) /\ Flow(d, s)
  BY DEF Channel
<1>2. /\ d \in Device /\ e \in Device /\ k \in Client /\ l \in Client /\ k # l
      /\ said \in [Device -> 0..MaxSaid] /\ said[d] < MaxSaid
      /\ up \in [Client -> Seq(Message)] /\ pendingMessages \in [Client -> Seq(Message)]
      /\ chat[d].sessionKey # {} /\ chat[d].session # None
  BY OtherParty DEF Client, ScreenTypeOK, TransportTypeOK, Say
<1>3. /\ chat[d].sessionKey = {<<d, s>>, <<e, s>>} /\ Current(d) = k
  BY <1>2, ActiveScreen, MountedBacked
<1>4. ClientSend(k, m) /\ said'[d] = said[d] + 1 /\ UNCHANGED <<chat, joined>>
  BY <1>2, <1>3 DEF Say
<1>5. said[d] \in Nat /\ said[d] + 1 \in 1..MaxSaid /\ said[d] + 1 \in 0..MaxSaid
  BY <1>2, MaxSaidAssumption
<1>6. m \in Message /\ m.type = "msg" /\ m.body.n = said[d] + 1
  BY <1>2, <1>3, <1>5 DEF Message, Body, Key
<1>7. m \in Spoken(d, s)
  BY <1>3, <1>6 DEF Spoken
<1> HIDE DEF m
<1>8. UNCHANGED <<down, readyState>>
  BY <1>4 DEF ClientSend
<1>9. readyState[k] \notin {"NONE", "CONNECTING"}
  BY <1>1, <1>2 DEF Silent, In
<1>10. Silent(d, s)' /\ Listener(e, s)'
  BY <1>1, <1>4, <1>8, <1>9 DEF Silent, Listener, In
<1>11. PICK a \in 0..MaxSaid, b \in 0..MaxSaid, c \in 0..MaxSaid : Stages(d, s, a, b, c)
  BY <1>1 DEF Flow
<1>12. CASE readyState[k] = "OPEN"
  <2>1. up'[k] = Append(up[k], m) /\ pendingMessages' = pendingMessages
    BY <1>2, <1>4, <1>12 DEF ClientSend
  <2>2. Typed(d, s)'
    BY <1>1, <1>7, <1>8, <2>1, AppendProperties DEF Typed
  <2>3. c = said[d] /\ Run(up[k], b, c) /\ a <= b /\ b <= c
    BY <1>11, <1>12 DEF Stages, Speaking, In
  <2>4. PICK n \in 0..MaxSaid : n = said[d] + 1
    BY <1>5
  <2>5. Run(Append(up[k], m), b, n) /\ b <= n
    BY <1>2, <1>5, <1>6, <2>3, <2>4, Numbers, AppendText
  <2>6. Stages(d, s, a, b, n)'
    BY <1>4, <1>8, <1>11, <2>1, <2>3, <2>4, <2>5 DEF Stages, Listening, In
  <2> QED
    BY <1>10, <2>2, <2>6, ChannelBy
<1>13. CASE readyState[k] # "OPEN"
  <2>1. pendingMessages'[k] = Append(pendingMessages[k], m) /\ up' = up
    BY <1>2, <1>4, <1>13 DEF ClientSend
  <2>2. Typed(d, s)'
    BY <1>1, <1>7, <1>8, <2>1, AppendProperties DEF Typed
  <2>3. Stages(d, s, a, b, c)'
    BY <1>4, <1>8, <1>11, <1>13, <2>1 DEF Stages, Speaking, Listening, In
  <2> QED
    BY <1>10, <2>2, <2>3, ChannelBy
<1> QED
  BY <1>12, <1>13

\* The relay takes the next frame of d and passes it on, if it can.
LEMMA SpeakerForwarded ==
  ASSUME ScreenTypeOK, NEW s \in Session, NEW d \in Parties(s), Channel(d, s),
         RelayForward(<<d, s>>), UNCHANGED <<chat, said>>
  PROVE  Channel(d, s)'
<1> DEFINE e == Other(d, s)
           k == <<d, s>>
           l == <<e, s>>
           m == Head(up[k])
           deliver == l \in joined /\ Reachable(l)
<1>1. Typed(d, s) /\ Silent(d, s) /\ Listener(e, s) /\ Flow(d, s)
  BY DEF Channel
<1>2. /\ k \in Client /\ l \in Client /\ k # l /\ e # d
      /\ readyState \in [Client -> ReadyState]
      /\ up \in [Client -> Seq(Message)] /\ down \in [Client -> Seq(Message)]
  BY OtherParty DEF Client, ScreenTypeOK, TransportTypeOK
<1>3. /\ up[k] # <<>> /\ up'[k] = Tail(up[k])
      /\ UNCHANGED <<readyState, pendingMessages>>
  BY <1>2 DEF RelayForward
<1>4. /\ deliver => down'[l] = Append(down[l], m) /\ l \in joined'
      /\ ~deliver => down'[l] = down[l]
      /\ l \in joined' => l \in joined
      /\ l \in joined => l \in joined' \/ ~Reachable(l)
  BY <1>2 DEF RelayForward, PeersOf
<1>5. m \in Spoken(d, s) /\ Tail(up[k]) \in Seq(Spoken(d, s)) /\ m \in Message
  <2>1. up[k] \in Seq(Spoken(d, s))
    BY <1>1 DEF Typed
  <2>2. m \in Spoken(d, s) /\ Tail(up[k]) \in Seq(Spoken(d, s))
    BY <1>3, <2>1, HeadTailProperties
  <2> QED
    BY <2>2 DEF Spoken
<1> HIDE DEF m
<1>6. Typed(d, s)'
  <2>1. down[l] \in Seq(Spoken(d, s))
    BY <1>1 DEF Typed
  <2>2. Append(down[l], m) \in Seq(Spoken(d, s))
    BY <1>5, <2>1, AppendProperties
  <2>3. down'[l] \in Seq(Spoken(d, s))
    BY <1>4, <2>1, <2>2
  <2> QED
    BY <1>1, <1>3, <1>5, <2>3 DEF Typed
<1>7. Silent(d, s)'
  BY <1>1, <1>3 DEF Silent
<1>8. /\ readyState[l] = "NONE" => l \notin joined
      /\ readyState[l] \in {"NONE", "CONNECTING", "OPEN"} /\ l \notin joined => down[l] = <<>>
      /\ In(e, s) =>
           /\ readyState[l] \in {"CONNECTING", "OPEN", "LOST"}
           /\ l \notin joined /\ readyState[l] # "LOST" => chat[e].heard = <<>>
           /\ chat[e].sessionKey = {} => chat[e].heard = <<>>
           /\ Consecutive(chat[e].heard, Other(e, s), s)
  BY <1>1 DEF Listener
<1>9. readyState[l] \in {"CONNECTING", "OPEN"} => Reachable(l)
  BY DEF Reachable
<1>10. readyState[l] \in {"NONE", "CONNECTING", "OPEN"} /\ l \notin joined' =>
         l \notin joined /\ down'[l] = <<>>
  BY <1>4, <1>8, <1>9
<1>11. Listener(e, s)'
  BY <1>3, <1>4, <1>8, <1>9, <1>10 DEF Listener, In
<1>12. PICK a \in 0..MaxSaid, b \in 0..MaxSaid, c \in 0..MaxSaid : Stages(d, s, a, b, c)
  BY <1>1 DEF Flow
<1>13. /\ a \in Nat /\ b \in Nat /\ c \in Nat /\ a <= b /\ b <= c
       /\ Run(up[k], b, c) /\ (Speaking(d, s) => c = said[d])
       /\ Listening(e, s) =>
            /\ Run(down[l], a, b)
            /\ chat[e].heard # <<>> => chat[e].heard[Len(chat[e].heard)].n = a
  BY <1>12, Numbers DEF Stages
<1>14. (Speaking(d, s)' <=> Speaking(d, s)) /\ (Listening(e, s)' <=> Listening(e, s))
  BY <1>3 DEF Speaking, Listening, In
<1>15. up[k] \in Seq(Message) /\ down[l] \in Seq(Message)
  BY <1>2
<1>16. CASE m.type # "msg"
  <2>1. Run(Tail(up[k]), b, c)
    BY <1>3, <1>13, <1>15, <1>16, TailOther DEF m
  <2>2. Listening(e, s) => Run(down'[l], a, b)
    <3>1. CASE deliver
      BY <1>4, <1>5, <1>13, <1>15, <1>16, <3>1, AppendOther
    <3>2. CASE ~deliver
      BY <1>4, <1>13, <3>2
    <3> QED
      BY <3>1, <3>2
  <2>3. Stages(d, s, a, b, c)'
    BY <1>3, <1>13, <1>14, <2>1, <2>2 DEF Stages
  <2> QED
    BY <1>6, <1>7, <1>11, <2>3, ChannelBy
<1>17. CASE m.type = "msg"
  <2>1. b + 1 <= c /\ m.body.n = b + 1 /\ Run(Tail(up[k]), b + 1, c)
    BY <1>3, <1>13, <1>15, <1>17, TailText DEF m
  <2>2. PICK n \in 0..MaxSaid : n = b + 1
    BY <1>13, <2>1, MaxSaidAssumption
  <2>3. n \in Nat /\ n <= c /\ Run(Tail(up[k]), n, c) /\ b <= n /\ n <= n
    BY <1>13, <2>1, <2>2
  <2>4. CASE deliver
    <3>1. Listening(e, s) => Run(down'[l], a, n)
      BY <1>4, <1>5, <1>13, <1>15, <1>17, <2>1, <2>2, <2>4, AppendText
    <3>2. a <= n
      BY <1>13, <2>2
    <3>3. Stages(d, s, a, n, c)'
      BY <1>3, <1>13, <1>14, <2>3, <3>1, <3>2 DEF Stages
    <3> QED
      BY <1>6, <1>7, <1>11, <3>3, ChannelBy
  <2>5. CASE ~deliver
    <3>1. Listening(e, s) => chat[e].heard = <<>> /\ down'[l] = <<>>
      BY <1>4, <1>8, <1>9, <2>5 DEF Listening
    <3>2. Run(<<>>, n, n)
      BY <2>3, EmptyRun
    <3>3. Stages(d, s, n, n, c)'
      BY <1>3, <1>13, <1>14, <2>3, <3>1, <3>2 DEF Stages
    <3> QED
      BY <1>6, <1>7, <1>11, <3>3, ChannelBy
  <2> QED
    BY <2>4, <2>5
<1> QED
  BY <1>16, <1>17

\* A text of d arrives: it is next after the last one shown.
LEMMA TextArrives ==
  ASSUME ScreenTypeOK, ConsentInv, NEW s \in Session, NEW d \in Parties(s), Channel(d, s),
         ReceiveMsg(Other(d, s), s)
  PROVE  Channel(d, s)'
<1> DEFINE e == Other(d, s)
           k == <<d, s>>
           l == <<e, s>>
           m == Head(down[l])
           h == chat[e].heard
           o == chat[e].sessionKey = m.box
           r == [chat[e] EXCEPT !.heard = IF o THEN Append(@, m.body) ELSE @]
<1>1. Typed(d, s) /\ Silent(d, s) /\ Listener(e, s) /\ Flow(d, s)
  BY DEF Channel
<1>2. /\ d \in Device /\ e \in Device /\ Other(e, s) = d
      /\ k \in Client /\ l \in Client /\ k # l /\ e # d
      /\ down \in [Client -> Seq(Message)]
      /\ chat \in [Device -> Screen]
  BY OtherParty DEF Client, ScreenTypeOK, TransportTypeOK
<1>3. Receive(e, s, "msg") /\ said' = said /\ chat' = [chat EXCEPT ![e] = r]
  BY DEF ReceiveMsg
<1>4. m \in Message /\ m.type = "msg" /\ Mounted(e)
  BY <1>2, <1>3, ReceiveType
<1>5. /\ readyState[l] \in {"OPEN", "CLOSING"} /\ down[l] # <<>>
      /\ down'[l] = Tail(down[l])
      /\ UNCHANGED <<readyState, pendingMessages, up, joined>>
      /\ s \in chat[e].runs
  BY <1>2, <1>3 DEF Receive, Arrives, ClientReceive
<1>6. chat[e].session = s /\ chat[e].sessionKey \in {{}, {<<d, s>>, <<e, s>>}}
  <2>1. chat[e].session = s
    BY <1>2, <1>4, <1>5, MountedBacked
  <2>2. chat[e].sessionKey \in {{}, {<<e, s>>, <<Other(e, s), s>>}}
    BY <1>2, <1>4, <2>1, MountedBacked
  <2>3. {<<e, s>>, <<Other(e, s), s>>} = {<<d, s>>, <<e, s>>}
    BY <1>2
  <2> HIDE DEF e
  <2> QED
    BY <2>1, <2>2, <2>3
<1>7. /\ chat'[d] = chat[d] /\ chat'[e] = r
      /\ r.session = s /\ r.sessionKey = chat[e].sessionKey
      /\ r.heard = IF o THEN Append(h, m.body) ELSE h
      /\ h \in Seq(Body)
  BY <1>2, <1>3, <1>6 DEF Screen
<1>8. down[l] \in Seq(Spoken(d, s)) /\ down[l] \in Seq(Message)
  BY <1>1, TypedQueues DEF Typed
<1>9. m \in Spoken(d, s) /\ Tail(down[l]) \in Seq(Spoken(d, s))
  BY <1>5, <1>8, HeadTailProperties
<1>10. /\ m.body.from = d /\ m.body.session = s /\ m.box = {<<d, s>>, <<e, s>>}
       /\ m.body \in Body
  BY <1>4, <1>9, TextNumber DEF Spoken
<1>11. /\ readyState[l] = "OPEN"
       /\ l \notin joined /\ readyState[l] # "LOST" => h = <<>>
       /\ chat[e].sessionKey = {} => h = <<>>
       /\ Consecutive(h, d, s)
  BY <1>1, <1>2, <1>5, <1>6 DEF Listener, In
<1>12. l \in joined
  BY <1>1, <1>5, <1>11 DEF Listener
<1>13. Listening(e, s)
  BY <1>6, <1>11 DEF Listening, In
<1>14. PICK a \in 0..MaxSaid, b \in 0..MaxSaid, c \in 0..MaxSaid : Stages(d, s, a, b, c)
  BY <1>1 DEF Flow
<1>15. /\ a \in Nat /\ b \in Nat /\ c \in Nat /\ a <= b /\ b <= c
       /\ Run(up[k], b, c) /\ (Speaking(d, s) => c = said[d])
       /\ Run(down[l], a, b)
       /\ h # <<>> => h[Len(h)].n = a
  BY <1>13, <1>14, Numbers DEF Stages
<1>16. a + 1 <= b /\ m.body.n = a + 1 /\ Run(Tail(down[l]), a + 1, b)
  BY <1>4, <1>5, <1>8, <1>15, TailText
<1>17. PICK n \in 0..MaxSaid : n = a + 1
  BY <1>15, <1>16, MaxSaidAssumption
<1>18. NoText(down[l]) => FALSE
  BY <1>4, <1>5, <1>8, TailSilent
<1> HIDE DEF m, r, h, o
<1>19. Typed(d, s)'
  BY <1>1, <1>5, <1>9 DEF Typed
<1>20. Silent(d, s)'
  BY <1>1, <1>5, <1>18 DEF Silent
<1>21. /\ Consecutive(r.heard, d, s)
       /\ r.heard # <<>> => r.heard[Len(r.heard)].n = n
       /\ r.sessionKey = {} => r.heard = <<>>
  <2>1. CASE o
    <3>1. h # <<>> => m.body.n = h[Len(h)].n + 1
      BY <1>15, <1>16
    <3>2. /\ Consecutive(Append(h, m.body), d, s)
          /\ Append(h, m.body)[Len(Append(h, m.body))] = m.body
      BY <1>7, <1>10, <1>11, <3>1, AppendHeard
    <3>3. chat[e].sessionKey # {}
      BY <1>10, <2>1 DEF o
    <3> QED
      BY <1>7, <1>16, <1>17, <2>1, <3>2, <3>3
  <2>2. CASE ~o
    <3>1. chat[e].sessionKey = {}
      BY <1>6, <1>10, <2>2 DEF o
    <3> QED
      BY <1>7, <1>11, <2>2, <3>1
  <2> QED
    BY <2>1, <2>2
<1>22. Listener(e, s)'
  BY <1>2, <1>5, <1>7, <1>11, <1>12, <1>21 DEF Listener, In
<1>23. /\ Speaking(d, s)' <=> Speaking(d, s)
       /\ n <= b /\ Run(Tail(down[l]), n, b)
  BY <1>5, <1>7, <1>16, <1>17 DEF Speaking, In
<1>24. Stages(d, s, n, b, c)'
  BY <1>3, <1>5, <1>7, <1>15, <1>21, <1>23 DEF Stages
<1> QED
  BY <1>19, <1>20, <1>22, <1>24, ChannelBy

-----------------------------------------------------------------------------
(***************************************************************************)
(* The steps of the system.                                                *)
(***************************************************************************)
\* Steps that send or receive at most something other than a text, and on a
\* screen change neither session nor texts; a key is only ever got.
CalmWires ==
  /\ UNCHANGED <<readyState, joined>>
  /\ \A k \in Client :
       /\ \/ pendingMessages'[k] = pendingMessages[k]
          \/ \E m \in Message :
               m.type # "msg" /\ pendingMessages'[k] = Append(pendingMessages[k], m)
       /\ \/ up'[k] = up[k]
          \/ \E m \in Message :
               m.type # "msg" /\ readyState[k] = "OPEN" /\ up'[k] = Append(up[k], m)
       /\ \/ down'[k] = down[k]
          \/ down[k] # <<>> /\ down'[k] = Tail(down[k]) /\ Head(down[k]).type # "msg"

CalmScreen(x, r) ==
  /\ r.session = chat[x].session /\ r.heard = chat[x].heard
  /\ \/ r.sessionKey = chat[x].sessionKey
     \/ r.sessionKey # {} /\ readyState[Current(x)] \notin {"NONE", "CONNECTING"}

LEMMA CalmText ==
  ASSUME TextInv, CalmWires, said' = said,
         \A x \in Device : CalmScreen(x, chat'[x])
  PROVE  TextInv'
<1> SUFFICES ASSUME NEW s \in Session, NEW d \in Parties(s) PROVE Channel(d, s)'
  BY DEF TextInv
<1> DEFINE e == Other(d, s)
<1>1. d \in Device /\ e \in Device /\ <<d, s>> \in Client /\ <<e, s>> \in Client
  BY OtherParty DEF Client
<1>2. \A m \in Message : m.type # "msg" => m \in Spoken(d, s)
  BY DEF Spoken
<1>3. QuietSpeaker(d, s)
  <2>1. In(d, s)' => /\ In(d, s)
                     /\ \/ chat'[d].sessionKey = chat[d].sessionKey
                        \/ readyState[<<d, s>>] \notin {"NONE", "CONNECTING"}
    BY <1>1 DEF CalmScreen, In, Current
  <2>2. readyState' = readyState
    BY DEF CalmWires
  <2>3. /\ \/ pendingMessages'[<<d, s>>] = pendingMessages[<<d, s>>]
           \/ \E m \in {n \in Spoken(d, s) : n.type # "msg"} :
                pendingMessages'[<<d, s>>] = Append(pendingMessages[<<d, s>>], m)
        /\ \/ up'[<<d, s>>] = up[<<d, s>>]
           \/ /\ readyState[<<d, s>>] = "OPEN"
              /\ \E m \in {n \in Spoken(d, s) : n.type # "msg"} :
                   up'[<<d, s>>] = Append(up[<<d, s>>], m)
    BY <1>1, <1>2 DEF CalmWires
  <2> QED
    BY <2>1, <2>2, <2>3 DEF QuietSpeaker
<1>4. QuietListener(e, s)
  <2>1. In(e, s)' => /\ In(e, s) /\ chat'[e].heard = chat[e].heard
                     /\ chat'[e].sessionKey = chat[e].sessionKey \/ chat'[e].sessionKey # {}
    BY <1>1 DEF CalmScreen, In
  <2>2. In(e, s) => readyState[<<e, s>>] \in {"CONNECTING", "OPEN", "LOST"}
    BY DEF TextInv, Channel, Listener
  <2>3. UNCHANGED <<readyState, joined>>
    BY DEF CalmWires
  <2>4. \/ down'[<<e, s>>] = down[<<e, s>>]
        \/ /\ down[<<e, s>>] # <<>> /\ down'[<<e, s>>] = Tail(down[<<e, s>>])
           /\ Head(down[<<e, s>>]).type # "msg"
    BY <1>1 DEF CalmWires
  <2> QED
    BY <2>1, <2>2, <2>3, <2>4 DEF QuietListener
<1> QED
  BY <1>3, <1>4, QuietChannel DEF TextInv

LEMMA WiresSame ==
  ASSUME UNCHANGED relayVars
  PROVE  CalmWires
  BY DEF CalmWires, relayVars, clientVars

LEMMA WiresSend ==
  ASSUME TransportTypeOK, NEW c \in Client, NEW m \in Message, m.type # "msg",
         ClientSend(c, m), joined' = joined
  PROVE  CalmWires
<1>1. UNCHANGED <<readyState, joined, down>>
  BY DEF ClientSend
<1>2. CASE readyState[c] = "OPEN"
  <2>1. pendingMessages' = pendingMessages /\ up' = [up EXCEPT ![c] = Append(@, m)]
    BY <1>2 DEF ClientSend
  <2>2. \A k \in Client : up'[k] = up[k] \/ (k = c /\ up'[k] = Append(up[k], m))
    BY <2>1 DEF TransportTypeOK
  <2> QED
    BY <1>1, <1>2, <2>1, <2>2 DEF CalmWires
<1>3. CASE readyState[c] # "OPEN"
  <2>1. up' = up /\ pendingMessages' = [pendingMessages EXCEPT ![c] = Append(@, m)]
    BY <1>3 DEF ClientSend
  <2>2. \A k \in Client : \/ pendingMessages'[k] = pendingMessages[k]
                          \/ pendingMessages'[k] = Append(pendingMessages[k], m)
    BY <2>1 DEF TransportTypeOK
  <2> QED
    BY <1>1, <2>1, <2>2 DEF CalmWires
<1> QED
  BY <1>2, <1>3

LEMMA WiresReceive ==
  ASSUME TransportTypeOK, NEW x \in Device, NEW t \in Session, NEW type, type # "msg",
         Receive(x, t, type)
  PROVE  CalmWires
<1>1. /\ UNCHANGED <<readyState, joined, pendingMessages, up>>
      /\ down[<<x, t>>] # <<>> /\ Head(down[<<x, t>>]).type = type
      /\ down' = [down EXCEPT ![<<x, t>>] = Tail(@)]
  BY DEF Receive, Arrives, ClientReceive
<1>2. \A k \in Client : down'[k] = down[k] \/ (k = <<x, t>> /\ down'[k] = Tail(down[k]))
  BY <1>1 DEF TransportTypeOK
<1> QED
  BY <1>1, <1>2 DEF CalmWires

\* One screen changes, calmly.
LEMMA ScreenCalm ==
  ASSUME chat \in [Device -> Screen], NEW d \in Device, NEW r,
         chat' = [chat EXCEPT ![d] = r], CalmScreen(d, r)
  PROVE  \A x \in Device : CalmScreen(x, chat'[x])
  BY DEF CalmScreen

\* The public keys.
LEMMA HandshakeText ==
  ASSUME ScreenTypeOK, ConsentInv, TextInv, NEW d \in Device,
         Reply(d) \/ \E s \in Session : SendPublicKey(d, s) \/ ReceivePubkey(d, s)
  PROVE  TextInv'
<1>0. chat \in [Device -> Screen] /\ TransportTypeOK
  BY DEF ScreenTypeOK
<1>1. CASE Reply(d)
  <2> DEFINE r == [chat[d] EXCEPT !.reply = FALSE]
  <2>1. chat[d].keyPair \in Key /\ Current(d) \in Client
    BY <1>1, ActiveScreen DEF Reply
  <2>2. PubKey(d) \in Message /\ PubKey(d).type # "msg"
    BY <2>1, PubKeyType DEF PubKey
  <2>3. CalmWires
    BY <1>0, <1>1, <2>1, <2>2, WiresSend DEF Reply
  <2>4. chat' = [chat EXCEPT ![d] = r] /\ said' = said
    BY <1>1 DEF Reply
  <2>5. CalmScreen(d, r)
    BY <1>0 DEF Screen, CalmScreen
  <2> HIDE DEF r
  <2> QED
    BY <1>0, <2>3, <2>4, <2>5, ScreenCalm, CalmText
<1>2. ASSUME NEW s \in Session, SendPublicKey(d, s) PROVE TextInv'
  <2> DEFINE r == [chat[d] EXCEPT !.hello = @ \ {s}]
  <2>1. chat[d].keyPair \in Key /\ <<d, s>> \in Client
    BY <1>2, ActiveScreen DEF SendPublicKey, Client
  <2>2. PubKey(d) \in Message /\ PubKey(d).type # "msg"
    BY <2>1, PubKeyType DEF PubKey
  <2>3. CalmWires
    BY <1>0, <1>2, <2>1, <2>2, WiresSend DEF SendPublicKey
  <2>4. chat' = [chat EXCEPT ![d] = r] /\ said' = said
    BY <1>2 DEF SendPublicKey
  <2>5. CalmScreen(d, r)
    BY <1>0 DEF Screen, CalmScreen
  <2> HIDE DEF r
  <2> QED
    BY <1>0, <2>3, <2>4, <2>5, ScreenCalm, CalmText
<1>3. ASSUME NEW s \in Session, ReceivePubkey(d, s) PROVE TextInv'
  <2> DEFINE ev == Head(down[<<d, s>>])
             r == [chat[d] EXCEPT
                     !.sessionKey = SharedKey(chat[d].keyPair, ev.key),
                     !.peerInstagram = IF ev.from \in HasHandle THEN ev.from ELSE @,
                     !.reply = @ \/ chat[d].sessionKey = {}]
  <2>1. Receive(d, s, "pubkey") /\ said' = said
    BY <1>3 DEF ReceivePubkey
  <2>2. Mounted(d) /\ s \in chat[d].runs /\ readyState[<<d, s>>] \in {"OPEN", "CLOSING"}
    BY <2>1, ReceiveType DEF Receive, Arrives, ClientReceive
  <2>3. Current(d) = <<d, s>>
    BY <2>2, MountedBacked
  <2>4. CalmWires
    BY <1>0, <2>1, WiresReceive
  <2>5. chat' = [chat EXCEPT ![d] = r]
    BY <1>3 DEF ReceivePubkey
  <2>6. /\ r.session = chat[d].session /\ r.heard = chat[d].heard
        /\ r.sessionKey = SharedKey(chat[d].keyPair, ev.key)
    BY <1>0 DEF Screen
  <2>7. r.sessionKey # {}
    BY <2>6 DEF SharedKey
  <2> HIDE DEF r
  <2>8. CalmScreen(d, r)
    BY <2>2, <2>3, <2>6, <2>7 DEF CalmScreen
  <2> QED
    BY <1>0, <2>1, <2>4, <2>5, <2>8, ScreenCalm, CalmText
<1> QED
  BY <1>1, <1>2, <1>3

\* "Come Closer": no text is sent and none is shown.
LEMMA DialogueText ==
  ASSUME ScreenTypeOK, ConsentInv, TextInv, NEW d \in Device,
         \/ HandleCloseRequest(d) \/ ConfirmYes(d) \/ ConfirmCancel(d)
         \/ PromptYes(d) \/ PromptNo(d) \/ DismissCloser(d)
         \/ \E s \in Session : \/ ReceiveCloseRequest(d, s) \/ ReceiveCloseAccept(d, s)
                               \/ ReceiveCloseReject(d, s)
  PROVE  TextInv'
<1>0. chat \in [Device -> Screen] /\ TransportTypeOK
  BY DEF ScreenTypeOK
<1>s. ASSUME NEW type \in {"close_request", "close_accept", "close_reject"}, NEW kind,
             Asked(d, kind), ClientSend(Current(d), Control(type)), joined' = joined
      PROVE  CalmWires
  <2>1. Current(d) \in Client
    BY <1>s, ActiveScreen DEF Asked
  <2>2. Control(type) \in Message /\ Control(type).type # "msg"
    BY <1>s, ControlType DEF Control
  <2> QED
    BY <1>0, <1>s, <2>1, <2>2, WiresSend
<1>1. CASE HandleCloseRequest(d)
  <2>1. CalmWires /\ said' = said
    BY <1>1, WiresSame DEF HandleCloseRequest
  <2>2. \A x \in Device : CalmScreen(x, chat'[x])
    BY <1>0, <1>1 DEF HandleCloseRequest, Screen, CalmScreen
  <2> QED
    BY <2>1, <2>2, CalmText
<1>2. CASE ConfirmCancel(d)
  <2>1. CalmWires /\ said' = said
    BY <1>2, WiresSame DEF ConfirmCancel
  <2>2. \A x \in Device : CalmScreen(x, chat'[x])
    BY <1>0, <1>2 DEF ConfirmCancel, Screen, CalmScreen
  <2> QED
    BY <2>1, <2>2, CalmText
<1>3. CASE ConfirmYes(d)
  <2>1. CalmWires /\ said' = said
    BY <1>3, <1>s DEF ConfirmYes
  <2>2. \A x \in Device : CalmScreen(x, chat'[x])
    BY <1>0, <1>3 DEF ConfirmYes, Screen, CalmScreen
  <2> QED
    BY <2>1, <2>2, CalmText
<1>4. CASE PromptYes(d)
  <2>1. CalmWires /\ said' = said
    BY <1>4, <1>s DEF PromptYes
  <2>2. \A x \in Device : CalmScreen(x, chat'[x])
    BY <1>0, <1>4 DEF PromptYes, Screen, CalmScreen
  <2> QED
    BY <2>1, <2>2, CalmText
<1>5. CASE PromptNo(d)
  <2>1. CalmWires /\ said' = said
    BY <1>5, <1>s DEF PromptNo
  <2>2. \A x \in Device : CalmScreen(x, chat'[x])
    BY <1>0, <1>5 DEF PromptNo, Screen, CalmScreen
  <2> QED
    BY <2>1, <2>2, CalmText
<1>6. CASE DismissCloser(d)
  <2>1. CalmWires /\ said' = said
    BY <1>6, WiresSame DEF DismissCloser
  <2>2. \A x \in Device : CalmScreen(x, chat'[x])
    BY <1>0, <1>6 DEF DismissCloser, Screen, CalmScreen
  <2> QED
    BY <2>1, <2>2, CalmText
<1>7. ASSUME NEW s \in Session, ReceiveCloseRequest(d, s) PROVE TextInv'
  <2>1. CalmWires /\ said' = said
    BY <1>0, <1>7, WiresReceive DEF ReceiveCloseRequest
  <2> DEFINE r == [chat[d] EXCEPT
                     !.peerWantsToClose = TRUE,
                     !.showInstagram = @ \/ chat[d].myWantsToClose,
                     !.alerts = IF chat[d].myWantsToClose THEN @
                                ELSE Push(d, "prompt", s)]
  <2>2. chat' = [chat EXCEPT ![d] = r]
    BY <1>7 DEF ReceiveCloseRequest
  <2>3. CalmScreen(d, r)
    BY <1>0 DEF Screen, CalmScreen
  <2> HIDE DEF r
  <2> QED
    BY <1>0, <2>1, <2>2, <2>3, ScreenCalm, CalmText
<1>8. ASSUME NEW s \in Session, ReceiveCloseAccept(d, s) PROVE TextInv'
  <2>1. CalmWires /\ said' = said
    BY <1>0, <1>8, WiresReceive DEF ReceiveCloseAccept
  <2>2. \A x \in Device : CalmScreen(x, chat'[x])
    BY <1>0, <1>8 DEF ReceiveCloseAccept, Screen, CalmScreen
  <2> QED
    BY <2>1, <2>2, CalmText
<1>9. ASSUME NEW s \in Session, ReceiveCloseReject(d, s) PROVE TextInv'
  <2>1. CalmWires /\ said' = said
    BY <1>0, <1>9, WiresReceive DEF ReceiveCloseReject
  <2>2. \A x \in Device : CalmScreen(x, chat'[x])
    BY <1>0, <1>9 DEF ReceiveCloseReject, Screen, CalmScreen
  <2> QED
    BY <2>1, <2>2, CalmText
<1> QED
  BY <1>1, <1>2, <1>3, <1>4, <1>5, <1>6, <1>7, <1>8, <1>9

\* Two channels of which nothing changes, from the one side or the other.
LEMMA SpeakerSame ==
  ASSUME NEW s, NEW d,
         readyState'[<<d, s>>] = readyState[<<d, s>>],
         pendingMessages'[<<d, s>>] = pendingMessages[<<d, s>>],
         up'[<<d, s>>] = up[<<d, s>>],
         In(d, s)' => In(d, s) /\ said'[d] = said[d]
                        /\ chat'[d].sessionKey = chat[d].sessionKey
  PROVE  QuietSpeaker(d, s)
  BY DEF QuietSpeaker

LEMMA ListenerSame ==
  ASSUME NEW s, NEW e, Listener(e, s),
         readyState'[<<e, s>>] = readyState[<<e, s>>],
         <<e, s>> \in joined' <=> <<e, s>> \in joined,
         down'[<<e, s>>] = down[<<e, s>>],
         In(e, s)' => In(e, s) /\ chat'[e].heard = chat[e].heard
                        /\ chat'[e].sessionKey = chat[e].sessionKey
  PROVE  QuietListener(e, s)
<1>1. In(e, s) => readyState[<<e, s>>] \notin {"CLOSING", "CLOSED"}
  BY DEF Listener
<1> QED
  BY <1>1 DEF QuietListener

LEMMA NavigateText ==
  ASSUME ScreenTypeOK, TextInv, NEW x \in Device, NEW t \in Session, Navigate(x, t)
  PROVE  TextInv'
<1> SUFFICES ASSUME NEW s \in Session, NEW d \in Parties(s) PROVE Channel(d, s)'
  BY DEF TextInv
<1> DEFINE e == Other(d, s)
<1>1. /\ d \in Device /\ e \in Device /\ d # e /\ e \in Parties(s)
      /\ <<d, s>> \in Client /\ <<e, s>> \in Client /\ <<x, t>> \in Client
      /\ Channel(d, s) /\ Listener(e, s)
      /\ chat \in [Device -> Screen] /\ readyState \in [Client -> ReadyState]
  BY OtherParty DEF Client, TextInv, Channel, ScreenTypeOK, TransportTypeOK
<1>2. /\ readyState[<<x, t>>] = "NONE" /\ chat[x].session = None
      /\ readyState' = [readyState EXCEPT ![<<x, t>>] = "CONNECTING"]
      /\ chat' = [chat EXCEPT ![x] = FreshScreen(x, t)]
      /\ UNCHANGED <<pendingMessages, up, down, joined, said>>
  BY DEF Navigate
<1>3. /\ FreshScreen(x, t).session = t /\ FreshScreen(x, t).heard = <<>>
      /\ FreshScreen(x, t).sessionKey = {}
  BY DEF FreshScreen, NoScreen
<1>4. CASE x = d /\ t = s
  <2>1. /\ readyState'[<<d, s>>] = "CONNECTING" /\ chat'[d].sessionKey = {}
        /\ UNCHANGED <<chat[e], readyState[<<e, s>>]>>
    BY <1>1, <1>2, <1>3, <1>4
  <2> QED
    BY <1>1, <1>2, <1>4, <2>1, SpeakerEnters
<1>5. CASE x = e /\ t = s
  <2>1. /\ readyState'[<<e, s>>] = "CONNECTING" /\ chat'[e].heard = <<>>
        /\ UNCHANGED <<chat[d], readyState[<<d, s>>]>>
    BY <1>1, <1>2, <1>3, <1>5
  <2> QED
    BY <1>1, <1>2, <1>5, <2>1, ListenerEnters
<1>6. CASE ~(x = d /\ t = s) /\ ~(x = e /\ t = s)
  <2>1. UNCHANGED <<readyState[<<d, s>>], readyState[<<e, s>>]>>
    BY <1>1, <1>2, <1>6
  <2>2. In(d, s)' => chat'[d] = chat[d]
    BY <1>1, <1>2, <1>3, <1>6 DEF In
  <2>3. In(e, s)' => chat'[e] = chat[e]
    BY <1>1, <1>2, <1>3, <1>6 DEF In
  <2>4. QuietSpeaker(d, s)
    BY <1>2, <2>1, <2>2, SpeakerSame DEF In
  <2>5. QuietListener(e, s)
    BY <1>1, <1>2, <2>1, <2>3, ListenerSame DEF In
  <2> QED
    BY <1>1, <2>4, <2>5, QuietChannel
<1> QED
  BY <1>4, <1>5, <1>6

LEMMA GoBackText ==
  ASSUME ScreenTypeOK, TextInv, NEW x \in Device, chat[x].session \in Session, GoBack(x)
  PROVE  TextInv'
<1> SUFFICES ASSUME NEW s \in Session, NEW d \in Parties(s) PROVE Channel(d, s)'
  BY DEF TextInv
<1> DEFINE e == Other(d, s)
           t == chat[x].session
<1>1. /\ d \in Device /\ e \in Device /\ d # e
      /\ <<d, s>> \in Client /\ <<e, s>> \in Client /\ <<x, t>> \in Client
      /\ Channel(d, s) /\ Listener(e, s)
      /\ chat \in [Device -> Screen] /\ readyState \in [Client -> ReadyState]
  BY OtherParty DEF Client, TextInv, Channel, ScreenTypeOK, TransportTypeOK
<1>2. /\ readyState' = AfterClose(readyState, <<x, t>>)
      /\ chat' = [chat EXCEPT ![x] = NoScreen]
      /\ UNCHANGED <<pendingMessages, up, down, joined, said>>
  BY DEF GoBack, Current
<1>3. \A k \in Client :
        \/ readyState'[k] = readyState[k]
        \/ k = <<x, t>> /\ readyState'[k] \in {"CLOSING", "CLOSED"}
  BY <1>1, <1>2 DEF AfterClose, ReadyState
<1>4. ~In(x, s)'
  BY <1>1, <1>2, NoneAssumption DEF In, NoScreen
<1>5. QuietSpeaker(d, s)
  <2>1. \/ readyState'[<<d, s>>] = readyState[<<d, s>>]
        \/ d = x /\ readyState'[<<d, s>>] \in {"CLOSING", "CLOSED"}
    BY <1>1, <1>3
  <2>2. d # x => chat'[d] = chat[d]
    BY <1>1, <1>2
  <2> QED
    BY <1>2, <1>4, <2>1, <2>2 DEF QuietSpeaker, In
<1>6. QuietListener(e, s)
  <2>1. \/ readyState'[<<e, s>>] = readyState[<<e, s>>]
        \/ e = x /\ readyState'[<<e, s>>] \in {"CLOSING", "CLOSED"}
    BY <1>1, <1>3
  <2>2. e # x => chat'[e] = chat[e]
    BY <1>1, <1>2
  <2>3. In(e, s) => readyState[<<e, s>>] \in {"CONNECTING", "OPEN", "LOST"}
    BY <1>1 DEF Listener
  <2> QED
    BY <1>2, <1>4, <2>1, <2>2, <2>3 DEF QuietListener, In, Gone
<1> QED
  BY <1>1, <1>5, <1>6, QuietChannel

LEMMA SayText ==
  ASSUME ScreenTypeOK, ConsentInv, TextInv, NEW x \in Device, Say(x)
  PROVE  TextInv'
<1> SUFFICES ASSUME NEW s \in Session, NEW d \in Parties(s) PROVE Channel(d, s)'
  BY DEF TextInv
<1> DEFINE e == Other(d, s)
<1>1. /\ d \in Device /\ <<d, s>> \in Client /\ Channel(d, s) /\ Listener(e, s)
      /\ said \in [Device -> 0..MaxSaid]
      /\ up \in [Client -> Seq(Message)] /\ pendingMessages \in [Client -> Seq(Message)]
  BY OtherParty DEF Client, TextInv, Channel, ScreenTypeOK, TransportTypeOK
<1>2. CASE x = d /\ chat[d].session = s
  BY <1>1, <1>2, SpeakerSays
<1>3. CASE ~(x = d /\ chat[d].session = s)
  <2>1. Current(x) # <<d, s>>
    BY <1>3 DEF Current
  <2>2. /\ UNCHANGED <<readyState, down, joined, chat>>
        /\ up'[<<d, s>>] = up[<<d, s>>]
        /\ pendingMessages'[<<d, s>>] = pendingMessages[<<d, s>>]
    BY <1>1, <2>1 DEF Say, ClientSend
  <2>3. In(d, s)' => In(d, s) /\ said'[d] = said[d]
    BY <1>1, <1>3, <2>2 DEF Say, In
  <2>4. QuietSpeaker(d, s)
    BY <2>2, <2>3, SpeakerSame
  <2>5. QuietListener(e, s)
    BY <1>1, <2>2, ListenerSame DEF In
  <2> QED
    BY <1>1, <2>4, <2>5, QuietChannel
<1> QED
  BY <1>2, <1>3

LEMMA ReceiveText ==
  ASSUME ScreenTypeOK, ConsentInv, TextInv, NEW x \in Device, NEW t \in Session,
         ReceiveMsg(x, t)
  PROVE  TextInv'
<1> SUFFICES ASSUME NEW s \in Session, NEW d \in Parties(s) PROVE Channel(d, s)'
  BY DEF TextInv
<1> DEFINE e == Other(d, s)
           ev == Head(down[<<x, t>>])
           r == [chat[x] EXCEPT !.heard = IF chat[x].sessionKey = ev.box
                                          THEN Append(@, ev.body) ELSE @]
<1>1. /\ d \in Device /\ e \in Device /\ d # e
      /\ <<d, s>> \in Client /\ <<e, s>> \in Client /\ <<x, t>> \in Client
      /\ Channel(d, s) /\ Listener(e, s)
      /\ chat \in [Device -> Screen] /\ down \in [Client -> Seq(Message)]
  BY OtherParty DEF Client, TextInv, Channel, ScreenTypeOK, TransportTypeOK
<1>2. /\ Receive(x, t, "msg") /\ said' = said /\ chat' = [chat EXCEPT ![x] = r]
  BY DEF ReceiveMsg
<1>3. /\ UNCHANGED <<readyState, pendingMessages, up, joined>>
      /\ down' = [down EXCEPT ![<<x, t>>] = Tail(@)]
      /\ t \in chat[x].runs
  BY <1>2 DEF Receive, Arrives, ClientReceive
<1>4. chat[x].session = t
  <2>1. Mounted(x)
    BY <1>2, ReceiveType
  <2> QED
    BY <1>3, <2>1, MountedBacked
<1>5. r.session = t /\ r.sessionKey = chat[x].sessionKey
  BY <1>1, <1>4 DEF Screen
<1>6. CASE x = e /\ t = s
  BY <1>1, <1>6, TextArrives
<1>7. CASE ~(x = e /\ t = s)
  <2> HIDE DEF r
  <2>1. down'[<<e, s>>] = down[<<e, s>>]
    BY <1>1, <1>3, <1>7
  <2>2. In(e, s)' => chat'[e] = chat[e]
    BY <1>1, <1>2, <1>5, <1>7 DEF In
  <2>3. chat'[d].session = chat[d].session /\ chat'[d].sessionKey = chat[d].sessionKey
    BY <1>1, <1>2, <1>4, <1>5
  <2>4. QuietSpeaker(d, s)
    BY <1>2, <1>3, <2>3, SpeakerSame DEF In
  <2>5. QuietListener(e, s)
    BY <1>1, <1>3, <2>1, <2>2, ListenerSame DEF In
  <2> QED
    BY <1>1, <2>4, <2>5, QuietChannel
<1> QED
  BY <1>6, <1>7

\* The sockets and the relay.
LEMMA TransportText ==
  ASSUME ScreenTypeOK, ConsentInv, TextInv, NEW k \in Client,
         Transport(k) \/ SocketBreaks(k)
  PROVE  TextInv'
<1> SUFFICES ASSUME NEW s \in Session, NEW d \in Parties(s) PROVE Channel(d, s)'
  BY DEF TextInv
<1> DEFINE e == Other(d, s)
<1>1. /\ d \in Device /\ e \in Device /\ d # e /\ <<d, s>> # <<e, s>>
      /\ <<d, s>> \in Client /\ <<e, s>> \in Client
      /\ Channel(d, s) /\ Listener(e, s) /\ Other(e, s) = d
      /\ readyState \in [Client -> ReadyState] /\ pendingMessages \in [Client -> Seq(Message)]
      /\ up \in [Client -> Seq(Message)] /\ down \in [Client -> Seq(Message)]
  BY OtherParty DEF Client, TextInv, Channel, ScreenTypeOK, TransportTypeOK
<1>2. UNCHANGED <<chat, said>>
  BY DEF Transport, SocketBreaks
<1>3. /\ In(d, s)' <=> In(d, s)
      /\ In(e, s)' <=> In(e, s)
      /\ In(e, s) => readyState[<<e, s>>] \in {"CONNECTING", "OPEN", "LOST"}
      /\ readyState[<<e, s>>] = "NONE" => <<e, s>> \notin joined
  BY <1>1, <1>2 DEF In, Listener
<1>4. CASE ClientOpened(k) /\ UNCHANGED joined
  <2>1. CASE k = <<d, s>>
    BY <1>1, <1>2, <1>4, <2>1, SpeakerOpens
  <2>2. CASE k # <<d, s>>
    <3>1. /\ readyState'[<<d, s>>] = readyState[<<d, s>>]
          /\ pendingMessages'[<<d, s>>] = pendingMessages[<<d, s>>]
          /\ up'[<<d, s>>] = up[<<d, s>>] /\ down' = down
          /\ \/ readyState'[<<e, s>>] = readyState[<<e, s>>]
             \/ readyState[<<e, s>>] = "CONNECTING" /\ readyState'[<<e, s>>] = "OPEN"
      BY <1>1, <1>4, <2>2 DEF ClientOpened
    <3>2. QuietSpeaker(d, s)
      BY <1>2, <1>3, <3>1, SpeakerSame
    <3>3. QuietListener(e, s)
      BY <1>2, <1>3, <1>4, <3>1 DEF QuietListener
    <3> QED
      BY <1>1, <3>2, <3>3, QuietChannel
  <2> QED
    BY <2>1, <2>2
<1>5. CASE RelayJoin(k)
  <2>1. /\ UNCHANGED <<readyState, pendingMessages, up, down>>
        /\ readyState[k] # "NONE" /\ joined' = joined \cup {k}
    BY <1>5 DEF RelayJoin, clientVars
  <2>2. QuietSpeaker(d, s)
    BY <1>2, <1>3, <2>1, SpeakerSame
  <2>3. QuietListener(e, s)
    BY <1>2, <1>3, <2>1 DEF QuietListener
  <2> QED
    BY <1>1, <2>2, <2>3, QuietChannel
<1>6. CASE RelayForward(k)
  <2>1. CASE k = <<d, s>>
    BY <1>1, <1>2, <1>6, <2>1, SpeakerForwarded
  <2>2. CASE k # <<d, s>>
    <3>1. PICK x \in Device, t \in Session : k = <<x, t>>
      BY DEF Client
    <3>2. x \in Parties(t)
      BY <1>6, <3>1 DEF RelayForward, ConsentInv, QueuesBacked
    <3>3. <<e, s>> \notin PeersOf(k)
      <4>1. ASSUME <<e, s>> \in PeersOf(k) PROVE FALSE
        <5>1. t = s /\ x # e
          BY <3>1, <4>1 DEF PeersOf
        <5> QED
          BY <2>2, <3>1, <3>2, <5>1, OtherParty
      <4> QED
        BY <4>1
    <3>4. /\ UNCHANGED <<readyState, pendingMessages>>
          /\ up'[<<d, s>>] = up[<<d, s>>] /\ down'[<<e, s>>] = down[<<e, s>>]
          /\ <<e, s>> \in joined' <=> <<e, s>> \in joined
      BY <1>1, <1>6, <2>2, <3>3 DEF RelayForward
    <3>5. QuietSpeaker(d, s)
      BY <1>2, <1>3, <3>4, SpeakerSame
    <3>6. QuietListener(e, s)
      BY <1>1, <1>2, <1>3, <3>4, ListenerSame
    <3> QED
      BY <1>1, <3>5, <3>6, QuietChannel
  <2> QED
    BY <2>1, <2>2
<1>7. CASE RelayLeave(k)
  <2>1. /\ readyState[k] \in Gone /\ joined' = joined \ {k}
        /\ UNCHANGED <<pendingMessages, up>>
        /\ \A c \in Client : c # k => /\ readyState'[c] = readyState[c]
                                      /\ down'[c] = down[c]
        /\ down'[k] = <<>>
        /\ readyState[k] = "CLOSING" => readyState'[k] = "CLOSED"
        /\ readyState[k] # "CLOSING" => readyState'[k] = readyState[k]
    BY <1>1, <1>7 DEF RelayLeave, Gone
  <2>2. QuietSpeaker(d, s)
    <3>1. \/ readyState'[<<d, s>>] = readyState[<<d, s>>]
          \/ readyState[<<d, s>>] = "CLOSING" /\ readyState'[<<d, s>>] = "CLOSED"
      BY <1>1, <2>1
    <3>2. Listener(d, s)
      BY <1>1, OtherParty DEF TextInv, Channel
    <3>3. In(d, s) => readyState[<<d, s>>] # "CLOSING"
      BY <3>2 DEF Listener
    <3> QED
      BY <1>2, <1>3, <2>1, <3>1, <3>3 DEF QuietSpeaker
  <2>3. QuietListener(e, s)
    <3>1. CASE k = <<e, s>>
      <4>1. readyState'[k] \in Gone
        BY <2>1 DEF Gone
      <4> QED
        BY <1>2, <1>3, <2>1, <3>1, <4>1 DEF QuietListener
    <3>2. CASE k # <<e, s>>
      BY <1>1, <1>2, <1>3, <2>1, <3>2, ListenerSame
    <3> QED
      BY <3>1, <3>2
  <2> QED
    BY <1>1, <2>2, <2>3, QuietChannel
<1>8. CASE ClientLost(k) /\ UNCHANGED joined
  <2>1. CASE k = <<d, s>>
    BY <1>1, <1>2, <1>8, <2>1, SpeakerLost
  <2>2. CASE k # <<d, s>>
    <3>1. /\ readyState'[<<d, s>>] = readyState[<<d, s>>]
          /\ pendingMessages' = pendingMessages /\ up'[<<d, s>>] = up[<<d, s>>]
      BY <1>1, <1>8, <2>2 DEF ClientLost
    <3>2. QuietSpeaker(d, s)
      BY <1>2, <1>3, <3>1, SpeakerSame
    <3>3. CASE k = <<e, s>>
      <4>1. readyState'[k] = "LOST" /\ down'[k] = <<>>
        BY <1>1, <1>8 DEF ClientLost
      <4>2. QuietListener(e, s)
        BY <1>2, <1>3, <1>8, <3>3, <4>1 DEF QuietListener, Gone
      <4> QED
        BY <1>1, <3>2, <4>2, QuietChannel
    <3>4. CASE k # <<e, s>>
      <4>1. readyState'[<<e, s>>] = readyState[<<e, s>>] /\ down'[<<e, s>>] = down[<<e, s>>]
        BY <1>1, <1>8, <3>4 DEF ClientLost
      <4>2. QuietListener(e, s)
        BY <1>1, <1>2, <1>3, <1>8, <4>1, ListenerSame
      <4> QED
        BY <1>1, <3>2, <4>2, QuietChannel
    <3> QED
      BY <3>3, <3>4
  <2> QED
    BY <2>1, <2>2
<1> QED
  BY <1>4, <1>5, <1>6, <1>7, <1>8 DEF Transport, SocketBreaks

-----------------------------------------------------------------------------
(***************************************************************************)
(* The invariant holds.                                                    *)
(***************************************************************************)
LEMMA InitText == Init => TextInv
<1> SUFFICES ASSUME Init, NEW s \in Session, NEW d \in Parties(s) PROVE Channel(d, s)
  BY DEF TextInv
<1> DEFINE e == Other(d, s)
<1>1. /\ d \in Device /\ e \in Device /\ s # None
      /\ <<d, s>> \in Client /\ <<e, s>> \in Client
  BY OtherParty, NoneAssumption DEF Client
<1>2. /\ readyState[<<e, s>>] = "NONE" /\ <<e, s>> \notin joined
      /\ pendingMessages[<<d, s>>] = <<>> /\ up[<<d, s>>] = <<>>
      /\ down[<<e, s>>] = <<>>
  BY <1>1 DEF Init, RelayInit, ClientInit
<1>3. ~In(d, s) /\ ~In(e, s)
  BY <1>1 DEF Init, In, NoScreen
<1>4. Typed(d, s)
  BY <1>2, EmptySeq DEF Typed
<1>5. 0 \in 0..MaxSaid /\ 0 \in Nat /\ 0 <= 0
  BY MaxSaidAssumption
<1>6. NoText(<<>>) /\ Run(<<>>, 0, 0)
  BY <1>5, EmptyRun
<1>7. Silent(d, s) /\ Listener(e, s)
  BY <1>2, <1>3, <1>6 DEF Silent, Listener
<1>8. Stages(d, s, 0, 0, 0)
  BY <1>2, <1>3, <1>5, <1>6 DEF Stages, Speaking, Listening
<1> QED
  BY <1>4, <1>5, <1>7, <1>8 DEF Channel, Flow

\* A frame arrives where the screen was left.
LEMMA LateText ==
  ASSUME ScreenTypeOK, TextInv, NEW x \in Device, NEW t \in Session, ~In(x, t), NEW type,
         Arrives(x, t, type), UNCHANGED <<chat, said>>
  PROVE  TextInv'
<1> SUFFICES ASSUME NEW s \in Session, NEW d \in Parties(s) PROVE Channel(d, s)'
  BY DEF TextInv
<1> DEFINE e == Other(d, s)
<1>1. /\ e \in Device /\ <<e, s>> \in Client /\ <<x, t>> \in Client
      /\ Channel(d, s) /\ Listener(e, s) /\ down \in [Client -> Seq(Message)]
  BY OtherParty DEF Client, TextInv, Channel, ScreenTypeOK, TransportTypeOK
<1>2. /\ UNCHANGED <<readyState, joined, pendingMessages, up, chat, said>>
      /\ down[<<x, t>>] # <<>> /\ down' = [down EXCEPT ![<<x, t>>] = Tail(@)]
  BY DEF Arrives, ClientReceive
<1>3. QuietSpeaker(d, s)
  BY <1>2, SpeakerSame DEF In
<1>4. QuietListener(e, s)
  <2>1. CASE <<e, s>> = <<x, t>>
    <3>1. down'[<<e, s>>] = Tail(down[<<e, s>>]) /\ ~In(e, s)'
      BY <1>1, <1>2, <2>1 DEF In
    <3> QED
      BY <1>2, <2>1, <3>1 DEF QuietListener
  <2>2. CASE <<e, s>> # <<x, t>>
    <3>1. down'[<<e, s>>] = down[<<e, s>>]
      BY <1>1, <1>2, <2>2
    <3> QED
      BY <1>1, <1>2, <3>1, ListenerSame DEF In
  <2> QED
    BY <2>1, <2>2
<1> QED
  BY <1>1, <1>3, <1>4, QuietChannel

LEMMA NextText ==
  ScreenTypeOK /\ ConsentInv /\ LeftInv /\ TextInv /\ [Next]_vars => TextInv'
<1> SUFFICES ASSUME ScreenTypeOK, ConsentInv, LeftInv, TextInv, [Next]_vars PROVE TextInv'
  OBVIOUS
<1>1. ASSUME NEW d \in Device, GoBack(d),
             chat[d].session # None \/ chat[d].alerts # <<>> \/ chat[d].backTimer
      PROVE  TextInv'
  <2>1. chat[d].session \in Session
    BY <1>1, ActiveScreen
  <2> QED
    BY <1>1, <2>1, GoBackText
<1>2. CASE UNCHANGED <<relayVars, chat, said>>
  <2>1. CalmWires
    BY <1>2, WiresSame
  <2>2. \A x \in Device : CalmScreen(x, chat'[x])
    BY <1>2 DEF CalmScreen
  <2> QED
    BY <1>2, <2>1, <2>2, CalmText
<1>3. ASSUME NEW k \in Client, LateStep(k) PROVE TextInv'
  <2>1. PICK d \in Device, s \in Session : k = <<d, s>> /\ k[1] = d
    BY DEF Client
  <2>2. ASSUME NEW t \in Session, LateReceive(k, t) PROVE TextInv'
    <3>1. /\ t \in gone[k].runs /\ UNCHANGED <<chat, said>>
          /\ Arrives(d, t, Head(down[<<d, t>>]).type)
      BY <2>1, <2>2 DEF LateReceive
    <3>2. ~In(d, t)
      BY <2>1, <3>1 DEF LeftInv, LeftApart, In
    <3> QED
      BY <3>1, <3>2, LateText
  <2>3. CASE UNCHANGED <<relayVars, chat, said>>
    BY <1>2, <2>3
  <2>4. CASE chat[d].session # None /\ GoBack(d)
    BY <1>1, <2>4
  <2>5. ASSUME NEW r, LateBack(k, r) PROVE TextInv'
    BY <2>1, <2>3, <2>4, <2>5 DEF LateBack
  <2>6. CASE LateDismissEnded(k) \/ LateTimerFires(k)
    BY <2>5, <2>6 DEF LateDismissEnded, LateTimerFires
  <2>7. CASE \/ LateCancel(k) \/ LateConfirmYes(k) \/ LatePromptYes(k)
             \/ LatePromptNo(k) \/ LateDismissCloser(k)
    BY <2>3, <2>7 DEF LateCancel, LateConfirmYes, LatePromptYes, LatePromptNo,
                      LateDismissCloser
  <2> QED
    BY <1>3, <2>2, <2>6, <2>7 DEF LateStep
<1>4. CASE System
  <2>1. ASSUME NEW d \in Device, NEW s \in Session, OnMessage(d, s) PROVE TextInv'
    BY <2>1, HandshakeText, ReceiveText, DialogueText DEF OnMessage
  <2>2. ASSUME NEW d \in Device, BackTimerFires(d) PROVE TextInv'
    BY <1>1, <2>2 DEF BackTimerFires, Leaves
  <2> QED
    BY <1>4, <1>3, <2>1, <2>2, HandshakeText, TransportText DEF System, LateStep
<1>5. CASE User
  <2>1. ASSUME NEW d \in Device, UserBack(d) \/ DismissEnded(d) PROVE TextInv'
    BY <1>1, <2>1 DEF UserBack, DismissEnded, Asked, Leaves
  <2> QED
    BY <1>5, <1>3, <2>1, NavigateText, SayText, DialogueText DEF User, AtScreen, LateStep
<1>6. CASE \E k \in Client : SocketBreaks(k)
  BY <1>6, TransportText
<1>7. CASE UNCHANGED vars
  BY <1>2, <1>7 DEF vars
<1> QED
  BY <1>4, <1>5, <1>6, <1>7 DEF Next

(***************************************************************************)
(* Every text is where TextInv says: between the queue of its sender and   *)
(* the screen of the other party the texts are in order and complete.      *)
(***************************************************************************)
THEOREM TextInvariant == Spec => []TextInv
  BY NextText, InitText, ScreenTypeCorrect, ConsentInvariant, LeftInvariant, PTL DEF Spec

LEMMA ShownInOrder == ScreenTypeOK /\ ConsentInv /\ TextInv => TextsContiguous
<1> SUFFICES ASSUME ScreenTypeOK, ConsentInv, TextInv, NEW d \in Device,
                    NEW i \in 1..Len(chat[d].heard)
             PROVE  LET heard == chat[d].heard IN
                    /\ heard[i].from = Other(d, chat[d].session)
                    /\ heard[i].session = chat[d].session
                    /\ i > 1 => heard[i].n = heard[i - 1].n + 1
  BY DEF TextsContiguous
<1> DEFINE s == chat[d].session
<1>1. CASE chat[d] = NoScreen
  BY <1>1 DEF NoScreen
<1>2. CASE Mounted(d)
  <2>1. s \in Session /\ d \in Parties(s)
    BY <1>2, MountedBacked
  <2>2. Listener(d, s)
    BY <2>1, OtherParty DEF TextInv, Channel
  <2>3. Consecutive(chat[d].heard, Other(d, s), s)
    BY <2>2 DEF Listener, In
  <2> QED
    BY <2>3 DEF Consecutive
<1> QED
  BY <1>1, <1>2 DEF ScreenTypeOK

(***************************************************************************)
(* The texts on a screen are a contiguous run of what the other party said *)
(* in its session, whoever leaves, whatever the relay drops and whichever  *)
(* socket breaks (sendMessage and the msg branch of onmessage, Chat.tsx).  *)
(***************************************************************************)
THEOREM TextsInOrder == Spec => []TextsContiguous
  BY ShownInOrder, ScreenTypeCorrect, ConsentInvariant, TextInvariant, PTL

\* Users who make another call, and either talk or touch Close, are users of Spec.
LEMMA AgainIsChat == AgainSpec => Spec
<1>1. [AgainNext]_vars => [Next]_vars
  BY DEF AgainNext, Next, User
<1> QED
  BY <1>1, PTL DEF AgainSpec, Spec

(***************************************************************************)
(* The same of those users, whose chats TLC goes through.                  *)
(***************************************************************************)
THEOREM AgainInOrder == AgainSpec => []TextsContiguous
  BY AgainIsChat, TextsInOrder, PTL
=============================================================================

----------------------------- MODULE Candidates -----------------------------
(***************************************************************************)
(* The list of nearby people on the Home screen of one phone               *)
(* (screens/Home.tsx): sightings, the cleanup interval, the compatibility  *)
(* check and the link dialog.  Phones around come, go and rotate their     *)
(* ids; what the list gets to know of it is which id is heard when, so any *)
(* id may be heard at any time, or never again.                            *)
(*                                                                         *)
(* Time is counted in seconds and kept as ages: a step of the clock makes  *)
(* everything a second older, up to an age from which nothing changes any  *)
(* more.  The toggle is a single step here; module Visibility has its      *)
(* interleavings.                                                          *)
(***************************************************************************)
EXTENDS Payload, FiniteSets, Integers

CONSTANTS
  Id,           \* the ids that phones around advertise
  EphemeralId,  \* the 8 bytes of each
  Fingerprint,  \* the 8 bytes that go with it, from its owner's interests
  Rssi,         \* signal strengths
  Score,        \* what a check at a signal strength gives (module Scoring)
  MaxItems,     \* length of the list: 50 in the code
  MaxAge        \* seconds until an item is stale: 3 in the code

MyIdOf == [i \in Id |-> MyEphemeralId(EphemeralId[i])]

ASSUME CandidatesAssumption ==
  /\ MaxItems \in Nat \ {0} /\ MaxAge \in Nat \ {0}
  /\ EphemeralId \in [Id -> [1..8 -> Byte]]
  /\ Fingerprint \in [Id -> [1..8 -> Byte]]
  /\ Rssi \subseteq Int /\ Score \in [Rssi -> 0..100]

\* Six bytes of a hash tell the ids apart.
ASSUME NoCollision == \A i, j \in Id : MyIdOf[i] = MyIdOf[j] => i = j

PayloadOf(i) ==
  [version |-> 1, ephemeralId |-> EphemeralId[i],
   fingerprint |-> Fingerprint[i], flags |-> 0]

\* The ids under which i may come up, however much of its name arrives.
ShownAs == [i \in Id |-> {Surfaces(PayloadOf(i), n) : n \in 0..24} \ {None}]

\* An age from which nothing changes.
Old == MaxAge + 1

VARIABLES
  scanning,  \* React state
  items,     \* React state: the list
  due,       \* the cleanup interval has not run yet in this second
  dialog,    \* the id that "Send Link Request?" is about, or None
  heard,     \* history: seconds since each id was last heard
  crowdedOut,\* history: ids cut off at the end of the list, not heard since
  swept      \* history: the interval has run since visibility was turned on

vars == <<scanning, items, due, dialog, heard, crowdedOut, swept>>

historyVars == <<heard, crowdedOut, swept>>

Init ==
  /\ scanning = FALSE /\ items = <<>> /\ due = FALSE /\ dialog = None
  /\ heard = [i \in Id |-> Old] /\ crowdedOut = {} /\ swept = FALSE

Listed == {items[k].id : k \in 1..Len(items)}

-----------------------------------------------------------------------------
(***************************************************************************)
(* The list.                                                               *)
(***************************************************************************)
NewItem(id, rssi) == [id |-> id, rssi |-> rssi, age |-> 0, score |-> None]

Updated(id, rssi) ==
  [k \in 1..Len(items) |->
     IF items[k].id = id
     THEN [items[k] EXCEPT !.rssi = rssi, !.age = 0]
     ELSE items[k]]

\* Variant with a bug: a sighting replaces the item it belongs to.
AfterSightingForgets(id, rssi) ==
  IF id \in Listed
  THEN [k \in 1..Len(items) |->
          IF items[k].id = id THEN NewItem(id, rssi) ELSE items[k]]
  ELSE Prefix(<<NewItem(id, rssi)>> \o items, MaxItems)

\* Variant with a bug: every sighting is a new item.
AfterSightingRepeats(id, rssi) == Prefix(<<NewItem(id, rssi)>> \o items, MaxItems)

\* Variant with a bug: a full list takes no one new.
AfterSightingFull(id, rssi) ==
  IF id \in Listed THEN Updated(id, rssi)
  ELSE Prefix(items \o <<NewItem(id, rssi)>>, MaxItems)

\* setItems: an item that is there is updated and keeps its score; a new one
\* goes to the top of the list and may push the last one out.
AfterSighting(id, rssi) ==
  IF id \in Listed
  THEN Updated(id, rssi)
  ELSE Prefix(<<NewItem(id, rssi)>> \o items, MaxItems)

Ids(list) == {list[k].id : k \in 1..Len(list)}

\* A candidate event whose payload unpacks.
Sighting(i, rssi) ==
  /\ scanning
  /\ \E id \in ShownAs[i] :
       /\ items' = AfterSighting(id, rssi)
       /\ crowdedOut' = (crowdedOut \ {id}) \cup (Listed \ Ids(items'))
  /\ heard' = [heard EXCEPT ![i] = 0]
  /\ UNCHANGED <<scanning, due, dialog, swept>>

\* Variant with a bug: nothing is ever stale.
FreshAlways(item) == TRUE

\* Variant with a bug: <= for <.
FreshOrJustNot(item) == item.age <= MaxAge

\* now - item.lastSeen < 3000
Fresh(item) == item.age < MaxAge

\* The positions of the rows that the filter keeps.
Kept == {k \in 1..Len(items) : Fresh(items[k])}

\* The cleanup interval: the list becomes that of the rows kept, in order.
Cleanup ==
  /\ due
  /\ due' = FALSE
  /\ \E n \in 0..Len(items) : \E at \in [1..n -> Kept] :
       /\ \A j, l \in 1..n : j < l => at[j] < at[l]
       /\ Kept = {at[j] : j \in 1..n}
       /\ items' = [j \in 1..n |-> items[at[j]]]
  /\ swept' = TRUE
  /\ UNCHANGED <<scanning, dialog, heard, crowdedOut>>

Older(n) == IF n < Old THEN n + 1 ELSE n

\* A second passes; a running interval has run in the second that ends.
Tick ==
  /\ ~due
  /\ due' = scanning
  /\ items' = [k \in 1..Len(items) |-> [items[k] EXCEPT !.age = Older(@)]]
  /\ heard' = [i \in Id |-> Older(heard[i])]
  /\ UNCHANGED <<scanning, dialog, crowdedOut, swept>>

-----------------------------------------------------------------------------
(***************************************************************************)
(* The user.                                                               *)
(***************************************************************************)
TurnOn ==
  /\ dialog = None
  /\ ~scanning
  /\ scanning' = TRUE
  /\ swept' = FALSE
  /\ UNCHANGED <<items, due, dialog, heard, crowdedOut>>

\* What toggle and sendLinkRequest have in common; the items stay.
Stop == scanning' = FALSE /\ due' = FALSE /\ swept' = FALSE

TurnOff ==
  /\ dialog = None
  /\ scanning
  /\ Stop
  /\ UNCHANGED <<items, dialog, heard, crowdedOut>>

\* "Check Match": there is no await between the two updates of the list, so
\* no other handler and no render comes between them.
CheckCompatibility(k) ==
  /\ dialog = None
  /\ items[k].score = None
  /\ items' = [items EXCEPT ![k].score = Score[items[k].rssi]]
  /\ UNCHANGED <<scanning, due, dialog, historyVars>>

\* "Send Link", for a good match.
OpenLinkDialog(k) ==
  /\ dialog = None
  /\ items[k].score # None
  /\ items[k].score >= 35
  /\ dialog' = items[k].id
  /\ UNCHANGED <<scanning, items, due, historyVars>>

\* "Cancel", or "Send Request" without an open socket, which throws.
CloseLinkDialog ==
  /\ dialog # None
  /\ dialog' = None
  /\ UNCHANGED <<scanning, items, due, historyVars>>

\* "Send Request": the item may be gone by now; visibility ends.
SendLinkRequest ==
  /\ dialog # None
  /\ scanning
  /\ dialog' = None
  /\ Stop
  /\ UNCHANGED <<items, heard, crowdedOut>>

-----------------------------------------------------------------------------
User ==
  \/ TurnOn \/ TurnOff \/ CloseLinkDialog \/ SendLinkRequest
  \/ \E k \in 1..Len(items) : CheckCompatibility(k) \/ OpenLinkDialog(k)

Next ==
  \/ User \/ Tick \/ Cleanup
  \/ \E i \in Id, rssi \in Rssi : Sighting(i, rssi)

\* Time goes on and the interval runs; nobody has to be heard.
Fairness == WF_vars(Tick) /\ WF_vars(Cleanup)

Spec == Init /\ [][Next]_vars /\ Fairness

-----------------------------------------------------------------------------
(***************************************************************************)
(* Properties.                                                             *)
(***************************************************************************)
ShownId12 == [1..12 -> 0..15]

Item ==
  [id : ShownId12, rssi : Rssi, age : 0..Old, score : (0..100) \cup {None}]

(***************************************************************************)
(* Every variable holds values of its kind; the list has one row per id    *)
(* and no more rows than fit (Home.tsx:97-103).                            *)
(***************************************************************************)
TypeOK ==
  /\ {scanning, due, swept} \subseteq BOOLEAN
  /\ due => scanning
  /\ items \in Seq(Item) /\ Len(items) <= MaxItems
  /\ \A k, l \in 1..Len(items) : items[k].id = items[l].id => k = l
  /\ dialog \in ShownId12 \cup {None}
  /\ heard \in [Id -> 0..Old]
  /\ crowdedOut \subseteq ShownId12

(***************************************************************************)
(* No phantoms: what is listed, and what a link dialog is about, is digit  *)
(* by digit the id that some phone derived for itself and registers for    *)
(* link requests with, however much of its name the radio delivered.       *)
(***************************************************************************)
NoPhantoms ==
  \A id \in Listed \cup ({dialog} \ {None}) : \E i \in Id : id = MyIdOf[i]

(***************************************************************************)
(* The list follows the radio.  Who was heard in the last three seconds is *)
(* on it, unless newer ones have pushed it out; and once the interval has  *)
(* run, who was not heard for longer than one more second is not           *)
(* (Home.tsx:130-134).                                                     *)
(***************************************************************************)
ListFollowsRadio ==
  \A i \in Id :
    /\ heard[i] < MaxAge => MyIdOf[i] \in Listed \cup crowdedOut
    /\ swept /\ heard[i] > MaxAge => MyIdOf[i] \notin Listed

(***************************************************************************)
(* A score stays with its row as long as the row is there ("keep all other *)
(* data", Home.tsx:99): sightings, cleanups and time never change it.      *)
(***************************************************************************)
ScoreStays ==
  [][\A k \in 1..Len(items), l \in 1..Len(items') :
       items[k].score # None /\ items'[l].id = items[k].id
         => items'[l].score = items[k].score]_vars

(***************************************************************************)
(* A phone that has gone, or has changed its id, does not stay on the list *)
(* while this phone keeps scanning: a row that is not heard again goes.    *)
(***************************************************************************)
GoneDisappear ==
  \A i \in Id :
    (MyIdOf[i] \in Listed /\ heard[i] > 0 /\ scanning)
      ~> (MyIdOf[i] \notin Listed \/ heard[i] = 0 \/ ~scanning)
=============================================================================

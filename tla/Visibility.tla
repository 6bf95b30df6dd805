----------------------------- MODULE Visibility -----------------------------
(***************************************************************************)
(* Being visible to others, on one phone: the toggle of the Home screen    *)
(* (screens/Home.tsx), the orchestrators it creates (ble/orchestrator.ts), *)
(* the subscription that bleManager keeps (ble/index.ts) and the socket    *)
(* for link requests (network/linkRequests.ts), over the native module.    *)
(*                                                                         *)
(* Each turn-on creates an orchestrator, a cleanup interval and a socket;  *)
(* they are all named by the number of that turn-on.  An ephemeral id is   *)
(* the pair of the orchestrator (its secret) and the rotation epoch.       *)
(***************************************************************************)
EXTENDS BleRadio, Sequences, FiniteSets

CONSTANTS
  MaxStart,  \* bound: how often visibility is turned on
  MaxPress,  \* bound: toggles under way at once
  MaxEpoch,  \* bound: rotation epochs
  Faults,    \* the calls of libraries that may fail
  MaxFaults  \* bound: how many of them do, each any number of times

ASSUME VisibilityAssumption ==
  /\ MaxStart \in Nat \ {0} /\ MaxPress \in Nat \ {0} /\ MaxEpoch \in Nat
  /\ MaxFaults \in Nat
  /\ None \notin Nat /\ None \notin Nat \X Nat
  /\ Faults \subseteq {"profile", "scan", "uuid", "advertise"}

Orch == 1..MaxStart

Id == Orch \X (0..MaxEpoch)

VARIABLES
  \* Home
  scanning,        \* React state
  ble,             \* React state: the orchestrator, or None
  presses,         \* toggles awaiting loadProfile(): what their render saw
  dialog,          \* what the render saw that opened "Send Link Request?"
  place,           \* the screen in front
  starts,          \* how many orchestrators exist
  cleanupTimers,   \* running cleanup intervals
  cleanupTimerRef, \* the one Home remembers
  connectTimers,   \* pending 100 ms timeouts that open the request socket
  \* LinkRequestManager
  ws,              \* its socket, or None
  sockets,         \* sockets that are open at the server
  registeredAs,    \* the id in the URL of each socket
  \* BleOrchestrator and BleManager
  myEphemeralId,   \* of each orchestrator, None until it is built
  builds,          \* calls of buildAndAdvertise awaiting getUniqueId()
  timers,          \* orchestrators whose rotation interval runs
  rotated,         \* the epoch of each interval's last tick
  listeners,       \* orchestrators subscribed to BLEOnCandidate
  sub,             \* the subscription bleManager remembers
  epoch,           \* floor(now / 10 minutes)
  hasty,           \* history: the user acted before an earlier act had settled
  failed           \* history: the calls that have failed

homeVars == <<scanning, ble, presses, dialog, place, starts>>
timerVars == <<cleanupTimers, cleanupTimerRef, connectTimers>>
linkVars == <<ws, sockets, registeredAs>>
orchVars == <<myEphemeralId, builds, timers, rotated, listeners, sub>>
modelVars == <<radioVars, homeVars, timerVars, linkVars, orchVars, epoch>>
vars == <<modelVars, hasty, failed>>

Init ==
  /\ RadioInit
  /\ scanning = FALSE /\ ble = None /\ presses = <<>> /\ dialog = None
  /\ place = "home" /\ starts = 0
  /\ cleanupTimers = {} /\ cleanupTimerRef = None /\ connectTimers = {}
  /\ ws = None /\ sockets = {} /\ registeredAs = [o \in Orch |-> None]
  /\ myEphemeralId = [o \in Orch |-> None] /\ builds = [o \in Orch |-> 0]
  /\ timers = {} /\ rotated = [o \in Orch |-> 0]
  /\ listeners = {} /\ sub = None
  /\ epoch = 0
  /\ hasty = FALSE
  /\ failed = {}

\* What a closure created by the present render sees.
Closure == [scanning |-> scanning, ble |-> ble]

-----------------------------------------------------------------------------
(***************************************************************************)
(* What Home calls.                                                        *)
(***************************************************************************)
\* bleManager.startScanning: one more listener; the last one is remembered.
Listen(o) ==
  /\ listeners' = listeners \cup {o}
  /\ sub' = o

Subscribe(o) == Listen(o) /\ StartScanning

\* bleManager.stopScanning and stopAdvertising: the remembered listener goes.
Unsubscribe ==
  /\ StopRadio
  /\ listeners' = listeners \ {sub}

\* BleOrchestrator.start: build, rotate, scan.
BuildAndRotate(o) ==
  /\ builds' = [builds EXCEPT ![o] = 1]
  /\ timers' = timers \cup {o}
  /\ rotated' = [rotated EXCEPT ![o] = epoch]

OrchestratorStart(o) == BuildAndRotate(o) /\ Subscribe(o)

\* Variant with a bug: the rotation interval is not cleared.
OrchestratorStopKeepsTimer(o) ==
  Unsubscribe /\ UNCHANGED <<timers, rotated>>

\* BleOrchestrator.stop
OrchestratorStop(o) ==
  /\ Unsubscribe
  /\ timers' = timers \ {o}
  /\ rotated' = [p \in Orch |-> IF p = o THEN 0 ELSE rotated[p]]

\* LinkRequestManager.connect: a socket opened before is only forgotten; an
\* id that is still empty matches no route, and the server refuses it.
Connect(o) ==
  /\ ws' = o
  /\ sockets' = IF myEphemeralId[o] = None THEN sockets ELSE sockets \cup {o}
  /\ registeredAs' = [registeredAs EXCEPT ![o] = myEphemeralId[o]]

\* LinkRequestManager.disconnect
Disconnect ==
  /\ sockets' = sockets \ {ws}
  /\ registeredAs' = [p \in Orch |-> IF p = ws THEN None ELSE registeredAs[p]]
  /\ ws' = None

-----------------------------------------------------------------------------
(***************************************************************************)
(* Turning visibility on and off.                                          *)
(***************************************************************************)
TurningOn == Cardinality({i \in DOMAIN presses : ~presses[i].scanning})

\* The button: toggle() runs up to its await.
TogglePress ==
  /\ place \in {"home", "leaving"} /\ dialog = None
  /\ Len(presses) < MaxPress
  /\ scanning \/ starts + TurningOn < MaxStart
  /\ presses' = Append(presses, Closure)
  /\ UNCHANGED <<radioVars, scanning, ble, dialog, place, starts,
                 timerVars, linkVars, orchVars, epoch>>

\* The block that toggle, sendLinkRequest and handleAcceptRequest share, for
\* the orchestrator that the closure saw.
StopScanning(o) ==
  /\ OrchestratorStop(o)
  /\ Disconnect
  /\ cleanupTimers' = cleanupTimers \ {cleanupTimerRef}
  /\ cleanupTimerRef' = None
  /\ scanning' = FALSE

\* toggle() resumes in a closure that saw visibility on.
ToggleOff ==
  /\ presses # <<>>
  /\ Head(presses).scanning
  /\ StopScanning(Head(presses).ble)
  /\ presses' = Tail(presses)
  /\ UNCHANGED <<ble, dialog, place, starts, connectTimers, myEphemeralId,
                 builds, sub, epoch>>

\* toggle() resumes in a closure that saw visibility off: a new orchestrator
\* builds its payload, rotates and scans, and two timers start.
ToggleOn ==
  /\ presses # <<>>
  /\ ~Head(presses).scanning
  /\ presses' = Tail(presses)
  /\ LET o == starts + 1 IN
       /\ starts' = o
       /\ ble' = o
       /\ OrchestratorStart(o)
       /\ connectTimers' = connectTimers \cup {o}
       /\ cleanupTimers' = cleanupTimers \cup {o}
       /\ cleanupTimerRef' = o
  /\ scanning' = TRUE
  /\ UNCHANGED <<dialog, place, linkVars, myEphemeralId, epoch>>

\* `if (!p) return`: nothing was stored.
ToggleNoProfile ==
  /\ presses # <<>>
  /\ presses' = Tail(presses)
  /\ UNCHANGED <<radioVars, scanning, ble, dialog, place, starts, timerVars,
                 linkVars, orchVars, epoch>>

(***************************************************************************)
(* The catch of toggle(): loadProfile() rejects, whatever the press was    *)
(* for, and the toggle is set to off without anything being stopped.       *)
(***************************************************************************)
ToggleFails ==
  /\ presses # <<>>
  /\ presses' = Tail(presses)
  /\ scanning' = FALSE
  /\ UNCHANGED <<radioVars, ble, dialog, place, starts, timerVars, linkVars,
                 orchVars, epoch>>

(***************************************************************************)
(* The same catch after the native startScanning has thrown: by then the   *)
(* orchestrator is in the state, builds its payload, rotates and listens.  *)
(***************************************************************************)
ToggleOnFails ==
  /\ presses # <<>>
  /\ ~Head(presses).scanning
  /\ presses' = Tail(presses)
  /\ LET o == starts + 1 IN
       /\ starts' = o
       /\ ble' = o
       /\ BuildAndRotate(o)
       /\ Listen(o)
  /\ scanning' = FALSE
  /\ UNCHANGED <<radioVars, dialog, place, timerVars, linkVars, myEphemeralId,
                 epoch>>

\* The 100 ms are over: the request socket opens under the id known by now.
ConnectTimer(o) ==
  /\ o \in connectTimers
  /\ connectTimers' = connectTimers \ {o}
  /\ Connect(o)
  /\ UNCHANGED <<radioVars, homeVars, cleanupTimers, cleanupTimerRef,
                 orchVars, epoch>>

-----------------------------------------------------------------------------
(***************************************************************************)
(* The orchestrator.                                                       *)
(***************************************************************************)
\* Variant with a bug: the payload is built but not advertised.
BuildOnly(o) ==
  /\ builds[o] > 0
  /\ builds' = [builds EXCEPT ![o] = @ - 1]
  /\ myEphemeralId' = [myEphemeralId EXCEPT ![o] = <<o, epoch>>]
  /\ UNCHANGED <<radioVars, homeVars, timerVars, linkVars, timers, rotated,
                 listeners, sub, epoch>>

\* getUniqueId() resolves: the id of the present epoch goes on the air.
BuildAndAdvertise(o) ==
  /\ builds[o] > 0
  /\ builds' = [builds EXCEPT ![o] = @ - 1]
  /\ myEphemeralId' = [myEphemeralId EXCEPT ![o] = <<o, epoch>>]
  /\ StartAdvertising(<<o, epoch>>)
  /\ UNCHANGED <<homeVars, timerVars, linkVars, timers, rotated, listeners,
                 sub, epoch>>

\* getUniqueId() rejects, which start() and the interval swallow.
BuildFails(o) ==
  /\ builds[o] > 0
  /\ builds' = [builds EXCEPT ![o] = @ - 1]
  /\ UNCHANGED <<radioVars, homeVars, timerVars, linkVars, myEphemeralId, timers,
                 rotated, listeners, sub, epoch>>

\* The native startAdvertising throws, swallowed too: the id is set already.
AdvertiseFails(o) ==
  /\ builds[o] > 0
  /\ builds' = [builds EXCEPT ![o] = @ - 1]
  /\ myEphemeralId' = [myEphemeralId EXCEPT ![o] = <<o, epoch>>]
  /\ UNCHANGED <<radioVars, homeVars, timerVars, linkVars, timers, rotated,
                 listeners, sub, epoch>>

\* Variant with a bug: the interval ticks again and again in one epoch.
RotationTimerRepeats(o) ==
  /\ o \in timers
  /\ rotated[o] < epoch
  /\ builds' = [builds EXCEPT ![o] = @ + 1]
  /\ UNCHANGED <<radioVars, homeVars, timerVars, linkVars, myEphemeralId,
                 timers, rotated, listeners, sub, epoch>>

\* The rotation interval: one tick for each epoch that has passed.
RotationTimer(o) ==
  /\ o \in timers
  /\ rotated[o] < epoch
  /\ rotated' = [rotated EXCEPT ![o] = @ + 1]
  /\ builds' = [builds EXCEPT ![o] = @ + 1]
  /\ UNCHANGED <<radioVars, homeVars, timerVars, linkVars, myEphemeralId,
                 timers, listeners, sub, epoch>>

TimePasses ==
  /\ epoch < MaxEpoch
  /\ epoch' = epoch + 1
  /\ UNCHANGED <<radioVars, homeVars, timerVars, linkVars, orchVars>>

-----------------------------------------------------------------------------
(***************************************************************************)
(* Going to a chat.                                                        *)
(***************************************************************************)
\* Tapping a candidate opens the dialog, in the closure of this render.
OpenLinkDialog ==
  /\ place = "home" /\ dialog = None
  /\ dialog' = Closure
  /\ UNCHANGED <<radioVars, scanning, ble, presses, place, starts, timerVars,
                 linkVars, orchVars, epoch>>

\* "Cancel", or "Send Request" without an open socket, which throws.
CloseLinkDialog ==
  /\ dialog # None
  /\ dialog' = None
  /\ UNCHANGED <<radioVars, scanning, ble, presses, place, starts, timerVars,
                 linkVars, orchVars, epoch>>

SendLinkRequest ==
  /\ dialog # None
  /\ ws \in sockets
  /\ dialog' = None
  /\ place' = "chat"
  /\ IF dialog.scanning /\ dialog.ble # None
     THEN /\ StopScanning(dialog.ble)
          /\ UNCHANGED <<connectTimers, myEphemeralId, builds, sub>>
     ELSE UNCHANGED <<radioVars, scanning, timerVars, linkVars, orchVars>>
  /\ UNCHANGED <<ble, presses, starts, epoch>>

(***************************************************************************)
(* A request arrives on an open socket and is accepted.  The handler is    *)
(* the one of the render whose toggle() connected the socket: that closure *)
(* saw scanning false, so the block that stops scanning is never entered.  *)
(***************************************************************************)
HandleAcceptRequest ==
  /\ place = "home" /\ dialog = None
  /\ sockets # {}
  /\ place' = "leaving"
  /\ UNCHANGED <<radioVars, scanning, ble, presses, dialog, starts, timerVars,
                 linkVars, orchVars, epoch>>

\* The 100 ms before navigating are over.
NavigateTimer ==
  /\ place = "leaving"
  /\ place' = "chat"
  /\ UNCHANGED <<radioVars, scanning, ble, presses, dialog, starts, timerVars,
                 linkVars, orchVars, epoch>>

BackHome ==
  /\ place = "chat"
  /\ place' = "home"
  /\ UNCHANGED <<radioVars, scanning, ble, presses, dialog, starts, timerVars,
                 linkVars, orchVars, epoch>>

BluetoothChanges ==
  /\ CentralDidUpdateState \/ PeripheralDidUpdateState
  /\ UNCHANGED <<homeVars, timerVars, linkVars, orchVars, epoch>>

-----------------------------------------------------------------------------
\* Resolved promises and timers.
System ==
  \/ ToggleOff \/ ToggleOn \/ ToggleNoProfile \/ NavigateTimer
  \/ \E o \in Orch : ConnectTimer(o) \/ BuildAndAdvertise(o) \/ RotationTimer(o)

\* Rejected promises and native calls that throw.
Failure(f) ==
  \/ f = "profile" /\ ToggleFails
  \/ f = "scan" /\ ToggleOnFails
  \/ \E o \in Orch : \/ f = "uuid" /\ BuildFails(o)
                     \/ f = "advertise" /\ AdvertiseFails(o)

User ==
  \/ TogglePress
  \/ OpenLinkDialog \/ CloseLinkDialog \/ SendLinkRequest
  \/ HandleAcceptRequest \/ BackHome

Environment == TimePasses \/ BluetoothChanges

\* Nothing that an earlier act began is still under way.
Settled ==
  /\ presses = <<>> /\ connectTimers = {}
  /\ \A o \in Orch : builds[o] = 0

Next ==
  \/ (System \/ Environment) /\ UNCHANGED <<hasty, failed>>
  \/ User /\ hasty' = (hasty \/ ~Settled) /\ UNCHANGED failed
  \/ \E f \in Faults : /\ Cardinality(failed \cup {f}) <= MaxFaults
                       /\ Failure(f)
                       /\ failed' = failed \cup {f} /\ UNCHANGED hasty

\* The promise a build awaits is resolved or rejected.
BuildSettles(o) == BuildFails(o) \/ AdvertiseFails(o) \/ BuildAndAdvertise(o)

\* No build awaits its promise for ever; nothing else is counted on.
Fairness == \A o \in Orch : WF_modelVars(BuildSettles(o))

Spec == Init /\ [][Next]_vars /\ Fairness

\* A user who does nothing before the previous act has settled.
PatientSpec == Init /\ [][Next /\ ~hasty']_vars /\ Fairness

-----------------------------------------------------------------------------
(***************************************************************************)
(* Properties.                                                             *)
(***************************************************************************)
\* The orchestrators that were made; what a render saw.
Made == (1..starts) \cup {None}

Seen == [scanning : BOOLEAN, ble : Made]

RadioTypeOK ==
  /\ centralOn \in BOOLEAN /\ peripheralOn \in BOOLEAN
  /\ isScanning \in BOOLEAN /\ discovering \in BOOLEAN
  /\ advertisePayload \in Id \cup {None} /\ onAir \in Id \cup {None}
  /\ powerEvents \in 0..MaxPower

HomeTypeOK ==
  /\ scanning \in BOOLEAN /\ ble \in Made
  /\ presses \in Seq(Seen) /\ Len(presses) <= MaxPress
  /\ dialog \in Seen \cup {None}
  /\ place \in {"home", "leaving", "chat"}
  /\ starts \in 0..MaxStart

TimerTypeOK ==
  /\ cleanupTimers \subseteq 1..starts /\ connectTimers \subseteq 1..starts
  /\ cleanupTimerRef \in Made

LinkTypeOK ==
  /\ ws \in Made /\ sockets \subseteq 1..starts
  /\ registeredAs \in [Orch -> Id \cup {None}]

OrchTypeOK ==
  /\ myEphemeralId \in [Orch -> Id \cup {None}]
  /\ builds \in [Orch -> 0..(MaxEpoch + 1)]
  /\ timers \subseteq 1..starts /\ rotated \in [Orch -> 0..MaxEpoch]
  /\ listeners \subseteq 1..starts /\ sub \in Made
  /\ epoch \in 0..MaxEpoch

(***************************************************************************)
(* Every variable holds values of its kind; whatever a ref, a press or a   *)
(* dialog has captured is an orchestrator that was made; and as many       *)
(* payloads are being built as the first build and the ticks of the        *)
(* rotation interval account for.                                          *)
(***************************************************************************)
TypeOK ==
  /\ RadioTypeOK /\ HomeTypeOK /\ TimerTypeOK /\ LinkTypeOK /\ OrchTypeOK
  /\ hasty \in BOOLEAN /\ failed \subseteq Faults

\* The toggle shows off and no press is still being worked on.
Off == ~scanning /\ presses = <<>>

\* toggle() has never come to its catch.
NeverCaught == "profile" \notin failed /\ "scan" \notin failed

(***************************************************************************)
(* Off means off: when the toggle shows off nothing that turning it on     *)
(* started is left: no rotation interval, subscription, cleanup interval,  *)
(* request socket (Home.tsx:69-83).  This is so for a user who was never   *)
(* hasty as long as toggle() has not failed; for the others see the next   *)
(* property.                                                               *)
(***************************************************************************)
OffMeansOff ==
  ~hasty /\ NeverCaught /\ Off =>
    timers = {} /\ listeners = {} /\ cleanupTimers = {} /\ sockets = {}

(***************************************************************************)
(* Off is off for every user and whatever fails: a phone whose toggle      *)
(* shows off neither searches nor advertises, and no interval, listener or *)
(* socket of its being visible is left ("opt-in visibility and easy        *)
(* toggles", README.md:165).                                               *)
(***************************************************************************)
OffLeavesNothing ==
  Off => /\ ~discovering /\ onAir = None
         /\ timers = {} /\ listeners = {} /\ cleanupTimers = {} /\ sockets = {}

(***************************************************************************)
(* While the toggle shows on the radio searches whenever Bluetooth is on,  *)
(* however presses, failures and Bluetooth changes interleave; and unless  *)
(* toggle() has failed it searches at no other time.                       *)
(***************************************************************************)
SearchesWhenOn ==
  /\ scanning => discovering = centralOn
  /\ NeverCaught => (discovering => scanning)

(***************************************************************************)
(* Once an id was built for the current turn-on, the phone is on the air   *)
(* whenever Bluetooth is on: also after Bluetooth was off in between       *)
(* (BLEModule.swift:92-101), and also for a user who presses again before  *)
(* the first press has been worked on; unless startAdvertising has thrown. *)
(***************************************************************************)
AdvertisesWhenOn ==
  scanning /\ peripheralOn /\ myEphemeralId[ble] # None /\ "advertise" \notin failed =>
    onAir # None

\* A phone that is turned on gets on the air, unless building or advertising
\* the payload has failed, of which nobody is told (orchestrator.ts:26).
BecomesVisible ==
  (scanning /\ peripheralOn) ~>
    (onAir # None \/ ~scanning \/ ~peripheralOn \/ {"uuid", "advertise"} \cap failed # {})

(***************************************************************************)
(* "Stop scanning before navigating to chat" (Home.tsx:285): a phone that  *)
(* has gone to a chat is not scanning.                                     *)
(***************************************************************************)
ChatMeansNotScanning == place = "chat" => ~scanning

(***************************************************************************)
(* The id others see, and put into a request, is the one that requests are *)
(* received under ("This will notify the other person that you want to     *)
(* connect", Home.tsx:238), once the socket is registered under an id.     *)
(***************************************************************************)
ReachableUnderOwnId ==
  ws # None /\ onAir # None /\ registeredAs[ws] # None => registeredAs[ws] = onAir
=============================================================================

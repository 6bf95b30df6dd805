-------------------------- MODULE VisibilityProofs --------------------------
(***************************************************************************)
(* The toggle and the radio, for any number of presses, turn-ons,          *)
(* rotations, failures and changes of Bluetooth.                           *)
(***************************************************************************)
EXTENDS Visibility, TLAPS, FiniteSetTheorems, FunctionTheorems, SequenceTheorems

(***************************************************************************)
(* The invariant behind SearchesWhenOn.  The toggle and the radio do not   *)
(* know each other: the flag of the native module stands between them, and *)
(* is what a change of Bluetooth goes by.  The toggle is never on without  *)
(* it; only the catch of toggle() leaves it set when the toggle goes off.  *)
(***************************************************************************)
ScanInv ==
  /\ scanning \in BOOLEAN /\ centralOn \in BOOLEAN /\ isScanning \in BOOLEAN
  /\ discovering = (isScanning /\ centralOn)
  /\ scanning => isScanning
  /\ NeverCaught => (isScanning => scanning)

LEMMA ScanInit == Init => ScanInv
  BY DEF Init, RadioInit, ScanInv, NeverCaught

\* Turning off, by whichever handler and for whichever orchestrator.
LEMMA StopKeepsScanInv ==
  ASSUME NEW o, ScanInv, StopScanning(o), UNCHANGED failed
  PROVE  ScanInv'
  BY DEF ScanInv, StopScanning, OrchestratorStop, Unsubscribe, StopRadio, StopScan

\* The handlers that touch neither the toggle nor the search.
LEMMA QuietKeepsScanInv ==
  ASSUME ScanInv, failed \subseteq failed',
         UNCHANGED <<scanning, centralOn, isScanning, discovering>>
  PROVE  ScanInv'
  BY DEF ScanInv, NeverCaught

LEMMA SystemKeepsScanInv ==
  ASSUME ScanInv, System, UNCHANGED failed
  PROVE  ScanInv'
<1>1. CASE ToggleOff
  BY <1>1, StopKeepsScanInv DEF ToggleOff
<1>2. CASE ToggleOn
  BY <1>2 DEF ToggleOn, OrchestratorStart, Subscribe, StartScanning, ScanInv
<1>3. CASE NavigateTimer \/ ToggleNoProfile
  BY <1>3, QuietKeepsScanInv DEF NavigateTimer, ToggleNoProfile, radioVars
<1>4. ASSUME NEW o \in Orch, ConnectTimer(o)
      PROVE  ScanInv'
  BY <1>4, QuietKeepsScanInv DEF ConnectTimer, radioVars, homeVars
<1>5. ASSUME NEW o \in Orch, BuildAndAdvertise(o)
      PROVE  ScanInv'
  BY <1>5, QuietKeepsScanInv DEF BuildAndAdvertise, StartAdvertising, homeVars
<1>6. ASSUME NEW o \in Orch, RotationTimer(o)
      PROVE  ScanInv'
  BY <1>6, QuietKeepsScanInv DEF RotationTimer, radioVars, homeVars
<1> QED
  BY <1>1, <1>2, <1>3, <1>4, <1>5, <1>6 DEF System

LEMMA UserKeepsScanInv ==
  ASSUME ScanInv, User, UNCHANGED failed
  PROVE  ScanInv'
<1>1. CASE TogglePress \/ OpenLinkDialog \/ CloseLinkDialog \/ HandleAcceptRequest
             \/ BackHome
  BY <1>1, QuietKeepsScanInv
  DEF TogglePress, OpenLinkDialog, CloseLinkDialog, HandleAcceptRequest, BackHome,
      radioVars
<1>2. CASE SendLinkRequest
  <2>1. CASE dialog.scanning /\ dialog.ble # None
    BY <1>2, <2>1, StopKeepsScanInv DEF SendLinkRequest
  <2>2. CASE ~(dialog.scanning /\ dialog.ble # None)
    BY <1>2, <2>2, QuietKeepsScanInv DEF SendLinkRequest, radioVars
  <2> QED
    BY <2>1, <2>2
<1> QED
  BY <1>1, <1>2 DEF User

\* After a failure of toggle() nothing is claimed about the toggle being off.
LEMMA FailureKeepsScanInv ==
  ASSUME ScanInv, NEW f, Failure(f), failed' = failed \cup {f}
  PROVE  ScanInv'
<1>1. CASE f = "profile" /\ ToggleFails
  BY <1>1 DEF ToggleFails, radioVars, ScanInv, NeverCaught
<1>2. CASE f = "scan" /\ ToggleOnFails
  BY <1>2 DEF ToggleOnFails, radioVars, ScanInv, NeverCaught
<1>3. ASSUME NEW o \in Orch, BuildFails(o) \/ AdvertiseFails(o)
      PROVE  ScanInv'
  BY <1>3, QuietKeepsScanInv DEF BuildFails, AdvertiseFails, radioVars, homeVars
<1> QED
  BY <1>1, <1>2, <1>3 DEF Failure

LEMMA EnvironmentKeepsScanInv ==
  ASSUME ScanInv, Environment, UNCHANGED failed
  PROVE  ScanInv'
<1>1. CASE TimePasses
  BY <1>1, QuietKeepsScanInv DEF TimePasses, radioVars, homeVars
<1>2. CASE CentralDidUpdateState /\ UNCHANGED homeVars
  BY <1>2 DEF CentralDidUpdateState, ScanInv, NeverCaught, homeVars
<1>3. CASE PeripheralDidUpdateState /\ UNCHANGED homeVars
  BY <1>3, QuietKeepsScanInv DEF PeripheralDidUpdateState, homeVars
<1> QED
  BY <1>1, <1>2, <1>3 DEF Environment, BluetoothChanges

(***************************************************************************)
(* While the toggle shows on the radio searches whenever Bluetooth is on   *)
(* (Home.tsx:65-144 with BLEModule.swift:53-86), for every interleaving of *)
(* presses, timers, failures and Bluetooth changes; it searches with the   *)
(* toggle off only if toggle() has come to its catch (Home.tsx:137-143).   *)
(***************************************************************************)
THEOREM ToggleTellsTheTruth == Spec => []SearchesWhenOn
<1>1. ScanInv /\ [Next]_vars => ScanInv'
  <2> SUFFICES ASSUME ScanInv, [Next]_vars
               PROVE  ScanInv'
    OBVIOUS
  <2>1. CASE Next
    BY <2>1, SystemKeepsScanInv, UserKeepsScanInv, EnvironmentKeepsScanInv,
       FailureKeepsScanInv DEF Next
  <2>2. CASE UNCHANGED vars
    BY <2>2, QuietKeepsScanInv DEF vars, modelVars, radioVars, homeVars
  <2> QED
    BY <2>1, <2>2
<1>2. ScanInv => SearchesWhenOn
  BY DEF ScanInv, SearchesWhenOn
<1> QED
  BY ScanInit, <1>1, <1>2, PTL DEF Spec

-----------------------------------------------------------------------------
(***************************************************************************)
(* The invariant behind OffMeansOff.  Turning on leaves five things in     *)
(* five places, and turning off finds each through a reference of its own: *)
(* the closure's orchestrator, sub, cleanupTimerRef and ws.  For a patient *)
(* user there is never more than one of each and every reference is to it; *)
(* the 100 ms timer, which nothing refers to, is over before the user      *)
(* acts; and what a press or a dialog saw is still so when it is used.     *)
(* Failures of a build do not matter for this, those of toggle() do.       *)
(***************************************************************************)
Running(o) ==
  /\ timers = {o} /\ listeners = {o} /\ sub = o
  /\ cleanupTimers = {o} /\ cleanupTimerRef = o
  /\ \/ connectTimers = {o} /\ sockets = {} /\ ws = None
     \/ connectTimers = {} /\ sockets \subseteq {o} /\ ws = o

Stopped ==
  /\ timers = {} /\ listeners = {} /\ cleanupTimers = {}
  /\ connectTimers = {} /\ sockets = {} /\ ws = None

Orderly ==
  /\ scanning \in BOOLEAN
  /\ scanning => Running(ble)
  /\ ~scanning => Stopped
  /\ presses = <<>> \/ (presses = <<Closure>> /\ connectTimers = {})
  /\ dialog # None => presses = <<>> /\ connectTimers = {} /\ dialog = Closure

PatientInv == hasty \in BOOLEAN /\ (~hasty /\ NeverCaught => Orderly)

LEMMA PatientInit == Init => PatientInv
  BY DEF Init, PatientInv, Orderly, Stopped

\* Handlers that leave alone everything that Orderly speaks of.
LEMMA QuietKeepsOrderly ==
  ASSUME Orderly, UNCHANGED <<scanning, ble, presses, dialog, timerVars, ws, sockets,
                              timers, listeners, sub>>
  PROVE  Orderly'
  BY DEF Orderly, Running, Stopped, Closure, timerVars

\* Turning off the orchestrator of the present render when it runs settled.
LEMMA StopStops ==
  ASSUME Running(ble), connectTimers = {}, StopScanning(ble)
  PROVE  /\ timers' = {} /\ listeners' = {} /\ cleanupTimers' = {}
         /\ sockets' = {} /\ ws' = None /\ scanning' = FALSE
  BY DEF Running, StopScanning, OrchestratorStop, Unsubscribe, Disconnect

LEMMA SystemKeepsOrderly ==
  ASSUME Orderly, System
  PROVE  Orderly'
<1>1. CASE ToggleOff
  <2>1. presses = <<Closure>> /\ connectTimers = {} /\ dialog = None
    BY <1>1 DEF ToggleOff, Orderly
  <2>2. scanning /\ Head(presses).ble = ble
    BY <1>1, <2>1 DEF ToggleOff, Closure
  <2>3. Running(ble) /\ StopScanning(ble)
    BY <1>1, <2>2 DEF ToggleOff, Orderly
  <2>4. presses' = <<>>
    BY <1>1, <2>1 DEF ToggleOff
  <2>5. UNCHANGED <<dialog, connectTimers>>
    BY <1>1 DEF ToggleOff
  <2> QED
    BY <2>1, <2>3, <2>4, <2>5, StopStops DEF Orderly, Stopped
<1>2. CASE ToggleOn
  <2>1. presses = <<Closure>> /\ connectTimers = {} /\ dialog = None
    BY <1>2 DEF ToggleOn, Orderly
  <2>2. ~scanning
    BY <1>2, <2>1 DEF ToggleOn, Closure
  <2>3. Stopped
    BY <2>2 DEF Orderly
  <2>4. presses' = <<>> /\ dialog' = None /\ scanning' = TRUE
    BY <1>2, <2>1 DEF ToggleOn
  <2>5. Running(ble)'
    BY <1>2, <2>3
    DEF ToggleOn, OrchestratorStart, BuildAndRotate, Subscribe, Listen, Stopped,
        Running, linkVars
  <2> QED
    BY <2>4, <2>5 DEF Orderly
<1>3. CASE NavigateTimer
  BY <1>3, QuietKeepsOrderly DEF NavigateTimer, linkVars, orchVars
<1>7. CASE ToggleNoProfile
  <2>1. presses = <<Closure>> /\ connectTimers = {} /\ dialog = None
    BY <1>7 DEF ToggleNoProfile, Orderly
  <2>2. presses' = <<>> /\ dialog' = None
    BY <1>7, <2>1 DEF ToggleNoProfile
  <2>3. UNCHANGED <<scanning, ble, timerVars, ws, sockets, timers, listeners, sub>>
    BY <1>7 DEF ToggleNoProfile, linkVars, orchVars
  <2> QED
    BY <2>1, <2>2, <2>3 DEF Orderly, Running, Stopped, timerVars
<1>4. ASSUME NEW o \in Orch, ConnectTimer(o)
      PROVE  Orderly'
  <2>1. scanning /\ o = ble /\ connectTimers = {ble}
    BY <1>4 DEF ConnectTimer, Orderly, Running, Stopped
  <2>2. presses = <<>> /\ dialog = None
    BY <2>1 DEF Orderly
  <2>3. connectTimers' = {} /\ ws' = ble /\ sockets' \subseteq {ble}
    BY <1>4, <2>1 DEF ConnectTimer, Connect, Orderly, Running
  <2>4. UNCHANGED <<scanning, ble, presses, dialog, cleanupTimers, cleanupTimerRef,
                    timers, listeners, sub>>
    BY <1>4 DEF ConnectTimer, homeVars, orchVars
  <2> QED
    BY <2>1, <2>2, <2>3, <2>4 DEF Orderly, Running
<1>5. ASSUME NEW o \in Orch, BuildAndAdvertise(o)
      PROVE  Orderly'
  BY <1>5, QuietKeepsOrderly DEF BuildAndAdvertise, homeVars, linkVars
<1>6. ASSUME NEW o \in Orch, RotationTimer(o)
      PROVE  Orderly'
  BY <1>6, QuietKeepsOrderly DEF RotationTimer, homeVars, linkVars
<1> QED
  BY <1>1, <1>2, <1>3, <1>4, <1>5, <1>6, <1>7 DEF System

\* A build that fails leaves everything else as it was.
LEMMA FailureKeepsOrderly ==
  ASSUME Orderly, NEW f, Failure(f), f \notin {"profile", "scan"}
  PROVE  Orderly'
<1>1. PICK o \in Orch : BuildFails(o) \/ AdvertiseFails(o)
  BY DEF Failure
<1> QED
  BY <1>1, QuietKeepsOrderly DEF BuildFails, AdvertiseFails, homeVars, linkVars

\* What the user does when everything has settled.
LEMMA UserKeepsOrderly ==
  ASSUME Orderly, User, Settled
  PROVE  Orderly'
<1>1. presses = <<>> /\ connectTimers = {}
  BY DEF Settled
<1>2. CASE TogglePress
  <2>1. dialog' = None /\ presses' = <<Closure>>
    BY <1>1, <1>2 DEF TogglePress
  <2>2. UNCHANGED <<scanning, ble, timerVars, ws, sockets, timers, listeners, sub>>
    BY <1>2 DEF TogglePress, linkVars, orchVars
  <2> QED
    BY <1>1, <2>1, <2>2 DEF Orderly, Running, Stopped, Closure, timerVars
<1>3. CASE OpenLinkDialog
  <2>1. dialog' = Closure
    BY <1>3 DEF OpenLinkDialog
  <2>2. UNCHANGED <<scanning, ble, presses, timerVars, ws, sockets, timers,
                    listeners, sub>>
    BY <1>3 DEF OpenLinkDialog, linkVars, orchVars
  <2> QED
    BY <1>1, <2>1, <2>2 DEF Orderly, Running, Stopped, Closure, timerVars
<1>4. CASE CloseLinkDialog
  <2>1. dialog' = None
    BY <1>4 DEF CloseLinkDialog
  <2>2. UNCHANGED <<scanning, ble, presses, timerVars, ws, sockets, timers,
                    listeners, sub>>
    BY <1>4 DEF CloseLinkDialog, linkVars, orchVars
  <2> QED
    BY <1>1, <2>1, <2>2 DEF Orderly, Running, Stopped, timerVars
<1>5. CASE SendLinkRequest
  <2>1. dialog = Closure /\ dialog' = None /\ presses' = <<>>
    BY <1>1, <1>5 DEF SendLinkRequest, Orderly
  <2>2. CASE dialog.scanning /\ dialog.ble # None
    <3>1. Running(ble) /\ StopScanning(ble) /\ connectTimers' = {}
      BY <1>1, <1>5, <2>1, <2>2 DEF SendLinkRequest, Orderly, Closure
    <3> QED
      BY <1>1, <2>1, <3>1, StopStops DEF Orderly, Stopped
  <2>3. CASE ~(dialog.scanning /\ dialog.ble # None)
    <3>1. UNCHANGED <<scanning, ble, timerVars, ws, sockets, timers, listeners, sub>>
      BY <1>5, <2>3 DEF SendLinkRequest, linkVars, orchVars
    <3> QED
      BY <1>1, <2>1, <3>1 DEF Orderly, Running, Stopped, timerVars
  <2> QED
    BY <2>2, <2>3
<1>6. CASE HandleAcceptRequest \/ BackHome
  BY <1>6, QuietKeepsOrderly DEF HandleAcceptRequest, BackHome, linkVars, orchVars
<1> QED
  BY <1>2, <1>3, <1>4, <1>5, <1>6 DEF User

LEMMA EnvironmentKeepsOrderly ==
  ASSUME Orderly, Environment
  PROVE  Orderly'
  BY QuietKeepsOrderly
  DEF Environment, TimePasses, BluetoothChanges, homeVars, linkVars, orchVars

(***************************************************************************)
(* A user who lets every act settle and turns visibility off leaves no     *)
(* rotation or cleanup interval, subscription or socket behind             *)
(* (Home.tsx:69-83, 256-263), however often, whatever Bluetooth and the    *)
(* rotation do meanwhile and whichever builds fail, as long as toggle()    *)
(* itself has not failed.                                                  *)
(***************************************************************************)
THEOREM PatientOffMeansOff == Spec => []OffMeansOff
<1>1. PatientInv /\ [Next]_vars => PatientInv'
  <2> SUFFICES ASSUME PatientInv, [Next]_vars
               PROVE  PatientInv'
    OBVIOUS
  <2>1. CASE (System \/ Environment) /\ UNCHANGED <<hasty, failed>>
    BY <2>1, SystemKeepsOrderly, EnvironmentKeepsOrderly DEF PatientInv, NeverCaught
  <2>2. CASE User /\ hasty' = (hasty \/ ~Settled) /\ UNCHANGED failed
    <3>1. hasty' \in BOOLEAN
      BY <2>2 DEF PatientInv
    <3>2. ~hasty' => ~hasty /\ Settled
      BY <2>2
    <3> QED
      BY <2>2, <3>1, <3>2, UserKeepsOrderly DEF PatientInv, NeverCaught
  <2>4. ASSUME NEW f \in Faults, Failure(f), failed' = failed \cup {f}, UNCHANGED hasty
        PROVE  PatientInv'
    <3>1. NeverCaught' => NeverCaught /\ f \notin {"profile", "scan"}
      BY <2>4 DEF NeverCaught
    <3> QED
      BY <2>4, <3>1, FailureKeepsOrderly DEF PatientInv
  <2>3. CASE UNCHANGED vars
    BY <2>3, QuietKeepsOrderly 
    DEF PatientInv, NeverCaught, vars, modelVars, homeVars, linkVars, orchVars
  <2> QED
    BY <2>1, <2>2, <2>3, <2>4 DEF Next
<1>2. PatientInv => OffMeansOff
  BY DEF PatientInv, Orderly, Stopped, OffMeansOff, Off
<1> QED
  BY PatientInit, <1>1, <1>2, PTL DEF Spec
-----------------------------------------------------------------------------
(***************************************************************************)
(* Type correctness.  TypeOK bounds what is being built and how often      *)
(* visibility is turned on; neither bound is a guard of the action that    *)
(* counts up.  A turn-on was paid for when the button was pressed, and a   *)
(* build beyond the first by a tick of the rotation interval.              *)
(***************************************************************************)
Opening(p) == {i \in DOMAIN p : ~p[i].scanning}

\* Every build is paid for, by the start or by a tick of the interval while it
\* runs; an orchestrator that does not exist has no id.
Accounted ==
  \A o \in Orch : /\ builds[o] <= epoch + 1 /\ rotated[o] <= epoch
                  /\ o \in timers => builds[o] <= rotated[o] + 1
                  /\ o > starts => builds[o] = 0 /\ myEphemeralId[o] = None

VisInv == TypeOK /\ starts + TurningOn <= MaxStart /\ Accounted

\* What was made stays made.
LEMMA MadeGrows ==
  ASSUME starts \in Nat, starts' \in Nat, starts <= starts'
  PROVE  /\ 1..starts \subseteq 1..starts' /\ Made \subseteq Made' /\ Seen \subseteq Seen'
         /\ \A p \in Seq(Seen) : p \in Seq(Seen')
<1>1. 1..starts \subseteq 1..starts' /\ Made \subseteq Made'
  BY DEF Made
<1>2. Seen \subseteq Seen'
  BY <1>1 DEF Seen
<1> QED
  BY <1>1, <1>2

LEMMA SameMade ==
  ASSUME UNCHANGED starts
  PROVE  Made' = Made /\ Seen' = Seen /\ None \in Made
  BY DEF Made, Seen

LEMMA OpeningFinite ==
  ASSUME NEW p \in Seq(Seen)
  PROVE  IsFiniteSet(Opening(p)) /\ Cardinality(Opening(p)) \in Nat
<1>1. IsFiniteSet(1..Len(p))
  BY FS_Interval
<1>2. Opening(p) \in SUBSET (1..Len(p))
  BY DEF Opening
<1>3. QED
  BY <1>1, <1>2, FS_Subset, FS_CardinalityType

\* A press adds one to the toggles that turn on, or none.
LEMMA OpeningPush ==
  ASSUME NEW p \in Seq(Seen), NEW c \in Seen
  PROVE  /\ c.scanning => Cardinality(Opening(Append(p, c))) = Cardinality(Opening(p))
         /\ ~c.scanning =>
              Cardinality(Opening(Append(p, c))) = Cardinality(Opening(p)) + 1
<1> DEFINE n == Len(p) + 1
<1>1. /\ DOMAIN Append(p, c) = 1..n
      /\ Append(p, c)[n] = c
      /\ \A i \in 1..Len(p) : Append(p, c)[i] = p[i]
  OBVIOUS
<1>2. Opening(Append(p, c)) = IF c.scanning THEN Opening(p) ELSE Opening(p) \cup {n}
  BY <1>1 DEF Opening
<1>3. n \notin Opening(p)
  BY DEF Opening
<1>4. IsFiniteSet(Opening(p)) /\ Cardinality(Opening(p)) \in Nat
  BY OpeningFinite
<1>5. CASE c.scanning
  BY <1>2, <1>4, <1>5
<1>6. CASE ~c.scanning
  BY <1>2, <1>3, <1>4, <1>6, FS_AddElement
<1>7. QED
  BY <1>5, <1>6

\* A toggle that resumes takes its own one away.
LEMMA OpeningPop ==
  ASSUME NEW p \in Seq(Seen), p # <<>>
  PROVE  /\ Head(p).scanning => Cardinality(Opening(Tail(p))) = Cardinality(Opening(p))
         /\ ~Head(p).scanning =>
              Cardinality(Opening(Tail(p))) = Cardinality(Opening(p)) - 1
<1> DEFINE S == Opening(Tail(p))
           T == Opening(p) \ {1}
           f == [i \in S |-> i + 1]
<1>1. /\ Tail(p) \in Seq(Seen) /\ DOMAIN Tail(p) = 1..(Len(p) - 1)
      /\ \A i \in 1..(Len(p) - 1) : Tail(p)[i] = p[i + 1]
      /\ Head(p) = p[1] /\ 1 \in DOMAIN p /\ DOMAIN p = 1..Len(p)
  OBVIOUS
<1>2. f \in [S -> T]
  BY <1>1 DEF Opening
<1>3. \A a, b \in S : f[a] = f[b] => a = b
  BY <1>1 DEF Opening
<1>4. ASSUME NEW t \in T PROVE \E i \in S : f[i] = t
  <2>1. t - 1 \in S
    BY <1>1 DEF Opening
  <2>2. f[t - 1] = t
    BY <1>1, <2>1 DEF Opening
  <2>3. QED
    BY <2>1, <2>2
<1>5. f \in Bijection(S, T)
  BY <1>2, <1>3, <1>4, Fun_IsBij
<1>6. IsFiniteSet(S) /\ IsFiniteSet(Opening(p)) /\ Cardinality(Opening(p)) \in Nat
  BY <1>1, OpeningFinite
<1>7. Cardinality(T) = Cardinality(S)
  BY <1>5, <1>6, FS_Bijection DEF ExistsBijection
<1>8. 1 \in Opening(p) <=> ~Head(p).scanning
  BY <1>1 DEF Opening
<1>9. CASE Head(p).scanning
  <2>1. T = Opening(p)
    BY <1>8, <1>9
  <2>2. QED
    BY <1>6, <1>7, <1>9, <2>1
<1>10. CASE ~Head(p).scanning
  BY <1>6, <1>7, <1>8, <1>10, FS_RemoveElement
<1>11. QED
  BY <1>9, <1>10

LEMMA InitVis == Init => VisInv
<1> SUFFICES ASSUME Init PROVE VisInv
  OBVIOUS
<1>1. TurningOn = 0
  <2>1. Opening(presses) = {}
    BY DEF Init, Opening
  <2>2. QED
    BY <2>1, FS_EmptySet DEF TurningOn, Opening
<1>2. /\ centralOn \in BOOLEAN /\ peripheralOn \in BOOLEAN
      /\ isScanning \in BOOLEAN /\ discovering \in BOOLEAN
      /\ scanning \in BOOLEAN /\ hasty \in BOOLEAN /\ failed \subseteq Faults
      /\ None \in Made
  BY DEF Init, RadioInit, Made
<1>3. RadioTypeOK /\ HomeTypeOK /\ TimerTypeOK /\ LinkTypeOK /\ OrchTypeOK
  <2>1. /\ 0 \in 0..MaxPower /\ 0 \in 0..MaxStart /\ 0 \in 0..MaxEpoch
        /\ 0 \in 0..(MaxEpoch + 1) /\ Len(<<>>) <= MaxPress /\ <<>> \in Seq(Seen)
    BY MaxPowerAssumption, VisibilityAssumption
  <2>2. QED
    BY <1>2, <2>1
    DEF Init, RadioInit, RadioTypeOK, HomeTypeOK, TimerTypeOK, LinkTypeOK, OrchTypeOK
<1>4. QED
  BY <1>1, <1>2, <1>3, VisibilityAssumption DEF Init, VisInv, Accounted, TypeOK

\* What turning off does, for whichever orchestrator the closure saw.
LEMMA StopTypes ==
  ASSUME TypeOK, NEW o, StopScanning(o), starts' = starts,
         UNCHANGED <<connectTimers, myEphemeralId, builds, sub, epoch>>
  PROVE  RadioTypeOK' /\ TimerTypeOK' /\ LinkTypeOK' /\ OrchTypeOK' /\ scanning' = FALSE
<1> USE DEF TypeOK, StopScanning, OrchestratorStop, Unsubscribe, Disconnect
<1>1. RadioTypeOK'
  BY DEF RadioTypeOK, StopRadio, StopScan, StopAdvertising
<1>2. TimerTypeOK'
  BY SameMade DEF TimerTypeOK
<1>3. LinkTypeOK'
  BY SameMade DEF LinkTypeOK
<1>4. OrchTypeOK'
  <2>1. 0 \in 0..MaxEpoch
    BY VisibilityAssumption
  <2>2. rotated' \in [Orch -> 0..MaxEpoch]
    BY <2>1 DEF OrchTypeOK
  <2> QED
    BY <2>2, SameMade DEF OrchTypeOK
<1> QED
  BY <1>1, <1>2, <1>3, <1>4

LEMMA StopAccounted ==
  ASSUME OrchTypeOK, Accounted, NEW o, StopScanning(o),
         UNCHANGED <<starts, myEphemeralId, builds, epoch>>
  PROVE  Accounted'
<1> SUFFICES ASSUME NEW x \in Orch
             PROVE  /\ builds[x] <= epoch + 1 /\ rotated'[x] <= epoch
                    /\ x \in timers' => builds[x] <= rotated'[x] + 1
                    /\ x > starts => builds[x] = 0 /\ myEphemeralId[x] = None
  BY DEF Accounted
<1>1. /\ rotated'[x] = (IF x = o THEN 0 ELSE rotated[x])
      /\ timers' = timers \ {o} /\ epoch \in Nat /\ rotated[x] \in Nat
  BY VisibilityAssumption DEF StopScanning, OrchestratorStop, OrchTypeOK
<1> QED
  BY <1>1 DEF Accounted

\* Steps that neither press the toggle nor work on a press.
LEMMA SamePresses ==
  ASSUME VisInv, UNCHANGED <<presses, starts>>, TypeOK', Accounted'
  PROVE  VisInv'
  BY DEF VisInv, TurningOn

\* Steps that only touch the state of the Home screen.
LEMMA SameElsewhere ==
  ASSUME TypeOK, UNCHANGED <<starts, radioVars, timerVars, linkVars, orchVars, epoch>>
  PROVE  RadioTypeOK' /\ TimerTypeOK' /\ LinkTypeOK' /\ OrchTypeOK'
<1> USE DEF TypeOK
<1>1. RadioTypeOK'
  BY DEF RadioTypeOK, radioVars
<1>2. TimerTypeOK' /\ LinkTypeOK'
  BY SameMade DEF TimerTypeOK, LinkTypeOK, timerVars, linkVars
<1>3. OrchTypeOK'
  BY SameMade DEF OrchTypeOK, orchVars
<1> QED
  BY <1>1, <1>2, <1>3

LEMMA ClosureSeen ==
  ASSUME TypeOK
  PROVE  Closure \in Seen /\ Closure.scanning = scanning /\ Closure.ble = ble
  BY DEF TypeOK, HomeTypeOK, Closure, Seen

\* A press that is worked on: it is off the queue, and what it would have
\* turned on no longer counts as about to be made.
LEMMA PressWorkedOn ==
  ASSUME VisInv, presses # <<>>, presses' = Tail(presses)
  PROVE  /\ Tail(presses) \in Seq(Seen) /\ Len(Tail(presses)) <= MaxPress
         /\ Head(presses) \in Seen
         /\ TurningOn \in Nat /\ TurningOn' \in Nat
         /\ Head(presses).scanning => TurningOn' = TurningOn
         /\ ~Head(presses).scanning => TurningOn' = TurningOn - 1
<1>1. presses \in Seq(Seen) /\ Len(presses) <= MaxPress /\ MaxPress \in Nat
  BY VisibilityAssumption DEF VisInv, TypeOK, HomeTypeOK
<1>2. Tail(presses) \in Seq(Seen) /\ Len(Tail(presses)) <= MaxPress
      /\ Head(presses) \in Seen
  BY <1>1
<1>3. TurningOn = Cardinality(Opening(presses))
      /\ TurningOn' = Cardinality(Opening(Tail(presses)))
  BY DEF TurningOn, Opening
<1>4. TurningOn \in Nat /\ TurningOn' \in Nat
  BY <1>1, <1>2, <1>3, OpeningFinite
<1> QED
  BY <1>1, <1>2, <1>3, <1>4, OpeningPop

\* A press that is worked on without anything being made.
LEMMA PressKeepsVis ==
  ASSUME VisInv, presses # <<>>, presses' = Tail(presses), UNCHANGED starts,
         TypeOK', Accounted'
  PROVE  VisInv'
<1>1. TurningOn \in Nat /\ TurningOn' \in Nat /\ TurningOn' <= TurningOn
  <2>1. Head(presses).scanning \in BOOLEAN
    BY PressWorkedOn DEF Seen
  <2> QED
    BY <2>1, PressWorkedOn
<1>2. starts \in Nat /\ MaxStart \in Nat /\ starts + TurningOn <= MaxStart
  BY VisibilityAssumption DEF VisInv, TypeOK, HomeTypeOK
<1>3. \A k, m, n, t \in Nat : k + m <= t /\ n <= m => k + n <= t
  OBVIOUS
<1>4. starts + TurningOn' <= MaxStart
  BY <1>1, <1>2, <1>3, Zenon
<1> QED
  BY <1>4 DEF VisInv

\* Turning on, whether or not the native startScanning throws.
LEMMA TurnOnKeepsVis ==
  ASSUME VisInv, ToggleOn \/ ToggleOnFails, hasty' \in BOOLEAN, failed' \subseteq Faults
  PROVE  VisInv'
<1> USE VisibilityAssumption
<1> DEFINE o == starts + 1
<1>0. /\ TypeOK /\ Accounted /\ starts + TurningOn <= MaxStart
      /\ RadioTypeOK /\ HomeTypeOK /\ TimerTypeOK /\ LinkTypeOK /\ OrchTypeOK
  BY DEF VisInv, TypeOK
<1>1. /\ presses # <<>> /\ presses' = Tail(presses) /\ ~Head(presses).scanning
      /\ starts' = o /\ ble' = o /\ BuildAndRotate(o) /\ Listen(o)
      /\ connectTimers' \subseteq connectTimers \cup {o}
      /\ cleanupTimers' \subseteq cleanupTimers \cup {o}
      /\ cleanupTimerRef' \in {cleanupTimerRef, o}
      /\ scanning' \in BOOLEAN
      /\ UNCHANGED <<dialog, place, linkVars, myEphemeralId, epoch>>
  BY DEF ToggleOn, ToggleOnFails, OrchestratorStart, Subscribe, timerVars
<1>2. /\ Tail(presses) \in Seq(Seen) /\ Len(Tail(presses)) <= MaxPress
      /\ TurningOn \in Nat /\ TurningOn' \in Nat /\ TurningOn' = TurningOn - 1
  BY <1>1, PressWorkedOn
<1>3. /\ o \in Orch /\ o \in 1..starts' /\ o \in Made' /\ starts' \in 0..MaxStart
      /\ starts' + TurningOn' <= MaxStart /\ starts \in Nat /\ starts <= starts'
  BY <1>0, <1>1, <1>2 DEF HomeTypeOK, Orch, Made
<1> HIDE DEF o
<1>4. /\ 1..starts \subseteq 1..starts' /\ Made \subseteq Made' /\ Seen \subseteq Seen'
      /\ Tail(presses) \in Seq(Seen')
  BY <1>2, <1>3, MadeGrows
<1>5. RadioTypeOK'
  BY <1>0
  DEF ToggleOn, ToggleOnFails, RadioTypeOK, OrchestratorStart, Subscribe, StartScanning,
      radioVars
<1>6. HomeTypeOK'
  BY <1>0, <1>1, <1>2, <1>3, <1>4 DEF HomeTypeOK
<1>7. TimerTypeOK'
  BY <1>0, <1>1, <1>3, <1>4 DEF TimerTypeOK
<1>8. LinkTypeOK'
  BY <1>0, <1>1, <1>4 DEF LinkTypeOK, linkVars
<1>9. OrchTypeOK'
  <2>1. 1 \in 0..(MaxEpoch + 1) /\ epoch \in 0..MaxEpoch
    BY <1>0 DEF OrchTypeOK
  <2> QED
    BY <1>0, <1>1, <1>3, <1>4, <2>1 DEF OrchTypeOK, BuildAndRotate, Listen
<1>10. Accounted'
  <2> SUFFICES ASSUME NEW x \in Orch
               PROVE  /\ builds'[x] <= epoch + 1 /\ rotated'[x] <= epoch
                      /\ x \in timers' => builds'[x] <= rotated'[x] + 1
                      /\ x > starts' => builds'[x] = 0 /\ myEphemeralId[x] = None
    BY <1>1 DEF Accounted
  <2>1. CASE x = o
    BY <1>0, <1>1, <1>3, <2>1 DEF BuildAndRotate, OrchTypeOK, Orch
  <2>2. CASE x # o
    <3>1. /\ builds'[x] = builds[x] /\ rotated'[x] = rotated[x]
          /\ x \in timers' => x \in timers
      BY <1>0, <1>1, <2>2 DEF BuildAndRotate, OrchTypeOK
    <3>2. x > starts' => x > starts
      BY <1>0, <1>1 DEF HomeTypeOK, Orch, o
    <3> QED
      BY <1>0, <3>1, <3>2 DEF Accounted
  <2> QED
    BY <2>1, <2>2
<1> QED
  BY <1>3, <1>5, <1>6, <1>7, <1>8, <1>9, <1>10 DEF VisInv, TypeOK

\* A payload that was being built no longer is.
LEMMA BuildEnds ==
  ASSUME VisInv, NEW o \in Orch, builds[o] > 0, hasty' \in BOOLEAN, failed' \subseteq Faults,
         builds' = [builds EXCEPT ![o] = @ - 1],
         myEphemeralId' \in {myEphemeralId, [myEphemeralId EXCEPT ![o] = <<o, epoch>>]},
         RadioTypeOK',
         UNCHANGED <<homeVars, timerVars, linkVars, timers, rotated, listeners, sub, epoch>>
  PROVE  VisInv'
<1> USE VisibilityAssumption
<1>0. /\ TypeOK /\ Accounted
      /\ HomeTypeOK /\ TimerTypeOK /\ LinkTypeOK /\ OrchTypeOK
  BY DEF VisInv, TypeOK
<1>1. <<o, epoch>> \in Id
  BY <1>0 DEF Id, OrchTypeOK
<1>2. builds[o] - 1 \in 0..(MaxEpoch + 1) /\ builds[o] \in Nat
  BY <1>0 DEF OrchTypeOK
<1>3. UNCHANGED <<starts, Made, Seen>>
  BY DEF homeVars, Made, Seen
<1>4. OrchTypeOK'
  BY <1>0, <1>1, <1>2, <1>3 DEF OrchTypeOK
<1>5. HomeTypeOK'
  BY <1>0, <1>3 DEF HomeTypeOK, homeVars
<1>6. TimerTypeOK' /\ LinkTypeOK'
  BY <1>0, <1>3 DEF TimerTypeOK, LinkTypeOK, timerVars, linkVars
<1>7. Accounted'
  <2> SUFFICES ASSUME NEW x \in Orch
               PROVE  /\ builds'[x] <= epoch + 1 /\ rotated[x] <= epoch
                      /\ x \in timers => builds'[x] <= rotated[x] + 1
                      /\ x > starts => builds'[x] = 0 /\ myEphemeralId'[x] = None
    BY <1>3 DEF Accounted
  <2>1. CASE x = o
    BY <1>0, <1>2, <2>1 DEF OrchTypeOK, Accounted
  <2>2. CASE x # o
    BY <1>0, <2>2 DEF OrchTypeOK, Accounted
  <2> QED
    BY <2>1, <2>2
<1> QED
  BY <1>4, <1>5, <1>6, <1>7, SamePresses DEF TypeOK, homeVars

LEMMA SystemKeepsVis ==
  ASSUME VisInv, System, hasty' \in BOOLEAN, failed' \subseteq Faults
  PROVE  VisInv'
<1> USE VisibilityAssumption
<1>0. /\ TypeOK /\ Accounted /\ starts + TurningOn <= MaxStart
      /\ RadioTypeOK /\ HomeTypeOK /\ TimerTypeOK /\ LinkTypeOK /\ OrchTypeOK
  BY DEF VisInv, TypeOK
<1>1. CASE ToggleOff
  <2>1. /\ presses # <<>> /\ presses' = Tail(presses)
        /\ StopScanning(Head(presses).ble)
        /\ UNCHANGED <<ble, dialog, place, starts, connectTimers, myEphemeralId,
                       builds, sub, epoch>>
    BY <1>1 DEF ToggleOff
  <2>2. /\ RadioTypeOK' /\ TimerTypeOK' /\ LinkTypeOK' /\ OrchTypeOK'
        /\ scanning' = FALSE
    BY <1>0, <2>1, StopTypes
  <2>3. HomeTypeOK'
    BY <1>0, <2>1, <2>2, PressWorkedOn DEF HomeTypeOK, Made, Seen
  <2>4. Accounted'
    BY <1>0, <2>1, StopAccounted
  <2> QED
    BY <2>1, <2>2, <2>3, <2>4, PressKeepsVis DEF TypeOK
<1>2. CASE ToggleOn
  BY <1>2, TurnOnKeepsVis
<1>7. CASE ToggleNoProfile
  <2>1. /\ presses # <<>> /\ presses' = Tail(presses)
        /\ UNCHANGED <<scanning, ble, dialog, place, starts>>
        /\ UNCHANGED <<radioVars, timerVars, linkVars, orchVars, epoch>>
    BY <1>7 DEF ToggleNoProfile
  <2>2. HomeTypeOK'
    BY <1>0, <2>1, PressWorkedOn DEF HomeTypeOK, Made, Seen
  <2>3. TypeOK' /\ Accounted'
    BY <1>0, <2>1, <2>2, SameElsewhere DEF TypeOK, Accounted, orchVars
  <2> QED
    BY <2>1, <2>3, PressKeepsVis
<1>3. CASE NavigateTimer
  <2>0. HomeTypeOK' /\ starts' = starts
    BY <1>0, <1>3, SameMade DEF NavigateTimer, HomeTypeOK
  <2>1. TypeOK'
    BY <1>0, <1>3, <2>0, SameElsewhere DEF NavigateTimer, TypeOK
  <2>2. Accounted'
    BY <1>0, <1>3 DEF NavigateTimer, Accounted, orchVars
  <2> QED
    BY <1>3, <2>1, <2>2, SamePresses DEF NavigateTimer
<1>4. ASSUME NEW o \in Orch, ConnectTimer(o)
      PROVE  VisInv'
  <2>1. TimerTypeOK' /\ LinkTypeOK'
    BY <1>0, <1>4, SameMade
    DEF ConnectTimer, Connect, TimerTypeOK, LinkTypeOK, OrchTypeOK, Made, homeVars
  <2>2. RadioTypeOK' /\ HomeTypeOK' /\ OrchTypeOK'
    BY <1>0, <1>4, SameMade, SMTT(30)
    DEF ConnectTimer, RadioTypeOK, HomeTypeOK, OrchTypeOK, radioVars, homeVars, orchVars
  <2>3. Accounted'
    BY <1>0, <1>4 DEF ConnectTimer, Accounted, orchVars, homeVars
  <2> QED
    BY <1>4, <2>1, <2>2, <2>3, SamePresses DEF ConnectTimer, homeVars, TypeOK
<1>5. ASSUME NEW o \in Orch, BuildAndAdvertise(o)
      PROVE  VisInv'
  <2>1. <<o, epoch>> \in Id
    BY <1>0 DEF Id, OrchTypeOK
  <2>2. RadioTypeOK'
    BY <1>0, <1>5, <2>1 DEF BuildAndAdvertise, StartAdvertising, Advertise, RadioTypeOK
  <2> QED
    BY <1>5, <2>2, BuildEnds DEF BuildAndAdvertise
<1>6. ASSUME NEW o \in Orch, RotationTimer(o)
      PROVE  VisInv'
  <2>1. /\ rotated[o] + 1 \in 0..MaxEpoch /\ rotated[o] + 1 <= epoch
        /\ builds[o] + 1 \in 0..(MaxEpoch + 1) /\ builds[o] + 1 <= rotated[o] + 2
    BY <1>0, <1>6 DEF RotationTimer, OrchTypeOK, Accounted
  <2>2. OrchTypeOK'
    BY <1>0, <1>6, <2>1, SameMade DEF RotationTimer, OrchTypeOK, homeVars
  <2>3. RadioTypeOK' /\ HomeTypeOK' /\ TimerTypeOK' /\ LinkTypeOK'
    BY <1>0, <1>6, SameMade
    DEF RotationTimer, RadioTypeOK, HomeTypeOK, TimerTypeOK, LinkTypeOK, radioVars,
        homeVars, timerVars, linkVars
  <2>4. Accounted'
    <3> SUFFICES ASSUME NEW x \in Orch
                 PROVE  /\ builds'[x] <= epoch + 1 /\ rotated'[x] <= epoch
                        /\ x \in timers => builds'[x] <= rotated'[x] + 1
                        /\ x > starts => builds'[x] = 0 /\ myEphemeralId[x] = None
      BY <1>6 DEF Accounted, RotationTimer, homeVars
    <3>1. CASE x = o
      BY <1>0, <1>6, <2>1, <3>1, SMTT(30)
      DEF RotationTimer, OrchTypeOK, HomeTypeOK, Accounted, Orch
    <3>2. CASE x # o
      BY <1>0, <1>6, <3>2 DEF RotationTimer, OrchTypeOK, Accounted
    <3> QED
      BY <3>1, <3>2
  <2> QED
    BY <1>6, <2>2, <2>3, <2>4, SamePresses DEF RotationTimer, homeVars, TypeOK
<1> QED
  BY <1>1, <1>2, <1>3, <1>4, <1>5, <1>6, <1>7 DEF System

LEMMA FailureKeepsVis ==
  ASSUME VisInv, NEW f, Failure(f), hasty' \in BOOLEAN, failed' \subseteq Faults
  PROVE  VisInv'
<1>0. /\ TypeOK /\ Accounted
      /\ RadioTypeOK /\ HomeTypeOK /\ TimerTypeOK /\ LinkTypeOK /\ OrchTypeOK
  BY DEF VisInv, TypeOK
<1>1. CASE ToggleFails
  <2>1. /\ presses # <<>> /\ presses' = Tail(presses) /\ scanning' = FALSE
        /\ UNCHANGED <<ble, dialog, place, starts>>
        /\ UNCHANGED <<radioVars, timerVars, linkVars, orchVars, epoch>>
    BY <1>1 DEF ToggleFails
  <2>2. HomeTypeOK'
    BY <1>0, <2>1, PressWorkedOn DEF HomeTypeOK, Made, Seen
  <2>3. TypeOK' /\ Accounted'
    BY <1>0, <2>1, <2>2, SameElsewhere DEF TypeOK, Accounted, orchVars
  <2> QED
    BY <2>1, <2>3, PressKeepsVis
<1>2. CASE ToggleOnFails
  BY <1>2, TurnOnKeepsVis
<1>3. ASSUME NEW o \in Orch, BuildFails(o) \/ AdvertiseFails(o)
      PROVE  VisInv'
  <2>1. RadioTypeOK'
    BY <1>0, <1>3 DEF BuildFails, AdvertiseFails, RadioTypeOK, radioVars
  <2> QED
    BY <1>3, <2>1, BuildEnds DEF BuildFails, AdvertiseFails
<1> QED
  BY <1>1, <1>2, <1>3 DEF Failure

LEMMA UserKeepsVis ==
  ASSUME VisInv, User, hasty' \in BOOLEAN, failed' \subseteq Faults
  PROVE  VisInv'
<1>0. /\ TypeOK /\ Accounted /\ starts + TurningOn <= MaxStart
      /\ RadioTypeOK /\ HomeTypeOK /\ TimerTypeOK /\ LinkTypeOK /\ OrchTypeOK
  BY DEF VisInv, TypeOK
<1>1. CASE TogglePress
  <2>1. /\ Len(presses) < MaxPress /\ presses' = Append(presses, Closure)
        /\ scanning \/ starts + TurningOn < MaxStart
        /\ UNCHANGED <<scanning, ble, dialog, place, starts>>
        /\ UNCHANGED <<radioVars, timerVars, linkVars, orchVars, epoch>>
    BY <1>1 DEF TogglePress
  <2>2. Closure \in Seen /\ Closure.scanning = scanning
    BY <1>0, ClosureSeen
  <2>3. HomeTypeOK'
    <3>1. Append(presses, Closure) \in Seq(Seen)
          /\ Len(Append(presses, Closure)) <= MaxPress
      BY <1>0, <2>1, <2>2, VisibilityAssumption DEF HomeTypeOK
    <3>2. QED
      BY <1>0, <2>1, <3>1, SameMade DEF HomeTypeOK
  <2>4. TypeOK'
    BY <1>0, <2>1, <2>3, SameElsewhere DEF TypeOK
  <2>5. /\ TurningOn = Cardinality(Opening(presses)) /\ TurningOn \in Nat
        /\ TurningOn' = Cardinality(Opening(Append(presses, Closure)))
    BY <1>0, <2>1, OpeningFinite DEF TurningOn, Opening, HomeTypeOK
  <2>6. /\ scanning => TurningOn' = TurningOn
        /\ ~scanning => TurningOn' = TurningOn + 1
    BY <1>0, <2>2, <2>5, OpeningPush DEF HomeTypeOK
  <2>7. starts' + TurningOn' <= MaxStart
    BY <1>0, <2>1, <2>5, <2>6, VisibilityAssumption DEF HomeTypeOK
  <2>8. Accounted'
    BY <1>0, <2>1 DEF Accounted, orchVars
  <2> QED
    BY <2>4, <2>7, <2>8 DEF VisInv
<1>2. CASE OpenLinkDialog \/ CloseLinkDialog \/ HandleAcceptRequest \/ BackHome
  <2>1. /\ UNCHANGED <<scanning, ble, presses, starts>>
        /\ UNCHANGED <<radioVars, timerVars, linkVars, orchVars, epoch>>
        /\ dialog' \in {dialog, Closure, None}
        /\ place' \in {place, "leaving", "home"}
    BY <1>2 DEF OpenLinkDialog, CloseLinkDialog, HandleAcceptRequest, BackHome
  <2>2. HomeTypeOK'
    BY <1>0, <2>1, ClosureSeen, SameMade DEF HomeTypeOK
  <2>3. TypeOK' /\ Accounted'
    BY <1>0, <2>1, <2>2, SameElsewhere DEF TypeOK, Accounted, orchVars
  <2> QED
    BY <2>1, <2>3, SamePresses
<1>3. CASE SendLinkRequest
  <2>1. dialog' = None /\ place' = "chat" /\ UNCHANGED <<ble, presses, starts, epoch>>
    BY <1>3 DEF SendLinkRequest
  <2>2. CASE dialog.scanning /\ dialog.ble # None
    <3>1. /\ StopScanning(dialog.ble)
          /\ UNCHANGED <<connectTimers, myEphemeralId, builds, sub>>
      BY <1>3, <2>2 DEF SendLinkRequest
    <3>2. /\ RadioTypeOK' /\ TimerTypeOK' /\ LinkTypeOK' /\ OrchTypeOK'
          /\ scanning' = FALSE
      BY <1>0, <2>1, <3>1, StopTypes
    <3>3. HomeTypeOK'
      BY <1>0, <2>1, <3>2, SameMade DEF HomeTypeOK
    <3>4. Accounted'
      BY <1>0, <2>1, <3>1, StopAccounted
    <3> QED
      BY <2>1, <3>2, <3>3, <3>4, SamePresses DEF TypeOK
  <2>3. CASE ~(dialog.scanning /\ dialog.ble # None)
    <3>1. UNCHANGED <<radioVars, scanning, timerVars, linkVars, orchVars>>
      BY <1>3, <2>3 DEF SendLinkRequest
    <3>2. HomeTypeOK'
      BY <1>0, <2>1, <3>1, SameMade DEF HomeTypeOK
    <3>3. TypeOK' /\ Accounted'
      BY <1>0, <2>1, <3>1, <3>2, SameElsewhere DEF TypeOK, Accounted, orchVars
    <3> QED
      BY <2>1, <3>3, SamePresses
  <2> QED
    BY <2>2, <2>3
<1> QED
  BY <1>1, <1>2, <1>3 DEF User

LEMMA EnvironmentKeepsVis ==
  ASSUME VisInv, Environment, hasty' \in BOOLEAN, failed' \subseteq Faults
  PROVE  VisInv'
<1>0. /\ TypeOK /\ Accounted
      /\ RadioTypeOK /\ HomeTypeOK /\ TimerTypeOK /\ LinkTypeOK /\ OrchTypeOK
  BY DEF VisInv, TypeOK
<1>1. UNCHANGED homeVars /\ UNCHANGED timerVars /\ UNCHANGED linkVars
      /\ UNCHANGED orchVars
  BY DEF Environment, TimePasses, BluetoothChanges
<1>2. HomeTypeOK' /\ TimerTypeOK' /\ LinkTypeOK'
  BY <1>0, <1>1, SameMade
  DEF HomeTypeOK, TimerTypeOK, LinkTypeOK, homeVars, timerVars, linkVars
<1>3. epoch' \in 0..MaxEpoch /\ epoch <= epoch'
  BY <1>0, VisibilityAssumption DEF Environment, TimePasses, BluetoothChanges, OrchTypeOK
<1>4. OrchTypeOK' /\ Accounted'
  BY <1>0, <1>1, <1>3, SameMade, VisibilityAssumption
  DEF OrchTypeOK, Accounted, orchVars, homeVars
<1>5. RadioTypeOK'
  <2>1. CASE TimePasses
    BY <1>0, <2>1 DEF TimePasses, RadioTypeOK, radioVars
  <2>2. CASE CentralDidUpdateState
    BY <1>0, <2>2, MaxPowerAssumption DEF CentralDidUpdateState, RadioTypeOK
  <2>3. CASE PeripheralDidUpdateState
    BY <1>0, <2>3, MaxPowerAssumption DEF PeripheralDidUpdateState, RadioTypeOK
  <2> QED
    BY <2>1, <2>2, <2>3 DEF Environment, BluetoothChanges
<1> QED
  BY <1>1, <1>2, <1>4, <1>5, SamePresses DEF TypeOK, homeVars

LEMMA NextVis == VisInv /\ [Next]_vars => VisInv'
<1> SUFFICES ASSUME VisInv, [Next]_vars PROVE VisInv'
  OBVIOUS
<1>0. hasty \in BOOLEAN /\ failed \subseteq Faults
  BY DEF VisInv, TypeOK
<1>1. CASE (System \/ Environment) /\ UNCHANGED <<hasty, failed>>
  BY <1>0, <1>1, SystemKeepsVis, EnvironmentKeepsVis
<1>2. CASE User /\ hasty' = (hasty \/ ~Settled) /\ UNCHANGED failed
  <2>1. hasty' \in BOOLEAN
    BY <1>2
  <2> QED
    BY <1>0, <1>2, <2>1, UserKeepsVis
<1>4. ASSUME NEW f \in Faults, Failure(f), failed' = failed \cup {f}, UNCHANGED hasty
      PROVE  VisInv'
  BY <1>0, <1>4, FailureKeepsVis
<1>3. CASE UNCHANGED vars
  <2>1. HomeTypeOK' /\ UNCHANGED <<presses, starts>>
    BY <1>3, SameMade DEF VisInv, TypeOK, HomeTypeOK, vars, modelVars, homeVars
  <2>2. TypeOK' /\ Accounted'
    BY <1>3, <2>1, SameElsewhere
    DEF VisInv, TypeOK, Accounted, vars, modelVars, orchVars, homeVars
  <2> QED
    BY <2>1, <2>2, SamePresses
<1> QED
  BY <1>1, <1>2, <1>3, <1>4 DEF Next

(***************************************************************************)
(* Every handle, id and interval that Home, the orchestrators and the      *)
(* native module keep is of its kind, and whatever a ref, a press or a     *)
(* dialog has captured was made before (Home.tsx:65-144, 256-263), for all *)
(* bounds, however hasty the user and whatever fails.                      *)
(***************************************************************************)
THEOREM VisibilityTypeCorrect == Spec => []TypeOK
<1>1. Spec => []VisInv
  BY InitVis, NextVis, PTL DEF Spec
<1>2. VisInv => TypeOK
  BY DEF VisInv
<1> QED
  BY <1>1, <1>2, PTL
-----------------------------------------------------------------------------
(***************************************************************************)
(* The invariant behind AdvertisesWhenOn.  A change of Bluetooth restores  *)
(* what the native module remembers, not what the orchestrator built: so   *)
(* once the current orchestrator has an id, some payload is remembered.    *)
(* That a new orchestrator starts without an id comes from VisInv.  A      *)
(* startAdvertising that throws leaves an id that nothing was remembered   *)
(* for, so the invariant says nothing from then on.                        *)
(***************************************************************************)
Built == scanning /\ myEphemeralId[ble] # None /\ "advertise" \notin failed

AirInv ==
  /\ VisInv
  /\ scanning => ble \in Orch
  /\ Built => advertisePayload # None /\ (peripheralOn => onAir # None)

\* Steps that leave the toggle, the ids and the payloads alone.
LEMMA QuietKeepsAir ==
  ASSUME AirInv, VisInv', failed \subseteq failed',
         UNCHANGED <<scanning, ble, myEphemeralId, advertisePayload, peripheralOn, onAir>>
  PROVE  AirInv'
  BY DEF AirInv, Built

LEMMA StopKeepsAir ==
  ASSUME VisInv', NEW o, StopScanning(o)
  PROVE  AirInv'
  BY DEF AirInv, Built, StopScanning

LEMMA SystemKeepsAir ==
  ASSUME AirInv, VisInv', System, UNCHANGED failed
  PROVE  AirInv'
<1>1. CASE ToggleOff
  BY <1>1, StopKeepsAir DEF ToggleOff
<1>2. CASE ToggleOn
  <2>1. ble' = starts + 1 /\ starts' = starts + 1 /\ myEphemeralId' = myEphemeralId
    BY <1>2 DEF ToggleOn
  <2>2. ble' \in Orch /\ ble' > starts
    BY <2>1 DEF AirInv, VisInv, TypeOK, HomeTypeOK, Orch
  <2>3. myEphemeralId'[ble'] = None
    BY <2>1, <2>2 DEF AirInv, VisInv, Accounted
  <2> QED
    BY <2>2, <2>3 DEF AirInv, Built
<1>3. CASE NavigateTimer \/ ToggleNoProfile
  BY <1>3, QuietKeepsAir DEF NavigateTimer, ToggleNoProfile, radioVars, orchVars
<1>4. ASSUME NEW o \in Orch, ConnectTimer(o)
      PROVE  AirInv'
  BY <1>4, QuietKeepsAir DEF ConnectTimer, radioVars, homeVars, orchVars
<1>5. ASSUME NEW o \in Orch, BuildAndAdvertise(o)
      PROVE  AirInv'
  <2>1. <<o, epoch>> # None
    <3>1. o \in Nat /\ epoch \in Nat
      BY DEF AirInv, VisInv, TypeOK, OrchTypeOK, Orch
    <3>2. <<o, epoch>> \in Nat \X Nat
      BY <3>1
    <3> QED
      BY <3>2, VisibilityAssumption
  <2>2. advertisePayload' # None /\ (peripheralOn' => onAir' # None)
    BY <1>5, <2>1 DEF BuildAndAdvertise, StartAdvertising, Advertise
  <2>3. UNCHANGED <<scanning, ble>>
    BY <1>5 DEF BuildAndAdvertise, homeVars
  <2> QED
    BY <2>2, <2>3 DEF AirInv
<1>6. ASSUME NEW o \in Orch, RotationTimer(o)
      PROVE  AirInv'
  BY <1>6, QuietKeepsAir DEF RotationTimer, radioVars, homeVars
<1> QED
  BY <1>1, <1>2, <1>3, <1>4, <1>5, <1>6 DEF System

LEMMA FailureKeepsAir ==
  ASSUME AirInv, VisInv', NEW f, Failure(f), failed' = failed \cup {f}
  PROVE  AirInv'
<1>1. CASE ToggleFails \/ ToggleOnFails
  BY <1>1 DEF ToggleFails, ToggleOnFails, AirInv, Built
<1>2. ASSUME NEW o \in Orch, BuildFails(o)
      PROVE  AirInv'
  BY <1>2, QuietKeepsAir DEF BuildFails, radioVars, homeVars
<1>3. ASSUME NEW o \in Orch, f = "advertise", AdvertiseFails(o)
      PROVE  AirInv'
  <2>1. UNCHANGED <<scanning, ble>> /\ "advertise" \in failed'
    BY <1>3 DEF AdvertiseFails, homeVars
  <2> QED
    BY <2>1 DEF AirInv, Built
<1> QED
  BY <1>1, <1>2, <1>3 DEF Failure

LEMMA UserKeepsAir ==
  ASSUME AirInv, VisInv', User, UNCHANGED failed
  PROVE  AirInv'
<1>1. CASE TogglePress \/ OpenLinkDialog \/ CloseLinkDialog \/ HandleAcceptRequest
             \/ BackHome
  BY <1>1, QuietKeepsAir
  DEF TogglePress, OpenLinkDialog, CloseLinkDialog, HandleAcceptRequest, BackHome,
      radioVars, orchVars
<1>2. CASE SendLinkRequest
  <2>1. CASE dialog.scanning /\ dialog.ble # None
    BY <1>2, <2>1, StopKeepsAir DEF SendLinkRequest
  <2>2. CASE ~(dialog.scanning /\ dialog.ble # None)
    BY <1>2, <2>2, QuietKeepsAir DEF SendLinkRequest, radioVars, orchVars
  <2> QED
    BY <2>1, <2>2
<1> QED
  BY <1>1, <1>2 DEF User

LEMMA EnvironmentKeepsAir ==
  ASSUME AirInv, VisInv', Environment, UNCHANGED failed
  PROVE  AirInv'
<1>1. CASE TimePasses
  BY <1>1, QuietKeepsAir DEF TimePasses, radioVars, homeVars, orchVars
<1>2. CASE CentralDidUpdateState /\ UNCHANGED <<homeVars, orchVars>>
  BY <1>2, QuietKeepsAir DEF CentralDidUpdateState, homeVars, orchVars
<1>3. CASE PeripheralDidUpdateState /\ UNCHANGED <<homeVars, orchVars>>
  <2>1. UNCHANGED <<scanning, ble, myEphemeralId, advertisePayload>>
    BY <1>3 DEF PeripheralDidUpdateState, homeVars, orchVars
  <2>2. peripheralOn' => onAir' = advertisePayload
    BY <1>3 DEF PeripheralDidUpdateState
  <2> QED
    BY <2>1, <2>2 DEF AirInv, Built
<1> QED
  BY <1>1, <1>2, <1>3 DEF Environment, BluetoothChanges

(***************************************************************************)
(* Once an id was built for the current turn-on the phone is on the air    *)
(* whenever Bluetooth is on (orchestrator.ts:44-57, BLEModule.swift:88-101),*)
(* for any user, any rotation, any changes of Bluetooth and any failure    *)
(* but that of startAdvertising itself.                                    *)
(***************************************************************************)
THEOREM VisibleWhenOn == Spec => []AdvertisesWhenOn
<1>1. Init => AirInv
  BY InitVis DEF Init, AirInv, Built
<1>2. AirInv /\ [Next]_vars => AirInv'
  <2> SUFFICES ASSUME AirInv, [Next]_vars
               PROVE  AirInv'
    OBVIOUS
  <2>1. VisInv'
    BY NextVis DEF AirInv
  <2>2. CASE Next
    BY <2>1, <2>2, SystemKeepsAir, UserKeepsAir, EnvironmentKeepsAir, FailureKeepsAir
    DEF Next
  <2>3. CASE UNCHANGED vars
    BY <2>1, <2>3, QuietKeepsAir DEF vars, modelVars, radioVars, homeVars, orchVars
  <2> QED
    BY <2>2, <2>3
<1>3. AirInv => AdvertisesWhenOn
  BY DEF AirInv, Built, AdvertisesWhenOn
<1> QED
  BY <1>1, <1>2, <1>3, PTL DEF Spec
=============================================================================

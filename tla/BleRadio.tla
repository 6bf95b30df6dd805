------------------------------ MODULE BleRadio ------------------------------
(***************************************************************************)
(* The native module of one phone, mobile/CloseApp/ios/CloseApp/           *)
(* BLEModule.swift: what the app asked for, kept across Bluetooth being    *)
(* switched off and on, and what the radio really does.                    *)
(***************************************************************************)
EXTENDS Naturals

CONSTANTS
  None,     \* nil
  MaxPower  \* bound: how often Bluetooth changes state

ASSUME MaxPowerAssumption == MaxPower \in Nat

VARIABLES
  centralOn,         \* centralManager.state = .poweredOn
  peripheralOn,      \* peripheralManager.state = .poweredOn
  isScanning,        \* the module's flag
  discovering,       \* CoreBluetooth is scanning
  advertisePayload,  \* the module's copy of the last payload
  onAir,             \* the payload CoreBluetooth is advertising
  powerEvents        \* how many state changes there were

radioVars == <<centralOn, peripheralOn, isScanning, discovering,
               advertisePayload, onAir, powerEvents>>

RadioInit ==
  /\ centralOn = TRUE /\ peripheralOn = TRUE
  /\ isScanning = FALSE /\ discovering = FALSE
  /\ advertisePayload = None /\ onAir = None
  /\ powerEvents = 0

(***************************************************************************)
(* peripheralManager.startAdvertising: when the manager is advertising     *)
(* already, CoreBluetooth may refuse and keep the old payload.             *)
(***************************************************************************)
Advertise(payload) ==
  \/ onAir' = payload
  \/ onAir # None /\ UNCHANGED onAir

\* startAdvertising: remembered, and begun now if Bluetooth is on.
StartAdvertising(payload) ==
  /\ advertisePayload' = payload
  /\ IF peripheralOn THEN Advertise(payload) ELSE UNCHANGED onAir
  /\ UNCHANGED <<centralOn, peripheralOn, isScanning, discovering, powerEvents>>

\* startScanning: the flag is all that remains while Bluetooth is off.  Taken as
\* one step, although the delegate runs on the main queue and this does not.
StartScanning ==
  /\ isScanning' = TRUE
  /\ discovering' = (discovering \/ centralOn)
  /\ UNCHANGED <<centralOn, peripheralOn, advertisePayload, onAir, powerEvents>>

\* stopScanning
StopScan == isScanning' = FALSE /\ discovering' = FALSE

\* stopAdvertising: the payload stays remembered.
StopAdvertising == onAir' = None /\ UNCHANGED advertisePayload

\* Both, as BleOrchestrator.stop calls them.
StopRadio ==
  StopScan /\ StopAdvertising /\ UNCHANGED <<centralOn, peripheralOn, powerEvents>>

\* Variant with a bug: scanning does not resume when Bluetooth comes back.
CentralForgets ==
  /\ powerEvents < MaxPower
  /\ powerEvents' = powerEvents + 1
  /\ centralOn' = ~centralOn
  /\ discovering' = FALSE
  /\ UNCHANGED <<peripheralOn, isScanning, advertisePayload, onAir>>

\* centralManagerDidUpdateState
CentralDidUpdateState ==
  /\ powerEvents < MaxPower
  /\ powerEvents' = powerEvents + 1
  /\ centralOn' = ~centralOn
  /\ discovering' = (isScanning /\ ~centralOn)
  /\ UNCHANGED <<peripheralOn, isScanning, advertisePayload, onAir>>

\* Variant with a bug: advertising does not resume when Bluetooth comes back.
PeripheralForgets ==
  /\ powerEvents < MaxPower
  /\ powerEvents' = powerEvents + 1
  /\ peripheralOn' = ~peripheralOn
  /\ onAir' = None
  /\ UNCHANGED <<centralOn, isScanning, discovering, advertisePayload>>

\* peripheralManagerDidUpdateState
PeripheralDidUpdateState ==
  /\ powerEvents < MaxPower
  /\ powerEvents' = powerEvents + 1
  /\ peripheralOn' = ~peripheralOn
  /\ onAir' = IF peripheralOn THEN None ELSE advertisePayload
  /\ UNCHANGED <<centralOn, isScanning, discovering, advertisePayload>>
=============================================================================

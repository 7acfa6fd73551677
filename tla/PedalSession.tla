---------------------------- MODULE PedalSession ----------------------------
(***************************************************************************)
(* A program that looks for its pedals and uses one of them: hpr.Manager    *)
(* and the HID scanner (HprScan), and the device that the Open of a         *)
(* ScannedDevice returns (SimagicDevice).                                   *)
(***************************************************************************)
EXTENDS SimagicDevice, HprScan

CONSTANT Pedal      \* the interface of the pedals SimagicDevice is about

sessionVars == <<vars, scanVars>>

SessionInit == Init /\ ScanInit

\* The program scans, and may scan again, before it opens a device.
Scan == phase = "none" /\ ScanNext /\ UNCHANGED vars

\* ScannedDevice.Open of a pedal that was listed and claimed by the Simagic
\* driver.  The list is dropped.
OpenFound ==
    /\ scan = "done" /\ \E i \in Listed(Pedal) : found[i].driver = "simagic"
    /\ OpenTransport
    /\ scan' = "idle" /\ order' = <<>> /\ at' = 1 /\ raw' = <<>> /\ found' = <<>>
    /\ probe' = FALSE /\ joystick' = FALSE /\ silent' = [d \in Interfaces |-> {}]

\* The pedal, its device and the callers.
DeviceStep == Next /\ (phase = "none" => phase' = "none") /\ UNCHANGED scanVars

SessionNext == Scan \/ OpenFound \/ DeviceStep

SessionSpec == SessionInit /\ [][SessionNext]_sessionVars /\ Fairness
=============================================================================

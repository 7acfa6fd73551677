--------------------------- MODULE DeviceProtocol ---------------------------
(***************************************************************************)
(* What controller.Manager relies on in its backend, for one device        *)
(* (pkg/controller/manager.go, backendSink): the positions of its axes come *)
(* in the syncDevices that opens it, before it is used; events come only    *)
(* while it is listed and no syncDevices is under way; and whoever takes it *)
(* off the list has let go of its buttons.  DirectInputDevice implements    *)
(* it, and ControllerManager assumes no more of its backend.                *)
(***************************************************************************)
CONSTANT Buttons

VARIABLES
    phase,      \* the backend: "init", "run", "sync", "stop" or "over"
    listed,     \* the device is in Manager.devices
    sampled,    \* Manager.axisValues has it: "no", "now" (by this sync) or "yes"
    down        \* buttons reported as pressed

deviceVars == <<phase, listed, sampled, down>>

DeviceInit == phase = "init" /\ ~listed /\ sampled = "no" /\ down = {}

SyncBegin == phase = "run" /\ phase' = "sync" /\ UNCHANGED <<listed, sampled, down>>

\* syncAxis of every axis; a device that was opened before is left alone.
SyncAxes ==
    /\ phase \in {"init", "sync"} /\ sampled # "yes"
    /\ sampled' = "now"
    /\ UNCHANGED <<phase, listed, down>>

\* Releases of a device that is gone, then setDevices.
SetDevices ==
    /\ phase \in {"init", "sync"} /\ phase' = "run"
    /\ \/ /\ listed' = TRUE /\ UNCHANGED down
          /\ sampled' = IF sampled = "no" THEN "no" ELSE "yes"
       \/ sampled # "now" /\ listed' = FALSE /\ sampled' = "no" /\ down' = {}

\* The devices could not be enumerated.
SyncFails ==
    /\ phase \in {"init", "sync"} /\ sampled # "now"
    /\ phase' = IF phase = "init" THEN "stop" ELSE "run"
    /\ UNCHANGED <<listed, sampled, down>>

\* emitButton and emitAxis.
Emit ==
    /\ phase = "run" /\ listed
    /\ down' \in SUBSET Buttons /\ sampled' \in {sampled, "yes"}
    /\ UNCHANGED <<phase, listed>>

Stop == phase = "run" /\ phase' = "stop" /\ UNCHANGED <<listed, sampled, down>>

\* releaseAll
ReleaseAll ==
    /\ phase = "stop" /\ phase' = "over"
    /\ listed' = FALSE /\ sampled' = "no" /\ down' = {}

DeviceNext == SyncBegin \/ SyncAxes \/ SetDevices \/ SyncFails \/ Emit \/ Stop \/ ReleaseAll

DeviceSpec == DeviceInit /\ [][DeviceNext]_deviceVars
=============================================================================

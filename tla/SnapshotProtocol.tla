-------------------------- MODULE SnapshotProtocol --------------------------
(***************************************************************************)
(* What input.Manager relies on in its source (pkg/input/types.go, source):  *)
(* a device is announced, then gives one baseline, then changes, and can    *)
(* be announced again only after it was withdrawn; once the source is over  *)
(* nothing follows.  NativeSource implements it towards the reader, and    *)
(* InputManager models every source that keeps to it.                      *)
(***************************************************************************)
CONSTANT Devices

VARIABLES
    stage,  \* stage[d]: "absent", "announced" or "ready"
    over    \* the reader was told that the source has ended

protocolVars == <<stage, over>>

ProtocolInit == stage = [d \in Devices |-> "absent"] /\ over = FALSE

Shift(d, from, to) ==
    /\ ~over /\ stage[d] = from
    /\ stage' = [stage EXCEPT ![d] = to]
    /\ UNCHANGED over

Announce(d) == Shift(d, "absent", "announced")
Baseline(d) == Shift(d, "announced", "ready")
Withdraw(d) == Shift(d, "ready", "absent")
End == ~over /\ over' = TRUE /\ UNCHANGED stage

ProtocolNext == End \/ \E d \in Devices : Announce(d) \/ Baseline(d) \/ Withdraw(d)

ProtocolSpec == ProtocolInit /\ [][ProtocolNext]_protocolVars
=============================================================================

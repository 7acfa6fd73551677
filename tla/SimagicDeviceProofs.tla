------------------------- MODULE SimagicDeviceProofs -------------------------
(***************************************************************************)
(* Proofs about SimagicDevice, for any callers, targets, commands and      *)
(* limits, and about PedalSession: a scan finds every pedal that answers,  *)
(* and a program that scans before it opens uses its pedals as             *)
(* SimagicDevice allows, so what is proved holds there.                    *)
(***************************************************************************)
EXTENDS PedalSession, FiniteSetTheorems, SequenceTheorems, WellFoundedInduction, TLAPS

-----------------------------------------------------------------------------
(* The inductive invariant.                                                *)

\* A caller in Vibrate, Pulse or Stop knows its target.
ArgInv == \A c \in Callers :
    /\ pc[c] \in {"vibrate", "pulse", "sleep"} => arg[c] \in Targets \X Commands
    /\ pc[c] = "stop" => arg[c] # <<>>

\* The record of a stop is true, unless a report said to have failed arrived.
RecordInv == \A t \in Targets : (last[t] = Off /\ t \notin doubt) => motor[t] = Off

\* What Close has stopped stays so until it returns, and after that.
QuietInv ==
    /\ todo # {} => phase \in {"opening", "closing"}
    /\ (phase = "closing" /\ ~failed) => \A t \in Targets \ todo : motor[t] = Off
    /\ ClosedIsQuiet

IInv == TypeOK /\ ArgInv /\ RecordInv /\ QuietInv /\ NoHandleLeak

-----------------------------------------------------------------------------
(* What goes over the wire.                                                *)

\* Whatever the caller asks for, the command sent is one the pedal understands.
LEMMA NormalizedInRange == \A cmd \in Commands : Normalized(cmd) \in Wires
<1> SUFFICES ASSUME NEW cmd \in Commands PROVE Normalized(cmd) \in Wires
    OBVIOUS
<1>1. cmd.frequency \in 0..255 /\ cmd.amplitude \in 0..255
    BY BoundsAssumption DEF Commands
<1>2. Clamp(cmd.frequency, MinFrequency, MaxFrequency) \in MinFrequency..MaxFrequency
    BY <1>1, BoundsAssumption DEF Clamp
<1>3. Clamp(cmd.amplitude, 0, MaxAmplitude) \in 0..MaxAmplitude
    BY <1>1, BoundsAssumption DEF Clamp
<1>4. CASE cmd.state = "off" \/ Clamp(cmd.amplitude, 0, MaxAmplitude) = 0
    BY <1>4 DEF Normalized, Wires
<1>5. CASE cmd.state # "off" /\ Clamp(cmd.amplitude, 0, MaxAmplitude) # 0
    <2>1. Clamp(cmd.amplitude, 0, MaxAmplitude) \in 1..MaxAmplitude
        BY <1>3, <1>5, BoundsAssumption
    <2> QED BY <1>2, <1>5, <2>1 DEF Normalized, Wires
<1> QED BY <1>4, <1>5

LEMMA KnownWires == Off \in Wires /\ Strongest \in Wires
BY BoundsAssumption DEF Wires, Strongest

\* No record is mistaken for a stop.
LEMMA NoCommandIsNotOff == NoCommand # Off
<1>1. DOMAIN NoCommand = {}
    BY DEF NoCommand
<1>2. "state" \in DOMAIN Off
    BY DEF Off
<1> QED BY <1>1, <1>2

\* A command with its target is not the empty argument.
LEMMA PairNotEmpty == \A a \in Targets \X (Commands \cup {Off}) : a # <<>>
<1> SUFFICES ASSUME NEW t \in Targets, NEW cmd \in Commands \cup {Off} PROVE <<t, cmd>> # <<>>
    OBVIOUS
<1>1. DOMAIN <<t, cmd>> = 1..2 /\ DOMAIN <<>> = {}
    OBVIOUS
<1>2. 1 \in 1..2
    OBVIOUS
<1> QED BY <1>1, <1>2

-----------------------------------------------------------------------------
(* The initial states.                                                     *)

LEMMA InvInit == Init => IInv
<1> SUFFICES ASSUME Init PROVE IInv
    OBVIOUS
<1>1. TypeOK
    <2>1. motor \in [Targets -> Wires] /\ last \in [Targets -> Wires \cup {NoCommand}]
        BY KnownWires DEF Init
    <2>2. queue \in Seq(Positions) /\ Len(queue) <= QueueCap
        BY QueueAssumption DEF Init
    <2>3. /\ pc \in [Callers -> {"idle"}] /\ arg \in [Callers -> {<<>>}]
          /\ during \in [Callers -> {{}}]
        BY DEF Init
    <2>4. todo \subseteq Targets /\ doubt \subseteq Targets
        BY DEF Init
    <2>5. returned \in {<<>>} /\ phase \in {"none"}
        BY DEF Init
    <2> QED BY <2>1, <2>2, <2>3, <2>4, <2>5 DEF Init, TypeOK
<1>2. RecordInv
    BY NoCommandIsNotOff DEF Init, RecordInv
<1>3. ArgInv
    BY DEF Init, ArgInv
<1>4. QuietInv /\ NoHandleLeak
    BY DEF Init, QuietInv, ClosedIsQuiet, NoHandleLeak
<1> QED BY <1>1, <1>2, <1>3, <1>4 DEF IInv

-----------------------------------------------------------------------------
(* The parts that several actions share.                                   *)

\* A feature report, sent, failed or dropped as a repetition, keeps the record
\* true.
LEMMA SendStep ==
    ASSUME TypeOK, RecordInv, NEW t \in Targets, NEW wire \in Wires,
           \/ Sent(t, wire) \/ SendFails(t, wire)
           \/ Repeats(t, wire) /\ UNCHANGED <<last, motor, doubt>>
    PROVE  /\ last' \in [Targets -> Wires \cup {NoCommand}]
           /\ motor' \in [Targets -> Wires]
           /\ doubt' \subseteq Targets
           /\ RecordInv'
<1>1. CASE Sent(t, wire)
    BY <1>1 DEF Sent, TypeOK, RecordInv
<1>2. CASE SendFails(t, wire)
    BY <1>2 DEF SendFails, TypeOK, RecordInv
<1>3. CASE UNCHANGED <<last, motor, doubt>>
    BY <1>3 DEF TypeOK, RecordInv
<1> QED BY <1>1, <1>2, <1>3

Results == {"ok", "error", "closed"} \cup Positions

LEMMA ReturnStep ==
    ASSUME TypeOK, ArgInv, NEW c \in Callers, NEW what \in Results, Return(c, what)
    PROVE  /\ pc' \in [Callers -> {"idle", "vibrate", "pulse", "sleep", "stop", "close", "read", "wait"}]
           /\ arg' \in [Callers -> {<<>>} \cup Targets \X (Commands \cup {Off})]
           /\ returned' \in {<<>>} \cup Callers \X Results
           /\ during' \in [Callers -> SUBSET Positions]
           /\ ArgInv'
<1>1. arg' \in [Callers -> {<<>>} \cup Targets \X (Commands \cup {Off})]
    BY DEF Return, TypeOK
<1>2. pc' \in [Callers -> {"idle", "vibrate", "pulse", "sleep", "stop", "close", "read", "wait"}]
    BY DEF Return, TypeOK
<1>3. during' \in [Callers -> SUBSET Positions]
    BY DEF Return, TypeOK
<1>4. ArgInv'
    BY DEF Return, TypeOK, ArgInv
<1> QED BY <1>1, <1>2, <1>3, <1>4 DEF Return

LEMMA EnterStep ==
    ASSUME IInv, NEW c \in Callers,
           NEW method \in {"vibrate", "pulse", "stop", "close", "read"},
           NEW a \in {<<>>} \cup Targets \X (Commands \cup {Off}), Enter(c, method, a),
           method \in {"vibrate", "pulse"} => a \in Targets \X Commands,
           method = "stop" => a # <<>>,
           during' \in [Callers -> SUBSET Positions]
    PROVE  IInv'
<1> USE DEF Enter, deviceVars, lockVars, pedalVars
<1>1. TypeOK'
    BY DEF TypeOK, IInv
<1>2. ArgInv'
    BY DEF ArgInv, TypeOK, IInv
<1>3. RecordInv' /\ QuietInv' /\ NoHandleLeak'
    BY DEF RecordInv, QuietInv, ClosedIsQuiet, NoHandleLeak, IInv
<1> QED BY <1>1, <1>2, <1>3 DEF IInv

-----------------------------------------------------------------------------
(* The steps of the calls that take one step.                              *)

LEMMA VibrateStep ==
    ASSUME IInv, NEW c \in Callers, Vibrate(c) PROVE IInv'
<1> DEFINE t == arg[c][1]
           wire == Normalized(arg[c][2])
<1>1. arg[c] \in Targets \X Commands
    BY DEF Vibrate, IInv, ArgInv
<1>2. t \in Targets /\ wire \in Wires
    BY <1>1, NormalizedInRange
<1>3. /\ last' \in [Targets -> Wires \cup {NoCommand}]
      /\ motor' \in [Targets -> Wires]
      /\ doubt' \subseteq Targets
      /\ RecordInv'
    <2> HIDE DEF t, wire
    <2>1. \/ Sent(t, wire) \/ SendFails(t, wire)
          \/ Repeats(t, wire) /\ UNCHANGED <<last, motor, doubt>>
        BY DEF Vibrate, t, wire
    <2> QED BY <1>2, <2>1, SendStep DEF IInv
<1>4. /\ pc' \in [Callers -> {"idle", "vibrate", "pulse", "sleep", "stop", "close", "read", "wait"}]
      /\ arg' \in [Callers -> {<<>>} \cup Targets \X (Commands \cup {Off})]
      /\ returned' \in {<<>>} \cup Callers \X Results
      /\ during' \in [Callers -> SUBSET Positions]
      /\ ArgInv'
    <2>1. CASE Return(c, "ok") \/ Return(c, "error")
        BY <2>1, ReturnStep DEF IInv, Results
    <2>2. CASE pc' = [pc EXCEPT ![c] = "sleep"] /\ UNCHANGED <<arg, returned, during>>
        BY <1>1, <2>2 DEF IInv, TypeOK, ArgInv, Results
    <2> QED BY <2>1, <2>2 DEF Vibrate
<1>5. /\ UNCHANGED <<phase, handle, flushed, lockVars, plugged, position, queue, flusher>>
      /\ phase = "open"
    BY DEF Vibrate
<1>6. TypeOK'
    BY <1>3, <1>4, <1>5 DEF IInv, TypeOK, lockVars, Results
<1>7. QuietInv' /\ NoHandleLeak'
    BY <1>5 DEF IInv, QuietInv, ClosedIsQuiet, NoHandleLeak, lockVars
<1> QED BY <1>3, <1>4, <1>6, <1>7 DEF IInv

LEMMA StopStep ==
    ASSUME IInv, NEW c \in Callers, Stop(c) PROVE IInv'
<1> DEFINE t == arg[c][1]
<1>1. t \in Targets
    BY DEF Stop, IInv, ArgInv, TypeOK
<1>2. /\ last' \in [Targets -> Wires \cup {NoCommand}]
      /\ motor' \in [Targets -> Wires]
      /\ doubt' \subseteq Targets
      /\ RecordInv'
    <2> HIDE DEF t
    <2>1. \/ Sent(t, Off) \/ SendFails(t, Off)
          \/ Repeats(t, Off) /\ UNCHANGED <<last, motor, doubt>>
        BY DEF Stop, t
    <2> QED BY <1>1, <2>1, SendStep, KnownWires DEF IInv
<1>3. Return(c, "ok") \/ Return(c, "error")
    BY DEF Stop
<1>4. /\ UNCHANGED <<phase, handle, flushed, lockVars, plugged, position, queue, flusher>>
      /\ phase = "open"
    BY DEF Stop
<1>5. /\ pc' \in [Callers -> {"idle", "vibrate", "pulse", "sleep", "stop", "close", "read", "wait"}]
      /\ arg' \in [Callers -> {<<>>} \cup Targets \X (Commands \cup {Off})]
      /\ returned' \in {<<>>} \cup Callers \X Results
      /\ during' \in [Callers -> SUBSET Positions]
      /\ ArgInv'
    BY <1>3, ReturnStep DEF IInv, Results
<1>6. TypeOK'
    BY <1>2, <1>4, <1>5 DEF IInv, TypeOK, lockVars, Results
<1>7. QuietInv' /\ NoHandleLeak'
    BY <1>4 DEF IInv, QuietInv, ClosedIsQuiet, NoHandleLeak, lockVars
<1> QED BY <1>2, <1>5, <1>6, <1>7 DEF IInv

\* Calls that change nothing but the caller's own state.
LEMMA PlainReturnStep ==
    ASSUME IInv, NEW c \in Callers, NEW what \in Results, Return(c, what),
           UNCHANGED <<deviceVars, lockVars, pedalVars, position, queue, flusher>>
    PROVE  IInv'
<1>1. /\ pc' \in [Callers -> {"idle", "vibrate", "pulse", "sleep", "stop", "close", "read", "wait"}]
      /\ arg' \in [Callers -> {<<>>} \cup Targets \X (Commands \cup {Off})]
      /\ returned' \in {<<>>} \cup Callers \X Results
      /\ during' \in [Callers -> SUBSET Positions]
      /\ ArgInv'
    BY ReturnStep DEF IInv
<1>2. TypeOK'
    BY <1>1 DEF IInv, TypeOK, Results, deviceVars, lockVars, pedalVars
<1>3. RecordInv' /\ QuietInv' /\ NoHandleLeak'
    BY DEF RecordInv, QuietInv, ClosedIsQuiet, NoHandleLeak, IInv, deviceVars, lockVars, pedalVars
<1> QED BY <1>1, <1>2, <1>3 DEF IInv

LEMMA PulseEndsStep ==
    ASSUME IInv, NEW c \in Callers, PulseEnds(c) PROVE IInv'
<1>1. CASE Return(c, "ok")
    BY <1>1, PlainReturnStep DEF PulseEnds, Results
<1>2. CASE pc' = [pc EXCEPT ![c] = "stop"] /\ UNCHANGED <<arg, returned, during>>
    <2> USE DEF PulseEnds, deviceVars, lockVars, pedalVars
    <2>1. TypeOK'
        BY <1>2 DEF IInv, TypeOK
    <2>2. ArgInv'
        <3>1. arg[c] # <<>>
            BY PairNotEmpty DEF IInv, ArgInv
        <3> QED BY <1>2, <3>1 DEF IInv, TypeOK, ArgInv
    <2>3. RecordInv' /\ QuietInv' /\ NoHandleLeak'
        BY <1>2 DEF RecordInv, QuietInv, ClosedIsQuiet, NoHandleLeak, IInv
    <2> QED BY <2>1, <2>2, <2>3 DEF IInv
<1> QED BY <1>1, <1>2 DEF PulseEnds

-----------------------------------------------------------------------------
(* Open and Close.                                                         *)

LEMMA StopNextStep ==
    ASSUME IInv, NEW t \in Targets, StopNext(t) PROVE IInv'
<1>1. /\ last' \in [Targets -> Wires \cup {NoCommand}]
      /\ motor' \in [Targets -> Wires]
      /\ doubt' \subseteq Targets
      /\ RecordInv'
    BY SendStep, KnownWires DEF IInv, StopNext
<1>2. /\ t \in todo /\ todo' = todo \ {t} /\ failed' \in BOOLEAN
      /\ UNCHANGED <<phase, handle, flushed, owner, quiet, callVars, plugged, inputVars>>
    BY DEF StopNext, IInv, TypeOK
<1>3. TypeOK'
    BY <1>1, <1>2 DEF IInv, TypeOK, callVars, inputVars
<1>4. ArgInv' /\ NoHandleLeak'
    BY <1>2 DEF IInv, ArgInv, NoHandleLeak, callVars
<1>5. QuietInv'
    <2>1. phase \in {"opening", "closing"}
        BY <1>2 DEF IInv, QuietInv
    <2>2. (phase = "closing" /\ ~failed') => \A u \in Targets \ todo' : motor'[u] = Off
        BY <1>2 DEF StopNext, Sent, SendFails, IInv, QuietInv, TypeOK
    <2> QED BY <1>2, <2>1, <2>2 DEF QuietInv, ClosedIsQuiet
<1> QED BY <1>1, <1>3, <1>4, <1>5 DEF IInv

LEMMA OpenStep ==
    ASSUME IInv, OpenTransport \/ OpenEnd PROVE IInv'
<1>1. TypeOK'
    <2>1. CASE OpenTransport
        BY <2>1 DEF OpenTransport, IInv, TypeOK, callVars, pedalVars, inputVars
    <2>2. CASE OpenEnd
        <3>1. handle' \in BOOLEAN /\ phase' \in {"open", "failed"}
            BY <2>2 DEF OpenEnd
        <3> QED BY <2>2, <3>1 DEF OpenEnd, IInv, TypeOK, lockVars, callVars, pedalVars, inputVars
    <2> QED BY <2>1, <2>2
<1>2. ArgInv' /\ RecordInv'
    BY DEF OpenTransport, OpenEnd, IInv, ArgInv, RecordInv, lockVars, callVars, pedalVars
<1>3. QuietInv' /\ NoHandleLeak'
    BY DEF OpenTransport, OpenEnd, IInv, QuietInv, ClosedIsQuiet, NoHandleLeak, TypeOK, lockVars, pedalVars
<1> QED BY <1>1, <1>2, <1>3 DEF IInv

LEMMA CloseBeginStep ==
    ASSUME IInv, NEW c \in Callers, CloseBegin(c) PROVE IInv'
<1> USE DEF CloseBegin, callVars, pedalVars, inputVars
<1>1. TypeOK'
    BY DEF IInv, TypeOK
<1>2. ArgInv' /\ RecordInv'
    BY DEF IInv, ArgInv, RecordInv
<1>3. QuietInv' /\ NoHandleLeak'
    BY DEF IInv, QuietInv, ClosedIsQuiet, NoHandleLeak
<1> QED BY <1>1, <1>2, <1>3 DEF IInv

LEMMA CloseEndStep ==
    ASSUME IInv, NEW c \in Callers, CloseEnd(c) PROVE IInv'
<1>1. Return(c, "ok") \/ Return(c, "error")
    BY DEF CloseEnd
<1>2. /\ pc' \in [Callers -> {"idle", "vibrate", "pulse", "sleep", "stop", "close", "read", "wait"}]
      /\ arg' \in [Callers -> {<<>>} \cup Targets \X (Commands \cup {Off})]
      /\ returned' \in {<<>>} \cup Callers \X Results
      /\ during' \in [Callers -> SUBSET Positions]
      /\ ArgInv'
    BY <1>1, ReturnStep DEF IInv, Results
<1>3. TypeOK'
    BY <1>2 DEF CloseEnd, IInv, TypeOK, Results, pedalVars
<1>4. RecordInv' /\ NoHandleLeak'
    BY DEF CloseEnd, IInv, RecordInv, NoHandleLeak, pedalVars
<1>5. QuietInv'
    BY DEF CloseEnd, IInv, QuietInv, ClosedIsQuiet, pedalVars
<1> QED BY <1>2, <1>3, <1>4, <1>5 DEF IInv

-----------------------------------------------------------------------------
(* ReadPedal.                                                              *)

LEMMA ReadBeginStep ==
    ASSUME IInv, NEW c \in Callers, ReadBegin(c) PROVE IInv'
<1>1. UNCHANGED <<phase, handle, last, todo, failed, quiet, pedalVars, position>>
    BY DEF ReadBegin
<1>2. /\ pc' \in [Callers -> {"idle", "vibrate", "pulse", "sleep", "stop", "close", "read", "wait"}]
      /\ arg' \in [Callers -> {<<>>} \cup Targets \X (Commands \cup {Off})]
      /\ returned' \in {<<>>} \cup Callers \X Results
      /\ during' \in [Callers -> SUBSET Positions]
      /\ ArgInv'
    <2>1. CASE Return(c, "error")
        BY <2>1, ReturnStep DEF IInv, Results
    <2>2. CASE pc' = [pc EXCEPT ![c] = "wait"] /\ UNCHANGED <<arg, returned, during>>
        BY <2>2 DEF IInv, TypeOK, ArgInv, Results
    <2> QED BY <2>1, <2>2 DEF ReadBegin
<1>3. /\ queue' \in Seq(Positions) /\ Len(queue') <= QueueCap
      /\ flushed' \in BOOLEAN /\ owner' \in Callers \cup {Nobody}
      /\ flusher' \in Callers \cup {Nobody}
    <2>1. queue' = queue \/ queue' = <<>>
        BY DEF ReadBegin
    <2>2. queue' \in Seq(Positions) /\ Len(queue') <= QueueCap
        <3>1. CASE queue' = queue
            BY <3>1 DEF IInv, TypeOK
        <3>2. CASE queue' = <<>>
            BY <3>2, QueueAssumption
        <3> QED BY <2>1, <3>1, <3>2
    <2> QED BY <2>2 DEF ReadBegin, IInv, TypeOK
<1>4. TypeOK'
    BY <1>1, <1>2, <1>3 DEF IInv, TypeOK, Results, pedalVars
<1>5. RecordInv' /\ QuietInv' /\ NoHandleLeak'
    BY <1>1 DEF IInv, RecordInv, QuietInv, ClosedIsQuiet, NoHandleLeak, pedalVars
<1> QED BY <1>2, <1>4, <1>5 DEF IInv

LEMMA ReadEndStep ==
    ASSUME IInv, NEW c \in Callers, ReadEnd(c) PROVE IInv'
<1>1. /\ UNCHANGED <<deviceVars, todo, failed, quiet, pedalVars, position, flusher>>
      /\ owner' = Nobody
    BY DEF ReadEnd
<1>2. queue' \in Seq(Positions) /\ Len(queue') <= QueueCap
    <2>1. CASE queue # <<>> /\ queue' = Tail(queue)
        BY <2>1, QueueAssumption DEF IInv, TypeOK
    <2>2. CASE queue' = queue
        BY <2>2 DEF IInv, TypeOK
    <2> QED BY <2>1, <2>2 DEF ReadEnd
<1>3. PICK what \in Results : Return(c, what)
    <2>1. queue # <<>> => Head(queue) \in Positions
        BY DEF IInv, TypeOK
    <2> QED BY <2>1 DEF ReadEnd, Results
<1>4. /\ pc' \in [Callers -> {"idle", "vibrate", "pulse", "sleep", "stop", "close", "read", "wait"}]
      /\ arg' \in [Callers -> {<<>>} \cup Targets \X (Commands \cup {Off})]
      /\ returned' \in {<<>>} \cup Callers \X Results
      /\ during' \in [Callers -> SUBSET Positions]
      /\ ArgInv'
    BY <1>3, ReturnStep DEF IInv
<1>5. TypeOK'
    BY <1>1, <1>2, <1>4 DEF IInv, TypeOK, Results, deviceVars, pedalVars
<1>6. RecordInv' /\ QuietInv' /\ NoHandleLeak'
    BY <1>1 DEF IInv, RecordInv, QuietInv, ClosedIsQuiet, NoHandleLeak, deviceVars, pedalVars
<1> QED BY <1>4, <1>5, <1>6 DEF IInv

-----------------------------------------------------------------------------
(* The pedal.                                                              *)

LEMMA PedalStep ==
    ASSUME IInv,
           \/ Report \/ Unplug
           \/ \E t \in Targets : Watchdog(t)
           \/ \E p \in Positions : Press(p)
    PROVE  IInv'
<1>1. CASE Report
    <2> DEFINE rest == IF Len(queue) = QueueCap THEN Tail(queue) ELSE queue
    <2>1. rest \in Seq(Positions) /\ Len(rest) < QueueCap
        BY QueueAssumption DEF IInv, TypeOK
    <2>2. queue' = Append(rest, position) /\ position \in Positions
        BY <1>1 DEF Report, IInv, TypeOK
    <2>3. queue' \in Seq(Positions) /\ Len(queue') <= QueueCap
        <3> HIDE DEF rest
        <3>1. Len(rest) \in Nat /\ Len(queue') = Len(rest) + 1
            BY <2>1, <2>2
        <3> QED BY <2>1, <2>2, <3>1, QueueAssumption
    <2>4. UNCHANGED <<deviceVars, lockVars, callVars, pedalVars, position, during, flusher>>
        BY <1>1 DEF Report
    <2>5. TypeOK'
        BY <2>3, <2>4 DEF IInv, TypeOK, deviceVars, lockVars, callVars, pedalVars
    <2> QED BY <2>4, <2>5 DEF IInv, ArgInv, RecordInv, QuietInv, ClosedIsQuiet, NoHandleLeak,
                              deviceVars, lockVars, callVars, pedalVars
<1>2. ASSUME Unplug \/ \E t \in Targets : Watchdog(t) PROVE IInv'
    <2>1. /\ plugged' \in BOOLEAN /\ motor' \in [Targets -> Wires]
          /\ \A t \in Targets : motor'[t] \in {Off, motor[t]}
          /\ UNCHANGED <<deviceVars, lockVars, callVars, doubt, inputVars>>
        BY <1>2, KnownWires DEF Unplug, Watchdog, IInv, TypeOK
    <2>2. TypeOK'
        BY <2>1 DEF IInv, TypeOK, deviceVars, lockVars, callVars, inputVars
    <2> QED BY <2>1, <2>2 DEF IInv, ArgInv, RecordInv, QuietInv, ClosedIsQuiet, NoHandleLeak,
                              deviceVars, lockVars, callVars
<1>3. ASSUME NEW p \in Positions, Press(p) PROVE IInv'
    <2>1. /\ during' \in [Callers -> SUBSET Positions] /\ position' \in Positions
          /\ UNCHANGED <<deviceVars, lockVars, callVars, pedalVars, queue, flusher>>
        BY <1>3 DEF Press, IInv, TypeOK
    <2>2. TypeOK'
        BY <2>1 DEF IInv, TypeOK, deviceVars, lockVars, callVars, pedalVars
    <2> QED BY <2>1, <2>2 DEF IInv, ArgInv, RecordInv, QuietInv, ClosedIsQuiet, NoHandleLeak,
                              deviceVars, lockVars, callVars, pedalVars
<1> QED BY <1>1, <1>2, <1>3

-----------------------------------------------------------------------------
(* The calls begin.                                                        *)

LEMMA CallStep ==
    ASSUME IInv, NEW c \in Callers,
           CallVibrate(c) \/ CallStop(c) \/ CallClose(c) \/ CallRead(c)
    PROVE  IInv'
<1>1. CASE CallVibrate(c)
    <2>1. PICK t \in Targets, cmd \in Commands, method \in {"vibrate", "pulse"} :
              Enter(c, method, <<t, cmd>>)
        BY <1>1 DEF CallVibrate
    <2>2. during' \in [Callers -> SUBSET Positions]
        BY <1>1 DEF CallVibrate, IInv, TypeOK
    <2> QED BY <2>1, <2>2, EnterStep
<1>2. CASE CallStop(c)
    <2>1. PICK t \in Targets : Enter(c, "stop", <<t, Off>>)
        BY <1>2 DEF CallStop
    <2>2. during' \in [Callers -> SUBSET Positions]
        BY <1>2 DEF CallStop, IInv, TypeOK
    <2>3. <<t, Off>> # <<>>
        BY PairNotEmpty
    <2> QED BY <2>1, <2>2, <2>3, EnterStep
<1>3. CASE CallClose(c) \/ CallRead(c)
    <2>1. Enter(c, "close", <<>>) \/ Enter(c, "read", <<>>)
        BY <1>3 DEF CallClose, CallRead
    <2>2. during' \in [Callers -> SUBSET Positions]
        BY <1>3 DEF CallClose, CallRead, IInv, TypeOK
    <2> QED BY <2>1, <2>2, EnterStep
<1> QED BY <1>1, <1>2, <1>3

-----------------------------------------------------------------------------
(* The invariant.                                                          *)

LEMMA InvStuttering ==
    ASSUME IInv, UNCHANGED vars PROVE IInv'
<1> USE DEF vars, deviceVars, lockVars, callVars, pedalVars, inputVars
<1>1. TypeOK'
    BY DEF IInv, TypeOK
<1>2. ArgInv' /\ RecordInv' /\ QuietInv' /\ NoHandleLeak'
    BY DEF IInv, ArgInv, RecordInv, QuietInv, ClosedIsQuiet, NoHandleLeak
<1> QED BY <1>1, <1>2 DEF IInv

LEMMA InvNext == IInv /\ [Next]_vars => IInv'
<1> SUFFICES ASSUME IInv, [Next]_vars PROVE IInv'
    OBVIOUS
<1>1. CASE OpenTransport \/ OpenEnd
    BY <1>1, OpenStep
<1>2. CASE Stopping
    BY <1>2, StopNextStep DEF Stopping
<1>3. ASSUME Report \/ Unplug \/ \E t \in Targets : Watchdog(t) PROVE IInv'
    BY <1>3, PedalStep
<1>4. ASSUME NEW c \in Callers,
             CallVibrate(c) \/ CallStop(c) \/ CallClose(c) \/ CallRead(c)
      PROVE  IInv'
    BY <1>4, CallStep
<1>5. ASSUME NEW c \in Callers, Running(c) PROVE IInv'
    <2>1. CASE RefusedClosed(c)
        BY <2>1, PlainReturnStep DEF RefusedClosed, Results
    <2>2. CASE CloseAgain(c)
        BY <2>2, PlainReturnStep DEF CloseAgain, Results
    <2>3. CASE Vibrate(c)
        BY <2>3, VibrateStep
    <2>4. CASE PulseEnds(c)
        BY <2>4, PulseEndsStep
    <2>5. CASE Stop(c)
        BY <2>5, StopStep
    <2>6. CASE CloseBegin(c)
        BY <2>6, CloseBeginStep
    <2>7. CASE CloseEnd(c)
        BY <2>7, CloseEndStep
    <2>8. CASE ReadBegin(c)
        BY <2>8, ReadBeginStep
    <2>9. CASE ReadEnd(c)
        BY <2>9, ReadEndStep
    <2> QED BY <1>5, <2>1, <2>2, <2>3, <2>4, <2>5, <2>6, <2>7, <2>8, <2>9 DEF Running
<1>6. CASE UNCHANGED vars
    BY <1>6, InvStuttering
<1>7. CASE \E c \in Callers :
          CallVibrate(c) \/ CallStop(c) \/ CallClose(c) \/ CallRead(c) \/ Running(c)
    <2>1. PICK c \in Callers :
              \/ CallVibrate(c) \/ CallStop(c) \/ CallClose(c) \/ CallRead(c)
              \/ Running(c)
        BY <1>7
    <2> QED BY <1>4, <1>5, <2>1
<1>8. ASSUME NEW p \in Positions, Press(p) PROVE IInv'
    BY <1>8, PedalStep
<1> QED BY <1>1, <1>2, <1>3, <1>6, <1>7, <1>8 DEF Next

\* The invariant holds whatever the callers, the targets, the commands and the
\* limits of sendLocked are.
THEOREM Invariant == Spec => []IInv
BY InvInit, InvNext, PTL DEF Spec

-----------------------------------------------------------------------------
(* What follows from it.                                                   *)

\* The device record, the transport, the pedal and the calls keep their types;
\* above all, only commands within the limits of normalize are ever sent.
THEOREM TypeCorrect == Spec => []TypeOK
<1>1. IInv => TypeOK
    BY DEF IInv
<1> QED BY <1>1, Invariant, PTL

\* A pedal that Close left without an error rests for good: no caller that
\* still waits for device.mu sends it anything (ensureOpenLocked).
THEOREM ClosedStaysQuiet == Spec => []ClosedIsQuiet
<1>1. IInv => ClosedIsQuiet
    BY DEF IInv, QuietInv
<1> QED BY <1>1, Invariant, PTL

\* The HID handle is open exactly while the device is, also when Open's stops
\* failed.
THEOREM HandleNeverLeaks == Spec => []NoHandleLeak
<1>1. IInv => NoHandleLeak
    BY DEF IInv
<1> QED BY <1>1, Invariant, PTL

-----------------------------------------------------------------------------
(* Calls that return without an error.                                     *)

\* A call that returns is the one that took the step.
LEMMA ReturnedByReturn ==
    ASSUME NEW c, NEW d, NEW what, NEW result, Return(d, what), Returned(c, result)
    PROVE  c = d /\ what = result
<1>1. <<d, what>> = <<c, result>>
    BY DEF Return, Returned
<1> QED BY <1>1

\* A call that was under way returns only in a step of a caller that runs.
LEMMA OnlyRunningReturns ==
    ASSUME IInv, [Next]_vars, NEW c \in Callers, NEW result, Returned(c, result)
    PROVE  \E d \in Callers : Running(d) /\ \E what : Return(d, what)
<1>1. pc' # pc /\ pc[c] # "idle" /\ pc'[c] = "idle"
    BY DEF Returned
<1>2. PICK d \in Callers :
          CallVibrate(d) \/ CallStop(d) \/ CallClose(d) \/ CallRead(d) \/ Running(d)
    <2>1. ~(OpenTransport \/ OpenEnd \/ Report \/ Unplug \/ UNCHANGED vars)
        BY <1>1 DEF OpenTransport, OpenEnd, Report, Unplug, vars, callVars
    <2>2. ~(\E t \in Targets : Watchdog(t)) /\ ~Stopping
        BY <1>1 DEF Stopping, StopNext, Watchdog, callVars
    <2>3. ~(\E p \in Positions : Press(p))
        BY <1>1 DEF Press, callVars
    <2> QED BY <2>1, <2>2, <2>3, Zenon DEF Next
<1>3. Running(d)
    <2>1. \A method, a : method # "idle" => ~Enter(d, method, a)
        BY <1>1 DEF Enter, IInv, TypeOK
    <2>2. ~CallVibrate(d) /\ ~CallStop(d) /\ ~CallClose(d) /\ ~CallRead(d)
        BY <2>1 DEF CallVibrate, CallStop, CallClose, CallRead
    <2> QED BY <1>2, <2>2
<1>4. \E what : Return(d, what)
    <2>1. \A step : step # "idle" => pc' # [pc EXCEPT ![d] = step]
        BY <1>1 DEF IInv, TypeOK
    <2>2. CASE RefusedClosed(d) \/ CloseAgain(d) \/ CloseEnd(d)
        BY <2>2 DEF RefusedClosed, CloseAgain, CloseEnd
    <2>3. CASE Vibrate(d) \/ Stop(d) \/ PulseEnds(d)
        BY <2>1, <2>3 DEF Vibrate, Stop, PulseEnds
    <2>4. CASE ReadBegin(d) \/ ReadEnd(d)
        BY <2>1, <2>4 DEF ReadBegin, ReadEnd
    <2>5. ~CloseBegin(d)
        BY <1>1 DEF CloseBegin, callVars
    <2> QED BY <1>3, <2>2, <2>3, <2>4, <2>5 DEF Running
<1> QED BY <1>3, <1>4

\* Only the last step of Stop and Vibrate returns nil from them.
LEMMA OnlyTheirOwnStep ==
    ASSUME IInv, [Next]_vars, NEW c \in Callers, Returned(c, "ok")
    PROVE  /\ pc[c] = "stop" => Stop(c)
           /\ pc[c] = "vibrate" => Vibrate(c)
<1>1. PICK d \in Callers : Running(d) /\ \E what : Return(d, what)
    BY OnlyRunningReturns
<1>2. c = d
    BY <1>1, ReturnedByReturn
<1>3. ~RefusedClosed(c)
    <2>1. SUFFICES ASSUME RefusedClosed(c) PROVE FALSE
        OBVIOUS
    <2>2. Return(c, "closed")
        BY <2>1 DEF RefusedClosed
    <2>3. "closed" = "ok"
        BY <2>2, ReturnedByReturn
    <2> QED BY <2>3
<1>4. pc[c] \in {"stop", "vibrate"} => ~PulseEnds(c) /\ ~CloseBegin(c) /\ ~CloseAgain(c)
    BY DEF PulseEnds, CloseBegin, CloseAgain
<1>5. pc[c] \in {"stop", "vibrate"} => ~CloseEnd(c) /\ ~ReadBegin(c) /\ ~ReadEnd(c)
    BY DEF CloseEnd, ReadBegin, ReadEnd
<1>6. Stop(c) => pc[c] = "stop"
    BY DEF Stop
<1>7. Vibrate(c) => pc[c] \in {"vibrate", "pulse"}
    BY DEF Vibrate
<1>8. Running(c)
    BY <1>1, <1>2
<1> QED BY <1>3, <1>4, <1>5, <1>6, <1>7, <1>8 DEF Running

\* Stop only returns nil when the motor rests, whatever other callers did to it
\* before: a stop is dropped as a repetition only when the record is true, or a
\* report that was said to have failed reached the pedal.
THEOREM StopIsHonoured == Spec => StopHonoured
<1>1. ASSUME IInv, [Next]_vars, NEW c \in Callers, pc[c] = "stop", Returned(c, "ok")
      PROVE  motor'[arg[c][1]] = Off \/ arg[c][1] \in doubt
    <2> DEFINE t == arg[c][1]
    <2>1. Stop(c)
        BY <1>1, OnlyTheirOwnStep
    <2>2. t \in Targets
        BY <1>1 DEF IInv, ArgInv, TypeOK
    <2>3. ~Return(c, "error")
        <3>1. SUFFICES ASSUME Return(c, "error") PROVE FALSE
            OBVIOUS
        <3>2. "error" = "ok"
            BY <1>1, <3>1, ReturnedByReturn
        <3> QED BY <3>2
    <2>4. (Repeats(t, Off) /\ UNCHANGED motor) \/ Sent(t, Off)
        BY <2>1, <2>3 DEF Stop
    <2>5. CASE Repeats(t, Off) /\ UNCHANGED motor
        BY <1>1, <2>2, <2>5 DEF Repeats, IInv, RecordInv
    <2>6. CASE Sent(t, Off)
        BY <1>1, <2>2, <2>6 DEF Sent, IInv, TypeOK
    <2> QED BY <2>4, <2>5, <2>6
<1>2. IInv /\ [Next]_vars =>
          [\A c \in Callers :
              (pc[c] = "stop" /\ Returned(c, "ok")) =>
                  motor'[arg[c][1]] = Off \/ arg[c][1] \in doubt]_vars
    BY <1>1
<1> QED BY <1>2, Invariant, PTL DEF Spec, StopHonoured

\* Vibrate only returns nil when the motor does what was asked within the
\* limits of normalize, even if the watchdog had stopped it and the command is
\* the same as before: only stops are dropped as repetitions.
THEOREM VibrateIsHonoured == Spec => VibrateHonoured
<1>1. ASSUME IInv, [Next]_vars, NEW c \in Callers, pc[c] = "vibrate", Returned(c, "ok")
      PROVE  \/ motor'[arg[c][1]] = Normalized(arg[c][2])
             \/ Normalized(arg[c][2]) = Off /\ arg[c][1] \in doubt
    <2> DEFINE t == arg[c][1]
               wire == Normalized(arg[c][2])
    <2>1. Vibrate(c)
        BY <1>1, OnlyTheirOwnStep
    <2>2. t \in Targets
        BY <1>1 DEF IInv, ArgInv
    <2>3. ~Return(c, "error")
        <3>1. SUFFICES ASSUME Return(c, "error") PROVE FALSE
            OBVIOUS
        <3>2. "error" = "ok"
            BY <1>1, <3>1, ReturnedByReturn
        <3> QED BY <3>2
    <2>4. (Repeats(t, wire) /\ UNCHANGED motor) \/ Sent(t, wire)
        BY <2>1, <2>3 DEF Vibrate
    <2> HIDE DEF t, wire
    <2>5. CASE Repeats(t, wire) /\ UNCHANGED motor
        BY <1>1, <2>2, <2>5 DEF Repeats, IInv, RecordInv, t, wire
    <2>6. CASE Sent(t, wire)
        BY <1>1, <2>2, <2>6 DEF Sent, IInv, TypeOK, t, wire
    <2> QED BY <2>4, <2>5, <2>6
<1>2. IInv /\ [Next]_vars =>
          [\A c \in Callers :
              (pc[c] = "vibrate" /\ Returned(c, "ok")) =>
                  \/ motor'[arg[c][1]] = Normalized(arg[c][2])
                  \/ Normalized(arg[c][2]) = Off /\ arg[c][1] \in doubt]_vars
    BY <1>1
<1> QED BY <1>2, Invariant, PTL DEF Spec, VibrateHonoured

-----------------------------------------------------------------------------
(* What the first read returns.                                            *)

\* A caller that reads has seen where the pedal is, and the one
\* that flushed finds in the queue only what was reported since.
ReadInv == \A c \in Callers :
    /\ pc[c] \in {"read", "wait"} => position \in during[c]
    /\ (pc[c] = "wait" /\ flusher = c) => \A i \in DOMAIN queue : queue[i] \in during[c]

\* A step that leaves the pedal and its queue alone keeps it, unless somebody
\* begins to wait.
LEMMA ReadersUndisturbed ==
    ASSUME ReadInv, UNCHANGED <<position, queue, flusher>>,
           \A c \in Callers : pc'[c] \in {"read", "wait"} =>
               \/ pc'[c] = pc[c] /\ during'[c] = during[c]
               \/ pc'[c] = "read" /\ during'[c] = {position}
    PROVE  ReadInv'
BY DEF ReadInv

\* A call that is made, and one that ends.
LEMMA ReadersEnter ==
    ASSUME TypeOK, ReadInv, NEW d \in Callers, NEW method, NEW a, Enter(d, method, a),
           method # "wait", during' = IF method = "read" THEN [during EXCEPT ![d] = {position}] ELSE during
    PROVE  ReadInv'
<1>1. /\ UNCHANGED <<position, queue, flusher>>
      /\ pc' = [pc EXCEPT ![d] = method]
    BY DEF Enter
<1>2. ASSUME NEW c \in Callers, pc'[c] \in {"read", "wait"}
      PROVE  \/ pc'[c] = pc[c] /\ during'[c] = during[c]
             \/ pc'[c] = "read" /\ during'[c] = {position}
    BY <1>1, <1>2 DEF TypeOK
<1> QED BY <1>1, <1>2, ReadersUndisturbed

LEMMA ReadersReturn ==
    ASSUME TypeOK, NEW d \in Callers, NEW what, Return(d, what),
           NEW c \in Callers, pc'[c] \in {"read", "wait"}
    PROVE  c # d /\ pc'[c] = pc[c] /\ during'[c] = during[c]
BY DEF Return, TypeOK

LEMMA ReadersPlainReturn ==
    ASSUME TypeOK, ReadInv, NEW d \in Callers, NEW what, Return(d, what),
           UNCHANGED <<position, queue, flusher>>
    PROVE  ReadInv'
BY ReadersReturn, ReadersUndisturbed

\* The pedal moves, and reports where it is.
LEMMA ReadersPedal ==
    ASSUME TypeOK, ReadInv, (\E p \in Positions : Press(p)) \/ Report
    PROVE  ReadInv'
<1>1. CASE Report
    <2> DEFINE kept == IF Len(queue) = QueueCap THEN Tail(queue) ELSE queue
    <2>1. /\ queue' = Append(kept, position)
          /\ UNCHANGED <<pc, position, during, flusher>>
        BY <1>1 DEF Report, callVars
    <2>2. queue \in Seq(Positions) /\ position \in Positions /\ Len(queue) \in Nat
        BY DEF TypeOK
    <2>3. kept \in Seq(Positions) /\ \A i \in DOMAIN kept : \E j \in DOMAIN queue : kept[i] = queue[j]
        <3>1. CASE Len(queue) = QueueCap
            <4>1. queue # <<>>
                BY <3>1, QueueAssumption
            <4>2. /\ Tail(queue) \in Seq(Positions) /\ Len(Tail(queue)) = Len(queue) - 1
                  /\ \A i \in 1..Len(Tail(queue)) : Tail(queue)[i] = queue[i + 1]
                BY <2>2, <4>1, HeadTailProperties
            <4>3. \A i \in DOMAIN Tail(queue) : i + 1 \in DOMAIN queue /\ Tail(queue)[i] = queue[i + 1]
                BY <2>2, <4>2
            <4> QED BY <3>1, <4>2, <4>3
        <3>2. CASE Len(queue) # QueueCap
            BY <2>2, <3>2
        <3> QED BY <3>1, <3>2
    <2> HIDE DEF kept
    <2>4. \A i \in DOMAIN queue' : queue'[i] = position \/ \E j \in DOMAIN kept : queue'[i] = kept[j]
        BY <2>1, <2>2, <2>3, AppendProperties
    <2>5. \A i \in DOMAIN queue' : queue'[i] = position \/ \E j \in DOMAIN queue : queue'[i] = queue[j]
        BY <2>3, <2>4
    <2> QED BY <2>1, <2>5 DEF ReadInv
<1>2. CASE \E p \in Positions : Press(p)
    <2>1. PICK p \in Positions : Press(p)
        BY <1>2
    <2>2. /\ position' = p /\ UNCHANGED <<pc, queue, flusher>>
          /\ \A c \in Callers : pc[c] \in {"read", "wait"} => during'[c] = during[c] \cup {p}
        BY <2>1 DEF Press, callVars
    <2> QED BY <2>2 DEF ReadInv
<1> QED BY <1>1, <1>2

\* The first call empties the queue, a later one is not the one that flushed.
LEMMA ReadersBegin ==
    ASSUME TypeOK, ReadInv, NEW d \in Callers, ReadBegin(d) PROVE ReadInv'
<1>1. CASE ~flushed /\ Return(d, "error") /\ UNCHANGED <<flushed, queue, owner, flusher>>
    BY <1>1, ReadersPlainReturn DEF ReadBegin
<1>2. CASE /\ queue' = (IF flushed THEN queue ELSE <<>>)
           /\ flusher' = IF flushed THEN Nobody ELSE d
           /\ pc' = [pc EXCEPT ![d] = "wait"]
           /\ UNCHANGED during
    <2>1. UNCHANGED position /\ pc[d] = "read"
        BY DEF ReadBegin
    <2>2. \A c \in Callers : pc'[c] \in {"read", "wait"} => pc[c] \in {"read", "wait"}
        BY <1>2, <2>1 DEF TypeOK
    <2>3. \A c \in Callers : flusher' = c => queue' = <<>>
        BY <1>2, QueueAssumption
    <2> QED BY <1>2, <2>1, <2>2, <2>3 DEF ReadInv
<1> QED BY <1>1, <1>2 DEF ReadBegin

\* A call that has read a report leaves the others in the queue.
LEMMA ReadersEnd ==
    ASSUME TypeOK, ReadInv, NEW d \in Callers, ReadEnd(d) PROVE ReadInv'
<1>1. UNCHANGED <<position, flusher>>
    BY DEF ReadEnd
<1>2. CASE Return(d, "error") /\ UNCHANGED queue
    BY <1>1, <1>2, ReadersPlainReturn
<1>3. CASE queue # <<>> /\ queue' = Tail(queue) /\ Return(d, Head(queue))
    <2>1. queue \in Seq(Positions)
        BY DEF TypeOK
    <2>2. /\ Tail(queue) \in Seq(Positions) /\ Len(Tail(queue)) = Len(queue) - 1
          /\ \A i \in 1..Len(Tail(queue)) : Tail(queue)[i] = queue[i + 1]
        BY <1>3, <2>1, HeadTailProperties
    <2>3. \A i \in DOMAIN queue' : i + 1 \in DOMAIN queue /\ queue'[i] = queue[i + 1]
        BY <1>3, <2>1, <2>2
    <2>4. \A c \in Callers : pc'[c] \in {"read", "wait"} => pc'[c] = pc[c] /\ during'[c] = during[c]
        BY <1>3, ReadersReturn
    <2> QED BY <1>1, <2>3, <2>4 DEF ReadInv
<1> QED BY <1>2, <1>3 DEF ReadEnd

LEMMA ReadersRunning ==
    ASSUME TypeOK, ReadInv, NEW d \in Callers, Running(d) PROVE ReadInv'
<1>1. CASE RefusedClosed(d) \/ CloseAgain(d) \/ CloseEnd(d)
    BY <1>1, ReadersPlainReturn DEF RefusedClosed, CloseAgain, CloseEnd
<1>2. CASE Vibrate(d) \/ Stop(d) \/ PulseEnds(d)
    <2>1. UNCHANGED <<position, queue, flusher>>
        BY <1>2 DEF Vibrate, Stop, PulseEnds
    <2>2. CASE \E what : Return(d, what)
        BY <2>1, <2>2, ReadersPlainReturn
    <2>3. CASE \E step \in {"sleep", "stop"} : pc' = [pc EXCEPT ![d] = step] /\ UNCHANGED during
        <3>1. \A c \in Callers : pc'[c] \in {"read", "wait"} => pc'[c] = pc[c] /\ during'[c] = during[c]
            BY <2>3 DEF TypeOK
        <3> QED BY <2>1, <3>1, ReadersUndisturbed
    <2> QED BY <1>2, <2>2, <2>3 DEF Vibrate, Stop, PulseEnds
<1>3. CASE CloseBegin(d)
    BY <1>3 DEF CloseBegin, callVars, inputVars, ReadInv
<1> QED BY <1>1, <1>2, <1>3, ReadersBegin, ReadersEnd DEF Running

LEMMA ReadersNext == TypeOK /\ ReadInv /\ [Next]_vars => ReadInv'
<1> SUFFICES ASSUME TypeOK, ReadInv, [Next]_vars PROVE ReadInv'
    OBVIOUS
<1>1. CASE \/ OpenTransport \/ OpenEnd \/ Stopping \/ Unplug \/ UNCHANGED vars
           \/ \E t \in Targets : Watchdog(t)
    <2>1. UNCHANGED <<pc, position, queue, during, flusher>>
        BY <1>1 DEF OpenTransport, OpenEnd, Stopping, StopNext, Unplug, Watchdog, vars, callVars, inputVars
    <2> QED BY <2>1 DEF ReadInv
<1>2. CASE Report \/ \E p \in Positions : Press(p)
    BY <1>2, ReadersPedal
<1>3. ASSUME NEW c \in Callers, CallVibrate(c) \/ CallStop(c) \/ CallClose(c) \/ CallRead(c)
      PROVE  ReadInv'
    <2>1. CASE CallVibrate(c)
        <3>1. PICK method \in {"vibrate", "pulse"} : \E a : Enter(c, method, a)
            BY <2>1 DEF CallVibrate
        <3>2. PICK a : Enter(c, method, a)
            BY <3>1
        <3>3. during' = during /\ method \notin {"read", "wait"}
            BY <2>1 DEF CallVibrate
        <3> QED BY <3>2, <3>3, ReadersEnter
    <2>2. CASE CallStop(c)
        <3>1. PICK t \in Targets : Enter(c, "stop", <<t, Off>>)
            BY <2>2 DEF CallStop
        <3> QED BY <2>2, <3>1, ReadersEnter DEF CallStop
    <2>3. CASE CallClose(c)
        <3>1. Enter(c, "close", <<>>) /\ during' = during
            BY <2>3 DEF CallClose
        <3> QED BY <3>1, ReadersEnter
    <2>4. CASE CallRead(c)
        <3>1. Enter(c, "read", <<>>) /\ during' = [during EXCEPT ![c] = {position}]
            BY <2>4 DEF CallRead
        <3> QED BY <3>1, ReadersEnter
    <2> QED BY <1>3, <2>1, <2>2, <2>3, <2>4
<1>4. ASSUME NEW c \in Callers, Running(c) PROVE ReadInv'
    BY <1>4, ReadersRunning
<1> QED BY <1>1, <1>2, <1>3, <1>4 DEF Next

\* Only the report it waited for makes ReadPedal return a position.
LEMMA PositionWasRead ==
    ASSUME IInv, [Next]_vars, NEW c \in Callers, NEW p \in Positions,
           pc[c] = "wait", Returned(c, p)
    PROVE  queue # <<>> /\ p = Head(queue)
<1>1. PICK d \in Callers : Running(d) /\ \E what : Return(d, what)
    BY OnlyRunningReturns
<1>2. c = d
    BY <1>1, ReturnedByReturn
<1>3. ReadEnd(c)
    BY <1>1, <1>2 DEF Running, RefusedClosed, Vibrate, PulseEnds, Stop, CloseBegin, CloseAgain,
                      CloseEnd, ReadBegin
<1>4. ~Return(c, "error")
    <2>1. SUFFICES ASSUME Return(c, "error") PROVE FALSE
        OBVIOUS
    <2>2. p = "error"
        BY <2>1, ReturnedByReturn
    <2> QED BY <2>2, PositionsAssumption
<1>5. queue # <<>> /\ Return(c, Head(queue))
    BY <1>3, <1>4 DEF ReadEnd
<1> QED BY <1>5, ReturnedByReturn

\* The first ReadPedal returns a position the pedal had since the call: the
\* flush under device.mu leaves none of the older reports, however long the
\* call had to wait for its turn and whatever the pedal did meanwhile.
THEOREM FirstReadWasDuringTheCall == Spec => FirstReadIsCurrent
<1>1. Init => ReadInv
    BY DEF Init, ReadInv
<1>2. Spec => []ReadInv
    <2>1. IInv /\ ReadInv /\ [Next]_vars => ReadInv'
        BY ReadersNext DEF IInv
    <2> QED BY <1>1, <2>1, Invariant, PTL DEF Spec
<1>3. ASSUME IInv, ReadInv, [Next]_vars, NEW c \in Callers, NEW p \in Positions,
             pc[c] = "wait", flusher = c, Returned(c, p)
      PROVE  p \in during[c]
    <2>1. queue # <<>> /\ p = Head(queue)
        BY <1>3, PositionWasRead
    <2>2. 1 \in DOMAIN queue /\ Head(queue) = queue[1]
        BY <1>3, <2>1 DEF IInv, TypeOK
    <2> QED BY <1>3, <2>1, <2>2 DEF ReadInv
<1>4. IInv /\ ReadInv /\ [Next]_vars =>
          [\A c \in Callers, p \in Positions :
              (pc[c] = "wait" /\ flusher = c /\ Returned(c, p)) => p \in during[c]]_vars
    BY <1>3
<1> QED BY <1>2, <1>4, Invariant, PTL DEF Spec, FirstReadIsCurrent

-----------------------------------------------------------------------------
(* The session.                                                            *)

\* Scanning and the choice of a device add no behaviour of the device.
THEOREM SessionImplementsDevice == SessionSpec => Spec
<1>1. SessionInit => Init
    BY DEF SessionInit
<1>2. [SessionNext]_sessionVars => [Next]_vars
    BY DEF SessionNext, Scan, OpenFound, DeviceStep, sessionVars, Next
<1> QED BY <1>1, <1>2, PTL DEF SessionSpec, Spec

\* However the pedals were found, closing them leaves them quiet, a call to Stop
\* or Vibrate that reported success took effect, and the first read is current.
THEOREM SessionIsSafe ==
    SessionSpec => /\ []TypeOK /\ []ClosedIsQuiet
                   /\ StopHonoured /\ VibrateHonoured /\ FirstReadIsCurrent
BY SessionImplementsDevice, TypeCorrect, ClosedStaysQuiet, StopIsHonoured, VibrateIsHonoured,
   FirstReadWasDuringTheCall, PTL

-----------------------------------------------------------------------------
(* Which pedals a scan finds.                                              *)

LEMMA LeastOf ==
    ASSUME NEW T \in SUBSET Nat, T # {}
    PROVE  Min(T) \in T /\ \A y \in T : Min(T) <= y
<1>1. PICK x \in T : \A y \in T : ~(<<y, x>> \in OpToRel(<, Nat))
    BY WFMin, NatLessThanWellFounded
<1>2. \A y \in T : ~(y < x)
    BY <1>1 DEF OpToRel
<1>3. \E z \in T : \A y \in T : z <= y
    BY <1>2
<1> QED BY <1>3 DEF Min

\* A descriptor is claimed if some driver matches it, by one that does.
LEMMA ClaimIs ==
    ASSUME NEW desc
    PROVE  /\ Claim(desc) # 0 => /\ Claim(desc) \in DOMAIN Drivers
                                 /\ Match(Drivers[Claim(desc)], desc)
           /\ (\E i \in DOMAIN Drivers : Match(Drivers[i], desc)) => Claim(desc) # 0
<1> DEFINE I == {i \in 1..Len(Drivers) : Match(Drivers[i], desc)}
<1>1. Claim(desc) = IF I # {} THEN Min(I) ELSE 0
    BY DEF Claim, SelectInSeq
<1>2. DOMAIN Drivers = 1..Len(Drivers) /\ I \in SUBSET Nat /\ 0 \notin I
    BY DriversAssumption
<1>3. I # {} => Min(I) \in I
    BY <1>2, LeastOf
<1> QED BY <1>1, <1>2, <1>3

\* matchModel knows the pedals by their ids and names, and takes nothing else
\* for one whose name it could read.
LEMMA ModelIs ==
    ASSUME NEW d \in Interfaces
    PROVE  LET its == Attributes[d]
           IN  /\ its.model # "unknown" => /\ its.joystick
                                           /\ MatchModel(its.product, its.hints) # "unknown"
                                           /\ MatchModel(its.product, {}) # "unknown"
               /\ its.joystick /\ MatchModel(its.product, its.hints) # "unknown" =>
                      MatchModel(its.product, its.hints) = its.model
<1> DEFINE its == Attributes[d]
<1>1. CASE /\ its.model = "unknown"
           /\ \/ ~its.joystick \/ its.product \notin Models
              \/ its.hints # {} /\ its.hints \cap {its.product, "ALPHA PEDAL NEO"} = {}
    BY <1>1 DEF MatchModel
<1>2. CASE /\ its.model \in Models /\ its.joystick /\ its.model = "ALPHA PEDAL NEO"
           /\ its.product = "P500" /\ its.model \in its.hints
    BY <1>2 DEF MatchModel, Models
<1>3. CASE /\ its.model \in Models /\ its.joystick /\ its.model # "ALPHA PEDAL NEO"
           /\ its.product = its.model
           /\ its.hints = {} \/ its.model \in its.hints
           /\ "ALPHA PEDAL NEO" \notin its.hints
    BY <1>3 DEF MatchModel, Models
<1> QED BY <1>1, <1>2, <1>3, AttributesAssumption

Probing == {"attributes", "usage", "names"}
Rounds == {"next"} \cup Probing
Heard(d, missing) == "handle" \notin missing[d] /\ "attributes" \notin missing[d]

Descriptors ==
    [dev : Interfaces, product : {Attributes[d].product : d \in Interfaces}, joystick : BOOLEAN,
     hints : {{}} \cup {Attributes[d].hints : d \in Interfaces}]
Entries == [dev : Interfaces, driver : STRING, model : Models \cup {"unknown"}]

\* Where the scan is: a temporary handle is open during a round only.
PlaceInv ==
    /\ scan \in Rounds \cup {"idle", "claim", "done", "failed"}
    /\ order \in Seq(Interfaces)
    /\ \A i, j \in DOMAIN order : order[i] = order[j] => i = j
    /\ at \in Nat \ {0} /\ joystick \in BOOLEAN
    /\ silent \in [Interfaces -> SUBSET Calls]
    /\ scan \in Probing => at \in DOMAIN order
    /\ scan \notin Probing => ~probe

\* A descriptor says what its interface said.
Tells(e, missing) ==
    /\ Heard(e.dev, missing)
    /\ e.product = Attributes[e.dev].product
    /\ e.joystick <=> Attributes[e.dev].joystick /\ "usage" \notin missing[e.dev]
    /\ e.hints = IF "names" \in missing[e.dev] THEN {} ELSE Attributes[e.dev].hints

Has(d, list) == \E k \in DOMAIN list : list[k].dev = d
Distinct(list) == \A k, l \in DOMAIN list : list[k].dev = list[l].dev => k = l

RawInv ==
    scan \in Rounds \cup {"claim", "done"} =>
        /\ raw \in Seq(Descriptors) /\ Distinct(raw)
        /\ \A k \in DOMAIN raw : Tells(raw[k], silent)

\* The rounds before this one are complete, and the later ones have not begun.
RoundInv ==
    scan \in Rounds =>
        /\ found = <<>>
        /\ \A i \in DOMAIN order : i > at \/ (i = at /\ scan # "names") => silent[order[i]] = {}
        /\ scan \in {"attributes", "usage"} => ~joystick
        /\ scan = "names" => /\ silent[order[at]] \subseteq {"usage"}
                             /\ joystick <=> Attributes[order[at]].joystick
                                             /\ "usage" \notin silent[order[at]]
        /\ \A k \in DOMAIN raw : \E i \in DOMAIN order : i < at /\ raw[k].dev = order[i]
        /\ \A i \in DOMAIN order : i < at /\ Heard(order[i], silent) => Has(order[i], raw)

FoundInv ==
    scan \in {"claim", "done"} =>
        /\ \A i \in DOMAIN order : Heard(order[i], silent) => Has(order[i], raw)
        /\ found \in Seq(Entries) /\ Distinct(found)
        /\ \A i \in DOMAIN found : \E k \in DOMAIN raw :
               /\ scan = "claim" => k < at
               /\ Claim(raw[k]) # 0
               /\ found[i] = Describe(Drivers[Claim(raw[k])], raw[k])
        /\ \A k \in DOMAIN raw : (scan = "claim" => k < at) /\ Claim(raw[k]) # 0 =>
                                     Has(raw[k].dev, found)

ScanInv == PlaceInv /\ RawInv /\ RoundInv /\ FoundInv

LEMMA ScanInvImplies == ScanInv => EveryPedalFound
<1> SUFFICES ASSUME ScanInv, scan = "done" PROVE EveryPedalFound
    BY DEF EveryPedalFound
<1> USE DEF ScanInv
<1>1. ~probe
    BY DEF PlaceInv, Rounds, Probing
<1>2. found \in Seq(Entries) /\ Distinct(found) /\ raw \in Seq(Descriptors)
    BY DEF FoundInv, RawInv
<1>3. ASSUME NEW d \in Interfaces PROVE Cardinality(Listed(d)) <= 1
    <2>1. CASE Listed(d) = {}
        BY <2>1, FS_EmptySet
    <2>2. CASE Listed(d) # {}
        <3>1. PICK i \in Listed(d) : TRUE
            BY <2>2
        <3>2. Listed(d) = {i}
            BY <1>2, <3>1 DEF Listed, Distinct
        <3>3. Cardinality({i}) = 1
            BY FS_Singleton
        <3> QED BY <3>2, <3>3
    <2> QED BY <2>1, <2>2
<1>4. ASSUME NEW d \in Interfaces, Has(d, raw), Attributes[d].model # "unknown",
             silent[d] \subseteq {"names"}
      PROVE  Listed(d) # {}
    <2>1. PICK k \in DOMAIN raw : raw[k].dev = d
        BY <1>4 DEF Has
    <2>2. Tells(raw[k], silent)
        BY DEF RawInv
    <2>3. Match("simagic", raw[k])
        BY <1>4, <2>1, <2>2, ModelIs DEF Match, Tells
    <2>4. Claim(raw[k]) # 0
        BY <2>3, ClaimIs, DriversAssumption
    <2>5. Has(d, found)
        BY <2>1, <2>4 DEF FoundInv
    <2> QED BY <2>5 DEF Has, Listed
<1>5. ASSUME NEW d \in Interfaces, NEW i \in Listed(d), found[i].driver = "simagic"
      PROVE  /\ silent[d] \subseteq {"names"}
             /\ silent[d] = {} => found[i].model = Attributes[d].model
    <2>1. PICK k \in DOMAIN raw : /\ Claim(raw[k]) # 0
                                  /\ found[i] = Describe(Drivers[Claim(raw[k])], raw[k])
        BY <1>5 DEF Listed, FoundInv
    <2>2. /\ raw[k].dev = d /\ Drivers[Claim(raw[k])] = "simagic"
          /\ found[i].model = MatchModel(raw[k].product, raw[k].hints)
        BY <1>5, <2>1 DEF Describe, Listed
    <2>3. Match("simagic", raw[k])
        BY <2>1, <2>2, ClaimIs
    <2>4. raw[k].joystick /\ MatchModel(raw[k].product, raw[k].hints) # "unknown"
        BY <2>3 DEF Match
    <2>5. Tells(raw[k], silent)
        BY DEF RawInv
    <2>6. silent[d] \subseteq Calls
        BY DEF PlaceInv
    <2>7. silent[d] \subseteq {"names"}
        BY <2>2, <2>4, <2>5, <2>6 DEF Tells, Heard, Calls
    <2>8. ASSUME silent[d] = {} PROVE found[i].model = Attributes[d].model
        BY <2>2, <2>4, <2>5, <2>8, ModelIs DEF Tells
    <2> QED BY <2>7, <2>8
<1>6. \A d \in ToSet(order) : d \in Interfaces /\ (silent[d] \subseteq {"names"} => Has(d, raw))
    <2> SUFFICES ASSUME NEW i \in DOMAIN order
                 PROVE  /\ order[i] \in Interfaces
                        /\ silent[order[i]] \subseteq {"names"} => Has(order[i], raw)
        BY DEF ToSet
    <2>1. order[i] \in Interfaces
        BY DEF PlaceInv
    <2>2. silent[order[i]] \subseteq {"names"} => Heard(order[i], silent)
        BY DEF Heard
    <2> QED BY <2>1, <2>2 DEF FoundInv
<1> QED BY <1>1, <1>3, <1>4, <1>5, <1>6 DEF EveryPedalFound

LEMMA ScanBeginStep == ScanInv /\ ScanBegin => ScanInv'
<1> SUFFICES ASSUME ScanInv, ScanBegin PROVE ScanInv'
    OBVIOUS
<1>1. /\ at' = 1 /\ raw' = <<>> /\ found' = <<>> /\ silent' = [d \in Interfaces |-> {}]
      /\ UNCHANGED <<probe, joystick>> /\ scan \notin Probing
    BY DEF ScanBegin, Probing
<1>2. \/ scan' = "failed" /\ order' = <<>>
      \/ scan' = "next" /\ \E present \in SUBSET Interfaces : order' \in SetToSeqs(present)
    BY DEF ScanBegin
<1>3. order' \in Seq(Interfaces) /\ \A i, j \in DOMAIN order' : order'[i] = order'[j] => i = j
    <2>1. CASE order' = <<>>
        BY <2>1
    <2>2. CASE \E present \in SUBSET Interfaces : order' \in SetToSeqs(present)
        <3>1. PICK present \in SUBSET Interfaces : order' \in SetToSeqs(present)
            BY <2>2
        <3>2. IsFiniteSet(present)
            BY InterfacesAssumption, FS_Subset
        <3> DEFINE n == Cardinality(present)
        <3>3. n \in Nat
            BY <3>2, FS_CardinalityType
        <3>4. /\ order' \in [1..n -> present]
              /\ \A i, j \in 1..n : i # j => order'[i] # order'[j]
            BY <3>1 DEF SetToSeqs
        <3> HIDE DEF n
        <3>5. order' \in Seq(present)
            BY <3>3, <3>4
        <3>6. order' \in Seq(Interfaces) /\ DOMAIN order' = 1..n
            BY <3>3, <3>4
        <3> QED BY <3>4, <3>6
    <2> QED BY <1>2, <2>1, <2>2
<1>4. PlaceInv'
    BY <1>1, <1>2, <1>3 DEF ScanInv, PlaceInv, Rounds, Probing
<1>5. DOMAIN raw' = {} /\ raw' \in Seq(Descriptors)
    BY <1>1
<1>6. RawInv' /\ FoundInv'
    BY <1>2, <1>5 DEF RawInv, FoundInv, Distinct
<1>7. RoundInv'
    <2> SUFFICES ASSUME scan' = "next" PROVE RoundInv'
        BY <1>2 DEF RoundInv, Rounds, Probing
    <2>1. \A i \in DOMAIN order' : order'[i] \in Interfaces /\ ~(i < at')
        BY <1>1, <1>3
    <2>2. \A i \in DOMAIN order' : silent'[order'[i]] = {}
        BY <1>1, <2>1
    <2> QED BY <1>1, <1>5, <2>1, <2>2 DEF RoundInv
<1> QED BY <1>4, <1>6, <1>7 DEF ScanInv

\* A step of a round touches what is said of its own interface only.
LEMMA OwnInterface ==
    ASSUME ScanInv, scan \in Rounds, at \in DOMAIN order, NEW call \in Calls,
           silent' = silent \/ Silent(call)
    PROVE  /\ silent' \in [Interfaces -> SUBSET Calls]
           /\ order[at] \in Interfaces
           /\ \A i \in DOMAIN order \ {at} : silent'[order[i]] = silent[order[i]]
           /\ Silent(call) => silent'[order[at]] = silent[order[at]] \cup {call}
           /\ UNCHANGED raw => RawInv' \/ scan' \notin Rounds \cup {"claim", "done"}
<1> USE DEF ScanInv
<1>1. /\ silent \in [Interfaces -> SUBSET Calls] /\ order \in Seq(Interfaces)
      /\ \A i, j \in DOMAIN order : order[i] = order[j] => i = j
    BY DEF PlaceInv
<1>2. order[at] \in Interfaces /\ \A i \in DOMAIN order : order[i] \in Interfaces
    BY <1>1
<1>3. silent' \in [Interfaces -> SUBSET Calls]
    BY <1>1, <1>2 DEF Silent
<1>4. \A i \in DOMAIN order \ {at} : silent'[order[i]] = silent[order[i]]
    BY <1>1, <1>2 DEF Silent
<1>5. Silent(call) => silent'[order[at]] = silent[order[at]] \cup {call}
    BY <1>1, <1>2 DEF Silent
<1>6. ASSUME UNCHANGED raw PROVE RawInv'
    <2>1. ASSUME NEW k \in DOMAIN raw PROVE Tells(raw[k], silent')
        <3>1. PICK i \in DOMAIN order : i < at /\ raw[k].dev = order[i]
            BY DEF RoundInv
        <3>2. i # at
            BY <1>1, <3>1 DEF PlaceInv
        <3>3. silent'[raw[k].dev] = silent[raw[k].dev]
            BY <1>4, <3>1, <3>2
        <3>4. Tells(raw[k], silent)
            BY DEF RawInv
        <3> QED BY <1>6, <3>3, <3>4 DEF Tells, Heard
    <2> QED BY <1>6, <2>1 DEF RawInv, Distinct
<1> QED BY <1>2, <1>3, <1>4, <1>5, <1>6

\* The round goes on, or ends without a descriptor.
LEMMA RoundStep == ScanInv /\ (OpenProbe \/ GetAttributes \/ GetUsage) => ScanInv'
<1> SUFFICES ASSUME ScanInv, OpenProbe \/ GetAttributes \/ GetUsage PROVE ScanInv'
    OBVIOUS
<1> USE DEF ScanInv
<1>1. /\ scan \in Rounds /\ scan' \in Rounds /\ at \in DOMAIN order /\ scan # "names"
      /\ UNCHANGED <<order, raw, found>>
    BY DEF OpenProbe, GetAttributes, GetUsage, Goes, ScanFrame, PlaceInv, Rounds, Probing
<1>2. at \in Nat /\ silent[order[at]] = {} /\ order[at] \in Interfaces
    BY <1>1 DEF PlaceInv, RoundInv
<1>3. CASE /\ scan' \in Probing /\ scan' # "names" /\ at' = at /\ silent' = silent
           /\ joystick' \in {FALSE, joystick} /\ (joystick' = FALSE \/ scan \in Probing)
    <2>1. PlaceInv'
        BY <1>1, <1>3 DEF PlaceInv, Probing, Rounds
    <2>2. RawInv'
        BY <1>1, <1>3 DEF RawInv, Tells, Heard, Distinct, Rounds, Probing
    <2>3. RoundInv'
        BY <1>1, <1>3 DEF RoundInv, Heard, Has, Probing
    <2>4. FoundInv'
        BY <1>3 DEF FoundInv, Probing
    <2> QED BY <2>1, <2>2, <2>3, <2>4
<1>4. CASE /\ scan' = "names" /\ scan = "usage" /\ at' = at
           /\ \/ joystick' = Attributes[order[at]].joystick /\ silent' = silent
              \/ joystick' = joystick /\ Silent("usage")
    <2>1. "usage" \in Calls
        BY DEF Calls
    <2>2. /\ silent' \in [Interfaces -> SUBSET Calls]
          /\ \A i \in DOMAIN order \ {at} : silent'[order[i]] = silent[order[i]]
          /\ Silent("usage") => silent'[order[at]] = silent[order[at]] \cup {"usage"}
          /\ RawInv'
        BY <1>1, <1>4, <2>1, OwnInterface DEF Rounds, Probing
    <2>3. joystick' \in BOOLEAN
        BY <1>2, <1>4, AttributesAssumption DEF PlaceInv
    <2>4. PlaceInv'
        BY <1>1, <1>4, <2>2, <2>3 DEF PlaceInv, Probing, Rounds
    <2>5. /\ silent'[order[at]] \subseteq {"usage"}
          /\ joystick' <=> Attributes[order[at]].joystick /\ "usage" \notin silent'[order[at]]
        BY <1>2, <1>4, <2>2 DEF RoundInv, Rounds, Probing
    <2>6. \A i \in DOMAIN order : i < at => i # at
        BY <1>2
    <2>7. RoundInv'
        BY <1>1, <1>2, <1>4, <2>2, <2>5, <2>6 DEF RoundInv, Heard, Has, Rounds
    <2>8. FoundInv'
        BY <1>4 DEF FoundInv
    <2> QED BY <2>2, <2>4, <2>7, <2>8
<1>5. ASSUME NEW call \in {"handle", "attributes"}, Silent(call), scan' = "next", at' = at + 1,
             joystick' \in {FALSE, joystick}, ~probe'
      PROVE  ScanInv'
    <2>1. call \in Calls
        BY DEF Calls
    <2>2. /\ silent' \in [Interfaces -> SUBSET Calls]
          /\ \A i \in DOMAIN order \ {at} : silent'[order[i]] = silent[order[i]]
          /\ silent'[order[at]] = silent[order[at]] \cup {call}
          /\ RawInv'
        BY <1>1, <1>5, <2>1, OwnInterface DEF Rounds
    <2>3. PlaceInv'
        <3>1. joystick' \in BOOLEAN
            BY <1>5 DEF PlaceInv
        <3>2. at' \in Nat \ {0}
            BY <1>2, <1>5
        <3> QED BY <1>1, <1>5, <2>2, <3>1, <3>2 DEF PlaceInv, Probing, Rounds
    <2>4. \A i \in DOMAIN order : i \in Nat
        BY DEF PlaceInv
    <2>5. \A i \in DOMAIN order : i > at' \/ i = at' => silent'[order[i]] = {}
        BY <1>1, <1>2, <1>5, <2>2, <2>4 DEF RoundInv
    <2>6. \A k \in DOMAIN raw : \E i \in DOMAIN order : i < at' /\ raw[k].dev = order[i]
        BY <1>1, <1>2, <1>5, <2>4 DEF RoundInv
    <2>7. \A i \in DOMAIN order : i < at' /\ Heard(order[i], silent') => Has(order[i], raw)
        <3> SUFFICES ASSUME NEW i \in DOMAIN order, i < at', Heard(order[i], silent')
                     PROVE  Has(order[i], raw)
            OBVIOUS
        <3>1. CASE i = at
            BY <1>1, <1>5, <2>2, <3>1 DEF Heard
        <3>2. CASE i # at
            <4>1. i < at /\ Heard(order[i], silent)
                BY <1>1, <1>2, <1>5, <2>2, <2>4, <3>2 DEF Heard
            <4> QED BY <1>1, <4>1 DEF RoundInv
        <3> QED BY <3>1, <3>2
    <2>8. RoundInv'
        BY <1>1, <1>5, <2>5, <2>6, <2>7 DEF RoundInv, Has, Heard
    <2>9. FoundInv'
        BY <1>5 DEF FoundInv
    <2> QED BY <2>2, <2>3, <2>8, <2>9
<1>6. CASE OpenProbe
    <2>1. CASE Goes("next", "attributes")
        BY <1>3, <1>6, <2>1 DEF OpenProbe, Goes, Probing
    <2>2. CASE scan = "next" /\ Silent("handle") /\ at' = at + 1 /\ UNCHANGED <<scan, probe>>
        <3>1. ~probe' /\ joystick' = FALSE
            BY <1>6, <2>2 DEF OpenProbe, PlaceInv, Probing
        <3> QED BY <1>5, <2>2, <3>1 DEF PlaceInv
    <2> QED BY <1>6, <2>1, <2>2 DEF OpenProbe
<1>7. CASE GetAttributes
    <2>1. CASE Goes("attributes", "usage")
        BY <1>3, <1>7, <2>1 DEF GetAttributes, Goes, Probing
    <2>2. CASE scan = "attributes" /\ scan' = "next" /\ at' = at + 1 /\ Silent("attributes")
               /\ probe' = FALSE
        BY <1>5, <1>7, <2>2 DEF GetAttributes
    <2> QED BY <1>7, <2>1, <2>2 DEF GetAttributes
<1>8. CASE GetUsage
    BY <1>4, <1>8 DEF GetUsage, Goes
<1> QED BY <1>6, <1>7, <1>8
\* The descriptor of the round joins the list.
LEMMA GetNamesStep == ScanInv /\ GetNames => ScanInv'
<1> SUFFICES ASSUME ScanInv, GetNames PROVE ScanInv'
    OBVIOUS
<1> USE DEF ScanInv
<1>1. PICK named \in BOOLEAN :
          /\ IF named THEN UNCHANGED silent ELSE Silent("names")
          /\ raw' = Append(raw, [dev |-> order[at], product |-> Attributes[order[at]].product,
                                 joystick |-> joystick, hints |-> Hints(order[at], named)])
    BY DEF GetNames
<1> DEFINE d == order[at]
           e == [dev |-> d, product |-> Attributes[d].product, joystick |-> joystick,
                 hints |-> Hints(d, named)]
<1>2. /\ scan = "names" /\ scan' = "next" /\ at' = at + 1 /\ probe' = FALSE
      /\ UNCHANGED <<order, joystick, found>>
    BY DEF GetNames
<1>3. at \in DOMAIN order /\ at \in Nat \ {0} /\ d \in Interfaces
    BY <1>2 DEF PlaceInv, Probing
<1>4. "names" \in Calls
    BY DEF Calls
<1>5. /\ silent' \in [Interfaces -> SUBSET Calls]
      /\ \A i \in DOMAIN order \ {at} : silent'[order[i]] = silent[order[i]]
      /\ Silent("names") => silent'[d] = silent[d] \cup {"names"}
    BY <1>1, <1>2, <1>3, <1>4, OwnInterface DEF Rounds, Probing
<1>6. silent[d] \subseteq {"usage"} /\ (joystick <=> Attributes[d].joystick /\ "usage" \notin silent[d])
    BY <1>2, <1>3 DEF RoundInv, Rounds, Probing
<1>7. e \in Descriptors
    <2>1. Hints(d, named) \in {{}} \cup {Attributes[x].hints : x \in Interfaces}
        BY <1>3 DEF Hints
    <2>2. joystick \in BOOLEAN
        BY DEF PlaceInv
    <2> QED BY <1>3, <2>1, <2>2 DEF Descriptors
<1>8. Tells(e, silent')
    <2>1. CASE named
        BY <1>1, <1>2, <1>6, <2>1 DEF Tells, Heard, Hints
    <2>2. CASE ~named
        BY <1>1, <1>2, <1>5, <1>6, <2>2 DEF Tells, Heard, Hints
    <2> QED BY <2>1, <2>2
<1>9. raw \in Seq(Descriptors) /\ Distinct(raw) /\ \A k \in DOMAIN raw : Tells(raw[k], silent)
    BY <1>2 DEF RawInv, Rounds, Probing
<1> HIDE DEF e
<1>10. /\ raw' \in Seq(Descriptors) /\ Len(raw') = Len(raw) + 1
       /\ \A k \in 1..Len(raw) : raw'[k] = raw[k]
       /\ raw'[Len(raw) + 1] = e
    BY <1>1, <1>7, <1>9, AppendProperties DEF e
<1>11. DOMAIN raw' = DOMAIN raw \cup {Len(raw) + 1} /\ DOMAIN raw = 1..Len(raw) /\ Len(raw) \in Nat
    BY <1>9, <1>10
<1>12. \A k \in DOMAIN raw : \E i \in DOMAIN order : i < at /\ raw[k].dev = order[i]
    BY <1>2 DEF RoundInv, Rounds, Probing
<1>13. \A i, j \in DOMAIN order : order[i] = order[j] => i = j
    BY DEF PlaceInv
<1>14. \A i \in DOMAIN order : i \in Nat
    BY DEF PlaceInv
<1>15. e.dev = d
    BY DEF e
<1>16. \A k \in DOMAIN raw : raw[k].dev # d /\ silent'[raw[k].dev] = silent[raw[k].dev]
    <2> SUFFICES ASSUME NEW k \in DOMAIN raw
                 PROVE  raw[k].dev # d /\ silent'[raw[k].dev] = silent[raw[k].dev]
        OBVIOUS
    <2>1. PICK i \in DOMAIN order : i < at /\ raw[k].dev = order[i]
        BY <1>12
    <2>2. i # at
        BY <1>3, <2>1
    <2> QED BY <1>3, <1>5, <1>13, <2>1, <2>2
<1>17. RawInv'
    <2>1. \A k \in DOMAIN raw' : Tells(raw'[k], silent')
        <3> SUFFICES ASSUME NEW k \in DOMAIN raw' PROVE Tells(raw'[k], silent')
            OBVIOUS
        <3>1. CASE k = Len(raw) + 1
            BY <1>8, <1>10, <3>1 DEF e
        <3>2. CASE k \in DOMAIN raw
            BY <1>9, <1>10, <1>11, <1>16, <3>2 DEF Tells, Heard
        <3> QED BY <1>11, <3>1, <3>2
    <2>2. Distinct(raw')
        BY <1>9, <1>10, <1>11, <1>15, <1>16 DEF Distinct
    <2> QED BY <1>10, <2>1, <2>2 DEF RawInv
<1>18. PlaceInv'
    <2>1. at' \in Nat \ {0} /\ scan' \notin Probing /\ ~probe' /\ scan' \in Rounds
        BY <1>2, <1>3 DEF Probing, Rounds
    <2> QED BY <1>2, <1>5, <2>1 DEF PlaceInv
<1>19. RoundInv'
    <2>1. \A i \in DOMAIN order : i > at' \/ i = at' => silent'[order[i]] = {}
        BY <1>2, <1>3, <1>5, <1>14 DEF RoundInv, Rounds, Probing
    <2>2. \A k \in DOMAIN raw' : \E i \in DOMAIN order : i < at' /\ raw'[k].dev = order[i]
        <3> SUFFICES ASSUME NEW k \in DOMAIN raw'
                     PROVE  \E i \in DOMAIN order : i < at' /\ raw'[k].dev = order[i]
            OBVIOUS
        <3>1. CASE k = Len(raw) + 1
            <4>1. raw'[k].dev = order[at] /\ at < at'
                BY <1>2, <1>3, <1>10, <1>15, <3>1
            <4> QED BY <1>3, <4>1
        <3>2. CASE k \in DOMAIN raw
            <4>1. PICK i \in DOMAIN order : i < at /\ raw[k].dev = order[i]
                BY <1>12, <3>2
            <4>2. i < at'
                BY <1>2, <1>3, <1>14, <4>1
            <4> QED BY <1>10, <1>11, <3>2, <4>1, <4>2
        <3> QED BY <1>11, <3>1, <3>2
    <2>3. ASSUME NEW i \in DOMAIN order, i < at', Heard(order[i], silent')
          PROVE  Has(order[i], raw')
        <3>1. CASE i = at
            BY <1>10, <1>11, <1>15, <3>1 DEF Has
        <3>2. CASE i # at
            <4>1. i < at /\ Heard(order[i], silent)
                BY <1>2, <1>3, <1>5, <1>14, <2>3, <3>2 DEF Heard
            <4>2. Has(order[i], raw)
                BY <1>2, <4>1 DEF RoundInv, Rounds, Probing
            <4> QED BY <1>10, <1>11, <4>2 DEF Has
        <3> QED BY <3>1, <3>2
    <2>4. found' = <<>>
        BY <1>2 DEF RoundInv, Rounds, Probing
    <2> QED BY <1>2, <2>1, <2>2, <2>3, <2>4 DEF RoundInv, Has, Heard
<1>20. FoundInv'
    BY <1>2 DEF FoundInv
<1> QED BY <1>17, <1>18, <1>19, <1>20

LEMMA ScanReturnStep == ScanInv /\ ScanReturn => ScanInv'
<1> SUFFICES ASSUME ScanInv, ScanReturn PROVE ScanInv'
    OBVIOUS
<1> USE DEF ScanInv
<1>1. /\ scan = "next" /\ at > Len(order) /\ scan' = "claim" /\ at' = 1
      /\ UNCHANGED <<order, probe, joystick, raw, found, silent>>
    BY DEF ScanReturn
<1>2. PlaceInv' /\ RawInv' /\ RoundInv'
    BY <1>1 DEF PlaceInv, RawInv, RoundInv, Rounds, Probing, Tells, Heard, Distinct
<1>3. found = <<>> /\ raw \in Seq(Descriptors)
    BY <1>1 DEF RoundInv, RawInv, Rounds
<1>4. \A i \in DOMAIN order : i < at
    <2>1. order \in Seq(Interfaces) /\ at \in Nat
        BY DEF PlaceInv
    <2> QED BY <1>1, <2>1
<1>5. \A i \in DOMAIN order : Heard(order[i], silent) => Has(order[i], raw)
    BY <1>1, <1>4 DEF RoundInv, Rounds
<1>6. DOMAIN found = {} /\ found \in Seq(Entries) /\ \A k \in DOMAIN raw : ~(k < 1)
    BY <1>3
<1>7. FoundInv'
    BY <1>1, <1>5, <1>6 DEF FoundInv, Heard, Has, Distinct
<1> QED BY <1>2, <1>7

LEMMA ScanEndStep == ScanInv /\ ScanEnd => ScanInv'
<1> SUFFICES ASSUME ScanInv, ScanEnd PROVE ScanInv'
    OBVIOUS
<1> USE DEF ScanInv
<1>1. /\ scan = "claim" /\ at > Len(raw) /\ scan' = "done"
      /\ UNCHANGED <<order, at, probe, joystick, raw, found, silent>>
    BY DEF ScanEnd
<1>2. PlaceInv' /\ RawInv' /\ RoundInv'
    BY <1>1 DEF PlaceInv, RawInv, RoundInv, Rounds, Probing, Tells, Heard, Distinct
<1>3. \A k \in DOMAIN raw : k < at
    <2>1. raw \in Seq(Descriptors) /\ at \in Nat
        BY <1>1 DEF PlaceInv, RawInv
    <2> QED BY <1>1, <2>1
<1>4. FoundInv'
    BY <1>1, <1>3 DEF FoundInv, Heard, Has, Distinct
<1> QED BY <1>2, <1>4

LEMMA ClaimNextStep == ScanInv /\ ClaimNext => ScanInv'
<1> SUFFICES ASSUME ScanInv, ClaimNext PROVE ScanInv'
    OBVIOUS
<1> USE DEF ScanInv
<1> DEFINE desc == raw[at]
           entry == Describe(Drivers[Claim(desc)], desc)
<1>1. /\ scan = "claim" /\ at <= Len(raw) /\ at' = at + 1
      /\ IF Claim(desc) = 0 THEN found' = found ELSE found' = Append(found, entry)
      /\ UNCHANGED <<scan, order, probe, joystick, raw, silent>>
    BY DEF ClaimNext
<1>2. /\ raw \in Seq(Descriptors) /\ Distinct(raw) /\ at \in Nat \ {0}
      /\ found \in Seq(Entries) /\ Distinct(found)
    BY <1>1 DEF RawInv, PlaceInv, FoundInv
<1>3. at \in DOMAIN raw /\ desc \in Descriptors /\ \A k \in DOMAIN raw : k \in Nat
    BY <1>1, <1>2
<1>4. PlaceInv' /\ RawInv' /\ RoundInv'
    <2>1. at' \in Nat \ {0}
        BY <1>1, <1>2
    <2>2. scan' \notin Rounds
        BY <1>1 DEF Rounds, Probing
    <2> QED BY <1>1, <2>1, <2>2 DEF PlaceInv, RawInv, RoundInv, Rounds
<1>5. \A i \in DOMAIN order : Heard(order[i], silent) => Has(order[i], raw)
    BY <1>1 DEF FoundInv
<1>6. \A i \in DOMAIN found : \E k \in DOMAIN raw :
          k < at /\ Claim(raw[k]) # 0 /\ found[i] = Describe(Drivers[Claim(raw[k])], raw[k])
    BY <1>1 DEF FoundInv
<1>7. \A k \in DOMAIN raw : k < at /\ Claim(raw[k]) # 0 => Has(raw[k].dev, found)
    BY <1>1 DEF FoundInv
<1>8. CASE Claim(desc) = 0
    <2>1. \A k \in DOMAIN raw : k < at' <=> k < at \/ k = at
        BY <1>1, <1>2, <1>3
    <2>2. FoundInv'
        <3> HIDE DEF desc, entry
        <3>1. UNCHANGED <<scan, order, raw, found, silent>>
            BY <1>1, <1>8
        <3>2. \A i \in DOMAIN found : \E k \in DOMAIN raw :
                  k < at' /\ Claim(raw[k]) # 0 /\ found[i] = Describe(Drivers[Claim(raw[k])], raw[k])
            BY <1>6, <2>1
        <3>3. \A k \in DOMAIN raw : k < at' /\ Claim(raw[k]) # 0 => Has(raw[k].dev, found)
            BY <1>7, <1>8, <2>1 DEF desc
        <3> QED BY <1>1, <1>2, <1>5, <3>1, <3>2, <3>3 DEF FoundInv, Has, Heard, Distinct
    <2> QED BY <1>4, <2>2
<1>9. CASE Claim(desc) # 0
    <2>1. Claim(desc) \in DOMAIN Drivers
        BY <1>9, ClaimIs
    <2>2. Drivers[Claim(desc)] \in STRING
        BY <2>1, DriversAssumption
    <2>3. entry \in Entries /\ entry.dev = desc.dev
        BY <1>3, <2>2 DEF Entries, Describe, Descriptors, MatchModel, Models
    <2> HIDE DEF entry
    <2>4. /\ found' \in Seq(Entries) /\ Len(found') = Len(found) + 1
          /\ \A i \in 1..Len(found) : found'[i] = found[i]
          /\ found'[Len(found) + 1] = entry
        <3> HIDE DEF desc
        <3>1. found' = Append(found, entry) /\ found \in Seq(Entries) /\ entry \in Entries
            BY <1>1, <1>2, <1>9, <2>3 DEF entry
        <3> QED BY <3>1, AppendProperties
    <2>5. DOMAIN found' = DOMAIN found \cup {Len(found) + 1} /\ DOMAIN found = 1..Len(found)
          /\ Len(found) \in Nat
        BY <1>2, <2>4
    <2>6. \A k \in DOMAIN raw : k < at' <=> k < at \/ k = at
        BY <1>1, <1>2, <1>3
    <2>7. \A i \in DOMAIN found : found[i].dev # desc.dev
        <3> SUFFICES ASSUME NEW i \in DOMAIN found PROVE found[i].dev # desc.dev
            OBVIOUS
        <3>1. PICK k \in DOMAIN raw : k < at /\ found[i] = Describe(Drivers[Claim(raw[k])], raw[k])
            BY <1>6
        <3>2. found[i].dev = raw[k].dev /\ k # at
            BY <1>3, <3>1 DEF Describe
        <3> QED BY <1>2, <1>3, <3>2 DEF Distinct
    <2>8. Distinct(found')
        BY <1>2, <2>3, <2>4, <2>5, <2>7 DEF Distinct
    <2>9. ASSUME NEW i \in DOMAIN found'
          PROVE  \E k \in DOMAIN raw :
                     k < at' /\ Claim(raw[k]) # 0
                     /\ found'[i] = Describe(Drivers[Claim(raw[k])], raw[k])
        <3>1. CASE i = Len(found) + 1
            <4>1. found'[i] = Describe(Drivers[Claim(raw[at])], raw[at])
                BY <2>4, <3>1 DEF entry
            <4> QED BY <1>3, <1>9, <2>6, <4>1
        <3>2. CASE i \in DOMAIN found
            BY <1>6, <2>4, <2>5, <2>6, <3>2
        <3> QED BY <2>5, <3>1, <3>2
    <2>10. ASSUME NEW k \in DOMAIN raw, k < at', Claim(raw[k]) # 0
           PROVE  Has(raw[k].dev, found')
        <3>1. CASE k = at
            BY <2>3, <2>4, <2>5, <3>1 DEF Has
        <3>2. CASE k < at
            <4>1. Has(raw[k].dev, found)
                BY <1>7, <2>10, <3>2
            <4> QED BY <2>4, <2>5, <4>1 DEF Has
        <3> QED BY <2>6, <2>10, <3>1, <3>2
    <2>11. FoundInv'
        BY <1>1, <1>5, <2>4, <2>8, <2>9, <2>10 DEF FoundInv, Has, Heard
    <2> QED BY <1>4, <2>11
<1> QED BY <1>8, <1>9

\* A scan lists every pedal that answers, once and with its model, whatever
\* other interfaces refuse to say and in whatever order they are listed; it
\* takes for a pedal only what said it is a game controller, and leaves no
\* temporary handle open.
THEOREM ScanFindsPedals == SessionSpec => []EveryPedalFound
<1>1. SessionInit => ScanInv
    <2> SUFFICES ASSUME ScanInit PROVE ScanInv
        BY DEF SessionInit
    <2>1. scan = "idle" /\ order = <<>> /\ at = 1 /\ probe = FALSE /\ joystick = FALSE
          /\ silent = [d \in Interfaces |-> {}]
        BY DEF ScanInit
    <2>2. DOMAIN order = {} /\ scan \notin Rounds \cup {"claim", "done"}
        BY <2>1 DEF Rounds, Probing
    <2>3. order \in Seq(Interfaces) /\ silent \in [Interfaces -> SUBSET Calls]
        BY <2>1
    <2>4. PlaceInv
        <3>1. scan \notin Probing /\ scan \in Rounds \cup {"idle", "claim", "done", "failed"}
            BY <2>1, <2>2 DEF Rounds
        <3>2. at \in Nat \ {0}
            BY <2>1
        <3>3. ~probe /\ joystick \in BOOLEAN
            BY <2>1, Zenon
        <3> QED BY <2>2, <2>3, <3>1, <3>2, <3>3 DEF PlaceInv
    <2> QED BY <2>2, <2>4 DEF ScanInv, RawInv, RoundInv, FoundInv
<1>2. ScanInv /\ [SessionNext]_sessionVars => ScanInv'
    <2> SUFFICES ASSUME ScanInv, [SessionNext]_sessionVars PROVE ScanInv'
        OBVIOUS
    <2>1. CASE ScanNext
        BY <2>1, ScanBeginStep, RoundStep, GetNamesStep, ScanReturnStep, ClaimNextStep, ScanEndStep
           DEF ScanNext
    <2>2. CASE OpenFound
        <3>1. /\ scan' = "idle" /\ order' = <<>> /\ at' = 1 /\ probe' = FALSE /\ joystick' = FALSE
              /\ silent' = [d \in Interfaces |-> {}]
            BY <2>2 DEF OpenFound
        <3>2. DOMAIN order' = {} /\ scan' \notin Rounds \cup {"claim", "done"}
            BY <3>1 DEF Rounds, Probing
        <3>3. order' \in Seq(Interfaces) /\ silent' \in [Interfaces -> SUBSET Calls]
            BY <3>1
        <3>4. PlaceInv'
            <4>1. scan' \notin Probing /\ scan' \in Rounds \cup {"idle", "claim", "done", "failed"}
                BY <3>1, <3>2 DEF Rounds
            <4>2. at' \in Nat \ {0}
                BY <3>1
            <4>3. ~probe' /\ joystick' \in BOOLEAN
                BY <3>1, Zenon
            <4> QED BY <3>2, <3>3, <4>1, <4>2, <4>3 DEF PlaceInv
        <3> QED BY <3>2, <3>4 DEF ScanInv, RawInv, RoundInv, FoundInv
    <2>3. CASE UNCHANGED scanVars
        BY <2>3 DEF ScanInv, PlaceInv, RawInv, RoundInv, FoundInv, scanVars, Rounds, Probing
    <2> QED BY <2>1, <2>2, <2>3 DEF SessionNext, Scan, DeviceStep, sessionVars
<1> QED BY <1>1, <1>2, ScanInvImplies, PTL DEF SessionSpec
=============================================================================

---------------------------- MODULE SimagicDevice ----------------------------
(***************************************************************************)
(* One open Simagic pedal set (pkg/hpr/driver/simagic/driver.go) on its HID *)
(* transport (internal/hidtransport/windows.go), used by several callers.   *)
(*                                                                         *)
(* device.mu is held for the whole of a call, except for the sleep of       *)
(* Pulse; owner is set only by the calls that take more than one step: Open *)
(* and Close, which send three stops, and ReadPedal, which waits for a      *)
(* report.  Transport.mu is only ever taken under device.mu.                *)
(*                                                                         *)
(* The pedal is external: it obeys the feature reports that reach it, stops *)
(* a motor whose command is not refreshed, and queues its input reports in  *)
(* the ring of the HID driver, where the oldest is lost.  A feature report  *)
(* that fails may have reached the pedal (its acknowledgement did not).     *)
(***************************************************************************)
EXTENDS Naturals, Sequences, FiniteSets

CONSTANTS
    Callers,
    Targets,        \* clutch, brake and throttle in the code
    Frequencies,    \* frequencies and amplitudes callers ask for
    Amplitudes,
    MinFrequency,   \* 10
    MaxFrequency,   \* 200
    MaxAmplitude,   \* 100
    Positions,      \* positions of the pedal
    QueueCap,       \* input reports the HID driver keeps: 32 by default
    Nobody

ASSUME BoundsAssumption ==
    /\ Frequencies \subseteq 0..255 /\ Amplitudes \subseteq 0..255
    /\ MinFrequency \in 1..MaxFrequency /\ MaxFrequency \in 1..255 /\ MaxAmplitude \in 1..255
ASSUME QueueAssumption == QueueCap \in Nat \ {0} /\ Nobody \notin Callers
\* What a call returns besides a position is never taken for one: it is an error.
ASSUME PositionsAssumption == Positions \cap {"ok", "error", "closed"} = {}

VARIABLES
    phase,      \* "none", "opening", "open", "closing", "closed" or "failed"
    handle,     \* Transport.handle is open
    last,       \* device.last[t]: the last command sent, or NoCommand
    flushed,    \* device.flushed
    owner,      \* the caller that holds device.mu across steps
    todo,       \* targets stopAll has yet to stop
    failed,     \* stopAll met an error
    quiet,      \* history: the Close that closed returned no error
    pc,         \* pc[c]: the method c is in, "idle", or "sleep" in Pulse
    arg,        \* arg[c]: <<target, command>>
    returned,   \* <<c, what>>: the last call to return, until the next is made
    plugged,    \* pedal: not unplugged yet
    motor,      \* pedal: what each target does
    position,   \* pedal: where it is
    queue,      \* input reports not yet read
    doubt,      \* history: targets whose last report failed on the way back
    during,     \* history: positions since c called ReadPedal
    flusher     \* history: the caller whose ReadPedal did the flush, until the next

deviceVars == <<phase, handle, last, flushed>>
lockVars == <<owner, todo, failed, quiet>>
callVars == <<pc, arg, returned>>
pedalVars == <<plugged, motor, doubt>>
inputVars == <<position, queue, during, flusher>>
vars == <<deviceVars, lockVars, callVars, pedalVars, inputVars>>

NoCommand == <<>>
Off == [state |-> "off", frequency |-> 0, amplitude |-> 0]
Commands == [state : {"on", "off"}, frequency : Frequencies, amplitude : Amplitudes]

Clamp(v, low, high) == IF v < low THEN low ELSE IF v > high THEN high ELSE v

\* Faulty variant: frequencies are not limited.
Unclamped(cmd) ==
    IF cmd.state = "off" \/ cmd.amplitude = 0 THEN Off
    ELSE [state |-> "on", frequency |-> cmd.frequency, amplitude |-> Clamp(cmd.amplitude, 0, MaxAmplitude)]

\* normalize: what goes over the wire.
Normalized(cmd) ==
    LET wire == [state |-> "on", frequency |-> Clamp(cmd.frequency, MinFrequency, MaxFrequency),
                 amplitude |-> Clamp(cmd.amplitude, 0, MaxAmplitude)]
    IN  IF cmd.state = "off" \/ wire.amplitude = 0 THEN Off ELSE wire

\* What the pedal understands.
Wires == {Off} \cup [state : {"on"}, frequency : MinFrequency..MaxFrequency, amplitude : 1..MaxAmplitude]

\* What another program may have left the pedal doing.
Strongest == [state |-> "on", frequency |-> MaxFrequency, amplitude |-> MaxAmplitude]

Init ==
    /\ phase = "none" /\ handle = FALSE /\ last = [t \in Targets |-> NoCommand] /\ flushed = FALSE
    /\ owner = Nobody /\ todo = {} /\ failed = FALSE /\ quiet = FALSE
    /\ pc = [c \in Callers |-> "idle"] /\ arg = [c \in Callers |-> <<>>]
    /\ returned = <<>>
    /\ plugged = TRUE /\ motor \in [Targets -> {Off, Strongest}]
    /\ position \in Positions /\ queue = <<>> /\ doubt = {}
    /\ during = [c \in Callers |-> {}] /\ flusher = Nobody

-----------------------------------------------------------------------------
(* The pedal.                                                              *)

Watchdog(t) ==
    /\ motor[t] # Off /\ motor' = [motor EXCEPT ![t] = Off]
    /\ UNCHANGED <<deviceVars, lockVars, callVars, plugged, doubt, inputVars>>

Unplug ==
    /\ plugged /\ plugged' = FALSE /\ motor' = [t \in Targets |-> Off]
    /\ UNCHANGED <<deviceVars, lockVars, callVars, doubt, inputVars>>

Press(p) ==
    /\ plugged /\ p # position /\ position' = p
    /\ during' = [c \in Callers |-> IF pc[c] \in {"read", "wait"} THEN during[c] \cup {p} ELSE during[c]]
    /\ UNCHANGED <<deviceVars, lockVars, callVars, pedalVars, queue, flusher>>

Report ==
    /\ plugged /\ handle
    /\ queue' = Append(IF Len(queue) = QueueCap THEN Tail(queue) ELSE queue, position)
    /\ UNCHANGED <<deviceVars, lockVars, callVars, pedalVars, position, during, flusher>>

-----------------------------------------------------------------------------
(* sendLocked and Transport.SetFeature.                                    *)

\* The feature report reaches the pedal and SetFeature returns nil.
Sent(t, wire) ==
    /\ plugged /\ handle
    /\ motor' = [motor EXCEPT ![t] = wire]
    /\ last' = [last EXCEPT ![t] = wire]
    /\ doubt' = doubt \ {t}

\* Faulty variant: a command is recorded before it is sent.
SendFailsRecorded(t, wire) ==
    /\ last' = [last EXCEPT ![t] = wire]
    /\ UNCHANGED <<motor, doubt>>

\* SetFeature fails: before the pedal, or on the way back.
SendFails(t, wire) ==
    /\ UNCHANGED last
    /\ \/ UNCHANGED <<motor, doubt>>
       \/ /\ plugged /\ handle
          /\ motor' = [motor EXCEPT ![t] = wire]
          /\ doubt' = doubt \cup {t}

\* Faulty variant: repeated On commands are dropped, too.
RepeatsAny(t, wire) == last[t] = wire

\* A stop that repeats the last command is not sent.
Repeats(t, wire) == last[t] = wire /\ wire = Off

-----------------------------------------------------------------------------
(* Calls.                                                                  *)

Enter(c, method, a) ==
    /\ pc[c] = "idle" /\ phase \in {"open", "closing", "closed"}
    /\ pc' = [pc EXCEPT ![c] = method] /\ arg' = [arg EXCEPT ![c] = a]
    /\ returned' = <<>>
    /\ UNCHANGED <<deviceVars, lockVars, pedalVars, position, queue, flusher>>

CallVibrate(c) ==
    /\ \E t \in Targets, cmd \in Commands, method \in {"vibrate", "pulse"} :
           /\ method = "pulse" => cmd.state = "on"
           /\ Enter(c, method, <<t, cmd>>)
    /\ UNCHANGED during
CallStop(c) == (\E t \in Targets : Enter(c, "stop", <<t, Off>>)) /\ UNCHANGED during
CallClose(c) == Enter(c, "close", <<>>) /\ UNCHANGED during
CallRead(c) == Enter(c, "read", <<>>) /\ during' = [during EXCEPT ![c] = {position}]

Free == owner = Nobody

Return(c, what) ==
    /\ pc' = [pc EXCEPT ![c] = "idle"]
    /\ arg' = [arg EXCEPT ![c] = <<>>]
    /\ returned' = <<c, what>>
    /\ during' = [during EXCEPT ![c] = {}]

\* ensureOpenLocked.
RefusedClosed(c) ==
    /\ Free /\ phase = "closed" /\ pc[c] \in {"vibrate", "pulse", "stop", "read"}
    /\ Return(c, "closed")
    /\ UNCHANGED <<deviceVars, lockVars, pedalVars, position, queue, flusher>>

\* Vibrate, and the first half of Pulse.
Vibrate(c) ==
    LET t == arg[c][1]
        wire == Normalized(arg[c][2])
    IN  /\ Free /\ phase = "open" /\ pc[c] \in {"vibrate", "pulse"}
        /\ \/ /\ IF Repeats(t, wire) THEN UNCHANGED <<last, motor, doubt>> ELSE Sent(t, wire)
              /\ IF pc[c] = "vibrate" THEN Return(c, "ok")
                 ELSE pc' = [pc EXCEPT ![c] = "sleep"] /\ UNCHANGED <<arg, returned, during>>
           \/ ~Repeats(t, wire) /\ SendFails(t, wire) /\ Return(c, "error")
        /\ UNCHANGED <<phase, handle, flushed, lockVars, plugged, position, queue, flusher>>

\* Pulse: no duration ends it; otherwise it sleeps without the mutex.
PulseEnds(c) ==
    /\ pc[c] = "sleep"
    /\ \/ Return(c, "ok")
       \/ pc' = [pc EXCEPT ![c] = "stop"] /\ UNCHANGED <<arg, returned, during>>
    /\ UNCHANGED <<deviceVars, lockVars, pedalVars, position, queue, flusher>>

Stop(c) ==
    LET t == arg[c][1]
    IN  /\ Free /\ phase = "open" /\ pc[c] = "stop"
        /\ \/ /\ IF Repeats(t, Off) THEN UNCHANGED <<last, motor, doubt>> ELSE Sent(t, Off)
              /\ Return(c, "ok")
           \/ ~Repeats(t, Off) /\ SendFails(t, Off) /\ Return(c, "error")
        /\ UNCHANGED <<phase, handle, flushed, lockVars, plugged, position, queue, flusher>>

-----------------------------------------------------------------------------
(* Open and Close: three forced stops.                                     *)

\* hidtransport.Open.
OpenTransport ==
    /\ phase = "none" /\ plugged
    /\ handle' = TRUE /\ phase' = "opening" /\ todo' = Targets
    /\ UNCHANGED <<last, flushed, owner, failed, quiet, callVars, pedalVars, inputVars>>

CloseBegin(c) ==
    /\ Free /\ pc[c] = "close" /\ phase = "open"
    /\ phase' = "closing" /\ owner' = c /\ todo' = Targets /\ failed' = FALSE
    /\ UNCHANGED <<handle, last, flushed, quiet, callVars, pedalVars, inputVars>>

CloseAgain(c) ==
    /\ Free /\ pc[c] = "close" /\ phase = "closed"
    /\ Return(c, "ok")
    /\ UNCHANGED <<deviceVars, lockVars, pedalVars, position, queue, flusher>>

\* Faulty variant: stops are not forced.
StopSparing(t) ==
    /\ t \in todo /\ todo' = todo \ {t}
    /\ \/ (IF Repeats(t, Off) THEN UNCHANGED <<last, motor, doubt>> ELSE Sent(t, Off)) /\ UNCHANGED failed
       \/ ~Repeats(t, Off) /\ SendFails(t, Off) /\ failed' = TRUE
    /\ UNCHANGED <<phase, handle, flushed, owner, quiet, callVars, plugged, inputVars>>

\* One round of stopAll(true); which target is first makes no difference.
StopNext(t) ==
    /\ t \in todo /\ todo' = todo \ {t}
    /\ \/ Sent(t, Off) /\ UNCHANGED failed
       \/ SendFails(t, Off) /\ failed' = TRUE
    /\ UNCHANGED <<phase, handle, flushed, owner, quiet, callVars, plugged, inputVars>>

\* Faulty variant: Open gives up without closing the transport.
OpenLeaks ==
    /\ phase = "opening" /\ todo = {}
    /\ phase' = IF failed THEN "failed" ELSE "open"
    /\ UNCHANGED <<handle, last, flushed, lockVars, callVars, pedalVars, inputVars>>

OpenEnd ==
    /\ phase = "opening" /\ todo = {}
    /\ phase' = IF failed THEN "failed" ELSE "open"
    /\ handle' = ~failed
    /\ UNCHANGED <<last, flushed, lockVars, callVars, pedalVars, inputVars>>

CloseEnd(c) ==
    /\ owner = c /\ pc[c] = "close" /\ phase = "closing" /\ todo = {}
    /\ phase' = "closed" /\ handle' = FALSE /\ owner' = Nobody /\ quiet' = ~failed
    /\ Return(c, IF failed THEN "error" ELSE "ok")
    /\ UNCHANGED <<last, flushed, todo, failed, pedalVars, position, queue, flusher>>

-----------------------------------------------------------------------------
(* ReadPedal.                                                              *)

\* Faulty variant: the first call does not flush.
NoFlush(c) ==
    /\ Free /\ phase = "open" /\ pc[c] = "read"
    /\ flushed' = TRUE /\ UNCHANGED queue /\ flusher' = IF flushed THEN Nobody ELSE c
    /\ owner' = c /\ pc' = [pc EXCEPT ![c] = "wait"]
    /\ UNCHANGED <<phase, handle, last, todo, failed, quiet, arg, returned, pedalVars, position, during>>

\* The first call flushes the queue.
ReadBegin(c) ==
    /\ Free /\ phase = "open" /\ pc[c] = "read"
    /\ \/ /\ flushed \/ plugged
          /\ flushed' = TRUE /\ queue' = (IF flushed THEN queue ELSE <<>>)
          /\ flusher' = IF flushed THEN Nobody ELSE c
          /\ owner' = c /\ pc' = [pc EXCEPT ![c] = "wait"]
          /\ UNCHANGED <<arg, returned, during>>
       \/ ~flushed /\ Return(c, "error") /\ UNCHANGED <<flushed, queue, owner, flusher>>
    /\ UNCHANGED <<phase, handle, last, todo, failed, quiet, pedalVars, position>>

\* Faulty variant: the mutex is kept when ReadFile fails.
ReadKeepsLock(c) ==
    /\ owner = c /\ pc[c] = "wait"
    /\ \/ queue # <<>> /\ queue' = Tail(queue) /\ Return(c, Head(queue)) /\ owner' = Nobody
       \/ Return(c, "error") /\ UNCHANGED <<queue, owner>>
    /\ UNCHANGED <<deviceVars, todo, failed, quiet, pedalVars, position, flusher>>

\* ReadFile waits for a report with both mutexes held, or fails.
ReadEnd(c) ==
    /\ owner = c /\ pc[c] = "wait"
    /\ \/ queue # <<>> /\ queue' = Tail(queue) /\ Return(c, Head(queue))
       \/ Return(c, "error") /\ UNCHANGED queue
    /\ owner' = Nobody
    /\ UNCHANGED <<deviceVars, todo, failed, quiet, pedalVars, position, flusher>>

-----------------------------------------------------------------------------

Running(c) ==
    \/ RefusedClosed(c) \/ Vibrate(c) \/ PulseEnds(c) \/ Stop(c)
    \/ CloseBegin(c) \/ CloseAgain(c) \/ CloseEnd(c) \/ ReadBegin(c) \/ ReadEnd(c)
Stopping == \E t \in Targets : StopNext(t)

Next ==
    \/ OpenTransport \/ OpenEnd \/ Stopping \/ Report \/ Unplug
    \/ \E t \in Targets : Watchdog(t)
    \/ \E p \in Positions : Press(p)
    \/ \E c \in Callers :
           CallVibrate(c) \/ CallStop(c) \/ CallClose(c) \/ CallRead(c) \/ Running(c)

Spec == Init /\ [][Next]_vars

\* ReadFile fails for a pedal that is plugged in.
ReadBreaks(c) == pc[c] = "wait" /\ plugged /\ queue' = queue

\* A mutex that is free again and again is got some time, a feature report
\* returns, and a pedal that is plugged in keeps reporting.  Nobody has to call,
\* and only the calls into a pedal that is gone have to fail.
Fairness ==
    /\ \A c \in Callers : SF_vars(Running(c) /\ ~ReadBreaks(c))
    /\ WF_vars(Stopping) /\ WF_vars(Report)

-----------------------------------------------------------------------------
(* Properties.                                                             *)

TypeOK ==
    /\ phase \in {"none", "opening", "open", "closing", "closed", "failed"}
    /\ handle \in BOOLEAN /\ flushed \in BOOLEAN /\ failed \in BOOLEAN
    /\ quiet \in BOOLEAN /\ plugged \in BOOLEAN
    /\ last \in [Targets -> Wires \cup {NoCommand}] /\ motor \in [Targets -> Wires]
    /\ owner \in Callers \cup {Nobody} /\ todo \subseteq Targets /\ doubt \subseteq Targets
    /\ pc \in [Callers -> {"idle", "vibrate", "pulse", "sleep", "stop", "close", "read", "wait"}]
    /\ arg \in [Callers -> {<<>>} \cup Targets \X (Commands \cup {Off})]
    /\ returned \in {<<>>} \cup Callers \X ({"ok", "error", "closed"} \cup Positions)
    /\ position \in Positions /\ queue \in Seq(Positions) /\ Len(queue) <= QueueCap
    /\ during \in [Callers -> SUBSET Positions] /\ flusher \in Callers \cup {Nobody}

Returned(c, what) == pc[c] # "idle" /\ pc'[c] = "idle" /\ returned' = <<c, what>>

\* A stop is only dropped as a repetition when the target really is off: when
\* Stop returns nil the motor rests, whatever other callers did to it before,
\* unless a report that was said to have failed reached the pedal: sendLocked
\* does not record that one, and takes the record for what the pedal does.
StopHonoured ==
    [][\A c \in Callers :
           (pc[c] = "stop" /\ Returned(c, "ok")) =>
               motor'[arg[c][1]] = Off \/ arg[c][1] \in doubt]_vars

\* A vibration that is refreshed is really refreshed: when Vibrate returns nil
\* the motor does what was asked, even if the watchdog had stopped it and the
\* command is the same as before.
VibrateHonoured ==
    [][\A c \in Callers :
           (pc[c] = "vibrate" /\ Returned(c, "ok")) =>
               \/ motor'[arg[c][1]] = Normalized(arg[c][2])
               \/ Normalized(arg[c][2]) = Off /\ arg[c][1] \in doubt]_vars

\* A pedal that was closed without an error rests and stays so, also after
\* reports that failed, and whatever callers still wait for the mutex.
ClosedIsQuiet == (phase = "closed" /\ quiet) => \A t \in Targets : motor[t] = Off

\* The transport is open exactly while the device is, also when Open fails
\* half way ("it must Close the transport if it fails partway", hpr/types.go).
NoHandleLeak == handle <=> phase \in {"opening", "open", "closing"}

\* The first ReadPedal returns a position the pedal had during the call, not
\* one of the reports that were queued before; later calls may.
FirstReadIsCurrent ==
    [][\A c \in Callers, p \in Positions :
           (pc[c] = "wait" /\ flusher = c /\ Returned(c, p)) => p \in during[c]]_vars

\* Every call returns, Close too, while others vibrate and read.
CallsReturn == \A c \in Callers : pc[c] # "idle" ~> pc[c] = "idle"
=============================================================================

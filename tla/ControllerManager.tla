-------------------------- MODULE ControllerManager --------------------------
(***************************************************************************)
(* controller.Manager (pkg/controller/manager.go): the life of a manager    *)
(* from Start to Close, the DirectInput goroutine that calls back into it,  *)
(* the bounded streams of events and errors, and the two captures.         *)
(*                                                                         *)
(* A step holds Manager.mu or touches one channel; between two steps of a   *)
(* caller everybody else may run.  Positions of an axis are percentages.    *)
(* A device has one button and one axis here: what tells apart two captures *)
(* is who asked, what tells apart two axes is their device.                 *)
(***************************************************************************)
EXTENDS Integers, FiniteSets

CONSTANTS
    Closers,        \* callers of Close
    Buttoners,      \* callers of Capture
    Axers,          \* callers of CaptureAxis
    Devices,        \* devices that can be attached
    Positions,      \* positions of an axis, in percent
    Threshold,      \* axisCaptureThreshold: 95 by default
    MinMovement,    \* minimumAxisCaptureMovement: 20
    EventCap,       \* eventBufferSize: 256 in the code
    ErrorCap,       \* errorBufferSize: 16 in the code
    Nobody

ASSUME ClosersAssumption == IsFiniteSet(Closers)
ASSUME CallersAssumption == Buttoners \cap Axers = {} /\ Nobody \notin Buttoners \cup Axers
ASSUME PositionsAssumption == Positions \subseteq 0..100
ASSUME ThresholdAssumption == Threshold \in 1..100
ASSUME MovementAssumption == MinMovement \in Nat
ASSUME CapsAssumption == EventCap \in Nat \ {0} /\ ErrorCap \in Nat \ {0}

VARIABLES
    starter,      \* Start: "idle", "marked", "select", "wait", "ok" or "failed"
    started,      \* Manager.started
    closed,       \* Manager.closed
    parentDone,   \* the context given to Start is done
    cancelled,    \* runCtx is done
    closing,      \* closing[c]: where the Close of c is
    punctual,     \* history: the Close that marked closed was called after Start
    backend,      \* "none", "init", "run", "stop", "leave" or "done"
    failing,      \* the backend leaves with an error
    outbox,       \* the event it has yet to send: "none", "button" or "axis"
    ready,        \* content of Start's ready channel
    finish,       \* finish: "no", "marked" or "signalled"; "yes" once it is over
    attached,     \* Manager.devices
    axisValues,   \* Manager.axisValues
    opened,       \* backend: devices the syncDevices under way has opened
    enabled,      \* Manager.axisEventsEnabled
    events,       \* number of events buffered in each stream
    axisEvents,
    errors,
    capture,      \* Manager.capture: who asked, or Nobody
    axisCapture,  \* Manager.axisCapture
    asking,       \* asking[c]: "idle", "waiting" or "cleanup"
    answer,       \* answer[c]: content of the result channel of c
    baselines     \* baselines[c]: positions CaptureAxis compares with

lifeVars == <<starter, started, closed, parentDone, cancelled, closing, punctual>>
backendVars == <<backend, failing, outbox, ready, finish>>
deviceVars == <<attached, axisValues, opened>>
streamVars == <<enabled, events, axisEvents, errors>>
captureVars == <<capture, axisCapture, asking, answer, baselines>>
vars == <<lifeVars, backendVars, deviceVars, streamVars, captureVars>>

Callers == Buttoners \cup Axers
NoAnswer == <<>>
Increasing == 1
Decreasing == -1
Bindings == {<<d>> : d \in Devices}
AxisBindings == [device : Devices, direction : {Increasing, Decreasing}, baseline : Positions]
PartialValues == UNION {[D -> Positions] : D \in SUBSET Devices}

Init ==
    /\ starter = "idle" /\ started = FALSE /\ closed = FALSE
    /\ parentDone = FALSE /\ cancelled = FALSE
    /\ closing = [c \in Closers |-> "idle"] /\ punctual = FALSE
    /\ backend = "none" /\ failing = FALSE /\ outbox = "none"
    /\ ready = "empty" /\ finish = "no"
    /\ attached = {} /\ axisValues = <<>> /\ opened = {}
    /\ enabled = FALSE /\ events = 0 /\ axisEvents = 0 /\ errors = 0
    /\ capture = Nobody /\ axisCapture = Nobody
    /\ asking = [c \in Callers |-> "idle"]
    /\ answer = [c \in Callers |-> NoAnswer]
    /\ baselines = [c \in Axers |-> <<>>]

-----------------------------------------------------------------------------
(* Start.  The mutex is released before the wait group is raised.          *)

StartMark ==
    /\ starter = "idle" /\ ~closed /\ ~started /\ ~parentDone
    /\ starter' = "marked" /\ started' = TRUE
    /\ UNCHANGED <<closed, parentDone, cancelled, closing, punctual,
                   backendVars, deviceVars, streamVars, captureVars>>

\* wg.Add(1) and the go statement.
StartSpawn ==
    /\ starter = "marked"
    /\ starter' = "select" /\ backend' = "init"
    /\ UNCHANGED <<started, closed, parentDone, cancelled, closing, punctual,
                   failing, outbox, ready, finish, deviceVars, streamVars, captureVars>>

StartReady ==
    /\ starter = "select" /\ ready # "empty"
    /\ starter' = IF ready = "ok" THEN "ok" ELSE "wait"
    /\ cancelled' = (cancelled \/ ready = "error")
    /\ ready' = "empty"
    /\ UNCHANGED <<started, closed, parentDone, closing, punctual,
                   backend, failing, outbox, finish, deviceVars, streamVars, captureVars>>

StartContextDone ==
    /\ starter = "select" /\ parentDone
    /\ starter' = "wait" /\ cancelled' = TRUE
    /\ UNCHANGED <<started, closed, parentDone, closing, punctual,
                   backendVars, deviceVars, streamVars, captureVars>>

WaitGroupIsZero == backend \in {"none", "done"}

\* Faulty variant of StartWait: the error is returned at once.
StartWaitNot ==
    /\ starter = "wait"
    /\ starter' = "failed"
    /\ UNCHANGED <<started, closed, parentDone, cancelled, closing, punctual,
                   backendVars, deviceVars, streamVars, captureVars>>

\* wg.Wait, then the error is returned.
StartWait ==
    /\ starter = "wait" /\ WaitGroupIsZero
    /\ starter' = "failed"
    /\ UNCHANGED <<started, closed, parentDone, cancelled, closing, punctual,
                   backendVars, deviceVars, streamVars, captureVars>>

\* The parent's context ends; runCtx is derived from it.
ParentDone ==
    /\ ~parentDone
    /\ parentDone' = TRUE
    /\ cancelled' = (cancelled \/ started)
    /\ UNCHANGED <<starter, started, closed, closing, punctual,
                   backendVars, deviceVars, streamVars, captureVars>>

-----------------------------------------------------------------------------
(* Close and finish.                                                       *)

\* A manager that is closed already has nothing to wait for.
CloseMark(c) ==
    /\ closing[c] = "idle"
    /\ closing' = [closing EXCEPT ![c] = IF closed THEN "returned"
                                         ELSE IF started THEN "cancel" ELSE "finish"]
    /\ punctual' = IF closed THEN punctual ELSE starter \in {"ok", "failed"}
    /\ closed' = TRUE
    /\ UNCHANGED <<starter, started, parentDone, cancelled,
                   backendVars, deviceVars, streamVars, captureVars>>

CloseCancel(c) ==
    /\ closing[c] = "cancel"
    /\ closing' = [closing EXCEPT ![c] = "wait"]
    /\ cancelled' = TRUE
    /\ UNCHANGED <<starter, started, closed, parentDone, punctual,
                   backendVars, deviceVars, streamVars, captureVars>>

\* Faulty variant of CloseWait: Close does not wait for the goroutine.
CloseWaitNot(c) ==
    /\ closing[c] = "wait"
    /\ closing' = [closing EXCEPT ![c] = "returned"]
    /\ UNCHANGED <<starter, started, closed, parentDone, cancelled, punctual,
                   backendVars, deviceVars, streamVars, captureVars>>

CloseWait(c) ==
    /\ closing[c] = "wait" /\ WaitGroupIsZero
    /\ closing' = [closing EXCEPT ![c] = "returned"]
    /\ UNCHANGED <<starter, started, closed, parentDone, cancelled, punctual,
                   backendVars, deviceVars, streamVars, captureVars>>

\* Close of a manager that never started has run finish.
CloseFinished(c) ==
    /\ closing[c] = "finish" /\ finish = "yes"
    /\ closing' = [closing EXCEPT ![c] = "returned"]
    /\ UNCHANGED <<starter, started, closed, parentDone, cancelled, punctual,
                   backendVars, deviceVars, streamVars, captureVars>>

\* Faulty variant of Finishing: any Close runs finish, started or not.
FinishingAnyClose == backend = "leave" \/ \E c \in Closers : closing[c] \in {"wait", "finish"}

\* Somebody is inside finish: the goroutine, or the Close of a manager that
\* never started.
Finishing == backend = "leave" \/ \E c \in Closers : closing[c] = "finish"

\* The first part, under the mutex.
FinishMark ==
    /\ Finishing /\ finish = "no"
    /\ finish' = "marked"
    /\ closed' = TRUE
    /\ capture' = Nobody /\ axisCapture' = Nobody
    /\ UNCHANGED <<starter, started, parentDone, cancelled, closing, punctual,
                   backend, failing, outbox, ready, deviceVars, streamVars,
                   asking, answer, baselines>>

\* close(done), then the three streams.
FinishSignal ==
    /\ Finishing /\ finish \in {"marked", "signalled"}
    /\ finish' = IF finish = "marked" THEN "signalled" ELSE "yes"
    /\ UNCHANGED <<lifeVars, backend, failing, outbox, ready,
                   deviceVars, streamVars, captureVars>>

-----------------------------------------------------------------------------
(* The DirectInput goroutine: backend.run, as the manager sees it.  What a   *)
(* controller reports is any sequence of these calls.                       *)

\* syncDevices is one call of the thread: it opens devices and reads their axes,
\* lets go of those that are gone, and lists the rest at its end.
InSync == opened # {}

\* A device is opened once, but one that could not be opened is listed
\* nevertheless, and tried again by the next call.
SyncAxis(d, v) ==
    /\ backend \in {"init", "run"} /\ outbox = "none"
    /\ d \in DOMAIN axisValues => d \in opened
    /\ opened' = opened \cup {d}
    /\ axisValues' = [x \in DOMAIN axisValues \cup {d} |-> IF x = d THEN v ELSE axisValues[x]]
    /\ UNCHANGED <<lifeVars, backendVars, attached, streamVars, captureVars>>

\* setDevices
SetDevices(D) ==
    /\ attached' = D
    /\ axisValues' = [d \in DOMAIN axisValues \cap D |-> axisValues[d]]
    /\ opened' = {}

BackendReady(D) ==
    /\ backend = "init"
    /\ opened \subseteq D
    /\ SetDevices(D)
    /\ backend' = "run" /\ ready' = "ok"
    /\ UNCHANGED <<lifeVars, failing, outbox, finish, streamVars, captureVars>>

\* No window, no DirectInput or no list of devices: Start gets the error.
BackendInitFails ==
    /\ backend = "init" /\ ~InSync
    /\ backend' = "leave" /\ ready' = "error"
    /\ UNCHANGED <<lifeVars, failing, outbox, finish, deviceVars, streamVars, captureVars>>

Rescan(D) ==
    /\ backend = "run" /\ outbox = "none"
    /\ opened \subseteq D
    /\ SetDevices(D)
    /\ UNCHANGED <<lifeVars, backendVars, streamVars, captureVars>>

\* Devices that cannot be opened, and a list that cannot be read, are reported.
ReportError ==
    /\ backend \in {"init", "run"} /\ outbox = "none" /\ errors < ErrorCap
    /\ errors' = errors + 1
    /\ UNCHANGED <<lifeVars, backendVars, deviceVars, enabled, events, axisEvents, captureVars>>

\* The locked part of emitButton.  syncDevices and releaseAll only let go of
\* what is down.
EmitButton(d, pressed) ==
    /\ backend = "run" \/ (backend = "stop" /\ ~pressed)
    /\ outbox = "none" /\ (InSync => ~pressed)
    /\ d \in attached \ opened
    /\ outbox' = "button"
    /\ IF pressed /\ capture # Nobody
       THEN /\ answer' = [answer EXCEPT ![capture] = <<d>>]
            /\ capture' = Nobody
       ELSE UNCHANGED <<answer, capture>>
    /\ UNCHANGED <<lifeVars, backend, failing, ready, finish, deviceVars, streamVars,
                   axisCapture, asking, baselines>>

\* Faulty variant of Completes: the smallest movement is not asked for.
CompletesAnyMovement(baseline, v, direction) ==
    LET span == IF direction = Increasing THEN 100 - baseline ELSE baseline
    IN span > 0 /\ direction * (v - baseline) * 100 >= Threshold * span

\* The movement is large enough, and reaches far enough on the way to the end:
\* normalizedAxisTravel, with its division multiplied out.
Completes(baseline, v, direction) ==
    LET span == IF direction = Increasing THEN 100 - baseline ELSE baseline
        moved == direction * (v - baseline)
    IN span > 0 /\ moved >= MinMovement /\ moved * 100 >= Threshold * span

Direction(baseline, v) == IF v < baseline THEN Decreasing ELSE Increasing

\* The locked part of emitAxis.  An axis CaptureAxis has no position of gets
\* its baseline from its first sample.
EmitAxis(d, v) ==
    /\ backend = "run" /\ outbox = "none" /\ ~InSync
    /\ d \in attached
    /\ axisValues' = [x \in DOMAIN axisValues \cup {d} |-> IF x = d THEN v ELSE axisValues[x]]
    /\ LET c == axisCapture
           base == baselines[c][d]
           dir == Direction(base, v)
       IN
       IF c = Nobody THEN UNCHANGED <<baselines, answer, axisCapture>>
       ELSE IF d \notin DOMAIN baselines[c] THEN
            /\ baselines' = [baselines EXCEPT ![c] =
                   [x \in DOMAIN @ \cup {d} |-> IF x = d THEN v ELSE @[x]]]
            /\ UNCHANGED <<answer, axisCapture>>
       ELSE IF Completes(base, v, dir) THEN
            /\ answer' = [answer EXCEPT ![c] =
                   [device |-> d, direction |-> dir, baseline |-> base]]
            /\ axisCapture' = Nobody
            /\ UNCHANGED baselines
       ELSE UNCHANGED <<baselines, answer, axisCapture>>
    /\ outbox' = IF enabled THEN "axis" ELSE "none"
    /\ UNCHANGED <<lifeVars, backend, failing, ready, finish, attached, opened,
                   streamVars, capture, asking>>

\* Faulty variant of Send: a stream that grows without limit.
SendUnbounded ==
    /\ outbox # "none"
    /\ outbox' = "none"
    /\ events' = IF outbox = "button" THEN events + 1 ELSE events
    /\ axisEvents' = IF outbox = "axis" THEN axisEvents + 1 ELSE axisEvents
    /\ UNCHANGED <<lifeVars, backend, failing, ready, finish, deviceVars,
                   enabled, errors, captureVars>>

\* Faulty variant of Send: the thread waits for room in the stream.
SendWaits ==
    /\ \/ outbox = "button" /\ events < EventCap
       \/ outbox = "axis" /\ axisEvents < EventCap
    /\ outbox' = "none"
    /\ events' = IF outbox = "button" THEN events + 1 ELSE events
    /\ axisEvents' = IF outbox = "axis" THEN axisEvents + 1 ELSE axisEvents
    /\ UNCHANGED <<lifeVars, backend, failing, ready, finish, deviceVars,
                   enabled, errors, captureVars>>

\* The end of emitButton and emitAxis: a full stream loses the event and gets
\* an error reported, a full stream of errors loses the error.
Send ==
    /\ outbox # "none"
    /\ outbox' = "none"
    /\ LET full == IF outbox = "button" THEN events = EventCap ELSE axisEvents = EventCap
       IN
       /\ events' = IF outbox = "button" /\ ~full THEN events + 1 ELSE events
       /\ axisEvents' = IF outbox = "axis" /\ ~full THEN axisEvents + 1 ELSE axisEvents
       /\ errors' = IF full /\ errors < ErrorCap THEN errors + 1 ELSE errors
    /\ UNCHANGED <<lifeVars, backend, failing, ready, finish, deviceVars,
                   enabled, captureVars>>

\* The loop ends: runCtx is done, or the caller's window is gone.
BackendCancelled ==
    /\ backend = "run" /\ outbox = "none" /\ ~InSync /\ cancelled
    /\ backend' = "stop"
    /\ UNCHANGED <<lifeVars, failing, outbox, ready, finish, deviceVars, streamVars, captureVars>>

WindowGone ==
    /\ backend = "run" /\ outbox = "none" /\ ~InSync
    /\ backend' = "stop" /\ failing' = TRUE
    /\ UNCHANGED <<lifeVars, outbox, ready, finish, deviceVars, streamVars, captureVars>>

\* The end of releaseAll; the goroutine reports the error of run.
BackendReleased ==
    /\ backend = "stop" /\ outbox = "none"
    /\ SetDevices({})
    /\ backend' = "leave"
    /\ errors' = IF failing /\ errors < ErrorCap THEN errors + 1 ELSE errors
    /\ UNCHANGED <<lifeVars, failing, outbox, ready, finish, enabled, events, axisEvents,
                   captureVars>>

\* finish has run: wg.Done.
BackendDone ==
    /\ backend = "leave" /\ finish = "yes"
    /\ backend' = "done"
    /\ UNCHANGED <<lifeVars, failing, outbox, ready, finish, deviceVars, streamVars, captureVars>>

-----------------------------------------------------------------------------
(* The application: captures and readers of the streams.                   *)

\* What Capture and CaptureAxis check alike.
Admitted(c) ==
    /\ asking[c] = "idle"
    /\ ~closed /\ started
    /\ capture = Nobody /\ axisCapture = Nobody

CaptureBegin(c) ==
    /\ c \in Buttoners /\ Admitted(c)
    /\ capture' = c
    /\ asking' = [asking EXCEPT ![c] = "waiting"]
    /\ UNCHANGED <<lifeVars, backendVars, deviceVars, streamVars, axisCapture, answer, baselines>>

CaptureAxisBegin(c) ==
    /\ c \in Axers /\ Admitted(c)
    /\ axisCapture' = c
    /\ baselines' = [baselines EXCEPT ![c] = axisValues]
    /\ asking' = [asking EXCEPT ![c] = "waiting"]
    /\ UNCHANGED <<lifeVars, backendVars, deviceVars, streamVars, capture, answer>>

\* Faulty variant of CaptureWake: the signal of finish is not listened to.
CaptureWakeByAnswer(c) ==
    /\ asking[c] = "waiting"
    /\ answer[c] # NoAnswer
    /\ asking' = [asking EXCEPT ![c] = "cleanup"]
    /\ UNCHANGED <<lifeVars, backendVars, deviceVars, streamVars,
                   capture, axisCapture, answer, baselines>>

\* The select of Capture and CaptureAxis ends, with a binding or ErrClosed.
CaptureWake(c) ==
    /\ asking[c] = "waiting"
    /\ answer[c] # NoAnswer \/ finish \in {"signalled", "yes"}
    /\ asking' = [asking EXCEPT ![c] = "cleanup"]
    /\ UNCHANGED <<lifeVars, backendVars, deviceVars, streamVars,
                   capture, axisCapture, answer, baselines>>

\* The caller's own context is done.
CaptureContextDone(c) ==
    /\ asking[c] = "waiting"
    /\ asking' = [asking EXCEPT ![c] = "cleanup"]
    /\ UNCHANGED <<lifeVars, backendVars, deviceVars, streamVars,
                   capture, axisCapture, answer, baselines>>

\* Faulty variant of CaptureCleanup: whoever leaves clears the request.
CaptureCleanupAny(c) ==
    /\ asking[c] = "cleanup"
    /\ asking' = [asking EXCEPT ![c] = "idle"]
    /\ answer' = [answer EXCEPT ![c] = NoAnswer]
    /\ capture' = IF c \in Buttoners THEN Nobody ELSE capture
    /\ axisCapture' = IF c \in Axers THEN Nobody ELSE axisCapture
    /\ baselines' = [a \in Axers |-> IF a = c THEN <<>> ELSE baselines[a]]
    /\ UNCHANGED <<lifeVars, backendVars, deviceVars, streamVars>>

\* The deferred call: only the caller's own request is cleared.
CaptureCleanup(c) ==
    /\ asking[c] = "cleanup"
    /\ asking' = [asking EXCEPT ![c] = "idle"]
    /\ answer' = [answer EXCEPT ![c] = NoAnswer]
    /\ capture' = IF capture = c THEN Nobody ELSE capture
    /\ axisCapture' = IF axisCapture = c THEN Nobody ELSE axisCapture
    /\ baselines' = [a \in Axers |-> IF a = c THEN <<>> ELSE baselines[a]]
    /\ UNCHANGED <<lifeVars, backendVars, deviceVars, streamVars>>

\* AxisEvents
EnableAxisEvents ==
    /\ ~enabled
    /\ enabled' = TRUE
    /\ UNCHANGED <<lifeVars, backendVars, deviceVars, events, axisEvents, errors, captureVars>>

ReadStream ==
    /\ \/ events > 0 /\ events' = events - 1 /\ UNCHANGED <<axisEvents, errors>>
       \/ axisEvents > 0 /\ axisEvents' = axisEvents - 1 /\ UNCHANGED <<events, errors>>
       \/ errors > 0 /\ errors' = errors - 1 /\ UNCHANGED <<events, axisEvents>>
    /\ UNCHANGED <<lifeVars, backendVars, deviceVars, enabled, captureVars>>

-----------------------------------------------------------------------------

StartStep == StartSpawn \/ StartReady \/ StartContextDone \/ StartWait
CloseStep(c) == CloseCancel(c) \/ CloseWait(c) \/ CloseFinished(c)
BackendInit == BackendInitFails \/ \E D \in SUBSET Devices : BackendReady(D)

Next ==
    \/ StartMark \/ StartStep \/ ParentDone
    \/ \E c \in Closers : CloseMark(c) \/ CloseStep(c)
    \/ FinishMark \/ FinishSignal
    \/ BackendInit \/ ReportError
    \/ \E D \in SUBSET Devices : Rescan(D)
    \/ \E d \in Devices, v \in Positions : SyncAxis(d, v) \/ EmitAxis(d, v)
    \/ \E d \in Devices, pressed \in BOOLEAN : EmitButton(d, pressed)
    \/ Send \/ BackendCancelled \/ WindowGone \/ BackendReleased \/ BackendDone
    \/ \E c \in Callers : CaptureBegin(c) \/ CaptureAxisBegin(c)
    \/ \E c \in Callers : CaptureWake(c) \/ CaptureContextDone(c) \/ CaptureCleanup(c)
    \/ EnableAxisEvents \/ ReadStream

Spec == Init /\ [][Next]_vars

\* Callers and the goroutine go on.  The loop of the backend picks at random
\* among the channels that are ready, so a done context that stays ready is
\* picked in the end; syncDevices and releaseAll go through finitely many
\* buttons.  Nothing is assumed of the readers of the streams.
Fairness ==
    /\ WF_vars(StartStep)
    /\ \A c \in Closers : WF_vars(CloseStep(c))
    /\ WF_vars(FinishMark) /\ WF_vars(FinishSignal)
    /\ WF_vars(BackendInit) /\ SF_vars(InSync /\ \E D \in SUBSET Devices : Rescan(D))
    /\ WF_vars(Send)
    /\ SF_vars(BackendCancelled) /\ SF_vars(BackendReleased) /\ WF_vars(BackendDone)
    /\ \A c \in Callers : WF_vars(CaptureWake(c)) /\ WF_vars(CaptureCleanup(c))

FairSpec == Spec /\ Fairness

-----------------------------------------------------------------------------
(* Properties                                                              *)

\* Type invariant.
TypeOK ==
    /\ starter \in {"idle", "marked", "select", "wait", "ok", "failed"}
    /\ {started, closed, parentDone, cancelled, punctual, failing, enabled} \subseteq BOOLEAN
    /\ closing \in [Closers -> {"idle", "cancel", "wait", "finish", "returned"}]
    /\ backend \in {"none", "init", "run", "stop", "leave", "done"}
    /\ outbox \in {"none", "button", "axis"}
    /\ ready \in {"empty", "ok", "error"}
    /\ finish \in {"no", "marked", "signalled", "yes"}
    /\ attached \subseteq Devices /\ axisValues \in PartialValues /\ opened \subseteq Devices
    /\ events \in 0..EventCap /\ axisEvents \in 0..EventCap /\ errors \in 0..ErrorCap
    /\ capture \in Buttoners \cup {Nobody} /\ axisCapture \in Axers \cup {Nobody}
    /\ asking \in [Callers -> {"idle", "waiting", "cleanup"}]
    /\ \A c \in Buttoners : answer[c] \in Bindings \cup {NoAnswer}
    /\ \A c \in Axers : answer[c] \in AxisBindings \cup {NoAnswer}
    /\ baselines \in [Axers -> PartialValues]

\* Nothing is sent on a stream that finish has closed: a send would panic.
\* While the goroutine can still emit, finish has not begun.
NoSendAfterFinish ==
    backend \in {"init", "run", "stop"} \/ outbox # "none" => finish = "no"

\* A caller that waits and has no answer yet is the one the next press or
\* movement answers: a late cleanup of an earlier capture, a Close or the end
\* of the backend never leaves it behind unnoticed.
NobodyForgotten ==
    finish = "no" =>
        \A c \in Callers : asking[c] = "waiting" /\ answer[c] = NoAnswer =>
                               capture = c \/ axisCapture = c

\* A recorded axis movement leaves room to be repeated: the travel from its
\* baseline to the end it moved towards is not the jitter near an end stop
\* that README.md:155 rules out.
AxisBindingUsable ==
    \A c \in Axers : answer[c] # NoAnswer =>
        LET b == answer[c]
        IN IF b.direction = Increasing THEN b.baseline + MinMovement <= 100
           ELSE b.baseline >= MinMovement

\* The goroutine is gone, the streams are closed and no device is listed when
\* Start fails after it has marked the manager, and when a Close returns that
\* was called after Start had returned and did the closing itself.
NothingLeftBehind ==
    \/ starter = "failed"
    \/ /\ punctual /\ Cardinality({c \in Closers : closing[c] # "idle"}) = 1
       /\ \E c \in Closers : closing[c] = "returned"
    => backend = "done" /\ finish = "yes" /\ attached = {}

\* "Close stops input collection and releases all DirectInput and window
\* resources" (manager.go:270): when the first Close has returned, no backend
\* is opening, using or still releasing them.
CloseReleasesAll ==
    Cardinality({c \in Closers : closing[c] # "idle"}) = 1 =>
        \A c \in Closers : closing[c] = "returned" => backend \notin {"init", "run", "stop"}

\* Once the manager is closed every Close returns, even if nobody reads the
\* streams any more, and so does every capture.
CloseEndsAll ==
    closed ~> /\ \A c \in Closers : closing[c] \in {"idle", "returned"}
              /\ \A c \in Callers : asking[c] = "idle"
=============================================================================

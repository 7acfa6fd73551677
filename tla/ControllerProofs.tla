-------------------------- MODULE ControllerProofs --------------------------
(***************************************************************************)
(* Proofs about ControllerManager, for any callers, devices, positions     *)
(* and capacities: type correctness, no send on a closed stream, nothing   *)
(* left behind by Start or Close, and no capture forgotten or answered     *)
(* with jitter.                                                            *)
(***************************************************************************)
EXTENDS ControllerManager, FiniteSetTheorems, TLAPS

-----------------------------------------------------------------------------
(* The inductive invariant.                                                *)

\* How far Start, the goroutine and finish are, and what follows from it.
LifeInv ==
    /\ starter \in {"idle", "marked", "select", "wait", "ok", "failed"}
    /\ backend \in {"none", "init", "run", "stop", "leave", "done"}
    /\ finish \in {"no", "marked", "signalled", "yes"}
    /\ starter = "idle" <=> ~started
    /\ starter \in {"idle", "marked"} <=> backend = "none"
    /\ starter = "failed" => backend = "done"
    /\ outbox # "none" => backend \in {"run", "stop"}
    /\ backend = "done" => finish = "yes"

\* finish is run by the goroutine when it leaves, or by the Close of a manager
\* that never started and never will.
FinishInv ==
    /\ (\E c \in Closers : closing[c] = "finish") => ~started /\ closed
    /\ finish # "no" => backend \in {"leave", "done"} \/ (~started /\ closed)

\* Devices are listed while the goroutine runs.
ListInv == backend \in {"none", "init", "leave", "done"} => attached = {}

\* The Close that did the closing after Start is on its way, or saw the
\* goroutine go.
ClosingInv ==
    /\ closing = [c \in Closers |-> closing[c]]
    /\ punctual =>
           /\ starter \in {"ok", "failed"}
           /\ \E c \in Closers : \/ closing[c] \in {"cancel", "wait"}
                                 \/ closing[c] = "returned" /\ backend = "done"

\* Who captures, and what the captures go by.
CaptureInv ==
    /\ capture \in Buttoners \cup {Nobody} /\ axisCapture \in Axers \cup {Nobody}
    /\ asking = [c \in Callers |-> asking[c]]
    /\ answer = [c \in Callers |-> answer[c]]
    /\ baselines = [c \in Axers |-> baselines[c]]
    /\ \A d \in DOMAIN axisValues : axisValues[d] \in Positions
    /\ \A c \in Axers : \A d \in DOMAIN baselines[c] : baselines[c][d] \in Positions

IInv == /\ LifeInv /\ FinishInv /\ ListInv /\ ClosingInv /\ CaptureInv
        /\ NobodyForgotten /\ AxisBindingUsable

-----------------------------------------------------------------------------
(* The steps, by who takes them.                                           *)

Starts == StartMark \/ StartStep \/ ParentDone
Closes == \E c \in Closers : CloseMark(c) \/ CloseStep(c)
Finishes == FinishMark \/ FinishSignal
Backs ==
    \/ BackendInit \/ BackendCancelled \/ WindowGone \/ BackendReleased \/ BackendDone
    \/ \E D \in SUBSET Devices : Rescan(D)
Emits ==
    \/ \E d \in Devices, v \in Positions : SyncAxis(d, v) \/ EmitAxis(d, v)
    \/ \E d \in Devices, pressed \in BOOLEAN : EmitButton(d, pressed)
Captures ==
    \/ \E c \in Callers : CaptureBegin(c) \/ CaptureAxisBegin(c)
    \/ \E c \in Callers : CaptureWake(c) \/ CaptureContextDone(c) \/ CaptureCleanup(c)
Streams == ReportError \/ Send \/ EnableAxisEvents \/ ReadStream \/ UNCHANGED vars

LEMMA NextIs ==
    ASSUME [Next]_vars
    PROVE  Starts \/ Closes \/ Finishes \/ Backs \/ Emits \/ Captures \/ Streams
BY DEF Next, Starts, Closes, Finishes, Backs, Emits, Captures, Streams

-----------------------------------------------------------------------------
(* What the steps leave alone.                                             *)

LEMMA EmitsKeep ==
    ASSUME Emits
    PROVE  /\ UNCHANGED <<lifeVars, backend, failing, ready, finish, attached>>
           /\ outbox' # "none" => outbox' = outbox \/ backend \in {"run", "stop"}
<1>1. CASE \E d \in Devices, v \in Positions : SyncAxis(d, v)
    BY <1>1 DEF SyncAxis, backendVars
<1>2. CASE \E d \in Devices, v \in Positions : EmitAxis(d, v)
    BY <1>2 DEF EmitAxis
<1>3. CASE \E d \in Devices, pressed \in BOOLEAN : EmitButton(d, pressed)
    BY <1>3 DEF EmitButton, deviceVars
<1> QED BY <1>1, <1>2, <1>3 DEF Emits

LEMMA CapturesKeep ==
    ASSUME Captures
    PROVE  UNCHANGED <<lifeVars, backendVars, deviceVars>>
BY DEF Captures, CaptureBegin, CaptureAxisBegin, CaptureWake, CaptureContextDone, CaptureCleanup

LEMMA StreamsKeep ==
    ASSUME Streams
    PROVE  /\ UNCHANGED <<lifeVars, backend, failing, ready, finish, deviceVars, captureVars>>
           /\ outbox' \in {outbox, "none"}
BY DEF Streams, ReportError, Send, EnableAxisEvents, ReadStream, vars, backendVars

\* Only the sink's callbacks and the captures touch a capture.
LEMMA OthersKeep ==
    ASSUME Starts \/ Closes \/ Backs \/ FinishSignal
    PROVE  UNCHANGED captureVars
<1>1. CASE Starts
    BY <1>1 DEF Starts, StartMark, StartStep, StartSpawn, StartReady, StartContextDone, StartWait,
                ParentDone
<1>2. CASE Closes
    BY <1>2 DEF Closes, CloseMark, CloseStep, CloseCancel, CloseWait, CloseFinished
<1>3. CASE Backs
    BY <1>3 DEF Backs, BackendInit, BackendReady, BackendInitFails, BackendCancelled, WindowGone,
                BackendReleased, BackendDone, Rescan
<1>4. CASE FinishSignal
    BY <1>4 DEF FinishSignal
<1> QED BY <1>1, <1>2, <1>3, <1>4

-----------------------------------------------------------------------------
(* Start, Close, the goroutine and finish.                                 *)

Course == LifeInv /\ FinishInv /\ ListInv /\ ClosingInv

LEMMA StartsStep == Course /\ Starts => Course'
<1> SUFFICES ASSUME Course, Starts PROVE Course'
    OBVIOUS
<1> USE DEF Course, LifeInv, FinishInv, ListInv, ClosingInv, lifeVars, backendVars, deviceVars
<1>1. CASE StartMark
    BY <1>1 DEF StartMark
<1>2. CASE StartSpawn
    BY <1>2 DEF StartSpawn
<1>3. CASE StartReady
    BY <1>3 DEF StartReady
<1>4. CASE StartContextDone
    BY <1>4 DEF StartContextDone
<1>5. CASE StartWait
    BY <1>5 DEF StartWait, WaitGroupIsZero
<1>6. CASE ParentDone
    BY <1>6 DEF ParentDone
<1> QED BY <1>1, <1>2, <1>3, <1>4, <1>5, <1>6 DEF Starts, StartStep

LEMMA ClosesStep == Course /\ Closes => Course'
<1> SUFFICES ASSUME Course, NEW c \in Closers, CloseMark(c) \/ CloseStep(c) PROVE Course'
    BY DEF Closes
<1> USE DEF Course, LifeInv, FinishInv, ListInv, ClosingInv, backendVars, deviceVars
<1>1. CASE CloseMark(c)
    BY <1>1 DEF CloseMark
<1>2. CASE CloseCancel(c)
    BY <1>2 DEF CloseCancel
<1>3. CASE CloseWait(c)
    BY <1>3 DEF CloseWait, WaitGroupIsZero
<1>4. CASE CloseFinished(c)
    BY <1>4 DEF CloseFinished
<1> QED BY <1>1, <1>2, <1>3, <1>4 DEF CloseStep

LEMMA FinishesStep == Course /\ Finishes => Course'
<1> SUFFICES ASSUME Course, Finishes PROVE Course'
    OBVIOUS
<1> USE DEF Course, LifeInv, FinishInv, ListInv, ClosingInv, deviceVars
<1>1. CASE FinishMark
    <2>1. /\ finish = "no" /\ finish' = "marked" /\ closed' = TRUE
          /\ UNCHANGED <<starter, started, closing, punctual, backend, outbox, attached>>
        BY <1>1 DEF FinishMark
    <2>2. backend = "leave" \/ \E c \in Closers : closing[c] = "finish"
        BY <1>1 DEF FinishMark, Finishing
    <2>3. LifeInv' /\ ListInv' /\ ClosingInv'
        BY <2>1
    <2>4. FinishInv'
        BY <2>1, <2>2
    <2> QED BY <2>3, <2>4
<1>2. CASE FinishSignal
    BY <1>2 DEF FinishSignal, Finishing, lifeVars
<1> QED BY <1>1, <1>2 DEF Finishes

LEMMA BacksStep == Course /\ Backs => Course'
<1> SUFFICES ASSUME Course, Backs PROVE Course'
    OBVIOUS
<1> USE DEF Course, LifeInv, FinishInv, ListInv, ClosingInv, lifeVars, deviceVars
<1>1. CASE BackendInit
    <2>1. CASE \E D \in SUBSET Devices : BackendReady(D)
        <3>1. /\ backend = "init" /\ backend' = "run"
              /\ UNCHANGED <<lifeVars, outbox, finish>>
            BY <2>1, Zenon DEF BackendReady
        <3> QED BY <3>1
    <2>2. CASE BackendInitFails
        BY <2>2 DEF BackendInitFails
    <2> QED BY <1>1, <2>1, <2>2 DEF BackendInit
<1>2. CASE BackendCancelled \/ WindowGone
    BY <1>2 DEF BackendCancelled, WindowGone
<1>3. CASE BackendReleased
    BY <1>3 DEF BackendReleased, SetDevices
<1>4. CASE BackendDone
    BY <1>4 DEF BackendDone
<1>5. CASE \E D \in SUBSET Devices : Rescan(D)
    BY <1>5 DEF Rescan, SetDevices, backendVars
<1> QED BY <1>1, <1>2, <1>3, <1>4, <1>5 DEF Backs

LEMMA CourseStep == Course /\ [Next]_vars => Course'
<1> SUFFICES ASSUME Course, Emits \/ Captures \/ Streams PROVE Course'
    BY NextIs, StartsStep, ClosesStep, FinishesStep, BacksStep
<1>1. /\ UNCHANGED <<lifeVars, backend, finish, attached>>
      /\ outbox' # "none" => outbox' = outbox \/ backend \in {"run", "stop"}
    BY EmitsKeep, CapturesKeep, StreamsKeep DEF backendVars, deviceVars
<1> QED BY <1>1 DEF Course, LifeInv, FinishInv, ListInv, ClosingInv, lifeVars

-----------------------------------------------------------------------------
(* Captures.                                                               *)

Asked == CaptureInv /\ NobodyForgotten /\ AxisBindingUsable

\* What the code multiplies out keeps a movement away from the end stop.
LEMMA UsableTravel ==
    ASSUME NEW base \in Positions, NEW v \in Positions,
           Completes(base, v, Direction(base, v))
    PROVE  IF Direction(base, v) = Increasing THEN base + MinMovement <= 100
           ELSE base >= MinMovement
<1>1. base \in 0..100 /\ v \in 0..100 /\ MinMovement \in Nat
    BY PositionsAssumption, MovementAssumption
<1>2. CASE v < base
    <2>1. Direction(base, v) = Decreasing /\ (-1) * (v - base) >= MinMovement
        BY <1>2 DEF Completes, Direction, Increasing, Decreasing
    <2> QED BY <1>1, <2>1 DEF Increasing, Decreasing
<1>3. CASE ~(v < base)
    <2>1. Direction(base, v) = Increasing /\ 1 * (v - base) >= MinMovement
        BY <1>3 DEF Completes, Direction, Increasing, Decreasing
    <2> QED BY <1>1, <2>1
<1> QED BY <1>2, <1>3

LEMMA SyncAxisStep ==
    ASSUME Asked, NEW d \in Devices, NEW v \in Positions, SyncAxis(d, v)
    PROVE  Asked'
BY DEF SyncAxis, Asked, CaptureInv, NobodyForgotten, AxisBindingUsable, captureVars, backendVars

LEMMA EmitAxisStep ==
    ASSUME Asked, NEW d \in Devices, NEW v \in Positions, EmitAxis(d, v)
    PROVE  Asked'
<1> USE DEF Asked
<1> DEFINE c == axisCapture
           base == baselines[c][d]
           dir == Direction(base, v)
<1>1. /\ axisValues' = [x \in DOMAIN axisValues \cup {d} |-> IF x = d THEN v ELSE axisValues[x]]
      /\ UNCHANGED <<capture, asking, finish>>
    BY DEF EmitAxis
<1>2. \A x \in DOMAIN axisValues' : axisValues'[x] \in Positions
    BY <1>1 DEF CaptureInv
<1>3. CASE UNCHANGED <<baselines, answer, axisCapture>>
    BY <1>1, <1>2, <1>3 DEF CaptureInv, NobodyForgotten, AxisBindingUsable
<1>4. CASE /\ c # Nobody /\ d \notin DOMAIN baselines[c]
           /\ baselines' = [baselines EXCEPT ![c] =
                  [x \in DOMAIN baselines[c] \cup {d} |-> IF x = d THEN v ELSE baselines[c][x]]]
           /\ UNCHANGED <<answer, axisCapture>>
    <2>1. NobodyForgotten' /\ AxisBindingUsable'
        BY <1>1, <1>4 DEF NobodyForgotten, AxisBindingUsable
    <2>2. CaptureInv'
        BY <1>1, <1>2, <1>4 DEF CaptureInv
    <2> QED BY <2>1, <2>2
<1>5. CASE /\ c # Nobody /\ d \in DOMAIN baselines[c] /\ Completes(base, v, dir)
           /\ answer' = [answer EXCEPT ![c] = [device |-> d, direction |-> dir, baseline |-> base]]
           /\ axisCapture' = Nobody
           /\ UNCHANGED baselines
    <2>1. c \in Axers /\ c \in Callers /\ base \in Positions
        BY <1>5 DEF CaptureInv, Callers
    <2>2. answer'[c] = [device |-> d, direction |-> dir, baseline |-> base]
        BY <1>5, <2>1 DEF CaptureInv
    <2>3. \A x \in Callers \ {c} : answer'[x] = answer[x]
        BY <1>5, <2>1 DEF CaptureInv
    <2>4. answer'[c] # NoAnswer
        <3>1. DOMAIN answer'[c] # {} /\ DOMAIN NoAnswer = {}
            BY <2>2 DEF NoAnswer
        <3> QED BY <3>1
    <2>5. CaptureInv'
        BY <1>1, <1>2, <1>5 DEF CaptureInv
    <2>6. NobodyForgotten'
        BY <1>1, <1>5, <2>3, <2>4 DEF NobodyForgotten
    <2>7. AxisBindingUsable'
        <3>1. LET b == answer'[c]
              IN IF b.direction = Increasing THEN b.baseline + MinMovement <= 100
                 ELSE b.baseline >= MinMovement
            BY <1>5, <2>1, <2>2, UsableTravel
        <3>2. Axers \subseteq Callers
            BY DEF Callers
        <3> HIDE DEF c
        <3> QED BY <2>3, <3>1, <3>2 DEF AxisBindingUsable
    <2> QED BY <2>5, <2>6, <2>7
<1> QED BY <1>3, <1>4, <1>5 DEF EmitAxis

LEMMA EmitButtonStep ==
    ASSUME Asked, NEW d \in Devices, NEW pressed \in BOOLEAN, EmitButton(d, pressed)
    PROVE  Asked'
<1> USE DEF Asked
<1>1. UNCHANGED <<axisCapture, asking, finish, baselines, axisValues>>
    BY DEF EmitButton, deviceVars
<1>2. CASE UNCHANGED <<answer, capture>>
    BY <1>1, <1>2 DEF CaptureInv, NobodyForgotten, AxisBindingUsable
<1>3. CASE /\ capture # Nobody /\ answer' = [answer EXCEPT ![capture] = <<d>>]
           /\ capture' = Nobody
    <2>1. capture \in Buttoners /\ capture \in Callers /\ capture \notin Axers
        BY <1>3, CallersAssumption DEF CaptureInv, Callers
    <2>2. answer'[capture] # NoAnswer /\ \A x \in Callers \ {capture} : answer'[x] = answer[x]
        BY <1>3, <2>1 DEF CaptureInv, NoAnswer
    <2>3. CaptureInv'
        BY <1>1, <1>3 DEF CaptureInv
    <2>4. NobodyForgotten'
        BY <1>1, <1>3, <2>2 DEF NobodyForgotten
    <2>5. AxisBindingUsable'
        BY <2>1, <2>2 DEF AxisBindingUsable, Callers
    <2> QED BY <2>3, <2>4, <2>5
<1> QED BY <1>2, <1>3 DEF EmitButton

LEMMA CapturesStep == Asked /\ Captures => Asked'
<1> SUFFICES ASSUME Asked, NEW c \in Callers,
                    \/ CaptureBegin(c) \/ CaptureAxisBegin(c)
                    \/ CaptureWake(c) \/ CaptureContextDone(c) \/ CaptureCleanup(c)
             PROVE  Asked'
    BY DEF Captures
<1> USE DEF Asked, CaptureInv, NobodyForgotten, AxisBindingUsable, deviceVars, backendVars
<1>1. c # Nobody
    BY CallersAssumption DEF Callers
<1>2. CASE CaptureBegin(c)
    BY <1>1, <1>2 DEF CaptureBegin, Admitted
<1>3. CASE CaptureAxisBegin(c)
    BY <1>1, <1>3 DEF CaptureAxisBegin, Admitted
<1>4. CASE CaptureWake(c)
    BY <1>4 DEF CaptureWake
<1>5. CASE CaptureContextDone(c)
    BY <1>5 DEF CaptureContextDone
<1>6. CASE CaptureCleanup(c)
    <2>1. /\ asking' = [asking EXCEPT ![c] = "idle"] /\ answer' = [answer EXCEPT ![c] = NoAnswer]
          /\ capture' = IF capture = c THEN Nobody ELSE capture
          /\ axisCapture' = IF axisCapture = c THEN Nobody ELSE axisCapture
          /\ baselines' = [a \in Axers |-> IF a = c THEN <<>> ELSE baselines[a]]
          /\ UNCHANGED <<finish, axisValues>>
        BY <1>6 DEF CaptureCleanup
    <2>2. DOMAIN <<>> = {} /\ Axers \subseteq Callers
        BY DEF Callers
    <2>3. CaptureInv'
        BY <2>1, <2>2
    <2>4. asking'[c] = "idle" /\ answer'[c] = NoAnswer
        BY <2>1
    <2>5. \A x \in Callers \ {c} : asking'[x] = asking[x] /\ answer'[x] = answer[x]
        BY <2>1
    <2>6. NobodyForgotten'
        BY <2>1, <2>4, <2>5
    <2>7. AxisBindingUsable'
        BY <2>2, <2>4, <2>5
    <2> QED BY <2>3, <2>6, <2>7
<1> QED BY <1>2, <1>3, <1>4, <1>5, <1>6

\* The other steps shorten the list of axes at most, or end it all.
LEMMA OthersStep == Asked /\ (Starts \/ Closes \/ Finishes \/ Backs \/ Streams) => Asked'
<1> SUFFICES ASSUME Asked, Starts \/ Closes \/ Finishes \/ Backs \/ Streams PROVE Asked'
    OBVIOUS
<1>1. CASE UNCHANGED <<captureVars, axisValues>> /\ (finish' = "no" => finish = "no")
    BY <1>1 DEF Asked, CaptureInv, NobodyForgotten, AxisBindingUsable, captureVars
<1>2. CASE Starts \/ Closes
    <2>1. UNCHANGED <<deviceVars, finish>>
        BY <1>2 DEF Starts, StartMark, StartStep, StartSpawn, StartReady, StartContextDone,
                    StartWait, ParentDone, Closes, CloseMark, CloseStep, CloseCancel, CloseWait,
                    CloseFinished, backendVars
    <2> QED BY <1>1, <1>2, <2>1, OthersKeep DEF deviceVars
<1>3. CASE Streams
    BY <1>1, <1>3, StreamsKeep DEF deviceVars
<1>4. CASE FinishSignal
    BY <1>1, <1>4, OthersKeep DEF FinishSignal, deviceVars
<1>5. CASE FinishMark
    BY <1>5 DEF FinishMark, Asked, CaptureInv, NobodyForgotten, AxisBindingUsable, deviceVars
<1>6. CASE Backs
    <2>1. UNCHANGED <<captureVars, finish>>
        BY <1>6, OthersKeep DEF Backs, BackendInit, BackendReady, BackendInitFails,
               BackendCancelled, WindowGone, BackendReleased, BackendDone, Rescan, backendVars
    <2>2. \/ UNCHANGED axisValues
          \/ \E D \in SUBSET Devices : axisValues' = [d \in DOMAIN axisValues \cap D |-> axisValues[d]]
        BY <1>6 DEF Backs, BackendInit, BackendReady, BackendInitFails, BackendCancelled,
               WindowGone, BackendReleased, BackendDone, Rescan, SetDevices, deviceVars
    <2> QED BY <2>1, <2>2
            DEF Asked, CaptureInv, NobodyForgotten, AxisBindingUsable, captureVars
<1> QED BY <1>2, <1>3, <1>4, <1>5, <1>6 DEF Finishes

LEMMA Invariant == Spec => []IInv
<1>1. Init => IInv
    <2> SUFFICES ASSUME Init PROVE IInv
        OBVIOUS
    <2>1. LifeInv /\ FinishInv /\ ListInv /\ ClosingInv
        BY DEF Init, LifeInv, FinishInv, ListInv, ClosingInv
    <2>2. DOMAIN <<>> = {} /\ Axers \subseteq Callers
        BY DEF Callers
    <2>3. CaptureInv
        BY <2>2 DEF Init, CaptureInv
    <2>4. NobodyForgotten /\ AxisBindingUsable
        BY <2>2 DEF Init, NobodyForgotten, AxisBindingUsable
    <2> QED BY <2>1, <2>3, <2>4 DEF IInv
<1>2. IInv /\ [Next]_vars => IInv'
    <2> SUFFICES ASSUME IInv, [Next]_vars PROVE IInv'
        OBVIOUS
    <2>1. Course /\ Asked
        BY DEF IInv, Course, Asked
    <2>2. Asked'
        BY <2>1, NextIs, OthersStep, CapturesStep, EmitAxisStep, EmitButtonStep, SyncAxisStep
           DEF Emits
    <2> QED BY <2>1, <2>2, CourseStep DEF IInv, Course, Asked
<1> QED BY <1>1, <1>2, PTL DEF Spec

-----------------------------------------------------------------------------
(* Theorems.                                                               *)

\* The goroutine never sends on a stream that finish has closed, whoever runs
\* finish and whatever Start and Close do meanwhile.
THEOREM NoSendOnClosedStream == Spec => []NoSendAfterFinish
<1>1. IInv => NoSendAfterFinish
    <2> SUFFICES ASSUME LifeInv, FinishInv PROVE NoSendAfterFinish
        BY DEF IInv
    <2> QED BY DEF LifeInv, FinishInv, NoSendAfterFinish
<1> QED BY <1>1, Invariant, PTL

\* A Start that failed after it had marked the manager, and a Close after Start,
\* leave no goroutine, no device and no open stream.
THEOREM StartAndCloseLeaveNothing == Spec => []NothingLeftBehind
<1>1. IInv => NothingLeftBehind
    <2> SUFFICES ASSUME LifeInv, FinishInv, ListInv, ClosingInv PROVE NothingLeftBehind
        BY DEF IInv
    <2>1. backend = "done" => finish = "yes" /\ attached = {}
        BY DEF LifeInv, ListInv
    <2>2. CASE starter = "failed"
        BY <2>1, <2>2 DEF LifeInv, NothingLeftBehind
    <2>3. ASSUME punctual, Cardinality({c \in Closers : closing[c] # "idle"}) = 1,
                 NEW c \in Closers, closing[c] = "returned"
          PROVE  backend = "done"
        <3> DEFINE busy == {x \in Closers : closing[x] # "idle"}
        <3>1. IsFiniteSet(busy)
            BY ClosersAssumption, FS_Subset
        <3>2. PICK one : busy = {one}
            BY <2>3, <3>1, FS_Singleton
        <3>3. \A x \in Closers : closing[x] # "idle" => x = one
            BY <3>2
        <3> QED BY <2>3, <3>3 DEF ClosingInv
    <2> QED BY <2>1, <2>2, <2>3 DEF NothingLeftBehind
<1> QED BY <1>1, Invariant, PTL

\* A caller of Capture or CaptureAxis that waits is the one the next press or
\* movement answers.
THEOREM NoCaptureForgotten == Spec => []NobodyForgotten
<1>1. IInv => NobodyForgotten
    BY DEF IInv
<1> QED BY <1>1, Invariant, PTL

\* A recorded movement of an axis can be repeated: it is no jitter at an end stop.
THEOREM RecordedMovementUsable == Spec => []AxisBindingUsable
<1>1. IInv => AxisBindingUsable
    BY DEF IInv
<1> QED BY <1>1, Invariant, PTL
-----------------------------------------------------------------------------
(* The type of the state.                                                  *)

FlagsOK ==
    /\ started \in BOOLEAN /\ closed \in BOOLEAN /\ parentDone \in BOOLEAN
    /\ cancelled \in BOOLEAN /\ punctual \in BOOLEAN /\ failing \in BOOLEAN /\ enabled \in BOOLEAN

PlacesOK ==
    /\ closing \in [Closers -> {"idle", "cancel", "wait", "finish", "returned"}]
    /\ outbox \in {"none", "button", "axis"}
    /\ ready \in {"empty", "ok", "error"}

StreamsOK == events \in 0..EventCap /\ axisEvents \in 0..EventCap /\ errors \in 0..ErrorCap

AxesOK ==
    /\ attached \subseteq Devices /\ axisValues \in PartialValues /\ opened \subseteq Devices
    /\ baselines \in [Axers -> PartialValues]

AskedOK ==
    /\ asking \in [Callers -> {"idle", "waiting", "cleanup"}]
    /\ \A c \in Buttoners : answer[c] \in Bindings \cup {NoAnswer}
    /\ \A c \in Axers : answer[c] \in AxisBindings \cup {NoAnswer}

Typed == FlagsOK /\ PlacesOK /\ StreamsOK /\ AxesOK /\ AskedOK

LEMMA PartialIs ==
    ASSUME NEW D, D \subseteq Devices, NEW f \in [D -> Positions]
    PROVE  f \in PartialValues
BY DEF PartialValues

LEMMA PartialHas ==
    ASSUME NEW f \in PartialValues
    PROVE  DOMAIN f \subseteq Devices /\ f \in [DOMAIN f -> Positions]
<1>1. PICK D \in SUBSET Devices : f \in [D -> Positions]
    BY DEF PartialValues
<1> QED BY <1>1

\* A value is recorded, and the list is cut to the devices present.
LEMMA PartialWith ==
    ASSUME NEW f \in PartialValues, NEW d \in Devices, NEW v \in Positions
    PROVE  [x \in DOMAIN f \cup {d} |-> IF x = d THEN v ELSE f[x]] \in PartialValues
<1>1. DOMAIN f \subseteq Devices /\ f \in [DOMAIN f -> Positions]
    BY PartialHas
<1> QED BY <1>1, PartialIs

LEMMA PartialOn ==
    ASSUME NEW f \in PartialValues, NEW D
    PROVE  [x \in DOMAIN f \cap D |-> f[x]] \in PartialValues
<1>1. DOMAIN f \subseteq Devices /\ f \in [DOMAIN f -> Positions]
    BY PartialHas
<1> QED BY <1>1, PartialIs

LEMMA FlagsStep == FlagsOK /\ [Next]_vars => FlagsOK'
<1> SUFFICES ASSUME FlagsOK, [Next]_vars PROVE FlagsOK'
    OBVIOUS
<1> USE DEF FlagsOK, lifeVars, streamVars, backendVars
<1>1. CASE Starts
    BY <1>1 DEF Starts, StartMark, StartStep, StartSpawn, StartReady, StartContextDone, StartWait,
                ParentDone
<1>2. CASE Closes
    <2>1. PICK c \in Closers : CloseMark(c) \/ CloseStep(c)
        BY <1>2 DEF Closes
    <2>2. CASE CloseMark(c)
        <3>1. closed' = TRUE /\ UNCHANGED <<started, parentDone, cancelled, failing, enabled>>
            BY <2>2 DEF CloseMark
        <3>2. CASE closed
            BY <2>2, <3>1, <3>2, Zenon DEF CloseMark
        <3>3. CASE ~closed /\ starter \in {"ok", "failed"}
            <4>1. punctual' = TRUE
                BY <2>2, <3>3 DEF CloseMark
            <4> QED BY <3>1, <4>1, Zenon
        <3>4. CASE ~closed /\ starter \notin {"ok", "failed"}
            <4>1. punctual' = FALSE
                BY <2>2, <3>4 DEF CloseMark
            <4> QED BY <3>1, <4>1, Zenon
        <3> QED BY <3>2, <3>3, <3>4
    <2>3. CASE CloseStep(c)
        BY <2>3 DEF CloseStep, CloseCancel, CloseWait, CloseFinished
    <2> QED BY <2>1, <2>2, <2>3
<1>3. CASE Finishes
    BY <1>3 DEF Finishes, FinishMark, FinishSignal
<1>4. CASE Backs
    BY <1>4 DEF Backs, BackendInit, BackendReady, BackendInitFails, BackendCancelled, WindowGone,
                BackendReleased, BackendDone, Rescan
<1>5. CASE Emits
    <2>1. UNCHANGED failing
        BY <1>5, EmitsKeep
    <2>2. UNCHANGED <<lifeVars, enabled>>
        <3>1. CASE \E d \in Devices, v \in Positions : SyncAxis(d, v)
            BY <3>1 DEF SyncAxis
        <3>2. CASE \E d \in Devices, v \in Positions : EmitAxis(d, v)
            BY <3>2 DEF EmitAxis
        <3>3. CASE \E d \in Devices, pressed \in BOOLEAN : EmitButton(d, pressed)
            BY <3>3 DEF EmitButton
        <3> QED BY <1>5, <3>1, <3>2, <3>3 DEF Emits
    <2> QED BY <2>1, <2>2
<1>6. CASE Captures
    BY <1>6 DEF Captures, CaptureBegin, CaptureAxisBegin, CaptureWake, CaptureContextDone,
                CaptureCleanup
<1>7. CASE Streams
    BY <1>7 DEF Streams, ReportError, Send, EnableAxisEvents, ReadStream, vars
<1> QED BY NextIs, <1>1, <1>2, <1>3, <1>4, <1>5, <1>6, <1>7

LEMMA PlacesStep == PlacesOK /\ [Next]_vars => PlacesOK'
<1> SUFFICES ASSUME PlacesOK, [Next]_vars PROVE PlacesOK'
    OBVIOUS
<1> USE DEF PlacesOK, lifeVars, backendVars
<1>1. CASE Starts
    BY <1>1 DEF Starts, StartMark, StartStep, StartSpawn, StartReady, StartContextDone, StartWait,
                ParentDone
<1>2. CASE Closes
    <2>1. PICK c \in Closers : CloseMark(c) \/ CloseStep(c)
        BY <1>2 DEF Closes
    <2>2. CASE CloseMark(c)
        BY <2>2 DEF CloseMark
    <2>3. CASE CloseStep(c)
        BY <2>3 DEF CloseStep, CloseCancel, CloseWait, CloseFinished
    <2> QED BY <2>1, <2>2, <2>3
<1>3. CASE Finishes
    BY <1>3 DEF Finishes, FinishMark, FinishSignal
<1>4. CASE Backs
    BY <1>4 DEF Backs, BackendInit, BackendReady, BackendInitFails, BackendCancelled, WindowGone,
                BackendReleased, BackendDone, Rescan
<1>5. CASE Emits
    BY <1>5 DEF Emits, SyncAxis, EmitAxis, EmitButton
<1>6. CASE Captures
    BY <1>6, CapturesKeep
<1>7. CASE Streams
    BY <1>7, StreamsKeep
<1> QED BY NextIs, <1>1, <1>2, <1>3, <1>4, <1>5, <1>6, <1>7

\* No stream holds more than its capacity.
LEMMA StreamsStep == StreamsOK /\ [Next]_vars => StreamsOK'
<1> SUFFICES ASSUME StreamsOK, [Next]_vars PROVE StreamsOK'
    OBVIOUS
<1> USE DEF StreamsOK, streamVars
<1>0. EventCap \in Nat /\ ErrorCap \in Nat
    BY CapsAssumption
<1>1. CASE Starts
    BY <1>1 DEF Starts, StartMark, StartStep, StartSpawn, StartReady, StartContextDone, StartWait,
                ParentDone
<1>2. CASE Closes
    BY <1>2 DEF Closes, CloseMark, CloseStep, CloseCancel, CloseWait, CloseFinished
<1>3. CASE Finishes
    BY <1>3 DEF Finishes, FinishMark, FinishSignal
<1>4. CASE Backs
    <2>1. UNCHANGED <<events, axisEvents>>
        BY <1>4 DEF Backs, BackendInit, BackendReady, BackendInitFails, BackendCancelled,
                    WindowGone, BackendReleased, BackendDone, Rescan
    <2>2. errors' = errors \/ (errors' = errors + 1 /\ errors < ErrorCap)
        BY <1>4 DEF Backs, BackendInit, BackendReady, BackendInitFails, BackendCancelled,
                    WindowGone, BackendReleased, BackendDone, Rescan
    <2> QED BY <1>0, <2>1, <2>2
<1>5. CASE Emits
    BY <1>5 DEF Emits, SyncAxis, EmitAxis, EmitButton
<1>6. CASE Captures
    BY <1>6 DEF Captures, CaptureBegin, CaptureAxisBegin, CaptureWake, CaptureContextDone,
                CaptureCleanup
<1>7. CASE ReportError \/ EnableAxisEvents \/ ReadStream \/ UNCHANGED vars
    BY <1>0, <1>7 DEF ReportError, EnableAxisEvents, ReadStream, vars
<1>8. CASE Send
    <2>1. events' = events \/ (events' = events + 1 /\ events # EventCap)
        BY <1>8 DEF Send
    <2>2. axisEvents' = axisEvents \/ (axisEvents' = axisEvents + 1 /\ axisEvents # EventCap)
        BY <1>8 DEF Send
    <2>3. errors' = errors \/ (errors' = errors + 1 /\ errors < ErrorCap)
        BY <1>8 DEF Send
    <2> QED BY <1>0, <2>1, <2>2, <2>3
<1> QED BY NextIs, <1>1, <1>2, <1>3, <1>4, <1>5, <1>6, <1>7, <1>8 DEF Streams

LEMMA AxesStep == IInv /\ AxesOK /\ [Next]_vars => AxesOK'
<1> SUFFICES ASSUME IInv, AxesOK, [Next]_vars PROVE AxesOK'
    OBVIOUS
<1> USE DEF AxesOK
<1>1. CASE UNCHANGED <<deviceVars, baselines>>
    BY <1>1 DEF deviceVars
<1>2. CASE Starts \/ Closes
    <2>1. UNCHANGED deviceVars
        BY <1>2 DEF Starts, StartMark, StartStep, StartSpawn, StartReady, StartContextDone,
                    StartWait, ParentDone, Closes, CloseMark, CloseStep, CloseCancel, CloseWait,
                    CloseFinished
    <2> QED BY <1>1, <1>2, <2>1, OthersKeep DEF captureVars
<1>3. CASE Finishes
    BY <1>1, <1>3 DEF Finishes, FinishMark, FinishSignal, captureVars
<1>4. CASE Backs
    <2>1. UNCHANGED baselines
        BY <1>4, OthersKeep DEF captureVars
    <2>2. CASE UNCHANGED deviceVars
        BY <1>1, <2>1, <2>2
    <2>3. CASE \E D \in SUBSET Devices : SetDevices(D)
        <3>1. PICK D \in SUBSET Devices : SetDevices(D)
            BY <2>3
        <3>2. axisValues' \in PartialValues /\ attached' \subseteq Devices /\ opened' \subseteq Devices
            BY <3>1, PartialOn DEF SetDevices
        <3> QED BY <2>1, <3>2
    <2> QED BY <1>4, <2>2, <2>3
            DEF Backs, BackendInit, BackendReady, BackendInitFails, BackendCancelled, WindowGone,
                BackendReleased, BackendDone, Rescan
<1>5. CASE Emits
    <2>1. CASE \E d \in Devices, pressed \in BOOLEAN : EmitButton(d, pressed)
        BY <1>1, <2>1 DEF EmitButton
    <2>2. CASE \E d \in Devices, v \in Positions : SyncAxis(d, v)
        <3>1. PICK d \in Devices, v \in Positions : SyncAxis(d, v)
            BY <2>2
        <3>2. UNCHANGED <<attached, baselines>> /\ opened' = opened \cup {d}
            BY <3>1 DEF SyncAxis, captureVars
        <3>3. axisValues' = [x \in DOMAIN axisValues \cup {d} |-> IF x = d THEN v ELSE axisValues[x]]
            BY <3>1 DEF SyncAxis
        <3> QED BY <3>2, <3>3, PartialWith
    <2>3. CASE \E d \in Devices, v \in Positions : EmitAxis(d, v)
        <3>1. PICK d \in Devices, v \in Positions : EmitAxis(d, v)
            BY <2>3
        <3>2. UNCHANGED <<attached, opened>>
            BY <3>1 DEF EmitAxis
        <3>3. axisValues' = [x \in DOMAIN axisValues \cup {d} |-> IF x = d THEN v ELSE axisValues[x]]
            BY <3>1 DEF EmitAxis
        <3>4. \/ UNCHANGED baselines
              \/ /\ axisCapture # Nobody
                 /\ baselines' = [baselines EXCEPT ![axisCapture] =
                        [x \in DOMAIN baselines[axisCapture] \cup {d} |->
                            IF x = d THEN v ELSE baselines[axisCapture][x]]]
            BY <3>1 DEF EmitAxis
        <3>5. axisCapture # Nobody => axisCapture \in Axers
            BY DEF IInv, CaptureInv
        <3>6. axisCapture \in Axers =>
                  [x \in DOMAIN baselines[axisCapture] \cup {d} |->
                       IF x = d THEN v ELSE baselines[axisCapture][x]] \in PartialValues
            BY PartialWith
        <3>7. baselines' \in [Axers -> PartialValues]
            BY <3>4, <3>5, <3>6
        <3>8. axisValues' \in PartialValues
            BY <3>3, PartialWith
        <3> QED BY <3>2, <3>7, <3>8
    <2> QED BY <1>5, <2>1, <2>2, <2>3 DEF Emits
<1>6. CASE Captures
    <2>1. UNCHANGED deviceVars
        BY <1>6, CapturesKeep
    <2>2. <<>> \in PartialValues
        <3>1. <<>> \in [{} -> Positions]
            OBVIOUS
        <3> QED BY <3>1, PartialIs
    <2>3. baselines' \in [Axers -> PartialValues]
        BY <1>6, <2>2 DEF Captures, CaptureBegin, CaptureAxisBegin, CaptureWake,
                          CaptureContextDone, CaptureCleanup
    <2> QED BY <2>1, <2>3 DEF deviceVars
<1>7. CASE Streams
    BY <1>1, <1>7, StreamsKeep DEF captureVars
<1> QED BY NextIs, <1>2, <1>3, <1>4, <1>5, <1>6, <1>7

LEMMA AskedStep == IInv /\ AxesOK /\ AskedOK /\ [Next]_vars => AskedOK'
<1> SUFFICES ASSUME IInv, AxesOK, AskedOK, [Next]_vars PROVE AskedOK'
    OBVIOUS
<1> USE DEF AskedOK
<1>0. answer = [c \in Callers |-> answer[c]] /\ Axers \subseteq Callers /\ Buttoners \subseteq Callers
    BY DEF IInv, CaptureInv, Callers
<1>1. CASE UNCHANGED <<asking, answer>>
    BY <1>1
<1>2. CASE Starts \/ Closes \/ Backs
    BY <1>1, <1>2, OthersKeep DEF captureVars
<1>3. CASE Finishes
    BY <1>1, <1>3 DEF Finishes, FinishMark, FinishSignal, captureVars
<1>4. CASE \E d \in Devices, v \in Positions : SyncAxis(d, v)
    BY <1>1, <1>4 DEF SyncAxis, captureVars
<1>5. CASE \E d \in Devices, v \in Positions : EmitAxis(d, v)
    <2>1. PICK d \in Devices, v \in Positions : EmitAxis(d, v)
        BY <1>5
    <2>2. CASE UNCHANGED answer
        BY <1>1, <2>1, <2>2 DEF EmitAxis
    <2>3. CASE ~ UNCHANGED answer
        <3> DEFINE base == baselines[axisCapture][d]
        <3>1. /\ axisCapture # Nobody /\ d \in DOMAIN baselines[axisCapture]
              /\ answer' = [answer EXCEPT ![axisCapture] =
                     [device |-> d, direction |-> Direction(base, v), baseline |-> base]]
              /\ UNCHANGED asking
            BY <2>1, <2>3 DEF EmitAxis
        <3>2. axisCapture \in Axers /\ axisCapture \notin Buttoners
            BY <3>1, CallersAssumption DEF IInv, CaptureInv
        <3>3. base \in Positions
            BY <3>1, <3>2, PartialHas DEF AxesOK
        <3>4. [device |-> d, direction |-> Direction(base, v), baseline |-> base] \in AxisBindings
            BY <3>3 DEF AxisBindings, Direction
        <3> QED BY <1>0, <3>1, <3>2, <3>4
    <2> QED BY <2>2, <2>3
<1>6. CASE \E d \in Devices, pressed \in BOOLEAN : EmitButton(d, pressed)
    <2>1. PICK d \in Devices, pressed \in BOOLEAN : EmitButton(d, pressed)
        BY <1>6
    <2>2. UNCHANGED asking
        BY <2>1 DEF EmitButton
    <2>3. UNCHANGED answer \/ (capture # Nobody /\ answer' = [answer EXCEPT ![capture] = <<d>>])
        BY <2>1 DEF EmitButton
    <2>4. capture # Nobody => capture \in Buttoners /\ capture \notin Axers
        BY CallersAssumption DEF IInv, CaptureInv
    <2>5. <<d>> \in Bindings
        BY DEF Bindings
    <2> QED BY <1>0, <2>2, <2>3, <2>4, <2>5
<1>7. CASE Captures
    BY <1>0, <1>7 DEF Captures, CaptureBegin, CaptureAxisBegin, CaptureWake, CaptureContextDone,
                      CaptureCleanup
<1>8. CASE Streams
    BY <1>1, <1>8, StreamsKeep DEF captureVars
<1> QED BY NextIs, <1>2, <1>3, <1>4, <1>5, <1>6, <1>7, <1>8 DEF Emits

\* Every variable of the manager keeps its type: a stream never holds more than
\* its capacity, a position is known of devices only, and a capture is answered
\* with a binding of its own kind.
THEOREM ManagerTypes == Spec => []TypeOK
<1>1. Init => Typed
    <2> SUFFICES ASSUME Init PROVE Typed
        OBVIOUS
    <2>1. FlagsOK /\ PlacesOK
        BY DEF Init, FlagsOK, PlacesOK
    <2>2. StreamsOK
        BY CapsAssumption DEF Init, StreamsOK
    <2>3. <<>> \in PartialValues
        <3>1. <<>> \in [{} -> Positions]
            OBVIOUS
        <3> QED BY <3>1, PartialIs
    <2>4. AxesOK
        BY <2>3 DEF Init, AxesOK
    <2>5. AskedOK
        BY DEF Init, AskedOK, Callers
    <2> QED BY <2>1, <2>2, <2>4, <2>5 DEF Typed
<1>2. IInv /\ Typed /\ [Next]_vars => Typed'
    BY FlagsStep, PlacesStep, StreamsStep, AxesStep, AskedStep DEF Typed
<1>3. IInv /\ Typed => TypeOK
    <2> SUFFICES ASSUME LifeInv, CaptureInv, Typed PROVE TypeOK
        BY DEF IInv
    <2>1. {started, closed, parentDone, cancelled, punctual, failing, enabled} \subseteq BOOLEAN
        BY Zenon DEF Typed, FlagsOK
    <2>2. /\ starter \in {"idle", "marked", "select", "wait", "ok", "failed"}
          /\ backend \in {"none", "init", "run", "stop", "leave", "done"}
          /\ finish \in {"no", "marked", "signalled", "yes"}
        BY DEF LifeInv
    <2>3. capture \in Buttoners \cup {Nobody} /\ axisCapture \in Axers \cup {Nobody}
        BY DEF CaptureInv
    <2> QED BY <2>1, <2>2, <2>3, Zenon
            DEF Typed, PlacesOK, StreamsOK, AxesOK, AskedOK, TypeOK
<1> QED BY <1>1, <1>2, <1>3, Invariant, PTL DEF Spec
=============================================================================

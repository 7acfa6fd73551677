-------------------------- MODULE DirectInputDevice --------------------------
(***************************************************************************)
(* The thread of the DirectInput backend and one of its devices            *)
(* (pkg/controller/directinput_windows.go): enumeration, set-up, polling of *)
(* the buffered records, reconciliation with the present state, recovery   *)
(* of a device that was lost, and release.                                 *)
(*                                                                         *)
(* Each call into DirectInput is a step, so that the device may move, be    *)
(* lost or be unplugged between any two.  DirectInput itself is external    *)
(* and modelled as the code relies on it: a device reports the default     *)
(* frame until its driver published a real one (directinput_windows.go:300, *)
(* 411), changes are buffered while it is acquired, a buffer that is full   *)
(* loses a record and says so once, and calls fail while the device is not *)
(* acquired.  A device without buttons and axes is left out: it is never    *)
(* opened.                                                                  *)
(***************************************************************************)
EXTENDS Naturals, Sequences, FiniteSets

CONSTANTS
    Buttons,
    Axes,
    Levels,     \* positions of an axis
    Center,     \* the position of the default frame
    BufferSize, \* deviceBuffer: 256
    Batch,      \* records read by one GetDeviceData: 64
    NoState     \* runtimeAxis.hasState is FALSE

ASSUME ControlsAssumption == Buttons \cap Axes = {} /\ Buttons \cup Axes # {}
ASSUME LevelsAssumption == NoState \notin Levels \cup {Center}
ASSUME BufferAssumption == Batch \in 1..BufferSize /\ BufferSize \in Nat

VARIABLES
    \* the device and its driver
    attached,   \* it is plugged in
    phys,       \* phys[c]: where control c really is
    fresh,      \* controls of which the driver published a real sample
    polls,      \* calls of Poll since it was created or plugged in, up to 2
    acquired,
    buffer,     \* records waiting for GetDeviceData
    spilled,    \* a record was lost: GetDeviceData says DI_BUFFEROVERFLOW
    \* the thread
    pc,         \* the call it makes next
    mode,       \* "setup", "tick" or "recover": on whose behalf
    round,      \* stabilising rounds done in set-up: 0 to 2
    ready,      \* Start was told that the backend is ready
    stopping,   \* ctx is done
    seen,       \* the last enumeration found the device
    known,      \* it is in directInputRuntime.devices
    open,       \* runtimeDevice.device is set (and initialized is)
    view,       \* buttonState and the raw values of the axes
    \* what the sink was told, and history
    listed,     \* it was in the last setDevices
    pressed,    \* buttons whose last event was a press
    genuine,    \* axes whose value in view is a real sample
    phantom,    \* since it was opened: an axis event reported a movement nobody made
    unsteady,   \* since it was opened: set-up was cut short, or the device unplugged
    blind       \* controls whose newest change was thrown away unread

driverVars == <<attached, phys, fresh, polls, acquired, buffer, spilled>>
placeVars == <<pc, mode, round>>
lifeVars == <<ready, stopping, seen, known, open>>
sinkVars == <<listed, pressed, genuine, phantom>>
historyVars == <<unsteady, blind>>
vars == <<driverVars, placeVars, lifeVars, view, sinkVars, historyVars>>

Controls == Buttons \cup Axes
Up == 0
Down == 1
Values(c) == IF c \in Buttons THEN {Up, Down} ELSE Levels
Default == [c \in Controls |-> IF c \in Buttons THEN Up ELSE Center]
Unread == [c \in Controls |-> IF c \in Buttons THEN Up ELSE NoState]

\* What GetDeviceState returns.
Frame == [c \in Controls |-> IF c \in fresh THEN phys[c] ELSE Default[c]]

Record == {r \in Controls \X (Levels \cup {Up, Down}) : r[2] \in Values(r[1])}
RecordsOf(c, records) == {i \in DOMAIN records : records[i][1] = c}
LastOf(c, records) ==
    CHOOSE i \in RecordsOf(c, records) : \A j \in RecordsOf(c, records) : j <= i

\* The state after the records, each applied in turn: for each control its
\* last record decides.
Replay(state, records) ==
    [c \in Controls |-> IF RecordsOf(c, records) = {} THEN state[c]
                        ELSE records[LastOf(c, records)][2]]

Smaller(a, b) == IF a < b THEN a ELSE b
Taken == SubSeq(buffer, 1, Smaller(Batch, Len(buffer)))
Left == SubSeq(buffer, Len(Taken) + 1, Len(buffer))

Init ==
    /\ attached \in BOOLEAN
    /\ phys \in {f \in [Controls -> Levels \cup {Up, Down}] : \A c \in Controls : f[c] \in Values(c)}
    /\ fresh = {} /\ polls = 0 /\ acquired = FALSE /\ buffer = <<>> /\ spilled = FALSE
    /\ pc = "sync" /\ mode = "tick" /\ round = 0
    /\ ready = FALSE /\ stopping = FALSE /\ seen = FALSE /\ known = FALSE /\ open = FALSE
    /\ view = Unread
    /\ listed = FALSE /\ pressed = {} /\ genuine = {} /\ phantom = FALSE
    /\ unsteady = FALSE /\ blind = {}

-----------------------------------------------------------------------------
(* The device and its driver.                                              *)

Plug ==
    /\ ~attached /\ attached' = TRUE
    /\ UNCHANGED <<phys, fresh, polls, acquired, buffer, spilled, placeVars, lifeVars,
                   view, sinkVars, historyVars>>

\* The device is lost to another program, or to the system for a while.
Lose ==
    /\ acquired
    /\ acquired' = FALSE /\ buffer' = <<>> /\ spilled' = FALSE
    /\ UNCHANGED <<attached, phys, fresh, polls, placeVars, lifeVars, view, sinkVars, historyVars>>

\* Unplugging loses the device too, and its driver starts anew when it is back.
Unplug ==
    /\ attached /\ attached' = FALSE
    /\ acquired' = FALSE /\ buffer' = <<>> /\ spilled' = FALSE
    /\ fresh' = {} /\ polls' = 0
    /\ unsteady' = (unsteady \/ open)
    /\ UNCHANGED <<phys, placeVars, lifeVars, view, sinkVars, blind>>

\* A change of c enters the buffer; when that is full a record is lost, the
\* new one or the oldest.
Buffered(c, v) ==
    IF Len(buffer) < BufferSize
    THEN /\ buffer' = Append(buffer, <<c, v>>)
         /\ blind' = blind \ {c}
         /\ UNCHANGED spilled
    ELSE /\ spilled' = TRUE
         /\ \/ buffer' = buffer /\ blind' = blind \cup {c}
            \/ /\ buffer' = Append(Tail(buffer), <<c, v>>)
               /\ blind' = (blind \ {c}) \cup {d \in Controls : d = Head(buffer)[1] /\ RecordsOf(d, buffer') = {}}

Move(c) ==
    \E v \in Values(c) \ {phys[c]} :
        /\ attached
        /\ phys' = [phys EXCEPT ![c] = v]
        /\ IF acquired /\ c \in fresh THEN Buffered(c, v) ELSE UNCHANGED <<buffer, spilled, blind>>
        /\ UNCHANGED <<attached, fresh, polls, acquired, placeVars, lifeVars, view, sinkVars, unsteady>>

\* The driver's first real sample of c.
Publish(c) ==
    /\ acquired /\ polls > 0 /\ c \notin fresh
    /\ fresh' = fresh \cup {c}
    /\ IF phys[c] # Default[c] THEN Buffered(c, phys[c]) ELSE UNCHANGED <<buffer, spilled, blind>>
    /\ UNCHANGED <<attached, phys, polls, acquired, placeVars, lifeVars, view, sinkVars, unsteady>>

-----------------------------------------------------------------------------
(* What the thread tells its sink.  emitButtonIfChanged and               *)
(* emitAxisIfChanged send only what differs from the view.                 *)

\* Controls of which some record says another value than the view.
Moved(records) ==
    {c \in Controls : \E i \in RecordsOf(c, records) : records[i][2] # view[c]}

\* The view becomes new, with events for each control that differs or moved on
\* the way; real are the controls for which new holds a real sample.
EmitChanges(moved, new, real) ==
    LET changed == moved \cup {c \in Controls : view[c] # new[c]}
        axes == changed \cap Axes
    IN  /\ view' = new
        /\ pressed' = {b \in Buttons : IF b \in changed THEN new[b] = Down ELSE b \in pressed}
        /\ genuine' = (genuine \ axes) \cup (axes \cap real)
        /\ phantom' = (phantom \/ \E a \in axes : \/ a \notin real
                                                  \/ a \notin genuine /\ view[a] # NoState)

\* emit = FALSE: syncAxis for the axes, nothing for the buttons.
SyncState(new, real) ==
    /\ view' = new
    /\ genuine' = Axes \cap real
    /\ UNCHANGED <<pressed, phantom>>

\* Faulty variant: no release is sent.
ReleaseSilently ==
    /\ view' = [c \in Controls |-> IF c \in Buttons THEN Up ELSE view[c]]
    /\ open' = FALSE /\ known' = FALSE
    /\ acquired' = FALSE /\ buffer' = <<>> /\ spilled' = FALSE
    /\ UNCHANGED <<pressed, genuine, phantom>>

\* runtimeDevice.release with emitReleased.
Release ==
    /\ pressed' = {} /\ view' = [c \in Controls |-> IF c \in Buttons THEN Up ELSE view[c]]
    /\ open' = FALSE /\ known' = FALSE
    /\ acquired' = FALSE /\ buffer' = <<>> /\ spilled' = FALSE
    /\ UNCHANGED <<genuine, phantom>>

-----------------------------------------------------------------------------
(* syncDevices and initializeDevice.                                       *)

Enumerate ==
    /\ pc = "sync"
    /\ seen' = attached /\ known' = (known \/ attached)
    /\ pc' = IF attached /\ ~open THEN "create" ELSE "sweep"
    /\ UNCHANGED <<driverVars, mode, round, ready, stopping, open, view, sinkVars, historyVars>>

EnumerateFails ==
    /\ pc = "sync"
    /\ pc' = IF ready THEN "idle" ELSE "leave"
    /\ UNCHANGED <<driverVars, mode, round, lifeVars, view, sinkVars, historyVars>>

Create ==
    /\ pc = "create" /\ attached
    /\ open' = TRUE /\ fresh' = {} /\ polls' = 0
    /\ view' = [c \in Controls |-> IF c \in Axes THEN NoState ELSE view[c]]
    /\ pc' = "acquire" /\ mode' = "setup" /\ round' = 0
    /\ phantom' = FALSE /\ unsteady' = FALSE
    /\ UNCHANGED <<attached, phys, acquired, buffer, spilled, ready, stopping, seen, known,
                   listed, pressed, genuine, blind>>

\* So it does when the driver refuses the format, the range or the buffer.
CreateFails ==
    /\ pc = "create"
    /\ pc' = "sweep"
    /\ UNCHANGED <<driverVars, mode, round, lifeVars, view, sinkVars, historyVars>>

\* Release what was not enumerated, then setDevices.  The first time around
\* Start is told.
Sweep ==
    /\ pc = "sweep"
    /\ IF known /\ ~seen THEN Release
       ELSE UNCHANGED <<pressed, view, open, known, acquired, buffer, spilled, genuine, phantom>>
    /\ listed' = known'
    /\ ready' = TRUE /\ pc' = "idle"
    /\ UNCHANGED <<attached, phys, fresh, polls, mode, round, stopping, seen, historyVars>>

-----------------------------------------------------------------------------
(* One call into the device.                                               *)

\* A call failed outside a tick: the rest is given up.
GiveUp ==
    /\ pc' = IF mode = "setup" THEN "sweep" ELSE "idle"
    /\ unsteady' = (unsteady \/ mode = "setup")
    /\ UNCHANGED <<driverVars, mode, round, lifeVars, view, sinkVars, blind>>

\* A call of a tick failed: acquireAndReconcile.
Recover ==
    /\ pc' = "acquire" /\ mode' = "recover"
    /\ UNCHANGED <<driverVars, round, lifeVars, view, sinkVars, historyVars>>

Acquire ==
    /\ pc = "acquire" /\ attached
    /\ acquired' = TRUE /\ pc' = "poll"
    /\ UNCHANGED <<attached, phys, fresh, polls, buffer, spilled, mode, round, lifeVars,
                   view, sinkVars, historyVars>>

\* Another program may hold the device, too.
AcquireFails == pc = "acquire" /\ ~acquired /\ GiveUp

\* Faulty variant: a device is acquired again but not reconciled.
SkipReconcile == CASE mode = "tick" -> "data" [] mode = "recover" -> "drain" [] OTHER -> "state"

\* What follows a Poll.
AfterPoll == IF mode = "tick" THEN "data" ELSE "state"

\* The driver's first frame is due one polling interval after the first Poll.
Poll ==
    /\ pc = "poll" /\ acquired
    /\ polls = 2 => fresh = Controls
    /\ polls' = Smaller(polls + 1, 2)
    /\ pc' = AfterPoll
    /\ UNCHANGED <<attached, phys, fresh, acquired, buffer, spilled, mode, round, lifeVars,
                   view, sinkVars, historyVars>>

PollFails == pc = "poll" /\ ~acquired /\ IF mode = "tick" THEN Recover ELSE GiveUp

\* reconcile: GetDeviceState and applyInputState.
ReadState ==
    /\ pc = "state" /\ acquired
    /\ IF mode = "setup" THEN SyncState(Frame, fresh) ELSE EmitChanges({}, Frame, fresh)
    /\ blind' = {c \in blind : RecordsOf(c, buffer) # {}}
    /\ pc' = IF mode = "tick" THEN "idle" ELSE "drain"
    /\ UNCHANGED <<driverVars, mode, round, lifeVars, listed, unsteady>>

ReadStateFails == pc = "state" /\ ~acquired /\ GiveUp

\* Faulty variants: one round too many; no stabilising rounds.
OneRoundMore == mode = "setup" /\ round <= 2
NoRounds == FALSE

\* Set-up polls the device again, twice.
MoreRounds == mode = "setup" /\ round < 2

\* drainDeviceData, one GetDeviceData at a time; its errors are ignored.
Drain ==
    /\ pc = "drain"
    /\ buffer' = Left /\ spilled' = FALSE
    /\ blind' = blind \cup {c \in fresh : /\ RecordsOf(c, Taken) # {}
                                          /\ Replay(view, Left)[c] # phys[c]}
    /\ IF acquired /\ Len(Taken) = Batch
       THEN UNCHANGED <<pc, round>>
       ELSE IF MoreRounds
       THEN pc' = "poll" /\ round' = round + 1
       ELSE pc' = (IF mode = "setup" THEN "sweep" ELSE "idle") /\ UNCHANGED round
    /\ UNCHANGED <<attached, phys, fresh, polls, acquired, mode, lifeVars, view, sinkVars, unsteady>>

\* GetDeviceData in runtimeDevice.poll: every record in turn, and after an
\* overflow the present state, with the records that are left still waiting.
ReadData ==
    /\ pc = "data" /\ acquired
    /\ EmitChanges(Moved(Taken), Replay(view, Taken), Controls)
    /\ buffer' = Left /\ spilled' = FALSE
    /\ pc' = CASE spilled -> "state"
               [] ~spilled /\ Len(Taken) < Batch -> "idle"
               [] OTHER -> "data"
    /\ UNCHANGED <<attached, phys, fresh, polls, acquired, mode, round, lifeVars, listed, historyVars>>

ReadDataFails == pc = "data" /\ ~acquired /\ Recover

-----------------------------------------------------------------------------
(* The loop of directInputBackend.run.                                     *)

\* A tick of the poll ticker.
Tick ==
    /\ pc = "idle" /\ open
    /\ pc' = "poll" /\ mode' = "tick"
    /\ UNCHANGED <<driverVars, round, lifeVars, view, sinkVars, historyVars>>

\* A tick of the rescan ticker that deviceRescanAllowed lets through.
Rescan ==
    /\ pc = "idle"
    /\ pc' = "sync" /\ mode' = "tick"
    /\ UNCHANGED <<driverVars, round, lifeVars, view, sinkVars, historyVars>>

\* The caller's window is gone.
WindowGone ==
    /\ pc = "idle"
    /\ pc' = "leave"
    /\ UNCHANGED <<driverVars, mode, round, lifeVars, view, sinkVars, historyVars>>

Cancel ==
    /\ ~stopping /\ stopping' = TRUE
    /\ UNCHANGED <<driverVars, placeVars, ready, seen, known, open, view, sinkVars, historyVars>>

ContextDone ==
    /\ pc = "idle" /\ stopping
    /\ pc' = "leave"
    /\ UNCHANGED <<driverVars, mode, round, lifeVars, view, sinkVars, historyVars>>

\* The deferred releaseAll.
Leave ==
    /\ pc = "leave"
    /\ Release /\ listed' = FALSE /\ pc' = "ended"
    /\ UNCHANGED <<attached, phys, fresh, polls, mode, round, ready, stopping, seen, historyVars>>

Calls == \/ Enumerate \/ EnumerateFails \/ Create \/ CreateFails \/ Sweep
         \/ Acquire \/ AcquireFails \/ Poll \/ PollFails \/ ReadState \/ ReadStateFails
         \/ Drain \/ ReadData \/ ReadDataFails \/ Leave
Loop == Tick \/ Rescan \/ WindowGone \/ ContextDone
Device == Plug \/ Lose \/ Unplug \/ \E c \in Controls : Move(c) \/ Publish(c)

Next == Calls \/ Loop \/ Device \/ Cancel

Spec == Init /\ [][Next]_vars

\* A call into DirectInput returns; the driver publishes its first frame; the
\* select of the loop picks each ready case again and again (the tickers and
\* ctx.Done compete at "idle" only, hence strong fairness); an enumeration,
\* a creation or an acquisition that is possible again and again succeeds some
\* time.
\* Nothing makes the device move, be lost or come back.
FairSpec ==
    /\ Spec
    /\ WF_vars(Calls)
    /\ \A c \in Controls : WF_vars(Publish(c))
    /\ SF_vars(Tick) /\ SF_vars(Rescan) /\ SF_vars(ContextDone)
    /\ SF_vars(Enumerate) /\ SF_vars(Create) /\ SF_vars(Acquire)

-----------------------------------------------------------------------------
(* Properties.                                                             *)

TypeOK ==
    /\ attached \in BOOLEAN /\ acquired \in BOOLEAN /\ spilled \in BOOLEAN
    /\ phys \in [Controls -> Levels \cup {Up, Down}]
    /\ fresh \subseteq Controls /\ polls \in 0..2 /\ round \in 0..2
    /\ buffer \in Seq(Record) /\ Len(buffer) <= BufferSize
    /\ pc \in {"sync", "create", "sweep", "acquire", "poll", "state", "drain", "data",
               "idle", "leave", "ended"}
    /\ mode \in {"setup", "tick", "recover"}
    /\ \A flag \in {ready, stopping, seen, known, open, listed, phantom, unsteady} : flag \in BOOLEAN
    /\ view \in [Controls -> Levels \cup {Up, Down, Center, NoState}]
    /\ pressed \subseteq Buttons /\ genuine \subseteq Axes /\ blind \subseteq Controls

\* Between two rounds of the loop, the view with the records still buffered
\* gives where every control really is, unless the newest change of that
\* control was thrown away unread: by a buffer that was full, or by the drain
\* that follows a reconciliation.  Whatever the device did while it was lost,
\* while a batch was read or while it was set up is made up for.
ViewCatchesUp ==
    (pc = "idle" /\ acquired) =>
        \A c \in fresh \ blind : Replay(view, buffer)[c] = phys[c]

\* A button the sink believes to be pressed is one the backend will let go:
\* it is pressed in the view, and none is left once the device is gone from
\* the list or the backend has ended (the disconnect release).
NoButtonLeftDown ==
    /\ \A b \in pressed : view[b] = Down
    /\ ~listed => pressed = {}

\* The stabilising polls keep the driver's default frame from being reported
\* as a movement, unless set-up was cut short or the device unplugged since then:
\* one that is back before the next scan is acquired again without such polls.
NoPhantomAfterSetup == phantom => unsteady

\* The loops over GetDeviceData have no bound: they end because the device does
\* not fill a batch between any two calls for ever.
Calm == <>[][phys' = phys]_vars

\* A device that stays plugged in is acquired again however often it was
\* lost, as long as the backend runs.
Recovers == Calm /\ <>[]attached => []<>(acquired \/ pc = "ended")

\* What the sink is told of the device, in the terms of DeviceProtocol.  While
\* syncDevices opens it the axes are read, but no event is sent.
OpensNow == mode = "setup" /\ pc \notin {"idle", "leave", "ended"}
Phase ==
    IF pc = "ended" THEN "over"
    ELSE IF pc = "leave" THEN "stop"
    ELSE IF OpensNow \/ pc \in {"sync", "create", "sweep"} THEN (IF ready THEN "sync" ELSE "init")
    ELSE "run"
Sampled ==
    IF ~open \/ \A a \in Axes : view[a] = NoState THEN "no" ELSE IF OpensNow THEN "now" ELSE "yes"

Protocol == INSTANCE DeviceProtocol WITH
    phase <- Phase, sampled <- Sampled, down <- pressed

\* The manager is told of the device in the order it relies on, whatever calls
\* fail and whenever the device is lost, is gone or comes back.
ImplementsProtocol == Protocol!DeviceSpec

\* What CHANGELOG.md:42 says of the stabilising polls: they are made before a
\* device is ready so that the driver's initial centre frame causes no phantom
\* axis events and no wrong bindings.
NoPhantomAxisEvents == ~phantom
=============================================================================

# tracklogic-peripherals: formal models

TLA+ models of the peripherals library, the TLC configurations that check them
on small instances, and TLAPS proofs of the results that matter most for every
instance. Paths are relative to the repository; definitions keep the names of
the source where they can.

## 1. The system

The library is three packages that a racing application embeds, all on Windows.

| Part | Source | State | Operations |
|---|---|---|---|
| input manager | `pkg/input/manager.go` | devices, last snapshot of each device, held controls, keys, subscribers, `running`, `closed`, `capturing` | `Start`, `run`, `apply`, `Subscribe` and its cancel function, `Capture`, `Close`, reads |
| event fan-out | `publishLocked` in the same file | one channel of 256 events per subscriber, `sequence` | publish, overflow, subscribe, unsubscribe, close |
| keyboard interception | `pkg/input/keyboard.go`, `native_windows.go` | policy, keys down, keys suppressed, `Active`, `BlockedEdges`, target process | low-level hook, policy request, loop of the thread |
| native source | `pkg/input/native_windows.go` | one OS thread, one instance per process, message queue of 1024, policy requests, wake event | `openNative`, `Read`, `Close`, `SetKeyboardPolicy` |
| raw controllers | `pkg/input/rawcontroller_windows.go` | controllers with buttons and switches, whether their baseline was sent, when to try a failed one again | `syncControllers`, `pollControllers` |
| controller manager | `pkg/controller/manager.go` | `started`, `closed`, two pending captures, axis positions, three bounded streams | `Start`, `Close`, `Capture`, `CaptureAxis`, `AxisEvents`, callbacks of the backend |
| DirectInput backend | `pkg/controller/directinput_windows.go` | devices, button and axis states | sync, poll, acquire, reconcile, release |
| hpr manager | `pkg/hpr/manager.go` | drivers | `Scan`, and `Open` of what it found |
| Simagic driver | `pkg/hpr/driver/simagic` | last command per pedal, `closed`, `flushed` | `Open`, `Vibrate`, `Stop`, `Pulse`, `ReadPedal`, `Close` |
| HID transport | `internal/hidtransport/windows.go` | one handle behind a mutex | scan, reports, close |
| examples | `examples/` | none | demonstration programs |

How they interact:

- The native thread owns the hook and the controllers. It sends numbered
  snapshots through a queue to the `run` goroutine of the input manager, which
  folds them into the held controls and publishes edges to the subscribers'
  channels while it holds `Manager.mu`. `Capture` is a subscriber of its own
  manager that also reads the held controls.
- The hook runs on the same thread as the loop and the policy requests, so
  these three exclude each other; the foreground window, the target process and
  cancellation change under them.
- The DirectInput goroutine calls back into the controller manager, which
  answers captures under its mutex and sends on bounded streams without it.
- The Simagic driver is called by the application and keeps its own mutex over
  every call of the transport.

What is hard: subscribers that read slowly or never, receives that fall inside
a drain, unlocking between admission and registration, cancellation and `Close`
at any point, a policy change between a press and its release, buffers at their
limit, a device that fails in the middle of a handler, and a second call that
arrives before the first one has finished.

## 2. Modules

| Module | Builds on | Models |
|---|---|---|
| `LossyFeed` | | abstract: what a subscriber is promised |
| `EventFanout` | refines `LossyFeed` | `publishLocked`, `Subscribe`, channels |
| `SnapshotProtocol` | | abstract: what the input manager relies on in its source |
| `NativeSource` | refines `SnapshotProtocol` | thread, queue, `openNative`, `Read`, `Close`, raw controllers |
| `InputManager` | assumes `SnapshotProtocol` | state, events, `Capture` and life of the manager |
| `KeyboardModel` | | hook, interception, loop of the thread |
| `PolicyRequests` | refines `KeyboardModel` | callers of `SetKeyboardPolicy`, time-outs, the request channel |
| `DeviceProtocol` | | abstract: what the controller manager relies on in each device |
| `ControllerManager` | assumes `DeviceProtocol` | life, captures, callbacks and streams |
| `DirectInputDevice` | refines `DeviceProtocol` | one device of the DirectInput backend, call by call |
| `HprScan` | | scan of the HID interfaces, claim, `matchModel` |
| `SimagicDevice` | | one open pedal set and its transport |
| `PedalSession` | refines `SimagicDevice`, with `HprScan` | scan, open, use |

`MC*` modules give the constants their values; the `*Proofs` modules hold the
theorems. Operators marked "Faulty variant of" are plausible mistakes in the
code; nothing uses them. They document which mistake each property excludes.

### Input

`EventFanout` models the fan-out with one step per channel operation. `owner`
is the holder of `Manager.mu`; the publisher's program counter `pc` distinguishes
the loop (`next`), the inner drain (`drain`) and the blocking send (`resend`).
`Receive` needs no lock and may come between any two of them. An element of
`Subs` is one call of `Subscribe`. `LossyFeed` is the promise without channels
or locks: numbered events in order, a subscriber may fall behind at any time,
and only a reset lets it follow again. `EventFanout` refines it: a subscriber is
behind while its channel is being drained or holds an overflow reset.

`NativeSource` models the source as its manager sees it. `pc` says where the
thread is, from start-up over the turns of the loop to the deferred calls, one
step each. A handler changes what only the thread sees in one step and leaves
its messages in `outbox`. `emit` takes them one at a time and in two steps, the
look at the context (`EmitBegin`) and the send (`EmitSend`), so that the reader,
`Close` and the parent context come between any two: a message that was
`admitted` is still sent when the source ends meanwhile, and the queue may
overflow between the announcement of a controller and its baseline. `Sync` is one
enumeration: it finds new COM devices under ids it knew or did not know
(`fresh`), known ones (`same`), and, unless a call failed on the way, takes what
it did not find for unplugged. `PollOne` reads one controller, which may fail
and is then left alone for a while (`cooling`). `busy` and `active` are the
globals of the process, which another manager (`Rival`) competes for. `sent` is
what the thread believes the reader will know, `known` what the reader was told.
The keyboard is here one more device; that its snapshots are right is the
subject of the next two modules.

`KeyboardModel` models `keyboardModel` and the code of the native thread that
drives it. One `KeyEdge` is one run of the hook: it looks the foreground up,
applies the edge, sends the snapshot and looks the foreground up again, which
may have changed, and it may be cancelled or fail half way. `gameDown` is the
history of what the rest of the system was shown.

`PolicyRequests` adds who asks for policies. `call` is the one call that
`Manager.policyMu` lets in; its context (500 ms, or the caller's) may be done at
any time (`lapsed`), and it then leaves although its request is still in
`commands` or is being applied. A request whose caller has left (`mine` is
false) is answered to nobody. `expected` is the history of the policies that the
callers have to reckon with. Hook and loop go on only between requests, since
one thread does all three.

`InputManager` models the state of the input manager (`m`: devices, snapshots,
held, keys, interception status), its life, and `Capture`. Its source keeps to
`SnapshotProtocol`: `stage` is what the protocol allows next. A handler changes
the state and queues its events in one step, since nobody sees the state without
the mutex; `PublishOne` then delivers them one at a time, in any order within a
batch because Go ranges over maps in any order. A full channel becomes one reset
in one step: that this is what the channel operations amount to is what
`EventFanout` shows. `believed` is what a subscriber that follows the events
takes to be held; `quiet` are held controls it could not know of, since they
came with a baseline or before it subscribed or were forgotten by a reset.

### Controllers

`ControllerManager` models the life of `controller.Manager`, both captures, the
callbacks of the backend and the streams. The backend goroutine is
nondeterministic within what `directInputBackend.run` can do: fail to open, sync
devices, report edges and samples, stop when its context is done or its window
is gone, and release everything before it leaves. A `syncDevices` takes several
steps, since a capture may come between its callbacks: it samples the axes of
the devices it opens (`opened`), which may include listed ones that had failed
to open before, releases the buttons of those that are gone, and sets the list.

`DirectInputDevice` models one device of the DirectInput backend and the thread
that drives it, one step per call into DirectInput (`pc` names the next one), so
that the device may move, be lost, or be unplugged between any two. `mode` says
on whose behalf a call is made, which decides what a failure leads to: set-up
gives up, a tick goes over to `acquireAndReconcile`, a recovery waits for the
next tick. DirectInput is external: a buffer loses its newest or its oldest
record when it is full and says so once, calls fail while the device is not
acquired, and a device answers with its default frame until its driver has
published a real one, which is due by the third `Poll`; after unplugging the
driver starts anew. `ReadData` is the events of a whole batch: a control is
reported when some record differs from the view (`Moved`), also when a later one
undoes it. `pressed` is what the sink was told, `phantom` and `genuine` remember
whether an axis event stood for a real movement, `blind` which controls' newest
change was thrown away unread, and `unsteady` that the device did not go through
an undisturbed set-up since it was opened.

`DeviceProtocol` states, for one device, what the manager relies on in its
backend: the axes are sampled in the `syncDevices` that opens the device, before
it is used; events come only while it is listed and no `syncDevices` is under
way; and whoever takes it off the list has let go of its buttons.
`DirectInputDevice` implements it, whichever calls fail.

### Pedals

`HprScan` models a scan, one step per call on the temporary handle of an
interface, each of which may fail for one interface and succeed for the next.
A name is the set of hints `matchModel` looks for. The loop of `Manager.Scan`
(`ClaimNext`) then gives each descriptor to the first driver that matches and
lets that driver describe it; what no driver claims is left out.
`silent` remembers which calls failed for which interface.

`SimagicDevice` models one open pedal set with its HID transport. `device.mu`
makes most calls one step; `Open`, `Close` and `ReadPedal` take more, with
`owner` holding the mutex in the two latter, and `Pulse` sleeps without it. The
pedal is external: it obeys the reports that reach it, a report that fails may
have reached it (`doubt`), its watchdog stops a motor that is not refreshed, and
its input reports wait in a ring of which the oldest is lost. `ReadFile` may
fail at any time, with the pedal gone or not. `flusher` and
`during` remember whose call flushed the ring and where the pedal was during
each call.

`PedalSession` composes the two: a program scans, perhaps again, and opens a
pedal that the Simagic driver claimed.

## 3. Runs

| Run | What it asks |
|---|---|
| `fanout` | two subscribers, channels of 2, 4 events and a Close: losses are made good by a reset, the publisher never waits for a subscriber, Close completes, the feed is implemented |
| `keyboard` | `PolicyRequests` with a letter and a modifier key, two processes, policies with and without a pass-through chord: no stuck key, the policy in force is obeyed and is one the callers know of, interception ends when the target leaves the foreground |
| `native_source` | the keyboard and one controller that comes, goes, is replaced and fails, a queue of 4, a start that fails anywhere, a rival manager: one hook at a time, nothing is lost or out of order on the way to the reader, every call returns |
| `input_watch` | a keyboard of two keys and a pad with a button and a hat, a subscriber with a channel of 2: the maps agree with the snapshots, a follower's view agrees with the maps, a manager whose source is gone is empty |
| `capture` | `Capture` of a key with a modifier and of a hat with two directions, whose gesture ends only when it is centred: the end of the gesture is not missed, old presses are not recorded, Close ends it |
| `controller_life` | one Start, two Closes, one capture, a backend that fails anywhere, streams of 1 that nobody need read: no send on a closed stream, nothing is left running or listed, every caller returns |
| `controller_capture` | two button captures and one axis capture compete for one device whose axis is at 0, 90 or 100 percent |
| `capture_race` | violated: see findings |
| `controller_close_race` | violated: see findings |
| `directinput_device` | a button and an axis, plugged in and out, lost and acquired, a buffer that overflows: the view catches up with the device, no button stays down, no phantom movement after a complete set-up, a lost device is acquired again |
| `directinput_phantom` | violated: see findings |
| `pedal_session` | two interfaces, one of them a pedal, then two callers, one target, an amplitude of 0 and one beyond the limit, two positions, a ring of 1: the pedal is found with its model, commands that return nil took effect, a closed pedal rests, the first read is current, every call returns |

Bounds. A channel of two is full, half full and empty, so every branch of
`publishLocked` is taken with a receive on either side; one more event makes a
second overflow before the reset of the first is read, which four events allow.
`MaxSeq` and `MaxBlocked` only cut counters that nothing compares with a limit;
all other runs are finite without a bound. Two subscribers are enough to serve
one while the other is drained. One modifier and one ordinary key show every
order of a chord. A queue of four is the smallest that `NativeSource` admits
with one controller (the announcements and baselines of start-up, which come
before anybody reads) and overflows when the reader falls one message behind;
two readings are a value and a change. One controller shows every transition of
a controller, since handlers treat controllers independently; the proofs are for
any number. Capture has a channel of one, which overflows with every second
event and so shows the resets it must survive; longer channels are the subject
of `fanout` and `input_watch`. The 90 percent position is closer to its end than
the smallest movement of 20 percent; `controller_life` captures no axis, so one
position is enough there. A DirectInput buffer of 3 records read 2 at
a time overflows, fills a batch exactly and leaves a record behind, as 256 and
64 do; more records add nothing, since each control is decided by its last one.
One position of an axis is the default frame and one is another. A scan of two
interfaces, in either order, shows what is left over from a first round; the
second is claimed by another driver. Two Simagic callers are the one that holds
the mutex and the one that waits for it; their commands lie beyond the upper
limits of `normalize` or have no amplitude. Runs do not check deadlock because a
manager that is closed and whose callers have returned stops for good.

Fairness. The holder of the mutex goes on; `run` leaves after cancellation,
because its source is then closed and `Read` returns; callers of `Close` and
`Capture` go on. In `NativeSource` the thread goes on (calls into Windows return
and the loop waits at most 250 ms), a call that can return does, and the manager
keeps reading. In `PolicyRequests` a turn of the loop is strongly fair: the loop
drains the request channel before it looks the foreground up, callers could
refill it, but each call ends before the next and not every look finds a new
one. The select of the DirectInput loop picks at random among ready channels, so
a done context is picked in the end (strong fairness); an enumeration returns
and has finitely many devices to open, so a `syncDevices` under way ends (strong
fairness too, since it may release buttons before it does); and `releaseAll` has
finitely many buttons to release. In `DirectInputDevice` the same strong
fairness stands for each case of that select, and an enumeration, creation or
acquisition that is possible again and again succeeds some time; its liveness
property also supposes `Calm`, that the device stops moving, because the loops
over `GetDeviceData` have no bound. In `SimagicDevice` a Go mutex that is free
again and again is got in the end, and a pedal that is plugged in keeps sending
reports (`WF_vars(Report)`): `ReadPedal` waits for one with the mutex held, so a
silent pedal would block `Stop` and `Close`, and `CallsReturn` says nothing of
that case. Nor is a read of a pedal that is plugged in supposed to fail some
time: the strong fairness of a caller leaves such a failure (`ReadBreaks`) out.
`PedalSession` asks for no more: a scan may never be made. Otherwise
nothing is assumed of the readers of a channel, of devices or of the user.

## 4. Findings

- `controller_close_race`. `Start` releases its mutex between marking the
  manager as started and `wg.Add(1)`. A `Close` in between waits on an empty
  wait group and returns; the backend opens its window and devices after that.
  It ends soon, since its context is cancelled, but `Close` promised that
  everything was released. `NothingLeftBehind` says what does hold: a `Close`
  that is called after `Start` has returned leaves nothing.
- `capture_race`. `Capture` checks that the source runs, unlocks, and
  subscribes. If the source ends in between, the reset that would have ended
  the capture is published before the channel exists, and `Capture` waits until
  its own context ends or the manager is closed.
- `directinput_phantom`. When the first `Acquire` of a device fails, set-up
  returns before the stabilising polls. The poll loop acquires the device later,
  after one `Poll` and with events, so the driver's default frame becomes an axis
  event and the first real frame a movement that `CaptureAxis` may bind.

Some properties say less than the documentation, because the code does less:

- "Stop turns off the named target" (`hpr/types.go:123`): `StopHonoured` excepts
  a target in `doubt`. When a `Vibrate` fails although the pedal received the
  report, the record still says off, and the `Stop` that follows is dropped as a
  repetition and returns nil; the watchdog of the pedal ends the vibration.
- "ReadPedal reads the current normalised position" (`hpr/types.go:131`):
  `FirstReadIsCurrent` is about the call that flushes the ring; every later one
  returns the oldest report in it, which is older than the call when the pedal
  reports faster than it is read.
- `NoPhantomAfterSetup` excepts, besides a set-up that was cut short, a device
  that was unplugged while open: when it is back before the next scan, the poll
  loop acquires it again without stabilising polls, as in `directinput_phantom`.
- `ViewCatchesUp` excepts the controls in `blind`: a record that a full buffer
  or the drain after a reconciliation threw away is made good only when the
  control moves again or the device is reconciled.
- `PolicyAccounted` has to admit the policy of a call that returned an error:
  `SetKeyboardPolicy` may give up while the thread applies its request.
- `EveryPedalFound` asks for the right model only if the names could be read: an
  Alpha Pedal Neo without a name is listed as a P500, with which it shares its
  product id. The comment at `simagic/protocol.go:45` wants "P1000" in the name
  of a P1000, and `matchModel` accepts its product id without it.
- `openNative` gives up after five seconds but then calls `Close`, which waits
  for the thread: with a call into Windows that hangs it does not return, which
  is why `CallsReturn` needs such calls to return. `ErrNoDevices`
  (`hpr/types.go:11`) is returned by nothing.

## 5. Proofs

Every theorem is for all values of the constants that satisfy the assumptions
below. None of the invariants is inductive as it stands.

`EventFanoutProofs`: type correctness, `GapsAnnounced`, `CaughtUp`,
`ResendNeverBlocks`, `CloseEndsWithReset`, and that the fan-out implements `LossyFeed`. `IInv` adds
who may be where while the mutex is held (`LockInv`: `pc` and `todo`
belong to a holder, and the drained channel is empty at the blocking send) and
describes each channel (`ChanInv`): what it holds is a run of consecutive
numbers that ends at the newest event the subscriber was served, follows the
event it read last, and may have an overflow reset, which stands for a hole, only
as its oldest element. The blocking send has room because only this publisher,
which holds the mutex, fills the channel it has just emptied. `ClosedInv` says
who may publish when: `Close` publishes its reset after `run` has left, and
nothing is published after it, so each channel it closes ends with a reset or
was read to its end by a subscriber whose last event was one.

`NativeSourceProofs`: type correctness, `SoleHook`, `ReaderCatchesUp`, and that
the source implements `SnapshotProtocol`. `PlaceInv` says who has the hook and
the flag at each place of the thread. `PipeInv` is about the messages between
the thread and the reader: read from what the reader knows, each message of
`queue` is allowed when its turn comes (`Legal`), and while the source lives, or
emit has still to send what it admitted before the end, the same holds of `queue \o outbox`, which leads to what the thread believes
(`Leads`). Both are stated without recursion: what is known of a device before a
message is what the last message about that device said. Lemmas say how `Legal`
and `Leads` fare when a message is read, sent or dropped, and that an
enumeration withdraws each announced device once, in whatever order.

`KeyboardModelProofs`: type correctness, `NoStuckKey`, `OnlyBlockedChords` and
`FailOpen`. `SuppressionInv` adds that a suppressed key is physically down, is
not held by the game while the hook decides, and was suppressed by the activity
that still lasts; a new policy or a change of activity empties the set.

`PolicyRequestsProofs`: `PolicyAccounted`, and that the composition implements
`KeyboardModel`, so that `NoStuckKey` and `OnlyBlockedChords` carry over.
`OwnershipInv` says that at most one request exists that is the caller's, either
queued, being applied or answered; `ExpectationInv` that what is being applied
for nobody is already expected, and that a success reported but not yet seen is
the policy in force.

`InputManagerProofs`: every safety property of `InputManager`. `HeldIsUnion` and
`StoppedIsQuiet` come first. `Agrees` states the former of the state together
with its shape; each handler, which updates `held` edge by edge, preserves it
because buttons and hats name their device and the keys are computed from all
keyboards. `LeavingInv` adds that between clearing the state and leaving, `run`
has the mutex. The properties of subscribers rest on `TypesInv`, which implies
`TypeOK` and holds what one step says to whom: who has the mutex publishes all
it has to say before it lets go (`QueueInv`), and a baseline never replaces a
snapshot (`StateInv`). A handler is summed up by the three batches it publishes
and what they do to `held` (`Tells`), so that each invariant below is shown once
for all handlers and once for `PublishOne`, whatever order a batch is in.

- `CaptureIsFresh`, from `FreshInv`: no press of a control held ever since
  `Capture` subscribed is in its channel or about to be published.
- `CaptureNotStranded`, from `StrandInv`: when the gesture in hand is over, an
  event that makes `Capture` look again is in its channel or about to be
  published.
- `ViewAgrees`, from `WatchInv`: what a live watcher will believe once it has
  read its channel (`Believes`: the last event about a control decides, and a
  reset decides about all) is what is held, for each control about which nothing
  is still to be published.

`ControllerProofs`: type correctness, `NoSendAfterFinish`, `NothingLeftBehind`,
`NobodyForgotten` and `AxisBindingUsable`. `LifeInv` ties the places of `Start`, of the goroutine
and of `finish` to each other, `FinishInv` says who runs `finish`, `ListInv`
where devices may be listed, `ClosingInv` that the `Close` which did the closing
after `Start` is on its way or saw the goroutine go, `CaptureInv` that captures
and baselines belong to who captures.

`DirectInputProofs`: type correctness, `NoButtonLeftDown`, `NoPhantomAfterSetup`,
`ViewCatchesUp`, and that a device implements `DeviceProtocol`. `PlaceInv`
says in which modes each call is made, `PressedInv` that pressed buttons belong
to an open, listed device whose set-up is over, and `SteadyInv` counts the polls
of the set-up: at the last one every control is real, and stays so until the device
is unplugged or closed. `ViewInv` is about what
the backend has yet to read: the newest record of a control tells where it is
(`BufferInv`), and a control without a record that was seen since the last
reconciliation, and whose newest change was not thrown away, is where the view
has it (`SeenInv`). Replaying a batch and then the rest of the buffer is
replaying the buffer, which carries both over each read. For the refinement,
`SyncInv` adds that a device being opened was enumerated by the same
`syncDevices`; every call into the device is then a step of the sync that opens
it, an event of a listed device, or a stutter.

`SimagicDeviceProofs`: type correctness (no command outside the limits of
`normalize` is ever sent), `ClosedIsQuiet`, `NoHandleLeak`, `StopHonoured` and
`VibrateHonoured`, and that `PedalSession` implements `SimagicDevice`, so that
they hold after any scan; further `FirstReadIsCurrent` and, of the scan,
`EveryPedalFound`. The invariant adds that callers inside a call know
their target (`ArgInv`), that a recorded stop is true unless a report that
failed arrived (`RecordInv`), and that what a Close under way has stopped stays
so (`QuietInv`). The two action properties follow with one more lemma: only the
last step of `Stop` and of `Vibrate` returns nil from them (`OnlyTheirOwnStep`),
and there the command either reached the pedal or repeated a stop that the
record, being true, allows to drop. `FirstReadIsCurrent` follows from `ReadInv`:
the caller that flushed finds in the ring only reports of where the pedal has
been during its call. `ScanInv` follows a scan round by round: a temporary handle
is open within a round only and carries nothing into the next (`PlaceInv`), the
descriptors so far tell what their interfaces said (`RawInv`), the rounds before
this one are complete (`RoundInv`), and so are the claims (`FoundInv`).

Assumptions: a capacity of at least one; a queue that holds the messages of
start-up (two and two for each controller, against 1024 in the code); finitely
many controllers and callers of `Close`; policies that pass
`KeyboardPolicy.validate`; process id 0 is nobody's; positions within 0 to 100;
a batch no larger than the buffer; limits and arguments within a byte and a
lower limit of at least one; positions that are no error; finitely many
interfaces, the Simagic driver among the drivers, and pedals that are game
controllers with the ids of their model and no name of another. TLC evaluates
each of them in a run.

Every invariant and every action property that a run checks is thus proved.
Only model-checked is liveness, which needs fairness and `ENABLED`:
`CloseCompletes`, `InterceptionEnds`, `CloseEndsCapture`, `CloseEndsAll`,
`Recovers` and `CallsReturn`. The other way round, that `DirectInputDevice`
implements `DeviceProtocol` is proved and no run checks it; TLC agrees on the
instance of `directinput_device` (`ImplementsProtocol` as a property). That
`InputManager` and `ControllerManager` allow all that the protocols allow is by
reading: the guards of their handlers ask no more than the protocol's steps do.

## 6. Not modelled

- COM, HID and window procedures, sizes and layout of reports and of DirectInput
  data formats, formatting of identifiers: they have no state that changes over
  time in a way the properties tell apart. The calls that can fail are modelled
  as calls that fail.
- The reports and capabilities of the HID transport that no driver uses.
- The cooperative window of DirectInput beyond its disappearance.
- The layout of the Simagic input report. `ReadRawInput` is `ReadPedal` without
  parsing.
- The `keyboard_status` messages of interception in the queue of `NativeSource`:
  they announce no device and carry no reading, so the protocol does not see them.
  What they say is in `KeyboardModel`. They take a place of the queue, and it can
  be full without them at any message.
- `SetKeyboardPolicy` sets the wake event after `Close` may have closed its
  handle: nothing orders the two, and what the call then does depends on the
  handle table of the process.
- The examples, which only print.
- `sequence` is 64 bits wide and does not wrap in practice.

`NativeSource` and `InputManager` are tied together by `SnapshotProtocol`, and
`DirectInputDevice` and `ControllerManager` by `DeviceProtocol`: each producer
implements its protocol, and neither pair runs side by side. The next results to
prove are that the consumers accept whatever their protocol allows, and that
several DirectInput devices, polled in turn, implement one protocol each.

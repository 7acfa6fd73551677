---------------------------- MODULE InputManager ----------------------------
(***************************************************************************)
(* input.Manager (pkg/input/manager.go): the state it folds the snapshots   *)
(* of its source into, the events it publishes, its life from Start to     *)
(* Close, and Capture, which records one gesture while all of that goes on. *)
(*                                                                         *)
(* Manager.mu is held while owner # "none".  A handler changes the state    *)
(* and queues its events in one step, because nobody sees the state without *)
(* the mutex; the events are then delivered one by one, still under the    *)
(* mutex, while subscribers receive.  How one event reaches one channel is  *)
(* the subject of EventFanout; here a full channel becomes a single reset   *)
(* in one step.                                                            *)
(*                                                                         *)
(* A control is a key, a button of a pad or a direction of its hat; a       *)
(* binding's modifiers are left out, because controlIdentity drops them.    *)
(***************************************************************************)
EXTENDS Naturals, Sequences

CONSTANTS
    Keys,           \* virtual-key codes
    ModifierKeys,   \* those for which IsModifier holds
    Escape,         \* code 27
    Keyboard,       \* device id of the keyboard
    Pads,           \* device ids of the game controllers
    Buttons,        \* button codes of a controller
    Directions,     \* directions of a controller's hat other than centred
    Subs,           \* who subscribes: "watch" and/or "capture"
    Cap             \* capacity of a subscriber's channel: 256 in the code

ASSUME KeysAssumption == ModifierKeys \subseteq Keys
ASSUME DeviceAssumption == Keyboard \notin Pads
ASSUME SubsAssumption == Subs \subseteq {"watch", "capture"}
ASSUME CapAssumption == Cap \in Nat \ {0}

VARIABLES
    closer,     \* Close: "open" (not called), "closing", "waiting" or "done"
    runner,     \* run: "none", "live" (in Read), "got" (a message) or "done"
    running,    \* Manager.running
    cancelled,  \* the context of run is done
    failure,    \* Manager.errors holds the error that ended run
    heard,      \* Manager.sourceSequence > 0
    m,          \* the state of the manager that handlers rewrite, see below
    owner,      \* who holds Manager.mu: "none", "run", "exit" or "close"
    pending,    \* batches of events still to publish, each in any order
    status,     \* status[s]: "new", "live" (in Manager.subs) or "closed"
    chan,       \* chan[s]: buffered content of the channel of s
    stage,      \* source: how far it has introduced each device
    believed,   \* history: the controls "watch" believes to be held
    quiet,      \* history: held controls "watch" was never told of
    capturing,  \* Manager.capturing
    capPc,      \* where Capture is
    candidate,  \* Capture's candidate, or NoControl
    heldSince   \* history: controls held ever since Capture subscribed

vars == <<closer, runner, running, cancelled, failure, heard, m, owner, pending,
          status, chan, stage, believed, quiet, capturing, capPc, candidate, heldSince>>

lifeVars == <<closer, runner, running, cancelled, failure>>
sourceVars == <<heard, stage>>
captureVars == <<capturing, capPc, candidate>>
historyVars == <<believed, quiet, heldSince>>

Devices == {Keyboard} \cup Pads
KeyControl(k) == <<"key", Keyboard, k>>
KeyControls == {KeyControl(k) : k \in Keys}
ModifierControls == {KeyControl(k) : k \in ModifierKeys}
ButtonControls(d) == {<<"button", d, b>> : b \in Buttons}
HatControls(d) == {<<"hat", d, h>> : h \in Directions}
ControlsOf(d) == IF d = Keyboard THEN KeyControls ELSE ButtonControls(d) \cup HatControls(d)
Controls == UNION {ControlsOf(d) : d \in Devices}
NoControl == <<"none">>

\* What a snapshot of d can hold: a hat points in one direction at most.
Snapshots(d) ==
    IF d = Keyboard THEN SUBSET KeyControls
    ELSE {b \cup h : b \in SUBSET ButtonControls(d),
                     h \in {{}} \cup {{x} : x \in HatControls(d)}}

Event == [type : {"press", "release"}, ctl : Controls]
            \cup [type : {"reset", "connected", "disconnected"}, ctl : {NoControl}]
Note(type) == [type |-> type, ctl |-> NoControl]
Edges(type, controls) == {[type |-> type, ctl |-> c] : c \in controls}

Closed == closer # "open"       \* Manager.closed
Free == owner = "none"          \* Manager.mu is free

-----------------------------------------------------------------------------
(* The state m has the fields of Manager that resetLocked or apply rewrite: *)
(* devices, states (the last snapshot of every known device), held, keys   *)
(* and active (keyboardStatus.Active).                                     *)

EmptyState == [devices |-> {}, states |-> <<>>, held |-> {}, keys |-> {}, active |-> FALSE]

\* resetLocked
Cleared(s) == [s EXCEPT !.states = <<>>, !.held = {}, !.keys = {}, !.active = FALSE]

Without(f, d) == [x \in DOMAIN f \ {d} |-> f[x]]
With(f, d, v) == [x \in DOMAIN f \cup {d} |-> IF x = d THEN v ELSE f[x]]

\* updateKeyboardLocked: the keys held on any keyboard.
KeysOf(states) == (UNION {states[d] : d \in DOMAIN states}) \cap KeyControls
KeyboardUpdated(s) ==
    LET next == KeysOf(s.states)
    IN [s EXCEPT !.keys = next, !.held = (@ \ (s.keys \ next)) \cup next]

\* Faulty variant of Disconnected: what the device held is not forgotten.
DisconnectedKeepsHeld(s, d) ==
    KeyboardUpdated([s EXCEPT !.devices = @ \ {d}, !.states = Without(@, d)])

\* apply of "disconnected" and of "snapshot".
Disconnected(s, d) ==
    KeyboardUpdated([s EXCEPT !.devices = @ \ {d},
                              !.states = Without(@, d),
                              !.held = {c \in @ : c[1] = "key" \/ c[2] # d}])

Known(s, d) == IF d \in DOMAIN s.states THEN s.states[d] ELSE {}

Sampled(s, d, now) ==
    LET t == [s EXCEPT !.devices = @ \cup {d}, !.states = With(@, d, now)]
    IN IF d = Keyboard THEN KeyboardUpdated(t)
       ELSE [t EXCEPT !.held = (@ \ (Known(s, d) \ now)) \cup now]

Batch(events) == IF events = {} THEN <<>> ELSE <<events>>

\* Faulty variant of SampleEvents: every key down is a press, held or not.
SampleEventsRepeats(s, d, now, initial) ==
    LET was == IF d = Keyboard THEN s.keys ELSE Known(s, d)
        is == IF d = Keyboard THEN KeysOf(With(s.states, d, now)) ELSE now
    IN IF initial \/ d \notin DOMAIN s.states THEN <<>>
       ELSE Batch(Edges("release", was \ is)) \o Batch(Edges("press", is))

\* The edges a snapshot publishes: releases first, none for a baseline.
SampleEvents(s, d, now, initial) ==
    LET was == IF d = Keyboard THEN s.keys ELSE Known(s, d)
        is == IF d = Keyboard THEN KeysOf(With(s.states, d, now)) ELSE now
    IN IF initial \/ d \notin DOMAIN s.states THEN <<>>
       ELSE Batch(Edges("release", was \ is)) \o Batch(Edges("press", is \ was))

Init ==
    /\ closer = "open" /\ runner = "none" /\ running = FALSE
    /\ cancelled = FALSE /\ failure = FALSE /\ heard = FALSE
    /\ m = EmptyState
    /\ owner = "none" /\ pending = <<>>
    /\ status = [s \in Subs |-> "new"] /\ chan = [s \in Subs |-> <<>>]
    /\ stage = [d \in Devices |-> "absent"]
    /\ believed = {} /\ quiet = {} /\ heldSince = {}
    /\ capturing = FALSE /\ capPc = "idle" /\ candidate = NoControl

-----------------------------------------------------------------------------
(* Publishing, with the mutex held.                                        *)

\* A handler of who ends: the state becomes s and the events wait their turn.
Commit(who, s, batches) ==
    LET forgotten == \E i \in DOMAIN batches : Note("reset") \in batches[i]
        told == {c \in Controls : \E i \in DOMAIN batches :
                                      [type |-> "press", ctl |-> c] \in batches[i]}
    IN
    /\ m' = s
    /\ pending' = batches
    /\ owner' = IF batches = <<>> /\ who = "run" THEN "none" ELSE who
    /\ quiet' = IF "watch" \notin Subs \/ status["watch"] # "live" THEN {}
                ELSE IF forgotten THEN s.held
                ELSE (quiet \cap s.held) \cup (s.held \ (m.held \cup told))
    /\ heldSince' = heldSince \cap s.held
    /\ UNCHANGED believed

Full(s) == status[s] = "live" /\ Len(chan[s]) = Cap

\* Faulty variants of Delivered: a queue without limit, and one that loses the
\* event it has no room for.
DeliveredUnbounded(s, e) == IF status[s] = "live" THEN Append(chan[s], e) ELSE chan[s]
DeliveredLossy(s, e) ==
    IF status[s] = "live" /\ ~Full(s) THEN Append(chan[s], e) ELSE chan[s]

\* The channel of s after e: one that is full is emptied and told to reset.
Delivered(s, e) ==
    IF Full(s) THEN <<Note("reset")>>
    ELSE IF status[s] = "live" THEN Append(chan[s], e)
    ELSE chan[s]

\* publishLocked of one event of the current batch.
PublishOne ==
    /\ pending # <<>>
    /\ \E e \in Head(pending) :
           /\ chan' = [s \in Subs |-> Delivered(s, e)]
           /\ quiet' = IF "watch" \in Subs /\ Full("watch") THEN m.held ELSE quiet
           /\ pending' = IF Head(pending) = {e} THEN Tail(pending)
                         ELSE <<Head(pending) \ {e}>> \o Tail(pending)
    /\ UNCHANGED <<lifeVars, sourceVars, captureVars, m, owner, status, believed, heldSince>>

EndApply ==
    /\ owner = "run" /\ pending = <<>>
    /\ owner' = "none"
    /\ UNCHANGED <<lifeVars, sourceVars, captureVars, historyVars, m, pending, status, chan>>

-----------------------------------------------------------------------------
(* Start and the run goroutine.                                            *)

Start ==
    /\ Free /\ ~Closed /\ runner = "none"
    /\ runner' = "live" /\ running' = TRUE
    /\ UNCHANGED <<closer, cancelled, failure, sourceVars, captureVars, historyVars,
                   m, owner, pending, status, chan>>

\* Read returned a message and the context was not done when run looked; run is
\* neither applying one nor on its way out.
ReadMessage ==
    /\ runner = "live" /\ ~cancelled /\ owner \notin {"run", "exit"}
    /\ runner' = "got"
    /\ UNCHANGED <<closer, running, cancelled, failure, sourceVars, captureVars,
                   historyVars, m, owner, pending, status, chan>>

\* The frame of apply: the mutex is taken, a gap in the numbers of the source
\* resets before the message itself is looked at.
Apply(s, batches, gap) ==
    /\ runner = "got" /\ Free /\ ~Closed
    /\ gap => heard
    /\ runner' = "live"
    /\ heard' = TRUE
    /\ Commit("run", s, IF gap THEN <<{Note("reset")}>> \o batches ELSE batches)
    /\ UNCHANGED <<closer, running, cancelled, failure, captureVars, status, chan>>

Base(gap) == IF gap THEN Cleared(m) ELSE m

ApplyConnected(d, gap) ==
    /\ stage[d] = "absent"
    /\ stage' = [stage EXCEPT ![d] = "announced"]
    /\ Apply([Base(gap) EXCEPT !.devices = @ \cup {d}], <<{Note("connected")}>>, gap)

\* The source sends one baseline after "connected", and changes after that.
ApplySnapshot(d, now, gap) ==
    /\ stage[d] \in {"announced", "ready"}
    /\ stage' = [stage EXCEPT ![d] = "ready"]
    /\ Apply(Sampled(Base(gap), d, now),
             SampleEvents(Base(gap), d, now, stage[d] = "announced"), gap)

ApplyDisconnected(d, gap) ==
    /\ stage[d] = "ready"
    /\ stage' = [stage EXCEPT ![d] = "absent"]
    /\ Apply(Disconnected(Base(gap), d), <<{Note("reset")}, {Note("disconnected")}>>, gap)

\* "reset", "error" and a snapshot whose size is out of bounds.
ApplyReset(gap) ==
    /\ UNCHANGED stage
    /\ Apply(Cleared(Base(gap)), <<{Note("reset")}>>, gap)

ApplyKeyboardStatus(on, gap) ==
    /\ UNCHANGED stage
    /\ Apply([Base(gap) EXCEPT !.active = on], <<>>, gap)

ApplyMessage ==
    \E gap \in BOOLEAN :
        \/ ApplyReset(gap)
        \/ \E on \in BOOLEAN : ApplyKeyboardStatus(on, gap)
        \/ \E d \in Devices :
               \/ ApplyConnected(d, gap)
               \/ ApplyDisconnected(d, gap)
               \/ \E now \in Snapshots(d) : ApplySnapshot(d, now, gap)

\* apply returns at once when the manager is closed, and when the message is
\* not newer than the last one it heard.
ApplyNothing ==
    /\ runner = "got" /\ Free /\ (Closed \/ heard)
    /\ runner' = "live"
    /\ UNCHANGED <<closer, running, cancelled, failure, sourceVars, captureVars,
                   historyVars, m, owner, pending, status, chan>>

\* Faulty variant of RunExit: the devices stay listed.
RunExitKeepsDevices ==
    /\ runner = "live" /\ Free
    /\ running' = FALSE
    /\ Commit("exit", Cleared(m), <<{Note("reset")}>>)
    /\ UNCHANGED <<closer, runner, cancelled, failure, sourceVars, captureVars, status, chan>>

\* Read fails, or a message arrives after the context is done.  Either way the
\* devices and all state go, and run leaves.
RunExit ==
    /\ runner = "live" /\ Free
    /\ running' = FALSE
    /\ Commit("exit", [Cleared(m) EXCEPT !.devices = {}], <<{Note("reset")}>>)
    /\ UNCHANGED <<closer, runner, cancelled, failure, sourceVars, captureVars, status, chan>>

\* The error is kept only if nobody had asked for the end by now.
EndExit ==
    /\ owner = "exit" /\ pending = <<>>
    /\ owner' = "none" /\ runner' = "done"
    /\ failure' = ~cancelled
    /\ UNCHANGED <<closer, running, cancelled, sourceVars, captureVars, historyVars,
                   m, pending, status, chan>>

\* The parent context of Start is cancelled.
Cancel ==
    /\ runner # "none" /\ ~cancelled
    /\ cancelled' = TRUE
    /\ UNCHANGED <<closer, runner, running, failure, sourceVars, captureVars, historyVars,
                   m, owner, pending, status, chan>>

-----------------------------------------------------------------------------
(* Close: mark, unlock, cancel and close the source, wait for run, then     *)
(* reset once more and close every channel under one lock.                 *)

CloseBegin ==
    /\ Free /\ closer = "open"
    /\ closer' = "closing"
    /\ UNCHANGED <<runner, running, cancelled, failure, sourceVars, captureVars,
                   historyVars, m, owner, pending, status, chan>>

CloseCancel ==
    /\ closer = "closing"
    /\ closer' = "waiting"
    /\ cancelled' = (cancelled \/ runner # "none")
    /\ UNCHANGED <<runner, running, failure, sourceVars, captureVars, historyVars,
                   m, owner, pending, status, chan>>

CloseReset ==
    /\ closer = "waiting" /\ Free
    /\ runner \in {"none", "done"}
    /\ Commit("close", Cleared(m), <<{Note("reset")}>>)
    /\ UNCHANGED <<lifeVars, sourceVars, captureVars, status, chan>>

EndClose ==
    /\ owner = "close" /\ pending = <<>>
    /\ owner' = "none" /\ closer' = "done"
    /\ status' = [s \in Subs |-> IF status[s] = "live" THEN "closed" ELSE status[s]]
    /\ UNCHANGED <<runner, running, cancelled, failure, sourceVars, captureVars,
                   historyVars, m, pending, chan>>

-----------------------------------------------------------------------------
(* A subscriber that keeps track of what is held, as an application does.   *)

WatchSubscribe ==
    /\ "watch" \in Subs /\ Free /\ status["watch"] = "new"
    /\ status' = [status EXCEPT !["watch"] = IF Closed THEN "closed" ELSE "live"]
    /\ quiet' = m.held
    /\ UNCHANGED <<lifeVars, sourceVars, captureVars, m, owner, pending, chan, believed, heldSince>>

WatchReceive ==
    /\ "watch" \in Subs /\ chan["watch"] # <<>>
    /\ LET e == Head(chan["watch"])
       IN believed' = CASE e.type = "press" -> believed \cup {e.ctl}
                        [] e.type = "release" -> believed \ {e.ctl}
                        [] e.type = "reset" -> {}
                        [] OTHER -> believed
    /\ chan' = [chan EXCEPT !["watch"] = Tail(@)]
    /\ UNCHANGED <<lifeVars, sourceVars, captureVars, m, owner, pending, status, quiet, heldSince>>

-----------------------------------------------------------------------------
(* Capture.  The mutex is released between the steps.                      *)

captureFrame == <<lifeVars, sourceVars, m, owner, pending, believed, quiet>>

CaptureBegin ==
    /\ "capture" \in Subs /\ capPc = "idle"
    /\ Free /\ ~Closed /\ running /\ ~capturing
    /\ capturing' = TRUE
    /\ capPc' = "entered"
    /\ candidate' = NoControl
    /\ UNCHANGED <<captureFrame, status, chan, heldSince>>

\* Faulty variant of CaptureSubscribe: a closed manager still registers it.
CaptureSubscribeAlways ==
    /\ capPc = "entered" /\ Free
    /\ capPc' = "loop"
    /\ status' = [status EXCEPT !["capture"] = "live"]
    /\ chan' = [chan EXCEPT !["capture"] = <<>>]
    /\ heldSince' = m.held
    /\ UNCHANGED <<captureFrame, capturing, candidate>>

\* Subscribe: a fresh channel, already closed if the manager is.
CaptureSubscribe ==
    /\ capPc = "entered" /\ Free
    /\ capPc' = "loop"
    /\ status' = [status EXCEPT !["capture"] = IF Closed THEN "closed" ELSE "live"]
    /\ chan' = [chan EXCEPT !["capture"] = <<>>]
    /\ heldSince' = m.held
    /\ UNCHANGED <<captureFrame, capturing, candidate>>

\* An event ends the gesture: a reset, or Escape.
Abandons(e) ==
    e.type = "reset" \/ (e.type = "press" /\ e.ctl = KeyControl(Escape))

\* An event that may become the candidate.
Candidate(e) == e.type = "press" /\ e.ctl \notin ModifierControls

\* Faulty variant of CaptureReceive: only the candidate's own edges lead to the
\* release check, the other parts of a chord or of a hat do not.
CaptureReceiveOwnEdges ==
    /\ capPc = "loop" /\ chan["capture"] # <<>>
    /\ chan' = [chan EXCEPT !["capture"] = Tail(@)]
    /\ LET e == Head(chan["capture"])
       IN \/ /\ Abandons(e)
             /\ capPc' = "unsubscribe" /\ candidate' = NoControl
          \/ /\ ~Abandons(e) /\ e.ctl # candidate
             /\ UNCHANGED <<capPc, candidate>>
          \/ /\ ~Abandons(e) /\ candidate = NoControl /\ Candidate(e)
             /\ capPc' = "check" /\ candidate' = e.ctl
          \/ /\ ~Abandons(e) /\ candidate # NoControl /\ e.ctl = candidate
             /\ capPc' = "check" /\ UNCHANGED candidate
    /\ UNCHANGED <<captureFrame, status, capturing, heldSince>>

\* One turn of the loop up to the release check.  An event older than a second
\* is skipped while there is no candidate, so a press may always be skipped.
CaptureReceive ==
    /\ capPc = "loop" /\ chan["capture"] # <<>>
    /\ chan' = [chan EXCEPT !["capture"] = Tail(@)]
    /\ LET e == Head(chan["capture"])
       IN \/ /\ Abandons(e)
             /\ capPc' = "unsubscribe" /\ candidate' = NoControl
          \/ /\ ~Abandons(e)
             /\ \/ e.type \notin {"press", "release"}
                \/ candidate = NoControl
             /\ UNCHANGED <<capPc, candidate>>
          \/ /\ ~Abandons(e) /\ candidate = NoControl /\ Candidate(e)
             /\ capPc' = "check" /\ candidate' = e.ctl
          \/ /\ ~Abandons(e) /\ candidate # NoControl
             /\ e.type \in {"press", "release"}
             /\ capPc' = "check" /\ UNCHANGED candidate
    /\ UNCHANGED <<captureFrame, status, capturing, heldSince>>

\* The gesture of control c is over: a key with every modifier up, a hat that
\* points nowhere, a button that is up.
Released(c) ==
    CASE c[1] = "key" -> c \notin m.keys /\ m.keys \cap ModifierControls = {}
      [] c[1] = "hat" -> m.held \cap HatControls(c[2]) = {}
      [] OTHER -> c \notin m.held

CaptureCheck ==
    /\ capPc = "check" /\ Free
    /\ capPc' = IF Released(candidate) THEN "unsubscribe" ELSE "loop"
    /\ UNCHANGED <<captureFrame, status, chan, capturing, candidate, heldSince>>

\* The channel was closed by Close, or the caller's context is done.
CaptureEOF ==
    /\ capPc = "loop" /\ status["capture"] = "closed" /\ chan["capture"] = <<>>
    /\ capPc' = "unsubscribe" /\ candidate' = NoControl
    /\ UNCHANGED <<captureFrame, status, chan, capturing, heldSince>>

CaptureContextDone ==
    /\ capPc = "loop"
    /\ capPc' = "unsubscribe" /\ candidate' = NoControl
    /\ UNCHANGED <<captureFrame, status, chan, capturing, heldSince>>

\* The two deferred calls.
CaptureUnsubscribe ==
    /\ capPc = "unsubscribe" /\ Free
    /\ capPc' = "leave"
    /\ status' = [status EXCEPT !["capture"] = "closed"]
    /\ chan' = [chan EXCEPT !["capture"] = <<>>]
    /\ UNCHANGED <<captureFrame, capturing, candidate, heldSince>>

CaptureLeave ==
    /\ capPc = "leave" /\ Free
    /\ capPc' = "idle"
    /\ capturing' = FALSE
    /\ candidate' = NoControl
    /\ heldSince' = {}
    /\ UNCHANGED <<captureFrame, status, chan>>

CaptureStep ==
    \/ CaptureSubscribe \/ CaptureReceive \/ CaptureCheck \/ CaptureEOF
    \/ CaptureUnsubscribe \/ CaptureLeave

-----------------------------------------------------------------------------

Next ==
    \/ PublishOne \/ EndApply
    \/ Start \/ ReadMessage \/ ApplyMessage \/ ApplyNothing \/ RunExit \/ EndExit \/ Cancel
    \/ CloseBegin \/ CloseCancel \/ CloseReset \/ EndClose
    \/ WatchSubscribe \/ WatchReceive
    \/ CaptureBegin \/ CaptureStep \/ CaptureContextDone

Spec == Init /\ [][Next]_vars

\* A holder of the mutex goes on; run leaves once its context is done, because
\* the source is then closed; Close and Capture go on.  Nothing is assumed of
\* the source, of "watch" or of the user.
Fairness ==
    /\ WF_vars(PublishOne) /\ WF_vars(EndApply) /\ WF_vars(EndExit) /\ WF_vars(EndClose)
    /\ WF_vars(runner = "got" /\ (ApplyMessage \/ ApplyNothing))
    /\ WF_vars(cancelled /\ RunExit)
    /\ WF_vars(CloseCancel) /\ WF_vars(CloseReset)
    /\ WF_vars(CaptureStep)

FairSpec == Spec /\ Fairness

-----------------------------------------------------------------------------
(* Properties                                                              *)

\* Type invariant.
TypeOK ==
    /\ closer \in {"open", "closing", "waiting", "done"}
    /\ runner \in {"none", "live", "got", "done"}
    /\ {running, cancelled, failure, heard, capturing, m.active} \subseteq BOOLEAN
    /\ m.devices \subseteq Devices
    /\ DOMAIN m.states \subseteq Devices
    /\ \A d \in DOMAIN m.states : m.states[d] \in Snapshots(d)
    /\ m.held \subseteq Controls /\ m.keys \subseteq KeyControls
    /\ owner \in {"none", "run", "exit", "close"}
    /\ \A i \in DOMAIN pending : pending[i] \subseteq Event /\ pending[i] # {}
    /\ status \in [Subs -> {"new", "live", "closed"}]
    /\ \A s \in Subs : Len(chan[s]) <= Cap /\ \A i \in DOMAIN chan[s] : chan[s][i] \in Event
    /\ stage \in [Devices -> {"absent", "announced", "ready"}]
    /\ believed \subseteq Controls /\ quiet \subseteq Controls /\ heldSince \subseteq Controls
    /\ capPc \in {"idle", "entered", "loop", "check", "unsubscribe", "leave"}
    /\ candidate \in Controls \cup {NoControl}

\* The two views of what is held agree: the maps held and keys, which apply
\* updates edge by edge, are what the last snapshots of the known devices say.
HeldIsUnion ==
    /\ m.held = UNION {m.states[d] : d \in DOMAIN m.states}
    /\ m.keys = m.held \cap KeyControls

\* A subscriber that has read all its events believes nothing to be held that
\* is not, and knows of every control pressed since it last had to start
\* afresh, across overflows, disconnects, resets and Close.
ViewAgrees ==
    "watch" \in Subs =>
        (Free /\ status["watch"] # "new" /\ chan["watch"] = <<>> =>
            /\ believed \subseteq m.held
            /\ status["watch"] = "live" => m.held \ quiet \subseteq believed)

\* Capture never sleeps through the end of its gesture: while it waits for
\* events with a candidate in hand, some of the gesture is still held.
CaptureNotStranded ==
    Free /\ capPc = "loop" /\ status["capture"] = "live" /\ chan["capture"] = <<>>
        /\ candidate # NoControl => ~Released(candidate)

\* "Existing held controls and the release of a pre-existing press cannot
\* become a new binding" (comment on Capture).
CaptureIsFresh == candidate \notin heldSince

\* Once run has left, the manager shows no device, no held control and no
\* active interception, and an end nobody asked for is on the error channel.
StoppedIsQuiet ==
    runner = "done" =>
        /\ ~running /\ m.devices = {} /\ m.held = {} /\ ~m.active
        /\ failure \/ cancelled

\* Close returns, and Capture with it, whatever the source and the user do.
CloseEndsCapture == Closed ~> (closer = "done" /\ capPc = "idle" /\ ~capturing)

\* Capture is refused once the source is gone (TestSourceExitClearsDevicesAnd-
\* PreventsNewCapture), so one that waits without a candidate has a source.
CaptureHasSource ==
    Free /\ capPc = "loop" /\ status["capture"] = "live" /\ chan["capture"] = <<>>
        => running
=============================================================================

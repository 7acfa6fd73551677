---------------------------- MODULE NativeSource ----------------------------
(***************************************************************************)
(* The Windows source of input.Manager: openNative, the locked thread with  *)
(* its loop, Read and Close (pkg/input/native_windows.go) and the game      *)
(* controllers it enumerates and polls (pkg/input/rawcontroller_windows.go). *)
(*                                                                         *)
(* pc says where the thread is.  A handler of the thread changes the state  *)
(* only the thread sees in one step and leaves its messages in outbox;      *)
(* emit then sends them one by one, so that the reader, Close and the       *)
(* parent context come between any two.  Keyboard interception and policy   *)
(* requests are the subject of KeyboardModel and PolicyRequests; here the   *)
(* keyboard is one more device whose snapshots share the queue.             *)
(*                                                                         *)
(* Windows is external: any COM call may fail, an enumeration may find a    *)
(* controller gone, the same or another one under the same id, and a       *)
(* reading is any value.  The numbers of the messages are left out: they    *)
(* are the order of the queue.  rival is another Manager of the process.   *)
(***************************************************************************)
EXTENDS Naturals, Sequences, FiniteSets, SequencesExt

CONSTANTS
    Keyboard,
    Controllers,    \* ids of the controllers with buttons or hats
    Readings,       \* what keys, buttons and hats may show
    QueueCap        \* capacity of nativeSource.messages: 1024

ASSUME DevicesAssumption == Keyboard \notin Controllers /\ IsFiniteSet(Controllers)
ASSUME ReadingsAssumption == Readings \cap {"absent", "announced", "none"} = {}
\* Nobody reads before openNative returns: the first messages must fit.
ASSUME QueueAssumption == QueueCap \in Nat /\ QueueCap >= 2 + 2 * Cardinality(Controllers)

VARIABLES
    opener,     \* openNative: "idle", "waiting", "closing", "open" or "failed"
    ready,      \* nativeSource.ready: "empty", "ok" or "error"
    reader,     \* Read: "idle", "select" (the second one) or "ended"
    closer,     \* Close: "idle", "waiting" or "closed"
    dead,       \* nativeSource.ctx is done
    failed,     \* nativeSource.err is an error other than io.EOF
    busy,       \* nativeBusy
    active,     \* activeNative: "nobody", "self" or "rival"
    hooked,     \* this source's keyboard hook is installed
    pc,         \* where the thread is
    outbox,     \* messages the handler has still to emit
    admitted,   \* emit has seen that the context is not done, and has yet to send
    queue,      \* nativeSource.messages
    tracked,    \* controllers in nativeSource.controllers
    cooling,    \* those with a retryAfter
    todo,       \* those pollControllers has still to read
    sent,       \* sent[d]: what the thread has last said of d
    known       \* history: what the reader was last told of d

callVars == <<opener, ready, reader, closer>>
lifeVars == <<dead, failed>>
processVars == <<busy, active, hooked>>
deviceVars == <<tracked, cooling, todo, sent>>
outVars == <<outbox, admitted>>
vars == <<callVars, lifeVars, processVars, pc, outVars, queue, deviceVars, known>>

Devices == {Keyboard} \cup Controllers
Shown == Readings \cup {"absent", "announced"}

Message(type, d, val) == [type |-> type, dev |-> d, val |-> val]
Connected(d) == Message("connected", d, "none")
Disconnected(d) == Message("disconnected", d, "none")
Snapshot(d, r) == Message("snapshot", d, r)

Messages ==
    [type : {"connected", "disconnected"}, dev : Devices, val : {"none"}]
        \cup [type : {"snapshot"}, dev : Devices, val : Readings]

\* rawController.initialized
Initialized == {d \in Controllers : sent[d] \in Readings}

Init ==
    /\ opener = "idle" /\ ready = "empty" /\ reader = "idle" /\ closer = "idle"
    /\ dead = FALSE /\ failed = FALSE
    /\ busy = FALSE /\ active = "nobody" /\ hooked = FALSE
    /\ pc = "none" /\ outbox = <<>> /\ admitted = FALSE /\ queue = <<>>
    /\ tracked = {} /\ cooling = {} /\ todo = {}
    /\ sent = [d \in Devices |-> "absent"] /\ known = [d \in Devices |-> "absent"]

-----------------------------------------------------------------------------
(* openNative, Close and Read.                                             *)

\* The flag is taken and the thread is started; when it is taken already, or
\* the wake event cannot be created, nothing changes.
Open ==
    /\ opener = "idle" /\ ~busy
    /\ busy' = TRUE /\ opener' = "waiting" /\ pc' = "init"
    /\ UNCHANGED <<ready, reader, closer, lifeVars, active, hooked, outVars, queue, deviceVars, known>>

OpenReady ==
    /\ opener = "waiting" /\ ready = "ok"
    /\ opener' = "open"
    /\ UNCHANGED <<ready, reader, closer, lifeVars, processVars, pc, outVars, queue, deviceVars, known>>

\* The thread reports an error, the parent context is done or five seconds
\* have passed: openNative closes the source.
OpenGivesUp ==
    /\ opener = "waiting"
    /\ opener' = "closing" /\ dead' = TRUE
    /\ UNCHANGED <<ready, reader, closer, failed, processVars, pc, outVars, queue, deviceVars, known>>

OpenFails ==
    /\ opener = "closing" /\ pc = "gone"
    /\ opener' = "failed"
    /\ UNCHANGED <<ready, reader, closer, lifeVars, processVars, pc, outVars, queue, deviceVars, known>>

ParentDone ==
    /\ opener # "idle" /\ ~dead
    /\ dead' = TRUE
    /\ UNCHANGED <<callVars, failed, processVars, pc, outVars, queue, deviceVars, known>>

CloseBegin ==
    /\ opener = "open" /\ closer = "idle"
    /\ closer' = "waiting" /\ dead' = TRUE
    /\ UNCHANGED <<opener, ready, reader, failed, processVars, pc, outVars, queue, deviceVars, known>>

CloseEnd ==
    /\ closer = "waiting" /\ pc = "gone"
    /\ closer' = "closed"
    /\ UNCHANGED <<opener, ready, reader, lifeVars, processVars, pc, outVars, queue, deviceVars, known>>

\* The first select of Read: the queue is not looked at once the context is done.
ReadBegin ==
    /\ opener = "open" /\ reader = "idle" /\ ~dead
    /\ reader' = "select"
    /\ UNCHANGED <<opener, ready, closer, lifeVars, processVars, pc, outVars, queue, deviceVars, known>>

Told(m) == CASE m.type = "connected" -> "announced"
             [] m.type = "disconnected" -> "absent"
             [] m.type = "snapshot" -> m.val

\* The second select of Read: with a message and a done context at hand it
\* may take either.
ReadMessage ==
    /\ reader = "select" /\ queue # <<>>
    /\ reader' = "idle"
    /\ known' = [known EXCEPT ![Head(queue).dev] = Told(Head(queue))]
    /\ queue' = Tail(queue)
    /\ UNCHANGED <<opener, ready, closer, lifeVars, processVars, pc, outVars, deviceVars>>

\* Either select may see the context done; Read then waits for the thread.
ReadEnd ==
    /\ opener = "open" /\ reader \in {"idle", "select"} /\ dead /\ pc = "gone"
    /\ reader' = "ended"
    /\ UNCHANGED <<opener, ready, closer, lifeVars, processVars, pc, outVars, queue, deviceVars, known>>

-----------------------------------------------------------------------------
(* emit and fail.                                                          *)

Fail == dead' = TRUE /\ failed' = TRUE

\* Nothing is sent when the context is done.
EmitBegin ==
    /\ outbox # <<>> /\ ~admitted
    /\ admitted' = ~dead /\ outbox' = IF dead THEN Tail(outbox) ELSE outbox
    /\ UNCHANGED <<callVars, lifeVars, processVars, pc, queue, deviceVars, known>>

\* The context may be done by now; a full queue ends the source.
EmitSend ==
    /\ admitted /\ admitted' = FALSE /\ outbox' = Tail(outbox)
    /\ \/ Len(queue) < QueueCap /\ queue' = Append(queue, Head(outbox)) /\ UNCHANGED lifeVars
       \/ Len(queue) = QueueCap /\ Fail /\ UNCHANGED queue
    /\ UNCHANGED <<callVars, processVars, pc, deviceVars, known>>

\* The thread goes on from here to there, its last messages sent.
Step(here, there) == pc = here /\ outbox = <<>> /\ pc' = there

-----------------------------------------------------------------------------
(* syncControllers and pollControllers.                                    *)

Disconnections(ids) == {Disconnected(d) : d \in ids \cap Initialized}

\* Faulty variant of Sync: nobody is told that a controller was replaced.
SyncSilently(fresh, same, complete, there) ==
    LET gone == IF complete THEN tracked \ (fresh \cup same) ELSE {}
    IN  /\ outbox' \in SetToSeqs(Disconnections(gone))
        /\ tracked' = (tracked \ gone) \cup fresh
        /\ sent' = [d \in Devices |-> IF d \in gone \cup fresh THEN "absent" ELSE sent[d]]
        /\ cooling' = cooling \ (gone \cup fresh)
        /\ pc' = there /\ todo' = IF there = "poll" THEN tracked' ELSE {}
        /\ UNCHANGED <<admitted, queue, known>>

\* One enumeration: it finds new COM devices under the ids fresh, known ones
\* under same, and unless a call failed on the way what it did not find is gone.
Sync(fresh, same, complete, there) ==
    LET gone == IF complete THEN tracked \ (fresh \cup same) ELSE {}
    IN  /\ \E replaced \in SetToSeqs(Disconnections(fresh)),
              removed \in SetToSeqs(Disconnections(gone)) : outbox' = replaced \o removed
        /\ tracked' = (tracked \ gone) \cup fresh
        /\ sent' = [d \in Devices |-> IF d \in gone \cup fresh THEN "absent" ELSE sent[d]]
        /\ cooling' = cooling \ (gone \cup fresh)
        /\ pc' = there /\ todo' = IF there = "poll" THEN tracked' ELSE {}
        /\ UNCHANGED <<admitted, queue, known>>

\* An enumeration; complete says whether all its calls succeed.
Syncs(there, complete) ==
    \E fresh \in SUBSET Controllers : \E same \in SUBSET (tracked \ fresh) :
        Sync(fresh, same, complete, there)

pollFrame == <<callVars, processVars, admitted, tracked, queue, known>>

\* Within a second of a failure the controller is left alone.
PollSkips(d) ==
    /\ d \in cooling
    /\ todo' = todo \ {d}
    /\ UNCHANGED <<pollFrame, lifeVars, pc, outVars, cooling, sent>>

PollReads(d, r) ==
    /\ todo' = todo \ {d} /\ cooling' = cooling \ {d}
    /\ sent' = [sent EXCEPT ![d] = r]
    /\ outbox' = IF d \notin Initialized THEN <<Connected(d), Snapshot(d, r)>>
                 ELSE IF r # sent[d] THEN <<Snapshot(d, r)>> ELSE <<>>
    /\ UNCHANGED <<pollFrame, lifeVars, pc>>

PollFails(d) ==
    /\ todo' = todo \ {d} /\ cooling' = cooling \cup {d}
    /\ sent' = [sent EXCEPT ![d] = "absent"]
    /\ outbox' = IF d \in Initialized THEN <<Disconnected(d)>> ELSE <<>>
    /\ UNCHANGED <<pollFrame, lifeVars, pc>>

\* A hat direction beyond 8 ends the source and this round of polls.
PollRejects ==
    /\ Fail /\ todo' = {}
    /\ UNCHANGED <<pollFrame, pc, outVars, cooling, sent>>

PollOne ==
    /\ pc \in {"firstPoll", "poll"} /\ outbox = <<>>
    /\ \E d \in todo :
           \/ PollSkips(d) \/ PollFails(d) \/ PollRejects
           \/ \E r \in Readings : PollReads(d, r)

-----------------------------------------------------------------------------
(* The start of the thread.  startFailed says how far the deferred calls    *)
(* have to go back.                                                        *)

StartError(back) == ready' = "error" /\ failed' = TRUE /\ pc' = back

\* RoInitialize, the activation factory and the hidden window.
Initialize ==
    /\ pc = "init"
    /\ \/ pc' = "firstSync" /\ UNCHANGED <<ready, failed>>
       \/ StartError("release")
    /\ UNCHANGED <<opener, reader, closer, dead, processVars, outVars, queue, deviceVars, known>>

\* The first enumeration has to succeed.
FirstSync ==
    /\ pc = "firstSync"
    /\ \/ Syncs("hook", TRUE) /\ UNCHANGED <<ready, failed>>
       \/ StartError("release") /\ UNCHANGED <<outVars, queue, deviceVars, known>>
    /\ UNCHANGED <<opener, reader, closer, dead, processVars>>

\* The hook, the baseline of the keys and the keyboard's first messages.
InstallHook ==
    /\ Step("hook", "firstPoll")
    /\ active' = "self" /\ hooked' = TRUE
    /\ \E r \in Readings :
           /\ outbox' = <<Connected(Keyboard), Snapshot(Keyboard, r)>>
           /\ sent' = [sent EXCEPT ![Keyboard] = r]
    /\ todo' = tracked
    /\ UNCHANGED <<callVars, lifeVars, busy, admitted, queue, tracked, cooling, known>>

HookFails ==
    /\ pc = "hook"
    /\ StartError("deregister") /\ active' = "self"
    /\ UNCHANGED <<opener, reader, closer, dead, busy, hooked, outVars, queue, deviceVars, known>>

\* The controllers were polled once; the wait timer, and openNative is told.
StartTimer ==
    /\ pc = "firstPoll" /\ outbox = <<>> /\ todo = {}
    /\ \/ ready' = "ok" /\ pc' = "poll" /\ UNCHANGED failed
       \/ StartError("unhook")
    /\ UNCHANGED <<opener, reader, closer, dead, processVars, outVars, queue, deviceVars, known>>

-----------------------------------------------------------------------------
(* One turn of the loop: requests, window messages, scan, poll and wait.    *)

loopFrame == <<callVars, processVars, admitted, queue, tracked, cooling, known>>

\* The last turn has made its polls and has waited.
TurnEnds == pc = "poll" /\ outbox = <<>> /\ todo = {}

Turn(there, polled) == TurnEnds /\ pc' = there /\ todo' = polled

StopLoop ==
    /\ Turn("unhook", {}) /\ dead
    /\ UNCHANGED <<loopFrame, lifeVars, outVars, sent>>

\* The hook hands over at most one key edge, since more of them take another
\* turn; the scan is due every two seconds.
Pump ==
    /\ Turn("scan", {}) \/ Turn("poll", tracked)
    /\ ~dead
    /\ \/ UNCHANGED <<outVars, sent>>
       \/ \E r \in Readings \ {sent[Keyboard]} :
              /\ outbox' = <<Snapshot(Keyboard, r)>>
              /\ sent' = [sent EXCEPT ![Keyboard] = r]
    /\ UNCHANGED <<loopFrame, lifeVars>>

\* A failure is only reported to the diagnostics.  The period of the timer
\* depends on whether there are controllers, and cannot always be set.
Scan ==
    /\ pc = "scan" /\ outbox = <<>>
    /\ \E complete \in BOOLEAN, there \in {"poll", "period"} : Syncs(there, complete)
    /\ UNCHANGED <<callVars, lifeVars, processVars>>

SetPeriodFails ==
    /\ Step("period", "unhook")
    /\ Fail
    /\ UNCHANGED <<loopFrame, outVars, todo, sent>>

-----------------------------------------------------------------------------
(* The deferred calls of the thread, in their order.                       *)

leaveFrame == <<callVars, lifeVars, outVars, queue, known>>

\* Faulty variant of Unhook: the flag is given back before the hook is gone.
UnhookLate ==
    /\ Step("unhook", "deregister") /\ busy' = FALSE
    /\ UNCHANGED <<leaveFrame, active, hooked, deviceVars>>

Unhook ==
    /\ Step("unhook", "deregister") /\ hooked' = FALSE
    /\ UNCHANGED <<leaveFrame, busy, active, deviceVars>>

Deregister ==
    /\ Step("deregister", "release") /\ active' = "nobody"
    /\ UNCHANGED <<leaveFrame, busy, hooked, deviceVars>>

Release ==
    /\ Step("release", "exit") /\ busy' = FALSE
    /\ tracked' = {} /\ cooling' = {} /\ todo' = {}
    /\ UNCHANGED <<leaveFrame, active, hooked, sent>>

\* Faulty variant of Exit: done is never closed after a start that failed.
ExitIfStarted ==
    /\ ready = "ok" /\ Step("exit", "gone")
    /\ UNCHANGED <<leaveFrame, processVars, deviceVars>>

Exit ==
    /\ Step("exit", "gone")
    /\ UNCHANGED <<leaveFrame, processVars, deviceVars>>

-----------------------------------------------------------------------------
(* Another Manager of the process, whose source is opened and closed whole. *)

Rival ==
    /\ \/ ~busy /\ busy' = TRUE /\ active' = "rival"
       \/ active = "rival" /\ busy' = FALSE /\ active' = "nobody"
    /\ UNCHANGED <<callVars, lifeVars, hooked, pc, outVars, queue, deviceVars, known>>

Caller == OpenReady \/ OpenGivesUp \/ OpenFails \/ CloseEnd
Reader == ReadBegin \/ ReadMessage \/ ReadEnd
Thread ==
    \/ EmitBegin \/ EmitSend \/ PollOne
    \/ Initialize \/ FirstSync \/ InstallHook \/ HookFails \/ StartTimer
    \/ StopLoop \/ Pump \/ Scan \/ SetPeriodFails
    \/ Unhook \/ Deregister \/ Release \/ Exit

Next == Open \/ Caller \/ ParentDone \/ CloseBegin \/ Reader \/ Thread \/ Rival

Spec == Init /\ [][Next]_vars

\* Calls into Windows return and the loop waits at most 250 ms; the manager's
\* run goroutine keeps reading.
FairSpec == Spec /\ WF_vars(Thread) /\ WF_vars(Caller) /\ WF_vars(Reader)

-----------------------------------------------------------------------------
(* Properties                                                              *)

\* Type invariant.
TypeOK ==
    /\ opener \in {"idle", "waiting", "closing", "open", "failed"}
    /\ ready \in {"empty", "ok", "error"}
    /\ reader \in {"idle", "select", "ended"}
    /\ closer \in {"idle", "waiting", "closed"}
    /\ dead \in BOOLEAN /\ failed \in BOOLEAN /\ busy \in BOOLEAN /\ hooked \in BOOLEAN
    /\ active \in {"nobody", "self", "rival"}
    /\ pc \in {"none", "init", "firstSync", "hook", "firstPoll", "scan", "period",
               "poll", "unhook", "deregister", "release", "exit", "gone"}
    /\ admitted \in BOOLEAN /\ (admitted => outbox # <<>>)
    /\ outbox \in Seq(Messages) /\ queue \in Seq(Messages) /\ Len(queue) <= QueueCap
    /\ cooling \subseteq tracked /\ todo \subseteq tracked /\ tracked \subseteq Controllers
    /\ Initialized \subseteq tracked \/ pc \in {"exit", "gone"}
    /\ sent \in [Devices -> Shown] /\ known \in [Devices -> Shown]

\* Only one source of the process has a keyboard hook and receives its calls,
\* however one that is closed, or fails to start, overlaps with the next.
SoleHook ==
    /\ hooked => active = "self" /\ busy
    /\ active # "nobody" => busy

\* A reader that has read everything knows what the thread knows, unless the
\* source is over: no message is lost, repeated or passed by another, whatever
\* was plugged, replaced or failed meanwhile.
ReaderCatchesUp == ~dead /\ queue = <<>> /\ outbox = <<>> => known = sent

Protocol == INSTANCE SnapshotProtocol WITH
    stage <- [d \in Devices |-> IF known[d] \in Readings THEN "ready" ELSE known[d]],
    over <- reader = "ended"

\* What is read keeps to the protocol the manager relies on.
ImplementsProtocol == Protocol!ProtocolSpec

\* openNative and Close return, and Read reports the end of the source.
CallsReturn ==
    /\ opener \in {"waiting", "closing"} ~> opener \in {"open", "failed"}
    /\ closer = "waiting" ~> closer = "closed"
    /\ dead /\ opener = "open" ~> reader = "ended"
=============================================================================

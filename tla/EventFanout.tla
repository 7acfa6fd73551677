----------------------------- MODULE EventFanout -----------------------------
(***************************************************************************)
(* The event fan-out of input.Manager (pkg/input/manager.go): publishLocked *)
(* hands each event to every subscriber's buffered channel while it holds  *)
(* Manager.mu; a channel that is full is emptied and given one "reset"     *)
(* instead.  Subscribers receive without the mutex, so a receive may fall  *)
(* between any two channel operations of the publisher, in particular      *)
(* inside the drain loop.  Every channel operation is a step here.         *)
(*                                                                         *)
(* An element of Subs stands for one call of Subscribe (nextSub gives each *)
(* call a fresh id), so it is attached at most once.                       *)
(***************************************************************************)
EXTENDS Naturals, Sequences

CONSTANTS
    Subs,       \* calls of Subscribe
    Cap,        \* capacity of a subscriber's channel: 256 in the code
    MaxSeq      \* bound on the events published before Close

ASSUME CapAssumption == Cap \in Nat \ {0}
ASSUME MaxSeqAssumption == MaxSeq \in Nat

VARIABLES
    closer,     \* Close: "open" (not called), "waiting" or "done"
    runner,     \* the run goroutine: "none" (never started), "live" or "done"
    status,     \* status[s]: "new", "live" (in Manager.subs) or "closed"
    chan,       \* chan[s]: buffered content of the channel of s
    last,       \* history: number of the event s received last
    lastKind,   \* history: kind of the event s received last
    dropped,    \* history: s called the cancel function Subscribe returned
    sequence,   \* Manager.sequence
    owner,      \* who holds Manager.mu to publish: "none", "run", "exit", "close"
    pc,         \* where publishLocked is: "idle", "next", "drain" or "resend"
    todo,       \* subscribers the loop over Manager.subs has not served yet
    cur,        \* the subscriber whose full channel is being drained
    kind        \* kind of the event being published

vars == <<closer, runner, status, chan, last, lastKind, dropped,
          sequence, owner, pc, todo, cur, kind>>

subVars == <<status, last, lastKind, dropped>>
mgrVars == <<closer, runner>>

\* "input" stands for every event that is not a reset (input, connected,
\* disconnected); "overflow" is the reset with reason subscriber_overflow.
Kinds == {"input", "reset", "overflow"}
Event == [seq : Nat, kind : Kinds]

closed == closer # "open"   \* Manager.closed
Live == {s \in Subs : status[s] = "live"}
Full(s) == Len(chan[s]) = Cap
Overflowing(s) == pc \in {"drain", "resend"} /\ cur = s

Init ==
    /\ closer = "open"
    /\ runner \in {"none", "live"}
    /\ status = [s \in Subs |-> "new"]
    /\ chan = [s \in Subs |-> <<>>]
    /\ last = [s \in Subs |-> 0]
    /\ lastKind = [s \in Subs |-> "reset"]
    /\ dropped = {}
    /\ sequence = 0
    /\ owner = "none"
    /\ pc = "idle"
    /\ todo = {}
    /\ cur \in Subs
    /\ kind = "reset"

-----------------------------------------------------------------------------
(* Subscribers.  Subscribe and its cancel function take Manager.mu.        *)

Subscribe(s) ==
    /\ owner = "none"
    /\ status[s] = "new"
    /\ status' = [status EXCEPT ![s] = IF closed THEN "closed" ELSE "live"]
    /\ last' = [last EXCEPT ![s] = sequence]
    /\ UNCHANGED <<mgrVars, chan, lastKind, dropped, sequence, owner, pc, todo, cur, kind>>

\* The cancel function, guarded by sync.Once and by the id still being there.
Unsubscribe(s) ==
    /\ owner = "none"
    /\ status[s] = "live"
    /\ status' = [status EXCEPT ![s] = "closed"]
    /\ dropped' = dropped \cup {s}
    /\ UNCHANGED <<mgrVars, chan, last, lastKind, sequence, owner, pc, todo, cur, kind>>

\* <-ch in the subscriber's goroutine: no lock, and a closed channel still
\* delivers what it buffers.
Receive(s) ==
    /\ chan[s] # <<>>
    /\ chan' = [chan EXCEPT ![s] = Tail(@)]
    /\ last' = [last EXCEPT ![s] = Head(chan[s]).seq]
    /\ lastKind' = [lastKind EXCEPT ![s] = Head(chan[s]).kind]
    /\ UNCHANGED <<mgrVars, status, dropped, sequence, owner, pc, todo, cur, kind>>

-----------------------------------------------------------------------------
(* publishLocked, one step per channel operation.                          *)

BeginPublish(who, k) ==
    /\ owner = "none"
    /\ owner' = who
    /\ kind' = k
    /\ sequence' = sequence + 1
    /\ pc' = "next"
    /\ todo' = Live
    /\ UNCHANGED <<mgrVars, subVars, chan, cur>>

\* The run goroutine: apply does nothing once the manager is closed.
Publish ==
    /\ runner = "live"
    /\ ~closed
    /\ sequence < MaxSeq
    /\ \E k \in {"input", "reset"} : BeginPublish("run", k)

\* The last reset of the run goroutine; it is published even when closed.
RunExit ==
    /\ runner = "live"
    /\ BeginPublish("exit", "reset")

\* Faulty variant of Send: the select does not look at the capacity.
SendUnbounded(s) ==
    /\ pc = "next"
    /\ s \in todo
    /\ chan' = [chan EXCEPT ![s] = Append(@, [seq |-> sequence, kind |-> kind])]
    /\ todo' = todo \ {s}
    /\ UNCHANGED <<mgrVars, subVars, sequence, owner, pc, cur, kind>>

\* case ch <- e
Send(s) ==
    /\ pc = "next"
    /\ s \in todo
    /\ ~Full(s)
    /\ chan' = [chan EXCEPT ![s] = Append(@, [seq |-> sequence, kind |-> kind])]
    /\ todo' = todo \ {s}
    /\ UNCHANGED <<mgrVars, subVars, sequence, owner, pc, cur, kind>>

\* Faulty variant of Overflow: the event is dropped, as a plain "default:" would.
OverflowDrops(s) ==
    /\ pc = "next"
    /\ s \in todo
    /\ Full(s)
    /\ todo' = todo \ {s}
    /\ UNCHANGED <<mgrVars, subVars, chan, sequence, owner, pc, cur, kind>>

\* default: the channel is full
Overflow(s) ==
    /\ pc = "next"
    /\ s \in todo
    /\ Full(s)
    /\ pc' = "drain"
    /\ cur' = s
    /\ UNCHANGED <<mgrVars, subVars, chan, sequence, owner, todo, kind>>

\* Faulty variant of Drain: the loop takes nothing.
DrainNothing ==
    /\ pc = "drain"
    /\ pc' = "resend"
    /\ UNCHANGED <<mgrVars, subVars, chan, sequence, owner, todo, cur, kind>>

\* One turn of the draining loop: take an event, or find the channel empty.
Drain ==
    /\ pc = "drain"
    /\ IF chan[cur] # <<>>
       THEN /\ chan' = [chan EXCEPT ![cur] = Tail(@)]
            /\ UNCHANGED pc
       ELSE /\ pc' = "resend"
            /\ UNCHANGED chan
    /\ UNCHANGED <<mgrVars, subVars, sequence, owner, todo, cur, kind>>

\* Faulty variant of Resend: the event itself is sent after the drain, so the
\* subscriber is not told that others are gone.
ResendEvent ==
    /\ pc = "resend"
    /\ ~Full(cur)
    /\ chan' = [chan EXCEPT ![cur] = Append(@, [seq |-> sequence, kind |-> kind])]
    /\ pc' = "next"
    /\ todo' = todo \ {cur}
    /\ UNCHANGED <<mgrVars, subVars, sequence, owner, cur, kind>>

\* The blocking send that ends the overflow branch: it waits while full.
Resend ==
    /\ pc = "resend"
    /\ ~Full(cur)
    /\ chan' = [chan EXCEPT ![cur] = Append(@, [seq |-> sequence, kind |-> "overflow"])]
    /\ pc' = "next"
    /\ todo' = todo \ {cur}
    /\ UNCHANGED <<mgrVars, subVars, sequence, owner, cur, kind>>

EndPublish(who) ==
    /\ owner = who
    /\ pc = "next"
    /\ todo = {}
    /\ owner' = "none"
    /\ pc' = "idle"
    /\ UNCHANGED <<chan, last, lastKind, dropped, sequence, todo, cur, kind>>

EndRun == EndPublish("run") /\ UNCHANGED <<mgrVars, status>>
EndExit == EndPublish("exit") /\ runner' = "done" /\ UNCHANGED <<closer, status>>

-----------------------------------------------------------------------------
(* Close: it marks the manager closed, releases the mutex, waits for the    *)
(* run goroutine, and then publishes a last reset and closes the channels  *)
(* without releasing the mutex in between.                                 *)

CloseBegin ==
    /\ owner = "none"
    /\ closer = "open"
    /\ closer' = "waiting"
    /\ UNCHANGED <<runner, subVars, chan, sequence, owner, pc, todo, cur, kind>>

\* Faulty variant of CloseReset: without "if done != nil", Close waits for a
\* run goroutine that was never started.
CloseResetWaits ==
    /\ closer = "waiting"
    /\ runner = "done"
    /\ BeginPublish("close", "reset")

\* Close is past <-done; a manager that never started has nothing to wait for.
CloseReset ==
    /\ closer = "waiting"
    /\ runner # "live"
    /\ BeginPublish("close", "reset")

CloseChannels ==
    /\ EndPublish("close")
    /\ closer' = "done"
    /\ status' = [s \in Subs |-> IF status[s] = "live" THEN "closed" ELSE status[s]]
    /\ UNCHANGED runner

-----------------------------------------------------------------------------

PublisherStep ==
    \/ \E s \in Subs : Send(s) \/ Overflow(s)
    \/ Drain \/ Resend
    \/ EndRun \/ EndExit \/ CloseChannels

Next ==
    \/ \E s \in Subs : Subscribe(s) \/ Unsubscribe(s) \/ Receive(s)
    \/ Publish \/ RunExit \/ CloseBegin \/ CloseReset
    \/ PublisherStep

\* A publisher that holds the mutex keeps running.  Close cancels the context
\* and closes the source, which makes the run goroutine's Read return; nothing
\* is assumed of the subscribers, which may never read.
Fairness ==
    /\ WF_vars(PublisherStep)
    /\ WF_vars(closed /\ RunExit)
    /\ WF_vars(CloseReset)

Spec == Init /\ [][Next]_vars
FairSpec == Spec /\ Fairness

-----------------------------------------------------------------------------
(* Properties                                                              *)

\* Type invariant; no channel holds more than its capacity.
TypeOK ==
    /\ closer \in {"open", "waiting", "done"}
    /\ runner \in {"none", "live", "done"}
    /\ status \in [Subs -> {"new", "live", "closed"}]
    /\ chan \in [Subs -> Seq(Event)]
    /\ \A s \in Subs : Len(chan[s]) <= Cap
    /\ last \in [Subs -> Nat]
    /\ lastKind \in [Subs -> Kinds]
    /\ dropped \subseteq Subs
    /\ sequence \in Nat
    /\ owner \in {"none", "run", "exit", "close"}
    /\ pc \in {"idle", "next", "drain", "resend"}
    /\ todo \subseteq Subs
    /\ cur \in Subs
    /\ kind \in {"input", "reset"}

\* What a subscriber reads next either follows what it read last without a
\* hole, or is the reset that tells it events were lost.  Only while the
\* publisher is emptying this very channel may it read past a hole, and then
\* the reset is still to come.
GapsAnnounced ==
    \A s \in Subs :
        chan[s] # <<>> /\ ~Overflowing(s) =>
            \/ Head(chan[s]).seq = last[s] + 1
            \/ Head(chan[s]).kind = "overflow"

\* A subscriber that has emptied its channel has read the newest event: an
\* event is never lost without at least a reset taking its place.
CaughtUp ==
    \A s \in Live :
        chan[s] = <<>> /\ s \notin todo => last[s] = sequence

\* The blocking send of publishLocked, done with Manager.mu held, finds room
\* whatever the subscriber does: otherwise one slow subscriber would stop the
\* whole manager.
ResendNeverBlocks == pc = "resend" => ~Full(cur)

\* A subscriber that reads to the end of the channel Close closed has read a
\* reset last, so it does not go on believing that a control is held.
CloseEndsWithReset ==
    closer = "done" =>
        \A s \in Subs \ dropped : chan[s] = <<>> => lastKind[s] # "input"

\* Close returns and every channel handed out is closed, though no subscriber
\* reads.
CloseCompletes == closed ~> closer = "done" /\ Live = {}

-----------------------------------------------------------------------------
(* The fan-out implements the feed.  A subscriber is behind from the moment *)
(* its full channel is found until it has read the overflow reset.          *)

Behind(s) ==
    Overflowing(s) \/ \E i \in 1 .. Len(chan[s]) : chan[s][i].kind = "overflow"

Feed == INSTANCE LossyFeed WITH
    Subscribers <- Subs,
    published <- sequence,
    position <- last,
    behind <- {s \in Subs : Behind(s)},
    joined <- {s \in Subs : status[s] # "new"}

\* Every step of the fan-out is a step of the abstract feed or leaves it alone.
ImplementsFeed == Feed!FeedSpec

=============================================================================

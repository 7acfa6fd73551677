-------------------------- MODULE EventFanoutProofs --------------------------
(***************************************************************************)
(* Proofs about EventFanout, for any set of subscribers, any capacity and  *)
(* any number of events: no loss goes unnoticed, the publisher never       *)
(* waits, a closed channel ends with a reset, and the fan-out implements   *)
(* LossyFeed.                                                              *)
(***************************************************************************)
EXTENDS EventFanout, SequenceTheorems, TLAPS

-----------------------------------------------------------------------------
(* The inductive invariant.                                                *)

\* Number of the newest event the publisher has handed to s.
Top(s) == IF s \in todo THEN sequence - 1 ELSE sequence

\* The mutex, the loop over Manager.subs and the drained channel agree.
LockInv ==
    /\ owner = "none" <=> pc = "idle"
    /\ todo \subseteq Live
    /\ pc = "idle" => todo = {}
    /\ todo # {} => sequence > 0
    /\ pc \in {"drain", "resend"} => cur \in todo
    /\ pc = "resend" => chan[cur] = <<>>

\* Events lie in a channel in order of their numbers and without a hole, and
\* an overflow reset can only be the oldest of them.
Ordered(q) ==
    /\ \A i \in 1 .. Len(q) : q[i].seq = q[1].seq + (i - 1)
    /\ \A i \in 2 .. Len(q) : q[i].kind # "overflow"

\* The oldest event of the channel follows the one read last.
HeadFollows(s) ==
    chan[s] # <<>> =>
        /\ chan[s][1].seq > last[s]
        /\ \/ Overflowing(s)
           \/ chan[s][1].seq = last[s] + 1
           \/ chan[s][1].kind = "overflow"

\* The newest event of a registered channel is the newest one handed to it.
TopReached(s) ==
    s \in Live =>
        /\ last[s] <= Top(s)
        /\ chan[s] # <<>> => chan[s][1].seq + (Len(chan[s]) - 1) = Top(s)
        /\ chan[s] = <<>> /\ ~Overflowing(s) => last[s] = Top(s)

\* No channel is ahead of the manager.
NotAhead(s) == chan[s] # <<>> => chan[s][1].seq + (Len(chan[s]) - 1) <= sequence

ChanInv(s) ==
    /\ NotAhead(s)
    /\ status[s] = "new" => chan[s] = <<>>
    /\ Ordered(chan[s])
    /\ HeadFollows(s)
    /\ TopReached(s)

IInv == TypeOK /\ LockInv /\ \A s \in Subs : ChanInv(s)

-----------------------------------------------------------------------------
(* Sequences, as the steps use them.                                       *)

\* Taking the oldest event out of a channel shifts the others by one.
LEMMA TakeFacts ==
    ASSUME NEW q \in Seq(Event), q # <<>>
    PROVE  /\ Head(q) = q[1] /\ q[1] \in Event
           /\ Len(q) \in Nat \ {0}
           /\ Tail(q) \in Seq(Event)
           /\ Len(Tail(q)) = Len(q) - 1
           /\ \A i \in 1 .. Len(Tail(q)) : Tail(q)[i] = q[i + 1]
           /\ Tail(q) = <<>> <=> Len(q) = 1
<1>1. Len(q) \in Nat \ {0}
    BY EmptySeq, LenProperties
<1>2. Head(q) = q[1] /\ q[1] \in Event
    BY <1>1, ElementOfSeq
<1>3. /\ Tail(q) \in Seq(Event)
      /\ Len(Tail(q)) = Len(q) - 1
      /\ \A i \in 1 .. Len(Tail(q)) : Tail(q)[i] = q[i + 1]
    BY HeadTailProperties
<1>4. Tail(q) = <<>> <=> Len(q) = 1
    BY <1>1, <1>3, EmptySeq
<1> QED BY <1>1, <1>2, <1>3, <1>4

\* Sending puts the event last and moves no other.
LEMMA PutFacts ==
    ASSUME NEW q \in Seq(Event), NEW e \in Event
    PROVE  /\ Len(q) \in Nat
           /\ Append(q, e) \in Seq(Event)
           /\ Append(q, e) # <<>>
           /\ Len(Append(q, e)) = Len(q) + 1
           /\ \A i \in 1 .. Len(q) : Append(q, e)[i] = q[i]
           /\ Append(q, e)[Len(q) + 1] = e
           /\ q = <<>> <=> Len(q) = 0
OBVIOUS

\* A channel in order stays in order when its oldest event is taken.
LEMMA TakeOrdered ==
    ASSUME NEW q \in Seq(Event), q # <<>>, Ordered(q)
    PROVE  /\ Ordered(Tail(q))
           /\ Tail(q) # <<>> =>
                  /\ Tail(q)[1].seq = q[1].seq + 1
                  /\ Tail(q)[1].kind # "overflow"
<1>1. /\ Len(q) \in Nat \ {0} /\ Len(Tail(q)) = Len(q) - 1
      /\ \A i \in 1 .. Len(Tail(q)) : Tail(q)[i] = q[i + 1]
      /\ Tail(q) = <<>> <=> Len(q) = 1
      /\ q[1].seq \in Nat
    BY TakeFacts DEF Event
<1>2. ASSUME NEW i \in 1 .. Len(Tail(q)) PROVE Tail(q)[i].seq = q[1].seq + i
    <2>1. i + 1 \in 1 .. Len(q)
        BY <1>1
    <2>2. q[i + 1].seq = q[1].seq + ((i + 1) - 1)
        BY <2>1 DEF Ordered
    <2> QED BY <1>1, <2>2
<1>3. ASSUME NEW i \in 1 .. Len(Tail(q)) PROVE Tail(q)[i].kind # "overflow"
    <2>1. i + 1 \in 2 .. Len(q)
        BY <1>1
    <2> QED BY <1>1, <2>1 DEF Ordered
<1>4. Tail(q) # <<>> => 1 \in 1 .. Len(Tail(q))
    BY <1>1
<1>5. Tail(q) # <<>> => Tail(q)[1].seq = q[1].seq + 1 /\ Tail(q)[1].kind # "overflow"
    BY <1>2, <1>3, <1>4
<1>6. ASSUME NEW i \in 1 .. Len(Tail(q)) PROVE Tail(q)[i].seq = Tail(q)[1].seq + (i - 1)
    <2>1. Tail(q) # <<>>
        BY <1>1
    <2>2. Tail(q)[i].seq = q[1].seq + i /\ Tail(q)[1].seq = q[1].seq + 1
        BY <1>2, <1>5, <2>1
    <2> QED BY <1>1, <2>2
<1> QED BY <1>1, <1>3, <1>5, <1>6 DEF Ordered

\* It stays in order when the next number, not an overflow, is put last.
LEMMA PutOrdered ==
    ASSUME NEW q \in Seq(Event), NEW e \in Event, Ordered(q), e.kind # "overflow",
           q # <<>> => e.seq = q[1].seq + Len(q)
    PROVE  /\ Ordered(Append(q, e))
           /\ Append(q, e)[1] = IF q = <<>> THEN e ELSE q[1]
<1> DEFINE r == Append(q, e)
<1>1. /\ Len(q) \in Nat /\ Len(r) = Len(q) + 1
      /\ \A i \in 1 .. Len(q) : r[i] = q[i]
      /\ r[Len(q) + 1] = e
      /\ q = <<>> <=> Len(q) = 0
      /\ e.seq \in Nat
    BY PutFacts DEF Event
<1>2. q # <<>> => q[1].seq \in Nat
    BY TakeFacts DEF Event
<1>3. r[1] = IF q = <<>> THEN e ELSE q[1]
    BY <1>1
<1>4. ASSUME NEW i \in 1 .. Len(r) PROVE r[i].seq = r[1].seq + (i - 1)
    <2>1. CASE i \in 1 .. Len(q)
        BY <1>1, <1>2, <1>3, <2>1 DEF Ordered
    <2>2. CASE i = Len(q) + 1
        BY <1>1, <1>2, <1>3, <2>2
    <2> QED BY <1>1, <2>1, <2>2
<1>5. ASSUME NEW i \in 2 .. Len(r) PROVE r[i].kind # "overflow"
    <2>1. CASE i \in 2 .. Len(q)
        BY <1>1, <2>1 DEF Ordered
    <2>2. CASE i = Len(q) + 1
        BY <1>1, <2>2
    <2> QED BY <1>1, <2>1, <2>2
<1> HIDE DEF r
<1>6. Ordered(r)
    BY <1>4, <1>5 DEF Ordered
<1> QED BY <1>3, <1>6 DEF r

-----------------------------------------------------------------------------
(* The type invariant.                                                     *)

LEMMA TypeInit == Init => TypeOK
BY CapAssumption DEF Init, TypeOK, Kinds, Event

LEMMA TypeStep == TypeOK /\ [Next]_vars => TypeOK'
<1> SUFFICES ASSUME TypeOK, [Next]_vars PROVE TypeOK'
    OBVIOUS
<1> USE CapAssumption DEF TypeOK, mgrVars, subVars, Live, Full
<1>1. ASSUME NEW s \in Subs, Subscribe(s) PROVE TypeOK'
    BY <1>1 DEF Subscribe
<1>2. ASSUME NEW s \in Subs, Unsubscribe(s) PROVE TypeOK'
    BY <1>2 DEF Unsubscribe
<1>3. ASSUME NEW s \in Subs, Receive(s) PROVE TypeOK'
    <2>1. /\ Head(chan[s]) \in Event
          /\ Tail(chan[s]) \in Seq(Event)
          /\ Len(Tail(chan[s])) <= Cap
        BY <1>3, TakeFacts DEF Receive
    <2> QED BY <1>3, <2>1 DEF Receive, Event
<1>4. ASSUME NEW who \in {"run", "exit", "close"}, NEW k \in {"input", "reset"},
             BeginPublish(who, k), UNCHANGED mgrVars
      PROVE  TypeOK'
    BY <1>4 DEF BeginPublish
<1>5. ASSUME NEW s \in Subs, Send(s) PROVE TypeOK'
    <2>1. [seq |-> sequence, kind |-> kind] \in Event
        BY DEF Event, Kinds
    <2>2. /\ Append(chan[s], [seq |-> sequence, kind |-> kind]) \in Seq(Event)
          /\ Len(Append(chan[s], [seq |-> sequence, kind |-> kind])) <= Cap
        BY <1>5, <2>1, PutFacts DEF Send
    <2> QED BY <1>5, <2>2 DEF Send
<1>6. ASSUME NEW s \in Subs, Overflow(s) PROVE TypeOK'
    BY <1>6 DEF Overflow
<1>7. CASE Drain
    <2>1. chan[cur] # <<>> =>
              Tail(chan[cur]) \in Seq(Event) /\ Len(Tail(chan[cur])) <= Cap
        BY TakeFacts
    <2> QED BY <1>7, <2>1 DEF Drain
<1>8. CASE Resend
    <2>1. [seq |-> sequence, kind |-> "overflow"] \in Event
        BY DEF Event, Kinds
    <2>2. /\ Append(chan[cur], [seq |-> sequence, kind |-> "overflow"]) \in Seq(Event)
          /\ Len(Append(chan[cur], [seq |-> sequence, kind |-> "overflow"])) <= Cap
        BY <1>8, <2>1, PutFacts DEF Resend
    <2> QED BY <1>8, <2>2 DEF Resend
<1>9. CASE EndRun \/ EndExit \/ CloseChannels
    BY <1>9 DEF EndRun, EndExit, CloseChannels, EndPublish
<1>10. CASE CloseBegin
    BY <1>10 DEF CloseBegin
<1>11. CASE UNCHANGED vars
    BY <1>11 DEF vars
<1>12. CASE Publish \/ RunExit \/ CloseReset
    BY <1>4, <1>12 DEF Publish, RunExit, CloseReset, BeginPublish
<1> QED
    BY <1>1, <1>2, <1>3, <1>5, <1>6, <1>7, <1>8, <1>9, <1>10, <1>11, <1>12
    DEF Next, PublisherStep

\* The types hold in every reachable state: in particular no subscriber's
\* channel ever holds more events than its capacity.
THEOREM TypeCorrect == Spec => []TypeOK
BY TypeInit, TypeStep, PTL DEF Spec

-----------------------------------------------------------------------------
(* The mutex and the publishing loop.                                      *)

LEMMA LockStep == IInv /\ [Next]_vars => LockInv'
<1> SUFFICES ASSUME IInv, [Next]_vars PROVE LockInv'
    OBVIOUS
<1> USE DEF IInv, LockInv, Live, mgrVars, subVars
<1>1. ASSUME NEW s \in Subs, Subscribe(s) PROVE LockInv'
    BY <1>1 DEF Subscribe, TypeOK
<1>2. ASSUME NEW s \in Subs, Unsubscribe(s) PROVE LockInv'
    BY <1>2 DEF Unsubscribe, TypeOK
<1>3. ASSUME NEW s \in Subs, Receive(s) PROVE LockInv'
    BY <1>3 DEF Receive, TypeOK
<1>4. ASSUME NEW who \in {"run", "exit", "close"}, NEW k \in {"input", "reset"},
             BeginPublish(who, k)
      PROVE  LockInv'
    BY <1>4 DEF BeginPublish, TypeOK
<1>5. ASSUME NEW s \in Subs, Send(s) PROVE LockInv'
    BY <1>5 DEF Send, TypeOK
<1>6. ASSUME NEW s \in Subs, Overflow(s) PROVE LockInv'
    BY <1>6 DEF Overflow, TypeOK
<1>7. CASE Drain
    BY <1>7 DEF Drain, TypeOK
<1>8. CASE Resend
    BY <1>8 DEF Resend, TypeOK
<1>9. CASE EndRun \/ EndExit \/ CloseChannels
    BY <1>9 DEF EndRun, EndExit, CloseChannels, EndPublish, TypeOK
<1>10. CASE CloseBegin
    BY <1>10 DEF CloseBegin, TypeOK
<1>11. CASE UNCHANGED vars
    BY <1>11 DEF vars
<1>12. CASE Publish \/ RunExit \/ CloseReset
    BY <1>4, <1>12 DEF Publish, RunExit, CloseReset
<1> QED
    BY <1>1, <1>2, <1>3, <1>5, <1>6, <1>7, <1>8, <1>9, <1>10, <1>11, <1>12
    DEF Next, PublisherStep

-----------------------------------------------------------------------------
(* The channels.                                                           *)

\* A step that leaves the channel of s, what s has read, the newest event
\* handed to s and the overflow of s alone preserves what is known about s.
LEMMA ChanFrame ==
    ASSUME NEW s \in Subs, ChanInv(s),
           chan[s]' = chan[s], last[s]' = last[s], status[s]' = status[s],
           Top(s)' = Top(s), (Overflowing(s)' <=> Overflowing(s)),
           sequence' = sequence
    PROVE  ChanInv(s)'
BY DEF ChanInv, NotAhead, Ordered, HeadFollows, TopReached, Live

LEMMA ChanStep ==
    ASSUME NEW s \in Subs
    PROVE  IInv /\ [Next]_vars => ChanInv(s)'
<1> SUFFICES ASSUME IInv, [Next]_vars PROVE ChanInv(s)'
    OBVIOUS
<1> ChanInv(s)
    BY DEF IInv
<1> USE DEF mgrVars, subVars
<1>1. ASSUME NEW t \in Subs, Subscribe(t) PROVE ChanInv(s)'
    <2>1. CASE t # s
        BY <1>1, <2>1, ChanFrame DEF Subscribe, IInv, TypeOK, Top, Overflowing
    <2>2. CASE t = s
        <3>1. chan'[s] = <<>> /\ last'[s] = sequence /\ s \notin todo'
            BY <1>1, <2>2 DEF Subscribe, IInv, TypeOK, LockInv, ChanInv
        <3>2. Len(chan'[s]) = 0
            BY <3>1
        <3> QED
            BY <1>1, <3>1, <3>2
            DEF Subscribe, IInv, TypeOK, ChanInv, NotAhead, Ordered, HeadFollows, TopReached, Top
    <2> QED BY <2>1, <2>2
<1>2. ASSUME NEW t \in Subs, Unsubscribe(t) PROVE ChanInv(s)'
    BY <1>2 DEF Unsubscribe, IInv, TypeOK, ChanInv, NotAhead, Ordered, HeadFollows, TopReached,
                Top, Live, Overflowing
<1>3. ASSUME NEW t \in Subs, Receive(t) PROVE ChanInv(s)'
    <2>1. CASE t # s
        BY <1>3, <2>1, ChanFrame DEF Receive, IInv, TypeOK, Top, Overflowing
    <2>2. CASE t = s
        <3> DEFINE q == chan[s]
        <3>1. /\ q # <<>> /\ q \in Seq(Event)
              /\ chan'[s] = Tail(q) /\ last'[s] = q[1].seq
              /\ UNCHANGED <<status, todo, sequence, pc, cur>>
            BY <1>3, <2>2, TakeFacts DEF Receive, IInv, TypeOK
        <3>2. /\ Len(q) \in Nat \ {0} /\ Len(Tail(q)) = Len(q) - 1
              /\ Tail(q) = <<>> <=> Len(q) = 1
              /\ q[1].seq \in Nat
            BY <3>1, TakeFacts DEF Event
        <3>3. /\ Ordered(Tail(q))
              /\ Tail(q) # <<>> => Tail(q)[1].seq = q[1].seq + 1
            BY <3>1, TakeOrdered DEF ChanInv
        <3>4. Ordered(chan[s])'
            BY <3>1, <3>3
        <3>5. HeadFollows(s)'
            BY <3>1, <3>2, <3>3 DEF HeadFollows
        <3>6. TopReached(s)'
            <4>1. SUFFICES ASSUME s \in Live
                           PROVE  /\ q[1].seq <= Top(s)
                                  /\ Tail(q) # <<>> =>
                                         Tail(q)[1].seq + (Len(Tail(q)) - 1) = Top(s)
                                  /\ Tail(q) = <<>> => q[1].seq = Top(s)
                BY <3>1 DEF TopReached, Live, Top
            <4>2. q[1].seq + (Len(q) - 1) = Top(s)
                BY <3>1, <4>1 DEF ChanInv, TopReached
            <4> HIDE DEF q
            <4> QED BY <3>2, <3>3, <4>2
        <3>8. NotAhead(s)'
            <4>1. q[1].seq + (Len(q) - 1) <= sequence /\ sequence \in Nat
                BY <3>1 DEF ChanInv, NotAhead, IInv, TypeOK
            <4>2. SUFFICES ASSUME Tail(q) # <<>>
                           PROVE  Tail(q)[1].seq + (Len(Tail(q)) - 1) <= sequence
                BY <3>1 DEF NotAhead
            <4> HIDE DEF q
            <4> QED BY <3>2, <3>3, <4>1, <4>2
        <3> QED BY <3>1, <3>4, <3>5, <3>6, <3>8 DEF ChanInv
    <2> QED BY <2>1, <2>2
<1>4. ASSUME NEW who \in {"run", "exit", "close"}, NEW k \in {"input", "reset"},
             BeginPublish(who, k)
      PROVE  ChanInv(s)'
    <2>1. s \in Live => Top(s)' = Top(s)
        BY <1>4 DEF BeginPublish, Top, Live, IInv, LockInv, TypeOK
    <2>2. ~Overflowing(s) /\ ~Overflowing(s)'
        BY <1>4 DEF BeginPublish, Overflowing, IInv, LockInv
    <2>3. NotAhead(s)'
        <3>1. sequence \in Nat /\ sequence' = sequence + 1 /\ chan' = chan
            BY <1>4 DEF BeginPublish, IInv, TypeOK
        <3>2. chan[s] # <<>> =>
                  Len(chan[s]) \in Nat /\ chan[s][1].seq \in Nat
            BY TakeFacts DEF IInv, TypeOK, Event
        <3> QED BY <3>1, <3>2 DEF ChanInv, NotAhead
    <2> QED
        BY <1>4, <2>1, <2>2, <2>3
        DEF BeginPublish, ChanInv, Ordered, HeadFollows, TopReached, Live
<1>5. ASSUME NEW t \in Subs, Send(t) PROVE ChanInv(s)'
    <2>1. CASE t # s
        BY <1>5, <2>1, ChanFrame DEF Send, IInv, TypeOK, Top, Overflowing
    <2>2. CASE t = s
        <3> DEFINE e == [seq |-> sequence, kind |-> kind]
                   q == chan[s]
        <3>1. /\ q \in Seq(Event) /\ e \in Event
              /\ chan'[s] = Append(q, e)
              /\ s \in Live /\ s \in todo /\ s \notin todo'
              /\ kind # "overflow" /\ ~Overflowing(s) /\ ~Overflowing(s)'
              /\ UNCHANGED <<status, last, sequence>>
            BY <1>5, <2>2 DEF Send, IInv, TypeOK, LockInv, Event, Kinds, Overflowing
        <3>2. /\ Len(q) \in Nat /\ Append(q, e) # <<>>
              /\ Len(Append(q, e)) = Len(q) + 1
              /\ q = <<>> <=> Len(q) = 0
            BY <3>1, PutFacts
        <3>3. /\ q # <<>> => q[1].seq \in Nat /\ q[1].seq + (Len(q) - 1) = sequence - 1
              /\ q = <<>> => last[s] = sequence - 1
              /\ sequence \in Nat /\ sequence > 0 /\ last[s] \in Nat
            BY <3>1, TakeFacts
            DEF ChanInv, TopReached, Top, IInv, TypeOK, LockInv, Event
        <3>4. /\ Ordered(Append(q, e))
              /\ Append(q, e)[1] = IF q = <<>> THEN e ELSE q[1]
            <4>1. q # <<>> => e.seq = q[1].seq + Len(q)
                BY <3>2, <3>3
            <4>2. Ordered(q) /\ e.kind # "overflow"
                BY <3>1 DEF ChanInv
            <4> HIDE DEF e, q
            <4> QED BY <3>1, <4>1, <4>2, PutOrdered
        <3>5. Ordered(chan[s])'
            BY <3>1, <3>4
        <3>6. HeadFollows(s)'
            BY <3>1, <3>3, <3>4 DEF ChanInv, HeadFollows
        <3>7. TopReached(s)'
            <4>1. Top(s)' = sequence /\ last'[s] = last[s] /\ last[s] <= sequence
                BY <3>1, <3>3 DEF ChanInv, TopReached, Top
            <4>2. Append(q, e)[1].seq + (Len(Append(q, e)) - 1) = sequence
                BY <3>2, <3>3, <3>4
            <4> QED BY <3>1, <3>2, <4>1, <4>2 DEF TopReached
        <3>8. NotAhead(s)'
            <4>1. Append(q, e)[1].seq + (Len(Append(q, e)) - 1) = sequence
                BY <3>2, <3>3, <3>4
            <4> QED BY <3>1, <3>3, <4>1 DEF NotAhead
        <3> QED BY <3>1, <3>5, <3>6, <3>7, <3>8 DEF ChanInv, Live
    <2> QED BY <2>1, <2>2
<1>6. ASSUME NEW t \in Subs, Overflow(t) PROVE ChanInv(s)'
    BY <1>6 DEF Overflow, ChanInv, NotAhead, Ordered, HeadFollows, TopReached, Live, Top,
                Overflowing, Full, IInv, TypeOK
<1>7. CASE Drain
    <2>1. CASE s # cur \/ chan[cur] = <<>>
        BY <1>7, <2>1, ChanFrame DEF Drain, IInv, TypeOK, Top, Overflowing
    <2>2. CASE s = cur /\ chan[cur] # <<>>
        <3> DEFINE q == chan[s]
        <3>1. /\ q # <<>> /\ q \in Seq(Event)
              /\ chan'[s] = Tail(q)
              /\ Overflowing(s) /\ Overflowing(s)'
              /\ UNCHANGED <<last, status, todo, sequence, pc, cur>>
            BY <1>7, <2>2 DEF Drain, IInv, TypeOK, Overflowing
        <3>2. /\ Len(q) \in Nat \ {0} /\ Len(Tail(q)) = Len(q) - 1
              /\ Tail(q) = <<>> <=> Len(q) = 1
              /\ q[1].seq \in Nat /\ last[s] \in Nat
            BY <3>1, TakeFacts DEF Event, IInv, TypeOK
        <3>3. /\ Ordered(Tail(q))
              /\ Tail(q) # <<>> => Tail(q)[1].seq = q[1].seq + 1
            BY <3>1, TakeOrdered DEF ChanInv
        <3>4. Ordered(chan[s])'
            BY <3>1, <3>3
        <3>5. HeadFollows(s)'
            BY <3>1, <3>2, <3>3 DEF ChanInv, HeadFollows
        <3>6. TopReached(s)'
            <4>1. SUFFICES ASSUME s \in Live
                           PROVE  Tail(q) # <<>> =>
                                      Tail(q)[1].seq + (Len(Tail(q)) - 1) = Top(s)
                BY <3>1 DEF ChanInv, TopReached, Live, Top
            <4>2. q[1].seq + (Len(q) - 1) = Top(s)
                BY <3>1, <4>1 DEF ChanInv, TopReached
            <4> HIDE DEF q
            <4> QED BY <3>2, <3>3, <4>2
        <3>8. NotAhead(s)'
            <4>1. q[1].seq + (Len(q) - 1) <= sequence /\ sequence \in Nat
                BY <3>1 DEF ChanInv, NotAhead, IInv, TypeOK
            <4>2. SUFFICES ASSUME Tail(q) # <<>>
                           PROVE  Tail(q)[1].seq + (Len(Tail(q)) - 1) <= sequence
                BY <3>1 DEF NotAhead
            <4> HIDE DEF q
            <4> QED BY <3>2, <3>3, <4>1, <4>2
        <3> QED BY <3>1, <3>4, <3>5, <3>6, <3>8 DEF ChanInv, IInv, LockInv, Live
    <2> QED BY <2>1, <2>2
<1>8. CASE Resend
    <2>1. CASE s # cur
        BY <1>8, <2>1, ChanFrame DEF Resend, IInv, TypeOK, Top, Overflowing
    <2>2. CASE s = cur
        <3> DEFINE e == [seq |-> sequence, kind |-> "overflow"]
        <3>1. /\ chan[s] = <<>> /\ chan'[s] = Append(chan[s], e)
              /\ e \in Event
              /\ s \in Live /\ s \in todo /\ s \notin todo'
              /\ UNCHANGED <<status, last, sequence>>
            BY <1>8, <2>2 DEF Resend, IInv, TypeOK, LockInv, Event, Kinds
        <3>2. /\ Len(chan'[s]) = 1 /\ chan'[s][1] = e
              /\ chan'[s] # <<>>
            BY <3>1
        <3>3. /\ sequence \in Nat /\ sequence > 0 /\ last[s] \in Nat
              /\ last[s] <= sequence - 1
            BY <3>1 DEF ChanInv, TopReached, Top, IInv, TypeOK, LockInv
        <3> QED
            BY <3>1, <3>2, <3>3 DEF ChanInv, NotAhead, Ordered, HeadFollows, TopReached, Top, Live
    <2> QED BY <2>1, <2>2
<1>9. CASE EndRun \/ EndExit \/ CloseChannels
    BY <1>9 DEF EndRun, EndExit, CloseChannels, EndPublish, ChanInv, NotAhead, Ordered, HeadFollows,
                TopReached, Top, Live, Overflowing, IInv, TypeOK
<1>10. CASE CloseBegin
    BY <1>10, ChanFrame DEF CloseBegin, Top, Overflowing
<1>11. CASE UNCHANGED vars
    BY <1>11, ChanFrame DEF vars, Top, Overflowing
<1>12. CASE Publish \/ RunExit \/ CloseReset
    BY <1>4, <1>12 DEF Publish, RunExit, CloseReset
<1> QED
    BY <1>1, <1>2, <1>3, <1>5, <1>6, <1>7, <1>8, <1>9, <1>10, <1>11, <1>12
    DEF Next, PublisherStep

-----------------------------------------------------------------------------
(* The invariant of the specification and what follows from it.            *)

LEMMA InvInit == Init => IInv
<1> SUFFICES ASSUME Init PROVE IInv
    OBVIOUS
<1>1. TypeOK
    BY TypeInit
<1>2. LockInv
    BY DEF Init, LockInv
<1>3. ASSUME NEW s \in Subs PROVE ChanInv(s)
    BY DEF Init, ChanInv, NotAhead, Ordered, HeadFollows, TopReached, Top, Live
<1> QED BY <1>1, <1>2, <1>3 DEF IInv

LEMMA InvStep == IInv /\ [Next]_vars => IInv'
BY TypeStep, LockStep, ChanStep DEF IInv

LEMMA InvHolds == Spec => []IInv
BY InvInit, InvStep, PTL DEF Spec

\* Whatever the subscribers do, what one reads next follows what it read last
\* or is the reset that announces the loss (publishLocked's overflow branch).
THEOREM LossIsAnnounced == Spec => []GapsAnnounced
<1>1. IInv => GapsAnnounced
    <2> SUFFICES ASSUME IInv, NEW s \in Subs, chan[s] # <<>>, ~Overflowing(s)
                 PROVE  \/ Head(chan[s]).seq = last[s] + 1
                        \/ Head(chan[s]).kind = "overflow"
        BY DEF GapsAnnounced
    <2>1. Head(chan[s]) = chan[s][1]
        BY TakeFacts DEF IInv, TypeOK
    <2> QED BY <2>1 DEF IInv, ChanInv, HeadFollows
<1> QED BY <1>1, InvHolds, PTL

\* A subscriber with nothing left to read has read the newest event.
THEOREM NothingLostUnnoticed == Spec => []CaughtUp
<1>1. IInv => CaughtUp
    BY DEF IInv, LockInv, ChanInv, TopReached, Top, CaughtUp, Overflowing, Live
<1> QED BY <1>1, InvHolds, PTL

\* The blocking send publishLocked makes with the mutex held always has room:
\* no subscriber can block the input thread.
THEOREM SendHasRoom == Spec => []ResendNeverBlocks
<1>1. IInv => ResendNeverBlocks
    BY CapAssumption DEF IInv, LockInv, ResendNeverBlocks, Full
<1> QED BY <1>1, InvHolds, PTL

-----------------------------------------------------------------------------
(* The end of the channels.                                                *)

\* Who reads the channel of s to its end reads something else than input last.
EndsWell(s) ==
    IF chan[s] = <<>> THEN lastKind[s] # "input" ELSE chan[s][Len(chan[s])].kind # "input"

\* Who may hold the mutex when: run has not left while it publishes, Close
\* publishes a reset after run has left, and nothing is published after Close.
ClosingInv ==
    /\ owner \in {"run", "exit"} => runner = "live"
    /\ owner = "close" => closer = "waiting" /\ runner # "live" /\ kind = "reset"
    /\ closer = "done" => owner = "none" /\ runner # "live" /\ Live = {}

\* The channels that are closed for good, and those the last reset has reached.
EndInv(s) ==
    status[s] = "new" \/ (status[s] = "closed" /\ s \notin dropped)
        \/ (owner = "close" /\ status[s] = "live" /\ s \notin todo)
    => EndsWell(s)

ClosedInv == ClosingInv /\ \A s \in Subs : EndInv(s)

LEMMA ClosingStep == IInv /\ ClosingInv /\ [Next]_vars => ClosingInv'
<1> SUFFICES ASSUME IInv, ClosingInv, [Next]_vars PROVE ClosingInv'
    OBVIOUS
<1> USE DEF ClosingInv, Live, mgrVars, subVars
<1>1. CASE \E s \in Subs : Subscribe(s) \/ Unsubscribe(s)
    BY <1>1 DEF Subscribe, Unsubscribe, closed, IInv, TypeOK
<1>2. CASE \E s \in Subs : Receive(s) \/ Send(s) \/ Overflow(s)
    BY <1>2 DEF Receive, Send, Overflow
<1>3. CASE Drain \/ Resend
    BY <1>3 DEF Drain, Resend
<1>4. CASE Publish \/ RunExit \/ CloseReset
    BY <1>4 DEF Publish, RunExit, CloseReset, BeginPublish, closed
<1>5. CASE EndRun \/ EndExit
    BY <1>5 DEF EndRun, EndExit, EndPublish
<1>6. CASE CloseChannels
    BY <1>6 DEF CloseChannels, EndPublish, IInv, TypeOK
<1>7. CASE CloseBegin \/ UNCHANGED vars
    BY <1>7 DEF CloseBegin, vars
<1> QED BY <1>1, <1>2, <1>3, <1>4, <1>5, <1>6, <1>7 DEF Next, PublisherStep

\* Reading does not change what is read last.
LEMMA ReceiveEndsWell ==
    ASSUME TypeOK, NEW s \in Subs, Receive(s), EndsWell(s)
    PROVE  EndsWell(s)'
<1> DEFINE q == chan[s]
<1>1. /\ q \in Seq(Event) /\ q # <<>> /\ q[Len(q)].kind # "input"
      /\ chan'[s] = Tail(q) /\ lastKind'[s] = q[1].kind
    BY TakeFacts DEF TypeOK, Receive, EndsWell
<1>2. /\ Len(q) \in Nat \ {0} /\ Len(Tail(q)) = Len(q) - 1
      /\ \A i \in 1 .. Len(Tail(q)) : Tail(q)[i] = q[i + 1]
      /\ Tail(q) = <<>> <=> Len(q) = 1
    BY <1>1, TakeFacts
<1> HIDE DEF q
<1>3. CASE Len(q) = 1
    BY <1>1, <1>2, <1>3 DEF EndsWell
<1>4. CASE Len(q) # 1
    <2>1. Tail(q)[Len(Tail(q))] = q[Len(q)] /\ Tail(q) # <<>>
        BY <1>2, <1>4
    <2> QED BY <1>1, <2>1 DEF EndsWell
<1> QED BY <1>3, <1>4

\* What is sent is read last.
LEMMA PutEndsWell ==
    ASSUME TypeOK, NEW s \in Subs, NEW e \in Event, e.kind # "input",
           chan'[s] = Append(chan[s], e)
    PROVE  EndsWell(s)'
<1>1. chan'[s] # <<>> /\ chan'[s][Len(chan'[s])] = e
    BY PutFacts DEF TypeOK
<1> QED BY <1>1 DEF EndsWell

LEMMA EndStep ==
    ASSUME NEW s \in Subs
    PROVE  IInv /\ ClosedInv /\ [Next]_vars => EndInv(s)'
<1> SUFFICES ASSUME IInv, ClosedInv, [Next]_vars PROVE EndInv(s)'
    OBVIOUS
<1> EndInv(s) /\ TypeOK /\ LockInv /\ ClosingInv
    BY DEF ClosedInv, IInv
<1> USE DEF EndInv, mgrVars, subVars
<1>1. ASSUME NEW t \in Subs, Subscribe(t) PROVE EndInv(s)'
    BY <1>1 DEF Subscribe, EndsWell, TypeOK
<1>2. ASSUME NEW t \in Subs, Unsubscribe(t) PROVE EndInv(s)'
    BY <1>2 DEF Unsubscribe, EndsWell, TypeOK
<1>3. ASSUME NEW t \in Subs, Receive(t) PROVE EndInv(s)'
    <2>1. CASE t = s
        <3>1. EndsWell(s) => EndsWell(s)'
            BY <1>3, <2>1, ReceiveEndsWell
        <3> QED BY <1>3, <3>1 DEF Receive
    <2>2. CASE t # s
        BY <1>3, <2>2 DEF Receive, EndsWell, TypeOK
    <2> QED BY <2>1, <2>2
<1>4. ASSUME NEW t \in Subs, Send(t) PROVE EndInv(s)'
    <2>1. CASE t = s /\ owner = "close"
        <3> DEFINE e == [seq |-> sequence, kind |-> kind]
        <3>1. e \in Event /\ e.kind # "input" /\ chan'[s] = Append(chan[s], e)
            BY <1>4, <2>1 DEF Send, TypeOK, Event, Kinds, ClosingInv
        <3> HIDE DEF e
        <3>2. EndsWell(s)'
            BY <3>1, PutEndsWell
        <3> QED BY <3>2
    <2>2. CASE t = s /\ owner # "close"
        BY <1>4, <2>2 DEF Send, TypeOK, LockInv, Live
    <2>3. CASE t # s
        BY <1>4, <2>3 DEF Send, EndsWell, TypeOK
    <2> QED BY <2>1, <2>2, <2>3
<1>5. ASSUME NEW t \in Subs, Overflow(t) PROVE EndInv(s)'
    BY <1>5 DEF Overflow, EndsWell
<1>6. CASE Drain
    <2>1. CASE s = cur
        BY <1>6, <2>1 DEF Drain, TypeOK, LockInv, Live
    <2>2. CASE s # cur
        BY <1>6, <2>2 DEF Drain, EndsWell, TypeOK
    <2> QED BY <2>1, <2>2
<1>7. CASE Resend
    <2>1. CASE s = cur
        <3> DEFINE e == [seq |-> sequence, kind |-> "overflow"]
        <3>1. e \in Event /\ e.kind # "input" /\ chan'[s] = Append(chan[s], e)
            BY <1>7, <2>1 DEF Resend, TypeOK, Event, Kinds
        <3> HIDE DEF e
        <3> QED BY <3>1, PutEndsWell
    <2>2. CASE s # cur
        BY <1>7, <2>2 DEF Resend, EndsWell, TypeOK
    <2> QED BY <2>1, <2>2
<1>8. CASE Publish \/ RunExit \/ CloseReset
    BY <1>8 DEF Publish, RunExit, CloseReset, BeginPublish, EndsWell, TypeOK, Live
<1>9. CASE EndRun \/ EndExit
    BY <1>9 DEF EndRun, EndExit, EndPublish, EndsWell
<1>10. CASE CloseChannels
    BY <1>10 DEF CloseChannels, EndPublish, EndsWell, TypeOK
<1>11. CASE CloseBegin \/ UNCHANGED vars
    BY <1>11 DEF CloseBegin, vars, EndsWell
<1> QED
    BY <1>1, <1>2, <1>3, <1>4, <1>5, <1>6, <1>7, <1>8, <1>9, <1>10, <1>11 DEF Next, PublisherStep

\* Whoever reads a channel that Close closed to its end reads a reset last,
\* however slowly it read and whenever it subscribed: it does not go on
\* believing that a control is held.
THEOREM ChannelsEndWithReset == Spec => []CloseEndsWithReset
<1>1. Init => ClosedInv
    BY DEF Init, ClosedInv, ClosingInv, EndInv, EndsWell, Live
<1>2. IInv /\ ClosedInv /\ [Next]_vars => ClosedInv'
    BY ClosingStep, EndStep DEF ClosedInv
<1>3. IInv /\ ClosedInv => CloseEndsWithReset
    BY DEF IInv, TypeOK, ClosedInv, ClosingInv, EndInv, EndsWell, Live, CloseEndsWithReset
<1> QED BY <1>1, <1>2, <1>3, InvHolds, PTL DEF Spec

-----------------------------------------------------------------------------
(* The fan-out implements the abstract feed.                               *)

LEMMA FeedInitRefined == Init => Feed!FeedInit
BY DEF Init, Feed!FeedInit, Behind, Overflowing

\* A step that leaves the channels alone changes nobody's being behind,
\* unless it starts or ends an overflow.
LEMMA BehindFrame ==
    ASSUME chan' = chan, \A s \in Subs : (Overflowing(s)' <=> Overflowing(s))
    PROVE  {s \in Subs : Behind(s)}' = {s \in Subs : Behind(s)}
BY DEF Behind

LEMMA FeedStep == IInv /\ [Next]_vars => [Feed!FeedNext]_(Feed!feedVars)
<1> SUFFICES ASSUME IInv, [Next]_vars PROVE [Feed!FeedNext]_(Feed!feedVars)
    OBVIOUS
<1> DEFINE late == {s \in Subs : Behind(s)}
           known == {s \in Subs : status[s] # "new"}
<1> USE DEF mgrVars, subVars
<1>a. ASSUME late' = late, known' = known, last' = last, sequence' = sequence
      PROVE  UNCHANGED Feed!feedVars
    BY <1>a DEF Feed!feedVars
<1>1. ASSUME NEW t \in Subs, Subscribe(t) PROVE Feed!Join(t)
    <2>1. late' = late
        BY <1>1, BehindFrame DEF Subscribe, Overflowing
    <2>2. t \notin known /\ known' = known \cup {t}
        BY <1>1 DEF Subscribe, IInv, TypeOK
    <2>3. last' = [last EXCEPT ![t] = sequence] /\ sequence' = sequence
        BY <1>1 DEF Subscribe
    <2> QED BY <2>1, <2>2, <2>3 DEF Feed!Join
<1>2. ASSUME NEW t \in Subs, Unsubscribe(t) PROVE UNCHANGED Feed!feedVars
    <2>1. late' = late
        BY <1>2, BehindFrame DEF Unsubscribe, Overflowing
    <2>2. known' = known
        BY <1>2 DEF Unsubscribe, IInv, TypeOK
    <2> QED BY <1>2, <1>a, <2>1, <2>2 DEF Unsubscribe
<1>3. ASSUME NEW t \in Subs, Receive(t)
      PROVE  Feed!ReadNext(t) \/ Feed!ReadStale(t) \/ Feed!ReadReset(t)
    <2> DEFINE q == chan[t]
    <2>1. /\ q \in Seq(Event) /\ q # <<>> /\ Ordered(q)
          /\ chan' = [chan EXCEPT ![t] = Tail(q)]
          /\ last' = [last EXCEPT ![t] = q[1].seq]
          /\ last[t] \in Nat /\ last \in [Subs -> Nat]
          /\ UNCHANGED <<status, sequence, pc, cur>>
        BY <1>3, TakeFacts DEF Receive, IInv, TypeOK, ChanInv
    <2>2. /\ Len(q) \in Nat \ {0} /\ Len(Tail(q)) = Len(q) - 1
          /\ \A i \in 1 .. Len(Tail(q)) : Tail(q)[i] = q[i + 1]
          /\ q[1].seq \in Nat
        BY <2>1, TakeFacts DEF Event
    <2>3. known' = known /\ t \in known
        BY <2>1 DEF IInv, ChanInv
    <2>4. q[1].seq \in last[t] + 1 .. sequence
        <3>1. q[1].seq > last[t] /\ q[1].seq + (Len(q) - 1) <= sequence
            BY <2>1 DEF IInv, ChanInv, HeadFollows, NotAhead
        <3>2. sequence \in Nat
            BY DEF IInv, TypeOK
        <3> HIDE DEF q
        <3> QED BY <2>1, <2>2, <3>1, <3>2
    <2>5. \A s \in Subs \ {t} : Behind(s)' <=> Behind(s)
        BY <2>1 DEF Behind, Overflowing, IInv, TypeOK
    <2>6. Overflowing(t)' <=> Overflowing(t)
        BY <2>1 DEF Overflowing
    <2>7. chan'[t] = Tail(q)
        BY <2>1 DEF IInv, TypeOK
    <2>8. \A i \in 1 .. Len(Tail(q)) : Tail(q)[i].kind # "overflow"
        <3> SUFFICES ASSUME NEW i \in 1 .. Len(Tail(q))
                     PROVE  Tail(q)[i].kind # "overflow"
            OBVIOUS
        <3>1. i + 1 \in 2 .. Len(q) /\ Tail(q)[i] = q[i + 1]
            BY <2>2
        <3> QED BY <2>1, <3>1 DEF Ordered
    <2>9. Behind(t)' <=> Overflowing(t)
        BY <2>6, <2>7, <2>8 DEF Behind
    <2>10. CASE Overflowing(t)
        <3>1. Behind(t) /\ late' = late
            BY <2>5, <2>9, <2>10 DEF Behind
        <3> QED BY <2>1, <2>3, <2>4, <3>1 DEF Feed!ReadStale
    <2>11. CASE ~Overflowing(t) /\ q[1].kind = "overflow"
        <3>1. Behind(t) /\ late' = late \ {t}
            BY <2>2, <2>5, <2>9, <2>11 DEF Behind
        <3> QED BY <2>1, <2>3, <2>4, <3>1 DEF Feed!ReadReset
    <2>12. CASE ~Overflowing(t) /\ q[1].kind # "overflow"
        <3>1. q[1].seq = last[t] + 1
            BY <2>1, <2>12 DEF IInv, ChanInv, HeadFollows
        <3>2. \A i \in 1 .. Len(q) : q[i].kind # "overflow"
            BY <2>1, <2>2, <2>12 DEF Ordered
        <3>3. ~Behind(t) /\ late' = late
            BY <2>5, <2>9, <2>12, <3>2 DEF Behind
        <3>4. last[t] < sequence
            <4>1. sequence \in Nat
                BY DEF IInv, TypeOK
            <4> HIDE DEF q
            <4> QED BY <2>1, <2>2, <2>4, <4>1
        <3> QED BY <2>1, <2>3, <3>1, <3>3, <3>4 DEF Feed!ReadNext
    <2> QED BY <2>10, <2>11, <2>12
<1>4. ASSUME NEW who \in {"run", "exit", "close"}, NEW k \in {"input", "reset"},
             BeginPublish(who, k)
      PROVE  Feed!Publish
    <2>1. \A s \in Subs : ~Overflowing(s) /\ ~Overflowing(s)'
        BY <1>4 DEF BeginPublish, Overflowing, IInv, LockInv
    <2>2. late' = late
        <3>1. chan' = chan /\ \A s \in Subs : (Overflowing(s)' <=> Overflowing(s))
            BY <1>4, <2>1 DEF BeginPublish
        <3> QED BY <3>1, BehindFrame
    <2> QED BY <1>4, <2>2 DEF BeginPublish, Feed!Publish
<1>5. ASSUME NEW t \in Subs, Send(t) PROVE UNCHANGED Feed!feedVars
    <2> DEFINE e == [seq |-> sequence, kind |-> kind]
               q == chan[t]
    <2>1. /\ q \in Seq(Event) /\ e \in Event /\ e.kind # "overflow"
          /\ chan' = [chan EXCEPT ![t] = Append(q, e)]
          /\ chan'[t] = Append(q, e)
          /\ UNCHANGED <<status, last, sequence, pc, cur>>
        BY <1>5 DEF Send, IInv, TypeOK, Event, Kinds
    <2>2. /\ Len(q) \in Nat /\ Len(Append(q, e)) = Len(q) + 1
          /\ \A i \in 1 .. Len(q) : Append(q, e)[i] = q[i]
          /\ Append(q, e)[Len(q) + 1] = e
        BY <2>1, PutFacts
    <2>3. (\E i \in 1 .. Len(Append(q, e)) : Append(q, e)[i].kind = "overflow")
             <=> \E i \in 1 .. Len(q) : q[i].kind = "overflow"
        <3>1. ASSUME NEW i \in 1 .. Len(Append(q, e)), Append(q, e)[i].kind = "overflow"
              PROVE  i \in 1 .. Len(q) /\ q[i].kind = "overflow"
            BY <2>1, <2>2, <3>1
        <3>2. ASSUME NEW i \in 1 .. Len(q), q[i].kind = "overflow"
              PROVE  i \in 1 .. Len(Append(q, e)) /\ Append(q, e)[i].kind = "overflow"
            BY <2>2, <3>2
        <3> QED BY <3>1, <3>2
    <2>4. Behind(t)' <=> Behind(t)
        BY <2>1, <2>3 DEF Behind, Overflowing
    <2>5. \A s \in Subs \ {t} : Behind(s)' <=> Behind(s)
        BY <2>1 DEF Behind, Overflowing, IInv, TypeOK
    <2>6. late' = late /\ known' = known
        BY <2>1, <2>4, <2>5
    <2> QED BY <1>a, <2>1, <2>6
<1>6. ASSUME NEW t \in Subs, Overflow(t)
      PROVE  Feed!FallBehind(t) \/ UNCHANGED Feed!feedVars
    <2>1. /\ pc = "next" /\ t \in todo /\ Full(t)
          /\ pc' = "drain" /\ cur' = t
          /\ UNCHANGED <<status, last, sequence, chan, todo>>
        BY <1>6 DEF Overflow
    <2>2. \A s \in Subs : Behind(s)' <=> (s = t \/ Behind(s))
        BY <2>1 DEF Behind, Overflowing
    <2>3. late' = late \cup {t} /\ known' = known
        BY <2>1, <2>2
    <2>4. t \in known
        BY <2>1 DEF IInv, LockInv, Live
    <2>5. last[t] < sequence
        <3>1. last[t] <= sequence - 1
            BY <2>1 DEF IInv, LockInv, ChanInv, TopReached, Top
        <3> QED BY <3>1 DEF IInv, TypeOK
    <2>6. CASE Behind(t)
        BY <1>a, <2>1, <2>3, <2>6
    <2>7. CASE ~Behind(t)
        BY <2>1, <2>3, <2>4, <2>5, <2>7 DEF Feed!FallBehind
    <2> QED BY <2>6, <2>7
<1>7. CASE Drain
    <2>1. /\ UNCHANGED <<status, last, sequence, cur>>
          /\ \A s \in Subs \ {cur} : chan'[s] = chan[s]
          /\ pc \in {"drain", "resend"} /\ pc' \in {"drain", "resend"}
        BY <1>7 DEF Drain, IInv, TypeOK
    <2>2. \A s \in Subs : Behind(s)' <=> Behind(s)
        BY <2>1 DEF Behind, Overflowing
    <2>3. late' = late /\ known' = known
        BY <2>1, <2>2
    <2> QED BY <1>a, <2>1, <2>3
<1>8. CASE Resend
    <2> DEFINE e == [seq |-> sequence, kind |-> "overflow"]
    <2>1. /\ UNCHANGED <<status, last, sequence, cur>>
          /\ chan[cur] = <<>> /\ chan'[cur] = Append(chan[cur], e)
          /\ \A s \in Subs \ {cur} : chan'[s] = chan[s]
          /\ pc = "resend" /\ pc' = "next"
        BY <1>8 DEF Resend, IInv, TypeOK, LockInv
    <2>2. chan'[cur] = <<e>> /\ Len(chan'[cur]) = 1 /\ chan'[cur][1] = e
        BY <2>1
    <2>3. Behind(cur) /\ Behind(cur)'
        BY <2>1, <2>2 DEF Behind, Overflowing
    <2>4. \A s \in Subs \ {cur} : Behind(s)' <=> Behind(s)
        BY <2>1 DEF Behind, Overflowing
    <2>5. late' = late /\ known' = known
        BY <2>1, <2>3, <2>4
    <2> QED BY <1>a, <2>1, <2>5
<1>9. CASE EndRun \/ EndExit \/ CloseChannels
    <2>1. late' = late
        BY <1>9, BehindFrame DEF EndRun, EndExit, CloseChannels, EndPublish, Overflowing
    <2>2. known' = known
        BY <1>9 DEF EndRun, EndExit, CloseChannels, IInv, TypeOK
    <2> QED
        BY <1>9, <1>a, <2>1, <2>2 DEF EndRun, EndExit, CloseChannels, EndPublish
<1>10. CASE CloseBegin
    <2>1. late' = late /\ known' = known
        BY <1>10, BehindFrame DEF CloseBegin, Overflowing
    <2> QED BY <1>10, <1>a, <2>1 DEF CloseBegin
<1>11. CASE UNCHANGED vars
    <2>1. late' = late /\ known' = known
        BY <1>11, BehindFrame DEF vars, Overflowing
    <2> QED BY <1>11, <1>a, <2>1 DEF vars
<1>12. CASE Publish \/ RunExit \/ CloseReset
    <2>1. \E who \in {"run", "exit", "close"}, k \in {"input", "reset"} :
              BeginPublish(who, k)
        BY <1>12 DEF Publish, RunExit, CloseReset
    <2>2. Feed!Publish
        BY <1>4, <2>1
    <2> QED BY <2>2 DEF Feed!FeedNext
<1> QED
    BY <1>1, <1>2, <1>3, <1>5, <1>6, <1>7, <1>8, <1>9, <1>10, <1>11, <1>12
    DEF Next, PublisherStep, Feed!FeedNext

\* The channels, the mutex and the drain loop of publishLocked together keep
\* the promise of LossyFeed to every subscriber.
THEOREM FanoutImplementsFeed == Spec => ImplementsFeed
<1>1. IInv /\ IInv' /\ [Next]_vars => [Feed!FeedNext]_(Feed!feedVars)
    BY FeedStep
<1> QED
    BY FeedInitRefined, <1>1, InvHolds, PTL DEF Spec, ImplementsFeed, Feed!FeedSpec
=============================================================================

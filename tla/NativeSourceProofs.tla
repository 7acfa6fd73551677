------------------------- MODULE NativeSourceProofs -------------------------
(***************************************************************************)
(* Proofs about NativeSource, for any controllers, readings and capacity of *)
(* the queue.                                                               *)
(***************************************************************************)
EXTENDS NativeSource, SequenceTheorems, FiniteSetTheorems, TLAPS

-----------------------------------------------------------------------------
(* What a sequence of messages does to a reader.  k is what the reader knows *)
(* before it reads the messages p.                                           *)

\* The reader takes d to be in state v when it has read the messages before i.
Holds(p, k, i, d, v) ==
    \/ /\ k[d] = v
       /\ \A l \in 1..(i - 1) : p[l].dev # d
    \/ \E j \in 1..(i - 1) :
           /\ p[j].dev = d /\ Told(p[j]) = v
           /\ \A l \in (j + 1)..(i - 1) : p[l].dev # d

\* The protocol lets m follow when the reader takes its device to be in state v.
Allowed(m, v) ==
    /\ m.type = "connected" => v = "absent"
    /\ m.type = "snapshot" => v # "absent"
    /\ m.type = "disconnected" => v \in Readings

\* Each message is allowed when it is read.
Legal(p, k) ==
    \A i \in 1..Len(p) : \E v \in Shown : Holds(p, k, i, p[i].dev, v) /\ Allowed(p[i], v)

\* After the last message the reader knows s.
Leads(p, k, s) == \A d \in Devices : Holds(p, k, Len(p) + 1, d, s[d])

Knowledge == [Devices -> Shown]

LEMMA MessageFacts ==
    ASSUME NEW m \in Messages
    PROVE  /\ m.dev \in Devices
           /\ m.type \in {"connected", "disconnected", "snapshot"}
           /\ m.type = "snapshot" => m.val \in Readings
           /\ Told(m) \in Shown
BY DEF Messages, Told, Shown

LEMMA MessageTypes ==
    ASSUME NEW d \in Devices, NEW r \in Readings
    PROVE  /\ Connected(d) \in Messages /\ Connected(d).dev = d
           /\ Connected(d).type = "connected" /\ Told(Connected(d)) = "announced"
           /\ Disconnected(d) \in Messages /\ Disconnected(d).dev = d
           /\ Disconnected(d).type = "disconnected" /\ Told(Disconnected(d)) = "absent"
           /\ Snapshot(d, r) \in Messages /\ Snapshot(d, r).dev = d
           /\ Snapshot(d, r).type = "snapshot" /\ Told(Snapshot(d, r)) = r
BY DEF Messages, Connected, Disconnected, Snapshot, Message, Told

LEMMA EmptyMessages ==
    ASSUME NEW p \in Seq(Messages)
    PROVE  Len(p) \in Nat /\ (p = <<>> <=> Len(p) = 0)
BY EmptySeq, LenProperties

\* A reader that has nothing to read knows what the messages lead to.
LEMMA NothingToRead ==
    ASSUME NEW k \in Knowledge, NEW s \in Knowledge, Leads(<<>>, k, s)
    PROVE  k = s
<1>1. ASSUME NEW d \in Devices PROVE k[d] = s[d]
    <2>1. Holds(<<>>, k, 1, d, s[d])
        BY EmptySeq DEF Leads
    <2> QED BY <2>1 DEF Holds
<1> QED BY <1>1 DEF Knowledge

\* Messages put behind others do not change what the reader knows before.
LEMMA HoldsExtended ==
    ASSUME NEW p \in Seq(Messages), NEW q \in Seq(Messages), NEW k \in Knowledge,
           Len(p) <= Len(q), \A l \in 1..Len(p) : q[l] = p[l],
           NEW i \in 1..(Len(p) + 1), NEW d, NEW v
    PROVE  Holds(p, k, i, d, v) <=> Holds(q, k, i, d, v)
<1>1. Len(p) \in Nat
    BY EmptyMessages
<1>2. \A l \in 1..(i - 1) : q[l] = p[l]
    BY <1>1
<1>3. \A j \in 1..(i - 1) : \A l \in (j + 1)..(i - 1) : q[l] = p[l]
    BY <1>1, <1>2
<1> QED BY <1>2, <1>3 DEF Holds

\* Messages of other devices do not matter.
LEMMA HoldsSkips ==
    ASSUME NEW q \in Seq(Messages), NEW k \in Knowledge, NEW n \in Nat, NEW i \in Nat,
           n + 1 <= i, NEW d, NEW v, Holds(q, k, n + 1, d, v),
           \A l \in (n + 1)..(i - 1) : q[l].dev # d
    PROVE  Holds(q, k, i, d, v)
<1>1. CASE k[d] = v /\ \A l \in 1..n : q[l].dev # d
    <2>1. \A l \in 1..(i - 1) : l \in 1..n \/ l \in (n + 1)..(i - 1)
        OBVIOUS
    <2> QED BY <1>1, <2>1 DEF Holds
<1>2. CASE \E j \in 1..n : /\ q[j].dev = d /\ Told(q[j]) = v
                           /\ \A l \in (j + 1)..n : q[l].dev # d
    <2>1. PICK j \in 1..n : /\ q[j].dev = d /\ Told(q[j]) = v
                            /\ \A l \in (j + 1)..n : q[l].dev # d
        BY <1>2
    <2>2. j \in 1..(i - 1) /\ \A l \in (j + 1)..(i - 1) : l \in (j + 1)..n \/ l \in (n + 1)..(i - 1)
        OBVIOUS
    <2> QED BY <2>1, <2>2 DEF Holds
<1>3. (n + 1) - 1 = n
    OBVIOUS
<1> QED BY <1>1, <1>2, <1>3 DEF Holds

\* t has at most one message of each device, allowed after what was last said
\* of it in s; u is what is said then.
Turns(t, s, u) ==
    /\ \A i, j \in 1..Len(t) : i # j => t[i].dev # t[j].dev
    /\ \A i \in 1..Len(t) : Allowed(t[i], s[t[i].dev]) /\ u[t[i].dev] = Told(t[i])
    /\ \A d \in Devices : (\A i \in 1..Len(t) : t[i].dev # d) => u[d] = s[d]

\* A handler that sends such messages keeps the reader on the thread's tracks.
LEMMA SendMessages ==
    ASSUME NEW p \in Seq(Messages), NEW t \in Seq(Messages),
           NEW k \in Knowledge, NEW s \in Knowledge, NEW u \in Knowledge,
           Legal(p, k), Leads(p, k, s), Turns(t, s, u)
    PROVE  Legal(p \o t, k) /\ Leads(p \o t, k, u)
<1> USE DEF Turns
<1> DEFINE q == p \o t
           n == Len(p)
           m == Len(t)
<1>1. /\ n \in Nat /\ m \in Nat /\ q \in Seq(Messages) /\ Len(q) = n + m
      /\ \A l \in 1..n : q[l] = p[l]
      /\ \A l \in 1..m : q[n + l] = t[l]
    BY EmptyMessages, ConcatProperties
<1>2. \A l \in (n + 1)..(n + m) : l - n \in 1..m /\ q[l] = t[l - n]
    <2> SUFFICES ASSUME NEW l \in (n + 1)..(n + m) PROVE l - n \in 1..m /\ q[l] = t[l - n]
        OBVIOUS
    <2>1. l - n \in 1..m /\ n + (l - n) = l
        BY <1>1
    <2> QED BY <1>1, <2>1
<1>3. \A l \in 1..m : t[l] \in Messages /\ t[l].dev \in Devices
    BY <1>1, ElementOfSeq, MessageFacts
<1> HIDE DEF q
<1>3a. Len(p) <= Len(q) /\ (\A l \in 1..Len(p) : q[l] = p[l]) /\ n + 1 \in 1..(Len(p) + 1)
    BY <1>1
<1>3b. \A i \in 1..(Len(p) + 1), d \in Devices, v \in Shown :
          Holds(p, k, i, d, v) <=> Holds(q, k, i, d, v)
    BY <1>1, <1>3a, HoldsExtended
<1>4. ASSUME NEW i \in 1..n PROVE \E v \in Shown : Holds(q, k, i, q[i].dev, v) /\ Allowed(q[i], v)
    <2>1. PICK v \in Shown : Holds(p, k, i, p[i].dev, v) /\ Allowed(p[i], v)
        BY DEF Legal
    <2>2. i \in 1..(Len(p) + 1) /\ p[i].dev \in Devices /\ q[i] = p[i]
        BY <1>1, ElementOfSeq, MessageFacts
    <2>3. Holds(q, k, i, p[i].dev, v)
        BY <1>3b, <2>1, <2>2
    <2> QED BY <2>1, <2>2, <2>3
<1>5. ASSUME NEW d \in Devices PROVE Holds(q, k, n + 1, d, s[d])
    BY <1>3b, <1>3a DEF Leads, Knowledge
<1>6. ASSUME NEW i \in (n + 1)..(n + m)
      PROVE \E v \in Shown : Holds(q, k, i, q[i].dev, v) /\ Allowed(q[i], v)
    <2>1. q[i] = t[i - n] /\ i - n \in 1..m /\ q[i].dev \in Devices
        BY <1>2, <1>3
    <2>2. ASSUME NEW l \in (n + 1)..(i - 1) PROVE q[l].dev # q[i].dev
        <3>1. l \in (n + 1)..(n + m) /\ l - n # i - n
            BY <1>1
        <3> QED BY <1>2, <2>1, <3>1
    <2>3. Holds(q, k, i, q[i].dev, s[q[i].dev])
        <3>1. i \in Nat /\ n + 1 <= i
            BY <1>1
        <3> QED BY <1>1, <1>5, <2>1, <2>2, <3>1, HoldsSkips
    <2>4. s[q[i].dev] \in Shown
        BY <2>1 DEF Knowledge
    <2> QED BY <2>1, <2>3, <2>4
<1>7. Legal(q, k)
    <2>1. \A i \in 1..Len(q) : i \in 1..n \/ i \in (n + 1)..(n + m)
        BY <1>1
    <2> QED BY <1>4, <1>6, <2>1 DEF Legal
<1>8. ASSUME NEW d \in Devices PROVE Holds(q, k, Len(q) + 1, d, u[d])
    <2>1. CASE \A i \in 1..m : t[i].dev # d
        <3>1. ASSUME NEW l \in (n + 1)..((n + m + 1) - 1) PROVE q[l].dev # d
            <4>1. l \in (n + 1)..(n + m)
                BY <1>1
            <4> QED BY <1>2, <2>1, <4>1
        <3>2. u[d] = s[d]
            BY <2>1
        <3>3. n + m + 1 \in Nat /\ n + 1 <= n + m + 1
            BY <1>1
        <3> QED BY <1>1, <1>5, <3>1, <3>2, <3>3, HoldsSkips
    <2>2. CASE \E i \in 1..m : t[i].dev = d
        <3>1. PICK i \in 1..m : t[i].dev = d
            BY <2>2
        <3>2. n + i \in 1..((Len(q) + 1) - 1) /\ q[n + i] = t[i]
            BY <1>1
        <3>3. ASSUME NEW l \in (n + i + 1)..((Len(q) + 1) - 1) PROVE q[l].dev # d
            <4>1. l \in (n + 1)..(n + m) /\ l - n # i
                BY <1>1
            <4> QED BY <1>2, <3>1, <4>1
        <3>4. Told(q[n + i]) = u[d]
            BY <3>1, <3>2
        <3> QED BY <3>1, <3>2, <3>3, <3>4 DEF Holds
    <2> QED BY <2>1, <2>2
<1>9. Leads(q, k, u)
    BY <1>8 DEF Leads
<1> QED BY <1>7, <1>9 DEF q

\* A reader that takes the first message keeps to the protocol.
LEMMA ReadFirst ==
    ASSUME NEW p \in Seq(Messages), p # <<>>, NEW k \in Knowledge, Legal(p, k),
           NEW k2, k2 = [k EXCEPT ![Head(p).dev] = Told(Head(p))]
    PROVE  /\ k2 \in Knowledge
           /\ Allowed(Head(p), k[Head(p).dev])
           /\ Legal(Tail(p), k2)
           /\ \A s \in Knowledge : Leads(p, k, s) => Leads(Tail(p), k2, s)
<1> DEFINE t == Tail(p)
<1>1. /\ Len(p) \in Nat /\ Len(p) # 0 /\ Head(p) = p[1] /\ t \in Seq(Messages)
      /\ Len(t) = Len(p) - 1 /\ \A i \in 1..Len(t) : t[i] = p[i + 1]
    BY EmptyMessages, HeadTailProperties
<1>2. 1 \in 1..Len(p) /\ p[1] \in Messages /\ p[1].dev \in Devices /\ Told(p[1]) \in Shown
    BY <1>1, ElementOfSeq, MessageFacts
<1>3. k2 \in Knowledge
    BY <1>1, <1>2 DEF Knowledge
<1>4. \A d \in Devices : k2[d] = IF d = p[1].dev THEN Told(p[1]) ELSE k[d]
    BY <1>1, <1>2 DEF Knowledge
<1>5. Allowed(Head(p), k[Head(p).dev])
    <2>1. PICK v \in Shown : Holds(p, k, 1, p[1].dev, v) /\ Allowed(p[1], v)
        BY <1>2 DEF Legal
    <2>2. k[p[1].dev] = v
        BY <2>1 DEF Holds
    <2> QED BY <1>1, <2>1, <2>2
<1> HIDE DEF t
<1>6. ASSUME NEW i \in 1..Len(p), NEW d \in Devices, NEW v, Holds(p, k, i + 1, d, v)
      PROVE  Holds(t, k2, i, d, v)
    <2>0. (i + 1) - 1 = i /\ \A l \in 1..(i - 1) : t[l] = p[l + 1] /\ l + 1 \in 2..i /\ l + 1 \in 1..i
        BY <1>1
    <2>1. CASE k[d] = v /\ \A l \in 1..i : p[l].dev # d
        <3>1. k2[d] = v
            <4>1. p[1].dev # d
                BY <2>1
            <4> QED BY <1>4, <2>1, <4>1
        <3>2. \A l \in 1..(i - 1) : t[l].dev # d
            BY <2>0, <2>1
        <3> QED BY <3>1, <3>2 DEF Holds
    <2>2. CASE p[1].dev = d /\ Told(p[1]) = v /\ \A l \in 2..i : p[l].dev # d
        <3>1. k2[d] = v
            BY <1>4, <2>2
        <3> QED BY <2>0, <2>2, <3>1 DEF Holds
    <2>3. CASE \E j \in 2..i : /\ p[j].dev = d /\ Told(p[j]) = v
                               /\ \A l \in (j + 1)..i : p[l].dev # d
        <3>1. PICK j \in 2..i : /\ p[j].dev = d /\ Told(p[j]) = v
                                /\ \A l \in (j + 1)..i : p[l].dev # d
            BY <2>3
        <3>2. j - 1 \in 1..(i - 1) /\ t[j - 1] = p[j]
            BY <1>1
        <3>3. ASSUME NEW l \in ((j - 1) + 1)..(i - 1) PROVE t[l].dev # d
            <4>1. l \in 1..(i - 1) /\ l + 1 \in (j + 1)..i
                BY <1>1
            <4> QED BY <2>0, <3>1, <4>1
        <3> QED BY <3>1, <3>2, <3>3 DEF Holds
    <2>4. \/ k[d] = v /\ \A l \in 1..i : p[l].dev # d
          \/ \E j \in 1..i : /\ p[j].dev = d /\ Told(p[j]) = v
                             /\ \A l \in (j + 1)..i : p[l].dev # d
        BY <1>6, <2>0 DEF Holds
    <2>5. \A j \in 1..i : j = 1 \/ j \in 2..i
        OBVIOUS
    <2> QED BY <2>1, <2>2, <2>3, <2>4, <2>5
<1>7. Legal(t, k2)
    <2> SUFFICES ASSUME NEW i \in 1..Len(t)
                 PROVE  \E v \in Shown : Holds(t, k2, i, t[i].dev, v) /\ Allowed(t[i], v)
        BY DEF Legal
    <2>1. i + 1 \in 1..Len(p) /\ i \in 1..Len(p) /\ t[i] = p[i + 1]
        BY <1>1
    <2>2. PICK v \in Shown : Holds(p, k, i + 1, p[i + 1].dev, v) /\ Allowed(p[i + 1], v)
        BY <2>1 DEF Legal
    <2>3. p[i + 1].dev \in Devices
        BY <2>1, ElementOfSeq, MessageFacts
    <2> QED BY <1>6, <2>1, <2>2, <2>3
<1>8. ASSUME NEW s \in Knowledge, Leads(p, k, s) PROVE Leads(t, k2, s)
    <2>1. Len(p) \in 1..Len(p) /\ Len(t) + 1 = Len(p)
        BY <1>1
    <2> QED BY <1>6, <1>8, <2>1 DEF Leads
<1> QED BY <1>3, <1>5, <1>7, <1>8 DEF t

\* What is legal stays so when messages at the end are dropped.
LEMMA PrefixLegal ==
    ASSUME NEW p \in Seq(Messages), NEW t \in Seq(Messages), NEW k \in Knowledge,
           Legal(p \o t, k)
    PROVE  Legal(p, k)
<1> DEFINE q == p \o t
<1>1. /\ Len(p) \in Nat /\ q \in Seq(Messages) /\ Len(p) <= Len(q)
      /\ \A l \in 1..Len(p) : q[l] = p[l]
    BY EmptyMessages, ConcatProperties
<1>2. Legal(q, k)
    OBVIOUS
<1> HIDE DEF q
<1> SUFFICES ASSUME NEW i \in 1..Len(p)
             PROVE  \E v \in Shown : Holds(p, k, i, p[i].dev, v) /\ Allowed(p[i], v)
    BY DEF Legal
<1>3. i \in 1..Len(q) /\ i \in 1..(Len(p) + 1) /\ q[i] = p[i]
    BY <1>1
<1>4. PICK v \in Shown : Holds(q, k, i, q[i].dev, v) /\ Allowed(q[i], v)
    BY <1>2, <1>3 DEF Legal
<1>5. Holds(p, k, i, q[i].dev, v)
    BY <1>1, <1>3, <1>4, HoldsExtended
<1> QED BY <1>3, <1>4, <1>5

\* A message passes from the outbox to the queue and from there to the reader.
LEMMA Pipeline ==
    ASSUME NEW q \in Seq(Messages), NEW o \in Seq(Messages)
    PROVE  /\ q \o o \in Seq(Messages)
           /\ o # <<>> => Append(q, Head(o)) \o Tail(o) = q \o o
           /\ q # <<>> => q \o o # <<>> /\ Head(q \o o) = Head(q) /\ Tail(q \o o) = Tail(q) \o o
<1>1. /\ q \o o \in Seq(Messages) /\ Len(q) \in Nat /\ Len(o) \in Nat
      /\ Len(q \o o) = Len(q) + Len(o)
      /\ \A i \in 1..(Len(q) + Len(o)) :
             (q \o o)[i] = IF i <= Len(q) THEN q[i] ELSE o[i - Len(q)]
    BY EmptyMessages, ConcatProperties
<1>2. ASSUME o # <<>> PROVE Append(q, Head(o)) \o Tail(o) = q \o o
    <2>1. Head(o) \in Messages /\ Tail(o) \in Seq(Messages)
        BY <1>2, HeadTailProperties
    <2>2. o = <<Head(o)>> \o Tail(o)
        BY <1>2, <2>1
    <2>3. Append(q, Head(o)) = q \o <<Head(o)>> /\ <<Head(o)>> \in Seq(Messages)
        BY <2>1, AppendIsConcat
    <2>4. (q \o <<Head(o)>>) \o Tail(o) = q \o (<<Head(o)>> \o Tail(o))
        BY <2>1, <2>3, ConcatAssociative
    <2> QED BY <2>2, <2>3, <2>4
<1>3. ASSUME q # <<>>
      PROVE  q \o o # <<>> /\ Head(q \o o) = Head(q) /\ Tail(q \o o) = Tail(q) \o o
    <2>1. Len(q) # 0 /\ q \o o # <<>>
        BY <1>1, <1>3, EmptyMessages
    <2>2. Head(q \o o) = Head(q)
        BY <1>1, <2>1
    <2> DEFINE a == Tail(q \o o)
               b == Tail(q) \o o
    <2>3. a \in Seq(Messages) /\ Len(a) = Len(q) + Len(o) - 1
          /\ \A i \in 1..Len(a) : a[i] = (q \o o)[i + 1]
        BY <1>1, <2>1, HeadTailProperties
    <2>4. Tail(q) \in Seq(Messages) /\ Len(Tail(q)) = Len(q) - 1
          /\ \A i \in 1..Len(Tail(q)) : Tail(q)[i] = q[i + 1]
        BY <1>3, HeadTailProperties
    <2>5. b \in Seq(Messages) /\ Len(b) = Len(q) - 1 + Len(o)
          /\ \A i \in 1..Len(b) : b[i] = IF i <= Len(q) - 1 THEN Tail(q)[i] ELSE o[i - (Len(q) - 1)]
        BY <1>1, <2>4, ConcatProperties
    <2> HIDE DEF a, b
    <2>6. ASSUME NEW i \in 1..Len(a) PROVE a[i] = b[i]
        <3>1. i + 1 \in 1..(Len(q) + Len(o)) /\ i \in 1..Len(b)
            BY <1>1, <2>3, <2>5
        <3>2. CASE i <= Len(q) - 1
            <4>1. i + 1 <= Len(q) /\ i \in 1..Len(Tail(q))
                BY <1>1, <2>4, <3>2
            <4> QED BY <1>1, <2>3, <2>4, <2>5, <3>1, <3>2, <4>1
        <3>3. CASE ~(i <= Len(q) - 1)
            <4>1. ~(i + 1 <= Len(q)) /\ (i + 1) - Len(q) = i - (Len(q) - 1)
                BY <1>1, <3>3
            <4> QED BY <1>1, <2>3, <2>5, <3>1, <3>3, <4>1
        <3> QED BY <3>2, <3>3
    <2>7. a = b
        BY <1>1, <2>3, <2>5, <2>6, SeqEqual
    <2> QED BY <2>1, <2>2, <2>7 DEF a, b
<1> QED BY <1>1, <1>2, <1>3
-----------------------------------------------------------------------------
(* The inductive invariant.                                                *)

Hooked == {"firstPoll", "scan", "period", "poll", "unhook"}

\* Where the thread is tells what it holds of the process.  Only openNative
\* starts it, and a rival has the process to itself once the flag is back.
PlaceInv ==
    /\ opener = "idle" => pc = "none"
    /\ pc \in {"none", "exit", "gone"} => active # "self" /\ ~hooked
    /\ pc \in {"init", "firstSync", "hook", "release"} => busy /\ active = "nobody" /\ ~hooked
    /\ pc = "deregister" => busy /\ active = "self" /\ ~hooked
    /\ pc \in Hooked => busy /\ active = "self" /\ hooked
    /\ active = "rival" => busy

\* The keyboard is announced with the hook, and what is announced is shown.
KeyboardInv ==
    /\ pc \in {"none", "init", "firstSync"} => outbox = <<>>
    /\ pc \in {"none", "init", "firstSync", "hook"} => sent[Keyboard] = "absent"
    /\ pc \in Hooked \ {"unhook"} => sent[Keyboard] \in Readings
    /\ \A d \in Devices : sent[d] # "announced"

\* What the reader will read is legal, and while the source lives, or emit has
\* still to send what it admitted before the end, it leads the reader to what
\* the thread has said; a source that is over has lost messages.
PipeInv ==
    /\ Legal(queue, known)
    /\ ~dead \/ admitted =>
           Legal(queue \o outbox, known) /\ Leads(queue \o outbox, known, sent)

IInv == TypeOK /\ PlaceInv /\ KeyboardInv /\ PipeInv

-----------------------------------------------------------------------------
(* The messages of an enumeration.                                          *)

\* t withdraws every device of ids that was announced, once, and no other.
Withdraws(t, ids) ==
    /\ t \in Seq(Messages)
    /\ \A i \in 1..Len(t) : t[i].dev \in ids \cap Initialized /\ t[i] = Disconnected(t[i].dev)
    /\ \A i, j \in 1..Len(t) : i # j => t[i].dev # t[j].dev
    /\ \A d \in ids \cap Initialized : \E i \in 1..Len(t) : t[i].dev = d

LEMMA DisconnectionsListed ==
    ASSUME NEW ids \in SUBSET Controllers, NEW t \in SetToSeqs(Disconnections(ids))
    PROVE  Withdraws(t, ids)
<1> DEFINE S == ids \cap Initialized
           M == Disconnections(ids)
           n == Cardinality(M)
<1>1. \A d \in S : Disconnected(d) \in Messages /\ Disconnected(d).dev = d
    BY DEF Disconnected, Message, Messages, Devices
<1>2. M = {Disconnected(d) : d \in S} /\ M \subseteq Messages
    BY <1>1 DEF Disconnections
<1>3. IsFiniteSet(M)
    <2> DEFINE f == [d \in S |-> Disconnected(d)]
    <2>1. f \in Surjection(S, M)
        BY <1>2 DEF Surjection
    <2>2. IsFiniteSet(S)
        BY DevicesAssumption, FS_Subset
    <2> HIDE DEF f
    <2> QED BY <2>1, <2>2, FS_Surjection
<1>4. n \in Nat
    BY <1>3, FS_CardinalityType
<1>5. t \in [1..n -> M] /\ \A i, j \in 1..n : i # j => t[i] # t[j]
    BY DEF SetToSeqs
<1> HIDE DEF M, n
<1>6. t \in Seq(Messages) /\ Len(t) = n
    BY <1>2, <1>4, <1>5
<1>7. ASSUME NEW i \in 1..n PROVE t[i].dev \in S /\ t[i] = Disconnected(t[i].dev)
    BY <1>1, <1>2, <1>5
<1>8. \A i, j \in 1..n : i # j => t[i].dev # t[j].dev
    BY <1>5, <1>7
<1>9. t \in Surjection(1..n, M)
    <2>1. t \in Injection(1..n, M)
        BY <1>5 DEF Injection, IsInjective
    <2>2. Cardinality(1..n) = n /\ IsFiniteSet(1..n)
        BY <1>4, FS_Interval
    <2> QED BY <1>3, <2>1, <2>2, FS_Injection DEF n
<1>10. ASSUME NEW d \in S PROVE \E i \in 1..n : t[i].dev = d
    <2>1. Disconnected(d) \in M
        BY <1>2
    <2>2. PICK i \in 1..n : t[i] = Disconnected(d)
        BY <1>9, <2>1 DEF Surjection
    <2> QED BY <1>1, <2>2
<1> QED BY <1>6, <1>7, <1>8, <1>10 DEF Withdraws

\* Both kinds of disconnections one after the other.
LEMMA EnumerationListed ==
    ASSUME NEW fresh \in SUBSET Controllers, NEW gone \in SUBSET Controllers,
           fresh \cap gone = {},
           NEW a \in SetToSeqs(Disconnections(fresh)),
           NEW b \in SetToSeqs(Disconnections(gone))
    PROVE  Withdraws(a \o b, fresh \cup gone)
<1>1. /\ a \in Seq(Messages)
      /\ \A i \in 1..Len(a) : a[i].dev \in fresh \cap Initialized /\ a[i] = Disconnected(a[i].dev)
      /\ \A i, j \in 1..Len(a) : i # j => a[i].dev # a[j].dev
      /\ \A d \in fresh \cap Initialized : \E i \in 1..Len(a) : a[i].dev = d
    BY DisconnectionsListed DEF Withdraws
<1>2. /\ b \in Seq(Messages)
      /\ \A i \in 1..Len(b) : b[i].dev \in gone \cap Initialized /\ b[i] = Disconnected(b[i].dev)
      /\ \A i, j \in 1..Len(b) : i # j => b[i].dev # b[j].dev
      /\ \A d \in gone \cap Initialized : \E i \in 1..Len(b) : b[i].dev = d
    BY DisconnectionsListed DEF Withdraws
<1> DEFINE c == a \o b
           n == Len(a)
           m == Len(b)
<1>3. /\ n \in Nat /\ m \in Nat /\ c \in Seq(Messages) /\ Len(c) = n + m
      /\ \A i \in 1..n : c[i] = a[i]
      /\ \A i \in 1..m : c[n + i] = b[i]
    BY <1>1, <1>2, EmptyMessages, ConcatProperties
<1> HIDE DEF c
<1>4. \A i \in 1..(n + m) : \/ i \in 1..n /\ c[i] = a[i]
                            \/ i - n \in 1..m /\ c[i] = b[i - n]
    <2> SUFFICES ASSUME NEW i \in 1..(n + m), i \notin 1..n
                 PROVE  i - n \in 1..m /\ c[i] = b[i - n]
        BY <1>3
    <2>1. i - n \in 1..m /\ n + (i - n) = i
        BY <1>3
    <2> QED BY <1>3, <2>1
<1>5. ASSUME NEW i \in 1..(n + m)
      PROVE  c[i].dev \in (fresh \cup gone) \cap Initialized /\ c[i] = Disconnected(c[i].dev)
    BY <1>1, <1>2, <1>4
<1>6. ASSUME NEW i \in 1..(n + m), NEW j \in 1..(n + m), i # j PROVE c[i].dev # c[j].dev
    <2>1. CASE i \in 1..n /\ j \in 1..n
        BY <1>1, <1>3, <1>6, <2>1
    <2>2. CASE i - n \in 1..m /\ c[i] = b[i - n] /\ j - n \in 1..m /\ c[j] = b[j - n]
        <3>1. i - n # j - n
            BY <1>3, <1>6
        <3> QED BY <1>2, <2>2, <3>1
    <2>3. CASE i \in 1..n /\ j - n \in 1..m /\ c[j] = b[j - n]
        <3>1. c[i].dev \in fresh
            BY <1>1, <1>3, <2>3
        <3>2. c[j].dev \in gone
            BY <1>2, <2>3
        <3> QED BY <3>1, <3>2
    <2>4. CASE j \in 1..n /\ i - n \in 1..m /\ c[i] = b[i - n]
        <3>1. c[j].dev \in fresh
            BY <1>1, <1>3, <2>4
        <3>2. c[i].dev \in gone
            BY <1>2, <2>4
        <3> QED BY <3>1, <3>2
    <2> QED BY <1>4, <2>1, <2>2, <2>3, <2>4
<1>7. ASSUME NEW d \in (fresh \cup gone) \cap Initialized
      PROVE  \E i \in 1..(n + m) : c[i].dev = d
    <2>1. CASE d \in fresh
        <3>1. PICK i \in 1..n : a[i].dev = d
            BY <1>1, <2>1
        <3> QED BY <1>3, <3>1
    <2>2. CASE d \in gone
        <3>1. PICK i \in 1..m : b[i].dev = d
            BY <1>2, <2>2
        <3>2. n + i \in 1..(n + m)
            BY <1>3
        <3> QED BY <1>3, <3>1, <3>2
    <2> QED BY <2>1, <2>2
<1>8. Withdraws(c, fresh \cup gone)
    BY <1>3, <1>5, <1>6, <1>7 DEF Withdraws
<1> QED BY <1>8 DEF c

-----------------------------------------------------------------------------
(* Steps and the messages on their way.                                    *)

\* A handler that found the outbox empty and leaves such messages in it.
LEMMA SenderStep ==
    ASSUME TypeOK, PipeInv, outbox = <<>>, UNCHANGED <<queue, known, admitted>>, dead => dead',
           outbox' \in Seq(Messages), sent' \in Knowledge, Turns(outbox', sent, sent')
    PROVE  PipeInv'
<1>1. queue \in Seq(Messages) /\ known \in Knowledge /\ sent \in Knowledge
    BY DEF TypeOK, Knowledge
<1>2. queue \o outbox = queue /\ ~admitted'
    BY <1>1, ConcatEmptySeq DEF TypeOK
<1>3. CASE ~dead
    <2>1. Legal(queue, known) /\ Leads(queue, known, sent)
        BY <1>2, <1>3 DEF PipeInv
    <2>2. Legal(queue \o outbox', known) /\ Leads(queue \o outbox', known, sent')
        BY <1>1, <2>1, SendMessages
    <2> QED BY <2>1, <2>2 DEF PipeInv
<1>4. CASE dead
    BY <1>2, <1>4 DEF PipeInv
<1> QED BY <1>3, <1>4

\* A step that sends, reads and learns nothing.
LEMMA SilentStep ==
    ASSUME PipeInv, UNCHANGED <<queue, known, outVars, sent>>, dead => dead'
    PROVE  PipeInv'
BY DEF PipeInv, outVars

\* What emit does not admit is lost, and the source over already.
LEMMA EmitBeginStep == TypeOK /\ PipeInv /\ EmitBegin => PipeInv'
<1> SUFFICES ASSUME TypeOK, PipeInv, EmitBegin PROVE PipeInv'
    OBVIOUS
<1>1. UNCHANGED <<queue, known, sent, dead>> /\ dead \in BOOLEAN
    BY DEF EmitBegin, lifeVars, deviceVars, TypeOK
<1>2. CASE dead
    BY <1>1, <1>2 DEF EmitBegin, PipeInv
<1>3. CASE ~dead
    <2>1. outbox' = outbox
        BY <1>3 DEF EmitBegin
    <2> QED BY <1>1, <1>3, <2>1 DEF PipeInv
<1> QED BY <1>1, <1>2, <1>3

\* What emit admitted goes into the queue, though the source may be over by
\* now, or finds it full and ends the source.
LEMMA EmitSendStep == TypeOK /\ PipeInv /\ EmitSend => PipeInv'
<1> SUFFICES ASSUME TypeOK, PipeInv, EmitSend PROVE PipeInv'
    OBVIOUS
<1>1. queue \in Seq(Messages) /\ outbox \in Seq(Messages) /\ outbox # <<>> /\ dead \in BOOLEAN
    BY DEF TypeOK, EmitSend
<1>2. outbox' = Tail(outbox) /\ ~admitted' /\ UNCHANGED <<known, sent>>
    BY DEF EmitSend, deviceVars
<1>3. CASE queue' = Append(queue, Head(outbox))
    <2>1. queue' \o outbox' = queue \o outbox
        BY <1>1, <1>2, <1>3, Pipeline
    <2>2. queue' \in Seq(Messages) /\ outbox' \in Seq(Messages)
        BY <1>1, <1>2, <1>3, HeadTailProperties, AppendProperties
    <2>3. Legal(queue' \o outbox', known') /\ Leads(queue' \o outbox', known', sent')
        BY <1>2, <2>1 DEF PipeInv, EmitSend
    <2>4. known' \in Knowledge
        BY <1>2 DEF TypeOK, Knowledge
    <2>5. Legal(queue', known')
        BY <2>2, <2>3, <2>4, PrefixLegal
    <2> QED BY <2>3, <2>5 DEF PipeInv
<1>4. CASE queue' = queue /\ dead'
    BY <1>2, <1>4 DEF PipeInv
<1> QED BY <1>3, <1>4 DEF EmitSend, Fail

LEMMA ReadStep ==
    ASSUME TypeOK, PipeInv, ReadMessage
    PROVE  /\ PipeInv' /\ known' \in Knowledge
           /\ Allowed(Head(queue), known[Head(queue).dev])
<1>1. queue \in Seq(Messages) /\ outbox \in Seq(Messages) /\ queue # <<>> /\ known \in Knowledge
    BY DEF TypeOK, ReadMessage, Knowledge
<1>2. /\ known' = [known EXCEPT ![Head(queue).dev] = Told(Head(queue))]
      /\ queue' = Tail(queue) /\ UNCHANGED <<dead, outbox, admitted, sent>>
    BY DEF ReadMessage, lifeVars, outVars, deviceVars
<1>3. /\ Legal(queue', known') /\ known' \in Knowledge
      /\ Allowed(Head(queue), known[Head(queue).dev])
    BY <1>1, <1>2, ReadFirst DEF PipeInv
<1>4. ASSUME ~dead \/ admitted
      PROVE  Legal(queue' \o outbox', known') /\ Leads(queue' \o outbox', known', sent')
    <2> DEFINE p == queue \o outbox
    <2>1. p \in Seq(Messages) /\ p # <<>> /\ Head(p) = Head(queue) /\ Tail(p) = Tail(queue) \o outbox
        BY <1>1, Pipeline
    <2>2. Legal(p, known) /\ Leads(p, known, sent) /\ sent \in Knowledge
        BY <1>4 DEF PipeInv, TypeOK, Knowledge
    <2> HIDE DEF p
    <2>3. Legal(Tail(p), known') /\ Leads(Tail(p), known', sent)
        BY <1>1, <1>2, <2>1, <2>2, ReadFirst
    <2> QED BY <1>2, <2>1, <2>3
<1> QED BY <1>2, <1>3, <1>4 DEF PipeInv

LEMMA SyncStep ==
    ASSUME TypeOK, KeyboardInv, PipeInv, outbox = <<>>, dead' = dead,
           NEW fresh \in SUBSET Controllers, NEW same \in SUBSET (tracked \ fresh),
           NEW complete, NEW there, Sync(fresh, same, complete, there)
    PROVE  PipeInv' /\ outbox' \in Seq(Messages) /\ sent' \in Knowledge
<1> DEFINE gone == IF complete THEN tracked \ (fresh \cup same) ELSE {}
<1>1. gone \in SUBSET Controllers /\ fresh \cap gone = {}
    BY DEF TypeOK
<1>2. PICK a \in SetToSeqs(Disconnections(fresh)), b \in SetToSeqs(Disconnections(gone)) :
          outbox' = a \o b
    BY DEF Sync
<1>3. /\ sent' = [d \in Devices |-> IF d \in gone \cup fresh THEN "absent" ELSE sent[d]]
      /\ UNCHANGED <<queue, known, admitted>>
    BY DEF Sync
<1> HIDE DEF gone
<1>4. Withdraws(outbox', fresh \cup gone)
    BY <1>1, <1>2, EnumerationListed
<1>5. sent \in Knowledge /\ sent' \in Knowledge
    BY <1>3 DEF TypeOK, Knowledge, Shown
<1>6. ASSUME NEW i \in 1..Len(outbox')
      PROVE  /\ Allowed(outbox'[i], sent[outbox'[i].dev])
             /\ sent'[outbox'[i].dev] = Told(outbox'[i])
    <2> DEFINE d == outbox'[i].dev
    <2>1. d \in fresh \cup gone /\ d \in Devices /\ sent[d] \in Readings /\ outbox'[i] = Disconnected(d)
        BY <1>1, <1>4 DEF Initialized, Devices, Withdraws
    <2>2. outbox'[i].type = "disconnected" /\ Told(outbox'[i]) = "absent"
        BY <2>1 DEF Disconnected, Message, Told
    <2>3. sent'[d] = "absent"
        BY <1>3, <2>1
    <2> QED BY <2>1, <2>2, <2>3 DEF Allowed
<1>7. ASSUME NEW d \in Devices, \A i \in 1..Len(outbox') : outbox'[i].dev # d
      PROVE  sent'[d] = sent[d]
    <2>1. CASE d \in fresh \cup gone
        <3>1. d \in Controllers /\ d \notin Initialized
            BY <1>1, <1>4, <1>7, <2>1 DEF Withdraws
        <3>2. sent[d] = "absent"
            BY <3>1 DEF Initialized, TypeOK, Shown, KeyboardInv
        <3> QED BY <1>3, <2>1, <3>2
    <2>2. CASE d \notin fresh \cup gone
        BY <1>3, <2>2
    <2> QED BY <2>1, <2>2
<1>8. PipeInv'
    <2>1. Turns(outbox', sent, sent')
        BY <1>4, <1>6, <1>7 DEF Withdraws, Turns
    <2> QED BY <1>3, <1>4, <1>5, <2>1, SenderStep DEF Withdraws
<1> QED BY <1>4, <1>5, <1>8 DEF Withdraws

\* One message at a time.
LEMMA SendOne ==
    ASSUME NEW p \in Seq(Messages), NEW m \in Messages, NEW k \in Knowledge, NEW s \in Knowledge,
           Legal(p, k), Leads(p, k, s), Allowed(m, s[m.dev]),
           NEW u, u = [s EXCEPT ![m.dev] = Told(m)]
    PROVE  u \in Knowledge /\ Legal(p \o <<m>>, k) /\ Leads(p \o <<m>>, k, u)
<1> DEFINE t == <<m>>
<1>1. m.dev \in Devices /\ Told(m) \in Shown
    BY MessageFacts
<1>2. t \in Seq(Messages) /\ Len(t) = 1 /\ t[1] = m
    OBVIOUS
<1>3. u \in Knowledge /\ \A d \in Devices : u[d] = IF d = m.dev THEN Told(m) ELSE s[d]
    BY <1>1 DEF Knowledge
<1> HIDE DEF t
<1>4. \A i \in 1..Len(t) : i = 1 /\ t[i] = m
    BY <1>2
<1>5. \A i, j \in 1..Len(t) : i # j => t[i].dev # t[j].dev
    BY <1>4
<1>6. \A i \in 1..Len(t) : Allowed(t[i], s[t[i].dev]) /\ u[t[i].dev] = Told(t[i])
    BY <1>1, <1>3, <1>4
<1>7. \A d \in Devices : (\A i \in 1..Len(t) : t[i].dev # d) => u[d] = s[d]
    <2>1. 1 \in 1..Len(t)
        BY <1>2
    <2> QED BY <1>2, <1>3, <2>1
<1>8. Legal(p \o t, k) /\ Leads(p \o t, k, u)
    <2>1. Turns(t, s, u)
        BY <1>5, <1>6, <1>7 DEF Turns
    <2> QED BY <1>2, <1>3, <2>1, SendMessages
<1> QED BY <1>3, <1>8 DEF t

\* A handler that has one thing to say.
LEMMA OneMessage ==
    ASSUME TypeOK, PipeInv, outbox = <<>>, UNCHANGED <<queue, known, dead, admitted>>,
           NEW m \in Messages, Allowed(m, sent[m.dev]), outbox' = <<m>>,
           sent' = [sent EXCEPT ![m.dev] = Told(m)]
    PROVE  PipeInv' /\ outbox' \in Seq(Messages) /\ sent' \in Knowledge
<1>1. queue \in Seq(Messages) /\ known \in Knowledge /\ sent \in Knowledge
    BY DEF TypeOK, Knowledge
<1>2. m.dev \in Devices /\ Told(m) \in Shown
    BY MessageFacts
<1>3. outbox' \in Seq(Messages) /\ sent' \in Knowledge
    BY <1>1, <1>2 DEF Knowledge
<1>4. ASSUME ~dead
      PROVE  Legal(queue \o outbox', known) /\ Leads(queue \o outbox', known, sent')
    <2>1. queue \o outbox = queue
        BY <1>1, ConcatEmptySeq
    <2>2. Legal(queue, known) /\ Leads(queue, known, sent)
        BY <1>4, <2>1 DEF PipeInv
    <2> QED BY <1>1, <2>2, SendOne
<1>9. ~admitted'
    BY DEF TypeOK
<1> QED BY <1>3, <1>4, <1>9 DEF PipeInv

\* A controller that answers for the first time.
LEMMA TwoMessages ==
    ASSUME TypeOK, PipeInv, outbox = <<>>, UNCHANGED <<queue, known, dead, admitted>>,
           NEW d \in Devices, sent[d] = "absent", NEW r \in Readings,
           outbox' = <<Connected(d), Snapshot(d, r)>>, sent' = [sent EXCEPT ![d] = r]
    PROVE  PipeInv' /\ outbox' \in Seq(Messages) /\ sent' \in Knowledge
<1> DEFINE a == Connected(d)
           b == Snapshot(d, r)
           u == [sent EXCEPT ![d] = "announced"]
<1>1. queue \in Seq(Messages) /\ known \in Knowledge /\ sent \in Knowledge
    BY DEF TypeOK, Knowledge
<1>2. /\ a \in Messages /\ a.dev = d /\ a.type = "connected" /\ Told(a) = "announced"
      /\ b \in Messages /\ b.dev = d /\ b.type = "snapshot" /\ Told(b) = r
    BY MessageTypes
<1>3. sent' = [u EXCEPT ![d] = r] /\ u[d] = "announced"
    BY <1>1 DEF Knowledge
<1> HIDE DEF a, b, u
<1>4. outbox' = <<a, b>>
    BY DEF a, b
<1>5. outbox' \in Seq(Messages) /\ sent' \in Knowledge
    BY <1>1, <1>2, <1>4 DEF Knowledge, Shown
<1>6. ASSUME ~dead
      PROVE  Legal(queue \o outbox', known) /\ Leads(queue \o outbox', known, sent')
    <2>1. queue \o outbox = queue
        BY <1>1, ConcatEmptySeq
    <2>2. Legal(queue, known) /\ Leads(queue, known, sent)
        BY <1>6, <2>1 DEF PipeInv
    <2> DEFINE p == queue \o <<a>>
    <2>3. Allowed(a, sent[a.dev]) /\ u = [sent EXCEPT ![a.dev] = Told(a)]
        BY <1>2 DEF Allowed, u
    <2>4. u \in Knowledge /\ Legal(p, known) /\ Leads(p, known, u)
        BY <1>1, <1>2, <2>2, <2>3, SendOne
    <2>5. p \in Seq(Messages)
        BY <1>1, <1>2
    <2>6. p \o <<b>> = queue \o outbox'
        <3>1. outbox' # <<>> /\ Head(outbox') = a /\ Tail(outbox') = <<b>>
            BY <1>4
        <3>2. Append(queue, a) = p
            BY <1>1, <1>2, AppendIsConcat
        <3>3. Append(queue, Head(outbox')) \o Tail(outbox') = queue \o outbox'
            BY <1>1, <1>5, <3>1, Pipeline, Zenon
        <3>4. Append(queue, a) \o <<b>> = queue \o outbox'
            BY <3>1, <3>3, Zenon
        <3> HIDE DEF p
        <3> QED BY <3>2, <3>4, Zenon
    <2> HIDE DEF p
    <2>7. Allowed(b, u[b.dev]) /\ sent' = [u EXCEPT ![b.dev] = Told(b)]
        BY <1>2, <1>3 DEF Allowed
    <2>8. Legal(p \o <<b>>, known) /\ Leads(p \o <<b>>, known, sent')
        BY <1>1, <1>2, <2>4, <2>5, <2>7, SendOne
    <2> QED BY <2>6, <2>8
<1>9. ~admitted'
    BY DEF TypeOK
<1> QED BY <1>5, <1>6, <1>9 DEF PipeInv

-----------------------------------------------------------------------------
(* Preservation.                                                           *)

\* What PollOne does to a controller.
LEMMA PollStep ==
    ASSUME TypeOK, KeyboardInv, PipeInv, PollOne
    PROVE  PipeInv' /\ outbox' \in Seq(Messages) /\ sent' \in Knowledge
<1>1. PICK d \in todo : \/ PollSkips(d) \/ PollFails(d) \/ PollRejects
                        \/ \E r \in Readings : PollReads(d, r)
    BY DEF PollOne
<1>2. outbox = <<>> /\ d \in Controllers /\ d \in Devices /\ sent \in Knowledge
    BY <1>1 DEF PollOne, TypeOK, Devices, Knowledge
<1>3. UNCHANGED <<queue, known, admitted>> /\ (dead => dead') /\ outbox \in Seq(Messages)
    BY <1>1 DEF PollSkips, PollFails, PollRejects, PollReads, pollFrame, lifeVars, Fail, TypeOK
<1>4. CASE PollSkips(d) \/ PollRejects
    BY <1>2, <1>3, <1>4, SilentStep DEF PollSkips, PollRejects, outVars
<1>5. CASE PollFails(d)
    <2>1. sent' = [sent EXCEPT ![d] = "absent"] /\ dead' = dead
        BY <1>5 DEF PollFails, lifeVars
    <2>2. CASE d \in Initialized
        <3>1. outbox' = <<Disconnected(d)>> /\ sent[d] \in Readings
            BY <1>5, <2>2 DEF PollFails, Initialized
        <3>2. /\ Disconnected(d) \in Messages /\ Disconnected(d).dev = d
              /\ Allowed(Disconnected(d), sent[d]) /\ Told(Disconnected(d)) = "absent"
            BY <1>2, <3>1 DEF Messages, Disconnected, Message, Told, Allowed
        <3> QED BY <1>2, <1>3, <2>1, <3>1, <3>2, OneMessage
    <2>3. CASE d \notin Initialized
        <3>1. outbox' = outbox
            BY <1>2, <1>5, <2>3 DEF PollFails
        <3>2. sent[d] = "absent"
            BY <1>2, <2>3 DEF Initialized, KeyboardInv, Knowledge, Shown
        <3>3. sent' = sent
            BY <1>2, <2>1, <3>2 DEF Knowledge
        <3> QED BY <1>2, <1>3, <3>1, <3>3, SilentStep DEF outVars
    <2> QED BY <2>2, <2>3
<1>6. ASSUME NEW r \in Readings, PollReads(d, r)
      PROVE  PipeInv' /\ outbox' \in Seq(Messages) /\ sent' \in Knowledge
    <2>1. sent' = [sent EXCEPT ![d] = r] /\ dead' = dead
        BY <1>6 DEF PollReads, lifeVars
    <2>2. CASE d \notin Initialized
        <3>1. outbox' = <<Connected(d), Snapshot(d, r)>>
            BY <1>6, <2>2 DEF PollReads
        <3>2. sent[d] = "absent"
            BY <1>2, <2>2 DEF Initialized, KeyboardInv, Knowledge, Shown
        <3> QED BY <1>2, <1>3, <2>1, <3>1, <3>2, TwoMessages
    <2>3. CASE d \in Initialized /\ r # sent[d]
        <3>1. outbox' = <<Snapshot(d, r)>> /\ sent[d] \in Readings
            BY <1>6, <2>3 DEF PollReads, Initialized
        <3>2. /\ Snapshot(d, r) \in Messages /\ Snapshot(d, r).dev = d
              /\ Snapshot(d, r).type = "snapshot" /\ Told(Snapshot(d, r)) = r
            BY <1>2, MessageTypes
        <3>3. Allowed(Snapshot(d, r), sent[d])
            BY <3>1, <3>2, ReadingsAssumption DEF Allowed
        <3> QED BY <1>2, <1>3, <2>1, <3>1, <3>2, <3>3, OneMessage
    <2>4. CASE d \in Initialized /\ r = sent[d]
        <3>1. outbox' = outbox
            BY <1>2, <1>6, <2>4 DEF PollReads
        <3>2. sent' = sent
            BY <1>2, <2>1, <2>4 DEF Knowledge
        <3> QED BY <1>2, <1>3, <3>1, <3>2, SilentStep DEF outVars
    <2> QED BY <2>2, <2>3, <2>4
<1> QED BY <1>1, <1>4, <1>5, <1>6

\* The keyboard's messages: both at the start, then one for each change.
LEMMA KeyboardStep ==
    ASSUME TypeOK, KeyboardInv, PipeInv, InstallHook \/ Pump
    PROVE  PipeInv' /\ outbox' \in Seq(Messages) /\ sent' \in Knowledge
<1>1. sent \in Knowledge /\ outbox \in Seq(Messages) /\ Keyboard \in Devices
    BY DEF TypeOK, Knowledge, Devices
<1>2. outbox = <<>> /\ UNCHANGED <<queue, known, dead, admitted>>
    BY DEF InstallHook, Pump, Step, Turn, TurnEnds, loopFrame, lifeVars
<1>3. CASE InstallHook
    <2>1. PICK r \in Readings : /\ outbox' = <<Connected(Keyboard), Snapshot(Keyboard, r)>>
                                /\ sent' = [sent EXCEPT ![Keyboard] = r]
        BY <1>3 DEF InstallHook
    <2>2. sent[Keyboard] = "absent"
        BY <1>3 DEF InstallHook, Step, KeyboardInv
    <2> QED BY <1>1, <1>2, <2>1, <2>2, TwoMessages
<1>4. ASSUME Pump, NEW r \in Readings, outbox' = <<Snapshot(Keyboard, r)>>,
             sent' = [sent EXCEPT ![Keyboard] = r]
      PROVE  PipeInv' /\ outbox' \in Seq(Messages) /\ sent' \in Knowledge
    <2>1. sent[Keyboard] \in Readings
        BY <1>4 DEF Pump, Turn, TurnEnds, KeyboardInv, Hooked
    <2>2. /\ Snapshot(Keyboard, r) \in Messages /\ Snapshot(Keyboard, r).dev = Keyboard
          /\ Snapshot(Keyboard, r).type = "snapshot" /\ Told(Snapshot(Keyboard, r)) = r
        BY <1>1, MessageTypes
    <2>3. Allowed(Snapshot(Keyboard, r), sent[Keyboard])
        BY <2>1, <2>2, ReadingsAssumption DEF Allowed
    <2> QED BY <1>2, <1>4, <2>2, <2>3, OneMessage
<1>5. CASE UNCHANGED <<outVars, sent>>
    BY <1>1, <1>2, <1>5, SilentStep DEF outVars
<1> QED BY <1>3, <1>4, <1>5 DEF Pump

\* An enumeration, the first or a later one.
LEMMA ScanStep ==
    ASSUME TypeOK, KeyboardInv, PipeInv, FirstSync \/ Scan
    PROVE  PipeInv' /\ outbox' \in Seq(Messages) /\ sent' \in Knowledge
<1>1. outbox = <<>> /\ dead' = dead
    BY DEF FirstSync, Scan, KeyboardInv, lifeVars
<1>2. CASE \E there \in {"hook", "poll", "period"}, complete \in BOOLEAN : Syncs(there, complete)
    BY <1>1, <1>2, SyncStep DEF Syncs
<1>3. CASE UNCHANGED <<outVars, queue, deviceVars, known>>
    <2>1. UNCHANGED <<outVars, queue, known, sent>>
        BY <1>3 DEF deviceVars
    <2> QED BY <1>1, <2>1, SilentStep DEF TypeOK, Knowledge, outVars
<1> QED BY <1>2, <1>3 DEF FirstSync, Scan

\* The other steps say nothing.
Quiet ==
    \/ Open \/ Caller \/ ParentDone \/ CloseBegin \/ ReadBegin \/ ReadEnd \/ Rival
    \/ Initialize \/ HookFails \/ StartTimer \/ StopLoop \/ SetPeriodFails
    \/ Unhook \/ Deregister \/ Release \/ Exit
    \/ UNCHANGED vars

LEMMA QuietStep ==
    ASSUME Quiet
    PROVE  UNCHANGED <<queue, known, outVars, sent>> /\ (dead => dead')
BY DEF Quiet, Open, Caller, OpenReady, OpenGivesUp, OpenFails, CloseEnd, ParentDone, CloseBegin,
       ReadBegin, ReadEnd, Rival, Initialize, HookFails, StartTimer, StopLoop, SetPeriodFails,
       Unhook, Deregister, Release, Exit, Fail, StartError, Step, Turn,
       vars, callVars, lifeVars, processVars, deviceVars, loopFrame, leaveFrame

LEMMA NextIs ==
    ASSUME [Next]_vars
    PROVE  Quiet \/ EmitBegin \/ EmitSend \/ ReadMessage \/ PollOne \/ InstallHook \/ Pump \/ FirstSync \/ Scan
BY DEF Next, Reader, Thread, Quiet, Caller

LEMMA PipeStep == TypeOK /\ KeyboardInv /\ PipeInv /\ [Next]_vars => PipeInv'
<1> SUFFICES ASSUME TypeOK, KeyboardInv, PipeInv, [Next]_vars PROVE PipeInv'
    OBVIOUS
<1>1. CASE Quiet
    BY <1>1, QuietStep, SilentStep
<1> QED BY <1>1, NextIs, EmitBeginStep, EmitSendStep, ReadStep, PollStep, KeyboardStep, ScanStep

LEMMA PlaceStep == TypeOK /\ PlaceInv /\ [Next]_vars => PlaceInv'
<1> SUFFICES ASSUME TypeOK, PlaceInv, [Next]_vars PROVE PlaceInv'
    OBVIOUS
<1> USE DEF PlaceInv, Hooked
<1>1. CASE Open \/ Caller \/ ParentDone \/ CloseBegin \/ Reader
    BY <1>1 DEF Open, Caller, OpenReady, OpenGivesUp, OpenFails, CloseEnd, ParentDone, CloseBegin,
                Reader, ReadBegin, ReadMessage, ReadEnd, callVars, processVars, TypeOK
<1>2. CASE EmitBegin \/ EmitSend
    BY <1>2 DEF EmitBegin, EmitSend, callVars, processVars
<1>3. CASE PollOne
    BY <1>3 DEF PollOne, PollSkips, PollReads, PollFails, PollRejects, pollFrame, callVars, processVars
<1>4. CASE Initialize \/ HookFails \/ StartTimer
    BY <1>4 DEF Initialize, HookFails, StartTimer, StartError, processVars
<1>5. CASE FirstSync
    BY <1>5 DEF FirstSync, Syncs, Sync, StartError, processVars
<1>6. CASE Scan
    BY <1>6 DEF Scan, Syncs, Sync, callVars, processVars
<1>7. CASE InstallHook \/ StopLoop \/ Pump \/ SetPeriodFails
    BY <1>7 DEF InstallHook, StopLoop, Pump, SetPeriodFails, Step, Turn, TurnEnds, loopFrame, callVars, processVars
<1>8. CASE Unhook \/ Deregister \/ Release \/ Exit
    BY <1>8 DEF Unhook, Deregister, Release, Exit, Step, leaveFrame, callVars, processVars
<1>9. CASE Rival
    BY <1>9 DEF Rival, callVars, TypeOK
<1>10. CASE UNCHANGED vars
    BY <1>10 DEF vars, callVars, processVars
<1> QED BY <1>1, <1>2, <1>3, <1>4, <1>5, <1>6, <1>7, <1>8, <1>9, <1>10 DEF Next, Thread

LEMMA ShownStep ==
    ASSUME TypeOK, PlaceInv, KeyboardInv, [Next]_vars
    PROVE  KeyboardInv'
<1> USE DEF KeyboardInv, Hooked
<1>1. "announced" \notin Readings /\ "absent" \notin Readings /\ Keyboard \in Devices
      /\ Keyboard \notin Controllers
    BY ReadingsAssumption, DevicesAssumption DEF Devices
<1>2. CASE Quiet
    <2>1. UNCHANGED <<outbox, sent>>
        BY <1>2, QuietStep DEF outVars
    <2>2. \/ pc' = pc
          \/ pc = "none" /\ pc' = "init"
          \/ pc' \in {"unhook", "deregister", "release", "exit", "gone"}
          \/ pc = "init" /\ pc' = "firstSync"
          \/ pc = "firstPoll" /\ pc' = "poll"
        <3>1. CASE \/ Open \/ Caller \/ ParentDone \/ CloseBegin \/ ReadBegin \/ ReadEnd \/ Rival
                   \/ UNCHANGED vars
            BY <3>1 DEF PlaceInv, Open, Caller, OpenReady, OpenGivesUp, OpenFails, CloseEnd,
                        ParentDone, CloseBegin, ReadBegin, ReadEnd, Rival, vars
        <3>2. CASE Initialize \/ HookFails \/ StartTimer
            BY <3>2 DEF Initialize, HookFails, StartTimer, StartError
        <3>3. CASE StopLoop \/ SetPeriodFails \/ Unhook \/ Deregister \/ Release \/ Exit
            BY <3>3 DEF StopLoop, SetPeriodFails, Unhook, Deregister, Release, Exit, Step, Turn
        <3> QED BY <1>2, <3>1, <3>2, <3>3 DEF Quiet
    <2> QED BY <2>1, <2>2
<1>3. CASE EmitBegin \/ EmitSend \/ ReadMessage
    <2>1. UNCHANGED <<pc, sent>> /\ (outbox = <<>> => outbox' = <<>>)
        BY <1>3 DEF EmitBegin, EmitSend, ReadMessage, outVars, deviceVars, TypeOK
    <2> QED BY <2>1
<1>4. CASE PollOne
    <2>1. PICK d \in todo : \/ PollSkips(d) \/ PollFails(d) \/ PollRejects
                            \/ \E r \in Readings : PollReads(d, r)
        BY <1>4 DEF PollOne
    <2>2. d \in Controllers /\ d \in Devices /\ pc' = pc /\ pc \in {"firstPoll", "poll"}
        BY <1>4, <2>1 DEF PollOne, PollSkips, PollFails, PollRejects, PollReads, TypeOK, Devices
    <2>3. sent \in Knowledge /\ \E v \in Readings \cup {"absent", sent[d]} : sent' = [sent EXCEPT ![d] = v]
        <3>1. sent \in Knowledge /\ sent = [sent EXCEPT ![d] = sent[d]]
            BY <2>2 DEF TypeOK, Knowledge
        <3> QED BY <2>1, <3>1 DEF PollSkips, PollFails, PollRejects, PollReads
    <2> QED BY <1>1, <2>2, <2>3 DEF Knowledge
<1>5. CASE InstallHook
    BY <1>1, <1>5 DEF InstallHook, Step, TypeOK
<1>6. CASE Pump
    BY <1>1, <1>6 DEF Pump, Turn, TurnEnds, TypeOK
<1>7. ASSUME NEW fresh \in SUBSET Controllers, NEW same \in SUBSET (tracked \ fresh),
             NEW complete, NEW there, Sync(fresh, same, complete, there)
      PROVE  /\ sent'[Keyboard] = sent[Keyboard] /\ pc' = there
             /\ \A d \in Devices : sent'[d] # "announced"
    BY <1>1, <1>7 DEF Sync, TypeOK
<1>8. CASE FirstSync
    <2>1. CASE Syncs("hook", TRUE)
        <3>1. PICK fresh \in SUBSET Controllers : \E same \in SUBSET (tracked \ fresh) :
                  Sync(fresh, same, TRUE, "hook")
            BY <2>1 DEF Syncs
        <3>2. /\ sent'[Keyboard] = sent[Keyboard] /\ pc' = "hook"
              /\ \A d \in Devices : sent'[d] # "announced"
            BY <1>7, <3>1
        <3>3. sent[Keyboard] = "absent"
            BY <1>8 DEF FirstSync
        <3> QED BY <3>2, <3>3
    <2>2. CASE StartError("release") /\ UNCHANGED <<outVars, queue, deviceVars, known>>
        BY <1>8, <2>2 DEF StartError, deviceVars
    <2> QED BY <1>8, <2>1, <2>2 DEF FirstSync
<1>9. CASE Scan
    BY <1>7, <1>9 DEF Scan, Syncs
<1> QED BY <1>2, <1>3, <1>4, <1>5, <1>6, <1>8, <1>9, NextIs

LEMMA TypeInit == Init => TypeOK /\ PlaceInv /\ KeyboardInv /\ PipeInv
<1> SUFFICES ASSUME Init PROVE TypeOK /\ PlaceInv /\ KeyboardInv /\ PipeInv
    OBVIOUS
<1>1. "absent" \notin Readings /\ "absent" \in Shown /\ Keyboard \in Devices
    BY ReadingsAssumption DEF Shown, Devices
<1>2. <<>> \in Seq(Messages) /\ Len(<<>>) = 0 /\ <<>> \o <<>> = <<>>
    BY EmptySeq, ConcatEmptySeq
<1>3. Initialized = {}
    BY <1>1 DEF Init, Initialized, Devices
<1>4. TypeOK
    <2>1. outbox \in Seq(Messages) /\ queue \in Seq(Messages) /\ Len(queue) <= QueueCap
        BY <1>2, QueueAssumption DEF Init
    <2>2. sent \in [Devices -> Shown] /\ known \in [Devices -> Shown]
        BY <1>1 DEF Init
    <2> QED BY <1>3, <2>1, <2>2 DEF Init, TypeOK
<1>5. PlaceInv /\ KeyboardInv
    BY <1>1 DEF Init, PlaceInv, KeyboardInv, Hooked
<1>6. Legal(<<>>, known)
    BY <1>2 DEF Legal
<1>7. Leads(<<>>, known, sent)
    BY <1>2 DEF Leads, Holds, Init
<1>8. PipeInv
    BY <1>2, <1>6, <1>7 DEF Init, PipeInv
<1> QED BY <1>4, <1>5, <1>8

\* What the thread tracks.
Tracking == cooling \subseteq tracked /\ todo \subseteq tracked /\ tracked \subseteq Controllers
Covered == Initialized \subseteq tracked \/ pc \in {"exit", "gone"}

LEMMA TrackingStep ==
    ASSUME TypeOK, PlaceInv, [Next]_vars
    PROVE  Tracking' /\ Covered'
<1> USE DEF Tracking, Covered, Initialized
<1>1. Tracking /\ Covered /\ sent \in Knowledge
    BY DEF TypeOK, Knowledge
<1>2. CASE Open \/ Caller \/ ParentDone \/ CloseBegin \/ Reader \/ Rival \/ UNCHANGED vars
    <2>1. UNCHANGED <<tracked, cooling, todo, sent>>
        BY <1>2 DEF Open, Caller, OpenReady, OpenGivesUp, OpenFails, CloseEnd, ParentDone, CloseBegin,
                    Reader, ReadBegin, ReadMessage, ReadEnd, Rival, vars, deviceVars
    <2>2. pc \in {"exit", "gone"} => pc' \in {"exit", "gone"}
        BY <1>2 DEF PlaceInv, Open, Caller, OpenReady, OpenGivesUp, OpenFails, CloseEnd, ParentDone,
                    CloseBegin, Reader, ReadBegin, ReadMessage, ReadEnd, Rival, vars
    <2> QED BY <1>1, <2>1, <2>2
<1>3. CASE EmitBegin \/ EmitSend \/ Initialize \/ HookFails \/ StartTimer
    <2>1. UNCHANGED <<tracked, cooling, todo, sent>>
        BY <1>3 DEF EmitBegin, EmitSend, Initialize, HookFails, StartTimer, deviceVars
    <2>2. pc \in {"exit", "gone"} => pc' \in {"exit", "gone"}
        BY <1>3 DEF EmitBegin, EmitSend, Initialize, HookFails, StartTimer
    <2> QED BY <1>1, <2>1, <2>2
<1>4. CASE PollOne
    <2>1. PICK d \in todo : \/ PollSkips(d) \/ PollFails(d) \/ PollRejects
                            \/ \E r \in Readings : PollReads(d, r)
        BY <1>4 DEF PollOne
    <2>2. /\ UNCHANGED <<tracked, pc>> /\ todo' \subseteq todo /\ cooling' \subseteq cooling \cup {d}
          /\ pc \in {"firstPoll", "poll"}
        BY <1>4, <2>1 DEF PollOne, PollSkips, PollFails, PollRejects, PollReads, pollFrame
    <2>3. \A c \in Controllers \ {d} : sent'[c] = sent[c]
        BY <1>1, <2>1 DEF PollSkips, PollFails, PollRejects, PollReads, Knowledge, Devices
    <2> QED BY <1>1, <2>1, <2>2, <2>3
<1>5. CASE InstallHook
    <2>1. \A c \in Controllers : sent'[c] = sent[c]
        BY <1>1, <1>5, DevicesAssumption DEF InstallHook, Knowledge, Devices
    <2> QED BY <1>1, <1>5, <2>1 DEF InstallHook, Step
<1>6. CASE Pump
    <2>1. \A c \in Controllers : sent'[c] = sent[c]
        BY <1>1, <1>6, DevicesAssumption DEF Pump, Knowledge, Devices
    <2> QED BY <1>1, <1>6, <2>1 DEF Pump, Turn, TurnEnds, loopFrame
<1>7. CASE StopLoop \/ SetPeriodFails \/ Unhook \/ Deregister \/ Exit
    BY <1>1, <1>7 DEF StopLoop, SetPeriodFails, Unhook, Deregister, Exit, Step, Turn, TurnEnds,
                      loopFrame, leaveFrame, deviceVars
<1>8. CASE Release
    BY <1>8 DEF Release, Step
<1>9. ASSUME NEW fresh \in SUBSET Controllers, NEW same \in SUBSET (tracked \ fresh),
             NEW complete, NEW there, Sync(fresh, same, complete, there), pc \notin {"exit", "gone"}
      PROVE  Tracking' /\ Covered'
    <2> DEFINE gone == IF complete THEN tracked \ (fresh \cup same) ELSE {}
    <2>1. /\ tracked' = (tracked \ gone) \cup fresh /\ cooling' = cooling \ (gone \cup fresh)
          /\ todo' \subseteq tracked'
          /\ sent' = [d \in Devices |-> IF d \in gone \cup fresh THEN "absent" ELSE sent[d]]
        BY <1>9 DEF Sync
    <2> HIDE DEF gone
    <2>2. "absent" \notin Readings
        BY ReadingsAssumption
    <2>3. \A c \in Controllers : sent'[c] = IF c \in gone \cup fresh THEN "absent" ELSE sent[c]
        BY <2>1 DEF Devices
    <2> QED BY <1>1, <1>9, <2>1, <2>2, <2>3
<1>10. CASE FirstSync
    <2>1. CASE Syncs("hook", TRUE)
        BY <1>9, <1>10, <2>1 DEF Syncs, FirstSync
    <2>2. CASE StartError("release") /\ UNCHANGED <<outVars, queue, deviceVars, known>>
        BY <1>1, <1>10, <2>2 DEF FirstSync, StartError, deviceVars
    <2> QED BY <1>10, <2>1, <2>2 DEF FirstSync
<1>11. CASE Scan
    BY <1>9, <1>11 DEF Scan, Syncs
<1> QED BY <1>2, <1>3, <1>4, <1>5, <1>6, <1>7, <1>8, <1>10, <1>11 DEF Next, Thread

\* The finite parts of the state.
ControlType ==
    /\ opener \in {"idle", "waiting", "closing", "open", "failed"}
    /\ ready \in {"empty", "ok", "error"}
    /\ reader \in {"idle", "select", "ended"}
    /\ closer \in {"idle", "waiting", "closed"}
    /\ dead \in BOOLEAN /\ failed \in BOOLEAN /\ busy \in BOOLEAN /\ hooked \in BOOLEAN
    /\ active \in {"nobody", "self", "rival"}
    /\ pc \in {"none", "init", "firstSync", "hook", "firstPoll", "scan", "period",
               "poll", "unhook", "deregister", "release", "exit", "gone"}

LEMMA ControlStep == ControlType /\ [Next]_vars => ControlType'
<1> SUFFICES ASSUME ControlType, [Next]_vars PROVE ControlType'
    OBVIOUS
<1> USE DEF ControlType, callVars, lifeVars, processVars
<1>1. CASE Open \/ Caller \/ ParentDone \/ CloseBegin \/ Reader
    BY <1>1 DEF Open, Caller, OpenReady, OpenGivesUp, OpenFails, CloseEnd, ParentDone, CloseBegin,
                Reader, ReadBegin, ReadMessage, ReadEnd
<1>2. CASE EmitBegin \/ EmitSend
    BY <1>2 DEF EmitBegin, EmitSend, Fail
<1>3. CASE PollOne
    <2>1. UNCHANGED <<callVars, processVars, pc>>
        BY <1>3, Zenon DEF PollOne, PollSkips, PollReads, PollFails, PollRejects, pollFrame
    <2>2. CASE UNCHANGED lifeVars
        BY <2>1, <2>2
    <2>3. CASE Fail
        BY <2>1, <2>3 DEF Fail
    <2> QED BY <1>3, <2>2, <2>3, Zenon DEF PollOne, PollSkips, PollReads, PollFails, PollRejects
<1>4. CASE Initialize \/ HookFails \/ StartTimer
    BY <1>4 DEF Initialize, HookFails, StartTimer, StartError
<1>5. CASE FirstSync
    <2>1. UNCHANGED <<opener, reader, closer, dead, processVars>>
        BY <1>5, Zenon DEF FirstSync
    <2>2. \/ pc' = "hook" /\ UNCHANGED <<ready, failed>>
          \/ ready' = "error" /\ failed' = TRUE /\ pc' = "release"
        BY <1>5, Zenon DEF FirstSync, Syncs, Sync, StartError
    <2> QED BY <2>1, <2>2
<1>6. CASE Scan
    BY <1>6 DEF Scan, Syncs, Sync
<1>7. CASE InstallHook \/ StopLoop \/ Pump \/ SetPeriodFails
    <2>1. CASE InstallHook
        BY <1>7, <2>1 DEF InstallHook, Step
    <2>2. CASE StopLoop
        BY <1>7, <2>2 DEF StopLoop, Turn, TurnEnds, loopFrame
    <2>3. CASE Pump
        <3>1. UNCHANGED <<callVars, processVars, lifeVars>> /\ pc' \in {"scan", "poll"}
            BY <2>3, Zenon DEF Pump, Turn, loopFrame
        <3> QED BY <3>1
    <2>4. CASE SetPeriodFails
        BY <1>7, <2>4 DEF SetPeriodFails, Step, loopFrame, Fail
    <2> QED BY <1>7, <2>1, <2>2, <2>3, <2>4
<1>8. CASE Unhook \/ Deregister \/ Release \/ Exit
    BY <1>8 DEF Unhook, Deregister, Release, Exit, Step, leaveFrame
<1>9. CASE Rival
    <2>1. UNCHANGED <<callVars, lifeVars, hooked, pc>>
        BY <1>9, Zenon DEF Rival
    <2>2. busy' \in BOOLEAN /\ active' \in {"nobody", "self", "rival"}
        BY <1>9 DEF Rival
    <2> QED BY <2>1, <2>2
<1>10. CASE UNCHANGED vars
    BY <1>10 DEF vars
<1> QED BY <1>1, <1>2, <1>3, <1>4, <1>5, <1>6, <1>7, <1>8, <1>9, <1>10 DEF Next, Thread

\* The messages and what they say.
FlowType ==
    /\ outbox \in Seq(Messages) /\ queue \in Seq(Messages) /\ Len(queue) <= QueueCap
    /\ sent \in [Devices -> Shown] /\ known \in [Devices -> Shown]

LEMMA FlowStep ==
    ASSUME TypeOK, KeyboardInv, PipeInv, [Next]_vars
    PROVE  FlowType'
<1>1. FlowType /\ sent \in Knowledge /\ known \in Knowledge /\ QueueCap \in Nat
    BY QueueAssumption DEF TypeOK, FlowType, Knowledge
<1>2. CASE Quiet
    BY <1>1, <1>2, QuietStep DEF FlowType, outVars
<1>3. CASE EmitBegin \/ EmitSend
    <2>1. Head(outbox) \in Messages /\ outbox' \in Seq(Messages)
        <3>1. outbox # <<>> /\ outbox' \in {outbox, Tail(outbox)}
            BY <1>3 DEF EmitBegin, EmitSend, TypeOK
        <3> QED BY <1>1, <3>1, HeadTailProperties DEF FlowType
    <2>2. \/ queue' = queue
          \/ Len(queue) < QueueCap /\ queue' = Append(queue, Head(outbox))
        BY <1>3 DEF EmitBegin, EmitSend
    <2>3. queue' \in Seq(Messages) /\ Len(queue') <= QueueCap
        <3>1. CASE queue' = queue
            BY <1>1, <3>1 DEF FlowType
        <3>2. CASE Len(queue) < QueueCap /\ queue' = Append(queue, Head(outbox))
            <4>1. /\ queue' \in Seq(Messages) /\ Len(queue') = Len(queue) + 1
                  /\ Len(queue) \in Nat
                BY <1>1, <2>1, <3>2, AppendProperties, LenProperties DEF FlowType
            <4> QED BY <1>1, <3>2, <4>1
        <3> QED BY <2>2, <3>1, <3>2
    <2> QED BY <1>1, <1>3, <2>1, <2>3 DEF EmitBegin, EmitSend, FlowType, deviceVars
<1>4. CASE ReadMessage
    <2>1. queue' \in Seq(Messages) /\ Len(queue') = Len(queue) - 1 /\ Len(queue) \in Nat
        BY <1>1, <1>4, EmptyMessages, HeadTailProperties DEF ReadMessage, FlowType
    <2>2. Len(queue') <= QueueCap
        BY <1>1, <2>1 DEF FlowType
    <2>3. known' \in Knowledge
        BY <1>4, ReadStep
    <2> QED BY <1>1, <1>4, <2>1, <2>2, <2>3 DEF ReadMessage, FlowType, outVars, deviceVars, Knowledge
<1>5. CASE PollOne \/ InstallHook \/ Pump \/ FirstSync \/ Scan
    <2>1. outbox' \in Seq(Messages) /\ sent' \in Knowledge
        BY <1>5, PollStep, KeyboardStep, ScanStep
    <2>2. UNCHANGED <<queue, known>>
        BY <1>5 DEF PollOne, PollSkips, PollFails, PollRejects, PollReads, pollFrame,
                    InstallHook, Pump, loopFrame, FirstSync, Scan, Syncs, Sync
    <2> QED BY <1>1, <2>1, <2>2 DEF FlowType, Knowledge
<1> QED BY <1>2, <1>3, <1>4, <1>5, NextIs

\* What emit has admitted is at the head of the outbox.
Admission == admitted \in BOOLEAN /\ (admitted => outbox # <<>>)

LEMMA AdmissionStep ==
    ASSUME TypeOK, KeyboardInv, [Next]_vars
    PROVE  Admission'
<1> USE DEF Admission
<1>1. Admission
    BY DEF TypeOK
<1>2. CASE Quiet \/ ReadMessage
    BY <1>1, <1>2, QuietStep DEF ReadMessage, outVars
<1>3. CASE EmitBegin \/ EmitSend
    BY <1>3 DEF EmitBegin, EmitSend, TypeOK
<1>4. CASE PollOne \/ InstallHook \/ Pump \/ FirstSync \/ Scan
    <2>1. outbox = <<>>
        BY <1>4 DEF PollOne, InstallHook, Pump, FirstSync, Scan, Step, Turn, TurnEnds, KeyboardInv
    <2>2. admitted' = admitted
        BY <1>4 DEF PollOne, PollSkips, PollFails, PollRejects, PollReads, pollFrame, InstallHook,
                    Pump, loopFrame, FirstSync, Scan, Syncs, Sync, outVars
    <2> QED BY <1>1, <2>1, <2>2
<1> QED BY <1>2, <1>3, <1>4, NextIs

LEMMA TypeStep ==
    ASSUME TypeOK, PlaceInv, KeyboardInv, PipeInv, [Next]_vars
    PROVE  TypeOK'
<1>1. TypeOK <=> ControlType /\ FlowType /\ Admission /\ Tracking /\ Covered
    BY DEF TypeOK, ControlType, FlowType, Admission, Tracking, Covered
<1>2. TypeOK' <=> ControlType' /\ FlowType' /\ Admission' /\ Tracking' /\ Covered'
    BY DEF TypeOK, ControlType, FlowType, Admission, Tracking, Covered
<1> QED BY <1>1, <1>2, ControlStep, FlowStep, AdmissionStep, TrackingStep

LEMMA Invariant == Spec => []IInv
<1>1. Init => IInv
    BY TypeInit DEF IInv
<1>2. IInv /\ [Next]_vars => IInv'
    BY TypeStep, PlaceStep, ShownStep, PipeStep DEF IInv
<1> QED BY <1>1, <1>2, PTL DEF Spec

-----------------------------------------------------------------------------
(* Theorems.                                                               *)

\* Type correctness: the queue keeps within the capacity of its channel, and
\* what is polled or cooling down is a controller the thread still tracks.
THEOREM TypeCorrect == Spec => []TypeOK
<1>1. IInv => TypeOK
    BY DEF IInv
<1> QED BY <1>1, Invariant, PTL

\* At most one source of the process has a hook and gets its calls, whatever
\* step of the start fails and however Close overlaps with the next open.
THEOREM OneHookOnly == Spec => []SoleHook
<1>1. IInv => SoleHook
    <2> SUFFICES ASSUME IInv PROVE SoleHook
        OBVIOUS
    <2>1. pc \in {"none", "exit", "gone"} \cup {"init", "firstSync", "hook", "release"}
                    \cup {"deregister"} \cup Hooked
        BY DEF IInv, TypeOK, Hooked
    <2>2. active \in {"nobody", "self", "rival"}
        BY DEF IInv, TypeOK
    <2> QED BY <2>1, <2>2 DEF IInv, PlaceInv, SoleHook, Hooked
<1> QED BY <1>1, Invariant, PTL

\* A reader that has read everything knows what the thread has said of every
\* device, for any number of controllers and any capacity.
THEOREM NoMessageLost == Spec => []ReaderCatchesUp
<1>1. IInv => ReaderCatchesUp
    <2> SUFFICES ASSUME IInv, ~dead, queue = <<>>, outbox = <<>> PROVE known = sent
        BY DEF ReaderCatchesUp
    <2>1. <<>> \o <<>> = <<>>
        BY ConcatEmptySeq, EmptySeq
    <2>2. Leads(<<>>, known, sent)
        BY <2>1 DEF IInv, PipeInv
    <2> QED BY <2>2, NothingToRead DEF IInv, TypeOK, Knowledge
<1> QED BY <1>1, Invariant, PTL

-----------------------------------------------------------------------------
(* What is read keeps to the protocol.                                     *)

StageOf(v) == IF v \in Readings THEN "ready" ELSE v

LEMMA StageFacts ==
    ASSUME NEW v \in Shown
    PROVE  /\ v \notin Readings => StageOf(v) = v
           /\ v \in Readings => StageOf(v) = "ready" /\ v \notin {"absent", "announced"}
           /\ StageOf("absent") = "absent" /\ StageOf("announced") = "announced"
           /\ v = "absent" \/ v = "announced" \/ v \in Readings
BY ReadingsAssumption DEF StageOf, Shown

\* A message that is read is an announcement, a baseline, a withdrawal, or a
\* change, which the protocol does not see.
LEMMA ReadIsStep ==
    ASSUME TypeOK, PipeInv, ReadMessage
    PROVE  Protocol!ProtocolNext \/ UNCHANGED Protocol!protocolVars
<1> DEFINE stage == [x \in Devices |-> StageOf(known[x])]
<1>a. queue \in Seq(Messages) /\ queue # <<>> /\ known \in Knowledge
    BY DEF TypeOK, ReadMessage, Knowledge
<1>b. PICK m \in Messages : m = Head(queue)
    BY <1>a, HeadTailProperties
<1>c. PICK d \in Devices : d = m.dev
    BY MessageFacts
<1>1. known[d] \in Shown
    BY <1>a DEF Knowledge
<1>2. Allowed(m, known[d])
    BY <1>b, <1>c, ReadStep
<1>3. stage' = [stage EXCEPT ![d] = StageOf(Told(m))]
    <2>1. known' = [known EXCEPT ![d] = Told(m)]
        BY <1>b, <1>c DEF ReadMessage
    <2> QED BY <1>a, <2>1 DEF Knowledge
<1>4. stage[d] = StageOf(known[d]) /\ stage = [stage EXCEPT ![d] = stage[d]]
    OBVIOUS
<1>5. reader # "ended" /\ reader' # "ended"
    BY DEF ReadMessage
<1>6. m.type \in {"connected", "disconnected", "snapshot"}
    BY MessageFacts
<1>7. /\ stage = [x \in Devices |-> IF known[x] \in Readings THEN "ready" ELSE known[x]]
      /\ stage' = [x \in Devices |-> IF known'[x] \in Readings THEN "ready" ELSE known'[x]]
    BY DEF StageOf
<1> HIDE DEF stage
<1>8. CASE m.type = "connected"
    <2>1. StageOf(Told(m)) = "announced" /\ stage[d] = "absent"
        BY <1>1, <1>2, <1>4, <1>8, StageFacts DEF Allowed, Told
    <2>2. Protocol!Announce(d)
        BY <1>3, <1>5, <1>7, <2>1 DEF Protocol!Announce, Protocol!Shift
    <2> QED BY <1>1, <2>2 DEF Protocol!ProtocolNext
<1>9. CASE m.type = "disconnected"
    <2>1. StageOf(Told(m)) = "absent" /\ stage[d] = "ready"
        BY <1>1, <1>2, <1>4, <1>9, StageFacts DEF Allowed, Told
    <2>2. Protocol!Withdraw(d)
        BY <1>3, <1>5, <1>7, <2>1 DEF Protocol!Withdraw, Protocol!Shift
    <2> QED BY <1>1, <2>2 DEF Protocol!ProtocolNext
<1>10. CASE m.type = "snapshot"
    <2>1. StageOf(Told(m)) = "ready"
        BY <1>1, <1>10, MessageFacts DEF StageOf, Told
    <2>2. CASE known[d] = "announced"
        <3>1. stage[d] = "announced"
            BY <1>4, <2>2, StageFacts, <1>1
        <3>2. Protocol!Baseline(d)
            BY <1>3, <1>5, <1>7, <2>1, <3>1 DEF Protocol!Baseline, Protocol!Shift
        <3> QED BY <1>1, <3>2 DEF Protocol!ProtocolNext
    <2>3. CASE known[d] \in Readings
        <3>1. stage[d] = "ready"
            BY <1>1, <1>4, <2>3, StageFacts
        <3>2. stage' = stage
            BY <1>3, <1>4, <2>1, <3>1
        <3> QED BY <1>5, <1>7, <3>2 DEF Protocol!protocolVars
    <2> QED BY <1>1, <1>2, <1>10, <2>2, <2>3, StageFacts DEF Allowed
<1> QED BY <1>6, <1>8, <1>9, <1>10

\* Nothing else is seen by the reader.
LEMMA OthersUnread ==
    ASSUME [Next]_vars, ~ReadMessage, ~ReadEnd
    PROVE  UNCHANGED known /\ (reader' = "ended" <=> reader = "ended")
<1>1. CASE Quiet
    <2>1. UNCHANGED reader \/ (reader = "idle" /\ reader' = "select")
        <3>1. ASSUME Open \/ OpenReady \/ OpenGivesUp \/ OpenFails \/ CloseEnd \/ CloseBegin
              PROVE  UNCHANGED reader
            BY <3>1 DEF Open, OpenReady, OpenGivesUp, OpenFails, CloseEnd, CloseBegin
        <3>2. ASSUME ParentDone \/ Rival \/ StopLoop \/ SetPeriodFails PROVE UNCHANGED reader
            BY <3>2 DEF ParentDone, Rival, StopLoop, SetPeriodFails, loopFrame, callVars
        <3>3. ASSUME Initialize \/ HookFails \/ StartTimer PROVE UNCHANGED reader
            BY <3>3 DEF Initialize, HookFails, StartTimer
        <3>4. ASSUME Unhook \/ Deregister \/ Release \/ Exit \/ UNCHANGED vars
              PROVE  UNCHANGED reader
            BY <3>4 DEF Unhook, Deregister, Release, Exit, vars, leaveFrame, callVars
        <3>5. CASE ReadBegin
            BY <3>5 DEF ReadBegin
        <3> QED BY <1>1, <3>1, <3>2, <3>3, <3>4, <3>5 DEF Quiet, Caller
    <2> QED BY <1>1, <2>1, QuietStep
<1>2. CASE EmitBegin \/ EmitSend
    BY <1>2 DEF EmitBegin, EmitSend, callVars
<1>3. CASE PollOne
    BY <1>3 DEF PollOne, PollSkips, PollFails, PollRejects, PollReads, pollFrame, callVars
<1>4. CASE InstallHook \/ Pump
    BY <1>4 DEF InstallHook, Pump, loopFrame, callVars
<1>5. CASE FirstSync \/ Scan
    BY <1>5 DEF FirstSync, Scan, Syncs, Sync, callVars
<1> QED BY <1>1, <1>2, <1>3, <1>4, <1>5, NextIs

\* The source implements the protocol the manager relies on: the reader never
\* sees a change before its baseline, a device announced twice, one withdrawn
\* that was not shown, or anything at all after the end.
THEOREM SourceImplementsProtocol == Spec => ImplementsProtocol
<1>1. Init => Protocol!ProtocolInit
    BY ReadingsAssumption DEF Init, Protocol!ProtocolInit
<1>2. ASSUME TypeOK, PipeInv, [Next]_vars
      PROVE  [Protocol!ProtocolNext]_(Protocol!protocolVars)
    <2>1. CASE ReadMessage
        BY <1>2, <2>1, ReadIsStep
    <2>2. CASE ReadEnd
        BY <2>2 DEF ReadEnd, Protocol!ProtocolNext, Protocol!End
    <2>3. CASE ~ReadMessage /\ ~ReadEnd
        <3>1. UNCHANGED known /\ (reader' = "ended" <=> reader = "ended")
            BY <1>2, <2>3, OthersUnread
        <3> QED BY <3>1 DEF Protocol!protocolVars
    <2> QED BY <2>1, <2>2, <2>3
<1>3. IInv => TypeOK /\ PipeInv
    BY DEF IInv
<1> QED BY <1>1, <1>2, <1>3, Invariant, PTL DEF Spec, ImplementsProtocol, Protocol!ProtocolSpec
=============================================================================

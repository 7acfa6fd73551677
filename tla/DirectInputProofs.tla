------------------------- MODULE DirectInputProofs -------------------------
(***************************************************************************)
(* Proofs about DirectInputDevice, for any buttons, axes, positions and    *)
(* sizes of the buffer: the view catches up with the device, no button is  *)
(* left down, the stabilising rounds of a complete set-up are enough to    *)
(* keep phantom movements out, and the manager is told of the device as    *)
(* DeviceProtocol says.                                                    *)
(***************************************************************************)
EXTENDS DirectInputDevice, WellFoundedInduction, SequenceTheorems, TLAPS

-----------------------------------------------------------------------------
(* The inductive invariant.                                                *)

\* The thread is making its calls into the open device.
Asking == {"acquire", "poll", "state", "drain", "data"}
SettingUp == mode = "setup" /\ pc \in Asking

PlaceInv ==
    /\ mode \in {"setup", "tick", "recover"}
    /\ pc \in Asking \cup {"sync", "create", "sweep", "idle", "leave", "ended"}
    /\ pc \in Asking => open
    /\ pc = "create" => ~open /\ known
    /\ pc = "data" => mode = "tick"
    /\ pc = "acquire" => mode \in {"setup", "recover"}
    /\ open => known

\* What is pressed belongs to an open device the sink has in its list; nothing
\* is pressed before the set-up is over.
PressedInv ==
    /\ \A b \in pressed : b \in Buttons /\ view[b] = Down
    /\ pressed # {} => open /\ listed /\ ~SettingUp
    /\ open /\ pc \in {"sync", "idle"} => listed
    /\ pc \in Asking /\ mode # "setup" => listed

\* round counts the polls of the set-up: when the last one is made, the driver
\* has published every control, and the state read after it is real.
SteadyInv ==
    ~unsteady =>
        /\ ~phantom
        /\ SettingUp /\ pc = "acquire" => polls = 0 /\ round = 0
        /\ SettingUp /\ pc = "poll" => polls = round /\ round \in 0..2
        /\ SettingUp /\ pc \in {"state", "drain"} =>
               \/ round \in {0, 1} /\ polls = round + 1
               \/ round = 2 /\ polls = 2 /\ fresh = Controls
        /\ SettingUp /\ pc = "drain" /\ round = 2 => genuine = Axes
        /\ open /\ ~SettingUp => fresh = Controls /\ genuine = Axes

IInv == PlaceInv /\ PressedInv /\ SteadyInv

-----------------------------------------------------------------------------
(* One step per call.                                                      *)

\* What an emission does, given as facts about its outcome.
Emitted(real) ==
    /\ \A b \in pressed' : b \in Buttons /\ (view'[b] = Down \/ (b \in pressed /\ view'[b] = view[b]))
    /\ Axes \subseteq real => (phantom' => phantom \/ ~(Axes \subseteq genuine))
    /\ Axes \subseteq real => genuine \subseteq genuine' /\ genuine' \subseteq genuine \cup Axes
                              /\ {a \in Axes : view[a] # view'[a]} \subseteq genuine'

LEMMA StateEmitted ==
    ASSUME EmitChanges({}, Frame, fresh)
    PROVE  Emitted(fresh)
<1> DEFINE new == Frame
           changed == {c \in Controls : view[c] # new[c]}
           axes == changed \cap Axes
<1>1. /\ view' = new
      /\ pressed' = {b \in Buttons : IF b \in changed THEN new[b] = Down ELSE b \in pressed}
      /\ genuine' = (genuine \ axes) \cup (axes \cap fresh)
      /\ phantom' = (phantom \/ \E a \in axes : \/ a \notin fresh
                                               \/ (a \notin genuine /\ view[a] # NoState))
    BY DEF EmitChanges
<1> HIDE DEF new
<1> QED BY <1>1 DEF Emitted, Controls

LEMMA DataEmitted ==
    ASSUME EmitChanges(Moved(Taken), Replay(view, Taken), Controls)
    PROVE  Emitted(Controls)
<1> DEFINE new == Replay(view, Taken)
           moved == Moved(Taken)
           changed == moved \cup {c \in Controls : view[c] # new[c]}
           axes == changed \cap Axes
<1>1. /\ view' = new
      /\ pressed' = {b \in Buttons : IF b \in changed THEN new[b] = Down ELSE b \in pressed}
      /\ genuine' = (genuine \ axes) \cup (axes \cap Controls)
      /\ phantom' = (phantom \/ \E a \in axes : \/ a \notin Controls
                                               \/ (a \notin genuine /\ view[a] # NoState))
    BY DEF EmitChanges
<1> HIDE DEF new, moved
<1> QED BY <1>1 DEF Emitted, Controls

\* The steps that leave the thread, the view and the sink alone.
Idle ==
    Plug \/ Lose \/ (\E c \in Controls : Move(c)) \/ Cancel \/ UNCHANGED vars

LEMMA IdleStep ==
    ASSUME Idle
    PROVE  UNCHANGED <<fresh, polls, pc, mode, round, known, open, view, listed, pressed,
                       genuine, phantom, unsteady>>
BY DEF Idle, Plug, Lose, Move, Cancel, vars, driverVars, placeVars, lifeVars, sinkVars, historyVars

\* The steps that move the thread between its calls and tell the sink nothing.
Going ==
    \/ Enumerate \/ EnumerateFails \/ CreateFails \/ Acquire \/ AcquireFails \/ Poll \/ PollFails
    \/ ReadStateFails \/ Drain \/ ReadDataFails \/ Tick \/ Rescan \/ WindowGone \/ ContextDone

LEMMA GoingStep ==
    ASSUME IInv, Going
    PROVE  IInv'
<1> USE DEF IInv, PlaceInv, PressedInv, SteadyInv, SettingUp, Asking
<1>1. CASE Enumerate
    <2>1. /\ pc = "sync" /\ (known => known')
          /\ \/ pc' = "sweep"
             \/ pc' = "create" /\ ~open /\ known'
          /\ UNCHANGED <<fresh, polls, mode, round, open, view, listed, pressed, genuine,
                         phantom, unsteady>>
        BY <1>1, Zenon DEF Enumerate, driverVars, sinkVars, historyVars
    <2> QED BY <2>1
<1>8. CASE EnumerateFails \/ CreateFails
    BY <1>8 DEF EnumerateFails, CreateFails, driverVars, lifeVars, sinkVars, historyVars
<1>2. CASE Acquire
    BY <1>2 DEF Acquire, lifeVars, sinkVars, historyVars
<1>3. CASE GiveUp /\ pc \in {"acquire", "poll", "state"}
    BY <1>3 DEF GiveUp, driverVars, lifeVars, sinkVars
<1>4. CASE Recover /\ mode = "tick" /\ pc \in {"poll", "data"}
    BY <1>4 DEF Recover, driverVars, lifeVars, sinkVars, historyVars
<1>5. CASE Poll
    BY <1>5 DEF Poll, AfterPoll, Smaller, lifeVars, sinkVars, historyVars
<1>6. CASE Drain
    BY <1>6 DEF Drain, MoreRounds, lifeVars, sinkVars
<1>7. CASE Tick \/ Rescan \/ WindowGone \/ ContextDone
    BY <1>7 DEF Tick, Rescan, WindowGone, ContextDone, driverVars, lifeVars, sinkVars, historyVars
<1> QED BY <1>1, <1>2, <1>3, <1>4, <1>5, <1>6, <1>7, <1>8
           DEF Going, AcquireFails, PollFails, ReadStateFails, ReadDataFails

LEMMA CreateStep == IInv /\ Create => IInv'
<1> SUFFICES ASSUME IInv, Create PROVE IInv'
    OBVIOUS
<1>1. pressed' = {} /\ known'
    BY DEF Create, IInv, PressedInv, PlaceInv
<1>2. /\ pc' = "acquire" /\ mode' = "setup" /\ open' = TRUE /\ polls' = 0 /\ round' = 0
      /\ phantom' = FALSE /\ UNCHANGED listed
    BY DEF Create
<1> QED BY <1>1, <1>2 DEF IInv, PlaceInv, PressedInv, SteadyInv, SettingUp, Asking

LEMMA ReleaseStep == IInv /\ (Sweep \/ Leave) => IInv'
<1> SUFFICES ASSUME IInv, Sweep \/ Leave PROVE IInv'
    OBVIOUS
<1> USE DEF IInv, PlaceInv, PressedInv, SteadyInv, SettingUp, Asking
<1>1. CASE Sweep /\ known /\ ~seen
    BY <1>1 DEF Sweep, Release, historyVars
<1>2. CASE Sweep /\ ~(known /\ ~seen)
    BY <1>2 DEF Sweep, historyVars
<1>3. CASE Leave
    BY <1>3 DEF Leave, Release, historyVars
<1> QED BY <1>1, <1>2, <1>3

LEMMA ReadStateStep == IInv /\ ReadState => IInv'
<1> SUFFICES ASSUME IInv, ReadState PROVE IInv'
    OBVIOUS
<1>1. /\ pc = "state" /\ pc' = IF mode = "tick" THEN "idle" ELSE "drain"
      /\ UNCHANGED <<fresh, polls, mode, round, open, known, listed, unsteady>>
    BY DEF ReadState, driverVars, lifeVars
<1> USE DEF IInv, PlaceInv, PressedInv, SteadyInv, SettingUp, Asking
<1>2. CASE mode = "setup"
    <2>1. pressed' = pressed /\ phantom' = phantom /\ genuine' = Axes \cap fresh
        BY <1>2 DEF ReadState, SyncState
    <2> QED BY <1>1, <1>2, <2>1 DEF Controls
<1>3. CASE mode # "setup"
    <2>1. Emitted(fresh)
        BY <1>3, StateEmitted DEF ReadState
    <2>2. PlaceInv' /\ PressedInv'
        BY <1>1, <1>3, <2>1 DEF Emitted
    <2>3. SteadyInv'
        BY <1>1, <1>3, <2>1 DEF Emitted, Controls
    <2> QED BY <2>2, <2>3
<1> QED BY <1>2, <1>3

LEMMA ReadDataStep == IInv /\ ReadData => IInv'
<1> SUFFICES ASSUME IInv, ReadData PROVE IInv'
    OBVIOUS
<1>1. /\ pc = "data" /\ pc' \in {"state", "idle", "data"}
      /\ UNCHANGED <<fresh, polls, mode, round, open, known, listed, unsteady>>
    BY DEF ReadData, lifeVars, historyVars
<1>2. Emitted(Controls)
    BY DataEmitted DEF ReadData
<1> USE DEF IInv, PlaceInv, PressedInv, SteadyInv, SettingUp, Asking
<1>3. PlaceInv' /\ PressedInv'
    BY <1>1, <1>2 DEF Emitted
<1>4. SteadyInv'
    BY <1>1, <1>2 DEF Emitted, Controls
<1> QED BY <1>3, <1>4

LEMMA PublishStep == IInv /\ (\E c \in Controls : Publish(c)) => IInv'
<1> SUFFICES ASSUME IInv, NEW c \in Controls, Publish(c) PROVE IInv'
    OBVIOUS
<1>1. /\ fresh' = fresh \cup {c}
      /\ UNCHANGED <<polls, pc, mode, round, known, open, view, listed, pressed, genuine,
                     phantom, unsteady>>
    BY DEF Publish, placeVars, lifeVars, sinkVars
<1> QED BY <1>1 DEF IInv, PlaceInv, PressedInv, SteadyInv, SettingUp, Asking

\* After unplugging, the set-up counts for nothing any more.
LEMMA UnplugStep == IInv /\ Unplug => IInv'
<1> SUFFICES ASSUME IInv, Unplug PROVE IInv'
    OBVIOUS
<1>1. /\ unsteady' = (unsteady \/ open)
      /\ UNCHANGED <<pc, mode, round, known, open, view, listed, pressed, genuine, phantom>>
    BY DEF Unplug, placeVars, lifeVars, sinkVars
<1>2. PlaceInv' /\ PressedInv'
    BY <1>1 DEF IInv, PlaceInv, PressedInv, SettingUp
<1>3. SteadyInv'
    BY <1>1 DEF IInv, PlaceInv, SteadyInv, SettingUp
<1> QED BY <1>2, <1>3 DEF IInv

LEMMA Invariant == Spec => []IInv
<1>1. Init => IInv
    BY DEF Init, IInv, PlaceInv, PressedInv, SteadyInv, SettingUp, Asking
<1>2. IInv /\ [Next]_vars => IInv'
    <2> SUFFICES ASSUME IInv, [Next]_vars PROVE IInv'
        OBVIOUS
    <2>1. CASE Idle
        BY <2>1, IdleStep DEF IInv, PlaceInv, PressedInv, SteadyInv, SettingUp
    <2>2. \/ Idle \/ Going \/ Create \/ Sweep \/ Leave \/ ReadState \/ ReadData
          \/ Unplug \/ \E c \in Controls : Publish(c)
        BY DEF Next, Calls, Loop, Device, Idle, Going
    <2> QED BY <2>1, <2>2, GoingStep, CreateStep, ReleaseStep, ReadStateStep, ReadDataStep,
               UnplugStep, PublishStep
<1> QED BY <1>1, <1>2, PTL DEF Spec

-----------------------------------------------------------------------------
(* Theorems.                                                               *)

\* A button that was reported pressed is pressed in the view, from which every
\* release is derived, and a device leaves the list only with all of its
\* buttons released, however it was lost, set up again or swept.
THEOREM ButtonsAreLetGo == Spec => []NoButtonLeftDown
<1>1. IInv => NoButtonLeftDown
    BY DEF IInv, PressedInv, NoButtonLeftDown
<1> QED BY <1>1, Invariant, PTL

\* Two stabilising rounds are enough, for any device: unless a set-up was cut
\* short, or the device was unplugged since it was opened, no movement is
\* reported that nobody made.
THEOREM CompleteSetupKeepsPhantomsOut == Spec => []NoPhantomAfterSetup
<1>1. IInv => NoPhantomAfterSetup
    BY DEF IInv, SteadyInv, NoPhantomAfterSetup
<1> QED BY <1>1, Invariant, PTL
-----------------------------------------------------------------------------
(* The records of a control.                                               *)

Newest(c, records) == records[LastOf(c, records)][2]

LEMMA Least ==
    ASSUME NEW T \in SUBSET Nat, T # {}
    PROVE  \E x \in T : \A y \in T : x <= y
<1>1. PICK x \in T : \A y \in T : ~(<<y, x>> \in OpToRel(<, Nat))
    BY WFMin, NatLessThanWellFounded
<1>2. \A y \in T : ~(y < x)
    BY <1>1 DEF OpToRel
<1> QED BY <1>2

LEMMA Greatest ==
    ASSUME NEW n \in Nat, NEW T \in SUBSET (1..n), T # {}
    PROVE  \E x \in T : \A y \in T : y <= x
<1> DEFINE D == {m \in Nat : \E y \in T : m + y = n}
<1>1. D \in SUBSET Nat /\ D # {}
    <2>1. PICK y \in T : TRUE
        OBVIOUS
    <2>2. \E m \in Nat : m + y = n
        <3>1. y \in 1..n
            BY <2>1
        <3>2. \E m \in 0..n : m + y = n
            BY <3>1
        <3> QED BY <3>2
    <2> QED BY <2>1, <2>2
<1>2. PICK m \in D : \A k \in D : m <= k
    BY <1>1, Least
<1> QED BY <1>2

LEMMA LastIs ==
    ASSUME NEW S, NEW records \in Seq(S), NEW c, RecordsOf(c, records) # {}
    PROVE  /\ LastOf(c, records) \in RecordsOf(c, records)
           /\ \A j \in RecordsOf(c, records) : j <= LastOf(c, records)
<1>1. RecordsOf(c, records) \in SUBSET (1..Len(records)) /\ Len(records) \in Nat
    BY DEF RecordsOf
<1>2. \E i \in RecordsOf(c, records) : \A j \in RecordsOf(c, records) : j <= i
    BY <1>1, Greatest
<1> QED BY <1>2 DEF LastOf

\* The last record is the one no other comes after.
LEMMA LastOnly ==
    ASSUME NEW S, NEW records \in Seq(S), NEW c,
           NEW i \in RecordsOf(c, records), \A j \in RecordsOf(c, records) : j <= i
    PROVE  LastOf(c, records) = i /\ Newest(c, records) = records[i][2]
<1>1. LastOf(c, records) \in RecordsOf(c, records) /\ i <= LastOf(c, records)
    BY LastIs
<1>2. LastOf(c, records) <= i
    BY <1>1
<1>3. LastOf(c, records) \in Nat /\ i \in Nat
    BY <1>1 DEF RecordsOf
<1> QED BY <1>1, <1>2, <1>3 DEF Newest

LEMMA NewestRecord ==
    ASSUME NEW records \in Seq(Record), NEW c, RecordsOf(c, records) # {}
    PROVE  Newest(c, records) \in Values(c)
<1>1. LastOf(c, records) \in RecordsOf(c, records)
    BY LastIs
<1>2. records[LastOf(c, records)] \in Record /\ records[LastOf(c, records)][1] = c
    BY <1>1 DEF RecordsOf
<1> QED BY <1>2 DEF Newest, Record

\* A new record is the newest of its control, and leaves the others alone.
LEMMA RecordAppended ==
    ASSUME NEW S, NEW records \in Seq(S), NEW e \in S, NEW c, e[1] = c
    PROVE  LET new == Append(records, e)
           IN  /\ RecordsOf(c, new) # {} /\ Newest(c, new) = e[2]
               /\ \A d : d # c =>
                      /\ RecordsOf(d, new) = RecordsOf(d, records)
                      /\ RecordsOf(d, records) # {} => Newest(d, new) = Newest(d, records)
<1> DEFINE new == Append(records, e)
<1>1. /\ new \in Seq(S) /\ Len(new) = Len(records) + 1 /\ new[Len(records) + 1] = e
      /\ \A i \in 1..Len(records) : new[i] = records[i]
    BY AppendProperties
<1> HIDE DEF new
<1> DEFINE k == Len(records) + 1
<1>2. k \in RecordsOf(c, new) /\ \A j \in RecordsOf(c, new) : j <= k
    BY <1>1 DEF RecordsOf
<1>3. Newest(c, new) = e[2]
    <2>1. new[k] = e
        BY <1>1
    <2>2. new \in Seq(S) /\ k \in RecordsOf(c, new) /\ \A j \in RecordsOf(c, new) : j <= k
        BY <1>1, <1>2
    <2> HIDE DEF k
    <2>3. Newest(c, new) = new[k][2]
        BY <2>2, LastOnly
    <2> QED BY <2>1, <2>3
<1>4. ASSUME NEW d, d # c
      PROVE  /\ RecordsOf(d, new) = RecordsOf(d, records)
             /\ RecordsOf(d, records) # {} => Newest(d, new) = Newest(d, records)
    <2>1. RecordsOf(d, new) = RecordsOf(d, records)
        BY <1>1, <1>4 DEF RecordsOf
    <2>2. ASSUME RecordsOf(d, records) # {}
          PROVE  Newest(d, new) = Newest(d, records)
        <3> DEFINE i == LastOf(d, records)
        <3>1. i \in RecordsOf(d, records) /\ \A j \in RecordsOf(d, records) : j <= i
            BY <2>2, LastIs
        <3>2. Newest(d, records) = records[i][2]
            BY DEF Newest
        <3> HIDE DEF i
        <3>3. i \in RecordsOf(d, new) /\ \A j \in RecordsOf(d, new) : j <= i
            BY <2>1, <3>1
        <3>4. Newest(d, new) = new[i][2]
            BY <1>1, <3>3, LastOnly
        <3>5. new[i] = records[i]
            BY <1>1, <3>1 DEF RecordsOf
        <3> QED BY <3>2, <3>4, <3>5
    <2> QED BY <2>1, <2>2
<1> QED BY <1>2, <1>3, <1>4 DEF new

\* The first n records are taken, the others are left: what is left decides for
\* the controls it mentions, what was taken for the others.
LEMMA RecordsSplit ==
    ASSUME NEW S, NEW records \in Seq(S), NEW n \in 0..Len(records), NEW c
    PROVE  LET taken == SubSeq(records, 1, n)
               left == SubSeq(records, n + 1, Len(records))
           IN  /\ RecordsOf(c, left) # {} =>
                      RecordsOf(c, records) # {} /\ Newest(c, left) = Newest(c, records)
               /\ RecordsOf(c, left) = {} =>
                      /\ RecordsOf(c, taken) = RecordsOf(c, records)
                      /\ RecordsOf(c, records) # {} => Newest(c, taken) = Newest(c, records)
               /\ RecordsOf(c, records) = {} => RecordsOf(c, taken) = {}
<1> DEFINE taken == SubSeq(records, 1, n)
           left == SubSeq(records, n + 1, Len(records))
<1>1. /\ taken \in Seq(S) /\ Len(taken) = n /\ \A i \in 1..n : taken[i] = records[i]
    <2>1. \A i \in 1..n : records[i] \in S
        OBVIOUS
    <2> QED BY <2>1, SubSeqProperties
<1>2. /\ left \in Seq(S) /\ Len(left) = Len(records) - n
      /\ \A i \in 1..(Len(records) - n) : left[i] = records[i + n]
    <2>1. \A i \in (n + 1)..Len(records) : records[i] \in S
        OBVIOUS
    <2>2. n + 1 \in Int /\ Len(records) \in Int
        OBVIOUS
    <2>3. /\ left \in Seq(S)
          /\ Len(left) = IF n + 1 <= Len(records) THEN Len(records) - (n + 1) + 1 ELSE 0
          /\ \A i \in 1..(Len(records) - (n + 1) + 1) : left[i] = records[(n + 1) + i - 1]
        BY <2>1, <2>2, SubSeqProperties
    <2> HIDE DEF left
    <2> QED BY <2>3
<1> HIDE DEF taken, left
<1>3. \A i \in Nat : i \in RecordsOf(c, left) <=> i >= 1 /\ i + n \in RecordsOf(c, records)
    <2> SUFFICES ASSUME NEW i \in Nat
                 PROVE  i \in RecordsOf(c, left) <=> i >= 1 /\ i + n \in RecordsOf(c, records)
        OBVIOUS
    <2> DEFINE k == i + n
    <2>1. i \in 1..Len(left) <=> i >= 1 /\ k \in 1..Len(records)
        BY <1>2
    <2>2. i \in 1..Len(left) => left[i] = records[k]
        BY <1>2
    <2> HIDE DEF k
    <2>3. i \in RecordsOf(c, left) <=> i >= 1 /\ k \in RecordsOf(c, records)
        BY <1>2, <2>1, <2>2 DEF RecordsOf
    <2> QED BY <2>3 DEF k
<1>4. \A i \in Nat : i \in RecordsOf(c, taken) <=> i <= n /\ i \in RecordsOf(c, records)
    BY <1>1 DEF RecordsOf
<1>5. RecordsOf(c, records) \subseteq 1..Len(records)
    BY DEF RecordsOf
<1>6. ASSUME RecordsOf(c, left) # {}
      PROVE  RecordsOf(c, records) # {} /\ Newest(c, left) = Newest(c, records)
    <2> DEFINE i == LastOf(c, left)
    <2>1. i \in RecordsOf(c, left) /\ \A j \in RecordsOf(c, left) : j <= i
        BY <1>2, <1>6, LastIs
    <2>2. i \in 1..(Len(records) - n)
        BY <1>2, <2>1 DEF RecordsOf
    <2> HIDE DEF i
    <2>3. i + n \in RecordsOf(c, records)
        BY <1>3, <2>1, <2>2
    <2>4. \A j \in RecordsOf(c, records) : j <= i + n
        <3> SUFFICES ASSUME NEW j \in RecordsOf(c, records), j > n PROVE j <= i + n
            BY <1>5, <2>2
        <3>1. j \in Nat /\ j - n \in Nat /\ j - n >= 1 /\ (j - n) + n = j
            BY <1>5
        <3>2. j - n \in RecordsOf(c, left)
            BY <1>3, <3>1
        <3> QED BY <2>1, <2>2, <3>1, <3>2
    <2>5. Newest(c, records) = records[i + n][2]
        BY <2>3, <2>4, LastOnly
    <2>6. Newest(c, left) = left[i][2]
        BY DEF Newest, i
    <2> QED BY <1>2, <2>2, <2>3, <2>5, <2>6
<1>7. ASSUME RecordsOf(c, left) = {}
      PROVE  /\ RecordsOf(c, taken) = RecordsOf(c, records)
             /\ RecordsOf(c, records) # {} => Newest(c, taken) = Newest(c, records)
    <2>1. ASSUME NEW j \in RecordsOf(c, records) PROVE j <= n
        <3> SUFFICES ASSUME j > n PROVE FALSE
            BY <1>5
        <3>1. j \in Nat /\ j - n \in Nat /\ j - n >= 1 /\ (j - n) + n = j
            BY <1>5
        <3> QED BY <1>3, <1>7, <3>1
    <2>2. RecordsOf(c, taken) \subseteq Nat
        BY <1>1 DEF RecordsOf
    <2>3. RecordsOf(c, taken) = RecordsOf(c, records)
        <3>1. \A i \in Nat : i \in RecordsOf(c, taken) <=> i \in RecordsOf(c, records)
            BY <1>4, <2>1
        <3>2. RecordsOf(c, records) \subseteq Nat
            BY <1>5
        <3> QED BY <2>2, <3>1, <3>2
    <2>4. ASSUME RecordsOf(c, records) # {}
          PROVE  Newest(c, taken) = Newest(c, records)
        <3> DEFINE i == LastOf(c, taken)
        <3>1. i \in RecordsOf(c, taken) /\ \A j \in RecordsOf(c, taken) : j <= i
            BY <1>1, <2>3, <2>4, LastIs
        <3>2. i \in 1..n
            BY <1>1, <3>1 DEF RecordsOf
        <3> HIDE DEF i
        <3>3. Newest(c, records) = records[i][2]
            BY <2>3, <3>1, LastOnly
        <3>4. Newest(c, taken) = taken[i][2]
            BY DEF Newest, i
        <3> QED BY <1>1, <3>2, <3>3, <3>4
    <2> QED BY <2>3, <2>4
<1>8. RecordsOf(c, records) = {} => RecordsOf(c, taken) = {}
    <2>1. RecordsOf(c, taken) \subseteq Nat
        BY <1>1 DEF RecordsOf
    <2> QED BY <1>4, <2>1
<1> QED BY <1>6, <1>7, <1>8 DEF taken, left

-----------------------------------------------------------------------------
(* What the thread knows of the device.                                    *)

DataOK ==
    /\ phys \in [Controls -> Levels \cup {Up, Down}]
    /\ \A c \in Controls : phys[c] \in Values(c)
    /\ fresh \subseteq Controls /\ blind \subseteq Controls
    /\ buffer \in Seq(Record) /\ Len(buffer) <= BufferSize
    /\ view \in [Controls -> Levels \cup {Up, Down, Center, NoState}]

\* Only an open device is acquired, and only an acquired one has records.
AcquiredInv ==
    /\ acquired \in BOOLEAN /\ open \in BOOLEAN
    /\ acquired => open
    /\ ~acquired => buffer = <<>>
    /\ pc = "acquire" => ~acquired

\* The newest record of a control tells where it is; the driver reports
\* nothing of a control before its first real sample.
BufferInv ==
    /\ \A c \in Controls : RecordsOf(c, buffer) # {} => c \in fresh
    /\ \A c \in fresh \ blind : RecordsOf(c, buffer) # {} => Newest(c, buffer) = phys[c]

\* The state was read since the device was acquired.
Synced == mode # "tick" => pc \notin {"acquire", "poll", "state"}

\* What no record tells of, the view has.
Known ==
    /\ \A c \in fresh \ blind : RecordsOf(c, buffer) = {} => view[c] = phys[c]
    /\ \A c \in Controls \ fresh : view[c] = Default[c]

SeenInv == acquired /\ Synced => Known

ViewInv == DataOK /\ AcquiredInv /\ BufferInv /\ SeenInv

LEMMA NoRecords == \A c : RecordsOf(c, <<>>) = {}
BY DEF RecordsOf

LEMMA ReplayIs ==
    ASSUME NEW state, NEW records, NEW c \in Controls
    PROVE  Replay(state, records)[c] =
               IF RecordsOf(c, records) = {} THEN state[c] ELSE Newest(c, records)
BY DEF Replay, Newest

LEMMA ReplayView ==
    ASSUME DataOK, NEW records \in Seq(Record)
    PROVE  Replay(view, records) \in [Controls -> Levels \cup {Up, Down, Center, NoState}]
<1>1. \A c \in Controls : Replay(view, records)[c] \in Levels \cup {Up, Down, Center, NoState}
    BY ReplayIs, NewestRecord DEF DataOK, Values
<1>2. Replay(view, records) = [c \in Controls |-> Replay(view, records)[c]]
    BY DEF Replay
<1> QED BY <1>1, <1>2

LEMMA FrameView ==
    ASSUME DataOK
    PROVE  Frame \in [Controls -> Levels \cup {Up, Down, Center, NoState}]
BY DEF Frame, DataOK, Default

LEMMA TakenAndLeft ==
    ASSUME DataOK
    PROVE  /\ Len(Taken) \in 0..Len(buffer) /\ Taken = SubSeq(buffer, 1, Len(Taken))
           /\ Taken \in Seq(Record)
           /\ Left \in Seq(Record) /\ Len(Left) <= BufferSize
           /\ buffer = <<>> => Left = <<>>
<1> DEFINE n == Smaller(Batch, Len(buffer))
<1>1. buffer \in Seq(Record) /\ Len(buffer) <= BufferSize /\ BufferSize \in Nat
    BY BufferAssumption DEF DataOK
<1>2. n \in 0..Len(buffer)
    BY <1>1, BufferAssumption DEF Smaller
<1>3. \A i \in 1..Len(buffer) : buffer[i] \in Record
    BY <1>1
<1> HIDE DEF n
<1>4. SubSeq(buffer, 1, n) \in Seq(Record) /\ Len(SubSeq(buffer, 1, n)) = n
    BY <1>1, <1>2, <1>3, SubSeqProperties
<1>5. Taken = SubSeq(buffer, 1, n)
    BY DEF Taken, n
<1>6. Left = SubSeq(buffer, n + 1, Len(buffer))
    BY <1>4, <1>5 DEF Left
<1>7. /\ SubSeq(buffer, n + 1, Len(buffer)) \in Seq(Record)
      /\ Len(SubSeq(buffer, n + 1, Len(buffer))) <= Len(buffer)
    BY <1>1, <1>2, <1>3, SubSeqProperties
<1>8. buffer = <<>> => Left = <<>>
    <2> SUFFICES ASSUME buffer = <<>> PROVE Left = <<>>
        OBVIOUS
    <2>1. Len(buffer) = 0 /\ n = 0
        BY <1>2
    <2> QED BY <1>6, <2>1, SubSeqEmpty
<1> QED BY <1>1, <1>2, <1>4, <1>5, <1>6, <1>7, <1>8

\* A change that enters the buffer is its newest, a record that is pushed out
\* leaves its control blind unless a newer one waits.
LEMMA BufferedDoes ==
    ASSUME DataOK, NEW c \in Controls, NEW v \in Values(c), v \in Levels \cup {Up, Down},
           Buffered(c, v)
    PROVE  /\ buffer' \in Seq(Record) /\ Len(buffer') <= BufferSize /\ blind' \subseteq Controls
           /\ c \notin blind' => RecordsOf(c, buffer') # {} /\ Newest(c, buffer') = v
           /\ \A d : RecordsOf(d, buffer') # {} => d = c \/ RecordsOf(d, buffer) # {}
           /\ \A d \in Controls \ ({c} \cup blind') :
                  /\ d \notin blind
                  /\ RecordsOf(d, buffer') = {} <=> RecordsOf(d, buffer) = {}
                  /\ RecordsOf(d, buffer') # {} => Newest(d, buffer') = Newest(d, buffer)
<1> DEFINE e == <<c, v>>
<1>1. e \in Record /\ e[1] = c /\ e[2] = v
    BY DEF Record
<1>2. buffer \in Seq(Record) /\ Len(buffer) <= BufferSize /\ BufferSize \in Nat \ {0}
    BY BufferAssumption DEF DataOK
<1> HIDE DEF e
<1>3. CASE Len(buffer) < BufferSize
    <2>1. buffer' = Append(buffer, e) /\ blind' = blind \ {c}
        BY <1>3 DEF Buffered, e
    <2>2. buffer' \in Seq(Record) /\ Len(buffer') = Len(buffer) + 1
        BY <1>1, <1>2, <2>1
    <2>3. /\ RecordsOf(c, buffer') # {} /\ Newest(c, buffer') = v
          /\ \A d : d # c => /\ RecordsOf(d, buffer') = RecordsOf(d, buffer)
                             /\ RecordsOf(d, buffer) # {} => Newest(d, buffer') = Newest(d, buffer)
        BY <1>1, <1>2, <2>1, RecordAppended
    <2> QED BY <1>2, <1>3, <2>1, <2>2, <2>3 DEF DataOK
<1>4. CASE ~(Len(buffer) < BufferSize) /\ buffer' = buffer /\ blind' = blind \cup {c}
    BY <1>4 DEF DataOK
<1>5. CASE /\ ~(Len(buffer) < BufferSize)
           /\ buffer' = Append(Tail(buffer), e)
           /\ blind' = (blind \ {c}) \cup {d \in Controls : d = Head(buffer)[1] /\ RecordsOf(d, buffer') = {}}
    <2> DEFINE mid == Tail(buffer)
               head == SubSeq(buffer, 1, 1)
    <2>1. Len(buffer) >= 1 /\ buffer # <<>>
        BY <1>2, <1>5
    <2>2. mid \in Seq(Record) /\ Len(mid) = Len(buffer) - 1
        BY <1>2, <2>1, HeadTailProperties
    <2>3. mid = SubSeq(buffer, 1 + 1, Len(buffer))
        BY <1>2, <2>1, TailIsSubSeq
    <2>4. buffer' \in Seq(Record) /\ Len(buffer') = Len(buffer)
        BY <1>1, <1>2, <1>5, <2>2
    <2>5. /\ RecordsOf(c, buffer') # {} /\ Newest(c, buffer') = v
          /\ \A d : d # c => /\ RecordsOf(d, buffer') = RecordsOf(d, mid)
                             /\ RecordsOf(d, mid) # {} => Newest(d, buffer') = Newest(d, mid)
        <3> HIDE DEF mid
        <3>1. buffer' = Append(mid, e)
            BY <1>5 DEF mid
        <3> QED BY <1>1, <2>2, <3>1, RecordAppended
    <2>6. \A d : /\ RecordsOf(d, mid) # {} =>
                       RecordsOf(d, buffer) # {} /\ Newest(d, mid) = Newest(d, buffer)
                 /\ RecordsOf(d, mid) = {} => RecordsOf(d, head) = RecordsOf(d, buffer)
        <3> SUFFICES ASSUME NEW d
                     PROVE  /\ RecordsOf(d, mid) # {} =>
                                   RecordsOf(d, buffer) # {} /\ Newest(d, mid) = Newest(d, buffer)
                            /\ RecordsOf(d, mid) = {} => RecordsOf(d, head) = RecordsOf(d, buffer)
            OBVIOUS
        <3>1. 1 \in 0..Len(buffer)
            BY <1>2, <2>1
        <3> QED BY <1>2, <2>3, <3>1, RecordsSplit
    <2>7. \A d : RecordsOf(d, head) # {} => d = Head(buffer)[1]
        <3>1. Len(head) = 1 /\ head[1] = buffer[1]
            BY <1>2, <2>1, SubSeqProperties
        <3>2. Head(buffer) = buffer[1]
            BY <1>2, <2>1
        <3> QED BY <3>1, <3>2 DEF RecordsOf
    <2> HIDE DEF mid, head
    <2>8. \A d \in Controls \ ({c} \cup blind') : RecordsOf(d, mid) = {} => RecordsOf(d, buffer) = {}
        BY <1>5, <2>5, <2>6, <2>7
    <2> QED BY <1>2, <1>5, <2>4, <2>5, <2>6, <2>8 DEF DataOK
<1> QED BY <1>3, <1>4, <1>5 DEF Buffered, e

\* The steps that touch neither the device nor what the thread knows of it.
Still ==
    \/ Plug \/ Cancel \/ UNCHANGED vars
    \/ Enumerate \/ EnumerateFails \/ CreateFails \/ AcquireFails \/ Poll \/ PollFails
    \/ ReadStateFails \/ ReadDataFails \/ Tick \/ Rescan \/ WindowGone \/ ContextDone
    \/ Sweep /\ ~(known /\ ~seen)

LEMMA StillDoes ==
    ASSUME PlaceInv, AcquiredInv, Still
    PROVE  /\ UNCHANGED <<phys, fresh, acquired, buffer, open, view, blind>>
           /\ pc' = "acquire" => ~acquired
           /\ acquired /\ Synced' => Synced
<1> USE DEF driverVars, placeVars, lifeVars, sinkVars, historyVars, Synced
<1>1. CASE Plug \/ Cancel \/ UNCHANGED vars
    BY <1>1 DEF AcquiredInv, Plug, Cancel, vars
<1>2. CASE Enumerate
    <2>1. /\ pc = "sync" /\ pc' \in {"create", "sweep"}
          /\ UNCHANGED <<driverVars, mode, open, view, historyVars>>
        BY <1>2, Zenon DEF Enumerate
    <2> QED BY <2>1
<1>3. CASE EnumerateFails \/ CreateFails
    BY <1>3 DEF EnumerateFails, CreateFails
<1>4. CASE AcquireFails \/ ReadStateFails \/ (PollFails /\ mode # "tick")
    BY <1>4 DEF AcquireFails, ReadStateFails, PollFails, GiveUp
<1>5. CASE ReadDataFails \/ (PollFails /\ mode = "tick")
    BY <1>5 DEF ReadDataFails, PollFails, Recover
<1>6. CASE Poll
    BY <1>6 DEF Poll, AfterPoll
<1>7. CASE Tick \/ Rescan \/ WindowGone \/ ContextDone
    BY <1>7 DEF Tick, Rescan, WindowGone, ContextDone
<1>8. CASE Sweep /\ ~(known /\ ~seen)
    BY <1>8 DEF Sweep
<1> QED BY <1>1, <1>2, <1>3, <1>4, <1>5, <1>6, <1>7, <1>8 DEF Still

LEMMA StillStep == PlaceInv /\ ViewInv /\ Still => ViewInv'
<1> SUFFICES ASSUME PlaceInv, ViewInv, Still PROVE ViewInv'
    OBVIOUS
<1>1. /\ UNCHANGED <<phys, fresh, acquired, buffer, open, view, blind>>
      /\ pc' = "acquire" => ~acquired
      /\ acquired /\ Synced' => Synced
    BY StillDoes DEF ViewInv
<1>2. DataOK' /\ AcquiredInv' /\ BufferInv' /\ (Known => Known')
    BY <1>1 DEF ViewInv, DataOK, AcquiredInv, BufferInv, Known
<1> QED BY <1>1, <1>2 DEF ViewInv, SeenInv

\* A device that is not acquired has no records and nothing is known of it.
LEMMA NotAcquired ==
    ASSUME DataOK', ~acquired', acquired' \in BOOLEAN, open' \in BOOLEAN, buffer' = <<>>
    PROVE  ViewInv'
<1>1. AcquiredInv' /\ SeenInv'
    BY DEF AcquiredInv, SeenInv
<1>2. \A c : RecordsOf(c, buffer') = {}
    BY NoRecords
<1> QED BY <1>1, <1>2 DEF ViewInv, BufferInv

LEMMA LoseStep ==
    ASSUME ViewInv, Lose \/ Unplug \/ Create \/ Leave \/ (Sweep /\ known /\ ~seen), PlaceInv
    PROVE  ViewInv'
<1> USE DEF ViewInv, DataOK, AcquiredInv, PlaceInv
<1>0. <<>> \in Seq(Record) /\ Len(<<>>) <= BufferSize
    BY BufferAssumption
<1>1. CASE Lose
    <2>1. acquired' = FALSE /\ buffer' = <<>> /\ UNCHANGED <<phys, fresh, view, blind, open>>
        BY <1>1 DEF Lose, lifeVars, historyVars
    <2> QED BY <1>0, <2>1, NotAcquired
<1>4. CASE Unplug
    <2>1. /\ acquired' = FALSE /\ buffer' = <<>> /\ fresh' = {}
          /\ UNCHANGED <<phys, view, blind, open>>
        BY <1>4 DEF Unplug, lifeVars
    <2> QED BY <1>0, <2>1, NotAcquired
<1>2. CASE Create
    <2>1. ~acquired /\ buffer = <<>>
        BY <1>2 DEF Create
    <2>2. acquired' = FALSE /\ buffer' = <<>> /\ fresh' = {} /\ open' = TRUE
          /\ UNCHANGED <<phys, blind>>
        BY <1>2, <2>1 DEF Create, historyVars
    <2>3. view' \in [Controls -> Levels \cup {Up, Down, Center, NoState}]
        BY <1>2 DEF Create
    <2> QED BY <1>0, <2>2, <2>3, NotAcquired
<1>3. CASE Leave \/ (Sweep /\ known /\ ~seen)
    <2>1. Release /\ UNCHANGED <<phys, fresh, blind>>
        BY <1>3 DEF Leave, Sweep, historyVars
    <2>2. acquired' = FALSE /\ buffer' = <<>> /\ open' = FALSE
        BY <2>1 DEF Release
    <2>3. view' \in [Controls -> Levels \cup {Up, Down, Center, NoState}]
        BY <2>1 DEF Release
    <2> QED BY <1>0, <2>1, <2>2, <2>3, NotAcquired
<1> QED BY <1>1, <1>2, <1>3, <1>4

LEMMA AcquireStep ==
    ASSUME PlaceInv, ViewInv, Acquire
    PROVE  ViewInv'
<1>1. /\ acquired' = TRUE /\ pc' = "poll" /\ mode' # "tick"
      /\ UNCHANGED <<phys, fresh, buffer, open, view, blind>>
    BY DEF Acquire, PlaceInv, lifeVars, historyVars
<1>2. open /\ pc = "acquire"
    BY DEF Acquire, PlaceInv, Asking
<1> QED BY <1>1, <1>2 DEF ViewInv, DataOK, AcquiredInv, BufferInv, SeenInv, Synced

\* A control moves, or the driver publishes it for the first time.
LEMMA MoveStep ==
    ASSUME ViewInv, NEW c \in Controls, Move(c) \/ Publish(c)
    PROVE  ViewInv'
<1> USE DEF ViewInv
<1>1. UNCHANGED <<acquired, open, view, pc, mode>>
    BY DEF Move, Publish, placeVars, lifeVars
<1>2. /\ fresh' \in {fresh, fresh \cup {c}}
      /\ phys' \in [Controls -> Levels \cup {Up, Down}] /\ phys'[c] \in Values(c)
      /\ \A d \in Controls \ {c} : phys'[d] = phys[d]
    <2>1. CASE Move(c)
        BY <2>1 DEF Move, DataOK, Values
    <2>2. CASE Publish(c)
        BY <2>2 DEF Publish, DataOK
    <2> QED BY <2>1, <2>2
<1>3. CASE Buffered(c, phys'[c]) /\ acquired /\ c \in fresh'
    <2>1. phys'[c] \in Levels \cup {Up, Down}
        BY <1>2
    <2>2. /\ buffer' \in Seq(Record) /\ Len(buffer') <= BufferSize /\ blind' \subseteq Controls
          /\ c \notin blind' => RecordsOf(c, buffer') # {} /\ Newest(c, buffer') = phys'[c]
          /\ \A d : RecordsOf(d, buffer') # {} => d = c \/ RecordsOf(d, buffer) # {}
          /\ \A d \in Controls \ ({c} \cup blind') :
                  /\ d \notin blind
                  /\ RecordsOf(d, buffer') = {} <=> RecordsOf(d, buffer) = {}
                  /\ RecordsOf(d, buffer') # {} => Newest(d, buffer') = Newest(d, buffer)
        BY <1>2, <1>3, <2>1, BufferedDoes
    <2>3. DataOK' /\ AcquiredInv'
        BY <1>1, <1>2, <1>3, <2>2 DEF DataOK, AcquiredInv
    <2>4. BufferInv'
        BY <1>2, <1>3, <2>2 DEF BufferInv, DataOK
    <2>5. SeenInv'
        BY <1>1, <1>2, <1>3, <2>2 DEF SeenInv, Synced, Known, DataOK
    <2> QED BY <2>3, <2>4, <2>5
<1>4. CASE /\ UNCHANGED <<buffer, blind>>
           /\ c \notin fresh' \/ ~acquired \/ (c \notin fresh /\ phys'[c] = Default[c])
    <2>1. DataOK' /\ AcquiredInv'
        BY <1>1, <1>2, <1>4 DEF DataOK, AcquiredInv
    <2>2. ~acquired => \A d : RecordsOf(d, buffer) = {}
        BY NoRecords DEF AcquiredInv
    <2>3. BufferInv'
        BY <1>2, <1>4, <2>2 DEF BufferInv, DataOK
    <2>4. SeenInv'
        BY <1>1, <1>2, <1>4 DEF SeenInv, Synced, Known, DataOK
    <2> QED BY <2>1, <2>3, <2>4
<1>5. CASE Move(c)
    <2>1. PICK v \in Values(c) : /\ phys' = [phys EXCEPT ![c] = v] /\ fresh' = fresh
                                 /\ IF acquired /\ c \in fresh THEN Buffered(c, v)
                                    ELSE UNCHANGED <<buffer, spilled, blind>>
        BY <1>5 DEF Move
    <2>2. phys'[c] = v
        BY <2>1 DEF DataOK
    <2> QED BY <1>3, <1>4, <2>1, <2>2
<1>6. CASE Publish(c)
    BY <1>3, <1>4, <1>6 DEF Publish
<1> QED BY <1>5, <1>6

LEMMA ReadStateView ==
    ASSUME ViewInv, ReadState
    PROVE  ViewInv'
<1> USE DEF ViewInv
<1>1. /\ acquired /\ pc' # "acquire" /\ UNCHANGED <<phys, fresh, acquired, buffer, open>>
      /\ blind' = {c \in blind : RecordsOf(c, buffer) # {}}
    BY DEF ReadState, driverVars, lifeVars
<1>2. view' = Frame
    BY DEF ReadState, SyncState, EmitChanges
<1>3. \A c \in Controls : Frame[c] = IF c \in fresh THEN phys[c] ELSE Default[c]
    BY DEF Frame
<1>4. DataOK' /\ AcquiredInv'
    BY <1>1, <1>2, FrameView DEF DataOK, AcquiredInv
<1>5. BufferInv'
    BY <1>1 DEF BufferInv
<1>6. Known'
    BY <1>1, <1>2, <1>3 DEF Known, DataOK
<1> QED BY <1>4, <1>5, <1>6 DEF SeenInv

\* Records are taken from the buffer; what is left is judged as before.
LEMMA TakeStep ==
    ASSUME ViewInv, NEW c \in Controls
    PROVE  /\ RecordsOf(c, Left) # {} => RecordsOf(c, buffer) # {} /\ Newest(c, Left) = Newest(c, buffer)
           /\ RecordsOf(c, Left) = {} =>
                  /\ RecordsOf(c, Taken) = RecordsOf(c, buffer)
                  /\ RecordsOf(c, buffer) # {} => Newest(c, Taken) = Newest(c, buffer)
<1>1. buffer \in Seq(Record) /\ Len(Taken) \in 0..Len(buffer) /\ Taken = SubSeq(buffer, 1, Len(Taken))
    BY TakenAndLeft DEF ViewInv, DataOK
<1>2. Left = SubSeq(buffer, Len(Taken) + 1, Len(buffer))
    BY DEF Left
<1> DEFINE n == Len(Taken)
<1> HIDE DEF n
<1>3. n \in 0..Len(buffer) /\ Taken = SubSeq(buffer, 1, n) /\ Left = SubSeq(buffer, n + 1, Len(buffer))
    BY <1>1, <1>2 DEF n
<1> QED BY <1>1, <1>3, RecordsSplit

LEMMA DrainView ==
    ASSUME ViewInv, Drain
    PROVE  ViewInv'
<1> USE DEF ViewInv
<1>1. /\ pc = "drain" /\ buffer' = Left /\ pc' # "acquire"
      /\ blind' = blind \cup {c \in fresh : /\ RecordsOf(c, Taken) # {}
                                            /\ Replay(view, Left)[c] # phys[c]}
      /\ UNCHANGED <<phys, fresh, acquired, open, view>>
    BY DEF Drain, lifeVars
<1>2. DataOK' /\ AcquiredInv'
    BY <1>1, TakenAndLeft DEF DataOK, AcquiredInv
<1>3. BufferInv'
    BY <1>1, TakeStep DEF BufferInv, DataOK
<1>4. acquired => Known
    BY <1>1 DEF SeenInv, Synced
<1>5. Known => Known'
    <2> SUFFICES ASSUME Known, NEW c \in fresh \ blind', RecordsOf(c, Left) = {}
                 PROVE  view[c] = phys[c]
        BY <1>1 DEF Known
    <2>1. c \in Controls
        BY DEF DataOK
    <2>2. CASE RecordsOf(c, Taken) = {}
        BY <1>1, <2>1, <2>2, TakeStep DEF Known
    <2>3. CASE RecordsOf(c, Taken) # {}
        <3>1. Replay(view, Left)[c] = phys[c]
            BY <1>1, <2>3
        <3> QED BY <2>1, <3>1, ReplayIs
    <2> QED BY <2>2, <2>3
<1> QED BY <1>1, <1>2, <1>3, <1>4, <1>5 DEF SeenInv

LEMMA ReadDataView ==
    ASSUME PlaceInv, ViewInv, ReadData
    PROVE  ViewInv'
<1> USE DEF ViewInv
<1>1. /\ pc = "data" /\ acquired /\ buffer' = Left /\ pc' # "acquire"
      /\ UNCHANGED <<phys, fresh, acquired, open, blind>>
    BY DEF ReadData, lifeVars, historyVars
<1>2. view' = Replay(view, Taken)
    BY DEF ReadData, EmitChanges
<1>3. DataOK' /\ AcquiredInv'
    BY <1>1, <1>2, TakenAndLeft, ReplayView DEF DataOK, AcquiredInv
<1>4. BufferInv'
    BY <1>1, TakeStep DEF BufferInv, DataOK
<1>5. Known
    BY <1>1 DEF SeenInv, Synced, PlaceInv
<1>6. \A c \in Controls :
          view'[c] = IF RecordsOf(c, Taken) = {} THEN view[c] ELSE Newest(c, Taken)
    BY <1>2, ReplayIs
<1>7. ASSUME NEW c \in fresh \ blind, RecordsOf(c, Left) = {}
      PROVE  view'[c] = phys[c]
    <2>1. c \in Controls
        BY DEF DataOK
    <2>2. RecordsOf(c, Taken) = RecordsOf(c, buffer)
          /\ (RecordsOf(c, buffer) # {} => Newest(c, Taken) = Newest(c, buffer))
        BY <1>7, <2>1, TakeStep
    <2> QED BY <1>5, <1>6, <2>1, <2>2 DEF Known, BufferInv
<1>8. ASSUME NEW c \in Controls \ fresh
      PROVE  view'[c] = Default[c]
    <2>1. RecordsOf(c, Left) = {} /\ RecordsOf(c, Taken) = {}
        BY TakeStep DEF BufferInv
    <2> QED BY <1>5, <1>6, <2>1 DEF Known
<1> QED BY <1>1, <1>3, <1>4, <1>7, <1>8 DEF SeenInv, Known

LEMMA ViewInvariant == Spec => []ViewInv
<1>1. Init => ViewInv
    <2> SUFFICES ASSUME Init PROVE ViewInv
        OBVIOUS
    <2>1. acquired = FALSE /\ open = FALSE /\ buffer = <<>> /\ fresh = {} /\ blind = {}
        BY DEF Init
    <2>2. DataOK
        <3>1. view \in [Controls -> Levels \cup {Up, Down, Center, NoState}]
            BY DEF Init, Unread
        <3>2. <<>> \in Seq(Record) /\ Len(<<>>) <= BufferSize
            BY BufferAssumption
        <3> QED BY <2>1, <3>1, <3>2 DEF Init, DataOK
    <2>3. BufferInv
        BY <2>1, NoRecords DEF BufferInv
    <2> QED BY <2>1, <2>2, <2>3 DEF ViewInv, AcquiredInv, SeenInv
<1>2. PlaceInv /\ ViewInv /\ [Next]_vars => ViewInv'
    <2> SUFFICES ASSUME PlaceInv, ViewInv, [Next]_vars PROVE ViewInv'
        OBVIOUS
    <2>1. \/ Still \/ Acquire \/ ReadState \/ Drain \/ ReadData
          \/ Lose \/ Unplug \/ Create \/ Leave \/ (Sweep /\ known /\ ~seen)
          \/ \E c \in Controls : Move(c) \/ Publish(c)
        BY DEF Next, Calls, Loop, Device, Still
    <2> QED BY <2>1, StillStep, AcquireStep, ReadStateView, DrainView, ReadDataView, LoseStep,
               MoveStep
<1>3. IInv => PlaceInv
    BY DEF IInv
<1> QED BY <1>1, <1>2, <1>3, Invariant, PTL DEF Spec

\* Between two rounds of the loop the thread has every control of an acquired
\* device where it really is, or a record of it waits, or its newest change was
\* thrown away unread.
THEOREM ViewFollowsDevice == Spec => []ViewCatchesUp
<1>1. ViewInv => ViewCatchesUp
    <2> SUFFICES ASSUME ViewInv, pc = "idle", acquired, NEW c \in fresh \ blind
                 PROVE  Replay(view, buffer)[c] = phys[c]
        BY DEF ViewCatchesUp
    <2>1. c \in Controls
        BY DEF ViewInv, DataOK
    <2>2. Known
        BY DEF ViewInv, SeenInv, Synced
    <2> QED BY <2>1, <2>2, ReplayIs DEF ViewInv, BufferInv, Known
<1> QED BY <1>1, ViewInvariant, PTL

-----------------------------------------------------------------------------
(* The type of the state.                                                  *)

Flags ==
    /\ attached \in BOOLEAN /\ spilled \in BOOLEAN
    /\ ready \in BOOLEAN /\ stopping \in BOOLEAN /\ seen \in BOOLEAN /\ known \in BOOLEAN
    /\ listed \in BOOLEAN /\ phantom \in BOOLEAN /\ unsteady \in BOOLEAN

Counts ==
    /\ polls \in 0..2 /\ round \in 0..2
    /\ pressed \subseteq Buttons /\ genuine \subseteq Axes

\* A disjunction is TRUE or FALSE.
LEMMA Either ==
    ASSUME NEW P, NEW Q, NEW b, b = (P \/ Q)
    PROVE  b \in BOOLEAN
OBVIOUS

LEMMA DeviceFlags ==
    ASSUME Flags, Device
    PROVE  Flags'
<1>1. UNCHANGED <<ready, stopping, seen, known, listed, phantom>>
    BY DEF Device, Plug, Lose, Unplug, Move, Publish, lifeVars, sinkVars, historyVars
<1>2. attached' \in BOOLEAN
    BY DEF Flags, Device, Plug, Lose, Unplug, Move, Publish
<1>4. unsteady' \in BOOLEAN
    <2>1. CASE Unplug
        <3>1. unsteady' = (unsteady \/ open)
            BY <2>1, Zenon DEF Unplug
        <3> QED BY <3>1, Either
    <2>2. CASE Plug \/ Lose \/ \E c \in Controls : Move(c) \/ Publish(c)
        BY <2>2 DEF Flags, Plug, Lose, Move, Publish, historyVars
    <2> QED BY <2>1, <2>2 DEF Device
<1>3. spilled' \in BOOLEAN
    <2>1. CASE Plug \/ Lose \/ Unplug
        BY <2>1 DEF Flags, Plug, Lose, Unplug
    <2>2. CASE \E c \in Controls : Move(c) \/ Publish(c)
        BY <2>2 DEF Flags, Move, Publish, Buffered
    <2> QED BY <2>1, <2>2 DEF Device
<1> QED BY <1>1, <1>2, <1>3, <1>4 DEF Flags

LEMMA EmittedFlags ==
    ASSUME NEW moved, NEW new, NEW real, EmitChanges(moved, new, real), phantom \in BOOLEAN,
           pressed \subseteq Buttons, genuine \subseteq Axes
    PROVE  phantom' \in BOOLEAN /\ pressed' \subseteq Buttons /\ genuine' \subseteq Axes
<1> DEFINE changed == moved \cup {c \in Controls : view[c] # new[c]}
           axes == changed \cap Axes
<1>1. /\ pressed' = {b \in Buttons : IF b \in changed THEN new[b] = Down ELSE b \in pressed}
      /\ genuine' = (genuine \ axes) \cup (axes \cap real)
      /\ phantom' = (phantom \/ \E a \in axes : \/ a \notin real
                                               \/ (a \notin genuine /\ view[a] # NoState))
    BY DEF EmitChanges
<1>2. phantom' \in BOOLEAN
    BY <1>1, Either
<1> QED BY <1>1, <1>2

LEMMA ReleasedFlags ==
    ASSUME Release
    PROVE  known' = FALSE /\ spilled' = FALSE /\ pressed' = {} /\ UNCHANGED <<genuine, phantom>>
BY DEF Release

LEMMA CallsFlags ==
    ASSUME Flags, Counts, Calls
    PROVE  Flags' /\ Counts'
<1> USE DEF Flags, Counts, driverVars, lifeVars, sinkVars, historyVars
<1>1. CASE Enumerate
    <2>1. seen' = attached
          /\ UNCHANGED <<driverVars, round, ready, stopping, sinkVars, historyVars>>
        BY <1>1, Zenon DEF Enumerate
    <2>2. known' \in BOOLEAN
        <3>1. known' = (known \/ attached)
            BY <1>1, Zenon DEF Enumerate
        <3> QED BY <3>1, Either
    <2> QED BY <2>1, <2>2
<1>2. CASE EnumerateFails \/ CreateFails
    BY <1>2 DEF EnumerateFails, CreateFails
<1>3. CASE Create
    <2>1. /\ polls' = 0 /\ round' = 0
          /\ UNCHANGED <<attached, spilled, ready, stopping, seen, known, listed, pressed, genuine>>
        BY <1>3 DEF Create
    <2>2. phantom' \in BOOLEAN /\ unsteady' \in BOOLEAN
        <3>1. phantom' = FALSE /\ unsteady' = FALSE
            BY <1>3, Zenon DEF Create
        <3> QED BY <3>1, Zenon
    <2> QED BY <2>1, <2>2
<1>4. CASE Sweep
    <2>1. ready' = TRUE /\ UNCHANGED <<attached, polls, round, stopping, seen, unsteady>>
        BY <1>4 DEF Sweep
    <2>2. CASE known /\ ~seen
        BY <1>4, <2>1, <2>2, ReleasedFlags, Zenon DEF Sweep
    <2>3. CASE ~(known /\ ~seen)
        BY <1>4, <2>1, <2>3 DEF Sweep
    <2> QED BY <2>2, <2>3
<1>5. CASE Acquire
    BY <1>5 DEF Acquire
<1>6. CASE GiveUp
    <2>1. UNCHANGED <<driverVars, round, lifeVars, sinkVars>>
        BY <1>6 DEF GiveUp
    <2>2. unsteady' = (unsteady \/ mode = "setup")
        BY <1>6, Zenon DEF GiveUp
    <2> QED BY <2>1, <2>2, Either
<1>7. CASE Recover
    BY <1>7 DEF Recover
<1>8. CASE Poll
    BY <1>8 DEF Poll, Smaller
<1>9. CASE ReadState
    <2>1. UNCHANGED <<driverVars, round, lifeVars, listed, unsteady>>
        BY <1>9 DEF ReadState
    <2>2. CASE mode = "setup"
        BY <1>9, <2>1, <2>2 DEF ReadState, SyncState
    <2>3. CASE mode # "setup"
        <3>1. EmitChanges({}, Frame, fresh)
            BY <1>9, <2>3 DEF ReadState
        <3>2. phantom' \in BOOLEAN /\ pressed' \subseteq Buttons /\ genuine' \subseteq Axes
            BY <3>1, EmittedFlags
        <3> QED BY <2>1, <3>2
    <2> QED BY <2>2, <2>3
<1>10. CASE Drain
    <2>1. /\ UNCHANGED <<attached, polls, lifeVars, sinkVars, unsteady>> /\ spilled' = FALSE
          /\ round' = round \/ (round < 2 /\ round' = round + 1)
        BY <1>10 DEF Drain, MoreRounds
    <2>2. round' \in 0..2
        BY <2>1
    <2>3. Flags'
        BY <2>1
    <2> QED BY <2>1, <2>2, <2>3
<1>11. CASE ReadData
    <2>1. UNCHANGED <<attached, polls, round, lifeVars, listed, historyVars>> /\ spilled' = FALSE
        BY <1>11 DEF ReadData
    <2>2. EmitChanges(Moved(Taken), Replay(view, Taken), Controls)
        BY <1>11 DEF ReadData
    <2>3. phantom' \in BOOLEAN /\ pressed' \subseteq Buttons /\ genuine' \subseteq Axes
        BY <2>2, EmittedFlags
    <2> QED BY <2>1, <2>3
<1>12. CASE Leave
    <2>1. listed' = FALSE /\ UNCHANGED <<attached, polls, round, ready, stopping, seen, unsteady>>
        BY <1>12 DEF Leave
    <2>2. known' = FALSE /\ spilled' = FALSE /\ pressed' = {} /\ UNCHANGED <<genuine, phantom>>
        BY <1>12, ReleasedFlags DEF Leave
    <2> QED BY <2>1, <2>2
<1> QED BY <1>1, <1>2, <1>3, <1>4, <1>5, <1>6, <1>7, <1>8, <1>9, <1>10, <1>11, <1>12
           DEF Calls, AcquireFails, PollFails, ReadStateFails, ReadDataFails

LEMMA FlagsInvariant == Spec => [](Flags /\ Counts)
<1>1. Init => Flags /\ Counts
    <2>1. Init => Flags
        BY Zenon DEF Init, Flags
    <2>2. Init => Counts
        BY DEF Init, Counts
    <2> QED BY <2>1, <2>2
<1>2. Flags /\ Counts /\ [Next]_vars => Flags' /\ Counts'
    <2> SUFFICES ASSUME Flags, Counts, [Next]_vars PROVE Flags' /\ Counts'
        OBVIOUS
    <2>1. CASE Device
        <3>1. polls' \in {polls, 0} /\ UNCHANGED <<round, pressed, genuine>>
            BY <2>1 DEF Device, Plug, Lose, Unplug, Move, Publish, placeVars, sinkVars
        <3> QED BY <2>1, <3>1, DeviceFlags DEF Counts
    <2>2. CASE Loop \/ Cancel \/ UNCHANGED vars
        <3>1. /\ UNCHANGED <<attached, spilled, ready, seen, known, listed, phantom, unsteady,
                              polls, round, pressed, genuine>>
              /\ stopping' = stopping \/ stopping' = TRUE
            BY <2>2 DEF Loop, Tick, Rescan, WindowGone, ContextDone, Cancel, vars, driverVars,
                        placeVars, lifeVars, sinkVars, historyVars
        <3>2. Flags'
            BY <3>1 DEF Flags
        <3> QED BY <3>1, <3>2 DEF Counts
    <2> QED BY <2>1, <2>2, CallsFlags DEF Next
<1> QED BY <1>1, <1>2, PTL DEF Spec

\* Every variable of the thread and of the device keeps its type: in particular
\* no buffer outgrows its size, and every value in view and every record is one
\* its control can have.
THEOREM DeviceTypes == Spec => []TypeOK
<1>1. IInv /\ ViewInv /\ Flags /\ Counts => TypeOK
    <2> SUFFICES ASSUME PlaceInv, ViewInv, Flags, Counts PROVE TypeOK
        BY DEF IInv
    <2>1. \A flag \in {ready, stopping, seen, known, open, listed, phantom, unsteady} : flag \in BOOLEAN
        BY Zenon DEF Flags, ViewInv, AcquiredInv
    <2>2. /\ mode \in {"setup", "tick", "recover"}
          /\ pc \in {"sync", "create", "sweep", "acquire", "poll", "state", "drain", "data",
                     "idle", "leave", "ended"}
        BY DEF PlaceInv, Asking
    <2>3. attached \in BOOLEAN /\ acquired \in BOOLEAN /\ spilled \in BOOLEAN
        BY Zenon DEF Flags, ViewInv, AcquiredInv
    <2> QED BY <2>1, <2>2, <2>3, Zenon DEF Counts, ViewInv, DataOK, TypeOK
<1> QED BY <1>1, Invariant, ViewInvariant, FlagsInvariant, PTL

-----------------------------------------------------------------------------
(* What the manager is told.                                               *)

\* A device that is being opened was enumerated by the same syncDevices, and
\* only a device that Start knows of is polled.
SyncInv ==
    /\ pc \in {"sync", "create"} => mode = "tick"
    /\ OpensNow \/ pc = "create" => seen
    /\ pc = "idle" \/ (pc \in Asking /\ mode # "setup") => ready

LEMMA SyncStep == PlaceInv /\ SyncInv /\ [Next]_vars => SyncInv'
<1> SUFFICES ASSUME PlaceInv, SyncInv, [Next]_vars PROVE SyncInv'
    OBVIOUS
<1> USE DEF PlaceInv, SyncInv, OpensNow, Asking
<1>1. CASE Device \/ Cancel \/ UNCHANGED vars
    BY <1>1 DEF Device, Plug, Lose, Unplug, Move, Publish, Cancel, vars, placeVars, lifeVars
<1>2. CASE Enumerate
    BY <1>2 DEF Enumerate
<1>3. CASE EnumerateFails \/ Create \/ CreateFails
    BY <1>3 DEF EnumerateFails, Create, CreateFails, lifeVars
<1>4. CASE Sweep \/ Leave
    BY <1>4 DEF Sweep, Leave
<1>5. CASE Acquire \/ Poll
    BY <1>5 DEF Acquire, Poll, AfterPoll, lifeVars
<1>6. CASE (GiveUp /\ pc \in Asking) \/ (Recover /\ mode = "tick" /\ pc \in Asking)
    BY <1>6 DEF GiveUp, Recover, lifeVars
<1>7. CASE ReadState \/ ReadData
    BY <1>7 DEF ReadState, ReadData, lifeVars
<1>8. CASE Drain
    BY <1>8 DEF Drain, MoreRounds, lifeVars
<1>9. CASE Loop
    BY <1>9 DEF Loop, Tick, Rescan, WindowGone, ContextDone, lifeVars
<1> QED BY <1>1, <1>2, <1>3, <1>4, <1>5, <1>6, <1>7, <1>8, <1>9
           DEF Next, Calls, AcquireFails, PollFails, ReadStateFails, ReadDataFails

\* A step that tells the manager nothing.
LEMMA Silent ==
    ASSUME UNCHANGED <<Phase, listed, Sampled, pressed>>
    PROVE  UNCHANGED Protocol!deviceVars
BY DEF Protocol!deviceVars

LEMMA DeviceIsSilent ==
    ASSUME Device \/ Cancel \/ UNCHANGED vars
    PROVE  UNCHANGED Protocol!deviceVars
<1>1. UNCHANGED <<pc, mode, ready, open, view, listed, pressed>>
    BY DEF Device, Plug, Lose, Unplug, Move, Publish, Cancel, vars, placeVars, lifeVars, sinkVars
<1> QED BY <1>1, Silent DEF Phase, Sampled, OpensNow

\* The calls that move on without an event.
LEMMA CallsInProtocol ==
    ASSUME PlaceInv, SyncInv,
           \/ Enumerate \/ EnumerateFails \/ CreateFails
           \/ Acquire \/ Poll \/ Drain
           \/ (GiveUp /\ pc \in Asking) \/ (Recover /\ mode = "tick" /\ pc \in Asking)
    PROVE  [Protocol!DeviceNext]_(Protocol!deviceVars)
<1> USE DEF PlaceInv, SyncInv, OpensNow, Asking, Phase, Sampled
<1>1. UNCHANGED <<open, view, listed, pressed, ready>>
    BY DEF Enumerate, EnumerateFails, CreateFails, Acquire, Poll, Drain, GiveUp, Recover,
           lifeVars, sinkVars
<1>2. CASE Enumerate \/ CreateFails
    <2>1. UNCHANGED <<Phase, Sampled>>
        BY <1>1, <1>2 DEF Enumerate, CreateFails
    <2> QED BY <1>1, <2>1, Silent
<1>3. CASE EnumerateFails
    <2>1. Phase \in {"init", "sync"} /\ Phase' = IF Phase = "init" THEN "stop" ELSE "run"
        BY <1>1, <1>3 DEF EnumerateFails
    <2>2. Sampled # "now" /\ UNCHANGED Sampled
        BY <1>1, <1>3 DEF EnumerateFails
    <2> HIDE DEF Phase, Sampled
    <2> QED BY <1>1, <2>1, <2>2 DEF Protocol!DeviceNext, Protocol!SyncFails
<1>4. CASE Acquire \/ Poll \/ (Recover /\ mode = "tick" /\ pc \in Asking)
    <2>1. UNCHANGED <<Phase, Sampled>>
        BY <1>1, <1>4 DEF Acquire, Poll, AfterPoll, Recover
    <2> QED BY <1>1, <2>1, Silent
<1>5. CASE GiveUp /\ pc \in Asking
    <2>1. UNCHANGED <<Phase, Sampled>>
        BY <1>1, <1>5 DEF GiveUp
    <2> QED BY <1>1, <2>1, Silent
<1>6. CASE Drain
    <2>1. UNCHANGED <<Phase, Sampled>>
        BY <1>1, <1>6 DEF Drain, MoreRounds
    <2> QED BY <1>1, <2>1, Silent
<1> QED BY <1>2, <1>3, <1>4, <1>5, <1>6

LEMMA LoopInProtocol ==
    ASSUME PlaceInv, SyncInv, Loop
    PROVE  [Protocol!DeviceNext]_(Protocol!deviceVars)
<1> USE DEF PlaceInv, SyncInv, OpensNow, Asking, Phase, Sampled
<1>1. UNCHANGED <<open, view, listed, pressed, ready>> /\ pc = "idle" /\ ready
    BY DEF Loop, Tick, Rescan, WindowGone, ContextDone, lifeVars, sinkVars
<1>2. UNCHANGED Sampled /\ Phase = "run"
    BY <1>1 DEF Loop, Tick, Rescan, WindowGone, ContextDone
<1>3. Phase' \in {"run", "sync", "stop"}
    BY <1>1 DEF Loop, Tick, Rescan, WindowGone, ContextDone
<1> HIDE DEF Phase, Sampled
<1> QED BY <1>1, <1>2, <1>3, Silent DEF Protocol!DeviceNext, Protocol!SyncBegin, Protocol!Stop

LEMMA CreateInProtocol ==
    ASSUME PlaceInv, Create
    PROVE  UNCHANGED Protocol!deviceVars
<1>1. /\ pc = "create" /\ pc' = "acquire" /\ mode' = "setup" /\ ~open
      /\ UNCHANGED <<ready, listed, pressed>>
      /\ \A a \in Axes : view'[a] = NoState
    BY DEF Create, PlaceInv, sinkVars, Controls
<1>2. UNCHANGED <<Phase, Sampled>>
    BY <1>1 DEF Phase, Sampled, OpensNow
<1> QED BY <1>1, <1>2, Silent

\* The end of syncDevices, and of the backend.
LEMMA ListInProtocol ==
    ASSUME PlaceInv, PressedInv, SyncInv, Flags, Sweep \/ Leave
    PROVE  Protocol!DeviceNext
<1> USE DEF Phase, Sampled, OpensNow
<1>1. CASE Sweep
    <2>1. Phase \in {"init", "sync"} /\ Phase' = "run" /\ listed' = known'
        BY <1>1 DEF Sweep
    <2>2. CASE known /\ ~seen
        <3>1. known' = FALSE /\ open' = FALSE /\ pressed' = {}
            BY <1>1, <2>2 DEF Sweep, Release
        <3>2. Sampled # "now" /\ Sampled' = "no"
            BY <1>1, <2>2, <3>1 DEF Sweep, SyncInv
        <3> HIDE DEF Phase, Sampled
        <3> QED BY <2>1, <3>1, <3>2 DEF Protocol!DeviceNext, Protocol!SetDevices
    <2>3. CASE ~known
        <3>1. known' = FALSE /\ ~open /\ UNCHANGED <<open, pressed>> /\ pressed = {}
            BY <1>1, <2>3 DEF Sweep, PlaceInv, PressedInv, Flags
        <3>2. Sampled # "now" /\ Sampled' = "no"
            BY <3>1
        <3> HIDE DEF Phase, Sampled
        <3> QED BY <2>1, <3>1, <3>2 DEF Protocol!DeviceNext, Protocol!SetDevices
    <2>4. CASE known /\ seen
        <3>1. known' = TRUE /\ UNCHANGED <<open, view, pressed>> /\ pc' = "idle"
            BY <1>1, <2>4 DEF Sweep, Flags
        <3>2. Sampled' = IF Sampled = "no" THEN "no" ELSE "yes"
            BY <3>1
        <3> HIDE DEF Phase, Sampled
        <3> QED BY <2>1, <3>1, <3>2 DEF Protocol!DeviceNext, Protocol!SetDevices
    <2> QED BY <2>2, <2>3, <2>4
<1>2. CASE Leave
    <2>1. /\ Phase = "stop" /\ Phase' = "over" /\ listed' = FALSE /\ open' = FALSE
          /\ pressed' = {}
        BY <1>2 DEF Leave, Release
    <2>2. Sampled' = "no"
        BY <2>1
    <2> HIDE DEF Phase, Sampled
    <2> QED BY <2>1, <2>2 DEF Protocol!DeviceNext, Protocol!ReleaseAll
<1> QED BY <1>1, <1>2

\* Nothing that is read is mistaken for an axis that was not.
LEMMA RealPositions ==
    ASSUME DataOK, NEW a \in Axes
    PROVE  /\ Frame[a] # NoState
           /\ view[a] # NoState => Replay(view, Taken)[a] # NoState
<1>1. a \in Controls /\ a \notin Buttons /\ Values(a) = Levels
    BY ControlsAssumption DEF Controls, Values
<1>2. Frame[a] \in Levels \cup {Center}
    BY <1>1 DEF Frame, DataOK, Default
<1>3. Taken \in Seq(Record)
    BY TakenAndLeft
<1>4. RecordsOf(a, Taken) # {} => Newest(a, Taken) \in Levels
    BY <1>1, <1>3, NewestRecord
<1>5. Replay(view, Taken)[a] = IF RecordsOf(a, Taken) = {} THEN view[a] ELSE Newest(a, Taken)
    BY <1>1, ReplayIs
<1> QED BY <1>2, <1>4, <1>5, LevelsAssumption

\* Reading the state or a batch of records.
LEMMA ReadInProtocol ==
    ASSUME PlaceInv, PressedInv, SyncInv, DataOK, Flags, ReadState \/ ReadData
    PROVE  [Protocol!DeviceNext]_(Protocol!deviceVars)
<1>1. /\ pc \in {"state", "data"} /\ open /\ mode' = mode
      /\ UNCHANGED <<listed, ready, open>>
    BY DEF ReadState, ReadData, PlaceInv, Asking, lifeVars
<1>2. CASE mode = "setup"
    <2>1. view' = Frame /\ pc' = "drain" /\ pressed' = pressed
        BY <1>2 DEF ReadState, ReadData, SyncState, PlaceInv
    <2>2. Sampled # "yes" /\ Sampled' = IF Axes = {} THEN "no" ELSE "now"
        BY <1>1, <1>2, <2>1, RealPositions DEF Sampled, OpensNow
    <2>3. Phase \in {"init", "sync"} /\ Phase' = Phase
        BY <1>1, <1>2, <2>1 DEF Phase, OpensNow
    <2>4. Axes = {} => Sampled = "no"
        BY DEF Sampled
    <2> QED BY <1>1, <2>1, <2>2, <2>3, <2>4, Silent DEF Protocol!DeviceNext, Protocol!SyncAxes
<1>3. CASE mode # "setup"
    <2>1. /\ pc' \in {"idle", "drain", "state", "data"}
          /\ \A a \in Axes : view[a] # NoState => view'[a] # NoState
          /\ pressed' \in SUBSET Buttons
        <3>1. CASE ReadState
            <4>1. EmitChanges({}, Frame, fresh)
                BY <1>3, <3>1 DEF ReadState
            <4>2. view' = Frame /\ pressed' \subseteq Buttons
                BY <4>1 DEF EmitChanges
            <4> QED BY <3>1, <4>2, RealPositions DEF ReadState
        <3>2. CASE ReadData
            <4>1. EmitChanges(Moved(Taken), Replay(view, Taken), Controls)
                BY <3>2 DEF ReadData
            <4>2. view' = Replay(view, Taken) /\ pressed' \subseteq Buttons
                BY <4>1 DEF EmitChanges
            <4> QED BY <3>2, <4>2, RealPositions DEF ReadData
        <3> QED BY <3>1, <3>2
    <2>2. Phase = "run" /\ Phase' = "run"
        BY <1>1, <1>3, <2>1 DEF Phase, OpensNow
    <2>3. Sampled' \in {Sampled, "yes"}
        BY <1>1, <1>3, <2>1 DEF Sampled, OpensNow
    <2>4. listed
        BY <1>1, <1>3 DEF PressedInv, Asking
    <2> QED BY <1>1, <2>1, <2>2, <2>3, <2>4 DEF Protocol!DeviceNext, Protocol!Emit
<1> QED BY <1>2, <1>3

\* Whatever calls fail, and whenever the device is lost, is gone or comes back,
\* the manager is told of it as it relies on: an event only while the device is
\* listed and no syncDevices is under way, positions of its axes before that,
\* and its buttons let go before it leaves the list.
THEOREM DeviceImplementsProtocol == Spec => ImplementsProtocol
<1>1. Init => SyncInv /\ Protocol!DeviceInit
    BY DEF Init, SyncInv, OpensNow, Asking, Phase, Sampled, Protocol!DeviceInit
<1>2. Spec => []SyncInv
    <2>1. IInv /\ SyncInv /\ [Next]_vars => SyncInv'
        BY SyncStep DEF IInv
    <2> QED BY <1>1, <2>1, Invariant, PTL DEF Spec
<1>3. IInv /\ SyncInv /\ ViewInv /\ (Flags /\ Counts) /\ [Next]_vars
          => [Protocol!DeviceNext]_(Protocol!deviceVars)
    <2> SUFFICES ASSUME PlaceInv, PressedInv, SyncInv, DataOK, Flags, [Next]_vars
                 PROVE  [Protocol!DeviceNext]_(Protocol!deviceVars)
        BY DEF IInv, ViewInv
    <2>1. CASE Device \/ Cancel \/ UNCHANGED vars
        BY <2>1, DeviceIsSilent
    <2>2. CASE Loop
        BY <2>2, LoopInProtocol
    <2>3. CASE Calls
        <3>1. AcquireFails => GiveUp /\ pc \in Asking
            BY DEF AcquireFails, Asking
        <3>2. PollFails => (GiveUp /\ pc \in Asking) \/ (Recover /\ mode = "tick" /\ pc \in Asking)
            BY DEF PollFails, Asking
        <3>3. ReadStateFails => GiveUp /\ pc \in Asking
            BY DEF ReadStateFails, Asking
        <3>4. ReadDataFails => Recover /\ mode = "tick" /\ pc \in Asking
            BY DEF ReadDataFails, PlaceInv, Asking
        <3> QED BY <2>3, <3>1, <3>2, <3>3, <3>4, CallsInProtocol, CreateInProtocol,
                   ListInProtocol, ReadInProtocol DEF Calls
    <2> QED BY <2>1, <2>2, <2>3 DEF Next
<1> QED BY <1>1, <1>2, <1>3, Invariant, ViewInvariant, FlagsInvariant, PTL
       DEF Spec, ImplementsProtocol, Protocol!DeviceSpec
=============================================================================

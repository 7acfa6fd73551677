------------------------- MODULE InputManagerProofs -------------------------
(***************************************************************************)
(* Proofs about InputManager, for any keys, controllers, buttons, hats,    *)
(* subscribers and capacities: the maps of held controls never drift from  *)
(* the snapshots they are updated from, what a subscriber makes of its     *)
(* events never drifts from the maps, a capture records a fresh press and  *)
(* does not sleep through its end, and a manager whose run has left shows  *)
(* nothing.                                                                *)
(***************************************************************************)
EXTENDS InputManager, SequenceTheorems, TLAPS

-----------------------------------------------------------------------------
(* Controls.                                                               *)

\* A control names its device, and only the keyboard has keys.
LEMMA ControlFacts ==
    ASSUME NEW d \in Devices, NEW c \in ControlsOf(d)
    PROVE  /\ d = Keyboard => c \in KeyControls /\ c[1] = "key"
           /\ d # Keyboard => c \notin KeyControls /\ c[1] # "key" /\ c[2] = d
<1>1. \A x \in KeyControls : x[1] = "key"
    BY DEF KeyControls, KeyControl
<1>2. CASE d = Keyboard
    BY <1>1, <1>2 DEF ControlsOf
<1>3. CASE d # Keyboard
    <2>1. c \in ButtonControls(d) \/ c \in HatControls(d)
        BY <1>3 DEF ControlsOf
    <2>2. c[1] # "key" /\ c[2] = d
        BY <2>1 DEF ButtonControls, HatControls
    <2> QED BY <1>1, <1>3, <2>2
<1> QED BY <1>2, <1>3

LEMMA SnapshotFacts ==
    ASSUME NEW d \in Devices, NEW now \in Snapshots(d)
    PROVE  now \subseteq ControlsOf(d)
<1>1. CASE d = Keyboard
    BY <1>1 DEF Snapshots, ControlsOf
<1>2. CASE d # Keyboard
    <2>1. PICK b \in SUBSET ButtonControls(d),
               h \in {{}} \cup {{x} : x \in HatControls(d)} : now = b \cup h
        BY <1>2 DEF Snapshots
    <2>2. h \subseteq HatControls(d)
        BY <2>1
    <2> QED BY <1>2, <2>1, <2>2 DEF ControlsOf
<1> QED BY <1>1, <1>2

-----------------------------------------------------------------------------
(* The state of the manager.                                               *)

ShownBy(states) == UNION {states[d] : d \in DOMAIN states}

\* Every snapshot is one of its device.
Sampling(states) ==
    /\ DOMAIN states \subseteq Devices
    /\ \A d \in DOMAIN states : states[d] \subseteq ControlsOf(d)

Fields == {"devices", "states", "held", "keys", "active"}

\* The maps held and keys are what the snapshots say.
Agrees(s) ==
    /\ s = [f \in Fields |-> s[f]]
    /\ Sampling(s.states)
    /\ s.held = ShownBy(s.states)
    /\ s.keys = KeysOf(s.states)

LEMMA KeysAreShown ==
    ASSUME NEW states, Sampling(states)
    PROVE  KeysOf(states) = ShownBy(states) \cap KeyControls
BY DEF KeysOf, ShownBy

LEMMA ClearedAgrees ==
    ASSUME NEW s, Agrees(s)
    PROVE  /\ Agrees(Cleared(s)) /\ Cleared(s).held = {} /\ Cleared(s).active = FALSE
           /\ Cleared(s).devices = s.devices
<1>1. DOMAIN <<>> = {}
    OBVIOUS
<1>2. Sampling(<<>>) /\ ShownBy(<<>>) = {} /\ KeysOf(<<>>) = {}
    BY <1>1 DEF Sampling, ShownBy, KeysOf
<1>3. LET t == Cleared(s)
      IN /\ t = [f \in Fields |-> t[f]] /\ t.states = <<>> /\ t.held = {} /\ t.keys = {}
         /\ t.active = FALSE /\ t.devices = s.devices
    BY DEF Agrees, Cleared, Fields
<1> QED BY <1>2, <1>3 DEF Agrees

\* Changing the devices or the status of the keyboard changes nothing held.
LEMMA OtherFields ==
    ASSUME NEW s, Agrees(s), NEW x
    PROVE  /\ Agrees([s EXCEPT !.devices = x]) /\ Agrees([s EXCEPT !.active = x])
           /\ [s EXCEPT !.devices = x].held = s.held
           /\ [s EXCEPT !.devices = x].active = s.active
           /\ [s EXCEPT !.devices = x].devices = x
<1>1. LET t == [s EXCEPT !.devices = x]
      IN /\ t = [f \in Fields |-> t[f]] /\ t.states = s.states /\ t.held = s.held
         /\ t.keys = s.keys /\ t.active = s.active /\ t.devices = x
    BY DEF Agrees, Fields
<1>2. LET t == [s EXCEPT !.active = x]
      IN /\ t = [f \in Fields |-> t[f]] /\ t.states = s.states /\ t.held = s.held
         /\ t.keys = s.keys
    BY DEF Agrees, Fields
<1> QED BY <1>1, <1>2 DEF Agrees

\* updateKeyboardLocked.
LEMMA KeyboardUpdatedFacts ==
    ASSUME NEW s, s = [f \in Fields |-> s[f]]
    PROVE  LET t == KeyboardUpdated(s)  next == KeysOf(s.states)
           IN  /\ t = [f \in Fields |-> t[f]]
               /\ t.states = s.states /\ t.keys = next
               /\ t.held = (s.held \ (s.keys \ next)) \cup next
BY DEF KeyboardUpdated, Fields

\* A device that goes takes what it held along and nothing else, and the keys
\* of the other keyboards stay.
LEMMA DisconnectedAgrees ==
    ASSUME NEW s, Agrees(s), NEW d \in Devices
    PROVE  Agrees(Disconnected(s, d))
<1> DEFINE rest == Without(s.states, d)
           left == {c \in s.held : c[1] = "key" \/ c[2] # d}
           u == [s EXCEPT !.devices = @ \ {d}, !.states = rest, !.held = left]
           t == Disconnected(s, d)
<1>1. u = [f \in Fields |-> u[f]] /\ u.states = rest /\ u.held = left /\ u.keys = s.keys
    BY DEF Agrees, Fields
<1>2. t = KeyboardUpdated(u)
    BY DEF Disconnected
<1>3. Sampling(s.states) /\ s.held = ShownBy(s.states) /\ s.keys = KeysOf(s.states)
    BY DEF Agrees
<1>4. /\ DOMAIN rest = DOMAIN s.states \ {d}
      /\ \A x \in DOMAIN rest : rest[x] = s.states[x]
    BY DEF Without
<1> HIDE DEF rest, u, t
<1>5. Sampling(rest)
    BY <1>3, <1>4 DEF Sampling
<1>6. (left \ (s.keys \ KeysOf(rest))) \cup KeysOf(rest) = ShownBy(rest)
    <2>1. KeysOf(rest) = ShownBy(rest) \cap KeyControls /\ s.keys = s.held \cap KeyControls
        BY <1>3, <1>5, KeysAreShown
    <2>2. ASSUME NEW c \in ShownBy(rest) PROVE c \in left /\ (c \in s.keys => c \in KeysOf(rest))
        <3>1. PICK x \in DOMAIN rest : c \in rest[x]
            BY DEF ShownBy
        <3>2. x \in Devices /\ x # d /\ c \in ControlsOf(x) /\ c \in s.held
            BY <1>3, <1>4, <1>5, <3>1 DEF Sampling, ShownBy
        <3> QED BY <2>1, <3>2, ControlFacts
    <2>3. ASSUME NEW c \in left, c \notin ShownBy(rest) PROVE c \in s.keys \ KeysOf(rest)
        <3>1. PICK x \in DOMAIN s.states : c \in s.states[x]
            BY <1>3 DEF ShownBy
        <3>2. x = d
            BY <1>4, <2>3, <3>1 DEF ShownBy
        <3>3. c \in ControlsOf(d) /\ c[1] = "key"
            BY <1>3, <3>1, <3>2, ControlFacts DEF Sampling
        <3>4. c \in KeyControls
            BY <3>3, ControlFacts
        <3> QED BY <2>1, <2>3, <3>4
    <2> QED BY <2>1, <2>2, <2>3
<1>7. /\ t = [f \in Fields |-> t[f]] /\ t.states = rest /\ t.keys = KeysOf(rest)
      /\ t.held = (left \ (s.keys \ KeysOf(rest))) \cup KeysOf(rest)
    <2> HIDE DEF left
    <2> QED BY <1>1, <1>2, KeyboardUpdatedFacts
<1> QED BY <1>5, <1>6, <1>7 DEF Agrees, t

\* A snapshot replaces what its device held.
LEMMA SampledAgrees ==
    ASSUME NEW s, Agrees(s), NEW d \in Devices, NEW now \in Snapshots(d)
    PROVE  Agrees(Sampled(s, d, now))
<1> DEFINE next == With(s.states, d, now)
           u == [s EXCEPT !.devices = @ \cup {d}, !.states = next]
<1>1. u = [f \in Fields |-> u[f]] /\ u.states = next /\ u.held = s.held /\ u.keys = s.keys
    BY DEF Agrees, Fields
<1>2. Sampling(s.states) /\ s.held = ShownBy(s.states) /\ s.keys = KeysOf(s.states)
    BY DEF Agrees
<1>3. /\ DOMAIN next = DOMAIN s.states \cup {d} /\ next[d] = now
      /\ \A x \in DOMAIN s.states \ {d} : next[x] = s.states[x]
    BY DEF With
<1>4. now \subseteq ControlsOf(d)
    BY SnapshotFacts
<1>5. Sampled(s, d, now) = IF d = Keyboard THEN KeyboardUpdated(u)
                           ELSE [u EXCEPT !.held = (u.held \ (Known(s, d) \ now)) \cup now]
    BY DEF Sampled
<1> HIDE DEF next, u
<1>6. Sampling(next)
    BY <1>2, <1>3, <1>4 DEF Sampling
<1>7. KeysOf(next) = ShownBy(next) \cap KeyControls /\ s.keys = s.held \cap KeyControls
    BY <1>2, <1>6, KeysAreShown
<1>8. ASSUME NEW c
      PROVE  /\ c \in ShownBy(next) <=>
                    c \in now \/ \E x \in DOMAIN s.states \ {d} : c \in s.states[x]
             /\ c \in s.held <=>
                    c \in Known(s, d) \/ \E x \in DOMAIN s.states \ {d} : c \in s.states[x]
    BY <1>2, <1>3 DEF ShownBy, Known
<1>9. \A x \in DOMAIN s.states \ {d} : x \in Devices /\ s.states[x] \subseteq ControlsOf(x)
    BY <1>2 DEF Sampling
<1>10. Known(s, d) \subseteq ControlsOf(d)
    BY <1>2 DEF Known, Sampling
<1>11. CASE d = Keyboard
    <2>1. (s.held \ (s.keys \ KeysOf(next))) \cup KeysOf(next) = ShownBy(next)
        <3>1. ASSUME NEW c \in ShownBy(next), c \notin KeysOf(next) PROVE c \in s.held \ s.keys
            BY <1>4, <1>7, <1>8, <1>11, <3>1, ControlFacts
        <3>2. ASSUME NEW c \in s.held, c \notin ShownBy(next) PROVE c \in s.keys
            BY <1>7, <1>8, <1>10, <1>11, <3>2, ControlFacts
        <3> QED BY <1>7, <3>1, <3>2
    <2> DEFINE t == KeyboardUpdated(u)
    <2>2. /\ t = [f \in Fields |-> t[f]] /\ t.states = next /\ t.keys = KeysOf(next)
          /\ t.held = (s.held \ (s.keys \ KeysOf(next))) \cup KeysOf(next)
        BY <1>1, KeyboardUpdatedFacts
    <2> QED BY <1>5, <1>6, <1>11, <2>1, <2>2 DEF Agrees
<1>12. CASE d # Keyboard
    <2>1. \A c \in now \cup Known(s, d) : c \notin KeyControls /\ c[2] = d
        BY <1>4, <1>10, <1>12, ControlFacts
    <2>2. \A x \in DOMAIN s.states \ {d} : \A c \in s.states[x] : c \notin KeyControls => c[2] # d
        BY <1>9, ControlFacts
    <2>3. (s.held \ (Known(s, d) \ now)) \cup now = ShownBy(next)
        BY <1>8, <2>1, <2>2
    <2>4. KeysOf(next) = s.keys
        BY <1>7, <1>8, <2>1
    <2>5. LET t == [u EXCEPT !.held = (u.held \ (Known(s, d) \ now)) \cup now]
          IN /\ t = [f \in Fields |-> t[f]] /\ t.states = next /\ t.keys = s.keys
             /\ t.held = (s.held \ (Known(s, d) \ now)) \cup now
        BY <1>1 DEF Fields
    <2> QED BY <1>5, <1>6, <1>12, <2>3, <2>4, <2>5 DEF Agrees
<1> QED BY <1>11, <1>12

-----------------------------------------------------------------------------
(* What a handler publishes.                                               *)

Press(c) == [type |-> "press", ctl |-> c]
Release(c) == [type |-> "release", ctl |-> c]
Batches == (SUBSET Event) \ {{}}
Has(q, e) == \E i \in DOMAIN q : e \in q[i]

\* Batches that say that no control was pressed or let go.
Edgeless(q) == \A c \in Controls : ~Has(q, Press(c)) /\ ~Has(q, Release(c))

\* A handler that changes what is held from old to new tells all subscribers to
\* start afresh, or tells them every difference, or only adds to what is held.
Tells(q, old, new) ==
    \/ Has(q, Note("reset")) /\ Edgeless(q)
    \/ /\ ~Has(q, Note("reset"))
       /\ \A c \in Controls : /\ Has(q, Press(c)) <=> c \in new \ old
                              /\ Has(q, Release(c)) <=> c \in old \ new
    \/ ~Has(q, Note("reset")) /\ Edgeless(q) /\ old \subseteq new

LEMMA EventFacts ==
    /\ \A t \in {"reset", "connected", "disconnected"} : Note(t) \in Event
    /\ \A c \in Controls :
           /\ Press(c) \in Event /\ Release(c) \in Event /\ Press(c) # Release(c)
           /\ \A t \in {"reset", "connected", "disconnected"} :
                  Note(t) # Press(c) /\ Note(t) # Release(c)
    /\ \A b, c : /\ Press(b) = Press(c) => b = c
                 /\ Release(b) = Release(c) => b = c
                 /\ Press(b) # Release(c)
    /\ \A e \in Event : \/ \E t \in {"reset", "connected", "disconnected"} : e = Note(t)
                        \/ \E c \in Controls : e = Press(c) \/ e = Release(c)
<1>1. \A b, c : /\ Press(b) = Press(c) => b = c
                /\ Release(b) = Release(c) => b = c
                /\ Press(b) # Release(c)
    BY DEF Press, Release
<1>2. \A t \in {"reset", "connected", "disconnected"} : Note(t) \in Event
    BY DEF Note, Event
<1>3. ASSUME NEW c \in Controls
      PROVE  /\ Press(c) \in Event /\ Release(c) \in Event
             /\ \A t \in {"reset", "connected", "disconnected"} :
                    Note(t) # Press(c) /\ Note(t) # Release(c)
    BY DEF Press, Release, Note, Event
<1>4. ASSUME NEW e \in Event
      PROVE  \/ \E t \in {"reset", "connected", "disconnected"} : e = Note(t)
             \/ \E c \in Controls : e = Press(c) \/ e = Release(c)
    <2>1. CASE e \in [type : {"press", "release"}, ctl : Controls]
        BY <2>1 DEF Press, Release
    <2>2. CASE e \in [type : {"reset", "connected", "disconnected"}, ctl : {NoControl}]
        <3>1. e = Note(e.type) /\ e.type \in {"reset", "connected", "disconnected"}
            BY <2>2 DEF Note
        <3> QED BY <3>1
    <2> QED BY <2>1, <2>2 DEF Event
<1> QED BY <1>1, <1>2, <1>3, <1>4

\* A sequence of notes.
LEMMA NotesFacts ==
    ASSUME NEW t \in {"reset", "connected", "disconnected"},
           NEW u \in {"reset", "connected", "disconnected"}
    PROVE  /\ <<{Note(t)}>> \in Seq(Batches) /\ Edgeless(<<{Note(t)}>>)
           /\ \A e : Has(<<{Note(t)}>>, e) <=> e = Note(t)
           /\ <<{Note(t)}, {Note(u)}>> \in Seq(Batches) /\ Edgeless(<<{Note(t)}, {Note(u)}>>)
           /\ \A e : Has(<<{Note(t)}, {Note(u)}>>, e) <=> e = Note(t) \/ e = Note(u)
           /\ <<>> \in Seq(Batches) /\ Edgeless(<<>>) /\ \A e : ~Has(<<>>, e)
<1>1. {Note(t)} \in Batches /\ {Note(u)} \in Batches
    BY EventFacts DEF Batches
<1>2. \A e : Has(<<{Note(t)}>>, e) <=> e = Note(t)
    <2> DEFINE q == <<{Note(t)}>>
    <2>1. DOMAIN q = {1} /\ q[1] = {Note(t)}
        OBVIOUS
    <2> HIDE DEF q
    <2>2. \A e : Has(q, e) <=> e = Note(t)
        BY <2>1 DEF Has
    <2> QED BY <2>2 DEF q
<1>3. \A e : Has(<<{Note(t)}, {Note(u)}>>, e) <=> e = Note(t) \/ e = Note(u)
    <2> DEFINE q == <<{Note(t)}, {Note(u)}>>
    <2>1. DOMAIN q = {1, 2} /\ q[1] = {Note(t)} /\ q[2] = {Note(u)}
        OBVIOUS
    <2> HIDE DEF q
    <2>2. \A e : Has(q, e) <=> e = Note(t) \/ e = Note(u)
        BY <2>1 DEF Has
    <2> QED BY <2>2 DEF q
<1>4. \A e : ~Has(<<>>, e)
    BY DEF Has
<1>5. \A c \in Controls : \A e \in {Note(t), Note(u)} : e # Press(c) /\ e # Release(c)
    BY EventFacts
<1>6. Edgeless(<<{Note(t)}>>) /\ Edgeless(<<{Note(t)}, {Note(u)}>>) /\ Edgeless(<<>>)
    <2>1. Edgeless(<<{Note(t)}>>)
        BY <1>2, <1>5 DEF Edgeless
    <2>2. Edgeless(<<{Note(t)}, {Note(u)}>>)
        BY <1>3, <1>5 DEF Edgeless
    <2>3. Edgeless(<<>>)
        BY <1>4 DEF Edgeless
    <2> QED BY <2>1, <2>2, <2>3
<1>7. <<{Note(t)}>> \in Seq(Batches) /\ <<{Note(t)}, {Note(u)}>> \in Seq(Batches) /\ <<>> \in Seq(Batches)
    BY <1>1
<1> QED BY <1>2, <1>3, <1>4, <1>6, <1>7

LEMMA ConcatFacts ==
    ASSUME NEW a \in Seq(Batches), NEW b \in Seq(Batches)
    PROVE  /\ a \o b \in Seq(Batches)
           /\ \A e : Has(a \o b, e) <=> Has(a, e) \/ Has(b, e)
<1> DEFINE q == a \o b
<1>1. /\ q \in Seq(Batches) /\ Len(q) = Len(a) + Len(b) /\ Len(a) \in Nat /\ Len(b) \in Nat
      /\ \A i \in 1..Len(q) : q[i] = IF i <= Len(a) THEN a[i] ELSE b[i - Len(a)]
    BY ConcatProperties
<1> HIDE DEF q
<1>2. DOMAIN q = 1..Len(q) /\ DOMAIN a = 1..Len(a) /\ DOMAIN b = 1..Len(b)
    BY <1>1
<1>3. ASSUME NEW e PROVE Has(q, e) <=> Has(a, e) \/ Has(b, e)
    <2>1. ASSUME NEW i \in DOMAIN q, e \in q[i] PROVE Has(a, e) \/ Has(b, e)
        <3>1. CASE i <= Len(a)
            BY <1>1, <1>2, <2>1, <3>1 DEF Has
        <3>2. CASE ~(i <= Len(a))
            <4>1. i - Len(a) \in DOMAIN b /\ e \in b[i - Len(a)]
                BY <1>1, <1>2, <2>1, <3>2
            <4> QED BY <4>1 DEF Has
        <3> QED BY <3>1, <3>2
    <2>2. ASSUME NEW i \in DOMAIN a, e \in a[i] PROVE Has(q, e)
        <3>1. i \in DOMAIN q /\ q[i] = a[i]
            BY <1>1, <1>2
        <3> QED BY <2>2, <3>1 DEF Has
    <2>3. ASSUME NEW i \in DOMAIN b, e \in b[i] PROVE Has(q, e)
        <3>1. i + Len(a) \in DOMAIN q /\ q[i + Len(a)] = b[i]
            BY <1>1, <1>2
        <3> QED BY <2>3, <3>1 DEF Has
    <2> QED BY <2>1, <2>2, <2>3 DEF Has
<1> QED BY <1>1, <1>3 DEF q

LEMMA BatchFacts ==
    ASSUME NEW events \in SUBSET Event
    PROVE  /\ Batch(events) \in Seq(Batches)
           /\ \A e : Has(Batch(events), e) <=> e \in events
<1>1. CASE events = {}
    BY <1>1 DEF Batch, Has
<1>2. CASE events # {}
    <2> DEFINE q == Batch(events)
    <2>1. q = <<events>> /\ events \in Batches
        BY <1>2 DEF Batch, Batches
    <2>2. DOMAIN q = {1} /\ q[1] = events /\ q \in Seq(Batches)
        BY <2>1
    <2> HIDE DEF q
    <2>3. \A e : Has(q, e) <=> e \in events
        BY <2>2 DEF Has
    <2> QED BY <2>2, <2>3 DEF q
<1> QED BY <1>1, <1>2

\* What a snapshot changes is what it publishes, and the first snapshot of a
\* device only adds.
LEMMA SampledEdges ==
    ASSUME NEW s, Agrees(s), NEW d \in Devices, NEW now \in Snapshots(d)
    PROVE  LET t == Sampled(s, d, now)
               was == IF d = Keyboard THEN s.keys ELSE Known(s, d)
               is == IF d = Keyboard THEN KeysOf(With(s.states, d, now)) ELSE now
           IN  /\ was \ is = s.held \ t.held /\ is \ was = t.held \ s.held
               /\ d \notin DOMAIN s.states => s.held \subseteq t.held
<1> DEFINE t == Sampled(s, d, now)
           was == IF d = Keyboard THEN s.keys ELSE Known(s, d)
           is == IF d = Keyboard THEN KeysOf(With(s.states, d, now)) ELSE now
           u == [s EXCEPT !.devices = @ \cup {d}, !.states = With(s.states, d, now)]
<1>1. /\ s.held = ShownBy(s.states) /\ s.keys = s.held \cap KeyControls
      /\ DOMAIN s.states \subseteq Devices
      /\ \A x \in DOMAIN s.states : s.states[x] \subseteq ControlsOf(x)
    BY KeysAreShown DEF Agrees, Sampling
<1>2. t.held = (s.held \ (was \ is)) \cup is
    <2>1. /\ u = [f \in Fields |-> u[f]] /\ u.states = With(s.states, d, now)
          /\ u.held = s.held /\ u.keys = s.keys
        BY DEF Agrees, Fields
    <2>2. t = IF d = Keyboard THEN KeyboardUpdated(u)
              ELSE [u EXCEPT !.held = (u.held \ (Known(s, d) \ now)) \cup now]
        BY DEF Sampled
    <2> HIDE DEF u, t
    <2>3. CASE d = Keyboard
        BY <2>1, <2>2, <2>3, KeyboardUpdatedFacts
    <2>4. CASE d # Keyboard
        BY <2>1, <2>2, <2>4 DEF Fields
    <2> QED BY <2>3, <2>4
<1>3. was \subseteq s.held
    BY <1>1 DEF Known, ShownBy
<1>4. ASSUME NEW c \in is, c \in s.held PROVE c \in was
    <2>1. CASE d = Keyboard
        BY <1>1, <1>4, <2>1 DEF KeysOf
    <2>2. CASE d # Keyboard
        <3>1. PICK x \in DOMAIN s.states : c \in s.states[x]
            BY <1>1, <1>4 DEF ShownBy
        <3>2. c \in ControlsOf(d) /\ c \in ControlsOf(x) /\ x \in Devices
            BY <1>1, <1>4, <2>2, <3>1, SnapshotFacts
        <3>3. x = d
            BY <2>2, <3>2, ControlFacts
        <3> QED BY <2>2, <3>1, <3>3 DEF Known
    <2> QED BY <2>1, <2>2
<1>5. ASSUME d \notin DOMAIN s.states PROVE was = {}
    <2>1. CASE d = Keyboard
        <3> SUFFICES ASSUME NEW c \in s.keys PROVE FALSE
            BY <2>1
        <3>1. PICK x \in DOMAIN s.states : c \in s.states[x]
            BY <1>1 DEF ShownBy
        <3>2. x # Keyboard /\ x \in Devices /\ c \in ControlsOf(x) /\ c \in KeyControls
            BY <1>1, <1>5, <2>1, <3>1
        <3> QED BY <3>2, ControlFacts
    <2>2. CASE d # Keyboard
        BY <1>5, <2>2 DEF Known
    <2> QED BY <2>1, <2>2
<1> HIDE DEF t, was, is
<1>6. was \ is = s.held \ t.held /\ is \ was = t.held \ s.held
    BY <1>2, <1>3, <1>4
<1>7. d \notin DOMAIN s.states => s.held \subseteq t.held
    BY <1>2, <1>5
<1> QED BY <1>6, <1>7 DEF t, was, is

\* The state of the manager is typed.
Typed(s) ==
    /\ s.devices \subseteq Devices /\ s.active \in BOOLEAN
    /\ \A d \in DOMAIN s.states : s.states[d] \in Snapshots(d)

\* Every handler keeps the types, and only the snapshots it names change.
LEMMA StatesAfter ==
    ASSUME NEW s, Agrees(s), Typed(s)
    PROVE  /\ Typed(Cleared(s)) /\ DOMAIN Cleared(s).states = {}
           /\ \A x \in BOOLEAN : LET t == [s EXCEPT !.active = x]
                                 IN Typed(t) /\ t.states = s.states /\ t.held = s.held
           /\ \A x \in SUBSET Devices : LET t == [s EXCEPT !.devices = x]
                                        IN Typed(t) /\ t.states = s.states /\ t.held = s.held
           /\ \A d \in Devices :
                  LET t == Disconnected(s, d)
                  IN Typed(t) /\ DOMAIN t.states = DOMAIN s.states \ {d}
           /\ \A d \in Devices : \A now \in Snapshots(d) :
                  LET t == Sampled(s, d, now)
                  IN Typed(t) /\ DOMAIN t.states = DOMAIN s.states \cup {d}
<1>1. Typed(Cleared(s)) /\ DOMAIN Cleared(s).states = {}
    <2>1. LET t == Cleared(s)
          IN t.states = <<>> /\ t.active = FALSE /\ t.devices = s.devices
        BY DEF Agrees, Cleared, Fields
    <2>2. Cleared(s).active \in BOOLEAN
        BY <2>1, Zenon
    <2> QED BY <2>1, <2>2 DEF Typed
<1>2. ASSUME NEW x \in BOOLEAN
      PROVE  LET t == [s EXCEPT !.active = x]
             IN Typed(t) /\ t.states = s.states /\ t.held = s.held
    <2> DEFINE t == [s EXCEPT !.active = x]
    <2>1. t.states = s.states /\ t.devices = s.devices /\ t.active = x /\ t.held = s.held
        BY DEF Agrees, Fields
    <2> HIDE DEF t
    <2>2. t.active \in BOOLEAN
        BY <2>1, Zenon
    <2> QED BY <2>1, <2>2 DEF Typed, t
<1>3. ASSUME NEW x \in SUBSET Devices
      PROVE  LET t == [s EXCEPT !.devices = x]
             IN Typed(t) /\ t.states = s.states /\ t.held = s.held
    <2> DEFINE t == [s EXCEPT !.devices = x]
    <2>1. t.states = s.states /\ t.devices = x /\ t.active = s.active /\ t.held = s.held
        BY DEF Agrees, Fields
    <2> HIDE DEF t
    <2>2. t.active \in BOOLEAN
        BY <2>1, Zenon DEF Typed
    <2> QED BY <2>1, <2>2 DEF Typed, t
<1>4. ASSUME NEW d \in Devices
      PROVE  LET t == Disconnected(s, d)
             IN Typed(t) /\ DOMAIN t.states = DOMAIN s.states \ {d}
    <2> DEFINE t == Disconnected(s, d)
    <2>1. /\ t.states = Without(s.states, d) /\ t.devices = s.devices \ {d}
          /\ t.active = s.active
        BY DEF Disconnected, KeyboardUpdated, Agrees, Fields
    <2> HIDE DEF t
    <2>2. t.active \in BOOLEAN
        BY <2>1, Zenon DEF Typed
    <2>3. DOMAIN t.states = DOMAIN s.states \ {d} /\ \A x \in DOMAIN t.states : t.states[x] = s.states[x]
        BY <2>1 DEF Without
    <2> QED BY <2>1, <2>2, <2>3 DEF Typed, t
<1>5. ASSUME NEW d \in Devices, NEW now \in Snapshots(d)
      PROVE  LET t == Sampled(s, d, now)
             IN Typed(t) /\ DOMAIN t.states = DOMAIN s.states \cup {d}
    <2> DEFINE t == Sampled(s, d, now)
    <2>1. /\ t.states = With(s.states, d, now) /\ t.devices = s.devices \cup {d}
          /\ t.active = s.active
        BY DEF Sampled, KeyboardUpdated, Agrees, Fields
    <2> HIDE DEF t
    <2>2. t.active \in BOOLEAN
        BY <2>1, Zenon DEF Typed
    <2>3. /\ DOMAIN t.states = DOMAIN s.states \cup {d} /\ t.states[d] = now
          /\ \A x \in DOMAIN s.states \ {d} : t.states[x] = s.states[x]
        BY <2>1 DEF With
    <2> QED BY <2>1, <2>2, <2>3 DEF Typed, t
<1> QED BY <1>1, <1>2, <1>3, <1>4, <1>5

LEMMA HeldTyped ==
    ASSUME NEW s, Agrees(s)
    PROVE  s.held \subseteq Controls
<1> SUFFICES ASSUME NEW c \in s.held PROVE c \in Controls
    OBVIOUS
<1>1. PICK d \in DOMAIN s.states : c \in s.states[d]
    <2>1. s.held = ShownBy(s.states)
        BY DEF Agrees
    <2> QED BY <2>1 DEF ShownBy
<1>2. d \in Devices /\ c \in ControlsOf(d)
    BY <1>1 DEF Agrees, Sampling
<1> QED BY <1>2 DEF Controls

LEMMA EdgesAre ==
    ASSUME NEW type, NEW controls, NEW e
    PROVE  e \in Edges(type, controls) <=> \E c \in controls : e = [type |-> type, ctl |-> c]
BY DEF Edges

\* The edges of a snapshot, in the two batches it publishes.
LEMMA SampleTells ==
    ASSUME NEW s, Agrees(s), NEW d \in Devices, NEW now \in Snapshots(d), NEW initial \in BOOLEAN,
           initial => d \notin DOMAIN s.states
    PROVE  LET q == SampleEvents(s, d, now, initial)
           IN /\ q \in Seq(Batches)
              /\ Tells(q, s.held, Sampled(s, d, now).held)
<1> DEFINE t == Sampled(s, d, now)
           was == IF d = Keyboard THEN s.keys ELSE Known(s, d)
           is == IF d = Keyboard THEN KeysOf(With(s.states, d, now)) ELSE now
           ups == Edges("release", was \ is)
           downs == Edges("press", is \ was)
           q == SampleEvents(s, d, now, initial)
<1>1. /\ was \ is = s.held \ t.held /\ is \ was = t.held \ s.held
      /\ d \notin DOMAIN s.states => s.held \subseteq t.held
    BY SampledEdges
<1>2. q = IF initial \/ d \notin DOMAIN s.states THEN <<>> ELSE Batch(ups) \o Batch(downs)
    BY DEF SampleEvents
<1>3. Agrees(t)
    BY SampledAgrees
<1>4. s.held \subseteq Controls /\ t.held \subseteq Controls
    BY <1>3, HeldTyped
<1> HIDE DEF t, was, is, q
<1>5. /\ \A e : e \in ups <=> \E c \in s.held \ t.held : e = Release(c)
      /\ \A e : e \in downs <=> \E c \in t.held \ s.held : e = Press(c)
    <2>1. ups = Edges("release", s.held \ t.held) /\ downs = Edges("press", t.held \ s.held)
        BY <1>1
    <2> HIDE DEF ups, downs
    <2> QED BY <2>1, EdgesAre DEF Press, Release
<1> HIDE DEF ups, downs
<1>6. ups \in SUBSET Event /\ downs \in SUBSET Event
    <2>1. \A c \in Controls : Press(c) \in Event /\ Release(c) \in Event
        BY EventFacts
    <2> QED BY <1>4, <1>5, <2>1
<1>7. CASE initial \/ d \notin DOMAIN s.states
    <2>1. q = <<>> /\ s.held \subseteq t.held
        BY <1>1, <1>2, <1>7
    <2>2. <<>> \in Seq(Batches) /\ Edgeless(<<>>) /\ ~Has(<<>>, Note("reset"))
        BY NotesFacts
    <2> QED BY <2>1, <2>2 DEF Tells, q, t
<1>8. CASE ~(initial \/ d \notin DOMAIN s.states)
    <2>1. q = Batch(ups) \o Batch(downs)
        BY <1>2, <1>8 DEF ups, downs
    <2>2. q \in Seq(Batches) /\ \A e : Has(q, e) <=> e \in ups \/ e \in downs
        BY <1>6, <2>1, BatchFacts, ConcatFacts
    <2>3. ASSUME NEW c \in Controls
          PROVE  /\ Has(q, Press(c)) <=> c \in t.held \ s.held
                 /\ Has(q, Release(c)) <=> c \in s.held \ t.held
        BY <1>5, <2>2, EventFacts
    <2>4. ~Has(q, Note("reset"))
        BY <1>4, <1>5, <2>2, EventFacts
    <2> QED BY <2>2, <2>3, <2>4 DEF Tells, q, t
<1> QED BY <1>7, <1>8

-----------------------------------------------------------------------------
(* The inductive invariant.                                                *)

Silent == ~running /\ m.devices = {} /\ m.held = {} /\ ~m.active

\* What run clears on its way out stays clear: nobody else has the mutex until
\* run has left, and after that only Close clears once more.
LeavingInv ==
    /\ owner = "exit" => runner = "live" /\ Silent
    /\ runner = "done" => Silent /\ (failure \/ cancelled)

IInv == Agrees(m) /\ LeavingInv

\* Who changes the state or the life of run.
Calm ==
    \/ PublishOne \/ CloseBegin \/ WatchSubscribe \/ WatchReceive
    \/ CaptureBegin \/ CaptureStep \/ CaptureContextDone
    \/ UNCHANGED vars

LEMMA CalmStep ==
    ASSUME Calm
    PROVE  UNCHANGED <<m, owner, runner, running, cancelled, failure>>
<1>1. CASE PublishOne \/ CloseBegin \/ UNCHANGED vars
    BY <1>1 DEF PublishOne, CloseBegin, vars, lifeVars
<1>2. CASE WatchSubscribe \/ WatchReceive
    BY <1>2 DEF WatchSubscribe, WatchReceive, lifeVars
<1>3. CASE CaptureBegin \/ CaptureContextDone
    BY <1>3 DEF CaptureBegin, CaptureContextDone, captureFrame, lifeVars
<1>4. CASE CaptureStep
    BY <1>4 DEF CaptureStep, CaptureSubscribe, CaptureReceive, CaptureCheck, CaptureEOF,
                CaptureUnsubscribe, CaptureLeave, captureFrame, lifeVars
<1> QED BY <1>1, <1>2, <1>3, <1>4 DEF Calm

\* The steps of the calls that only move their program counters.
Moves == EndApply \/ Start \/ ReadMessage \/ ApplyNothing \/ EndExit \/ Cancel \/ CloseCancel \/ EndClose

LEMMA MovesStep ==
    ASSUME Moves
    PROVE  UNCHANGED m
BY DEF Moves, EndApply, Start, ReadMessage, ApplyNothing, EndExit, Cancel, CloseCancel, EndClose

LEMMA ApplyStep ==
    ASSUME Agrees(m), ApplyMessage
    PROVE  /\ Agrees(m') /\ runner = "got" /\ owner = "none"
           /\ runner' = "live" /\ owner' \in {"none", "run"}
           /\ UNCHANGED <<running, cancelled, failure>>
<1> PICK gap \in BOOLEAN :
        \/ ApplyReset(gap)
        \/ \E on \in BOOLEAN : ApplyKeyboardStatus(on, gap)
        \/ \E d \in Devices :
               \/ ApplyConnected(d, gap)
               \/ ApplyDisconnected(d, gap)
               \/ \E now \in Snapshots(d) : ApplySnapshot(d, now, gap)
    BY DEF ApplyMessage
<1>1. Agrees(Base(gap))
    BY ClearedAgrees DEF Base
<1>2. /\ runner = "got" /\ owner = "none"
      /\ runner' = "live" /\ owner' \in {"none", "run"}
      /\ UNCHANGED <<running, cancelled, failure>>
    BY DEF ApplyReset, ApplyKeyboardStatus, ApplyConnected, ApplyDisconnected, ApplySnapshot,
           Apply, Commit, Free
<1>3. CASE ApplyReset(gap)
    <2>1. m' = Cleared(Base(gap))
        BY <1>3 DEF ApplyReset, Apply, Commit
    <2> QED BY <1>1, <1>2, <2>1, ClearedAgrees
<1>4. CASE \E on \in BOOLEAN : ApplyKeyboardStatus(on, gap)
    <2>1. PICK on \in BOOLEAN : m' = [Base(gap) EXCEPT !.active = on]
        BY <1>4 DEF ApplyKeyboardStatus, Apply, Commit
    <2> QED BY <1>1, <1>2, <2>1, OtherFields
<1>5. CASE \E d \in Devices : ApplyConnected(d, gap)
    <2>1. PICK d \in Devices : m' = [Base(gap) EXCEPT !.devices = Base(gap).devices \cup {d}]
        BY <1>5 DEF ApplyConnected, Apply, Commit
    <2> QED BY <1>1, <1>2, <2>1, OtherFields
<1>6. CASE \E d \in Devices : ApplyDisconnected(d, gap)
    <2>1. PICK d \in Devices : m' = Disconnected(Base(gap), d)
        BY <1>6 DEF ApplyDisconnected, Apply, Commit
    <2> QED BY <1>1, <1>2, <2>1, DisconnectedAgrees
<1>7. CASE \E d \in Devices : \E now \in Snapshots(d) : ApplySnapshot(d, now, gap)
    <2>1. PICK d \in Devices : \E now \in Snapshots(d) : m' = Sampled(Base(gap), d, now)
        BY <1>7 DEF ApplySnapshot, Apply, Commit
    <2> QED BY <1>1, <1>2, <2>1, SampledAgrees
<1> QED BY <1>3, <1>4, <1>5, <1>6, <1>7

LEMMA RunExitStep ==
    ASSUME Agrees(m), RunExit
    PROVE  /\ Agrees(m') /\ Silent' /\ owner' = "exit"
           /\ runner = "live" /\ UNCHANGED <<runner, cancelled, failure>>
<1>1. /\ m' = [Cleared(m) EXCEPT !.devices = {}] /\ running' = FALSE /\ owner' = "exit"
      /\ runner = "live" /\ UNCHANGED <<runner, cancelled, failure>>
    BY DEF RunExit, Commit
<1>2. Agrees(Cleared(m)) /\ Cleared(m).held = {} /\ Cleared(m).active = FALSE
    BY ClearedAgrees
<1>3. /\ Agrees(m') /\ m'.held = {} /\ m'.active = FALSE /\ m'.devices = {}
    BY <1>1, <1>2, OtherFields
<1> QED BY <1>1, <1>3 DEF Silent

LEMMA CloseResetStep ==
    ASSUME Agrees(m), CloseReset
    PROVE  /\ Agrees(m') /\ (Silent => Silent') /\ owner = "none" /\ owner' = "close"
           /\ UNCHANGED <<runner, cancelled, failure>>
<1>1. m' = Cleared(m) /\ owner = "none" /\ owner' = "close"
      /\ UNCHANGED <<runner, running, cancelled, failure>>
    BY DEF CloseReset, Commit, Free, lifeVars
<1>2. Agrees(m') /\ m'.held = {} /\ m'.active = FALSE /\ m'.devices = m.devices
    BY <1>1, ClearedAgrees
<1> QED BY <1>1, <1>2 DEF Silent

LEMMA NextIs ==
    ASSUME [Next]_vars
    PROVE  Calm \/ Moves \/ ApplyMessage \/ RunExit \/ CloseReset
BY DEF Next, Calm, Moves

LEMMA LeavingStep == IInv /\ [Next]_vars => LeavingInv'
<1> SUFFICES ASSUME Agrees(m), LeavingInv, [Next]_vars PROVE LeavingInv'
    BY DEF IInv
<1>1. CASE Calm
    BY <1>1, CalmStep DEF LeavingInv, Silent
<1>2. CASE ApplyMessage
    BY <1>2, ApplyStep DEF LeavingInv
<1>3. CASE RunExit
    BY <1>3, RunExitStep DEF LeavingInv
<1>4. CASE CloseReset
    BY <1>4, CloseResetStep DEF LeavingInv
<1>5. CASE EndApply \/ EndClose
    BY <1>5 DEF EndApply, EndClose, LeavingInv, Silent, lifeVars
<1>6. CASE Start \/ ReadMessage
    BY <1>6 DEF Start, ReadMessage, LeavingInv, Free
<1>7. CASE ApplyNothing
    BY <1>7 DEF ApplyNothing, LeavingInv, Free
<1>8. CASE EndExit
    <2>1. owner = "exit" /\ owner' = "none" /\ runner' = "done" /\ failure' = ~cancelled
          /\ UNCHANGED <<running, cancelled, m>>
        BY <1>8 DEF EndExit
    <2>2. Silent' /\ (failure' \/ cancelled')
        BY <2>1 DEF LeavingInv, Silent
    <2> QED BY <2>1, <2>2 DEF LeavingInv
<1>9. CASE Cancel
    BY <1>9 DEF Cancel, LeavingInv, Silent
<1>10. CASE CloseCancel
    BY <1>10 DEF CloseCancel, LeavingInv, Silent
<1> QED BY <1>1, <1>2, <1>3, <1>4, <1>5, <1>6, <1>7, <1>8, <1>9, <1>10, NextIs DEF Moves

LEMMA Invariant == Spec => []IInv
<1>1. Init => IInv
    <2> SUFFICES ASSUME Init PROVE IInv
        OBVIOUS
    <2>1. DOMAIN <<>> = {}
        OBVIOUS
    <2>2. Sampling(<<>>) /\ ShownBy(<<>>) = {} /\ KeysOf(<<>>) = {}
        BY <2>1 DEF Sampling, ShownBy, KeysOf
    <2>3. m = [f \in Fields |-> m[f]] /\ m.states = <<>> /\ m.held = {} /\ m.keys = {}
        BY DEF Init, EmptyState, Fields
    <2>4. LeavingInv
        BY DEF Init, LeavingInv
    <2> QED BY <2>2, <2>3, <2>4 DEF IInv, Agrees
<1>2. IInv /\ [Next]_vars => IInv'
    <2> SUFFICES ASSUME IInv, [Next]_vars PROVE Agrees(m')
        BY LeavingStep DEF IInv
    <2>1. Agrees(m)
        BY DEF IInv
    <2> QED BY <2>1, NextIs, CalmStep, MovesStep, ApplyStep, RunExitStep, CloseResetStep
<1> QED BY <1>1, <1>2, PTL DEF Spec

-----------------------------------------------------------------------------
(* What subscribers are told.                                              *)

\* A source withdraws a device before it announces it again, so a baseline
\* never replaces a snapshot.
StateInv ==
    /\ Typed(m)
    /\ stage \in [Devices -> {"absent", "announced", "ready"}]
    /\ \A d \in DOMAIN m.states : stage[d] = "ready"

\* A handler of who that ended with these batches to publish.
Handled(who) ==
    /\ owner = "none" /\ Commit(who, m', pending')
    /\ pending' \in Seq(Batches) /\ Tells(pending', m.held, m'.held)
    /\ who = "close" => m'.held = {}
    /\ UNCHANGED <<status, chan, captureVars>>

LEMMA GapTells ==
    ASSUME NEW q \in Seq(Batches), Edgeless(q), NEW old, NEW new
    PROVE  LET all == <<{Note("reset")}>> \o q
           IN all \in Seq(Batches) /\ Tells(all, old, new)
<1> DEFINE all == <<{Note("reset")}>> \o q
<1>1. /\ <<{Note("reset")}>> \in Seq(Batches) /\ Edgeless(<<{Note("reset")}>>)
      /\ Has(<<{Note("reset")}>>, Note("reset"))
    BY NotesFacts
<1>2. all \in Seq(Batches) /\ \A e : Has(all, e) <=> Has(<<{Note("reset")}>>, e) \/ Has(q, e)
    BY <1>1, ConcatFacts
<1> HIDE DEF all
<1>3. Has(all, Note("reset")) /\ Edgeless(all)
    BY <1>1, <1>2 DEF Edgeless
<1> QED BY <1>2, <1>3 DEF Tells, all

\* The frame of apply, for what it does without a gap.
LEMMA ApplyTells ==
    ASSUME NEW s, NEW q, NEW gap \in BOOLEAN, Apply(s, q, gap),
           q \in Seq(Batches),
           IF gap THEN Edgeless(q) ELSE Tells(q, m.held, s.held)
    PROVE  Handled("run") /\ m' = s
<1>1. /\ owner = "none" /\ m' = s
      /\ pending' = IF gap THEN <<{Note("reset")}>> \o q ELSE q
      /\ Commit("run", s, IF gap THEN <<{Note("reset")}>> \o q ELSE q)
      /\ UNCHANGED <<status, chan, captureVars>>
    BY DEF Apply, Commit, Free
<1>2. Commit("run", m', pending')
    BY <1>1
<1>3. pending' \in Seq(Batches) /\ Tells(pending', m.held, m'.held)
    <2>1. CASE gap
        BY <1>1, <2>1, GapTells
    <2>2. CASE ~gap
        BY <1>1, <2>2
    <2> QED BY <2>1, <2>2
<1> QED BY <1>1, <1>2, <1>3 DEF Handled

LEMMA ApplyHandled ==
    ASSUME Agrees(m), StateInv, ApplyMessage
    PROVE  Handled("run") /\ StateInv'
<1> PICK gap \in BOOLEAN :
        \/ ApplyReset(gap)
        \/ \E on \in BOOLEAN : ApplyKeyboardStatus(on, gap)
        \/ \E d \in Devices :
               \/ ApplyConnected(d, gap)
               \/ ApplyDisconnected(d, gap)
               \/ \E now \in Snapshots(d) : ApplySnapshot(d, now, gap)
    BY DEF ApplyMessage
<1> DEFINE base == Base(gap)
<1>1. /\ Agrees(base) /\ Typed(base)
      /\ DOMAIN base.states \subseteq DOMAIN m.states
      /\ gap => base.held = {} /\ DOMAIN base.states = {}
      /\ ~gap => base = m
    BY ClearedAgrees, StatesAfter DEF Base, StateInv
<1> HIDE DEF base
<1>2. base.devices \subseteq Devices
    BY <1>1 DEF Typed
<1>3. ASSUME NEW s, Typed(s), m' = s, UNCHANGED stage, DOMAIN s.states \subseteq DOMAIN m.states
      PROVE  StateInv'
    BY <1>3 DEF StateInv
<1>4. CASE ApplyReset(gap)
    <2> DEFINE q == <<{Note("reset")}>>
    <2>1. Apply(Cleared(base), q, gap) /\ UNCHANGED stage
        BY <1>4 DEF ApplyReset, base
    <2>2. q \in Seq(Batches) /\ Edgeless(q) /\ Has(q, Note("reset"))
        BY NotesFacts
    <2> HIDE DEF q
    <2>3. Tells(q, m.held, Cleared(base).held)
        BY <2>2 DEF Tells
    <2>4. Handled("run") /\ m' = Cleared(base)
        BY <2>1, <2>2, <2>3, ApplyTells
    <2>5. Typed(Cleared(base)) /\ DOMAIN Cleared(base).states = {}
        BY <1>1, StatesAfter
    <2> QED BY <1>3, <2>1, <2>4, <2>5
<1>5. CASE \E on \in BOOLEAN : ApplyKeyboardStatus(on, gap)
    <2> PICK on \in BOOLEAN : ApplyKeyboardStatus(on, gap)
        BY <1>5
    <2> DEFINE s == [base EXCEPT !.active = on]
    <2>1. Apply(s, <<>>, gap) /\ UNCHANGED stage
        BY DEF ApplyKeyboardStatus, base
    <2>2. Typed(s) /\ s.states = base.states /\ s.held = base.held
        BY <1>1, StatesAfter
    <2> HIDE DEF s
    <2>3. <<>> \in Seq(Batches) /\ Edgeless(<<>>) /\ ~Has(<<>>, Note("reset"))
        BY NotesFacts
    <2>4. ~gap => Tells(<<>>, m.held, s.held)
        BY <1>1, <2>2, <2>3 DEF Tells
    <2>5. Handled("run") /\ m' = s
        BY <2>1, <2>3, <2>4, ApplyTells
    <2> QED BY <1>1, <1>3, <2>1, <2>2, <2>5
<1>6. CASE \E d \in Devices : ApplyConnected(d, gap)
    <2> PICK d \in Devices : ApplyConnected(d, gap)
        BY <1>6
    <2> DEFINE s == [base EXCEPT !.devices = base.devices \cup {d}]
               q == <<{Note("connected")}>>
    <2>1. Apply(s, q, gap) /\ stage[d] = "absent" /\ stage' = [stage EXCEPT ![d] = "announced"]
        BY DEF ApplyConnected, base
    <2>2. Typed(s) /\ s.states = base.states /\ s.held = base.held
        BY <1>1, <1>2, StatesAfter
    <2>3. q \in Seq(Batches) /\ Edgeless(q) /\ ~Has(q, Note("reset"))
        <3>1. Note("reset") # Note("connected")
            BY DEF Note
        <3> QED BY <3>1, NotesFacts
    <2> HIDE DEF s, q
    <2>4. ~gap => Tells(q, m.held, s.held)
        BY <1>1, <2>2, <2>3 DEF Tells
    <2>5. Handled("run") /\ m' = s
        BY <2>1, <2>3, <2>4, ApplyTells
    <2>6. \A x \in DOMAIN m.states : stage[x] = "ready" /\ x # d
        BY <2>1 DEF StateInv
    <2>7. \A x \in DOMAIN s.states : stage'[x] = "ready"
        BY <1>1, <2>1, <2>2, <2>6 DEF StateInv
    <2> QED BY <2>1, <2>2, <2>5, <2>7 DEF StateInv
<1>7. CASE \E d \in Devices : ApplyDisconnected(d, gap)
    <2> PICK d \in Devices : ApplyDisconnected(d, gap)
        BY <1>7
    <2> DEFINE s == Disconnected(base, d)
               q == <<{Note("reset")}, {Note("disconnected")}>>
    <2>1. Apply(s, q, gap) /\ stage' = [stage EXCEPT ![d] = "absent"]
        BY DEF ApplyDisconnected, base
    <2>2. Typed(s) /\ DOMAIN s.states = DOMAIN base.states \ {d}
        BY <1>1, StatesAfter
    <2>3. q \in Seq(Batches) /\ Edgeless(q) /\ Has(q, Note("reset"))
        BY NotesFacts
    <2> HIDE DEF s, q
    <2>4. Tells(q, m.held, s.held)
        BY <2>3 DEF Tells
    <2>5. Handled("run") /\ m' = s
        BY <2>1, <2>3, <2>4, ApplyTells
    <2>6. \A x \in DOMAIN s.states : stage'[x] = "ready"
        BY <1>1, <2>1, <2>2 DEF StateInv
    <2> QED BY <2>1, <2>2, <2>5, <2>6 DEF StateInv
<1>8. CASE \E d \in Devices : \E now \in Snapshots(d) : ApplySnapshot(d, now, gap)
    <2> PICK d \in Devices : \E now \in Snapshots(d) : ApplySnapshot(d, now, gap)
        BY <1>8
    <2> PICK now \in Snapshots(d) : ApplySnapshot(d, now, gap)
        OBVIOUS
    <2> DEFINE s == Sampled(base, d, now)
               initial == stage[d] = "announced"
               q == SampleEvents(base, d, now, initial)
    <2>1. Apply(s, q, gap) /\ stage' = [stage EXCEPT ![d] = "ready"]
        BY DEF ApplySnapshot, base
    <2>2. Typed(s) /\ DOMAIN s.states = DOMAIN base.states \cup {d}
        BY <1>1, StatesAfter
    <2>3. initial => d \notin DOMAIN base.states
        BY <1>1 DEF StateInv
    <2>4. q \in Seq(Batches) /\ Tells(q, base.held, s.held)
        <3> HIDE DEF initial
        <3>1. initial \in BOOLEAN
            BY DEF initial
        <3> QED BY <1>1, <2>3, <3>1, SampleTells
    <2>5. gap => Edgeless(q)
        BY <1>1, NotesFacts DEF SampleEvents
    <2> HIDE DEF s, q
    <2>6. Handled("run") /\ m' = s
        BY <1>1, <2>1, <2>4, <2>5, ApplyTells
    <2>7. \A x \in DOMAIN s.states : stage'[x] = "ready"
        BY <1>1, <2>1, <2>2 DEF StateInv
    <2> QED BY <2>1, <2>2, <2>6, <2>7 DEF StateInv
<1> QED BY <1>4, <1>5, <1>6, <1>7, <1>8

LEMMA ResetHandled ==
    ASSUME Agrees(m), StateInv, RunExit \/ CloseReset
    PROVE  (Handled("exit") \/ Handled("close")) /\ StateInv'
<1> DEFINE q == <<{Note("reset")}>>
           s == [Cleared(m) EXCEPT !.devices = {}]
<1>1. q \in Seq(Batches) /\ Edgeless(q) /\ Has(q, Note("reset"))
    BY NotesFacts
<1>2. /\ Agrees(Cleared(m)) /\ Typed(Cleared(m)) /\ DOMAIN Cleared(m).states = {}
      /\ Cleared(m).held = {}
    BY ClearedAgrees, StatesAfter DEF StateInv
<1>3. Typed(s) /\ s.states = Cleared(m).states
    BY <1>2, StatesAfter
<1> HIDE DEF q, s
<1>4. Tells(q, m.held, s.held) /\ Tells(q, m.held, Cleared(m).held)
    BY <1>1 DEF Tells
<1>5. CASE RunExit
    <2>1. /\ owner = "none" /\ m' = s /\ pending' = q /\ Commit("exit", s, q)
          /\ UNCHANGED <<status, chan, captureVars, stage>>
        BY <1>5 DEF RunExit, Free, Commit, sourceVars, q, s
    <2>2. Commit("exit", m', pending')
        BY <2>1
    <2> QED BY <1>1, <1>2, <1>3, <1>4, <2>1, <2>2 DEF Handled, StateInv
<1>6. CASE CloseReset
    <2>1. /\ owner = "none" /\ m' = Cleared(m) /\ pending' = q /\ Commit("close", Cleared(m), q)
          /\ UNCHANGED <<status, chan, captureVars, stage>>
        BY <1>6 DEF CloseReset, Free, Commit, sourceVars, q
    <2>2. Commit("close", m', pending')
        BY <2>1
    <2> QED BY <1>1, <1>2, <1>4, <2>1, <2>2 DEF Handled, StateInv
<1> QED BY <1>5, <1>6

-----------------------------------------------------------------------------
(* Type correctness.                                                       *)

LifeInv ==
    /\ closer \in {"open", "closing", "waiting", "done"}
    /\ runner \in {"none", "live", "got", "done"}
    /\ running \in BOOLEAN /\ cancelled \in BOOLEAN /\ failure \in BOOLEAN
    /\ heard \in BOOLEAN /\ capturing \in BOOLEAN

\* Whoever has the mutex publishes all it has to say before it lets go.
QueueInv ==
    /\ owner \in {"none", "run", "exit", "close"}
    /\ pending \in Seq(Batches)
    /\ owner = "none" => pending = <<>>
    /\ owner = "close" => m.held = {}
    /\ status \in [Subs -> {"new", "live", "closed"}]
    /\ chan \in [Subs -> Seq(Event)]
    /\ \A s \in Subs : Len(chan[s]) <= Cap

HistoryInv ==
    /\ believed \subseteq Controls /\ quiet \subseteq Controls
    /\ heldSince \subseteq m.held

CaptureTypes ==
    /\ capPc \in {"idle", "entered", "loop", "check", "unsubscribe", "leave"}
    /\ candidate \in Controls \cup {NoControl}
    /\ capPc = "entered" => candidate = NoControl

TypesInv == StateInv /\ LifeInv /\ QueueInv /\ HistoryInv /\ CaptureTypes

\* Steps that move program counters only; one may let go of the mutex.
Idle ==
    \/ EndApply \/ Start \/ ReadMessage \/ ApplyNothing \/ EndExit \/ Cancel
    \/ CloseBegin \/ CloseCancel \/ UNCHANGED vars

LEMMA IdleStep ==
    ASSUME Idle
    PROVE  /\ UNCHANGED <<m, stage, pending, status, chan, historyVars, captureVars>>
           /\ owner' = owner \/ (owner' = "none" /\ pending = <<>>)
<1>1. CASE EndApply \/ EndExit
    BY <1>1 DEF EndApply, EndExit, sourceVars
<1>2. CASE Start \/ ReadMessage \/ ApplyNothing \/ Cancel \/ CloseBegin \/ CloseCancel
    BY <1>2 DEF Start, ReadMessage, ApplyNothing, Cancel, CloseBegin, CloseCancel, sourceVars
<1>3. CASE UNCHANGED vars
    BY <1>3 DEF vars, historyVars, captureVars
<1> QED BY <1>1, <1>2, <1>3 DEF Idle

CaptureActs == CaptureBegin \/ CaptureStep \/ CaptureContextDone

LEMMA StepIs ==
    ASSUME [Next]_vars
    PROVE  \/ Idle \/ PublishOne \/ ApplyMessage \/ RunExit \/ CloseReset \/ EndClose
           \/ WatchSubscribe \/ WatchReceive \/ CaptureActs
BY DEF Next, Idle, CaptureActs

LEMMA HandlerStep ==
    ASSUME Agrees(m), StateInv, ApplyMessage \/ RunExit \/ CloseReset
    PROVE  StateInv' /\ \E who \in {"run", "exit", "close"} : Handled(who)
BY ApplyHandled, ResetHandled

\* One event leaves the head of the queue.
LEMMA HeadRemoved ==
    ASSUME NEW q \in Seq(Batches), q # <<>>, NEW e \in Head(q)
    PROVE  LET r == IF Head(q) = {e} THEN Tail(q) ELSE <<Head(q) \ {e}>> \o Tail(q)
           IN /\ r \in Seq(Batches) /\ e \in Event /\ Has(q, e)
              /\ \A x : Has(r, x) => Has(q, x)
              /\ \A x : Has(q, x) /\ x # e => Has(r, x)
<1> DEFINE tail == Tail(q)
           rest == Head(q) \ {e}
           r == IF Head(q) = {e} THEN tail ELSE <<rest>> \o tail
<1>1. /\ Len(q) \in Nat \ {0} /\ Head(q) = q[1] /\ DOMAIN q = 1..Len(q) /\ q[1] \in Batches
    BY EmptySeq
<1>2. /\ tail \in Seq(Batches) /\ Len(tail) = Len(q) - 1 /\ DOMAIN tail = 1..(Len(q) - 1)
      /\ \A i \in 1..(Len(q) - 1) : tail[i] = q[i + 1]
    BY HeadTailProperties
<1> HIDE DEF tail
<1>3. \A x : Has(q, x) <=> x \in q[1] \/ Has(tail, x)
    <2>1. ASSUME NEW x, NEW i \in DOMAIN q, x \in q[i] PROVE x \in q[1] \/ Has(tail, x)
        <3>1. CASE i = 1
            BY <2>1, <3>1
        <3>2. CASE i # 1
            <4>1. i - 1 \in DOMAIN tail /\ tail[i - 1] = q[i]
                BY <1>1, <1>2, <3>2
            <4> QED BY <2>1, <4>1 DEF Has
        <3> QED BY <3>1, <3>2
    <2>2. ASSUME NEW x, NEW i \in DOMAIN tail, x \in tail[i] PROVE Has(q, x)
        <3>1. i + 1 \in DOMAIN q /\ q[i + 1] = tail[i]
            BY <1>1, <1>2
        <3> QED BY <2>2, <3>1 DEF Has
    <2>3. 1 \in DOMAIN q
        BY <1>1
    <2> QED BY <2>1, <2>2, <2>3 DEF Has
<1>4. e \in q[1] /\ e \in Event
    BY <1>1 DEF Batches
<1>5. CASE Head(q) = {e}
    <2>1. r = tail /\ q[1] = {e}
        BY <1>1, <1>5
    <2> HIDE DEF r
    <2> QED BY <1>2, <1>3, <1>4, <2>1 DEF r, tail
<1>6. CASE Head(q) # {e}
    <2>1. rest \in Batches
        BY <1>1, <1>4, <1>6 DEF Batches
    <2> HIDE DEF rest
    <2> DEFINE one == <<rest>>
    <2>2. one \in Seq(Batches) /\ DOMAIN one = {1} /\ one[1] = rest
        BY <2>1
    <2> HIDE DEF one
    <2>3. \A x : Has(one, x) <=> x \in rest
        BY <2>2 DEF Has
    <2>4. r = one \o tail
        BY <1>6 DEF one
    <2> HIDE DEF r
    <2>5. r \in Seq(Batches) /\ \A x : Has(r, x) <=> x \in rest \/ Has(tail, x)
        BY <1>2, <2>2, <2>3, <2>4, ConcatFacts
    <2>6. \A x : x \in rest <=> x \in q[1] /\ x # e
        BY <1>1 DEF rest
    <2>7. /\ \A x : Has(r, x) => Has(q, x)
          /\ \A x : Has(q, x) /\ x # e => Has(r, x)
        BY <1>3, <2>5, <2>6
    <2> QED BY <1>3, <1>4, <2>5, <2>7 DEF r, tail, rest
<1> QED BY <1>5, <1>6

\* What one step of publishing does to the queue and the channels.
LEMMA PublishFacts ==
    ASSUME QueueInv, PublishOne
    PROVE  \E e \in Event :
               /\ Has(pending, e) /\ pending' \in Seq(Batches)
               /\ \A x : Has(pending', x) => Has(pending, x)
               /\ \A x : Has(pending, x) /\ x # e => Has(pending', x)
               /\ chan' = [s \in Subs |-> Delivered(s, e)]
               /\ quiet' = IF "watch" \in Subs /\ Full("watch") THEN m.held ELSE quiet
<1>1. PICK e \in Head(pending) :
          /\ chan' = [s \in Subs |-> Delivered(s, e)]
          /\ quiet' = IF "watch" \in Subs /\ Full("watch") THEN m.held ELSE quiet
          /\ pending' = IF Head(pending) = {e} THEN Tail(pending)
                        ELSE <<Head(pending) \ {e}>> \o Tail(pending)
    BY DEF PublishOne
<1>2. pending \in Seq(Batches) /\ pending # <<>>
    BY DEF QueueInv, PublishOne
<1> QED BY <1>1, <1>2, HeadRemoved

LEMMA DeliveredTyped ==
    ASSUME QueueInv, NEW s \in Subs, NEW e \in Event
    PROVE  Delivered(s, e) \in Seq(Event) /\ Len(Delivered(s, e)) <= Cap
<1>1. chan[s] \in Seq(Event) /\ Len(chan[s]) \in Nat /\ Len(chan[s]) <= Cap /\ Cap \in Nat \ {0}
    BY CapAssumption DEF QueueInv
<1>2. CASE Full(s)
    <2>1. Note("reset") \in Event
        BY EventFacts
    <2>2. <<Note("reset")>> \in Seq(Event) /\ Len(<<Note("reset")>>) = 1
        BY <2>1
    <2> QED BY <1>1, <1>2, <2>2 DEF Delivered
<1>3. CASE ~Full(s) /\ status[s] = "live"
    <2>1. /\ Append(chan[s], e) \in Seq(Event)
          /\ Len(Append(chan[s], e)) = Len(chan[s]) + 1
        BY <1>1, AppendProperties
    <2> QED BY <1>1, <1>3, <2>1 DEF Delivered, Full
<1>4. CASE ~Full(s) /\ status[s] # "live"
    BY <1>1, <1>4 DEF Delivered
<1> QED BY <1>2, <1>3, <1>4

LEMMA LifeStep == LifeInv /\ [Next]_vars => LifeInv'
<1> SUFFICES ASSUME LifeInv, [Next]_vars PROVE LifeInv'
    OBVIOUS
<1>1. CASE UNCHANGED <<lifeVars, heard, capturing>>
    BY <1>1 DEF LifeInv, lifeVars
<1>2. CASE PublishOne \/ EndApply \/ CloseReset \/ WatchSubscribe \/ WatchReceive \/ UNCHANGED vars
    BY <1>1, <1>2 DEF PublishOne, EndApply, CloseReset, WatchSubscribe, WatchReceive, vars, lifeVars,
                      sourceVars, captureVars
<1>3. CASE Start \/ RunExit
    <2>1. /\ running' \in {TRUE, FALSE} /\ runner' \in {"live", runner}
          /\ UNCHANGED <<closer, cancelled, failure, heard, capturing>>
        BY <1>3 DEF Start, RunExit, sourceVars, captureVars
    <2> QED BY <2>1 DEF LifeInv
<1>4. CASE ReadMessage \/ ApplyNothing
    BY <1>4 DEF ReadMessage, ApplyNothing, sourceVars, captureVars, LifeInv
<1>5. CASE ApplyMessage
    <2>1. /\ runner' = "live" /\ heard' = TRUE
          /\ UNCHANGED <<closer, running, cancelled, failure, capturing>>
        BY <1>5 DEF ApplyMessage, ApplyReset, ApplyKeyboardStatus, ApplyConnected,
                    ApplyDisconnected, ApplySnapshot, Apply, captureVars
    <2> QED BY <2>1 DEF LifeInv
<1>6. CASE EndExit \/ Cancel \/ CloseCancel
    <2>1. /\ runner' \in {"done", runner} /\ closer' \in {"waiting", closer}
          /\ failure' \in {failure, ~cancelled} /\ cancelled' \in {cancelled, TRUE, cancelled \/ runner # "none"}
          /\ UNCHANGED <<running, heard, capturing>>
        BY <1>6 DEF EndExit, Cancel, CloseCancel, sourceVars, captureVars
    <2> QED BY <2>1 DEF LifeInv
<1>7. CASE CloseBegin \/ EndClose
    BY <1>7 DEF CloseBegin, EndClose, sourceVars, captureVars, LifeInv
<1>8. CASE CaptureActs
    <2>1. capturing' \in {capturing, TRUE, FALSE} /\ UNCHANGED <<lifeVars, heard>>
        BY <1>8 DEF CaptureActs, CaptureBegin, CaptureStep, CaptureSubscribe, CaptureReceive,
                    CaptureCheck, CaptureEOF, CaptureUnsubscribe, CaptureLeave,
                    CaptureContextDone, captureFrame, sourceVars
    <2> QED BY <2>1 DEF LifeInv, lifeVars
<1> QED BY <1>2, <1>3, <1>4, <1>5, <1>6, <1>7, <1>8, StepIs DEF Idle

\* The steps of Capture change the channel of "capture" only.
LEMMA CaptureFrame ==
    ASSUME QueueInv, CaptureActs
    PROVE  /\ UNCHANGED <<m, stage, owner, pending, believed, quiet>>
           /\ \/ UNCHANGED <<status, chan>>
              \/ /\ Free /\ chan' = [chan EXCEPT !["capture"] = <<>>]
                 /\ \E now \in {"live", "closed"} : status' = [status EXCEPT !["capture"] = now]
              \/ /\ UNCHANGED status /\ chan["capture"] # <<>>
                 /\ chan' = [chan EXCEPT !["capture"] = Tail(chan["capture"])]
           /\ heldSince' \in {heldSince, m.held, {}}
BY DEF CaptureActs, CaptureBegin, CaptureStep, CaptureSubscribe, CaptureReceive, CaptureCheck,
       CaptureEOF, CaptureUnsubscribe, CaptureLeave, CaptureContextDone, captureFrame, sourceVars

LEMMA TailTyped ==
    ASSUME NEW q \in Seq(Event), q # <<>>
    PROVE  /\ Tail(q) \in Seq(Event) /\ Len(Tail(q)) = Len(q) - 1 /\ Len(q) \in Nat \ {0}
           /\ Head(q) = q[1] /\ q[1] \in Event /\ DOMAIN q = 1..Len(q)
           /\ DOMAIN Tail(q) = 1..(Len(q) - 1) /\ \A i \in 1..(Len(q) - 1) : Tail(q)[i] = q[i + 1]
<1>1. Len(q) \in Nat \ {0} /\ DOMAIN q = 1..Len(q) /\ Head(q) = q[1] /\ q[1] \in Event
    BY EmptySeq
<1> QED BY <1>1, HeadTailProperties

LEMMA QueueStep == Agrees(m) /\ TypesInv /\ [Next]_vars => QueueInv'
<1> SUFFICES ASSUME Agrees(m), TypesInv, [Next]_vars PROVE QueueInv'
    OBVIOUS
<1>1. QueueInv /\ StateInv
    BY DEF TypesInv
<1>2. CASE Idle
    BY <1>1, <1>2, IdleStep DEF QueueInv
<1>3. CASE PublishOne
    <2>1. PICK e \in Event : /\ pending' \in Seq(Batches)
                             /\ chan' = [s \in Subs |-> Delivered(s, e)]
        BY <1>1, <1>3, PublishFacts
    <2>2. owner # "none" /\ UNCHANGED <<m, owner, status>>
        BY <1>1, <1>3 DEF PublishOne, QueueInv
    <2>3. chan' \in [Subs -> Seq(Event)] /\ \A s \in Subs : Len(chan'[s]) <= Cap
        BY <1>1, <2>1, DeliveredTyped
    <2> QED BY <1>1, <2>1, <2>2, <2>3 DEF QueueInv
<1>4. CASE ApplyMessage \/ RunExit \/ CloseReset
    <2>1. PICK who \in {"run", "exit", "close"} : Handled(who)
        BY <1>1, <1>4, HandlerStep
    <2>2. owner' = IF pending' = <<>> /\ who = "run" THEN "none" ELSE who
        BY <2>1 DEF Handled, Commit
    <2> QED BY <1>1, <2>1, <2>2 DEF Handled, QueueInv
<1>5. CASE EndClose
    BY <1>1, <1>5 DEF EndClose, QueueInv
<1>6. CASE WatchSubscribe
    <2>1. status' \in [Subs -> {"new", "live", "closed"}] /\ UNCHANGED <<m, owner, pending, chan>>
        BY <1>1, <1>6 DEF WatchSubscribe, QueueInv
    <2> QED BY <1>1, <2>1 DEF QueueInv
<1>7. CASE WatchReceive
    <2>1. /\ "watch" \in Subs /\ chan["watch"] # <<>> /\ chan' = [chan EXCEPT !["watch"] = Tail(@)]
          /\ UNCHANGED <<m, owner, pending, status>>
        BY <1>7 DEF WatchReceive
    <2>2. chan' \in [Subs -> Seq(Event)] /\ \A s \in Subs : Len(chan'[s]) <= Cap
        BY <1>1, <2>1, TailTyped, CapAssumption DEF QueueInv
    <2> QED BY <1>1, <2>1, <2>2 DEF QueueInv
<1>8. CASE CaptureActs
    <2>1. status' \in [Subs -> {"new", "live", "closed"}]
        BY <1>1, <1>8, CaptureFrame DEF QueueInv
    <2>2. chan' \in [Subs -> Seq(Event)] /\ \A s \in Subs : Len(chan'[s]) <= Cap
        <3>1. CASE chan' = [chan EXCEPT !["capture"] = <<>>]
            <4>1. \A s \in Subs : chan'[s] = IF s = "capture" THEN <<>> ELSE chan[s]
                BY <1>1, <3>1 DEF QueueInv
            <4>2. <<>> \in Seq(Event) /\ Len(<<>>) = 0 /\ 0 <= Cap
                BY CapAssumption
            <4>3. DOMAIN chan' = Subs /\ chan' = [s \in Subs |-> chan'[s]]
                BY <1>1, <3>1 DEF QueueInv
            <4>4. \A s \in Subs : chan'[s] \in Seq(Event) /\ Len(chan'[s]) <= Cap
                BY <1>1, <4>1, <4>2 DEF QueueInv
            <4> QED BY <4>3, <4>4
        <3>2. CASE chan["capture"] # <<>> /\ chan' = [chan EXCEPT !["capture"] = Tail(chan["capture"])]
            <4> DEFINE rest == Tail(chan["capture"])
            <4>1. \A s \in Subs : chan'[s] = IF s = "capture" THEN rest ELSE chan[s]
                BY <1>1, <3>2 DEF QueueInv
            <4>2. DOMAIN chan' = Subs /\ chan' = [s \in Subs |-> chan'[s]]
                BY <1>1, <3>2 DEF QueueInv
            <4>3. "capture" \in Subs => rest \in Seq(Event) /\ Len(rest) <= Cap
                BY <1>1, <3>2, TailTyped, CapAssumption DEF QueueInv
            <4> HIDE DEF rest
            <4>4. \A s \in Subs : chan'[s] \in Seq(Event) /\ Len(chan'[s]) <= Cap
                BY <1>1, <4>1, <4>3 DEF QueueInv
            <4> QED BY <4>2, <4>4
        <3> QED BY <1>1, <1>8, <3>1, <3>2, CaptureFrame DEF QueueInv
    <2> QED BY <1>1, <1>8, <2>1, <2>2, CaptureFrame DEF QueueInv
<1> QED BY <1>2, <1>3, <1>4, <1>5, <1>6, <1>7, <1>8, StepIs

LEMMA HistoryStep == Agrees(m) /\ Agrees(m') /\ TypesInv /\ [Next]_vars => HistoryInv'
<1> SUFFICES ASSUME Agrees(m), Agrees(m'), TypesInv, [Next]_vars PROVE HistoryInv'
    OBVIOUS
<1>1. QueueInv /\ StateInv /\ HistoryInv /\ m.held \subseteq Controls /\ m'.held \subseteq Controls
    BY HeldTyped DEF TypesInv
<1>2. CASE Idle
    BY <1>1, <1>2, IdleStep DEF HistoryInv, historyVars
<1>3. CASE PublishOne
    <2>1. quiet' \in {quiet, m.held} /\ UNCHANGED <<m, believed, heldSince>>
        BY <1>3 DEF PublishOne
    <2> QED BY <1>1, <2>1 DEF HistoryInv
<1>4. CASE ApplyMessage \/ RunExit \/ CloseReset
    <2>1. PICK who \in {"run", "exit", "close"} : Handled(who)
        BY <1>1, <1>4, HandlerStep
    <2>2. /\ quiet' \subseteq quiet \cup m'.held /\ heldSince' = heldSince \cap m'.held
          /\ UNCHANGED believed
        BY <2>1 DEF Handled, Commit
    <2> QED BY <1>1, <2>2 DEF HistoryInv
<1>5. CASE EndClose
    BY <1>1, <1>5 DEF EndClose, HistoryInv, historyVars
<1>6. CASE WatchSubscribe
    BY <1>1, <1>6 DEF WatchSubscribe, HistoryInv
<1>7. CASE WatchReceive
    <2> DEFINE e == Head(chan["watch"])
    <2>1. /\ "watch" \in Subs /\ chan["watch"] # <<>>
          /\ believed' \in {believed, believed \cup {e.ctl}, believed \ {e.ctl}, {}}
          /\ believed' = believed \cup {e.ctl} => believed' = believed \/ e.type = "press" \/ believed' = {}
          /\ UNCHANGED <<m, quiet, heldSince>>
        BY <1>7 DEF WatchReceive
    <2>2. e \in Event
        BY <1>1, <2>1, TailTyped DEF QueueInv
    <2>3. e.type = "press" => e.ctl \in Controls
        BY <2>2 DEF Event
    <2> HIDE DEF e
    <2> QED BY <1>1, <2>1, <2>3 DEF HistoryInv
<1>8. CASE CaptureActs
    BY <1>1, <1>8, CaptureFrame DEF HistoryInv
<1> QED BY <1>2, <1>3, <1>4, <1>5, <1>6, <1>7, <1>8, StepIs

\* What one turn of Capture's loop makes of the event e.
LEMMA ReceiveFacts ==
    ASSUME QueueInv, "capture" \in Subs, CaptureReceive
    PROVE  LET e == Head(chan["capture"])
           IN /\ e \in Event /\ chan["capture"] # <<>>
              /\ UNCHANGED <<status, heldSince, m, pending>>
              /\ chan' = [chan EXCEPT !["capture"] = Tail(chan["capture"])]
              /\ \/ capPc' = "unsubscribe" /\ candidate' = NoControl
                 \/ /\ e.type \in {"connected", "disconnected"} \/ candidate = NoControl
                    /\ UNCHANGED <<capPc, candidate>>
                 \/ e.type = "press" /\ e.ctl \in Controls /\ capPc' = "check" /\ candidate' = e.ctl
                 \/ capPc' = "check" /\ UNCHANGED candidate
<1> DEFINE e == Head(chan["capture"])
<1>1. chan["capture"] # <<>> /\ chan["capture"] \in Seq(Event)
    BY DEF CaptureReceive, QueueInv
<1>2. e \in Event
    BY <1>1, TailTyped
<1>3. e.type = "press" => e.ctl \in Controls
    BY <1>2 DEF Event
<1>4. e.type \in {"press", "release", "reset", "connected", "disconnected"}
    BY <1>2 DEF Event
<1>5. /\ UNCHANGED <<status, heldSince, m, pending>>
      /\ chan' = [chan EXCEPT !["capture"] = Tail(chan["capture"])]
    BY DEF CaptureReceive, captureFrame
<1>6. \/ capPc' = "unsubscribe" /\ candidate' = NoControl
      \/ /\ e.type \notin {"press", "release", "reset"} \/ candidate = NoControl
         /\ UNCHANGED <<capPc, candidate>>
      \/ e.type = "press" /\ capPc' = "check" /\ candidate' = e.ctl
      \/ capPc' = "check" /\ UNCHANGED candidate
    BY DEF CaptureReceive, Abandons, Candidate
<1> HIDE DEF e
<1>7. \/ capPc' = "unsubscribe" /\ candidate' = NoControl
      \/ /\ e.type \in {"connected", "disconnected"} \/ candidate = NoControl
         /\ UNCHANGED <<capPc, candidate>>
      \/ e.type = "press" /\ e.ctl \in Controls /\ capPc' = "check" /\ candidate' = e.ctl
      \/ capPc' = "check" /\ UNCHANGED candidate
    BY <1>3, <1>4, <1>6
<1> QED BY <1>1, <1>2, <1>5, <1>7 DEF e

\* Only one who subscribes ever enters Capture.
CaptureIdle == "capture" \notin Subs => capPc = "idle" /\ candidate = NoControl

LEMMA CaptureTypesStep ==
    CaptureIdle /\ QueueInv /\ CaptureTypes /\ [Next]_vars => CaptureIdle' /\ CaptureTypes'
<1> SUFFICES ASSUME CaptureIdle, QueueInv, CaptureTypes, [Next]_vars
             PROVE  CaptureIdle' /\ CaptureTypes'
    OBVIOUS
<1>1. CASE UNCHANGED captureVars
    BY <1>1 DEF captureVars, CaptureIdle, CaptureTypes
<1>2. CASE Idle
    BY <1>1, <1>2, IdleStep
<1>3. CASE PublishOne \/ RunExit \/ CloseReset \/ EndClose \/ WatchSubscribe \/ WatchReceive
    BY <1>1, <1>3 DEF PublishOne, RunExit, CloseReset, EndClose, WatchSubscribe, WatchReceive
<1>4. CASE ApplyMessage
    BY <1>1, <1>4 DEF ApplyMessage, ApplyReset, ApplyKeyboardStatus, ApplyConnected,
                      ApplyDisconnected, ApplySnapshot, Apply
<1>5. CASE CaptureReceive
    <2>1. "capture" \in Subs
        BY <1>5 DEF CaptureReceive, CaptureIdle
    <2>2. capPc = "loop"
        BY <1>5 DEF CaptureReceive
    <2> QED BY <1>5, <2>1, <2>2, ReceiveFacts DEF CaptureIdle, CaptureTypes
<1>6. CASE CaptureBegin \/ CaptureSubscribe \/ CaptureCheck \/ CaptureEOF \/ CaptureUnsubscribe
           \/ CaptureLeave \/ CaptureContextDone
    <2>1. /\ "capture" \in Subs
          /\ capPc' \in {"idle", "entered", "loop", "check", "unsubscribe", "leave"}
          /\ candidate' \in {candidate, NoControl}
          /\ capPc' = "entered" => candidate' = NoControl
        BY <1>6 DEF CaptureBegin, CaptureSubscribe, CaptureCheck, CaptureEOF, CaptureUnsubscribe,
                    CaptureLeave, CaptureContextDone, CaptureIdle
    <2> QED BY <2>1 DEF CaptureIdle, CaptureTypes
<1> QED BY <1>2, <1>3, <1>4, <1>5, <1>6, StepIs DEF CaptureActs, CaptureStep

LEMMA StateStep == Agrees(m) /\ StateInv /\ [Next]_vars => StateInv'
<1> SUFFICES ASSUME Agrees(m), StateInv, [Next]_vars PROVE StateInv'
    OBVIOUS
<1>1. CASE UNCHANGED <<m, stage>>
    BY <1>1 DEF StateInv
<1>2. CASE PublishOne \/ EndClose \/ WatchSubscribe \/ WatchReceive
    BY <1>1, <1>2 DEF PublishOne, EndClose, WatchSubscribe, WatchReceive, sourceVars
<1>3. CASE CaptureActs
    BY <1>1, <1>3 DEF CaptureActs, CaptureBegin, CaptureStep, CaptureSubscribe, CaptureReceive,
                      CaptureCheck, CaptureEOF, CaptureUnsubscribe, CaptureLeave,
                      CaptureContextDone, captureFrame, sourceVars
<1> QED BY <1>1, <1>2, <1>3, IdleStep, HandlerStep, StepIs

LEMMA TypesHold == Spec => [](TypesInv /\ CaptureIdle)
<1>1. Init => TypesInv /\ CaptureIdle
    <2> SUFFICES ASSUME Init PROVE TypesInv /\ CaptureIdle
        OBVIOUS
    <2>1. StateInv
        <3>1. m.states = <<>> /\ m.devices = {} /\ m.active = FALSE /\ m.held = {}
            BY DEF Init, EmptyState
        <3>2. m.active \in BOOLEAN
            BY <3>1, Zenon
        <3>3. Typed(m) /\ DOMAIN m.states = {}
            BY <3>1, <3>2 DEF Typed
        <3> QED BY <3>3 DEF Init, StateInv
    <2>2. LifeInv
        BY DEF Init, LifeInv
    <2>3. QueueInv
        BY CapAssumption DEF Init, QueueInv, Batches
    <2>4. HistoryInv /\ CaptureTypes /\ CaptureIdle
        BY DEF Init, HistoryInv, CaptureTypes, CaptureIdle
    <2> QED BY <2>1, <2>2, <2>3, <2>4 DEF TypesInv
<1>2. IInv /\ IInv' /\ TypesInv /\ CaptureIdle /\ [Next]_vars => TypesInv' /\ CaptureIdle'
    BY StateStep, LifeStep, QueueStep, HistoryStep, CaptureTypesStep DEF IInv, TypesInv
<1> QED BY <1>1, <1>2, Invariant, PTL DEF Spec

-----------------------------------------------------------------------------
(* What Capture may record.                                                *)

\* A press of a control held ever since Capture subscribed is neither in its
\* channel nor about to be published: such a control was held when any press
\* still under way was published, and only what was not held is pressed.
FreshInv ==
    /\ candidate \notin heldSince
    /\ \A c \in heldSince : ~Has(pending, Press(c))
    /\ "capture" \in Subs =>
           \A c \in heldSince : \A i \in DOMAIN chan["capture"] : chan["capture"][i] # Press(c)

LEMMA NoControlIsNone == NoControl \notin Controls
<1> SUFFICES ASSUME NEW d \in Devices, NoControl \in ControlsOf(d) PROVE FALSE
    BY DEF Controls
<1>1. NoControl[1] = "none"
    BY DEF NoControl
<1>2. \A c \in ControlsOf(d) : c[1] \in {"key", "button", "hat"}
    BY DEF ControlsOf, KeyControls, KeyControl, ButtonControls, HatControls
<1> QED BY <1>1, <1>2

LEMMA FreshStep ==
    Agrees(m) /\ TypesInv /\ CaptureIdle /\ FreshInv /\ [Next]_vars => FreshInv'
<1> SUFFICES ASSUME Agrees(m), TypesInv, CaptureIdle, FreshInv, [Next]_vars PROVE FreshInv'
    OBVIOUS
<1>1. QueueInv /\ StateInv /\ HistoryInv /\ CaptureTypes /\ m.held \subseteq Controls
    BY HeldTyped DEF TypesInv
<1>2. heldSince \subseteq Controls /\ NoControl \notin m.held
    BY <1>1, NoControlIsNone DEF HistoryInv
<1>3. CASE Idle \/ EndClose \/ WatchSubscribe
    <2>1. UNCHANGED <<candidate, heldSince, pending, chan>>
        BY <1>3, IdleStep DEF EndClose, WatchSubscribe, captureVars, historyVars
    <2> QED BY <2>1 DEF FreshInv
<1>4. CASE PublishOne
    <2>1. PICK e \in Event :
              /\ Has(pending, e)
              /\ \A x : Has(pending', x) => Has(pending, x)
              /\ chan' = [s \in Subs |-> Delivered(s, e)]
        BY <1>1, <1>4, PublishFacts
    <2>2. UNCHANGED <<candidate, heldSince>>
        BY <1>4 DEF PublishOne, captureVars
    <2>3. ASSUME "capture" \in Subs, NEW c \in heldSince, NEW i \in DOMAIN chan'["capture"]
          PROVE  chan'["capture"][i] # Press(c)
        <3> DEFINE q == chan["capture"]
        <3>1. chan'["capture"] = Delivered("capture", e) /\ q \in Seq(Event)
            BY <1>1, <2>1, <2>3 DEF QueueInv
        <3>2. e # Press(c) /\ Note("reset") # Press(c) /\ \A j \in DOMAIN q : q[j] # Press(c)
            BY <1>2, <2>1, <2>3, EventFacts DEF FreshInv
        <3>3. CASE chan'["capture"] = <<Note("reset")>>
            BY <2>3, <3>2, <3>3
        <3>4. CASE chan'["capture"] = Append(q, e)
            <4>1. i \in 1..(Len(q) + 1) /\ Len(q) \in Nat /\ DOMAIN q = 1..Len(q)
                BY <2>3, <3>1, <3>4, AppendProperties
            <4>2. chan'["capture"][i] = IF i = Len(q) + 1 THEN e ELSE q[i]
                BY <3>1, <3>4, <4>1, AppendProperties
            <4> QED BY <3>2, <4>1, <4>2
        <3>5. CASE chan'["capture"] = q
            BY <2>3, <3>2, <3>5
        <3> QED BY <3>1, <3>3, <3>4, <3>5 DEF Delivered
    <2> QED BY <2>1, <2>2, <2>3 DEF FreshInv
<1>5. CASE ApplyMessage \/ RunExit \/ CloseReset
    <2>1. PICK who \in {"run", "exit", "close"} : Handled(who)
        BY <1>1, <1>5, HandlerStep
    <2>2. /\ heldSince' = heldSince \cap m'.held /\ UNCHANGED <<candidate, chan>>
          /\ Tells(pending', m.held, m'.held)
        BY <2>1 DEF Handled, Commit, captureVars
    <2>3. ASSUME NEW c \in heldSince' PROVE ~Has(pending', Press(c))
        <3>1. c \in Controls /\ c \in m.held
            BY <1>1, <1>2, <2>2 DEF HistoryInv
        <3> QED BY <2>2, <3>1 DEF Tells, Edgeless
    <2> QED BY <2>2, <2>3 DEF FreshInv
<1>6. CASE WatchReceive
    <2>1. /\ UNCHANGED <<candidate, heldSince, pending>>
          /\ "capture" \in Subs => chan'["capture"] = chan["capture"]
        BY <1>1, <1>6 DEF WatchReceive, captureVars, QueueInv
    <2> QED BY <2>1 DEF FreshInv
<1>7. CASE CaptureSubscribe
    <2>1. /\ heldSince' = m.held /\ pending' = <<>> /\ candidate' = NoControl
          /\ "capture" \in Subs => chan'["capture"] = <<>>
        BY <1>1, <1>7 DEF CaptureSubscribe, captureFrame, QueueInv, CaptureTypes, Free
    <2>2. \A x : ~Has(<<>>, x)
        BY NotesFacts
    <2>3. DOMAIN <<>> = {}
        OBVIOUS
    <2> QED BY <1>2, <2>1, <2>2, <2>3 DEF FreshInv
<1>8. CASE CaptureReceive
    <2> DEFINE q == chan["capture"]
               e == Head(q)
    <2>1. "capture" \in Subs
        BY <1>8 DEF CaptureReceive, CaptureIdle
    <2>2. /\ UNCHANGED <<heldSince, pending>> /\ q # <<>> /\ e \in Event
          /\ chan' = [chan EXCEPT !["capture"] = Tail(q)]
          /\ \/ candidate' \in {NoControl, candidate}
             \/ e.type = "press" /\ e.ctl \in Controls /\ candidate' = e.ctl
        BY <1>1, <1>8, <2>1, ReceiveFacts
    <2>3. q \in Seq(Event) /\ chan'["capture"] = Tail(q)
        BY <1>1, <2>1, <2>2 DEF QueueInv
    <2>4. /\ Len(q) \in Nat \ {0} /\ e = q[1] /\ DOMAIN q = 1..Len(q)
          /\ DOMAIN Tail(q) = 1..(Len(q) - 1) /\ \A i \in 1..(Len(q) - 1) : Tail(q)[i] = q[i + 1]
        BY <2>2, <2>3, TailTyped
    <2>5. \A c \in heldSince : \A i \in DOMAIN q : q[i] # Press(c)
        BY <2>1 DEF FreshInv
    <2>6. e.type = "press" => e = Press(e.ctl)
        BY <2>2 DEF Press, Event
    <2> HIDE DEF q, e
    <2>7. candidate' \notin heldSince
        <3>1. 1 \in DOMAIN q
            BY <2>4
        <3>2. e.type = "press" => e.ctl \notin heldSince
            BY <2>4, <2>5, <2>6, <3>1
        <3> QED BY <1>1, <1>2, <2>2, <3>2 DEF FreshInv, HistoryInv
    <2>8. ASSUME NEW c \in heldSince, NEW i \in DOMAIN Tail(q) PROVE Tail(q)[i] # Press(c)
        <3>1. i + 1 \in DOMAIN q /\ Tail(q)[i] = q[i + 1]
            BY <2>4
        <3> QED BY <2>5, <3>1
    <2> QED BY <2>2, <2>3, <2>7, <2>8 DEF FreshInv
<1>9. CASE CaptureBegin \/ CaptureCheck \/ CaptureEOF \/ CaptureContextDone
    <2>1. candidate' \in {NoControl, candidate} /\ UNCHANGED <<heldSince, pending, chan>>
        BY <1>9 DEF CaptureBegin, CaptureCheck, CaptureEOF, CaptureContextDone, captureFrame
    <2> QED BY <1>1, <1>2, <2>1 DEF FreshInv, HistoryInv
<1>10. CASE CaptureUnsubscribe \/ CaptureLeave
    <2>1. /\ candidate' \in {NoControl, candidate} /\ heldSince' \in {heldSince, {}}
          /\ UNCHANGED pending
          /\ "capture" \in Subs => chan'["capture"] \in {<<>>, chan["capture"]}
        BY <1>1, <1>10 DEF CaptureUnsubscribe, CaptureLeave, captureFrame, QueueInv
    <2>2. DOMAIN <<>> = {}
        OBVIOUS
    <2> QED BY <1>1, <1>2, <2>1, <2>2 DEF FreshInv, HistoryInv
<1> QED BY <1>3, <1>4, <1>5, <1>6, <1>7, <1>8, <1>9, <1>10, StepIs DEF CaptureActs, CaptureStep

-----------------------------------------------------------------------------
(* What Capture waits for.                                                 *)

\* The events after which Capture looks whether its gesture is over.
Wakes(e) == e.type \in {"press", "release", "reset"}

Awake ==
    \/ \E i \in DOMAIN chan["capture"] : Wakes(chan["capture"][i])
    \/ \E e : Has(pending, e) /\ Wakes(e)

\* A gesture that is over while Capture waits has an event on its way.
StrandInv ==
    "capture" \in Subs /\ capPc = "loop" /\ status["capture"] = "live"
        /\ candidate # NoControl /\ Released(candidate) => Awake

\* Released, as a function of the state of the manager.
ReleasedIn(s, c) ==
    CASE c[1] = "key" -> c \notin s.keys /\ s.keys \cap ModifierControls = {}
      [] c[1] = "hat" -> s.held \cap HatControls(c[2]) = {}
      [] OTHER -> c \notin s.held

\* Where less is held, a gesture that was over still is.
LEMMA ReleasedLess ==
    ASSUME NEW s, NEW t, Agrees(s), Agrees(t), s.held \subseteq t.held, NEW c, ReleasedIn(t, c)
    PROVE  ReleasedIn(s, c)
<1>1. s.keys = s.held \cap KeyControls /\ t.keys = t.held \cap KeyControls
    BY KeysAreShown DEF Agrees
<1>2. s.keys \subseteq t.keys
    BY <1>1
<1> QED BY <1>2 DEF ReleasedIn

LEMMA StrandStep ==
    Agrees(m) /\ Agrees(m') /\ TypesInv /\ StrandInv /\ [Next]_vars => StrandInv'
<1> SUFFICES ASSUME Agrees(m), Agrees(m'), TypesInv, StrandInv, [Next]_vars,
                    "capture" \in Subs, capPc' = "loop", status'["capture"] = "live",
                    candidate' # NoControl, ReleasedIn(m', candidate')
             PROVE  Awake'
    BY DEF StrandInv, Released, ReleasedIn
<1>1. QueueInv /\ StateInv /\ CaptureTypes
    BY DEF TypesInv
<1>2. ASSUME capPc = "loop", status["capture"] = "live", candidate # NoControl,
             ReleasedIn(m, candidate)
      PROVE  Awake
    BY <1>2 DEF StrandInv, Released, ReleasedIn
<1>3. CASE Idle \/ WatchSubscribe
    <2>1. UNCHANGED <<m, pending, chan, captureVars>> /\ status'["capture"] = status["capture"]
        BY <1>1, <1>3, IdleStep DEF WatchSubscribe, QueueInv
    <2> QED BY <1>2, <2>1 DEF Awake, captureVars
<1>4. CASE PublishOne
    <2>1. PICK e \in Event :
              /\ \A x : Has(pending, x) /\ x # e => Has(pending', x)
              /\ chan' = [s \in Subs |-> Delivered(s, e)]
        BY <1>1, <1>4, PublishFacts
    <2>2. UNCHANGED <<m, status, captureVars>>
        BY <1>4 DEF PublishOne
    <2>3. Awake
        BY <1>2, <2>2 DEF captureVars
    <2> DEFINE q == chan["capture"]  r == chan'["capture"]
    <2>4. q \in Seq(Event) /\ r = Delivered("capture", e)
        BY <1>1, <2>1 DEF QueueInv
    <2>5. CASE Full("capture")
        <3>1. r = <<Note("reset")>> /\ Wakes(Note("reset"))
            BY <2>4, <2>5 DEF Delivered, Wakes, Note
        <3>2. 1 \in DOMAIN r /\ r[1] = Note("reset")
            BY <3>1
        <3> QED BY <3>1, <3>2 DEF Awake
    <2>6. CASE ~Full("capture")
        <3>1. r = Append(q, e)
            BY <2>2, <2>4, <2>6 DEF Delivered
        <3>2. /\ DOMAIN r = 1..(Len(q) + 1) /\ Len(q) \in Nat /\ DOMAIN q = 1..Len(q)
              /\ r[Len(q) + 1] = e /\ \A i \in 1..Len(q) : r[i] = q[i]
            BY <2>4, <3>1, AppendProperties
        <3> HIDE DEF q, r
        <3>3. Len(q) + 1 \in DOMAIN r /\ \A i \in DOMAIN q : i \in DOMAIN r /\ r[i] = q[i]
            BY <3>2
        <3>4. \/ \E i \in DOMAIN q : Wakes(q[i])
              \/ \E x : Has(pending, x) /\ Wakes(x)
            BY <2>3 DEF Awake, q
        <3>5. \/ \E i \in DOMAIN r : Wakes(r[i])
              \/ \E x : Has(pending', x) /\ Wakes(x)
            <4>1. CASE \E i \in DOMAIN q : Wakes(q[i])
                BY <3>3, <4>1
            <4>2. CASE \E x : Has(pending, x) /\ Wakes(x)
                BY <2>1, <3>2, <3>3, <4>2
            <4> QED BY <3>4, <4>1, <4>2
        <3> QED BY <3>5 DEF Awake, r
    <2> QED BY <2>5, <2>6
<1>5. CASE ApplyMessage \/ RunExit \/ CloseReset
    <2>1. PICK who \in {"run", "exit", "close"} : Handled(who)
        BY <1>1, <1>5, HandlerStep
    <2>2. /\ UNCHANGED <<capPc, candidate, status, chan>> /\ pending = <<>>
          /\ Tells(pending', m.held, m'.held)
        BY <1>1, <2>1 DEF Handled, captureVars, QueueInv
    <2>3. CASE ReleasedIn(m, candidate)
        <3>1. \A x : ~Has(<<>>, x)
            BY NotesFacts
        <3>2. Awake
            BY <1>2, <2>2, <2>3
        <3> QED BY <2>2, <3>1, <3>2 DEF Awake
    <2>4. CASE ~ReleasedIn(m, candidate)
        <3>1. PICK c \in m.held : c \notin m'.held
            BY <2>2, <2>4, ReleasedLess
        <3>2. c \in Controls
            BY <3>1, HeldTyped
        <3>3. Has(pending', Note("reset")) \/ Has(pending', Release(c))
            BY <2>2, <3>1, <3>2 DEF Tells
        <3>4. Wakes(Note("reset")) /\ Wakes(Release(c))
            BY DEF Wakes, Note, Release
        <3> QED BY <3>3, <3>4 DEF Awake
    <2> QED BY <2>3, <2>4
<1>6. CASE EndClose
    <2>1. status' = [s \in Subs |-> IF status[s] = "live" THEN "closed" ELSE status[s]]
        BY <1>6 DEF EndClose
    <2> QED BY <2>1
<1>7. CASE WatchReceive
    <2>1. UNCHANGED <<m, pending, status, captureVars>> /\ chan'["capture"] = chan["capture"]
        BY <1>1, <1>7 DEF WatchReceive, QueueInv
    <2> QED BY <1>2, <2>1 DEF Awake, captureVars
<1>8. CASE CaptureReceive
    <2> DEFINE q == chan["capture"]
    <2>1. /\ UNCHANGED <<m, pending, status, capPc, candidate>> /\ q # <<>> /\ Head(q) \in Event
          /\ chan'["capture"] = Tail(q) /\ q \in Seq(Event)
          /\ Head(q).type \in {"connected", "disconnected"} \/ candidate = NoControl
        BY <1>1, <1>8, ReceiveFacts DEF QueueInv
    <2>2. /\ Len(q) \in Nat \ {0} /\ Head(q) = q[1] /\ DOMAIN q = 1..Len(q)
          /\ DOMAIN Tail(q) = 1..(Len(q) - 1) /\ \A i \in 1..(Len(q) - 1) : Tail(q)[i] = q[i + 1]
        BY <2>1, TailTyped
    <2>3. ~Wakes(q[1])
        BY <2>1, <2>2 DEF Wakes
    <2>4. capPc = "loop"
        BY <1>8 DEF CaptureReceive
    <2>5. Awake
        BY <1>2, <2>1, <2>4
    <2>6. ASSUME NEW i \in DOMAIN q, Wakes(q[i])
          PROVE  \E j \in DOMAIN Tail(q) : Wakes(Tail(q)[j])
        <3>1. i # 1
            BY <2>3, <2>6
        <3>2. i - 1 \in DOMAIN Tail(q) /\ Tail(q)[i - 1] = q[i]
            BY <2>2, <3>1
        <3> QED BY <2>6, <3>2
    <2> HIDE DEF q
    <2> QED BY <2>1, <2>5, <2>6 DEF Awake, q
<1>9. CASE CaptureCheck
    <2>1. UNCHANGED <<m, candidate>> /\ ~Released(candidate)
        BY <1>9 DEF CaptureCheck, captureFrame
    <2> QED BY <2>1 DEF Released, ReleasedIn
<1>10. CASE CaptureSubscribe
    BY <1>1, <1>10 DEF CaptureSubscribe, CaptureTypes
<1>11. CASE CaptureBegin \/ CaptureEOF \/ CaptureUnsubscribe \/ CaptureLeave \/ CaptureContextDone
    BY <1>11 DEF CaptureBegin, CaptureEOF, CaptureUnsubscribe, CaptureLeave, CaptureContextDone
<1> QED BY <1>3, <1>4, <1>5, <1>6, <1>7, <1>8, <1>9, <1>10, <1>11, StepIs
        DEF CaptureActs, CaptureStep

-----------------------------------------------------------------------------
(* What a watcher believes to be held.                                     *)

\* An event that settles whether c is held.
Decides(e, c) == e \in {Press(c), Release(c), Note("reset")}

\* No event of q after the i-th settles it.
Final(q, i, c) == \A j \in DOMAIN q : j > i => ~Decides(q[j], c)

\* Whether one who believes b and then reads q believes that c is held.
After(c, q, b) ==
    \/ \E i \in DOMAIN q : q[i] = Press(c) /\ Final(q, i, c)
    \/ c \in b /\ Final(q, 0, c)

Believes(c) == After(c, chan["watch"], believed)

LEMMA AfterAppend ==
    ASSUME NEW q \in Seq(Event), NEW e \in Event, NEW c, NEW b
    PROVE  After(c, Append(q, e), b) <=> e = Press(c) \/ (~Decides(e, c) /\ After(c, q, b))
<1> DEFINE r == Append(q, e)
<1>1. /\ Len(q) \in Nat /\ DOMAIN q = 1..Len(q) /\ DOMAIN r = 1..(Len(q) + 1)
      /\ r[Len(q) + 1] = e /\ \A i \in 1..Len(q) : r[i] = q[i]
    BY AppendProperties
<1> HIDE DEF r
<1>2. /\ Len(q) + 1 \in DOMAIN r /\ DOMAIN q \subseteq DOMAIN r
      /\ \A j \in DOMAIN r : j \in DOMAIN q \/ j = Len(q) + 1
      /\ \A i \in DOMAIN q : r[i] = q[i] /\ i \in Nat /\ Len(q) + 1 > i /\ ~(i > Len(q) + 1)
      /\ Len(q) + 1 > 0
    BY <1>1
<1>3. \A i \in DOMAIN q \cup {0} : Final(r, i, c) <=> Final(q, i, c) /\ ~Decides(e, c)
    <2> SUFFICES ASSUME NEW i \in DOMAIN q \cup {0}
                 PROVE  Final(r, i, c) <=> Final(q, i, c) /\ ~Decides(e, c)
        OBVIOUS
    <2>1. Len(q) + 1 > i
        BY <1>2
    <2>2. ASSUME Final(r, i, c) PROVE Final(q, i, c) /\ ~Decides(e, c)
        BY <1>1, <1>2, <2>1, <2>2 DEF Final
    <2>3. ASSUME Final(q, i, c), ~Decides(e, c) PROVE Final(r, i, c)
        BY <1>1, <1>2, <2>3 DEF Final
    <2> QED BY <2>2, <2>3
<1>4. Final(r, Len(q) + 1, c)
    BY <1>2 DEF Final
<1>5. e = Press(c) => Decides(e, c)
    BY DEF Decides
<1>6. ASSUME After(c, r, b) PROVE e = Press(c) \/ (~Decides(e, c) /\ After(c, q, b))
    <2>1. CASE c \in b /\ Final(r, 0, c)
        BY <1>3, <2>1 DEF After
    <2>2. ASSUME NEW i \in DOMAIN r, r[i] = Press(c), Final(r, i, c)
          PROVE  e = Press(c) \/ (~Decides(e, c) /\ After(c, q, b))
        <3>1. CASE i = Len(q) + 1
            BY <1>1, <2>2, <3>1
        <3>2. CASE i \in DOMAIN q
            BY <1>2, <1>3, <2>2, <3>2 DEF After
        <3> QED BY <1>2, <3>1, <3>2
    <2> QED BY <1>6, <2>1, <2>2 DEF After
<1>7. ASSUME e = Press(c) PROVE After(c, r, b)
    BY <1>1, <1>2, <1>4, <1>7 DEF After
<1>8. ASSUME ~Decides(e, c), After(c, q, b) PROVE After(c, r, b)
    <2>1. CASE c \in b /\ Final(q, 0, c)
        BY <1>3, <1>8, <2>1 DEF After
    <2>2. ASSUME NEW i \in DOMAIN q, q[i] = Press(c), Final(q, i, c) PROVE After(c, r, b)
        BY <1>2, <1>3, <1>8, <2>2 DEF After
    <2> QED BY <1>8, <2>1, <2>2 DEF After
<1> QED BY <1>6, <1>7, <1>8 DEF r

LEMMA AfterHead ==
    ASSUME NEW q \in Seq(Event), q # <<>>, NEW c, NEW b, NEW d,
           c \in d <=> Head(q) = Press(c) \/ (~Decides(Head(q), c) /\ c \in b)
    PROVE  After(c, q, b) <=> After(c, Tail(q), d)
<1> DEFINE r == Tail(q)
<1>1. /\ Len(q) \in Nat \ {0} /\ Head(q) = q[1] /\ DOMAIN q = 1..Len(q)
      /\ DOMAIN r = 1..(Len(q) - 1) /\ \A i \in 1..(Len(q) - 1) : r[i] = q[i + 1]
    BY TailTyped
<1> HIDE DEF r
<1>2. /\ \A i \in DOMAIN r : i \in Nat /\ i > 0 /\ i + 1 \in DOMAIN q /\ r[i] = q[i + 1] /\ i + 1 > 1
      /\ \A i \in DOMAIN q : i \in Nat /\ (i = 1 \/ (i > 1 /\ i - 1 \in DOMAIN r /\ r[i - 1] = q[i]))
      /\ 1 \in DOMAIN q /\ \A i \in DOMAIN q : i > 0 /\ ~(1 > i)
    BY <1>1
<1>3. \A i \in DOMAIN r \cup {0} : Final(r, i, c) <=> Final(q, i + 1, c)
    <2> SUFFICES ASSUME NEW i \in DOMAIN r \cup {0} PROVE Final(r, i, c) <=> Final(q, i + 1, c)
        OBVIOUS
    <2>1. i \in Nat
        BY <1>2
    <2>2. ASSUME Final(r, i, c), NEW j \in DOMAIN q, j > i + 1 PROVE ~Decides(q[j], c)
        <3>1. j - 1 \in DOMAIN r /\ r[j - 1] = q[j] /\ j - 1 > i
            BY <1>2, <2>1, <2>2
        <3> QED BY <2>2, <3>1 DEF Final
    <2>3. ASSUME Final(q, i + 1, c), NEW j \in DOMAIN r, j > i PROVE ~Decides(r[j], c)
        <3>1. j + 1 \in DOMAIN q /\ r[j] = q[j + 1] /\ j + 1 > i + 1
            BY <1>2, <2>1, <2>3
        <3> QED BY <2>3, <3>1 DEF Final
    <2> QED BY <2>2, <2>3 DEF Final
<1>4. Final(q, 0, c) <=> ~Decides(q[1], c) /\ Final(q, 1, c)
    BY <1>2 DEF Final
<1>5. Final(r, 0, c) <=> Final(q, 1, c)
    BY <1>3
<1>6. (\E i \in DOMAIN q : q[i] = Press(c) /\ Final(q, i, c)) <=>
          \/ q[1] = Press(c) /\ Final(q, 1, c)
          \/ \E i \in DOMAIN r : r[i] = Press(c) /\ Final(r, i, c)
    <2>1. ASSUME NEW i \in DOMAIN q, q[i] = Press(c), Final(q, i, c)
          PROVE  \/ q[1] = Press(c) /\ Final(q, 1, c)
                 \/ \E k \in DOMAIN r : r[k] = Press(c) /\ Final(r, k, c)
        <3>1. CASE i = 1
            BY <2>1, <3>1
        <3>2. CASE i # 1
            <4>1. i - 1 \in DOMAIN r /\ r[i - 1] = q[i] /\ (i - 1) + 1 = i
                BY <1>2, <3>2
            <4> QED BY <1>3, <2>1, <4>1
        <3> QED BY <3>1, <3>2
    <2>2. ASSUME NEW i \in DOMAIN r, r[i] = Press(c), Final(r, i, c)
          PROVE  \E k \in DOMAIN q : q[k] = Press(c) /\ Final(q, k, c)
        <3>1. i + 1 \in DOMAIN q /\ q[i + 1] = Press(c) /\ Final(q, i + 1, c)
            BY <1>2, <1>3, <2>2
        <3> QED BY <3>1
    <2> QED BY <1>2, <2>1, <2>2
<1>7. After(c, q, b) <=> After(c, r, d)
    BY <1>1, <1>4, <1>5, <1>6 DEF After
<1> QED BY <1>7 DEF r

LEMMA AfterShort ==
    ASSUME NEW c \in Controls, NEW b
    PROVE  (After(c, <<>>, b) <=> c \in b) /\ ~After(c, <<Note("reset")>>, b)
<1>1. After(c, <<>>, b) <=> c \in b
    BY DEF After, Final
<1> DEFINE q == <<Note("reset")>>
<1>2. DOMAIN q = {1} /\ q[1] = Note("reset")
    OBVIOUS
<1> HIDE DEF q
<1>3. Note("reset") # Press(c) /\ 1 > 0
    BY EventFacts
<1>4. ~After(c, q, b)
    BY <1>2, <1>3 DEF After, Final, Decides
<1> QED BY <1>1, <1>4 DEF q

\* What a live watcher will believe once it has read its channel.  A reset still
\* to be published makes that nothing, and then all that is held is quiet.
LiveWatch ==
    IF Has(pending, Note("reset")) THEN m.held \subseteq quiet
    ELSE \A c \in Controls :
             ~Has(pending, Press(c)) /\ ~Has(pending, Release(c)) =>
                 (Believes(c) => c \in m.held) /\ (c \in m.held \ quiet => Believes(c))

WatchInv ==
    "watch" \in Subs =>
        /\ status["watch"] = "new" => believed = {} /\ chan["watch"] = <<>>
        /\ status["watch"] = "closed" => \A c \in Controls : ~Believes(c)
        /\ \A c \in Controls : /\ Has(pending, Press(c)) => c \in m.held
                               /\ Has(pending, Release(c)) => c \notin m.held
        /\ status["watch"] = "live" => LiveWatch

\* One event more in the channel of the watcher.
LEMMA DeliveredBelief ==
    ASSUME QueueInv, "watch" \in Subs, NEW e \in Event, NEW c \in Controls,
           chan'["watch"] = Delivered("watch", e), believed' = believed
    PROVE  /\ status["watch"] # "live" => (Believes(c)' <=> Believes(c))
           /\ Full("watch") => ~Believes(c)'
           /\ status["watch"] = "live" /\ ~Full("watch") =>
                  (Believes(c)' <=> e = Press(c) \/ (~Decides(e, c) /\ Believes(c)))
<1>1. chan["watch"] \in Seq(Event)
    BY DEF QueueInv
<1>2. CASE Full("watch")
    <2>1. chan'["watch"] = <<Note("reset")>> /\ status["watch"] = "live"
        BY <1>2 DEF Delivered, Full
    <2>2. ~After(c, chan'["watch"], believed')
        BY <2>1, AfterShort
    <2> QED BY <1>2, <2>1, <2>2 DEF Believes
<1>3. CASE ~Full("watch") /\ status["watch"] = "live"
    <2>1. chan'["watch"] = Append(chan["watch"], e)
        BY <1>3 DEF Delivered
    <2>2. After(c, chan'["watch"], believed')
              <=> e = Press(c) \/ (~Decides(e, c) /\ After(c, chan["watch"], believed))
        BY <1>1, <2>1, AfterAppend
    <2> QED BY <1>3, <2>2 DEF Believes
<1>4. CASE status["watch"] # "live"
    <2>1. chan'["watch"] = chan["watch"] /\ ~Full("watch")
        BY <1>4 DEF Delivered, Full
    <2> QED BY <1>4, <2>1 DEF Believes
<1> QED BY <1>2, <1>3, <1>4

\* Reading moves what a watcher will believe into what it believes.
LEMMA ReceivedBelief ==
    ASSUME QueueInv, WatchReceive, NEW c \in Controls
    PROVE  Believes(c)' <=> Believes(c)
<1> DEFINE q == chan["watch"]
           e == Head(q)
<1>1. /\ "watch" \in Subs /\ q # <<>> /\ q \in Seq(Event) /\ chan'["watch"] = Tail(q)
      /\ believed' = CASE e.type = "press" -> believed \cup {e.ctl}
                       [] e.type = "release" -> believed \ {e.ctl}
                       [] e.type = "reset" -> {}
                       [] OTHER -> believed
    BY DEF WatchReceive, QueueInv
<1>2. e \in Event
    BY <1>1, TailTyped
<1> HIDE DEF e, q
<1>3. c \in believed' <=> e = Press(c) \/ (~Decides(e, c) /\ c \in believed)
    <2>1. CASE \E t \in {"reset", "connected", "disconnected"} : e = Note(t)
        <3>1. PICK t \in {"reset", "connected", "disconnected"} : e = Note(t)
            BY <2>1
        <3>2. e.type = t /\ (t # "reset" => e # Note("reset"))
            BY <3>1 DEF Note
        <3>3. e # Press(c) /\ e # Release(c)
            BY <3>1, EventFacts
        <3> QED BY <1>1, <3>1, <3>2, <3>3 DEF Decides
    <2>2. CASE \E x \in Controls : e = Press(x)
        <3>1. PICK x \in Controls : e = Press(x)
            BY <2>2
        <3>2. e.type = "press" /\ e.ctl = x
            BY <3>1 DEF Press
        <3>3. (e = Press(c) <=> c = x) /\ e # Release(c) /\ e # Note("reset")
            BY <3>1, EventFacts
        <3> QED BY <1>1, <3>2, <3>3 DEF Decides
    <2>3. CASE \E x \in Controls : e = Release(x)
        <3>1. PICK x \in Controls : e = Release(x)
            BY <2>3
        <3>2. e.type = "release" /\ e.ctl = x
            BY <3>1 DEF Release
        <3>3. (e = Release(c) <=> c = x) /\ e # Press(c) /\ e # Note("reset")
            BY <3>1, EventFacts
        <3> QED BY <1>1, <3>2, <3>3 DEF Decides
    <2> QED BY <1>2, <2>1, <2>2, <2>3, EventFacts
<1>4. After(c, q, believed) <=> After(c, Tail(q), believed')
    <2> DEFINE d == believed'
    <2>1. c \in d <=> Head(q) = Press(c) \/ (~Decides(Head(q), c) /\ c \in believed)
        BY <1>3 DEF e
    <2>2. q \in Seq(Event) /\ q # <<>>
        BY <1>1
    <2> HIDE DEF d
    <2>3. After(c, q, believed) <=> After(c, Tail(q), d)
        BY <2>1, <2>2, AfterHead
    <2> QED BY <2>3 DEF d
<1> QED BY <1>1, <1>4 DEF Believes, q

LEMMA WatchStep == Agrees(m) /\ Agrees(m') /\ TypesInv /\ WatchInv /\ [Next]_vars => WatchInv'
<1> SUFFICES ASSUME Agrees(m), Agrees(m'), TypesInv, WatchInv, [Next]_vars, "watch" \in Subs
             PROVE  /\ status'["watch"] = "new" => believed' = {} /\ chan'["watch"] = <<>>
                    /\ status'["watch"] = "closed" => \A c \in Controls : ~Believes(c)'
                    /\ \A c \in Controls : /\ Has(pending', Press(c)) => c \in m'.held
                                           /\ Has(pending', Release(c)) => c \notin m'.held
                    /\ status'["watch"] = "live" => LiveWatch'
    BY DEF WatchInv
<1>1. QueueInv /\ StateInv /\ m.held \subseteq Controls /\ m'.held \subseteq Controls
    BY HeldTyped DEF TypesInv
<1>2. /\ status["watch"] = "new" => believed = {} /\ chan["watch"] = <<>>
      /\ status["watch"] = "closed" => \A c \in Controls : ~Believes(c)
      /\ \A c \in Controls : /\ Has(pending, Press(c)) => c \in m.held
                             /\ Has(pending, Release(c)) => c \notin m.held
      /\ status["watch"] = "live" => LiveWatch
    BY DEF WatchInv
<1>3. ASSUME UNCHANGED <<m, pending, believed, quiet>>,
             chan'["watch"] = chan["watch"], status'["watch"] = status["watch"]
      PROVE  WatchInv'
    BY <1>2, <1>3 DEF WatchInv, LiveWatch, Believes
<1>4. CASE Idle
    BY <1>3, <1>4, IdleStep DEF WatchInv, historyVars
<1>5. CASE CaptureActs
    <2>1. chan'["watch"] = chan["watch"] /\ status'["watch"] = status["watch"]
        BY <1>1, <1>5, CaptureFrame DEF QueueInv
    <2> QED BY <1>3, <1>5, <2>1, CaptureFrame, <1>1 DEF WatchInv
<1>6. CASE PublishOne
    <2>1. PICK e \in Event :
              /\ Has(pending, e)
              /\ \A x : Has(pending', x) => Has(pending, x)
              /\ \A x : Has(pending, x) /\ x # e => Has(pending', x)
              /\ chan' = [s \in Subs |-> Delivered(s, e)]
              /\ quiet' = IF "watch" \in Subs /\ Full("watch") THEN m.held ELSE quiet
        BY <1>1, <1>6, PublishFacts
    <2>2. UNCHANGED <<m, status, believed>> /\ chan'["watch"] = Delivered("watch", e)
        BY <1>6, <2>1 DEF PublishOne
    <2>3. ASSUME NEW c \in Controls
          PROVE  /\ status["watch"] # "live" => (Believes(c)' <=> Believes(c))
                 /\ Full("watch") => ~Believes(c)'
                 /\ status["watch"] = "live" /\ ~Full("watch") =>
                        (Believes(c)' <=> e = Press(c) \/ (~Decides(e, c) /\ Believes(c)))
        BY <1>1, <2>2, DeliveredBelief
    <2>4. status'["watch"] = "new" => believed' = {} /\ chan'["watch"] = <<>>
        BY <1>2, <2>2 DEF Delivered, Full
    <2>5. status'["watch"] = "closed" => \A c \in Controls : ~Believes(c)'
        BY <1>2, <2>2, <2>3
    <2>6. \A c \in Controls : /\ Has(pending', Press(c)) => c \in m'.held
                              /\ Has(pending', Release(c)) => c \notin m'.held
        BY <1>2, <2>1, <2>2
    <2>7. ASSUME status["watch"] = "live" PROVE LiveWatch'
        <3>1. LiveWatch
            BY <1>2, <2>7
        <3>2. CASE Full("watch")
            <4>1. quiet' = m'.held /\ \A c \in Controls : ~Believes(c)'
                BY <2>1, <2>2, <2>3, <3>2
            <4> QED BY <4>1 DEF LiveWatch
        <3>3. CASE ~Full("watch") /\ Has(pending, Note("reset"))
            <4>1. m'.held \subseteq quiet'
                BY <2>1, <2>2, <3>1, <3>3 DEF LiveWatch
            <4>2. CASE Has(pending', Note("reset"))
                BY <4>1, <4>2 DEF LiveWatch
            <4>3. CASE ~Has(pending', Note("reset"))
                <5>1. e = Note("reset")
                    BY <2>1, <3>3, <4>3
                <5>2. \A c \in Controls : ~Believes(c)'
                    BY <2>3, <2>7, <3>3, <5>1, EventFacts DEF Decides
                <5> QED BY <4>1, <4>3, <5>2 DEF LiveWatch
            <4> QED BY <4>2, <4>3
        <3>4. CASE ~Full("watch") /\ ~Has(pending, Note("reset"))
            <4>1. ~Has(pending', Note("reset")) /\ quiet' = quiet /\ e # Note("reset")
                BY <2>1, <3>4
            <4>2. ASSUME NEW c \in Controls, ~Has(pending', Press(c)), ~Has(pending', Release(c))
                  PROVE  (Believes(c)' => c \in m.held) /\ (c \in m.held \ quiet => Believes(c)')
                <5>1. CASE e = Press(c)
                    BY <1>2, <2>1, <2>3, <2>7, <3>4, <5>1
                <5>2. CASE e = Release(c)
                    <6>1. Decides(e, c) /\ e # Press(c) /\ c \notin m.held
                        BY <1>2, <2>1, <5>2, EventFacts DEF Decides
                    <6> QED BY <2>3, <2>7, <3>4, <6>1
                <5>3. CASE e # Press(c) /\ e # Release(c)
                    <6>1. ~Has(pending, Press(c)) /\ ~Has(pending, Release(c))
                        BY <2>1, <4>2, <5>3
                    <6>2. ~Decides(e, c)
                        BY <4>1, <5>3 DEF Decides
                    <6>3. (Believes(c) => c \in m.held) /\ (c \in m.held \ quiet => Believes(c))
                        BY <3>1, <3>4, <6>1 DEF LiveWatch
                    <6> QED BY <2>3, <2>7, <3>4, <5>3, <6>2, <6>3
                <5> QED BY <5>1, <5>2, <5>3
            <4> QED BY <2>2, <4>1, <4>2 DEF LiveWatch
        <3> QED BY <3>2, <3>3, <3>4
    <2> QED BY <2>2, <2>4, <2>5, <2>6, <2>7
<1>7. CASE ApplyMessage \/ RunExit \/ CloseReset
    <2>1. PICK who \in {"run", "exit", "close"} : Handled(who)
        BY <1>1, <1>7, HandlerStep
    <2>2. /\ UNCHANGED <<status, chan, believed>> /\ pending = <<>>
          /\ Tells(pending', m.held, m'.held)
          /\ status["watch"] = "live" =>
                 quiet' = IF Has(pending', Note("reset")) THEN m'.held
                          ELSE (quiet \cap m'.held) \cup
                               (m'.held \ (m.held \cup {c \in Controls : Has(pending', Press(c))}))
        BY <1>1, <2>1 DEF Handled, Commit, QueueInv, Has, Press
    <2>3. \A c : Believes(c)' <=> Believes(c)
        BY <2>2 DEF Believes
    <2>4. \A c \in Controls : /\ Has(pending', Press(c)) => c \in m'.held
                              /\ Has(pending', Release(c)) => c \notin m'.held
        BY <2>2 DEF Tells, Edgeless
    <2>5. ASSUME status["watch"] = "live" PROVE LiveWatch'
        <3>1. \A x : ~Has(pending, x)
            BY <2>2, NotesFacts
        <3>2. \A c \in Controls : (Believes(c) => c \in m.held) /\ (c \in m.held \ quiet => Believes(c))
            BY <1>2, <2>5, <3>1 DEF LiveWatch
        <3>3. CASE Has(pending', Note("reset"))
            BY <2>2, <2>5, <3>3 DEF LiveWatch
        <3>4. CASE ~Has(pending', Note("reset"))
            <4> DEFINE told == {c \in Controls : Has(pending', Press(c))}
            <4>1. quiet' = (quiet \cap m'.held) \cup (m'.held \ (m.held \cup told))
                BY <2>2, <2>5, <3>4
            <4>2. ASSUME NEW c \in Controls, ~Has(pending', Press(c)), ~Has(pending', Release(c))
                  PROVE  (Believes(c) => c \in m'.held) /\ (c \in m'.held \ quiet' => Believes(c))
                <5>1. c \notin told
                    BY <4>2
                <5>2. c \in m.held => c \in m'.held
                    BY <2>2, <3>4, <4>2 DEF Tells
                <5>3. c \in m'.held \ quiet' => c \in m.held \ quiet
                    BY <4>1, <5>1
                <5> QED BY <3>2, <5>2, <5>3
            <4> QED BY <2>3, <3>4, <4>2 DEF LiveWatch
        <3> QED BY <3>3, <3>4
    <2> QED BY <1>2, <2>2, <2>3, <2>4, <2>5
<1>8. CASE EndClose
    <2>1. /\ UNCHANGED <<m, pending, chan, believed, quiet>> /\ pending = <<>> /\ m.held = {}
          /\ status'["watch"] = IF status["watch"] = "live" THEN "closed" ELSE status["watch"]
        BY <1>1, <1>8 DEF EndClose, historyVars, QueueInv
    <2>2. \A c : Believes(c)' <=> Believes(c)
        BY <2>1 DEF Believes
    <2>3. \A x : ~Has(pending, x)
        BY <2>1, NotesFacts
    <2>4. status["watch"] = "live" => \A c \in Controls : ~Believes(c)
        BY <1>2, <2>1, <2>3 DEF LiveWatch
    <2>5. status["watch"] \in {"new", "live", "closed"}
        BY <1>1 DEF QueueInv
    <2> QED BY <1>2, <2>1, <2>2, <2>3, <2>4, <2>5
<1>9. CASE WatchSubscribe
    <2>1. /\ status["watch"] = "new" /\ status'["watch"] \in {"live", "closed"} /\ quiet' = m.held
          /\ pending = <<>> /\ UNCHANGED <<m, pending, chan, believed>>
        BY <1>1, <1>9 DEF WatchSubscribe, QueueInv, Free
    <2>2. believed = {} /\ chan["watch"] = <<>>
        BY <1>2, <2>1
    <2>3. \A c \in Controls : ~Believes(c)'
        BY <2>1, <2>2, AfterShort DEF Believes
    <2>4. \A x : ~Has(pending, x)
        BY <2>1, NotesFacts
    <2> QED BY <2>1, <2>3, <2>4 DEF LiveWatch
<1>10. CASE WatchReceive
    <2>1. UNCHANGED <<m, pending, status, quiet>> /\ chan["watch"] # <<>>
        BY <1>10 DEF WatchReceive
    <2>2. \A c \in Controls : Believes(c)' <=> Believes(c)
        BY <1>1, <1>10, ReceivedBelief
    <2>3. status["watch"] = "live" => LiveWatch'
        BY <1>2, <2>1, <2>2 DEF LiveWatch
    <2> QED BY <1>2, <2>1, <2>2, <2>3
<1> QED BY <1>4, <1>5, <1>6, <1>7, <1>8, <1>9, <1>10, StepIs DEF WatchInv

-----------------------------------------------------------------------------
(* Theorems.                                                               *)

\* The maps of held controls, which every message updates edge by edge, are at
\* all times what the last snapshots of the known devices say, whatever
\* devices come and go and however often the state is reset.
THEOREM HeldNeverDrifts == Spec => []HeldIsUnion
<1>1. IInv => HeldIsUnion
    BY KeysAreShown DEF IInv, Agrees, HeldIsUnion, ShownBy
<1> QED BY <1>1, Invariant, PTL

\* A manager whose run has left shows no device, nothing held and no active
\* interception, and its error is kept unless the end was asked for.
THEOREM LeavesQuietly == Spec => []StoppedIsQuiet
<1>1. IInv => StoppedIsQuiet
    BY DEF IInv, LeavingInv, Silent, StoppedIsQuiet
<1> QED BY <1>1, Invariant, PTL

\* Type correctness, for any keys, controllers and capacity: no channel holds
\* more than its capacity, and no snapshot more than a device can say.
THEOREM TypeCorrect == Spec => []TypeOK
<1>1. Agrees(m) /\ TypesInv => TypeOK
    <2> SUFFICES ASSUME Agrees(m), TypesInv PROVE TypeOK
        OBVIOUS
    <2>1. {running, cancelled, failure, heard, capturing, m.active} \subseteq BOOLEAN
        BY DEF TypesInv, LifeInv, StateInv, Typed
    <2>2. m.held \subseteq Controls /\ m.keys \subseteq KeyControls /\ DOMAIN m.states \subseteq Devices
        BY HeldTyped DEF Agrees, KeysOf, Sampling
    <2>3. \A i \in DOMAIN pending : pending[i] \subseteq Event /\ pending[i] # {}
        BY DEF TypesInv, QueueInv, Batches
    <2>4. /\ \A s \in Subs : Len(chan[s]) <= Cap /\ \A i \in DOMAIN chan[s] : chan[s][i] \in Event
          /\ status \in [Subs -> {"new", "live", "closed"}]
          /\ owner \in {"none", "run", "exit", "close"}
        BY DEF TypesInv, QueueInv
    <2>5. heldSince \subseteq Controls /\ believed \subseteq Controls /\ quiet \subseteq Controls
        BY <2>2 DEF TypesInv, HistoryInv
    <2>6. /\ closer \in {"open", "closing", "waiting", "done"}
          /\ runner \in {"none", "live", "got", "done"}
          /\ m.devices \subseteq Devices
          /\ \A d \in DOMAIN m.states : m.states[d] \in Snapshots(d)
          /\ stage \in [Devices -> {"absent", "announced", "ready"}]
          /\ capPc \in {"idle", "entered", "loop", "check", "unsubscribe", "leave"}
          /\ candidate \in Controls \cup {NoControl}
        BY DEF TypesInv, LifeInv, StateInv, Typed, CaptureTypes
    <2> QED BY <2>1, <2>2, <2>3, <2>4, <2>5, <2>6 DEF TypeOK
<1> QED BY <1>1, Invariant, TypesHold, PTL DEF IInv

\* Capture never records a control that was held all the time since it began,
\* nor the edge that pressed it, however many events are still under way.
THEOREM OnlyFreshPresses == Spec => []CaptureIsFresh
<1>1. Init => FreshInv
    <2>1. DOMAIN <<>> = {}
        OBVIOUS
    <2> QED BY <2>1 DEF Init, FreshInv
<1>2. IInv /\ TypesInv /\ CaptureIdle /\ FreshInv /\ [Next]_vars => FreshInv'
    BY FreshStep DEF IInv
<1>3. FreshInv => CaptureIsFresh
    BY DEF FreshInv, CaptureIsFresh
<1> QED BY <1>1, <1>2, <1>3, Invariant, TypesHold, PTL DEF Spec

\* Capture never sleeps through the end of its gesture: whatever ends it, an
\* edge or the reset in its place, reaches the channel Capture waits on.
THEOREM CaptureSeesTheEnd == Spec => []CaptureNotStranded
<1>1. Init => StrandInv
    BY DEF Init, StrandInv
<1>2. IInv /\ IInv' /\ TypesInv /\ StrandInv /\ [Next]_vars => StrandInv'
    BY StrandStep DEF IInv
<1>3. TypesInv /\ CaptureIdle /\ StrandInv => CaptureNotStranded
    <2> SUFFICES ASSUME TypesInv, CaptureIdle, StrandInv, Free, capPc = "loop",
                        status["capture"] = "live", chan["capture"] = <<>>,
                        candidate # NoControl, Released(candidate)
                 PROVE  FALSE
        BY DEF CaptureNotStranded
    <2>1. Awake
        BY DEF StrandInv, CaptureIdle
    <2>2. pending = <<>>
        BY DEF TypesInv, QueueInv, Free
    <2>3. \A x : ~Has(<<>>, x)
        BY NotesFacts
    <2> QED BY <2>1, <2>2, <2>3 DEF Awake
<1> QED BY <1>1, <1>2, <1>3, Invariant, TypesHold, PTL DEF Spec

\* A watcher that has read all its events agrees with the manager: it believes
\* nothing to be held that is not, and knows every control pressed since it
\* last had to start afresh, across overflows, disconnects, resets and Close.
THEOREM WatcherAgrees == Spec => []ViewAgrees
<1>1. Init => WatchInv
    <2> SUFFICES ASSUME Init, "watch" \in Subs PROVE WatchInv
        BY DEF WatchInv
    <2>1. /\ status["watch"] = "new" /\ chan["watch"] = <<>> /\ believed = {} /\ pending = <<>>
        BY DEF Init
    <2> QED BY <2>1, NotesFacts DEF WatchInv
<1>2. IInv /\ IInv' /\ TypesInv /\ WatchInv /\ [Next]_vars => WatchInv'
    BY WatchStep DEF IInv
<1>3. IInv /\ TypesInv /\ WatchInv => ViewAgrees
    <2> SUFFICES ASSUME Agrees(m), TypesInv, WatchInv, "watch" \in Subs, Free,
                        status["watch"] # "new", chan["watch"] = <<>>
                 PROVE  /\ believed \subseteq m.held
                        /\ status["watch"] = "live" => m.held \ quiet \subseteq believed
        BY DEF ViewAgrees, IInv
    <2>1. /\ pending = <<>> /\ status["watch"] \in {"live", "closed"}
          /\ believed \subseteq Controls /\ m.held \subseteq Controls
        BY HeldTyped DEF TypesInv, QueueInv, HistoryInv, Free
    <2>2. \A c \in Controls : Believes(c) <=> c \in believed
        BY AfterShort DEF Believes
    <2>3. \A x : ~Has(pending, x)
        BY <2>1, NotesFacts
    <2>4. CASE status["watch"] = "closed"
        BY <2>1, <2>2, <2>4 DEF WatchInv
    <2>5. CASE status["watch"] = "live"
        BY <2>1, <2>2, <2>3, <2>5 DEF WatchInv, LiveWatch
    <2> QED BY <2>1, <2>4, <2>5
<1> QED BY <1>1, <1>2, <1>3, Invariant, TypesHold, PTL DEF Spec
=============================================================================

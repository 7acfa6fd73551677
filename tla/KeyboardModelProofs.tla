------------------------- MODULE KeyboardModelProofs -------------------------
(***************************************************************************)
(* Proofs about KeyboardModel, for any keys, modifier bits, processes and  *)
(* policies.                                                               *)
(***************************************************************************)
EXTENDS KeyboardModel, TLAPS

-----------------------------------------------------------------------------
(* The inductive invariant.  NoStuckKey alone is not inductive: a release   *)
(* is harmless because a suppressed key is one the game does not hold, and *)
(* that stays so because suppression never outlives the activity that      *)
(* started it.                                                             *)

\* A suppressed key is physically down and suppressed by the activity that
\* still lasts; the game does not know of it while the hook decides, that is,
\* until the source is cancelled.
SuppressionInv ==
    /\ suppressed \subseteq down
    /\ alive => suppressed \cap gameDown = {}
    /\ suppressed # {} => active

IInv == TypeOK /\ NoStuckKey /\ SuppressionInv /\ OnlyBlockedChords

-----------------------------------------------------------------------------
(* The operators of the model.                                             *)

LEMMA ChordType ==
    ASSUME TypeOK, NEW code \in Keys
    PROVE  [code |-> code, modifiers |-> Modifiers] \in KeyChord
<1>1. Modifiers \in SUBSET ModifierBits
    BY DEF Modifiers, ModifierBits, TypeOK
<1> QED BY <1>1 DEF KeyChord

-----------------------------------------------------------------------------
(* The type invariant.                                                     *)

LEMMA TypeInit == Init => TypeOK
<1> SUFFICES ASSUME Init PROVE TypeOK
    OBVIOUS
<1>1. \A k \in Keys : [code |-> k, modifiers |-> {}] \in KeyChord
    BY DEF KeyChord
<1>2. pressedAs \in [Keys -> KeyChord]
    BY <1>1 DEF Init
<1>3. reported \in Status
    BY DEF Init, Status
<1>4. blocked \in Nat /\ blocked <= MaxBlocked
    BY BoundAssumption DEF Init
<1> QED BY <1>2, <1>3, <1>4 DEF Init, TypeOK

LEMMA EdgeType ==
    ASSUME TypeOK, NEW code \in Keys, NEW pressed \in BOOLEAN, NEW end \in Ends,
           NEW later \in Processes \cup {NoProcess}, KeyEdge(code, pressed, later, end)
    PROVE  TypeOK'
<1> DEFINE on == InFront(policy.target, front, targetAlive)
           onLater == InFront(policy.target, later, targetAlive)
           marked == KeySuppressed(code, pressed, on,
                                   ContextSuppressed(on, active, suppressed))
           kept == IF pressed THEN marked ELSE marked \ {code}
<1>1. on \in BOOLEAN /\ onLater \in BOOLEAN
    BY DEF InFront, TypeOK
<1>2. marked \subseteq Keys /\ kept \subseteq Keys
    BY DEF KeySuppressed, ContextSuppressed, TypeOK
<1>3. ContextSuppressed(onLater, on, kept) \subseteq Keys
    BY <1>2 DEF ContextSuppressed
<1>4. suppressed' \subseteq Keys /\ active' \in BOOLEAN
    <2> HIDE DEF on, onLater, marked, kept
    <2>1. \/ active' = FALSE /\ suppressed' = {}
          \/ active' = onLater /\ suppressed' = ContextSuppressed(onLater, on, kept)
          \/ active' = on /\ suppressed' = kept
        BY DEF KeyEdge, on, onLater, marked, kept
    <2> QED BY <1>1, <1>2, <1>3, <2>1
<1>5. blocked' \in Nat /\ blocked' <= MaxBlocked
    <2>1. blocked' = blocked \/ blocked' = blocked + 1
        BY DEF KeyEdge
    <2>2. blocked \in Nat /\ blocked < MaxBlocked
        BY DEF KeyEdge, TypeOK
    <2> QED BY <2>1, <2>2, BoundAssumption
<1>6. reported' \in Status
    <2>1. \/ reported' = [active |-> active', blockedEdges |-> blocked']
          \/ reported' = [active |-> on, blockedEdges |-> blocked]
        BY DEF KeyEdge
    <2> QED BY <1>1, <1>4, <1>5, <2>1 DEF Status, TypeOK
<1>7. pressedAs' \in [Keys -> KeyChord]
    BY ChordType DEF KeyEdge, TypeOK
<1>8. /\ down' \subseteq Keys /\ gameDown' \subseteq Keys
      /\ front' \in Processes \cup {NoProcess} /\ alive' \in BOOLEAN
      /\ UNCHANGED <<policy, targetAlive>>
    BY DEF KeyEdge, TypeOK
<1> QED BY <1>4, <1>5, <1>6, <1>7, <1>8 DEF TypeOK

LEMMA ContextType ==
    ASSUME TypeOK, NEW on \in BOOLEAN, NEW was \in BOOLEAN, NEW keys \in SUBSET Keys,
           NEW end \in Ends, UpdateContext(on, was, keys, end)
    PROVE  /\ alive' \in BOOLEAN /\ active' \in BOOLEAN
           /\ suppressed' \subseteq Keys /\ reported' \in Status
BY DEF UpdateContext, ContextSuppressed, Status, TypeOK

LEMMA TypeStep == TypeOK /\ [Next]_vars => TypeOK'
<1> SUFFICES ASSUME TypeOK, [Next]_vars PROVE TypeOK'
    OBVIOUS
<1>1. CASE Edge
    BY <1>1, EdgeType DEF Edge
<1>2. CASE Poll
    <2>1. InFront(policy.target, front, targetAlive) \in BOOLEAN
        BY DEF InFront, TypeOK
    <2>2. active \in BOOLEAN /\ suppressed \in SUBSET Keys
        BY DEF TypeOK
    <2>3. /\ alive' \in BOOLEAN /\ active' \in BOOLEAN
          /\ suppressed' \subseteq Keys /\ reported' \in Status
        BY <1>2, <2>1, <2>2, ContextType DEF Poll
    <2> QED BY <1>2, <2>3 DEF Poll, TypeOK
<1>3. ASSUME NEW p \in Policies, SetPolicy(p) PROVE TypeOK'
    <2> DEFINE differs == p # policy
               keys == IF differs THEN {} ELSE suppressed
    <2>1. InFront(p.target, front, TRUE) \in BOOLEAN
        BY DEF InFront
    <2>2. (active /\ ~differs) \in BOOLEAN /\ keys \in SUBSET Keys
        BY DEF TypeOK
    <2>3. PICK end \in Ends :
              UpdateContext(InFront(p.target, front, TRUE), active /\ ~differs, keys, end)
        BY <1>3 DEF SetPolicy
    <2>4. /\ alive' \in BOOLEAN /\ active' \in BOOLEAN
          /\ suppressed' \subseteq Keys /\ reported' \in Status
        BY <2>1, <2>2, <2>3, ContextType
    <2> QED BY <1>3, <2>4 DEF SetPolicy, TypeOK
<1>4. CASE FocusChange \/ TargetExits
    BY <1>4 DEF FocusChange, TargetExits, TypeOK
<1>5. CASE UNCHANGED vars
    BY <1>5 DEF vars, TypeOK
<1> QED BY <1>1, <1>2, <1>3, <1>4, <1>5 DEF Next

\* The types hold in every reachable state.
THEOREM TypeCorrect == Spec => []TypeOK
BY TypeInit, TypeStep, PTL DEF Spec

-----------------------------------------------------------------------------
(* What suppression may do.                                                *)

\* The loop never suppresses a key anew, and keeps none when activity ends.
LEMMA ContextShrinks ==
    ASSUME NEW on \in BOOLEAN, NEW was \in BOOLEAN, NEW keys, NEW end \in Ends,
           keys # {} => was, UpdateContext(on, was, keys, end)
    PROVE  /\ suppressed' \subseteq keys
           /\ suppressed' # {} => active'
BY DEF UpdateContext, ContextSuppressed

\* One edge: what it leaves suppressed was suppressed before or is the key
\* just pressed, and the key just pressed is only suppressed if it is a chord
\* the policy blocks, pressed afresh, and if the game was not told.
LEMMA EdgeSafe ==
    ASSUME IInv, NEW code \in Keys, NEW pressed \in BOOLEAN, NEW end \in Ends,
           NEW later \in Processes \cup {NoProcess}, KeyEdge(code, pressed, later, end)
    PROVE  NoStuckKey' /\ SuppressionInv' /\ OnlyBlockedChords'
<1> DEFINE on == InFront(policy.target, front, targetAlive)
           onLater == InFront(policy.target, later, targetAlive)
           before == ContextSuppressed(on, active, suppressed)
           marked == KeySuppressed(code, pressed, on, before)
           kept == IF pressed THEN marked ELSE marked \ {code}
           chord == [code |-> code, modifiers |-> Modifiers]
           changed == (code \in down) # pressed
<1>1. on \in BOOLEAN /\ onLater \in BOOLEAN /\ active \in BOOLEAN
    BY DEF InFront, IInv, TypeOK
<1>2. before \subseteq suppressed /\ (before # {} => on)
    BY <1>1 DEF ContextSuppressed, IInv, SuppressionInv
<1>3. marked # {} => on
    BY <1>2 DEF KeySuppressed, Intercepted
<1>4. /\ marked \subseteq before \cup {code}
      /\ pressed /\ code \notin down =>
             (code \in marked => Intercepted(on, chord))
      /\ ~(pressed /\ code \notin down) => marked = before
    BY DEF KeySuppressed
<1>5. kept \subseteq marked
    OBVIOUS
<1>6. /\ suppressed' \subseteq kept
      /\ suppressed' # {} => active'
    <2> HIDE DEF kept, on, onLater
    <2>1. \/ active' = FALSE /\ suppressed' = {}
          \/ active' = onLater /\ suppressed' = ContextSuppressed(onLater, on, kept)
          \/ active' = on /\ suppressed' = kept
        BY DEF KeyEdge, on, onLater, kept
    <2>2. kept # {} => on
        BY <1>3, <1>5
    <2> QED BY <1>1, <2>1, <2>2 DEF ContextSuppressed
<1>7. /\ down' = IF pressed THEN down \cup {code} ELSE down \ {code}
      /\ gameDown' = IF (on /\ code \in marked) /\ end = "alive" THEN gameDown
                     ELSE IF pressed THEN gameDown \cup {code} ELSE gameDown \ {code}
      /\ policy' = policy
      /\ pressedAs' = IF pressed /\ changed
                      THEN [pressedAs EXCEPT ![code] = chord] ELSE pressedAs
    BY DEF KeyEdge
<1> HIDE DEF on, onLater, before, marked
\* The code's own suppressed entry keeps the release from the game only if the
\* game does not hold the key.
<1>8. code \in marked => (code \notin down /\ pressed) \/ code \in suppressed
    BY <1>2, <1>4
<1>9. alive /\ (alive' => end = "alive")
    BY DEF KeyEdge
<1>10. NoStuckKey'
    <2>1. code \in marked => code \notin gameDown
        BY <1>8, <1>9 DEF IInv, NoStuckKey, SuppressionInv
    <2> QED BY <1>7, <2>1 DEF IInv, NoStuckKey
<1>11. suppressed' \subseteq down' /\ (alive' => suppressed' \cap gameDown' = {})
    <2> SUFFICES ASSUME NEW k \in suppressed'
                 PROVE  k \in down' /\ (alive' => k \notin gameDown')
        OBVIOUS
    <2>1. k \in kept /\ k \in marked /\ on
        BY <1>3, <1>5, <1>6
    <2>2. CASE k # code
        <3>1. k \in suppressed
            BY <1>2, <1>4, <2>1, <2>2
        <3> QED BY <1>7, <1>9, <2>2, <3>1 DEF IInv, SuppressionInv
    <2>3. CASE k = code
        <3>1. pressed
            BY <2>1, <2>3
        <3>2. code \notin gameDown
            BY <1>8, <1>9, <2>1, <2>3 DEF IInv, NoStuckKey, SuppressionInv
        <3> QED BY <1>7, <1>9, <2>1, <2>3, <3>1, <3>2
    <2> QED BY <2>2, <2>3
<1>12. OnlyBlockedChords'
    <2> SUFFICES ASSUME NEW k \in suppressed'
                 PROVE  /\ Listed(pressedAs'[k], policy.block)
                        /\ ~Listed(pressedAs'[k], policy.passThrough)
        BY <1>7 DEF OnlyBlockedChords
    <2>1. k \in marked
        BY <1>5, <1>6
    <2>2. CASE k # code
        <3>1. k \in suppressed /\ pressedAs'[k] = pressedAs[k]
            BY <1>2, <1>4, <1>7, <2>1, <2>2 DEF IInv, TypeOK
        <3> QED BY <3>1 DEF IInv, OnlyBlockedChords
    <2>3. CASE k = code /\ pressed /\ code \notin down
        <3>1. pressedAs'[k] = chord
            BY <1>7, <2>3 DEF IInv, TypeOK
        <3>2. Intercepted(on, chord)
            BY <1>4, <2>1, <2>3
        <3> QED BY <3>1, <3>2 DEF Intercepted
    <2>4. CASE k = code /\ ~(pressed /\ code \notin down)
        <3>1. k \in suppressed
            BY <1>2, <1>4, <2>1, <2>4
        <3>2. pressedAs' = pressedAs
            BY <1>7, <2>4
        <3> QED BY <3>1, <3>2 DEF IInv, OnlyBlockedChords
    <2> QED BY <2>2, <2>3, <2>4
<1> QED BY <1>6, <1>10, <1>11, <1>12 DEF SuppressionInv

LEMMA SafeStep == IInv /\ [Next]_vars => (NoStuckKey /\ SuppressionInv /\ OnlyBlockedChords)'
<1> SUFFICES ASSUME IInv, [Next]_vars
             PROVE  NoStuckKey' /\ SuppressionInv' /\ OnlyBlockedChords'
    OBVIOUS
<1>1. CASE Edge
    BY <1>1, EdgeSafe DEF Edge
<1>2. CASE Poll
    <2>1. PICK end \in Ends :
              UpdateContext(InFront(policy.target, front, targetAlive), active, suppressed, end)
        BY <1>2 DEF Poll
    <2>2. InFront(policy.target, front, targetAlive) \in BOOLEAN /\ active \in BOOLEAN
        BY DEF InFront, IInv, TypeOK
    <2>3. suppressed' \subseteq suppressed /\ (suppressed' # {} => active')
        BY <2>1, <2>2, ContextShrinks DEF IInv, SuppressionInv
    <2> QED
        BY <1>2, <2>3 DEF Poll, IInv, NoStuckKey, SuppressionInv, OnlyBlockedChords
<1>3. ASSUME NEW p \in Policies, SetPolicy(p)
      PROVE  NoStuckKey' /\ SuppressionInv' /\ OnlyBlockedChords'
    <2> DEFINE differs == p # policy
               keys == IF differs THEN {} ELSE suppressed
    <2>1. PICK end \in Ends :
              UpdateContext(InFront(p.target, front, TRUE), active /\ ~differs, keys, end)
        BY <1>3 DEF SetPolicy
    <2>2. InFront(p.target, front, TRUE) \in BOOLEAN /\ (active /\ ~differs) \in BOOLEAN
        BY DEF InFront
    <2>3. keys # {} => active /\ ~differs
        BY DEF IInv, SuppressionInv
    <2>4. suppressed' \subseteq keys /\ (suppressed' # {} => active')
        <3> HIDE DEF keys, differs
        <3> QED BY <2>1, <2>2, <2>3, ContextShrinks
    <2>5. /\ policy' = p /\ alive
          /\ UNCHANGED <<down, gameDown, pressedAs>>
        BY <1>3 DEF SetPolicy
    <2>6. OnlyBlockedChords'
        <3>1. CASE differs
            BY <2>4, <3>1 DEF OnlyBlockedChords
        <3>2. CASE ~differs
            BY <2>4, <2>5, <3>2 DEF IInv, OnlyBlockedChords
        <3> QED BY <3>1, <3>2
    <2> QED BY <2>4, <2>5, <2>6 DEF IInv, NoStuckKey, SuppressionInv
<1>4. CASE FocusChange \/ TargetExits
    BY <1>4 DEF FocusChange, TargetExits, IInv, NoStuckKey, SuppressionInv, OnlyBlockedChords
<1>5. CASE UNCHANGED vars
    BY <1>5 DEF vars, IInv, NoStuckKey, SuppressionInv, OnlyBlockedChords
<1> QED BY <1>1, <1>2, <1>3, <1>4, <1>5 DEF Next

LEMMA InvHolds == Spec => []IInv
<1>1. Init => IInv
    BY TypeInit DEF Init, IInv, NoStuckKey, SuppressionInv, OnlyBlockedChords
<1>2. IInv /\ [Next]_vars => IInv'
    BY TypeStep, SafeStep DEF IInv
<1> QED BY <1>1, <1>2, PTL DEF Spec

\* Interception never leaves a key stuck in the game: the hook keeps a release
\* from the system only if it kept the press.
THEOREM GameNeverStuck == Spec => []NoStuckKey
<1>1. IInv => NoStuckKey
    BY DEF IInv
<1> QED BY <1>1, InvHolds, PTL

\* Only chords that the policy in force blocks are suppressed, even right
\* after the policy was replaced while keys were held.
THEOREM PolicyObeyed == Spec => []OnlyBlockedChords
<1>1. IInv => OnlyBlockedChords
    BY DEF IInv
<1> QED BY <1>1, InvHolds, PTL

\* No edge is counted as blocked unless the target was in front and running
\* when the hook was called.
THEOREM InterceptionFailsOpen == Spec => FailOpen
<1>1. TypeOK /\ [Next]_vars
          => [blocked' # blocked => front = policy.target /\ targetAlive]_vars
    <2> SUFFICES ASSUME TypeOK, Next, blocked' # blocked
                 PROVE  front = policy.target /\ targetAlive
        BY DEF vars
    <2>1. CASE Edge
        <3>1. PICK code \in Keys, pressed \in BOOLEAN, end \in Ends,
                   later \in Processes \cup {NoProcess} :
                  KeyEdge(code, pressed, later, end)
            BY <2>1 DEF Edge
        <3>2. InFront(policy.target, front, targetAlive)
            BY <3>1 DEF KeyEdge
        <3> QED BY <3>2 DEF InFront
    <2>2. CASE Poll \/ FocusChange \/ TargetExits \/ \E p \in Policies : SetPolicy(p)
        BY <2>2 DEF Poll, FocusChange, TargetExits, SetPolicy
    <2> QED BY <2>1, <2>2 DEF Next
<1> QED BY <1>1, TypeCorrect, PTL DEF Spec, FailOpen
=============================================================================

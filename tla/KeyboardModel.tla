---------------------------- MODULE KeyboardModel ----------------------------
(***************************************************************************)
(* Keyboard interception while a VR layout is edited: keyboardModel of      *)
(* pkg/input/keyboard.go as the native thread drives it from the low-level  *)
(* keyboard hook (onNativeKeyboard, updateKeyboardContext and the policy    *)
(* part of applyCommands in pkg/input/native_windows.go).  The hook sees    *)
(* every physical edge first and decides whether the rest of the system,    *)
(* and so the game, sees it too.                                           *)
(*                                                                         *)
(* Virtual-key codes are elements of Keys, process ids elements of          *)
(* Processes.  The foreground window and the life of the target process     *)
(* change at any time.                                                     *)
(***************************************************************************)
EXTENDS Naturals, Sequences

CONSTANTS
    Keys,           \* virtual-key codes
    Bit,            \* Bit[k]: the modifier bit of key k, NoBit for other keys
    NoBit,
    Processes,      \* process ids
    NoProcess,      \* process id 0
    Policies,       \* the policies callers set; all pass KeyboardPolicy.validate
    MaxBlocked      \* bound on KeyboardStatus.BlockedEdges

ModifierBits == {Bit[k] : k \in Keys} \ {NoBit}
KeyChord == [code : Keys, modifiers : SUBSET ModifierBits]
Listed(chord, list) == \E i \in DOMAIN list : list[i] = chord

\* KeyboardPolicy.validate: a disabled policy is empty, and modifiers alone
\* cannot be intercepted.
ValidPolicy(p) ==
    /\ p.target \in Processes \cup {NoProcess}
    /\ p.block \in Seq(KeyChord) /\ p.passThrough \in Seq(KeyChord)
    /\ p.target = NoProcess => p.block = <<>> /\ p.passThrough = <<>>
    /\ \A chord \in KeyChord :
           Listed(chord, p.block) \/ Listed(chord, p.passThrough) =>
               Bit[chord.code] = NoBit

ZeroPolicy == [target |-> NoProcess, block |-> <<>>, passThrough |-> <<>>]

ASSUME PolicyAssumption == \A p \in Policies : ValidPolicy(p)
ASSUME ProcessAssumption == NoProcess \notin Processes
ASSUME BoundAssumption == MaxBlocked \in Nat

VARIABLES
    policy,         \* keyboardModel.policy
    down,           \* keyboardModel.down, as the set of keys that are down
    suppressed,     \* keyboardModel.suppressed, as a set
    active,         \* keyboardModel.status.Active
    blocked,        \* keyboardModel.status.BlockedEdges
    reported,       \* nativeSource.keyboardStatus: the status last sent on
    alive,          \* nativeSource.ctx is not done
    front,          \* process that owns the foreground window
    targetAlive,    \* the process behind nativeSource.target still runs
    gameDown,       \* history: keys that are down for the rest of the system
    pressedAs       \* history: the chord of the last fresh press of each key

vars == <<policy, down, suppressed, active, blocked, reported, alive,
          front, targetAlive, gameDown, pressedAs>>

Status == [active : BOOLEAN, blockedEdges : Nat]

\* Faulty variant of Modifiers: ordinary keys contribute to the mask.
ModifiersOfAll == {Bit[k] : k \in down}

\* keyboardModel.modifiers
Modifiers == {Bit[k] : k \in down} \ {NoBit}

\* Faulty variant of InFront: the process handle is not looked at.
InFrontById(target, f, a) == target # NoProcess /\ f = target

\* What updateKeyboardContext hands to context: the target owns the foreground
\* window and its process handle is not signalled.
InFront(target, f, a) == target # NoProcess /\ f = target /\ a

\* keyboardModel.context: any change of activity forgets what is suppressed.
ContextSuppressed(on, was, keys) == IF on # was THEN {} ELSE keys

\* The baseline GetAsyncKeyState takes before the hook reports any edge.
Init ==
    /\ policy = ZeroPolicy
    /\ down \in SUBSET Keys
    /\ suppressed = {}
    /\ active = FALSE
    /\ blocked = 0
    /\ reported = [active |-> FALSE, blockedEdges |-> 0]
    /\ alive = TRUE
    /\ front \in Processes \cup {NoProcess}
    /\ targetAlive = FALSE
    /\ gameDown = down
    /\ pressedAs = [k \in Keys |-> [code |-> k, modifiers |-> {}]]

-----------------------------------------------------------------------------
(* The hook.                                                               *)

\* keyboardModel.key: whether a fresh press of code is to be suppressed.
Intercepted(on, chord) ==
    on /\ Listed(chord, policy.block) /\ ~Listed(chord, policy.passThrough)

\* Faulty variant of KeySuppressed: a repeat is treated as a fresh press.
KeySuppressedOnRepeat(code, pressed, on, keys) ==
    IF pressed
    THEN IF Intercepted(on, [code |-> code, modifiers |-> Modifiers])
         THEN keys \cup {code} ELSE keys \ {code}
    ELSE keys

\* keyboardModel.key on the suppressed set, before a release clears its entry.
KeySuppressed(code, pressed, on, keys) ==
    IF pressed /\ code \notin down
    THEN IF Intercepted(on, [code |-> code, modifiers |-> Modifiers])
         THEN keys \cup {code} ELSE keys \ {code}
    ELSE keys

\* How a handler may leave the source: still alive, cancelled meanwhile by
\* Close or the parent context, or failed because the message queue was full.
Ends == {"alive", "cancelled", "failed"}

\* onNativeKeyboard for one edge.  The foreground is looked up again after a
\* change, and may be another by then (later).  The edge is kept from the
\* system only if the source is still alive at the end.
KeyEdge(code, pressed, later, end) ==
    LET on == InFront(policy.target, front, targetAlive)
        changed == (code \in down) # pressed
        marked == KeySuppressed(code, pressed, on,
                                ContextSuppressed(on, active, suppressed))
        suppress == on /\ code \in marked
        kept == IF pressed THEN marked ELSE marked \ {code}
        onLater == InFront(policy.target, later, targetAlive)
    IN
    /\ alive
    /\ blocked < MaxBlocked
    /\ end = "failed" => changed \/ on # reported.active
    /\ ~changed => later = front
    /\ alive' = (end = "alive")
    /\ front' = later
    /\ down' = IF pressed THEN down \cup {code} ELSE down \ {code}
    /\ pressedAs' = IF pressed /\ changed
                    THEN [pressedAs EXCEPT ![code] =
                             [code |-> code, modifiers |-> Modifiers]]
                    ELSE pressedAs
    /\ IF end = "failed" \/ (end = "cancelled" /\ changed)
       THEN active' = FALSE /\ suppressed' = {}
       ELSE IF changed
            THEN /\ active' = onLater
                 /\ suppressed' = ContextSuppressed(onLater, on, kept)
            ELSE active' = on /\ suppressed' = kept
    \* A failure to send the first status comes before the edge is counted.
    /\ \/ blocked' = IF changed /\ suppress THEN blocked + 1 ELSE blocked
       \/ end = "failed" /\ blocked' = blocked
    /\ reported' = IF changed
                   THEN [active |-> active', blockedEdges |-> blocked']
                   ELSE [active |-> on, blockedEdges |-> blocked]
    /\ gameDown' = IF suppress /\ end = "alive" THEN gameDown
                   ELSE IF pressed THEN gameDown \cup {code} ELSE gameDown \ {code}
    /\ UNCHANGED <<policy, targetAlive>>

Edge ==
    \E code \in Keys, pressed \in BOOLEAN, end \in Ends,
       later \in Processes \cup {NoProcess} :
        KeyEdge(code, pressed, later, end)

-----------------------------------------------------------------------------
(* The loop of the native thread.                                          *)

\* Faulty variant of UpdateContext: activity is only ever switched on.
UpdateContextLatched(on, was, keys, end) ==
    /\ alive' = (end = "alive")
    /\ active' = (on \/ was)
    /\ suppressed' = keys
    /\ reported' = [active |-> active', blockedEdges |-> blocked]

\* updateKeyboardContext with the status message sent or the queue full.
UpdateContext(on, was, keys, end) ==
    /\ end = "failed" => on # reported.active
    /\ alive' = (end = "alive")
    /\ IF end = "alive"
       THEN /\ active' = on
            /\ suppressed' = ContextSuppressed(on, was, keys)
       ELSE active' = FALSE /\ suppressed' = {}
    /\ reported' = [active |-> on, blockedEdges |-> blocked]

\* One turn of the loop looks the foreground up whether or not keys move.
Poll ==
    /\ alive
    /\ \E end \in Ends :
           UpdateContext(InFront(policy.target, front, targetAlive), active, suppressed, end)
    /\ UNCHANGED <<policy, down, blocked, front, targetAlive, gameDown, pressedAs>>

\* Faulty variant of SetPolicy: setPolicy replaces the policy and nothing else.
SetPolicyKeeps(p) ==
    /\ alive
    /\ policy' = p
    /\ targetAlive' = (p.target # NoProcess)
    /\ \E end \in Ends :
           UpdateContext(InFront(p.target, front, TRUE), active, suppressed, end)
    /\ UNCHANGED <<down, blocked, front, gameDown, pressedAs>>

\* applyCommands with a policy whose process could be opened: setPolicy and
\* updateKeyboardContext.  When OpenProcess fails nothing changes.
SetPolicy(p) ==
    LET differs == p # policy
    IN
    /\ alive
    /\ policy' = p
    /\ targetAlive' = (p.target # NoProcess)
    /\ \E end \in Ends :
           UpdateContext(InFront(p.target, front, TRUE),
                         active /\ ~differs,
                         IF differs THEN {} ELSE suppressed, end)
    /\ UNCHANGED <<down, blocked, front, gameDown, pressedAs>>

-----------------------------------------------------------------------------
(* The system around the thread.                                           *)

FocusChange ==
    /\ front' \in (Processes \cup {NoProcess}) \ {front}
    /\ UNCHANGED <<policy, down, suppressed, active, blocked, reported, alive,
                   targetAlive, gameDown, pressedAs>>

\* The process id may be given to another process afterwards.
TargetExits ==
    /\ targetAlive
    /\ targetAlive' = FALSE
    /\ UNCHANGED <<policy, down, suppressed, active, blocked, reported, alive,
                   front, gameDown, pressedAs>>

Next ==
    \/ Edge
    \/ Poll
    \/ \E p \in Policies : SetPolicy(p)
    \/ FocusChange
    \/ TargetExits

Spec == Init /\ [][Next]_vars

-----------------------------------------------------------------------------
(* Properties                                                              *)

\* Type invariant.
TypeOK ==
    /\ policy \in Policies \cup {ZeroPolicy}
    /\ down \subseteq Keys
    /\ suppressed \subseteq Keys
    /\ active \in BOOLEAN
    /\ blocked \in Nat /\ blocked <= MaxBlocked
    /\ reported \in Status
    /\ alive \in BOOLEAN
    /\ front \in Processes \cup {NoProcess}
    /\ targetAlive \in BOOLEAN
    /\ gameDown \subseteq Keys
    /\ pressedAs \in [Keys -> KeyChord]

\* The game never holds on to a key that was let go: a release is kept from
\* it only when the press was, across policy changes, focus changes, key
\* repeats and the exit of the target process.
NoStuckKey == gameDown \subseteq down

\* Every key being suppressed was pressed as a chord the policy now in force
\* blocks and does not pass through; a key held from before is never grabbed.
OnlyBlockedChords ==
    \A k \in suppressed :
        /\ Listed(pressedAs[k], policy.block)
        /\ ~Listed(pressedAs[k], policy.passThrough)

\* Interception fails open: an edge is counted as blocked only if the policy's
\* target owned the foreground and was running when the edge arrived.
FailOpen ==
    [][blocked' # blocked => front = policy.target /\ targetAlive]_vars

\* If the target stays out of the foreground, interception ends and stays off
\* even when no key is touched.
InterceptionEnds ==
    <>[](front # policy.target \/ ~targetAlive) => <>[](~(alive /\ active))

=============================================================================

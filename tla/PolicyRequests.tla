--------------------------- MODULE PolicyRequests ---------------------------
(***************************************************************************)
(* Policy requests to the native thread: Manager.SetKeyboardPolicy          *)
(* (pkg/input/keyboard.go), nativeSource.SetKeyboardPolicy and              *)
(* applyCommands (pkg/input/native_windows.go), composed with the keyboard  *)
(* they act on.  A call waits 500 ms at most, so the thread may meet its    *)
(* request after the caller has left.  Manager.policyMu lets one call in    *)
(* at a time; the result channel of a request has room for its one answer.  *)
(***************************************************************************)
EXTENDS KeyboardModel

VARIABLES
    call,       \* the call that holds policyMu: "idle", "offer" or "wait"
    asked,      \* its policy
    lapsed,     \* its context is done
    commands,   \* nativeSource.commands, a channel of one request
    applying,   \* the request applyCommands found alive, <<>> if none
    result,     \* result of the call's request: "none", "ok" or "error"
    expected    \* history: the policies the callers have to reckon with

requestVars == <<call, asked, lapsed, commands, applying, result, expected>>

\* A request is mine as long as its caller is in the call.
Request == [policy : Policies, mine : BOOLEAN]
Mine(requests) == \E i \in DOMAIN requests : requests[i].mine
Left(requests) ==
    [i \in DOMAIN requests |-> [policy |-> requests[i].policy, mine |-> FALSE]]

RequestInit ==
    /\ Init
    /\ call = "idle" /\ asked = ZeroPolicy /\ lapsed = FALSE
    /\ commands = <<>> /\ applying = <<>> /\ result = "none"
    /\ expected = {ZeroPolicy}

-----------------------------------------------------------------------------
(* The caller.                                                             *)

CallBegin(p) ==
    /\ call = "idle"
    /\ call' = "offer" /\ asked' = p
    /\ UNCHANGED <<vars, lapsed, commands, applying, result, expected>>

Expire ==
    /\ call # "idle" /\ ~lapsed
    /\ lapsed' = TRUE
    /\ UNCHANGED <<vars, call, asked, commands, applying, result, expected>>

Offer ==
    /\ call = "offer" /\ commands = <<>>
    /\ call' = "wait"
    /\ commands' = <<[policy |-> asked, mine |-> TRUE]>>
    /\ UNCHANGED <<vars, asked, lapsed, applying, result, expected>>

\* The variables of the call die with it.
Return ==
    /\ call' = "idle" /\ asked' = ZeroPolicy /\ lapsed' = FALSE /\ result' = "none"
    /\ commands' = Left(commands) /\ applying' = Left(applying)
    /\ UNCHANGED vars

\* The context of the call or the source is done.  The policy may still come
\* into force, unless the thread has not looked at the request yet.
GiveUp ==
    /\ call # "idle" /\ (lapsed \/ ~alive)
    /\ Return
    /\ expected' = IF call = "wait" /\ ~Mine(commands) THEN expected \cup {asked} ELSE expected

GetResult ==
    /\ call = "wait" /\ result # "none"
    /\ Return
    /\ expected' = IF result = "ok" THEN {asked} ELSE expected

-----------------------------------------------------------------------------
(* The native thread.                                                      *)

Answer(requests, r) == result' = IF Mine(requests) THEN r ELSE result

\* Faulty variant of TakeUp: the context of the request is not looked at.
TakeUpLate ==
    /\ alive /\ applying = <<>> /\ commands # <<>>
    /\ commands' = <<>> /\ applying' = commands
    /\ UNCHANGED <<vars, call, asked, lapsed, result, expected>>

\* A request whose context is done is answered and forgotten.
TakeUp ==
    /\ alive /\ applying = <<>> /\ commands # <<>>
    /\ commands' = <<>>
    /\ IF Mine(commands) /\ ~lapsed
       THEN applying' = commands /\ UNCHANGED result
       ELSE Answer(commands, "error") /\ UNCHANGED applying
    /\ UNCHANGED <<vars, call, asked, lapsed, expected>>

Apply ==
    /\ applying # <<>>
    /\ SetPolicy(applying[1].policy)
    /\ applying' = <<>> /\ Answer(applying, "ok")
    /\ UNCHANGED <<call, asked, lapsed, commands, expected>>

\* Faulty variant of ApplyFails: the error of OpenProcess is not passed on.
ApplyFailsSilently ==
    /\ applying # <<>> /\ applying[1].policy.target # NoProcess
    /\ applying' = <<>> /\ Answer(applying, "ok")
    /\ UNCHANGED <<vars, call, asked, lapsed, commands, expected>>

\* The process of the policy cannot be opened.
ApplyFails ==
    /\ applying # <<>> /\ applying[1].policy.target # NoProcess
    /\ applying' = <<>> /\ Answer(applying, "error")
    /\ UNCHANGED <<vars, call, asked, lapsed, commands, expected>>

\* The thread is in the hook or elsewhere in its loop.
Hook == applying = <<>> /\ Edge /\ UNCHANGED requestVars
Turn == applying = <<>> /\ Poll /\ UNCHANGED requestVars

-----------------------------------------------------------------------------

System == (FocusChange \/ TargetExits) /\ UNCHANGED requestVars

Caller ==
    \/ \E p \in Policies : CallBegin(p)
    \/ Expire \/ Offer \/ GiveUp \/ GetResult

RequestNext == Caller \/ TakeUp \/ Apply \/ ApplyFails \/ Hook \/ Turn \/ System

RequestSpec == RequestInit /\ [][RequestNext]_<<vars, requestVars>>

\* The loop of the thread keeps turning while the source lives, and each turn
\* looks the foreground up, once the channel was found empty: strong fairness,
\* since callers could refill it between two looks, but not for ever.
RequestFairSpec ==
    /\ RequestSpec
    /\ WF_<<vars, requestVars>>(Apply \/ ApplyFails)
    /\ SF_<<vars, requestVars>>(Turn /\ alive')

-----------------------------------------------------------------------------
(* Properties                                                              *)

\* The policy in force between calls is one the callers know of: the one of
\* the last call that succeeded, or that of a later call which gave up after
\* the thread had taken its request.  No request that timed out in the queue,
\* or that failed, comes into force behind their back.
PolicyAccounted == call = "idle" => policy \in expected
=============================================================================

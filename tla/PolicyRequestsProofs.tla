------------------------ MODULE PolicyRequestsProofs ------------------------
(***************************************************************************)
(* Proofs about PolicyRequests: the keyboard below the request protocol     *)
(* behaves as KeyboardModel allows, so what is proved of that module holds *)
(* here, and no policy comes into force behind the callers' back.          *)
(***************************************************************************)
EXTENDS PolicyRequests, KeyboardModelProofs, SequenceTheorems

-----------------------------------------------------------------------------
(* The inductive invariant.  PolicyAccounted speaks of idle callers only;   *)
(* what keeps it is where the policy of a pending request may be.           *)

RequestType ==
    /\ call \in {"idle", "offer", "wait"}
    /\ call # "idle" => asked \in Policies
    /\ commands \in Seq(Request)
    /\ applying \in Seq(Request)
    /\ result \in {"none", "ok", "error"}

\* A request is mine only while its call waits for it, and asks for its policy;
\* it is in one place at a time.
OwnershipInv ==
    /\ call # "wait" => ~Mine(commands) /\ ~Mine(applying) /\ result = "none"
    /\ result # "none" => commands = <<>> /\ applying = <<>>
    /\ Mine(applying) => commands = <<>> /\ applying[1].policy = asked
    /\ Len(commands) <= 1 /\ Len(applying) <= 1
    /\ Mine(commands) => commands[1].policy = asked

\* A policy about to be applied for nobody is one the callers reckon with, and
\* so is the one in force, unless the call has yet to read its success.
ExpectationInv ==
    /\ applying # <<>> /\ ~Mine(applying) => applying[1].policy \in expected
    /\ IF result = "ok" THEN policy = asked ELSE policy \in expected

RInv == RequestType /\ OwnershipInv /\ ExpectationInv

-----------------------------------------------------------------------------
(* The operators of the model.                                             *)

LEMMA EmptyRequests ==
    \A q \in Seq(Request) : /\ Len(q) \in Nat
                            /\ q # <<>> <=> Len(q) # 0
<1>1. \A q \in Seq(Request) : q # <<>> => Len(q) \in Nat \ {0}
    BY EmptySeq, Zenon
<1>2. Len(<<>>) = 0
    BY EmptySeq, Zenon
<1>3. \A q \in Seq(Request) : Len(q) \in Nat
    BY LenProperties, Zenon
<1> QED BY <1>1, <1>2, <1>3

LEMMA MineShort ==
    ASSUME NEW q \in Seq(Request), Len(q) <= 1
    PROVE  Mine(q) <=> q # <<>> /\ q[1].mine
<1>1. CASE q = <<>>
    BY <1>1, EmptySeq DEF Mine
<1>2. CASE q # <<>>
    <2>1. Len(q) = 1
        <3>1. Len(q) \in Nat /\ Len(q) # 0
            BY <1>2, EmptyRequests, Zenon
        <3> QED BY <3>1
    <2>2. DOMAIN q = 1..1
        BY <2>1, LenProperties
    <2> QED BY <1>2, <2>2 DEF Mine
<1> QED BY <1>1, <1>2

LEMMA LengthByDomain ==
    ASSUME NEW q \in Seq(Request), NEW n \in Nat, DOMAIN q = 1..n
    PROVE  Len(q) = n
<1>1. Len(q) \in Nat /\ DOMAIN q = 1..Len(q)
    BY LenProperties
<1>2. Len(q) # 0 => Len(q) \in 1..n
    BY <1>1
<1>3. n # 0 => n \in 1..Len(q)
    BY <1>1
<1> QED BY <1>1, <1>2, <1>3

LEMMA LeftFacts ==
    ASSUME NEW q \in Seq(Request)
    PROVE  /\ Left(q) \in Seq(Request)
           /\ Len(Left(q)) = Len(q)
           /\ ~Mine(Left(q))
           /\ q # <<>> <=> Left(q) # <<>>
           /\ q # <<>> => Left(q)[1].policy = q[1].policy
<1>1. Len(q) \in Nat /\ DOMAIN q = 1..Len(q) /\ \A i \in 1..Len(q) : q[i] \in Request
    BY LenProperties, ElementOfSeq
<1>2. Left(q) = [i \in 1..Len(q) |-> [policy |-> q[i].policy, mine |-> FALSE]]
    BY <1>1 DEF Left
<1>3. Left(q) \in [1..Len(q) -> Request]
    BY <1>1, <1>2 DEF Request
<1>4. Left(q) \in Seq(Request)
    BY <1>1, <1>3, SeqDef
<1>5. Len(Left(q)) = Len(q)
    <2>1. DOMAIN Left(q) = 1..Len(q)
        BY <1>2
    <2> QED BY <1>1, <1>4, <2>1, LengthByDomain
<1>6. ~Mine(Left(q))
    <2>1. \A i \in DOMAIN Left(q) : Left(q)[i].mine = FALSE
        BY <1>2
    <2> QED BY <2>1, Zenon DEF Mine
<1>7. q # <<>> <=> Left(q) # <<>>
    <2>1. (q # <<>> <=> Len(q) # 0) /\ (Left(q) # <<>> <=> Len(Left(q)) # 0)
        BY <1>4, EmptyRequests, Zenon
    <2> QED BY <1>5, <2>1, Zenon
<1>8. ASSUME q # <<>> PROVE Left(q)[1].policy = q[1].policy
    <2>1. Len(q) # 0
        BY <1>8, EmptyRequests, Zenon
    <2>2. 1 \in 1..Len(q)
        BY <1>1, <2>1
    <2> QED BY <1>2, <2>2
<1> QED BY <1>4, <1>5, <1>6, <1>7, <1>8

\* Only Apply touches the policy.
LEMMA PolicyKept ==
    ASSUME Edge \/ Poll \/ FocusChange \/ TargetExits
    PROVE  policy' = policy
<1>1. CASE Edge
    <2>1. PICK code \in Keys, pressed \in BOOLEAN, end \in Ends,
               later \in Processes \cup {NoProcess} :
              KeyEdge(code, pressed, later, end)
        BY <1>1 DEF Edge
    <2> QED BY <2>1 DEF KeyEdge
<1>2. CASE Poll \/ FocusChange \/ TargetExits
    BY <1>2 DEF Poll, FocusChange, TargetExits
<1> QED BY <1>1, <1>2
-----------------------------------------------------------------------------
(* Preservation.                                                           *)

\* The facts about the requests in RInv that the steps below use.
LEMMA RequestFacts ==
    ASSUME RInv
    PROVE  /\ commands # <<>> => commands[1] \in Request
           /\ applying # <<>> => applying[1] \in Request
           /\ Mine(commands) <=> commands # <<>> /\ commands[1].mine
           /\ Mine(applying) <=> applying # <<>> /\ applying[1].mine
           /\ ~Mine(<<>>) /\ <<>> \in Seq(Request) /\ Len(<<>>) = 0
<1>1. commands \in Seq(Request) /\ Len(commands) <= 1
    BY DEF RInv, RequestType, OwnershipInv
<1>2. applying \in Seq(Request) /\ Len(applying) <= 1
    BY DEF RInv, RequestType, OwnershipInv
<1>3. ASSUME NEW q \in Seq(Request), q # <<>> PROVE q[1] \in Request
    <2>1. Len(q) \in Nat /\ Len(q) # 0
        BY <1>3, EmptyRequests, Zenon
    <2>2. 1 \in 1..Len(q)
        BY <2>1
    <2> QED BY <2>2, ElementOfSeq
<1>4. ~Mine(<<>>)
    BY DEF Mine
<1> QED BY <1>1, <1>2, <1>3, <1>4, MineShort, EmptySeq

LEMMA CallerStep == RInv /\ Caller => RInv'
<1> SUFFICES ASSUME RInv, Caller PROVE RInv'
    OBVIOUS
<1> USE DEF RInv, RequestType, OwnershipInv, ExpectationInv
<1>1. CASE \E p \in Policies : CallBegin(p)
    BY <1>1 DEF CallBegin, vars, Mine
<1>2. CASE Expire
    BY <1>2 DEF Expire, vars, Mine
<1>3. CASE Offer
    <2>1. commands' = <<[policy |-> asked, mine |-> TRUE]>>
        BY <1>3 DEF Offer
    <2>2. [policy |-> asked, mine |-> TRUE] \in Request
        BY <1>3 DEF Offer, Request
    <2>3. commands' \in Seq(Request) /\ Len(commands') <= 1 /\ commands'[1].policy = asked
        BY <2>1, <2>2
    <2>4. ~Mine(applying) /\ result = "none"
        BY <1>3 DEF Offer
    <2> QED BY <1>3, <2>3, <2>4 DEF Offer, vars, Mine
<1>4. ASSUME Return
      PROVE  RequestType' /\ OwnershipInv' /\ result' = "none" /\ policy' = policy
             /\ ~Mine(applying') /\ (applying' # <<>> => applying # <<>>)
             /\ (applying # <<>> => applying'[1].policy = applying[1].policy)
    <2>1. Left(commands) \in Seq(Request) /\ Len(Left(commands)) <= 1 /\ ~Mine(Left(commands))
        BY LeftFacts
    <2>2. Left(applying) \in Seq(Request) /\ Len(Left(applying)) <= 1 /\ ~Mine(Left(applying))
        BY LeftFacts
    <2>3. applying # <<>> <=> Left(applying) # <<>>
        BY LeftFacts
    <2>4. applying # <<>> => Left(applying)[1].policy = applying[1].policy
        BY LeftFacts
    <2>5. call' = "idle" /\ result' = "none" /\ policy' = policy
          /\ commands' = Left(commands) /\ applying' = Left(applying)
        BY <1>4 DEF Return, vars
    <2>6. ~Mine(commands') /\ ~Mine(applying')
        BY <2>1, <2>2, <2>5
    <2> QED BY <2>1, <2>2, <2>3, <2>4, <2>5, <2>6
<1>5. CASE GiveUp
    <2>1. Return /\ expected' = IF call = "wait" /\ ~Mine(commands)
                                THEN expected \cup {asked} ELSE expected
        BY <1>5 DEF GiveUp
    <2>2. Mine(applying) => applying[1].policy = asked /\ asked \in expected'
        BY <2>1, RequestFacts
    <2>3. result = "ok" => policy = asked /\ asked \in expected'
        BY <2>1, RequestFacts
    <2> QED BY <1>4, <2>1, <2>2, <2>3
<1>6. CASE GetResult
    BY <1>4, <1>6, RequestFacts DEF GetResult
<1> QED BY <1>1, <1>2, <1>3, <1>5, <1>6 DEF Caller

LEMMA ThreadStep == RInv /\ (TakeUp \/ Apply \/ ApplyFails) => RInv'
<1> SUFFICES ASSUME RInv, TakeUp \/ Apply \/ ApplyFails PROVE RInv'
    OBVIOUS
<1> USE DEF RInv, RequestType, OwnershipInv, ExpectationInv
<1>1. CASE TakeUp
    <2>1. commands' = <<>> /\ ~Mine(commands') /\ applying = <<>> /\ ~Mine(applying)
        BY <1>1, RequestFacts DEF TakeUp
    <2>2. UNCHANGED <<policy, call, asked, expected>> /\ result # "ok"
        BY <1>1 DEF TakeUp, vars
    <2>3. CASE Mine(commands) /\ ~lapsed
        <3>1. applying' = commands /\ result' = result
            BY <1>1, <2>3 DEF TakeUp
        <3> QED BY <2>1, <2>2, <2>3, <3>1, RequestFacts DEF Mine
    <2>4. CASE ~(Mine(commands) /\ ~lapsed)
        <3>1. applying' = <<>> /\ result' = IF Mine(commands) THEN "error" ELSE result
            BY <1>1, <2>1, <2>4 DEF TakeUp, Answer
        <3> QED BY <2>1, <2>2, <3>1, RequestFacts
    <2> QED BY <2>3, <2>4
<1>2. CASE Apply
    <2>1. applying # <<>> /\ applying' = <<>> /\ ~Mine(applying') /\ policy' = applying[1].policy
        BY <1>2, RequestFacts DEF Apply, SetPolicy
    <2>2. UNCHANGED <<call, asked, commands, expected>>
        BY <1>2 DEF Apply
    <2>3. result' = IF Mine(applying) THEN "ok" ELSE result
        BY <1>2 DEF Apply, Answer
    <2>4. Mine(commands') <=> Mine(commands)
        BY <2>2 DEF Mine
    <2> QED BY <2>1, <2>2, <2>3, <2>4, RequestFacts
<1>3. CASE ApplyFails
    <2>1. applying # <<>> /\ applying' = <<>> /\ ~Mine(applying')
        BY <1>3, RequestFacts DEF ApplyFails
    <2>2. UNCHANGED <<policy, call, asked, commands, expected>>
        BY <1>3 DEF ApplyFails, vars
    <2>3. result' = IF Mine(applying) THEN "error" ELSE result
        BY <1>3 DEF ApplyFails, Answer
    <2>4. Mine(commands') <=> Mine(commands)
        BY <2>2 DEF Mine
    <2> QED BY <2>1, <2>2, <2>3, <2>4, RequestFacts
<1> QED BY <1>1, <1>2, <1>3

\* Steps that leave requests alone leave RInv alone.
LEMMA QuietStep ==
    RInv /\ UNCHANGED requestVars /\ policy' = policy => RInv'
BY DEF RInv, RequestType, OwnershipInv, ExpectationInv, requestVars, Mine

LEMMA RInvStep == RInv /\ [RequestNext]_<<vars, requestVars>> => RInv'
<1> SUFFICES ASSUME RInv, [RequestNext]_<<vars, requestVars>> PROVE RInv'
    OBVIOUS
<1>1. CASE Hook \/ Turn \/ System
    BY <1>1, PolicyKept, QuietStep DEF Hook, Turn, System
<1>2. CASE UNCHANGED <<vars, requestVars>>
    BY <1>2, QuietStep DEF vars
<1> QED BY <1>1, <1>2, CallerStep, ThreadStep DEF RequestNext

LEMMA RInvHolds == RequestSpec => []RInv
<1>1. RequestInit => RInv
    BY EmptySeq DEF RequestInit, Init, RInv, RequestType, OwnershipInv, ExpectationInv, Mine
<1> QED BY <1>1, RInvStep, PTL DEF RequestSpec

-----------------------------------------------------------------------------
(* Theorems.                                                               *)

\* Between calls the policy in force is one the callers reckon with: a request
\* that timed out in the queue, or failed, never comes into force later.
THEOREM NoPolicyBehindTheirBack == RequestSpec => []PolicyAccounted
<1>1. RInv => PolicyAccounted
    BY DEF RInv, OwnershipInv, ExpectationInv, PolicyAccounted
<1> QED BY <1>1, RInvHolds, PTL

\* The request protocol drives the keyboard only as KeyboardModel allows.
THEOREM RequestsImplementKeyboard == RequestSpec => Spec
<1>1. RequestInit => Init
    BY DEF RequestInit
<1>2. RInv /\ [RequestNext]_<<vars, requestVars>> => [Next]_vars
    <2> SUFFICES ASSUME RInv, [RequestNext]_<<vars, requestVars>> PROVE [Next]_vars
        OBVIOUS
    <2>1. CASE Caller
        BY <2>1 DEF Caller, CallBegin, Expire, Offer, GiveUp, GetResult, Return
    <2>2. CASE Apply
        <3>1. applying[1].policy \in Policies
            BY <2>2, RequestFacts DEF Apply, Request
        <3> QED BY <2>2, <3>1 DEF Apply, Next
    <2>3. CASE TakeUp \/ ApplyFails
        BY <2>3 DEF TakeUp, ApplyFails
    <2>4. CASE Hook \/ Turn \/ System
        BY <2>4 DEF Hook, Turn, System, Next
    <2>5. CASE UNCHANGED <<vars, requestVars>>
        BY <2>5
    <2> QED BY <2>1, <2>2, <2>3, <2>4, <2>5 DEF RequestNext
<1> QED BY <1>1, <1>2, RInvHolds, PTL DEF RequestSpec, Spec

\* So the guarantees of KeyboardModel hold while requests come, wait and lapse.
THEOREM RequestsKeepKeyboardSafe == RequestSpec => [](NoStuckKey /\ OnlyBlockedChords)
BY RequestsImplementKeyboard, GameNeverStuck, PolicyObeyed, PTL
=============================================================================

------------------------------ MODULE LossyFeed ------------------------------
(***************************************************************************)
(* What a subscriber of input.Manager is promised, without channels or     *)
(* locks.  Events are numbered 1, 2, 3, ... as they are published.  A      *)
(* subscriber reads them in order without holes for as long as it keeps    *)
(* up.  It may fall behind at any time; what it reads after that may have  *)
(* holes, and only a reset, which tells it to forget what it believes to   *)
(* be held, lets it follow the feed again.                                 *)
(***************************************************************************)
EXTENDS Naturals

CONSTANT Subscribers

VARIABLES
    published,  \* number of the newest event
    position,   \* position[s]: number of the event s read last
    behind,     \* subscribers that lost events and have not read the reset
    joined      \* subscribers that were ever attached

feedVars == <<published, position, behind, joined>>

FeedInit ==
    /\ published = 0
    /\ position = [s \in Subscribers |-> 0]
    /\ behind = {}
    /\ joined = {}

Publish ==
    /\ published' = published + 1
    /\ UNCHANGED <<position, behind, joined>>

Join(s) ==
    /\ s \notin joined
    /\ joined' = joined \cup {s}
    /\ position' = [position EXCEPT ![s] = published]
    /\ UNCHANGED <<published, behind>>

\* The subscriber keeps up: the next number, never another.
ReadNext(s) ==
    /\ s \in joined \ behind
    /\ position[s] < published
    /\ position' = [position EXCEPT ![s] = @ + 1]
    /\ UNCHANGED <<published, behind, joined>>

FallBehind(s) ==
    /\ s \in joined \ behind
    /\ position[s] < published
    /\ behind' = behind \cup {s}
    /\ UNCHANGED <<published, position, joined>>

\* Events that survive the loss still arrive in order, now with holes.
ReadStale(s) ==
    /\ s \in behind
    /\ \E n \in position[s] + 1 .. published :
           position' = [position EXCEPT ![s] = n]
    /\ UNCHANGED <<published, behind, joined>>

ReadReset(s) ==
    /\ s \in behind
    /\ \E n \in position[s] + 1 .. published :
           position' = [position EXCEPT ![s] = n]
    /\ behind' = behind \ {s}
    /\ UNCHANGED <<published, joined>>

FeedNext ==
    \/ Publish
    \/ \E s \in Subscribers :
           \/ Join(s) \/ FallBehind(s)
           \/ ReadNext(s) \/ ReadStale(s) \/ ReadReset(s)

FeedSpec == FeedInit /\ [][FeedNext]_feedVars
=============================================================================

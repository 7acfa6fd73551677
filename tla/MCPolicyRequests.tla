-------------------------- MODULE MCPolicyRequests -------------------------
(* Instance of PolicyRequests for TLC: one letter, two keys that give the    *)
(* same modifier bit, a game and another program, and policies that differ  *)
(* in what they block.                                                     *)
EXTENDS PolicyRequests

CONSTANTS letter, ctrl, rightCtrl, ctrlBit, game, other

MCBit == [k \in {letter, ctrl, rightCtrl} |-> IF k = letter THEN NoBit ELSE ctrlBit]

Plain == [code |-> letter, modifiers |-> {}]
Chord == [code |-> letter, modifiers |-> {ctrlBit}]

\* Off; block both chords of the letter but let one through; another target.
MCPolicies == {
    ZeroPolicy,
    [target |-> game, block |-> <<Plain, Chord>>, passThrough |-> <<Chord>>],
    [target |-> other, block |-> <<Chord>>, passThrough |-> <<>>] }
=============================================================================

--------------------------- MODULE MCInputManager ---------------------------
(* Instances of InputManager for TLC: a keyboard and at most one pad.       *)
EXTENDS InputManager

CONSTANTS letter, ctrl, esc, pad, keyboard, button, north, east
=============================================================================

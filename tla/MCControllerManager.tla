------------------------- MODULE MCControllerManager -------------------------
(* Instances of ControllerManager for TLC.                                  *)
EXTENDS ControllerManager

CONSTANTS wheel, close1, close2, button1, button2, axis1, nobody

\* The ends of an axis, and a point so near one of them that the rest of the
\* way is shorter than the smallest movement.
SamplePositions == {0, 90, 100}
=============================================================================

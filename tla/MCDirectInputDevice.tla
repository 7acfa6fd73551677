------------------------- MODULE MCDirectInputDevice -------------------------
(* Instances of DirectInputDevice for TLC.                                  *)
EXTENDS DirectInputDevice

CONSTANTS trigger, brake, none
=============================================================================

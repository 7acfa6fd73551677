--------------------------- MODULE MCNativeSource ---------------------------
(* Instances of NativeSource for TLC.                                       *)
EXTENDS NativeSource

CONSTANTS keyboard, pad, wheel, up, down
=============================================================================

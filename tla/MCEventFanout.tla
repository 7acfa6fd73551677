--------------------------- MODULE MCEventFanout ---------------------------
(* Instance of EventFanout for TLC: two subscribers with channels of two.  *)
EXTENDS EventFanout

CONSTANTS s1, s2
=============================================================================

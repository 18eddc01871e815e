--------------------------- MODULE MCStreamReconnect ---------------------------
(* Model checking of StreamReconnect: channels of capacity one, so that they  *)
(* are full at once, and enough losses for one to happen during a pass.       *)
EXTENDS StreamReconnect
================================================================================

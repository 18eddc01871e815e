------------------------------ MODULE MCOrderFlow ------------------------------
(* Model checking of OrderFlow.                                               *)
EXTENDS OrderFlow

CONSTANTS o1, c1
================================================================================

----------------------------- MODULE MCEventStream -----------------------------
(* Two clients, one of all subjects and one of order events only. *)
EXTENDS EventStream

CONSTANTS c1, c2

MCKinds == {"order", "snapshot", "stream.reconnected"}
MCTyped == {"order", "snapshot"}
MCWants == [c \in Clients |-> IF c = c1 THEN MCKinds ELSE {"order"}]
================================================================================

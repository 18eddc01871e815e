----------------------------- MODULE MCOutboxRelay -----------------------------
(* Model checking of OutboxRelay: two orders whose transactions overlap.      *)
EXTENDS OutboxRelay

CONSTANTS o1, o2
================================================================================

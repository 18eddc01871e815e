------------------------------ MODULE MCLifecycle ------------------------------
(* The daemon's life over a bounded number of restarts. *)
EXTENDS Lifecycle
================================================================================

----------------------------- MODULE MCVenueBreaker -----------------------------
(* The resilience stack with model values for the callers. *)
EXTENDS VenueBreaker
================================================================================

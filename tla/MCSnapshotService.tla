--------------------------- MODULE MCSnapshotService ---------------------------
(* Model checking of SnapshotService: two targets sharing one sender, two     *)
(* currencies so that a write can fail half way, one restart.                 *)
EXTENDS SnapshotService
================================================================================

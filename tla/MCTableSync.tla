------------------------------ MODULE MCTableSync ------------------------------
(* Instance of TableSync for TLC.  Its run checks liveness: no symmetry. *)
EXTENDS TableSync
===============================================================================

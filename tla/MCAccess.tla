------------------------------ MODULE MCAccess ------------------------------
(* Instance of Access and Notices for TLC. *)
EXTENDS Notices, TLC

Symmetry == Permutations(Employee) \cup Permutations(Worker) \cup Permutations(Req)
=============================================================================

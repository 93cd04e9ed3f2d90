-------------------------------- MODULE MCOutbox --------------------------------
(* Small instances of Outbox for TLC. *)
EXTENDS Outbox, TLC

TwoSales == {1, 2}
===============================================================================

------------------------------ MODULE MCCashDesk ------------------------------
(* Small instances of CashDesk for TLC. *)
EXTENDS CashDesk, TLC

Sold(method, total, change) == [method |-> method, total |-> total, vat |-> 1, change |-> change]
Baskets == {Sold("cash", 3, 1), Sold("credit", 2, 0), Sold("store_credit", 2, 0),
            Sold("mpesa", 2, 0)}
Short == {-1, 0}
Shift == {1}

Symmetric == Permutations(Session) \cup Permutations(Period) \cup Permutations(Handler)
===============================================================================

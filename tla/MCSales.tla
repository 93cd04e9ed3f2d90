------------------------------ MODULE MCSales ------------------------------
(* Small instances of Sales and SaleAccounts. *)
EXTENDS SaleAccounts, TLC

CONSTANTS s1, s2, s3, s4, p1, p2, c1, t1, r1, r2

Products2 == {p1, p2}
Slots     == {r1, r2}
SlotSymmetry == Permutations(Slots)

Lines(a, b) == [p \in Products2 |-> IF p = p1 THEN a ELSE b]

Sells(method, qty, largest, total, change) ==
    [method |-> method, qty |-> qty, largest |-> largest, total |-> total,
     change |-> change, customer |-> c1, till |-> t1]

(* An M-PESA sale of both products; all other sales share p1 with it. *)
Mpesa  == s1 :> Sells("MPESA", Lines(1, 1), Lines(1, 1), 3, 0)
Mpesa2 == s2 :> Sells("MPESA", Lines(1, 0), Lines(1, 0), 2, 0)
Credit == s2 :> Sells("CREDIT", Lines(1, 0), Lines(1, 0), 2, 0)
Cash   == s3 :> Sells("CASH", Lines(1, 0), Lines(1, 0), 3, 1)
Stored == s4 :> Sells("STORE_CREDIT", Lines(1, 1), Lines(1, 1), 2, 0)

TwoMpesa       == Mpesa @@ Mpesa2
MpesaAndCredit == Mpesa @@ Credit
AllMethods     == Mpesa @@ Credit @@ Cash @@ Stored
JustMpesa      == Mpesa

ThreeEach == Lines(3, 3)
Float     == t1 :> 5
Limit     == c1 :> 4
Purse     == c1 :> 3

=============================================================================

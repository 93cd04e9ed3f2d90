----------------------------- MODULE MCReturns -----------------------------
(* A small instance of Returns: a cash sale and a wallet sale that share a   *)
(* product; two returns that together ask for too much of the cash sale, and *)
(* one of the wallet sale with a damaged line.                               *)
EXTENDS Returns, TLC

CONSTANTS s1, s2, p1, p2, c1, t1, l1, l2, l3, r1, r2, r3, q1, q2

Sales2 == s1 :> [method |-> "cash", customer |-> c1, till |-> t1]
       @@ s2 :> [method |-> "store_credit", customer |-> c1, till |-> Nobody]

Lines3 == l1 :> [sale |-> s1, product |-> p1, qty |-> 2, price |-> 1]
       @@ l2 :> [sale |-> s2, product |-> p1, qty |-> 1, price |-> 1]
       @@ l3 :> [sale |-> s2, product |-> p2, qty |-> 1, price |-> 2]

Quantities(a, b, c) == l1 :> a @@ l2 :> b @@ l3 :> c

Returns3 == r1 :> [qty |-> Quantities(1, 0, 0), damaged |-> {}]
         @@ r2 :> [qty |-> Quantities(2, 0, 0), damaged |-> {}]
         @@ r3 :> [qty |-> Quantities(0, 1, 1), damaged |-> {l3}]

Stock2 == p1 :> 3 @@ p2 :> 3
Purse  == c1 :> 2
Till5  == t1 :> 5

Slots == {q1, q2}
SlotSymmetry == Permutations(Slots)

=============================================================================

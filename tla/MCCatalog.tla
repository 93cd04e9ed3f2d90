----------------------------- MODULE MCCatalog -----------------------------
(* Instance of Catalog for TLC. *)
EXTENDS Catalog, TLC

CONSTANTS p1, p2, b1, n1

\* A row that prices a product and has a negative stock, which the API imports, and
\* one with a barcode, a stock of one and a category, which it does not.
MCRow == {[price |-> 2, barcode |-> NULL, stock |-> -1, name |-> NULL],
          [price |-> 1, barcode |-> b1, stock |-> 1, name |-> n1]}
MCQuantity == {-1, 0, 1}
MCDelta == {-2, 1}

Symmetry == Permutations(Req) \cup Permutations(Product)
=============================================================================

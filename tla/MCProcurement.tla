----------------------------- MODULE MCProcurement -----------------------------
(* Small instances of Procurement for TLC. *)
EXTENDS Procurement, TLC

Whole == [halves |-> 2, type |-> "unit", size |-> 1, bad |-> 0, damaged |-> FALSE]
HalfPack == [halves |-> 1, type |-> "pack", size |-> 3, bad |-> 1, damaged |-> FALSE]
Broken == [Whole EXCEPT !.bad = 1, !.damaged = TRUE]

CONSTANTS p1, p2
Sheets == {[p \in {p1, p2} |-> IF p = p1 THEN Whole ELSE HalfPack], [p \in {p1} |-> Broken]}

Misnamed == {<<p1, p1>>, <<p2, p2>>, <<p2, p1>>}

Symmetric == Permutations(Note) \cup Permutations(Handler)
===============================================================================

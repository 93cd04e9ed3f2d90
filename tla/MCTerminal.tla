----------------------------- MODULE MCTerminal -----------------------------
(* Small instances of Terminal. *)
EXTENDS Terminal, TLC

CONSTANTS l1, l2

Loops2 == {l1, l2}
LoopSymmetry == Permutations(Loops2)

=============================================================================

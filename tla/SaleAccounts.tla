---------------------------- MODULE SaleAccounts ----------------------------
(***************************************************************************)
(* What stock, tills and customers' accounts must add up to, given the     *)
(* sales, and the sales as an implementation of SaleContract.  All of it   *)
(* is about histories in which two requests on the same sale, or on the    *)
(* same till, do not overlap (Isolated): the code serialises neither.      *)
(***************************************************************************)
EXTENDS Sales, Functions

ASSUME SalesAssumption == IsFiniteSet(Sale)

Live      == {s \in Sale : sale[s].status \in {"PENDING", "COMPLETED"}}
Completed == {s \in Sale : sale[s].status = "COMPLETED"}

TotalOf(S) == SumFunctionOnSet([s \in Sale |-> Basket[s].total], S)

\* A unit is off the shelf exactly while a sale that has it is pending or
\* completed, and there was enough on the shelf for it.
ShelvesMatch ==
    \A p \in Product :
        /\ stock[p] = InitStock[p] - SumFunctionOnSet([s \in Sale |-> Basket[s].qty[p]], Live)
        /\ stock[p] >= 0

\* A customer owes the completed credit sales and no more, and the wallet lacks
\* the completed store-credit sales: the floor at zero in the void never bites.
CustomersMatch ==
    \A c \in Customer :
        LET by(method) == {s \in Completed : Basket[s].method = method /\ Basket[s].customer = c}
        IN  /\ credit[c] = TotalOf(by("CREDIT"))
            /\ wallet[c] = InitWallet[c] - TotalOf(by("STORE_CREDIT"))
            /\ wallet[c] >= 0

\* The till's expected cash is what its completed cash sales added: total - change.
TillsMatch ==
    \A t \in Session :
        LET rung == {s \in Completed : Basket[s].method = "CASH" /\ Basket[s].till = t}
        IN  expected[t] = OpeningFloat[t]
                + SumFunctionOnSet([s \in Sale |-> Basket[s].total - Basket[s].change], rung)

(* Whatever was created, paid, voided, failed or cleaned up, and in whatever *)
(* order: shelves, customers' accounts and tills hold exactly what the       *)
(* sales, as they stand now, took from them or gave to them.  No path takes, *)
(* restores, refunds or counts a sale twice, and a void undoes exactly what  *)
(* the create did.                                                           *)
AccountsMatchSales == ShelvesMatch /\ CustomersMatch /\ TillsMatch

BookOf(s) ==
    CASE entries[s].sales = 0 -> "empty"
      [] entries[s].sales = 1 /\ entries[s].reversals = 0 -> "sale"
      [] entries[s].sales = 1 /\ entries[s].reversals = 1 -> "reversed"
      [] OTHER -> "wrong"

Contract == INSTANCE SaleContract WITH
    OnAccount <- {s \in Sale : Paid(s)},
    status <- [s \in Sale |-> sale[s].status],
    books <- [s \in Sale |-> BookOf(s)]

(* Every handler, commit by commit, does what SaleContract allows. *)
KeepsContract == Contract!Spec

=============================================================================

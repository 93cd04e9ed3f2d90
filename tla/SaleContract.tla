---------------------------- MODULE SaleContract ----------------------------
(***************************************************************************)
(* What the backend promises about a sale, with no requests, locks or      *)
(* tables: it is rung up once, an M-PESA sale is paid later, either may be *)
(* cancelled, and a cancelled sale stays so.  The books follow: an entry   *)
(* when the sale is complete, a reversal when it is cancelled after that,  *)
(* unless the period was closed in between.                                *)
(***************************************************************************)
CONSTANTS Sale, OnAccount   \* OnAccount: the sales paid when they are rung up

VARIABLES status, books

vars == <<status, books>>

Init ==
    /\ status = [s \in Sale |-> "absent"]
    /\ books = [s \in Sale |-> "empty"]

Ring(s) ==
    /\ status[s] = "absent"
    /\ status' = [status EXCEPT ![s] = IF s \in OnAccount THEN "COMPLETED" ELSE "PENDING"]
    /\ books' = IF s \in OnAccount THEN [books EXCEPT ![s] = "sale"] ELSE books

Pay(s) ==
    /\ status[s] = "PENDING"
    /\ status' = [status EXCEPT ![s] = "COMPLETED"]
    /\ books' = [books EXCEPT ![s] = "sale"]

(* One void, one failed payment, or a batch of stale sales. *)
Cancel(S) ==
    /\ S # {}
    /\ \A s \in S : status[s] \in {"PENDING", "COMPLETED"}
    /\ status' = [s \in Sale |-> IF s \in S THEN "VOIDED" ELSE status[s]]
    /\ \E late \in BOOLEAN :
          books' = [s \in Sale |-> IF s \in S /\ books[s] = "sale" /\ ~late
                                   THEN "reversed" ELSE books[s]]

Next ==
    \/ \E s \in Sale : Ring(s) \/ Pay(s)
    \/ \E S \in SUBSET Sale : Cancel(S)

Spec == Init /\ [][Next]_vars

=============================================================================

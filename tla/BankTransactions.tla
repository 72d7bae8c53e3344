-------------------------- MODULE BankTransactions --------------------------
(***************************************************************************)
(* What the payments service promises about a bank transaction it has      *)
(* been told of: it is received once, decided once, corrected by an admin  *)
(* at most once, and announced to billing exactly when it is matched.      *)
(* PaymentIntake implements this.                                          *)
(***************************************************************************)
EXTENDS Naturals

CONSTANT Keys                  \* (source, external_id)

VARIABLES status, announced    \* Keys -> status of the row, events written

vars == <<status, announced>>

Init == /\ status = [k \in Keys |-> "none"]
        /\ announced = [k \in Keys |-> 0]

Move(k, from, to) ==
    /\ status[k] = from
    /\ status' = [status EXCEPT ![k] = to]
    /\ announced' = [announced EXCEPT ![k] = IF to = "matched" THEN @ + 1 ELSE @]

Receive(k) == Move(k, "none", "pending")
Decide(k) == \E to \in {"matched", "manual_review", "unmatched"} : Move(k, "pending", to)
Review(k) == \E to \in {"matched", "ignored"} : Move(k, "manual_review", to)

Next == \E k \in Keys : Receive(k) \/ Decide(k) \/ Review(k)

Spec == Init /\ [][Next]_vars /\ \A k \in Keys : WF_vars(Decide(k))
=============================================================================

----------------------------- MODULE MCBilling -----------------------------
(* Instances of Billing for TLC. *)
EXTENDS Billing, TLC

\* Runs, bank transactions and editors are interchangeable: nothing orders them.
Symmetry == Permutations(Run) \cup Permutations(PaymentId) \cup Permutations(Editor)
=============================================================================

----------------------------- MODULE MCCheckout -----------------------------
(* An instance of StripeCheckout for TLC.                                  *)
EXTENDS StripeCheckout, TLC

ASSUME InstanceAssumption == StripeAssumption
=============================================================================

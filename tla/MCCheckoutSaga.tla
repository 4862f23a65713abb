---------------------------- MODULE MCCheckoutSaga ----------------------------
(* Instances of CheckoutSaga. *)
EXTENDS CheckoutSaga, TLC
=============================================================================

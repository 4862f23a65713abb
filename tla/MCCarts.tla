------------------------------- MODULE MCCarts -------------------------------
(* Instances of Carts; its requests are interchangeable, and its carts. *)
EXTENDS Carts, TLC

Symmetry == Permutations(Workers) \cup Permutations(Ids)
=============================================================================

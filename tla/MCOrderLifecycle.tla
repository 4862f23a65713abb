-------------------------- MODULE MCOrderLifecycle --------------------------
(***************************************************************************)
(* Small instances of OrderLifecycle for TLC.                              *)
(***************************************************************************)
EXTENDS OrderLifecycle, TLC

CONSTANTS w1, w2

Symmetry == Permutations(Workers)
=============================================================================

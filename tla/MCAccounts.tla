------------------------------ MODULE MCAccounts ------------------------------
(* Instances of Accounts; its requests are interchangeable. *)
EXTENDS Accounts, TLC

Symmetry == Permutations(Workers)
=============================================================================

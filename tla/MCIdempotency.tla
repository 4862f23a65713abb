---------------------------- MODULE MCIdempotency ----------------------------
EXTENDS Idempotency, TLC

Interchangeable == Permutations(Requests)
=============================================================================

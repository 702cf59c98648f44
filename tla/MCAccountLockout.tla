-------------------------- MODULE MCAccountLockout --------------------------
(* A small instance of AccountLockout for TLC. *)
EXTENDS AccountLockout, TLC

\* Handlers are interchangeable.
Interchangeable == Permutations(Requests)
=============================================================================

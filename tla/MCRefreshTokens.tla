-------------------------- MODULE MCRefreshTokens --------------------------
(* A small instance of RefreshTokens for TLC. *)
EXTENDS RefreshTokens, TLC

\* Users, tokens and requests are interchangeable.
Interchangeable ==
    Permutations(Users) \cup Permutations(Tokens) \cup Permutations(Requests)
=============================================================================

--------------------------- MODULE MCSessionClient ---------------------------
(* A small instance of SessionClient for TLC. *)
EXTENDS SessionClient, TLC

\* A role that may create drafts, and one that may not.
Interchangeable ==
    Permutations(Users \ Unsteady) \cup Permutations(Requests) \cup Permutations(Tokens)

MCRoles == {"detection_engineer", "analyst"}
=============================================================================

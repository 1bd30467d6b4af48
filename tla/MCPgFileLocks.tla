--------------------------- MODULE MCPgFileLocks ---------------------------
(***************************************************************************)
(* Model checking of PgFileLocks.                                          *)
(***************************************************************************)
EXTENDS PgFileLocks, TLC

\* Callers are interchangeable, and so are tokens.
Symmetry == Permutations(Client) \cup Permutations(Token)
=============================================================================

------------------------- MODULE MCPgFileLocksSeen -------------------------
(***************************************************************************)
(* Model checking of PgFileLocksSeen.                                      *)
(***************************************************************************)
EXTENDS PgFileLocksSeen, TLC

\* Callers are interchangeable, and so are tokens.
Symmetry == Permutations(Client) \cup Permutations(Token)
=============================================================================

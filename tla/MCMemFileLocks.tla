--------------------------- MODULE MCMemFileLocks ---------------------------
(***************************************************************************)
(* Model checking of MemFileLocks.                                         *)
(***************************************************************************)
EXTENDS MemFileLocks, TLC

\* Callers are interchangeable, and so are tokens.
Symmetry == Permutations(Client) \cup Permutations(Token)
=============================================================================

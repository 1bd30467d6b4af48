----------------------------- MODULE MCAccounts -----------------------------
(***************************************************************************)
(* Model checking of Accounts.                                             *)
(***************************************************************************)
EXTENDS Accounts, TLC

\* "a" and "A" differ in case only.
MCFold == [e \in Email |-> IF e = "A" THEN "a" ELSE e]

Symmetry == Permutations(Id) \cup Permutations(Slot) \cup Permutations(Name)
              \cup Permutations(Password)
=============================================================================

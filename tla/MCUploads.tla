----------------------------- MODULE MCUploads -----------------------------
(***************************************************************************)
(* Model checking of Uploads.                                              *)
(***************************************************************************)
EXTENDS Uploads, TLC

Symmetry == Permutations(User) \cup Permutations(Lease)
              \cup Permutations(Upload) \cup Permutations(Slot)
=============================================================================

----------------------------- MODULE MCIdentity -----------------------------
(***************************************************************************)
(* Small instances of Identity for TLC.                                    *)
(***************************************************************************)
EXTENDS Identity, TLC

Symmetry ==
  Permutations(Users) \cup Permutations(Addresses) \cup Permutations(Requests)
=============================================================================

------------------------------ MODULE MCNative ------------------------------
(***************************************************************************)
(* Native for model checking: no action tells one user page from another,  *)
(* so states that differ only in their names are one.                      *)
(***************************************************************************)
EXTENDS Native, TLC

Interchangeable == Permutations(UserPage)
=============================================================================

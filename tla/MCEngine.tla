------------------------------ MODULE MCEngine ------------------------------
(***************************************************************************)
(* Engine for TLC.  Accounts and UserRefNums are interchangeable.          *)
(***************************************************************************)
EXTENDS Engine, TLC

ClientSymmetry == Permutations(Accounts) \cup Permutations(UserRefNums)
=============================================================================

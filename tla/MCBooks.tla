------------------------------ MODULE MCBooks ------------------------------
(***************************************************************************)
(* The books for TLC: five orders of two sizes.  As in workload_bench.cpp  *)
(* limit prices start at the lowest tick, where market sell orders rest,   *)
(* and keep clear of the highest.                                          *)
(***************************************************************************)
EXTENDS LockstepBooks
=============================================================================

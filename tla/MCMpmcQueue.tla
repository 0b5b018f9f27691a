---------------------------- MODULE MCMpmcQueue ----------------------------
(* mpmc_queue with the smallest size its constructor accepts, and enough   *)
(* items per thread to fill it and go round a second time.                 *)
EXTENDS MpmcQueue
=============================================================================

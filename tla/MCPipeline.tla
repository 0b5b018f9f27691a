----------------------------- MODULE MCPipeline -----------------------------
(***************************************************************************)
(* Pipeline for TLC.  MCPipeline.cfg: safety with failing operations.      *)
(* MCPipelineDrain.cfg: traffic from one client that fills both queues (of *)
(* one place each) while every thread has work in hand; any send is short. *)
(***************************************************************************)
EXTENDS Pipeline, TLC

ClientSymmetry == Permutations(Clients)
=============================================================================

---------------------------- MODULE MCSpscQueue ----------------------------
(***************************************************************************)
(* SpscQueue for TLC: two cells, two payloads and enough messages to wrap  *)
(* the ring twice.                                                         *)
(***************************************************************************)
EXTENDS SpscQueue
=============================================================================

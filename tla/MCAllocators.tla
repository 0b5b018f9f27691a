---------------------------- MODULE MCAllocators ----------------------------
(***************************************************************************)
(* A pool of five slots.  Arenas: too small for a block, of three blocks   *)
(* of two sizes, one of them odd; the explicit list also with five equal   *)
(* blocks, whose list can have three nodes; the improved list also with    *)
(* requests of 0, the only ones that use up its meta region first.         *)
(***************************************************************************)
EXTENDS Allocators, TLC

MCWorkload ==
    "bump" :> (9 :> {1, 4}) @@
    "cpp_arena" :> (9 :> {1, 4}) @@
    "implicit" :> (3 :> {2} @@ 14 :> {1, 4}) @@
    "improved" :> (9 :> {0, 1} @@ 13 :> {1, 4}) @@
    "coalescing" :> (4 :> {2} @@ 15 :> {1, 4}) @@
    "explicit" :> (4 :> {2} @@ 15 :> {1, 4} @@ 25 :> {2})

CoalescingOnly == "coalescing" :> (15 :> {1, 4})
=============================================================================

------------------------------- MODULE Heap --------------------------------
(***************************************************************************)
(* What the C allocators promise: from a mapped arena, malloc hands out    *)
(* regions that lie in the arena and overlap no region the caller still    *)
(* holds, and free takes back exactly the one region given.                *)
(* Addresses and sizes count machine words.                                *)
(***************************************************************************)
EXTENDS Integers, Functions

CONSTANTS Requests,     \* the sizes callers ask for
          Sizes,        \* the sizes arenas are created with
          Base          \* the address an arena is mapped at

VARIABLES arena,        \* the mapped addresses, {} when there is no arena
          held          \* held[p]: the size asked for when p was handed out

vars == <<arena, held>>

Region(p, n) == p .. p + n - 1

Init == arena = {} /\ held = <<>>

Create == /\ arena = {}
          /\ \E n \in Sizes : arena' = Region(Base, n)
          /\ held' = <<>>

\* deinit and reset end the life of every region
Destroy == arena' = {} /\ held' = <<>>
Clear == held' = <<>> /\ UNCHANGED arena

Malloc(p, n) == /\ p \notin DOMAIN held
                /\ Region(p, n) \subseteq arena
                /\ \A q \in DOMAIN held :
                     Region(p, n) \cap Region(q, held[q]) = {}
                /\ held' = [q \in DOMAIN held \cup {p} |->
                              IF q = p THEN n ELSE held[q]]
                /\ UNCHANGED arena

Free(p) == /\ p \in DOMAIN held
           /\ held' = Restrict(held, DOMAIN held \ {p})
           /\ UNCHANGED arena

Next == \/ Create \/ Destroy \/ Clear
        \/ \E p \in arena, n \in Requests : Malloc(p, n)
        \/ \E p \in DOMAIN held : Free(p)

Spec == Init /\ [][Next]_vars
=============================================================================

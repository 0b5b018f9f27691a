----------------------------- MODULE Allocators -----------------------------
(***************************************************************************)
(* Every allocator of the repository, one per behaviour: the engine's pool *)
(* (EXTENDS Allocator) and the six that manage an arena of words.          *)
(***************************************************************************)
EXTENDS Allocator, Arena

Bump == INSTANCE BumpAllocator
Implicit == INSTANCE ImplicitFreeList
Improved == INSTANCE ImprovedFreeList
Tagged == INSTANCE BoundaryTags
Listed == INSTANCE ExplicitFreeList

AllocatorsInit == /\ kind \in Kinds \cup {"pool"}
                  /\ Unused
                  /\ Init

HeapNext == \/ kind = "bump" /\ Bump!Next
            \/ kind = "cpp_arena" /\ Bump!ArenaNext
            \/ kind = "implicit" /\ Implicit!Next
            \/ kind = "improved" /\ Improved!Next
            \/ kind = "coalescing" /\ Tagged!Next
            \/ kind = "explicit" /\ Listed!ListNext

AllocatorsNext == \/ kind = "pool" /\ Next /\ UNCHANGED arenaVars
                  \/ HeapNext /\ UNCHANGED poolVars

AllocatorsSpec == AllocatorsInit /\ [][AllocatorsNext]_<<poolVars, arenaVars>>
-----------------------------------------------------------------------------
(* The blocks tile the arena up to last_ptr, whatever was split, merged,   *)
(* reused and reset before, so that every walk, every merge and every way  *)
(* back from a pointer to its header lands on a real header.               *)
BlocksTile == /\ kind \in {"bump", "cpp_arena"} => Bump!BelowPointer
              /\ kind = "implicit" => Implicit!Tiled
              /\ kind = "improved" => Improved!Tiled
              /\ kind \in {"coalescing", "explicit"} => Tagged!Tiled

InUse == CASE kind = "implicit" -> Implicit!InUse
           [] kind = "improved" -> Improved!InUse
           [] kind \in {"coalescing", "explicit"} -> Tagged!InUse
           [] OTHER -> DOMAIN held

Room(ptr) == CASE kind = "implicit" -> Implicit!Room(ptr)
               [] kind = "improved" -> Improved!Room(ptr)
               [] kind \in {"coalescing", "explicit"} -> Tagged!Room(ptr)
               [] OTHER -> held[ptr]

(* The allocated blocks are exactly the ones the caller holds, each with   *)
(* room for what was asked: no leak, and free of a held pointer succeeds;  *)
(* no call touches what callers wrote: neither tags nor links go there.    *)
HeldIntact == /\ InUse = DOMAIN held
              /\ \A ptr \in DOMAIN held :
                   /\ held[ptr] <= Room(ptr)
                   /\ \A a \in ptr .. ptr + held[ptr] - 1 : mem[a] = UserData

(* The comment in alloc_free of the coalescing list: a free block is never *)
(* next to another one, which is why one check per side is enough.         *)
NoFreeNeighbours == kind \in {"coalescing", "explicit"} => Tagged!Merged

(* The explicit list's cycle from HEAD visits every free block and nothing *)
(* else: no free block is lost to malloc, none in use can be found by it,  *)
(* and HEAD never outlives its arena.                                      *)
ListIsFreeBlocks == kind = "explicit" => Listed!Linked

(* Seen from the callers, malloc and free are those of the abstract heap.  *)
MappedWords == IF Mapped THEN Base .. Base + size - 1 ELSE {}
AbstractHeap == INSTANCE Heap WITH arena <- MappedWords
HeapSpec == AbstractHeap!Spec

(* The comment in alloc_malloc: all payloads stay 16-byte aligned, which   *)
(* is two words.  The footer makes a block an odd number of words.         *)
PayloadsAligned == \A ptr \in DOMAIN held : (ptr - start_ptr) % ALIGN = 0
=============================================================================

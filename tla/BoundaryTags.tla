--------------------------- MODULE BoundaryTags ----------------------------
(***************************************************************************)
(* implicit_free_list_coalasce/allocator.c, and the block layout, the      *)
(* splitting and the merging that list_explicit_free/allocator.c took over *)
(* from it: a block at address b is                                        *)
(*     | size | allocated | payload, `size` words | footer = size |        *)
(* and blocks follow one another from start_ptr to last_ptr.               *)
(***************************************************************************)
EXTENDS Arena

BlockSize(b) == mem[b]
Allocated(b) == mem[b + 1] # 0
Payload(b) == b + 2
Header(ptr) == ptr - 2
After(b) == b + 3 + mem[b]

\* the block in front, found through the footer that ends right before b
Before(b) == b - 3 - mem[b - 1]

\* header and footer of a block of the given size
Tag(m, b, n, flag) == [m EXCEPT ![b] = n, ![b + 1] = flag, ![b + 2 + n] = n]

Headers == LET from[b \in Addresses] == IF b >= last_ptr THEN {}
                                        ELSE {b} \cup from[After(b)]
           IN  IF Mapped THEN from[start_ptr] ELSE {}
FreeBlocks == {b \in Headers : ~Allocated(b)}

\* where the first-fit search over all blocks stops: one that fits, or last_ptr
Search(n) ==
    LET from[b \in Addresses] ==
          IF b >= last_ptr \/ (~Allocated(b) /\ BlockSize(b) >= n) THEN b
          ELSE from[After(b)]
    IN  from[start_ptr]

HasRoom(n) == last_ptr + n + 3 <= start_ptr + size

\* Mutant of CanSplit: the remainder's own tags are not counted.
CanSplitTight(b, n) == BlockSize(b) >= n + ALIGN

CanSplit(b, n) == BlockSize(b) >= n + 3 + ALIGN

\* the tags of block b cut to n words and of the remainder behind it
Split(m, b, n) == Tag(Tag(m, b, n, 1), b + n + 3, BlockSize(b) - n - 3, 0)

Accepted(ptr) == /\ ptr >= start_ptr + 2
                 /\ ptr < last_ptr
                 /\ Allocated(Header(ptr))

\* Mutant of MergesFront: the neighbour's flag is not looked at.
MergesFrontTaken(b) == After(b) < last_ptr

MergesFront(b) == After(b) < last_ptr /\ ~Allocated(After(b))

\* Mutant of MergesBack: no merging with the block in front.
MergesBackNever(b) == FALSE

MergesBack(b) == b > start_ptr /\ ~Allocated(Before(b))

\* header and size of the free block that takes the place of block b
MergedStart(b) == IF MergesBack(b) THEN Before(b) ELSE b
MergedSize(b) == BlockSize(b)
                   + (IF MergesFront(b) THEN BlockSize(After(b)) + 3 ELSE 0)
                   + (IF MergesBack(b) THEN mem[b - 1] + 3 ELSE 0)
-----------------------------------------------------------------------------
(* The coalescing implicit list                                            *)

Found(n) == Mapped /\ Search(n) < last_ptr

MallocSplit(n) ==
    LET b == Search(Round(n))
    IN  /\ Found(Round(n))
        /\ CanSplit(b, Round(n))
        /\ Hand(Split(mem, b, Round(n)), Payload(b), n)
        /\ UNCHANGED <<kind, start_ptr, last_ptr, size, HEAD>>

\* too small to split: the whole block, its tags unchanged
MallocWhole(n) ==
    LET b == Search(Round(n))
    IN  /\ Found(Round(n))
        /\ ~CanSplit(b, Round(n))
        /\ Hand([mem EXCEPT ![b + 1] = 1], Payload(b), n)
        /\ UNCHANGED <<kind, start_ptr, last_ptr, size, HEAD>>

\* no block fits and the arena has room: a new block at last_ptr
MallocAppend(n) ==
    /\ Mapped
    /\ ~Found(Round(n))
    /\ HasRoom(Round(n))
    /\ last_ptr' = last_ptr + Round(n) + 3
    /\ Hand(Tag(mem, last_ptr, Round(n), 1), Payload(last_ptr), n)
    /\ UNCHANGED <<kind, start_ptr, size, HEAD>>

MallocNull(n) == /\ start_ptr # MAP_FAILED
                 /\ ~Found(Round(n))
                 /\ ~HasRoom(Round(n))
                 /\ UNCHANGED arenaVars

AllocFree(ptr) ==
    /\ Mapped
    /\ Accepted(ptr)
    /\ mem' = Tag(mem, MergedStart(Header(ptr)), MergedSize(Header(ptr)), 0)
    /\ Drop(ptr)
    /\ UNCHANGED <<kind, start_ptr, last_ptr, size, HEAD>>

FreeRejected(ptr) == Mapped /\ ~Accepted(ptr) /\ UNCHANGED arenaVars

\* what is still a free block of its own may be freed again, and is rejected
Next == \/ Lifecycle
        \/ \E n \in Asked : \/ MallocSplit(n) \/ MallocWhole(n)
                            \/ MallocAppend(n) \/ MallocNull(n)
        \/ \E ptr \in DOMAIN held : AllocFree(ptr)
        \/ \E b \in FreeBlocks : FreeRejected(Payload(b))
-----------------------------------------------------------------------------
(* Walking by sizes ends exactly at last_ptr, and every footer repeats the *)
(* size of its header.                                                     *)
Tiled == \A b \in Headers : /\ mem[b] >= 0
                            /\ After(b) <= last_ptr
                            /\ mem[b + 2 + mem[b]] = mem[b]

InUse == {Payload(b) : b \in Headers \ FreeBlocks}
Room(ptr) == BlockSize(Header(ptr))

(* A free block is never next to another one.                              *)
Merged == \A b \in FreeBlocks : After(b) < last_ptr => Allocated(After(b))
=============================================================================

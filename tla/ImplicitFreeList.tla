-------------------------- MODULE ImplicitFreeList -------------------------
(***************************************************************************)
(* implicit_free_list/allocator.c: blocks | size | allocated | payload |   *)
(* one after the other from start_ptr to last_ptr; first fit over all of   *)
(* them, whole blocks only, nothing merged.                                *)
(***************************************************************************)
EXTENDS Arena

Allocated(b) == mem[b + 1] # 0
Following(b) == b + 2 + mem[b]

\* where the loop stops: the first free block that fits, or last_ptr
Search(n) ==
    LET from[b \in Addresses] ==
          IF b >= last_ptr \/ (~Allocated(b) /\ mem[b] >= n) THEN b
          ELSE from[Following(b)]
    IN  from[start_ptr]

MallocReuse(n) ==
    LET b == Search(Round(n))
    IN  /\ Mapped
        /\ b < last_ptr
        /\ Hand([mem EXCEPT ![b + 1] = 1], b + 2, n)
        /\ UNCHANGED <<kind, start_ptr, last_ptr, size, HEAD>>

MallocAppend(n) ==
    LET b == Search(Round(n))
    IN  /\ Mapped
        /\ b >= last_ptr
        /\ b + Round(n) + 2 <= start_ptr + size
        /\ Hand([mem EXCEPT ![b] = Round(n), ![b + 1] = 1], b + 2, n)
        /\ last_ptr' = b + 2 + Round(n)
        /\ UNCHANGED <<kind, start_ptr, size, HEAD>>

MallocNull(n) ==
    LET b == Search(Round(n))
    IN  /\ start_ptr # MAP_FAILED
        /\ b >= last_ptr
        /\ b + Round(n) + 2 > start_ptr + size
        /\ UNCHANGED arenaVars

\* ptr points behind a header of the arena whose flag is set
Accepted(ptr) == /\ ptr >= start_ptr + 2
                 /\ ptr < last_ptr
                 /\ mem[ptr - 1] # 0

AllocFree(ptr) == /\ Mapped
                  /\ Accepted(ptr)
                  /\ mem' = [mem EXCEPT ![ptr - 1] = 0]
                  /\ Drop(ptr)
                  /\ UNCHANGED <<kind, start_ptr, last_ptr, size, HEAD>>

FreeRejected(ptr) == Mapped /\ ~Accepted(ptr) /\ UNCHANGED arenaVars

Headers == LET from[b \in Addresses] == IF b >= last_ptr THEN {}
                                        ELSE {b} \cup from[Following(b)]
           IN  IF Mapped THEN from[start_ptr] ELSE {}

\* what is free may be freed again, and is rejected
Next == \/ Lifecycle
        \/ \E n \in Asked : MallocReuse(n) \/ MallocAppend(n) \/ MallocNull(n)
        \/ \E b \in Headers : ~Allocated(b) /\ FreeRejected(b + 2)
        \/ \E ptr \in DOMAIN held : AllocFree(ptr)

(* Walking by sizes lands on headers only and ends exactly at last_ptr.    *)
Tiled == \A b \in Headers : mem[b] >= 0 /\ Following(b) <= last_ptr

InUse == {b + 2 : b \in {h \in Headers : Allocated(h)}}
Room(ptr) == mem[ptr - 2]
=============================================================================

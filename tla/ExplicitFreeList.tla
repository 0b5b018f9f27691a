-------------------------- MODULE ExplicitFreeList -------------------------
(***************************************************************************)
(* list_explicit_free/allocator.c: the free blocks of a boundary-tagged    *)
(* heap are linked in a circular doubly linked list through the first two  *)
(* words of their payloads; malloc searches that list first fit from HEAD, *)
(* free unlinks the neighbours it merges and pushes the result.            *)
(***************************************************************************)
EXTENDS BoundaryTags

\* the links of a free block with header b
PrevOf(m, b) == m[b + 2]
NextOf(m, b) == m[b + 3]

\* Mutant of Unlink: "prev == next" taken for "the only node".
UnlinkPair(h, b) ==
    LET p == PrevOf(h.mem, b)
        n == NextOf(h.mem, b)
    IN  IF n = p
        THEN [h EXCEPT !.head = NULL]
        ELSE [mem  |-> [h.mem EXCEPT ![p + 3] = n, ![n + 2] = p],
              head |-> IF h.head = b THEN n ELSE h.head]

\* take block b out of the list of h, a heap image with its HEAD
Unlink(h, b) ==
    LET p == PrevOf(h.mem, b)
        n == NextOf(h.mem, b)
    IN  IF n = b
        THEN [h EXCEPT !.head = NULL]
        ELSE [mem  |-> [h.mem EXCEPT ![p + 3] = n, ![n + 2] = p],
              head |-> IF h.head = b THEN n ELSE h.head]

\* put block b at the head of the list
Push(h, b) ==
    LET tail == IF h.head = NULL THEN b ELSE PrevOf(h.mem, h.head)
        first == IF h.head = NULL THEN b ELSE h.head
    IN  [mem  |-> [h.mem EXCEPT ![b + 2] = tail, ![b + 3] = first,
                                ![tail + 3] = b, ![first + 2] = b],
         head |-> b]

\* block `new` takes the place of block b in the list
Replace(h, b, new) ==
    LET p == PrevOf(h.mem, b)
        n == NextOf(h.mem, b)
    IN  [mem  |-> IF n = b
                  THEN [h.mem EXCEPT ![new + 2] = new, ![new + 3] = new]
                  ELSE [h.mem EXCEPT ![new + 2] = p, ![new + 3] = n,
                                     ![p + 3] = new, ![n + 2] = new],
         head |-> IF h.head = b THEN new ELSE h.head]

Here == [mem |-> mem, head |-> HEAD]

\* the k-th node met from HEAD
Node[k \in Nat] == IF k = 0 THEN HEAD ELSE NextOf(mem, Node[k - 1])

\* a block and its tags take at least ALIGN + 3 words
MaxBlocks == HeapWords \div (ALIGN + 3)

\* how far the do-while goes: nodes 0 .. k, none but the first being HEAD
Reaches(k) == HEAD # NULL /\ \A j \in 1 .. k : Node[j] # HEAD

Hits(n) == {k \in 0 .. MaxBlocks : Reaches(k) /\ BlockSize(Node[k]) >= n}
FirstFit(n) == Node[CHOOSE k \in Hits(n) : \A j \in Hits(n) : k <= j]
-----------------------------------------------------------------------------
\* malloc takes words from the list: p, from the heap h
HandListed(h, p, n) == /\ Hand(h.mem, p, n)
                       /\ HEAD' = h.head
                       /\ UNCHANGED <<kind, start_ptr, last_ptr, size>>

\* the remainder takes the block's place in the list
ListSplit(n) ==
    /\ Hits(Round(n)) # {}
    /\ LET b == FirstFit(Round(n))
           linked == Replace(Here, b, b + Round(n) + 3)
       IN  /\ CanSplit(b, Round(n))
           /\ HandListed([linked EXCEPT !.mem = Split(@, b, Round(n))],
                         Payload(b), n)

ListWhole(n) ==
    /\ Hits(Round(n)) # {}
    /\ LET b == FirstFit(Round(n))
           linked == Unlink(Here, b)
       IN  /\ ~CanSplit(b, Round(n))
           /\ HandListed([linked EXCEPT !.mem = [@ EXCEPT ![b + 1] = 1]],
                         Payload(b), n)

ListAppend(n) ==
    /\ Mapped
    /\ Hits(Round(n)) = {}
    /\ HasRoom(Round(n))
    /\ last_ptr' = last_ptr + Round(n) + 3
    /\ Hand(Tag(mem, last_ptr, Round(n), 1), Payload(last_ptr), n)
    /\ UNCHANGED <<kind, start_ptr, size, HEAD>>

ListNull(n) == /\ start_ptr # MAP_FAILED
               /\ Hits(Round(n)) = {}
               /\ ~HasRoom(Round(n))
               /\ UNCHANGED arenaVars

\* the heap after the neighbours that merge with b have left the list
Absorb(b) ==
    LET front == IF MergesFront(b) THEN Unlink(Here, After(b)) ELSE Here
    IN  IF MergesBack(b) THEN Unlink(front, Before(b)) ELSE front

ListFree(ptr) ==
    /\ Mapped
    /\ Accepted(ptr)
    /\ LET b == MergedStart(Header(ptr))
           absorbed == Absorb(Header(ptr))
           tagged == [absorbed EXCEPT !.mem = Tag(@, b, MergedSize(Header(ptr)), 0)]
           pushed == Push(tagged, b)
       IN  mem' = pushed.mem /\ HEAD' = pushed.head
    /\ Drop(ptr)
    /\ UNCHANGED <<kind, start_ptr, last_ptr, size>>

ListInit(n) == AllocInit(n)
ListDeinit == AllocDeinit
ListReset == AllocReset

ListNext == \/ \E n \in DOMAIN Workload[kind] : ListInit(n)
            \/ AllocInitFails \/ ListDeinit \/ ListReset
            \/ \E n \in Asked : \/ ListSplit(n) \/ ListWhole(n)
                                \/ ListAppend(n) \/ ListNull(n)
            \/ \E ptr \in DOMAIN held : ListFree(ptr)
            \/ \E b \in FreeBlocks : FreeRejected(Payload(b))

(* One cycle from HEAD visits every free block of the heap and nothing     *)
(* else, and prev is the inverse of next.                                  *)
Linked ==
    IF FreeBlocks = {} THEN HEAD = NULL
    ELSE /\ HEAD \in FreeBlocks
         /\ \A b \in FreeBlocks : /\ NextOf(mem, b) \in FreeBlocks
                                  /\ PrevOf(mem, NextOf(mem, b)) = b
         /\ FreeBlocks = {Node[k] : k \in 0 .. Cardinality(FreeBlocks) - 1}
=============================================================================

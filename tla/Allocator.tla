----------------------------- MODULE Allocator -----------------------------
(***************************************************************************)
(* Allocator<T, Size>: the pool the matching engine takes its order blocks *)
(* from.  The free list is intrusive: the `next` pointer of a free slot    *)
(* overlays the first bytes of the slot itself, so it means something only *)
(* while the slot is free and is garbage (the owner's data) otherwise.     *)
(*                                                                         *)
(* `live` is the callers' side: the slots they hold.  `free_list` is an    *)
(* auxiliary variable: the slots of the free list from free_head on.  No   *)
(* guard reads either, except that callers only give back what they hold.  *)
(***************************************************************************)
EXTENDS Integers, Sequences

CONSTANTS Size          \* number of slots

ASSUME PoolSizeAssumption == Size \in Nat \ {0}

VARIABLES free_head,    \* first free slot, or nullptr
          next,         \* next[s]: the Pointer stored in slot s while it is free
          live,
          free_list

poolVars == <<free_head, next, live, free_list>>

Slots == 1 .. Size      \* in address order
nullptr == 0

\* what a slot's first bytes hold once its owner has written to it
Overwritten == Size + 1

Init == /\ free_head = 1
        /\ next = [s \in Slots |-> IF s = Size THEN nullptr ELSE s + 1]
        /\ live = {}
        /\ free_list = [i \in 1 .. Size |-> i]

\* Mutant of full: the last free slot is never given out.
fullEarly == free_head = nullptr \/ next[free_head] = nullptr

full == free_head = nullptr

\* Mutant of Allocate: free_head is not moved on.
AllocateStay(s) == /\ ~full
                   /\ s = free_head
                   /\ next' = [next EXCEPT ![s] = Overwritten]
                   /\ live' = live \cup {s}
                   /\ free_list' = Tail(free_list)
                   /\ UNCHANGED free_head

\* the caller writes its T into the slot it got
Allocate(s) == /\ ~full
               /\ s = free_head
               /\ free_head' = next[free_head]
               /\ next' = [next EXCEPT ![s] = Overwritten]
               /\ live' = live \cup {s}
               /\ free_list' = Tail(free_list)

AllocateFails == full /\ UNCHANGED poolVars

\* Mutant of Deallocate: the returned slot is not linked to the old list.
DeallocateUnlinked(s) == /\ free_head' = s
                         /\ live' = live \ {s}
                         /\ free_list' = <<s>> \o free_list
                         /\ UNCHANGED next

Deallocate(s) == /\ next' = [next EXCEPT ![s] = free_head]
                 /\ free_head' = s
                 /\ live' = live \ {s}
                 /\ free_list' = <<s>> \o free_list

(* A client that gives back only what it holds (the engine is one).        *)
Next == \/ \E s \in Slots : Allocate(s)
        \/ AllocateFails
        \/ \E s \in live : Deallocate(s)

Spec == Init /\ [][Next]_poolVars
-----------------------------------------------------------------------------
(* Every pool variable stays in its type; free_head is a slot or nullptr.  *)
PoolTypeOK == /\ free_head \in Slots \cup {nullptr}
              /\ next \in [Slots -> 0 .. Overwritten]
              /\ live \subseteq Slots
              /\ free_list \in Seq(Slots)

(* Following the pointers from free_head visits every slot the callers do  *)
(* not hold, each once, and ends in nullptr: no slot can be handed out     *)
(* twice, none is lost, and no pointer read by allocate() is owner data.   *)
FreeListInv ==
    /\ free_head = IF free_list = <<>> THEN nullptr ELSE free_list[1]
    /\ \A i \in 1 .. Len(free_list) :
          next[free_list[i]] = IF i = Len(free_list) THEN nullptr
                                                     ELSE free_list[i + 1]
    /\ \A i, j \in 1 .. Len(free_list) : i # j => free_list[i] # free_list[j]
    /\ live = Slots \ {free_list[i] : i \in 1 .. Len(free_list)}

(* The pool's contract (tests/allocator_test.cpp): full() is true exactly  *)
(* when all Size slots are held.                                           *)
FullMeansAllLive == full <=> live = Slots

(* allocate() never hands out a slot that a caller still holds.            *)
NoDoubleAllocation == [][\A s \in live : ~Allocate(s)]_poolVars
=============================================================================

-------------------------- MODULE ImprovedFreeList -------------------------
(***************************************************************************)
(* implicit_free_list-improved/allocator.c: two mappings of `size` words.  *)
(* The meta region (start_ptr is meta_start_ptr, last_ptr is               *)
(* meta_last_ptr) holds an entry | size | allocated | payload_ptr | per    *)
(* block; the data region at Base holds | padding | meta_entry_ptr |       *)
(* payload |.  The model puts the meta region right behind the data, so    *)
(* that a block that grew past its region would be seen.                   *)
(***************************************************************************)
EXTENDS Arena

data_start_ptr == Base

AllocInitTwo(n) == /\ start_ptr = NULL
                   /\ mem' = [a \in Words |-> 0]
                   /\ start_ptr' = Base + n /\ last_ptr' = Base + n
                   /\ size' = n
                   /\ UNCHANGED <<kind, HEAD, held>>

\* the second mapping fails: the first is undone and nothing is kept
AllocInitDataFails == start_ptr = NULL /\ UNCHANGED arenaVars

Entries == {start_ptr + 3 * k : k \in 0 .. (last_ptr - start_ptr) \div 3 - 1}
Fitting(n) == {e \in Entries : mem[e + 1] = 0 /\ mem[e] >= n}

MallocReuse(n) ==
    /\ Mapped
    /\ Fitting(Round(n)) # {}
    /\ LET e == CHOOSE e \in Fitting(Round(n)) :
                  \A f \in Fitting(Round(n)) : e <= f
       IN  Hand([mem EXCEPT ![e + 1] = 1], mem[e + 2], n)
    /\ UNCHANGED <<kind, start_ptr, last_ptr, size, HEAD>>

\* Mutant of BlockStart: the size of the last block is forgotten.
BlockStartShort == IF start_ptr = last_ptr THEN data_start_ptr
                   ELSE mem[last_ptr - 1]

\* behind the last block that was appended
BlockStart == IF start_ptr = last_ptr THEN data_start_ptr
              ELSE mem[last_ptr - 1] + mem[last_ptr - 3]

DataFits(n) == BlockStart + 2 + n <= data_start_ptr + size
MetaFits == last_ptr + 3 <= start_ptr + size

MallocFull(n) == /\ Mapped
                 /\ Fitting(Round(n)) = {}
                 /\ ~DataFits(Round(n)) \/ ~MetaFits
                 /\ UNCHANGED arenaVars

MallocAppend(n) ==
    LET payload == BlockStart + 2
    IN  /\ Mapped
        /\ Fitting(Round(n)) = {}
        /\ DataFits(Round(n)) /\ MetaFits
        /\ Hand([mem EXCEPT ![last_ptr] = Round(n), ![last_ptr + 1] = 1,
                            ![last_ptr + 2] = payload,
                            ![payload - 1] = last_ptr], payload, n)
        /\ last_ptr' = last_ptr + 3
        /\ UNCHANGED <<kind, start_ptr, size, HEAD>>

\* the word before ptr leads to an entry that leads back to ptr
Accepted(ptr) == /\ ptr \in data_start_ptr + 2 .. data_start_ptr + size - 1
                 /\ LET header == mem[ptr - 1]
                    IN  /\ header \in Entries
                        /\ mem[header + 2] = ptr
                        /\ mem[header + 1] # 0

AllocFree(ptr) == /\ Mapped
                  /\ Accepted(ptr)
                  /\ mem' = [mem EXCEPT ![mem[ptr - 1] + 1] = 0]
                  /\ Drop(ptr)
                  /\ UNCHANGED <<kind, start_ptr, last_ptr, size, HEAD>>

FreeRejected(ptr) == Mapped /\ ~Accepted(ptr) /\ UNCHANGED arenaVars

\* what is free may be freed again, and is rejected
Next == \/ \E n \in DOMAIN Workload[kind] : AllocInitTwo(n)
        \/ AllocInitFails \/ AllocInitDataFails \/ AllocDeinit \/ AllocReset
        \/ \E n \in Asked : MallocReuse(n) \/ MallocAppend(n) \/ MallocFull(n)
        \/ \E ptr \in DOMAIN held : AllocFree(ptr)
        \/ \E e \in Entries : mem[e + 1] = 0 /\ FreeRejected(mem[e + 2])

(* Entry by entry the blocks fill the data region without gap or overlap,  *)
(* and each block names its entry.                                         *)
Tiled == \A e \in Entries :
    /\ mem[mem[e + 2] - 1] = e
    /\ mem[e + 2] - 2 = IF e = start_ptr THEN data_start_ptr
                        ELSE mem[e - 1] + mem[e - 3]
    /\ mem[e + 2] + mem[e] <= data_start_ptr + size

InUse == {mem[e + 2] : e \in {f \in Entries : mem[f + 1] # 0}}
Room(ptr) == mem[mem[ptr - 1]]
=============================================================================

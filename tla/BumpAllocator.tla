--------------------------- MODULE BumpAllocator ---------------------------
(***************************************************************************)
(* bump_allocator/allocator.c: buffer is start_ptr, ptr is last_ptr and    *)
(* buff_size is size.  Memory comes back with alloc_reset only.  The C++   *)
(* Arena of 2_cpp_basics/0_bump_allocator is the same pointer with a       *)
(* constructor and a destructor: it has no uninitialised state to return   *)
(* to, and a failed mapping ends the program.                              *)
(***************************************************************************)
EXTENDS Arena

\* ptr, not buffer, tells whether there is an arena: after a failed mapping
\* alloc_init may be called again
AllocInitBump(n) == /\ ~Mapped
                    /\ mem' = [a \in Words |-> 0]
                    /\ start_ptr' = Base /\ last_ptr' = Base /\ size' = n
                    /\ UNCHANGED <<kind, HEAD, held>>

AllocInitBumpFails == /\ ~Mapped
                      /\ start_ptr' = MAP_FAILED
                      /\ UNCHANGED <<kind, mem, last_ptr, size, HEAD, held>>

\* buffer keeps the address of the memory that is gone
AllocDeinitBump == /\ Mapped
                   /\ mem' = [a \in Words |-> 0]
                   /\ last_ptr' = NULL /\ size' = 0
                   /\ held' = <<>>
                   /\ UNCHANGED <<kind, start_ptr, HEAD>>

AllocResetBump == /\ Mapped
                  /\ last_ptr' = start_ptr
                  /\ held' = <<>>
                  /\ UNCHANGED <<kind, mem, start_ptr, size, HEAD>>

Fits(n) == Round(n) <= start_ptr + size - last_ptr

MallocBump(n) == /\ Mapped
                 /\ Fits(n)
                 /\ Hand(mem, last_ptr, n)
                 /\ last_ptr' = last_ptr + Round(n)
                 /\ UNCHANGED <<kind, start_ptr, size, HEAD>>

\* malloc without an arena, or when it is used up
MallocBumpNull(n) == (Mapped => ~Fits(n)) /\ UNCHANGED arenaVars

\* does nothing, says 0
FreeBump(ptr) == Drop(ptr) /\ UNCHANGED <<kind, heapVars>>

Construct(n) == AllocInitBump(n)

Destroy == /\ Mapped
           /\ mem' = [a \in Words |-> 0]
           /\ start_ptr' = NULL /\ last_ptr' = NULL
           /\ held' = <<>>
           /\ UNCHANGED <<kind, size, HEAD>>

Alloc(n) == /\ Mapped
            /\ last_ptr + Round(n) <= start_ptr + size
            /\ Hand(mem, last_ptr, n)
            /\ last_ptr' = last_ptr + Round(n)
            /\ UNCHANGED <<kind, start_ptr, size, HEAD>>

Next == \/ \E n \in DOMAIN Workload[kind] : AllocInitBump(n)
        \/ AllocInitBumpFails \/ AllocDeinitBump \/ AllocResetBump
        \/ \E n \in Asked : MallocBump(n) \/ MallocBumpNull(n)
        \/ \E ptr \in DOMAIN held : FreeBump(ptr)

\* each object of the class has a life of its own: a new one starts afresh
ArenaNext == \/ start_ptr = NULL /\ \E n \in DOMAIN Workload[kind] : Construct(n)
             \/ Destroy \/ AllocResetBump
             \/ \E n \in Asked : Alloc(n)
             \/ \E ptr \in DOMAIN held : FreeBump(ptr)

(* What is handed out lies below the pointer, so nothing that is handed    *)
(* out next can meet it.                                                   *)
BelowPointer == Mapped =>
    /\ last_ptr <= start_ptr + size
    /\ \A ptr \in DOMAIN held : ptr + held[ptr] <= last_ptr
=============================================================================

------------------------------- MODULE Arena --------------------------------
(***************************************************************************)
(* What the allocators of 1_mem_allocator and the C++ Arena share: a       *)
(* mapped arena of words, the Allocator's pointers into it, and a caller   *)
(* that fills the words it asked for before it makes its next call.  One   *)
(* address is one word (sizeof(size_t) = 8 bytes), so ALIGN is 2.  A call  *)
(* is one step.  `kind` says which allocator the program was linked with;  *)
(* each has a module of its own over these variables.                      *)
(***************************************************************************)
EXTENDS Integers, FiniteSets, Functions

CONSTANTS HeapWords,    \* the words there are to map
          Workload      \* Workload[k][n]: what allocator k is asked for
                        \* after an alloc_init(n)

Kinds == DOMAIN Workload
Sizes == UNION {DOMAIN Workload[k] : k \in Kinds}
Requests == UNION UNION {Range(Workload[k]) : k \in Kinds}

ASSUME ArenaAssumption == /\ HeapWords \in Nat
                          /\ Sizes \subseteq 1 .. HeapWords
                          /\ Requests \subseteq Nat
                          /\ "improved" \in Kinds =>    \* two regions
                               \A n \in DOMAIN Workload["improved"] :
                                 2 * n <= HeapWords

VARIABLES kind,
          mem,                          \* the words
          start_ptr, last_ptr, size,    \* the Allocator
          HEAD,         \* the explicit list's static variable
          held          \* the caller: size asked for, by pointer it holds

heapVars == <<mem, start_ptr, last_ptr, size, HEAD>>
arenaVars == <<kind, heapVars, held>>

ALIGN == 2
NULL == 0
Base == 1               \* where mmap puts the arena
MAP_FAILED == -1
UserData == -1          \* what callers write: no size, flag or address
Words == Base .. Base + HeapWords - 1

\* where a walk through the arena can be
Addresses == {a \in Nat : a >= start_ptr}

\* in every allocator last_ptr is an address exactly when an arena is mapped
Mapped == last_ptr \notin {NULL, MAP_FAILED}

\* a request, rounded up to a multiple of ALIGN
Round(n) == IF n % ALIGN = 0 THEN n ELSE n + (ALIGN - (n % ALIGN))

Unused == /\ mem = [a \in Words |-> 0]
          /\ start_ptr = NULL /\ last_ptr = NULL /\ size = 0 /\ HEAD = NULL
          /\ held = <<>>

Asked == IF Mapped THEN Workload[kind][size] ELSE Requests

\* p is returned, for which the caller asked n words, from the heap image m
Hand(m, p, n) ==
    /\ mem' = [a \in Words |-> IF a \in p .. p + n - 1 THEN UserData ELSE m[a]]
    /\ held' = [q \in DOMAIN held \cup {p} |-> IF q = p THEN n ELSE held[q]]

\* the caller forgets the pointer it gives back
Drop(ptr) == held' = Restrict(held, DOMAIN held \ {ptr})
-----------------------------------------------------------------------------
(* alloc_init, alloc_deinit and alloc_reset, the same text in the implicit *)
(* lists and, but for HEAD, in the explicit one.                           *)

\* mmap gives zeroed words
AllocInit(n) == /\ start_ptr = NULL
                /\ mem' = [a \in Words |-> 0]
                /\ start_ptr' = Base /\ last_ptr' = Base /\ size' = n
                /\ UNCHANGED <<kind, HEAD, held>>

\* the failed mapping stays in start_ptr
AllocInitFails == /\ start_ptr = NULL
                  /\ start_ptr' = MAP_FAILED
                  /\ UNCHANGED <<kind, mem, last_ptr, size, HEAD, held>>

\* the caller's pointers die with the arena
AllocDeinit == /\ start_ptr # NULL
               /\ mem' = [a \in Words |-> 0]
               /\ start_ptr' = NULL /\ last_ptr' = NULL /\ size' = 0
               /\ HEAD' = NULL
               /\ held' = <<>>
               /\ UNCHANGED kind

AllocReset == /\ start_ptr # NULL
              /\ last_ptr' = start_ptr
              /\ HEAD' = NULL
              /\ held' = <<>>
              /\ UNCHANGED <<kind, mem, start_ptr, size>>

Lifecycle == \/ \E n \in DOMAIN Workload[kind] : AllocInit(n)
             \/ AllocInitFails \/ AllocDeinit \/ AllocReset
=============================================================================

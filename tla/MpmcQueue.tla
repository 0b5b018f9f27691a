----------------------------- MODULE MpmcQueue -----------------------------
(***************************************************************************)
(* mpmc_queue<T> and the threads of its main: every producer enqueues ITER *)
(* items, every consumer dequeues ITER, each retrying while the call       *)
(* returns false.  A thread claims a position by a compare-and-swap on     *)
(* enqueue_ptr (dequeue_ptr) after it saw the cell's sequence number, then *)
(* copies the payload by plain accesses, then publishes the cell again.    *)
(*                                                                         *)
(* The steps are the atomic accesses and the copy.  A thread is at         *)
(*   "pos"      the load of the shared pointer,                            *)
(*   "sequence" the acquire load of the cell's number,                     *)
(*   "claim"    the compare_exchange_weak,                                 *)
(*   "copy"     the access to the payload,                                 *)
(*   "release"  the store that gives the cell to the other side.           *)
(***************************************************************************)
EXTENDS Integers, Sequences, FiniteSets, Functions

CONSTANTS Size,                   \* the constructor's argument
          Producers, Consumers,   \* the threads
          ITER                    \* items per thread, which bounds positions

ASSUME QueueSizeAssumption ==
    Size \in Nat /\ Size > 2 /\ \E k \in 2 .. Size : Size = 2 ^ k
ASSUME ThreadsAssumption ==
    /\ Producers \cap Consumers = {}
    /\ Cardinality(Producers) = Cardinality(Consumers)
    /\ ITER \in Nat

VARIABLES sequence, data,         \* the two fields of each cell
          enqueue_ptr, dequeue_ptr,
          at,                     \* where each thread is
          pos,                    \* each thread's local pos, 0 while it has none
          done,                   \* how many items each thread has finished
          claimed,                \* ghost: item of each position claimed, not read
          taken                   \* ghost: the items read

vars == <<sequence, data, enqueue_ptr, dequeue_ptr, at, pos, done,
          claimed, taken>>

Threads == Producers \cup Consumers
Cells == 0 .. Size - 1
CellOf(n) == n % Size                 \* n & buffer_mask
Item == Producers \X (0 .. ITER - 1)  \* the i of one producer's loop
NoItem == <<>>                        \* an uninitialised payload

\* what thread p passes to enqueue
Argument(p) == <<p, done[p]>>

Init == /\ sequence = [i \in Cells |-> i]
        /\ data = [i \in Cells |-> NoItem]
        /\ enqueue_ptr = 0
        /\ dequeue_ptr = 0
        /\ at = [t \in Threads |-> "pos"]
        /\ pos = [t \in Threads |-> 0]
        /\ done = [t \in Threads |-> 0]
        /\ claimed = <<>>
        /\ taken = {}

At(t, here, next) == /\ at[t] = here
                     /\ at' = [at EXCEPT ![t] = next]

\* the cell thread t is working on
Mine(t) == CellOf(pos[t])
-----------------------------------------------------------------------------
(* enqueue                                                                 *)

EnqueueLoadPos(p) ==
    /\ done[p] < ITER
    /\ At(p, "pos", "sequence")
    /\ pos' = [pos EXCEPT ![p] = enqueue_ptr]
    /\ UNCHANGED <<sequence, data, enqueue_ptr, dequeue_ptr, done,
                   claimed, taken>>

\* diff == 0: the cell is free for this position
EnqueueReady(p) ==
    /\ At(p, "sequence", "claim")
    /\ sequence[Mine(p)] = pos[p]
    /\ UNCHANGED <<sequence, data, enqueue_ptr, dequeue_ptr, pos, done,
                   claimed, taken>>

\* Mutant of EnqueueNotReady: a producer that is behind keeps its pos.
EnqueueNotReadyStuck(p) ==
    /\ At(p, "sequence", IF sequence[Mine(p)] < pos[p] THEN "pos" ELSE "sequence")
    /\ sequence[Mine(p)] # pos[p]
    /\ UNCHANGED <<sequence, data, enqueue_ptr, dequeue_ptr, pos, done,
                   claimed, taken>>

\* diff < 0: return false, and the caller's loop calls again;
\* diff > 0: another producer has the position, load enqueue_ptr again
EnqueueNotReady(p) ==
    /\ At(p, "sequence", "pos")
    /\ sequence[Mine(p)] # pos[p]
    /\ pos' = [pos EXCEPT ![p] = 0]
    /\ UNCHANGED <<sequence, data, enqueue_ptr, dequeue_ptr, done,
                   claimed, taken>>

\* Mutant of EnqueueClaim: a load and a store instead of the exchange.
EnqueueClaimBlind(p) ==
    /\ At(p, "claim", "copy")
    /\ enqueue_ptr' = pos[p] + 1
    /\ claimed' = [n \in DOMAIN claimed \cup {pos[p]} |->
                    IF n = pos[p] THEN Argument(p) ELSE claimed[n]]
    /\ UNCHANGED <<sequence, data, dequeue_ptr, pos, done, taken>>

EnqueueClaim(p) ==
    /\ At(p, "claim", "copy")
    /\ enqueue_ptr = pos[p]
    /\ enqueue_ptr' = pos[p] + 1
    /\ claimed' = [n \in DOMAIN claimed \cup {pos[p]} |->
                    IF n = pos[p] THEN Argument(p) ELSE claimed[n]]
    /\ UNCHANGED <<sequence, data, dequeue_ptr, pos, done, taken>>

\* the exchange fails, for no reason at times, and reloads pos
EnqueueClaimFails(p) ==
    /\ At(p, "claim", "sequence")
    /\ pos' = [pos EXCEPT ![p] = enqueue_ptr]
    /\ UNCHANGED <<sequence, data, enqueue_ptr, dequeue_ptr, done,
                   claimed, taken>>

EnqueueCopy(p) ==
    /\ At(p, "copy", "release")
    /\ data' = [data EXCEPT ![Mine(p)] = Argument(p)]
    /\ UNCHANGED <<sequence, enqueue_ptr, dequeue_ptr, pos, done,
                   claimed, taken>>

EnqueueRelease(p) ==
    /\ At(p, "release", "pos")
    /\ sequence' = [sequence EXCEPT ![Mine(p)] = pos[p] + 1]
    /\ done' = [done EXCEPT ![p] = @ + 1]
    /\ pos' = [pos EXCEPT ![p] = 0]
    /\ UNCHANGED <<data, enqueue_ptr, dequeue_ptr, claimed, taken>>
-----------------------------------------------------------------------------
(* dequeue                                                                 *)

DequeueLoadPos(c) ==
    /\ done[c] < ITER
    /\ At(c, "pos", "sequence")
    /\ pos' = [pos EXCEPT ![c] = dequeue_ptr]
    /\ UNCHANGED <<sequence, data, enqueue_ptr, dequeue_ptr, done,
                   claimed, taken>>

\* Mutant of DequeueReady: the number of a cell still being filled is accepted.
DequeueReadyEarly(c) ==
    /\ At(c, "sequence", "claim")
    /\ sequence[Mine(c)] \in {pos[c], pos[c] + 1}
    /\ UNCHANGED <<sequence, data, enqueue_ptr, dequeue_ptr, pos, done,
                   claimed, taken>>

\* diff == 0: the cell holds the item of this position
DequeueReady(c) ==
    /\ At(c, "sequence", "claim")
    /\ sequence[Mine(c)] = pos[c] + 1
    /\ UNCHANGED <<sequence, data, enqueue_ptr, dequeue_ptr, pos, done,
                   claimed, taken>>

\* diff < 0: return false; diff > 0: load dequeue_ptr again
DequeueNotReady(c) ==
    /\ At(c, "sequence", "pos")
    /\ sequence[Mine(c)] # pos[c] + 1
    /\ pos' = [pos EXCEPT ![c] = 0]
    /\ UNCHANGED <<sequence, data, enqueue_ptr, dequeue_ptr, done,
                   claimed, taken>>

DequeueClaim(c) ==
    /\ At(c, "claim", "copy")
    /\ dequeue_ptr = pos[c]
    /\ dequeue_ptr' = pos[c] + 1
    /\ UNCHANGED <<sequence, data, enqueue_ptr, pos, done, claimed, taken>>

DequeueClaimFails(c) ==
    /\ At(c, "claim", "sequence")
    /\ pos' = [pos EXCEPT ![c] = dequeue_ptr]
    /\ UNCHANGED <<sequence, data, enqueue_ptr, dequeue_ptr, done,
                   claimed, taken>>

DequeueCopy(c) ==
    /\ At(c, "copy", "release")
    /\ taken' = taken \cup {data[Mine(c)]}
    /\ claimed' = Restrict(claimed, DOMAIN claimed \ {pos[c]})
    /\ UNCHANGED <<sequence, data, enqueue_ptr, dequeue_ptr, pos, done>>

\* Mutant of DequeueRelease: buffer_mask is added without the 1.
DequeueReleaseMask(c) ==
    /\ At(c, "release", "pos")
    /\ sequence' = [sequence EXCEPT ![Mine(c)] = pos[c] + Size - 1]
    /\ done' = [done EXCEPT ![c] = @ + 1]
    /\ pos' = [pos EXCEPT ![c] = 0]
    /\ UNCHANGED <<data, enqueue_ptr, dequeue_ptr, claimed, taken>>

DequeueRelease(c) ==
    /\ At(c, "release", "pos")
    /\ sequence' = [sequence EXCEPT ![Mine(c)] = pos[c] + Size]
    /\ done' = [done EXCEPT ![c] = @ + 1]
    /\ pos' = [pos EXCEPT ![c] = 0]
    /\ UNCHANGED <<data, enqueue_ptr, dequeue_ptr, claimed, taken>>
-----------------------------------------------------------------------------
Producer(p) == \/ EnqueueLoadPos(p) \/ EnqueueReady(p) \/ EnqueueNotReady(p)
               \/ EnqueueClaim(p) \/ EnqueueClaimFails(p)
               \/ EnqueueCopy(p) \/ EnqueueRelease(p)

Consumer(c) == \/ DequeueLoadPos(c) \/ DequeueReady(c) \/ DequeueNotReady(c)
               \/ DequeueClaim(c) \/ DequeueClaimFails(c)
               \/ DequeueCopy(c) \/ DequeueRelease(c)

AllDone == \A t \in Threads : done[t] = ITER

\* main joins the threads and returns
Joined == AllDone /\ UNCHANGED vars

Next == \/ \E p \in Producers : Producer(p)
        \/ \E c \in Consumers : Consumer(c)
        \/ Joined

Spec == Init /\ [][Next]_vars

(* Every thread is scheduled, and an exchange that could succeed again and *)
(* again does not fail spuriously every time.                              *)
FairSpec == /\ Spec
            /\ \A p \in Producers : WF_vars(Producer(p)) /\ SF_vars(EnqueueClaim(p))
            /\ \A c \in Consumers : WF_vars(Consumer(c)) /\ SF_vars(DequeueClaim(c))
-----------------------------------------------------------------------------
(* Every variable stays in its type: no thread runs past its ITER items.   *)
TypeOK == /\ sequence \in [Cells -> Nat]
          /\ data \in [Cells -> Item \cup {NoItem}]
          /\ enqueue_ptr \in Nat /\ dequeue_ptr \in Nat
          /\ at \in [Threads -> {"pos", "sequence", "claim", "copy", "release"}]
          /\ pos \in [Threads -> Nat]
          /\ done \in [Threads -> 0 .. ITER]
          /\ DOMAIN claimed \subseteq Nat /\ Range(claimed) \subseteq Item
          /\ taken \subseteq Item \cup {NoItem}

Inside(t) == at[t] \in {"copy", "release"}

(* A thread between its claim and its release has the cell to itself: no   *)
(* other thread is on the same cell, whichever lap it is on.               *)
CellExclusive == \A s, t \in Threads :
    s # t /\ Inside(s) /\ Inside(t) => Mine(s) # Mine(t)

(* Positions that are claimed and whose cell the other side cannot have    *)
(* touched yet: what the sequence number of a cell promises its threads.   *)
SequenceInv ==
    /\ TypeOK
    /\ dequeue_ptr <= enqueue_ptr
    /\ \A i \in Cells : \E n \in 0 .. enqueue_ptr + Size :
         /\ CellOf(n) = i
         /\ \/ /\ sequence[i] = n                    \* free for n, or being filled
               /\ n \in dequeue_ptr .. enqueue_ptr + Size - 1
               /\ n < enqueue_ptr <=> \E p \in Producers : Inside(p) /\ pos[p] = n
            \/ /\ sequence[i] = n + 1                \* holds n, or being emptied
               /\ n < enqueue_ptr
               /\ n < dequeue_ptr <=> \E c \in Consumers : Inside(c) /\ pos[c] = n
               /\ n \in DOMAIN claimed => data[i] = claimed[n]

(* A consumer about to read a position finds there the item whose producer *)
(* claimed it, and nobody has read it before: dequeues follow the order of *)
(* the claims, and nothing is doubled or torn.                             *)
TakenIsClaimed == \A c \in Consumers : at[c] = "copy" =>
    /\ pos[c] \in DOMAIN claimed
    /\ data[Mine(c)] = claimed[pos[c]]

(* No thread spins for ever: the joins of main return.                     *)
AllJoin == <>AllDone
=============================================================================

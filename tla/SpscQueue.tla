----------------------------- MODULE SpscQueue -----------------------------
(***************************************************************************)
(* spsc_queue<T, S>: the ring between the network reader and the engine,   *)
(* and between the engine and the network writer.  Each cell carries a     *)
(* sequence number; the two threads meet only through the acquire loads    *)
(* and release stores of these numbers, which are the atomic steps here.   *)
(* A payload is copied by plain accesses, so "copy" is a phase of its own: *)
(* the thread is inside it between its acquire load and its release store. *)
(*                                                                         *)
(* The local `pos` of enqueue (dequeue) equals enqueue_ptr_ (dequeue_ptr_) *)
(* from the call to the last statement, and only one thread writes the     *)
(* pointer, so the pointer stands for both.                                *)
(***************************************************************************)
EXTENDS Integers, Sequences

CONSTANTS S,            \* number of cells
          Message,      \* the payloads
          MaxEnqueues   \* how many messages the producer sends: the bound that
                        \* keeps the 64-bit positions finite

ASSUME SizeAssumption == S \in Nat \ {0}
ASSUME BoundAssumption == MaxEnqueues \in Nat

VARIABLES sequence,     \* sequence[i]: buffer_[i].sequence
          data,         \* data[i]: buffer_[i].data
          enqueue_ptr_, dequeue_ptr_,
          producer,     \* where the producer thread is in enqueue
          consumer,     \* where the consumer thread is in dequeue
          argument,     \* the message given to enqueue
          received      \* the message dequeue moved out

vars == <<sequence, data, enqueue_ptr_, dequeue_ptr_,
          producer, consumer, argument, received>>

Cells == 0 .. S - 1

Phases == {"idle", "wait", "copy", "release", "advance"}

\* pos & mask_, with S a power of two
CellOf(pos) == pos % S

Init == /\ sequence = [i \in Cells |-> i]
        /\ data \in [Cells -> Message]          \* not initialised
        /\ enqueue_ptr_ = 0
        /\ dequeue_ptr_ = 0
        /\ producer = "idle"
        /\ consumer = "idle"
        /\ argument \in Message
        /\ received \in Message
-----------------------------------------------------------------------------
(* enqueue(data)                                                           *)

EnqueueCall(m) == /\ producer = "idle"
                  /\ enqueue_ptr_ < MaxEnqueues
                  /\ producer' = "wait"
                  /\ argument' = m
                  /\ UNCHANGED <<sequence, data, enqueue_ptr_, dequeue_ptr_,
                                 consumer, received>>

\* Mutant of EnqueueAcquire: the producer does not wait for its cell.
EnqueueAcquireNoWait == /\ producer = "wait"
                        /\ producer' = "copy"
                        /\ UNCHANGED <<sequence, data, enqueue_ptr_,
                                       dequeue_ptr_, consumer, argument,
                                       received>>

\* Mutant of EnqueueAcquire: the cell is published before the payload is in.
EnqueueAcquirePublish == /\ producer = "wait"
                         /\ sequence[CellOf(enqueue_ptr_)] = enqueue_ptr_
                         /\ sequence' = [sequence EXCEPT
                              ![CellOf(enqueue_ptr_)] = enqueue_ptr_ + 1]
                         /\ producer' = "copy"
                         /\ UNCHANGED <<data, enqueue_ptr_, dequeue_ptr_,
                                        consumer, argument, received>>

\* the acquire load that ends the spin loop
EnqueueAcquire == /\ producer = "wait"
                  /\ sequence[CellOf(enqueue_ptr_)] = enqueue_ptr_
                  /\ producer' = "copy"
                  /\ UNCHANGED <<sequence, data, enqueue_ptr_, dequeue_ptr_,
                                 consumer, argument, received>>

EnqueueCopy == /\ producer = "copy"
               /\ data' = [data EXCEPT ![CellOf(enqueue_ptr_)] = argument]
               /\ producer' = "release"
               /\ UNCHANGED <<sequence, enqueue_ptr_, dequeue_ptr_,
                              consumer, argument, received>>

\* Mutant of EnqueueRelease: the stored sequence number lacks the + 1.
EnqueueReleaseSame == /\ producer = "release"
                      /\ sequence' = [sequence EXCEPT
                           ![CellOf(enqueue_ptr_)] = enqueue_ptr_]
                      /\ producer' = "advance"
                      /\ UNCHANGED <<data, enqueue_ptr_, dequeue_ptr_,
                                     consumer, argument, received>>

EnqueueRelease == /\ producer = "release"
                  /\ sequence' = [sequence EXCEPT
                                    ![CellOf(enqueue_ptr_)] = enqueue_ptr_ + 1]
                  /\ producer' = "advance"
                  /\ UNCHANGED <<data, enqueue_ptr_, dequeue_ptr_,
                                 consumer, argument, received>>

EnqueueAdvance == /\ producer = "advance"
                  /\ enqueue_ptr_' = enqueue_ptr_ + 1
                  /\ producer' = "idle"
                  /\ UNCHANGED <<sequence, data, dequeue_ptr_,
                                 consumer, argument, received>>
-----------------------------------------------------------------------------
(* dequeue(data)                                                           *)

DequeueCall == /\ consumer = "idle"
               /\ consumer' = "wait"
               /\ UNCHANGED <<sequence, data, enqueue_ptr_, dequeue_ptr_,
                              producer, argument, received>>

DequeueAcquire == /\ consumer = "wait"
                  /\ sequence[CellOf(dequeue_ptr_)] = dequeue_ptr_ + 1
                  /\ consumer' = "copy"
                  /\ UNCHANGED <<sequence, data, enqueue_ptr_, dequeue_ptr_,
                                 producer, argument, received>>

DequeueCopy == /\ consumer = "copy"
               /\ received' = data[CellOf(dequeue_ptr_)]
               /\ consumer' = "release"
               /\ UNCHANGED <<sequence, data, enqueue_ptr_, dequeue_ptr_,
                              producer, argument>>

\* Mutant of DequeueRelease: the cell is given back for this lap, not the next.
DequeueReleaseSame == /\ consumer = "release"
                      /\ sequence' = [sequence EXCEPT
                           ![CellOf(dequeue_ptr_)] = dequeue_ptr_ + 1]
                      /\ consumer' = "advance"
                      /\ UNCHANGED <<data, enqueue_ptr_, dequeue_ptr_,
                                     producer, argument, received>>

DequeueRelease == /\ consumer = "release"
                  /\ sequence' = [sequence EXCEPT
                                    ![CellOf(dequeue_ptr_)] = dequeue_ptr_ + S]
                  /\ consumer' = "advance"
                  /\ UNCHANGED <<data, enqueue_ptr_, dequeue_ptr_,
                                 producer, argument, received>>

DequeueAdvance == /\ consumer = "advance"
                  /\ dequeue_ptr_' = dequeue_ptr_ + 1
                  /\ consumer' = "idle"
                  /\ UNCHANGED <<sequence, data, enqueue_ptr_,
                                 producer, argument, received>>
-----------------------------------------------------------------------------
Producer == \/ \E m \in Message : EnqueueCall(m)
            \/ EnqueueAcquire
            \/ EnqueueCopy
            \/ EnqueueRelease
            \/ EnqueueAdvance

Consumer == \/ DequeueCall
            \/ DequeueAcquire
            \/ DequeueCopy
            \/ DequeueRelease
            \/ DequeueAdvance

Next == Producer \/ Consumer

Spec == Init /\ [][Next]_vars

(* Both threads of main.cpp loop for ever and neither waits for anything   *)
(* but its cell, so each keeps taking the steps it can.                    *)
FairSpec == Spec /\ WF_vars(Producer) /\ WF_vars(Consumer)
-----------------------------------------------------------------------------
(* Positions p < Published have their message visible to the consumer,     *)
(* positions p < Taken have been moved out, positions p < Freed have their *)
(* cell back in the producer's hands.                                      *)
Published == enqueue_ptr_ + (IF producer = "advance" THEN 1 ELSE 0)
Taken == dequeue_ptr_ + (IF consumer \in {"release", "advance"} THEN 1 ELSE 0)
Freed == dequeue_ptr_ + (IF consumer = "advance" THEN 1 ELSE 0)

Contents == [i \in 1 .. (Published - Taken) |-> data[CellOf(Taken + i - 1)]]

(* Every variable stays in its type; in particular the phases are the ones *)
(* enqueue and dequeue have, and positions never go below zero.            *)
TypeOK == /\ sequence \in [Cells -> Nat]
          /\ data \in [Cells -> Message]
          /\ enqueue_ptr_ \in Nat
          /\ dequeue_ptr_ \in Nat
          /\ producer \in Phases
          /\ consumer \in Phases
          /\ argument \in Message
          /\ received \in Message

(* The payload of a cell is a plain object (queues.hpp, struct cell): the  *)
(* write in enqueue and the read in dequeue never touch one cell at once.  *)
NoDataRace == ~ /\ producer = "copy"
                /\ consumer = "copy"
                /\ CellOf(enqueue_ptr_) = CellOf(dequeue_ptr_)

(* What a cell's sequence number says about its position: published ones   *)
(* carry pos + 1, free ones pos, and nothing is published over a message   *)
(* that has not been taken.  This is the inductive invariant's core.       *)
SequenceInv ==
    /\ Freed <= Published
    /\ Published <= Freed + S
    /\ \A p \in Freed .. Published - 1 : sequence[CellOf(p)] = p + 1
    /\ \A p \in Published .. Freed + S - 1 : sequence[CellOf(p)] = p

(* A thread that left its spin loop still owns the cell it looked at.      *)
OwnershipInv ==
    /\ producer \in {"copy", "release"} => Published < Freed + S
    /\ consumer \in {"copy", "release"} => Freed < Published
    /\ producer = "release" => data[CellOf(enqueue_ptr_)] = argument

(* What makes the queue correct, in inductive form: the sequence numbers   *)
(* tell published cells from free ones, and a thread that has passed its   *)
(* acquire load keeps its cell until its own release store.                *)
QueueInv == SequenceInv /\ OwnershipInv

(* The queue is a bounded FIFO: enqueue takes effect when it publishes the *)
(* sequence number, dequeue when it moves the payload out (queues_impl.hpp *)
(* 51-60 and 76-87).                                                       *)
Fifo == INSTANCE BoundedFifo WITH Capacity <- S, fifo <- Contents
FifoSpec == Fifo!Spec

(* Neither spin loop runs for ever on a message that is there or a cell    *)
(* that will be given back: a message whose enqueue returned is handed to  *)
(* the consumer, and a producer that waits for a cell gets it              *)
(* (queues_impl.hpp 54-56 and 80-82).                                      *)
NobodySpinsForever ==
    /\ \A n \in 1 .. MaxEnqueues : (enqueue_ptr_ = n) ~> (dequeue_ptr_ >= n)
    /\ (producer = "wait") ~> (producer = "idle")
=============================================================================

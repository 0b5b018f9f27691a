---------------------------- MODULE BoundedFifo ----------------------------
(***************************************************************************)
(* What the order book's queues promise their two threads: a first-in      *)
(* first-out buffer of at most Capacity messages whose producer waits when *)
(* it is full and whose consumer waits when it is empty.  `received` is    *)
(* the message the consumer holds after its last dequeue.                  *)
(***************************************************************************)
EXTENDS Naturals, Sequences

CONSTANTS Capacity,     \* the template parameter S
          Message       \* the payloads

VARIABLES fifo,         \* messages accepted and not yet handed over
          received      \* the consumer's copy of the last one handed over

vars == <<fifo, received>>

Init == /\ fifo = <<>>
        /\ received \in Message

Enqueue(m) == /\ Len(fifo) < Capacity
              /\ fifo' = Append(fifo, m)
              /\ UNCHANGED received

Dequeue == /\ fifo # <<>>
           /\ received' = Head(fifo)
           /\ fifo' = Tail(fifo)

Next == (\E m \in Message : Enqueue(m)) \/ Dequeue

Spec == Init /\ [][Next]_vars
=============================================================================

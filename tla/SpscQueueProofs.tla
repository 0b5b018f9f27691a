-------------------------- MODULE SpscQueueProofs --------------------------
(***************************************************************************)
(* Proofs about SpscQueue for every number of cells S >= 2 and every set   *)
(* of payloads.  The argument is the invariant QueueInv: the cells of the  *)
(* positions Freed .. Published - 1 hold published messages, those of      *)
(* Published .. Freed + S - 1 are free, and since fewer than S positions   *)
(* lie between any two of them, each has a cell of its own.                *)
(***************************************************************************)
EXTENDS SpscQueue, SequenceTheorems, TLAPS

(* Division with remainder, for positions.                                 *)
LEMMA DivMod ==
    ASSUME NEW a \in Nat
    PROVE  /\ a % S \in Cells
           /\ a \div S \in Nat
           /\ a = S * (a \div S) + (a % S)
  BY SizeAssumption DEF Cells

(* The only multiple of S strictly between -S and S is zero.               *)
LEMMA SmallMultiple ==
    ASSUME NEW k \in Int, -S < S * k, S * k < S
    PROVE  k = 0
<1>1. k >= 1 => S * k >= S
  BY SizeAssumption
<1>2. k <= -1 => S * k <= -S
  BY SizeAssumption
<1> QED
  BY <1>1, <1>2, SizeAssumption

(* Two positions less than S apart have different cells.                   *)
LEMMA DistinctCells ==
    ASSUME NEW a \in Nat, NEW b \in Nat, a < b, b < a + S
    PROVE  CellOf(a) # CellOf(b)
<1> SUFFICES ASSUME a % S = b % S PROVE FALSE
  BY DEF CellOf
<1> DEFINE q == a \div S
           r == b \div S
<1>1. /\ q \in Nat /\ a = S * q + (a % S) /\ a % S \in Int
      /\ r \in Nat /\ b = S * r + (b % S) /\ b % S \in Int
  BY DivMod, SizeAssumption DEF Cells
<1> HIDE DEF q, r
<1>2. S * (r - q) = b - a
  BY <1>1, SizeAssumption
<1>3. r - q \in Int /\ -S < S * (r - q) /\ S * (r - q) < S
  BY <1>1, <1>2, SizeAssumption
<1>4. r - q = 0
  BY <1>3, SmallMultiple
<1> QED
  BY <1>1, <1>4, SizeAssumption

(* A position and the one a lap later have the same cell.                  *)
LEMMA NextLap ==
    ASSUME NEW a \in Nat
    PROVE  CellOf(a + S) = CellOf(a)
<1> DEFINE c == a + S
           q == a \div S
           r == c \div S
           m == a % S
           n == c % S
<1>1. c \in Nat
  BY SizeAssumption
<1>2. /\ q \in Nat /\ a = S * q + m /\ m \in Int /\ 0 <= m /\ m < S
      /\ r \in Nat /\ c = S * r + n /\ n \in Int /\ 0 <= n /\ n < S
  BY <1>1, DivMod, SizeAssumption DEF Cells
<1>3. c = a + S
  OBVIOUS
<1>4. CellOf(a) = m /\ CellOf(a + S) = n
  BY DEF CellOf
<1> HIDE DEF c, q, r, m, n
<1>5. S * (r - q - 1) = m - n
  BY <1>2, <1>3, SizeAssumption
<1>6. r - q - 1 = 0
  <2>1. r - q - 1 \in Int /\ -S < S * (r - q - 1) /\ S * (r - q - 1) < S
    BY <1>2, <1>5, SizeAssumption
  <2> QED
    BY <2>1, SmallMultiple
<1> QED
  BY <1>2, <1>4, <1>5, <1>6, SizeAssumption

(* The cell of a position exists.                                          *)
LEMMA CellOfType ==
    ASSUME NEW a \in Nat
    PROVE  CellOf(a) \in Cells
  BY DivMod DEF CellOf
-----------------------------------------------------------------------------
(* Every variable stays in its type, whatever S and the payloads are.      *)
THEOREM TypeCorrect == Spec => []TypeOK
<1>1. Init => TypeOK
  BY SizeAssumption DEF Init, TypeOK, Cells, Phases
<1>2. TypeOK /\ [Next]_vars => TypeOK'
  <2> SUFFICES ASSUME TypeOK, [Next]_vars PROVE TypeOK'
    OBVIOUS
  <2>1. CellOf(enqueue_ptr_) \in Cells /\ CellOf(dequeue_ptr_) \in Cells
    BY CellOfType DEF TypeOK
  <2> USE DEF TypeOK, Phases
  <2>2. CASE \E m \in Message : EnqueueCall(m)
    BY <2>2 DEF EnqueueCall
  <2>3. CASE EnqueueAcquire
    BY <2>3 DEF EnqueueAcquire
  <2>4. CASE EnqueueCopy
    BY <2>1, <2>4 DEF EnqueueCopy
  <2>5. CASE EnqueueRelease
    BY <2>1, <2>5 DEF EnqueueRelease
  <2>6. CASE EnqueueAdvance
    BY <2>6 DEF EnqueueAdvance
  <2>7. CASE DequeueCall
    BY <2>7 DEF DequeueCall
  <2>8. CASE DequeueAcquire
    BY <2>8 DEF DequeueAcquire
  <2>9. CASE DequeueCopy
    BY <2>1, <2>9 DEF DequeueCopy
  <2>10. CASE DequeueRelease
    BY <2>1, <2>10, SizeAssumption DEF DequeueRelease
  <2>11. CASE DequeueAdvance
    BY <2>11 DEF DequeueAdvance
  <2>12. CASE UNCHANGED vars
    BY <2>12 DEF vars
  <2> QED
    BY <2>2, <2>3, <2>4, <2>5, <2>6, <2>7, <2>8, <2>9, <2>10, <2>11, <2>12
    DEF Next, Producer, Consumer
<1> QED
  BY <1>1, <1>2, PTL DEF Spec
-----------------------------------------------------------------------------
(* The state function the cases below share: positions are naturals, and   *)
(* the two threads' phases say where Published and Freed are.              *)
LEMMA PositionTypes ==
    ASSUME TypeOK
    PROVE  Published \in Nat /\ Taken \in Nat /\ Freed \in Nat
  BY DEF TypeOK, Published, Taken, Freed

(* The queue's invariant holds initially.                                  *)
LEMMA InitQueueInv == Init => QueueInv
<1> SUFFICES ASSUME Init PROVE QueueInv
  OBVIOUS
<1>1. Published = 0 /\ Freed = 0
  BY DEF Init, Published, Freed
<1>2. \A p \in 0 .. S - 1 : CellOf(p) = p
  BY SizeAssumption DEF CellOf
<1>3. \A p \in 0 .. S - 1 : sequence[CellOf(p)] = p
  BY <1>2 DEF Init, Cells
<1>4. SequenceInv
  BY <1>1, <1>3, SizeAssumption DEF SequenceInv
<1> QED
  BY <1>4 DEF QueueInv, OwnershipInv, Init

(* Each step of either thread preserves it, provided S >= 2: with a single *)
(* cell, "published at p" and "free for p + 1" are the same number.        *)
LEMMA StepQueueInv ==
    ASSUME S >= 2, TypeOK, QueueInv, [Next]_vars
    PROVE  QueueInv'
<1> DEFINE E == enqueue_ptr_
           D == dequeue_ptr_
<1>1. /\ Published \in Nat /\ Freed \in Nat /\ E \in Nat /\ D \in Nat
      /\ CellOf(E) \in Cells /\ CellOf(D) \in Cells /\ S \in Nat
  BY PositionTypes, CellOfType, SizeAssumption DEF TypeOK
<1>2. CASE \E m \in Message : EnqueueCall(m)
  BY <1>2 DEF EnqueueCall, QueueInv, SequenceInv, OwnershipInv, Published,
              Freed, CellOf
<1>3. CASE EnqueueAcquire
  <2>1. Published = E /\ Published' = E /\ Freed' = Freed
    BY <1>1, <1>3 DEF EnqueueAcquire, Published, Freed
  <2>2. ASSUME E = Freed + S PROVE FALSE
    <3>1. sequence[CellOf(Freed)] = Freed + 1
      BY <1>1, <2>1, <2>2, SizeAssumption DEF QueueInv, SequenceInv
    <3>2. CellOf(E) = CellOf(Freed)
      BY <1>1, <2>2, NextLap
    <3> QED
      BY <1>1, <1>3, <2>2, <3>1, <3>2 DEF EnqueueAcquire
  <2>3. Published < Freed + S
    BY <1>1, <2>1, <2>2 DEF QueueInv, SequenceInv
  <2> QED
    BY <1>3, <2>1, <2>3 DEF EnqueueAcquire, QueueInv, SequenceInv,
                            OwnershipInv, CellOf
<1>4. CASE EnqueueCopy
  <2>1. /\ Published' = Published /\ Freed' = Freed
        /\ data'[CellOf(E)] = argument
    BY <1>1, <1>4 DEF EnqueueCopy, Published, Freed, TypeOK
  <2> QED
    BY <1>4, <2>1 DEF EnqueueCopy, QueueInv, SequenceInv, OwnershipInv, CellOf
<1>5. CASE EnqueueRelease
  <2>1. /\ Published = E /\ Published' = E + 1 /\ Freed' = Freed
        /\ E < Freed + S /\ Freed <= E
    BY <1>1, <1>5 DEF EnqueueRelease, Published, Freed, QueueInv, OwnershipInv,
                SequenceInv
  <2>2. ASSUME NEW p \in Freed .. E - 1 PROVE sequence'[CellOf(p)] = p + 1
    <3>1. CellOf(p) # CellOf(E) /\ CellOf(p) \in Cells
      BY <1>1, <2>1, DistinctCells, CellOfType
    <3> QED
      BY <1>5, <2>1, <3>1 DEF EnqueueRelease, QueueInv, SequenceInv, TypeOK
  <2>3. sequence'[CellOf(E)] = E + 1
    BY <1>1, <1>5 DEF EnqueueRelease, TypeOK
  <2>4. ASSUME NEW p \in E + 1 .. Freed + S - 1 PROVE sequence'[CellOf(p)] = p
    <3>1. CellOf(p) # CellOf(E) /\ CellOf(p) \in Cells
      BY <1>1, <2>1, DistinctCells, CellOfType
    <3>2. sequence[CellOf(p)] = p
      BY <1>1, <2>1 DEF QueueInv, SequenceInv
    <3> QED
      BY <1>5, <3>1, <3>2 DEF EnqueueRelease, TypeOK
  <2>5. \A p \in Freed .. E : sequence'[CellOf(p)] = p + 1
    BY <1>1, <2>1, <2>2, <2>3
  <2>6. SequenceInv'
    BY <1>1, <2>1, <2>4, <2>5 DEF SequenceInv, CellOf
  <2>7. OwnershipInv'
    BY <1>1, <1>5, <2>1 DEF EnqueueRelease, QueueInv, OwnershipInv
  <2> QED
    BY <2>6, <2>7 DEF QueueInv
<1>6. CASE EnqueueAdvance
  <2>1. Published' = Published /\ Freed' = Freed
    BY <1>1, <1>6 DEF EnqueueAdvance, Published, Freed
  <2> QED
    BY <1>6, <2>1 DEF EnqueueAdvance, QueueInv, SequenceInv, OwnershipInv,
                      CellOf
<1>7. CASE DequeueCall
  BY <1>7 DEF DequeueCall, QueueInv, SequenceInv, OwnershipInv, Published,
              Freed, CellOf
<1>8. CASE DequeueAcquire
  <2>1. Freed = D /\ Freed' = D /\ Published' = Published
    BY <1>1, <1>8 DEF DequeueAcquire, Published, Freed
  <2>2. Freed < Published
    <3>1. Freed = Published => sequence[CellOf(D)] = D
      BY <1>1, <2>1, SizeAssumption DEF QueueInv, SequenceInv
    <3> QED
      BY <1>1, <1>8, <2>1, <3>1 DEF DequeueAcquire, QueueInv, SequenceInv
  <2> QED
    BY <1>8, <2>1, <2>2 DEF DequeueAcquire, QueueInv, SequenceInv,
                            OwnershipInv, CellOf
<1>9. CASE DequeueCopy
  <2>1. Published' = Published /\ Freed' = Freed
    BY <1>9 DEF DequeueCopy, Published, Freed
  <2> QED
    BY <1>9, <2>1 DEF DequeueCopy, QueueInv, SequenceInv, OwnershipInv, CellOf
<1>10. CASE DequeueRelease
  <2>1. /\ Freed = D /\ Freed' = D + 1 /\ Published' = Published
        /\ D < Published /\ Published <= D + S
    BY <1>1, <1>10 DEF DequeueRelease, Published, Freed, QueueInv, OwnershipInv,
                 SequenceInv
  <2>2. ASSUME NEW p \in D + 1 .. Published - 1
        PROVE  sequence'[CellOf(p)] = p + 1
    <3>1. CellOf(p) # CellOf(D) /\ CellOf(p) \in Cells
      BY <1>1, <2>1, DistinctCells, CellOfType
    <3>2. sequence[CellOf(p)] = p + 1
      BY <1>1, <2>1 DEF QueueInv, SequenceInv
    <3> QED
      BY <1>10, <3>1, <3>2 DEF DequeueRelease, TypeOK
  <2>3. ASSUME NEW p \in Published .. D + S - 1 PROVE sequence'[CellOf(p)] = p
    <3>1. CellOf(p) # CellOf(D) /\ CellOf(p) \in Cells
      BY <1>1, <2>1, DistinctCells, CellOfType
    <3>2. sequence[CellOf(p)] = p
      BY <1>1, <2>1 DEF QueueInv, SequenceInv
    <3> QED
      BY <1>10, <3>1, <3>2 DEF DequeueRelease, TypeOK
  <2>4. sequence'[CellOf(D + S)] = D + S
    BY <1>1, <1>10, NextLap DEF DequeueRelease, TypeOK
  <2>5. SequenceInv'
    BY <1>1, <2>1, <2>2, <2>3, <2>4 DEF SequenceInv, CellOf
  <2>6. OwnershipInv'
    BY <1>1, <1>10, <2>1 DEF DequeueRelease, QueueInv, OwnershipInv, CellOf
  <2> QED
    BY <2>5, <2>6 DEF QueueInv
<1>11. CASE DequeueAdvance
  <2>1. Published' = Published /\ Freed' = Freed
    BY <1>1, <1>11 DEF DequeueAdvance, Published, Freed
  <2> QED
    BY <1>11, <2>1 DEF DequeueAdvance, QueueInv, SequenceInv, OwnershipInv,
                       CellOf
<1>12. CASE UNCHANGED vars
  BY <1>12 DEF vars, QueueInv, SequenceInv, OwnershipInv, Published, Freed,
               CellOf
<1> QED
  BY <1>2, <1>3, <1>4, <1>5, <1>6, <1>7, <1>8, <1>9, <1>10, <1>11, <1>12
  DEF Next, Producer, Consumer

(* The invariant holds in every behaviour, for every ring of two or more   *)
(* cells: sequence numbers tell published cells from free ones, and a      *)
(* thread keeps the cell it acquired until its own release.                *)
THEOREM QueueCorrect == ASSUME S >= 2 PROVE Spec => []QueueInv
<1>1. TypeOK /\ QueueInv /\ [Next]_vars => QueueInv'
  BY StepQueueInv
<1> QED
  BY <1>1, TypeCorrect, InitQueueInv, PTL DEF Spec

(* The plain payload accesses of the two threads never meet in one cell.   *)
THEOREM NoRace == ASSUME S >= 2 PROVE Spec => []NoDataRace
<1>1. TypeOK /\ QueueInv => NoDataRace
  <2> SUFFICES ASSUME TypeOK, QueueInv, producer = "copy", consumer = "copy"
               PROVE  CellOf(enqueue_ptr_) # CellOf(dequeue_ptr_)
    BY DEF NoDataRace
  <2>1. /\ dequeue_ptr_ < enqueue_ptr_ /\ enqueue_ptr_ < dequeue_ptr_ + S
        /\ dequeue_ptr_ \in Nat /\ enqueue_ptr_ \in Nat
    BY DEF TypeOK, QueueInv, OwnershipInv, Published, Freed
  <2> QED
    BY <2>1, DistinctCells
<1> QED
  BY <1>1, TypeCorrect, QueueCorrect, PTL
-----------------------------------------------------------------------------
(* Where the positions lie when the invariant holds.                       *)
LEMMA PositionOrder ==
    ASSUME TypeOK, QueueInv
    PROVE  /\ Freed <= Taken /\ Taken <= Published /\ Published <= Freed + S
           /\ enqueue_ptr_ <= Published /\ Published <= enqueue_ptr_ + 1
  BY SizeAssumption DEF TypeOK, QueueInv, SequenceInv, OwnershipInv, Published,
                        Taken, Freed

(* The queue's contents are the messages between the two counts.           *)
LEMMA ContentsType ==
    ASSUME TypeOK, QueueInv
    PROVE  /\ Contents \in Seq(Message)
           /\ Len(Contents) = Published - Taken
<1>1. Published \in Nat /\ Taken \in Nat /\ Taken <= Published
  BY PositionTypes, PositionOrder
<1>2. ASSUME NEW i \in 1 .. (Published - Taken)
      PROVE  data[CellOf(Taken + i - 1)] \in Message
  <2>1. Taken + i - 1 \in Nat
    BY <1>1
  <2> QED
    BY <2>1, CellOfType DEF TypeOK
<1>3. Published - Taken \in Nat
  BY <1>1
<1> QED
  BY <1>2, <1>3 DEF Contents

(* A step that leaves data, Published and Taken alone leaves the contents. *)
LEMMA SameContents ==
    ASSUME Published' = Published, Taken' = Taken, data' = data
    PROVE  Contents' = Contents
  BY DEF Contents, CellOf

(* The publishing store of enqueue is the abstract Enqueue.                *)
LEMMA ReleaseIsEnqueue ==
    ASSUME S >= 2, TypeOK, QueueInv, EnqueueRelease
    PROVE  Fifo!Enqueue(argument)
<1> DEFINE n == Published - Taken
<1>1. /\ Published \in Nat /\ Taken \in Nat /\ Freed \in Nat
      /\ Freed <= Taken /\ Taken <= Published /\ S \in Nat
  BY PositionTypes, PositionOrder, SizeAssumption
<1>2. /\ Published = enqueue_ptr_ /\ Published' = Published + 1
      /\ Taken' = Taken /\ Published < Freed + S
  BY DEF EnqueueRelease, Published, Taken, Freed, TypeOK, QueueInv, OwnershipInv
<1>3. n \in Nat /\ n < S /\ Published' - Taken' = n + 1
  BY <1>1, <1>2
<1>4. Contents \in Seq(Message) /\ Len(Contents) = n
  BY ContentsType
<1>5. data[CellOf(Taken + (n + 1) - 1)] = argument
  <2>1. Taken + (n + 1) - 1 = enqueue_ptr_
    BY <1>1, <1>2
  <2> QED
    BY <2>1 DEF EnqueueRelease, QueueInv, OwnershipInv
<1>6. Contents' = [i \in 1 .. n + 1 |-> data[CellOf(Taken + i - 1)]]
  BY <1>2, <1>3 DEF Contents, EnqueueRelease, CellOf
<1>7. Contents = [i \in 1 .. n |-> data[CellOf(Taken + i - 1)]]
  BY DEF Contents
<1> HIDE DEF n
<1>8. Contents' = Append(Contents, argument)
  <2>1. /\ Append(Contents, argument) \in Seq(Message)
        /\ Len(Append(Contents, argument)) = n + 1
        /\ \A i \in 1 .. n : Append(Contents, argument)[i] = Contents[i]
        /\ Append(Contents, argument)[n + 1] = argument
    BY <1>4, AppendProperties DEF TypeOK
  <2>2. ASSUME NEW i \in 1 .. n + 1
        PROVE  data[CellOf(Taken + i - 1)] = Append(Contents, argument)[i]
    <3>1. CASE i = n + 1
      BY <1>5, <2>1, <3>1
    <3>2. CASE i \in 1 .. n
      BY <1>7, <2>1, <3>2
    <3>3. i = n + 1 \/ i \in 1 .. n
      BY <1>3
    <3> QED
      BY <3>1, <3>2, <3>3
  <2>3. Append(Contents, argument) \in [1 .. n + 1 -> Message]
    BY <2>1, LenProperties
  <2> QED
    BY <1>6, <2>2, <2>3
<1> QED
  BY <1>3, <1>4, <1>8 DEF Fifo!Enqueue, EnqueueRelease

(* Moving the payload out is the abstract Dequeue.                         *)
LEMMA CopyIsDequeue ==
    ASSUME S >= 2, TypeOK, QueueInv, DequeueCopy
    PROVE  Fifo!Dequeue
<1> DEFINE n == Published - Taken
<1>1. /\ Published \in Nat /\ Taken \in Nat /\ Freed \in Nat
  BY PositionTypes
<1>2. /\ Taken = dequeue_ptr_ /\ Taken' = Taken + 1 /\ Published' = Published
      /\ Taken < Published
  BY DEF DequeueCopy, Published, Taken, Freed, TypeOK, QueueInv, OwnershipInv
<1>3. n \in Nat /\ n >= 1 /\ Published' - Taken' = n - 1
  BY <1>1, <1>2
<1>4. Contents \in Seq(Message) /\ Len(Contents) = n
  BY ContentsType
<1>5. Contents = [i \in 1 .. n |-> data[CellOf(Taken + i - 1)]]
  BY DEF Contents
<1>6. Contents' = [i \in 1 .. n - 1 |-> data[CellOf(Taken + 1 + i - 1)]]
  BY <1>2, <1>3 DEF Contents, DequeueCopy, CellOf
<1> HIDE DEF n
<1>7. Contents[1] = data[CellOf(dequeue_ptr_)]
  <2>1. Taken + 1 - 1 = dequeue_ptr_
    BY <1>1, <1>2
  <2> QED
    BY <1>3, <1>5, <2>1
<1>8. Contents' = Tail(Contents)
  <2>1. /\ Tail(Contents) \in [1 .. n - 1 -> Message]
        /\ \A i \in 1 .. n - 1 : Tail(Contents)[i] = Contents[i + 1]
    <3>1. Contents # <<>>
      BY <1>3, <1>4
    <3>2. /\ Tail(Contents) \in Seq(Message)
          /\ Len(Tail(Contents)) = n - 1
          /\ \A i \in 1 .. Len(Tail(Contents)) :
                Tail(Contents)[i] = Contents[i + 1]
      BY <1>4, <3>1, HeadTailProperties
    <3> QED
      BY <3>2, LenProperties
  <2>2. ASSUME NEW i \in 1 .. n - 1
        PROVE  Contents[i + 1] = data[CellOf(Taken + 1 + i - 1)]
    <3>1. i + 1 \in 1 .. n /\ Taken + (i + 1) - 1 = Taken + 1 + i - 1
      BY <1>1, <1>3
    <3> QED
      BY <1>5, <3>1
  <2> QED
    BY <1>6, <2>1, <2>2
<1>9. Contents # <<>> /\ Head(Contents) = Contents[1]
  BY <1>3, <1>4
<1> QED
  BY <1>7, <1>8, <1>9 DEF Fifo!Dequeue, DequeueCopy

(* Writing the payload of an unpublished cell changes no published one.    *)
LEMMA CopyKeepsContents ==
    ASSUME S >= 2, TypeOK, QueueInv, EnqueueCopy
    PROVE  Contents' = Contents
<1>1. /\ Published \in Nat /\ Taken \in Nat /\ Freed \in Nat
      /\ Freed <= Taken /\ S \in Nat /\ enqueue_ptr_ \in Nat
  BY PositionTypes, PositionOrder, SizeAssumption DEF TypeOK
<1>2. /\ Published = enqueue_ptr_ /\ Published' = Published /\ Taken' = Taken
      /\ Published < Freed + S
  BY DEF EnqueueCopy, Published, Taken, Freed, TypeOK, QueueInv, OwnershipInv
<1>3. ASSUME NEW i \in 1 .. (Published - Taken)
      PROVE  data'[CellOf(Taken + i - 1)] = data[CellOf(Taken + i - 1)]
  <2>1. /\ Taken + i - 1 \in Nat
        /\ Taken + i - 1 < enqueue_ptr_
        /\ enqueue_ptr_ < Taken + i - 1 + S
    BY <1>1, <1>2
  <2>2. CellOf(Taken + i - 1) # CellOf(enqueue_ptr_)
    BY <1>1, <2>1, DistinctCells
  <2>3. CellOf(Taken + i - 1) \in Cells
    BY <2>1, CellOfType
  <2> QED
    BY <2>2, <2>3 DEF EnqueueCopy, TypeOK
<1> QED
  BY <1>2, <1>3 DEF Contents, CellOf

(* The ring implements the bounded FIFO: nothing is lost, duplicated or    *)
(* reordered between enqueue and dequeue, and at most S messages wait.     *)
THEOREM Refinement == ASSUME S >= 2 PROVE Spec => FifoSpec
<1>1. Init => Fifo!Init
  <2> SUFFICES ASSUME Init PROVE Contents = <<>> /\ received \in Message
    BY DEF Fifo!Init
  <2>1. Published = 0 /\ Taken = 0
    BY DEF Init, Published, Taken
  <2>2. Contents = [i \in 1 .. 0 |-> data[CellOf(0 + i - 1)]]
    BY <2>1 DEF Contents
  <2> QED
    BY <2>2 DEF Init
<1>2. TypeOK /\ QueueInv /\ TypeOK' /\ [Next]_vars => [Fifo!Next]_Fifo!vars
  <2> SUFFICES ASSUME TypeOK, QueueInv, [Next]_vars
               PROVE  Fifo!Next \/ (Contents' = Contents /\ received' = received)
    BY DEF Fifo!vars
  <2> USE DEF TypeOK
  <2>1. CASE \E m \in Message : EnqueueCall(m)
    BY <2>1, SameContents DEF EnqueueCall, Published, Taken
  <2>2. CASE EnqueueAcquire
    BY <2>2, SameContents DEF EnqueueAcquire, Published, Taken
  <2>3. CASE EnqueueCopy
    BY <2>3, CopyKeepsContents DEF EnqueueCopy
  <2>4. CASE EnqueueRelease
    BY <2>4, ReleaseIsEnqueue DEF Fifo!Next
  <2>5. CASE EnqueueAdvance
    BY <2>5, SameContents DEF EnqueueAdvance, Published, Taken
  <2>6. CASE DequeueCall
    BY <2>6, SameContents DEF DequeueCall, Published, Taken
  <2>7. CASE DequeueAcquire
    BY <2>7, SameContents DEF DequeueAcquire, Published, Taken
  <2>8. CASE DequeueCopy
    BY <2>8, CopyIsDequeue DEF Fifo!Next
  <2>9. CASE DequeueRelease
    BY <2>9, SameContents DEF DequeueRelease, Published, Taken
  <2>10. CASE DequeueAdvance
    BY <2>10, SameContents DEF DequeueAdvance, Published, Taken
  <2>11. CASE UNCHANGED vars
    BY <2>11, SameContents DEF vars, Published, Taken
  <2> QED
    BY <2>1, <2>2, <2>3, <2>4, <2>5, <2>6, <2>7, <2>8, <2>9, <2>10, <2>11
    DEF Next, Producer, Consumer
<1> QED
  BY <1>1, <1>2, TypeCorrect, QueueCorrect, PTL DEF Spec, FifoSpec, Fifo!Spec
=============================================================================

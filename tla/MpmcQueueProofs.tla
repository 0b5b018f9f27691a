-------------------------- MODULE MpmcQueueProofs --------------------------
(***************************************************************************)
(* Proofs about MpmcQueue for every size the constructor accepts, any sets *)
(* of producers and consumers and any number of items.  SequenceInv alone  *)
(* is not inductive: a release needs to know how far enqueue_ptr can have  *)
(* run ahead of the cell, and a claim that its cell has not changed since  *)
(* the thread looked at it.                                                *)
(***************************************************************************)
EXTENDS MpmcQueue, TLAPS

(* A thread in a call has items left.                                      *)
CallInv == \A t \in Threads : at[t] # "pos" => done[t] < ITER

(* The cell's number while a thread has the cell, and positions claimed    *)
(* once only.                                                              *)
ProducerInv ==
    /\ \A p \in Producers : Inside(p) =>
         /\ pos[p] < enqueue_ptr
         /\ sequence[Mine(p)] = pos[p]
         /\ pos[p] \in DOMAIN claimed
         /\ claimed[pos[p]] = Argument(p)
         /\ at[p] = "release" => data[Mine(p)] = Argument(p)
    /\ \A p, q \in Producers : p # q /\ Inside(p) /\ Inside(q) => pos[p] # pos[q]

ConsumerInv ==
    /\ \A c \in Consumers : Inside(c) =>
         /\ pos[c] < dequeue_ptr
         /\ sequence[Mine(c)] = pos[c] + 1
         /\ pos[c] \in DOMAIN claimed <=> at[c] = "copy"
    /\ \A c, d \in Consumers : c # d /\ Inside(c) /\ Inside(d) => pos[c] # pos[d]

(* Between the load of the number and the exchange: while nobody has       *)
(* claimed the position, the number is still what the thread saw.          *)
ClaimInv ==
    /\ \A p \in Producers : at[p] = "claim" =>
         /\ pos[p] <= enqueue_ptr
         /\ pos[p] = enqueue_ptr => sequence[Mine(p)] = pos[p]
    /\ \A c \in Consumers : at[c] = "claim" =>
         /\ pos[c] <= dequeue_ptr
         /\ pos[c] = dequeue_ptr => sequence[Mine(c)] = pos[c] + 1
    /\ \A t \in Threads : at[t] = "sequence" =>
         pos[t] <= (IF t \in Producers THEN enqueue_ptr ELSE dequeue_ptr)

(* The positions whose items are still to be read.                         *)
ClaimedInv == /\ DOMAIN claimed \subseteq 0 .. enqueue_ptr - 1
              /\ \A n \in dequeue_ptr .. enqueue_ptr - 1 : n \in DOMAIN claimed

(* Cell i serves position n: enqueue_ptr is at most one lap ahead of n,    *)
(* because position n + Size needs the same cell.                          *)
Serves(i, n) ==
    /\ CellOf(n) = i
    /\ enqueue_ptr <= n + Size
    /\ \/ /\ sequence[i] = n
          /\ dequeue_ptr <= n /\ n < enqueue_ptr + Size
          /\ n < enqueue_ptr <=> \E p \in Producers : Inside(p) /\ pos[p] = n
       \/ /\ sequence[i] = n + 1
          /\ n < enqueue_ptr
          /\ n < dequeue_ptr <=> \E c \in Consumers : Inside(c) /\ pos[c] = n
          /\ n \in DOMAIN claimed => data[i] = claimed[n]

CellsInv == \A i \in Cells : \E n \in Nat : Serves(i, n)

IndInv == /\ TypeOK /\ CallInv
          /\ dequeue_ptr <= enqueue_ptr
          /\ ProducerInv /\ ConsumerInv /\ ClaimInv /\ ClaimedInv /\ CellsInv
-----------------------------------------------------------------------------
(* What the proofs use of the constructor's check.                         *)
LEMMA SizeFacts == Size \in Nat /\ Size > 2
  BY QueueSizeAssumption

(* Division with remainder, for positions.                                 *)
LEMMA DivMod ==
    ASSUME NEW a \in Nat
    PROVE  /\ a % Size \in Cells
           /\ a \div Size \in Nat
           /\ a = Size * (a \div Size) + (a % Size)
  BY SizeFacts DEF Cells

(* Two positions less than a lap apart have different cells.               *)
LEMMA DistinctCells ==
    ASSUME NEW a \in Nat, NEW b \in Nat, a < b, b < a + Size
    PROVE  CellOf(a) # CellOf(b)
<1> SUFFICES ASSUME a % Size = b % Size PROVE FALSE
  BY DEF CellOf
<1> DEFINE q == a \div Size
           r == b \div Size
<1>1. /\ q \in Nat /\ a = Size * q + (a % Size) /\ a % Size \in Int
      /\ r \in Nat /\ b = Size * r + (b % Size) /\ b % Size \in Int
  BY DivMod, SizeFacts DEF Cells
<1> HIDE DEF q, r
<1>2. Size * (r - q) = b - a
  BY <1>1, SizeFacts
<1>3. r - q >= 1 => Size * (r - q) >= Size
  BY <1>1, SizeFacts
<1>4. r - q <= 0 => Size * (r - q) <= 0
  BY <1>1, SizeFacts
<1> QED
  BY <1>1, <1>2, <1>3, <1>4, SizeFacts

(* A position and the one a lap later have the same cell.                  *)
LEMMA NextLap ==
    ASSUME NEW a \in Nat
    PROVE  CellOf(a + Size) = CellOf(a)
<1> DEFINE c == a + Size
           q == a \div Size
           r == c \div Size
           m == a % Size
           n == c % Size
<1>1. c \in Nat
  BY SizeFacts
<1>2. /\ q \in Nat /\ a = Size * q + m /\ m \in Int /\ 0 <= m /\ m < Size
      /\ r \in Nat /\ c = Size * r + n /\ n \in Int /\ 0 <= n /\ n < Size
  BY <1>1, DivMod, SizeFacts DEF Cells
<1>3. c = a + Size /\ CellOf(a) = m /\ CellOf(a + Size) = n
  BY DEF CellOf
<1> HIDE DEF c, q, r, m, n
<1>4. Size * (r - q - 1) = m - n
  BY <1>2, <1>3, SizeFacts
<1>5. r - q - 1 >= 1 => Size * (r - q - 1) >= Size
  BY <1>2, SizeFacts
<1>6. r - q - 1 <= -1 => Size * (r - q - 1) <= -Size
  BY <1>2, SizeFacts
<1> QED
  BY <1>2, <1>3, <1>4, <1>5, <1>6, SizeFacts

(* The cell of a position exists.                                          *)
LEMMA CellOfType ==
    ASSUME NEW a \in Nat
    PROVE  CellOf(a) \in Cells
  BY DivMod DEF CellOf

(* What a cell's number says: n, and no other position, when the cell is   *)
(* the one of n and its number is n or n + 1.                              *)
LEMMA ServesWhich ==
    ASSUME NEW m \in Nat, NEW n \in Nat, Serves(CellOf(n), m)
    PROVE  /\ sequence[CellOf(n)] = n => m = n
           /\ sequence[CellOf(n)] = n + 1 => m = n
<1>1. CellOf(m) = CellOf(n)
  BY DEF Serves
<1>2. m + 1 # n /\ n + 1 # m
  BY <1>1, DistinctCells, SizeFacts
<1> QED
  BY <1>2 DEF Serves
-----------------------------------------------------------------------------
(* The invariant holds initially.                                          *)
LEMMA InitInd == Init => IndInv
<1> SUFFICES ASSUME Init PROVE IndInv
  OBVIOUS
<1>1. TypeOK
  BY SizeFacts, ThreadsAssumption DEF Init, TypeOK, Cells, Range
<1>2. CellsInv
  <2> SUFFICES ASSUME NEW i \in Cells PROVE Serves(i, i) /\ i \in Nat
    BY DEF CellsInv
  <2>1. CellOf(i) = i
    BY SizeFacts DEF CellOf, Cells
  <2> QED
    BY <2>1, SizeFacts DEF Serves, Init, Cells, Inside, Threads
<1> QED
  BY <1>1, <1>2, SizeFacts
  DEF IndInv, Init, CallInv, ProducerInv, ConsumerInv, ClaimInv, ClaimedInv,
      Inside, Threads
-----------------------------------------------------------------------------
(* A thread that is not in possession of a cell and does not get one:      *)
(* loads, and exchanges that fail.                                         *)
LEMMA LocalStep ==
    ASSUME IndInv,
           UNCHANGED <<sequence, data, enqueue_ptr, dequeue_ptr, done, claimed>>,
           NEW t \in Threads, ~Inside(t),
           at' \in [Threads -> {"pos", "sequence", "claim", "copy", "release"}],
           pos' \in [Threads -> Nat],
           at'[t] \in {"pos", "sequence", "claim"},
           \A s \in Threads \ {t} : at'[s] = at[s] /\ pos'[s] = pos[s]
    PROVE  ProducerInv' /\ ConsumerInv' /\ ClaimedInv' /\ CellsInv'
<1>1. \A s \in Threads : /\ Inside(s)' <=> Inside(s)
                         /\ Inside(s) => pos'[s] = pos[s] /\ at'[s] = at[s]
  BY DEF Inside
<1>2. Producers \subseteq Threads /\ Consumers \subseteq Threads
  BY DEF Threads
<1>3. ProducerInv'
  <2>1. ProducerInv
    BY DEF IndInv
  <2> QED
    BY <1>1, <1>2, <2>1 DEF ProducerInv, Mine, Argument
<1>4. ConsumerInv'
  <2>1. ConsumerInv
    BY DEF IndInv
  <2> QED
    BY <1>1, <1>2, <2>1 DEF ConsumerInv, Mine
<1>5. CellsInv'
  <2>1. CellsInv
    BY DEF IndInv
  <2>2. \A i \in Cells, n \in Nat : Serves(i, n) => Serves(i, n)'
    BY <1>1, <1>2 DEF Serves
  <2> QED
    BY <2>1, <2>2 DEF CellsInv
<1> QED
  BY <1>3, <1>4, <1>5 DEF IndInv, ClaimedInv

(* A producer that only reads keeps the invariant.                         *)
LEMMA EnqueueLoads ==
    ASSUME IndInv, NEW p \in Producers,
           \/ EnqueueLoadPos(p) \/ EnqueueReady(p)
           \/ EnqueueNotReady(p) \/ EnqueueClaimFails(p)
    PROVE  IndInv'
<1>1. p \in Threads /\ p \notin Consumers
  BY ThreadsAssumption DEF Threads
<1> USE DEF At, EnqueueLoadPos, EnqueueReady, EnqueueNotReady, EnqueueClaimFails
<1>2. TypeOK'
  BY <1>1 DEF IndInv, TypeOK
<1>3. /\ ~Inside(p)
      /\ at'[p] \in {"pos", "sequence", "claim"}
      /\ \A s \in Threads \ {p} : at'[s] = at[s] /\ pos'[s] = pos[s]
      /\ UNCHANGED <<sequence, data, enqueue_ptr, dequeue_ptr, done, claimed>>
  BY <1>1 DEF IndInv, TypeOK, Inside
<1>4. ProducerInv' /\ ConsumerInv' /\ ClaimedInv' /\ CellsInv'
  BY <1>1, <1>2, <1>3, LocalStep DEF TypeOK
<1>5. CallInv'
  BY <1>1 DEF IndInv, TypeOK, CallInv
<1>6. ClaimInv'
  <2>1. /\ at'[p] \in {"sequence", "claim"} => pos'[p] <= enqueue_ptr
        /\ at'[p] = "claim" => sequence[CellOf(pos'[p])] = pos'[p]
    BY <1>1 DEF IndInv, TypeOK, ClaimInv, Mine
  <2> QED
    BY <1>1, <1>3, <2>1 DEF IndInv, ClaimInv, Mine, Threads
<1> QED
  BY <1>2, <1>3, <1>4, <1>5, <1>6 DEF IndInv

(* A consumer that only reads keeps the invariant.                         *)
LEMMA DequeueLoads ==
    ASSUME IndInv, NEW c \in Consumers,
           \/ DequeueLoadPos(c) \/ DequeueReady(c)
           \/ DequeueNotReady(c) \/ DequeueClaimFails(c)
    PROVE  IndInv'
<1>1. c \in Threads /\ c \notin Producers
  BY ThreadsAssumption DEF Threads
<1> USE DEF At, DequeueLoadPos, DequeueReady, DequeueNotReady, DequeueClaimFails
<1>2. TypeOK'
  BY <1>1 DEF IndInv, TypeOK
<1>3. /\ ~Inside(c)
      /\ at'[c] \in {"pos", "sequence", "claim"}
      /\ \A s \in Threads \ {c} : at'[s] = at[s] /\ pos'[s] = pos[s]
      /\ UNCHANGED <<sequence, data, enqueue_ptr, dequeue_ptr, done, claimed>>
  BY <1>1 DEF IndInv, TypeOK, Inside
<1>4. ProducerInv' /\ ConsumerInv' /\ ClaimedInv' /\ CellsInv'
  BY <1>1, <1>2, <1>3, LocalStep DEF TypeOK
<1>5. CallInv'
  BY <1>1 DEF IndInv, TypeOK, CallInv
<1>6. ClaimInv'
  <2>1. /\ at'[c] \in {"sequence", "claim"} => pos'[c] <= dequeue_ptr
        /\ at'[c] = "claim" => sequence[CellOf(pos'[c])] = pos'[c] + 1
    BY <1>1 DEF IndInv, TypeOK, ClaimInv, Mine
  <2> QED
    BY <1>1, <1>3, <2>1 DEF IndInv, ClaimInv, Mine, Threads
<1> QED
  BY <1>2, <1>3, <1>4, <1>5, <1>6 DEF IndInv
-----------------------------------------------------------------------------
(* The exchange succeeds: the cell of enqueue_ptr is free for it, and no   *)
(* other cell can be, a lap before or behind.                              *)
LEMMA EnqueueClaims ==
    ASSUME IndInv, NEW p \in Producers, EnqueueClaim(p)
    PROVE  IndInv'
<1> DEFINE E == enqueue_ptr
<1>1. p \in Threads /\ p \notin Consumers
  BY ThreadsAssumption DEF Threads
<1>2. /\ E \in Nat /\ dequeue_ptr \in Nat /\ dequeue_ptr <= E
      /\ pos[p] = E /\ sequence[CellOf(E)] = E
      /\ E' = E + 1 /\ pos' = pos /\ sequence' = sequence /\ data' = data
      /\ dequeue_ptr' = dequeue_ptr /\ done' = done /\ ~Inside(p)
      /\ CellOf(E) \in Cells
  BY CellOfType, <1>1
  DEF IndInv, TypeOK, ClaimInv, EnqueueClaim, At, Mine, Inside
<1>3. /\ Inside(p)' /\ at'[p] = "copy"
      /\ \A s \in Threads \ {p} : at'[s] = at[s]
      /\ \A s \in Threads \ {p} : Inside(s)' <=> Inside(s)
  BY <1>1 DEF IndInv, TypeOK, EnqueueClaim, At, Inside
<1>4. /\ DOMAIN claimed' = DOMAIN claimed \cup {E}
      /\ claimed'[E] = Argument(p)
      /\ \A n \in DOMAIN claimed : n # E => claimed'[n] = claimed[n]
      /\ E \notin DOMAIN claimed
  BY <1>2 DEF EnqueueClaim, IndInv, ClaimedInv
<1>5. Argument(p) \in Item
  BY <1>1, ThreadsAssumption DEF IndInv, CallInv, TypeOK, EnqueueClaim, At, Argument, Item
<1>6. TypeOK'
  <2>1. Range(claimed)' \subseteq Item /\ DOMAIN claimed' \subseteq Nat
    BY <1>2, <1>4, <1>5 DEF IndInv, TypeOK, Range
  <2> QED
    BY <1>1, <1>2, <2>1 DEF IndInv, TypeOK, EnqueueClaim, At
<1>7. CallInv'
  BY <1>1, <1>2, <1>3 DEF IndInv, CallInv, EnqueueClaim, At
<1>8. ProducerInv'
  <2>1. ProducerInv
    BY DEF IndInv
  <2>2. \A q \in Producers : Argument(q)' = Argument(q) /\ Mine(q)' = Mine(q)
    BY <1>2 DEF Argument, Mine
  <2>3. \A q \in Producers : q # p => q \in Threads \ {p}
    BY DEF Threads
  <2>4. \A q \in Producers : pos[q] \in Nat
    BY <2>3, <1>1 DEF IndInv, TypeOK
  <2>5. ASSUME NEW q \in Producers, Inside(q)'
        PROVE  /\ pos'[q] < E' /\ sequence'[Mine(q)'] = pos'[q]
               /\ pos'[q] \in DOMAIN claimed'
               /\ claimed'[pos'[q]] = Argument(q)'
               /\ at'[q] = "release" => data'[Mine(q)'] = Argument(q)'
    BY <1>2, <1>3, <1>4, <2>1, <2>2, <2>3, <2>4, <2>5 DEF ProducerInv, Mine
  <2>6. ASSUME NEW q \in Producers, NEW r \in Producers, q # r,
               Inside(q)', Inside(r)'
        PROVE  pos'[q] # pos'[r]
    BY <1>2, <1>3, <2>1, <2>3, <2>4, <2>6 DEF ProducerInv
  <2> QED
    BY <2>5, <2>6 DEF ProducerInv
<1>9. ConsumerInv'
  <2>1. \A c \in Consumers : c \in Threads \ {p} /\ pos[c] \in Nat
    BY <1>1 DEF IndInv, TypeOK, Threads
  <2> QED
    BY <1>2, <1>3, <1>4, <2>1 DEF IndInv, ConsumerInv, Mine
<1>10. ClaimInv'
  BY <1>1, <1>2, <1>3 DEF IndInv, TypeOK, ClaimInv, Mine, Threads
<1>11. ClaimedInv'
  BY <1>2, <1>4 DEF IndInv, ClaimedInv
<1>12. CellsInv'
  <2> SUFFICES ASSUME NEW i \in Cells PROVE \E n \in Nat : Serves(i, n)'
    BY DEF CellsInv
  <2>1. PICK n \in Nat : Serves(i, n)
    BY DEF IndInv, CellsInv
  <2>2. \A c \in Consumers : c \in Threads \ {p}
    BY <1>1 DEF Threads
  <2>3. \A q \in Producers : q # p => q \in Threads \ {p}
    BY DEF Threads
  <2>4. CASE i = CellOf(E)
    <3>1. n = E
      BY <1>2, <2>1, <2>4, ServesWhich
    <3> QED
      BY <1>2, <1>3, <2>1, <2>4, <3>1, SizeFacts DEF Serves
  <2>5. CASE i # CellOf(E)
    <3>1. n # E
      BY <2>1, <2>5 DEF Serves
    <3>2. n + Size # E
      BY <2>1, <2>5, NextLap DEF Serves
    <3>3. (\E q \in Producers : Inside(q) /\ pos[q] = n)'
            <=> \E q \in Producers : Inside(q) /\ pos[q] = n
      BY <1>2, <1>3, <2>3, <3>1
    <3>4. (\E c \in Consumers : Inside(c) /\ pos[c] = n)'
            <=> \E c \in Consumers : Inside(c) /\ pos[c] = n
      BY <1>2, <1>3, <2>2
    <3> QED
      BY <1>2, <1>4, <2>1, <3>1, <3>2, <3>3, <3>4, SizeFacts DEF Serves
  <2> QED
    BY <2>4, <2>5
<1> QED
  BY <1>2, <1>6, <1>7, <1>8, <1>9, <1>10, <1>11, <1>12 DEF IndInv

(* A won CAS makes the consumer the owner of a published cell.             *)
LEMMA DequeueClaims ==
    ASSUME IndInv, NEW c \in Consumers, DequeueClaim(c)
    PROVE  IndInv'
<1> DEFINE D == dequeue_ptr
<1>1. c \in Threads /\ c \notin Producers
  BY ThreadsAssumption DEF Threads
<1>2. /\ D \in Nat /\ enqueue_ptr \in Nat /\ D <= enqueue_ptr
      /\ pos[c] = D /\ sequence[CellOf(D)] = D + 1
      /\ D' = D + 1 /\ pos' = pos /\ sequence' = sequence /\ data' = data
      /\ enqueue_ptr' = enqueue_ptr /\ done' = done /\ claimed' = claimed
      /\ taken' = taken /\ ~Inside(c) /\ CellOf(D) \in Cells
  BY CellOfType, <1>1
  DEF IndInv, TypeOK, ClaimInv, DequeueClaim, At, Mine, Inside
<1>3. /\ Inside(c)' /\ at'[c] = "copy"
      /\ \A s \in Threads \ {c} : at'[s] = at[s]
      /\ \A s \in Threads \ {c} : Inside(s)' <=> Inside(s)
  BY <1>1 DEF IndInv, TypeOK, DequeueClaim, At, Inside
<1>4. Serves(CellOf(D), D)
  BY <1>2, ServesWhich DEF IndInv, CellsInv
<1>5. D < enqueue_ptr /\ D \in DOMAIN claimed
  <2>1. D < enqueue_ptr
    BY <1>2, <1>4 DEF Serves
  <2> QED
    BY <1>2, <2>1 DEF IndInv, ClaimedInv
<1>6. TypeOK'
  BY <1>1, <1>2 DEF IndInv, TypeOK, DequeueClaim, At
<1>7. CallInv'
  BY <1>1, <1>2, <1>3 DEF IndInv, CallInv, DequeueClaim, At
<1>8. \A s \in Threads : pos[s] \in Nat
  BY DEF IndInv, TypeOK
<1>9. \A p \in Producers : p \in Threads \ {c}
  BY <1>1 DEF Threads
<1>10. \A d \in Consumers : d \in Threads /\ (d # c => d \in Threads \ {c})
  BY DEF Threads
<1>11. ProducerInv'
  BY <1>2, <1>3, <1>9 DEF IndInv, ProducerInv, Mine, Argument
<1>12. ConsumerInv'
  <2>1. ASSUME NEW d \in Consumers, Inside(d)'
        PROVE  /\ pos'[d] < D' /\ sequence'[Mine(d)'] = pos'[d] + 1
               /\ pos'[d] \in DOMAIN claimed' <=> at'[d] = "copy"
    BY <1>2, <1>3, <1>5, <1>8, <1>10, <2>1 DEF IndInv, ConsumerInv, Mine
  <2>2. ASSUME NEW d \in Consumers, NEW e \in Consumers, d # e,
               Inside(d)', Inside(e)'
        PROVE  pos'[d] # pos'[e]
    BY <1>2, <1>3, <1>8, <1>10, <2>2 DEF IndInv, ConsumerInv
  <2> QED
    BY <2>1, <2>2 DEF ConsumerInv
<1>13. ClaimInv'
  BY <1>1, <1>2, <1>3, <1>8 DEF IndInv, ClaimInv, Mine, Threads
<1>14. ClaimedInv'
  BY <1>2 DEF IndInv, ClaimedInv
<1>15. CellsInv'
  <2> SUFFICES ASSUME NEW i \in Cells PROVE \E n \in Nat : Serves(i, n)'
    BY DEF CellsInv
  <2>1. PICK n \in Nat : Serves(i, n)
    BY DEF IndInv, CellsInv
  <2>2. (\E p \in Producers : Inside(p) /\ pos[p] = n)'
          <=> \E p \in Producers : Inside(p) /\ pos[p] = n
    BY <1>2, <1>3, <1>9
  <2>3. CASE i = CellOf(D)
    <3>1. n = D
      BY <1>2, <2>1, <2>3, ServesWhich
    <3> QED
      BY <1>2, <1>3, <1>5, <2>1, <2>3, <3>1, SizeFacts DEF Serves
  <2>4. CASE i # CellOf(D)
    <3>1. n # D
      BY <2>1, <2>4 DEF Serves
    <3>2. (\E d \in Consumers : Inside(d) /\ pos[d] = n)'
            <=> \E d \in Consumers : Inside(d) /\ pos[d] = n
      BY <1>2, <1>3, <1>10, <3>1
    <3> QED
      BY <1>2, <2>1, <2>2, <3>1, <3>2, SizeFacts DEF Serves
  <2> QED
    BY <2>3, <2>4
<1> QED
  BY <1>2, <1>5, <1>6, <1>7, <1>11, <1>12, <1>13, <1>14, <1>15 DEF IndInv
-----------------------------------------------------------------------------
(* Two threads in possession of cells have different ones: the number of   *)
(* a cell names its position, and whether it is being filled or emptied.   *)
LEMMA OwnCell ==
    ASSUME IndInv, NEW s \in Threads, NEW t \in Threads, s # t,
           Inside(s), Inside(t)
    PROVE  Mine(s) # Mine(t)
<1> SUFFICES ASSUME Mine(s) = Mine(t) PROVE FALSE
  OBVIOUS
<1>1. pos[s] \in Nat /\ pos[t] \in Nat
  BY DEF IndInv, TypeOK
<1>2. pos[s] + 1 # pos[t] /\ pos[t] + 1 # pos[s]
  BY <1>1, DistinctCells, SizeFacts DEF Mine
<1> QED
  BY <1>1, <1>2 DEF IndInv, ProducerInv, ConsumerInv, Threads

(* Filling a claimed cell touches no cell anybody else owns.               *)
LEMMA EnqueueCopies ==
    ASSUME IndInv, NEW p \in Producers, EnqueueCopy(p)
    PROVE  IndInv'
<1>1. p \in Threads /\ p \notin Consumers
  BY ThreadsAssumption DEF Threads
<1>2. /\ pos' = pos /\ sequence' = sequence /\ enqueue_ptr' = enqueue_ptr
      /\ dequeue_ptr' = dequeue_ptr /\ done' = done /\ claimed' = claimed
      /\ data' = [data EXCEPT ![Mine(p)] = Argument(p)]
  BY DEF EnqueueCopy
<1>3. /\ Inside(p) /\ Inside(p)' /\ at'[p] = "release"
      /\ \A s \in Threads \ {p} : at'[s] = at[s]
      /\ \A s \in Threads : Inside(s)' <=> Inside(s)
  BY <1>1 DEF IndInv, TypeOK, EnqueueCopy, At, Inside
<1>4. pos[p] \in Nat /\ Mine(p) \in Cells
  BY <1>1, CellOfType DEF IndInv, TypeOK, Mine
<1>5. Argument(p) \in Item
  BY <1>1, ThreadsAssumption
  DEF IndInv, CallInv, TypeOK, EnqueueCopy, At, Argument, Item
<1>6. TypeOK'
  BY <1>1, <1>2, <1>4, <1>5 DEF IndInv, TypeOK, EnqueueCopy, At
<1>7. CallInv'
  BY <1>1, <1>2, <1>3 DEF IndInv, CallInv, EnqueueCopy, At
<1>8. ProducerInv'
  <2>1. ASSUME NEW q \in Producers, Inside(q)'
        PROVE  /\ pos'[q] < enqueue_ptr' /\ sequence'[Mine(q)'] = pos'[q]
               /\ pos'[q] \in DOMAIN claimed'
               /\ claimed'[pos'[q]] = Argument(q)'
               /\ at'[q] = "release" => data'[Mine(q)'] = Argument(q)'
    <3>1. q \in Threads /\ Inside(q) /\ Mine(q)' = Mine(q)
          /\ Argument(q)' = Argument(q)
      BY <1>2, <1>3, <2>1 DEF Threads, Mine, Argument
    <3>2. q # p => Mine(q) # Mine(p)
      BY <1>1, <1>3, <3>1, OwnCell
    <3>3. data \in [Cells -> Item \cup {NoItem}]
      BY DEF IndInv, TypeOK
    <3>4. Mine(q) \in Cells
      BY <3>1, CellOfType DEF IndInv, TypeOK, Mine
    <3> QED
      BY <1>2, <1>3, <1>4, <3>1, <3>2, <3>3, <3>4 DEF IndInv, ProducerInv
  <2> QED
    BY <1>2, <1>3, <2>1 DEF IndInv, ProducerInv, Threads
<1>9. ConsumerInv'
  BY <1>1, <1>2, <1>3 DEF IndInv, ConsumerInv, Mine, Threads
<1>10. ClaimInv'
  BY <1>1, <1>2, <1>3 DEF IndInv, ClaimInv, Mine, Threads
<1>11. ClaimedInv'
  BY <1>2 DEF IndInv, ClaimedInv
<1>12. CellsInv'
  <2> SUFFICES ASSUME NEW i \in Cells, NEW n \in Nat, Serves(i, n)
               PROVE  Serves(i, n)'
    BY DEF IndInv, CellsInv
  <2>1. i = Mine(p) => n = pos[p] /\ sequence[i] = pos[p]
    BY <1>3, <1>4, ServesWhich DEF IndInv, ProducerInv, Mine
  <2>2. i # Mine(p) => data'[i] = data[i]
    BY <1>2 DEF IndInv, TypeOK
  <2>3. /\ (\E q \in Producers : Inside(q) /\ pos[q] = n)'
             <=> \E q \in Producers : Inside(q) /\ pos[q] = n
        /\ (\E c \in Consumers : Inside(c) /\ pos[c] = n)'
             <=> \E c \in Consumers : Inside(c) /\ pos[c] = n
    BY <1>2, <1>3 DEF Threads
  <2> QED
    BY <1>2, <1>4, <2>1, <2>2, <2>3 DEF Serves
<1> QED
  BY <1>2, <1>6, <1>7, <1>8, <1>9, <1>10, <1>11, <1>12 DEF IndInv

(* Copying out of a claimed cell takes the value of its position.          *)
LEMMA DequeueCopies ==
    ASSUME IndInv, NEW c \in Consumers, DequeueCopy(c)
    PROVE  IndInv'
<1>1. c \in Threads /\ c \notin Producers
  BY ThreadsAssumption DEF Threads
<1>2. /\ pos' = pos /\ sequence' = sequence /\ enqueue_ptr' = enqueue_ptr
      /\ dequeue_ptr' = dequeue_ptr /\ done' = done /\ data' = data
      /\ DOMAIN claimed' = DOMAIN claimed \ {pos[c]}
      /\ \A n \in DOMAIN claimed \ {pos[c]} : claimed'[n] = claimed[n]
  BY DEF DequeueCopy, Restrict
<1>3. /\ Inside(c) /\ Inside(c)' /\ at[c] = "copy" /\ at'[c] = "release"
      /\ \A s \in Threads \ {c} : at'[s] = at[s]
      /\ \A s \in Threads : Inside(s)' <=> Inside(s)
  BY <1>1 DEF IndInv, TypeOK, DequeueCopy, At, Inside
<1>4. \A s \in Threads : pos[s] \in Nat /\ Mine(s) \in Cells
  BY CellOfType DEF IndInv, TypeOK, Mine
<1>5. \A s \in Threads : s # c /\ Inside(s) => pos[s] # pos[c]
  BY <1>1, <1>3, OwnCell DEF Mine
<1>6. TypeOK'
  <2>1. Range(claimed)' \subseteq Item /\ DOMAIN claimed' \subseteq Nat
    BY <1>2 DEF IndInv, TypeOK, Range
  <2>2. taken' \subseteq Item \cup {NoItem}
    BY <1>1, <1>4 DEF IndInv, TypeOK, DequeueCopy
  <2> QED
    BY <1>1, <1>2, <2>1, <2>2 DEF IndInv, TypeOK, DequeueCopy, At
<1>7. CallInv'
  BY <1>1, <1>2, <1>3 DEF IndInv, CallInv, DequeueCopy, At
<1>8. ProducerInv'
  BY <1>1, <1>2, <1>3, <1>5 DEF IndInv, ProducerInv, Mine, Argument, Threads
<1>9. ConsumerInv'
  <2>1. ASSUME NEW d \in Consumers, Inside(d)'
        PROVE  /\ pos'[d] < dequeue_ptr' /\ sequence'[Mine(d)'] = pos'[d] + 1
               /\ pos'[d] \in DOMAIN claimed' <=> at'[d] = "copy"
    BY <1>1, <1>2, <1>3, <1>5, <2>1 DEF IndInv, ConsumerInv, Mine, Threads
  <2> QED
    BY <1>2, <1>3, <2>1 DEF IndInv, ConsumerInv, Threads
<1>10. ClaimInv'
  BY <1>1, <1>2, <1>3 DEF IndInv, ClaimInv, Mine, Threads
<1>11. ClaimedInv'
  BY <1>1, <1>2, <1>3, <1>4 DEF IndInv, ClaimedInv, ConsumerInv, TypeOK
<1>12. CellsInv'
  <2> SUFFICES ASSUME NEW i \in Cells, NEW n \in Nat, Serves(i, n)
               PROVE  Serves(i, n)'
    BY DEF IndInv, CellsInv
  <2>1. /\ (\E q \in Producers : Inside(q) /\ pos[q] = n)'
             <=> \E q \in Producers : Inside(q) /\ pos[q] = n
        /\ (\E d \in Consumers : Inside(d) /\ pos[d] = n)'
             <=> \E d \in Consumers : Inside(d) /\ pos[d] = n
    BY <1>2, <1>3 DEF Threads
  <2> QED
    BY <1>2, <2>1 DEF Serves
<1> QED
  BY <1>2, <1>6, <1>7, <1>8, <1>9, <1>10, <1>11, <1>12 DEF IndInv
-----------------------------------------------------------------------------
(* The stores that hand a cell over: position n goes from the producers to *)
(* the consumers, and then the cell goes on to serve n + Size.             *)
LEMMA EnqueueReleases ==
    ASSUME IndInv, NEW p \in Producers, EnqueueRelease(p)
    PROVE  IndInv'
<1> DEFINE n0 == pos[p]
           i0 == CellOf(n0)
<1>1. p \in Threads /\ p \notin Consumers
  BY ThreadsAssumption DEF Threads
<1>2. /\ enqueue_ptr' = enqueue_ptr /\ dequeue_ptr' = dequeue_ptr
      /\ data' = data /\ claimed' = claimed /\ taken' = taken
      /\ \A s \in Threads \ {p} : /\ at'[s] = at[s] /\ pos'[s] = pos[s]
                                  /\ done'[s] = done[s]
      /\ at[p] = "release" /\ at'[p] = "pos" /\ Inside(p) /\ ~Inside(p)'
  BY <1>1 DEF IndInv, TypeOK, EnqueueRelease, At, Inside
<1>3. \A s \in Threads : pos[s] \in Nat /\ Mine(s) \in Cells
  BY CellOfType DEF IndInv, TypeOK, Mine
<1>4. /\ n0 < enqueue_ptr /\ sequence[i0] = n0 /\ n0 \in DOMAIN claimed
      /\ data[i0] = claimed[n0] /\ i0 \in Cells /\ n0 \in Nat
  BY <1>1, <1>2, <1>3 DEF IndInv, ProducerInv, Mine
<1>5. /\ sequence'[i0] = n0 + 1
      /\ \A i \in Cells \ {i0} : sequence'[i] = sequence[i]
  BY <1>4 DEF IndInv, TypeOK, EnqueueRelease, Mine
<1>6. \A s \in Threads \ {p} : /\ Inside(s)' <=> Inside(s)
                               /\ Inside(s) => CellOf(pos[s]) # i0
  BY <1>1, <1>2, OwnCell DEF Inside, Mine
<1>7. Producers \subseteq Threads /\ Consumers \subseteq Threads \ {p}
  BY <1>1 DEF Threads
<1>8. TypeOK'
  <2>1. done' \in [Threads -> 0 .. ITER]
    BY <1>1, ThreadsAssumption
    DEF IndInv, CallInv, TypeOK, EnqueueRelease, At
  <2> QED
    BY <1>1, <1>2, <1>4, <2>1 DEF IndInv, TypeOK, EnqueueRelease, At, Mine
<1>9. CallInv'
  BY <1>2 DEF IndInv, CallInv
<1>10. ProducerInv'
  <2>1. ASSUME NEW q \in Producers, Inside(q)'
        PROVE  /\ pos'[q] < enqueue_ptr' /\ sequence'[Mine(q)'] = pos'[q]
               /\ pos'[q] \in DOMAIN claimed'
               /\ claimed'[pos'[q]] = Argument(q)'
               /\ at'[q] = "release" => data'[Mine(q)'] = Argument(q)'
    <3>1. q \in Threads \ {p} /\ Inside(q)
      BY <1>2, <1>6, <1>7, <2>1
    <3>2. Mine(q)' = Mine(q) /\ Argument(q)' = Argument(q) /\ Mine(q) \in Cells
          /\ Mine(q) # i0
      BY <1>2, <1>3, <1>6, <3>1 DEF Mine, Argument
    <3> QED
      BY <1>2, <1>5, <3>1, <3>2 DEF IndInv, ProducerInv
  <2>2. ASSUME NEW q \in Producers, NEW r \in Producers, q # r,
               Inside(q)', Inside(r)'
        PROVE  pos'[q] # pos'[r]
    BY <1>2, <1>6, <1>7, <2>2 DEF IndInv, ProducerInv
  <2> QED
    BY <2>1, <2>2 DEF ProducerInv
<1>11. ConsumerInv'
  <2>1. ASSUME NEW d \in Consumers, Inside(d)'
        PROVE  /\ pos'[d] < dequeue_ptr' /\ sequence'[Mine(d)'] = pos'[d] + 1
               /\ pos'[d] \in DOMAIN claimed' <=> at'[d] = "copy"
    <3>1. d \in Threads \ {p} /\ Inside(d)
      BY <1>6, <1>7, <2>1
    <3>2. Mine(d)' = Mine(d) /\ Mine(d) \in Cells /\ Mine(d) # i0
      BY <1>2, <1>3, <1>6, <3>1 DEF Mine
    <3> QED
      BY <1>2, <1>5, <3>1, <3>2 DEF IndInv, ConsumerInv
  <2> QED
    BY <1>2, <1>6, <1>7, <2>1 DEF IndInv, ConsumerInv
<1>12. ClaimInv'
  <2>1. ASSUME NEW q \in Producers, at'[q] = "claim"
        PROVE  /\ pos'[q] <= enqueue_ptr'
               /\ pos'[q] = enqueue_ptr' => sequence'[Mine(q)'] = pos'[q]
    <3>1. q \in Threads \ {p} /\ at[q] = "claim" /\ pos'[q] = pos[q]
          /\ Mine(q)' = Mine(q) /\ Mine(q) \in Cells
      BY <1>2, <1>3, <1>7, <2>1 DEF Mine
    <3>2. pos[q] = enqueue_ptr => Mine(q) # i0
      BY <1>4, <3>1 DEF IndInv, ClaimInv, TypeOK
    <3> QED
      BY <1>2, <1>5, <3>1, <3>2 DEF IndInv, ClaimInv
  <2>2. ASSUME NEW d \in Consumers, at'[d] = "claim"
        PROVE  /\ pos'[d] <= dequeue_ptr'
               /\ pos'[d] = dequeue_ptr' => sequence'[Mine(d)'] = pos'[d] + 1
    <3>1. d \in Threads \ {p} /\ at[d] = "claim" /\ pos'[d] = pos[d]
          /\ Mine(d)' = Mine(d) /\ Mine(d) \in Cells /\ pos[d] \in Nat
      BY <1>2, <1>3, <1>7, <2>2 DEF Mine
    <3>2. CellOf(pos[d]) # CellOf(pos[d] + 1)
      BY <3>1, DistinctCells, SizeFacts
    <3>3. pos[d] = dequeue_ptr => Mine(d) # i0
      BY <1>4, <3>1, <3>2 DEF IndInv, ClaimInv, Mine
    <3> QED
      BY <1>2, <1>5, <3>1, <3>3 DEF IndInv, ClaimInv
  <2> QED
    BY <1>2, <2>1, <2>2 DEF IndInv, ClaimInv
<1>13. ClaimedInv'
  BY <1>2 DEF IndInv, ClaimedInv
<1>14. CellsInv'
  <2> SUFFICES ASSUME NEW i \in Cells, NEW n \in Nat, Serves(i, n)
               PROVE  Serves(i, n)'
    BY DEF IndInv, CellsInv
  <2>1. (\E d \in Consumers : Inside(d) /\ pos[d] = n)'
          <=> \E d \in Consumers : Inside(d) /\ pos[d] = n
    BY <1>2, <1>6, <1>7
  <2>2. CASE i = i0
    <3>1. n = n0
      BY <1>4, <2>2, ServesWhich
    <3>2. dequeue_ptr <= n
      BY <1>4, <2>2, <3>1 DEF Serves
    <3>3. ~\E d \in Consumers : Inside(d) /\ pos[d] = n
      BY <3>2 DEF IndInv, ConsumerInv, TypeOK
    <3>4. dequeue_ptr \in Nat
      BY DEF IndInv, TypeOK
    <3> QED
      BY <1>2, <1>4, <1>5, <2>1, <2>2, <3>1, <3>2, <3>3, <3>4 DEF Serves
  <2>3. CASE i # i0
    <3>1. n # n0
      BY <2>3 DEF Serves
    <3>2. (\E q \in Producers : Inside(q) /\ pos[q] = n)'
            <=> \E q \in Producers : Inside(q) /\ pos[q] = n
      BY <1>2, <1>6, <1>7, <3>1
    <3> QED
      BY <1>2, <1>5, <2>1, <2>3, <3>2 DEF Serves
  <2> QED
    BY <2>2, <2>3
<1> QED
  BY <1>2, <1>8, <1>9, <1>10, <1>11, <1>12, <1>13, <1>14 DEF IndInv

(* A release hands the cell to the next lap.                               *)
LEMMA DequeueReleases ==
    ASSUME IndInv, NEW c \in Consumers, DequeueRelease(c)
    PROVE  IndInv'
<1> DEFINE n0 == pos[c]
           i0 == CellOf(n0)
<1>1. c \in Threads /\ c \notin Producers
  BY ThreadsAssumption DEF Threads
<1>2. /\ enqueue_ptr' = enqueue_ptr /\ dequeue_ptr' = dequeue_ptr
      /\ data' = data /\ claimed' = claimed /\ taken' = taken
      /\ \A s \in Threads \ {c} : /\ at'[s] = at[s] /\ pos'[s] = pos[s]
                                  /\ done'[s] = done[s]
      /\ at[c] = "release" /\ at'[c] = "pos" /\ Inside(c) /\ ~Inside(c)'
  BY <1>1 DEF IndInv, TypeOK, DequeueRelease, At, Inside
<1>3. \A s \in Threads : pos[s] \in Nat /\ Mine(s) \in Cells
  BY CellOfType DEF IndInv, TypeOK, Mine
<1>4. /\ n0 < dequeue_ptr /\ sequence[i0] = n0 + 1 /\ n0 \notin DOMAIN claimed
      /\ i0 \in Cells /\ n0 \in Nat
  BY <1>1, <1>2, <1>3 DEF IndInv, ConsumerInv, Mine
<1>5. /\ sequence'[i0] = n0 + Size
      /\ \A i \in Cells \ {i0} : sequence'[i] = sequence[i]
  BY <1>4 DEF IndInv, TypeOK, DequeueRelease, Mine
<1>6. \A s \in Threads \ {c} : /\ Inside(s)' <=> Inside(s)
                               /\ Inside(s) => CellOf(pos[s]) # i0
  BY <1>1, <1>2, OwnCell DEF Inside, Mine
<1>7. Producers \subseteq Threads \ {c} /\ Consumers \subseteq Threads
  BY <1>1 DEF Threads
<1>8. TypeOK'
  <2>1. done' \in [Threads -> 0 .. ITER]
    BY <1>1, ThreadsAssumption
    DEF IndInv, CallInv, TypeOK, DequeueRelease, At
  <2>2. sequence' \in [Cells -> Nat]
    BY <1>4, SizeFacts DEF IndInv, TypeOK, DequeueRelease, Mine
  <2> QED
    BY <1>1, <1>2, <2>1, <2>2 DEF IndInv, TypeOK, DequeueRelease, At
<1>9. CallInv'
  BY <1>2 DEF IndInv, CallInv
<1>10. ProducerInv'
  <2>1. ASSUME NEW q \in Producers, Inside(q)'
        PROVE  /\ pos'[q] < enqueue_ptr' /\ sequence'[Mine(q)'] = pos'[q]
               /\ pos'[q] \in DOMAIN claimed'
               /\ claimed'[pos'[q]] = Argument(q)'
               /\ at'[q] = "release" => data'[Mine(q)'] = Argument(q)'
    <3>1. q \in Threads \ {c} /\ Inside(q)
      BY <1>6, <1>7, <2>1
    <3>2. Mine(q)' = Mine(q) /\ Argument(q)' = Argument(q) /\ Mine(q) \in Cells
          /\ Mine(q) # i0
      BY <1>2, <1>3, <1>6, <3>1 DEF Mine, Argument
    <3> QED
      BY <1>2, <1>5, <3>1, <3>2 DEF IndInv, ProducerInv
  <2> QED
    BY <1>2, <1>6, <1>7, <2>1 DEF IndInv, ProducerInv
<1>11. ConsumerInv'
  <2>1. ASSUME NEW d \in Consumers, Inside(d)'
        PROVE  /\ pos'[d] < dequeue_ptr' /\ sequence'[Mine(d)'] = pos'[d] + 1
               /\ pos'[d] \in DOMAIN claimed' <=> at'[d] = "copy"
    <3>1. d \in Threads \ {c} /\ Inside(d)
      BY <1>2, <1>6, <1>7, <2>1
    <3>2. Mine(d)' = Mine(d) /\ Mine(d) \in Cells /\ Mine(d) # i0
      BY <1>2, <1>3, <1>6, <3>1 DEF Mine
    <3> QED
      BY <1>2, <1>5, <3>1, <3>2 DEF IndInv, ConsumerInv
  <2>2. ASSUME NEW d \in Consumers, NEW e \in Consumers, d # e,
               Inside(d)', Inside(e)'
        PROVE  pos'[d] # pos'[e]
    BY <1>2, <1>6, <1>7, <2>2 DEF IndInv, ConsumerInv
  <2> QED
    BY <2>1, <2>2 DEF ConsumerInv
<1>12. ClaimInv'
  <2>1. ASSUME NEW q \in Producers, at'[q] = "claim"
        PROVE  /\ pos'[q] <= enqueue_ptr'
               /\ pos'[q] = enqueue_ptr' => sequence'[Mine(q)'] = pos'[q]
    <3>1. q \in Threads \ {c} /\ at[q] = "claim" /\ pos'[q] = pos[q]
          /\ Mine(q)' = Mine(q) /\ Mine(q) \in Cells /\ pos[q] \in Nat
      BY <1>2, <1>3, <1>7, <2>1 DEF Mine
    <3>2. CellOf(n0) # CellOf(n0 + 1)
      BY <1>4, DistinctCells, SizeFacts
    <3>3. pos[q] = enqueue_ptr => Mine(q) # i0
      BY <1>4, <3>1, <3>2 DEF IndInv, ClaimInv, Mine
    <3> QED
      BY <1>2, <1>5, <3>1, <3>3 DEF IndInv, ClaimInv
  <2>2. ASSUME NEW d \in Consumers, at'[d] = "claim"
        PROVE  /\ pos'[d] <= dequeue_ptr'
               /\ pos'[d] = dequeue_ptr' => sequence'[Mine(d)'] = pos'[d] + 1
    <3>1. d \in Threads \ {c} /\ at[d] = "claim" /\ pos'[d] = pos[d]
          /\ Mine(d)' = Mine(d) /\ Mine(d) \in Cells /\ pos[d] \in Nat
      BY <1>2, <1>3, <1>7, <2>2 DEF Mine
    <3>2. pos[d] = dequeue_ptr => Mine(d) # i0
      BY <1>4, <3>1 DEF IndInv, ClaimInv, TypeOK
    <3> QED
      BY <1>2, <1>5, <3>1, <3>2 DEF IndInv, ClaimInv
  <2> QED
    BY <1>2, <2>1, <2>2 DEF IndInv, ClaimInv
<1>13. ClaimedInv'
  BY <1>2 DEF IndInv, ClaimedInv
<1>14. CellsInv'
  <2> SUFFICES ASSUME NEW i \in Cells PROVE \E n \in Nat : Serves(i, n)'
    BY DEF CellsInv
  <2>1. PICK n \in Nat : Serves(i, n)
    BY DEF IndInv, CellsInv
  <2>2. CASE i = i0
    <3>1. n = n0
      BY <1>4, <2>1, <2>2, ServesWhich
    <3>2. enqueue_ptr <= n0 + Size /\ n0 < enqueue_ptr
          /\ dequeue_ptr <= enqueue_ptr
          /\ enqueue_ptr \in Nat /\ dequeue_ptr \in Nat
      BY <1>4, <2>1, <2>2, <3>1 DEF Serves, IndInv, TypeOK
    <3>3. PICK m \in Nat : m = n0 + Size
      BY <1>4, SizeFacts
    <3>4. CellOf(m) = i
      BY <1>4, <2>2, <3>3, NextLap
    <3>5. ~\E q \in Producers : Inside(q)' /\ pos'[q] = m
      BY <1>2, <1>3, <1>6, <1>7, <3>2, <3>3 DEF IndInv, ProducerInv
    <3>6. Serves(i, m)'
      BY <1>2, <1>4, <1>5, <2>2, <3>2, <3>3, <3>4, <3>5, SizeFacts DEF Serves
    <3> QED
      BY <3>6
  <2>3. CASE i # i0
    <3>1. n # n0
      BY <2>1, <2>3 DEF Serves
    <3>2. /\ (\E q \in Producers : Inside(q) /\ pos[q] = n)'
               <=> \E q \in Producers : Inside(q) /\ pos[q] = n
          /\ (\E d \in Consumers : Inside(d) /\ pos[d] = n)'
               <=> \E d \in Consumers : Inside(d) /\ pos[d] = n
      BY <1>2, <1>6, <1>7, <3>1
    <3> QED
      BY <1>2, <1>5, <2>1, <2>3, <3>2 DEF Serves
  <2> QED
    BY <2>2, <2>3
<1> QED
  BY <1>2, <1>8, <1>9, <1>10, <1>11, <1>12, <1>13, <1>14 DEF IndInv
-----------------------------------------------------------------------------
(* Every step keeps the invariant.                                         *)
LEMMA StepInd == IndInv /\ [Next]_vars => IndInv'
<1> SUFFICES ASSUME IndInv, [Next]_vars PROVE IndInv'
  OBVIOUS
<1>1. ASSUME NEW p \in Producers, Producer(p) PROVE IndInv'
  BY <1>1, EnqueueLoads, EnqueueClaims, EnqueueCopies, EnqueueReleases
  DEF Producer
<1>2. ASSUME NEW c \in Consumers, Consumer(c) PROVE IndInv'
  BY <1>2, DequeueLoads, DequeueClaims, DequeueCopies, DequeueReleases
  DEF Consumer
<1>3. CASE UNCHANGED vars
  <2> USE <1>3 DEF vars
  <2>1. TypeOK' /\ CallInv' /\ ClaimedInv' /\ dequeue_ptr' <= enqueue_ptr'
    BY DEF IndInv, TypeOK, CallInv, ClaimedInv
  <2>2. ProducerInv' /\ ConsumerInv' /\ ClaimInv'
    BY DEF IndInv, ProducerInv, ConsumerInv, ClaimInv, Inside, Mine, Argument
  <2>3. CellsInv'
    BY DEF IndInv, CellsInv, Serves, Inside
  <2> QED
    BY <2>1, <2>2, <2>3 DEF IndInv
<1> QED
  BY <1>1, <1>2, <1>3 DEF Next, Joined

(* The inductive invariant holds throughout.                               *)
LEMMA Inductive == Spec => []IndInv
  BY InitInd, StepInd, PTL DEF Spec

(* The cells' numbers tell free cells from full ones and from those being  *)
(* filled or emptied, for every size and any threads (mpmc.cpp).           *)
THEOREM SequenceCorrect == Spec => []SequenceInv
<1>1. IndInv => SequenceInv
  <2> SUFFICES ASSUME IndInv, NEW i \in Cells
               PROVE  \E n \in 0 .. enqueue_ptr + Size :
                        /\ CellOf(n) = i
                        /\ \/ /\ sequence[i] = n
                              /\ n \in dequeue_ptr .. enqueue_ptr + Size - 1
                              /\ n < enqueue_ptr <=> \E p \in Producers :
                                                       Inside(p) /\ pos[p] = n
                           \/ /\ sequence[i] = n + 1
                              /\ n < enqueue_ptr
                              /\ n < dequeue_ptr <=> \E c \in Consumers :
                                                       Inside(c) /\ pos[c] = n
                              /\ n \in DOMAIN claimed => data[i] = claimed[n]
    BY DEF IndInv, SequenceInv
  <2>1. PICK n \in Nat : Serves(i, n)
    BY DEF IndInv, CellsInv
  <2>2. n \in 0 .. enqueue_ptr + Size
    BY <2>1, SizeFacts DEF Serves, IndInv, TypeOK
  <2>3. sequence[i] = n /\ dequeue_ptr <= n /\ n < enqueue_ptr + Size
          => n \in dequeue_ptr .. enqueue_ptr + Size - 1
    BY SizeFacts DEF IndInv, TypeOK
  <2> QED
    BY <2>1, <2>2, <2>3 DEF Serves
<1> QED
  BY <1>1, Inductive, PTL

(* No two threads are ever on one cell between claim and release, so the   *)
(* plain accesses to the payload cannot race.                              *)
THEOREM NoSharedCell == Spec => []CellExclusive
<1>1. IndInv => CellExclusive
  BY OwnCell DEF CellExclusive
<1> QED
  BY <1>1, Inductive, PTL

(* A dequeue returns the item whose producer claimed the position, whole,  *)
(* and no item is read twice.                                              *)
THEOREM DequeueReturnsClaimed == Spec => []TakenIsClaimed
<1>1. IndInv => TakenIsClaimed
  <2> SUFFICES ASSUME IndInv, NEW c \in Consumers, at[c] = "copy"
               PROVE  /\ pos[c] \in DOMAIN claimed
                      /\ data[Mine(c)] = claimed[pos[c]]
    BY DEF TakenIsClaimed
  <2>1. /\ Inside(c) /\ pos[c] \in Nat /\ Mine(c) \in Cells
        /\ sequence[CellOf(pos[c])] = pos[c] + 1
        /\ pos[c] \in DOMAIN claimed
    BY CellOfType DEF Inside, IndInv, TypeOK, ConsumerInv, Mine, Threads
  <2>2. Serves(Mine(c), pos[c])
    BY <2>1, ServesWhich DEF IndInv, CellsInv, Mine
  <2> QED
    BY <2>1, <2>2 DEF Serves, Mine
<1> QED
  BY <1>1, Inductive, PTL
=============================================================================

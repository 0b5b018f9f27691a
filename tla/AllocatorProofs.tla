-------------------------- MODULE AllocatorProofs --------------------------
(***************************************************************************)
(* Proofs about the pool for every Size.  PoolTypeOK and FreeListInv are   *)
(* inductive together: the pointer chain from free_head spells out the     *)
(* auxiliary sequence free_list, whose slots are distinct and are exactly  *)
(* those no caller holds.                                                  *)
(***************************************************************************)
EXTENDS Allocator, SequenceTheorems, TLAPS

FreeSet == {free_list[i] : i \in 1 .. Len(free_list)}

(* An index past the first is the successor of an index one shorter.       *)
LEMMA Predecessor ==
    ASSUME NEW n \in Nat, NEW i \in 1 .. n + 1, i # 1
    PROVE  \E k \in 1 .. n : i = k + 1
<1>1. i - 1 \in 1 .. n /\ i = (i - 1) + 1
  OBVIOUS
<1> QED
  BY <1>1

(* The fresh pool is sound.                                                *)
LEMMA InitPool == Init => PoolTypeOK /\ FreeListInv
<1> SUFFICES ASSUME Init PROVE PoolTypeOK /\ FreeListInv
  OBVIOUS
<1>1. free_list \in Seq(Slots) /\ Len(free_list) = Size
  BY PoolSizeAssumption DEF Init, Slots
<1>2. \A i \in 1 .. Size : free_list[i] = i
  BY DEF Init
<1>3. PoolTypeOK
  BY <1>1, PoolSizeAssumption DEF Init, PoolTypeOK, Slots, nullptr, Overwritten
<1>4. free_list # <<>>
  BY <1>1, PoolSizeAssumption
<1>5. FreeSet = Slots
  BY <1>1, <1>2 DEF FreeSet, Slots
<1>6. FreeListInv
  <2>1. free_head = free_list[1]
    BY <1>2, PoolSizeAssumption DEF Init
  <2>2. ASSUME NEW i \in 1 .. Size
        PROVE  next[free_list[i]] = IF i = Size THEN nullptr
                                                ELSE free_list[i + 1]
    <3>1. next[free_list[i]] = IF i = Size THEN nullptr ELSE i + 1
      BY <1>2 DEF Init, Slots
    <3>2. i # Size => free_list[i + 1] = i + 1
      BY <1>2, PoolSizeAssumption
    <3> QED
      BY <3>1, <3>2
  <2>3. \A i, j \in 1 .. Size : i # j => free_list[i] # free_list[j]
    BY <1>2
  <2>4. live = Slots \ FreeSet
    BY <1>5 DEF Init
  <2> QED
    BY <1>1, <1>4, <2>1, <2>2, <2>3, <2>4 DEF FreeListInv, FreeSet
<1> QED
  BY <1>3, <1>6

(* allocate() takes the first slot of the chain.                           *)
LEMMA AllocatePool ==
    ASSUME PoolTypeOK, FreeListInv, NEW s \in Slots, Allocate(s)
    PROVE  /\ s \notin live
           /\ PoolTypeOK'
           /\ FreeListInv'
<1>1. s = free_head /\ free_head # nullptr /\ free_list # <<>>
  BY DEF Allocate, full, FreeListInv
<1>2. /\ free_list \in Seq(Slots) /\ Len(free_list) \in Nat
      /\ Len(free_list) >= 1 /\ s = free_list[1]
  BY <1>1, EmptySeq, LenProperties DEF PoolTypeOK, FreeListInv
<1> DEFINE n == Len(free_list)
<1>3. /\ free_list' \in Seq(Slots) /\ Len(free_list') = n - 1
      /\ \A i \in 1 .. n - 1 : free_list'[i] = free_list[i + 1]
  BY <1>1, <1>2, HeadTailProperties DEF Allocate
<1>4. s \in FreeSet /\ s \notin live
  BY <1>2 DEF FreeListInv, FreeSet
<1>5. FreeSet' = FreeSet \ {s}
  <2>1. \A i \in 2 .. n : free_list[i] # s
    BY <1>2 DEF FreeListInv
  <2>2. ASSUME NEW x \in FreeSet' PROVE x \in FreeSet \ {s}
    <3>1. PICK i \in 1 .. n - 1 : x = free_list'[i]
      BY <1>3 DEF FreeSet
    <3>2. i + 1 \in 2 .. n /\ x = free_list[i + 1]
      BY <1>2, <1>3, <3>1
    <3> QED
      BY <1>2, <2>1, <3>2 DEF FreeSet
  <2>3. ASSUME NEW x \in FreeSet, x # s PROVE x \in FreeSet'
    <3>1. PICK i \in 1 .. n : x = free_list[i]
      BY DEF FreeSet
    <3>2. i - 1 \in 1 .. n - 1 /\ x = free_list'[i - 1]
      BY <1>2, <1>3, <2>3, <3>1
    <3> QED
      BY <1>3, <3>2 DEF FreeSet
  <2> QED
    BY <2>2, <2>3
<1>6. free_head' = IF n = 1 THEN nullptr ELSE free_list[2]
  <2>1. next[free_list[1]] = IF 1 = n THEN nullptr ELSE free_list[1 + 1]
    <3>1. 1 \in 1 .. n
      BY <1>2
    <3> QED
      BY <3>1 DEF FreeListInv
  <2> QED
    BY <1>1, <1>2, <2>1 DEF Allocate
<1>7. PoolTypeOK'
  <2>1. free_head' \in Slots \cup {nullptr}
    <3>1. ASSUME n # 1 PROVE free_list[2] \in Slots
      <4>1. \A k \in Nat : k >= 1 /\ k # 1 => 2 \in 1 .. k
        OBVIOUS
      <4>2. 2 \in 1 .. n
        BY <1>2, <3>1, <4>1
      <4> QED
        BY <1>2, <4>2, ElementOfSeq
    <3> QED
      BY <1>6, <3>1
  <2>2. next' \in [Slots -> 0 .. Overwritten]
    BY PoolSizeAssumption DEF Allocate, PoolTypeOK, Overwritten
  <2>3. live' \subseteq Slots
    BY DEF Allocate, PoolTypeOK
  <2> QED
    BY <1>3, <2>1, <2>2, <2>3 DEF PoolTypeOK, Slots, Overwritten, nullptr
<1>8. FreeListInv'
  <2>1. free_head' = IF free_list' = <<>> THEN nullptr ELSE free_list'[1]
    <3>1. n = 1 => free_list' = <<>>
      BY <1>3, EmptySeq
    <3>2. n # 1 => free_list' # <<>> /\ free_list'[1] = free_list[2]
      BY <1>2, <1>3
    <3> QED
      BY <1>6, <3>1, <3>2 DEF nullptr
  <2>2. ASSUME NEW i \in 1 .. n - 1
        PROVE  next'[free_list'[i]] =
                 IF i = n - 1 THEN nullptr ELSE free_list'[i + 1]
    <3>1. i + 1 \in 1 .. n /\ i + 1 # 1 /\ i \in Nat
      BY <1>2
    <3>2. free_list[i + 1] # s /\ free_list[i + 1] \in Slots
      BY <1>2, <3>1, ElementOfSeq DEF FreeListInv
    <3>3. next'[free_list[i + 1]] = next[free_list[i + 1]]
      BY <3>2 DEF Allocate, PoolTypeOK
    <3>4. next[free_list[i + 1]] =
            IF i + 1 = n THEN nullptr ELSE free_list[i + 1 + 1]
      BY <3>1 DEF FreeListInv
    <3>5. i # n - 1 => free_list'[i + 1] = free_list[i + 1 + 1]
      BY <1>2, <1>3
    <3>6. i = n - 1 <=> i + 1 = n
      BY <1>2, <3>1
    <3> QED
      BY <1>3, <3>3, <3>4, <3>5, <3>6
  <2>3. ASSUME NEW i \in 1 .. n - 1, NEW j \in 1 .. n - 1, i # j
        PROVE  free_list'[i] # free_list'[j]
    <3>1. i + 1 \in 1 .. n /\ j + 1 \in 1 .. n /\ i + 1 # j + 1
      BY <1>2, <2>3
    <3> QED
      BY <1>3, <3>1 DEF FreeListInv
  <2>4. live' = Slots \ FreeSet'
    BY <1>4, <1>5 DEF Allocate, FreeListInv, FreeSet
  <2> QED
    BY <1>3, <2>1, <2>2, <2>3, <2>4 DEF FreeListInv, FreeSet, Slots, nullptr
<1> QED
  BY <1>4, <1>7, <1>8

(* deallocate() puts the slot in front of the chain.                       *)
LEMMA DeallocatePool ==
    ASSUME PoolTypeOK, FreeListInv, NEW s \in live, Deallocate(s)
    PROVE  PoolTypeOK' /\ FreeListInv'
<1> DEFINE n == Len(free_list)
<1>1. /\ free_list \in Seq(Slots) /\ n \in Nat /\ s \in Slots
      /\ s \notin FreeSet
  BY LenProperties DEF PoolTypeOK, FreeListInv, FreeSet
<1>2. /\ free_list' \in Seq(Slots) /\ Len(free_list') = n + 1
      /\ free_list'[1] = s
      /\ \A i \in 1 .. n : free_list'[i + 1] = free_list[i]
  <2>1. <<s>> \in Seq(Slots) /\ Len(<<s>>) = 1 /\ <<s>>[1] = s
    BY <1>1
  <2> QED
    BY <1>1, <2>1, ConcatProperties DEF Deallocate
<1>3. FreeSet' = FreeSet \cup {s}
  <2>1. ASSUME NEW x \in FreeSet' PROVE x \in FreeSet \cup {s}
    <3>1. PICK i \in 1 .. n + 1 : x = free_list'[i]
      BY <1>2 DEF FreeSet
    <3>2. CASE i = 1
      BY <1>2, <3>1, <3>2
    <3>3. CASE i # 1
      <4>1. PICK k \in 1 .. n : i = k + 1
        BY <1>1, <3>3, Predecessor
      <4>2. x = free_list[k]
        BY <1>2, <3>1, <4>1
      <4> QED
        BY <4>2 DEF FreeSet
    <3> QED
      BY <3>2, <3>3
  <2>2. s \in FreeSet'
    BY <1>1, <1>2 DEF FreeSet
  <2>3. ASSUME NEW x \in FreeSet PROVE x \in FreeSet'
    <3>1. PICK i \in 1 .. n : x = free_list[i]
      BY DEF FreeSet
    <3>2. i + 1 \in 1 .. n + 1 /\ x = free_list'[i + 1]
      BY <1>1, <1>2, <3>1
    <3> QED
      BY <1>2, <3>2 DEF FreeSet
  <2> QED
    BY <2>1, <2>2, <2>3
<1>4. PoolTypeOK'
  <2>1. free_head \in 0 .. Overwritten
    BY PoolSizeAssumption DEF PoolTypeOK, Slots, nullptr, Overwritten
  <2>2. next' \in [Slots -> 0 .. Overwritten]
    BY <2>1 DEF Deallocate, PoolTypeOK
  <2> QED
    BY <1>1, <1>2, <2>2 DEF Deallocate, PoolTypeOK, Slots, nullptr, Overwritten
<1>5. FreeListInv'
  <2>1. free_list' # <<>> /\ free_head' = free_list'[1]
    BY <1>1, <1>2 DEF Deallocate
  <2>2. next'[free_list'[1]] = IF 1 = n + 1 THEN nullptr ELSE free_list'[2]
    <3>1. next'[s] = free_head
      BY <1>1 DEF Deallocate, PoolTypeOK
    <3>2. n = 0 => free_head = nullptr
      BY <1>1, EmptySeq DEF FreeListInv
    <3>3. n # 0 => free_head = free_list[1] /\ free_list'[2] = free_list[1]
      BY <1>1, <1>2 DEF FreeListInv
    <3> QED
      BY <1>1, <1>2, <3>1, <3>2, <3>3
  <2>3. ASSUME NEW i \in 1 .. n
        PROVE  next'[free_list'[i + 1]] =
                 IF i + 1 = n + 1 THEN nullptr ELSE free_list'[i + 1 + 1]
    <3>1. free_list[i] # s /\ free_list[i] \in Slots
      BY <1>1, ElementOfSeq DEF FreeSet
    <3>2. next'[free_list[i]] = next[free_list[i]]
      BY <3>1 DEF Deallocate, PoolTypeOK
    <3>3. next[free_list[i]] = IF i = n THEN nullptr ELSE free_list[i + 1]
      BY DEF FreeListInv
    <3>4. i # n => free_list'[i + 1 + 1] = free_list[i + 1]
      BY <1>1, <1>2
    <3>5. i = n <=> i + 1 = n + 1
      BY <1>1
    <3> QED
      BY <1>2, <3>2, <3>3, <3>4, <3>5
  <2>4. ASSUME NEW i \in 1 .. n + 1
        PROVE  next'[free_list'[i]] =
                 IF i = n + 1 THEN nullptr ELSE free_list'[i + 1]
    <3>1. CASE i = 1
      BY <2>2, <3>1
    <3>2. CASE i # 1
      <4>1. PICK k \in 1 .. n : i = k + 1
        BY <1>1, <3>2, Predecessor
      <4>2. next'[free_list'[k + 1]] =
              IF k + 1 = n + 1 THEN nullptr ELSE free_list'[k + 1 + 1]
        BY <2>3, <4>1
      <4> QED
        BY <4>1, <4>2
    <3> QED
      BY <3>1, <3>2
  <2>5. ASSUME NEW i \in 1 .. n + 1, NEW j \in 1 .. n + 1, i < j
        PROVE  free_list'[i] # free_list'[j]
    <3>1. PICK k \in 1 .. n : j = k + 1
      <4>1. j # 1
        BY <1>1, <2>5
      <4> QED
        BY <1>1, <4>1, Predecessor
    <3>2. free_list'[j] = free_list[k]
      BY <1>2, <3>1
    <3>3. CASE i = 1
      <4>1. free_list[k] # s
        BY <1>1 DEF FreeSet
      <4> QED
        BY <1>2, <3>2, <3>3, <4>1
    <3>4. CASE i # 1
      <4>1. PICK m \in 1 .. n : i = m + 1
        BY <1>1, <3>4, Predecessor
      <4>2. free_list'[i] = free_list[m]
        BY <1>2, <4>1
      <4>3. m # k
        BY <2>5, <3>1, <4>1
      <4>4. free_list[m] # free_list[k]
        BY <4>3 DEF FreeListInv
      <4> QED
        BY <3>2, <4>2, <4>4
    <3> QED
      BY <3>3, <3>4
  <2>6. \A i, j \in 1 .. n + 1 : i # j => free_list'[i] # free_list'[j]
    <3>1. \A i, j \in 1 .. n + 1 : i # j => i < j \/ j < i
      BY <1>1
    <3> QED
      BY <2>5, <3>1
  <2>7. live' = Slots \ FreeSet'
    BY <1>3 DEF Deallocate, FreeListInv, FreeSet
  <2> QED
    BY <1>2, <2>1, <2>4, <2>6, <2>7 DEF FreeListInv, FreeSet, Slots, nullptr
<1> QED
  BY <1>4, <1>5
-----------------------------------------------------------------------------
(* Every step of the pool keeps it sound.                                  *)
LEMMA StepPool == PoolTypeOK /\ FreeListInv /\ [Next]_poolVars
                    => PoolTypeOK' /\ FreeListInv'
<1> SUFFICES ASSUME PoolTypeOK, FreeListInv, [Next]_poolVars
             PROVE  PoolTypeOK' /\ FreeListInv'
  OBVIOUS
<1>1. CASE \E s \in Slots : Allocate(s)
  BY <1>1, AllocatePool
<1>2. CASE \E s \in live : Deallocate(s)
  BY <1>2, DeallocatePool
<1>3. CASE UNCHANGED poolVars
  BY <1>3 DEF poolVars, PoolTypeOK, FreeListInv, Slots, nullptr, Overwritten
<1> QED
  BY <1>1, <1>2, <1>3 DEF Next, AllocateFails

(* Every pool variable stays in its type, for every Size.                  *)
THEOREM PoolTypeCorrect == Spec => []PoolTypeOK
  BY InitPool, StepPool, PTL DEF Spec

(* The pointer chain from free_head always visits exactly the slots no     *)
(* caller holds, each once: none is lost and none can be given out twice.  *)
THEOREM FreeListCorrect == Spec => []FreeListInv
  BY InitPool, StepPool, PTL DEF Spec

(* full() is true exactly when all Size slots are held.                    *)
THEOREM FullCorrect == Spec => []FullMeansAllLive
<1>1. PoolTypeOK /\ FreeListInv => FullMeansAllLive
  <2> SUFFICES ASSUME PoolTypeOK, FreeListInv PROVE full <=> live = Slots
    BY DEF FullMeansAllLive
  <2>1. free_list \in Seq(Slots) /\ Len(free_list) \in Nat
    BY LenProperties DEF PoolTypeOK
  <2>2. CASE free_list = <<>>
    BY <2>2, EmptySeq DEF full, FreeListInv
  <2>3. CASE free_list # <<>>
    <3>1. Len(free_list) >= 1 /\ free_list[1] \in Slots
      BY <2>1, <2>3, EmptySeq, ElementOfSeq
    <3>2. free_list[1] \notin live
      BY <3>1, <2>1 DEF FreeListInv
    <3>3. free_head # nullptr
      BY <2>3, <3>1, PoolSizeAssumption DEF FreeListInv, Slots, nullptr
    <3> QED
      BY <3>1, <3>2, <3>3 DEF full
  <2> QED
    BY <2>2, <2>3
<1> QED
  BY <1>1, PoolTypeCorrect, FreeListCorrect, PTL

(* allocate() never hands out a slot that a caller still holds.            *)
THEOREM AllocateFresh == Spec => NoDoubleAllocation
<1>1. PoolTypeOK /\ FreeListInv => (\A s \in live : ~Allocate(s))
  BY AllocatePool DEF PoolTypeOK
<1> QED
  BY <1>1, PoolTypeCorrect, FreeListCorrect, PTL DEF Spec, NoDoubleAllocation
=============================================================================

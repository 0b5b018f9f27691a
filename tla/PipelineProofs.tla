--------------------------- MODULE PipelineProofs ---------------------------
(***************************************************************************)
(* Proofs about Pipeline for every set of clients, every queue size and    *)
(* every number of pieces a send is cut into.  The invariant says which    *)
(* thread holds submission_mutex, what the completion in the reader's      *)
(* hands can be, that a client has at most one recv outstanding and is     *)
(* without one only when it was cut off, and that what clients are owed is *)
(* on its way.  The pieces on their way are sums over the completion queue *)
(* and over the submitted sends; the first section is about such sums.     *)
(***************************************************************************)
EXTENDS Pipeline, SequenceTheorems, FiniteSetTheorems, NaturalsInduction,
        WellFoundedInduction, TLAPS

(* What the reader can find in the completion ring.                        *)
Completion ==
         [type : {"Accept"}, fd : Clients, res : {"ok"}]
    \cup [type : {"Accept"}, fd : {NoClient}, res : {"error"}]
    \cup [type : {"Read"}, fd : Clients, res : {"data", "end"}]
    \cup [type : {"Write"}, fd : Clients, res : {"short"}, left : 1 .. PARTS]
    \cup [type : {"Write"}, fd : Clients, res : {"all", "error"}, left : {0}]

StateInv ==
    /\ incoming_queue \in Seq(Clients) /\ Len(incoming_queue) <= QUEUE_SIZE
    /\ outgoing_queue \in Seq(Clients) /\ Len(outgoing_queue) <= QUEUE_SIZE
    /\ answers \in Seq(Clients)
    /\ engine \in {"dequeue", "publish"}
    /\ engine = "publish" => answers # <<>>
    /\ accepting \in BOOLEAN
    /\ reading \subseteq Clients
    /\ sending \in [Clients -> [1 .. PARTS -> Nat]]
    /\ cq \in Seq(Completion)
    /\ connected \subseteq Clients /\ lost \subseteq Clients

(* Who holds submission_mutex, and what the two threads have in hand.      *)
ThreadInv ==
    /\ submission_mutex \in {"free", "reader", "writer"}
    /\ reader \in {"wait", "lock", "handle", "enqueue", "relock", "rearm"}
    /\ writer \in {"dequeue", "lock", "submit"}
    /\ submission_mutex = "reader" <=> reader \in {"handle", "rearm"}
    /\ submission_mutex = "writer" <=> writer = "submit"
    /\ reader \in {"wait", "lock"} => cqe = NoCqe
    /\ reader = "lock" => cq # <<>>
    /\ reader \notin {"wait", "lock"} => cqe \in Completion
    /\ reader \in {"enqueue", "relock", "rearm"} =>
          cqe.type = "Read" /\ cqe.res = "data"
    /\ writer = "dequeue" => msg = NoClient
    /\ writer # "dequeue" => msg \in Clients

(* Where a client's recv can be: completed and in the ring, or with the    *)
(* reader (the accept of a client stands for its first recv).              *)
IsRecv(e, c) == e.type \in {"Read", "Accept"} /\ e.fd = c
Recvs(c) == {i \in 1 .. Len(cq) : IsRecv(cq[i], c)}
IsEnd(e) == e.type = "Read" /\ e.res = "end"

RecvInv ==
    /\ \A c \in Clients :
         /\ c \in reading => Recvs(c) = {} /\ ~IsRecv(cqe, c)
         /\ IsRecv(cqe, c) => Recvs(c) = {}
         /\ \A i, j \in Recvs(c) : i = j
         /\ c \in reading \/ IsRecv(cqe, c) \/ Recvs(c) # {} => c \in connected
         /\ c \in connected \ lost =>
              c \in reading \/ IsRecv(cqe, c) \/ Recvs(c) # {}
    /\ \A i \in 1 .. Len(cq) : IsEnd(cq[i]) => cq[i].fd \in lost
    /\ IsEnd(cqe) => cqe.fd \in lost

RingInv == StateInv /\ ThreadInv /\ RecvInv

(* The pieces on their way, with each sum a function's total.              *)
Total(v, n) == LET sum[i \in 0 .. n] == IF i = 0 THEN 0 ELSE v[i] + sum[i - 1]
               IN sum[n]

LeftOf(e, c) == IF e.type = "Write" /\ e.fd = c THEN e.left ELSE 0
KernelPieces(c) == [n \in 1 .. PARTS |-> n * sending[c][n]]
DonePieces(c) == [i \in 1 .. Len(cq) |-> LeftOf(cq[i], c)]
QueuedFor(c) == {i \in 1 .. Len(outgoing_queue) : outgoing_queue[i] = c}
Waiting(c) == Cardinality(QueuedFor(c)) + (IF msg = c THEN 1 ELSE 0)
Pieces(c) == PARTS * Waiting(c) + Total(KernelPieces(c), PARTS)
             + Total(DonePieces(c), Len(cq)) + LeftOf(cqe, c)

(* Nothing is owed that is not on its way, unless the client is cut off,   *)
(* and never is less owed than is on its way.                              *)
OwedInv == /\ owed \in [Clients -> Nat]
           /\ \A c \in Clients : /\ Pieces(c) <= owed[c]
                                 /\ c \notin lost => Pieces(c) = owed[c]

IndInv == RingInv /\ OwedInv
-----------------------------------------------------------------------------
(* Induction on naturals, as the least counterexample: a set of naturals   *)
(* that has 0 and with every number the next one has them all.             *)
LEMMA AllOf ==
    ASSUME NEW T, 0 \in T, \A n \in Nat : n \in T => n + 1 \in T
    PROVE  Nat \subseteq T
<1> DEFINE R == {ss \in Nat \X Nat : ss[1] < ss[2]}
           D == Nat \ T
<1>1. IsWellFoundedOn(R, Nat)
  BY NatLessThanWellFounded DEF OpToRel
<1>2. \A x, y \in Nat : <<y, x>> \in R <=> y < x
  OBVIOUS
<1> SUFFICES ASSUME D # {} PROVE FALSE
  OBVIOUS
<1> HIDE DEF R
<1>3. PICK x \in D : \A y \in D : ~(<<y, x>> \in R)
  BY <1>1, WFMin
<1>4. x \in Nat /\ x # 0 /\ x - 1 \in Nat
  OBVIOUS
<1>5. PICK y \in Nat : y = x - 1 /\ y < x /\ y + 1 = x
  BY <1>4
<1>6. y \in T
  BY <1>2, <1>3, <1>4, <1>5
<1> QED
  BY <1>5, <1>6

IsSum(v, n, s) == s = [i \in 0 .. n |-> IF i = 0 THEN 0 ELSE v[i] + s[i - 1]]

(* The recursive function of a Total exists.                               *)
LEMMA SumExists ==
    ASSUME NEW v, NEW n \in Nat
    PROVE  \E s : IsSum(v, n, s)
<1> DEFINE T == {m \in Nat : \E s : IsSum(v, m, s)}
<1>1. 0 \in T
  <2>1. IsSum(v, 0, [i \in 0 .. 0 |-> 0])
    BY DEF IsSum
  <2> QED
    BY <2>1
<1>2. ASSUME NEW m \in Nat, m \in T PROVE m + 1 \in T
  <2>1. PICK s : IsSum(v, m, s)
    BY <1>2
  <2> DEFINE t == [i \in 0 .. m + 1 |-> IF i = m + 1 THEN v[i] + s[m] ELSE s[i]]
  <2>2. ASSUME NEW i \in 0 .. m + 1
        PROVE  t[i] = IF i = 0 THEN 0 ELSE v[i] + t[i - 1]
    <3>1. \A j \in 0 .. m : s[j] = IF j = 0 THEN 0 ELSE v[j] + s[j - 1]
      BY <2>1 DEF IsSum
    <3>2. CASE i = m + 1
      <4>1. t[i] = v[i] + s[m] /\ t[m] = s[m]
        BY <3>2
      <4> QED
        BY <3>2, <4>1
    <3>3. CASE i # m + 1 /\ i # 0
      <4>1. i \in 0 .. m /\ i - 1 \in 0 .. m /\ t[i] = s[i] /\ t[i - 1] = s[i - 1]
        BY <3>3
      <4> QED
        BY <3>1, <3>3, <4>1
    <3>4. CASE i = 0
      BY <3>1, <3>4
    <3> QED
      BY <3>2, <3>3, <3>4
  <2>3. t = [i \in 0 .. m + 1 |-> IF i = 0 THEN 0 ELSE v[i] + t[i - 1]]
    BY <2>2
  <2>4. IsSum(v, m + 1, t)
    BY <2>3 DEF IsSum
  <2> QED
    BY <2>4
<1> HIDE DEF T
<1>3. n \in T
  BY <1>1, <1>2, AllOf
<1> QED
  BY <1>3 DEF T

(* Two sums of the same function agree as far as they both go.             *)
LEMMA SumsAgree ==
    ASSUME NEW v, NEW n \in Nat, NEW m \in Nat, NEW s, NEW t,
           IsSum(v, n, s), IsSum(v, m, t), m <= n
    PROVE  s[m] = t[m]
<1> DEFINE T == {k \in Nat : k <= m => s[k] = t[k]}
<1>1. /\ \A k \in 0 .. n : s[k] = IF k = 0 THEN 0 ELSE v[k] + s[k - 1]
      /\ \A k \in 0 .. m : t[k] = IF k = 0 THEN 0 ELSE v[k] + t[k - 1]
  BY DEF IsSum
<1>2. 0 \in T
  BY <1>1
<1>3. ASSUME NEW k \in Nat, k \in T PROVE k + 1 \in T
  <2> SUFFICES ASSUME k + 1 <= m PROVE s[k + 1] = t[k + 1]
    OBVIOUS
  <2>1. s[k] = t[k] /\ k + 1 \in 0 .. m /\ k + 1 \in 0 .. n /\ (k + 1) - 1 = k
    BY <1>3
  <2> QED
    BY <1>1, <2>1
<1> HIDE DEF T
<1>4. m \in T
  BY <1>2, <1>3, AllOf
<1> QED
  BY <1>4 DEF T

(* The recursive function that Total uses is one such sum.                 *)
LEMMA TotalIs ==
    ASSUME NEW v, NEW n \in Nat
    PROVE  \E s : IsSum(v, n, s) /\ Total(v, n) = s[n]
<1>1. PICK s : s = CHOOSE t : IsSum(v, n, t)
  OBVIOUS
<1>2. IsSum(v, n, s)
  BY <1>1, SumExists
<1>3. Total(v, n) = s[n]
  BY <1>1 DEF Total, IsSum
<1> QED
  BY <1>2, <1>3

(* A Total is computed from left to right.                                 *)
LEMMA TotalStep ==
    ASSUME NEW v
    PROVE  /\ Total(v, 0) = 0
           /\ \A n \in Nat : Total(v, n + 1) = v[n + 1] + Total(v, n)
<1>1. Total(v, 0) = 0
  <2>1. PICK s : IsSum(v, 0, s) /\ Total(v, 0) = s[0]
    BY TotalIs
  <2> QED
    BY <2>1 DEF IsSum
<1>2. ASSUME NEW n \in Nat PROVE Total(v, n + 1) = v[n + 1] + Total(v, n)
  <2>1. PICK s : IsSum(v, n + 1, s) /\ Total(v, n + 1) = s[n + 1]
    BY TotalIs
  <2>2. PICK t : IsSum(v, n, t) /\ Total(v, n) = t[n]
    BY TotalIs
  <2>3. s[n] = t[n]
    BY <2>1, <2>2, SumsAgree
  <2>4. n + 1 \in 0 .. n + 1 /\ n + 1 # 0 /\ (n + 1) - 1 = n
    OBVIOUS
  <2>5. s[n + 1] = v[n + 1] + s[n]
    BY <2>1, <2>4 DEF IsSum
  <2> QED
    BY <2>1, <2>2, <2>3, <2>5
<1> QED
  BY <1>1, <1>2

(* Totals of naturals are naturals.                                        *)
LEMMA TotalType ==
    ASSUME NEW n \in Nat, NEW v, \A i \in 1 .. n : v[i] \in Nat
    PROVE  Total(v, n) \in Nat
<1> DEFINE T == {m \in Nat : m <= n => Total(v, m) \in Nat}
<1>1. 0 \in T
  BY TotalStep
<1>2. ASSUME NEW m \in Nat, m \in T PROVE m + 1 \in T
  <2> SUFFICES ASSUME m + 1 <= n PROVE Total(v, m + 1) \in Nat
    OBVIOUS
  <2>1. v[m + 1] \in Nat /\ Total(v, m) \in Nat
    BY <1>2
  <2> QED
    BY <2>1, TotalStep
<1> HIDE DEF T
<1>3. n \in T
  BY <1>1, <1>2, AllOf
<1> QED
  BY <1>3 DEF T

(* Only the summed values matter.                                          *)
LEMMA TotalSame ==
    ASSUME NEW n \in Nat, NEW v, NEW w, \A i \in 1 .. n : v[i] = w[i]
    PROVE  Total(v, n) = Total(w, n)
<1> DEFINE T == {m \in Nat : m <= n => Total(v, m) = Total(w, m)}
<1>1. 0 \in T
  BY TotalStep
<1>2. ASSUME NEW m \in Nat, m \in T PROVE m + 1 \in T
  <2> SUFFICES ASSUME m + 1 <= n PROVE Total(v, m + 1) = Total(w, m + 1)
    OBVIOUS
  <2>1. v[m + 1] = w[m + 1] /\ Total(v, m) = Total(w, m)
    BY <1>2
  <2> QED
    BY <2>1, TotalStep
<1> HIDE DEF T
<1>3. n \in T
  BY <1>1, <1>2, AllOf
<1> QED
  BY <1>3 DEF T

(* One value that changes by d changes the total by d.                     *)
LEMMA TotalChanged ==
    ASSUME NEW n \in Nat, NEW v, NEW w, NEW k \in 1 .. n, NEW d \in Int,
           \A i \in 1 .. n : v[i] \in Nat,
           \A i \in 1 .. n : w[i] = IF i = k THEN v[i] + d ELSE v[i]
    PROVE  Total(w, n) = Total(v, n) + d
<1> DEFINE T == {m \in Nat : m <= n => Total(w, m) = Total(v, m)
                                                   + (IF m < k THEN 0 ELSE d)}
<1>1. 0 \in T
  BY TotalStep
<1>2. ASSUME NEW m \in Nat, m \in T PROVE m + 1 \in T
  <2> SUFFICES ASSUME m + 1 <= n
               PROVE  Total(w, m + 1) = Total(v, m + 1)
                                        + (IF m + 1 < k THEN 0 ELSE d)
    OBVIOUS
  <2>1. /\ v[m + 1] \in Nat /\ w[m + 1] = IF m + 1 = k THEN v[m + 1] + d ELSE v[m + 1]
        /\ Total(w, m) = Total(v, m) + (IF m < k THEN 0 ELSE d)
    BY <1>2
  <2>2. /\ Total(v, m + 1) = v[m + 1] + Total(v, m)
        /\ Total(w, m + 1) = w[m + 1] + Total(w, m)
    BY TotalStep
  <2>3. Total(v, m) \in Nat
    BY TotalType
  <2> QED
    BY <2>1, <2>2, <2>3
<1> HIDE DEF T
<1>3. n \in T
  BY <1>1, <1>2, AllOf
<1>4. Total(v, n) \in Nat
  BY TotalType
<1> QED
  BY <1>3, <1>4 DEF T

(* The first value and the total of the others.                            *)
LEMMA TotalFirst ==
    ASSUME NEW n \in Nat, NEW v, NEW w, \A i \in 1 .. n + 1 : v[i] \in Nat,
           \A i \in 1 .. n : w[i] = v[i + 1]
    PROVE  Total(v, n + 1) = v[1] + Total(w, n)
<1> DEFINE T == {m \in Nat : m <= n => Total(v, m + 1) = v[1] + Total(w, m)}
<1>1. 0 \in T
  <2>1. Total(v, 0 + 1) = v[0 + 1] + Total(v, 0) /\ Total(v, 0) = 0 /\ Total(w, 0) = 0
    BY TotalStep
  <2>2. v[1] \in Nat /\ 0 + 1 = 1
    OBVIOUS
  <2> QED
    BY <2>1, <2>2
<1>2. ASSUME NEW m \in Nat, m \in T PROVE m + 1 \in T
  <2> SUFFICES ASSUME m + 1 <= n
               PROVE  Total(v, (m + 1) + 1) = v[1] + Total(w, m + 1)
    OBVIOUS
  <2>1. /\ w[m + 1] = v[(m + 1) + 1] /\ v[(m + 1) + 1] \in Nat /\ v[1] \in Nat
        /\ Total(v, m + 1) = v[1] + Total(w, m)
    BY <1>2
  <2>2. /\ Total(v, (m + 1) + 1) = v[(m + 1) + 1] + Total(v, m + 1)
        /\ Total(w, m + 1) = w[m + 1] + Total(w, m)
    BY TotalStep
  <2>3. Total(w, m) \in Nat
    BY TotalType
  <2> QED
    BY <2>1, <2>2, <2>3
<1> HIDE DEF T
<1>3. n \in T
  BY <1>1, <1>2, AllOf
<1> QED
  BY <1>3 DEF T

(* A Pieces is a PiecesOf: the same sums.                                  *)
LEMMA PiecesIs ==
    ASSUME StateInv, NEW c \in Clients
    PROVE  PiecesOf(c) = Pieces(c)
<1>1. Len(cq) \in Nat /\ PARTS \in Nat
  BY PipelineAssumption, LenProperties DEF StateInv
<1> DEFINE a == CHOOSE s : s = [n \in 0 .. PARTS |->
                  IF n = 0 THEN 0 ELSE n * sending[c][n] + s[n - 1]]
           d == CHOOSE s : s = [i \in 0 .. Len(cq) |->
                  IF i = 0 THEN 0 ELSE LeftOf(cq[i], c) + s[i - 1]]
<1>2. PiecesOf(c) = PARTS * Waiting(c) + a[PARTS] + d[Len(cq)] + LeftOf(cqe, c)
  BY DEF PiecesOf, Waiting, QueuedFor, LeftOf
<1>3. PICK s : IsSum(KernelPieces(c), PARTS, s) /\ Total(KernelPieces(c), PARTS) = s[PARTS]
  BY <1>1, TotalIs
<1>4. PICK t : IsSum(DonePieces(c), Len(cq), t)
               /\ Total(DonePieces(c), Len(cq)) = t[Len(cq)]
  BY <1>1, TotalIs
<1>5. a[PARTS] = s[PARTS]
  <2>1. \A r : r = [n \in 0 .. PARTS |-> IF n = 0 THEN 0 ELSE n * sending[c][n] + r[n - 1]]
                 <=> IsSum(KernelPieces(c), PARTS, r)
    <3>1. \A n \in 0 .. PARTS : n # 0 => n \in 1 .. PARTS
      BY <1>1
    <3> QED
      BY <3>1 DEF IsSum, KernelPieces
  <2>2. IsSum(KernelPieces(c), PARTS, a)
    BY <1>3, <2>1
  <2> HIDE DEF a
  <2> QED
    BY <1>1, <1>3, <2>2, SumsAgree
<1>6. d[Len(cq)] = t[Len(cq)]
  <2>1. \A r : r = [i \in 0 .. Len(cq) |-> IF i = 0 THEN 0 ELSE LeftOf(cq[i], c) + r[i - 1]]
                 <=> IsSum(DonePieces(c), Len(cq), r)
    <3>1. \A i \in 0 .. Len(cq) : i # 0 => i \in 1 .. Len(cq)
      BY <1>1
    <3> QED
      BY <3>1 DEF IsSum, DonePieces
  <2>2. IsSum(DonePieces(c), Len(cq), d)
    BY <1>4, <2>1
  <2> HIDE DEF d
  <2> QED
    BY <1>1, <1>4, <2>2, SumsAgree
<1> QED
  BY <1>2, <1>3, <1>4, <1>5, <1>6 DEF Pieces
-----------------------------------------------------------------------------
(* What a completion can say.                                              *)
LEMMA CompletionIs ==
    ASSUME NEW e \in Completion
    PROVE  /\ e.type \in {"Accept", "Read", "Write"} /\ e # NoCqe
           /\ e.type = "Accept" => \/ e.res = "ok" /\ e.fd \in Clients
                                   \/ e.res # "ok" /\ e.fd = NoClient
           /\ e.type = "Read" => e.fd \in Clients /\ e.res \in {"data", "end"}
           /\ e.type = "Write" =>
                /\ e.fd \in Clients
                /\ \/ e.res = "short" /\ e.left \in 1 .. PARTS
                   \/ e.res # "short" /\ e.left = 0
<1>1. NoCqe.type = "none"
  BY DEF NoCqe
<1> QED
  BY <1>1 DEF Completion

(* The kernel adds a completion to the ring.                               *)
LEMMA CompleteIs ==
    ASSUME StateInv, NEW e \in Completion, Complete(e)
    PROVE  /\ cq' \in Seq(Completion) /\ cq' # <<>> /\ Len(cq') = Len(cq) + 1
           /\ \A i \in 1 .. Len(cq) : cq'[i] = cq[i]
           /\ cq'[Len(cq) + 1] = e
           /\ \A c : Recvs(c)' = Recvs(c) \cup
                                  (IF IsRecv(e, c) THEN {Len(cq) + 1} ELSE {})
<1>1. cq \in Seq(Completion) /\ cq' = Append(cq, e) /\ Len(cq) \in Nat
  BY DEF StateInv, Complete
<1>2. /\ cq' \in Seq(Completion) /\ Len(cq') = Len(cq) + 1
      /\ \A i \in 1 .. Len(cq) : cq'[i] = cq[i]
      /\ cq'[Len(cq) + 1] = e
  BY <1>1, AppendProperties
<1>3. 1 .. Len(cq') = (1 .. Len(cq)) \cup {Len(cq) + 1}
  BY <1>1, <1>2
<1>4. ASSUME NEW c
      PROVE  Recvs(c)' = Recvs(c) \cup (IF IsRecv(e, c) THEN {Len(cq) + 1} ELSE {})
  BY <1>2, <1>3 DEF Recvs
<1>5. cq' # <<>>
  BY <1>1, <1>2
<1> QED
  BY <1>2, <1>4, <1>5

(* The reader takes the oldest completion from the ring.                   *)
LEMMA TakeIs ==
    ASSUME StateInv, cq # <<>>, cq' = Tail(cq)
    PROVE  /\ Head(cq) = cq[1] /\ cq[1] \in Completion
           /\ cq' \in Seq(Completion) /\ Len(cq) \in Nat /\ Len(cq) > 0
           /\ Len(cq') = Len(cq) - 1
           /\ \A i \in 1 .. Len(cq) - 1 : cq'[i] = cq[i + 1]
           /\ \A c : Recvs(c)' = {i \in 1 .. Len(cq) - 1 : i + 1 \in Recvs(c)}
<1>1. cq \in Seq(Completion) /\ Len(cq) \in Nat /\ Len(cq) > 0
  BY DEF StateInv
<1>2. /\ Head(cq) = cq[1] /\ cq[1] \in Completion
      /\ cq' \in Seq(Completion) /\ Len(cq') = Len(cq) - 1
      /\ \A i \in 1 .. Len(cq) - 1 : cq'[i] = cq[i + 1]
  BY <1>1, HeadTailProperties
<1>3. \A i \in 1 .. Len(cq) - 1 : i + 1 \in 1 .. Len(cq)
  BY <1>1
<1> QED
  BY <1>1, <1>2, <1>3 DEF Recvs

(* A step that leaves the recvs where they are.                            *)
LEMMA RecvKept ==
    ASSUME RecvInv, UNCHANGED <<cq, cqe, reading, connected, lost>>
    PROVE  RecvInv'
  BY DEF RecvInv, Recvs, IsRecv, IsEnd

(* The initial state.                                                      *)
LEMMA StartRing == Init => RingInv
<1> SUFFICES ASSUME Init PROVE RingInv
  OBVIOUS
<1>1. StateInv
  <2>1. sending \in [Clients -> [1 .. PARTS -> Nat]]
    BY DEF Init
  <2>2. <<>> \in Seq(Clients) /\ <<>> \in Seq(Completion) /\ Len(<<>>) = 0
    OBVIOUS
  <2> QED
    BY <2>1, <2>2, PipelineAssumption DEF Init, StateInv
<1>2. ThreadInv
  BY DEF Init, ThreadInv
<1>3. RecvInv
  <2>1. \A c : Recvs(c) = {} /\ ~IsRecv(cqe, c)
    BY DEF Init, Recvs, IsRecv, NoCqe
  <2>2. ~IsEnd(cqe) /\ 1 .. Len(cq) = {}
    BY DEF Init, IsEnd, NoCqe
  <2> QED
    BY <2>1, <2>2 DEF Init, RecvInv
<1> QED
  BY <1>1, <1>2, <1>3 DEF RingInv

(* The reader waits for a completion and takes it.                         *)
LEMMA WaitCqeRing ==
    ASSUME RingInv, WaitCqe
    PROVE  RingInv'
<1>1. RecvInv'
  BY RecvKept DEF RingInv, WaitCqe, ringVars, clientVars
<1> QED
  BY <1>1 DEF RingInv, WaitCqe, StateInv, ThreadInv, queueVars, ringVars, clientVars

(* A completion that is taken moves from the ring to the reader.           *)
LEMMA LockAndTakeRing ==
    ASSUME RingInv, LockAndTake
    PROVE  RingInv'
<1>1. /\ StateInv /\ ThreadInv /\ RecvInv /\ cq # <<>> /\ cqe = NoCqe
      /\ cq' = Tail(cq) /\ cqe' = Head(cq)
  BY DEF RingInv, ThreadInv, LockAndTake
<1>2. /\ cqe' = cq[1] /\ cqe' \in Completion /\ cq' \in Seq(Completion)
      /\ Len(cq) \in Nat /\ Len(cq) > 0 /\ Len(cq') = Len(cq) - 1
      /\ \A i \in 1 .. Len(cq) - 1 : cq'[i] = cq[i + 1]
      /\ \A c : Recvs(c)' = {i \in 1 .. Len(cq) - 1 : i + 1 \in Recvs(c)}
  BY <1>1, TakeIs
<1>3. StateInv'
  BY <1>1, <1>2 DEF StateInv, LockAndTake, queueVars, clientVars
<1>4. ThreadInv'
  BY <1>1, <1>2 DEF ThreadInv, LockAndTake
<1>5. RecvInv'
  <2>1. UNCHANGED <<reading, connected, lost>>
    BY DEF LockAndTake, clientVars
  <2>2. \A c : IsRecv(cqe', c) <=> 1 \in Recvs(c)
    BY <1>2 DEF Recvs, IsRecv
  <2>3. \A c : ~IsRecv(cqe, c)
    BY <1>1 DEF IsRecv, NoCqe
  <2>4. \A c : Recvs(c) # {} <=> (1 \in Recvs(c) \/ Recvs(c)' # {})
    <3>1. ASSUME NEW c, NEW i \in Recvs(c), i # 1 PROVE i - 1 \in Recvs(c)'
      BY <1>2, <3>1 DEF Recvs
    <3>2. \A c : \A i \in Recvs(c)' : i + 1 \in Recvs(c)
      BY <1>2
    <3> QED
      BY <3>1, <3>2
  <2>5. ASSUME NEW c \in Clients
        PROVE  /\ c \in reading' => Recvs(c)' = {} /\ ~IsRecv(cqe', c)
               /\ IsRecv(cqe', c) => Recvs(c)' = {}
               /\ \A i, j \in Recvs(c)' : i = j
               /\ c \in reading' \/ IsRecv(cqe', c) \/ Recvs(c)' # {} => c \in connected'
               /\ c \in connected' \ lost' =>
                    c \in reading' \/ IsRecv(cqe', c) \/ Recvs(c)' # {}
    <3>1. /\ c \in reading => Recvs(c) = {}
          /\ \A i, j \in Recvs(c) : i = j
          /\ c \in reading \/ Recvs(c) # {} => c \in connected
          /\ c \in connected \ lost => c \in reading \/ Recvs(c) # {}
      BY <1>1, <2>3 DEF RecvInv
    <3>2. \A i \in Recvs(c)' : i \in Nat /\ i > 0 /\ i + 1 \in Recvs(c)
      BY <1>2
    <3>3. 1 \in Recvs(c) => Recvs(c)' = {}
      BY <3>1, <3>2
    <3>4. \A i, j \in Recvs(c)' : i = j
      BY <3>1, <3>2
    <3> QED
      BY <2>1, <2>2, <2>4, <3>1, <3>3, <3>4
  <2>6. \A i \in 1 .. Len(cq') : IsEnd(cq'[i]) => cq'[i].fd \in lost
    BY <1>1, <1>2 DEF RecvInv
  <2>7. IsEnd(cqe') => cqe'.fd \in lost
    BY <1>1, <1>2 DEF RecvInv
  <2> QED
    BY <2>1, <2>5, <2>6, <2>7 DEF RecvInv, IsRecv, IsEnd
<1> QED
  BY <1>3, <1>4, <1>5 DEF RingInv

(* The reader is done with a completion: the client it was about, if it    *)
(* was a recv, is read again or was cut off.                               *)
LEMMA ReaderDoneRing ==
    ASSUME RingInv, reader \in {"handle", "rearm"}, ReaderDone,
           reading \subseteq reading', accepting' \in BOOLEAN,
           sending' \in [Clients -> [1 .. PARTS -> Nat]],
           \A c \in reading' : c \in reading \/ (c \in Clients /\ IsRecv(cqe, c)),
           \A c \in Clients : IsRecv(cqe, c) => c \in reading' \/ c \in lost
    PROVE  RingInv'
<1>1. StateInv /\ ThreadInv /\ RecvInv
  BY DEF RingInv
<1>2. /\ submission_mutex' = "free" /\ cqe' = NoCqe /\ reader' = "wait"
      /\ UNCHANGED <<incoming_queue, outgoing_queue, engine, answers, writer, msg, cq,
                     connected, lost>>
  BY DEF ReaderDone, queueVars, clientVars
<1>3. StateInv'
  <2>1. reading' \subseteq Clients
    BY <1>1 DEF StateInv
  <2> QED
    BY <1>1, <1>2, <2>1 DEF StateInv
<1>4. ThreadInv'
  BY <1>1, <1>2 DEF ThreadInv
<1>5. RecvInv'
  <2>1. \A c : Recvs(c)' = Recvs(c) /\ ~IsRecv(cqe', c)
    BY <1>2 DEF Recvs, IsRecv, NoCqe
  <2>2. ~IsEnd(cqe')
    BY <1>2 DEF IsEnd, NoCqe
  <2>3. ASSUME NEW c \in Clients
        PROVE  /\ c \in reading' => Recvs(c) = {}
               /\ \A i, j \in Recvs(c) : i = j
               /\ c \in reading' \/ Recvs(c) # {} => c \in connected
               /\ c \in connected \ lost => c \in reading' \/ Recvs(c) # {}
    BY <1>1 DEF RecvInv
  <2>4. \A i \in 1 .. Len(cq) : IsEnd(cq[i]) => cq[i].fd \in lost
    BY <1>1 DEF RecvInv
  <2> QED
    BY <1>2, <2>1, <2>2, <2>3, <2>4 DEF RecvInv, IsRecv, IsEnd
<1> QED
  BY <1>3, <1>4, <1>5 DEF RingInv

(* The count of one client's sends with n pieces to go is set.             *)
LEMMA SendingSet ==
    ASSUME sending \in [Clients -> [1 .. PARTS -> Nat]],
           NEW f \in Clients, NEW n \in 1 .. PARTS, NEW x \in Nat,
           sending' = [sending EXCEPT ![f][n] = x]
    PROVE  /\ sending' \in [Clients -> [1 .. PARTS -> Nat]]
           /\ \A c \in Clients : c # f => sending'[c] = sending[c]
           /\ \A m \in 1 .. PARTS :
                sending'[f][m] = IF m = n THEN x ELSE sending[f][m]
<1> DEFINE g == [sending[f] EXCEPT ![n] = x]
<1>1. g \in [1 .. PARTS -> Nat] /\ \A m \in 1 .. PARTS : g[m] = IF m = n THEN x ELSE sending[f][m]
  OBVIOUS
<1>2. sending' = [sending EXCEPT ![f] = g]
  OBVIOUS
<1> HIDE DEF g
<1> QED
  BY <1>1, <1>2

(* The other steps of the reader.                                          *)
LEMMA HandlesRing ==
    ASSUME RingInv, HandleAccept \/ HandleReadEnd \/ RearmRead \/ HandleWrite
    PROVE  RingInv'
<1>1. StateInv /\ ThreadInv /\ RecvInv
  BY DEF RingInv
<1>2. reader \in {"handle", "rearm"} /\ ReaderDone
  BY DEF HandleAccept, HandleReadEnd, RearmRead, HandleWrite
<1>3. cqe \in Completion
  BY <1>1, <1>2 DEF ThreadInv
<1>4. /\ accepting \in BOOLEAN /\ reading \subseteq Clients
      /\ sending \in [Clients -> [1 .. PARTS -> Nat]]
  BY <1>1 DEF StateInv
<1>5. CASE HandleAccept
  <2>1. /\ accepting' = TRUE /\ sending' = sending /\ cqe.type = "Accept"
        /\ reading' = IF cqe.res = "ok" THEN reading \cup {cqe.fd} ELSE reading
    BY <1>5 DEF HandleAccept
  <2>2. \/ cqe.res = "ok" /\ cqe.fd \in Clients
        \/ cqe.res # "ok" /\ cqe.fd = NoClient
    BY <1>3, <2>1, CompletionIs
  <2>3. IsRecv(cqe, cqe.fd) /\ \A c : IsRecv(cqe, c) => c = cqe.fd
    BY <2>1 DEF IsRecv
  <2> QED
    BY <1>2, <1>4, <2>1, <2>2, <2>3, ReaderDoneRing, PipelineAssumption
<1>6. CASE HandleReadEnd
  <2>1. /\ UNCHANGED <<accepting, reading, sending>>
        /\ cqe.type = "Read" /\ cqe.res # "data"
    BY <1>6 DEF HandleReadEnd
  <2>2. cqe.fd \in lost
    BY <1>1, <1>3, <2>1, CompletionIs DEF RecvInv, IsEnd
  <2>3. \A c : IsRecv(cqe, c) => c = cqe.fd
    BY DEF IsRecv
  <2> QED
    BY <1>2, <1>4, <2>1, <2>2, <2>3, ReaderDoneRing
<1>7. CASE RearmRead
  <2>1. /\ UNCHANGED <<accepting, sending>> /\ reading' = reading \cup {cqe.fd}
        /\ cqe.type = "Read"
    BY <1>1, <1>7 DEF RearmRead, ThreadInv
  <2>2. cqe.fd \in Clients
    BY <1>3, <2>1, CompletionIs
  <2>3. IsRecv(cqe, cqe.fd) /\ \A c : IsRecv(cqe, c) => c = cqe.fd
    BY <2>1 DEF IsRecv
  <2> QED
    BY <1>2, <1>4, <2>1, <2>2, <2>3, ReaderDoneRing
<1>8. CASE HandleWrite
  <2>1. /\ UNCHANGED <<accepting, reading>> /\ cqe.type = "Write"
        /\ sending' = IF cqe.res = "short"
                      THEN [sending EXCEPT ![cqe.fd][cqe.left] = @ + 1] ELSE sending
    BY <1>8 DEF HandleWrite
  <2>2. cqe.fd \in Clients /\ (cqe.res = "short" => cqe.left \in 1 .. PARTS)
    BY <1>3, <2>1, CompletionIs
  <2>3. sending' \in [Clients -> [1 .. PARTS -> Nat]]
    <3>1. CASE cqe.res = "short"
      <4>1. PICK f \in Clients, n \in 1 .. PARTS : f = cqe.fd /\ n = cqe.left
        BY <2>2, <3>1
      <4>2. PICK x \in Nat : x = sending[f][n] + 1
        <5>1. sending[f] \in [1 .. PARTS -> Nat]
          BY <1>4
        <5>2. sending[f][n] \in Nat
          BY <5>1
        <5> QED
          BY <5>2
      <4>3. sending' = [sending EXCEPT ![f][n] = x]
        <5>1. sending' = [sending EXCEPT ![f][n] = @ + 1]
          BY <2>1, <3>1, <4>1, Zenon
        <5> QED
          BY <4>2, <5>1
      <4> QED
        BY <1>4, <4>3, SendingSet
    <3>2. CASE cqe.res # "short"
      BY <1>4, <2>1, <3>2
    <3> QED
      BY <3>1, <3>2
  <2>4. \A c : ~IsRecv(cqe, c)
    BY <2>1 DEF IsRecv
  <2> QED
    BY <1>2, <1>4, <2>1, <2>3, <2>4, ReaderDoneRing
<1> QED
  BY <1>5, <1>6, <1>7, <1>8

(* Every step of the reader keeps the ring invariant.                      *)
LEMMA ReaderRing ==
    ASSUME RingInv, Reader
    PROVE  RingInv'
<1>1. StateInv /\ ThreadInv /\ RecvInv
  BY DEF RingInv
<1>2. CASE HandleRead
  <2>1. RecvInv'
    BY <1>1, <1>2, RecvKept DEF HandleRead, ringVars, clientVars
  <2>2. StateInv'
    BY <1>1, <1>2 DEF StateInv, HandleRead, queueVars, ringVars, clientVars
  <2>3. ThreadInv'
    BY <1>1, <1>2 DEF ThreadInv, HandleRead, ringVars
  <2> QED
    BY <2>1, <2>2, <2>3 DEF RingInv
<1>3. CASE EnqueueRequest
  <2>1. RecvInv'
    BY <1>1, <1>3, RecvKept DEF EnqueueRequest, ringVars, clientVars
  <2>2. cqe.fd \in Clients
    BY <1>1, <1>3, CompletionIs DEF ThreadInv, EnqueueRequest
  <2>3. incoming_queue' \in Seq(Clients) /\ Len(incoming_queue') <= QUEUE_SIZE
    <3>1. incoming_queue \in Seq(Clients) /\ incoming_queue' = Append(incoming_queue, cqe.fd)
          /\ Len(incoming_queue) < QUEUE_SIZE /\ QUEUE_SIZE \in Nat
      BY <1>1, <1>3, PipelineAssumption DEF StateInv, EnqueueRequest
    <3> QED
      BY <2>2, <3>1
  <2>4. StateInv'
    BY <1>1, <1>3, <2>3 DEF StateInv, EnqueueRequest, ringVars, clientVars
  <2>5. ThreadInv'
    BY <1>1, <1>3 DEF ThreadInv, EnqueueRequest, ringVars
  <2> QED
    BY <2>1, <2>4, <2>5 DEF RingInv
<1>4. CASE Relock
  <2>1. RecvInv'
    BY <1>1, <1>4, RecvKept DEF Relock, ringVars, clientVars
  <2>2. StateInv'
    BY <1>1, <1>4 DEF StateInv, Relock, queueVars, ringVars, clientVars
  <2>3. ThreadInv'
    BY <1>1, <1>4 DEF ThreadInv, Relock, ringVars
  <2> QED
    BY <2>1, <2>2, <2>3 DEF RingInv
<1> QED
  BY <1>2, <1>3, <1>4, WaitCqeRing, LockAndTakeRing, HandlesRing DEF Reader

(* However many trades an order makes, what the engine publishes about a   *)
(* request is addressed to clients.                                        *)
LEMMA AnswersAre ==
    ASSUME NEW c \in Clients, connected \subseteq Clients, NEW a \in Answers(c)
    PROVE  a \in Seq(Clients)
<1>1. CASE a = <<>>
  BY <1>1
<1>2. CASE a # <<>>
  <2>1. PICK m \in 1 .. 2 * MaxTrades + 2 :
          \E parties \in [1 .. (m - 1) \div 2 -> connected] : a = Told(c, parties, m)
    BY <1>2 DEF Answers
  <2>2. PICK parties \in [1 .. (m - 1) \div 2 -> connected] : a = Told(c, parties, m)
    BY <2>1
  <2>3. ASSUME NEW i \in 1 .. m, i % 2 = 1, i > 1
        PROVE  i \div 2 \in 1 .. (m - 1) \div 2
    BY <2>1, <2>3, PipelineAssumption
  <2>4. \A i \in 1 .. m : i % 2 = 1 /\ i > 1 => parties[i \div 2] \in Clients
    BY <2>2, <2>3
  <2>5. a = [i \in 1 .. m |-> IF i % 2 = 1 /\ i > 1 THEN parties[i \div 2] ELSE c]
    BY <2>2 DEF Told
  <2>6. a \in [1 .. m -> Clients]
    BY <2>4, <2>5
  <2>7. m \in Nat
    BY <2>1, PipelineAssumption
  <2> QED
    BY <2>6, <2>7
<1> QED
  BY <1>1, <1>2

(* The engine and the writer.                                              *)
LEMMA EngineRing ==
    ASSUME RingInv, EngineThread
    PROVE  RingInv'
<1>1. StateInv /\ ThreadInv /\ RecvInv
  BY DEF RingInv
<1>2. CASE DequeueRequest
  <2>1. RecvInv'
    BY <1>1, <1>2, RecvKept DEF DequeueRequest, ringVars, clientVars
  <2>2. /\ incoming_queue' \in Seq(Clients) /\ Len(incoming_queue') <= QUEUE_SIZE
        /\ Head(incoming_queue) \in Clients
    <3>1. /\ incoming_queue \in Seq(Clients) /\ incoming_queue # <<>>
          /\ incoming_queue' = Tail(incoming_queue)
          /\ Len(incoming_queue) <= QUEUE_SIZE /\ QUEUE_SIZE \in Nat
      BY <1>1, <1>2, PipelineAssumption DEF StateInv, DequeueRequest
    <3> QED
      BY <3>1
  <2>3. /\ answers' \in Seq(Clients)
        /\ engine' \in {"dequeue", "publish"}
        /\ engine' = "publish" => answers' # <<>>
    <3>1. connected \subseteq Clients /\ answers' \in Answers(Head(incoming_queue))
      BY <1>1, <1>2 DEF StateInv, DequeueRequest
    <3>2. answers' \in Seq(Clients)
      BY <2>2, <3>1, AnswersAre
    <3> QED
      BY <1>2, <3>2 DEF DequeueRequest
  <2>4. StateInv'
    BY <1>1, <1>2, <2>2, <2>3 DEF StateInv, DequeueRequest, ringVars, clientVars
  <2>5. ThreadInv'
    BY <1>1, <1>2 DEF ThreadInv, DequeueRequest, ringVars
  <2> QED
    BY <2>1, <2>4, <2>5 DEF RingInv
<1>3. CASE Publish
  <2>1. RecvInv'
    BY <1>1, <1>3, RecvKept DEF Publish, ringVars, clientVars
  <2>2. /\ answers \in Seq(Clients) /\ answers # <<>> /\ answers' = Tail(answers)
        /\ engine' = IF Len(answers) = 1 THEN "dequeue" ELSE "publish"
    BY <1>1, <1>3 DEF StateInv, Publish
  <2>3. /\ answers' \in Seq(Clients) /\ Head(answers) \in Clients
        /\ engine' \in {"dequeue", "publish"}
        /\ engine' = "publish" => answers' # <<>>
    <3>1. /\ answers' \in Seq(Clients) /\ Head(answers) \in Clients
          /\ Len(answers) \in Nat /\ Len(answers) > 0 /\ Len(answers') = Len(answers) - 1
      BY <2>2
    <3>2. Len(answers) # 1 => answers' # <<>>
      BY <3>1
    <3> QED
      BY <2>2, <3>1, <3>2
  <2>4. outgoing_queue' \in Seq(Clients) /\ Len(outgoing_queue') <= QUEUE_SIZE
    <3>1. /\ outgoing_queue \in Seq(Clients)
          /\ outgoing_queue' = Append(outgoing_queue, Head(answers))
          /\ Len(outgoing_queue) < QUEUE_SIZE /\ QUEUE_SIZE \in Nat
      BY <1>1, <1>3, PipelineAssumption DEF StateInv, Publish
    <3> QED
      BY <2>3, <3>1
  <2>5. StateInv'
    BY <1>1, <1>3, <2>3, <2>4 DEF StateInv, Publish, ringVars, clientVars
  <2>6. ThreadInv'
    BY <1>1, <1>3 DEF ThreadInv, Publish, ringVars
  <2> QED
    BY <2>1, <2>5, <2>6 DEF RingInv
<1> QED
  BY <1>2, <1>3 DEF EngineThread

(* Every step of the writer keeps the ring invariant.                      *)
LEMMA WriterRing ==
    ASSUME RingInv, Writer
    PROVE  RingInv'
<1>1. StateInv /\ ThreadInv /\ RecvInv
  BY DEF RingInv
<1>2. CASE DequeueResponse
  <2>1. RecvInv'
    BY <1>1, <1>2, RecvKept DEF DequeueResponse, ringVars, clientVars
  <2>2. /\ outgoing_queue' \in Seq(Clients) /\ Len(outgoing_queue') <= QUEUE_SIZE
        /\ Head(outgoing_queue) \in Clients
    <3>1. /\ outgoing_queue \in Seq(Clients) /\ outgoing_queue # <<>>
          /\ outgoing_queue' = Tail(outgoing_queue)
          /\ Len(outgoing_queue) <= QUEUE_SIZE /\ QUEUE_SIZE \in Nat
      BY <1>1, <1>2, PipelineAssumption DEF StateInv, DequeueResponse
    <3> QED
      BY <3>1
  <2>3. StateInv'
    BY <1>1, <1>2, <2>2 DEF StateInv, DequeueResponse, ringVars, clientVars
  <2>4. ThreadInv'
    BY <1>1, <1>2, <2>2 DEF ThreadInv, DequeueResponse, ringVars
  <2> QED
    BY <2>1, <2>3, <2>4 DEF RingInv
<1>3. CASE LockToSend
  <2>1. RecvInv'
    BY <1>1, <1>3, RecvKept DEF LockToSend, ringVars, clientVars
  <2>2. StateInv'
    BY <1>1, <1>3 DEF StateInv, LockToSend, queueVars, ringVars, clientVars
  <2>3. ThreadInv'
    BY <1>1, <1>3 DEF ThreadInv, LockToSend, ringVars
  <2> QED
    BY <2>1, <2>2, <2>3 DEF RingInv
<1>4. CASE SubmitSend
  <2>1. RecvInv'
    BY <1>1, <1>4, RecvKept DEF SubmitSend, clientVars
  <2>2. msg \in Clients /\ PARTS \in 1 .. PARTS
    BY <1>1, <1>4, PipelineAssumption DEF ThreadInv, SubmitSend
  <2>3. sending' \in [Clients -> [1 .. PARTS -> Nat]]
    BY <1>1, <1>4, <2>2 DEF StateInv, SubmitSend
  <2>4. StateInv'
    BY <1>1, <1>4, <2>3 DEF StateInv, SubmitSend, queueVars, clientVars
  <2>5. ThreadInv'
    BY <1>1, <1>4 DEF ThreadInv, SubmitSend
  <2> QED
    BY <2>1, <2>4, <2>5 DEF RingInv
<1> QED
  BY <1>2, <1>3, <1>4 DEF Writer

(* A completion of the kernel that is no recv.                             *)
LEMMA OtherCompletes ==
    ASSUME StateInv, RecvInv, NEW e \in Completion, Complete(e),
           \A c \in Clients : ~IsRecv(e, c), ~IsEnd(e),
           UNCHANGED <<cqe, reading, connected>>, lost \subseteq lost'
    PROVE  RecvInv'
<1>1. /\ Len(cq') = Len(cq) + 1 /\ Len(cq) \in Nat
      /\ \A i \in 1 .. Len(cq) : cq'[i] = cq[i]
      /\ cq'[Len(cq) + 1] = e
      /\ \A c \in Clients : Recvs(c)' = Recvs(c)
  <2>1. Len(cq) \in Nat
    BY DEF StateInv
  <2>2. \A c \in Clients : Recvs(c)' = Recvs(c) \cup {}
    BY CompleteIs
  <2> QED
    BY <2>1, <2>2, CompleteIs
<1>2. \A i \in 1 .. Len(cq') : i \in 1 .. Len(cq) \/ i = Len(cq) + 1
  BY <1>1
<1>3. \A i \in 1 .. Len(cq') : IsEnd(cq'[i]) => cq'[i].fd \in lost'
  BY <1>1, <1>2 DEF RecvInv
<1> QED
  BY <1>1, <1>3 DEF RecvInv, IsRecv, IsEnd

(* A completion of the kernel that is the recv, or the accept, of a client *)
(* that has none in the ring or with the reader.                           *)
LEMMA RecvCompletes ==
    ASSUME StateInv, RecvInv, NEW e \in Completion, Complete(e), NEW c \in Clients,
           \A x : IsRecv(e, x) <=> x = c,
           Recvs(c) = {}, ~IsRecv(cqe, c), c \notin reading', c \in connected',
           \A x \in Clients \ {c} : /\ x \in reading' <=> x \in reading
                                    /\ x \in connected' <=> x \in connected,
           UNCHANGED cqe, lost \subseteq lost', IsEnd(e) => c \in lost'
    PROVE  RecvInv'
<1>1. /\ Len(cq') = Len(cq) + 1 /\ Len(cq) \in Nat
      /\ \A i \in 1 .. Len(cq) : cq'[i] = cq[i]
      /\ cq'[Len(cq) + 1] = e
      /\ Recvs(c)' = {Len(cq) + 1}
      /\ \A x \in Clients \ {c} : Recvs(x)' = Recvs(x)
  <2>1. Len(cq) \in Nat
    BY DEF StateInv
  <2>2. \A x : Recvs(x)' = Recvs(x) \cup (IF x = c THEN {Len(cq) + 1} ELSE {})
    BY CompleteIs
  <2> QED
    BY <2>1, <2>2, CompleteIs
<1>2. \A i \in 1 .. Len(cq') : i \in 1 .. Len(cq) \/ i = Len(cq) + 1
  BY <1>1
<1>3. e.fd = c
  BY DEF IsRecv
<1>4. \A i \in 1 .. Len(cq') : IsEnd(cq'[i]) => cq'[i].fd \in lost'
  BY <1>1, <1>2, <1>3 DEF RecvInv
<1>5. \A x \in Clients \ {c} :
         /\ x \in reading' => Recvs(x)' = {} /\ ~IsRecv(cqe, x)
         /\ IsRecv(cqe, x) => Recvs(x)' = {}
         /\ \A i, j \in Recvs(x)' : i = j
         /\ x \in reading' \/ IsRecv(cqe, x) \/ Recvs(x)' # {} => x \in connected'
         /\ x \in connected' \ lost' =>
              x \in reading' \/ IsRecv(cqe, x) \/ Recvs(x)' # {}
  BY <1>1 DEF RecvInv
<1>6. \A i, j \in Recvs(c)' : i = j
  BY <1>1
<1> QED
  BY <1>1, <1>4, <1>5, <1>6 DEF RecvInv, IsRecv, IsEnd

(* The kernel.                                                             *)
LEMMA KernelRing ==
    ASSUME RingInv, Kernel
    PROVE  RingInv'
<1>1. StateInv /\ ThreadInv /\ RecvInv
  BY DEF RingInv
<1>2. /\ cq \in Seq(Completion) /\ connected \subseteq Clients /\ lost \subseteq Clients
      /\ reading \subseteq Clients /\ sending \in [Clients -> [1 .. PARTS -> Nat]]
  BY <1>1 DEF StateInv
<1>3. ASSUME NEW e \in Completion, Complete(e), RecvInv',
             UNCHANGED <<queueVars, submission_mutex, threadVars>>,
             accepting' \in BOOLEAN, reading' \subseteq Clients,
             sending' \in [Clients -> [1 .. PARTS -> Nat]],
             connected' \subseteq Clients, lost' \subseteq Clients
      PROVE  RingInv'
  <2>1. cq' \in Seq(Completion) /\ cq' # <<>>
    BY <1>1, <1>3, CompleteIs
  <2>2. StateInv'
    BY <1>1, <1>3, <2>1 DEF StateInv, queueVars, threadVars
  <2>3. ThreadInv'
    BY <1>1, <1>3, <2>1 DEF ThreadInv, threadVars
  <2> QED
    BY <1>3, <2>2, <2>3 DEF RingInv
<1>4. ASSUME NEW c \in Clients, CompleteAccept(c) PROVE RingInv'
  <2>1. PICK e : e = [type |-> "Accept", fd |-> c, res |-> "ok"]
    OBVIOUS
  <2>2. e \in Completion /\ Complete(e) /\ ~IsEnd(e) /\ \A x : IsRecv(e, x) <=> x = c
    BY <1>4, <2>1 DEF Completion, CompleteAccept, IsRecv, IsEnd
  <2>3. /\ c \notin connected /\ connected' = connected \cup {c} /\ accepting' = FALSE
        /\ UNCHANGED <<reading, sending, lost, cqe>>
        /\ UNCHANGED <<queueVars, submission_mutex, threadVars>>
    BY <1>4 DEF CompleteAccept, threadVars
  <2>4. Recvs(c) = {} /\ ~IsRecv(cqe, c) /\ c \notin reading
    BY <1>1, <2>3 DEF RecvInv
  <2>5. RecvInv'
    BY <1>1, <2>2, <2>3, <2>4, RecvCompletes
  <2> QED
    BY <1>2, <1>3, <2>2, <2>3, <2>5
<1>5. ASSUME NEW c \in Clients, CompleteRecv(c) \/ EndRecv(c) PROVE RingInv'
  <2>1. PICK e : /\ e \in {[type |-> "Read", fd |-> c, res |-> "data"],
                           [type |-> "Read", fd |-> c, res |-> "end"]}
                 /\ Complete(e) /\ (IsEnd(e) => c \in lost')
    BY <1>5 DEF CompleteRecv, EndRecv, IsEnd
  <2>2. e \in Completion /\ \A x : IsRecv(e, x) <=> x = c
    BY <2>1 DEF Completion, IsRecv
  <2>3. /\ c \in reading /\ reading' = reading \ {c}
        /\ UNCHANGED <<accepting, sending, connected, cqe>>
        /\ UNCHANGED <<queueVars, submission_mutex, threadVars>>
        /\ lost \subseteq lost' /\ lost' \subseteq lost \cup {c}
    BY <1>5 DEF CompleteRecv, EndRecv, threadVars
  <2>4. Recvs(c) = {} /\ ~IsRecv(cqe, c) /\ c \in connected
    BY <1>1, <2>3 DEF RecvInv
  <2>5. RecvInv'
    BY <1>1, <2>1, <2>2, <2>3, <2>4, RecvCompletes
  <2>6. accepting' \in BOOLEAN
    BY <1>1, <2>3 DEF StateInv
  <2> QED
    BY <1>2, <1>3, <2>1, <2>2, <2>3, <2>5, <2>6
<1>6. CASE FailAccept
  <2>1. PICK e : e = [type |-> "Accept", fd |-> NoClient, res |-> "error"]
    OBVIOUS
  <2>2. /\ e \in Completion /\ Complete(e) /\ ~IsEnd(e)
        /\ \A x \in Clients : ~IsRecv(e, x)
    BY <1>6, <2>1, PipelineAssumption DEF Completion, FailAccept, IsRecv, IsEnd
  <2>3. /\ accepting' = FALSE
        /\ UNCHANGED <<reading, sending, connected, lost, cqe>>
        /\ UNCHANGED <<queueVars, submission_mutex, threadVars>>
    BY <1>6 DEF FailAccept, threadVars
  <2>4. RecvInv'
    BY <1>1, <2>2, <2>3, OtherCompletes
  <2> QED
    BY <1>2, <1>3, <2>2, <2>3, <2>4
<1>7. ASSUME NEW c \in Clients, NEW n \in 1 .. PARTS, NEW k \in 1 .. n,
             FailSend(c, n) \/ CompleteSend(c, n, k)
      PROVE  RingInv'
  <2>1. PICK e : /\ e \in {[type |-> "Write", fd |-> c, res |-> "error", left |-> 0],
                           [type |-> "Write", fd |-> c, left |-> n - k,
                            res |-> IF k = n THEN "all" ELSE "short"]}
                 /\ Complete(e)
    BY <1>7 DEF FailSend, CompleteSend
  <2>2. e \in Completion
    <3>1. /\ n \in Int /\ k \in Int /\ PARTS \in Int
          /\ k = n => n - k = 0
          /\ k # n => n - k \in 1 .. PARTS
      BY PipelineAssumption
    <3>2. /\ [type |-> "Write", fd |-> c, res |-> "error", left |-> 0] \in Completion
          /\ \A x \in 1 .. PARTS :
               [type |-> "Write", fd |-> c, left |-> x, res |-> "short"] \in Completion
          /\ [type |-> "Write", fd |-> c, left |-> 0, res |-> "all"] \in Completion
      BY DEF Completion
    <3> QED
      BY <2>1, <3>1, <3>2
  <2>3. ~IsEnd(e) /\ \A x \in Clients : ~IsRecv(e, x)
    BY <2>1 DEF IsRecv, IsEnd
  <2>4. /\ sending[c][n] > 0 /\ sending' = [sending EXCEPT ![c][n] = @ - 1]
        /\ lost \subseteq lost' /\ lost' \subseteq lost \cup {c}
        /\ UNCHANGED <<accepting, reading, connected, cqe>>
        /\ UNCHANGED <<queueVars, submission_mutex, threadVars>>
    BY <1>7 DEF FailSend, CompleteSend, threadVars, clientVars
  <2>5. sending' \in [Clients -> [1 .. PARTS -> Nat]]
    <3>1. sending[c] \in [1 .. PARTS -> Nat]
      BY <1>2
    <3>2. sending[c][n] \in Nat
      BY <3>1
    <3>3. PICK x \in Nat : x = sending[c][n] - 1
      BY <2>4, <3>2
    <3>4. sending' = [sending EXCEPT ![c][n] = x]
      BY <2>4, <3>3
    <3> QED
      BY <1>2, <3>4, SendingSet
  <2>6. RecvInv'
    BY <1>1, <2>1, <2>2, <2>3, <2>4, OtherCompletes
  <2>7. accepting' \in BOOLEAN
    BY <1>1, <2>4 DEF StateInv
  <2> QED
    BY <1>2, <1>3, <2>1, <2>2, <2>4, <2>5, <2>6, <2>7
<1>8. ASSUME NEW n \in 1 .. PARTS PROVE 1 \in 1 .. n
  OBVIOUS
<1> QED
  BY <1>4, <1>5, <1>6, <1>7, <1>8 DEF Kernel, SendEnds

(* Every step keeps the ring invariant.                                    *)
LEMMA StepRing == RingInv /\ [Next]_vars => RingInv'
<1> SUFFICES ASSUME RingInv, [Next]_vars PROVE RingInv'
  OBVIOUS
<1>1. CASE UNCHANGED vars
  <2>1. UNCHANGED <<cq, cqe, reading, connected, lost>> /\ StateInv /\ ThreadInv /\ RecvInv
    BY <1>1 DEF vars, threadVars, ringVars, clientVars, RingInv
  <2>2. RecvInv'
    BY <2>1, RecvKept
  <2>3. StateInv'
    BY <1>1, <2>1 DEF StateInv, vars, threadVars, queueVars, ringVars, clientVars
  <2>4. ThreadInv'
    BY <1>1, <2>1 DEF ThreadInv, vars, threadVars, ringVars
  <2> QED
    BY <2>2, <2>3, <2>4 DEF RingInv
<1> QED
  BY <1>1, ReaderRing, EngineRing, WriterRing, KernelRing DEF Next

(* The ring invariant holds throughout.                                    *)
LEMMA RingInductive == Spec => []RingInv
  BY StartRing, StepRing, PTL DEF Spec

(* The reader and the writer never work on the submission ring at once,    *)
(* although receive_msg gives submission_mutex up half way and takes it    *)
(* again before it arms the next recv.                                     *)
THEOREM RingExclusiveCorrect == Spec => []RingExclusive
<1>1. RingInv => RingExclusive
  BY DEF RingInv, ThreadInv, RingExclusive
<1> QED
  BY <1>1, RingInductive, PTL

(* A client that is connected and not cut off has exactly one recv: with   *)
(* the kernel, completed, or in the reader's hands; no client ever has two.*)
THEOREM OneReadPerClientCorrect == Spec => []OneReadPerClient
<1>1. ASSUME RingInv, NEW c \in Clients
      PROVE  /\ Outstanding(c) <= 1
             /\ c \in connected \ lost => Outstanding(c) = 1
  <2>1. /\ c \in reading => Recvs(c) = {} /\ ~IsRecv(cqe, c)
        /\ IsRecv(cqe, c) => Recvs(c) = {}
        /\ \A i, j \in Recvs(c) : i = j
        /\ c \in connected \ lost => c \in reading \/ IsRecv(cqe, c) \/ Recvs(c) # {}
    BY <1>1 DEF RingInv, RecvInv
  <2>2. Recvs(c) = {} => Cardinality(Recvs(c)) = 0
    BY FS_EmptySet
  <2>3. Recvs(c) # {} => Cardinality(Recvs(c)) = 1
    <3> SUFFICES ASSUME NEW i \in Recvs(c) PROVE Cardinality(Recvs(c)) = 1
      OBVIOUS
    <3>1. Recvs(c) = {i}
      BY <2>1
    <3> QED
      BY <3>1, FS_Singleton
  <2>4. Outstanding(c) = (IF c \in reading THEN 1 ELSE 0) + Cardinality(Recvs(c))
                         + (IF IsRecv(cqe, c) THEN 1 ELSE 0)
    BY DEF Outstanding, Recvs, IsRecv
  <2>5. CASE Recvs(c) = {}
    BY <2>1, <2>2, <2>4, <2>5
  <2>6. CASE Recvs(c) # {}
    BY <2>1, <2>3, <2>4, <2>6
  <2> QED
    BY <2>5, <2>6
<1>2. RingInv => OneReadPerClient
  BY <1>1 DEF OneReadPerClient
<1> QED
  BY <1>2, RingInductive, PTL
-----------------------------------------------------------------------------
(* How the pieces on their way change.                                     *)
LEMMA PieceTypes ==
    ASSUME RingInv, NEW c \in Clients
    PROVE  /\ \A i \in 1 .. PARTS : KernelPieces(c)[i] = i * sending[c][i]
                                   /\ KernelPieces(c)[i] \in Nat
           /\ \A i \in 1 .. Len(cq) : DonePieces(c)[i] = LeftOf(cq[i], c)
                                     /\ DonePieces(c)[i] \in Nat
           /\ Total(KernelPieces(c), PARTS) \in Nat
           /\ Total(DonePieces(c), Len(cq)) \in Nat
           /\ LeftOf(cqe, c) \in Nat
           /\ IsFiniteSet(QueuedFor(c)) /\ Waiting(c) \in Nat
           /\ PARTS \in Nat /\ PARTS > 0 /\ Len(cq) \in Nat
<1>1. StateInv /\ ThreadInv /\ PARTS \in Nat /\ PARTS > 0
  BY PipelineAssumption DEF RingInv
<1>2. /\ sending \in [Clients -> [1 .. PARTS -> Nat]] /\ cq \in Seq(Completion)
      /\ Len(cq) \in Nat /\ outgoing_queue \in Seq(Clients) /\ Len(outgoing_queue) \in Nat
  BY <1>1 DEF StateInv
<1>3. ASSUME NEW e \in Completion PROVE LeftOf(e, c) \in Nat
  <2>1. e.type = "Write" => e.left \in Nat
    BY <1>1, CompletionIs
  <2> QED
    BY <2>1 DEF LeftOf
<1>4. LeftOf(cqe, c) \in Nat
  <2>1. LeftOf(NoCqe, c) = 0
    BY DEF LeftOf, NoCqe
  <2> QED
    BY <1>1, <1>3, <2>1 DEF ThreadInv
<1>5. \A i \in 1 .. PARTS : /\ KernelPieces(c)[i] = i * sending[c][i]
                           /\ KernelPieces(c)[i] \in Nat
  <2> SUFFICES ASSUME NEW i \in 1 .. PARTS
               PROVE  /\ KernelPieces(c)[i] = i * sending[c][i]
                      /\ KernelPieces(c)[i] \in Nat
    OBVIOUS
  <2>1. sending[c] \in [1 .. PARTS -> Nat]
    BY <1>2
  <2>2. sending[c][i] \in Nat
    BY <2>1
  <2>3. KernelPieces(c)[i] = i * sending[c][i]
    BY DEF KernelPieces
  <2> QED
    BY <1>1, <2>2, <2>3
<1>6. \A i \in 1 .. Len(cq) : /\ DonePieces(c)[i] = LeftOf(cq[i], c)
                             /\ DonePieces(c)[i] \in Nat
  <2>1. \A i \in 1 .. Len(cq) : cq[i] \in Completion
    BY <1>2
  <2> QED
    BY <1>3, <2>1 DEF DonePieces
<1>7. Total(KernelPieces(c), PARTS) \in Nat
  BY <1>1, <1>5, TotalType
<1>8. Total(DonePieces(c), Len(cq)) \in Nat
  BY <1>2, <1>6, TotalType
<1>9. IsFiniteSet(QueuedFor(c)) /\ Waiting(c) \in Nat
  <2>1. IsFiniteSet(1 .. Len(outgoing_queue))
    BY <1>2, FS_Interval
  <2>2. QueuedFor(c) \in SUBSET (1 .. Len(outgoing_queue))
    BY DEF QueuedFor
  <2>3. IsFiniteSet(QueuedFor(c))
    BY <2>1, <2>2, FS_Subset
  <2>4. Cardinality(QueuedFor(c)) \in Nat
    BY <2>3, FS_CardinalityType
  <2> QED
    BY <2>3, <2>4 DEF Waiting
<1> QED
  BY <1>1, <1>2, <1>4, <1>5, <1>6, <1>7, <1>8, <1>9

(* Submitting n pieces for f, or taking a send of n pieces from the kernel.*)
LEMMA KernelChanges ==
    ASSUME RingInv, NEW f \in Clients, NEW n \in 1 .. PARTS, NEW d \in {1, -1},
           sending[f][n] + d >= 0, sending' = [sending EXCEPT ![f][n] = @ + d]
    PROVE  \A c \in Clients :
              /\ Total(KernelPieces(c)', PARTS) =
                   Total(KernelPieces(c), PARTS) + (IF c = f THEN d * n ELSE 0)
              /\ Total(KernelPieces(c)', PARTS) \in Nat
<1>1. sending \in [Clients -> [1 .. PARTS -> Nat]] /\ PARTS \in Nat
  BY PipelineAssumption DEF RingInv, StateInv
<1>2. sending[f] \in [1 .. PARTS -> Nat]
  BY <1>1
<1>3. sending[f][n] \in Nat
  BY <1>2
<1>4. PICK x \in Nat : x = sending[f][n] + d
  BY <1>3
<1>5. sending' = [sending EXCEPT ![f][n] = x]
  BY <1>4
<1>6. /\ \A c \in Clients : c # f => sending'[c] = sending[c]
      /\ \A m \in 1 .. PARTS : sending'[f][m] = IF m = n THEN x ELSE sending[f][m]
  BY <1>1, <1>5, SendingSet
<1>7. ASSUME NEW c \in Clients, c # f
      PROVE  KernelPieces(c)' = KernelPieces(c)
  BY <1>6, <1>7 DEF KernelPieces
<1>8. Total(KernelPieces(f)', PARTS) = Total(KernelPieces(f), PARTS) + d * n
  <2>1. PICK v, w, y : /\ v = KernelPieces(f) /\ w = KernelPieces(f)'
                          /\ y \in Int /\ y = d * n
    OBVIOUS
  <2>2. \A i \in 1 .. PARTS : v[i] = i * sending[f][i] /\ v[i] \in Nat
    BY <2>1, PieceTypes
  <2>3. \A i \in 1 .. PARTS : w[i] = i * sending'[f][i]
    BY <2>1 DEF KernelPieces
  <2>4. n * x = n * sending[f][n] + y
    BY <1>3, <1>4, <2>1
  <2>5. \A i \in 1 .. PARTS : w[i] = IF i = n THEN v[i] + y ELSE v[i]
    BY <1>6, <2>2, <2>3, <2>4
  <2>6. Total(w, PARTS) = Total(v, PARTS) + y
    BY <1>1, <2>1, <2>2, <2>5, TotalChanged
  <2> QED
    BY <2>1, <2>6
<1>9. \A c \in Clients : Total(KernelPieces(c), PARTS) \in Nat
  BY PieceTypes
<1>10. Total(KernelPieces(f)', PARTS) \in Nat
  <2>1. PICK w : w = KernelPieces(f)'
    OBVIOUS
  <2>2. \A i \in 1 .. PARTS : w[i] = i * sending'[f][i] /\ sending'[f][i] \in Nat
    <3>1. \A i \in 1 .. PARTS : w[i] = i * sending'[f][i]
      BY <2>1 DEF KernelPieces
    <3>2. \A i \in 1 .. PARTS : sending[f][i] \in Nat
      BY <1>2
    <3> QED
      BY <1>6, <3>1, <3>2
  <2>3. ASSUME NEW i \in 1 .. PARTS PROVE w[i] \in Nat
    <3>1. PICK a \in Nat : w[i] = i * a
      BY <2>2
    <3> QED
      BY <1>1, <3>1
  <2> QED
    BY <1>1, <2>1, <2>3, TotalType
<1> QED
  BY <1>7, <1>8, <1>9, <1>10

(* A completion comes into the ring with what it leaves over.              *)
LEMMA DoneGrows ==
    ASSUME RingInv, NEW e \in Completion, Complete(e)
    PROVE  \A c \in Clients : Total(DonePieces(c)', Len(cq')) =
              Total(DonePieces(c), Len(cq)) + LeftOf(e, c)
<1> SUFFICES ASSUME NEW c \in Clients
             PROVE  Total(DonePieces(c)', Len(cq')) =
                       Total(DonePieces(c), Len(cq)) + LeftOf(e, c)
  OBVIOUS
<1>1. /\ Len(cq') = Len(cq) + 1 /\ Len(cq) \in Nat
      /\ \A i \in 1 .. Len(cq) : cq'[i] = cq[i]
      /\ cq'[Len(cq) + 1] = e
  BY CompleteIs, PieceTypes DEF RingInv
<1>2. PICK v, w, n : /\ v = DonePieces(c) /\ w = DonePieces(c)'
                      /\ n \in Nat /\ n = Len(cq)
  BY <1>1
<1>3. w = [i \in 1 .. n + 1 |-> LeftOf(cq'[i], c)]
  BY <1>1, <1>2 DEF DonePieces, LeftOf
<1>4. /\ \A i \in 1 .. n : v[i] = LeftOf(cq[i], c)
      /\ Total(v, n) \in Nat
  BY <1>2, PieceTypes
<1>5. \A i \in 1 .. n : w[i] = v[i]
  BY <1>1, <1>2, <1>3, <1>4
<1>6. w[n + 1] = LeftOf(e, c)
  BY <1>1, <1>2, <1>3
<1>7. Total(w, n + 1) = w[n + 1] + Total(w, n)
  BY <1>2, TotalStep
<1>8. Total(w, n) = Total(v, n)
  BY <1>2, <1>5, TotalSame
<1>9. LeftOf(e, c) \in Int
  <2>1. e.type = "Write" => e.left \in Int
    BY PieceTypes, CompletionIs
  <2> QED
    BY <2>1 DEF LeftOf
<1> QED
  BY <1>1, <1>2, <1>4, <1>6, <1>7, <1>8, <1>9

(* The reader takes a completion, and with it what it leaves over.         *)
LEMMA DoneShrinks ==
    ASSUME RingInv, cq # <<>>, cq' = Tail(cq)
    PROVE  \A c \in Clients : Total(DonePieces(c), Len(cq)) =
              LeftOf(Head(cq), c) + Total(DonePieces(c)', Len(cq'))
<1> SUFFICES ASSUME NEW c \in Clients
             PROVE  Total(DonePieces(c), Len(cq)) =
                       LeftOf(Head(cq), c) + Total(DonePieces(c)', Len(cq'))
  OBVIOUS
<1>1. /\ Head(cq) = cq[1] /\ Len(cq) \in Nat /\ Len(cq) > 0
      /\ Len(cq') = Len(cq) - 1
      /\ \A i \in 1 .. Len(cq) - 1 : cq'[i] = cq[i + 1]
  BY TakeIs DEF RingInv
<1>2. PICK v, w, n : /\ v = DonePieces(c) /\ w = DonePieces(c)'
                      /\ n \in Nat /\ n = Len(cq') /\ n + 1 = Len(cq)
  BY <1>1
<1>3. w = [i \in 1 .. n |-> LeftOf(cq'[i], c)]
  BY <1>2 DEF DonePieces, LeftOf
<1>4. \A i \in 1 .. n + 1 : v[i] = LeftOf(cq[i], c) /\ v[i] \in Nat
  BY <1>2, PieceTypes
<1>5. \A i \in 1 .. n : w[i] = v[i + 1]
  BY <1>1, <1>2, <1>3, <1>4
<1>6. Total(v, n + 1) = v[1] + Total(w, n)
  BY <1>2, <1>4, <1>5, TotalFirst
<1>7. v[1] = LeftOf(Head(cq), c)
  BY <1>1, <1>2, <1>4
<1> QED
  BY <1>2, <1>6, <1>7

(* The engine adds a response to the queue, the writer takes the oldest.   *)
LEMMA QueueGrows ==
    ASSUME RingInv, NEW f \in Clients, outgoing_queue' = Append(outgoing_queue, f),
           UNCHANGED msg
    PROVE  \A c \in Clients : Waiting(c)' = Waiting(c) + (IF c = f THEN 1 ELSE 0)
<1> SUFFICES ASSUME NEW c \in Clients
             PROVE  Waiting(c)' = Waiting(c) + (IF c = f THEN 1 ELSE 0)
  OBVIOUS
<1>1. outgoing_queue \in Seq(Clients) /\ Len(outgoing_queue) \in Nat
  BY DEF RingInv, StateInv
<1>2. PICK n \in Nat : n = Len(outgoing_queue)
  BY <1>1
<1>3. /\ Len(outgoing_queue') = n + 1
      /\ \A i \in 1 .. n : outgoing_queue'[i] = outgoing_queue[i]
      /\ outgoing_queue'[n + 1] = f
  BY <1>1, <1>2
<1>4. 1 .. n + 1 = (1 .. n) \cup {n + 1} /\ n + 1 \notin 1 .. n
  OBVIOUS
<1>5. QueuedFor(c)' = QueuedFor(c) \cup (IF c = f THEN {n + 1} ELSE {})
  BY <1>2, <1>3, <1>4 DEF QueuedFor
<1>6. IsFiniteSet(QueuedFor(c)) /\ n + 1 \notin QueuedFor(c)
  BY <1>2, <1>4, PieceTypes DEF QueuedFor
<1>7. Cardinality(QueuedFor(c)) \in Nat
  BY <1>6, FS_CardinalityType
<1>8. Cardinality(QueuedFor(c)') = Cardinality(QueuedFor(c)) + (IF c = f THEN 1 ELSE 0)
  <2>1. CASE c = f
    BY <1>5, <1>6, <2>1, FS_AddElement
  <2>2. CASE c # f
    BY <1>5, <1>7, <2>2
  <2> QED
    BY <2>1, <2>2
<1> QED
  BY <1>7, <1>8 DEF Waiting

(* A message the writer pops still waits, in its hands.                    *)
LEMMA QueueShrinks ==
    ASSUME RingInv, outgoing_queue # <<>>, outgoing_queue' = Tail(outgoing_queue),
           msg = NoClient, msg' = Head(outgoing_queue)
    PROVE  \A c \in Clients : Waiting(c)' = Waiting(c)
<1> SUFFICES ASSUME NEW c \in Clients PROVE Waiting(c)' = Waiting(c)
  OBVIOUS
<1>1. outgoing_queue \in Seq(Clients) /\ Len(outgoing_queue) \in Nat
  BY DEF RingInv, StateInv
<1>2. PICK n \in Nat : n + 1 = Len(outgoing_queue) /\ n = Len(outgoing_queue')
  BY <1>1
<1>3. /\ \A i \in 1 .. n : outgoing_queue'[i] = outgoing_queue[i + 1]
      /\ msg' = outgoing_queue[1]
  BY <1>1, <1>2
<1> DEFINE Q == QueuedFor(c)
           R == Q \ {1}
<1>4. QueuedFor(c)' = {i \in 1 .. n : i + 1 \in R}
  BY <1>2, <1>3 DEF QueuedFor
<1>5. \A i \in R : i \in Int /\ i - 1 \in 1 .. n /\ (i - 1) + 1 = i
  BY <1>2 DEF QueuedFor
<1>6. IsFiniteSet(Q) /\ Cardinality(Q) \in Nat
  BY PieceTypes, FS_CardinalityType
<1>7. IsFiniteSet(R) /\ Cardinality(R) = Cardinality(Q) - (IF 1 \in Q THEN 1 ELSE 0)
  <2> HIDE DEF Q
  <2>1. CASE 1 \in Q
    BY <1>6, <2>1, FS_RemoveElement
  <2>2. CASE 1 \notin Q
    <3>1. R = Q
      BY <2>2
    <3> HIDE DEF R
    <3> QED
      BY <1>6, <2>2, <3>1
  <2> QED
    BY <2>1, <2>2
<1>8. Cardinality(QueuedFor(c)') = Cardinality(R)
  <2> DEFINE g == [i \in R |-> i - 1]
             B == {i \in 1 .. n : i + 1 \in R}
  <2> HIDE DEF R
  <2>1. g \in [R -> B]
    BY <1>5
  <2>2. \A i, j \in R : g[i] = g[j] => i = j
    BY <1>5
  <2>3. \A b \in B : \E i \in R : g[i] = b
    <3> SUFFICES ASSUME NEW b \in B PROVE \E i \in R : g[i] = b
      OBVIOUS
    <3>1. b \in 1 .. n /\ b + 1 \in R
      OBVIOUS
    <3>2. (b + 1) - 1 = b
      BY <3>1
    <3>3. g[b + 1] = b
      BY <3>1, <3>2
    <3> QED
      BY <3>1, <3>3
  <2> HIDE DEF g, B
  <2>4. ExistsBijection(R, B)
    <3>1. DOMAIN g = R
      BY <2>1
    <3>2. IsInjective(g)
      BY <2>2, <3>1 DEF IsInjective
    <3>3. g \in Bijection(R, B)
      BY <2>1, <2>3, <3>2 DEF Bijection, Injection, Surjection
    <3> QED
      BY <3>3 DEF ExistsBijection
  <2>5. Cardinality(R) = Cardinality(B)
    BY <1>7, <2>4, FS_Bijection
  <2> QED
    BY <1>4, <2>5 DEF B
<1>9. 1 \in Q <=> msg' = c
  BY <1>2, <1>3 DEF QueuedFor
<1>10. msg # c
  BY PipelineAssumption
<1> HIDE DEF Q, R
<1>11. Waiting(c) = Cardinality(Q)
  BY <1>6, <1>10 DEF Waiting, Q
<1>12. Waiting(c)' = Cardinality(R) + (IF msg' = c THEN 1 ELSE 0)
  BY <1>8 DEF Waiting
<1> QED
  BY <1>6, <1>7, <1>9, <1>11, <1>12
-----------------------------------------------------------------------------
(* A step that changes what is owed to clients as it changes what is on    *)
(* its way to them.                                                        *)
LEMMA OwedMoves ==
    ASSUME RingInv, OwedInv, lost \subseteq lost', owed' \in [Clients -> Nat],
           \A c \in Clients : /\ Pieces(c)' - owed'[c] <= Pieces(c) - owed[c]
                              /\ c \notin lost' =>
                                   Pieces(c)' - owed'[c] = Pieces(c) - owed[c],
           \A c \in Clients : Pieces(c)' \in Int
    PROVE  OwedInv'
<1>1. ASSUME NEW c \in Clients
      PROVE  /\ Pieces(c)' <= owed'[c]
             /\ c \notin lost' => Pieces(c)' = owed'[c]
  <2>1. /\ owed[c] \in Nat /\ owed'[c] \in Nat
        /\ Pieces(c) <= owed[c] /\ (c \notin lost => Pieces(c) = owed[c])
    BY DEF OwedInv
  <2>2. Pieces(c) \in Int
    BY PieceTypes DEF Pieces
  <2> QED
    BY <2>1, <2>2
<1> QED
  BY <1>1 DEF OwedInv

(* A step that changes neither.                                            *)
LEMMA OwedKept ==
    ASSUME RingInv, OwedInv, \A c \in Clients : Pieces(c)' = Pieces(c),
           lost \subseteq lost', UNCHANGED owed
    PROVE  OwedInv'
<1>1. \A c \in Clients : Pieces(c) \in Int
  BY PieceTypes DEF Pieces
<1>2. \A c \in Clients : /\ Pieces(c)' - owed'[c] <= Pieces(c) - owed[c]
                         /\ Pieces(c)' - owed'[c] = Pieces(c) - owed[c]
  BY <1>1 DEF OwedInv
<1> QED
  BY <1>1, <1>2, OwedMoves DEF OwedInv

(* The initial state.                                                      *)
LEMMA StartOwed == Init => OwedInv
<1> SUFFICES ASSUME Init PROVE OwedInv
  OBVIOUS
<1>1. RingInv
  BY StartRing
<1>2. ASSUME NEW c \in Clients PROVE Pieces(c) = 0
  <2>1. Waiting(c) = 0
    <3>1. QueuedFor(c) = {}
      BY DEF Init, QueuedFor
    <3>2. msg # c
      BY PipelineAssumption DEF Init
    <3> QED
      BY <3>1, <3>2, FS_EmptySet DEF Waiting
  <2>2. LeftOf(cqe, c) = 0
    BY DEF Init, LeftOf, NoCqe
  <2>3. Total(DonePieces(c), Len(cq)) = 0
    <3>1. Len(cq) = 0
      BY DEF Init
    <3> QED
      BY <3>1, TotalStep
  <2>4. Total(KernelPieces(c), PARTS) = 0
    <3>1. PICK v : v = KernelPieces(c)
      OBVIOUS
    <3>2. PARTS \in Nat /\ \A i \in 1 .. PARTS : v[i] = i * sending[c][i]
      BY <1>1, <3>1, PieceTypes
    <3>3. \A i \in 1 .. PARTS : sending[c][i] = 0
      BY DEF Init
    <3>4. \A i \in 1 .. PARTS : v[i] = 0
      BY <3>2, <3>3
    <3> DEFINE T == {m \in Nat : m <= PARTS => Total(v, m) = 0}
    <3>5. 0 \in T
      BY TotalStep
    <3>6. ASSUME NEW m \in Nat, m \in T PROVE m + 1 \in T
      <4> SUFFICES ASSUME m + 1 <= PARTS PROVE Total(v, m + 1) = 0
        OBVIOUS
      <4>1. v[m + 1] = 0 /\ Total(v, m) = 0
        BY <3>2, <3>4, <3>6
      <4> QED
        BY <4>1, TotalStep
    <3> HIDE DEF T
    <3>7. PARTS \in T
      BY <3>2, <3>5, <3>6, AllOf
    <3> QED
      BY <3>1, <3>7 DEF T
  <2>5. PARTS * 0 = 0
    BY PipelineAssumption
  <2> QED
    BY <2>1, <2>2, <2>3, <2>4, <2>5 DEF Pieces
<1> QED
  BY <1>2 DEF Init, OwedInv

(* The reader: a short send's remainder goes back to the kernel.           *)
LEMMA ReaderOwed ==
    ASSUME RingInv, OwedInv, Reader
    PROVE  OwedInv'
<1>1. ThreadInv /\ UNCHANGED <<outgoing_queue, msg, lost, owed>>
  BY DEF RingInv, Reader, WaitCqe, LockAndTake, HandleAccept, HandleReadEnd, HandleRead,
         EnqueueRequest, Relock, RearmRead, HandleWrite, ReaderDone, queueVars, clientVars
<1>2. \A c : Waiting(c)' = Waiting(c)
  BY <1>1 DEF Waiting, QueuedFor
<1>3. \A c : LeftOf(NoCqe, c) = 0
  BY DEF LeftOf, NoCqe
<1>4. \A c \in Clients : Pieces(c)' = Pieces(c)
  <2> SUFFICES ASSUME NEW c \in Clients PROVE Pieces(c)' = Pieces(c)
    OBVIOUS
  <2>1. /\ Total(KernelPieces(c), PARTS) \in Nat /\ Total(DonePieces(c), Len(cq)) \in Nat
        /\ LeftOf(cqe, c) \in Nat /\ Waiting(c) \in Nat /\ PARTS \in Nat
    BY PieceTypes
  <2>2. PARTS * Waiting(c) \in Int
    BY <2>1
  <2>3. CASE UNCHANGED <<sending, cq>> /\ LeftOf(cqe', c) = LeftOf(cqe, c)
    <3>1. KernelPieces(c)' = KernelPieces(c) /\ DonePieces(c)' = DonePieces(c)
      BY <2>3 DEF KernelPieces, DonePieces, LeftOf
    <3>2. LeftOf(cqe, c)' = LeftOf(cqe, c)
      BY <2>3 DEF LeftOf
    <3> QED
      BY <1>2, <2>3, <3>1, <3>2 DEF Pieces
  <2>4. CASE LockAndTake
    <3>1. cqe = NoCqe /\ cq # <<>> /\ cq' = Tail(cq) /\ cqe' = Head(cq) /\ sending' = sending
      BY <1>1, <2>4 DEF ThreadInv, LockAndTake
    <3>2. Total(DonePieces(c), Len(cq)) =
             LeftOf(Head(cq), c) + Total(DonePieces(c)', Len(cq'))
      BY <3>1, DoneShrinks
    <3>3. KernelPieces(c)' = KernelPieces(c)
      BY <3>1 DEF KernelPieces
    <3>4. LeftOf(cqe, c) = 0 /\ LeftOf(cqe, c)' = LeftOf(Head(cq), c)
      BY <1>3, <3>1 DEF LeftOf
    <3>5. LeftOf(Head(cq), c) \in Nat /\ Total(DonePieces(c)', Len(cq')) \in Int
      <4>1. Head(cq) \in Completion
        BY <3>1, TakeIs DEF RingInv
      <4>2. Head(cq).type = "Write" => Head(cq).left \in Nat
        BY <2>1, <4>1, CompletionIs
      <4>3. LeftOf(Head(cq), c) \in Nat
        BY <4>2 DEF LeftOf
      <4>4. PICK v, w, n : /\ v = DonePieces(c)' /\ n = Len(cq') /\ n \in Nat
                           /\ w = DonePieces(c)
        BY <3>1, TakeIs DEF RingInv
      <4>5. v = [i \in 1 .. n |-> LeftOf(cq'[i], c)]
        BY <4>4 DEF DonePieces, LeftOf
      <4>6. /\ \A i \in 1 .. n : cq'[i] = cq[i + 1] /\ i + 1 \in 1 .. Len(cq)
        BY <3>1, <4>4, TakeIs DEF RingInv
      <4>7. \A i \in 1 .. Len(cq) : w[i] = LeftOf(cq[i], c) /\ w[i] \in Nat
        BY <4>4, PieceTypes
      <4>8. \A i \in 1 .. n : v[i] \in Nat
        BY <4>5, <4>6, <4>7
      <4>9. Total(v, n) \in Nat
        BY <4>4, <4>8, TotalType
      <4> QED
        BY <4>3, <4>4, <4>9
    <3> QED
      BY <1>2, <2>1, <2>2, <3>2, <3>3, <3>4, <3>5 DEF Pieces
  <2>5. CASE HandleWrite
    <3>1. /\ cqe \in Completion /\ cqe.type = "Write" /\ cq' = cq /\ cqe' = NoCqe
          /\ sending' = IF cqe.res = "short"
                        THEN [sending EXCEPT ![cqe.fd][cqe.left] = @ + 1] ELSE sending
      BY <1>1, <2>5 DEF ThreadInv, HandleWrite, ReaderDone
    <3>2. /\ cqe.fd \in Clients
          /\ \/ cqe.res = "short" /\ cqe.left \in 1 .. PARTS
             \/ cqe.res # "short" /\ cqe.left = 0
      BY <3>1, CompletionIs
    <3>3. CASE cqe.res = "short"
      <4>1. PICK f \in Clients, n \in 1 .. PARTS : f = cqe.fd /\ n = cqe.left
        BY <3>2, <3>3
      <4>2. sending' = [sending EXCEPT ![f][n] = @ + 1]
        BY <3>1, <3>3, <4>1, Zenon
      <4>3. sending[f][n] + 1 >= 0
        <5>1. sending[f] \in [1 .. PARTS -> Nat]
          BY DEF RingInv, StateInv
        <5>2. sending[f][n] \in Nat
          BY <5>1
        <5> QED
          BY <5>2
      <4>4. Total(KernelPieces(c)', PARTS) =
               Total(KernelPieces(c), PARTS) + (IF c = f THEN 1 * n ELSE 0)
        BY <4>2, <4>3, KernelChanges
      <4>5. LeftOf(cqe, c) = IF c = f THEN n ELSE 0
        BY <3>1, <4>1 DEF LeftOf
      <4>6. DonePieces(c)' = DonePieces(c) /\ LeftOf(cqe, c)' = 0
        BY <1>3, <3>1 DEF DonePieces, LeftOf
      <4> QED
        BY <1>2, <2>1, <2>2, <3>1, <4>4, <4>5, <4>6, SMTT(30) DEF Pieces
    <3>4. CASE cqe.res # "short"
      <4>1. LeftOf(cqe, c) = 0
        BY <3>2, <3>4 DEF LeftOf
      <4> QED
        BY <1>3, <2>3, <3>1, <3>4, <4>1
    <3> QED
      BY <3>3, <3>4
  <2>6. CASE HandleAccept \/ HandleReadEnd \/ RearmRead
    <3>1. cqe.type # "Write" /\ cqe' = NoCqe /\ UNCHANGED <<sending, cq>>
      BY <1>1, <2>6 DEF ThreadInv, HandleAccept, HandleReadEnd, RearmRead, ReaderDone
    <3>2. LeftOf(cqe, c) = 0
      BY <3>1 DEF LeftOf
    <3> QED
      BY <1>3, <2>3, <3>1, <3>2
  <2>7. CASE WaitCqe \/ HandleRead \/ EnqueueRequest \/ Relock
    BY <2>3, <2>7 DEF WaitCqe, HandleRead, EnqueueRequest, Relock, ringVars
  <2> QED
    BY <2>4, <2>5, <2>6, <2>7 DEF Reader
<1> QED
  BY <1>1, <1>4, OwedKept

(* The engine: a response published is a response owed.                    *)
LEMMA EngineOwed ==
    ASSUME RingInv, OwedInv, EngineThread
    PROVE  OwedInv'
<1>1. UNCHANGED <<msg, sending, cq, cqe, lost>>
  BY DEF EngineThread, DequeueRequest, Publish, ringVars, clientVars
<1>2. ASSUME NEW c \in Clients
      PROVE  /\ Pieces(c)' = PARTS * Waiting(c)' + Total(KernelPieces(c), PARTS)
                              + Total(DonePieces(c), Len(cq)) + LeftOf(cqe, c)
             /\ Pieces(c) = PARTS * Waiting(c) + Total(KernelPieces(c), PARTS)
                              + Total(DonePieces(c), Len(cq)) + LeftOf(cqe, c)
  <2>1. KernelPieces(c)' = KernelPieces(c) /\ DonePieces(c)' = DonePieces(c)
        /\ LeftOf(cqe, c)' = LeftOf(cqe, c)
    BY <1>1 DEF KernelPieces, DonePieces, LeftOf
  <2> QED
    BY <1>1, <2>1 DEF Pieces
<1>3. CASE DequeueRequest
  <2>1. outgoing_queue' = outgoing_queue /\ owed' = owed
    BY <1>3 DEF DequeueRequest
  <2>2. \A c \in Clients : Waiting(c)' = Waiting(c)
    BY <1>1, <2>1 DEF Waiting, QueuedFor
  <2>3. \A c \in Clients : Pieces(c)' = Pieces(c)
    BY <1>2, <2>2
  <2> QED
    BY <1>1, <2>1, <2>3, OwedKept
<1>4. CASE Publish
  <2>1. answers \in Seq(Clients) /\ answers # <<>>
    BY <1>4 DEF RingInv, StateInv, Publish
  <2>2. PICK f \in Clients : f = Head(answers)
    BY <2>1
  <2>3. /\ outgoing_queue' = Append(outgoing_queue, f)
        /\ owed' = [owed EXCEPT ![f] = @ + PARTS]
    BY <1>4, <2>2 DEF Publish
  <2>4. owed \in [Clients -> Nat] /\ PARTS \in Nat
    BY PipelineAssumption DEF OwedInv
  <2>5. /\ owed' \in [Clients -> Nat]
        /\ \A c \in Clients : owed'[c] = owed[c] + (IF c = f THEN PARTS ELSE 0)
    BY <2>3, <2>4
  <2>6. ASSUME NEW c \in Clients
        PROVE  /\ Pieces(c)' = Pieces(c) + (IF c = f THEN PARTS ELSE 0)
               /\ Pieces(c) \in Int
    <3>1. /\ Total(KernelPieces(c), PARTS) \in Nat
          /\ Total(DonePieces(c), Len(cq)) \in Nat
          /\ LeftOf(cqe, c) \in Nat /\ Waiting(c) \in Nat
      BY PieceTypes
    <3>2. Waiting(c)' = Waiting(c) + (IF c = f THEN 1 ELSE 0)
      BY <1>1, <2>3, QueueGrows
    <3>3. /\ PARTS * Waiting(c) \in Int
          /\ PARTS * (Waiting(c) + 1) = PARTS * Waiting(c) + PARTS
      BY <2>4, <3>1
    <3>4. CASE c = f
      <4>1. PARTS * Waiting(c)' = PARTS * Waiting(c) + PARTS
        BY <3>2, <3>3, <3>4
      <4>2. Pieces(c)' = Pieces(c) + PARTS /\ Pieces(c) \in Int
        <5>1. PICK a \in Int, b \in Int, g \in Int, h \in Int :
                 /\ a = PARTS * Waiting(c) /\ b = Total(KernelPieces(c), PARTS)
                 /\ g = Total(DonePieces(c), Len(cq)) /\ h = LeftOf(cqe, c)
          BY <3>1, <3>3
        <5>2. Pieces(c)' = (a + PARTS) + b + g + h /\ Pieces(c) = a + b + g + h
          BY <1>2, <4>1, <5>1
        <5> QED
          BY <2>4, <5>2
      <4> QED
        BY <3>4, <4>2
    <3>5. CASE c # f
      BY <1>2, <3>1, <3>2, <3>3, <3>5
    <3> QED
      BY <3>4, <3>5
  <2>7. ASSUME NEW c \in Clients
        PROVE  /\ Pieces(c)' - owed'[c] = Pieces(c) - owed[c]
               /\ Pieces(c)' - owed'[c] <= Pieces(c) - owed[c]
               /\ Pieces(c)' \in Int
    <3>1. owed[c] \in Nat
      BY <2>4
    <3> QED
      BY <2>4, <2>5, <2>6, <3>1
  <2> QED
    BY <1>1, <2>5, <2>7, OwedMoves
<1> QED
  BY <1>3, <1>4 DEF EngineThread

(* The writer: a response goes from the queue to the kernel.               *)
LEMMA WriterOwed ==
    ASSUME RingInv, OwedInv, Writer
    PROVE  OwedInv'
<1>1. ThreadInv /\ UNCHANGED <<cq, cqe, lost, owed>>
  BY DEF RingInv, Writer, DequeueResponse, LockToSend, SubmitSend, ringVars, clientVars
<1>2. \A c \in Clients : Pieces(c)' = Pieces(c)
  <2> SUFFICES ASSUME NEW c \in Clients PROVE Pieces(c)' = Pieces(c)
    OBVIOUS
  <2>1. /\ Total(KernelPieces(c), PARTS) \in Nat /\ Total(DonePieces(c), Len(cq)) \in Nat
        /\ LeftOf(cqe, c) \in Nat /\ Waiting(c) \in Nat /\ PARTS \in Nat /\ PARTS > 0
    BY PieceTypes
  <2>2. DonePieces(c)' = DonePieces(c) /\ LeftOf(cqe, c)' = LeftOf(cqe, c)
    BY <1>1 DEF DonePieces, LeftOf
  <2>3. CASE DequeueResponse
    <3>1. /\ outgoing_queue # <<>> /\ outgoing_queue' = Tail(outgoing_queue)
          /\ msg = NoClient /\ msg' = Head(outgoing_queue) /\ sending' = sending
      BY <1>1, <2>3 DEF ThreadInv, DequeueResponse, ringVars
    <3>2. Waiting(c)' = Waiting(c)
      BY <3>1, QueueShrinks
    <3>3. KernelPieces(c)' = KernelPieces(c)
      BY <3>1 DEF KernelPieces
    <3> QED
      BY <1>1, <2>2, <3>2, <3>3 DEF Pieces
  <2>4. CASE LockToSend
    <3>1. UNCHANGED <<outgoing_queue, msg, sending>>
      BY <2>4 DEF LockToSend, queueVars, ringVars
    <3>2. Waiting(c)' = Waiting(c) /\ KernelPieces(c)' = KernelPieces(c)
      BY <3>1 DEF Waiting, QueuedFor, KernelPieces
    <3> QED
      BY <1>1, <2>2, <3>2 DEF Pieces
  <2>5. CASE SubmitSend
    <3>1. /\ outgoing_queue' = outgoing_queue /\ msg' = NoClient /\ msg \in Clients
          /\ sending' = [sending EXCEPT ![msg][PARTS] = @ + 1]
      BY <1>1, <2>5 DEF ThreadInv, SubmitSend, queueVars
    <3>2. PICK f \in Clients, n \in 1 .. PARTS : f = msg /\ n = PARTS
      BY <2>1, <3>1
    <3>3. sending' = [sending EXCEPT ![f][n] = @ + 1]
      BY <3>1, <3>2, Zenon
    <3>4. sending[f][n] + 1 >= 0
      <4>1. sending[f] \in [1 .. PARTS -> Nat]
        BY DEF RingInv, StateInv
      <4>2. sending[f][n] \in Nat
        BY <4>1
      <4> QED
        BY <4>2
    <3>5. Total(KernelPieces(c)', PARTS) =
             Total(KernelPieces(c), PARTS) + (IF c = f THEN 1 * n ELSE 0)
      BY <3>3, <3>4, KernelChanges
    <3>6. Waiting(c)' = Waiting(c) - (IF c = f THEN 1 ELSE 0)
      <4>1. QueuedFor(c)' = QueuedFor(c) /\ msg' # c
        BY <3>1, PipelineAssumption DEF QueuedFor
      <4>2. Cardinality(QueuedFor(c)) \in Nat
        BY PieceTypes, FS_CardinalityType
      <4> QED
        BY <3>2, <4>1, <4>2 DEF Waiting
    <3>7. PARTS * Waiting(c)' = PARTS * Waiting(c) - (IF c = f THEN PARTS ELSE 0)
          /\ PARTS * Waiting(c) \in Int
      BY <2>1, <3>6
    <3> QED
      BY <1>1, <2>1, <2>2, <3>2, <3>5, <3>7 DEF Pieces
  <2> QED
    BY <2>3, <2>4, <2>5 DEF Writer
<1> QED
  BY <1>1, <1>2, OwedKept

(* The kernel: pieces that go out are no longer owed, and a send that      *)
(* fails cuts its client off.                                              *)
LEMMA KernelOwed ==
    ASSUME RingInv, OwedInv, Kernel
    PROVE  OwedInv'
<1>1. UNCHANGED <<outgoing_queue, msg, cqe>> /\ lost \subseteq lost'
  BY DEF Kernel, SendEnds, CompleteAccept, FailAccept, CompleteRecv, EndRecv,
         CompleteSend, FailSend, queueVars, threadVars, clientVars
<1>2. ASSUME NEW c \in Clients
      PROVE  /\ Pieces(c)' = PARTS * Waiting(c) + Total(KernelPieces(c)', PARTS)
                              + Total(DonePieces(c)', Len(cq')) + LeftOf(cqe, c)
             /\ Pieces(c) = PARTS * Waiting(c) + Total(KernelPieces(c), PARTS)
                              + Total(DonePieces(c), Len(cq)) + LeftOf(cqe, c)
             /\ PARTS * Waiting(c) \in Nat /\ LeftOf(cqe, c) \in Nat
             /\ Total(KernelPieces(c), PARTS) \in Nat
             /\ Total(DonePieces(c), Len(cq)) \in Nat
  <2>1. Waiting(c)' = Waiting(c) /\ LeftOf(cqe, c)' = LeftOf(cqe, c)
    BY <1>1 DEF Waiting, QueuedFor, LeftOf
  <2>2. /\ Waiting(c) \in Nat /\ PARTS \in Nat /\ LeftOf(cqe, c) \in Nat
        /\ Total(KernelPieces(c), PARTS) \in Nat
        /\ Total(DonePieces(c), Len(cq)) \in Nat
    BY PieceTypes
  <2>3. PARTS * Waiting(c) \in Nat
    BY <2>2
  <2> QED
    BY <2>1, <2>2, <2>3 DEF Pieces
<1>3. ASSUME NEW e \in Completion, Complete(e), e.type # "Write", UNCHANGED <<sending, owed>>
      PROVE  OwedInv'
  <2>1. \A c \in Clients : /\ LeftOf(e, c) = 0
                           /\ Total(DonePieces(c)', Len(cq')) =
                                Total(DonePieces(c), Len(cq)) + LeftOf(e, c)
                           /\ KernelPieces(c)' = KernelPieces(c)
    BY <1>3, DoneGrows DEF LeftOf, KernelPieces
  <2>2. \A c \in Clients : Pieces(c)' = Pieces(c)
    BY <1>2, <2>1
  <2> QED
    BY <1>1, <1>3, <2>2, OwedKept
<1>4. ASSUME NEW f \in Clients, CompleteAccept(f) \/ CompleteRecv(f) \/ EndRecv(f)
      PROVE  OwedInv'
  <2>1. PICK e : /\ e \in {[type |-> "Accept", fd |-> f, res |-> "ok"],
                           [type |-> "Read", fd |-> f, res |-> "data"],
                           [type |-> "Read", fd |-> f, res |-> "end"]}
                 /\ Complete(e) /\ UNCHANGED <<sending, owed>>
    BY <1>4 DEF CompleteAccept, CompleteRecv, EndRecv
  <2>2. e \in Completion /\ e.type # "Write"
    BY <2>1 DEF Completion
  <2> QED
    BY <1>3, <2>1, <2>2
<1>5. CASE FailAccept
  <2>1. PICK e : /\ e = [type |-> "Accept", fd |-> NoClient, res |-> "error"]
                 /\ Complete(e) /\ UNCHANGED <<sending, owed>>
    BY <1>5 DEF FailAccept
  <2>2. e \in Completion /\ e.type # "Write"
    BY <2>1 DEF Completion
  <2> QED
    BY <1>3, <2>1, <2>2
<1>6. ASSUME NEW f \in Clients, NEW n \in 1 .. PARTS, NEW e \in Completion, Complete(e),
             sending[f][n] > 0, sending' = [sending EXCEPT ![f][n] = @ - 1],
             e.type = "Write", e.fd = f, e.left \in Nat
      PROVE  \A c \in Clients :
                /\ Pieces(c)' = Pieces(c) + (IF c = f THEN e.left - n ELSE 0)
                /\ Pieces(c)' \in Nat /\ Pieces(c) \in Nat
  <2> SUFFICES ASSUME NEW c \in Clients
               PROVE  /\ Pieces(c)' = Pieces(c) + (IF c = f THEN e.left - n ELSE 0)
                      /\ Pieces(c)' \in Nat /\ Pieces(c) \in Nat
    OBVIOUS
  <2>1. PICK d \in {1, -1} : d = -1
    OBVIOUS
  <2>2. sending[f][n] \in Nat
    <3>1. sending[f] \in [1 .. PARTS -> Nat]
      BY DEF RingInv, StateInv
    <3> QED
      BY <3>1
  <2>3. sending' = [sending EXCEPT ![f][n] = @ + d] /\ sending[f][n] + d >= 0
    <3>1. sending[f][n] - 1 = sending[f][n] + d /\ sending[f][n] + d >= 0
      BY <1>6, <2>1, <2>2
    <3> QED
      BY <1>6, <3>1
  <2>4. /\ Total(KernelPieces(c)', PARTS) =
             Total(KernelPieces(c), PARTS) + (IF c = f THEN d * n ELSE 0)
        /\ Total(KernelPieces(c)', PARTS) \in Nat
    BY <2>3, KernelChanges
  <2>5. Total(DonePieces(c)', Len(cq')) = Total(DonePieces(c), Len(cq)) + LeftOf(e, c)
    BY <1>6, DoneGrows
  <2>6. LeftOf(e, c) = IF c = f THEN e.left ELSE 0
    BY <1>6 DEF LeftOf
  <2>7. d * n = -n /\ n \in Int
    BY <2>1, PipelineAssumption
  <2>8. CASE c = f
    <3>1. PICK k, l \in Int : k = Total(KernelPieces(c), PARTS) /\ l = e.left
      BY <1>2, <1>6, SMTT(30)
    <3>2. Total(KernelPieces(c)', PARTS) = k + (-n) /\ Total(KernelPieces(c)', PARTS) \in Nat
      BY <2>4, <2>7, <2>8, <3>1
    <3>3. Total(DonePieces(c)', Len(cq')) = Total(DonePieces(c), Len(cq)) + l
      BY <2>5, <2>6, <2>8, <3>1
    <3>4. l \in Nat
      BY <1>6, <3>1
    <3>5. Pieces(c)' = Pieces(c) + (l - n) /\ Pieces(c)' \in Nat /\ Pieces(c) \in Nat
      <4>1. PICK a \in Nat, g \in Nat, h \in Nat :
               /\ a = PARTS * Waiting(c) /\ g = Total(DonePieces(c), Len(cq))
               /\ h = LeftOf(cqe, c)
        BY <1>2
      <4>2. /\ Pieces(c)' = a + (k + (-n)) + (g + l) + h
            /\ Pieces(c) = a + k + g + h
        BY <1>2, <3>1, <3>2, <3>3, <4>1
      <4>3. k + (-n) >= 0 /\ k \in Nat
        BY <1>2, <3>1, <3>2
      <4> QED
        BY <2>7, <3>4, <4>2, <4>3
    <3> QED
      BY <2>8, <3>1, <3>5
  <2>9. CASE c # f
    BY <1>2, <2>4, <2>5, <2>6, <2>9, SMTT(30)
  <2> QED
    BY <2>8, <2>9
<1>7. ASSUME NEW f \in Clients, NEW n \in 1 .. PARTS, FailSend(f, n) PROVE OwedInv'
  <2>1. PICK e : /\ e = [type |-> "Write", fd |-> f, res |-> "error", left |-> 0]
                 /\ Complete(e)
    BY <1>7 DEF FailSend
  <2>2. /\ e \in Completion /\ e.type = "Write" /\ e.fd = f /\ e.left = 0
    BY <2>1 DEF Completion
  <2>3. /\ sending[f][n] > 0 /\ sending' = [sending EXCEPT ![f][n] = @ - 1]
        /\ f \in lost' /\ owed' = owed
    BY <1>7 DEF FailSend
  <2>4. \A c \in Clients : /\ Pieces(c)' = Pieces(c) + (IF c = f THEN e.left - n ELSE 0)
                           /\ Pieces(c)' \in Nat /\ Pieces(c) \in Nat
    BY <1>6, <2>1, <2>2, <2>3
  <2>5. owed' \in [Clients -> Nat] /\ \A c \in Clients : owed[c] \in Nat
    BY <2>3 DEF OwedInv
  <2>6. n \in Int /\ n > 0
    BY PipelineAssumption
  <2>7. \A c \in Clients : /\ Pieces(c)' - owed'[c] <= Pieces(c) - owed[c]
                           /\ c \notin lost' =>
                                Pieces(c)' - owed'[c] = Pieces(c) - owed[c]
                           /\ Pieces(c)' \in Int
    BY <2>2, <2>3, <2>4, <2>5, <2>6
  <2> QED
    BY <1>1, <2>5, <2>7, OwedMoves
<1>8. ASSUME NEW f \in Clients, NEW n \in 1 .. PARTS, NEW k \in 1 .. n,
             CompleteSend(f, n, k)
      PROVE  OwedInv'
  <2>1. /\ n \in Int /\ k \in Int /\ n - k \in Nat
        /\ k = n => n - k = 0
        /\ k # n => n - k \in 1 .. PARTS
    BY PipelineAssumption
  <2>2. PICK e : /\ e = [type |-> "Write", fd |-> f,
                          res |-> IF k = n THEN "all" ELSE "short", left |-> n - k]
                 /\ Complete(e)
    BY <1>8 DEF CompleteSend
  <2>3. e \in Completion /\ e.type = "Write" /\ e.fd = f /\ e.left = n - k
    <3>1. CASE k = n
      <4>1. e = [type |-> "Write", fd |-> f, res |-> "all", left |-> 0]
        BY <2>1, <2>2, <3>1
      <4>2. e \in Completion
        BY <4>1 DEF Completion
      <4> QED
        BY <2>2, <4>2
    <3>2. CASE k # n
      <4>1. PICK x \in 1 .. PARTS : x = n - k
        BY <2>1, <3>2
      <4>2. e = [type |-> "Write", fd |-> f, res |-> "short", left |-> x]
        BY <2>2, <3>2, <4>1
      <4>3. e \in Completion
        BY <4>2 DEF Completion
      <4> QED
        BY <2>2, <4>3
    <3> QED
      BY <3>1, <3>2
  <2>4. /\ sending[f][n] > 0 /\ sending' = [sending EXCEPT ![f][n] = @ - 1]
        /\ owed' = [owed EXCEPT ![f] = @ - k] /\ lost' = lost
    BY <1>8 DEF CompleteSend, clientVars
  <2>5. \A c \in Clients : /\ Pieces(c)' = Pieces(c) + (IF c = f THEN e.left - n ELSE 0)
                           /\ Pieces(c)' \in Nat /\ Pieces(c) \in Nat
    BY <1>6, <2>1, <2>2, <2>3, <2>4
  <2>6. \A c \in Clients : Pieces(c)' = Pieces(c) - (IF c = f THEN k ELSE 0)
    BY <2>1, <2>3, <2>5
  <2>7. owed \in [Clients -> Nat] /\ Pieces(f) <= owed[f]
    BY DEF OwedInv
  <2>8. owed[f] - k \in Nat
    <3>1. owed[f] \in Nat /\ Pieces(f) - k \in Nat /\ Pieces(f) \in Nat
      BY <2>5, <2>6, <2>7
    <3> QED
      BY <2>1, <2>7, <3>1
  <2>9. /\ owed' \in [Clients -> Nat]
        /\ \A c \in Clients : owed'[c] = owed[c] - (IF c = f THEN k ELSE 0)
    BY <2>4, <2>7, <2>8
  <2>10. \A c \in Clients : /\ Pieces(c)' - owed'[c] = Pieces(c) - owed[c]
                            /\ Pieces(c)' - owed'[c] <= Pieces(c) - owed[c]
                            /\ Pieces(c)' \in Int
    <3> SUFFICES ASSUME NEW c \in Clients
                 PROVE  /\ Pieces(c)' - owed'[c] = Pieces(c) - owed[c]
                        /\ Pieces(c)' - owed'[c] <= Pieces(c) - owed[c]
                        /\ Pieces(c)' \in Int
      OBVIOUS
    <3>1. owed[c] \in Nat
      BY <2>7
    <3> QED
      BY <2>1, <2>5, <2>6, <2>9, <3>1
  <2> QED
    BY <1>1, <2>9, <2>10, OwedMoves
<1> QED
  BY <1>4, <1>5, <1>7, <1>8 DEF Kernel, SendEnds

(* The whole invariant holds throughout.                                   *)
LEMMA StepOwed == RingInv /\ OwedInv /\ [Next]_vars => OwedInv'
<1> SUFFICES ASSUME RingInv, OwedInv, [Next]_vars PROVE OwedInv'
  OBVIOUS
<1>1. CASE UNCHANGED vars
  <2>1. UNCHANGED <<outgoing_queue, msg, sending, cq, cqe, lost, owed>>
    BY <1>1 DEF vars, threadVars, queueVars, ringVars, clientVars
  <2>2. \A c : Pieces(c)' = Pieces(c)
    BY <2>1 DEF Pieces, Waiting, QueuedFor, KernelPieces, DonePieces, LeftOf
  <2> QED
    BY <2>1, <2>2, OwedKept
<1> QED
  BY <1>1, ReaderOwed, EngineOwed, WriterOwed, KernelOwed DEF Next

(* The inductive invariant holds throughout.                               *)
LEMMA Inductive == Spec => []IndInv
<1>1. Init => IndInv
  BY StartRing, StartOwed DEF IndInv
<1>2. IndInv /\ [Next]_vars => IndInv'
  BY StepRing, StepOwed DEF IndInv
<1> QED
  BY <1>1, <1>2, PTL DEF Spec

(* Every response the engine published and the wire does not have yet is   *)
(* somewhere on its way, piece by piece: in the outgoing queue, with the   *)
(* writer, submitted, or the remainder of a short send that the reader is  *)
(* to submit again; only a client that was cut off loses any.              *)
THEOREM NoResponseLostCorrect == Spec => []NoResponseLost
<1>1. IndInv => NoResponseLost
  <2> SUFFICES ASSUME IndInv PROVE NoResponseLost
    OBVIOUS
  <2>1. PipelineTypeOK
    BY DEF IndInv, RingInv, StateInv, ThreadInv, OwedInv, PipelineTypeOK
  <2>2. \A c \in Clients : PiecesOf(c) = Pieces(c)
    BY PiecesIs DEF IndInv, RingInv
  <2> QED
    BY <2>1, <2>2 DEF IndInv, OwedInv, NoResponseLost
<1> QED
  BY <1>1, Inductive, PTL
=============================================================================

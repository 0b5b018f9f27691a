----------------------------- MODULE HeapProofs -----------------------------
(***************************************************************************)
(* Proofs about the arena allocators for every HeapWords and Workload.     *)
(*                                                                         *)
(* The loops of the C code go from header to header, so what they compute  *)
(* is proved from Chain: a set H of headers whose blocks follow one        *)
(* another from start_ptr to last_ptr.  Walk and Find, the recursive       *)
(* functions of the modules, are shown to exist (by induction from the end *)
(* of the arena) and to be H and a member of H.  Each call is then a cut:  *)
(* the blocks between two headers are replaced by others that fill the     *)
(* same words.  HeapInv says that such an H exists, with the tags, the     *)
(* caller's words and, in the explicit list, a ring through the free       *)
(* blocks.                                                                 *)
(***************************************************************************)
EXTENDS Allocators, NaturalsInduction, WellFoundedInduction, FiniteSetTheorems, TLAPS

(* A set of naturals with an element has a least one.                      *)
LEMMA LeastOf ==
    ASSUME NEW T, T \subseteq Nat, T # {}
    PROVE  \E x \in T : \A y \in T : x <= y
<1> DEFINE R == {ss \in Nat \X Nat : ss[1] < ss[2]}
<1>1. IsWellFoundedOn(R, Nat)
  BY NatLessThanWellFounded DEF OpToRel
<1>2. \A x, y \in Nat : <<y, x>> \in R <=> y < x
  OBVIOUS
<1> HIDE DEF R
<1>3. PICK x \in T : \A y \in T : ~(<<y, x>> \in R)
  BY <1>1, WFMin
<1>4. x \in Nat /\ \A y \in T : y \in Nat /\ ~(y < x)
  BY <1>2, <1>3
<1> QED
  BY <1>4

(* Induction on the naturals.                                              *)
LEMMA AllOf ==
    ASSUME NEW T, 0 \in T, \A n \in Nat : n \in T => n + 1 \in T
    PROVE  Nat \subseteq T
<1> SUFFICES ASSUME Nat \ T # {} PROVE FALSE
  OBVIOUS
<1>1. PICK x \in Nat \ T : \A y \in Nat \ T : x <= y
  <2>1. Nat \ T \subseteq Nat
    OBVIOUS
  <2> QED
    BY <2>1, LeastOf
<1>2. x # 0 /\ x - 1 \in Nat /\ (x - 1) + 1 = x /\ ~(x <= x - 1)
  BY <1>1
<1>3. x - 1 \in T
  BY <1>1, <1>2
<1> QED
  BY <1>1, <1>2, <1>3

(* Induction from the end of the arena down.                               *)
LEMMA FromTheEnd ==
    ASSUME NEW l \in Nat, NEW S, S \subseteq 0 .. l, NEW T,
           \A b \in S : (\A c \in S : c > b => c \in T) => b \in T
    PROVE  S \subseteq T
<1> SUFFICES ASSUME S \ T # {} PROVE FALSE
  OBVIOUS
<1> DEFINE D == {l - b : b \in S \ T}
<1>1. D \subseteq Nat /\ D # {}
  <2>1. \A b \in S \ T : l - b \in Nat
    OBVIOUS
  <2>2. D \subseteq Nat
    BY <2>1
  <2>3. \E b : b \in S \ T
    OBVIOUS
  <2> QED
    BY <2>2, <2>3
<1>2. PICK d \in D : \A e \in D : d <= e
  BY <1>1, LeastOf
<1>3. PICK b \in S \ T : d = l - b
  BY <1>2
<1>4. ASSUME NEW c \in S, c > b PROVE c \in T
  <2>1. c \notin T => l - c \in D
    OBVIOUS
  <2>2. c \in Nat /\ b \in Nat
    BY <1>3
  <2>3. ~(l - b <= l - c)
    BY <1>4, <2>2
  <2> HIDE DEF D
  <2> QED
    BY <1>2, <1>3, <2>1, <2>3
<1> QED
  BY <1>3, <1>4
-----------------------------------------------------------------------------
(* H holds the headers of blocks that follow one another from s to l; a    *)
(* block is k words and the payload that its first word counts.            *)
Chain(H, m, s, l, k) ==
    /\ H \subseteq s .. l - 1
    /\ s \in H \cup {l}
    /\ \A b \in H : m[b] \in Nat /\ b + k + m[b] \in H \cup {l}
    /\ \A b, c \in H : b < c => b + k + m[b] <= c

(* The words a walk may read: none leads backwards.                        *)
Readable(m, s, l) == \A b \in s .. l - 1 : m[b] \in Int /\ m[b] >= -1

(* The loops of the two lists that go from header to header.               *)
IsWalk(f, m, s, l, k) ==
    f = [b \in {a \in Nat : a >= s} |-> IF b >= l THEN {}
                                        ELSE {b} \cup f[b + k + m[b]]]
IsFind(f, m, s, l, k, n) ==
    f = [b \in {a \in Nat : a >= s} |->
           IF b >= l \/ (~(m[b + 1] # 0) /\ m[b] >= n) THEN b
           ELSE f[b + k + m[b]]]
Walk(m, s, l, k) == (CHOOSE f : IsWalk(f, m, s, l, k))[s]
Find(m, s, l, k, n) == (CHOOSE f : IsFind(f, m, s, l, k, n))[s]

(* Each step of a walk goes up.                                            *)
LEMMA StepsUp ==
    ASSUME NEW s \in Nat, NEW l \in Nat, NEW k \in Nat, k >= 2, NEW m, Readable(m, s, l),
           NEW b \in Nat, b >= s, b < l
    PROVE  b + k + m[b] \in Nat /\ b + k + m[b] > b
<1>1. m[b] \in Int /\ m[b] >= -1
  BY DEF Readable
<1> QED
  BY <1>1

(* The function that collects the headers exists.                          *)
LEMMA WalkExists ==
    ASSUME NEW s \in Nat, NEW l \in Nat, NEW k \in Nat, k >= 2, NEW m, Readable(m, s, l)
    PROVE  \E f : IsWalk(f, m, s, l, k)
<1> DEFINE From(i) == {a \in Nat : a >= s /\ a >= l - i}
           Is(f, i) == f = [b \in From(i) |->
                              IF b >= l THEN {} ELSE {b} \cup f[b + k + m[b]]]
           T == {i \in Nat : \E f : Is(f, i)}
<1>1. 0 \in T
  <2> DEFINE f == [b \in From(0) |-> {}]
  <2>1. \A b \in From(0) : b >= l
    OBVIOUS
  <2>2. Is(f, 0)
    BY <2>1
  <2> QED
    BY <2>2
<1>2. ASSUME NEW i \in Nat, i \in T PROVE i + 1 \in T
  <2>1. PICK f : Is(f, i)
    BY <1>2
  <2> DEFINE g == [b \in From(i + 1) |-> IF b \in From(i) THEN f[b]
                                         ELSE {b} \cup f[b + k + m[b]]]
  <2>2. ASSUME NEW b \in From(i + 1)
        PROVE  g[b] = IF b >= l THEN {} ELSE {b} \cup g[b + k + m[b]]
    <3>1. CASE b >= l
      <4>1. b \in From(i)
        BY <3>1
      <4> QED
        BY <3>1, <4>1, <2>1
    <3>2. CASE b < l
      <4>1. PICK n : n = b + k + m[b]
        OBVIOUS
      <4>2. n \in Nat /\ n > b
        BY <3>2, <4>1, StepsUp
      <4>3. n \in From(i) /\ n \in From(i + 1)
        BY <4>2
      <4>4. g[n] = f[n]
        BY <4>3
      <4>5. b \in From(i) => f[b] = {b} \cup f[n]
        <5>1. ~(b >= l)
          BY <3>2
        <5> QED
          BY <2>1, <4>1, <5>1, Zenon
      <4>6. g[b] = {b} \cup f[n]
        BY <4>1, <4>5
      <4>7. ~(b >= l)
        BY <3>2
      <4> QED
        BY <4>1, <4>4, <4>6, <4>7, Zenon
    <3> QED
      BY <3>1, <3>2
  <2>3. Is(g, i + 1)
    BY <2>2, Zenon
  <2>4. i + 1 \in Nat
    OBVIOUS
  <2> QED
    BY <2>3, <2>4, Zenon
<1> HIDE DEF T
<1>3. Nat \subseteq T
  BY <1>1, <1>2, AllOf
<1>4. PICK f : Is(f, l)
  BY <1>3 DEF T
<1>5. From(l) = {a \in Nat : a >= s}
  OBVIOUS
<1> QED
  BY <1>4, <1>5, Zenon DEF IsWalk

(* The function that searches exists.                                      *)
LEMMA FindExists ==
    ASSUME NEW s \in Nat, NEW l \in Nat, NEW k \in Nat, k >= 2, NEW m, Readable(m, s, l),
           NEW n
    PROVE  \E f : IsFind(f, m, s, l, k, n)
<1> DEFINE From(i) == {a \in Nat : a >= s /\ a >= l - i}
           Stop(b) == b >= l \/ (~(m[b + 1] # 0) /\ m[b] >= n)
           Is(f, i) == f = [b \in From(i) |-> IF Stop(b) THEN b ELSE f[b + k + m[b]]]
           T == {i \in Nat : \E f : Is(f, i)}
<1>1. 0 \in T
  <2> DEFINE f == [b \in From(0) |-> b]
  <2>1. \A b \in From(0) : b >= l
    OBVIOUS
  <2>2. Is(f, 0)
    BY <2>1
  <2> QED
    BY <2>2
<1>2. ASSUME NEW i \in Nat, i \in T PROVE i + 1 \in T
  <2>1. PICK f : Is(f, i)
    BY <1>2
  <2> DEFINE g == [b \in From(i + 1) |-> IF b \in From(i) THEN f[b]
                                         ELSE IF Stop(b) THEN b ELSE f[b + k + m[b]]]
  <2>2. ASSUME NEW b \in From(i + 1)
        PROVE  g[b] = IF Stop(b) THEN b ELSE g[b + k + m[b]]
    <3> HIDE DEF Stop
    <3>1. CASE Stop(b)
      <4>1. b \in From(i) => f[b] = b
        BY <3>1, <2>1, Zenon
      <4> QED
        BY <3>1, <4>1, Zenon
    <3>2. CASE ~Stop(b)
      <4>1. PICK c : c = b + k + m[b]
        OBVIOUS
      <4>2. c \in Nat /\ c > b
        <5>1. b < l
          BY <3>2 DEF Stop
        <5> QED
          BY <5>1, <4>1, StepsUp
      <4>3. c \in From(i) /\ c \in From(i + 1)
        BY <4>2
      <4>4. g[c] = f[c]
        BY <4>3, Zenon
      <4>5. b \in From(i) => f[b] = f[c]
        BY <2>1, <4>1, <3>2, Zenon
      <4>6. g[b] = f[c]
        BY <4>1, <4>5, <3>2, Zenon
      <4> QED
        BY <3>2, <4>1, <4>4, <4>6, Zenon
    <3> QED
      BY <3>1, <3>2
  <2>3. Is(g, i + 1)
    <3> HIDE DEF Stop
    <3> QED
      BY <2>2, Zenon
  <2>4. i + 1 \in Nat
    OBVIOUS
  <2> QED
    BY <2>3, <2>4, Zenon
<1> HIDE DEF T
<1>3. Nat \subseteq T
  BY <1>1, <1>2, AllOf
<1>4. PICK f : Is(f, l)
  BY <1>3 DEF T
<1>5. From(l) = {a \in Nat : a >= s}
  OBVIOUS
<1> QED
  BY <1>4, <1>5, Zenon DEF IsFind

(* The words and blocks of a chain, as plain numbers.                      *)
LEMMA ChainFacts ==
    ASSUME NEW s \in Nat, NEW l \in Nat, NEW k \in Nat, NEW m, NEW H,
           Chain(H, m, s, l, k), NEW b \in H
    PROVE  /\ b \in Nat /\ s <= b /\ b < l /\ m[b] \in Nat
           /\ b + k + m[b] \in H \cup {l} /\ b + k + m[b] <= l
           /\ s \in H
<1>1. b \in s .. l - 1 /\ m[b] \in Nat /\ b + k + m[b] \in H \cup {l}
  BY DEF Chain
<1>2. \A c \in H : c \in s .. l - 1
  BY DEF Chain
<1>3. b + k + m[b] <= l
  BY <1>1, <1>2
<1>4. s \in H
  <2>1. s \in H \cup {l}
    BY DEF Chain
  <2> QED
    BY <1>1, <2>1
<1> QED
  BY <1>1, <1>3, <1>4

(* A walk over a chain collects its headers.                               *)
LEMMA WalkIs ==
    ASSUME NEW s \in Nat, NEW l \in Nat, NEW k \in Nat, k >= 2, NEW m, Readable(m, s, l),
           NEW H, Chain(H, m, s, l, k)
    PROVE  Walk(m, s, l, k) = H
<1>1. PICK f : IsWalk(f, m, s, l, k) /\ Walk(m, s, l, k) = f[s]
  BY WalkExists, Zenon DEF Walk
<1> DEFINE T == {b \in Nat : f[b] = {h \in H : h >= b}}
<1>2. H \cup {l} \subseteq 0 .. l /\ s <= l
  BY DEF Chain
<1>3. ASSUME NEW b \in H \cup {l}, \A c \in H \cup {l} : c > b => c \in T
      PROVE  b \in T
  <2>1. b \in Nat /\ b >= s
    BY DEF Chain
  <2>2. f[b] = IF b >= l THEN {} ELSE {b} \cup f[b + k + m[b]]
    BY <1>1, <2>1, Zenon DEF IsWalk
  <2>3. CASE b = l
    <3>0. \A h \in H : ~(h >= b)
      BY <2>3 DEF Chain
    <3>1. {h \in H : h >= b} = {}
      BY <3>0
    <3>2. b >= l
      BY <2>3
    <3>3. f[b] = {h \in H : h >= b}
      BY <3>1, <3>2, <2>2, Zenon
    <3> QED
      BY <2>1, <3>3
  <2>4. CASE b # l
    <3>1. b \in H
      BY <2>4
    <3>2. PICK n : n = b + k + m[b]
      OBVIOUS
    <3>3. n \in H \cup {l} /\ m[b] \in Nat
      BY <3>1, <3>2 DEF Chain
    <3>4. n > b /\ ~(b >= l)
      BY <3>1, <3>2, <3>3, ChainFacts
    <3>5. f[n] = {h \in H : h >= n}
      BY <1>3, <3>3, <3>4
    <3>6. ASSUME NEW h \in H PROVE h >= b <=> h = b \/ h >= n
      <4>1. b < h => n <= h
        BY <3>1, <3>2 DEF Chain
      <4>2. h \in Nat /\ b \in Nat /\ n \in Nat
        BY <3>1, <3>2, <3>3 DEF Chain
      <4> QED
        BY <3>4, <4>1, <4>2
    <3>7. {h \in H : h >= b} = {b} \cup {h \in H : h >= n}
      <4>1. b >= b
        BY <2>1
      <4> QED
        BY <3>1, <3>6, <4>1, Zenon
    <3>8. f[b] = {b} \cup f[n]
      BY <2>2, <3>2, <3>4, Zenon
    <3>9. f[b] = {h \in H : h >= b}
      BY <3>5, <3>7, <3>8, Zenon
    <3> QED
      BY <2>1, <3>9
  <2> QED
    BY <2>3, <2>4
<1> HIDE DEF T
<1>4. H \cup {l} \subseteq T
  BY <1>2, <1>3, FromTheEnd
<1>5. s \in T
  BY <1>4 DEF Chain
<1>6. \A h \in H : h >= s
  BY DEF Chain
<1>7. {h \in H : h >= s} = H
  BY <1>6
<1> QED
  BY <1>1, <1>5, <1>7 DEF T

(* A search over a chain ends at a free block that fits, or at its end.    *)
LEMMA FindIs ==
    ASSUME NEW s \in Nat, NEW l \in Nat, NEW k \in Nat, k >= 2, NEW m, Readable(m, s, l),
           NEW H, Chain(H, m, s, l, k), NEW n
    PROVE  /\ Find(m, s, l, k, n) \in H \cup {l}
           /\ Find(m, s, l, k, n) # l => /\ m[Find(m, s, l, k, n) + 1] = 0
                                         /\ m[Find(m, s, l, k, n)] >= n
<1> DEFINE Stop(b) == b >= l \/ (~(m[b + 1] # 0) /\ m[b] >= n)
<1>1. PICK f : IsFind(f, m, s, l, k, n) /\ Find(m, s, l, k, n) = f[s]
  BY FindExists, Zenon DEF Find
<1> DEFINE T == {b \in Nat : f[b] \in H \cup {l} /\ Stop(f[b])}
<1>2. H \cup {l} \subseteq 0 .. l /\ s <= l
  BY DEF Chain
<1>3. ASSUME NEW b \in H \cup {l}, \A c \in H \cup {l} : c > b => c \in T
      PROVE  b \in T
  <2>1. b \in Nat /\ b >= s
    BY DEF Chain
  <2>2. f[b] = IF Stop(b) THEN b ELSE f[b + k + m[b]]
    BY <1>1, <2>1, Zenon DEF IsFind
  <2> HIDE DEF Stop
  <2>3. CASE Stop(b)
    <3>1. f[b] = b
      BY <2>2, <2>3
    <3> QED
      BY <2>1, <2>3, <3>1
  <2>4. CASE ~Stop(b)
    <3>0. b # l
      BY <2>1, <2>4 DEF Stop
    <3>1. b \in H
      BY <3>0
    <3>2. PICK c : c = b + k + m[b]
      OBVIOUS
    <3>3. c \in H \cup {l} /\ m[b] \in Nat
      BY <3>1, <3>2 DEF Chain
    <3>4. c > b
      BY <3>1, <3>2, <3>3, ChainFacts
    <3>5. c \in T
      BY <1>3, <3>3, <3>4
    <3>6. f[b] = f[c]
      BY <2>2, <2>4, <3>2, Zenon
    <3> QED
      BY <2>1, <3>5, <3>6
  <2> QED
    BY <2>3, <2>4
<1> HIDE DEF T
<1>4. H \cup {l} \subseteq T
  BY <1>2, <1>3, FromTheEnd
<1>5. s \in T
  BY <1>4 DEF Chain
<1>6. f[s] \in H \cup {l} /\ Stop(f[s])
  BY <1>5 DEF T
<1>7. PICK x : x = f[s]
  OBVIOUS
<1>8. x # l => ~(x >= l)
  BY <1>6, <1>7, ChainFacts
<1>9. x # l => m[x + 1] = 0 /\ m[x] >= n
  BY <1>6, <1>7, <1>8, Zenon
<1>10. Find(m, s, l, k, n) = x
  BY <1>1, <1>7
<1> QED
  BY <1>6, <1>7, <1>9, <1>10, Zenon

-----------------------------------------------------------------------------
(* Blocks in a row                                                         *)

(* The headers of H that do not lie between x and y.                       *)
Out(H, x, y) == {c \in H : c < x \/ c >= y}

(* Block c keeps its size and flag and, while allocated, its payload.      *)
Same(c, m, m2) == /\ m2[c] = m[c] /\ m2[c + 1] = m[c + 1]
                  /\ m[c + 1] # 0 => \A a \in c + 2 .. c + 1 + m[c] : m2[a] = m[a]

(* In place of the blocks of H from x to y there are those of N, from x    *)
(* to z: z is y, or y was the end l of the chain and z is its end now.     *)
Cut(H, m, s, l, k, x, y, N, m2, z, l2) ==
    /\ s \in Nat /\ l \in Nat /\ k \in Nat /\ k >= 2 /\ z \in Nat /\ l2 \in Nat
    /\ Chain(H, m, s, l, k)
    /\ x \in H \cup {l} /\ y \in H \cup {l} /\ x <= y
    /\ Chain(N, m2, x, z, k) /\ N # {}
    /\ (y = l /\ l2 = z) \/ (y = z /\ l2 = l)
    /\ \A c \in Out(H, x, y) : Same(c, m, m2)

(* The places of a cut, as plain numbers.                                  *)
LEMMA CutFacts ==
    ASSUME NEW H, NEW m, NEW s, NEW l, NEW k, NEW x, NEW y, NEW N, NEW m2, NEW z, NEW l2,
           Cut(H, m, s, l, k, x, y, N, m2, z, l2)
    PROVE  /\ s \in Nat /\ l \in Nat /\ k \in Nat /\ k >= 2 /\ z \in Nat /\ l2 \in Nat
           /\ x \in Nat /\ y \in Nat /\ s <= x /\ x <= y /\ y <= l /\ x < z /\ z <= l2
           /\ x \in N /\ x < l2
           /\ y # l => y = z /\ l2 = l /\ y \in H
           /\ y = l => l2 = z
<1>1. /\ s \in Nat /\ l \in Nat /\ k \in Nat /\ k >= 2 /\ z \in Nat /\ l2 \in Nat
      /\ x \in H \cup {l} /\ y \in H \cup {l} /\ x <= y
      /\ (y = l /\ l2 = z) \/ (y = z /\ l2 = l)
  BY DEF Cut
<1>2. \A c \in H : c \in Nat /\ s <= c /\ c < l
  BY ChainFacts DEF Cut
<1>3. s \in H \cup {l} /\ s <= l
  <2>1. s \in H \cup {l}
    BY DEF Cut, Chain
  <2> QED
    BY <1>1, <1>2, <2>1
<1>4. x \in Nat /\ y \in Nat /\ s <= x /\ y <= l
  BY <1>1, <1>2, <1>3
<1>5. PICK b \in N : TRUE
  BY DEF Cut
<1>6. x \in N /\ x < z
  <2>1. Chain(N, m2, x, z, k)
    BY DEF Cut
  <2>2. b \in Nat /\ x <= b /\ b < z /\ x \in N
    BY <1>1, <1>4, <2>1, ChainFacts
  <2> QED
    BY <1>1, <1>4, <2>2
<1> QED
  BY <1>1, <1>4, <1>6

(* The blocks that stay: each lies before the cut or behind it.            *)
LEMMA OutFacts ==
    ASSUME NEW H, NEW m, NEW s, NEW l, NEW k, NEW x, NEW y, NEW N, NEW m2, NEW z, NEW l2,
           Cut(H, m, s, l, k, x, y, N, m2, z, l2), NEW c \in Out(H, x, y)
    PROVE  /\ c \in H /\ c \in Nat /\ s <= c /\ c < l /\ c < l2
           /\ c < x \/ (c >= y /\ y # l /\ y = z)
           /\ m2[c] = m[c] /\ m2[c] \in Nat
           /\ c + k + m2[c] \in H \cup {l}
           /\ c < x => c + k + m2[c] <= x
<1>1. /\ s \in Nat /\ l \in Nat /\ k \in Nat /\ z \in Nat /\ l2 \in Nat
      /\ x \in Nat /\ y \in Nat /\ y <= l /\ x < z /\ z <= l2
      /\ y # l => y = z /\ l2 = l
  BY CutFacts
<1>2. Chain(H, m, s, l, k) /\ x \in H \cup {l}
  BY DEF Cut
<1>3. c \in H /\ (c < x \/ c >= y) /\ m2[c] = m[c]
  BY DEF Cut, Same, Out
<1>4. c \in Nat /\ s <= c /\ c < l /\ m[c] \in Nat /\ c + k + m[c] \in H \cup {l} /\ c + k + m[c] <= l
  BY <1>1, <1>2, <1>3, ChainFacts
<1>5. c < x => c + k + m[c] <= x
  <2>1. x = l \/ x \in H
    BY <1>2
  <2>2. x \in H /\ c < x => c + k + m[c] <= x
    BY <1>2, <1>3 DEF Chain
  <2> QED
    BY <1>4, <2>1, <2>2
<1>6. c < l2 /\ (c < x \/ (c >= y /\ y # l /\ y = z))
  BY <1>1, <1>3, <1>4
<1> QED
  BY <1>3, <1>4, <1>5, <1>6

(* What replaces a stretch of a chain makes a chain with the rest.         *)
LEMMA Splice ==
    ASSUME NEW H, NEW m, NEW s, NEW l, NEW k, NEW x, NEW y, NEW N, NEW m2, NEW z, NEW l2,
           Cut(H, m, s, l, k, x, y, N, m2, z, l2)
    PROVE  Chain(Out(H, x, y) \cup N, m2, s, l2, k)
<1> DEFINE J == Out(H, x, y) \cup N
<1>1. /\ s \in Nat /\ l \in Nat /\ k \in Nat /\ k >= 2 /\ z \in Nat /\ l2 \in Nat
      /\ x \in Nat /\ y \in Nat /\ s <= x /\ x <= y /\ y <= l /\ x < z /\ z <= l2
      /\ x \in N /\ x < l2
      /\ y # l => y = z /\ l2 = l /\ y \in H
      /\ y = l => l2 = z
  BY CutFacts
<1>2. Chain(H, m, s, l, k) /\ Chain(N, m2, x, z, k) /\ x \in H \cup {l} /\ y \in H \cup {l}
  BY DEF Cut
<1>3. ASSUME NEW c \in Out(H, x, y)
      PROVE  /\ c \in H /\ c \in Nat /\ s <= c /\ c < l /\ c < l2
             /\ c < x \/ (c >= y /\ y # l)
             /\ m2[c] = m[c] /\ m2[c] \in Nat
             /\ c + k + m2[c] \in H \cup {l}
             /\ c < x => c + k + m2[c] <= x
  BY OutFacts
<1>4. ASSUME NEW c \in N
      PROVE  /\ c \in Nat /\ x <= c /\ c < z /\ m2[c] \in Nat
             /\ c + k + m2[c] \in N \cup {z} /\ c + k + m2[c] <= z
  <2>1. x \in Nat /\ z \in Nat /\ k \in Nat /\ Chain(N, m2, x, z, k)
    BY <1>1, <1>2
  <2> QED
    BY <2>1, ChainFacts, Zenon
<1>5. J \subseteq s .. l2 - 1
  <2>1. ASSUME NEW c \in J PROVE c \in Nat /\ s <= c /\ c < l2
    <3>1. CASE c \in N
      BY <1>1, <1>4, <3>1
    <3> QED
      BY <1>3, <3>1
  <2> HIDE DEF J
  <2> QED
    BY <1>1, <2>1
<1>6. s \in J \cup {l2}
  <2>1. s \in H \cup {l}
    BY <1>2 DEF Chain
  <2>2. CASE s = x
    BY <1>1, <2>2
  <2>3. CASE s # x
    <3>1. s < x /\ s # l
      BY <1>1, <2>3
    <3>2. s \in H /\ s < x
      BY <2>1, <3>1
    <3> QED
      BY <3>2 DEF Out
  <2> QED
    BY <2>2, <2>3
<1>7. ASSUME NEW b \in J PROVE m2[b] \in Nat /\ b + k + m2[b] \in J \cup {l2}
  <2>0. PICK n : n = b + k + m2[b]
    OBVIOUS
  <2>1. CASE b \in N
    <3>1. m2[b] \in Nat /\ n \in N \cup {z}
      BY <1>4, <2>0, <2>1
    <3>2. z = l2 \/ (z = y /\ y \in H)
      BY <1>1
    <3>3. y \in H => y \in Out(H, x, y)
      BY <1>1 DEF Out
    <3> QED
      BY <2>0, <3>1, <3>2, <3>3
  <2>2. CASE b \in Out(H, x, y)
    <3>1. m2[b] \in Nat /\ n \in H \cup {l} /\ b \in Nat /\ b < l
      BY <1>3, <2>0, <2>2
    <3>2. n \in Nat /\ n > b
      BY <1>1, <3>1, <2>0
    <3>3. CASE b < x
      <4>1. n <= x
        BY <1>3, <2>0, <2>2, <3>3
      <4>2. n = x \/ n < x
        BY <1>1, <3>2, <4>1
      <4>3. n < x => n # l
        BY <1>1, <3>2
      <4>4. n < x => n \in Out(H, x, y)
        BY <3>1, <4>3 DEF Out
      <4> QED
        BY <1>1, <2>0, <3>1, <4>2, <4>4
    <3>4. CASE b >= y /\ y # l
      <4>1. n >= y /\ l2 = l
        BY <1>1, <3>1, <3>2, <3>4
      <4>2. n \in H => n \in Out(H, x, y)
        BY <4>1 DEF Out
      <4> QED
        BY <2>0, <3>1, <4>1, <4>2
    <3> QED
      BY <1>3, <2>2, <3>3, <3>4
  <2> QED
    BY <2>1, <2>2
<1>8. ASSUME NEW b \in J, NEW c \in J, b < c PROVE b + k + m2[b] <= c
  <2>1. CASE b \in N /\ c \in N
    BY <1>2, <1>8, <2>1 DEF Chain
  <2>2. CASE b \in Out(H, x, y) /\ c \in Out(H, x, y)
    <3>1. b \in H /\ c \in H /\ m2[b] = m[b]
      BY <1>3, <2>2
    <3> QED
      BY <1>2, <1>8, <3>1 DEF Chain
  <2>3. CASE b \in Out(H, x, y) /\ c \in N
    <3>1. c \in Nat /\ x <= c /\ c < z /\ b \in Nat /\ m2[b] \in Nat
      BY <1>3, <1>4, <2>3
    <3>2. CASE b < x
      <4>1. b + k + m2[b] <= x
        BY <1>3, <2>3, <3>2
      <4> QED
        BY <1>1, <3>1, <4>1
    <3>3. CASE b >= y /\ y # l
      BY <1>1, <1>8, <3>1, <3>3
    <3> QED
      BY <1>3, <2>3, <3>2, <3>3
  <2>4. CASE b \in N /\ c \in Out(H, x, y)
    <3>1. b \in Nat /\ x <= b /\ m2[b] \in Nat /\ b + k + m2[b] <= z /\ c \in Nat
      BY <1>3, <1>4, <2>4
    <3>2. c < x \/ (c >= y /\ y # l)
      BY <1>3, <2>4
    <3> QED
      BY <1>1, <1>8, <3>1, <3>2
  <2> QED
    BY <2>1, <2>2, <2>3, <2>4
<1> QED
  BY <1>5, <1>6, <1>7, <1>8 DEF Chain

(* An allocated block has room for what was asked, and still holds what    *)
(* the caller wrote.                                                       *)
Sound(b, m, hd) ==
    m[b + 1] # 0 => /\ hd[b + 2] \in Nat /\ hd[b + 2] <= m[b]
                    /\ \A a \in b + 2 .. b + 1 + hd[b + 2] : m[a] = UserData

(* The payloads of the allocated blocks.                                   *)
Owned(H, m) == {b + 2 : b \in {h \in H : m[h + 1] # 0}}

(* A chain whose allocated blocks are what the caller holds.               *)
Laid(H, m, s, l, k, hd) == /\ Chain(H, m, s, l, k)
                           /\ DOMAIN hd = Owned(H, m)
                           /\ \A b \in H : Sound(b, m, hd)

(* What is held once p was handed out for q words.                         *)
Given(hd, p, q) == [r \in DOMAIN hd \cup {p} |-> IF r = p THEN q ELSE hd[r]]

(* The region of q words at p overlaps none that is held.                  *)
Fresh(hd, p, q) == /\ p \notin DOMAIN hd
                   /\ \A r \in DOMAIN hd : (p .. p + q - 1) \cap (r .. r + hd[r] - 1) = {}

(* No block of H from x to y is allocated; of N only x is; and q words of  *)
(* the payload of x, which has room for them, are the caller's.            *)
FreeFrom(H, m, x, y) == \A c \in H : x <= c /\ c < y => m[c + 1] = 0
OnlyFirst(N, m, x) == m[x + 1] # 0 /\ \A c \in N : c # x => m[c + 1] = 0
Wrote(m, x, q) == q <= m[x] /\ \A a \in x + 2 .. x + 1 + q : m[a] = UserData

(* A block that stays is as sound as it was.                               *)
LEMMA StaysSound ==
    ASSUME NEW c \in Nat, NEW m, NEW m2, m[c] \in Nat, Same(c, m, m2), NEW hd, NEW hd2,
           Sound(c, m, hd), m[c + 1] # 0 => hd2[c + 2] = hd[c + 2]
    PROVE  Sound(c, m2, hd2)
<1> SUFFICES ASSUME m2[c + 1] # 0
             PROVE  /\ hd2[c + 2] \in Nat /\ hd2[c + 2] <= m2[c]
                    /\ \A a \in c + 2 .. c + 1 + hd2[c + 2] : m2[a] = UserData
  BY DEF Sound
<1>1. /\ m2[c] = m[c] /\ m[c + 1] # 0 /\ hd2[c + 2] = hd[c + 2]
      /\ \A a \in c + 2 .. c + 1 + m[c] : m2[a] = m[a]
  BY DEF Same
<1>2. PICK n : n = hd[c + 2]
  OBVIOUS
<1>3. n \in Nat /\ n <= m[c] /\ \A a \in c + 2 .. c + 1 + n : m[a] = UserData
  BY <1>1, <1>2 DEF Sound
<1>4. \A a \in c + 2 .. c + 1 + n : a \in c + 2 .. c + 1 + m[c]
  BY <1>3
<1>5. \A a \in c + 2 .. c + 1 + n : m2[a] = UserData
  BY <1>1, <1>3, <1>4, Zenon
<1> QED
  BY <1>1, <1>2, <1>3, <1>5

(* Handing out block x, the first of the blocks that replace free ones.    *)
LEMMA Handed ==
    ASSUME NEW H, NEW m, NEW s, NEW l, NEW k, NEW x, NEW y, NEW N, NEW m2, NEW z, NEW l2,
           NEW hd, Cut(H, m, s, l, k, x, y, N, m2, z, l2), Laid(H, m, s, l, k, hd),
           FreeFrom(H, m, x, y), OnlyFirst(N, m2, x), NEW q \in Nat, Wrote(m2, x, q)
    PROVE  /\ Laid(Out(H, x, y) \cup N, m2, s, l2, k, Given(hd, x + 2, q))
           /\ Fresh(hd, x + 2, q)
<1> DEFINE J == Out(H, x, y) \cup N
<1>1. PICK hd2 : hd2 = Given(hd, x + 2, q)
  OBVIOUS
<1>2. /\ x \in Nat /\ y \in Nat /\ z \in Nat /\ k \in Nat /\ k >= 2
      /\ x \in N /\ x < z
  BY CutFacts
<1>3. ASSUME NEW c \in Out(H, x, y)
      PROVE  /\ c \in H /\ c \in Nat /\ c # x /\ (c < x \/ c >= z)
             /\ m[c] \in Nat
             /\ c < x => c + k + m[c] <= x
             /\ Same(c, m, m2)
  <2>1. /\ c \in H /\ c \in Nat
        /\ c < x \/ (c >= y /\ y # l /\ y = z)
        /\ m2[c] = m[c] /\ m2[c] \in Nat
        /\ c < x => c + k + m2[c] <= x
    BY OutFacts
  <2>2. Same(c, m, m2)
    BY DEF Cut
  <2> QED
    BY <1>2, <2>1, <2>2
<1>4. ASSUME NEW c \in H, m[c + 1] # 0 PROVE c \in Out(H, x, y)
  <2>1. ~(x <= c /\ c < y)
    BY <1>4 DEF FreeFrom
  <2>2. c \in Nat
    BY ChainFacts DEF Cut
  <2> QED
    BY <1>2, <2>1, <2>2 DEF Out
<1>5. DOMAIN hd = Owned(H, m) /\ \A b \in H : Sound(b, m, hd)
  BY DEF Laid
<1>6. ASSUME NEW c \in H, m[c + 1] # 0 PROVE c + 2 # x + 2
  BY <1>2, <1>3, <1>4, <1>6
<1>7. x + 2 \notin DOMAIN hd
  <2>1. ASSUME NEW c \in {h \in H : m[h + 1] # 0} PROVE x + 2 # c + 2
    BY <1>6
  <2> QED
    BY <1>5, <2>1 DEF Owned
<1>8. ASSUME NEW p \in DOMAIN hd
      PROVE  (x + 2 .. x + 2 + q - 1) \cap (p .. p + hd[p] - 1) = {}
  <2>1. PICK c \in H : m[c + 1] # 0 /\ p = c + 2
    BY <1>5 DEF Owned
  <2>2. PICK n : n = hd[p]
    OBVIOUS
  <2>3. n \in Nat /\ n <= m[c]
    BY <1>5, <2>1, <2>2 DEF Sound
  <2>4. /\ c \in Nat /\ (c < x \/ c >= z) /\ m[c] \in Nat
        /\ c < x => c + k + m[c] <= x
    BY <1>3, <1>4, <2>1
  <2>5. x + 2 + q <= z
    <3>1. Chain(N, m2, x, z, k)
      BY DEF Cut
    <3>2. m2[x] \in Nat /\ x + k + m2[x] <= z
      BY <1>2, <3>1, ChainFacts
    <3> QED
      BY <1>2, <3>2 DEF Wrote
  <2>6. c + 2 + n <= x \/ c + 2 >= x + 2 + q
    BY <1>2, <2>3, <2>4, <2>5
  <2> QED
    BY <1>2, <2>1, <2>2, <2>3, <2>4, <2>6
<1>9. DOMAIN hd2 = Owned(J, m2)
  <2>1. DOMAIN hd2 = Owned(H, m) \cup {x + 2}
    BY <1>1, <1>5 DEF Given
  <2>2. ASSUME NEW c \in H, m[c + 1] # 0 PROVE c \in J /\ m2[c + 1] # 0
    BY <1>3, <1>4, <2>2 DEF Same
  <2>3. ASSUME NEW c \in J, m2[c + 1] # 0 PROVE c = x \/ (c \in H /\ m[c + 1] # 0)
    BY <1>3, <2>3 DEF Same, OnlyFirst
  <2>4. x \in J /\ m2[x + 1] # 0
    BY <1>2 DEF OnlyFirst
  <2> HIDE DEF J
  <2>5. \A r : r \in Owned(J, m2) <=> r \in Owned(H, m) \cup {x + 2}
    BY <2>2, <2>3, <2>4, Zenon DEF Owned
  <2> QED
    BY <2>1, <2>5
<1>10. ASSUME NEW b \in J PROVE Sound(b, m2, hd2)
  <2>1. CASE b \in Out(H, x, y)
    <3>1. m[b + 1] # 0 => b + 2 \in DOMAIN hd
      BY <1>3, <1>5, <2>1 DEF Owned
    <3>2. m[b + 1] # 0 => hd2[b + 2] = hd[b + 2]
      BY <1>1, <1>3, <1>6, <2>1, <3>1, Zenon DEF Given
    <3>3. /\ b \in Nat /\ m[b] \in Nat /\ Same(b, m, m2) /\ Sound(b, m, hd)
      BY <1>3, <1>5, <2>1
    <3> QED
      BY <3>2, <3>3, StaysSound
  <2>2. CASE b = x
    <3>1. hd2[x + 2] = q
      BY <1>1 DEF Given
    <3> QED
      BY <2>2, <3>1 DEF Sound, Wrote
  <2>3. CASE b \in N /\ b # x
    BY <2>3 DEF Sound, OnlyFirst
  <2> QED
    BY <2>1, <2>2, <2>3
<1>11. Chain(J, m2, s, l2, k)
  BY Splice
<1>12. Laid(J, m2, s, l2, k, hd2)
  BY <1>9, <1>10, <1>11 DEF Laid
<1>13. Fresh(hd, x + 2, q)
  BY <1>7, <1>8 DEF Fresh
<1> QED
  BY <1>1, <1>12, <1>13

(* Block x of m2, which is free, takes the place of block b and of free    *)
(* blocks around it, from x to y.                                          *)
Joined(H, m, s, l, k, x, y, m2, z, l2, hd, b) ==
    /\ Cut(H, m, s, l, k, x, y, {x}, m2, z, l2) /\ Laid(H, m, s, l, k, hd)
    /\ b \in H /\ x <= b /\ b < y /\ m2[x + 1] = 0 /\ FreeFrom(H \ {b}, m, x, y)

(* Taking back block b, one free block taking the place of it and of free  *)
(* blocks around it.                                                       *)
LEMMA Released ==
    ASSUME NEW H, NEW m, NEW s, NEW l, NEW k, NEW x, NEW y, NEW m2, NEW z, NEW l2,
           NEW hd, NEW b, Joined(H, m, s, l, k, x, y, m2, z, l2, hd, b)
    PROVE  \E J : /\ J = Out(H, x, y) \cup {x}
                  /\ Laid(J, m2, s, l2, k, Restrict(hd, DOMAIN hd \ {b + 2}))
<1> DEFINE J == Out(H, x, y) \cup {x}
<1>0. /\ Cut(H, m, s, l, k, x, y, {x}, m2, z, l2) /\ Laid(H, m, s, l, k, hd)
      /\ b \in H /\ x <= b /\ b < y /\ m2[x + 1] = 0 /\ FreeFrom(H \ {b}, m, x, y)
  BY DEF Joined
<1> USE <1>0
<1>1. PICK hd2 : hd2 = Restrict(hd, DOMAIN hd \ {b + 2})
  OBVIOUS
<1>2. /\ x \in Nat /\ y \in Nat /\ z \in Nat /\ k \in Nat /\ x < z
  BY CutFacts
<1>3. ASSUME NEW c \in Out(H, x, y)
      PROVE  /\ c \in H /\ c \in Nat /\ c # b /\ m[c] \in Nat /\ Same(c, m, m2)
             /\ c # x
  <2>1. /\ c \in H /\ c \in Nat
        /\ c < x \/ (c >= y /\ y # l /\ y = z)
        /\ m2[c] = m[c] /\ m2[c] \in Nat
    BY OutFacts
  <2>2. Same(c, m, m2)
    BY DEF Cut
  <2>3. b \in Nat
    BY ChainFacts DEF Cut
  <2> QED
    BY <1>2, <2>1, <2>2, <2>3
<1>4. ASSUME NEW c \in H, m[c + 1] # 0, c # b PROVE c \in Out(H, x, y)
  <2>1. ~(x <= c /\ c < y)
    BY <1>4 DEF FreeFrom
  <2>2. c \in Nat
    BY ChainFacts DEF Cut
  <2> QED
    BY <1>2, <2>1, <2>2 DEF Out
<1>5. DOMAIN hd = Owned(H, m) /\ \A c \in H : Sound(c, m, hd)
  BY DEF Laid
<1>6. DOMAIN hd2 = Owned(J, m2)
  <2>1. DOMAIN hd2 = Owned(H, m) \ {b + 2}
    BY <1>1, <1>5 DEF Restrict
  <2>2. ASSUME NEW c \in H, m[c + 1] # 0, c # b PROVE c \in J /\ m2[c + 1] # 0
    BY <1>3, <1>4, <2>2 DEF Same
  <2>3. ASSUME NEW c \in J, m2[c + 1] # 0 PROVE c \in H /\ m[c + 1] # 0 /\ c # b
    BY <1>3, <2>3 DEF Same
  <2>4. \A c \in H : c # b => c + 2 # b + 2
    <3>1. \A c \in H : c \in Nat
      BY ChainFacts DEF Cut
    <3> QED
      BY <3>1
  <2> HIDE DEF J
  <2>5. \A r : r \in Owned(J, m2) <=> r \in Owned(H, m) \ {b + 2}
    BY <2>2, <2>3, <2>4, Zenon DEF Owned
  <2> QED
    BY <2>1, <2>5
<1>7. ASSUME NEW c \in J PROVE Sound(c, m2, hd2)
  <2>1. CASE c \in Out(H, x, y)
    <3>0. b \in Nat /\ c \in Nat /\ c # b
      BY <1>3, <2>1, ChainFacts DEF Cut
    <3>1. m[c + 1] # 0 => c + 2 \in DOMAIN hd \ {b + 2}
      BY <1>3, <1>5, <2>1, <3>0 DEF Owned
    <3>2. m[c + 1] # 0 => hd2[c + 2] = hd[c + 2]
      BY <1>1, <3>1, Zenon DEF Restrict
    <3>3. c \in Nat /\ m[c] \in Nat /\ Same(c, m, m2) /\ Sound(c, m, hd)
      BY <1>3, <1>5, <2>1
    <3> QED
      BY <3>2, <3>3, StaysSound
  <2>2. CASE c = x
    BY <2>2 DEF Sound
  <2> QED
    BY <2>1, <2>2
<1>8. Chain(J, m2, s, l2, k)
  BY Splice
<1>9. Laid(J, m2, s, l2, k, hd2)
  BY <1>6, <1>7, <1>8 DEF Laid
<1> QED
  BY <1>1, <1>9
-----------------------------------------------------------------------------
(* Every footer repeats its header's size, and behind a free block comes   *)
(* an allocated one or the end.                                            *)
FootAt(m, b) == m[b + 2 + m[b]]
Footed(H, m) == \A b \in H : FootAt(m, b) = m[b]
Apart(H, m, l) ==
    \A b \in H : m[b + 1] = 0 /\ b + 3 + m[b] # l => m[b + 3 + m[b] + 1] # 0
FootsKept(H, m, m2) == \A c \in H : FootAt(m2, c) = FootAt(m, c)

(* No free block of H ends at x unless the block at x is taken.            *)
FrontTaken(H, m, m2, x) ==
    \A c \in H : c + 3 + m[c] = x /\ m[c + 1] = 0 => m2[x + 1] # 0

(* The tags stay right when a stretch is replaced: the new blocks have     *)
(* right ones, and the block in front of the first and the one behind the  *)
(* last are not free next to a free one.                                   *)
LEMMA Retagged ==
    ASSUME NEW H, NEW m, NEW s, NEW l, NEW x, NEW y, NEW N, NEW m2, NEW z, NEW l2,
           Cut(H, m, s, l, 3, x, y, N, m2, z, l2), Footed(H, m), Apart(H, m, l),
           FootsKept(Out(H, x, y), m, m2), FrontTaken(Out(H, x, y), m, m2, x),
           Footed(N, m2), Apart(N, m2, l2)
    PROVE  Footed(Out(H, x, y) \cup N, m2) /\ Apart(Out(H, x, y) \cup N, m2, l2)
<1>1. /\ x \in Nat /\ y \in Nat /\ z \in Nat /\ x < z /\ s \in Nat /\ l \in Nat /\ l2 \in Nat
      /\ x <= y /\ y <= l
      /\ y # l => y = z /\ l2 = l /\ y \in H
  BY CutFacts
<1>2. ASSUME NEW c \in Out(H, x, y)
      PROVE  /\ FootAt(m2, c) = m2[c]
             /\ m2[c + 1] = 0 /\ c + 3 + m2[c] # l2 => m2[c + 3 + m2[c] + 1] # 0
  <2>1. PICK n : n = c + 3 + m[c]
    OBVIOUS
  <2>2. /\ c \in H /\ c \in Nat
        /\ c < x \/ (c >= y /\ y # l /\ y = z)
        /\ m2[c] = m[c] /\ m2[c] \in Nat
        /\ n \in H \cup {l}
        /\ c < x => n <= x
    BY <2>1, OutFacts
  <2>3. m2[c + 1] = m[c + 1]
    BY DEF Cut, Same
  <2>4. FootAt(m, c) = m[c] /\ (m[c + 1] = 0 /\ n # l => m[n + 1] # 0)
    BY <2>1, <2>2 DEF Footed, Apart
  <2>5. ASSUME m[c + 1] = 0, n # l2 PROVE m2[n + 1] # 0
    <3>1. CASE n = x
      BY <2>1, <2>5, <3>1 DEF FrontTaken
    <3>2. CASE n # x
      <4>1. n \in Nat /\ n > c
        BY <2>1, <2>2
      <4>2. n # l /\ (n < x \/ n >= y)
        BY <1>1, <2>2, <2>5, <3>2, <4>1
      <4>3. n \in Out(H, x, y)
        BY <2>2, <4>2 DEF Out
      <4>4. m2[n + 1] = m[n + 1]
        BY <4>3 DEF Cut, Same
      <4> QED
        BY <2>4, <2>5, <4>2, <4>4
    <3> QED
      BY <3>1, <3>2
  <2>6. FootAt(m2, c) = m2[c]
    BY <2>2, <2>4 DEF FootsKept
  <2> QED
    BY <2>1, <2>2, <2>3, <2>5, <2>6
<1>3. Footed(Out(H, x, y) \cup N, m2)
  BY <1>2 DEF Footed
<1> QED
  BY <1>2, <1>3 DEF Apart

-----------------------------------------------------------------------------
(* What every allocator keeps                                              *)

(* What holds of every allocator: words are sizes, flags, addresses or the *)
(* caller's, and nothing is held without an arena.                         *)
WordValues == {v \in Int : v >= -1}
ArenaInv == /\ kind \in Kinds \cup {"pool"}
            /\ mem \in [Words -> WordValues]
            /\ ~Mapped => held = <<>>
            /\ ~Mapped \/ kind # "explicit" => HEAD = NULL
            /\ Mapped => size \in DOMAIN Workload[kind] /\ kind \in Kinds
            /\ \A p \in DOMAIN held : held[p] \in Requests

(* The words once the caller wrote the n it asked for at p.                *)
Filled(m, p, n) == [a \in Words |-> IF a \in p .. p + n - 1 THEN UserData ELSE m[a]]

(* A step as the caller sees it.                                           *)
Seen ==
    \/ MappedWords' = MappedWords /\ held' = held
    \/ MappedWords = {} /\ held' = <<>> /\ \E n \in Sizes : MappedWords' = Base .. Base + n - 1
    \/ (MappedWords' = {} \/ MappedWords' = MappedWords) /\ held' = <<>>
    \/ /\ MappedWords' = MappedWords
       /\ \E p, n \in Nat : /\ n \in Requests
                            /\ held' = Given(held, p, n)
                            /\ 0 \notin Requests => Fresh(held, p, n)
                            /\ p .. p + n - 1 \subseteq MappedWords
    \/ /\ MappedWords' = MappedWords
       /\ \E p \in DOMAIN held : held' = Restrict(held, DOMAIN held \ {p})

(* The size of a mapped arena.                                             *)
LEMMA SizeIs ==
    ASSUME NEW k \in Kinds, NEW n \in DOMAIN Workload[k]
    PROVE  /\ n \in Sizes /\ n \in Nat /\ 1 <= n /\ n <= HeapWords
           /\ Workload[k][n] \subseteq Requests
           /\ HeapWords \in Nat
<1>1. n \in Sizes
  BY DEF Sizes
<1>2. Workload[k][n] \in Range(Workload[k])
  BY DEF Range
<1>3. Workload[k][n] \subseteq Requests
  BY <1>2 DEF Requests
<1> QED
  BY <1>1, <1>3, ArenaAssumption

(* What a caller may ask for.                                              *)
LEMMA AskedIs ==
    ASSUME ArenaInv, NEW n \in Asked
    PROVE  n \in Requests /\ n \in Nat
<1>1. Requests \subseteq Nat
  BY ArenaAssumption
<1>2. Asked \subseteq Requests
  BY SizeIs DEF Asked, ArenaInv
<1> QED
  BY <1>1, <1>2

(* A rounded request holds the request, and is even.                       *)
LEMMA RoundIs ==
    ASSUME NEW n \in Nat
    PROVE  Round(n) \in Nat /\ n <= Round(n) /\ (n # 0 => Round(n) >= 2)
  BY DEF Round, ALIGN

(* Filling words keeps the words' type.                                    *)
LEMMA FilledIs ==
    ASSUME NEW m \in [Words -> WordValues], NEW p, NEW n
    PROVE  /\ Filled(m, p, n) \in [Words -> WordValues]
           /\ \A a \in Words : Filled(m, p, n)[a] = IF a \in p .. p + n - 1 THEN UserData
                                                    ELSE m[a]
  BY DEF Filled, WordValues, UserData

(* Giving keeps what the caller asked for.                                 *)
LEMMA GivenIs ==
    ASSUME NEW hd, NEW p, NEW n \in Requests, \A q \in DOMAIN hd : hd[q] \in Requests
    PROVE  \A q \in DOMAIN Given(hd, p, n) : Given(hd, p, n)[q] \in Requests
  BY DEF Given

(* Dropping keeps what the caller asked for.                               *)
LEMMA DroppedIs ==
    ASSUME NEW hd, NEW S, S \subseteq DOMAIN hd, \A q \in DOMAIN hd : hd[q] \in Requests
    PROVE  \A q \in DOMAIN Restrict(hd, S) : Restrict(hd, S)[q] \in Requests
  BY DEF Restrict
-----------------------------------------------------------------------------
(* The bump allocators: what is held lies below the pointer.               *)
BumpInv ==
    Mapped =>
      /\ start_ptr = Base /\ last_ptr \in Base .. Base + size
      /\ \A p \in DOMAIN held :
           /\ p \in Nat /\ Base <= p /\ held[p] \in Nat /\ p + held[p] <= last_ptr
           /\ \A a \in p .. p + held[p] - 1 : mem[a] = UserData

(* A new arena: zeroed words, nothing held.                                *)
Fresher(n, s) == /\ ~Mapped
                 /\ mem' = [a \in Words |-> 0]
                 /\ start_ptr' = s /\ last_ptr' = s /\ size' = n
                 /\ kind' = kind /\ HEAD' = HEAD /\ held' = held

(* A new arena satisfies what holds of every allocator.                    *)
LEMMA NewArena ==
    ASSUME ArenaInv, kind \in Kinds, NEW n \in DOMAIN Workload[kind], NEW s \in Nat, s # 0,
           Fresher(n, s)
    PROVE  ArenaInv' /\ Seen /\ held' = <<>> /\ HEAD' = NULL
<1>1. held = <<>> /\ HEAD = NULL /\ MappedWords = {}
  BY DEF ArenaInv, Fresher, MappedWords
<1>2. Mapped' /\ held' = <<>> /\ HEAD' = NULL
  BY <1>1 DEF Fresher, Mapped, NULL, MAP_FAILED
<1>3. MappedWords' = Base .. Base + n - 1 /\ n \in Sizes
  BY <1>2, SizeIs DEF MappedWords, Fresher
<1>4. mem' \in [Words -> WordValues]
  BY DEF Fresher, WordValues
<1>5. ArenaInv'
  BY <1>1, <1>2, <1>4 DEF ArenaInv, Fresher
<1> QED
  BY <1>1, <1>2, <1>3, <1>5 DEF Seen

(* The bump allocator's steps, in this module's terms.                     *)
LEMMA BumpIs ==
    /\ \A n : Bump!AllocInitBump(n) <=> Fresher(n, Base)
    /\ Bump!AllocInitBumpFails => ~Mapped /\ UNCHANGED <<kind, mem, last_ptr, size, HEAD, held>>
    /\ Bump!AllocDeinitBump => /\ mem' = [a \in Words |-> 0] /\ last_ptr' = NULL
                               /\ held' = <<>> /\ UNCHANGED <<kind, HEAD>> /\ Mapped
    /\ Bump!Destroy => /\ mem' = [a \in Words |-> 0] /\ last_ptr' = NULL
                       /\ held' = <<>> /\ UNCHANGED <<kind, HEAD>> /\ Mapped
    /\ Bump!AllocResetBump => /\ Mapped /\ last_ptr' = start_ptr /\ held' = <<>>
                              /\ UNCHANGED <<kind, mem, start_ptr, size, HEAD>>
    /\ \A n : Bump!MallocBumpNull(n) => UNCHANGED arenaVars
    /\ \A p : Bump!FreeBump(p) => /\ held' = Restrict(held, DOMAIN held \ {p})
                                  /\ UNCHANGED <<kind, heapVars>>
    /\ Bump!Asked = Asked
<1> USE DEF Bump!Mapped, Bump!NULL, Bump!MAP_FAILED, Bump!Words, Bump!Base,
            Mapped, NULL, MAP_FAILED, Words, Base
<1>1. \A n : Bump!AllocInitBump(n) <=> Fresher(n, Base)
  BY DEF Bump!AllocInitBump, Fresher
<1>2. Bump!AllocInitBumpFails => ~Mapped /\ UNCHANGED <<kind, mem, last_ptr, size, HEAD, held>>
  BY DEF Bump!AllocInitBumpFails
<1>3. Bump!AllocDeinitBump => /\ mem' = [a \in Words |-> 0] /\ last_ptr' = NULL
                              /\ held' = <<>> /\ UNCHANGED <<kind, HEAD>> /\ Mapped
  BY DEF Bump!AllocDeinitBump
<1>4. Bump!Destroy => /\ mem' = [a \in Words |-> 0] /\ last_ptr' = NULL
                      /\ held' = <<>> /\ UNCHANGED <<kind, HEAD>> /\ Mapped
  BY DEF Bump!Destroy
<1>5. Bump!AllocResetBump => /\ Mapped /\ last_ptr' = start_ptr /\ held' = <<>>
                             /\ UNCHANGED <<kind, mem, start_ptr, size, HEAD>>
  BY DEF Bump!AllocResetBump
<1>6. \A n : Bump!MallocBumpNull(n) => UNCHANGED arenaVars
  BY DEF Bump!MallocBumpNull, Bump!arenaVars, Bump!heapVars, arenaVars, heapVars
<1>7. \A p : Bump!FreeBump(p) => /\ held' = Restrict(held, DOMAIN held \ {p})
                                 /\ UNCHANGED <<kind, heapVars>>
  BY DEF Bump!FreeBump, Bump!Drop, Bump!heapVars, heapVars, Restrict, Bump!Restrict
<1>8. Bump!Asked = Asked
  BY DEF Bump!Asked, Asked, Bump!Requests, Requests, Bump!Kinds, Kinds, Range, Bump!Range
<1> QED
  BY <1>1, <1>2, <1>3, <1>4, <1>5, <1>6, <1>7, <1>8

(* Handing out the words at the pointer.                                   *)
BumpTakes(n) == /\ Mapped
                /\ last_ptr + Round(n) <= start_ptr + size
                /\ mem' = Filled(mem, last_ptr, n) /\ held' = Given(held, last_ptr, n)
                /\ last_ptr' = last_ptr + Round(n)
                /\ UNCHANGED <<kind, start_ptr, size, HEAD>>

(* MallocBump of the C bump allocator and Alloc of the C++ arena hand out  *)
(* the words at the pointer.                                               *)
LEMMA BumpTakesIs ==
    ASSUME ArenaInv, BumpInv, Mapped, NEW n \in Asked, Bump!MallocBump(n) \/ Bump!Alloc(n)
    PROVE  BumpTakes(n)
<1>1. Bump!Round(n) = Round(n) /\ Round(n) \in Nat
  BY AskedIs, RoundIs DEF Bump!Round, Round, Bump!ALIGN, ALIGN
<1>2. start_ptr \in Nat /\ last_ptr \in Nat /\ size \in Nat
  BY SizeIs DEF BumpInv, ArenaInv, Base
<1>3. Bump!Hand(mem, last_ptr, n) =>
        mem' = Filled(mem, last_ptr, n) /\ held' = Given(held, last_ptr, n)
  BY DEF Bump!Hand, Filled, Given, Bump!Words, Words, Bump!Base, Base, Bump!UserData, UserData
<1>4. CASE Bump!MallocBump(n)
  <2>1. Round(n) <= start_ptr + size - last_ptr
    BY <1>1, <1>4 DEF Bump!MallocBump, Bump!Fits
  <2>2. last_ptr + Round(n) <= start_ptr + size
    BY <1>1, <1>2, <2>1
  <2> QED
    BY <1>1, <1>3, <1>4, <2>2 DEF Bump!MallocBump, BumpTakes
<1>5. CASE Bump!Alloc(n)
  BY <1>1, <1>3, <1>5 DEF Bump!Alloc, BumpTakes
<1> QED
  BY <1>4, <1>5

(* The words handed out meet nothing that is held.                         *)
LEMMA BumpMalloc ==
    ASSUME ArenaInv, BumpInv, NEW n \in Asked, BumpTakes(n)
    PROVE  ArenaInv' /\ BumpInv' /\ Seen
<1>1. /\ n \in Requests /\ n \in Nat /\ Round(n) \in Nat /\ n <= Round(n)
      /\ size \in Nat /\ size <= HeapWords /\ HeapWords \in Nat
      /\ start_ptr = 1 /\ last_ptr \in 1 .. 1 + size /\ Mapped
  BY AskedIs, RoundIs, SizeIs DEF ArenaInv, BumpInv, Base, BumpTakes
<1>2. PICK r, l \in Nat : r = Round(n) /\ l = last_ptr
  BY <1>1
<1>3. /\ l >= 1 /\ l + r <= 1 + size /\ n <= r
      /\ last_ptr' = l + r /\ mem' = Filled(mem, l, n) /\ held' = Given(held, l, n)
      /\ UNCHANGED <<kind, start_ptr, size, HEAD>>
  BY <1>1, <1>2 DEF BumpTakes
<1>4. Mapped' /\ MappedWords' = MappedWords /\ MappedWords = 1 .. size
  <2>1. last_ptr' # 0 /\ last_ptr' # -1
    BY <1>3
  <2>2. Mapped'
    BY <2>1 DEF Mapped, NULL, MAP_FAILED
  <2>3. Base + size - 1 = size
    BY <1>1 DEF Base
  <2> QED
    BY <1>1, <1>3, <2>2, <2>3 DEF MappedWords, Base
<1>5. /\ mem' \in [Words -> WordValues]
      /\ \A a \in Words : mem'[a] = IF a \in l .. l + n - 1 THEN UserData ELSE mem[a]
  BY <1>3, FilledIs DEF ArenaInv
<1>6. ArenaInv'
  <2>1. \A p \in DOMAIN held' : held'[p] \in Requests
    BY <1>1, <1>3, GivenIs DEF ArenaInv
  <2> QED
    BY <1>1, <1>3, <1>4, <1>5, <2>1 DEF ArenaInv
<1>7. ASSUME NEW p \in DOMAIN held
      PROVE  /\ p \in Nat /\ 1 <= p /\ held[p] \in Nat /\ p + held[p] <= l
             /\ \A a \in p .. p + held[p] - 1 : mem[a] = UserData
  BY <1>1, <1>2 DEF BumpInv, Base
<1>8. ASSUME NEW p \in DOMAIN held'
      PROVE  /\ p \in Nat /\ 1 <= p /\ held'[p] \in Nat /\ p + held'[p] <= l + r
             /\ \A a \in p .. p + held'[p] - 1 : mem'[a] = UserData
  <2>1. \A a \in l .. l + n - 1 : a \in Words
    BY <1>1, <1>3 DEF Words, Base
  <2>2. CASE p = l
    <3>1. held'[p] = n
      BY <1>3, <2>2 DEF Given
    <3>2. \A a \in l .. l + n - 1 : mem'[a] = UserData
      BY <1>5, <2>1, Zenon
    <3> QED
      BY <1>1, <1>3, <2>2, <3>1, <3>2
  <2>3. CASE p # l
    <3>1. p \in DOMAIN held /\ held'[p] = held[p]
      BY <1>3, <2>3 DEF Given
    <3>2. PICK h : h = held[p]
      OBVIOUS
    <3>3. p \in Nat /\ 1 <= p /\ h \in Nat /\ p + h <= l
      BY <1>7, <3>1, <3>2
    <3>4. \A a \in p .. p + h - 1 : a \in Words /\ a \notin l .. l + n - 1
      BY <1>1, <1>3, <3>3 DEF Words, Base
    <3>5. \A a \in p .. p + h - 1 : mem'[a] = UserData
      BY <1>5, <1>7, <3>1, <3>2, <3>4
    <3> QED
      BY <3>1, <3>2, <3>3, <3>5
  <2> QED
    BY <2>2, <2>3
<1>9. BumpInv'
  BY <1>1, <1>3, <1>8 DEF BumpInv, Base
<1>10. ASSUME 0 \notin Requests PROVE Fresh(held, l, n)
  <2>1. ASSUME NEW p \in DOMAIN held
        PROVE  p # l /\ (l .. l + n - 1) \cap (p .. p + held[p] - 1) = {}
    <3>1. PICK h : h = held[p]
      OBVIOUS
    <3>2. p \in Nat /\ h \in Nat /\ p + h <= l /\ h # 0
      BY <1>7, <1>10, <3>1 DEF ArenaInv
    <3> QED
      BY <3>1, <3>2
  <2> QED
    BY <2>1 DEF Fresh
<1>11. l .. l + n - 1 \subseteq MappedWords
  BY <1>1, <1>3, <1>4
<1>12. Seen
  BY <1>1, <1>3, <1>4, <1>10, <1>11, Zenon DEF Seen
<1> QED
  BY <1>6, <1>9, <1>12

(* A bump allocator's steps keep what is held below the pointer.           *)
LEMMA BumpStep ==
    ASSUME ArenaInv, BumpInv, kind \in Kinds, kind # "explicit", Bump!Next \/ Bump!ArenaNext
    PROVE  ArenaInv' /\ BumpInv' /\ Seen
<1>1. ASSUME NEW n \in DOMAIN Workload[kind], Fresher(n, Base)
      PROVE  ArenaInv' /\ BumpInv' /\ Seen
  <2>1. Base \in Nat /\ Base # 0
    BY DEF Base
  <2>2. ArenaInv' /\ Seen /\ held' = <<>>
    BY <1>1, <2>1, NewArena
  <2>3. n \in Nat
    BY SizeIs
  <2>4. BumpInv'
    BY <1>1, <2>2, <2>3 DEF BumpInv, Fresher, Base
  <2> QED
    BY <2>2, <2>4
<1>2. ASSUME ~Mapped, UNCHANGED <<kind, mem, last_ptr, size, HEAD, held>>
      PROVE  ArenaInv' /\ BumpInv' /\ Seen
  <2>1. ~Mapped'
    BY <1>2 DEF Mapped
  <2>2. MappedWords' = MappedWords
    BY <1>2, <2>1 DEF MappedWords
  <2> QED
    BY <1>2, <2>1, <2>2 DEF ArenaInv, BumpInv, Seen
<1>3. ASSUME mem' = [a \in Words |-> 0], last_ptr' = NULL, held' = <<>>, UNCHANGED <<kind, HEAD>>,
             Mapped
      PROVE  ArenaInv' /\ BumpInv' /\ Seen
  <2>1. ~Mapped' /\ MappedWords' = {}
    BY <1>3 DEF Mapped, MappedWords
  <2>2. mem' \in [Words -> WordValues]
    BY <1>3 DEF WordValues
  <2> QED
    BY <1>3, <2>1, <2>2 DEF ArenaInv, BumpInv, Seen
<1>4. ASSUME Mapped, last_ptr' = start_ptr, held' = <<>>, UNCHANGED <<kind, mem, start_ptr, size, HEAD>>
      PROVE  ArenaInv' /\ BumpInv' /\ Seen
  <2>1. start_ptr = 1 /\ size \in Nat
    BY <1>4, SizeIs DEF BumpInv, Base, ArenaInv
  <2>2. Mapped' /\ MappedWords' = MappedWords
    BY <1>4, <2>1 DEF Mapped, MappedWords, NULL, MAP_FAILED
  <2>3. BumpInv'
    BY <1>4, <2>1 DEF BumpInv, Base
  <2> QED
    BY <1>4, <2>2, <2>3 DEF ArenaInv, Seen
<1>5. ASSUME UNCHANGED arenaVars PROVE ArenaInv' /\ BumpInv' /\ Seen
  BY <1>5 DEF arenaVars, heapVars, ArenaInv, BumpInv, Seen, Mapped, MappedWords
<1>6. ASSUME NEW p \in DOMAIN held, held' = Restrict(held, DOMAIN held \ {p}),
             UNCHANGED <<kind, heapVars>>
      PROVE  ArenaInv' /\ BumpInv' /\ Seen
  <2>1. Mapped /\ Mapped' /\ MappedWords' = MappedWords
    BY <1>6 DEF heapVars, ArenaInv, Mapped, MappedWords
  <2>2. DOMAIN held' \subseteq DOMAIN held /\ \A q \in DOMAIN held' : held'[q] = held[q]
    BY <1>6 DEF Restrict
  <2>3. ArenaInv'
    BY <1>6, <2>1, <2>2 DEF ArenaInv, heapVars
  <2>4. BumpInv'
    BY <1>6, <2>1, <2>2 DEF BumpInv, heapVars
  <2>5. Seen
    BY <1>6, <2>1, Zenon DEF Seen
  <2> QED
    BY <2>3, <2>4, <2>5
<1>7. ASSUME NEW n \in Asked, Bump!MallocBump(n) \/ Bump!Alloc(n)
      PROVE  ArenaInv' /\ BumpInv' /\ Seen
  <2>1. Mapped
    BY <1>7 DEF Bump!MallocBump, Bump!Alloc, Bump!Mapped, Mapped, Bump!NULL, NULL, Bump!MAP_FAILED, MAP_FAILED
  <2> QED
    BY <1>7, <2>1, BumpTakesIs, BumpMalloc
<1>8. CASE Bump!Next
  BY <1>1, <1>2, <1>3, <1>4, <1>5, <1>6, <1>7, <1>8, BumpIs DEF Bump!Next
<1>9. CASE Bump!ArenaNext
  BY <1>1, <1>2, <1>3, <1>4, <1>5, <1>6, <1>7, <1>9, BumpIs DEF Bump!ArenaNext, Bump!Construct
<1> QED
  BY <1>8, <1>9

-----------------------------------------------------------------------------
(* The implicit list                                                       *)

(* Where a list allocator's arena lies.                                    *)
Start(k, n) == IF k = "improved" THEN Base + n ELSE Base
Placed == IF Mapped THEN /\ start_ptr = Start(kind, size)
                         /\ last_ptr \in start_ptr .. start_ptr + size
          ELSE start_ptr \in {NULL, MAP_FAILED}

(* A new arena of a list allocator.                                        *)
LEMMA Created ==
    ASSUME ArenaInv, kind \in Kinds, NEW n \in DOMAIN Workload[kind], Fresher(n, Start(kind, n))
    PROVE  /\ ArenaInv' /\ Placed' /\ Seen
           /\ Mapped' => last_ptr' = start_ptr' /\ held' = <<>> /\ HEAD' = NULL
<1>1. n \in Nat
  BY SizeIs
<1>2. Start(kind, n) \in Nat /\ Start(kind, n) # 0
  BY <1>1 DEF Start, Base
<1>3. ArenaInv' /\ Seen /\ held' = <<>> /\ HEAD' = NULL
  BY <1>2, NewArena
<1>4. Placed'
  BY <1>1, <1>2 DEF Placed, Fresher, Mapped, NULL, MAP_FAILED
<1> QED
  BY <1>3, <1>4 DEF Fresher

(* A failed alloc_init, alloc_deinit and alloc_reset leave no block.       *)
LEMMA Ended ==
    ASSUME ArenaInv, Placed, AllocInitFails \/ AllocDeinit \/ AllocReset
    PROVE  /\ ArenaInv' /\ Placed' /\ Seen
           /\ Mapped' => last_ptr' = start_ptr' /\ held' = <<>> /\ HEAD' = NULL
<1> USE DEF NULL, MAP_FAILED
<1>1. CASE AllocInitFails
  <2>1. ~Mapped /\ ~Mapped' /\ MappedWords' = MappedWords
    <3>1. ~Mapped
      BY <1>1, SizeIs DEF AllocInitFails, Placed, Start, Base, ArenaInv
    <3> QED
      BY <1>1, <3>1 DEF AllocInitFails, Mapped, MappedWords
  <2> QED
    BY <1>1, <2>1 DEF AllocInitFails, Placed, ArenaInv, Seen
<1>2. CASE AllocDeinit
  <2>1. ~Mapped' /\ MappedWords' = {}
    BY <1>2 DEF AllocDeinit, Mapped, MappedWords
  <2>2. mem' \in [Words -> WordValues]
    BY <1>2 DEF AllocDeinit, WordValues
  <2> QED
    BY <1>2, <2>1, <2>2 DEF AllocDeinit, Placed, ArenaInv, Seen
<1>3. CASE AllocReset
  <2>1. Mapped' <=> Mapped
    BY <1>3, SizeIs DEF AllocReset, Placed, Start, Base, ArenaInv, Mapped
  <2>2. MappedWords' = MappedWords
    BY <1>3, <2>1 DEF AllocReset, MappedWords
  <2>3. ArenaInv'
    BY <1>3, <2>1 DEF AllocReset, ArenaInv
  <2>4. Mapped => size \in Nat /\ start_ptr \in Nat
    BY SizeIs DEF ArenaInv, Placed, Start, Base
  <2>5. Placed'
    BY <1>3, <2>1, <2>4 DEF AllocReset, Placed
  <2> QED
    BY <1>3, <2>1, <2>2, <2>3, <2>5 DEF AllocReset, Seen
<1> QED
  BY <1>1, <1>2, <1>3

(* A call that changes nothing.                                            *)
LEMMA Refused ==
    ASSUME UNCHANGED arenaVars
    PROVE  /\ ArenaInv => ArenaInv' /\ Seen
           /\ Placed => Placed'
  BY DEF arenaVars, heapVars, ArenaInv, Placed, Seen, Mapped, MappedWords
-----------------------------------------------------------------------------
(* The implicit list.                                                      *)
ImplicitInv == Mapped => \E H : Laid(H, mem, start_ptr, last_ptr, 2, held)

(* The implicit list's search is the loop Find.                            *)
LEMMA ImplicitSearchIs ==
    \A n : Implicit!Search(n) = Find(mem, start_ptr, last_ptr, 2, n)
  BY Zenon DEF Implicit!Search, Find, IsFind, Implicit!Allocated, Implicit!Following, Implicit!Addresses

(* The implicit list's headers are the ones Walk collects.                 *)
LEMMA ImplicitHeadersIs ==
    Implicit!Headers = IF Mapped THEN Walk(mem, start_ptr, last_ptr, 2) ELSE {}
  BY Zenon DEF Implicit!Headers, Walk, IsWalk, Implicit!Following, Implicit!Addresses, Implicit!Mapped, Mapped,
     Implicit!NULL, Implicit!MAP_FAILED, NULL, MAP_FAILED

(* A block's header and what follows it, as a chain of its own.            *)
LEMMA OneBlock ==
    ASSUME NEW x \in Nat, NEW k \in Nat, k >= 2, NEW m, m[x] \in Nat,
           NEW z, z = x + k + m[x]
    PROVE  Chain({x}, m, x, z, k)
<1>1. {x} \subseteq x .. z - 1
  OBVIOUS
<1> QED
  BY <1>1 DEF Chain

(* A step changes no word of the arena outside x .. y - 1.                 *)
SameOutside(m, m2, s, l, x, y) == \A a \in s .. l - 1 : a < x \/ a >= y => m2[a] = m[a]

(* Blocks N, from x to z, are written over those from x to y.              *)
Patch(H, m, s, l, k, x, y, N, m2, z, l2) ==
    /\ s \in Nat /\ l \in Nat /\ k \in Nat /\ k >= 2 /\ z \in Nat /\ l2 \in Nat
    /\ Chain(H, m, s, l, k) /\ x \in H \cup {l} /\ y \in H \cup {l} /\ x <= y
    /\ Chain(N, m2, x, z, k) /\ N # {}
    /\ (y = l /\ l2 = z) \/ (y = z /\ l2 = l)
    /\ SameOutside(m, m2, s, l, x, y)

(* Changing words from x to y only leaves the blocks outside alone.        *)
LEMMA CutWithin ==
    ASSUME NEW H, NEW m, NEW s, NEW l, NEW k, NEW x, NEW y, NEW N, NEW m2, NEW z, NEW l2,
           Patch(H, m, s, l, k, x, y, N, m2, z, l2)
    PROVE  /\ Cut(H, m, s, l, k, x, y, N, m2, z, l2)
           /\ k = 3 => FootsKept(Out(H, x, y), m, m2)
<1> USE DEF Patch
<1>0. x \in Nat /\ y \in Nat
  BY ChainFacts
<1>1. ASSUME NEW c \in Out(H, x, y)
      PROVE  /\ c \in Nat /\ m[c] \in Nat
             /\ \A a \in c .. c + k + m[c] - 1 : m2[a] = m[a]
  <2>1. c \in H /\ (c < x \/ c >= y)
    BY DEF Out
  <2>2. c \in Nat /\ s <= c /\ c < l /\ m[c] \in Nat /\ c + k + m[c] <= l
    BY <2>1, ChainFacts
  <2>3. c < x => c + k + m[c] <= x
    <3>1. x = l \/ x \in H
      OBVIOUS
    <3>2. x \in H /\ c < x => c + k + m[c] <= x
      BY <2>1 DEF Chain
    <3> QED
      BY <2>2, <3>1, <3>2
  <2>4. PICK n \in Nat : n = c + k + m[c]
    BY <2>2
  <2>5. \A a \in c .. n - 1 : a \in s .. l - 1 /\ (a < x \/ a >= y)
    BY <1>0, <2>1, <2>2, <2>3, <2>4
  <2> QED
    BY <2>2, <2>4, <2>5 DEF SameOutside
<1>2. ASSUME NEW c \in Out(H, x, y) PROVE Same(c, m, m2)
  <2>1. PICK n : n = m[c]
    OBVIOUS
  <2>2. c \in Nat /\ n \in Nat /\ \A a \in c .. c + k + n - 1 : m2[a] = m[a]
    BY <1>1, <2>1
  <2>3. c \in c .. c + k + n - 1 /\ c + 1 \in c .. c + k + n - 1
    BY <2>2
  <2>4. \A a \in c + 2 .. c + 1 + n : a \in c .. c + k + n - 1
    BY <2>2
  <2> QED
    BY <2>1, <2>2, <2>3, <2>4, Zenon DEF Same
<1>3. ASSUME NEW c \in Out(H, x, y), k = 3 PROVE FootAt(m2, c) = FootAt(m, c)
  <2>1. PICK n : n = m[c]
    OBVIOUS
  <2>2. c \in Nat /\ n \in Nat /\ \A a \in c .. c + k + n - 1 : m2[a] = m[a]
    BY <1>1, <2>1
  <2>3. c + 2 + n \in c .. c + k + n - 1 /\ c \in c .. c + k + n - 1
    BY <1>3, <2>2
  <2>4. m2[c] = n /\ m2[c + 2 + n] = m[c + 2 + n]
    BY <2>1, <2>2, <2>3, Zenon
  <2> QED
    BY <2>1, <2>4 DEF FootAt
<1> QED
  BY <1>2, <1>3 DEF Cut, FootsKept

(* The arena of a list of blocks, as plain numbers.                        *)
LEMMA ArenaFacts ==
    ASSUME ArenaInv, Placed, Mapped, kind # "improved"
    PROVE  /\ start_ptr = 1 /\ last_ptr \in Nat /\ 1 <= last_ptr /\ size \in Nat
           /\ last_ptr <= 1 + size /\ size <= HeapWords
           /\ \A a \in 1 .. size : a \in Words
           /\ Readable(mem, 1, last_ptr)
           /\ MappedWords = 1 .. size
<1>1. size \in Nat /\ size <= HeapWords /\ HeapWords \in Nat
  BY SizeIs DEF ArenaInv
<1>2. start_ptr = 1 /\ last_ptr \in Nat /\ 1 <= last_ptr /\ last_ptr <= 1 + size
  BY <1>1 DEF Placed, Start, Base
<1>3. \A a \in 1 .. size : a \in Words
  BY <1>1 DEF Words, Base
<1>4. \A a \in 1 .. last_ptr - 1 : a \in Words
  BY <1>1, <1>2, <1>3
<1>5. Readable(mem, 1, last_ptr)
  BY <1>4 DEF Readable, ArenaInv, WordValues
<1>6. Base + size - 1 = size /\ Base = 1
  BY <1>1 DEF Base
<1>7. MappedWords = 1 .. size
  BY <1>6 DEF MappedWords
<1> QED
  BY <1>1, <1>2, <1>3, <1>5, <1>7

(* What a step of malloc or free must show: the arena stays where it is.   *)
LEMMA StaysMapped ==
    ASSUME ArenaInv, Placed, Mapped, kind # "improved", UNCHANGED <<kind, start_ptr, size>>,
           last_ptr' \in Nat, 1 <= last_ptr', last_ptr' <= 1 + size
    PROVE  Mapped' /\ Placed' /\ MappedWords' = MappedWords
<1>1. start_ptr = 1 /\ size \in Nat
  BY ArenaFacts
<1>2. Mapped'
  BY DEF Mapped, NULL, MAP_FAILED
<1>3. Placed'
  BY <1>1, <1>2 DEF Placed, Start
<1> QED
  BY <1>2, <1>3 DEF MappedWords

(* The end of a malloc, for the lists of blocks.                           *)
LEMMA MallocDone ==
    ASSUME ArenaInv, Placed, Mapped, kind # "improved", UNCHANGED <<kind, start_ptr, size>>,
           last_ptr' \in Nat, 1 <= last_ptr', last_ptr' <= 1 + size,
           HEAD' = HEAD \/ kind = "explicit", mem' \in [Words -> WordValues],
           NEW n \in Asked, NEW p \in Nat, 1 <= p, p + n <= size + 1,
           held' = Given(held, p, n), Fresh(held, p, n)
    PROVE  ArenaInv' /\ Placed' /\ Seen
<1>1. Mapped' /\ Placed' /\ MappedWords' = MappedWords
  BY StaysMapped
<1>2. n \in Requests /\ n \in Nat
  BY AskedIs
<1>3. size \in Nat /\ MappedWords = 1 .. size
  BY ArenaFacts
<1>4. \A q \in DOMAIN held' : held'[q] \in Requests
  BY <1>2, GivenIs DEF ArenaInv
<1>5. ArenaInv'
  BY <1>1, <1>4 DEF ArenaInv
<1>6. p .. p + n - 1 \subseteq MappedWords
  BY <1>2, <1>3
<1> QED
  BY <1>1, <1>2, <1>5, <1>6, Zenon DEF Seen

(* The end of a free, for the lists of blocks.                             *)
LEMMA FreeDone ==
    ASSUME ArenaInv, Placed, Mapped, kind # "improved", UNCHANGED <<kind, start_ptr, last_ptr, size>>,
           HEAD' = HEAD \/ kind = "explicit", mem' \in [Words -> WordValues],
           NEW p \in DOMAIN held, held' = Restrict(held, DOMAIN held \ {p})
    PROVE  ArenaInv' /\ Placed' /\ Seen
<1>1. last_ptr \in Nat /\ 1 <= last_ptr /\ last_ptr <= 1 + size
  BY ArenaFacts
<1>2. Mapped' /\ Placed' /\ MappedWords' = MappedWords
  BY <1>1, StaysMapped
<1>3. \A q \in DOMAIN held' : held'[q] \in Requests
  <2>1. DOMAIN held \ {p} \subseteq DOMAIN held
    OBVIOUS
  <2> QED
    BY <2>1, DroppedIs DEF ArenaInv
<1>4. ArenaInv'
  BY <1>2, <1>3 DEF ArenaInv
<1> QED
  BY <1>2, <1>4, Zenon DEF Seen

(* A chain depends on the sizes only.                                      *)
LEMMA ChainSizes ==
    ASSUME NEW H, NEW m, NEW s, NEW l, NEW k, NEW m2, Chain(H, m, s, l, k),
           \A c \in H : m2[c] = m[c]
    PROVE  Chain(H, m2, s, l, k)
  BY DEF Chain

(* Blocks N take the place of free ones in m1; x, the first of them, is to *)
(* be handed out for n words, which leaves the heap m2.                    *)
Ready(H, m, s, l, k, x, y, N, m1, z, l2, hd, n, m2) ==
    /\ Cut(H, m, s, l, k, x, y, N, m1, z, l2) /\ Laid(H, m, s, l, k, hd)
    /\ FreeFrom(H, m, x, y) /\ OnlyFirst(N, m1, x) /\ n \in Nat /\ n <= m1[x]
    /\ m1 \in [Words -> WordValues] /\ s .. l2 - 1 \subseteq Words
    /\ m2 = Filled(m1, x + 2, n)

(* The caller's words go into the payload of block x and touch no tag and  *)
(* no other block.                                                         *)
LEMMA HandBlock ==
    ASSUME NEW H, NEW m, NEW s, NEW l, NEW k, NEW x, NEW y, NEW N, NEW m1, NEW z, NEW l2,
           NEW hd, NEW n, NEW m2, Ready(H, m, s, l, k, x, y, N, m1, z, l2, hd, n, m2)
    PROVE  /\ m2 \in [Words -> WordValues]
           /\ Cut(H, m, s, l, k, x, y, N, m2, z, l2)
           /\ \E J : J = Out(H, x, y) \cup N /\ Laid(J, m2, s, l2, k, Given(hd, x + 2, n))
           /\ Fresh(hd, x + 2, n)
           /\ \A c \in N : m2[c] = m1[c] /\ m2[c + 1] = m1[c + 1]
           /\ k = 3 => FootsKept(Out(H, x, y), m1, m2) /\ FootsKept(N, m1, m2)
<1> DEFINE J == Out(H, x, y) \cup N
<1>0. /\ Cut(H, m, s, l, k, x, y, N, m1, z, l2) /\ Laid(H, m, s, l, k, hd)
      /\ FreeFrom(H, m, x, y) /\ OnlyFirst(N, m1, x) /\ n \in Nat /\ n <= m1[x]
      /\ m1 \in [Words -> WordValues] /\ s .. l2 - 1 \subseteq Words
      /\ m2 = Filled(m1, x + 2, n)
  BY DEF Ready
<1> USE <1>0
<1>1. /\ s \in Nat /\ l2 \in Nat /\ x \in Nat /\ k \in Nat /\ k >= 2 /\ z \in Nat /\ x \in N
  BY CutFacts
<1>2. Chain(J, m1, s, l2, k)
  BY Splice
<1>3. /\ m2 \in [Words -> WordValues]
      /\ \A a \in Words : m2[a] = IF a \in x + 2 .. x + 2 + n - 1 THEN UserData ELSE m1[a]
  BY FilledIs
<1>4. ASSUME NEW c \in J
      PROVE  /\ c \in Nat /\ m1[c] \in Nat
             /\ m2[c] = m1[c] /\ m2[c + 1] = m1[c + 1]
             /\ c # x => \A a \in c .. c + k + m1[c] - 1 : m2[a] = m1[a]
             /\ k = 3 => m2[c + 2 + m1[c]] = m1[c + 2 + m1[c]]
  <2>1. PICK w : w = m1[c]
    OBVIOUS
  <2>2. /\ c \in Nat /\ s <= c /\ w \in Nat /\ c + k + w <= l2
    BY <1>1, <1>2, <2>1, ChainFacts
  <2>3. c < x => c + k + w <= x
    BY <1>1, <1>2, <2>1 DEF Chain
  <2>4. m1[x] \in Nat
    BY <1>1, <1>2, ChainFacts
  <2>5. PICK v \in Nat : v = m1[x]
    BY <2>4
  <2>6. n <= v /\ (x < c => x + k + v <= c) /\ (c = x => w = v)
    BY <1>1, <1>2, <2>1, <2>5 DEF Chain
  <2>7. \A a \in c .. c + k + w - 1 : a \in Words
    BY <1>1, <2>2
  <2>8. ASSUME NEW a \in c .. c + k + w - 1, a \notin x + 2 .. x + 1 + n
        PROVE  m2[a] = m1[a]
    <3>1. a \notin x + 2 .. x + 2 + n - 1
      BY <1>1, <2>8
    <3> QED
      BY <1>3, <2>7, <3>1, Zenon
  <2>9. c \in c .. c + k + w - 1 /\ c + 1 \in c .. c + k + w - 1
    BY <1>1, <2>2
  <2>10. c \notin x + 2 .. x + 1 + n /\ c + 1 \notin x + 2 .. x + 1 + n
    BY <1>1, <2>2, <2>3, <2>5, <2>6
  <2>11. c # x => \A a \in c .. c + k + w - 1 : a \notin x + 2 .. x + 1 + n
    BY <1>1, <2>2, <2>3, <2>5, <2>6
  <2>12. k = 3 => c + 2 + w \in c .. c + k + w - 1 /\ c + 2 + w \notin x + 2 .. x + 1 + n
    BY <1>1, <2>2, <2>3, <2>5, <2>6
  <2> QED
    BY <2>1, <2>2, <2>8, <2>9, <2>10, <2>11, <2>12
<1>5. ASSUME NEW c \in J, k = 3 PROVE FootAt(m2, c) = FootAt(m1, c)
  <2>1. m2[c] = m1[c] /\ m2[c + 2 + m1[c]] = m1[c + 2 + m1[c]]
    BY <1>4, <1>5
  <2> QED
    BY <2>1 DEF FootAt
<1>6. ASSUME NEW c \in Out(H, x, y) PROVE Same(c, m, m2)
  <2>1. Same(c, m, m1) /\ c \in J
    BY DEF Cut
  <2>2. c # x
    <3>1. c \in Nat /\ (c < x \/ (c >= y /\ y # l /\ y = z)) /\ x < z
      BY OutFacts, CutFacts
    <3> QED
      BY <1>1, <3>1
  <2>3. PICK w : w = m1[c]
    OBVIOUS
  <2>4. /\ c \in Nat /\ w \in Nat /\ m[c] = w
        /\ m2[c] = w /\ m2[c + 1] = m1[c + 1]
        /\ \A a \in c .. c + k + w - 1 : m2[a] = m1[a]
    BY <1>4, <2>1, <2>2, <2>3 DEF Same
  <2>5. \A a \in c + 2 .. c + 1 + w : a \in c .. c + k + w - 1
    BY <1>1, <2>4
  <2>6. m[c + 1] # 0 => \A a \in c + 2 .. c + 1 + w : m2[a] = m[a]
    BY <2>1, <2>4, <2>5 DEF Same
  <2> QED
    BY <2>1, <2>4, <2>6 DEF Same
<1>7. Cut(H, m, s, l, k, x, y, N, m2, z, l2)
  <2>1. Chain(N, m1, x, z, k) /\ \A c \in N : m2[c] = m1[c]
    BY <1>4 DEF Cut
  <2>2. Chain(N, m2, x, z, k)
    BY <2>1, ChainSizes
  <2> QED
    BY <1>6, <2>2 DEF Cut
<1>8. OnlyFirst(N, m2, x)
  BY <1>1, <1>4 DEF OnlyFirst
<1>9. Wrote(m2, x, n)
  <2>1. m1[x] \in Nat /\ x + k + m1[x] <= l2 /\ s <= x
    BY <1>1, <1>2, ChainFacts
  <2>2. PICK v \in Nat : v = m1[x]
    BY <2>1
  <2>3. \A a \in x + 2 .. x + 1 + n : a \in s .. l2 - 1 /\ a \in x + 2 .. x + 2 + n - 1
    BY <1>1, <2>1, <2>2
  <2>4. \A a \in x + 2 .. x + 1 + n : m2[a] = UserData
    BY <1>3, <2>3
  <2>5. n <= m2[x]
    BY <1>1, <1>4
  <2> QED
    BY <2>4, <2>5 DEF Wrote
<1>10. /\ Laid(J, m2, s, l2, k, Given(hd, x + 2, n))
       /\ Fresh(hd, x + 2, n)
  BY <1>7, <1>8, <1>9, Handed
<1> QED
  BY <1>3, <1>4, <1>5, <1>7, <1>10 DEF FootsKept

(* A block that is free from its header to the next.                       *)
LEMMA FreeBlock ==
    ASSUME NEW H, NEW m, NEW s \in Nat, NEW l \in Nat, NEW k \in Nat, Chain(H, m, s, l, k),
           NEW b \in H
    PROVE  /\ m[b + 1] = 0 => FreeFrom(H, m, b, b + k + m[b])
           /\ FreeFrom(H \ {b}, m, b, b + k + m[b])
<1>1. ASSUME NEW c \in H, b <= c, c < b + k + m[b] PROVE c = b
  <2>1. c \in Nat /\ b \in Nat /\ m[b] \in Nat
    BY ChainFacts
  <2>2. b < c => b + k + m[b] <= c
    BY DEF Chain
  <2> QED
    BY <1>1, <2>1, <2>2
<1> QED
  BY <1>1 DEF FreeFrom

(* The implicit list's steps, in this module's terms.                      *)
LEMMA ImplicitIs ==
    ASSUME NEW n
    PROVE  /\ Implicit!Round(n) = Round(n)
           /\ Implicit!Mapped <=> Mapped
           /\ Implicit!Asked = Asked
           /\ \A m, p : Implicit!Hand(m, p, n) => mem' = Filled(m, p, n) /\ held' = Given(held, p, n)
           /\ \A p : Implicit!Drop(p) => held' = Restrict(held, DOMAIN held \ {p})
           /\ Implicit!Lifecycle => \/ \E k \in DOMAIN Workload[kind] : start_ptr = NULL /\ (~Mapped => Fresher(k, Base))
                                    \/ AllocInitFails \/ AllocDeinit \/ AllocReset
           /\ (UNCHANGED Implicit!arenaVars) => UNCHANGED arenaVars
<1> USE DEF Implicit!NULL, Implicit!MAP_FAILED, Implicit!Words, Implicit!Base, Implicit!Mapped,
            NULL, MAP_FAILED, Words, Base, Mapped
<1>1. Implicit!Round(n) = Round(n)
  BY DEF Implicit!Round, Round, Implicit!ALIGN, ALIGN
<1>2. Implicit!Mapped <=> Mapped
  OBVIOUS
<1>3. Implicit!Asked = Asked
  BY DEF Implicit!Asked, Asked, Implicit!Requests, Requests, Implicit!Kinds, Kinds, Range, Implicit!Range
<1>4. \A m, p : Implicit!Hand(m, p, n) => mem' = Filled(m, p, n) /\ held' = Given(held, p, n)
  BY DEF Implicit!Hand, Filled, Given, Implicit!UserData, UserData
<1>5. \A p : Implicit!Drop(p) => held' = Restrict(held, DOMAIN held \ {p})
  BY DEF Implicit!Drop, Implicit!Restrict, Restrict
<1>6. Implicit!Lifecycle => \/ \E k \in DOMAIN Workload[kind] : start_ptr = NULL /\ (~Mapped => Fresher(k, Base))
                            \/ AllocInitFails \/ AllocDeinit \/ AllocReset
  BY DEF Implicit!Lifecycle, Implicit!AllocInit, Fresher, Implicit!AllocInitFails, AllocInitFails,
         Implicit!AllocDeinit, AllocDeinit, Implicit!AllocReset, AllocReset
<1>7. (UNCHANGED Implicit!arenaVars) => UNCHANGED arenaVars
  BY DEF Implicit!arenaVars, arenaVars, Implicit!heapVars, heapVars
<1> QED
  BY <1>1, <1>2, <1>3, <1>4, <1>5, <1>6, <1>7

(* Reusing a free block.                                                   *)
LEMMA ImplicitReuse ==
    ASSUME ArenaInv, Placed, ImplicitInv, kind = "implicit", NEW n \in Asked,
           Implicit!MallocReuse(n)
    PROVE  ArenaInv' /\ Placed' /\ ImplicitInv' /\ Seen
<1>0. Mapped
  BY ImplicitIs DEF Implicit!MallocReuse
<1>1. PICK r, l \in Nat : r = Round(n) /\ l = last_ptr
  BY <1>0, AskedIs, RoundIs, ArenaFacts
<1>2. /\ start_ptr = 1 /\ 1 <= l /\ size \in Nat /\ l <= 1 + size /\ size <= HeapWords
      /\ \A a \in 1 .. size : a \in Words
      /\ Readable(mem, 1, l) /\ n \in Nat /\ n <= r
  BY <1>0, <1>1, AskedIs, RoundIs, ArenaFacts
<1>3. PICK H : Laid(H, mem, 1, l, 2, held)
  BY <1>0, <1>1, <1>2 DEF ImplicitInv
<1>4. PICK b : b = Find(mem, 1, l, 2, r)
  OBVIOUS
<1>5. /\ b < l
      /\ mem' = Filled([mem EXCEPT ![b + 1] = 1], b + 2, n)
      /\ held' = Given(held, b + 2, n)
      /\ UNCHANGED <<kind, start_ptr, last_ptr, size, HEAD>>
  <2>1. Implicit!Search(Implicit!Round(n)) = b
    BY <1>1, <1>2, <1>4, ImplicitIs, ImplicitSearchIs
  <2> QED
    BY <1>1, <2>1, ImplicitIs DEF Implicit!MallocReuse
<1>6. /\ b \in H /\ mem[b + 1] = 0 /\ mem[b] >= r
  BY <1>2, <1>3, <1>4, <1>5, FindIs DEF Laid
<1>7. PICK y : y = b + 2 + mem[b]
  OBVIOUS
<1>8. /\ Chain(H, mem, 1, l, 2)
      /\ b \in Nat /\ 1 <= b /\ mem[b] \in Nat /\ y \in H \cup {l} /\ y <= l /\ y \in Nat
  BY <1>3, <1>6, <1>7, ChainFacts DEF Laid
<1>9. b + 1 \in Words /\ b \in Words /\ b + 2 + n <= y /\ b + 2 <= y
  BY <1>1, <1>2, <1>6, <1>7, <1>8
<1>10. PICK m : m = [mem EXCEPT ![b + 1] = 1]
  OBVIOUS
<1>11. /\ m \in [Words -> WordValues] /\ m[b + 1] = 1
       /\ \A a \in Words : a # b + 1 => m[a] = mem[a]
  BY <1>9, <1>10 DEF ArenaInv, WordValues
<1>12. m[b] = mem[b]
  BY <1>8, <1>9, <1>11
<1>13. SameOutside(mem, m, 1, l, b, y)
  <2>1. \A a \in 1 .. l - 1 : a \in Words /\ (a < b \/ a >= y => a # b + 1)
    BY <1>2, <1>8, <1>9
  <2> QED
    BY <1>11, <2>1 DEF SameOutside
<1>14. Chain({b}, m, b, y, 2)
  <2>1. y = b + 2 + m[b] /\ m[b] \in Nat /\ b \in Nat /\ 2 \in Nat /\ 2 >= 2
    BY <1>7, <1>8, <1>12
  <2> QED
    BY <2>1, OneBlock, Zenon
<1>15. Cut(H, mem, 1, l, 2, b, y, {b}, m, y, l)
  <2>1. Patch(H, mem, 1, l, 2, b, y, {b}, m, y, l)
    BY <1>1, <1>6, <1>8, <1>9, <1>13, <1>14 DEF Patch
  <2> QED
    BY <2>1, CutWithin
<1>16. FreeFrom(H, mem, b, y)
  BY <1>6, <1>7, <1>8, FreeBlock
<1>17. OnlyFirst({b}, m, b) /\ n <= m[b]
  BY <1>1, <1>2, <1>6, <1>8, <1>11, <1>12 DEF OnlyFirst
<1>18. mem' = Filled(m, b + 2, n) /\ 1 .. l - 1 \subseteq Words
  BY <1>2, <1>5, <1>10
<1>19. /\ mem' \in [Words -> WordValues]
       /\ \E J : Laid(J, mem', 1, l, 2, Given(held, b + 2, n))
       /\ Fresh(held, b + 2, n)
  <2>1. n \in Nat /\ m \in [Words -> WordValues]
    BY <1>2, <1>11
  <2>2. Ready(H, mem, 1, l, 2, b, y, {b}, m, y, l, held, n, mem')
    BY <1>3, <1>15, <1>16, <1>17, <1>18, <2>1, Zenon DEF Ready
  <2> QED
    BY <2>2, HandBlock
<1>20. ImplicitInv'
  BY <1>1, <1>2, <1>5, <1>19 DEF ImplicitInv
<1>21. ArenaInv' /\ Placed' /\ Seen
  <2>1. /\ last_ptr' \in Nat /\ 1 <= last_ptr' /\ last_ptr' <= 1 + size
        /\ b + 2 \in Nat /\ 1 <= b + 2 /\ b + 2 + n <= size + 1
    BY <1>1, <1>2, <1>5, <1>8, <1>9
  <2> QED
    BY <1>0, <1>5, <1>19, <2>1, MallocDone
<1> QED
  BY <1>20, <1>21

(* A new block at the end.                                                 *)
LEMMA ImplicitAppend ==
    ASSUME ArenaInv, Placed, ImplicitInv, kind = "implicit", NEW n \in Asked,
           Implicit!MallocAppend(n)
    PROVE  ArenaInv' /\ Placed' /\ ImplicitInv' /\ Seen
<1>1. Mapped
  BY ImplicitIs DEF Implicit!MallocAppend
<1>2. PICK r, l \in Nat : r = Round(n) /\ l = last_ptr
  BY <1>1, AskedIs, RoundIs, ArenaFacts
<1>3. /\ start_ptr = 1 /\ 1 <= l /\ size \in Nat /\ l <= 1 + size /\ size <= HeapWords
      /\ \A a \in 1 .. size : a \in Words
      /\ Readable(mem, 1, l) /\ n \in Nat /\ n <= r
  BY <1>1, <1>2, AskedIs, RoundIs, ArenaFacts
<1>4. PICK H : Laid(H, mem, 1, l, 2, held)
  BY <1>1, <1>2, <1>3 DEF ImplicitInv
<1>5. PICK b : b = Find(mem, 1, l, 2, r)
  OBVIOUS
<1>6. /\ b >= l /\ b + r + 2 <= 1 + size
      /\ mem' = Filled([mem EXCEPT ![b] = r, ![b + 1] = 1], b + 2, n)
      /\ held' = Given(held, b + 2, n) /\ last_ptr' = b + 2 + r
      /\ UNCHANGED <<kind, start_ptr, size, HEAD>>
  <2>1. Implicit!Search(Implicit!Round(n)) = b
    BY <1>2, <1>3, <1>5, ImplicitIs, ImplicitSearchIs
  <2> QED
    BY <1>2, <1>3, <2>1, ImplicitIs DEF Implicit!MallocAppend
<1>7. Chain(H, mem, 1, l, 2)
  BY <1>4 DEF Laid
<1>8. b = l
  <2>1. b \in H \cup {l}
    BY <1>3, <1>5, <1>7, FindIs
  <2>2. \A c \in H : c \in Nat /\ c < l
    BY <1>7, ChainFacts
  <2> QED
    BY <1>2, <1>6, <2>1, <2>2
<1>9. PICK z \in Nat : z = l + 2 + r
  BY <1>2
<1>10. z <= 1 + size /\ l \in Words /\ l + 1 \in Words /\ l < z
  BY <1>2, <1>3, <1>6, <1>8, <1>9
<1>11. PICK m : m = [mem EXCEPT ![l] = r, ![l + 1] = 1]
  OBVIOUS
<1>12. /\ m \in [Words -> WordValues] /\ m[l + 1] = 1 /\ m[l] = r
       /\ \A a \in Words : a # l /\ a # l + 1 => m[a] = mem[a]
  BY <1>2, <1>10, <1>11 DEF ArenaInv, WordValues
<1>13. SameOutside(mem, m, 1, l, l, l)
  <2>1. \A a \in 1 .. l - 1 : a \in Words /\ a # l /\ a # l + 1
    BY <1>2, <1>3
  <2> QED
    BY <1>12, <2>1 DEF SameOutside
<1>14. Chain({l}, m, l, z, 2)
  <2>1. z = l + 2 + m[l] /\ m[l] \in Nat /\ 2 \in Nat /\ 2 >= 2
    BY <1>2, <1>9, <1>12
  <2> QED
    BY <2>1, OneBlock, Zenon
<1>15. Cut(H, mem, 1, l, 2, l, l, {l}, m, z, z)
  <2>1. Patch(H, mem, 1, l, 2, l, l, {l}, m, z, z)
    BY <1>2, <1>7, <1>9, <1>13, <1>14 DEF Patch
  <2> QED
    BY <2>1, CutWithin
<1>16. FreeFrom(H, mem, l, l)
  <2>1. \A c \in H : c \in Nat
    BY <1>7, ChainFacts
  <2> QED
    BY <1>2, <2>1 DEF FreeFrom
<1>17. OnlyFirst({l}, m, l) /\ n <= m[l]
  BY <1>2, <1>3, <1>12 DEF OnlyFirst
<1>18. mem' = Filled(m, l + 2, n) /\ 1 .. z - 1 \subseteq Words
  BY <1>3, <1>6, <1>8, <1>9, <1>10, <1>11
<1>19. /\ mem' \in [Words -> WordValues]
       /\ \E J : Laid(J, mem', 1, z, 2, Given(held, l + 2, n))
       /\ Fresh(held, l + 2, n)
  <2>1. n \in Nat /\ m \in [Words -> WordValues]
    BY <1>3, <1>12
  <2>2. Ready(H, mem, 1, l, 2, l, l, {l}, m, z, z, held, n, mem')
    BY <1>4, <1>15, <1>16, <1>17, <1>18, <2>1, Zenon DEF Ready
  <2> QED
    BY <2>2, HandBlock
<1>20. ImplicitInv'
  BY <1>3, <1>6, <1>8, <1>9, <1>19 DEF ImplicitInv
<1>21. ArenaInv' /\ Placed' /\ Seen
  <2>1. /\ last_ptr' \in Nat /\ 1 <= last_ptr' /\ last_ptr' <= 1 + size
        /\ l + 2 \in Nat /\ 1 <= l + 2 /\ l + 2 + n <= size + 1
        /\ held' = Given(held, l + 2, n)
    BY <1>2, <1>3, <1>6, <1>8, <1>9, <1>10
  <2> QED
    BY <1>1, <1>6, <1>19, <2>1, MallocDone
<1> QED
  BY <1>20, <1>21

(* A held pointer is the payload of an allocated block.                    *)
LEMMA HeldIs ==
    ASSUME NEW H, NEW m, NEW s \in Nat, NEW l \in Nat, NEW k \in Nat, NEW hd,
           Laid(H, m, s, l, k, hd), NEW p \in DOMAIN hd
    PROVE  \E b \in H : /\ p = b + 2 /\ p - 2 = b /\ p - 1 = b + 1 /\ m[b + 1] # 0
                        /\ b \in Nat /\ s <= b /\ b < l /\ m[b] \in Nat
                        /\ b + k + m[b] \in H \cup {l} /\ b + k + m[b] <= l
<1>1. PICK b \in H : p = b + 2 /\ m[b + 1] # 0
  BY DEF Laid, Owned
<1>2. /\ b \in Nat /\ s <= b /\ b < l /\ m[b] \in Nat
      /\ b + k + m[b] \in H \cup {l} /\ b + k + m[b] <= l
  BY ChainFacts DEF Laid
<1>3. p - 2 = b /\ p - 1 = b + 1
  BY <1>1, <1>2
<1> QED
  BY <1>1, <1>2, <1>3

(* Freeing a block clears its flag.                                        *)
LEMMA ImplicitFree ==
    ASSUME ArenaInv, Placed, ImplicitInv, kind = "implicit", NEW p \in DOMAIN held,
           Implicit!AllocFree(p)
    PROVE  ArenaInv' /\ Placed' /\ ImplicitInv' /\ Seen
<1>0. Mapped
  BY ImplicitIs DEF Implicit!AllocFree
<1>1. PICK l \in Nat : l = last_ptr
  BY <1>0, ArenaFacts
<1>2. /\ start_ptr = 1 /\ 1 <= l /\ size \in Nat /\ l <= 1 + size /\ size <= HeapWords
      /\ \A a \in 1 .. size : a \in Words
  BY <1>0, <1>1, ArenaFacts
<1>3. PICK H : Laid(H, mem, 1, l, 2, held)
  BY <1>0, <1>1, <1>2 DEF ImplicitInv
<1>4. Chain(H, mem, 1, l, 2)
  BY <1>3 DEF Laid
<1>5. PICK b \in H : /\ p = b + 2 /\ p - 1 = b + 1 /\ mem[b + 1] # 0
                     /\ b \in Nat /\ 1 <= b /\ b < l /\ mem[b] \in Nat
                     /\ b + 2 + mem[b] \in H \cup {l} /\ b + 2 + mem[b] <= l
  BY <1>3, HeldIs
<1>6. PICK y \in Nat : y = b + 2 + mem[b]
  BY <1>5
<1>7. /\ mem' = [mem EXCEPT ![b + 1] = 0]
      /\ held' = Restrict(held, DOMAIN held \ {b + 2})
      /\ UNCHANGED <<kind, start_ptr, last_ptr, size, HEAD>>
  BY <1>5, ImplicitIs DEF Implicit!AllocFree
<1>8. b + 1 \in Words /\ b \in Words /\ b + 2 <= y
  BY <1>2, <1>5, <1>6
<1>9. /\ mem' \in [Words -> WordValues] /\ mem'[b + 1] = 0
      /\ \A a \in Words : a # b + 1 => mem'[a] = mem[a]
  BY <1>7, <1>8 DEF ArenaInv, WordValues
<1>10. mem'[b] = mem[b]
  BY <1>5, <1>8, <1>9
<1>11. SameOutside(mem, mem', 1, l, b, y)
  <2>1. \A a \in 1 .. l - 1 : a \in Words /\ (a < b \/ a >= y => a # b + 1)
    BY <1>2, <1>5, <1>8
  <2> QED
    BY <1>9, <2>1 DEF SameOutside
<1>12. Chain({b}, mem', b, y, 2)
  <2>1. y = b + 2 + mem'[b] /\ mem'[b] \in Nat /\ 2 \in Nat /\ 2 >= 2
    BY <1>5, <1>6, <1>10
  <2> QED
    BY <1>5, <2>1, OneBlock, Zenon
<1>13. Cut(H, mem, 1, l, 2, b, y, {b}, mem', y, l)
  <2>1. Patch(H, mem, 1, l, 2, b, y, {b}, mem', y, l)
    BY <1>1, <1>4, <1>5, <1>6, <1>8, <1>11, <1>12 DEF Patch
  <2> QED
    BY <2>1, CutWithin
<1>14. Joined(H, mem, 1, l, 2, b, y, mem', y, l, held, b)
  <2>1. FreeFrom(H \ {b}, mem, b, y)
    BY <1>4, <1>6, FreeBlock
  <2> QED
    BY <1>3, <1>5, <1>6, <1>8, <1>9, <1>13, <2>1 DEF Joined
<1>15. \E J : Laid(J, mem', 1, l, 2, Restrict(held, DOMAIN held \ {b + 2}))
  BY <1>14, Released
<1>16. ImplicitInv'
  BY <1>1, <1>2, <1>7, <1>15 DEF ImplicitInv
<1> QED
  BY <1>0, <1>5, <1>7, <1>9, <1>16, FreeDone

(* An arena without blocks.                                                *)
LEMMA NoBlocks ==
    ASSUME NEW m, NEW s \in Nat, NEW k
    PROVE  Laid({}, m, s, s, k, <<>>)
  BY DEF Laid, Chain, Owned

(* Every step of the implicit list.                                        *)
LEMMA ImplicitStep ==
    ASSUME ArenaInv, Placed, ImplicitInv, kind = "implicit", kind \in Kinds, Implicit!Next
    PROVE  ArenaInv' /\ Placed' /\ ImplicitInv' /\ Seen
<1>1. CASE Implicit!Lifecycle
  <2>1. ArenaInv' /\ Placed' /\ Seen /\ (Mapped' => last_ptr' = start_ptr' /\ held' = <<>>)
    <3>1. CASE \E n \in DOMAIN Workload[kind] : start_ptr = NULL /\ (~Mapped => Fresher(n, Base))
      <4>1. PICK n \in DOMAIN Workload[kind] : start_ptr = NULL /\ (~Mapped => Fresher(n, Base))
        BY <3>1
      <4>2. ~Mapped
        BY <4>1, SizeIs DEF Placed, Start, Base, NULL, ArenaInv
      <4>3. Fresher(n, Start(kind, n))
        BY <4>1, <4>2 DEF Start
      <4> QED
        BY <4>3, Created
    <3>2. CASE AllocInitFails \/ AllocDeinit \/ AllocReset
      BY <3>2, Ended
    <3> QED
      BY <1>1, <3>1, <3>2, ImplicitIs
  <2>2. Mapped' => start_ptr' \in Nat
    BY <2>1, SizeIs DEF Placed, Start, Base, ArenaInv
  <2>3. ImplicitInv'
    BY <2>1, <2>2, NoBlocks DEF ImplicitInv
  <2> QED
    BY <2>1, <2>3
<1>2. CASE UNCHANGED arenaVars
  <2>1. ImplicitInv'
    BY <1>2 DEF ImplicitInv, arenaVars, heapVars, Mapped
  <2> QED
    BY <1>2, <2>1, Refused
<1>3. CASE \E n \in Asked : Implicit!MallocReuse(n) \/ Implicit!MallocAppend(n)
  BY <1>3, ImplicitReuse, ImplicitAppend
<1>4. CASE \E p \in DOMAIN held : Implicit!AllocFree(p)
  BY <1>4, ImplicitFree
<1>5. \/ Implicit!Lifecycle \/ UNCHANGED arenaVars
      \/ \E n \in Asked : Implicit!MallocReuse(n) \/ Implicit!MallocAppend(n)
      \/ \E p \in DOMAIN held : Implicit!AllocFree(p)
  BY ImplicitIs DEF Implicit!Next, Implicit!MallocNull, Implicit!FreeRejected
<1> QED
  BY <1>1, <1>2, <1>3, <1>4, <1>5

-----------------------------------------------------------------------------
(* The improved list                                                       *)

(* The entries of a meta region from s to l.                               *)
EntriesOf(s, l) == {s + 3 * k : k \in 0 .. (l - s) \div 3 - 1}
Spaced(E, s, l) == /\ \A e \in E : /\ e \in Nat /\ s <= e /\ e + 3 <= l
                                   /\ e = s \/ e - 3 \in E
                   /\ \A e, f \in E : e < f => e + 3 <= f
                   /\ l # s => l - 3 \in E

(* Entries of three words, and one more of them.                           *)
LEMMA EntriesAre ==
    ASSUME NEW s \in Nat, NEW c \in Nat, NEW l, l = s + 3 * c
    PROVE  /\ Spaced(EntriesOf(s, l), s, l)
           /\ EntriesOf(s, l + 3) = EntriesOf(s, l) \cup {l}
<1>1. (l - s) \div 3 = c /\ (l + 3 - s) \div 3 = c + 1
  OBVIOUS
<1>2. /\ \A e : e \in EntriesOf(s, l) <=> \E k \in 0 .. c - 1 : e = s + 3 * k
      /\ \A e : e \in EntriesOf(s, l + 3) <=> \E k \in 0 .. c : e = s + 3 * k
  BY <1>1 DEF EntriesOf
<1>3. ASSUME NEW e \in EntriesOf(s, l)
      PROVE  /\ e \in Nat /\ s <= e /\ e + 3 <= l
             /\ e = s \/ e - 3 \in EntriesOf(s, l)
  <2>1. PICK k \in 0 .. c - 1 : e = s + 3 * k
    BY <1>2
  <2>2. e \in Nat /\ s <= e /\ e + 3 <= l
    BY <2>1
  <2>3. CASE k # 0
    <3>1. k - 1 \in 0 .. c - 1 /\ e - 3 = s + 3 * (k - 1)
      BY <2>1, <2>3
    <3>2. e - 3 \in EntriesOf(s, l)
      BY <1>2, <3>1
    <3> QED
      BY <2>2, <3>2
  <2>4. CASE k = 0
    <3>1. e = s
      BY <2>1, <2>4
    <3> QED
      BY <2>2, <3>1
  <2> QED
    BY <2>3, <2>4
<1>4. ASSUME NEW e \in EntriesOf(s, l), NEW f \in EntriesOf(s, l), e < f PROVE e + 3 <= f
  <2>1. PICK k \in 0 .. c - 1 : e = s + 3 * k
    BY <1>2
  <2>2. PICK j \in 0 .. c - 1 : f = s + 3 * j
    BY <1>2
  <2> QED
    BY <1>4, <2>1, <2>2
<1>5. l # s => l - 3 \in EntriesOf(s, l)
  <2>1. l # s => c - 1 \in 0 .. c - 1 /\ l - 3 = s + 3 * (c - 1)
    OBVIOUS
  <2> QED
    BY <1>2, <2>1
<1>6. EntriesOf(s, l + 3) = EntriesOf(s, l) \cup {l}
  <2>1. \A k \in 0 .. c : k = c \/ k \in 0 .. c - 1
    OBVIOUS
  <2>2. \A k \in 0 .. c - 1 : k \in 0 .. c
    OBVIOUS
  <2>3. c \in 0 .. c
    OBVIOUS
  <2>4. \A e : e \in EntriesOf(s, l + 3) <=> e \in EntriesOf(s, l) \/ e = l
    BY <1>2, <2>1, <2>2, <2>3, Zenon
  <2> QED
    BY <2>4
<1> QED
  BY <1>3, <1>4, <1>5, <1>6 DEF Spaced

(* An entry: its block lies in the data region, from 1 to s, names the     *)
(* entry, and starts where the block of the entry before it ends.          *)
Entry(m, s, e) == /\ m[e] \in Nat /\ m[e + 2] \in Nat /\ m[e + 2] >= 3 /\ m[e + 2] + m[e] <= s
                  /\ m[m[e + 2] - 1] = e
                  /\ m[e + 2] - 2 = IF e = s THEN 1 ELSE m[e - 1] + m[e - 3]
Ordered(E, m) == \A e, f \in E : e < f => m[e + 2] + m[e] + 2 <= m[f + 2]
Serves(m, hd, e) == m[e + 1] # 0 =>
    /\ hd[m[e + 2]] \in Nat /\ hd[m[e + 2]] <= m[e]
    /\ \A a \in m[e + 2] .. m[e + 2] + hd[m[e + 2]] - 1 : m[a] = UserData
Lent(E, m) == {m[e + 2] : e \in {f \in E : m[f + 1] # 0}}
Table(E, m, s, l, hd) == /\ s \in Nat /\ l \in Nat /\ Spaced(E, s, l)
                         /\ \A e \in E : Entry(m, s, e)
                         /\ Ordered(E, m)
                         /\ DOMAIN hd = Lent(E, m)
                         /\ \A e \in E : Serves(m, hd, e)

(* The step leaves the entry's size and payload and the block's way back.  *)
Stays(m, m2, e) == m2[e] = m[e] /\ m2[e + 2] = m[e + 2] /\ m2[m[e + 2] - 1] = m[m[e + 2] - 1]
AllStay(E, m, m2) == \A e \in E : Stays(m, m2, e)

(* What stays of the entries keeps them right.                             *)
LEMMA EntriesStay ==
    ASSUME NEW E, NEW m, NEW s, NEW l, NEW hd, NEW m2, Table(E, m, s, l, hd), AllStay(E, m, m2)
    PROVE  (\A e \in E : Entry(m2, s, e)) /\ Ordered(E, m2)
<1>1. \A e \in E : m2[e] = m[e] /\ m2[e + 2] = m[e + 2] /\ m2[m2[e + 2] - 1] = m[m[e + 2] - 1]
  BY DEF AllStay, Stays
<1>2. ASSUME NEW e \in E PROVE Entry(m2, s, e)
  <2>1. Entry(m, s, e) /\ e \in Nat /\ (e = s \/ e - 3 \in E) /\ s \in Nat
    BY DEF Table, Spaced
  <2>2. e # s => m2[e - 3] = m[e - 3] /\ m2[e - 3 + 2] = m[e - 3 + 2] /\ e - 3 + 2 = e - 1
    BY <1>1, <2>1
  <2> QED
    BY <1>1, <2>1, <2>2 DEF Entry
<1>3. Ordered(E, m2)
  BY <1>1 DEF Table, Ordered
<1> QED
  BY <1>2, <1>3

(* Where the blocks of two entries lie.                                    *)
LEMMA EntryFacts ==
    ASSUME NEW E, NEW m, NEW s, NEW l, NEW hd, Table(E, m, s, l, hd), NEW e \in E
    PROVE  /\ e \in Nat /\ s <= e /\ e + 3 <= l /\ s \in Nat /\ l \in Nat
           /\ m[e] \in Nat /\ m[e + 2] \in Nat /\ m[e + 2] >= 3 /\ m[e + 2] + m[e] <= s
           /\ m[m[e + 2] - 1] = e
           /\ \A f \in E : /\ f \in Nat /\ m[f] \in Nat /\ m[f + 2] \in Nat
                           /\ f < e => f + 3 <= e /\ m[f + 2] + m[f] + 2 <= m[e + 2]
                           /\ f > e => e + 3 <= f /\ m[e + 2] + m[e] + 2 <= m[f + 2]
  BY DEF Table, Spaced, Entry, Ordered

(* What holds of the improved list: its meta region is a whole number of   *)
(* entries, and they are a table of what the caller holds.                 *)
ImprovedInv == Mapped => /\ \E c \in Nat : last_ptr = start_ptr + 3 * c
                         /\ Table(EntriesOf(start_ptr, last_ptr), mem, start_ptr, last_ptr, held)

(* The words from p on for n words are new, beside those of the entries.   *)
Beside(E, m, p, n) == \A f \in E : m[f + 1] # 0 => m[f + 2] + m[f] + 2 <= p \/ p + n + 1 < m[f + 2]

(* Entry e, of the entries F, serves n words at p; the other blocks in use *)
(* keep what they hold.                                                    *)
Serving(E, m, s, l, hd, F, m2, l2, e, p, n) ==
    /\ Table(E, m, s, l, hd) /\ l2 \in Nat /\ Spaced(F, s, l2)
    /\ e \in F /\ F \subseteq E \cup {e} /\ E \subseteq F
    /\ n \in Nat /\ p \in Nat /\ m2[e + 2] = p /\ n <= m2[e] /\ m2[e + 1] # 0
    /\ (\A f \in F : Entry(m2, s, f)) /\ Ordered(F, m2)
    /\ \A f \in E : f # e => m2[f] = m[f] /\ m2[f + 1] = m[f + 1] /\ m2[f + 2] = m[f + 2]
    /\ e \in E => m[e + 1] = 0
    /\ Beside(E, m, p, n)
    /\ \A a \in p .. p + n - 1 : m2[a] = UserData
    /\ \A f \in E : m[f + 1] # 0 => \A a \in m[f + 2] .. m[f + 2] + m[f] - 1 : m2[a] = m[a]

(* What the caller holds stays when entry e is handed out.                 *)
LEMMA TableGiven ==
    ASSUME NEW E, NEW m, NEW s, NEW l, NEW hd, NEW F, NEW m2, NEW l2, NEW e, NEW p, NEW n,
           Serving(E, m, s, l, hd, F, m2, l2, e, p, n)
    PROVE  Table(F, m2, s, l2, Given(hd, p, n)) /\ Fresh(hd, p, n)
<1>0. /\ Table(E, m, s, l, hd) /\ l2 \in Nat /\ Spaced(F, s, l2)
      /\ e \in F /\ F \subseteq E \cup {e} /\ E \subseteq F
      /\ n \in Nat /\ p \in Nat /\ m2[e + 2] = p /\ n <= m2[e] /\ m2[e + 1] # 0
      /\ (\A f \in F : Entry(m2, s, f)) /\ Ordered(F, m2)
      /\ \A f \in E : f # e => m2[f] = m[f] /\ m2[f + 1] = m[f + 1] /\ m2[f + 2] = m[f + 2]
      /\ e \in E => m[e + 1] = 0
      /\ Beside(E, m, p, n)
      /\ \A a \in p .. p + n - 1 : m2[a] = UserData
      /\ \A f \in E : m[f + 1] # 0 => \A a \in m[f + 2] .. m[f + 2] + m[f] - 1 : m2[a] = m[a]
  BY DEF Serving
<1> USE <1>0
<1>1. PICK hd2 : hd2 = Given(hd, p, n)
  OBVIOUS
<1>2. DOMAIN hd2 = DOMAIN hd \cup {p} /\ hd2[p] = n /\ \A q \in DOMAIN hd : q # p => hd2[q] = hd[q]
  BY <1>1 DEF Given
<1>3. DOMAIN hd = Lent(E, m) /\ \A f \in E : Serves(m, hd, f)
  BY DEF Table
<1>4. \A f \in E : m[f] \in Nat /\ m[f + 2] \in Nat
  BY EntryFacts
<1>5. p \notin DOMAIN hd
  BY <1>3, <1>4 DEF Lent, Beside
<1>6. ASSUME NEW q \in DOMAIN hd PROVE (p .. p + n - 1) \cap (q .. q + hd[q] - 1) = {}
  <2>1. PICK f \in E : q = m[f + 2] /\ m[f + 1] # 0
    BY <1>3 DEF Lent
  <2>2. PICK w : w = hd[q]
    OBVIOUS
  <2>3. w \in Nat /\ w <= m[f] /\ m[f] \in Nat /\ q \in Nat
    BY <1>3, <1>4, <2>1, <2>2 DEF Serves
  <2>4. q + m[f] + 2 <= p \/ p + n + 1 < q
    BY <2>1 DEF Beside
  <2> QED
    BY <2>2, <2>3, <2>4
<1>7. Lent(F, m2) = DOMAIN hd2
  <2>1. ASSUME NEW f \in F, m2[f + 1] # 0 PROVE m2[f + 2] \in DOMAIN hd2
    BY <1>2, <1>3, <2>1 DEF Lent
  <2>2. ASSUME NEW q \in DOMAIN hd2 PROVE \E f \in F : m2[f + 1] # 0 /\ m2[f + 2] = q
    <3>1. CASE q = p
      BY <3>1
    <3>2. CASE q # p
      <4>1. PICK f \in E : q = m[f + 2] /\ m[f + 1] # 0
        BY <1>2, <1>3, <3>2 DEF Lent
      <4> QED
        BY <4>1
    <3> QED
      BY <3>1, <3>2
  <2> QED
    BY <2>1, <2>2 DEF Lent
<1>8. ASSUME NEW f \in F PROVE Serves(m2, hd2, f)
  <2>1. CASE f = e
    BY <1>2, <2>1 DEF Serves
  <2>2. CASE f # e
    <3>1. f \in E /\ m2[f] = m[f] /\ m2[f + 1] = m[f + 1] /\ m2[f + 2] = m[f + 2]
      BY <2>2
    <3>2. CASE m[f + 1] # 0
      <4>1. PICK q, w : q = m[f + 2] /\ w = hd[q]
        OBVIOUS
      <4>2. q \in DOMAIN hd /\ hd2[q] = w
        BY <1>2, <1>3, <1>5, <3>1, <3>2, <4>1 DEF Lent
      <4>3. w \in Nat /\ w <= m[f] /\ \A a \in q .. q + w - 1 : m[a] = UserData
        BY <1>3, <3>1, <3>2, <4>1 DEF Serves
      <4>4. \A a \in q .. q + m[f] - 1 : m2[a] = m[a]
        BY <3>1, <3>2, <4>1
      <4>5. \A a \in q .. q + w - 1 : a \in q .. q + m[f] - 1
        BY <1>4, <3>1, <4>1, <4>3
      <4>6. \A a \in q .. q + w - 1 : m2[a] = UserData
        BY <4>3, <4>4, <4>5, Zenon
      <4> QED
        BY <3>1, <4>1, <4>2, <4>3, <4>6 DEF Serves
    <3> QED
      BY <3>1, <3>2 DEF Serves
  <2> QED
    BY <2>1, <2>2
<1>9. Fresh(hd, p, n)
  BY <1>5, <1>6 DEF Fresh
<1>10. Table(F, m2, s, l2, hd2)
  BY <1>7, <1>8 DEF Table
<1> QED
  BY <1>1, <1>9, <1>10

(* Entry e is free and its block, at p, is handed out for n words.         *)
Reused(E, m, s, l, hd, e, p, n, m2) ==
    /\ m \in [Words -> WordValues] /\ Table(E, m, s, l, hd) /\ 1 .. l - 1 \subseteq Words
    /\ e \in E /\ m[e + 1] = 0 /\ n \in Nat /\ n <= m[e] /\ p = m[e + 2]
    /\ m2 = Filled([m EXCEPT ![e + 1] = 1], p, n)

(* Handing out the block of a free entry.                                  *)
LEMMA TableReuse ==
    ASSUME NEW E, NEW m, NEW s, NEW l, NEW hd, NEW e, NEW p, NEW n, NEW m2,
           Reused(E, m, s, l, hd, e, p, n, m2)
    PROVE  /\ m2 \in [Words -> WordValues]
           /\ Table(E, m2, s, l, Given(hd, p, n)) /\ Fresh(hd, p, n)
           /\ p \in Nat /\ 1 <= p /\ p + n <= s
<1>0. /\ m \in [Words -> WordValues] /\ Table(E, m, s, l, hd) /\ 1 .. l - 1 \subseteq Words
      /\ e \in E /\ m[e + 1] = 0 /\ n \in Nat /\ n <= m[e] /\ p = m[e + 2]
      /\ m2 = Filled([m EXCEPT ![e + 1] = 1], p, n)
  BY DEF Reused
<1> USE <1>0
<1>1. /\ e \in Nat /\ s <= e /\ e + 3 <= l /\ s \in Nat /\ l \in Nat
      /\ m[e] \in Nat /\ p \in Nat /\ p >= 3 /\ p + m[e] <= s
  BY EntryFacts
<1>2. e + 1 \in Words
  BY <1>1
<1>3. /\ m2 \in [Words -> WordValues]
      /\ \A a \in Words : m2[a] = IF a \in p .. p + n - 1 THEN UserData
                                  ELSE IF a = e + 1 THEN 1 ELSE m[a]
  <2>1. PICK m1 : m1 = [m EXCEPT ![e + 1] = 1]
    OBVIOUS
  <2>2. m1 \in [Words -> WordValues] /\ \A a \in Words : m1[a] = IF a = e + 1 THEN 1 ELSE m[a]
    BY <1>2, <2>1 DEF WordValues
  <2>3. m2 = Filled(m1, p, n)
    BY <2>1
  <2>4. /\ m2 \in [Words -> WordValues]
        /\ \A a \in Words : m2[a] = IF a \in p .. p + n - 1 THEN UserData ELSE m1[a]
    BY <2>2, <2>3 DEF Filled, WordValues, UserData
  <2> QED
    BY <2>2, <2>4, Zenon
<1>4. ASSUME NEW f \in E
      PROVE  /\ f \in Nat /\ s <= f /\ f + 3 <= l /\ m[f] \in Nat /\ m[f + 2] \in Nat /\ m[f + 2] >= 3
             /\ m[f + 2] + m[f] <= s
             /\ f < e => f + 3 <= e /\ m[f + 2] + m[f] + 2 <= p
             /\ f > e => e + 3 <= f /\ p + m[e] + 2 <= m[f + 2]
  BY EntryFacts
<1>5. ASSUME NEW f \in E
      PROVE  /\ m2[f] = m[f] /\ m2[f + 2] = m[f + 2] /\ (f # e => m2[f + 1] = m[f + 1])
             /\ m2[m[f + 2] - 1] = m[m[f + 2] - 1]
  <2>1. PICK q, w \in Nat : q = m[f + 2] /\ w = m[f]
    BY <1>4
  <2>2. /\ f \in Words /\ f + 1 \in Words /\ f + 2 \in Words /\ q - 1 \in Words
    BY <1>1, <1>4, <2>1
  <2>3. /\ f # e + 1 /\ f + 2 # e + 1 /\ (f # e => f + 1 # e + 1) /\ q - 1 # e + 1
    BY <1>1, <1>4, <2>1
  <2>4. /\ f \notin p .. p + n - 1 /\ f + 1 \notin p .. p + n - 1 /\ f + 2 \notin p .. p + n - 1
    BY <1>1, <1>4
  <2>5. q - 1 \notin p .. p + n - 1
    <3>1. f = e => q = p
      BY <2>1
    <3> QED
      BY <1>1, <1>4, <2>1, <3>1
  <2> QED
    BY <1>3, <2>1, <2>2, <2>3, <2>4, <2>5
<1>6. AllStay(E, m, m2)
  BY <1>5 DEF AllStay, Stays
<1>7. (\A f \in E : Entry(m2, s, f)) /\ Ordered(E, m2)
  BY <1>6, EntriesStay
<1>8. Beside(E, m, p, n)
  BY <1>1, <1>4 DEF Beside
<1>9. \A a \in p .. p + n - 1 : m2[a] = UserData
  <2>1. \A a \in p .. p + n - 1 : a \in Words
    BY <1>1
  <2> QED
    BY <1>3, <2>1
<1>10. ASSUME NEW f \in E, m[f + 1] # 0, NEW a \in m[f + 2] .. m[f + 2] + m[f] - 1 PROVE m2[a] = m[a]
  <2>1. PICK q, w \in Nat : q = m[f + 2] /\ w = m[f]
    BY <1>4
  <2>2. a \in Words /\ a # e + 1 /\ a \notin p .. p + n - 1
    BY <1>1, <1>4, <1>8, <1>10, <2>1 DEF Beside
  <2> QED
    BY <1>3, <2>2
<1>11. Spaced(E, s, l)
  BY DEF Table
<1>12. m2[e + 1] # 0 /\ m2[e + 2] = p /\ n <= m2[e]
  <2>1. e + 1 \notin p .. p + n - 1
    BY <1>1
  <2> QED
    <3>1. m2[e + 1] = 1
      BY <1>2, <1>3, <2>1
    <3>2. m2[e + 2] = p /\ m2[e] = m[e]
      BY <1>5
    <3> QED
      BY <3>1, <3>2
<1>13. Table(E, m2, s, l, Given(hd, p, n)) /\ Fresh(hd, p, n)
  <2>1. \A f \in E : m[f + 1] # 0 => \A a \in m[f + 2] .. m[f + 2] + m[f] - 1 : m2[a] = m[a]
    BY <1>10
  <2>2. \A f \in E : f # e => m2[f] = m[f] /\ m2[f + 1] = m[f + 1] /\ m2[f + 2] = m[f + 2]
    BY <1>5
  <2>3. E \subseteq E \cup {e} /\ E \subseteq E /\ l \in Nat /\ p \in Nat
    BY <1>1
  <2>4. Serving(E, m, s, l, hd, E, m2, l, e, p, n)
    BY <1>7, <1>8, <1>9, <1>11, <1>12, <2>1, <2>2, <2>3 DEF Serving
  <2> QED
    BY <2>4, TableGiven
<1>14. 1 <= p /\ p + n <= s
  BY <1>1
<1> QED
  BY <1>1, <1>3, <1>13, <1>14, Zenon

(* A new entry at l, for a block of r words at p behind all others, which  *)
(* is handed out for n words.                                              *)
Appended(E, m, s, l, hd, r, p, n, m2) ==
    /\ m \in [Words -> WordValues] /\ Table(E, m, s, l, hd) /\ s >= 1 /\ s <= l
    /\ 1 .. l + 2 \subseteq Words /\ n \in Nat /\ r \in Nat /\ n <= r
    /\ Spaced(E \cup {l}, s, l + 3)
    /\ p = (IF s = l THEN 1 ELSE m[l - 1] + m[l - 3]) + 2 /\ p + r <= s
    /\ m2 = Filled([m EXCEPT ![l] = r, ![l + 1] = 1, ![l + 2] = p, ![p - 1] = l], p, n)

(* Appending an entry.                                                     *)
LEMMA TableAppend ==
    ASSUME NEW E, NEW m, NEW s, NEW l, NEW hd, NEW r, NEW p, NEW n, NEW m2,
           Appended(E, m, s, l, hd, r, p, n, m2)
    PROVE  /\ m2 \in [Words -> WordValues]
           /\ \E F : F = E \cup {l} /\ Table(F, m2, s, l + 3, Given(hd, p, n))
           /\ Fresh(hd, p, n)
           /\ p \in Nat /\ 1 <= p /\ p + n <= s
<1>0. /\ m \in [Words -> WordValues] /\ Table(E, m, s, l, hd) /\ s >= 1 /\ s <= l
      /\ 1 .. l + 2 \subseteq Words /\ n \in Nat /\ r \in Nat /\ n <= r
      /\ Spaced(E \cup {l}, s, l + 3)
      /\ p = (IF s = l THEN 1 ELSE m[l - 1] + m[l - 3]) + 2 /\ p + r <= s
      /\ m2 = Filled([m EXCEPT ![l] = r, ![l + 1] = 1, ![l + 2] = p, ![p - 1] = l], p, n)
  BY DEF Appended
<1> USE <1>0
<1>1. s \in Nat /\ l \in Nat /\ Spaced(E, s, l)
  BY DEF Table
<1>2. ASSUME NEW f \in E
      PROVE  /\ f \in Nat /\ s <= f /\ f + 3 <= l /\ m[f] \in Nat /\ m[f + 2] \in Nat /\ m[f + 2] >= 3
             /\ m[f + 2] + m[f] <= s
  BY EntryFacts
<1>3. /\ p \in Nat /\ p >= 3
      /\ \A f \in E : m[f + 2] + m[f] + 2 <= p
  <2>1. CASE s = l
    <3>1. p = 3
      BY <2>1
    <3>2. \A f \in E : FALSE
      BY <1>1, <1>2, <2>1
    <3> QED
      BY <3>1, <3>2
  <2>2. CASE s # l
    <3>1. PICK g : g = l - 3
      OBVIOUS
    <3>2. g \in E /\ g + 2 = l - 1
      BY <1>1, <2>2, <3>1 DEF Spaced
    <3>3. /\ g \in Nat /\ m[g] \in Nat /\ m[g + 2] \in Nat /\ m[g + 2] >= 3
          /\ \A f \in E : f < g => m[f + 2] + m[f] + 2 <= m[g + 2]
      BY <3>2, EntryFacts
    <3>4. p = m[g + 2] + m[g] + 2
      BY <2>2, <3>1, <3>2
    <3>5. \A f \in E : f <= g
      BY <1>1, <1>2, <3>1
    <3>6. ASSUME NEW f \in E PROVE m[f + 2] + m[f] + 2 <= p
      <4>1. f = g \/ f < g
        BY <1>2, <3>3, <3>5
      <4>2. CASE f = g
        BY <3>3, <3>4, <4>2
      <4>3. CASE f < g
        <5>1. m[f + 2] + m[f] + 2 <= m[g + 2] /\ m[f] \in Nat /\ m[f + 2] \in Nat
          BY <1>2, <3>3, <4>3
        <5> QED
          BY <3>3, <3>4, <5>1
      <4> QED
        BY <4>1, <4>2, <4>3
    <3>7. p \in Nat /\ p >= 3
      BY <3>3, <3>4
    <3> QED
      BY <3>6, <3>7
  <2> QED
    BY <2>1, <2>2
<1>4. l \in Words /\ l + 1 \in Words /\ l + 2 \in Words /\ p - 1 \in Words /\ p - 1 < s
  BY <1>1, <1>3
<1>5. /\ m2 \in [Words -> WordValues]
      /\ \A a \in Words : m2[a] = IF a \in p .. p + n - 1 THEN UserData
                                  ELSE IF a = p - 1 THEN l ELSE IF a = l + 2 THEN p
                                  ELSE IF a = l + 1 THEN 1 ELSE IF a = l THEN r ELSE m[a]
  <2>1. PICK m1 : m1 = [m EXCEPT ![l] = r, ![l + 1] = 1, ![l + 2] = p, ![p - 1] = l]
    OBVIOUS
  <2>2. l \in WordValues /\ r \in WordValues /\ 1 \in WordValues /\ p \in WordValues
    BY <1>1, <1>3 DEF WordValues
  <2>3. /\ m1 \in [Words -> WordValues]
        /\ \A a \in Words : m1[a] = IF a = p - 1 THEN l ELSE IF a = l + 2 THEN p
                                    ELSE IF a = l + 1 THEN 1 ELSE IF a = l THEN r ELSE m[a]
    BY <1>4, <2>1, <2>2
  <2>4. m2 = Filled(m1, p, n)
    BY <2>1
  <2>5. /\ m2 \in [Words -> WordValues]
        /\ \A a \in Words : m2[a] = IF a \in p .. p + n - 1 THEN UserData ELSE m1[a]
    BY <2>3, <2>4 DEF Filled, WordValues, UserData
  <2> QED
    BY <2>3, <2>5, Zenon
<1>6. \A a \in Words : a < p - 1 \/ (s <= a /\ a < l) => m2[a] = m[a]
  <2>1. \A a \in Words : (a < p - 1 \/ (s <= a /\ a < l))
           => a \notin p .. p + n - 1 /\ a # p - 1 /\ a # l /\ a # l + 1 /\ a # l + 2
    BY <1>1, <1>3, <1>4
  <2> QED
    BY <1>5, <2>1
<1>7. ASSUME NEW f \in E
      PROVE  /\ m2[f] = m[f] /\ m2[f + 2] = m[f + 2] /\ m2[f + 1] = m[f + 1]
             /\ m2[m[f + 2] - 1] = m[m[f + 2] - 1]
  <2>1. PICK q \in Nat : q = m[f + 2]
    BY <1>2
  <2>2. /\ f \in Words /\ f + 1 \in Words /\ f + 2 \in Words /\ q - 1 \in Words
        /\ s <= f /\ f < l /\ s <= f + 1 /\ f + 1 < l /\ s <= f + 2 /\ f + 2 < l /\ q - 1 < p - 1
    BY <1>1, <1>2, <1>3, <2>1
  <2> QED
    BY <1>6, <2>1, <2>2
<1>8. (\A f \in E : Entry(m2, s, f)) /\ Ordered(E, m2)
  <2>1. AllStay(E, m, m2)
    BY <1>7 DEF AllStay, Stays
  <2> QED
    BY <2>1, EntriesStay
<1>9. m2[l] = r /\ m2[l + 1] = 1 /\ m2[l + 2] = p /\ m2[p - 1] = l
  <2>1. /\ l \notin p .. p + n - 1 /\ l + 1 \notin p .. p + n - 1 /\ l + 2 \notin p .. p + n - 1
        /\ p - 1 \notin p .. p + n - 1 /\ l # p - 1 /\ l + 1 # p - 1 /\ l + 2 # p - 1
        /\ l # l + 1 /\ l # l + 2 /\ l + 1 # l + 2
    BY <1>1, <1>3, <1>4
  <2> QED
    BY <1>4, <1>5, <2>1
<1>10. Entry(m2, s, l)
  <2>1. l # s => m2[l - 3] = m[l - 3] /\ m2[l - 1] = m[l - 1]
    <3>1. PICK g : g = l - 3
      OBVIOUS
    <3>2. g + 2 = l - 1 /\ (l # s => g \in E)
      BY <1>1, <3>1 DEF Spaced
    <3>3. l # s => m2[g] = m[g] /\ m2[g + 2] = m[g + 2]
      BY <1>7, <3>2
    <3> QED
      BY <3>1, <3>2, <3>3
  <2>2. p - 2 = IF l = s THEN 1 ELSE m2[l - 1] + m2[l - 3]
    <3>1. CASE l = s
      BY <3>1
    <3>2. CASE l # s
      <4>1. PICK g : g = l - 3
        OBVIOUS
      <4>2. g \in E /\ g + 2 = l - 1
        BY <1>1, <3>2, <4>1 DEF Spaced
      <4>3. m[g] \in Nat /\ m[g + 2] \in Nat
        BY <1>2, <4>2
      <4>4. p = m[g + 2] + m[g] + 2 /\ m2[l - 1] = m[g + 2] /\ m2[l - 3] = m[g]
        BY <2>1, <3>2, <4>1, <4>2
      <4> QED
        BY <3>2, <4>3, <4>4
    <3> QED
      BY <3>1, <3>2
  <2> QED
    BY <1>3, <1>9, <2>2 DEF Entry
<1>11. Ordered(E \cup {l}, m2)
  <2>1. ASSUME NEW e \in E \cup {l}, NEW f \in E \cup {l}, e < f
        PROVE  m2[e + 2] + m2[e] + 2 <= m2[f + 2]
    <3>1. e \in E
      BY <1>1, <1>2, <2>1
    <3>2. CASE f \in E
      BY <1>8, <2>1, <3>1, <3>2 DEF Ordered
    <3>3. CASE f = l
      BY <1>3, <1>7, <1>9, <3>1, <3>3, ZenonT(40)
    <3> QED
      BY <3>2, <3>3
  <2> QED
    BY <2>1 DEF Ordered
<1>12. Beside(E, m, p, n)
  BY <1>3 DEF Beside
<1>13. \A a \in p .. p + n - 1 : m2[a] = UserData
  <2>1. \A a \in p .. p + n - 1 : a \in Words
    BY <1>1, <1>3
  <2> QED
    BY <1>5, <2>1
<1>14. ASSUME NEW f \in E, m[f + 1] # 0, NEW a \in m[f + 2] .. m[f + 2] + m[f] - 1 PROVE m2[a] = m[a]
  <2>1. PICK q, w \in Nat : q = m[f + 2] /\ w = m[f]
    BY <1>2
  <2>2. q >= 3 /\ q + w <= s /\ q + w + 2 <= p /\ a \in q .. q + w - 1
    BY <1>2, <1>3, <2>1
  <2>3. a \in Words /\ a < p - 1
    BY <1>1, <1>3, <2>2
  <2> QED
    BY <1>6, <2>3
<1>15. Serving(E, m, s, l, hd, E \cup {l}, m2, l + 3, l, p, n)
  <2>1. \A f \in E : m[f + 1] # 0 => \A a \in m[f + 2] .. m[f + 2] + m[f] - 1 : m2[a] = m[a]
    BY <1>14
  <2>2. \A f \in E : f # l => m2[f] = m[f] /\ m2[f + 1] = m[f + 1] /\ m2[f + 2] = m[f + 2]
    BY <1>7
  <2>3. l \notin E /\ l + 3 \in Nat /\ n <= m2[l] /\ m2[l + 1] # 0
    BY <1>1, <1>2, <1>9
  <2>4. \A f \in E \cup {l} : Entry(m2, s, f)
    BY <1>8, <1>10
  <2> QED
    BY <1>3, <1>9, <1>11, <1>12, <1>13, <2>1, <2>2, <2>3, <2>4, Zenon DEF Serving
<1>16. Table(E \cup {l}, m2, s, l + 3, Given(hd, p, n)) /\ Fresh(hd, p, n)
  <2>1. PICK F, l2 : F = E \cup {l} /\ l2 = l + 3
    OBVIOUS
  <2>2. Serving(E, m, s, l, hd, F, m2, l2, l, p, n)
    BY <1>15, <2>1
  <2>3. Table(F, m2, s, l2, Given(hd, p, n)) /\ Fresh(hd, p, n)
    BY <2>2, TableGiven
  <2> QED
    BY <2>1, <2>3
<1>17. 1 <= p /\ p + n <= s
  BY <1>1, <1>3
<1> QED
  BY <1>3, <1>5, <1>16, <1>17, Zenon

(* Taking back the block of entry e.                                       *)
LEMMA TableFree ==
    ASSUME NEW E, NEW m \in [Words -> WordValues], NEW s, NEW l, NEW hd, Table(E, m, s, l, hd),
           1 .. l - 1 \subseteq Words, NEW e \in E, m[e + 1] # 0,
           NEW p, p = m[e + 2], NEW m2, m2 = [m EXCEPT ![e + 1] = 0]
    PROVE  /\ m2 \in [Words -> WordValues]
           /\ Table(E, m2, s, l, Restrict(hd, DOMAIN hd \ {p}))
<1>1. /\ s \in Nat /\ l \in Nat
      /\ \A f \in E : /\ f \in Nat /\ s <= f /\ f + 3 <= l /\ m[f] \in Nat /\ m[f + 2] \in Nat /\ m[f + 2] >= 3
                      /\ m[f + 2] + m[f] <= s
                      /\ f < e => f + 3 <= e /\ m[f + 2] + m[f] + 2 <= p
                      /\ f > e => e + 3 <= f /\ p + m[e] + 2 <= m[f + 2]
  BY EntryFacts
<1>2. e + 1 \in Words /\ e \in Nat /\ s <= e
  BY <1>1
<1>3. /\ m2 \in [Words -> WordValues] /\ m2[e + 1] = 0
      /\ \A a \in Words : a # e + 1 => m2[a] = m[a]
  BY <1>2 DEF WordValues
<1>4. ASSUME NEW f \in E
      PROVE  /\ m2[f] = m[f] /\ m2[f + 2] = m[f + 2] /\ (f # e => m2[f + 1] = m[f + 1])
             /\ m2[m[f + 2] - 1] = m[m[f + 2] - 1]
             /\ \A a \in m[f + 2] .. m[f + 2] + m[f] - 1 : m2[a] = m[a]
  <2>1. PICK q, w \in Nat : q = m[f + 2] /\ w = m[f]
    BY <1>1
  <2>2. /\ f \in Words /\ f + 1 \in Words /\ f + 2 \in Words /\ q - 1 \in Words
        /\ f # e + 1 /\ f + 2 # e + 1 /\ (f # e => f + 1 # e + 1) /\ q - 1 # e + 1
        /\ \A a \in q .. q + w - 1 : a \in Words /\ a # e + 1
    BY <1>1, <1>2, <2>1
  <2> QED
    BY <1>3, <2>1, <2>2
<1>5. (\A f \in E : Entry(m2, s, f)) /\ Ordered(E, m2)
  <2>1. AllStay(E, m, m2)
    BY <1>4 DEF AllStay, Stays
  <2> QED
    BY <2>1, EntriesStay
<1>6. PICK hd2 : hd2 = Restrict(hd, DOMAIN hd \ {p})
  OBVIOUS
<1>7. DOMAIN hd2 = DOMAIN hd \ {p} /\ \A q \in DOMAIN hd2 : hd2[q] = hd[q]
  BY <1>6 DEF Restrict
<1>8. DOMAIN hd = Lent(E, m) /\ (\A f \in E : Serves(m, hd, f)) /\ Spaced(E, s, l)
  BY DEF Table
<1>9. \A f \in E : f # e => m[f + 2] # p
  BY <1>1
<1>10. Lent(E, m2) = DOMAIN hd2
  <2>1. ASSUME NEW f \in E, m2[f + 1] # 0 PROVE m2[f + 2] \in DOMAIN hd2
    <3>1. f # e /\ m2[f + 1] = m[f + 1] /\ m2[f + 2] = m[f + 2]
      BY <1>3, <1>4, <2>1
    <3> QED
      BY <1>7, <1>8, <1>9, <2>1, <3>1 DEF Lent
  <2>2. ASSUME NEW q \in DOMAIN hd2 PROVE \E f \in E : m2[f + 1] # 0 /\ m2[f + 2] = q
    <3>1. PICK f \in E : q = m[f + 2] /\ m[f + 1] # 0
      BY <1>7, <1>8 DEF Lent
    <3>2. f # e
      BY <1>7, <3>1
    <3> QED
      BY <1>4, <3>1, <3>2
  <2>3. \A q : q \in Lent(E, m2) <=> \E f \in E : m2[f + 1] # 0 /\ m2[f + 2] = q
    BY DEF Lent
  <2>4. \A q : q \in Lent(E, m2) <=> q \in DOMAIN hd2
    <3>1. ASSUME NEW q, q \in Lent(E, m2) PROVE q \in DOMAIN hd2
      <4>1. PICK f \in E : m2[f + 1] # 0 /\ m2[f + 2] = q
        BY <2>3, <3>1
      <4> QED
        BY <2>1, <4>1, Zenon
    <3>2. ASSUME NEW q, q \in DOMAIN hd2 PROVE q \in Lent(E, m2)
      BY <2>2, <2>3, <3>2, Zenon
    <3> QED
      BY <3>1, <3>2, Zenon
  <2> QED
    BY <2>4, Zenon
<1>11. ASSUME NEW f \in E, m2[f + 1] # 0 PROVE Serves(m2, hd2, f)
  <2>1. f # e /\ m[f + 1] # 0 /\ m2[f] = m[f] /\ m2[f + 2] = m[f + 2]
    BY <1>3, <1>4, <1>11
  <2>2. PICK q, w : q = m[f + 2] /\ w = hd[q]
    OBVIOUS
  <2>3. hd2[q] = w
    BY <1>7, <1>8, <1>9, <2>1, <2>2 DEF Lent
  <2>4. w \in Nat /\ w <= m[f] /\ \A a \in q .. q + w - 1 : m[a] = UserData
    BY <1>8, <2>1, <2>2 DEF Serves
  <2>5. \A a \in q .. q + m[f] - 1 : m2[a] = m[a]
    BY <1>4, <2>2
  <2>6. \A a \in q .. q + w - 1 : a \in q .. q + m[f] - 1
    BY <1>1, <2>2, <2>4
  <2>7. \A a \in q .. q + w - 1 : m2[a] = UserData
    BY <2>4, <2>5, <2>6, Zenon
  <2> QED
    BY <2>1, <2>2, <2>3, <2>4, <2>7 DEF Serves
<1>12. \A f \in E : Serves(m2, hd2, f)
  BY <1>11 DEF Serves
<1>13. Table(E, m2, s, l, hd2)
  BY <1>1, <1>5, <1>8, <1>10, <1>12 DEF Table
<1> QED
  BY <1>3, <1>6, <1>13

(* The improved list's steps, in this module's terms.                      *)
LEMMA ImprovedIs ==
    ASSUME NEW n
    PROVE  /\ Improved!Round(n) = Round(n)
           /\ Improved!Mapped <=> Mapped
           /\ Improved!Asked = Asked
           /\ Improved!Base = 1
           /\ Improved!Entries = EntriesOf(start_ptr, last_ptr)
           /\ \A m, p : Improved!Hand(m, p, n) => mem' = Filled(m, p, n) /\ held' = Given(held, p, n)
           /\ \A p : Improved!Drop(p) => held' = Restrict(held, DOMAIN held \ {p})
           /\ Improved!AllocInitTwo(n) => start_ptr = NULL /\ (~Mapped => Fresher(n, Base + n))
           /\ Improved!AllocInitFails \/ Improved!AllocDeinit \/ Improved!AllocReset
                => AllocInitFails \/ AllocDeinit \/ AllocReset
           /\ (UNCHANGED Improved!arenaVars) => UNCHANGED arenaVars
<1> USE DEF Improved!NULL, Improved!MAP_FAILED, Improved!Words, Improved!Base, Improved!Mapped,
            NULL, MAP_FAILED, Words, Base, Mapped
<1>1. Improved!Round(n) = Round(n)
  BY DEF Improved!Round, Round, Improved!ALIGN, ALIGN
<1>2. (Improved!Mapped <=> Mapped) /\ Improved!Base = 1
  OBVIOUS
<1>3. Improved!Asked = Asked
  BY DEF Improved!Asked, Asked, Improved!Requests, Requests, Improved!Kinds, Kinds, Range, Improved!Range
<1>4. \A m, p : Improved!Hand(m, p, n) => mem' = Filled(m, p, n) /\ held' = Given(held, p, n)
  BY DEF Improved!Hand, Filled, Given, Improved!UserData, UserData
<1>5. \A p : Improved!Drop(p) => held' = Restrict(held, DOMAIN held \ {p})
  BY DEF Improved!Drop, Improved!Restrict, Restrict
<1>6. Improved!AllocInitTwo(n) => start_ptr = NULL /\ (~Mapped => Fresher(n, Base + n))
  BY DEF Improved!AllocInitTwo, Fresher
<1>7. Improved!AllocInitFails \/ Improved!AllocDeinit \/ Improved!AllocReset
        => AllocInitFails \/ AllocDeinit \/ AllocReset
  BY DEF Improved!AllocInitFails, AllocInitFails,
         Improved!AllocDeinit, AllocDeinit, Improved!AllocReset, AllocReset
<1>8. (UNCHANGED Improved!arenaVars) => UNCHANGED arenaVars
  BY DEF Improved!arenaVars, arenaVars, Improved!heapVars, heapVars
<1>9. Improved!Entries = EntriesOf(start_ptr, last_ptr)
  BY DEF Improved!Entries, EntriesOf
<1> QED
  BY <1>1, <1>2, <1>3, <1>4, <1>5, <1>6, <1>7, <1>8, <1>9

(* The two regions, as plain numbers.                                      *)
LEMMA RegionFacts ==
    ASSUME ArenaInv, Placed, Mapped, kind = "improved"
    PROVE  /\ start_ptr = 1 + size /\ size \in Nat /\ last_ptr \in Nat
           /\ start_ptr <= last_ptr /\ last_ptr <= start_ptr + size
           /\ start_ptr >= 1
           /\ 1 .. start_ptr + size - 1 \subseteq Words
           /\ MappedWords = 1 .. size
<1>1. /\ size \in Nat /\ size >= 1 /\ HeapWords \in Nat /\ 2 * size <= HeapWords
  <2>1. kind \in Kinds /\ size \in DOMAIN Workload["improved"]
    BY DEF ArenaInv
  <2> QED
    BY <2>1, SizeIs, ArenaAssumption
<1>2. start_ptr = 1 + size /\ last_ptr \in start_ptr .. start_ptr + size
  BY DEF Placed, Start, Base
<1>3. 1 .. start_ptr + size - 1 \subseteq Words
  BY <1>1, <1>2 DEF Words, Base
<1>4. Base + size - 1 = size /\ Base = 1
  BY <1>1 DEF Base
<1>5. MappedWords = 1 .. size
  BY <1>4 DEF MappedWords
<1> QED
  BY <1>1, <1>2, <1>3, <1>5

(* What a step of malloc or free shows: the regions stay where they are.   *)
LEMMA RegionsStay ==
    ASSUME ArenaInv, Placed, Mapped, kind = "improved", UNCHANGED <<kind, start_ptr, size, HEAD>>,
           last_ptr' \in Nat, start_ptr <= last_ptr', last_ptr' <= start_ptr + size,
           mem' \in [Words -> WordValues],
           \/ \E p \in Nat, n \in Asked : /\ 1 <= p /\ p + n <= start_ptr
                                          /\ held' = Given(held, p, n) /\ Fresh(held, p, n)
           \/ \E p \in DOMAIN held : held' = Restrict(held, DOMAIN held \ {p})
    PROVE  ArenaInv' /\ Placed' /\ Seen
<1>1. /\ start_ptr = 1 + size /\ size \in Nat /\ MappedWords = 1 .. size
  BY RegionFacts
<1>2. Mapped'
  BY <1>1 DEF Mapped, NULL, MAP_FAILED
<1>3. Placed' /\ MappedWords' = MappedWords
  BY <1>1, <1>2 DEF Placed, Start, MappedWords, Base
<1>4. CASE \E p \in Nat, n \in Asked : /\ 1 <= p /\ p + n <= start_ptr
                                       /\ held' = Given(held, p, n) /\ Fresh(held, p, n)
  <2>1. PICK p \in Nat, n \in Asked : /\ 1 <= p /\ p + n <= start_ptr
                                      /\ held' = Given(held, p, n) /\ Fresh(held, p, n)
    BY <1>4
  <2>2. n \in Requests /\ n \in Nat
    BY AskedIs
  <2>3. \A q \in DOMAIN held' : held'[q] \in Requests
    BY <2>1, <2>2, GivenIs DEF ArenaInv
  <2>4. p .. p + n - 1 \subseteq MappedWords
    BY <1>1, <2>1, <2>2
  <2>5. ArenaInv'
    BY <1>2, <2>3 DEF ArenaInv
  <2> QED
    BY <1>3, <2>1, <2>2, <2>4, <2>5, Zenon DEF Seen
<1>5. CASE \E p \in DOMAIN held : held' = Restrict(held, DOMAIN held \ {p})
  <2>1. PICK p \in DOMAIN held : held' = Restrict(held, DOMAIN held \ {p})
    BY <1>5
  <2>2. \A q \in DOMAIN held' : held'[q] \in Requests
    <3>1. DOMAIN held \ {p} \subseteq DOMAIN held
      OBVIOUS
    <3> QED
      BY <2>1, <3>1, DroppedIs DEF ArenaInv
  <2>3. ArenaInv'
    BY <1>2, <2>2 DEF ArenaInv
  <2> QED
    BY <1>3, <2>1, <2>3, Zenon DEF Seen
<1> QED
  BY <1>4, <1>5

(* Reusing the block of a free entry.                                      *)
LEMMA ImprovedReuse ==
    ASSUME ArenaInv, Placed, ImprovedInv, kind = "improved", NEW n \in Asked, Improved!MallocReuse(n)
    PROVE  ArenaInv' /\ Placed' /\ ImprovedInv' /\ Seen
<1>0. Mapped
  BY ImprovedIs DEF Improved!MallocReuse
<1>1. PICK E, s, l : E = EntriesOf(start_ptr, last_ptr) /\ s = start_ptr /\ l = last_ptr
  OBVIOUS
<1>2. /\ Table(E, mem, s, l, held) /\ mem \in [Words -> WordValues]
      /\ s \in Nat /\ l \in Nat /\ s <= l /\ l <= s + size /\ size \in Nat
      /\ 1 .. l - 1 \subseteq Words
  BY <1>0, <1>1, RegionFacts DEF ImprovedInv, ArenaInv
<1>3. PICK r : r = Round(n)
  OBVIOUS
<1>4. n \in Nat /\ r \in Nat /\ n <= r
  BY <1>3, AskedIs, RoundIs
<1>5. PICK F : F = Improved!Fitting(r)
  OBVIOUS
<1>6. F = {e \in E : mem[e + 1] = 0 /\ mem[e] >= r} /\ F # {}
  BY <1>1, <1>3, <1>5, ImprovedIs DEF Improved!MallocReuse, Improved!Fitting
<1>7. PICK e : e = CHOOSE x \in F : \A f \in F : x <= f
  OBVIOUS
<1>8. e \in F
  <2>1. F \subseteq Nat
    BY <1>2, <1>6 DEF Table, Spaced
  <2>2. \E x \in F : \A f \in F : x <= f
    BY <1>6, <2>1, LeastOf
  <2> QED
    BY <1>7, <2>2
<1>9. e \in E /\ mem[e + 1] = 0 /\ mem[e] >= r /\ mem[e] \in Nat
  <2>1. e \in E /\ mem[e + 1] = 0 /\ mem[e] >= r
    BY <1>6, <1>8
  <2> QED
    BY <1>2, <2>1, EntryFacts
<1>10. PICK p : p = mem[e + 2]
  OBVIOUS
<1>11. /\ mem' = Filled([mem EXCEPT ![e + 1] = 1], p, n)
       /\ held' = Given(held, p, n)
       /\ UNCHANGED <<kind, start_ptr, last_ptr, size, HEAD>>
  BY <1>3, <1>5, <1>7, <1>10, ImprovedIs DEF Improved!MallocReuse
<1>12. /\ mem' \in [Words -> WordValues]
       /\ Table(E, mem', s, l, Given(held, p, n)) /\ Fresh(held, p, n)
       /\ p \in Nat /\ 1 <= p /\ p + n <= s
  <2>1. n <= mem[e]
    BY <1>4, <1>9
  <2> QED
    <3>1. Reused(E, mem, s, l, held, e, p, n, mem')
      BY <1>2, <1>4, <1>9, <1>10, <1>11, <2>1 DEF Reused
    <3> QED
      BY <3>1, TableReuse
<1>13. ImprovedInv'
  BY <1>0, <1>1, <1>11, <1>12 DEF ImprovedInv
<1>14. ArenaInv' /\ Placed' /\ Seen
  BY <1>0, <1>1, <1>2, <1>11, <1>12, RegionsStay
<1> QED
  BY <1>13, <1>14

(* A new block behind the others.                                          *)
LEMMA ImprovedAppend ==
    ASSUME ArenaInv, Placed, ImprovedInv, kind = "improved", NEW n \in Asked, Improved!MallocAppend(n)
    PROVE  ArenaInv' /\ Placed' /\ ImprovedInv' /\ Seen
<1>0. Mapped
  BY ImprovedIs DEF Improved!MallocAppend
<1>1. PICK E, s, l : E = EntriesOf(start_ptr, last_ptr) /\ s = start_ptr /\ l = last_ptr
  OBVIOUS
<1>2. /\ Table(E, mem, s, l, held) /\ mem \in [Words -> WordValues]
      /\ s \in Nat /\ s >= 1 /\ l \in Nat /\ s <= l /\ l <= s + size /\ size \in Nat /\ s = 1 + size
      /\ 1 .. s + size - 1 \subseteq Words
  BY <1>0, <1>1, RegionFacts DEF ImprovedInv, ArenaInv
<1>3. PICK r : r = Round(n)
  OBVIOUS
<1>4. n \in Nat /\ r \in Nat /\ n <= r
  BY <1>3, AskedIs, RoundIs
<1>5. PICK c \in Nat : l = s + 3 * c
  BY <1>0, <1>1 DEF ImprovedInv
<1>6. /\ Spaced(E \cup {l}, s, l + 3)
      /\ EntriesOf(s, l + 3) = E \cup {l}
      /\ l + 3 = s + 3 * (c + 1)
  <2>1. PICK d : d = c + 1
    OBVIOUS
  <2>2. d \in Nat /\ l + 3 = s + 3 * d
    BY <1>2, <1>5, <2>1
  <2>3. EntriesOf(s, l + 3) = E \cup {l}
    BY <1>1, <1>2, <1>5, EntriesAre
  <2>4. Spaced(EntriesOf(s, l + 3), s, l + 3)
    BY <1>2, <2>2, EntriesAre
  <2> QED
    BY <2>1, <2>2, <2>3, <2>4
<1>7. PICK p : p = (IF s = l THEN 1 ELSE mem[l - 1] + mem[l - 3]) + 2
  OBVIOUS
<1>8. Improved!BlockStart + 2 = p /\ Improved!BlockStart + 2 + r = p + r
  BY <1>1, <1>7, ImprovedIs DEF Improved!BlockStart, Improved!data_start_ptr
<1>9. /\ mem' = Filled([mem EXCEPT ![l] = r, ![l + 1] = 1, ![l + 2] = p, ![p - 1] = l], p, n)
      /\ held' = Given(held, p, n) /\ last_ptr' = l + 3
      /\ UNCHANGED <<kind, start_ptr, size, HEAD>>
      /\ p + r <= 1 + size /\ l + 3 <= s + size
  BY <1>1, <1>3, <1>8, ImprovedIs
     DEF Improved!MallocAppend, Improved!DataFits, Improved!MetaFits, Improved!data_start_ptr
<1>10. p + r <= s /\ 1 .. l + 2 \subseteq Words
  BY <1>2, <1>9
<1>11. /\ mem' \in [Words -> WordValues]
       /\ \E F : F = E \cup {l} /\ Table(F, mem', s, l + 3, Given(held, p, n))
       /\ Fresh(held, p, n)
       /\ p \in Nat /\ 1 <= p /\ p + n <= s
  <2>1. mem' = Filled([mem EXCEPT ![l] = r, ![l + 1] = 1, ![l + 2] = p, ![p - 1] = l], p, n)
    BY <1>9
  <2> QED
    <3>1. Appended(E, mem, s, l, held, r, p, n, mem')
      BY <1>2, <1>4, <1>6, <1>7, <1>10, <2>1, Zenon DEF Appended
    <3> QED
      BY <3>1, TableAppend
<1>12. ImprovedInv'
  <2>1. last_ptr' = start_ptr' + 3 * (c + 1) /\ c + 1 \in Nat
    BY <1>1, <1>6, <1>9
  <2>2. EntriesOf(start_ptr', last_ptr') = E \cup {l}
    BY <1>1, <1>6, <1>9
  <2>3. Table(EntriesOf(start_ptr', last_ptr'), mem', start_ptr', last_ptr', held')
    BY <1>1, <1>9, <1>11, <2>2
  <2> QED
    BY <2>1, <2>3 DEF ImprovedInv
<1>13. ArenaInv' /\ Placed' /\ Seen
  <2>1. last_ptr' \in Nat /\ start_ptr <= last_ptr' /\ last_ptr' <= start_ptr + size
    BY <1>1, <1>2, <1>9
  <2> QED
    BY <1>0, <1>1, <1>9, <1>11, <2>1, RegionsStay
<1> QED
  BY <1>12, <1>13

(* Taking back a block.                                                    *)
LEMMA ImprovedFree ==
    ASSUME ArenaInv, Placed, ImprovedInv, kind = "improved", NEW p \in DOMAIN held, Improved!AllocFree(p)
    PROVE  ArenaInv' /\ Placed' /\ ImprovedInv' /\ Seen
<1>0. Mapped
  BY ImprovedIs DEF Improved!AllocFree
<1>1. PICK E, s, l : E = EntriesOf(start_ptr, last_ptr) /\ s = start_ptr /\ l = last_ptr
  OBVIOUS
<1>2. /\ Table(E, mem, s, l, held) /\ mem \in [Words -> WordValues]
      /\ s \in Nat /\ l \in Nat /\ s <= l /\ l <= s + size /\ size \in Nat
      /\ 1 .. l - 1 \subseteq Words
  BY <1>0, <1>1, RegionFacts DEF ImprovedInv, ArenaInv
<1>3. PICK e \in E : p = mem[e + 2] /\ mem[e + 1] # 0
  BY <1>2 DEF Table, Lent
<1>4. mem[p - 1] = e
  BY <1>2, <1>3, EntryFacts
<1>5. /\ mem' = [mem EXCEPT ![e + 1] = 0]
      /\ held' = Restrict(held, DOMAIN held \ {p})
      /\ UNCHANGED <<kind, start_ptr, last_ptr, size, HEAD>>
  BY <1>4, ImprovedIs DEF Improved!AllocFree
<1>6. /\ mem' \in [Words -> WordValues]
      /\ Table(E, mem', s, l, Restrict(held, DOMAIN held \ {p}))
  BY <1>2, <1>3, <1>5, TableFree
<1>7. ImprovedInv'
  BY <1>0, <1>1, <1>5, <1>6 DEF ImprovedInv
<1>8. ArenaInv' /\ Placed' /\ Seen
  BY <1>0, <1>1, <1>2, <1>5, <1>6, RegionsStay
<1> QED
  BY <1>7, <1>8

-----------------------------------------------------------------------------
(* Boundary tags                                                           *)

(* A table without entries.                                                *)
LEMMA NoEntries ==
    ASSUME NEW m, NEW s \in Nat
    PROVE  (\E c \in Nat : s = s + 3 * c) /\ Table(EntriesOf(s, s), m, s, s, <<>>)
<1>1. EntriesOf(s, s) = {}
  BY DEF EntriesOf
<1>2. 0 \in Nat /\ s = s + 3 * 0
  OBVIOUS
<1>3. Table({}, m, s, s, <<>>)
  BY DEF Table, Spaced, Ordered, Lent
<1> QED
  BY <1>1, <1>2, <1>3

(* Every step of the improved list.                                        *)
LEMMA ImprovedStep ==
    ASSUME ArenaInv, Placed, ImprovedInv, kind = "improved", kind \in Kinds, Improved!Next
    PROVE  ArenaInv' /\ Placed' /\ ImprovedInv' /\ Seen
<1>1. CASE \/ \E n \in DOMAIN Workload[kind] : Improved!AllocInitTwo(n)
           \/ AllocInitFails \/ AllocDeinit \/ AllocReset
  <2>1. ArenaInv' /\ Placed' /\ Seen /\ (Mapped' => last_ptr' = start_ptr' /\ held' = <<>>)
    <3>1. CASE \E n \in DOMAIN Workload[kind] : Improved!AllocInitTwo(n)
      <4>1. PICK n \in DOMAIN Workload[kind] : start_ptr = NULL /\ (~Mapped => Fresher(n, Base + n))
        BY <3>1, ImprovedIs
      <4>2. ~Mapped
        BY <4>1, SizeIs DEF Placed, Start, Base, NULL, ArenaInv
      <4>3. Fresher(n, Start(kind, n))
        BY <4>1, <4>2 DEF Start
      <4> QED
        BY <4>3, Created
    <3>2. CASE AllocInitFails \/ AllocDeinit \/ AllocReset
      BY <3>2, Ended
    <3> QED
      BY <1>1, <3>1, <3>2
  <2>2. Mapped' => start_ptr' \in Nat
    BY <2>1, SizeIs DEF Placed, Start, Base, ArenaInv
  <2>3. ImprovedInv'
    BY <2>1, <2>2, NoEntries DEF ImprovedInv
  <2> QED
    BY <2>1, <2>3
<1>2. CASE UNCHANGED arenaVars
  <2>1. ImprovedInv'
    BY <1>2 DEF ImprovedInv, arenaVars, heapVars, Mapped
  <2> QED
    BY <1>2, <2>1, Refused
<1>3. CASE \E n \in Asked : Improved!MallocReuse(n) \/ Improved!MallocAppend(n)
  BY <1>3, ImprovedReuse, ImprovedAppend
<1>4. CASE \E p \in DOMAIN held : Improved!AllocFree(p)
  BY <1>4, ImprovedFree
<1>5. \/ \E n \in DOMAIN Workload[kind] : Improved!AllocInitTwo(n)
      \/ AllocInitFails \/ AllocDeinit \/ AllocReset
      \/ UNCHANGED arenaVars
      \/ \E n \in Asked : Improved!MallocReuse(n) \/ Improved!MallocAppend(n)
      \/ \E p \in DOMAIN held : Improved!AllocFree(p)
  BY ImprovedIs DEF Improved!Next, Improved!MallocFull, Improved!FreeRejected, Improved!AllocInitDataFails
<1> QED
  BY <1>1, <1>2, <1>3, <1>4, <1>5
-----------------------------------------------------------------------------
(* The boundary-tagged heap: m from s to l, of which hd is held.           *)
Heaped(H, m, s, l, hd) == Laid(H, m, s, l, 3, hd) /\ Footed(H, m) /\ Apart(H, m, l)

(* The steps of the coalescing list, in this module's terms.               *)
LEMMA TaggedIs ==
    ASSUME NEW n
    PROVE  /\ Tagged!Round(n) = Round(n)
           /\ Tagged!Mapped <=> Mapped
           /\ Tagged!Asked = Asked
           /\ Tagged!Search(n) = Find(mem, start_ptr, last_ptr, 3, n)
           /\ Tagged!Headers = IF Mapped THEN Walk(mem, start_ptr, last_ptr, 3) ELSE {}
           /\ \A m, p : Tagged!Hand(m, p, n) => mem' = Filled(m, p, n) /\ held' = Given(held, p, n)
           /\ \A p : Tagged!Drop(p) => held' = Restrict(held, DOMAIN held \ {p})
           /\ Tagged!Lifecycle => \/ \E k \in DOMAIN Workload[kind] : start_ptr = NULL /\ (~Mapped => Fresher(k, Base))
                                  \/ AllocInitFails \/ AllocDeinit \/ AllocReset
           /\ (UNCHANGED Tagged!arenaVars) => UNCHANGED arenaVars
<1> USE DEF Tagged!NULL, Tagged!MAP_FAILED, Tagged!Words, Tagged!Base, Tagged!Mapped,
            NULL, MAP_FAILED, Words, Base, Mapped
<1>1. Tagged!Round(n) = Round(n)
  BY DEF Tagged!Round, Round, Tagged!ALIGN, ALIGN
<1>2. Tagged!Mapped <=> Mapped
  OBVIOUS
<1>3. Tagged!Asked = Asked
  BY DEF Tagged!Asked, Asked, Tagged!Requests, Requests, Tagged!Kinds, Kinds, Range, Tagged!Range
<1>4. \A m, p : Tagged!Hand(m, p, n) => mem' = Filled(m, p, n) /\ held' = Given(held, p, n)
  BY DEF Tagged!Hand, Filled, Given, Tagged!UserData, UserData
<1>5. \A p : Tagged!Drop(p) => held' = Restrict(held, DOMAIN held \ {p})
  BY DEF Tagged!Drop, Tagged!Restrict, Restrict
<1>6. Tagged!Lifecycle => \/ \E k \in DOMAIN Workload[kind] : start_ptr = NULL /\ (~Mapped => Fresher(k, Base))
                          \/ AllocInitFails \/ AllocDeinit \/ AllocReset
  BY DEF Tagged!Lifecycle, Tagged!AllocInit, Fresher, Tagged!AllocInitFails, AllocInitFails,
         Tagged!AllocDeinit, AllocDeinit, Tagged!AllocReset, AllocReset
<1>7. (UNCHANGED Tagged!arenaVars) => UNCHANGED arenaVars
  BY DEF Tagged!arenaVars, arenaVars, Tagged!heapVars, heapVars
<1>8. Tagged!Search(n) = Find(mem, start_ptr, last_ptr, 3, n)
  BY Zenon DEF Tagged!Search, Find, IsFind, Tagged!Allocated, Tagged!After, Tagged!Addresses, Tagged!BlockSize
<1>9. Tagged!Headers = IF Mapped THEN Walk(mem, start_ptr, last_ptr, 3) ELSE {}
  BY Zenon DEF Tagged!Headers, Walk, IsWalk, Tagged!After, Tagged!Addresses
<1> QED
  BY <1>1, <1>2, <1>3, <1>4, <1>5, <1>6, <1>7, <1>8, <1>9

(* Blocks N of m1, from x to z, take the place of free ones from x to y,   *)
(* and the first of them is handed out for n words, which leaves m2.       *)
Take(H, m, s, l, hd, x, y, N, m1, z, l2, n, m2) ==
    /\ Heaped(H, m, s, l, hd)
    /\ s \in Nat /\ l \in Nat /\ z \in Nat /\ l2 \in Nat /\ n \in Nat
    /\ m1 \in [Words -> WordValues] /\ s .. l2 - 1 \subseteq Words
    /\ x \in H \cup {l} /\ y \in H \cup {l} /\ x <= y /\ FreeFrom(H, m, x, y)
    /\ Chain(N, m1, x, z, 3) /\ N # {}
    /\ (y = l /\ l2 = z) \/ (y = z /\ l2 = l)
    /\ SameOutside(m, m1, s, l, x, y)
    /\ OnlyFirst(N, m1, x) /\ Footed(N, m1) /\ Apart(N, m1, l2)
    /\ n <= m1[x] /\ m2 = Filled(m1, x + 2, n)

(* Handing out a block keeps a boundary-tagged heap right.                 *)
LEMMA TakeHeap ==
    ASSUME NEW H, NEW m, NEW s, NEW l, NEW hd, NEW x, NEW y, NEW N, NEW m1, NEW z, NEW l2,
           NEW n, NEW m2, Take(H, m, s, l, hd, x, y, N, m1, z, l2, n, m2)
    PROVE  /\ m2 \in [Words -> WordValues]
           /\ \E J : J = Out(H, x, y) \cup N /\ Heaped(J, m2, s, l2, Given(hd, x + 2, n))
           /\ Fresh(hd, x + 2, n)
           /\ \A c \in Out(H, x, y) : m2[c] = m[c] /\ m2[c + 1] = m[c + 1]
           /\ \A c \in N : m2[c] = m1[c] /\ m2[c + 1] = m1[c + 1]
<1>0. /\ Heaped(H, m, s, l, hd)
      /\ s \in Nat /\ l \in Nat /\ z \in Nat /\ l2 \in Nat /\ n \in Nat
      /\ m1 \in [Words -> WordValues] /\ s .. l2 - 1 \subseteq Words
      /\ x \in H \cup {l} /\ y \in H \cup {l} /\ x <= y /\ FreeFrom(H, m, x, y)
      /\ Chain(N, m1, x, z, 3) /\ N # {}
      /\ (y = l /\ l2 = z) \/ (y = z /\ l2 = l)
      /\ SameOutside(m, m1, s, l, x, y)
      /\ OnlyFirst(N, m1, x) /\ Footed(N, m1) /\ Apart(N, m1, l2)
      /\ n <= m1[x] /\ m2 = Filled(m1, x + 2, n)
  BY DEF Take
<1>1. Laid(H, m, s, l, 3, hd) /\ Chain(H, m, s, l, 3) /\ Footed(H, m) /\ Apart(H, m, l)
  BY <1>0 DEF Heaped, Laid
<1>2. Cut(H, m, s, l, 3, x, y, N, m1, z, l2) /\ FootsKept(Out(H, x, y), m, m1)
  <2>1. Patch(H, m, s, l, 3, x, y, N, m1, z, l2)
    BY <1>0, <1>1 DEF Patch
  <2> QED
    BY <2>1, CutWithin
<1>3. Ready(H, m, s, l, 3, x, y, N, m1, z, l2, hd, n, m2)
  BY <1>0, <1>1, <1>2 DEF Ready
<1>4. /\ m2 \in [Words -> WordValues]
      /\ Cut(H, m, s, l, 3, x, y, N, m2, z, l2)
      /\ \E J : J = Out(H, x, y) \cup N /\ Laid(J, m2, s, l2, 3, Given(hd, x + 2, n))
      /\ Fresh(hd, x + 2, n)
      /\ \A c \in N : m2[c] = m1[c] /\ m2[c + 1] = m1[c + 1]
      /\ FootsKept(Out(H, x, y), m1, m2) /\ FootsKept(N, m1, m2)
  BY <1>3, HandBlock
<1>5. FootsKept(Out(H, x, y), m, m2)
  BY <1>2, <1>4 DEF FootsKept
<1>6. x \in N
  BY <1>2, CutFacts
<1>7. FrontTaken(Out(H, x, y), m, m2, x)
  BY <1>0, <1>4, <1>6 DEF FrontTaken, OnlyFirst
<1>8. Footed(N, m2)
  BY <1>0, <1>4 DEF Footed, FootsKept
<1>9. \A c \in Out(H, x, y) : /\ m2[c] = m[c] /\ m2[c + 1] = m[c + 1] /\ m1[c + 1] = m[c + 1]
  BY <1>2, <1>4 DEF Cut, Same
<1>10. Apart(N, m2, l2)
  <2>1. ASSUME NEW c \in N, NEW d, d = c + 3 + m2[c], m2[c + 1] = 0, d # l2 PROVE m2[d + 1] # 0
    <3>1. d = c + 3 + m1[c] /\ m1[c + 1] = 0
      BY <1>4, <2>1
    <3>2. m1[d + 1] # 0
      BY <1>0, <2>1, <3>1 DEF Apart
    <3>3. d \in N \cup {z}
      BY <1>0, <3>1 DEF Chain
    <3>4. d = z => d \in Out(H, x, y)
      <4>1. y \in Nat
        BY <1>2, CutFacts
      <4>2. d = z => d = y /\ l2 = l
        BY <1>0, <2>1
      <4> QED
        BY <1>0, <2>1, <4>1, <4>2 DEF Out
    <3> QED
      BY <1>4, <1>9, <3>2, <3>3, <3>4
  <2> QED
    BY <2>1 DEF Apart
<1>11. Footed(Out(H, x, y) \cup N, m2) /\ Apart(Out(H, x, y) \cup N, m2, l2)
  BY <1>1, <1>4, <1>5, <1>7, <1>8, <1>10, Retagged
<1>12. PICK J : J = Out(H, x, y) \cup N /\ Laid(J, m2, s, l2, 3, Given(hd, x + 2, n))
  BY <1>4
<1>13. Heaped(J, m2, s, l2, Given(hd, x + 2, n))
  BY <1>11, <1>12 DEF Heaped
<1> QED
  BY <1>4, <1>9, <1>12, <1>13

(* One free block, from x to y, takes the place of block b and of the free *)
(* blocks around it.                                                       *)
Give(H, m, s, l, hd, b, x, y, m2) ==
    /\ Heaped(H, m, s, l, hd) /\ s \in Nat /\ l \in Nat
    /\ m \in [Words -> WordValues] /\ s .. l - 1 \subseteq Words
    /\ b \in H /\ x \in H /\ y \in H \cup {l} /\ x <= b /\ b < y
    /\ FreeFrom(H \ {b}, m, x, y) /\ (y # l => m[y + 1] # 0)
    /\ \A c \in H : c + 3 + m[c] = x => m[c + 1] # 0
    /\ m2 = Tagged!Tag(m, x, y - x - 3, 0)

(* Writing the tags of a block.                                            *)
LEMMA TagIs ==
    ASSUME NEW m \in [Words -> WordValues], NEW x \in Nat, NEW w \in Nat, NEW v \in Nat,
           x \in Words, x + 1 \in Words, x + 2 + w \in Words,
           NEW m2, m2 = Tagged!Tag(m, x, w, v)
    PROVE  /\ m2 \in [Words -> WordValues]
           /\ m2[x] = w /\ m2[x + 1] = v /\ m2[x + 2 + w] = w
           /\ \A a \in Words : a # x /\ a # x + 1 /\ a # x + 2 + w => m2[a] = m[a]
<1>1. w \in WordValues /\ v \in WordValues
  BY DEF WordValues
<1>2. x # x + 1 /\ x # x + 2 + w /\ x + 1 # x + 2 + w
  OBVIOUS
<1> QED
  BY <1>1, <1>2 DEF Tagged!Tag

(* m2 is the heap m after block b became part of the free block from x to  *)
(* y.                                                                      *)
Gave(H, m, s, l, hd, b, x, y, m2) ==
    /\ m2 \in [Words -> WordValues]
    /\ \E J : /\ J = Out(H, x, y) \cup {x}
              /\ Heaped(J, m2, s, l, Restrict(hd, DOMAIN hd \ {b + 2}))
    /\ \A c \in Out(H, x, y) : m2[c] = m[c] /\ m2[c + 1] = m[c + 1]
    /\ m2[x] = y - x - 3 /\ m2[x + 1] = 0 /\ y - x - 3 \in Nat
    /\ \A a \in Words : a # x /\ a # x + 1 /\ a # y - 1 => m2[a] = m[a]

(* One free block takes the place of what free merges.                     *)
LEMMA GiveHeap ==
    ASSUME NEW H, NEW m, NEW s, NEW l, NEW hd, NEW b, NEW x, NEW y, NEW m2,
           Give(H, m, s, l, hd, b, x, y, m2)
    PROVE  Gave(H, m, s, l, hd, b, x, y, m2)
<1>0. /\ Heaped(H, m, s, l, hd) /\ s \in Nat /\ l \in Nat
      /\ m \in [Words -> WordValues] /\ s .. l - 1 \subseteq Words
      /\ b \in H /\ x \in H /\ y \in H \cup {l} /\ x <= b /\ b < y
      /\ FreeFrom(H \ {b}, m, x, y) /\ (y # l => m[y + 1] # 0)
      /\ \A c \in H : c + 3 + m[c] = x => m[c + 1] # 0
      /\ m2 = Tagged!Tag(m, x, y - x - 3, 0)
  BY DEF Give
<1>1. Laid(H, m, s, l, 3, hd) /\ Chain(H, m, s, l, 3) /\ Footed(H, m) /\ Apart(H, m, l)
  BY <1>0 DEF Heaped, Laid
<1>2. /\ x \in Nat /\ s <= x /\ x < l /\ b \in Nat /\ m[x] \in Nat /\ x + 3 + m[x] <= l
      /\ y \in Nat /\ y <= l
  BY <1>0, <1>1, ChainFacts
<1>3. x + 3 + m[x] <= y
  <2>1. y \in H => x + 3 + m[x] <= y
    BY <1>0, <1>1, <1>2 DEF Chain
  <2> QED
    BY <1>0, <1>2, <2>1
<1>4. PICK w : w = y - x - 3
  OBVIOUS
<1>5. w \in Nat /\ x + 2 + w = y - 1 /\ y = x + 3 + w /\ x + 3 <= y
  BY <1>2, <1>3, <1>4
<1>6. x \in Words /\ x + 1 \in Words /\ x + 2 + w \in Words
  BY <1>0, <1>2, <1>5
<1>7. /\ m2 \in [Words -> WordValues]
      /\ m2[x] = w /\ m2[x + 1] = 0 /\ m2[x + 2 + w] = w
      /\ \A a \in Words : a # x /\ a # x + 1 /\ a # x + 2 + w => m2[a] = m[a]
  <2>1. m2 = Tagged!Tag(m, x, w, 0) /\ 0 \in Nat
    BY <1>0, <1>4
  <2> QED
    BY <1>0, <1>2, <1>5, <1>6, <2>1, TagIs
<1>8. SameOutside(m, m2, s, l, x, y)
  <2>1. \A a \in s .. l - 1 : a \in Words /\ (a < x \/ a >= y => a # x /\ a # x + 1 /\ a # x + 2 + w)
    BY <1>0, <1>2, <1>5
  <2> QED
    BY <1>7, <2>1 DEF SameOutside
<1>9. Chain({x}, m2, x, y, 3)
  <2>1. y = x + 3 + m2[x] /\ m2[x] \in Nat /\ 3 \in Nat /\ 3 >= 2
    BY <1>5, <1>7
  <2> QED
    BY <1>2, <2>1, OneBlock, Zenon
<1>10. /\ Cut(H, m, s, l, 3, x, y, {x}, m2, y, l) /\ FootsKept(Out(H, x, y), m, m2)
  <2>1. Patch(H, m, s, l, 3, x, y, {x}, m2, y, l)
    BY <1>0, <1>1, <1>2, <1>5, <1>8, <1>9 DEF Patch
  <2> QED
    BY <2>1, CutWithin
<1>11. \E J : /\ J = Out(H, x, y) \cup {x}
              /\ Laid(J, m2, s, l, 3, Restrict(hd, DOMAIN hd \ {b + 2}))
  <2>1. Joined(H, m, s, l, 3, x, y, m2, y, l, hd, b)
    BY <1>0, <1>1, <1>7, <1>10 DEF Joined
  <2> QED
    BY <2>1, Released
<1>12. FrontTaken(Out(H, x, y), m, m2, x)
  BY <1>0 DEF FrontTaken, Out
<1>13. Footed({x}, m2)
  BY <1>7 DEF Footed, FootAt
<1>14. Apart({x}, m2, l)
  <2>1. y # l => m2[y + 1] # 0
    <3>1. ASSUME y # l PROVE m2[y + 1] # 0
      <4>1. y \in Out(H, x, y)
        BY <1>0, <1>2, <3>1 DEF Out
      <4> QED
        BY <1>0, <1>10, <3>1, <4>1 DEF Cut, Same
    <3> QED
      BY <3>1
  <2>2. x + 3 + m2[x] = y
    BY <1>5, <1>7
  <2> QED
    BY <2>1, <2>2 DEF Apart
<1>15. Footed(Out(H, x, y) \cup {x}, m2) /\ Apart(Out(H, x, y) \cup {x}, m2, l)
  BY <1>1, <1>10, <1>12, <1>13, <1>14, Retagged
<1>16. \E J : /\ J = Out(H, x, y) \cup {x}
              /\ Heaped(J, m2, s, l, Restrict(hd, DOMAIN hd \ {b + 2}))
  BY <1>11, <1>15 DEF Heaped
<1>17. \A c \in Out(H, x, y) : m2[c] = m[c] /\ m2[c + 1] = m[c + 1]
  BY <1>10 DEF Cut, Same
<1> QED
  BY <1>4, <1>5, <1>7, <1>16, <1>17 DEF Gave

(* Free block b is the whole of it handed out for n words.                 *)
Wholes(H, m, s, l, hd, b, n, m2) ==
    /\ Heaped(H, m, s, l, hd) /\ s \in Nat /\ l \in Nat
    /\ m \in [Words -> WordValues] /\ s .. l - 1 \subseteq Words
    /\ b \in H /\ m[b + 1] = 0 /\ n \in Nat /\ n <= m[b]
    /\ m2 = Filled([m EXCEPT ![b + 1] = 1], b + 2, n)

(* The caller's words and the rest of the heap.                            *)
LEMMA FilledOutside ==
    ASSUME NEW m \in [Words -> WordValues], NEW p \in Nat, NEW n \in Nat, NEW m2, m2 = Filled(m, p, n),
           NEW a \in Words, a \in Nat, a < p \/ a >= p + n
    PROVE  m2[a] = m[a]
<1>1. a \notin p .. p + n - 1
  OBVIOUS
<1> QED
  BY <1>1 DEF Filled

(* MallocWhole keeps a boundary-tagged heap right.                         *)
LEMMA WholeHeap ==
    ASSUME NEW H, NEW m, NEW s, NEW l, NEW hd, NEW b, NEW n, NEW m2,
           Wholes(H, m, s, l, hd, b, n, m2)
    PROVE  /\ m2 \in [Words -> WordValues]
           /\ \E J : /\ J = Out(H, b, b + 3 + m[b]) \cup {b}
                     /\ Heaped(J, m2, s, l, Given(hd, b + 2, n))
           /\ Fresh(hd, b + 2, n)
           /\ \A c \in Out(H, b, b + 3 + m[b]) : m2[c] = m[c] /\ m2[c + 1] = m[c + 1]
           /\ m2[b] = m[b] /\ m2[b + 1] # 0
           /\ \A a \in Words : a \in Nat /\ (a < b \/ a >= b + 3 + m[b]) => m2[a] = m[a]
<1>0. /\ Heaped(H, m, s, l, hd) /\ s \in Nat /\ l \in Nat
      /\ m \in [Words -> WordValues] /\ s .. l - 1 \subseteq Words
      /\ b \in H /\ m[b + 1] = 0 /\ n \in Nat /\ n <= m[b]
      /\ m2 = Filled([m EXCEPT ![b + 1] = 1], b + 2, n)
  BY DEF Wholes
<1>1. Chain(H, m, s, l, 3) /\ Footed(H, m) /\ Apart(H, m, l)
  BY <1>0 DEF Heaped, Laid
<1>2. PICK y : y = b + 3 + m[b]
  OBVIOUS
<1>3. /\ b \in Nat /\ s <= b /\ m[b] \in Nat /\ y \in H \cup {l} /\ y <= l /\ y \in Nat /\ b + 3 <= y
  <2>1. /\ b \in Nat /\ s <= b /\ m[b] \in Nat /\ y \in H \cup {l} /\ y <= l
    BY <1>0, <1>1, <1>2, ChainFacts
  <2> QED
    BY <1>2, <2>1
<1>4. PICK m1 : m1 = [m EXCEPT ![b + 1] = 1]
  OBVIOUS
<1>5. b + 1 \in Words /\ b \in Words /\ b + 2 + m[b] \in Words
  BY <1>0, <1>2, <1>3
<1>6. /\ m1 \in [Words -> WordValues] /\ m1[b + 1] = 1
      /\ \A a \in Words : a # b + 1 => m1[a] = m[a]
  BY <1>0, <1>4, <1>5 DEF WordValues
<1>7. m1[b] = m[b] /\ m1[b + 2 + m[b]] = m[b + 2 + m[b]]
  <2>1. b # b + 1 /\ b + 2 + m[b] # b + 1
    BY <1>3
  <2> QED
    BY <1>5, <1>6, <2>1
<1>8. SameOutside(m, m1, s, l, b, y)
  <2>1. \A a \in s .. l - 1 : a \in Words /\ (a < b \/ a >= y => a # b + 1)
    BY <1>0, <1>3
  <2> QED
    BY <1>6, <2>1 DEF SameOutside
<1>9. Chain({b}, m1, b, y, 3)
  <2>1. y = b + 3 + m1[b] /\ m1[b] \in Nat /\ 3 \in Nat /\ 3 >= 2
    BY <1>2, <1>3, <1>7
  <2> QED
    BY <1>3, <2>1, OneBlock, Zenon
<1>10. Footed({b}, m1)
  BY <1>0, <1>1, <1>7 DEF Footed, FootAt
<1>11. Apart({b}, m1, l) /\ OnlyFirst({b}, m1, b)
  BY <1>6 DEF Apart, OnlyFirst
<1>12. FreeFrom(H, m, b, y)
  BY <1>0, <1>1, <1>2, FreeBlock
<1>13. Take(H, m, s, l, hd, b, y, {b}, m1, y, l, n, m2)
  BY <1>0, <1>3, <1>4, <1>6, <1>7, <1>8, <1>9, <1>10, <1>11, <1>12 DEF Take
<1>14. /\ m2 \in [Words -> WordValues]
       /\ \E J : J = Out(H, b, y) \cup {b} /\ Heaped(J, m2, s, l, Given(hd, b + 2, n))
       /\ Fresh(hd, b + 2, n)
       /\ \A c \in Out(H, b, y) : m2[c] = m[c] /\ m2[c + 1] = m[c + 1]
       /\ \A c \in {b} : m2[c] = m1[c] /\ m2[c + 1] = m1[c + 1]
  BY <1>13, TakeHeap
<1>15. ASSUME NEW a \in Words, a \in Nat, a < b \/ a >= y PROVE m2[a] = m[a]
  <2>1. a # b + 1 /\ (a < b + 2 \/ a >= b + 2 + n) /\ b + 2 \in Nat
    BY <1>0, <1>2, <1>3, <1>15
  <2>2. m2[a] = m1[a]
    <3>1. m2 = Filled(m1, b + 2, n)
      BY <1>0, <1>4
    <3> QED
      BY <1>0, <1>6, <1>15, <2>1, <3>1, FilledOutside
  <2> QED
    BY <1>6, <2>1, <2>2
<1>16. m2[b] = m[b] /\ m2[b + 1] # 0
  BY <1>6, <1>7, <1>14
<1> QED
  BY <1>2, <1>14, <1>15, <1>16

(* A new block of r words at the end l, handed out for n words.            *)
Grows(H, m, s, l, hd, r, n, m2) ==
    /\ Heaped(H, m, s, l, hd) /\ s \in Nat /\ l \in Nat /\ s <= l
    /\ m \in [Words -> WordValues] /\ s .. l + r + 2 \subseteq Words
    /\ n \in Nat /\ r \in Nat /\ n <= r
    /\ m2 = Filled(Tagged!Tag(m, l, r, 1), l + 2, n)

(* MallocAppend keeps a boundary-tagged heap right.                        *)
LEMMA GrowHeap ==
    ASSUME NEW H, NEW m, NEW s, NEW l, NEW hd, NEW r, NEW n, NEW m2,
           Grows(H, m, s, l, hd, r, n, m2)
    PROVE  /\ m2 \in [Words -> WordValues]
           /\ \E J : /\ J = Out(H, l, l) \cup {l}
                     /\ Heaped(J, m2, s, l + 3 + r, Given(hd, l + 2, n))
           /\ Fresh(hd, l + 2, n)
           /\ \A c \in Out(H, l, l) : m2[c] = m[c] /\ m2[c + 1] = m[c + 1]
           /\ m2[l] = r /\ m2[l + 1] # 0
           /\ \A a \in Words : a \in Nat /\ a < l => m2[a] = m[a]
<1>0. /\ Heaped(H, m, s, l, hd) /\ s \in Nat /\ l \in Nat /\ s <= l
      /\ m \in [Words -> WordValues] /\ s .. l + r + 2 \subseteq Words
      /\ n \in Nat /\ r \in Nat /\ n <= r
      /\ m2 = Filled(Tagged!Tag(m, l, r, 1), l + 2, n)
  BY DEF Grows
<1>1. Chain(H, m, s, l, 3)
  BY <1>0 DEF Heaped, Laid
<1>2. PICK z : z = l + 3 + r
  OBVIOUS
<1>3. z \in Nat /\ l + 3 <= z /\ s .. z - 1 \subseteq Words /\ l \in Words /\ l + 1 \in Words /\ l + 2 + r \in Words
  <2>1. z \in Nat /\ z - 1 = l + r + 2 /\ l + 3 <= z
    BY <1>0, <1>2
  <2>2. s .. z - 1 \subseteq Words
    BY <1>0, <2>1
  <2>3. l \in s .. l + r + 2 /\ l + 1 \in s .. l + r + 2 /\ l + 2 + r \in s .. l + r + 2
    BY <1>0
  <2> QED
    BY <1>0, <2>1, <2>2, <2>3
<1>4. PICK m1 : m1 = Tagged!Tag(m, l, r, 1)
  OBVIOUS
<1>5. /\ m1 \in [Words -> WordValues]
      /\ m1[l] = r /\ m1[l + 1] = 1 /\ m1[l + 2 + r] = r
      /\ \A a \in Words : a # l /\ a # l + 1 /\ a # l + 2 + r => m1[a] = m[a]
  BY <1>0, <1>3, <1>4, TagIs
<1>6. SameOutside(m, m1, s, l, l, l)
  <2>1. \A a \in s .. l - 1 : a \in Words /\ a # l /\ a # l + 1 /\ a # l + 2 + r
    BY <1>0
  <2> QED
    BY <1>5, <2>1 DEF SameOutside
<1>7. Chain({l}, m1, l, z, 3)
  <2>1. z = l + 3 + m1[l] /\ m1[l] \in Nat /\ 3 \in Nat /\ 3 >= 2
    BY <1>0, <1>2, <1>5
  <2> QED
    BY <1>0, <2>1, OneBlock, Zenon
<1>8. Footed({l}, m1) /\ Apart({l}, m1, z) /\ OnlyFirst({l}, m1, l)
  BY <1>5 DEF Footed, FootAt, Apart, OnlyFirst
<1>9. FreeFrom(H, m, l, l)
  <2>1. \A c \in H : c \in Nat
    BY <1>0, <1>1, ChainFacts
  <2> QED
    BY <1>0, <2>1 DEF FreeFrom
<1>10. Take(H, m, s, l, hd, l, l, {l}, m1, z, z, n, m2)
  BY <1>0, <1>3, <1>4, <1>5, <1>6, <1>7, <1>8, <1>9 DEF Take
<1>11. /\ m2 \in [Words -> WordValues]
       /\ \E J : J = Out(H, l, l) \cup {l} /\ Heaped(J, m2, s, z, Given(hd, l + 2, n))
       /\ Fresh(hd, l + 2, n)
       /\ \A c \in Out(H, l, l) : m2[c] = m[c] /\ m2[c + 1] = m[c + 1]
       /\ \A c \in {l} : m2[c] = m1[c] /\ m2[c + 1] = m1[c + 1]
  BY <1>10, TakeHeap
<1>12. ASSUME NEW a \in Words, a \in Nat, a < l PROVE m2[a] = m[a]
  <2>1. a # l /\ a # l + 1 /\ a # l + 2 + r /\ (a < l + 2 \/ a >= l + 2 + n) /\ l + 2 \in Nat
    BY <1>0, <1>12
  <2>2. m2[a] = m1[a]
    <3>1. m2 = Filled(m1, l + 2, n)
      BY <1>0, <1>4
    <3> QED
      BY <1>0, <1>5, <1>12, <2>1, <3>1, FilledOutside
  <2> QED
    BY <1>5, <2>1, <2>2
<1>13. m2[l] = r /\ m2[l + 1] # 0
  BY <1>5, <1>11
<1> QED
  BY <1>2, <1>11, <1>12, <1>13

(* Free block b is cut to r words, handed out for n words, and the rest    *)
(* of it is a free block behind them.                                      *)
Splits(H, m, s, l, hd, b, r, n, m2) ==
    /\ Heaped(H, m, s, l, hd) /\ s \in Nat /\ l \in Nat
    /\ m \in [Words -> WordValues] /\ s .. l - 1 \subseteq Words
    /\ b \in H /\ m[b + 1] = 0 /\ n \in Nat /\ r \in Nat /\ n <= r /\ m[b] >= r + 5
    /\ m2 = Filled(Tagged!Tag(Tagged!Tag(m, b, r, 1), b + r + 3, m[b] - r - 3, 0), b + 2, n)

(* Two blocks, one behind the other.                                       *)
LEMMA TwoBlocks ==
    ASSUME NEW x \in Nat, NEW d \in Nat, NEW z \in Nat, NEW m, m[x] \in Nat, m[d] \in Nat,
           d = x + 3 + m[x], z = d + 3 + m[d]
    PROVE  Chain({x, d}, m, x, z, 3)
<1>1. x < d /\ d < z
  OBVIOUS
<1>2. {x, d} \subseteq x .. z - 1
  BY <1>1
<1>3. \A b \in {x, d} : m[b] \in Nat /\ b + 3 + m[b] \in {x, d} \cup {z}
  OBVIOUS
<1>4. \A b, c \in {x, d} : b < c => b + 3 + m[b] <= c
  BY <1>1
<1> QED
  BY <1>2, <1>3, <1>4 DEF Chain

(* MallocSplit keeps a boundary-tagged heap right.                         *)
LEMMA SplitHeap ==
    ASSUME NEW H, NEW m, NEW s, NEW l, NEW hd, NEW b, NEW r, NEW n, NEW m2, NEW d,
           Splits(H, m, s, l, hd, b, r, n, m2), d = b + r + 3
    PROVE  /\ m2 \in [Words -> WordValues]
           /\ \E J : /\ J = Out(H, b, b + 3 + m[b]) \cup {b, d}
                     /\ Heaped(J, m2, s, l, Given(hd, b + 2, n))
           /\ Fresh(hd, b + 2, n)
           /\ \A c \in Out(H, b, b + 3 + m[b]) : m2[c] = m[c] /\ m2[c + 1] = m[c + 1]
           /\ m2[b] = r /\ m2[b + 1] # 0 /\ m2[d] = m[b] - r - 3 /\ m2[d + 1] = 0
           /\ \A a \in Words : /\ a \in Nat
                               /\ a < b \/ (a >= d + 2 /\ a # b + 2 + m[b]) => m2[a] = m[a]
<1>0. /\ Heaped(H, m, s, l, hd) /\ s \in Nat /\ l \in Nat
      /\ m \in [Words -> WordValues] /\ s .. l - 1 \subseteq Words
      /\ b \in H /\ m[b + 1] = 0 /\ n \in Nat /\ r \in Nat /\ n <= r /\ m[b] >= r + 5
      /\ m2 = Filled(Tagged!Tag(Tagged!Tag(m, b, r, 1), b + r + 3, m[b] - r - 3, 0), b + 2, n)
  BY DEF Splits
<1>1. Chain(H, m, s, l, 3) /\ Footed(H, m) /\ Apart(H, m, l)
  BY <1>0 DEF Heaped, Laid
<1>2. PICK y, w : y = b + 3 + m[b] /\ w = m[b] - r - 3
  OBVIOUS
<1>3. /\ b \in Nat /\ s <= b /\ m[b] \in Nat /\ y \in H \cup {l} /\ y <= l /\ y \in Nat /\ b + 3 <= y
      /\ w \in Nat /\ d \in Nat /\ d + 3 + w = y /\ b < d
  <2>1. /\ b \in Nat /\ s <= b /\ m[b] \in Nat /\ y \in H \cup {l} /\ y <= l
    BY <1>0, <1>1, <1>2, ChainFacts
  <2> QED
    BY <1>0, <1>2, <2>1
<1>4. PICK t : t = Tagged!Tag(m, b, r, 1)
  OBVIOUS
<1>5. PICK m1 : m1 = Tagged!Tag(t, d, w, 0)
  OBVIOUS
<1>6. /\ b + 1 \in Words /\ b \in Words /\ b + 2 + r \in Words
      /\ d \in Words /\ d + 1 \in Words /\ d + 2 + w \in Words
  BY <1>0, <1>2, <1>3
<1>7. /\ t \in [Words -> WordValues]
      /\ t[b] = r /\ t[b + 1] = 1 /\ t[b + 2 + r] = r
      /\ \A a \in Words : a # b /\ a # b + 1 /\ a # b + 2 + r => t[a] = m[a]
  BY <1>0, <1>3, <1>4, <1>6, TagIs
<1>8. /\ m1 \in [Words -> WordValues]
      /\ m1[d] = w /\ m1[d + 1] = 0 /\ m1[d + 2 + w] = w
      /\ \A a \in Words : a # d /\ a # d + 1 /\ a # d + 2 + w => m1[a] = t[a]
  <2>1. t \in [Words -> WordValues] /\ d \in Nat /\ w \in Nat /\ 0 \in Nat
        /\ d \in Words /\ d + 1 \in Words /\ d + 2 + w \in Words
    BY <1>3, <1>6, <1>7
  <2> QED
    BY ONLY <1>5, <2>1, TagIs
<1>9. m1[b] = r /\ m1[b + 1] = 1 /\ m1[b + 2 + r] = r
  <2>1. /\ b # d /\ b # d + 1 /\ b # d + 2 + w /\ b + 1 # d /\ b + 1 # d + 1 /\ b + 1 # d + 2 + w
        /\ b + 2 + r # d /\ b + 2 + r # d + 1 /\ b + 2 + r # d + 2 + w
    BY <1>0, <1>3
  <2> QED
    BY <1>6, <1>7, <1>8, <2>1
<1>10. ASSUME NEW a \in Words, a \in Nat, a < b \/ a >= d + 2, a # d + 2 + w PROVE m1[a] = m[a]
  <2>1. a # d /\ a # d + 1 /\ a # b /\ a # b + 1 /\ a # b + 2 + r
    BY <1>0, <1>3, <1>10
  <2> QED
    BY <1>7, <1>8, <1>10, <2>1
<1>11. SameOutside(m, m1, s, l, b, y)
  <2>1. \A a \in s .. l - 1 : a \in Words /\ a \in Nat
                           /\ (a < b \/ a >= y => (a < b \/ a >= d + 2) /\ a # d + 2 + w)
    BY <1>0, <1>3
  <2> QED
    BY <1>10, <2>1 DEF SameOutside
<1>12. Chain({b, d}, m1, b, y, 3)
  <2>1. d = b + 3 + m1[b] /\ y = d + 3 + m1[d] /\ m1[b] \in Nat /\ m1[d] \in Nat
    BY <1>0, <1>3, <1>8, <1>9
  <2> QED
    BY <1>3, <2>1, TwoBlocks
<1>13. Footed({b, d}, m1) /\ OnlyFirst({b, d}, m1, b)
  BY <1>8, <1>9 DEF Footed, FootAt, OnlyFirst
<1>14. Apart({b, d}, m1, l)
  <2>1. y # l => m1[y + 1] # 0
    <3>1. ASSUME y # l PROVE m1[y + 1] # 0
      <4>1. y \in H /\ y + 3 <= l
        BY <1>0, <1>1, <1>3, <3>1, ChainFacts
      <4>2. m[y + 1] # 0
        BY <1>0, <1>1, <1>2, <3>1 DEF Apart
      <4>3. y + 1 \in s .. l - 1 /\ y + 1 >= y
        BY <1>0, <1>3, <4>1
      <4>4. m1[y + 1] = m[y + 1]
        BY <1>11, <4>3 DEF SameOutside
      <4> QED
        BY <4>2, <4>4
    <3> QED
      BY <3>1
  <2>2. d + 3 + m1[d] = y
    BY <1>3, <1>8
  <2> QED
    BY <1>9, <2>1, <2>2 DEF Apart
<1>15. FreeFrom(H, m, b, y)
  BY <1>0, <1>1, <1>2, FreeBlock
<1>16. m2 = Filled(m1, b + 2, n)
  <2>1. d = b + r + 3
    OBVIOUS
  <2> QED
    BY <1>0, <1>2, <1>4, <1>5, <2>1
<1>17. Take(H, m, s, l, hd, b, y, {b, d}, m1, y, l, n, m2)
  BY <1>0, <1>3, <1>8, <1>9, <1>11, <1>12, <1>13, <1>14, <1>15, <1>16 DEF Take
<1>18. /\ m2 \in [Words -> WordValues]
       /\ \E J : J = Out(H, b, y) \cup {b, d} /\ Heaped(J, m2, s, l, Given(hd, b + 2, n))
       /\ Fresh(hd, b + 2, n)
       /\ \A c \in Out(H, b, y) : m2[c] = m[c] /\ m2[c + 1] = m[c + 1]
       /\ \A c \in {b, d} : m2[c] = m1[c] /\ m2[c + 1] = m1[c + 1]
  BY <1>17, TakeHeap
<1>19. ASSUME NEW a \in Words
       PROVE  a \in Nat /\ (a < b \/ (a >= d + 2 /\ a # b + 2 + m[b]) => m2[a] = m[a])
  <2>1. a \in Nat
    BY ArenaAssumption DEF Words, Base
  <2>2. ASSUME a < b \/ (a >= d + 2 /\ a # b + 2 + m[b]) PROVE m2[a] = m[a]
    <3>1. /\ (a < b \/ a >= d + 2) /\ a # d + 2 + w
          /\ (a < b + 2 \/ a >= b + 2 + n) /\ b + 2 \in Nat
      BY <1>0, <1>2, <1>3, <2>1, <2>2
    <3>2. m2[a] = m1[a]
      BY <1>0, <1>8, <1>16, <2>1, <3>1, FilledOutside
    <3> QED
      BY <1>10, <2>1, <3>1, <3>2
  <2> QED
    BY <2>1, <2>2
<1>20. m2[b] = r /\ m2[b + 1] # 0 /\ m2[d] = w /\ m2[d + 1] = 0
  BY <1>8, <1>9, <1>18
<1> QED
  BY <1>2, <1>18, <1>19, <1>20

(* The block in front of block b, found through its footer.                *)
LEMMA FrontBlock ==
    ASSUME NEW H, NEW m, NEW s \in Nat, NEW l \in Nat, Chain(H, m, s, l, 3), Footed(H, m),
           NEW b \in H, b # s
    PROVE  \E c \in H : c + 3 + m[c] = b /\ m[b - 1] = m[c] /\ b - 3 - m[b - 1] = c
<1>1. \A c \in H : c \in Nat /\ s <= c /\ c < l /\ m[c] \in Nat
  BY ChainFacts
<1> DEFINE D == {b - c : c \in {h \in H : h < b}}
<1>2. D \subseteq Nat
  BY <1>1
<1>3. D # {}
  <2>1. s \in H
    BY <1>1 DEF Chain
  <2>2. s < b
    BY <1>1
  <2> QED
    BY <2>1, <2>2
<1>4. PICK e \in D : \A f \in D : e <= f
  BY <1>2, <1>3, LeastOf
<1>5. PICK c \in H : c < b /\ e = b - c
  BY <1>4
<1>6. PICK n : n = c + 3 + m[c]
  OBVIOUS
<1>7. n \in Nat /\ c < n /\ n <= b
  <2>1. n <= b
    BY <1>5, <1>6 DEF Chain
  <2> QED
    BY <1>1, <1>6, <2>1
<1>8. n = b
  <2>1. ASSUME n < b PROVE FALSE
    <3>1. n \in H \cup {l}
      BY <1>6 DEF Chain
    <3>2. n \in H
      <4>1. b \in Nat /\ b < l
        BY <1>1
      <4> QED
        BY <1>7, <2>1, <3>1, <4>1
    <3>3. b - n \in D
      BY <2>1, <3>2
    <3>4. b - c <= b - n
      BY <1>4, <1>5, <3>3
    <3> QED
      BY <1>1, <1>7, <3>4
  <2> QED
    BY <1>1, <1>7, <2>1
<1>9. m[b - 1] = m[c]
  <2>1. FootAt(m, c) = m[c] /\ c + 2 + m[c] = b - 1
    BY <1>1, <1>6, <1>8 DEF Footed
  <2> QED
    BY <2>1 DEF FootAt
<1>10. b - 3 - m[b - 1] = c
  BY <1>1, <1>6, <1>8, <1>9
<1> QED
  BY <1>6, <1>8, <1>9, <1>10

(* How far the free block reaches that free puts in the place of block b.  *)
UpTo(m, l, b) == LET a == b + 3 + m[b] IN IF a < l /\ m[a + 1] = 0 THEN a + 3 + m[a] ELSE a
From(m, s, b) == LET c == b - 3 - m[b - 1] IN IF b > s /\ m[c + 1] = 0 THEN c ELSE b

(* What free merges: the blocks from the start of the merged one to its    *)
(* end are block b and free ones, and beyond are none.                     *)
LEMMA Merging ==
    ASSUME NEW H, NEW m, NEW s \in Nat, NEW l \in Nat, Chain(H, m, s, l, 3), Footed(H, m), Apart(H, m, l),
           NEW b \in H, NEW x, x = From(m, s, b), NEW y, y = UpTo(m, l, b)
    PROVE  /\ x \in H /\ y \in H \cup {l} /\ x <= b /\ b < y
           /\ FreeFrom(H \ {b}, m, x, y) /\ (y # l => m[y + 1] # 0)
           /\ \A c \in H : c + 3 + m[c] = x => m[c + 1] # 0
<1>1. \A c \in H : /\ c \in Nat /\ s <= c /\ c < l /\ m[c] \in Nat
                   /\ c + 3 + m[c] \in H \cup {l} /\ c + 3 + m[c] <= l
  BY ChainFacts
<1>2. \A c, e \in H : c < e => c + 3 + m[c] <= e
  BY DEF Chain
<1>3. PICK a : a = b + 3 + m[b]
  OBVIOUS
<1>4. a \in Nat /\ b < a /\ a <= l /\ (a < l => a \in H)
  BY <1>1, <1>3
<1>5. /\ y \in H \cup {l} /\ a <= y /\ y \in Nat /\ (y # l => m[y + 1] # 0)
      /\ \A c \in H : b < c /\ c < y => m[c + 1] = 0
  <2>1. CASE a < l /\ m[a + 1] = 0
    <3>1. a \in H /\ y = a + 3 + m[a]
      BY <1>3, <1>4, <2>1 DEF UpTo
    <3>2. y \in H \cup {l} /\ a <= y /\ y \in Nat
      BY <1>1, <3>1
    <3>3. y # l => m[y + 1] # 0
      BY <2>1, <3>1 DEF Apart
    <3>4. ASSUME NEW c \in H, b < c, c < y PROVE c = a
      BY <1>1, <1>2, <1>3, <3>1, <3>4
    <3> QED
      BY <2>1, <3>2, <3>3, <3>4
  <2>2. CASE ~(a < l /\ m[a + 1] = 0)
    <3>1. y = a
      BY <1>3, <2>2 DEF UpTo
    <3>2. y # l => m[y + 1] # 0
      BY <1>4, <2>2, <3>1
    <3>3. ASSUME NEW c \in H, b < c, c < y PROVE FALSE
      BY <1>1, <1>2, <1>3, <3>1, <3>3
    <3>4. y \in H \cup {l} /\ a <= y /\ y \in Nat
      BY <1>1, <1>3, <1>4, <3>1
    <3> QED
      BY <3>2, <3>3, <3>4
  <2> QED
    BY <2>1, <2>2
<1>6. /\ x \in H /\ x <= b /\ (\A c \in H : c + 3 + m[c] = x => m[c + 1] # 0)
      /\ \A c \in H : x <= c /\ c < b => m[c + 1] = 0
  <2>1. CASE b = s
    <3>1. x = b
      BY <1>1, <2>1 DEF From
    <3>2. \A c \in H : c + 3 + m[c] # b
      BY <1>1, <2>1
    <3>3. \A c \in H : ~(b <= c /\ c < b)
      BY <1>1
    <3>4. b <= b
      BY <1>1
    <3> QED
      BY <3>1, <3>2, <3>3, <3>4
  <2>2. CASE b # s
    <3>1. PICK c \in H : c + 3 + m[c] = b /\ m[b - 1] = m[c] /\ b - 3 - m[b - 1] = c
      BY <2>2, FrontBlock
    <3>2. b > s /\ c < b
      BY <1>1, <2>2, <3>1
    <3>3. \A e \in H : e + 3 + m[e] = b => e = c
      BY <1>1, <1>2, <3>1
    <3>4. CASE m[c + 1] = 0
      <4>1. x = c
        BY <3>1, <3>2, <3>4 DEF From
      <4>2. ASSUME NEW e \in H, c <= e, e < b PROVE e = c
        BY <1>1, <1>2, <3>1, <4>2
      <4>3. ASSUME NEW e \in H, e + 3 + m[e] = c PROVE m[e + 1] # 0
        <5>1. e + 3 + m[e] # l
          BY <1>1, <4>3
        <5> QED
          BY <3>4, <4>3, <5>1 DEF Apart
      <4>4. c <= b
        BY <1>1, <3>2
      <4> QED
        BY <3>4, <4>1, <4>2, <4>3, <4>4
    <3>5. CASE m[c + 1] # 0
      <4>1. x = b
        BY <3>1, <3>5 DEF From
      <4>2. b <= b /\ \A e \in H : ~(b <= e /\ e < b)
        BY <1>1
      <4> QED
        BY <3>3, <3>5, <4>1, <4>2
    <3> QED
      BY <3>4, <3>5
  <2> QED
    BY <2>1, <2>2
<1>7. FreeFrom(H \ {b}, m, x, y)
  <2>1. ASSUME NEW c \in H \ {b}, x <= c, c < y PROVE m[c + 1] = 0
    <3>1. c < b \/ b < c
      BY <1>1
    <3> QED
      BY <1>5, <1>6, <2>1, <3>1
  <2> QED
    BY <2>1 DEF FreeFrom
<1>8. b < y
  BY <1>1, <1>4, <1>5
<1> QED
  BY <1>5, <1>6, <1>7, <1>8

(* What holds of the coalescing list: the words up to last_ptr are a       *)
(* boundary-tagged heap.                                                   *)
TaggedInv == Mapped => \E H : Heaped(H, mem, start_ptr, last_ptr, held)

(* The places of a boundary-tagged heap, and its search.                   *)
LEMMA TaggedPlaces ==
    ASSUME ArenaInv, Placed, Mapped, kind # "improved"
    PROVE  \E l \in Nat : /\ l = last_ptr /\ start_ptr = 1 /\ 1 <= l /\ 1 \in Nat
                          /\ size \in Nat /\ l <= 1 + size /\ 1 .. size \subseteq Words
                          /\ 1 .. l - 1 \subseteq Words
                          /\ Readable(mem, 1, l) /\ mem \in [Words -> WordValues]
<1>1. /\ start_ptr = 1 /\ last_ptr \in Nat /\ 1 <= last_ptr /\ size \in Nat
      /\ last_ptr <= 1 + size /\ \A a \in 1 .. size : a \in Words
      /\ Readable(mem, 1, last_ptr)
  BY ArenaFacts
<1>2. 1 .. last_ptr - 1 \subseteq Words /\ 1 .. size \subseteq Words
  BY <1>1
<1> QED
  BY <1>1, <1>2 DEF ArenaInv

(* The block a search finds.                                               *)
LEMMA TaggedFound ==
    ASSUME ArenaInv, Placed, Mapped, TaggedInv, kind # "improved", NEW r \in Nat, Tagged!Found(r)
    PROVE  \E H : /\ Heaped(H, mem, 1, last_ptr, held)
                  /\ Tagged!Search(r) \in H /\ mem[Tagged!Search(r) + 1] = 0 /\ mem[Tagged!Search(r)] >= r
<1>1. PICK l \in Nat : /\ l = last_ptr /\ start_ptr = 1 /\ 1 \in Nat /\ Readable(mem, 1, l)
  BY TaggedPlaces
<1>2. PICK H : Heaped(H, mem, 1, l, held)
  BY <1>1 DEF TaggedInv
<1>3. PICK b : b = Find(mem, 1, l, 3, r)
  OBVIOUS
<1>4. Tagged!Search(r) = b
  BY <1>1, <1>3, TaggedIs
<1>5. b < l
  BY <1>1, <1>4 DEF Tagged!Found
<1>6. Chain(H, mem, 1, l, 3) /\ 3 \in Nat /\ 3 >= 2
  BY <1>2 DEF Heaped, Laid
<1>7. b \in H \cup {l} /\ (b # l => mem[b + 1] = 0 /\ mem[b] >= r)
  BY <1>1, <1>3, <1>6, FindIs
<1>8. b \in H /\ mem[b + 1] = 0 /\ mem[b] >= r
  BY <1>1, <1>5, <1>7
<1> QED
  BY <1>1, <1>2, <1>4, <1>8

(* Malloc by splitting a block.                                            *)
LEMMA TaggedSplit ==
    ASSUME ArenaInv, Placed, TaggedInv, kind = "coalescing", NEW n \in Asked, Tagged!MallocSplit(n)
    PROVE  ArenaInv' /\ Placed' /\ TaggedInv' /\ Seen
<1>0. Mapped
  BY TaggedIs DEF Tagged!MallocSplit, Tagged!Found
<1>1. PICK r \in Nat : r = Round(n) /\ n <= r
  BY AskedIs, RoundIs
<1>2. n \in Nat
  BY AskedIs
<1>3. PICK l \in Nat : /\ l = last_ptr /\ start_ptr = 1 /\ 1 <= l /\ 1 \in Nat
                       /\ size \in Nat /\ l <= 1 + size /\ 1 .. l - 1 \subseteq Words
                       /\ mem \in [Words -> WordValues]
  BY <1>0, TaggedPlaces
<1>4. PICK b : b = Tagged!Search(r)
  OBVIOUS
<1>5. PICK H : Heaped(H, mem, 1, l, held) /\ b \in H /\ mem[b + 1] = 0
  <2>1. Tagged!Found(r)
    BY <1>1, TaggedIs DEF Tagged!MallocSplit
  <2> QED
    BY <1>0, <1>3, <1>4, <2>1, TaggedFound
<1>6. /\ mem[b] >= r + 5
      /\ mem' = Filled(Tagged!Tag(Tagged!Tag(mem, b, r, 1), b + r + 3, mem[b] - r - 3, 0), b + 2, n)
      /\ held' = Given(held, b + 2, n)
      /\ UNCHANGED <<kind, start_ptr, last_ptr, size, HEAD>>
  <2>1. mem[b] >= r + 3 + 2
    BY <1>1, <1>4, TaggedIs DEF Tagged!MallocSplit, Tagged!CanSplit, Tagged!BlockSize, Tagged!ALIGN
  <2>2. mem[b] >= r + 5
    BY <1>1, <2>1
  <2> QED
    BY <1>1, <1>4, <2>2, TaggedIs DEF Tagged!MallocSplit, Tagged!Split, Tagged!BlockSize, Tagged!Payload
<1>7. Splits(H, mem, 1, l, held, b, r, n, mem')
  BY <1>1, <1>2, <1>3, <1>5, <1>6 DEF Splits
<1>8. /\ mem' \in [Words -> WordValues]
      /\ \E J : Heaped(J, mem', 1, l, Given(held, b + 2, n))
      /\ Fresh(held, b + 2, n)
  BY <1>7, SplitHeap
<1>9. TaggedInv'
  BY <1>3, <1>6, <1>8 DEF TaggedInv
<1>10. b + 2 \in Nat /\ 1 <= b + 2 /\ b + 2 + n <= size + 1
  <2>1. Chain(H, mem, 1, l, 3)
    BY <1>5 DEF Heaped, Laid
  <2>2. b \in Nat /\ 1 <= b /\ mem[b] \in Nat /\ b + 3 + mem[b] <= l
    BY <1>3, <1>5, <2>1, ChainFacts
  <2> QED
    BY <1>1, <1>2, <1>3, <1>6, <2>2
<1>11. ArenaInv' /\ Placed' /\ Seen
  <2>1. last_ptr' \in Nat /\ 1 <= last_ptr' /\ last_ptr' <= 1 + size
    BY <1>3, <1>6
  <2> QED
    BY <1>0, <1>6, <1>8, <1>10, <2>1, MallocDone
<1> QED
  BY <1>9, <1>11

(* Malloc by handing out a whole block.                                    *)
LEMMA TaggedWhole ==
    ASSUME ArenaInv, Placed, TaggedInv, kind = "coalescing", NEW n \in Asked, Tagged!MallocWhole(n)
    PROVE  ArenaInv' /\ Placed' /\ TaggedInv' /\ Seen
<1>0. Mapped
  BY TaggedIs DEF Tagged!MallocWhole, Tagged!Found
<1>1. PICK r \in Nat : r = Round(n) /\ n <= r
  BY AskedIs, RoundIs
<1>2. n \in Nat
  BY AskedIs
<1>3. PICK l \in Nat : /\ l = last_ptr /\ start_ptr = 1 /\ 1 <= l /\ 1 \in Nat
                       /\ size \in Nat /\ l <= 1 + size /\ 1 .. l - 1 \subseteq Words
                       /\ mem \in [Words -> WordValues]
  BY <1>0, TaggedPlaces
<1>4. PICK b : b = Tagged!Search(r)
  OBVIOUS
<1>5. PICK H : Heaped(H, mem, 1, l, held) /\ b \in H /\ mem[b + 1] = 0 /\ mem[b] >= r
  <2>1. Tagged!Found(r)
    BY <1>1, TaggedIs DEF Tagged!MallocWhole
  <2> QED
    BY <1>0, <1>3, <1>4, <2>1, TaggedFound
<1>6. /\ mem' = Filled([mem EXCEPT ![b + 1] = 1], b + 2, n)
      /\ held' = Given(held, b + 2, n)
      /\ UNCHANGED <<kind, start_ptr, last_ptr, size, HEAD>>
  BY <1>1, <1>4, TaggedIs DEF Tagged!MallocWhole, Tagged!Payload
<1>7. b \in Nat /\ 1 <= b /\ mem[b] \in Nat /\ b + 3 + mem[b] <= l /\ n <= mem[b]
  <2>1. Chain(H, mem, 1, l, 3)
    BY <1>5 DEF Heaped, Laid
  <2>2. b \in Nat /\ 1 <= b /\ mem[b] \in Nat /\ b + 3 + mem[b] <= l
    BY <1>3, <1>5, <2>1, ChainFacts
  <2> QED
    BY <1>1, <1>2, <1>5, <2>2
<1>8. Wholes(H, mem, 1, l, held, b, n, mem')
  BY <1>2, <1>3, <1>5, <1>6, <1>7 DEF Wholes
<1>9. /\ mem' \in [Words -> WordValues]
      /\ \E J : Heaped(J, mem', 1, l, Given(held, b + 2, n))
      /\ Fresh(held, b + 2, n)
  BY <1>8, WholeHeap
<1>10. TaggedInv'
  BY <1>3, <1>6, <1>9 DEF TaggedInv
<1>11. ArenaInv' /\ Placed' /\ Seen
  <2>1. /\ last_ptr' \in Nat /\ 1 <= last_ptr' /\ last_ptr' <= 1 + size
        /\ b + 2 \in Nat /\ 1 <= b + 2 /\ b + 2 + n <= size + 1
    BY <1>2, <1>3, <1>6, <1>7
  <2> QED
    BY <1>0, <1>6, <1>9, <2>1, MallocDone
<1> QED
  BY <1>10, <1>11

(* Malloc by appending a block.                                            *)
LEMMA TaggedAppend ==
    ASSUME ArenaInv, Placed, TaggedInv, kind \in {"coalescing", "explicit"}, NEW n \in Asked, Mapped,
           NEW r, r = Round(n), last_ptr + r + 3 <= start_ptr + size,
           last_ptr' = last_ptr + r + 3,
           mem' = Filled(Tagged!Tag(mem, last_ptr, r, 1), last_ptr + 2, n),
           held' = Given(held, last_ptr + 2, n), UNCHANGED <<kind, start_ptr, size, HEAD>>
    PROVE  /\ ArenaInv' /\ Placed' /\ TaggedInv' /\ Seen
           /\ \A H : Heaped(H, mem, start_ptr, last_ptr, held)
                       => Grows(H, mem, start_ptr, last_ptr, held, r, n, mem')
<1>1. r \in Nat /\ n <= r /\ n \in Nat
  BY AskedIs, RoundIs
<1>2. PICK l \in Nat : /\ l = last_ptr /\ start_ptr = 1 /\ 1 <= l /\ 1 \in Nat
                       /\ size \in Nat /\ l <= 1 + size /\ 1 .. size \subseteq Words
                       /\ mem \in [Words -> WordValues]
  BY TaggedPlaces
<1>3. l + r + 3 <= 1 + size
  BY <1>2
<1>4. 1 .. l + r + 2 \subseteq Words
  BY <1>1, <1>2, <1>3
<1>5. \A H : Heaped(H, mem, 1, l, held) => Grows(H, mem, 1, l, held, r, n, mem')
  BY <1>1, <1>2, <1>4 DEF Grows
<1>6. PICK H : Heaped(H, mem, 1, l, held)
  BY <1>2 DEF TaggedInv
<1>7. Grows(H, mem, 1, l, held, r, n, mem')
  BY <1>5, <1>6
<1>8. /\ mem' \in [Words -> WordValues]
      /\ \E J : Heaped(J, mem', 1, l + 3 + r, Given(held, l + 2, n))
      /\ Fresh(held, l + 2, n)
  BY <1>7, GrowHeap
<1>9. last_ptr' = l + 3 + r
  BY <1>1, <1>2
<1>10. TaggedInv'
  BY <1>2, <1>8, <1>9 DEF TaggedInv
<1>11. ArenaInv' /\ Placed' /\ Seen
  <2>1. /\ last_ptr' \in Nat /\ 1 <= last_ptr' /\ last_ptr' <= 1 + size
        /\ l + 2 \in Nat /\ 1 <= l + 2 /\ l + 2 + n <= size + 1 /\ held' = Given(held, l + 2, n)
    BY <1>1, <1>2, <1>3
  <2>2. kind # "improved"
    OBVIOUS
  <2> QED
    BY <1>8, <2>1, <2>2, MallocDone
<1> QED
  BY <1>2, <1>5, <1>10, <1>11

(* The block that free writes.                                             *)
LEMMA MergedIs ==
    ASSUME NEW H, NEW s \in Nat, NEW l \in Nat, s = start_ptr, l = last_ptr,
           Chain(H, mem, s, l, 3), Footed(H, mem), NEW b \in H
    PROVE  /\ Tagged!MergedStart(b) = From(mem, s, b)
           /\ Tagged!MergedSize(b) = UpTo(mem, l, b) - From(mem, s, b) - 3
<1>1. PICK a : a = b + 3 + mem[b]
  OBVIOUS
<1>2. PICK c : c = b - 3 - mem[b - 1]
  OBVIOUS
<1>3. Tagged!MergesFront(b) <=> a < l /\ mem[a + 1] = 0
  BY <1>1 DEF Tagged!MergesFront, Tagged!After, Tagged!Allocated
<1>4. Tagged!MergesBack(b) <=> b > s /\ mem[c + 1] = 0
  BY <1>2 DEF Tagged!MergesBack, Tagged!Before, Tagged!Allocated
<1>5. Tagged!MergedStart(b) = IF Tagged!MergesBack(b) THEN c ELSE b
  BY <1>2 DEF Tagged!MergedStart, Tagged!Before
<1>6. From(mem, s, b) = IF Tagged!MergesBack(b) THEN c ELSE b
  BY <1>2, <1>4 DEF From
<1>7. UpTo(mem, l, b) = IF Tagged!MergesFront(b) THEN a + 3 + mem[a] ELSE a
  BY <1>1, <1>3 DEF UpTo
<1>8. Tagged!MergedSize(b) = mem[b] + (IF Tagged!MergesFront(b) THEN mem[a] + 3 ELSE 0)
                                    + (IF Tagged!MergesBack(b) THEN mem[b - 1] + 3 ELSE 0)
  BY <1>1 DEF Tagged!MergedSize, Tagged!BlockSize, Tagged!After
<1>9. \A e \in H : e \in Nat /\ s <= e /\ e < l /\ mem[e] \in Nat /\ e + 3 + mem[e] \in H \cup {l}
  BY ChainFacts
<1>10. b \in Nat /\ mem[b] \in Nat /\ (Tagged!MergesFront(b) => mem[a] \in Nat)
  <2>1. Tagged!MergesFront(b) => a \in H
    BY <1>1, <1>3, <1>9
  <2> QED
    BY <1>9, <2>1
<1>11. Tagged!MergesBack(b) => mem[b - 1] \in Nat
  <2>1. ASSUME Tagged!MergesBack(b) PROVE mem[b - 1] \in Nat
    <3>1. b # s
      BY <1>4, <1>9, <2>1
    <3>2. PICK e \in H : mem[b - 1] = mem[e]
      BY <3>1, FrontBlock
    <3> QED
      BY <1>9, <3>2
  <2> QED
    BY <2>1
<1>12. Tagged!MergedSize(b) = UpTo(mem, l, b) - From(mem, s, b) - 3
  <2>1. CASE Tagged!MergesFront(b) /\ Tagged!MergesBack(b)
    BY <1>1, <1>2, <1>6, <1>7, <1>8, <1>10, <1>11, <2>1
  <2>2. CASE Tagged!MergesFront(b) /\ ~Tagged!MergesBack(b)
    BY <1>1, <1>2, <1>6, <1>7, <1>8, <1>10, <2>2
  <2>3. CASE ~Tagged!MergesFront(b) /\ Tagged!MergesBack(b)
    BY <1>1, <1>2, <1>6, <1>7, <1>8, <1>10, <1>11, <2>3
  <2>4. CASE ~Tagged!MergesFront(b) /\ ~Tagged!MergesBack(b)
    BY <1>1, <1>2, <1>6, <1>7, <1>8, <1>10, <2>4
  <2> QED
    BY <2>1, <2>2, <2>3, <2>4
<1> QED
  BY <1>5, <1>6, <1>12

(* Free: the block is joined with the free blocks beside it.               *)
LEMMA TaggedFree ==
    ASSUME ArenaInv, Placed, TaggedInv, kind = "coalescing", NEW p \in DOMAIN held, Tagged!AllocFree(p)
    PROVE  ArenaInv' /\ Placed' /\ TaggedInv' /\ Seen
<1>0. Mapped
  BY TaggedIs DEF Tagged!AllocFree
<1>1. PICK l \in Nat : /\ l = last_ptr /\ start_ptr = 1 /\ 1 <= l /\ 1 \in Nat
                       /\ 1 .. l - 1 \subseteq Words /\ mem \in [Words -> WordValues]
  BY <1>0, TaggedPlaces
<1>2. PICK H : Heaped(H, mem, 1, l, held)
  BY <1>0, <1>1 DEF TaggedInv
<1>3. Laid(H, mem, 1, l, 3, held) /\ Chain(H, mem, 1, l, 3) /\ Footed(H, mem) /\ Apart(H, mem, l) /\ 3 \in Nat
  BY <1>2 DEF Heaped, Laid
<1>4. PICK b \in H : p = b + 2 /\ p - 2 = b
  BY <1>1, <1>3, HeldIs
<1>5. PICK x, y : x = From(mem, 1, b) /\ y = UpTo(mem, l, b)
  OBVIOUS
<1>6. /\ mem' = Tagged!Tag(mem, x, y - x - 3, 0)
      /\ held' = Restrict(held, DOMAIN held \ {b + 2})
      /\ UNCHANGED <<kind, start_ptr, last_ptr, size, HEAD>>
  <2>1. Tagged!MergedStart(b) = x /\ Tagged!MergedSize(b) = y - x - 3
    BY <1>1, <1>3, <1>5, MergedIs
  <2> QED
    BY <1>4, <2>1, TaggedIs DEF Tagged!AllocFree, Tagged!Header
<1>7. Give(H, mem, 1, l, held, b, x, y, mem')
  <2>1. /\ x \in H /\ y \in H \cup {l} /\ x <= b /\ b < y
        /\ FreeFrom(H \ {b}, mem, x, y) /\ (y # l => mem[y + 1] # 0)
        /\ \A c \in H : c + 3 + mem[c] = x => mem[c + 1] # 0
    BY <1>1, <1>3, <1>5, Merging
  <2> QED
    BY <1>1, <1>2, <1>6, <2>1 DEF Give
<1>8. /\ mem' \in [Words -> WordValues]
      /\ \E J : Heaped(J, mem', 1, l, Restrict(held, DOMAIN held \ {b + 2}))
  <2>1. Gave(H, mem, 1, l, held, b, x, y, mem')
    BY <1>7, GiveHeap
  <2> QED
    BY <2>1, Zenon DEF Gave
<1>9. TaggedInv'
  BY <1>1, <1>6, <1>8 DEF TaggedInv
<1> QED
  BY <1>0, <1>4, <1>6, <1>8, <1>9, FreeDone

(* A heap without blocks.                                                  *)
LEMMA NoHeap ==
    ASSUME NEW m, NEW s \in Nat
    PROVE  Heaped({}, m, s, s, <<>>)
  BY NoBlocks DEF Heaped, Footed, Apart

(* Every step of the coalescing list.                                      *)
LEMMA TaggedStep ==
    ASSUME ArenaInv, Placed, TaggedInv, kind = "coalescing", kind \in Kinds, Tagged!Next
    PROVE  ArenaInv' /\ Placed' /\ TaggedInv' /\ Seen
<1>1. CASE Tagged!Lifecycle
  <2>1. ArenaInv' /\ Placed' /\ Seen /\ (Mapped' => last_ptr' = start_ptr' /\ held' = <<>>)
    <3>1. CASE \E n \in DOMAIN Workload[kind] : start_ptr = NULL /\ (~Mapped => Fresher(n, Base))
      <4>1. PICK n \in DOMAIN Workload[kind] : start_ptr = NULL /\ (~Mapped => Fresher(n, Base))
        BY <3>1
      <4>2. ~Mapped
        BY <4>1, SizeIs DEF Placed, Start, Base, NULL, ArenaInv
      <4>3. Fresher(n, Start(kind, n))
        BY <4>1, <4>2 DEF Start
      <4> QED
        BY <4>3, Created
    <3>2. CASE AllocInitFails \/ AllocDeinit \/ AllocReset
      BY <3>2, Ended
    <3> QED
      BY <1>1, <3>1, <3>2, TaggedIs
  <2>2. Mapped' => start_ptr' \in Nat
    BY <2>1, SizeIs DEF Placed, Start, Base, ArenaInv
  <2>3. TaggedInv'
    BY <2>1, <2>2, NoHeap DEF TaggedInv
  <2> QED
    BY <2>1, <2>3
<1>2. CASE UNCHANGED arenaVars
  <2>1. TaggedInv'
    BY <1>2 DEF TaggedInv, arenaVars, heapVars, Mapped
  <2> QED
    BY <1>2, <2>1, Refused
<1>3. CASE \E n \in Asked : Tagged!MallocSplit(n) \/ Tagged!MallocWhole(n)
  BY <1>3, TaggedSplit, TaggedWhole
<1>4. CASE \E n \in Asked : Tagged!MallocAppend(n)
  <2>1. PICK n \in Asked : Tagged!MallocAppend(n)
    BY <1>4
  <2>2. PICK r : r = Round(n)
    OBVIOUS
  <2>3. /\ Mapped /\ last_ptr + r + 3 <= start_ptr + size
        /\ last_ptr' = last_ptr + r + 3
        /\ mem' = Filled(Tagged!Tag(mem, last_ptr, r, 1), last_ptr + 2, n)
        /\ held' = Given(held, last_ptr + 2, n) /\ UNCHANGED <<kind, start_ptr, size, HEAD>>
    BY <2>1, <2>2, TaggedIs DEF Tagged!MallocAppend, Tagged!HasRoom, Tagged!Payload
  <2>4. kind \in {"coalescing", "explicit"}
    OBVIOUS
  <2> QED
    BY <2>2, <2>3, <2>4, TaggedAppend
<1>5. CASE \E p \in DOMAIN held : Tagged!AllocFree(p)
  BY <1>5, TaggedFree
<1>6. \/ Tagged!Lifecycle \/ UNCHANGED arenaVars
      \/ \E n \in Asked : Tagged!MallocSplit(n) \/ Tagged!MallocWhole(n)
      \/ \E n \in Asked : Tagged!MallocAppend(n)
      \/ \E p \in DOMAIN held : Tagged!AllocFree(p)
  BY TaggedIs DEF Tagged!Next, Tagged!MallocNull, Tagged!FreeRejected
<1> QED
  BY <1>1, <1>2, <1>3, <1>4, <1>5, <1>6

-----------------------------------------------------------------------------
(* The explicit list's ring                                                *)

(* The place behind place i of a ring of k.                                *)
Nxt(i, k) == IF i = k THEN 1 ELSE i + 1

(* f names the k blocks of F in the order in which they are linked in m.   *)
Ring(f, k, m, F) ==
    /\ k \in Nat /\ f \in [1 .. k -> F]
    /\ \A i, j \in 1 .. k : f[i] = f[j] => i = j
    /\ \A b \in F : \E i \in 1 .. k : f[i] = b
    /\ \A i \in 1 .. k : m[f[i] + 3] = f[Nxt(i, k)] /\ m[f[Nxt(i, k)] + 2] = f[i]

(* The blocks of F are linked in one cycle, and head is one of them.       *)
Cycle(m, head, F) == /\ \E k, f : Ring(f, k, m, F)
                     /\ IF F = {} THEN head = NULL ELSE head \in F

(* Blocks with room for two links each.                                    *)
Wide(F) == /\ \A c \in F : c \in Nat /\ c >= 1 /\ c + 2 \in Words /\ c + 3 \in Words
           /\ \A c, d \in F : c < d => c + 5 <= d

(* m2 has other links for the blocks of F, and differs in nothing else.    *)
Links(F, m, m2) == /\ m2 \in [Words -> WordValues]
                   /\ \A a \in Words : (\A c \in F : a # c + 2 /\ a # c + 3) => m2[a] = m[a]

(* A cycle can be named from any of its blocks.                            *)
LEMMA Rotate ==
    ASSUME NEW f, NEW k, NEW m, NEW F, Ring(f, k, m, F), NEW i \in 1 .. k
    PROVE  \E g : Ring(g, k, m, F) /\ g[k] = f[i] /\ g[1] = f[Nxt(i, k)]
<1>1. /\ k \in Nat /\ f \in [1 .. k -> F] /\ i \in Nat /\ 1 <= i /\ i <= k
      /\ \A t, j \in 1 .. k : f[t] = f[j] => t = j
      /\ \A b \in F : \E j \in 1 .. k : f[j] = b
      /\ \A j \in 1 .. k : m[f[j] + 3] = f[Nxt(j, k)] /\ m[f[Nxt(j, k)] + 2] = f[j]
  BY DEF Ring
<1> DEFINE P(j) == IF j + i <= k THEN j + i ELSE j + i - k
           g == [j \in 1 .. k |-> f[P(j)]]
<1>2. \A j \in 1 .. k : P(j) \in 1 .. k /\ Nxt(j, k) \in 1 .. k
  BY <1>1 DEF Nxt
<1>3. \A j \in 1 .. k : P(Nxt(j, k)) = Nxt(P(j), k)
  BY <1>1 DEF Nxt
<1>4. \A t, j \in 1 .. k : P(t) = P(j) => t = j
  BY <1>1
<1>5. \A t \in 1 .. k : \E j \in 1 .. k : P(j) = t
  <2>1. ASSUME NEW t \in 1 .. k PROVE \E j \in 1 .. k : P(j) = t
    <3>1. CASE t > i
      <4>1. t - i \in 1 .. k /\ P(t - i) = t
        BY <1>1, <3>1
      <4> QED
        BY <4>1
    <3>2. CASE ~(t > i)
      <4>1. t - i + k \in 1 .. k /\ P(t - i + k) = t
        BY <1>1, <3>2
      <4> QED
        BY <4>1
    <3> QED
      BY <3>1, <3>2
  <2> QED
    BY <2>1
<1>6. P(k) = i /\ P(1) = Nxt(i, k) /\ k \in 1 .. k /\ 1 \in 1 .. k
  BY <1>1 DEF Nxt
<1> HIDE DEF P
<1>7. g \in [1 .. k -> F] /\ \A j \in 1 .. k : g[j] = f[P(j)]
  <2>1. \A j \in 1 .. k : f[P(j)] \in F
    BY <1>1, <1>2
  <2>2. g \in [1 .. k -> F]
    BY <2>1
  <2>3. \A j \in 1 .. k : g[j] = f[P(j)]
    OBVIOUS
  <2> QED
    BY <2>2, <2>3
<1> HIDE DEF g
<1>8. \A t, j \in 1 .. k : g[t] = g[j] => t = j
  BY <1>1, <1>2, <1>4, <1>7
<1>9. ASSUME NEW b \in F PROVE \E j \in 1 .. k : g[j] = b
  <2>1. PICK t \in 1 .. k : f[t] = b
    BY <1>1
  <2>2. PICK j \in 1 .. k : P(j) = t
    BY <1>5
  <2> QED
    BY <1>7, <2>1, <2>2
<1>10. \A j \in 1 .. k : m[g[j] + 3] = g[Nxt(j, k)] /\ m[g[Nxt(j, k)] + 2] = g[j]
  <2>1. ASSUME NEW j \in 1 .. k PROVE m[g[j] + 3] = g[Nxt(j, k)] /\ m[g[Nxt(j, k)] + 2] = g[j]
    <3>1. PICK t \in 1 .. k : t = P(j)
      BY <1>2
    <3>2. g[j] = f[t] /\ g[Nxt(j, k)] = f[Nxt(t, k)]
      BY <1>2, <1>3, <1>7, <3>1
    <3>3. m[f[t] + 3] = f[Nxt(t, k)] /\ m[f[Nxt(t, k)] + 2] = f[t]
      BY <1>1
    <3> QED
      BY <3>2, <3>3
  <2> QED
    BY <2>1
<1>11. Ring(g, k, m, F)
  BY <1>1, <1>7, <1>8, <1>9, <1>10 DEF Ring
<1>12. g[k] = f[i] /\ g[1] = f[Nxt(i, k)]
  BY <1>6, <1>7
<1> QED
  BY <1>11, <1>12

(* f names them so that b is the last, or the first.                       *)
Ends(f, k, m, F, b) == Ring(f, k, m, F) /\ k \in Nat /\ k >= 1 /\ f[k] = b
Begins(f, k, m, F, b) == Ring(f, k, m, F) /\ k \in Nat /\ k >= 1 /\ f[1] = b

(* Each block of a cycle can be named last.                                *)
LEMMA LastIs ==
    ASSUME NEW m, NEW head, NEW F, Cycle(m, head, F), NEW b \in F
    PROVE  \E k, f : Ends(f, k, m, F, b)
<1>1. PICK k, f : Ring(f, k, m, F)
  BY DEF Cycle
<1>2. PICK i \in 1 .. k : f[i] = b
  BY <1>1 DEF Ring
<1>3. PICK g : Ring(g, k, m, F) /\ g[k] = f[i]
  BY <1>1, Rotate
<1>4. k \in Nat /\ k >= 1
  BY <1>1 DEF Ring
<1> QED
  BY <1>2, <1>3, <1>4 DEF Ends

(* Each block of a cycle can be named first.                               *)
LEMMA FirstIs ==
    ASSUME NEW m, NEW head, NEW F, Cycle(m, head, F), NEW b \in F
    PROVE  \E k, f : Begins(f, k, m, F, b)
<1>1. PICK k, f : Ring(f, k, m, F)
  BY DEF Cycle
<1>2. PICK i \in 1 .. k : f[i] = b
  BY <1>1 DEF Ring
<1>3. k \in Nat /\ k >= 1
  BY <1>1 DEF Ring
<1>4. PICK t \in 1 .. k : Nxt(t, k) = i
  <2>1. CASE i = 1
    BY <1>3, <2>1 DEF Nxt
  <2>2. CASE i # 1
    <3>1. i - 1 \in 1 .. k /\ Nxt(i - 1, k) = i
      BY <1>3, <2>2 DEF Nxt
    <3> QED
      BY <3>1
  <2> QED
    BY <2>1, <2>2
<1>5. PICK g : Ring(g, k, m, F) /\ g[1] = f[Nxt(t, k)]
  BY <1>1, Rotate
<1> QED
  BY <1>2, <1>3, <1>4, <1>5 DEF Begins

(* Links that are not touched.                                             *)
LEMMA CycleStays ==
    ASSUME NEW m, NEW head, NEW F, Cycle(m, head, F), NEW m2,
           \A c \in F : m2[c + 2] = m[c + 2] /\ m2[c + 3] = m[c + 3]
    PROVE  Cycle(m2, head, F)
<1>1. PICK k, f : Ring(f, k, m, F)
  BY DEF Cycle
<1>2. \A i \in 1 .. k : f[i] \in F /\ Nxt(i, k) \in 1 .. k
  BY <1>1 DEF Ring, Nxt
<1>3. Ring(f, k, m2, F)
  BY <1>1, <1>2 DEF Ring
<1> QED
  BY <1>3 DEF Cycle

(* f names the k blocks of F in the order in which they are linked in m,   *)
(* and nothing is said of the links between the last and the first.        *)
Path(f, k, m, F) ==
    /\ k \in Nat /\ f \in [1 .. k -> F]
    /\ \A i, j \in 1 .. k : f[i] = f[j] => i = j
    /\ \A b \in F : \E i \in 1 .. k : f[i] = b
    /\ \A i \in 1 .. k : i # k => m[f[i] + 3] = f[i + 1] /\ m[f[i + 1] + 2] = f[i]

(* A cycle without its last block is a path.                               *)
LEMMA DropLast ==
    ASSUME NEW f, NEW k, NEW m, NEW F, Ring(f, k, m, F), k # 0,
           NEW t, t = k - 1
    PROVE  \E g, G : G = F \ {f[k]} /\ Path(g, t, m, G) /\ \A i \in 1 .. t : g[i] = f[i]
<1>1. /\ k \in Nat /\ f \in [1 .. k -> F]
      /\ \A i, j \in 1 .. k : f[i] = f[j] => i = j
      /\ \A b \in F : \E i \in 1 .. k : f[i] = b
      /\ \A i \in 1 .. k : m[f[i] + 3] = f[Nxt(i, k)] /\ m[f[Nxt(i, k)] + 2] = f[i]
  BY DEF Ring
<1>2. t \in Nat
  BY <1>1
<1>3. k \in 1 .. k /\ \A i \in 1 .. t : i \in 1 .. k /\ i # k /\ i + 1 \in 1 .. k /\ Nxt(i, k) = i + 1
  BY <1>1, <1>2 DEF Nxt
<1>4. PICK g : g = [i \in 1 .. t |-> f[i]]
  OBVIOUS
<1>5. \A i \in 1 .. t : f[i] \in F \ {f[k]}
  BY <1>1, <1>3
<1>6. g \in [1 .. t -> F \ {f[k]}] /\ \A i \in 1 .. t : g[i] = f[i]
  BY <1>4, <1>5
<1>7. \A i, j \in 1 .. t : g[i] = g[j] => i = j
  BY <1>1, <1>3, <1>6
<1>8. ASSUME NEW b \in F \ {f[k]} PROVE \E i \in 1 .. t : g[i] = b
  <2>1. PICK i \in 1 .. k : f[i] = b
    BY <1>1
  <2>2. i \in 1 .. t
    BY <1>1, <1>2, <2>1
  <2> QED
    BY <1>6, <2>1, <2>2
<1>9. ASSUME NEW i \in 1 .. t, i # t PROVE m[g[i] + 3] = g[i + 1] /\ m[g[i + 1] + 2] = g[i]
  <2>1. i + 1 \in 1 .. t
    BY <1>2, <1>9
  <2>2. m[f[i] + 3] = f[i + 1] /\ m[f[i + 1] + 2] = f[i]
    BY <1>1, <1>3
  <2> QED
    BY <1>6, <2>1, <2>2
<1>10. Path(g, t, m, F \ {f[k]})
  BY <1>2, <1>6, <1>7, <1>8, <1>9 DEF Path
<1> QED
  BY <1>2, <1>6, <1>10

(* A cycle is a path.                                                      *)
LEMMA RingPath ==
    ASSUME NEW f, NEW k, NEW m, NEW F, Ring(f, k, m, F)
    PROVE  Path(f, k, m, F)
<1>1. /\ k \in Nat /\ f \in [1 .. k -> F]
      /\ \A i, j \in 1 .. k : f[i] = f[j] => i = j
      /\ \A b \in F : \E i \in 1 .. k : f[i] = b
      /\ \A i \in 1 .. k : m[f[i] + 3] = f[Nxt(i, k)] /\ m[f[Nxt(i, k)] + 2] = f[i]
  BY DEF Ring
<1>2. \A i \in 1 .. k : i # k => Nxt(i, k) = i + 1
  BY DEF Nxt
<1>3. \A i \in 1 .. k : i # k => m[f[i] + 3] = f[i + 1] /\ m[f[i + 1] + 2] = f[i]
  BY <1>1, <1>2
<1> QED
  BY <1>1, <1>3 DEF Path

(* Links of different blocks are different words.                          *)
LEMMA Distinct ==
    ASSUME NEW F, Wide(F), NEW c \in F, NEW d \in F
    PROVE  /\ c + 2 # d + 3 /\ c + 3 # d + 2
           /\ c # d => c + 2 # d + 2 /\ c + 3 # d + 3
<1>1. /\ c \in Nat /\ d \in Nat
      /\ c < d => c + 5 <= d
      /\ d < c => d + 5 <= c
  BY DEF Wide
<1> QED
  BY <1>1

(* A path whose ends are linked is a cycle.                                *)
LEMMA Close ==
    ASSUME NEW F, Wide(F), NEW k \in Nat, k # 0, NEW g, NEW m, Path(g, k, m, F), NEW m2,
           m2[g[k] + 3] = g[1], m2[g[1] + 2] = g[k],
           \A a \in Words : a # g[k] + 3 /\ a # g[1] + 2 => m2[a] = m[a]
    PROVE  Ring(g, k, m2, F)
<1>1. /\ g \in [1 .. k -> F]
      /\ \A i, j \in 1 .. k : g[i] = g[j] => i = j
      /\ \A b \in F : \E i \in 1 .. k : g[i] = b
      /\ \A i \in 1 .. k : i # k => m[g[i] + 3] = g[i + 1] /\ m[g[i + 1] + 2] = g[i]
  BY DEF Path
<1>2. k \in 1 .. k /\ 1 \in 1 .. k
  OBVIOUS
<1>3. \A c \in F : c + 2 \in Words /\ c + 3 \in Words
  BY DEF Wide
<1>4. ASSUME NEW i \in 1 .. k PROVE m2[g[i] + 3] = g[Nxt(i, k)] /\ m2[g[Nxt(i, k)] + 2] = g[i]
  <2>1. CASE i = k
    BY <2>1 DEF Nxt
  <2>2. CASE i # k
    <3>1. i + 1 \in 1 .. k /\ Nxt(i, k) = i + 1 /\ i + 1 # 1
      BY <2>2 DEF Nxt
    <3>2. /\ g[i] \in F /\ g[i + 1] \in F /\ g[k] \in F /\ g[1] \in F
          /\ g[i] # g[k] /\ g[i + 1] # g[1]
      BY <1>1, <1>2, <2>2, <3>1
    <3>3. g[i] + 3 # g[k] + 3 /\ g[i] + 3 # g[1] + 2
      BY <3>2, Distinct
    <3>4. g[i + 1] + 2 # g[k] + 3 /\ g[i + 1] + 2 # g[1] + 2
      BY <3>2, Distinct
    <3>5. m2[g[i] + 3] = m[g[i] + 3] /\ m2[g[i + 1] + 2] = m[g[i + 1] + 2]
      BY <1>3, <3>2, <3>3, <3>4
    <3> QED
      BY <1>1, <2>2, <3>1, <3>5
  <2> QED
    BY <2>1, <2>2
<1> QED
  BY <1>1, <1>4 DEF Ring

(* The links of block b between p in front and n behind are right in m2,   *)
(* which is m otherwise.                                                   *)
Between(m, p, b, n, m2) ==
    /\ m2[b + 2] = p /\ m2[b + 3] = n /\ m2[p + 3] = b /\ m2[n + 2] = b
    /\ \A a \in Words : a # b + 2 /\ a # b + 3 /\ a # p + 3 /\ a # n + 2 => m2[a] = m[a]

(* A block put between the ends of a path closes a cycle.                  *)
LEMMA Insert ==
    ASSUME NEW F, NEW b, b \notin F, Wide(F \cup {b}), NEW k \in Nat, k # 0, NEW g, NEW m,
           Path(g, k, m, F), NEW m2, Between(m, g[k], b, g[1], m2)
    PROVE  \E f, t : Ring(f, t, m2, F \cup {b})
<1>1. /\ g \in [1 .. k -> F]
      /\ \A i, j \in 1 .. k : g[i] = g[j] => i = j
      /\ \A c \in F : \E i \in 1 .. k : g[i] = c
      /\ \A i \in 1 .. k : i # k => m[g[i] + 3] = g[i + 1] /\ m[g[i + 1] + 2] = g[i]
  BY DEF Path
<1>2. PICK f : f = [i \in 1 .. k + 1 |-> IF i = k + 1 THEN b ELSE g[i]]
  OBVIOUS
<1>3. /\ f \in [1 .. k + 1 -> F \cup {b}]
      /\ f[k + 1] = b /\ \A i \in 1 .. k : f[i] = g[i] /\ f[i] \in F
  <2>1. k + 1 \in 1 .. k + 1 /\ \A i \in 1 .. k : i \in 1 .. k + 1 /\ i # k + 1
    OBVIOUS
  <2>2. \A i \in 1 .. k + 1 : i # k + 1 => i \in 1 .. k
    OBVIOUS
  <2>3. f[k + 1] = b /\ \A i \in 1 .. k : f[i] = g[i] /\ f[i] \in F
    BY <1>1, <1>2, <2>1
  <2>4. \A i \in 1 .. k + 1 : (IF i = k + 1 THEN b ELSE g[i]) \in F \cup {b}
    BY <1>1, <2>2
  <2> QED
    BY <1>2, <2>3, <2>4
<1>4. \A i \in 1 .. k + 1 : i = k + 1 \/ i \in 1 .. k
  OBVIOUS
<1>5. \A i, j \in 1 .. k + 1 : f[i] = f[j] => i = j
  BY <1>1, <1>3, <1>4
<1>6. ASSUME NEW c \in F \cup {b} PROVE \E i \in 1 .. k + 1 : f[i] = c
  <2>1. CASE c = b
    <3>1. k + 1 \in 1 .. k + 1
      OBVIOUS
    <3> QED
      BY <1>3, <2>1, <3>1
  <2>2. CASE c # b
    <3>1. PICK i \in 1 .. k : g[i] = c
      BY <1>1, <2>2
    <3>2. i \in 1 .. k + 1
      OBVIOUS
    <3> QED
      BY <1>3, <3>1, <3>2
  <2> QED
    BY <2>1, <2>2
<1>7. k \in 1 .. k /\ 1 \in 1 .. k /\ g[k] \in F /\ g[1] \in F /\ k + 1 # 1
  BY <1>1
<1>8. /\ m2[b + 2] = g[k] /\ m2[b + 3] = g[1] /\ m2[g[k] + 3] = b /\ m2[g[1] + 2] = b
      /\ \A a \in Words : a # b + 2 /\ a # b + 3 /\ a # g[k] + 3 /\ a # g[1] + 2 => m2[a] = m[a]
  BY DEF Between
<1>9. \A c \in F : c \in F \cup {b} /\ c # b /\ c + 2 \in Words /\ c + 3 \in Words
  BY DEF Wide
<1>10. ASSUME NEW i \in 1 .. k + 1
       PROVE  m2[f[i] + 3] = f[Nxt(i, k + 1)] /\ m2[f[Nxt(i, k + 1)] + 2] = f[i]
  <2>1. CASE i = k + 1
    <3>1. Nxt(i, k + 1) = 1
      BY <2>1 DEF Nxt
    <3> QED
      BY <1>3, <1>7, <1>8, <2>1, <3>1
  <2>2. CASE i = k
    <3>1. Nxt(i, k + 1) = k + 1
      BY <2>2 DEF Nxt
    <3> QED
      BY <1>3, <1>7, <1>8, <2>2, <3>1
  <2>3. CASE i # k /\ i # k + 1
    <3>1. i \in 1 .. k /\ i + 1 \in 1 .. k /\ Nxt(i, k + 1) = i + 1 /\ i + 1 # 1
      BY <2>3 DEF Nxt
    <3>2. PICK c, d : c = g[i] /\ d = g[i + 1]
      OBVIOUS
    <3>3. c \in F /\ d \in F /\ c # g[k] /\ d # g[1]
      BY <1>1, <1>7, <2>3, <3>1, <3>2
    <3>4. c + 3 # b + 2 /\ c + 3 # b + 3 /\ c + 3 # g[k] + 3 /\ c + 3 # g[1] + 2
      <4>1. c \in F \cup {b} /\ b \in F \cup {b} /\ g[k] \in F \cup {b} /\ g[1] \in F \cup {b} /\ c # b
        BY <1>7, <1>9, <3>3
      <4> QED
        BY <3>3, <4>1, Distinct
    <3>5. d + 2 # b + 2 /\ d + 2 # b + 3 /\ d + 2 # g[k] + 3 /\ d + 2 # g[1] + 2
      <4>1. d \in F \cup {b} /\ b \in F \cup {b} /\ g[k] \in F \cup {b} /\ g[1] \in F \cup {b} /\ d # b
        BY <1>7, <1>9, <3>3
      <4> QED
        BY <3>3, <4>1, Distinct
    <3>6. m2[c + 3] = m[c + 3] /\ m2[d + 2] = m[d + 2]
      BY <1>8, <1>9, <3>3, <3>4, <3>5
    <3>7. m[c + 3] = d /\ m[d + 2] = c
      BY <1>1, <2>3, <3>1, <3>2
    <3>8. f[i] = c /\ f[i + 1] = d
      BY <1>3, <3>1, <3>2
    <3> QED
      BY <3>1, <3>6, <3>7, <3>8
  <2> QED
    BY <2>1, <2>2, <2>3
<1>11. Ring(f, k + 1, m2, F \cup {b})
  BY <1>3, <1>5, <1>6, <1>10 DEF Ring
<1> QED
  BY <1>11

(* A single block linked with itself, and no block.                        *)
LEMMA Single ==
    ASSUME NEW b, NEW m, m[b + 2] = b, m[b + 3] = b
    PROVE  \E f, t : Ring(f, t, m, {b})
<1>1. PICK f : f = [i \in 1 .. 1 |-> b]
  OBVIOUS
<1>2. f \in [1 .. 1 -> {b}] /\ f[1] = b /\ 1 \in 1 .. 1 /\ 1 \in Nat /\ \A i \in 1 .. 1 : i = 1
  BY <1>1
<1>3. Nxt(1, 1) = 1
  BY DEF Nxt
<1>4. Ring(f, 1, m, {b})
  BY <1>2, <1>3 DEF Ring
<1> QED
  BY <1>4

(* The empty list is a ring of no nodes.                                   *)
LEMMA NoRing ==
    ASSUME NEW m
    PROVE  Cycle(m, NULL, {})
<1>1. PICK f : f = [i \in 1 .. 0 |-> 0]
  OBVIOUS
<1>2. \A i \in 1 .. 0 : FALSE
  OBVIOUS
<1>3. f \in [1 .. 0 -> {}]
  BY <1>1, <1>2
<1>4. Ring(f, 0, m, {})
  BY <1>2, <1>3 DEF Ring
<1> QED
  BY <1>4 DEF Cycle

(* Writing the links around block b.                                       *)
LEMMA BetweenIs ==
    ASSUME NEW F, Wide(F), NEW p \in F, NEW b \in F, NEW n \in F, p = b <=> n = b,
           NEW m \in [Words -> WordValues], NEW m2,
           m2 = [m EXCEPT ![b + 2] = p, ![b + 3] = n, ![p + 3] = b, ![n + 2] = b]
    PROVE  Between(m, p, b, n, m2) /\ Links(F, m, m2)
<1>1. /\ b + 2 \in Words /\ b + 3 \in Words /\ p + 3 \in Words /\ n + 2 \in Words
      /\ p \in WordValues /\ b \in WordValues /\ n \in WordValues
  BY DEF Wide, WordValues
<1>2. /\ b + 2 # b + 3 /\ b + 2 # p + 3 /\ b + 3 # n + 2 /\ p + 3 # n + 2
      /\ p # b => b + 3 # p + 3
      /\ n # b => b + 2 # n + 2
  BY Distinct
<1>3. m2 \in [Words -> WordValues]
  BY <1>1
<1>4. \A a \in Words : m2[a] = IF a = n + 2 THEN b ELSE IF a = p + 3 THEN b
                               ELSE IF a = b + 3 THEN n ELSE IF a = b + 2 THEN p ELSE m[a]
  BY <1>1
<1>5. Between(m, p, b, n, m2)
  BY <1>1, <1>2, <1>4 DEF Between
<1>6. Links(F, m, m2)
  BY <1>3, <1>4 DEF Links
<1> QED
  BY <1>5, <1>6

(* Words that are no links of F are the same in two steps of relinking.    *)
LEMMA LinksMore ==
    ASSUME NEW F, NEW G, F \subseteq G, NEW m, NEW m2, Links(F, m, m2)
    PROVE  Links(G, m, m2)
  BY DEF Links

(* Block b of the list of m with head q is out of that of m2 with q2.      *)
Removes(m, q, b, m2, q2) ==
    /\ m[b + 3] = b => m2 = m /\ q2 = NULL
    /\ m[b + 3] # b => /\ m2 = [m EXCEPT ![m[b + 2] + 3] = m[b + 3], ![m[b + 3] + 2] = m[b + 2]]
                       /\ q2 = IF q = b THEN m[b + 3] ELSE q

(* Taking a block out of the list.                                         *)
LEMMA UnlinkIs ==
    ASSUME NEW m, NEW q, NEW b
    PROVE  \E m2, q2 : /\ Listed!Unlink([mem |-> m, head |-> q], b) = [mem |-> m2, head |-> q2]
                       /\ Removes(m, q, b, m2, q2)
<1> DEFINE u == Listed!Unlink([mem |-> m, head |-> q], b)
<1>1. CASE m[b + 3] = b
  <2>1. u = [mem |-> m, head |-> NULL]
    BY <1>1 DEF Listed!Unlink, Listed!PrevOf, Listed!NextOf, Listed!NULL, NULL
  <2> QED
    BY <1>1, <2>1 DEF Removes
<1>2. CASE m[b + 3] # b
  <2>1. u = [mem |-> [m EXCEPT ![m[b + 2] + 3] = m[b + 3], ![m[b + 3] + 2] = m[b + 2]],
             head |-> IF q = b THEN m[b + 3] ELSE q]
    BY <1>2 DEF Listed!Unlink, Listed!PrevOf, Listed!NextOf
  <2> QED
    BY <1>2, <2>1 DEF Removes
<1> QED
  BY <1>1, <1>2

(* The list of G, from q2 in m2, that unlinking block b makes.             *)
ByUnlink(F, b, m, q, m2, q2, G) ==
    /\ Listed!Unlink([mem |-> m, head |-> q], b) = [mem |-> m2, head |-> q2]
    /\ G = F \ {b} /\ Cycle(m2, q2, G) /\ Links(G, m, m2)

(* Unlink takes a node out of the ring and leaves one of the others.       *)
LEMMA Unlinked ==
    ASSUME NEW F, Wide(F), NEW m \in [Words -> WordValues], NEW q, Cycle(m, q, F), NEW b \in F
    PROVE  \E m2, q2, G : ByUnlink(F, b, m, q, m2, q2, G)
<1>1. PICK m2, q2 : /\ Listed!Unlink([mem |-> m, head |-> q], b) = [mem |-> m2, head |-> q2]
                    /\ Removes(m, q, b, m2, q2)
  BY UnlinkIs, Zenon
<1>2. PICK k, f : Ring(f, k, m, F) /\ k \in Nat /\ k >= 1 /\ f[k] = b
  <2>1. \E k, f : Ends(f, k, m, F, b)
    BY LastIs, Zenon
  <2> QED
    BY <2>1, Zenon DEF Ends
<1>3. PICK t \in Nat : t = k - 1 /\ k # 0
  BY <1>2
<1>4. PICK g, G : G = F \ {f[k]} /\ Path(g, t, m, G) /\ \A i \in 1 .. t : g[i] = f[i]
  BY <1>2, <1>3, DropLast
<1>5. G = F \ {b}
  BY <1>2, <1>4
<1>6. /\ f \in [1 .. k -> F] /\ k \in 1 .. k /\ 1 \in 1 .. k
      /\ \A i, j \in 1 .. k : f[i] = f[j] => i = j
      /\ \A i \in 1 .. k : m[f[i] + 3] = f[Nxt(i, k)] /\ m[f[Nxt(i, k)] + 2] = f[i]
  BY <1>2 DEF Ring
<1>7. Nxt(k, k) = 1 /\ m[b + 3] = f[1]
  BY <1>2, <1>6 DEF Nxt
<1>8. CASE k = 1
  <2>1. m2 = m /\ q2 = NULL
    BY <1>1, <1>2, <1>7, <1>8 DEF Removes
  <2>2. G = {}
    BY <1>5, <1>2, <1>8 DEF Ring
  <2>3. Links(G, m, m2)
    BY <2>1 DEF Links
  <2> QED
    BY <1>5, <1>1, <2>1, <2>2, <2>3, NoRing DEF ByUnlink
<1>9. CASE k # 1
  <2>1. t # 0 /\ t \in 1 .. k /\ 1 \in 1 .. t /\ t \in 1 .. t /\ t # k /\ Nxt(t, k) = k
    BY <1>2, <1>3, <1>9 DEF Nxt
  <2>2. g[t] = f[t] /\ g[1] = f[1] /\ m[b + 2] = f[t]
    BY <1>2, <1>4, <1>6, <2>1
  <2>3. PICK p, n : p = f[t] /\ n = f[1]
    OBVIOUS
  <2>4. p \in F /\ n \in F /\ n # b /\ p # b
    BY <1>2, <1>6, <1>9, <2>1, <2>3
  <2>5. m2 = [m EXCEPT ![p + 3] = n, ![n + 2] = p] /\ q2 = IF q = b THEN n ELSE q
    BY <1>1, <1>7, <2>2, <2>3, <2>4 DEF Removes
  <2>6. /\ p + 3 \in Words /\ n + 2 \in Words /\ p \in WordValues /\ n \in WordValues /\ p + 3 # n + 2
    BY <2>4, Distinct DEF Wide, WordValues
  <2>7. /\ m2 \in [Words -> WordValues] /\ m2[p + 3] = n /\ m2[n + 2] = p
        /\ \A a \in Words : a # p + 3 /\ a # n + 2 => m2[a] = m[a]
    BY <2>5, <2>6
  <2>8. Wide(G) /\ p \in G /\ n \in G
    BY <1>5, <2>4 DEF Wide
  <2>9. Links(G, m, m2)
    BY <2>7, <2>8 DEF Links
  <2>10. Ring(g, t, m2, G)
    BY <1>4, <2>1, <2>2, <2>3, <2>7, <2>8, Close
  <2>11. q \in F
    BY DEF Cycle
  <2>12. q2 \in G /\ G # {}
    BY <1>5, <2>5, <2>8, <2>11
  <2>13. Cycle(m2, q2, G)
    BY <2>10, <2>12 DEF Cycle
  <2> QED
    BY <1>5, <1>1, <2>9, <2>13 DEF ByUnlink
<1> QED
  BY <1>8, <1>9

(* Putting a block at the head of the list.                                *)
LEMMA PushIs ==
    ASSUME NEW m, NEW q, NEW b
    PROVE  \E m2, p, n :
             /\ Listed!Push([mem |-> m, head |-> q], b) = [mem |-> m2, head |-> b]
             /\ m2 = [m EXCEPT ![b + 2] = p, ![b + 3] = n, ![p + 3] = b, ![n + 2] = b]
             /\ q = NULL => p = b /\ n = b
             /\ q # NULL => p = m[q + 2] /\ n = q
<1>1. PICK p, n : p = (IF q = NULL THEN b ELSE m[q + 2]) /\ n = IF q = NULL THEN b ELSE q
  OBVIOUS
<1>2. Listed!Push([mem |-> m, head |-> q], b)
        = [mem |-> [m EXCEPT ![b + 2] = p, ![b + 3] = n, ![p + 3] = b, ![n + 2] = b], head |-> b]
  BY <1>1 DEF Listed!Push, Listed!PrevOf, Listed!NULL, NULL
<1> QED
  BY <1>1, <1>2

(* The list of G, from q2 in m2, that pushing block b makes.               *)
ByPush(F, b, m, q, m2, q2, G) ==
    /\ Listed!Push([mem |-> m, head |-> q], b) = [mem |-> m2, head |-> q2]
    /\ G = F \cup {b} /\ Cycle(m2, q2, G) /\ Links(G, m, m2)

(* Block b can join the list of F.                                         *)
Joins(F, b, m, q) == /\ b \notin F /\ Wide(F \cup {b})
                     /\ m \in [Words -> WordValues] /\ Cycle(m, q, F)

(* Push makes a block the first of the ring.                               *)
LEMMA Pushed ==
    ASSUME NEW F, NEW b, NEW m, NEW q, Joins(F, b, m, q)
    PROVE  \E m2, q2, G : ByPush(F, b, m, q, m2, q2, G)
<1>0. /\ b \notin F /\ Wide(F \cup {b})
      /\ m \in [Words -> WordValues] /\ Cycle(m, q, F)
  BY DEF Joins
<1> USE <1>0
<1>1. PICK m2, p, n :
             /\ Listed!Push([mem |-> m, head |-> q], b) = [mem |-> m2, head |-> b]
             /\ m2 = [m EXCEPT ![b + 2] = p, ![b + 3] = n, ![p + 3] = b, ![n + 2] = b]
             /\ q = NULL => p = b /\ n = b
             /\ q # NULL => p = m[q + 2] /\ n = q
  BY PushIs, Zenon
<1>2. PICK G : G = F \cup {b}
  OBVIOUS
<1>3. Wide(G) /\ b \in G /\ G # {}
  BY <1>2
<1>4. CASE F = {}
  <2>1. q = NULL
    BY <1>4 DEF Cycle
  <2>2. p = b /\ n = b /\ G = {b}
    BY <1>1, <1>2, <1>4, <2>1
  <2>3. Between(m, p, b, n, m2) /\ Links(G, m, m2)
    BY <1>1, <1>3, <2>2, BetweenIs
  <2>4. \E f, t : Ring(f, t, m2, {b})
    BY <2>2, <2>3, Single DEF Between
  <2>5. Cycle(m2, b, G)
    BY <1>3, <2>2, <2>4 DEF Cycle
  <2> QED
    BY <1>1, <1>2, <2>3, <2>5 DEF ByPush
<1>5. CASE F # {}
  <2>1. q \in F /\ q # NULL
    BY <1>5 DEF Cycle, Wide, NULL
  <2>2. PICK k, f : Ring(f, k, m, F) /\ k \in Nat /\ k >= 1 /\ f[1] = q
    <3>1. \E k, f : Begins(f, k, m, F, q)
      BY <2>1, FirstIs, Zenon
    <3> QED
      BY <3>1, Zenon DEF Begins
  <2>3. Path(f, k, m, F) /\ k # 0
    BY <2>2, RingPath
  <2>4. m[q + 2] = f[k] /\ f[k] \in F
    <3>1. k \in 1 .. k /\ Nxt(k, k) = 1
      BY <2>2 DEF Nxt
    <3> QED
      BY <2>2, <3>1 DEF Ring
  <2>5. p = f[k] /\ n = f[1] /\ p \in G /\ n \in G /\ p # b /\ n # b
    BY <1>1, <1>2, <2>1, <2>2, <2>4
  <2>6. Between(m, p, b, n, m2) /\ Links(G, m, m2)
    BY <1>1, <1>3, <2>5, BetweenIs
  <2>7. \E g, t : Ring(g, t, m2, F \cup {b})
    BY <2>2, <2>3, <2>5, <2>6, Insert
  <2>8. Cycle(m2, b, G)
    BY <1>2, <1>3, <2>7 DEF Cycle
  <2> QED
    BY <1>1, <1>2, <2>6, <2>8 DEF ByPush
<1> QED
  BY <1>4, <1>5

(* Block d has the place of block b of the list of m with head q in that   *)
(* of m2 with q2.                                                          *)
Swaps(m, q, b, d, m2, q2) ==
    /\ m[b + 3] = b => m2 = [m EXCEPT ![d + 2] = d, ![d + 3] = d]
    /\ m[b + 3] # b => m2 = [m EXCEPT ![d + 2] = m[b + 2], ![d + 3] = m[b + 3],
                                      ![m[b + 2] + 3] = d, ![m[b + 3] + 2] = d]
    /\ q2 = IF q = b THEN d ELSE q

(* Putting a block in the place of another one.                            *)
LEMMA ReplaceIs ==
    ASSUME NEW m, NEW q, NEW b, NEW d
    PROVE  \E m2, q2 :
             /\ Listed!Replace([mem |-> m, head |-> q], b, d) = [mem |-> m2, head |-> q2]
             /\ Swaps(m, q, b, d, m2, q2)
<1>1. PICK m2, q2 :
         /\ m2 = (IF m[b + 3] = b THEN [m EXCEPT ![d + 2] = d, ![d + 3] = d]
                  ELSE [m EXCEPT ![d + 2] = m[b + 2], ![d + 3] = m[b + 3],
                                 ![m[b + 2] + 3] = d, ![m[b + 3] + 2] = d])
         /\ q2 = IF q = b THEN d ELSE q
  OBVIOUS
<1>2. Listed!Replace([mem |-> m, head |-> q], b, d) = [mem |-> m2, head |-> q2]
  BY <1>1 DEF Listed!Replace, Listed!PrevOf, Listed!NextOf
<1>3. Swaps(m, q, b, d, m2, q2)
  BY <1>1 DEF Swaps
<1> QED
  BY <1>2, <1>3

(* The list of G, from q2 in m2, that replacing block b by d makes.        *)
ByReplace(F, b, d, m, q, m2, q2, G) ==
    /\ Listed!Replace([mem |-> m, head |-> q], b, d) = [mem |-> m2, head |-> q2]
    /\ G = (F \ {b}) \cup {d} /\ Cycle(m2, q2, G) /\ Links(G, m, m2)

(* Block d can have the place of block b in the list of F.                 *)
Replaces(F, b, d, m, q) ==
    /\ b \in F /\ d \notin F /\ Wide(F) /\ Wide((F \ {b}) \cup {d})
    /\ m \in [Words -> WordValues] /\ Cycle(m, q, F)

(* Replace puts a block where another was in the ring.                     *)
LEMMA Replaced ==
    ASSUME NEW F, NEW b, NEW d, NEW m, NEW q, Replaces(F, b, d, m, q)
    PROVE  \E m2, q2, G : ByReplace(F, b, d, m, q, m2, q2, G)
<1>0. /\ b \in F /\ d \notin F /\ Wide(F) /\ Wide((F \ {b}) \cup {d})
      /\ m \in [Words -> WordValues] /\ Cycle(m, q, F)
  BY DEF Replaces
<1> USE <1>0
<1>1. PICK m2, q2 :
             /\ Listed!Replace([mem |-> m, head |-> q], b, d) = [mem |-> m2, head |-> q2]
             /\ Swaps(m, q, b, d, m2, q2)
  BY ReplaceIs, Zenon
<1>2. PICK k, f : Ring(f, k, m, F) /\ k \in Nat /\ k >= 1 /\ f[k] = b
  <2>1. \E k, f : Ends(f, k, m, F, b)
    BY LastIs, Zenon
  <2> QED
    BY <2>1, Zenon DEF Ends
<1>3. PICK t \in Nat : t = k - 1 /\ k # 0
  BY <1>2
<1>4. PICK g, E : E = F \ {f[k]} /\ Path(g, t, m, E) /\ \A i \in 1 .. t : g[i] = f[i]
  BY <1>2, <1>3, DropLast
<1>5. PICK G : G = E \cup {d}
  OBVIOUS
<1>6. E = F \ {b} /\ G = (F \ {b}) \cup {d} /\ d \notin E /\ d \in G /\ Wide(G) /\ Wide(E \cup {d})
  <2>1. E = F \ {b}
    BY <1>2, <1>4
  <2>2. G = (F \ {b}) \cup {d} /\ d \notin E /\ d \in G
    BY <1>5, <2>1
  <2>3. Wide(G)
    BY <2>2, Zenon
  <2> QED
    BY <1>5, <2>1, <2>2, <2>3, Zenon
<1>7. /\ f \in [1 .. k -> F] /\ k \in 1 .. k /\ 1 \in 1 .. k
      /\ \A i, j \in 1 .. k : f[i] = f[j] => i = j
      /\ \A c \in F : \E i \in 1 .. k : f[i] = c
      /\ \A i \in 1 .. k : m[f[i] + 3] = f[Nxt(i, k)] /\ m[f[Nxt(i, k)] + 2] = f[i]
  BY <1>2 DEF Ring
<1>8. Nxt(k, k) = 1 /\ m[b + 3] = f[1]
  BY <1>2, <1>7 DEF Nxt
<1>9. q2 \in G /\ G # {}
  <2>1. q \in F
    BY DEF Cycle
  <2> QED
    BY <1>1, <1>6, <2>1 DEF Swaps
<1>10. CASE k = 1
  <2>1. m2 = [m EXCEPT ![d + 2] = d, ![d + 3] = d]
    BY <1>1, <1>2, <1>8, <1>10 DEF Swaps
  <2>2. G = {d}
    BY <1>2, <1>6, <1>7, <1>10
  <2>3. d + 2 \in Words /\ d + 3 \in Words /\ d + 2 # d + 3 /\ d \in WordValues
    BY <1>6 DEF Wide, WordValues
  <2>4. m2[d + 2] = d /\ m2[d + 3] = d
    BY <2>1, <2>3
  <2>5. Links(G, m, m2)
    BY <2>1, <2>2, <2>3 DEF Links
  <2>6. \E h, i : Ring(h, i, m2, {d})
    BY <2>4, Single
  <2>7. Cycle(m2, q2, G)
    BY <1>9, <2>2, <2>6 DEF Cycle
  <2> QED
    BY <1>1, <1>6, <2>5, <2>7 DEF ByReplace
<1>11. CASE k # 1
  <2>1. t # 0 /\ t \in 1 .. k /\ 1 \in 1 .. t /\ t \in 1 .. t /\ t # k /\ Nxt(t, k) = k
    BY <1>2, <1>3, <1>11 DEF Nxt
  <2>2. g[t] = f[t] /\ g[1] = f[1] /\ m[b + 2] = f[t]
    BY <1>2, <1>4, <1>7, <2>1
  <2>3. PICK p, n : p = g[t] /\ n = g[1]
    OBVIOUS
  <2>4. p \in F /\ n \in F /\ n # b /\ p # b
    BY <1>2, <1>7, <1>11, <2>1, <2>2, <2>3
  <2>5. p \in G /\ n \in G /\ p # d /\ n # d
    BY <1>6, <2>4
  <2>6. m2 = [m EXCEPT ![d + 2] = p, ![d + 3] = n, ![p + 3] = d, ![n + 2] = d]
    BY <1>1, <1>8, <2>2, <2>3, <2>4 DEF Swaps
  <2>7. Between(m, p, d, n, m2) /\ Links(G, m, m2)
    BY <1>6, <2>5, <2>6, BetweenIs
  <2>8. \E h, i : Ring(h, i, m2, E \cup {d})
    BY <1>4, <1>6, <2>1, <2>3, <2>7, Insert
  <2>9. Cycle(m2, q2, G)
    BY <1>5, <1>9, <2>8 DEF Cycle
  <2> QED
    BY <1>1, <1>6, <2>7, <2>9 DEF ByReplace
<1> QED
  BY <1>10, <1>11

(* Counting modulo k.                                                      *)
LEMMA ModStep ==
    ASSUME NEW k \in Nat, k # 0, NEW j \in Nat
    PROVE  /\ j % k \in 0 .. k - 1
           /\ (j + 1) % k = IF j % k = k - 1 THEN 0 ELSE (j % k) + 1
<1>1. j % k \in 0 .. k - 1
  OBVIOUS
<1>2. PICK q, p, r, t : q = j \div k /\ p = (j + 1) \div k /\ r = j % k /\ t = (j + 1) % k
  OBVIOUS
<1>3. q \in Int /\ p \in Int /\ r \in 0 .. k - 1 /\ t \in 0 .. k - 1 /\ j = k * q + r /\ j + 1 = k * p + t
  BY <1>2, SMTT(30)
<1>4. PICK d \in Int : d = p - q
  BY <1>3
<1>5. k * d = 1 + r - t
  BY <1>3, <1>4, SMTT(30)
<1>6. d < 2
  <2>1. ASSUME d >= 2 PROVE FALSE
    <3>1. k * d >= 2 * k
      BY <2>1, SMTT(30)
    <3> QED
      BY <1>3, <1>5, <3>1
  <2> QED
    BY <2>1
<1>7. d >= 0
  <2>1. ASSUME d <= -1 PROVE FALSE
    <3>1. k * d <= -k
      BY <2>1, SMTT(30)
    <3> QED
      BY <1>3, <1>5, <3>1
  <2> QED
    BY <2>1
<1>8. CASE d = 0
  <2>1. t = r + 1 /\ r # k - 1
    BY <1>3, <1>5, <1>8
  <2> QED
    BY <1>1, <1>2, <2>1
<1>9. CASE d = 1
  <2>1. t = 0 /\ r = k - 1
    BY <1>3, <1>5, <1>9
  <2> QED
    BY <1>1, <1>2, <2>1
<1> QED
  BY <1>6, <1>7, <1>8, <1>9

(* The nodes met from q on, in this module's terms.                        *)
IsNode(f, m, q) == f = [k \in Nat |-> IF k = 0 THEN q ELSE m[f[k - 1] + 3]]
NodeOf(m, q) == CHOOSE f : IsNode(f, m, q)

(* The nodes met from HEAD, as that function.                              *)
LEMMA NodeIs == Listed!Node = NodeOf(mem, HEAD)
  BY DEF Listed!Node, Listed!NextOf, NodeOf, IsNode

(* They are the blocks of the cycle, in its order.                         *)
LEMMA NodesOf ==
    ASSUME NEW f, NEW k \in Nat, k # 0, NEW m, NEW F, Ring(f, k, m, F), NEW N, N = NodeOf(m, f[1])
    PROVE  \A j \in Nat : N[j] \in F /\ (j < k => N[j] = f[j + 1])
<1>1. /\ f \in [1 .. k -> F] /\ k \in 1 .. k /\ 1 \in 1 .. k
      /\ \A b \in F : \E i \in 1 .. k : f[i] = b
      /\ \A i \in 1 .. k : m[f[i] + 3] = f[Nxt(i, k)]
  BY DEF Ring
<1>2. \A i \in 1 .. k : Nxt(i, k) \in 1 .. k
  BY DEF Nxt
<1>3. \E g : IsNode(g, m, f[1])
  <2>1. PICK g : g = [j \in Nat |-> f[(j % k) + 1]]
    OBVIOUS
  <2>2. ASSUME NEW j \in Nat PROVE g[j] = IF j = 0 THEN f[1] ELSE m[g[j - 1] + 3]
    <3>1. g[j] = f[(j % k) + 1]
      BY <2>1
    <3>2. CASE j = 0
      <4>1. 0 % k = 0
        OBVIOUS
      <4> QED
        BY <3>1, <3>2, <4>1
    <3>3. CASE j # 0
      <4>1. PICK i \in Nat : i = j - 1 /\ j = i + 1
        BY <3>3
      <4>2. PICK r : r = i % k
        OBVIOUS
      <4>3. r \in 0 .. k - 1 /\ j % k = IF r = k - 1 THEN 0 ELSE r + 1
        BY <4>1, <4>2, ModStep
      <4>4. r + 1 \in 1 .. k /\ (j % k) + 1 = Nxt(r + 1, k)
        BY <4>3 DEF Nxt
      <4>5. g[i] = f[r + 1]
        BY <2>1, <4>2
      <4>6. m[f[r + 1] + 3] = f[Nxt(r + 1, k)]
        BY <1>1, <4>4
      <4> QED
        BY <3>1, <3>3, <4>1, <4>4, <4>5, <4>6
    <3> QED
      BY <3>2, <3>3
  <2>3. IsNode(g, m, f[1])
    BY <2>1, <2>2, Zenon DEF IsNode
  <2> QED
    BY <2>3
<1>4. IsNode(N, m, f[1])
  BY <1>3 DEF NodeOf
<1>5. N[0] = f[1] /\ \A j \in Nat : N[j + 1] = m[N[j] + 3]
  <2>1. \A j \in Nat : N[j] = IF j = 0 THEN f[1] ELSE m[N[j - 1] + 3]
    BY <1>4 DEF IsNode
  <2>2. N[0] = f[1]
    BY <2>1
  <2>3. ASSUME NEW j \in Nat PROVE N[j + 1] = m[N[j] + 3]
    <3>1. j + 1 \in Nat /\ j + 1 # 0 /\ (j + 1) - 1 = j
      OBVIOUS
    <3>2. N[j + 1] = m[N[(j + 1) - 1] + 3]
      BY <2>1, <3>1
    <3> QED
      BY <3>1, <3>2
  <2> QED
    BY <2>2, <2>3
<1>6. ASSUME NEW c \in F PROVE m[c + 3] \in F
  <2>1. PICK i \in 1 .. k : f[i] = c
    BY <1>1
  <2>2. m[c + 3] = f[Nxt(i, k)]
    BY <1>1, <2>1
  <2> QED
    BY <1>1, <1>2, <2>2
<1> DEFINE T == {j \in Nat : N[j] \in F /\ (j < k => N[j] = f[j + 1])}
<1>7. 0 \in T
  <2>1. N[0] \in F /\ N[0] = f[0 + 1] /\ 0 \in Nat
    BY <1>1, <1>5
  <2> QED
    BY <2>1
<1>8. ASSUME NEW j \in Nat, j \in T PROVE j + 1 \in T
  <2>1. N[j + 1] \in F
    BY <1>5, <1>6, <1>8
  <2>2. ASSUME j + 1 < k PROVE N[j + 1] = f[j + 2]
    <3>1. N[j] = f[j + 1] /\ j + 1 \in 1 .. k /\ Nxt(j + 1, k) = j + 2
      BY <1>8, <2>2 DEF Nxt
    <3> QED
      BY <1>1, <1>5, <3>1
  <2>3. j + 1 + 1 = j + 2 /\ j + 1 \in Nat
    OBVIOUS
  <2> QED
    BY <2>1, <2>2, <2>3
<1>9. Nat \subseteq T
  <2> HIDE DEF T
  <2> QED
    BY <1>7, <1>8, AllOf
<1> QED
  BY <1>9

(* The free blocks, and blocks with room for two links each.               *)
FreeIn(H, m) == {c \in H : m[c + 1] = 0}
Roomy(H, m) == \A c \in H : m[c] >= 2

(* The search ends at a block of the list that fits.                       *)
LEMMA FirstFitIs ==
    ASSUME NEW F, Cycle(mem, HEAD, F), NEW r, Listed!Hits(r) # {}
    PROVE  Listed!FirstFit(r) \in F /\ mem[Listed!FirstFit(r)] >= r
<1>1. PICK t \in Listed!Hits(r) : Listed!FirstFit(r) = Listed!Node[t]
  <2>1. Listed!Hits(r) \subseteq Nat
    BY DEF Listed!Hits
  <2>2. \E t \in Listed!Hits(r) : \A j \in Listed!Hits(r) : t <= j
    BY <2>1, LeastOf
  <2> QED
    BY <2>2, Zenon DEF Listed!FirstFit
<1>2. t \in Nat /\ HEAD # NULL /\ mem[Listed!Node[t]] >= r
  BY <1>1 DEF Listed!Hits, Listed!Reaches, Listed!BlockSize, Listed!NULL, NULL
<1>3. HEAD \in F
  BY <1>2 DEF Cycle
<1>4. PICK k, f : Ring(f, k, mem, F) /\ k \in Nat /\ k >= 1 /\ f[1] = HEAD
  <2>1. \E k, f : Begins(f, k, mem, F, HEAD)
    BY <1>3, FirstIs, Zenon
  <2> QED
    BY <2>1, Zenon DEF Begins
<1>5. PICK N : N = NodeOf(mem, f[1])
  OBVIOUS
<1>6. Listed!Node = N
  BY <1>4, <1>5, NodeIs
<1>7. k # 0
  BY <1>4
<1>8. N[t] \in F
  BY <1>2, <1>4, <1>5, <1>7, NodesOf
<1> QED
  BY <1>1, <1>2, <1>6, <1>8

(* The nodes from the head on are the blocks of the cycle.                 *)
LEMMA CycleIs ==
    ASSUME NEW F, Cycle(mem, HEAD, F), F # {}
    PROVE  /\ HEAD \in F
           /\ \A b \in F : mem[b + 3] \in F /\ mem[mem[b + 3] + 2] = b
           /\ F = {Listed!Node[k] : k \in 0 .. Cardinality(F) - 1}
<1>1. HEAD \in F
  BY DEF Cycle
<1>2. PICK k, f : Ring(f, k, mem, F) /\ k \in Nat /\ k >= 1 /\ f[1] = HEAD
  <2>1. \E k, f : Begins(f, k, mem, F, HEAD)
    BY <1>1, FirstIs, Zenon
  <2> QED
    BY <2>1, Zenon DEF Begins
<1>3. /\ f \in [1 .. k -> F]
      /\ \A i, j \in 1 .. k : f[i] = f[j] => i = j
      /\ \A b \in F : \E i \in 1 .. k : f[i] = b
      /\ \A i \in 1 .. k : mem[f[i] + 3] = f[Nxt(i, k)] /\ mem[f[Nxt(i, k)] + 2] = f[i]
  BY <1>2 DEF Ring
<1>4. ASSUME NEW b \in F PROVE mem[b + 3] \in F /\ mem[mem[b + 3] + 2] = b
  <2>1. PICK i \in 1 .. k : f[i] = b
    BY <1>3
  <2>2. Nxt(i, k) \in 1 .. k
    BY <1>2 DEF Nxt
  <2>3. mem[b + 3] = f[Nxt(i, k)] /\ mem[f[Nxt(i, k)] + 2] = b
    BY <1>3, <2>1
  <2> QED
    BY <1>3, <2>2, <2>3
<1>5. Cardinality(F) = k
  <2>1. f \in Bijection(1 .. k, F)
    BY <1>3 DEF Bijection, Injection, Surjection, IsInjective
  <2>2. ExistsBijection(1 .. k, F)
    BY <2>1, Zenon DEF ExistsBijection
  <2> QED
    BY <1>2, <2>2, FS_CountingElements
<1>6. PICK N : N = NodeOf(mem, f[1])
  OBVIOUS
<1>7. Listed!Node = N /\ k # 0
  BY <1>2, <1>6, NodeIs
<1>8. \A j \in Nat : j < k => N[j] = f[j + 1]
  BY <1>2, <1>6, <1>7, NodesOf
<1>9. ASSUME NEW b \in F PROVE \E j \in 0 .. k - 1 : N[j] = b
  <2>1. PICK i \in 1 .. k : f[i] = b
    BY <1>3
  <2>2. PICK j : j = i - 1
    OBVIOUS
  <2>3. j \in 0 .. k - 1 /\ j \in Nat /\ j < k /\ j + 1 = i
    BY <1>2, <2>2
  <2>4. N[j] = f[j + 1]
    BY <1>8, <2>3
  <2> QED
    BY <2>1, <2>3, <2>4
<1>10. ASSUME NEW j \in 0 .. k - 1 PROVE N[j] \in F
  <2>1. j \in Nat /\ j < k /\ j + 1 \in 1 .. k
    BY <1>2
  <2> QED
    BY <1>3, <1>8, <2>1
<1>11. F = {N[j] : j \in 0 .. k - 1}
  BY <1>9, <1>10
<1> QED
  BY <1>1, <1>4, <1>5, <1>7, <1>11

(* Blocks of a chain with room for two links each.                         *)
LEMMA FreeWide ==
    ASSUME NEW s \in Nat, 1 <= s, NEW l \in Nat, NEW m, NEW H, Chain(H, m, s, l, 3), Roomy(H, m),
           s .. l - 1 \subseteq Words, NEW G, G \subseteq H
    PROVE  Wide(G)
<1>1. ASSUME NEW c \in G PROVE c \in Nat /\ c >= 1 /\ c + 2 \in Words /\ c + 3 \in Words
  <2>1. c \in Nat /\ s <= c /\ m[c] \in Nat /\ c + 3 + m[c] <= l /\ m[c] >= 2
    BY ChainFacts DEF Roomy
  <2>2. c >= 1 /\ c + 2 \in s .. l - 1 /\ c + 3 \in s .. l - 1
    BY <2>1
  <2> QED
    BY <2>1, <2>2
<1>2. ASSUME NEW c \in G, NEW d \in G, c < d PROVE c + 5 <= d
  <2>1. c \in Nat /\ d \in Nat /\ m[c] \in Nat /\ m[c] >= 2 /\ c + 3 + m[c] <= d
    BY <1>1, <1>2 DEF Chain, Roomy
  <2> QED
    BY <2>1
<1> QED
  BY <1>1, <1>2 DEF Wide

(* m2 differs from m in payload words of free blocks of H at most.         *)
Inside(H, m, m2) ==
    /\ m2 \in [Words -> WordValues]
    /\ \A a \in Words : m2[a] # m[a] =>
         \E c \in H : m[c + 1] = 0 /\ c + 2 <= a /\ a <= c + 1 + m[c]

(* Such a change leaves the heap as it is.                                 *)
LEMMA Relinked ==
    ASSUME NEW s \in Nat, NEW l \in Nat, NEW H, NEW m, NEW hd, Heaped(H, m, s, l, hd),
           s .. l - 1 \subseteq Words, NEW m2, Inside(H, m, m2)
    PROVE  /\ Heaped(H, m2, s, l, hd) /\ m2 \in [Words -> WordValues]
           /\ \A c \in H : m2[c] = m[c] /\ m2[c + 1] = m[c + 1]
           /\ FreeIn(H, m2) = FreeIn(H, m)
<1>1. /\ Chain(H, m, s, l, 3) /\ Footed(H, m) /\ Apart(H, m, l)
      /\ DOMAIN hd = Owned(H, m) /\ \A b \in H : Sound(b, m, hd)
  BY DEF Heaped, Laid
<1>2. \A c \in H : /\ c \in Nat /\ s <= c /\ c < l /\ m[c] \in Nat
                   /\ c + 3 + m[c] \in H \cup {l} /\ c + 3 + m[c] <= l
  BY <1>1, ChainFacts
<1>3. \A b, c \in H : b < c => b + 3 + m[b] <= c
  BY <1>1 DEF Chain
<1>4. ASSUME NEW e \in H, NEW a \in Nat, e <= a, a < e + 3 + m[e],
             m[e + 1] # 0 \/ a < e + 2 \/ a = e + 2 + m[e]
      PROVE  m2[a] = m[a]
  <2>1. e \in Nat /\ s <= e /\ m[e] \in Nat /\ e + 3 + m[e] <= l
    BY <1>2
  <2>2. a \in Words
    <3>1. a \in s .. l - 1
      BY <1>4, <2>1
    <3> QED
      BY <3>1
  <2>3. ASSUME NEW c \in H, m[c + 1] = 0, c + 2 <= a, a <= c + 1 + m[c] PROVE FALSE
    <3>1. c \in Nat /\ m[c] \in Nat
      BY <1>2
    <3>2. CASE c < e
      <4>1. c + 3 + m[c] <= e
        BY <1>3, <3>2
      <4> QED
        BY <1>4, <2>1, <2>3, <3>1, <4>1
    <3>3. CASE e < c
      <4>1. e + 3 + m[e] <= c
        BY <1>3, <3>3
      <4> QED
        BY <1>4, <2>1, <2>3, <3>1, <4>1
    <3>4. CASE c = e
      BY <1>4, <2>1, <2>3, <3>4
    <3> QED
      BY <2>1, <3>1, <3>2, <3>3, <3>4
  <2> QED
    BY <2>2, <2>3 DEF Inside
<1>5. ASSUME NEW c \in H
      PROVE  m2[c] = m[c] /\ m2[c + 1] = m[c + 1] /\ m2[c + 2 + m[c]] = m[c + 2 + m[c]] /\ Same(c, m, m2)
  <2>1. c \in Nat /\ m[c] \in Nat
    BY <1>2
  <2>2. m2[c] = m[c]
    BY <1>4, <2>1
  <2>3. m2[c + 1] = m[c + 1]
    <3>1. c + 1 \in Nat /\ c <= c + 1 /\ c + 1 < c + 3 + m[c] /\ c + 1 < c + 2
      BY <2>1
    <3> QED
      BY <1>4, <3>1
  <2>4. m2[c + 2 + m[c]] = m[c + 2 + m[c]]
    <3>1. c + 2 + m[c] \in Nat /\ c <= c + 2 + m[c] /\ c + 2 + m[c] < c + 3 + m[c]
      BY <2>1
    <3> QED
      BY <1>4, <3>1
  <2>5. ASSUME m[c + 1] # 0, NEW a \in c + 2 .. c + 1 + m[c] PROVE m2[a] = m[a]
    <3>1. a \in Nat /\ c <= a /\ a < c + 3 + m[c]
      BY <2>1, <2>5
    <3> QED
      BY <1>4, <2>5, <3>1
  <2> QED
    BY <2>2, <2>3, <2>4, <2>5 DEF Same
<1>6. Chain(H, m2, s, l, 3)
  <2>1. \A b \in H : m2[b] \in Nat /\ b + 3 + m2[b] \in H \cup {l}
    BY <1>2, <1>5
  <2>2. \A b, c \in H : b < c => b + 3 + m2[b] <= c
    BY <1>3, <1>5
  <2> QED
    BY <1>1, <2>1, <2>2 DEF Chain
<1>7. DOMAIN hd = Owned(H, m2)
  BY <1>1, <1>5 DEF Owned
<1>8. ASSUME NEW c \in H PROVE Sound(c, m2, hd)
  BY <1>1, <1>2, <1>5, StaysSound
<1>9. Footed(H, m2)
  BY <1>1, <1>5 DEF Footed, FootAt
<1>10. Apart(H, m2, l)
  <2>1. ASSUME NEW b \in H, m2[b + 1] = 0, b + 3 + m2[b] # l PROVE m2[b + 3 + m2[b] + 1] # 0
    <3>1. PICK y : y = b + 3 + m[b]
      OBVIOUS
    <3>2. y = b + 3 + m2[b] /\ y \in H /\ m[y + 1] # 0
      BY <1>1, <1>2, <1>5, <2>1, <3>1 DEF Apart
    <3>3. m2[y + 1] # 0
      BY <1>5, <3>2
    <3> QED
      BY <3>2, <3>3
  <2> QED
    BY <2>1 DEF Apart
<1>11. Heaped(H, m2, s, l, hd)
  BY <1>6, <1>7, <1>8, <1>9, <1>10 DEF Heaped, Laid
<1>12. FreeIn(H, m2) = FreeIn(H, m)
  BY <1>5 DEF FreeIn
<1> QED
  BY <1>5, <1>11, <1>12 DEF Inside

(* The links of free blocks lie in their payloads.                         *)
LEMMA LinksInside ==
    ASSUME NEW s \in Nat, NEW l \in Nat, NEW H, NEW m, Chain(H, m, s, l, 3), Roomy(H, m),
           NEW G, G \subseteq FreeIn(H, m), NEW m2, Links(G, m, m2)
    PROVE  Inside(H, m, m2)
<1>1. ASSUME NEW a \in Words, m2[a] # m[a]
      PROVE  \E c \in H : m[c + 1] = 0 /\ c + 2 <= a /\ a <= c + 1 + m[c]
  <2>1. PICK c \in G : a = c + 2 \/ a = c + 3
    BY <1>1 DEF Links
  <2>2. c \in H /\ m[c + 1] = 0 /\ c \in Nat /\ m[c] \in Nat /\ m[c] >= 2
    BY ChainFacts DEF FreeIn, Roomy
  <2> QED
    BY <2>1, <2>2
<1> QED
  BY <1>1 DEF Inside, Links

(* Relinking twice.                                                        *)
LEMMA LinksTwice ==
    ASSUME NEW F, NEW m, NEW m1, NEW m2, Links(F, m, m1), Links(F, m1, m2)
    PROVE  Links(F, m, m2)
  BY DEF Links

-----------------------------------------------------------------------------
(* The explicit list                                                       *)

(* A boundary-tagged heap whose free blocks, and no others, are the list   *)
(* from q.                                                                 *)
Listing(H, m, s, l, hd, q) ==
    /\ Heaped(H, m, s, l, hd) /\ Roomy(H, m) /\ Cycle(m, q, FreeIn(H, m))
    /\ s \in Nat /\ 1 <= s /\ l \in Nat /\ s .. l - 1 \subseteq Words
    /\ m \in [Words -> WordValues]

(* The list from q1 in m1 is the one in which d, the rest of block b       *)
(* after r words, has its place; split, the heap is right again.           *)
BySplit(m, s, l, hd, q, b, r, n, d, m1, q1) ==
    /\ Listed!Replace([mem |-> m, head |-> q], b, d) = [mem |-> m1, head |-> q1]
    /\ \A m2 : m2 = Filled(Tagged!Tag(Tagged!Tag(m1, b, r, 1), d, m[b] - r - 3, 0), b + 2, n) =>
         /\ \E J : Listing(J, m2, s, l, Given(hd, b + 2, n), q1)
         /\ Fresh(hd, b + 2, n)

(* A free block is split and the rest of it takes its place in the list.   *)
LEMMA ListSplits ==
    ASSUME NEW H, NEW m, NEW s, NEW l, NEW hd, NEW q, Listing(H, m, s, l, hd, q),
           NEW b \in FreeIn(H, m), NEW r \in Nat, r >= 2, NEW n \in Nat, n <= r, m[b] >= r + 5,
           NEW d, d = b + r + 3
    PROVE  \E m1, q1 : BySplit(m, s, l, hd, q, b, r, n, d, m1, q1)
<1>0. /\ Heaped(H, m, s, l, hd) /\ Roomy(H, m) /\ Cycle(m, q, FreeIn(H, m))
      /\ s \in Nat /\ 1 <= s /\ l \in Nat /\ s .. l - 1 \subseteq Words
      /\ m \in [Words -> WordValues]
  BY DEF Listing
<1>1. Chain(H, m, s, l, 3) /\ b \in H /\ m[b + 1] = 0
  BY <1>0 DEF Heaped, Laid, FreeIn
<1>2. \A c \in H : /\ c \in Nat /\ s <= c /\ m[c] \in Nat /\ m[c] >= 2
                   /\ c + 3 + m[c] <= l
  BY <1>0, <1>1, ChainFacts DEF Roomy
<1>3. \A e, c \in H : e < c => e + 3 + m[e] <= c
  BY <1>1 DEF Chain
<1>4. PICK y : y = b + 3 + m[b]
  OBVIOUS
<1>5. /\ b \in Nat /\ d \in Nat /\ y \in Nat /\ s <= b /\ b + 5 <= d /\ d + 5 <= y /\ y <= l /\ m[b] \in Nat
      /\ d + 3 < b + 2 + m[b]
  BY <1>1, <1>2, <1>4
<1>6. ASSUME NEW c \in H, c # b PROVE c \in Nat /\ (c + 5 <= b \/ c >= y)
  <2>1. c \in Nat /\ m[c] \in Nat /\ m[c] >= 2 /\ (c < b \/ b < c)
    BY <1>2, <1>5, <1>6
  <2>2. CASE c < b
    BY <1>1, <1>3, <1>5, <2>1, <2>2
  <2>3. CASE b < c
    BY <1>1, <1>3, <1>4, <1>5, <2>1, <2>3
  <2> QED
    BY <2>1, <2>2, <2>3
<1>7. PICK F : F = FreeIn(H, m)
  OBVIOUS
<1>8. F \subseteq H /\ b \in F /\ Cycle(m, q, F)
  BY <1>0, <1>7 DEF FreeIn
<1>9. Wide(F)
  BY <1>0, <1>1, <1>8, FreeWide
<1>10. d \notin H /\ d \notin F
  BY <1>5, <1>6, <1>8
<1>11. Wide((F \ {b}) \cup {d})
  <2>1. d \in Nat /\ d >= 1 /\ d + 2 \in Words /\ d + 3 \in Words
    <3>1. d + 2 \in s .. l - 1 /\ d + 3 \in s .. l - 1
      BY <1>0, <1>5
    <3> QED
      BY <1>0, <1>5, <3>1
  <2>2. ASSUME NEW c \in F \ {b} PROVE c + 5 <= d \/ d + 5 <= c
    BY <1>5, <1>6, <1>8
  <2>3. ASSUME NEW c \in (F \ {b}) \cup {d}, NEW e \in (F \ {b}) \cup {d}, c < e PROVE c + 5 <= e
    <3>1. CASE c = d
      BY <1>5, <1>6, <1>8, <2>2, <2>3, <3>1
    <3>2. CASE e = d
      BY <1>5, <1>6, <1>8, <2>2, <2>3, <3>2
    <3>3. CASE c # d /\ e # d
      BY <1>9, <2>3, <3>3 DEF Wide
    <3> QED
      BY <3>1, <3>2, <3>3
  <2>4. \A c \in F \ {b} : c \in Nat /\ c >= 1 /\ c + 2 \in Words /\ c + 3 \in Words
    BY <1>9 DEF Wide
  <2> QED
    BY <2>1, <2>3, <2>4 DEF Wide
<1>12. PICK m1, q1, G : /\ Listed!Replace([mem |-> m, head |-> q], b, d) = [mem |-> m1, head |-> q1]
                        /\ G = (F \ {b}) \cup {d} /\ Cycle(m1, q1, G) /\ Links(G, m, m1)
  <2>1. Replaces(F, b, d, m, q)
    BY <1>0, <1>8, <1>9, <1>10, <1>11 DEF Replaces
  <2>2. \E m1, q1, G : ByReplace(F, b, d, m, q, m1, q1, G)
    BY <2>1, Replaced, Zenon
  <2> QED
    BY <2>2, Zenon DEF ByReplace
<1>13. Inside(H, m, m1)
  <2>1. ASSUME NEW a \in Words, m1[a] # m[a]
        PROVE  \E c \in H : m[c + 1] = 0 /\ c + 2 <= a /\ a <= c + 1 + m[c]
    <3>1. PICK c \in G : a = c + 2 \/ a = c + 3
      BY <1>12, <2>1 DEF Links
    <3>2. CASE c = d
      BY <1>1, <1>5, <3>1, <3>2
    <3>3. CASE c # d
      <4>1. c \in H /\ m[c + 1] = 0 /\ c \in Nat /\ m[c] \in Nat /\ m[c] >= 2
        BY <1>2, <1>7, <1>12, <3>3 DEF FreeIn
      <4> QED
        BY <3>1, <4>1
    <3> QED
      BY <3>2, <3>3
  <2> QED
    BY <1>12, <2>1 DEF Inside, Links
<1>14. /\ Heaped(H, m1, s, l, hd) /\ m1 \in [Words -> WordValues]
       /\ \A c \in H : m1[c] = m[c] /\ m1[c + 1] = m[c + 1]
  BY <1>0, <1>13, Relinked
<1>15. ASSUME NEW m2, m2 = Filled(Tagged!Tag(Tagged!Tag(m1, b, r, 1), d, m[b] - r - 3, 0), b + 2, n)
       PROVE  (\E J : Listing(J, m2, s, l, Given(hd, b + 2, n), q1)) /\ Fresh(hd, b + 2, n)
  <2>1. m1[b] = m[b] /\ m1[b + 1] = 0
    BY <1>1, <1>14
  <2>2. Splits(H, m1, s, l, hd, b, r, n, m2)
    BY <1>0, <1>1, <1>14, <1>15, <2>1 DEF Splits
  <2>3. /\ m2 \in [Words -> WordValues]
        /\ \E J : /\ J = Out(H, b, b + 3 + m1[b]) \cup {b, d}
                  /\ Heaped(J, m2, s, l, Given(hd, b + 2, n))
        /\ Fresh(hd, b + 2, n)
        /\ \A c \in Out(H, b, b + 3 + m1[b]) : m2[c] = m1[c] /\ m2[c + 1] = m1[c + 1]
        /\ m2[b] = r /\ m2[b + 1] # 0 /\ m2[d] = m1[b] - r - 3 /\ m2[d + 1] = 0
        /\ \A a \in Words : /\ a \in Nat
                            /\ a < b \/ (a >= d + 2 /\ a # b + 2 + m1[b]) => m2[a] = m1[a]
    BY <2>2, SplitHeap
  <2>4. PICK J : J = Out(H, b, y) \cup {b, d} /\ Heaped(J, m2, s, l, Given(hd, b + 2, n))
    BY <1>4, <2>1, <2>3
  <2>5. \A c \in J : c = b \/ c = d \/ (c \in H /\ c # b /\ m2[c] = m[c] /\ m2[c + 1] = m[c + 1])
    <3>1. \A c \in Out(H, b, y) : c \in H /\ c # b /\ m2[c] = m[c] /\ m2[c + 1] = m[c + 1]
      <4>1. \A c \in Out(H, b, y) : c \in H /\ c # b
        BY <1>5 DEF Out
      <4> QED
        BY <1>4, <1>14, <2>1, <2>3, <4>1
    <3> QED
      BY <2>4, <3>1
  <2>6. Roomy(J, m2)
    <3>1. m2[b] >= 2 /\ m2[d] >= 2
      BY <1>5, <2>1, <2>3
    <3> QED
      BY <1>2, <2>5, <3>1 DEF Roomy
  <2>7. FreeIn(J, m2) = G
    <3>1. \A c \in H : c # b => c \in J
      BY <1>6, <1>5, <2>4 DEF Out
    <3>2. d \in J /\ b \in J
      BY <2>4
    <3>3. \A c \in FreeIn(J, m2) : c \in G
      BY <1>7, <1>12, <2>3, <2>5 DEF FreeIn
    <3>4. \A c \in G : c \in FreeIn(J, m2)
      BY <1>7, <1>10, <1>12, <2>3, <2>5, <3>1, <3>2 DEF FreeIn
    <3> QED
      BY <3>3, <3>4
  <2>8. ASSUME NEW c \in G PROVE m2[c + 2] = m1[c + 2] /\ m2[c + 3] = m1[c + 3]
    <3>1. Wide(G)
      BY <1>11, <1>12, Zenon
    <3>2. c + 2 \in Words /\ c + 3 \in Words
      BY <3>1 DEF Wide
    <3>3. CASE c = d
      <4>1. c + 2 >= d + 2 /\ c + 3 >= d + 2 /\ c + 2 # b + 2 + m1[b] /\ c + 3 # b + 2 + m1[b]
        BY <1>5, <2>1, <3>3
      <4> QED
        BY <2>3, <3>2, <4>1
    <3>4. CASE c # d
      <4>1. c \in Nat /\ (c + 5 <= b \/ c >= y)
        BY <1>6, <1>8, <1>12, <3>4
      <4>2. \/ c + 2 < b /\ c + 3 < b
            \/ c + 2 >= d + 2 /\ c + 3 >= d + 2 /\ c + 2 # b + 2 + m1[b] /\ c + 3 # b + 2 + m1[b]
        BY <1>4, <1>5, <2>1, <4>1
      <4> QED
        BY <2>3, <3>2, <4>2
    <3> QED
      BY <3>3, <3>4
  <2>9. Cycle(m2, q1, G)
    BY <1>12, <2>8, CycleStays
  <2>10. Listing(J, m2, s, l, Given(hd, b + 2, n), q1)
    BY <1>0, <2>3, <2>4, <2>6, <2>7, <2>9 DEF Listing
  <2> QED
    BY <2>3, <2>10
<1> QED
  BY <1>12, <1>15 DEF BySplit

(* The list from q1 in m1 is the one without block b; with that handed     *)
(* out, the heap is right again.                                           *)
ByWhole(m, s, l, hd, q, b, n, m1, q1) ==
    /\ Listed!Unlink([mem |-> m, head |-> q], b) = [mem |-> m1, head |-> q1]
    /\ \A m2 : m2 = Filled([m1 EXCEPT ![b + 1] = 1], b + 2, n) =>
         /\ \E J : Listing(J, m2, s, l, Given(hd, b + 2, n), q1)
         /\ Fresh(hd, b + 2, n)

(* A free block leaves the list and is handed out as a whole.              *)
LEMMA ListWholes ==
    ASSUME NEW H, NEW m, NEW s, NEW l, NEW hd, NEW q, Listing(H, m, s, l, hd, q),
           NEW b \in FreeIn(H, m), NEW n \in Nat, n <= m[b]
    PROVE  \E m1, q1 : ByWhole(m, s, l, hd, q, b, n, m1, q1)
<1>0. /\ Heaped(H, m, s, l, hd) /\ Roomy(H, m) /\ Cycle(m, q, FreeIn(H, m))
      /\ s \in Nat /\ 1 <= s /\ l \in Nat /\ s .. l - 1 \subseteq Words
      /\ m \in [Words -> WordValues]
  BY DEF Listing
<1>1. Chain(H, m, s, l, 3) /\ b \in H /\ m[b + 1] = 0
  BY <1>0 DEF Heaped, Laid, FreeIn
<1>2. \A c \in H : /\ c \in Nat /\ s <= c /\ m[c] \in Nat /\ m[c] >= 2
                   /\ c + 3 + m[c] <= l
  BY <1>0, <1>1, ChainFacts DEF Roomy
<1>3. \A e, c \in H : e < c => e + 3 + m[e] <= c
  BY <1>1 DEF Chain
<1>4. PICK y \in Nat : y = b + 3 + m[b] /\ b \in Nat /\ m[b] \in Nat
  BY <1>1, <1>2
<1>5. ASSUME NEW c \in H, c # b PROVE c \in Nat /\ (c + 5 <= b \/ c >= y)
  <2>1. c \in Nat /\ m[c] \in Nat /\ m[c] >= 2 /\ (c < b \/ b < c)
    BY <1>2, <1>4, <1>5
  <2>2. CASE c < b
    BY <1>1, <1>3, <1>4, <2>1, <2>2
  <2>3. CASE b < c
    BY <1>1, <1>3, <1>4, <2>1, <2>3
  <2> QED
    BY <2>1, <2>2, <2>3
<1>6. PICK F : F = FreeIn(H, m)
  OBVIOUS
<1>7. F \subseteq H /\ b \in F /\ Cycle(m, q, F)
  BY <1>0, <1>6 DEF FreeIn
<1>8. Wide(F)
  BY <1>0, <1>1, <1>7, FreeWide
<1>9. PICK m1, q1, G : /\ Listed!Unlink([mem |-> m, head |-> q], b) = [mem |-> m1, head |-> q1]
                       /\ G = F \ {b} /\ Cycle(m1, q1, G) /\ Links(G, m, m1)
  <2>1. \E m1, q1, G : ByUnlink(F, b, m, q, m1, q1, G)
    BY <1>0, <1>7, <1>8, Unlinked
  <2> QED
    BY <2>1, Zenon DEF ByUnlink
<1>10. Inside(H, m, m1)
  <2>1. G \subseteq FreeIn(H, m)
    BY <1>6, <1>9
  <2> QED
    BY <1>0, <1>1, <1>9, <2>1, LinksInside
<1>11. /\ Heaped(H, m1, s, l, hd) /\ m1 \in [Words -> WordValues]
       /\ \A c \in H : m1[c] = m[c] /\ m1[c + 1] = m[c + 1]
  BY <1>0, <1>10, Relinked
<1>12. ASSUME NEW m2, m2 = Filled([m1 EXCEPT ![b + 1] = 1], b + 2, n)
       PROVE  (\E J : Listing(J, m2, s, l, Given(hd, b + 2, n), q1)) /\ Fresh(hd, b + 2, n)
  <2>1. m1[b] = m[b] /\ m1[b + 1] = 0
    BY <1>1, <1>11
  <2>2. Wholes(H, m1, s, l, hd, b, n, m2)
    BY <1>0, <1>1, <1>11, <1>12, <2>1 DEF Wholes
  <2>3. /\ m2 \in [Words -> WordValues]
        /\ \E J : /\ J = Out(H, b, b + 3 + m1[b]) \cup {b}
                  /\ Heaped(J, m2, s, l, Given(hd, b + 2, n))
        /\ Fresh(hd, b + 2, n)
        /\ \A c \in Out(H, b, b + 3 + m1[b]) : m2[c] = m1[c] /\ m2[c + 1] = m1[c + 1]
        /\ m2[b] = m1[b] /\ m2[b + 1] # 0
        /\ \A a \in Words : a \in Nat /\ (a < b \/ a >= b + 3 + m1[b]) => m2[a] = m1[a]
    BY <2>2, WholeHeap
  <2>4. PICK J : J = Out(H, b, y) \cup {b} /\ Heaped(J, m2, s, l, Given(hd, b + 2, n))
    BY <1>4, <2>1, <2>3
  <2>5. \A c \in J : c = b \/ (c \in H /\ c # b /\ m2[c] = m[c] /\ m2[c + 1] = m[c + 1])
    <3>1. \A c \in Out(H, b, y) : c \in H /\ c # b
      BY <1>4 DEF Out
    <3>2. \A c \in Out(H, b, y) : c \in H /\ c # b /\ m2[c] = m[c] /\ m2[c + 1] = m[c + 1]
      BY <1>4, <1>11, <2>1, <2>3, <3>1
    <3> QED
      BY <2>4, <3>2
  <2>6. Roomy(J, m2)
    BY <1>1, <1>2, <2>1, <2>3, <2>5 DEF Roomy
  <2>7. FreeIn(J, m2) = G
    <3>1. \A c \in H : c # b => c \in J
      BY <1>5, <1>4, <2>4 DEF Out
    <3>2. \A c \in FreeIn(J, m2) : c \in G
      BY <1>6, <1>9, <2>3, <2>5 DEF FreeIn
    <3>3. \A c \in G : c \in FreeIn(J, m2)
      BY <1>6, <1>9, <2>3, <2>5, <3>1 DEF FreeIn
    <3> QED
      BY <3>2, <3>3
  <2>8. ASSUME NEW c \in G PROVE m2[c + 2] = m1[c + 2] /\ m2[c + 3] = m1[c + 3]
    <3>1. c + 2 \in Words /\ c + 3 \in Words /\ c \in H /\ c # b
      BY <1>7, <1>8, <1>9 DEF Wide
    <3>2. c \in Nat /\ (c + 5 <= b \/ c >= y)
      BY <1>5, <3>1
    <3>3. /\ c + 2 \in Nat /\ (c + 2 < b \/ c + 2 >= b + 3 + m1[b])
          /\ c + 3 \in Nat /\ (c + 3 < b \/ c + 3 >= b + 3 + m1[b])
      BY <1>4, <2>1, <3>2
    <3> QED
      BY <2>3, <3>1, <3>3
  <2>9. Cycle(m2, q1, G)
    BY <1>9, <2>8, CycleStays
  <2>10. Listing(J, m2, s, l, Given(hd, b + 2, n), q1)
    BY <1>0, <2>3, <2>4, <2>6, <2>7, <2>9 DEF Listing
  <2> QED
    BY <2>3, <2>10
<1> QED
  BY <1>9, <1>12 DEF ByWhole

(* A new block at the end is none of the list's.                           *)
LEMMA ListGrows ==
    ASSUME NEW H, NEW m, NEW s, NEW l, NEW hd, NEW q, Listing(H, m, s, l, hd, q),
           NEW r, NEW n, NEW m2, Grows(H, m, s, l, hd, r, n, m2), r >= 2
    PROVE  \E J : Listing(J, m2, s, l + 3 + r, Given(hd, l + 2, n), q)
<1>0. /\ Heaped(H, m, s, l, hd) /\ Roomy(H, m) /\ Cycle(m, q, FreeIn(H, m))
      /\ s \in Nat /\ 1 <= s /\ l \in Nat /\ s .. l - 1 \subseteq Words
      /\ m \in [Words -> WordValues]
  BY DEF Listing
<1>1. r \in Nat /\ s .. l + r + 2 \subseteq Words
  BY DEF Grows
<1>2. Chain(H, m, s, l, 3)
  BY <1>0 DEF Heaped, Laid
<1>3. \A c \in H : c \in Nat /\ c < l /\ m[c] \in Nat /\ m[c] >= 2 /\ c + 3 + m[c] <= l
  BY <1>0, <1>2, ChainFacts DEF Roomy
<1>4. /\ m2 \in [Words -> WordValues]
      /\ \E J : /\ J = Out(H, l, l) \cup {l}
                /\ Heaped(J, m2, s, l + 3 + r, Given(hd, l + 2, n))
      /\ \A c \in Out(H, l, l) : m2[c] = m[c] /\ m2[c + 1] = m[c + 1]
      /\ m2[l] = r /\ m2[l + 1] # 0
      /\ \A a \in Words : a \in Nat /\ a < l => m2[a] = m[a]
  BY GrowHeap
<1>5. PICK J : J = Out(H, l, l) \cup {l} /\ Heaped(J, m2, s, l + 3 + r, Given(hd, l + 2, n))
  BY <1>4
<1>6. PICK z \in Nat : z = l + 3 + r /\ s .. z - 1 \subseteq Words
  BY <1>0, <1>1
<1>7. \A c \in J : c = l \/ (c \in H /\ m2[c] = m[c] /\ m2[c + 1] = m[c + 1])
  BY <1>4, <1>5 DEF Out
<1>8. Roomy(J, m2)
  BY <1>3, <1>4, <1>7 DEF Roomy
<1>9. FreeIn(J, m2) = FreeIn(H, m)
  <2>1. \A c \in H : c \in J /\ c # l
    BY <1>3, <1>5 DEF Out
  <2> QED
    BY <1>4, <1>7, <2>1 DEF FreeIn
<1>10. PICK F : F = FreeIn(H, m)
  OBVIOUS
<1>11. ASSUME NEW c \in F PROVE m2[c + 2] = m[c + 2] /\ m2[c + 3] = m[c + 3]
  <2>1. c \in H
    BY <1>10 DEF FreeIn
  <2>2. c \in Nat /\ c + 2 < l /\ c + 3 < l /\ c + 2 \in Nat /\ c + 3 \in Nat
    BY <1>0, <1>3, <2>1
  <2>3. c + 2 \in Words /\ c + 3 \in Words
    <3>1. Wide(H)
      BY <1>0, <1>2, FreeWide
    <3> QED
      BY <2>1, <3>1 DEF Wide
  <2> QED
    BY <1>4, <2>2, <2>3
<1>12. Cycle(m2, q, F)
  BY <1>0, <1>10, <1>11, CycleStays
<1>13. Listing(J, m2, s, z, Given(hd, l + 2, n), q)
  BY <1>0, <1>4, <1>5, <1>6, <1>8, <1>9, <1>10, <1>12 DEF Listing
<1> QED
  BY <1>6, <1>13

(* Which neighbours free merges.                                           *)
Ahead(m, l, b) == b + 3 + m[b] < l /\ m[b + 3 + m[b] + 1] = 0
Behind(m, s, b) == b > s /\ m[b - 3 - m[b - 1] + 1] = 0

(* The list of G, from q1 in m1, that unlinking the neighbours of b makes. *)
Absorbed(H, m, s, l, q, b, m1, q1, G) ==
    LET h == [mem |-> m, head |-> q]
        f == IF Ahead(m, l, b) THEN Listed!Unlink(h, b + 3 + m[b]) ELSE h
        F == FreeIn(H, m)
    IN  /\ [mem |-> m1, head |-> q1] = IF Behind(m, s, b) THEN Listed!Unlink(f, b - 3 - m[b - 1])
                                       ELSE f
        /\ G = Out(F, From(m, s, b), UpTo(m, l, b)) /\ Cycle(m1, q1, G) /\ Links(F, m, m1)

(* The list of G, from q2 in m2, that unlinking block b if P makes.        *)
Perhaps(P, F, b, m, q, m2, q2, G) ==
    /\ (IF P THEN Listed!Unlink([mem |-> m, head |-> q], b) ELSE [mem |-> m, head |-> q])
         = [mem |-> m2, head |-> q2]
    /\ G = (IF P THEN F \ {b} ELSE F) /\ Cycle(m2, q2, G) /\ Links(F, m, m2)

(* A block is taken out of a list, or none is.                             *)
LEMMA MayUnlink ==
    ASSUME NEW F, Wide(F), NEW m \in [Words -> WordValues], NEW q, Cycle(m, q, F), NEW b,
           NEW P \in BOOLEAN, P => b \in F
    PROVE  \E m2, q2, G : Perhaps(P, F, b, m, q, m2, q2, G)
<1>1. CASE P
  <2>1. \E m2, q2, G : ByUnlink(F, b, m, q, m2, q2, G)
    BY <1>1, Unlinked
  <2>2. PICK m2, q2, G : /\ Listed!Unlink([mem |-> m, head |-> q], b) = [mem |-> m2, head |-> q2]
                         /\ G = F \ {b} /\ Cycle(m2, q2, G) /\ Links(G, m, m2)
    BY <2>1, Zenon DEF ByUnlink
  <2>3. Links(F, m, m2)
    BY <2>2, LinksMore
  <2> QED
    BY <1>1, <2>2, <2>3 DEF Perhaps
<1>2. CASE ~P
  <2>1. Links(F, m, m)
    BY DEF Links
  <2> QED
    BY <1>2, <2>1 DEF Perhaps
<1> QED
  BY <1>1, <1>2

(* The neighbours that free merges are the free blocks from x to y.        *)
LEMMA MergedOnes ==
    ASSUME NEW H, NEW m, NEW s \in Nat, NEW l \in Nat, Chain(H, m, s, l, 3), Footed(H, m),
           NEW b \in H, m[b + 1] # 0, NEW x, x = From(m, s, b), NEW y, y = UpTo(m, l, b),
           NEW a, a = b + 3 + m[b], NEW e, e = b - 3 - m[b - 1]
    PROVE  /\ Ahead(m, l, b) => a \in FreeIn(H, m) /\ x <= a /\ a < y /\ (Behind(m, s, b) => a # e)
           /\ Behind(m, s, b) => e \in FreeIn(H, m) /\ x <= e /\ e < y
           /\ \A c \in FreeIn(H, m) : x <= c /\ c < y => \/ Ahead(m, l, b) /\ c = a
                                                         \/ Behind(m, s, b) /\ c = e
<1>1. \A c \in H : /\ c \in Nat /\ s <= c /\ c < l /\ m[c] \in Nat
                   /\ c + 3 + m[c] \in H \cup {l} /\ c + 3 + m[c] <= l
  BY ChainFacts
<1>2. \A c, d \in H : c < d => c + 3 + m[c] <= d
  BY DEF Chain
<1>3. b \in Nat /\ a \in Nat /\ m[b] \in Nat /\ b < a
  BY <1>1
<1>4. Ahead(m, l, b) => a \in H /\ m[a + 1] = 0 /\ a \in Nat /\ m[a] \in Nat /\ y = a + 3 + m[a]
  BY <1>1, <1>3 DEF Ahead, UpTo
<1>5. ~Ahead(m, l, b) => y = a
  BY DEF Ahead, UpTo
<1>6. Behind(m, s, b) => e \in H /\ m[e + 1] = 0 /\ e \in Nat /\ m[e] \in Nat /\ x = e /\ e + 3 + m[e] = b
  <2>1. ASSUME Behind(m, s, b) PROVE e \in H /\ m[e + 1] = 0 /\ x = e /\ e + 3 + m[e] = b
    <3>1. b # s
      BY <1>3, <2>1 DEF Behind
    <3>2. \E c \in H : c + 3 + m[c] = b /\ m[b - 1] = m[c] /\ b - 3 - m[b - 1] = c
      BY <3>1, FrontBlock
    <3>3. e \in H /\ e + 3 + m[e] = b
      BY <3>2
    <3> QED
      BY <2>1, <3>3 DEF Behind, From
  <2> QED
    BY <1>1, <2>1
<1>7. ~Behind(m, s, b) => x = b
  BY DEF Behind, From
<1>8. x \in Nat /\ y \in Nat /\ x <= b /\ a <= y
  BY <1>1, <1>3, <1>4, <1>5, <1>6, <1>7
<1>9. Ahead(m, l, b) => a \in FreeIn(H, m) /\ x <= a /\ a < y /\ (Behind(m, s, b) => a # e)
  BY <1>3, <1>4, <1>6, <1>8 DEF FreeIn
<1>10. Behind(m, s, b) => e \in FreeIn(H, m) /\ x <= e /\ e < y
  BY <1>3, <1>6, <1>8 DEF FreeIn
<1>11. ASSUME NEW c \in FreeIn(H, m), x <= c, c < y
       PROVE  \/ Ahead(m, l, b) /\ c = a
              \/ Behind(m, s, b) /\ c = e
  <2>1. c \in H /\ c # b /\ c \in Nat
    BY <1>1 DEF FreeIn
  <2>2. CASE b < c
    <3>1. a <= c
      BY <1>2, <2>1, <2>2
    <3>2. Ahead(m, l, b)
      BY <1>3, <1>5, <1>11, <2>1, <3>1
    <3>3. a = c
      BY <1>2, <1>4, <1>11, <2>1, <3>1, <3>2
    <3> QED
      BY <3>2, <3>3
  <2>3. CASE c < b
    <3>1. Behind(m, s, b)
      BY <1>3, <1>7, <1>11, <2>1, <2>3
    <3>2. c = e
      BY <1>2, <1>3, <1>6, <1>11, <2>1, <2>3, <3>1
    <3> QED
      BY <3>1, <3>2
  <2> QED
    BY <1>3, <2>1, <2>2, <2>3
<1> QED
  BY <1>9, <1>10, <1>11

(* The list after the neighbours that free merges have left it.            *)
LEMMA ListAbsorbs ==
    ASSUME NEW H, NEW m, NEW s, NEW l, NEW hd, NEW q, Listing(H, m, s, l, hd, q),
           NEW b \in H, m[b + 1] # 0, NEW x, NEW y, x = From(m, s, b), y = UpTo(m, l, b)
    PROVE  \E m1, q1, G : Absorbed(H, m, s, l, q, b, m1, q1, G)
<1>0. /\ Heaped(H, m, s, l, hd) /\ Roomy(H, m) /\ Cycle(m, q, FreeIn(H, m))
      /\ s \in Nat /\ 1 <= s /\ l \in Nat /\ s .. l - 1 \subseteq Words
      /\ m \in [Words -> WordValues]
  BY DEF Listing
<1>1. Chain(H, m, s, l, 3) /\ Footed(H, m) /\ Apart(H, m, l)
  BY <1>0 DEF Heaped, Laid
<1>2. PICK a, e : a = b + 3 + m[b] /\ e = b - 3 - m[b - 1]
  OBVIOUS
<1>3. PICK F : F = FreeIn(H, m)
  OBVIOUS
<1>4. F \subseteq H /\ Cycle(m, q, F)
  BY <1>0, <1>3 DEF FreeIn
<1>5. Wide(F)
  BY <1>0, <1>1, <1>4, FreeWide
<1>6. x \in Nat /\ y \in Nat /\ \A c \in F : c \in Nat
  <2>1. /\ x \in H /\ y \in H \cup {l} /\ x <= b /\ b < y
        /\ FreeFrom(H \ {b}, m, x, y) /\ (y # l => m[y + 1] # 0)
        /\ \A c \in H : c + 3 + m[c] = x => m[c + 1] # 0
    <3>1. s \in Nat /\ l \in Nat /\ x = From(m, s, b) /\ y = UpTo(m, l, b)
      BY <1>0
    <3> QED
      BY ONLY <1>1, <3>1, b \in H, Merging
  <2>2. \A c \in H : c \in Nat
    BY <1>0, <1>1, ChainFacts
  <2> QED
    BY <1>0, <1>4, <2>1, <2>2
<1>7. PICK P \in BOOLEAN, Q \in BOOLEAN : P = Ahead(m, l, b) /\ Q = Behind(m, s, b)
  BY DEF Ahead, Behind
<1>8. /\ P => a \in F /\ x <= a /\ a < y /\ (Q => a # e)
      /\ Q => e \in F /\ x <= e /\ e < y
      /\ \A c \in F : x <= c /\ c < y => (P /\ c = a) \/ (Q /\ c = e)
  BY <1>0, <1>1, <1>2, <1>3, <1>7, MergedOnes
<1>9. PICK m0, q0, E :
        /\ (IF P THEN Listed!Unlink([mem |-> m, head |-> q], a) ELSE [mem |-> m, head |-> q])
             = [mem |-> m0, head |-> q0]
        /\ E = (IF P THEN F \ {a} ELSE F) /\ Cycle(m0, q0, E) /\ Links(F, m, m0)
  <2>1. \E m0, q0, E : Perhaps(P, F, a, m, q, m0, q0, E)
    BY <1>0, <1>4, <1>5, <1>8, MayUnlink
  <2> QED
    BY <2>1, Zenon DEF Perhaps
<1>10. E \subseteq F /\ m0 \in [Words -> WordValues] /\ Wide(E) /\ (Q => e \in E)
  <2>1. E \subseteq F
    BY <1>9
  <2>2. Wide(E)
    BY <1>5, <2>1 DEF Wide
  <2>3. Q => e \in E
    BY <1>8, <1>9
  <2>4. m0 \in [Words -> WordValues]
    BY <1>9 DEF Links
  <2> QED
    BY <2>1, <2>2, <2>3, <2>4
<1>11. PICK m1, q1, G :
        /\ (IF Q THEN Listed!Unlink([mem |-> m0, head |-> q0], e) ELSE [mem |-> m0, head |-> q0])
             = [mem |-> m1, head |-> q1]
        /\ G = (IF Q THEN E \ {e} ELSE E) /\ Cycle(m1, q1, G) /\ Links(E, m0, m1)
  <2>1. Cycle(m0, q0, E) /\ Wide(E) /\ m0 \in [Words -> WordValues] /\ (Q => e \in E)
    BY <1>9, <1>10
  <2>2. \E m1, q1, G : Perhaps(Q, E, e, m0, q0, m1, q1, G)
    BY <2>1, MayUnlink
  <2> QED
    BY <2>2, Zenon DEF Perhaps
<1>12. Links(F, m, m1)
  <2>1. Links(F, m0, m1)
    BY <1>10, <1>11, LinksMore
  <2> QED
    BY <1>9, <2>1, LinksTwice
<1>13. G = Out(F, x, y)
  <2>1. ASSUME NEW c \in Out(F, x, y) PROVE c \in G
    <3>1. c \in F /\ ~(x <= c /\ c < y)
      BY <1>6 DEF Out
    <3> QED
      BY <1>8, <1>9, <1>11, <3>1
  <2>2. ASSUME NEW c \in G PROVE c \in Out(F, x, y)
    <3>1. c \in F /\ (P => c # a) /\ (Q => c # e)
      BY <1>9, <1>11
    <3>2. ~(x <= c /\ c < y)
      BY <1>8, <3>1
    <3> QED
      BY <1>6, <3>1, <3>2 DEF Out
  <2> QED
    BY <2>1, <2>2
<1>14. Absorbed(H, m, s, l, q, b, m1, q1, G)
  <2>1. [mem |-> m0, head |-> q0]
          = IF Ahead(m, l, b) THEN Listed!Unlink([mem |-> m, head |-> q], b + 3 + m[b])
            ELSE [mem |-> m, head |-> q]
    BY <1>2, <1>7, <1>9, Zenon
  <2>2. [mem |-> m1, head |-> q1]
          = IF Behind(m, s, b) THEN Listed!Unlink([mem |-> m0, head |-> q0], b - 3 - m[b - 1])
            ELSE [mem |-> m0, head |-> q0]
    BY <1>2, <1>7, <1>11, Zenon
  <2>3. /\ G = Out(FreeIn(H, m), From(m, s, b), UpTo(m, l, b)) /\ Cycle(m1, q1, G)
        /\ Links(FreeIn(H, m), m, m1)
    BY <1>2, <1>3, <1>11, <1>12, <1>13, Zenon
  <2> QED
    BY <2>1, <2>2, <2>3, Zenon DEF Absorbed
<1> QED
  BY <1>14

(* With block x pushed to the list from q1 in m2, which makes q3 and m3,   *)
(* the heap is right again.                                                *)
ByGive(s, l, hd, b, x, m2, q1, m3, q3) ==
    /\ Listed!Push([mem |-> m2, head |-> q1], x) = [mem |-> m3, head |-> q3]
    /\ \E J : Listing(J, m3, s, l, Restrict(hd, DOMAIN hd \ {b + 2}), q3)

(* The merged block is tagged and pushed.                                  *)
LEMMA ListGives ==
    ASSUME NEW H, NEW m, NEW s, NEW l, NEW hd, NEW q, Listing(H, m, s, l, hd, q),
           NEW b \in H, m[b + 1] # 0, NEW x, NEW y, x = From(m, s, b), y = UpTo(m, l, b),
           NEW m1, NEW q1, NEW G, Absorbed(H, m, s, l, q, b, m1, q1, G),
           NEW m2, m2 = Tagged!Tag(m1, x, y - x - 3, 0)
    PROVE  \E m3, q3 : ByGive(s, l, hd, b, x, m2, q1, m3, q3)
<1>0. /\ Heaped(H, m, s, l, hd) /\ Roomy(H, m)
      /\ s \in Nat /\ 1 <= s /\ l \in Nat /\ s .. l - 1 \subseteq Words
      /\ m \in [Words -> WordValues]
  BY DEF Listing
<1>1. Chain(H, m, s, l, 3) /\ Footed(H, m) /\ Apart(H, m, l)
  BY <1>0 DEF Heaped, Laid
<1>2. \A c \in H : c \in Nat /\ m[c] \in Nat /\ m[c] >= 2 /\ c + 3 + m[c] <= l
  BY <1>0, <1>1, ChainFacts DEF Roomy
<1>3. \A e, c \in H : e < c => e + 3 + m[e] <= c
  BY <1>1 DEF Chain
<1>4. PICK F : F = FreeIn(H, m)
  OBVIOUS
<1>5. G = Out(F, x, y) /\ Cycle(m1, q1, G) /\ Links(F, m, m1)
  BY <1>4, Zenon DEF Absorbed
<1>6. /\ x \in H /\ y \in H \cup {l} /\ x <= b /\ b < y
      /\ FreeFrom(H \ {b}, m, x, y) /\ (y # l => m[y + 1] # 0)
      /\ \A c \in H : c + 3 + m[c] = x => m[c + 1] # 0
  <2>1. s \in Nat /\ l \in Nat /\ x = From(m, s, b) /\ y = UpTo(m, l, b)
    BY <1>0
  <2> QED
    BY ONLY <1>1, <2>1, b \in H, Merging
<1>7. /\ Heaped(H, m1, s, l, hd) /\ m1 \in [Words -> WordValues]
      /\ \A c \in H : m1[c] = m[c] /\ m1[c + 1] = m[c + 1]
  <2>1. Inside(H, m, m1)
    BY <1>0, <1>1, <1>4, <1>5, LinksInside
  <2> QED
    BY <1>0, <2>1, Relinked
<1>8. Give(H, m1, s, l, hd, b, x, y, m2)
  <2>1. FreeFrom(H \ {b}, m1, x, y)
    BY <1>6, <1>7 DEF FreeFrom
  <2>2. y # l => m1[y + 1] # 0
    BY <1>6, <1>7
  <2>3. \A c \in H : c + 3 + m1[c] = x => m1[c + 1] # 0
    BY <1>6, <1>7
  <2> QED
    BY <1>0, <1>6, <1>7, <2>1, <2>2, <2>3 DEF Give
<1>9. /\ m2 \in [Words -> WordValues]
      /\ \E J : /\ J = Out(H, x, y) \cup {x}
                /\ Heaped(J, m2, s, l, Restrict(hd, DOMAIN hd \ {b + 2}))
      /\ \A c \in Out(H, x, y) : m2[c] = m1[c] /\ m2[c + 1] = m1[c + 1]
      /\ m2[x] = y - x - 3 /\ m2[x + 1] = 0 /\ y - x - 3 \in Nat
      /\ \A a \in Words : a # x /\ a # x + 1 /\ a # y - 1 => m2[a] = m1[a]
  <2>1. Gave(H, m1, s, l, hd, b, x, y, m2)
    BY <1>8, GiveHeap
  <2> QED
    BY <2>1 DEF Gave
<1>10. PICK J : J = Out(H, x, y) \cup {x} /\ Heaped(J, m2, s, l, Restrict(hd, DOMAIN hd \ {b + 2}))
  BY <1>9
<1>11. x \in Nat /\ y \in Nat /\ b \in Nat /\ m[b] \in Nat /\ m[b] >= 2 /\ b + 3 + m[b] <= y
  BY <1>0, <1>2, <1>3, <1>6
<1>12. \A c \in Out(H, x, y) : /\ c \in H /\ c # x /\ m2[c] = m[c] /\ m2[c + 1] = m[c + 1]
                               /\ c + 5 <= x \/ c >= y
  <2>1. ASSUME NEW c \in Out(H, x, y)
        PROVE  c \in H /\ c # x /\ m2[c] = m[c] /\ m2[c + 1] = m[c + 1] /\ (c + 5 <= x \/ c >= y)
    <3>1. c \in H /\ (c < x \/ c >= y) /\ c \in Nat /\ m[c] \in Nat /\ m[c] >= 2
      BY <1>2 DEF Out
    <3>2. c + 5 <= x \/ c >= y
      BY <1>3, <1>6, <1>11, <3>1
    <3>3. m2[c] = m[c] /\ m2[c + 1] = m[c + 1]
      BY <1>7, <1>9, <3>1
    <3> QED
      BY <1>6, <1>11, <3>1, <3>2, <3>3
  <2> QED
    BY <2>1
<1>13. Roomy(J, m2)
  <2>1. m2[x] >= 2
    BY <1>6, <1>9, <1>11
  <2> QED
    BY <1>2, <1>10, <1>12, <2>1 DEF Roomy
<1>14. PICK E : E = G \cup {x}
  OBVIOUS
<1>15. FreeIn(J, m2) = E /\ x \notin G /\ G \subseteq Out(H, x, y)
  <2>1. G \subseteq Out(H, x, y)
    BY <1>4, <1>5 DEF Out, FreeIn
  <2>2. \A c \in G : m[c + 1] = 0
    BY <1>4, <1>5 DEF Out, FreeIn
  <2>3. \A c \in Out(H, x, y) : m[c + 1] = 0 => c \in G
    BY <1>4, <1>5 DEF Out, FreeIn
  <2>4. \A c \in FreeIn(J, m2) : c \in E
    BY <1>10, <1>12, <1>14, <2>3 DEF FreeIn
  <2>5. \A c \in E : c \in FreeIn(J, m2)
    BY <1>9, <1>10, <1>12, <1>14, <2>1, <2>2 DEF FreeIn
  <2> QED
    BY <1>12, <2>1, <2>4, <2>5
<1>16. Chain(J, m2, s, l, 3)
  BY <1>10 DEF Heaped, Laid
<1>17. Wide(E)
  <2>1. E \subseteq J
    BY <1>10, <1>14, <1>15
  <2> QED
    BY <1>0, <1>13, <1>16, <2>1, FreeWide
<1>18. Cycle(m2, q1, G)
  <2>1. ASSUME NEW c \in G PROVE m2[c + 2] = m1[c + 2] /\ m2[c + 3] = m1[c + 3]
    <3>1. c \in Nat /\ c + 2 \in Words /\ c + 3 \in Words
      BY <1>14, <1>17 DEF Wide
    <3>2. c + 5 <= x \/ c >= y
      BY <1>12, <1>15
    <3>3. /\ c + 2 # x /\ c + 2 # x + 1 /\ c + 2 # y - 1
          /\ c + 3 # x /\ c + 3 # x + 1 /\ c + 3 # y - 1
      BY <1>11, <1>6, <3>1, <3>2
    <3> QED
      BY <1>9, <3>1, <3>3
  <2> QED
    BY <1>5, <2>1, CycleStays
<1>19. Joins(G, x, m2, q1)
  <2>1. Wide(G \cup {x})
    BY <1>14, <1>17, Zenon
  <2> QED
    BY <1>9, <1>15, <1>18, <2>1 DEF Joins
<1>20. PICK m3, q3 : /\ Listed!Push([mem |-> m2, head |-> q1], x) = [mem |-> m3, head |-> q3]
                     /\ Cycle(m3, q3, E) /\ Links(E, m2, m3)
  <2>1. PICK m3, q3, D : ByPush(G, x, m2, q1, m3, q3, D)
    BY <1>19, Pushed, Zenon
  <2>2. /\ Listed!Push([mem |-> m2, head |-> q1], x) = [mem |-> m3, head |-> q3]
        /\ D = G \cup {x} /\ Cycle(m3, q3, D) /\ Links(D, m2, m3)
    BY <2>1, Zenon DEF ByPush
  <2>3. D = E
    BY <1>14, <2>2, Zenon
  <2> QED
    BY <2>2, <2>3, Zenon
<1>21. Inside(J, m2, m3)
  <2>1. E \subseteq FreeIn(J, m2)
    BY <1>15
  <2> QED
    BY <1>0, <1>13, <1>16, <1>20, <2>1, LinksInside
<1>22. /\ Heaped(J, m3, s, l, Restrict(hd, DOMAIN hd \ {b + 2})) /\ m3 \in [Words -> WordValues]
       /\ \A c \in J : m3[c] = m2[c] /\ m3[c + 1] = m2[c + 1]
       /\ FreeIn(J, m3) = FreeIn(J, m2)
  BY <1>0, <1>10, <1>21, Relinked
<1>23. Roomy(J, m3)
  BY <1>13, <1>22 DEF Roomy
<1>24. FreeIn(J, m3) = E
  BY <1>15, <1>22, Zenon
<1>25. Listing(J, m3, s, l, Restrict(hd, DOMAIN hd \ {b + 2}), q3)
  BY <1>0, <1>20, <1>22, <1>23, <1>24 DEF Listing
<1> QED
  BY <1>20, <1>25 DEF ByGive

(* No caller asks the explicit list for 0 words.                           *)
Nonzero == "explicit" \in Kinds =>
             \A n \in DOMAIN Workload["explicit"] : 0 \notin Workload["explicit"][n]

(* What holds of the explicit list: the heap is boundary-tagged and the    *)
(* list from HEAD is its free blocks.                                      *)
ListedInv == Mapped => \E H : Listing(H, mem, start_ptr, last_ptr, held, HEAD)

(* The steps of the explicit list, in this module's terms.                 *)
LEMMA ListedIs ==
    ASSUME NEW n
    PROVE  /\ Listed!Round(n) = Round(n)
           /\ Listed!Mapped <=> Mapped
           /\ Listed!Asked = Asked
           /\ \A m, q, p : Listed!HandListed([mem |-> m, head |-> q], p, n) =>
                /\ mem' = Filled(m, p, n) /\ held' = Given(held, p, n) /\ HEAD' = q
                /\ UNCHANGED <<kind, start_ptr, last_ptr, size>>
           /\ \A m, p : Listed!Hand(m, p, n) => mem' = Filled(m, p, n) /\ held' = Given(held, p, n)
           /\ \A p : Listed!Drop(p) => held' = Restrict(held, DOMAIN held \ {p})
           /\ \A m, b, w, v : Listed!Tag(m, b, w, v) = Tagged!Tag(m, b, w, v)
           /\ (UNCHANGED Listed!arenaVars) => UNCHANGED arenaVars
<1> USE DEF Listed!NULL, Listed!MAP_FAILED, Listed!Words, Listed!Base, Listed!Mapped,
            NULL, MAP_FAILED, Words, Base, Mapped
<1>1. Listed!Round(n) = Round(n)
  BY DEF Listed!Round, Round, Listed!ALIGN, ALIGN
<1>2. Listed!Mapped <=> Mapped
  OBVIOUS
<1>3. Listed!Asked = Asked
  BY DEF Listed!Asked, Asked, Listed!Requests, Requests, Listed!Kinds, Kinds, Range, Listed!Range
<1>4. \A m, p : Listed!Hand(m, p, n) => mem' = Filled(m, p, n) /\ held' = Given(held, p, n)
  BY DEF Listed!Hand, Filled, Given, Listed!UserData, UserData
<1>5. \A m, q, p : Listed!HandListed([mem |-> m, head |-> q], p, n) =>
                /\ mem' = Filled(m, p, n) /\ held' = Given(held, p, n) /\ HEAD' = q
                /\ UNCHANGED <<kind, start_ptr, last_ptr, size>>
  BY <1>4 DEF Listed!HandListed
<1>6. \A p : Listed!Drop(p) => held' = Restrict(held, DOMAIN held \ {p})
  BY DEF Listed!Drop, Listed!Restrict, Restrict
<1>7. \A m, b, w, v : Listed!Tag(m, b, w, v) = Tagged!Tag(m, b, w, v)
  BY DEF Listed!Tag, Tagged!Tag
<1>8. (UNCHANGED Listed!arenaVars) => UNCHANGED arenaVars
  BY DEF Listed!arenaVars, arenaVars, Listed!heapVars, heapVars
<1> QED
  BY <1>1, <1>2, <1>3, <1>4, <1>5, <1>6, <1>7, <1>8

(* alloc_init, alloc_deinit and alloc_reset of the explicit list, in this  *)
(* module's terms.                                                         *)
LEMMA ListedLifecycle ==
    ASSUME (\E n \in DOMAIN Workload[kind] : Listed!ListInit(n)) \/ Listed!AllocInitFails
             \/ Listed!ListDeinit \/ Listed!ListReset
    PROVE  \/ \E k \in DOMAIN Workload[kind] : start_ptr = NULL /\ (~Mapped => Fresher(k, Base))
           \/ AllocInitFails \/ AllocDeinit \/ AllocReset
<1> USE DEF Listed!NULL, Listed!MAP_FAILED, Listed!Words, Listed!Base, Listed!Mapped,
            NULL, MAP_FAILED, Words, Base, Mapped
<1> QED
  BY DEF Listed!ListInit, Listed!ListDeinit, Listed!ListReset, Listed!AllocInit, Fresher,
         Listed!AllocInitFails, AllocInitFails, Listed!AllocDeinit, AllocDeinit, Listed!AllocReset, AllocReset

(* What a caller of the explicit list asks for.                            *)
LEMMA ListedAsked ==
    ASSUME ArenaInv, Mapped, kind = "explicit", Nonzero, NEW n \in Asked
    PROVE  \E r \in Nat : r = Round(n) /\ n <= r /\ r >= 2 /\ n \in Nat
<1>1. n \in Nat /\ n # 0
  BY AskedIs DEF Asked, Nonzero, ArenaInv
<1> QED
  BY <1>1, RoundIs

(* Malloc by splitting a block of the list.                                *)
LEMMA ListedSplit ==
    ASSUME ArenaInv, Placed, ListedInv, kind = "explicit", Nonzero, Mapped, NEW n \in Asked, Listed!ListSplit(n)
    PROVE  ArenaInv' /\ Placed' /\ ListedInv' /\ Seen
<1>1. PICK r \in Nat : r = Round(n) /\ n <= r /\ r >= 2 /\ n \in Nat
  BY ListedAsked
<1>2. PICK l \in Nat : /\ l = last_ptr /\ start_ptr = 1 /\ 1 <= l /\ 1 \in Nat
                       /\ size \in Nat /\ l <= 1 + size
  BY TaggedPlaces
<1>3. PICK H : Listing(H, mem, 1, l, held, HEAD)
  BY <1>2 DEF ListedInv
<1>4. PICK b : b = Listed!FirstFit(r)
  OBVIOUS
<1>5. PICK d : d = b + r + 3
  OBVIOUS
<1>6. /\ Listed!Hits(r) # {}
      /\ Listed!CanSplit(b, r)
      /\ Listed!HandListed([Listed!Replace(Listed!Here, b, d) EXCEPT !.mem = Listed!Split(@, b, r)],
                           Listed!Payload(b), n)
  BY <1>1, <1>4, <1>5, ListedIs, Zenon DEF Listed!ListSplit
<1>7. b \in FreeIn(H, mem) /\ mem[b] >= r + 5
  <2>1. Cycle(mem, HEAD, FreeIn(H, mem))
    BY <1>3 DEF Listing
  <2>2. b \in FreeIn(H, mem)
    BY <1>4, <1>6, <2>1, FirstFitIs
  <2>3. mem[b] >= r + 3 + 2
    BY <1>6 DEF Listed!CanSplit, Listed!BlockSize, Listed!ALIGN
  <2> QED
    BY <1>1, <2>2, <2>3
<1>8. PICK m1, q1 :
             /\ Listed!Replace([mem |-> mem, head |-> HEAD], b, d) = [mem |-> m1, head |-> q1]
             /\ \A m2 : m2 = Filled(Tagged!Tag(Tagged!Tag(m1, b, r, 1), d, mem[b] - r - 3, 0), b + 2, n) =>
                  /\ \E J : Listing(J, m2, 1, l, Given(held, b + 2, n), q1)
                  /\ Fresh(held, b + 2, n)
  <2>1. \E m1, q1 : BySplit(mem, 1, l, held, HEAD, b, r, n, d, m1, q1)
    BY <1>1, <1>3, <1>5, <1>7, ListSplits
  <2> QED
    BY <2>1, Zenon DEF BySplit
<1>9. /\ mem' = Filled(Tagged!Tag(Tagged!Tag(m1, b, r, 1), d, mem[b] - r - 3, 0), b + 2, n)
      /\ held' = Given(held, b + 2, n) /\ HEAD' = q1
      /\ UNCHANGED <<kind, start_ptr, last_ptr, size>>
  <2>1. Listed!Replace(Listed!Here, b, d) = [mem |-> m1, head |-> q1]
    BY <1>8 DEF Listed!Here
  <2>2. PICK t : t = Listed!Split(m1, b, r)
    OBVIOUS
  <2>3. t = Tagged!Tag(Tagged!Tag(m1, b, r, 1), d, mem[b] - r - 3, 0)
    BY <1>5, <2>2, ListedIs DEF Listed!Split, Listed!BlockSize
  <2>4. [Listed!Replace(Listed!Here, b, d) EXCEPT !.mem = Listed!Split(@, b, r)] = [mem |-> t, head |-> q1]
    BY <2>1, <2>2
  <2>5. Listed!HandListed([mem |-> t, head |-> q1], b + 2, n)
    BY <1>6, <2>4 DEF Listed!Payload
  <2> QED
    BY <2>3, <2>5, ListedIs
<1>10. (\E J : Listing(J, mem', 1, l, Given(held, b + 2, n), q1)) /\ Fresh(held, b + 2, n)
  BY <1>8, <1>9
<1>11. ListedInv'
  BY <1>2, <1>9, <1>10 DEF ListedInv
<1>12. mem' \in [Words -> WordValues]
  BY <1>10 DEF Listing
<1>13. b + 2 \in Nat /\ 1 <= b + 2 /\ b + 2 + n <= size + 1
  <2>1. Chain(H, mem, 1, l, 3) /\ b \in H
    BY <1>3, <1>7 DEF Listing, Heaped, Laid, FreeIn
  <2>2. b \in Nat /\ 1 <= b /\ mem[b] \in Nat /\ b + 3 + mem[b] <= l
    BY <1>2, <2>1, ChainFacts
  <2> QED
    BY <1>1, <1>2, <1>7, <2>2
<1>14. ArenaInv' /\ Placed' /\ Seen
  <2>1. last_ptr' \in Nat /\ 1 <= last_ptr' /\ last_ptr' <= 1 + size
    BY <1>2, <1>9
  <2> QED
    BY <1>9, <1>10, <1>12, <1>13, <2>1, MallocDone
<1> QED
  BY <1>11, <1>14

(* Malloc by handing out a whole block of the list.                        *)
LEMMA ListedWhole ==
    ASSUME ArenaInv, Placed, ListedInv, kind = "explicit", Nonzero, Mapped, NEW n \in Asked, Listed!ListWhole(n)
    PROVE  ArenaInv' /\ Placed' /\ ListedInv' /\ Seen
<1>1. PICK r \in Nat : r = Round(n) /\ n <= r /\ r >= 2 /\ n \in Nat
  BY ListedAsked
<1>2. PICK l \in Nat : /\ l = last_ptr /\ start_ptr = 1 /\ 1 <= l /\ 1 \in Nat
                       /\ size \in Nat /\ l <= 1 + size
  BY TaggedPlaces
<1>3. PICK H : Listing(H, mem, 1, l, held, HEAD)
  BY <1>2 DEF ListedInv
<1>4. PICK b : b = Listed!FirstFit(r)
  OBVIOUS
<1>5. /\ Listed!Hits(r) # {}
      /\ Listed!HandListed([Listed!Unlink(Listed!Here, b) EXCEPT !.mem = [@ EXCEPT ![b + 1] = 1]],
                           Listed!Payload(b), n)
  BY <1>1, <1>4, ListedIs, Zenon DEF Listed!ListWhole
<1>6. b \in FreeIn(H, mem) /\ mem[b] >= r
  <2>1. Cycle(mem, HEAD, FreeIn(H, mem))
    BY <1>3 DEF Listing
  <2> QED
    BY <1>4, <1>5, <2>1, FirstFitIs
<1>7. b \in Nat /\ 1 <= b /\ mem[b] \in Nat /\ b + 3 + mem[b] <= l /\ n <= mem[b]
  <2>1. Chain(H, mem, 1, l, 3) /\ b \in H
    BY <1>3, <1>6 DEF Listing, Heaped, Laid, FreeIn
  <2>2. b \in Nat /\ 1 <= b /\ mem[b] \in Nat /\ b + 3 + mem[b] <= l
    BY <1>2, <2>1, ChainFacts
  <2> QED
    BY <1>1, <1>6, <2>2
<1>8. PICK m1, q1 :
             /\ Listed!Unlink([mem |-> mem, head |-> HEAD], b) = [mem |-> m1, head |-> q1]
             /\ \A m2 : m2 = Filled([m1 EXCEPT ![b + 1] = 1], b + 2, n) =>
                  /\ \E J : Listing(J, m2, 1, l, Given(held, b + 2, n), q1)
                  /\ Fresh(held, b + 2, n)
  <2>1. \E m1, q1 : ByWhole(mem, 1, l, held, HEAD, b, n, m1, q1)
    BY <1>1, <1>3, <1>6, <1>7, ListWholes
  <2> QED
    BY <2>1, Zenon DEF ByWhole
<1>9. /\ mem' = Filled([m1 EXCEPT ![b + 1] = 1], b + 2, n)
      /\ held' = Given(held, b + 2, n) /\ HEAD' = q1
      /\ UNCHANGED <<kind, start_ptr, last_ptr, size>>
  <2>1. Listed!Unlink(Listed!Here, b) = [mem |-> m1, head |-> q1]
    BY <1>8 DEF Listed!Here
  <2>2. PICK t : t = [m1 EXCEPT ![b + 1] = 1]
    OBVIOUS
  <2>3. [Listed!Unlink(Listed!Here, b) EXCEPT !.mem = [@ EXCEPT ![b + 1] = 1]] = [mem |-> t, head |-> q1]
    BY <2>1, <2>2
  <2>4. Listed!HandListed([mem |-> t, head |-> q1], b + 2, n)
    BY <1>5, <2>3 DEF Listed!Payload
  <2> QED
    BY <2>2, <2>4, ListedIs
<1>10. (\E J : Listing(J, mem', 1, l, Given(held, b + 2, n), q1)) /\ Fresh(held, b + 2, n)
  BY <1>8, <1>9
<1>11. ListedInv'
  BY <1>2, <1>9, <1>10 DEF ListedInv
<1>12. mem' \in [Words -> WordValues]
  BY <1>10 DEF Listing
<1>13. ArenaInv' /\ Placed' /\ Seen
  <2>1. /\ last_ptr' \in Nat /\ 1 <= last_ptr' /\ last_ptr' <= 1 + size
        /\ b + 2 \in Nat /\ 1 <= b + 2 /\ b + 2 + n <= size + 1
    BY <1>1, <1>2, <1>7, <1>9
  <2> QED
    BY <1>9, <1>10, <1>12, <2>1, MallocDone
<1> QED
  BY <1>11, <1>13

(* Malloc by appending a block.                                            *)
LEMMA ListedAppend ==
    ASSUME ArenaInv, Placed, ListedInv, kind = "explicit", Nonzero, NEW n \in Asked, Listed!ListAppend(n)
    PROVE  ArenaInv' /\ Placed' /\ ListedInv' /\ Seen
<1>0. Mapped
  BY ListedIs DEF Listed!ListAppend
<1>1. PICK r \in Nat : r = Round(n) /\ n <= r /\ r >= 2 /\ n \in Nat
  BY <1>0, ListedAsked
<1>2. /\ last_ptr + r + 3 <= start_ptr + size
      /\ last_ptr' = last_ptr + r + 3
      /\ mem' = Filled(Tagged!Tag(mem, last_ptr, r, 1), last_ptr + 2, n)
      /\ held' = Given(held, last_ptr + 2, n) /\ UNCHANGED <<kind, start_ptr, size, HEAD>>
  BY <1>1, ListedIs DEF Listed!ListAppend, Listed!HasRoom, Listed!Payload
<1>3. PICK H : Listing(H, mem, start_ptr, last_ptr, held, HEAD)
  BY <1>0 DEF ListedInv
<1>4. Heaped(H, mem, start_ptr, last_ptr, held) /\ TaggedInv
  BY <1>3 DEF Listing, TaggedInv
<1>5. /\ ArenaInv' /\ Placed' /\ Seen
      /\ Grows(H, mem, start_ptr, last_ptr, held, r, n, mem')
  <2>1. kind \in {"coalescing", "explicit"}
    OBVIOUS
  <2> QED
    BY <1>0, <1>1, <1>2, <1>4, <2>1, TaggedAppend
<1>6. \E J : Listing(J, mem', start_ptr, last_ptr + 3 + r, Given(held, last_ptr + 2, n), HEAD)
  BY <1>1, <1>3, <1>5, ListGrows
<1>7. last_ptr' = last_ptr + 3 + r
  BY <1>1, <1>2, <1>3 DEF Listing
<1>8. ListedInv'
  BY <1>2, <1>6, <1>7 DEF ListedInv
<1> QED
  BY <1>5, <1>8

(* Free: the neighbours it merges leave the list, the result is pushed.    *)
LEMMA ListedFree ==
    ASSUME ArenaInv, Placed, ListedInv, kind = "explicit", NEW p \in DOMAIN held, Listed!ListFree(p)
    PROVE  ArenaInv' /\ Placed' /\ ListedInv' /\ Seen
<1>0. Mapped
  BY ListedIs DEF Listed!ListFree
<1>1. PICK l \in Nat : l = last_ptr /\ start_ptr = 1 /\ 1 <= l /\ 1 \in Nat
  BY <1>0, TaggedPlaces
<1>2. PICK H : Listing(H, mem, 1, l, held, HEAD)
  BY <1>0, <1>1 DEF ListedInv
<1>3. Laid(H, mem, 1, l, 3, held) /\ Chain(H, mem, 1, l, 3) /\ Footed(H, mem) /\ 3 \in Nat
  BY <1>2 DEF Listing, Heaped, Laid
<1>4. PICK b \in H : p = b + 2 /\ p - 2 = b /\ mem[b + 1] # 0
  BY <1>1, <1>3, HeldIs
<1>5. PICK x, y : x = From(mem, 1, b) /\ y = UpTo(mem, l, b)
  OBVIOUS
<1>6. PICK m1, q1, G : Absorbed(H, mem, 1, l, HEAD, b, m1, q1, G)
  BY <1>2, <1>4, <1>5, ListAbsorbs
<1>7. Listed!Absorb(b) = [mem |-> m1, head |-> q1]
  BY <1>1, <1>6 DEF Absorbed, Ahead, Behind, Listed!Absorb, Listed!Here, Listed!MergesFront, Listed!MergesBack,
                    Listed!After, Listed!Before, Listed!Allocated
<1>8. PICK m2 : m2 = Tagged!Tag(m1, x, y - x - 3, 0)
  OBVIOUS
<1>9. PICK m3, q3 : ByGive(1, l, held, b, x, m2, q1, m3, q3)
  BY <1>2, <1>4, <1>5, <1>6, <1>8, ListGives
<1>10. /\ mem' = m3 /\ HEAD' = q3
       /\ held' = Restrict(held, DOMAIN held \ {b + 2})
       /\ UNCHANGED <<kind, start_ptr, last_ptr, size>>
  <2>1. Listed!MergedStart(b) = x /\ Listed!MergedSize(b) = y - x - 3
    <3>1. Tagged!MergedStart(b) = x /\ Tagged!MergedSize(b) = y - x - 3
      BY <1>1, <1>3, <1>5, MergedIs
    <3>2. Listed!MergedStart(b) = Tagged!MergedStart(b) /\ Listed!MergedSize(b) = Tagged!MergedSize(b)
      BY DEF Listed!MergedStart, Tagged!MergedStart, Listed!MergedSize, Tagged!MergedSize,
             Listed!MergesFront, Tagged!MergesFront, Listed!MergesBack, Tagged!MergesBack,
             Listed!After, Tagged!After, Listed!Before, Tagged!Before, Listed!Allocated, Tagged!Allocated,
             Listed!BlockSize, Tagged!BlockSize
    <3> QED
      BY <3>1, <3>2
  <2>2. Listed!Header(p) = b
    BY <1>4 DEF Listed!Header
  <2>3. [Listed!Absorb(b) EXCEPT !.mem = Listed!Tag(@, x, y - x - 3, 0)] = [mem |-> m2, head |-> q1]
    BY <1>7, <1>8, ListedIs
  <2>4. Listed!Push([mem |-> m2, head |-> q1], x) = [mem |-> m3, head |-> q3]
    BY <1>9 DEF ByGive
  <2>5. /\ mem' = Listed!Push([mem |-> m2, head |-> q1], x).mem
        /\ HEAD' = Listed!Push([mem |-> m2, head |-> q1], x).head
        /\ Listed!Drop(p) /\ UNCHANGED <<kind, start_ptr, last_ptr, size>>
    BY <2>1, <2>2, <2>3, Zenon DEF Listed!ListFree
  <2> QED
    BY <1>4, <2>4, <2>5, ListedIs
<1>11. \E J : Listing(J, mem', 1, l, Restrict(held, DOMAIN held \ {b + 2}), q3)
  BY <1>9, <1>10 DEF ByGive
<1>12. ListedInv'
  BY <1>1, <1>10, <1>11 DEF ListedInv
<1>13. mem' \in [Words -> WordValues]
  BY <1>11 DEF Listing
<1> QED
  BY <1>0, <1>4, <1>10, <1>12, <1>13, FreeDone

(* A heap without blocks has an empty list.                                *)
LEMMA NoListing ==
    ASSUME NEW m \in [Words -> WordValues], NEW s \in Nat, 1 <= s
    PROVE  Listing({}, m, s, s, <<>>, NULL)
<1>1. FreeIn({}, m) = {}
  BY DEF FreeIn
<1>2. Cycle(m, NULL, FreeIn({}, m))
  BY <1>1, NoRing
<1>3. s .. s - 1 \subseteq Words
  OBVIOUS
<1> QED
  BY <1>2, <1>3, NoHeap DEF Listing, Roomy

(* A list with a node has an arena.                                        *)
LEMMA HitsMapped ==
    ASSUME ArenaInv, NEW n, Listed!Hits(n) # {}
    PROVE  Mapped
<1>1. HEAD # NULL
  BY DEF Listed!Hits, Listed!Reaches, Listed!NULL, NULL
<1> QED
  BY <1>1 DEF ArenaInv

(* Every step of the explicit list.                                        *)
LEMMA ListedStep ==
    ASSUME ArenaInv, Placed, ListedInv, kind = "explicit", kind \in Kinds, Nonzero, Listed!ListNext
    PROVE  ArenaInv' /\ Placed' /\ ListedInv' /\ Seen
<1>1. CASE \/ \E n \in DOMAIN Workload[kind] : start_ptr = NULL /\ (~Mapped => Fresher(n, Base))
           \/ AllocInitFails \/ AllocDeinit \/ AllocReset
  <2>1. /\ ArenaInv' /\ Placed' /\ Seen
        /\ Mapped' => last_ptr' = start_ptr' /\ held' = <<>> /\ HEAD' = NULL
    <3>1. CASE \E n \in DOMAIN Workload[kind] : start_ptr = NULL /\ (~Mapped => Fresher(n, Base))
      <4>1. PICK n \in DOMAIN Workload[kind] : start_ptr = NULL /\ (~Mapped => Fresher(n, Base))
        BY <3>1
      <4>2. ~Mapped
        BY <4>1, SizeIs DEF Placed, Start, Base, NULL, ArenaInv
      <4>3. Fresher(n, Start(kind, n))
        BY <4>1, <4>2 DEF Start
      <4> QED
        BY <4>3, Created
    <3>2. CASE AllocInitFails \/ AllocDeinit \/ AllocReset
      BY <3>2, Ended
    <3> QED
      BY <1>1, <3>1, <3>2
  <2>2. Mapped' => start_ptr' \in Nat /\ 1 <= start_ptr'
    BY <2>1, SizeIs DEF Placed, Start, Base, ArenaInv
  <2>3. mem' \in [Words -> WordValues]
    BY <2>1 DEF ArenaInv
  <2>4. ListedInv'
    BY <2>1, <2>2, <2>3, NoListing DEF ListedInv
  <2> QED
    BY <2>1, <2>4
<1>2. CASE UNCHANGED arenaVars
  <2>1. ListedInv'
    BY <1>2 DEF ListedInv, arenaVars, heapVars, Mapped
  <2> QED
    BY <1>2, <2>1, Refused
<1>3. CASE \E n \in Asked : Listed!ListSplit(n) \/ Listed!ListWhole(n)
  <2>1. PICK n \in Asked : Listed!ListSplit(n) \/ Listed!ListWhole(n)
    BY <1>3
  <2>2. Mapped
    BY <2>1, HitsMapped DEF Listed!ListSplit, Listed!ListWhole
  <2> QED
    BY <2>1, <2>2, ListedSplit, ListedWhole
<1>4. CASE \E n \in Asked : Listed!ListAppend(n)
  BY <1>4, ListedAppend
<1>5. CASE \E p \in DOMAIN held : Listed!ListFree(p)
  BY <1>5, ListedFree
<1>6. \/ \/ \E n \in DOMAIN Workload[kind] : Listed!ListInit(n)
         \/ Listed!AllocInitFails \/ Listed!ListDeinit \/ Listed!ListReset
      \/ UNCHANGED arenaVars
      \/ \E n \in Asked : Listed!ListSplit(n) \/ Listed!ListWhole(n)
      \/ \E n \in Asked : Listed!ListAppend(n)
      \/ \E p \in DOMAIN held : Listed!ListFree(p)
  BY ListedIs DEF Listed!ListNext, Listed!ListNull, Listed!FreeRejected
<1> QED
  BY <1>1, <1>2, <1>3, <1>4, <1>5, <1>6, ListedLifecycle

-----------------------------------------------------------------------------
(* All allocators                                                          *)

(* The inductive invariant: what holds of every allocator, and what holds  *)
(* of the one the program was linked with.                                 *)
HeapInv == /\ ArenaInv
           /\ kind \in {"bump", "cpp_arena"} => BumpInv
           /\ kind = "implicit" => Placed /\ ImplicitInv
           /\ kind = "improved" => Placed /\ ImprovedInv
           /\ kind = "coalescing" => Placed /\ TaggedInv
           /\ kind = "explicit" => Placed /\ ListedInv
           /\ Mapped => kind \in {"bump", "cpp_arena", "implicit", "improved", "coalescing", "explicit"}

(* No step exchanges the allocator.                                        *)
LEMMA KindStays ==
    ASSUME HeapNext
    PROVE  kind' = kind
<1>1. ASSUME Bump!Next \/ Bump!ArenaNext PROVE kind' = kind
  BY <1>1 DEF Bump!Next, Bump!ArenaNext, Bump!AllocInitBump, Bump!AllocInitBumpFails, Bump!AllocDeinitBump,
       Bump!AllocResetBump, Bump!MallocBump, Bump!MallocBumpNull, Bump!FreeBump, Bump!Construct, Bump!Destroy,
       Bump!Alloc, Bump!arenaVars
<1>2. ASSUME Implicit!Next PROVE kind' = kind
  BY <1>2 DEF Implicit!Next, Implicit!Lifecycle, Implicit!AllocInit, Implicit!AllocInitFails,
       Implicit!AllocDeinit, Implicit!AllocReset, Implicit!MallocReuse, Implicit!MallocAppend,
       Implicit!MallocNull, Implicit!AllocFree, Implicit!FreeRejected, Implicit!arenaVars
<1>3. ASSUME Improved!Next PROVE kind' = kind
  BY <1>3 DEF Improved!Next, Improved!AllocInitTwo, Improved!AllocInitFails, Improved!AllocInitDataFails,
       Improved!AllocDeinit, Improved!AllocReset, Improved!MallocReuse, Improved!MallocAppend,
       Improved!MallocFull, Improved!AllocFree, Improved!FreeRejected, Improved!arenaVars
<1>4. ASSUME Tagged!Next PROVE kind' = kind
  BY <1>4 DEF Tagged!Next, Tagged!Lifecycle, Tagged!AllocInit, Tagged!AllocInitFails,
       Tagged!AllocDeinit, Tagged!AllocReset, Tagged!MallocSplit, Tagged!MallocWhole, Tagged!MallocAppend,
       Tagged!MallocNull, Tagged!AllocFree, Tagged!FreeRejected, Tagged!arenaVars
<1>5. ASSUME Listed!ListNext PROVE kind' = kind
  BY <1>5 DEF Listed!ListNext, Listed!ListInit, Listed!ListDeinit, Listed!ListReset, Listed!AllocInit,
       Listed!AllocInitFails, Listed!AllocDeinit, Listed!AllocReset, Listed!ListSplit, Listed!ListWhole,
       Listed!ListAppend, Listed!ListNull, Listed!ListFree, Listed!FreeRejected, Listed!HandListed,
       Listed!arenaVars
<1> QED
  BY <1>1, <1>2, <1>3, <1>4, <1>5 DEF HeapNext

(* It holds before the first call.                                         *)
LEMMA HeapInit == AllocatorsInit => HeapInv
<1> SUFFICES ASSUME AllocatorsInit PROVE HeapInv
  OBVIOUS
<1>1. /\ kind \in Kinds \cup {"pool"} /\ mem = [a \in Words |-> 0] /\ start_ptr = NULL
      /\ last_ptr = NULL /\ HEAD = NULL /\ held = <<>>
  BY DEF AllocatorsInit, Unused
<1>2. ~Mapped
  BY <1>1 DEF Mapped
<1>3. ArenaInv
  <2>1. mem \in [Words -> WordValues]
    BY <1>1 DEF WordValues
  <2> QED
    BY <1>1, <1>2, <2>1 DEF ArenaInv
<1> QED
  BY <1>1, <1>2, <1>3 DEF HeapInv, BumpInv, Placed, ImplicitInv, ImprovedInv, TaggedInv, ListedInv

(* Every call keeps it, and is seen as it should be.                       *)
LEMMA HeapStep ==
    ASSUME HeapInv, Nonzero, [AllocatorsNext]_<<poolVars, arenaVars>>
    PROVE  HeapInv' /\ Seen
<1>1. CASE UNCHANGED arenaVars
  <2>1. UNCHANGED <<kind, mem, start_ptr, last_ptr, size, HEAD, held>>
    BY <1>1 DEF arenaVars, heapVars
  <2>2. /\ Mapped' <=> Mapped
        /\ BumpInv' <=> BumpInv
        /\ Placed' <=> Placed
        /\ ImplicitInv' <=> ImplicitInv
    BY <2>1 DEF Mapped, BumpInv, Placed, ImplicitInv
  <2>3. /\ ImprovedInv' <=> ImprovedInv
        /\ TaggedInv' <=> TaggedInv
        /\ ListedInv' <=> ListedInv
    BY <2>1, <2>2 DEF ImprovedInv, TaggedInv, ListedInv
  <2>4. ArenaInv' /\ Seen
    BY <1>1, Refused DEF HeapInv
  <2> QED
    BY <2>1, <2>2, <2>3, <2>4 DEF HeapInv
<1>2. CASE HeapNext
  <2>1. ArenaInv /\ kind' = kind
    BY <1>2, KindStays DEF HeapInv
  <2>2. /\ kind \in {"bump", "cpp_arena", "implicit", "improved", "coalescing", "explicit"}
        /\ kind \in Kinds
    BY <1>2, <2>1 DEF HeapNext, ArenaInv
  <2>3. CASE kind \in {"bump", "cpp_arena"}
    <3>1. BumpInv /\ (Bump!Next \/ Bump!ArenaNext) /\ kind # "explicit"
      BY <1>2, <2>3 DEF HeapNext, HeapInv
    <3>2. ArenaInv' /\ BumpInv' /\ Seen
      BY <2>1, <2>2, <3>1, BumpStep
    <3> QED
      BY <2>1, <2>3, <3>2 DEF HeapInv
  <2>4. CASE kind = "implicit"
    <3>1. Placed /\ ImplicitInv /\ Implicit!Next
      BY <1>2, <2>4 DEF HeapNext, HeapInv
    <3>2. ArenaInv' /\ Placed' /\ ImplicitInv' /\ Seen
      BY <2>1, <2>2, <2>4, <3>1, ImplicitStep
    <3> QED
      BY <2>1, <2>4, <3>2 DEF HeapInv
  <2>5. CASE kind = "improved"
    <3>1. Placed /\ ImprovedInv /\ Improved!Next
      BY <1>2, <2>5 DEF HeapNext, HeapInv
    <3>2. ArenaInv' /\ Placed' /\ ImprovedInv' /\ Seen
      BY <2>1, <2>2, <2>5, <3>1, ImprovedStep
    <3> QED
      BY <2>1, <2>5, <3>2 DEF HeapInv
  <2>6. CASE kind = "coalescing"
    <3>1. Placed /\ TaggedInv /\ Tagged!Next
      BY <1>2, <2>6 DEF HeapNext, HeapInv
    <3>2. ArenaInv' /\ Placed' /\ TaggedInv' /\ Seen
      BY <2>1, <2>2, <2>6, <3>1, TaggedStep
    <3> QED
      BY <2>1, <2>6, <3>2 DEF HeapInv
  <2>7. CASE kind = "explicit"
    <3>1. Placed /\ ListedInv /\ Listed!ListNext
      BY <1>2, <2>7 DEF HeapNext, HeapInv
    <3>2. ArenaInv' /\ Placed' /\ ListedInv' /\ Seen
      BY <2>1, <2>2, <2>7, <3>1, ListedStep
    <3> QED
      BY <2>1, <2>7, <3>2 DEF HeapInv
  <2> QED
    BY <2>2, <2>3, <2>4, <2>5, <2>6, <2>7
<1> QED
  BY <1>1, <1>2 DEF AllocatorsNext

(* What the caller sees of a laid chain of blocks.                         *)
LEMMA LaidHeld ==
    ASSUME NEW s \in Nat, NEW l \in Nat, NEW k \in Nat, NEW m, NEW H, NEW hd, Laid(H, m, s, l, k, hd),
           NEW p \in DOMAIN hd
    PROVE  /\ hd[p] \in Nat /\ hd[p] <= m[p - 2]
           /\ \A a \in p .. p + hd[p] - 1 : m[a] = UserData
<1>1. PICK b \in H : p = b + 2 /\ p - 2 = b /\ m[b + 1] # 0 /\ b \in Nat
  BY HeldIs
<1>2. Sound(b, m, hd)
  BY DEF Laid
<1>3. PICK h : h = hd[p]
  OBVIOUS
<1>4. h \in Nat /\ h <= m[b] /\ \A a \in b + 2 .. b + 1 + h : m[a] = UserData
  BY <1>1, <1>2, <1>3 DEF Sound
<1>5. b + 1 + h = p + h - 1
  BY <1>1, <1>4
<1> QED
  BY <1>1, <1>3, <1>4, <1>5

(* The bump allocators' part of the properties.                            *)
LEMMA BumpGood ==
    ASSUME ArenaInv, BumpInv
    PROVE  /\ Bump!BelowPointer
           /\ \A p \in DOMAIN held : \A a \in p .. p + held[p] - 1 : mem[a] = UserData
           /\ \A p \in DOMAIN held : held[p] <= held[p]
<1>1. \A p \in DOMAIN held : Mapped /\ held[p] \in Nat
  BY DEF ArenaInv, BumpInv
<1>2. Bump!Mapped <=> Mapped
  BY DEF Bump!Mapped, Mapped, Bump!NULL, NULL, Bump!MAP_FAILED, MAP_FAILED
<1>3. Bump!BelowPointer
  <2>1. Mapped => last_ptr <= start_ptr + size
    BY SizeIs DEF BumpInv, ArenaInv, Base
  <2> QED
    BY <1>2, <2>1 DEF Bump!BelowPointer, BumpInv
<1>4. \A p \in DOMAIN held : \A a \in p .. p + held[p] - 1 : mem[a] = UserData
  BY <1>1 DEF BumpInv
<1> QED
  BY <1>1, <1>3, <1>4

(* The implicit list's part.                                               *)
LEMMA ImplicitGood ==
    ASSUME ArenaInv, Placed, ImplicitInv, kind = "implicit"
    PROVE  /\ Implicit!Tiled /\ Implicit!InUse = DOMAIN held
           /\ \A p \in DOMAIN held : /\ held[p] <= Implicit!Room(p)
                                     /\ \A a \in p .. p + held[p] - 1 : mem[a] = UserData
<1>1. CASE ~Mapped
  <2>1. Implicit!Headers = {} /\ held = <<>>
    BY <1>1, ImplicitHeadersIs DEF ArenaInv
  <2> QED
    BY <2>1 DEF Implicit!Tiled, Implicit!InUse
<1>2. CASE Mapped
  <2>1. PICK l \in Nat : l = last_ptr /\ start_ptr = 1 /\ 1 \in Nat /\ Readable(mem, 1, l)
    BY <1>2, TaggedPlaces
  <2>2. PICK H : Laid(H, mem, 1, l, 2, held)
    BY <1>2, <2>1 DEF ImplicitInv
  <2>3. Chain(H, mem, 1, l, 2) /\ 2 \in Nat /\ 2 >= 2 /\ DOMAIN held = Owned(H, mem)
    BY <2>2 DEF Laid
  <2>4. Implicit!Headers = H
    BY <1>2, <2>1, <2>3, WalkIs, ImplicitHeadersIs
  <2>5. Implicit!Tiled
    <3>1. \A b \in H : mem[b] >= 0 /\ b + 2 + mem[b] <= l
      BY <2>1, <2>3, ChainFacts
    <3> QED
      BY <2>1, <2>4, <3>1 DEF Implicit!Tiled, Implicit!Following
  <2>6. Implicit!InUse = DOMAIN held
    BY <2>3, <2>4 DEF Implicit!InUse, Owned, Implicit!Allocated
  <2>7. \A p \in DOMAIN held : /\ held[p] <= Implicit!Room(p)
                               /\ \A a \in p .. p + held[p] - 1 : mem[a] = UserData
    BY <2>1, <2>2, <2>3, LaidHeld DEF Implicit!Room
  <2> QED
    BY <2>5, <2>6, <2>7
<1> QED
  BY <1>1, <1>2

(* The improved list's part.                                               *)
LEMMA ImprovedGood ==
    ASSUME ArenaInv, Placed, ImprovedInv, kind = "improved"
    PROVE  /\ Improved!Tiled /\ Improved!InUse = DOMAIN held
           /\ \A p \in DOMAIN held : /\ held[p] <= Improved!Room(p)
                                     /\ \A a \in p .. p + held[p] - 1 : mem[a] = UserData
<1>0. Improved!Entries = EntriesOf(start_ptr, last_ptr) /\ Improved!Base = 1
  BY ImprovedIs
<1>1. CASE ~Mapped
  <2>1. start_ptr \in {0, -1} /\ last_ptr \in {0, -1}
    BY <1>1 DEF Placed, Mapped, NULL, MAP_FAILED
  <2>2. (last_ptr - start_ptr) \div 3 - 1 < 0 /\ (last_ptr - start_ptr) \div 3 - 1 \in Int
    BY <2>1
  <2>3. EntriesOf(start_ptr, last_ptr) = {}
    BY <2>2 DEF EntriesOf
  <2>4. held = <<>>
    BY <1>1 DEF ArenaInv
  <2> QED
    BY <1>0, <2>3, <2>4 DEF Improved!Tiled, Improved!InUse
<1>2. CASE Mapped
  <2>1. PICK E : E = EntriesOf(start_ptr, last_ptr) /\ Table(E, mem, start_ptr, last_ptr, held)
    BY <1>2 DEF ImprovedInv
  <2>2. start_ptr = 1 + size /\ size \in Nat
    BY <1>2, RegionFacts
  <2>3. \A e \in E : Entry(mem, start_ptr, e)
    BY <2>1 DEF Table
  <2>4. Improved!Tiled
    BY <1>0, <2>1, <2>2, <2>3 DEF Improved!Tiled, Improved!data_start_ptr, Entry
  <2>5. Improved!InUse = DOMAIN held
    BY <1>0, <2>1 DEF Improved!InUse, Table, Lent
  <2>6. ASSUME NEW p \in DOMAIN held
        PROVE  held[p] <= Improved!Room(p) /\ \A a \in p .. p + held[p] - 1 : mem[a] = UserData
    <3>1. PICK e \in E : p = mem[e + 2] /\ mem[e + 1] # 0
      BY <2>1 DEF Table, Lent
    <3>2. Serves(mem, held, e) /\ mem[p - 1] = e
      BY <2>1, <2>3, <3>1 DEF Table, Entry
    <3> QED
      BY <3>1, <3>2 DEF Serves, Improved!Room
  <2> QED
    BY <2>4, <2>5, <2>6
<1> QED
  BY <1>1, <1>2

(* The part of the boundary-tagged lists.                                  *)
LEMMA TaggedGood ==
    ASSUME ArenaInv, Placed, TaggedInv, kind \in {"coalescing", "explicit"}
    PROVE  /\ Tagged!Tiled /\ Tagged!Merged /\ Tagged!InUse = DOMAIN held
           /\ \A p \in DOMAIN held : /\ held[p] <= Tagged!Room(p)
                                     /\ \A a \in p .. p + held[p] - 1 : mem[a] = UserData
<1>1. CASE ~Mapped
  <2>1. Tagged!Headers = {} /\ held = <<>>
    BY <1>1, TaggedIs DEF ArenaInv
  <2> QED
    BY <2>1 DEF Tagged!Tiled, Tagged!InUse, Tagged!Merged, Tagged!FreeBlocks
<1>2. CASE Mapped
  <2>1. PICK l \in Nat : l = last_ptr /\ start_ptr = 1 /\ 1 \in Nat /\ Readable(mem, 1, l)
    BY <1>2, TaggedPlaces
  <2>2. PICK H : Heaped(H, mem, 1, l, held)
    BY <1>2, <2>1 DEF TaggedInv
  <2>3. /\ Laid(H, mem, 1, l, 3, held) /\ Chain(H, mem, 1, l, 3) /\ 3 \in Nat /\ 3 >= 2
        /\ DOMAIN held = Owned(H, mem) /\ Footed(H, mem) /\ Apart(H, mem, l)
    BY <2>2 DEF Heaped, Laid
  <2>4. Tagged!Headers = H
    BY <1>2, <2>1, <2>3, WalkIs, TaggedIs
  <2>5. Tagged!FreeBlocks = {b \in H : mem[b + 1] = 0}
    BY <2>4 DEF Tagged!FreeBlocks, Tagged!Allocated
  <2>6. \A b \in H : mem[b] >= 0 /\ b + 3 + mem[b] <= l
    BY <2>1, <2>3, ChainFacts
  <2>7. Tagged!Tiled
    BY <2>1, <2>3, <2>4, <2>6 DEF Tagged!Tiled, Tagged!After, Footed, FootAt
  <2>8. Tagged!Merged
    <3>1. ASSUME NEW b \in H, mem[b + 1] = 0, b + 3 + mem[b] < l PROVE mem[b + 3 + mem[b] + 1] # 0
      <4>1. b + 3 + mem[b] # l
        BY <3>1
      <4> QED
        BY <2>3, <3>1, <4>1 DEF Apart
    <3> QED
      BY <2>1, <2>5, <3>1 DEF Tagged!Merged, Tagged!After, Tagged!Allocated
  <2>9. Tagged!InUse = DOMAIN held
    <3>1. Tagged!Headers \ Tagged!FreeBlocks = {h \in H : mem[h + 1] # 0}
      BY <2>4, <2>5
    <3> QED
      BY <2>3, <3>1 DEF Tagged!InUse, Owned, Tagged!Payload
  <2>10. \A p \in DOMAIN held : /\ held[p] <= Tagged!Room(p)
                                /\ \A a \in p .. p + held[p] - 1 : mem[a] = UserData
    BY <2>1, <2>3, LaidHeld DEF Tagged!Room, Tagged!BlockSize, Tagged!Header
  <2> QED
    BY <2>7, <2>8, <2>9, <2>10
<1> QED
  BY <1>1, <1>2

(* The explicit list is a boundary-tagged heap, and links its free blocks. *)
LEMMA ListedGood ==
    ASSUME ArenaInv, Placed, ListedInv, kind = "explicit"
    PROVE  TaggedInv /\ Listed!Linked
<1>1. TaggedInv
  BY DEF ListedInv, TaggedInv, Listing
<1>2. Listed!Headers = Tagged!Headers
  BY Zenon DEF Listed!Headers, Tagged!Headers, Listed!Addresses, Tagged!Addresses, Listed!After, Tagged!After,
     Listed!Mapped, Tagged!Mapped, Listed!NULL, Tagged!NULL, Listed!MAP_FAILED, Tagged!MAP_FAILED
<1>3. Listed!FreeBlocks = {b \in Tagged!Headers : mem[b + 1] = 0}
  BY <1>2 DEF Listed!FreeBlocks, Listed!Allocated
<1>4. Listed!FreeBlocks = {} /\ HEAD = NULL => Listed!Linked
  BY Zenon DEF Listed!Linked, Listed!NULL, NULL
<1>5. CASE ~Mapped
  <2>1. Listed!FreeBlocks = {} /\ HEAD = NULL
    BY <1>3, <1>5, TaggedIs DEF ArenaInv
  <2> QED
    BY <1>1, <1>4, <2>1
<1>6. CASE Mapped
  <2>1. PICK l \in Nat : l = last_ptr /\ start_ptr = 1 /\ 1 \in Nat /\ Readable(mem, 1, l)
    BY <1>6, TaggedPlaces
  <2>2. PICK H : Listing(H, mem, 1, l, held, HEAD)
    BY <1>6, <2>1 DEF ListedInv
  <2>3. Chain(H, mem, 1, l, 3) /\ 3 \in Nat /\ 3 >= 2
    BY <2>2 DEF Listing, Heaped, Laid
  <2>4. Tagged!Headers = H
    BY <1>6, <2>1, <2>3, WalkIs, TaggedIs
  <2>5. PICK F : F = Listed!FreeBlocks
    OBVIOUS
  <2>6. Cycle(mem, HEAD, F)
    BY <1>3, <2>2, <2>4, <2>5 DEF Listing, FreeIn
  <2>7. CASE F = {}
    BY <1>1, <1>4, <2>5, <2>6, <2>7 DEF Cycle
  <2>8. CASE F # {}
    <3>1. /\ HEAD \in F
          /\ \A b \in F : mem[b + 3] \in F /\ mem[mem[b + 3] + 2] = b
          /\ F = {Listed!Node[k] : k \in 0 .. Cardinality(F) - 1}
      BY <2>6, <2>8, CycleIs
    <3>2. Listed!FreeBlocks # {} /\ HEAD \in Listed!FreeBlocks
      BY <2>5, <2>8, <3>1
    <3>3. \A b \in Listed!FreeBlocks : /\ Listed!NextOf(mem, b) \in Listed!FreeBlocks
                                       /\ Listed!PrevOf(mem, Listed!NextOf(mem, b)) = b
      BY <2>5, <3>1 DEF Listed!NextOf, Listed!PrevOf
    <3>4. Listed!FreeBlocks = {Listed!Node[k] : k \in 0 .. Listed!Cardinality(Listed!FreeBlocks) - 1}
      <4>1. Listed!Cardinality(F) = Cardinality(F)
        BY Zenon DEF Listed!Cardinality, Cardinality
      <4> QED
        BY <2>5, <3>1, <4>1, Zenon
    <3> QED
      BY <1>1, <3>2, <3>3, <3>4, Zenon DEF Listed!Linked
  <2> QED
    BY <2>7, <2>8
<1> QED
  BY <1>1, <1>5, <1>6

(* The invariant of all allocators holds in every state.                   *)
THEOREM HeapCorrect ==
    ASSUME Nonzero
    PROVE  AllocatorsSpec => []HeapInv
<1>1. HeapInv /\ [AllocatorsNext]_<<poolVars, arenaVars>> => HeapInv'
  BY HeapStep
<1> QED
  BY <1>1, HeapInit, PTL DEF AllocatorsSpec

(* THE BLOCKS TILE THE ARENA, for every arena size and every sequence of   *)
(* calls: in all six allocators each walk by sizes lands on headers and    *)
(* ends at last_ptr, so alloc_free finds the header of what it is given    *)
(* and merging reads tags, never payload.                                  *)
THEOREM BlocksTileCorrect ==
    ASSUME Nonzero
    PROVE  AllocatorsSpec => []BlocksTile
<1>1. HeapInv => BlocksTile
  <2> SUFFICES ASSUME HeapInv PROVE BlocksTile
    OBVIOUS
  <2>1. ArenaInv
    BY DEF HeapInv
  <2>2. kind \in {"bump", "cpp_arena"} => Bump!BelowPointer
    BY <2>1, BumpGood DEF HeapInv
  <2>3. kind = "implicit" => Implicit!Tiled
    BY <2>1, ImplicitGood DEF HeapInv
  <2>4. kind = "improved" => Improved!Tiled
    BY <2>1, ImprovedGood DEF HeapInv
  <2>5. kind \in {"coalescing", "explicit"} => Tagged!Tiled
    BY <2>1, TaggedGood, ListedGood DEF HeapInv
  <2> QED
    BY <2>2, <2>3, <2>4, <2>5 DEF BlocksTile
<1> QED
  BY <1>1, HeapCorrect, PTL

(* WHAT IS HELD STAYS INTACT: the allocated blocks are exactly the ones    *)
(* the caller holds, each as large as asked for, and no alloc_malloc or    *)
(* alloc_free writes a tag, an entry or a link into them.                  *)
THEOREM HeldIntactCorrect ==
    ASSUME Nonzero
    PROVE  AllocatorsSpec => []HeldIntact
<1>1. HeapInv => HeldIntact
  <2> SUFFICES ASSUME HeapInv PROVE HeldIntact
    OBVIOUS
  <2>1. ArenaInv
    BY DEF HeapInv
  <2>2. CASE kind = "implicit"
    <3>1. InUse = Implicit!InUse /\ \A p : Room(p) = Implicit!Room(p)
      BY <2>2 DEF InUse, Room
    <3> QED
      BY <2>1, <2>2, <3>1, ImplicitGood DEF HeapInv, HeldIntact
  <2>3. CASE kind = "improved"
    <3>1. InUse = Improved!InUse /\ \A p : Room(p) = Improved!Room(p)
      BY <2>3 DEF InUse, Room
    <3> QED
      BY <2>1, <2>3, <3>1, ImprovedGood DEF HeapInv, HeldIntact
  <2>4. CASE kind \in {"coalescing", "explicit"}
    <3>1. InUse = Tagged!InUse /\ \A p : Room(p) = Tagged!Room(p)
      BY <2>4 DEF InUse, Room
    <3>2. Placed /\ TaggedInv
      BY <2>1, <2>4, ListedGood DEF HeapInv
    <3> QED
      BY <2>1, <2>4, <3>1, <3>2, TaggedGood DEF HeldIntact
  <2>5. CASE kind \notin {"implicit", "improved", "coalescing", "explicit"}
    <3>1. InUse = DOMAIN held /\ \A p : Room(p) = held[p]
      BY <2>5 DEF InUse, Room
    <3>2. \A p \in DOMAIN held : /\ held[p] <= held[p]
                                 /\ \A a \in p .. p + held[p] - 1 : mem[a] = UserData
      <4>1. CASE kind \in {"bump", "cpp_arena"}
        BY <2>1, <4>1, BumpGood DEF HeapInv
      <4>2. CASE kind \notin {"bump", "cpp_arena"}
        BY <2>1, <2>5, <4>2 DEF HeapInv, ArenaInv
      <4> QED
        BY <4>1, <4>2
    <3> QED
      BY <3>1, <3>2 DEF HeldIntact
  <2> QED
    BY <2>2, <2>3, <2>4, <2>5
<1> QED
  BY <1>1, HeapCorrect, PTL

(* NO TWO FREE BLOCKS ARE NEIGHBOURS: what the comment in alloc_free of    *)
(* the coalescing list relies on when it looks at one block on each side.  *)
THEOREM NoFreeNeighboursCorrect ==
    ASSUME Nonzero
    PROVE  AllocatorsSpec => []NoFreeNeighbours
<1>1. HeapInv => NoFreeNeighbours
  BY TaggedGood, ListedGood DEF HeapInv, NoFreeNeighbours
<1> QED
  BY <1>1, HeapCorrect, PTL

(* THE LIST IS THE FREE BLOCKS: the circular list from HEAD that           *)
(* alloc_malloc searches and alloc_free pushes to holds every free block   *)
(* and no other, and its prev links invert its next links.                 *)
THEOREM ListCorrect ==
    ASSUME Nonzero
    PROVE  AllocatorsSpec => []ListIsFreeBlocks
<1>1. HeapInv => ListIsFreeBlocks
  BY ListedGood DEF HeapInv, ListIsFreeBlocks
<1> QED
  BY <1>1, HeapCorrect, PTL

(* EVERY ALLOCATOR IS A HEAP: seen from its callers each call is a step of *)
(* the abstract heap, which hands out words of the arena that overlap      *)
(* nothing held. For requests of at least a word: of 0 words the bump      *)
(* allocator hands out the same address twice, and the implicit lists one  *)
(* past the arena.                                                         *)
THEOREM HeapRefines ==
    ASSUME 0 \notin Requests
    PROVE  AllocatorsSpec => HeapSpec
<1>1. Nonzero
  <2>1. ASSUME "explicit" \in Kinds, NEW n \in DOMAIN Workload["explicit"] PROVE 0 \notin Workload["explicit"][n]
    BY <2>1, SizeIs
  <2> QED
    BY <2>1 DEF Nonzero
<1>2. AllocatorsInit => AbstractHeap!Init
  BY DEF AllocatorsInit, Unused, AbstractHeap!Init, MappedWords, Mapped
<1>3. Seen => [AbstractHeap!Next]_AbstractHeap!vars
  <2>1. CASE MappedWords' = MappedWords /\ held' = held
    BY <2>1 DEF AbstractHeap!vars
  <2>2. CASE MappedWords = {} /\ held' = <<>> /\ \E n \in Sizes : MappedWords' = Base .. Base + n - 1
    BY <2>2 DEF AbstractHeap!Next, AbstractHeap!Create, AbstractHeap!Region
  <2>3. CASE (MappedWords' = {} \/ MappedWords' = MappedWords) /\ held' = <<>>
    BY <2>3 DEF AbstractHeap!Next, AbstractHeap!Destroy, AbstractHeap!Clear
  <2>4. CASE /\ MappedWords' = MappedWords
             /\ \E p, n \in Nat : /\ n \in Requests
                                  /\ held' = Given(held, p, n)
                                  /\ 0 \notin Requests => Fresh(held, p, n)
                                  /\ p .. p + n - 1 \subseteq MappedWords
    <3>1. PICK p, n \in Nat : /\ n \in Requests
                              /\ held' = Given(held, p, n)
                              /\ Fresh(held, p, n)
                              /\ p .. p + n - 1 \subseteq MappedWords
      BY <2>4
    <3>2. p \in MappedWords
      <4>1. n # 0
        BY <3>1
      <4>2. p \in p .. p + n - 1
        BY <3>1, <4>1
      <4> QED
        BY <3>1, <4>2
    <3>3. AbstractHeap!Malloc(p, n)
      BY <2>4, <3>1, Zenon DEF AbstractHeap!Malloc, AbstractHeap!Region, Given, Fresh
    <3> QED
      BY <3>1, <3>2, <3>3, Zenon DEF AbstractHeap!Next
  <2>5. CASE /\ MappedWords' = MappedWords
             /\ \E p \in DOMAIN held : held' = Restrict(held, DOMAIN held \ {p})
    BY <2>5 DEF AbstractHeap!Next, AbstractHeap!Free, AbstractHeap!Restrict, Restrict
  <2> QED
    BY <2>1, <2>2, <2>3, <2>4, <2>5, Zenon DEF Seen
<1>4. HeapInv /\ [AllocatorsNext]_<<poolVars, arenaVars>> => [AbstractHeap!Next]_AbstractHeap!vars
  BY <1>1, <1>3, HeapStep
<1>5. AllocatorsSpec => []HeapInv
  BY <1>1, HeapCorrect
<1> QED
  BY <1>2, <1>4, <1>5, PTL DEF AllocatorsSpec, HeapSpec, AbstractHeap!Spec
=============================================================================

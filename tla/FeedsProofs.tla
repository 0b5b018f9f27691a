---------------------------- MODULE FeedsProofs -----------------------------
(***************************************************************************)
(* The networking exercises, proved for every number of clients,           *)
(* messages and characters: what the echo servers send back, which gaps    *)
(* the multicast subscriber reports and what the framing server prints.    *)
(***************************************************************************)
EXTENDS Feeds, SequenceTheorems, NaturalsInduction, WellFoundedInduction, TLAPS

(* A set of naturals with an element has a least one, which Min chooses.   *)
LEMMA LeastOf ==
    ASSUME NEW T, T \subseteq Nat, T # {}
    PROVE  \E x \in T : \A y \in T : x <= y
<1> DEFINE R == {ss \in Nat \X Nat : ss[1] < ss[2]}
<1>1. IsWellFoundedOn(R, Nat)
  BY NatLessThanWellFounded DEF OpToRel
<1>2. \A x, y \in Nat : <<y, x>> \in R <=> y < x
  OBVIOUS
<1> HIDE DEF R
<1>3. PICK x \in T : \A y \in T : ~(<<y, x>> \in R)
  BY <1>1, WFMin
<1>4. x \in Nat /\ \A y \in T : y \in Nat /\ ~(y < x)
  BY <1>2, <1>3
<1> QED
  BY <1>4

(* Induction on the naturals.                                              *)
LEMMA AllOf ==
    ASSUME NEW T, 0 \in T, \A n \in Nat : n \in T => n + 1 \in T
    PROVE  Nat \subseteq T
<1> SUFFICES ASSUME Nat \ T # {} PROVE FALSE
  OBVIOUS
<1>1. PICK x \in Nat \ T : \A y \in Nat \ T : x <= y
  <2>1. Nat \ T \subseteq Nat
    OBVIOUS
  <2> QED
    BY <2>1, LeastOf
<1>2. x # 0 /\ x - 1 \in Nat /\ (x - 1) + 1 = x /\ ~(x <= x - 1)
  BY <1>1
<1>3. x - 1 \in T
  BY <1>1, <1>2
<1> QED
  BY <1>1, <1>2, <1>3
-----------------------------------------------------------------------------
(* The echo servers.  A stream of client c is a sequence of its bytes with *)
(* rising positions.                                                       *)
Stream(s, c) == /\ s \in Seq({c} \X Nat)
                /\ \A i, j \in 1 .. Len(s) : i < j => s[i][2] < s[j][2]
Below(s, t) == \A i \in 1 .. Len(s), j \in 1 .. Len(t) : s[i][2] < t[j][2]
UpTo(s, n) == \A i \in 1 .. Len(s) : s[i][2] <= n

EchoTypeInv ==
    /\ uring \in BOOLEAN
    /\ peer \in [Peers -> {"new", "open", "gone", "closed"}]
    /\ fd \in [Peers -> Descriptors \cup {Echo!NoFd}]
    /\ sent \in [Peers -> Nat]
    /\ up \in [Peers -> Seq(Peers \X Nat)]
    /\ down \in [Peers -> Seq(Peers \X Nat)]

(* A descriptor in use is one client's, and at most one operation of the   *)
(* ring names it.                                                          *)
RingInv ==
    /\ \A c, d \in Peers : fd[c] = fd[d] /\ fd[c] # Echo!NoFd => c = d
    /\ ~uring => ring = {}
    /\ \A op \in ring :
         \/ op = Echo!AcceptOp
         \/ \E c \in Peers : /\ fd[c] # Echo!NoFd
                             /\ \/ op = Echo!ReadOp(fd[c])
                                \/ op = Echo!WriteOp(fd[c], op.buf)
    /\ \A o, p \in ring : o.client_fd = p.client_fd => o = p

(* What was echoed, what is being echoed and what was not read yet are     *)
(* consecutive parts of what the client sent.                              *)
BytesInv ==
    \A c \in Peers :
      /\ Stream(down[c], c) /\ Stream(up[c], c)
      /\ Below(down[c], up[c])
      /\ UpTo(down[c], sent[c]) /\ UpTo(up[c], sent[c])
      /\ \A op \in ring :
           op.type = "Write" /\ op.client_fd = fd[c] =>
             /\ Stream(op.buf, c) /\ UpTo(op.buf, sent[c])
             /\ Below(down[c], op.buf) /\ Below(op.buf, up[c])

EchoInv == EchoTypeInv /\ RingInv /\ BytesInv
-----------------------------------------------------------------------------
(* A part of a stream is a stream.                                         *)
LEMMA PartIs ==
    ASSUME NEW c, NEW s, Stream(s, c), NEW a \in Nat, NEW b \in Nat,
           1 <= a, a <= b + 1, b <= Len(s)
    PROVE  LET t == SubSeq(s, a, b)
           IN  /\ Stream(t, c) /\ Len(t) = b - a + 1
               /\ \A i \in 1 .. Len(t) : a + i - 1 \in 1 .. Len(s) /\ t[i] = s[a + i - 1]
<1>1. PICK t : t = SubSeq(s, a, b)
  OBVIOUS
<1>2. s \in Seq({c} \X Nat) /\ Len(s) \in Nat
  BY DEF Stream
<1>3. t \in Seq({c} \X Nat) /\ Len(t) = b - a + 1
      /\ \A i \in 1 .. b - a + 1 : t[i] = s[a + i - 1]
  BY <1>2, <1>1
<1>4. \A i \in 1 .. Len(t) : a + i - 1 \in 1 .. Len(s) /\ t[i] = s[a + i - 1]
  <2>1. PICK l, m \in Nat : l = Len(s) /\ m = Len(t)
    BY <1>2, <1>3
  <2>2. \A i \in 1 .. m : i \in 1 .. b - a + 1 /\ a + i - 1 \in 1 .. l
    BY <1>2, <1>3, <2>1
  <2> QED
    BY <1>3, <2>1, <2>2
<1>5. ASSUME NEW i \in 1 .. Len(t), NEW j \in 1 .. Len(t), i < j
      PROVE  t[i][2] < t[j][2]
  <2>1. PICK k \in 1 .. Len(s), l \in 1 .. Len(s) : k = a + i - 1 /\ l = a + j - 1
    BY <1>4
  <2>2. k < l /\ t[i] = s[k] /\ t[j] = s[l]
    BY <1>3, <1>4, <1>5, <2>1
  <2> QED
    BY <2>2 DEF Stream
<1>6. Stream(t, c)
  BY <1>3, <1>5 DEF Stream
<1> QED
  BY <1>3, <1>4, <1>1, <1>6

(* A stream followed by a later one is a stream.                           *)
LEMMA JoinedIs ==
    ASSUME NEW c, NEW s, NEW t, Stream(s, c), Stream(t, c), Below(s, t)
    PROVE  LET u == s \o t
           IN  /\ Stream(u, c)
               /\ \A i \in 1 .. Len(u) : \/ i \in 1 .. Len(s) /\ u[i] = s[i]
                                         \/ \E j \in 1 .. Len(t) : u[i] = t[j]
<1>1. PICK u : u = s \o t
  OBVIOUS
<1>2. s \in Seq({c} \X Nat) /\ t \in Seq({c} \X Nat) /\ Len(s) \in Nat /\ Len(t) \in Nat
  BY DEF Stream
<1>3. /\ u \in Seq({c} \X Nat) /\ Len(u) = Len(s) + Len(t)
      /\ \A i \in 1 .. Len(s) + Len(t) : u[i] = IF i <= Len(s) THEN s[i] ELSE t[i - Len(s)]
  BY <1>2, <1>1
<1>4. ASSUME NEW i \in 1 .. Len(u)
      PROVE  \/ i \in 1 .. Len(s) /\ u[i] = s[i]
             \/ \E j \in 1 .. Len(t) : i = Len(s) + j /\ u[i] = t[j]
  <2>1. CASE i <= Len(s)
    BY <2>1, <1>2, <1>3
  <2>2. CASE i > Len(s)
    <3>1. PICK j \in 1 .. Len(t) : j = i - Len(s)
      BY <2>2, <1>2, <1>3
    <3>2. u[i] = t[j] /\ i = Len(s) + j
      BY <3>1, <2>2, <1>2, <1>3
    <3> QED
      BY <3>2
  <2> QED
    BY <1>2, <2>1, <2>2
<1>5. ASSUME NEW i \in 1 .. Len(u), NEW j \in 1 .. Len(u), i < j
      PROVE  u[i][2] < u[j][2]
  <2>1. CASE j \in 1 .. Len(s)
    <3>1. i \in 1 .. Len(s)
      BY <2>1, <1>2, <1>5
    <3>2. i <= Len(s) /\ j <= Len(s)
      BY <3>1, <2>1
    <3>3. u[i] = s[i] /\ u[j] = s[j]
      BY <1>3, <3>2
    <3> QED
      BY <2>1, <3>1, <3>3, <1>5 DEF Stream
  <2>2. CASE j \notin 1 .. Len(s)
    <3>1. PICK m \in 1 .. Len(t) : j = Len(s) + m /\ u[j] = t[m]
      BY <2>2, <1>4
    <3>2. CASE i \in 1 .. Len(s) /\ u[i] = s[i]
      BY <3>1, <3>2 DEF Below
    <3>3. CASE \E l \in 1 .. Len(t) : i = Len(s) + l /\ u[i] = t[l]
      <4>1. PICK l \in 1 .. Len(t) : i = Len(s) + l /\ u[i] = t[l]
        BY <3>3
      <4>2. l < m
        BY <3>1, <4>1, <1>2, <1>5
      <4> QED
        BY <3>1, <4>1, <4>2 DEF Stream
    <3> QED
      BY <3>2, <3>3, <1>4
  <2> QED
    BY <2>1, <2>2
<1>6. Stream(u, c)
  BY <1>3, <1>5 DEF Stream
<1> QED
  BY <1>4, <1>1, <1>6

(* Before the first connection there is no byte anywhere.                  *)
LEMMA EchoStart == Echo!Init => EchoInv
<1> SUFFICES ASSUME Echo!Init PROVE EchoInv
  OBVIOUS
<1>1. /\ uring \in BOOLEAN /\ ring = (IF uring THEN {Echo!AcceptOp} ELSE {})
      /\ peer = [c \in Peers |-> "new"] /\ fd = [c \in Peers |-> Echo!NoFd]
      /\ sent = [c \in Peers |-> 0]
      /\ up = [c \in Peers |-> <<>>] /\ down = [c \in Peers |-> <<>>]
  BY DEF Echo!Init
<1>2. EchoTypeInv
  BY <1>1 DEF EchoTypeInv
<1>3. RingInv
  BY <1>1 DEF RingInv
<1>4. BytesInv
  <2>1. \A op \in ring : op.type # "Write"
    BY <1>1 DEF Echo!AcceptOp
  <2>2. \A c \in Peers : up[c] = <<>> /\ down[c] = <<>>
    BY <1>1
  <2>3. \A c : Stream(<<>>, c) /\ Below(<<>>, <<>>) /\ \A n : UpTo(<<>>, n)
    BY DEF Stream, Below, UpTo
  <2> QED
    BY <2>1, <2>2, <2>3 DEF BytesInv
<1> QED
  BY <1>2, <1>3, <1>4 DEF EchoInv

(* What the operations of the ring look like.                              *)
LEMMA OpsAre ==
    ASSUME EchoInv, NEW op \in ring
    PROVE  /\ op.type = "Write" => op = Echo!WriteOp(op.client_fd, op.buf)
           /\ op = Echo!AcceptOp \/ op.client_fd # Echo!NoFd
           /\ op.client_fd # Echo!NoFd => \E c \in Peers : fd[c] = op.client_fd
  BY DEF EchoInv, RingInv, Echo!AcceptOp, Echo!ReadOp, Echo!WriteOp

(* Steps that leave the bytes and the ring's descriptors alone.            *)
LEMMA BytesKept ==
    ASSUME EchoInv, UNCHANGED <<sent, up, down>>,
           \A c \in Peers : \A op \in ring' :
              op.type = "Write" /\ op.client_fd = fd'[c] =>
                op \in ring /\ op.client_fd = fd[c]
    PROVE  BytesInv'
  BY DEF EchoInv, BytesInv

(* A client that connects or closes leaves the server's state alone.       *)
LEMMA PeerMoves ==
    ASSUME EchoInv, NEW c \in Peers, Echo!Connect(c) \/ Echo!Close(c)
    PROVE  EchoInv'
<1>1. UNCHANGED <<uring, fd, sent, up, down, ring>>
  BY DEF Echo!Connect, Echo!Close
<1>2. peer' \in [Peers -> {"new", "open", "gone", "closed"}]
  BY DEF EchoInv, EchoTypeInv, Echo!Connect, Echo!Close
<1>3. EchoTypeInv'
  BY <1>1, <1>2 DEF EchoInv, EchoTypeInv
<1>4. RingInv'
  BY <1>1 DEF EchoInv, RingInv
<1>5. BytesInv'
  BY <1>1, BytesKept
<1> QED
  BY <1>3, <1>4, <1>5 DEF EchoInv

(* A byte that is sent is above all the client has sent before.            *)
LEMMA SendEcho ==
    ASSUME EchoInv, NEW c \in Peers, Echo!Send(c)
    PROVE  EchoInv'
<1>1. UNCHANGED <<uring, peer, fd, down, ring>>
  BY DEF Echo!Send
<1>2. PICK n \in Nat : n = sent[c]
  BY DEF EchoInv, EchoTypeInv
<1>3. /\ sent' \in [Peers -> Nat] /\ sent'[c] = n + 1
      /\ \A d \in Peers : d # c => sent'[d] = sent[d]
  BY <1>2 DEF EchoInv, EchoTypeInv, Echo!Send
<1>4. PICK s : s = up[c]
  OBVIOUS
<1>5. Stream(s, c) /\ UpTo(s, n) /\ s \in Seq(Peers \X Nat)
  BY <1>2, <1>4 DEF EchoInv, BytesInv, EchoTypeInv
<1>6. PICK b : b = <<c, n + 1>>
  OBVIOUS
<1>7. b \in {c} \X Nat /\ b[2] = n + 1 /\ b \in Peers \X Nat
  BY <1>6
<1>8. /\ up'[c] = Append(s, b) /\ \A d \in Peers : d # c => up'[d] = up[d]
      /\ up' \in [Peers -> Seq(Peers \X Nat)]
  <2>1. up' = [up EXCEPT ![c] = Append(@, b)]
    BY <1>3, <1>6 DEF Echo!Send
  <2>2. Append(s, b) \in Seq(Peers \X Nat)
    BY <1>5, <1>7
  <2> QED
    BY <2>1, <2>2, <1>4 DEF EchoInv, EchoTypeInv
<1>9. PICK t : t = Append(s, b)
  OBVIOUS
<1>10. /\ Len(s) \in Nat /\ Len(t) = Len(s) + 1 /\ t \in Seq({c} \X Nat)
       /\ t[Len(s) + 1] = b /\ \A i \in 1 .. Len(s) : t[i] = s[i]
  BY <1>5, <1>7, <1>9 DEF Stream
<1>11. \A i \in 1 .. Len(t) : \/ i \in 1 .. Len(s) /\ t[i] = s[i] /\ t[i][2] <= n
                              \/ i = Len(s) + 1 /\ t[i][2] = n + 1
  BY <1>5, <1>7, <1>10 DEF UpTo
<1>12. \A i \in 1 .. Len(s) : s[i][2] \in Nat
  BY <1>5 DEF Stream
<1>13. Stream(t, c) /\ UpTo(t, n + 1)
  <2>1. ASSUME NEW i \in 1 .. Len(t), NEW j \in 1 .. Len(t), i < j
        PROVE  t[i][2] < t[j][2]
    <3>1. i \in 1 .. Len(s) /\ t[i] = s[i] /\ t[i][2] <= n
      BY <1>10, <1>11, <2>1
    <3>2. CASE j = Len(s) + 1
      BY <3>1, <3>2, <1>7, <1>10, <1>12
    <3>3. CASE j # Len(s) + 1
      <4>1. j \in 1 .. Len(s) /\ t[j] = s[j]
        BY <3>3, <1>11
      <4> QED
        BY <2>1, <3>1, <4>1, <1>5 DEF Stream
    <3> QED
      BY <3>2, <3>3
  <2>2. UpTo(t, n + 1)
    BY <1>10, <1>11, <1>12 DEF UpTo
  <2> QED
    BY <2>1, <2>2, <1>10 DEF Stream
<1>14. ASSUME NEW r, Stream(r, c), UpTo(r, n), Below(r, s)
       PROVE  Below(r, t) /\ UpTo(r, n + 1)
  <2>1. \A i \in 1 .. Len(r) : r[i][2] \in Nat /\ r[i][2] <= n
    BY <1>14 DEF Stream, UpTo
  <2>2. ASSUME NEW i \in 1 .. Len(r), NEW j \in 1 .. Len(t) PROVE r[i][2] < t[j][2]
    <3>1. CASE j \in 1 .. Len(s) /\ t[j] = s[j]
      BY <3>1, <1>14 DEF Below
    <3>2. CASE t[j][2] = n + 1
      BY <3>2, <2>1
    <3> QED
      BY <3>1, <3>2, <1>11
  <2> QED
    BY <2>1, <2>2 DEF Below, UpTo
<1>15. EchoTypeInv'
  BY <1>1, <1>3, <1>8 DEF EchoInv, EchoTypeInv
<1>16. RingInv'
  BY <1>1 DEF EchoInv, RingInv
<1>17. BytesInv'
  <2> SUFFICES ASSUME NEW d \in Peers
               PROVE  /\ Stream(down[d], d) /\ Stream(up'[d], d)
                      /\ Below(down[d], up'[d])
                      /\ UpTo(down[d], sent'[d]) /\ UpTo(up'[d], sent'[d])
                      /\ \A op \in ring :
                           op.type = "Write" /\ op.client_fd = fd[d] =>
                             /\ Stream(op.buf, d) /\ UpTo(op.buf, sent'[d])
                             /\ Below(down[d], op.buf) /\ Below(op.buf, up'[d])
    BY <1>1 DEF BytesInv
  <2>1. CASE d # c
    BY <2>1, <1>3, <1>8 DEF EchoInv, BytesInv
  <2>2. CASE d = c
    <3>1. /\ Stream(down[c], c) /\ Below(down[c], s) /\ UpTo(down[c], n)
          /\ \A op \in ring : op.type = "Write" /\ op.client_fd = fd[c] =>
               /\ Stream(op.buf, c) /\ UpTo(op.buf, n)
               /\ Below(down[c], op.buf) /\ Below(op.buf, s)
      BY <1>2, <1>4 DEF EchoInv, BytesInv
    <3> QED
      BY <2>2, <3>1, <1>3, <1>8, <1>9, <1>13, <1>14
  <2> QED
    BY <2>1, <2>2
<1> QED
  BY <1>15, <1>16, <1>17 DEF EchoInv

(* accept returns a descriptor nobody has.                                 *)
LEMMA AcceptsIs ==
    ASSUME EchoInv, NEW c \in Peers, Echo!Accepts(c)
    PROVE  \E f \in Descriptors :
             /\ f # Echo!NoFd /\ fd' = [fd EXCEPT ![c] = f]
             /\ \A d \in Peers : fd[d] # f
<1> DEFINE Free == Echo!FreeDescriptors
<1>1. /\ Free # {} /\ Free \subseteq Descriptors
      /\ \A f \in Free : \A d \in Peers : fd[d] # f
  BY DEF Echo!Accepts, Echo!FreeDescriptors
<1>2. Free \subseteq Nat
  BY <1>1, FeedsAssumption
<1>3. PICK x \in Free : \A y \in Free : x <= y
  BY <1>1, <1>2, LeastOf
<1>4. Echo!Min(Free) \in Free
  BY <1>3 DEF Echo!Min
<1>5. Echo!Min(Free) # Echo!NoFd
  BY <1>2, <1>4 DEF Echo!NoFd
<1>6. fd' = [fd EXCEPT ![c] = Echo!Min(Free)]
  BY DEF Echo!Accepts
<1> QED
  BY <1>1, <1>4, <1>5, <1>6

(* A new descriptor is named by no operation but the read submitted for it.*)
LEMMA AcceptEcho ==
    ASSUME EchoInv, NEW c \in Peers, Echo!EpollAccept(c) \/ Echo!CompleteAccept(c)
    PROVE  EchoInv'
<1>1. UNCHANGED <<uring, peer, sent, up, down>> /\ Echo!Accepts(c) /\ fd[c] = Echo!NoFd
  BY DEF Echo!EpollAccept, Echo!CompleteAccept, Echo!Accepts
<1>2. PICK f \in Descriptors : /\ f # Echo!NoFd /\ fd' = [fd EXCEPT ![c] = f]
                               /\ \A d \in Peers : fd[d] # f
  BY <1>1, AcceptsIs
<1>3. /\ fd' \in [Peers -> Descriptors \cup {Echo!NoFd}] /\ fd'[c] = f
      /\ \A d \in Peers : d # c => fd'[d] = fd[d]
  BY <1>2 DEF EchoInv, EchoTypeInv
<1>4. ring' = ring \/ (ring' = ring \cup {Echo!ReadOp(f)} /\ uring)
  BY <1>3 DEF Echo!EpollAccept, Echo!CompleteAccept, EchoInv, RingInv
<1>5. \A op \in ring : (op.client_fd # f /\ op.client_fd # fd[c]) \/ op = Echo!AcceptOp
  BY <1>1, <1>2, OpsAre
<1>6. Echo!ReadOp(f).client_fd = f /\ Echo!ReadOp(f).type = "Read"
      /\ Echo!AcceptOp.client_fd = Echo!NoFd
  BY DEF Echo!ReadOp, Echo!AcceptOp
<1>7. EchoTypeInv'
  BY <1>1, <1>3 DEF EchoInv, EchoTypeInv
<1>8. RingInv'
  <2>1. \A d, e \in Peers : fd'[d] = fd'[e] /\ fd'[d] # Echo!NoFd => d = e
    BY <1>2, <1>3 DEF EchoInv, RingInv
  <2>2. ~uring => ring' = {}
    BY <1>4 DEF EchoInv, RingInv
  <2>3. ASSUME NEW op \in ring', op # Echo!AcceptOp
        PROVE  \E d \in Peers : /\ fd'[d] # Echo!NoFd
                                /\ \/ op = Echo!ReadOp(fd'[d])
                                   \/ op = Echo!WriteOp(fd'[d], op.buf)
    <3>1. CASE op \in ring
      BY <2>3, <3>1, <1>1, <1>3 DEF EchoInv, RingInv
    <3>2. CASE op = Echo!ReadOp(f)
      BY <3>2, <1>2, <1>3
    <3> QED
      BY <3>1, <3>2, <2>3, <1>4
  <2>4. \A o, p \in ring' : o.client_fd = p.client_fd => o = p
    <3>1. \A op \in ring : op.client_fd # f
      BY <1>2, <1>5, <1>6
    <3> QED
      BY <3>1, <1>4, <1>6 DEF EchoInv, RingInv
  <2> QED
    BY <1>1, <2>1, <2>2, <2>3, <2>4 DEF RingInv
<1>9. BytesInv'
  <2>1. ASSUME NEW d \in Peers, NEW op \in ring', op.type = "Write", op.client_fd = fd'[d]
        PROVE  op \in ring /\ op.client_fd = fd[d]
    <3>1. op \in ring
      BY <2>1, <1>4, <1>6
    <3>2. op # Echo!AcceptOp
      BY <2>1 DEF Echo!AcceptOp
    <3> QED
      BY <2>1, <3>1, <3>2, <1>3, <1>5
  <2> QED
    BY <1>1, <2>1, BytesKept
<1> QED
  BY <1>7, <1>8, <1>9 DEF EchoInv

(* A descriptor is closed when no operation names it any more.             *)
LEMMA CloseEcho ==
    ASSUME EchoInv, NEW c \in Peers, Echo!Closed(c), ring' \subseteq ring,
           UNCHANGED <<uring, sent, up, down>>,
           \A op \in ring' : op = Echo!AcceptOp \/ op.client_fd # fd[c]
    PROVE  EchoInv'
<1>1. /\ fd' \in [Peers -> Descriptors \cup {Echo!NoFd}] /\ fd'[c] = Echo!NoFd
      /\ \A d \in Peers : d # c => fd'[d] = fd[d]
      /\ peer' \in [Peers -> {"new", "open", "gone", "closed"}]
  BY DEF EchoInv, EchoTypeInv, Echo!Closed
<1>2. EchoTypeInv'
  BY <1>1 DEF EchoInv, EchoTypeInv
<1>3. RingInv'
  <2>1. \A d, e \in Peers : fd'[d] = fd'[e] /\ fd'[d] # Echo!NoFd => d = e
    BY <1>1 DEF EchoInv, RingInv
  <2>2. ASSUME NEW op \in ring', op # Echo!AcceptOp
        PROVE  \E d \in Peers : /\ fd'[d] # Echo!NoFd
                                /\ \/ op = Echo!ReadOp(fd'[d])
                                   \/ op = Echo!WriteOp(fd'[d], op.buf)
    <3>1. PICK d \in Peers : /\ fd[d] # Echo!NoFd
                             /\ \/ op = Echo!ReadOp(fd[d])
                                \/ op = Echo!WriteOp(fd[d], op.buf)
      BY <2>2 DEF EchoInv, RingInv
    <3>2. op.client_fd = fd[d]
      BY <3>1 DEF Echo!ReadOp, Echo!WriteOp
    <3>3. d # c
      BY <2>2, <3>2
    <3> QED
      BY <3>1, <3>3, <1>1
  <2>3. /\ ~uring => ring' = {}
        /\ \A o, p \in ring' : o.client_fd = p.client_fd => o = p
    BY DEF EchoInv, RingInv
  <2> QED
    BY <2>1, <2>2, <2>3 DEF RingInv
<1>4. BytesInv'
  <2>1. ASSUME NEW d \in Peers, NEW op \in ring', op.type = "Write", op.client_fd = fd'[d]
        PROVE  op \in ring /\ op.client_fd = fd[d]
    <3>1. op # Echo!AcceptOp /\ op \in ring
      BY <2>1 DEF Echo!AcceptOp
    <3>2. op.client_fd # Echo!NoFd
      BY <3>1, OpsAre
    <3> QED
      BY <2>1, <3>1, <3>2, <1>1
  <2> QED
    BY <2>1, BytesKept
<1> QED
  BY <1>2, <1>3, <1>4 DEF EchoInv

(* A client is closed by a failed accept, the end of its stream or a       *)
(* failed write; in the ring the operation that reported it was the only   *)
(* one on the descriptor.                                                  *)
LEMMA EndEcho ==
    ASSUME EchoInv, NEW c \in Peers,
           \/ Echo!EpollAcceptFails(c) \/ Echo!EpollEnd(c)
           \/ Echo!ReadEnds(c) \/ Echo!WriteFails(c)
    PROVE  EchoInv'
<1>1. CASE Echo!EpollAcceptFails(c) \/ Echo!EpollEnd(c)
  <2>1. ring = {} /\ UNCHANGED <<uring, sent, up, down, ring>> /\ Echo!Closed(c)
    BY <1>1 DEF EchoInv, RingInv, Echo!EpollAcceptFails, Echo!EpollEnd
  <2> QED
    BY <2>1, CloseEcho
<1>2. CASE Echo!ReadEnds(c) \/ Echo!WriteFails(c)
  <2>1. PICK op \in ring : op.client_fd = fd[c] /\ ring' = ring \ {op}
    BY <1>2 DEF Echo!ReadEnds, Echo!WriteFails, Echo!ReadOp, Echo!WriteOp
  <2>2. \A o \in ring' : o.client_fd # fd[c]
    BY <2>1 DEF EchoInv, RingInv
  <2>3. UNCHANGED <<uring, sent, up, down>> /\ Echo!Closed(c)
    BY <1>2 DEF Echo!ReadEnds, Echo!WriteFails
  <2> QED
    BY <2>1, <2>2, <2>3, CloseEcho
<1> QED
  BY <1>1, <1>2
-----------------------------------------------------------------------------
(* Cutting a stream leaves a lower and an upper part of it.                *)
LEMMA CutIs ==
    ASSUME NEW c, NEW s, Stream(s, c), NEW n \in 1 .. Len(s), NEW w \in 0 .. n
    PROVE  LET low == SubSeq(s, 1, w)
               high == SubSeq(s, n + 1, Len(s))
           IN  /\ Stream(low, c) /\ Stream(high, c) /\ Below(low, high)
               /\ \A m : UpTo(s, m) => UpTo(low, m) /\ UpTo(high, m)
               /\ \A r : Below(r, s) => Below(r, low) /\ Below(r, high)
               /\ \A r : Below(s, r) => Below(low, r) /\ Below(high, r)
<1>1. PICK l, a, b : l = Len(s) /\ a = SubSeq(s, 1, w) /\ b = SubSeq(s, n + 1, l)
  OBVIOUS
<1>2. l \in Nat /\ n \in 1 .. l /\ w \in Nat /\ w <= n
  BY <1>1 DEF Stream
<1>3. PICK x \in Nat, y \in Nat : x = 1 /\ y = n + 1
  BY <1>2
<1>4. /\ Stream(a, c) /\ Len(a) = w
      /\ \A i \in 1 .. Len(a) : i \in 1 .. l /\ a[i] = s[i]
  <2>1. 1 <= x /\ x <= w + 1 /\ w <= Len(s) /\ a = SubSeq(s, x, w)
    BY <1>1, <1>2, <1>3
  <2>2. /\ Stream(a, c) /\ Len(a) = w - x + 1
        /\ \A i \in 1 .. Len(a) : x + i - 1 \in 1 .. Len(s) /\ a[i] = s[x + i - 1]
    BY <1>2, <2>1, PartIs
  <2>3. \A i \in 1 .. Len(a) : x + i - 1 = i
    BY <1>3
  <2> QED
    BY <1>1, <1>2, <1>3, <2>2, <2>3
<1>5. /\ Stream(b, c) /\ Len(b) = l - n
      /\ \A i \in 1 .. Len(b) : n + i \in 1 .. l /\ b[i] = s[n + i]
  <2>1. 1 <= y /\ y <= l + 1 /\ l <= Len(s) /\ b = SubSeq(s, y, l)
    BY <1>1, <1>2, <1>3
  <2>2. /\ Stream(b, c) /\ Len(b) = l - y + 1
        /\ \A i \in 1 .. Len(b) : y + i - 1 \in 1 .. Len(s) /\ b[i] = s[y + i - 1]
    BY <1>2, <2>1, PartIs
  <2>3. \A i \in 1 .. Len(b) : y + i - 1 = n + i
    BY <1>2, <1>3
  <2> QED
    BY <1>1, <1>2, <1>3, <2>2, <2>3
<1>6. Below(a, b)
  <2> SUFFICES ASSUME NEW i \in 1 .. Len(a), NEW j \in 1 .. Len(b)
               PROVE  a[i][2] < b[j][2]
    BY DEF Below
  <2>1. PICK k \in 1 .. l : k = n + j /\ b[j] = s[k]
    BY <1>5
  <2>2. i < k
    BY <2>1, <1>2, <1>4
  <2> QED
    BY <2>1, <2>2, <1>1, <1>4 DEF Stream
<1>7. \A m : UpTo(s, m) => UpTo(a, m) /\ UpTo(b, m)
  BY <1>1, <1>4, <1>5 DEF UpTo
<1>8. \A r : Below(r, s) => Below(r, a) /\ Below(r, b)
  BY <1>1, <1>4, <1>5 DEF Below
<1>9. \A r : Below(s, r) => Below(a, r) /\ Below(b, r)
  BY <1>1, <1>4, <1>5 DEF Below
<1> QED
  BY <1>1, <1>4, <1>5, <1>6, <1>7, <1>8, <1>9

(* What is echoed next comes after what was echoed.                        *)
LEMMA EchoedIs ==
    ASSUME NEW c, NEW s, NEW t, Stream(s, c), Stream(t, c), Below(s, t)
    PROVE  /\ Stream(s \o t, c)
           /\ \A n : UpTo(s, n) /\ UpTo(t, n) => UpTo(s \o t, n)
           /\ \A r : Below(s, r) /\ Below(t, r) => Below(s \o t, r)
<1>1. PICK u : u = s \o t
  OBVIOUS
<1>2. /\ Stream(u, c)
      /\ \A i \in 1 .. Len(u) : \/ i \in 1 .. Len(s) /\ u[i] = s[i]
                                \/ \E j \in 1 .. Len(t) : u[i] = t[j]
  BY <1>1, JoinedIs
<1>3. ASSUME NEW n, UpTo(s, n), UpTo(t, n) PROVE UpTo(u, n)
  BY <1>2, <1>3 DEF UpTo
<1>4. ASSUME NEW r, Below(s, r), Below(t, r) PROVE Below(u, r)
  BY <1>2, <1>4 DEF Below
<1> QED
  BY <1>1, <1>2, <1>3, <1>4

(* A stream's bytes are bytes of a peer.                                   *)
LEMMA StreamType ==
    ASSUME NEW c \in Peers, NEW s, Stream(s, c)
    PROVE  s \in Seq(Peers \X Nat)
<1>1. s \in Seq({c} \X Nat)
  BY DEF Stream
<1>2. Len(s) \in Nat /\ s \in [1 .. Len(s) -> {c} \X Nat]
  BY <1>1
<1>3. s \in [1 .. Len(s) -> Peers \X Nat]
  BY <1>2
<1> QED
  BY <1>2, <1>3

(* The epoll server writes what it read, in the same turn; what the socket *)
(* does not take is dropped, and dropping bytes keeps the order.           *)
LEMMA EpollEchoes ==
    ASSUME EchoInv, NEW c \in Peers, Echo!EpollEcho(c)
    PROVE  EchoInv'
<1>1. UNCHANGED <<uring, peer, fd, sent, ring>> /\ ring = {} /\ ring' = {}
  BY DEF Echo!EpollEcho, EchoInv, RingInv
<1>2. PICK s : s = up[c]
  OBVIOUS
<1>3. PICK n \in 1 .. Len(s) : \E w \in 0 .. n :
              /\ up' = [up EXCEPT ![c] = SubSeq(@, n + 1, Len(@))]
              /\ down' = [down EXCEPT ![c] = @ \o SubSeq(s, 1, w)]
  BY <1>2 DEF Echo!EpollEcho, Echo!Echo
<1>4. PICK w \in 0 .. n :
              /\ up' = [up EXCEPT ![c] = SubSeq(@, n + 1, Len(@))]
              /\ down' = [down EXCEPT ![c] = @ \o SubSeq(s, 1, w)]
  BY <1>3
<1>5. PICK low, high, old : /\ low = SubSeq(s, 1, w) /\ high = SubSeq(s, n + 1, Len(s))
                            /\ old = down[c]
  OBVIOUS
<1>6. /\ Stream(s, c) /\ Stream(old, c) /\ Below(old, s)
      /\ UpTo(old, sent[c]) /\ UpTo(s, sent[c])
  BY <1>2, <1>5 DEF EchoInv, BytesInv
<1>7. /\ Stream(low, c) /\ Stream(high, c) /\ Below(low, high)
      /\ UpTo(low, sent[c]) /\ UpTo(high, sent[c])
      /\ Below(old, low) /\ Below(old, high)
  BY <1>5, <1>6, CutIs
<1>8. /\ Stream(old \o low, c) /\ UpTo(old \o low, sent[c])
      /\ Below(old \o low, high)
  BY <1>6, <1>7, EchoedIs
<1>9. /\ up'[c] = high /\ \A d \in Peers : d # c => up'[d] = up[d]
      /\ down'[c] = old \o low /\ \A d \in Peers : d # c => down'[d] = down[d]
      /\ up' \in [Peers -> Seq(Peers \X Nat)]
      /\ down' \in [Peers -> Seq(Peers \X Nat)]
  <2>1. high \in Seq(Peers \X Nat) /\ old \o low \in Seq(Peers \X Nat)
    BY <1>7, <1>8, StreamType
  <2>2. up' = [up EXCEPT ![c] = high] /\ down' = [down EXCEPT ![c] = old \o low]
    BY <1>2, <1>4, <1>5
  <2> QED
    BY <2>1, <2>2 DEF EchoInv, EchoTypeInv
<1>10. EchoTypeInv'
  BY <1>1, <1>9 DEF EchoInv, EchoTypeInv
<1>11. RingInv'
  BY <1>1 DEF EchoInv, RingInv
<1>12. BytesInv'
  <2> SUFFICES ASSUME NEW d \in Peers
               PROVE  /\ Stream(down'[d], d) /\ Stream(up'[d], d)
                      /\ Below(down'[d], up'[d])
                      /\ UpTo(down'[d], sent[d]) /\ UpTo(up'[d], sent[d])
    BY <1>1 DEF BytesInv
  <2>1. CASE d # c
    BY <2>1, <1>9 DEF EchoInv, BytesInv
  <2>2. CASE d = c
    BY <2>2, <1>7, <1>8, <1>9
  <2> QED
    BY <2>1, <2>2
<1> QED
  BY <1>10, <1>11, <1>12 DEF EchoInv

(* The read of a descriptor becomes the write of what it got.              *)
LEMMA ReadEchoes ==
    ASSUME EchoInv, NEW c \in Peers, Echo!CompleteRead(c)
    PROVE  EchoInv'
<1>1. UNCHANGED <<uring, peer, fd, sent, down>> /\ fd[c] # Echo!NoFd
  BY DEF Echo!CompleteRead
<1>2. PICK s, old, rd : s = up[c] /\ old = down[c] /\ rd = Echo!ReadOp(fd[c])
  OBVIOUS
<1>3. PICK n \in 1 .. Len(s) :
              /\ up' = [up EXCEPT ![c] = SubSeq(@, n + 1, Len(@))]
              /\ ring' = (ring \ {rd}) \cup {Echo!WriteOp(fd[c], SubSeq(s, 1, n))}
  BY <1>2 DEF Echo!CompleteRead, Echo!AfterRead
<1>4. PICK low, high, wr : /\ low = SubSeq(s, 1, n) /\ high = SubSeq(s, n + 1, Len(s))
                           /\ wr = Echo!WriteOp(fd[c], low)
  OBVIOUS
<1>5. /\ Stream(s, c) /\ Stream(old, c) /\ Below(old, s)
      /\ UpTo(old, sent[c]) /\ UpTo(s, sent[c])
  BY <1>2 DEF EchoInv, BytesInv
<1>6. /\ Stream(low, c) /\ Stream(high, c) /\ Below(low, high)
      /\ UpTo(low, sent[c]) /\ UpTo(high, sent[c])
      /\ Below(old, low) /\ Below(old, high)
  <2>1. n \in 0 .. n
    BY <1>5 DEF Stream
  <2> QED
    BY <1>4, <1>5, <2>1, CutIs
<1>7. /\ up'[c] = high /\ \A d \in Peers : d # c => up'[d] = up[d]
      /\ up' \in [Peers -> Seq(Peers \X Nat)]
  <2>1. high \in Seq(Peers \X Nat)
    BY <1>6, StreamType
  <2>2. up' = [up EXCEPT ![c] = high]
    BY <1>2, <1>3, <1>4
  <2> QED
    BY <2>1, <2>2 DEF EchoInv, EchoTypeInv
<1>8. /\ rd \in ring /\ rd.client_fd = fd[c]
      /\ wr.client_fd = fd[c] /\ wr.buf = low /\ wr.type = "Write"
      /\ wr = Echo!WriteOp(fd[c], wr.buf)
      /\ ring' = (ring \ {rd}) \cup {wr}
  BY <1>2, <1>3, <1>4 DEF Echo!CompleteRead, Echo!ReadOp, Echo!WriteOp
<1>9. \A op \in ring' : op = wr \/ (op \in ring /\ op.client_fd # fd[c])
  BY <1>8 DEF EchoInv, RingInv
<1>10. EchoTypeInv'
  BY <1>1, <1>7 DEF EchoInv, EchoTypeInv
<1>11. RingInv'
  <2>1. /\ \A d, e \in Peers : fd'[d] = fd'[e] /\ fd'[d] # Echo!NoFd => d = e
        /\ uring
    BY <1>1, <1>8 DEF EchoInv, RingInv
  <2>2. ASSUME NEW op \in ring', op # Echo!AcceptOp
        PROVE  \E d \in Peers : /\ fd'[d] # Echo!NoFd
                                /\ \/ op = Echo!ReadOp(fd'[d])
                                   \/ op = Echo!WriteOp(fd'[d], op.buf)
    BY <2>2, <1>1, <1>8, <1>9 DEF EchoInv, RingInv
  <2>3. \A o, p \in ring' : o.client_fd = p.client_fd => o = p
    BY <1>8, <1>9 DEF EchoInv, RingInv
  <2> QED
    BY <1>1, <2>1, <2>2, <2>3 DEF RingInv
<1>12. BytesInv'
  <2> SUFFICES ASSUME NEW d \in Peers
               PROVE  /\ Stream(down[d], d) /\ Stream(up'[d], d)
                      /\ Below(down[d], up'[d])
                      /\ UpTo(down[d], sent[d]) /\ UpTo(up'[d], sent[d])
                      /\ \A op \in ring' :
                           op.type = "Write" /\ op.client_fd = fd[d] =>
                             /\ Stream(op.buf, d) /\ UpTo(op.buf, sent[d])
                             /\ Below(down[d], op.buf) /\ Below(op.buf, up'[d])
    BY <1>1 DEF BytesInv
  <2>1. CASE d # c
    <3>1. \A op \in ring' : op.client_fd = fd[d] => op \in ring
      BY <2>1, <1>1, <1>8, <1>9 DEF EchoInv, RingInv
    <3> QED
      BY <2>1, <3>1, <1>7 DEF EchoInv, BytesInv
  <2>2. CASE d = c
    <3>1. \A op \in ring' : op.client_fd = fd[c] => op.buf = low
      BY <1>8, <1>9
    <3> QED
      BY <2>2, <3>1, <1>2, <1>5, <1>6, <1>7
  <2> QED
    BY <2>1, <2>2
<1> QED
  BY <1>10, <1>11, <1>12 DEF EchoInv

(* The write of a descriptor becomes its next read.                        *)
LEMMA WriteEchoes ==
    ASSUME EchoInv, NEW c \in Peers, Echo!CompleteWrite(c)
    PROVE  EchoInv'
<1>1. UNCHANGED <<uring, peer, fd, sent, up>> /\ fd[c] # Echo!NoFd
  BY DEF Echo!CompleteWrite
<1>2. PICK old, rd : old = down[c] /\ rd = Echo!ReadOp(fd[c])
  OBVIOUS
<1>3. PICK wr \in ring : \E n \in 1 .. Len(wr.buf) :
              /\ wr = Echo!WriteOp(fd[c], wr.buf)
              /\ down' = [down EXCEPT ![c] = @ \o SubSeq(wr.buf, 1, n)]
              /\ ring' = (ring \ {wr}) \cup {rd}
  BY <1>2 DEF Echo!CompleteWrite, Echo!Echo
<1>4. PICK s : s = wr.buf
  OBVIOUS
<1>5. PICK n \in 1 .. Len(s) :
              /\ down' = [down EXCEPT ![c] = @ \o SubSeq(s, 1, n)]
              /\ ring' = (ring \ {wr}) \cup {rd}
  BY <1>3, <1>4
<1>6. PICK low : low = SubSeq(s, 1, n)
  OBVIOUS
<1>7. /\ wr.client_fd = fd[c] /\ wr.type = "Write"
      /\ rd.client_fd = fd[c] /\ rd.type = "Read"
  BY <1>2, <1>3 DEF Echo!ReadOp, Echo!WriteOp
<1>8. /\ Stream(s, c) /\ Stream(old, c) /\ Below(old, s) /\ Below(s, up[c])
      /\ UpTo(old, sent[c]) /\ UpTo(s, sent[c])
      /\ Stream(up[c], c) /\ Below(old, up[c]) /\ UpTo(up[c], sent[c])
  BY <1>2, <1>4, <1>7 DEF EchoInv, BytesInv
<1>9. /\ Stream(low, c) /\ UpTo(low, sent[c]) /\ Below(old, low) /\ Below(low, up[c])
  <2>1. n \in 0 .. n
    BY <1>8 DEF Stream
  <2> QED
    BY <1>6, <1>8, <2>1, CutIs
<1>10. /\ Stream(old \o low, c) /\ UpTo(old \o low, sent[c])
       /\ Below(old \o low, up[c])
  BY <1>8, <1>9, EchoedIs
<1>11. /\ down'[c] = old \o low /\ \A d \in Peers : d # c => down'[d] = down[d]
       /\ down' \in [Peers -> Seq(Peers \X Nat)]
  <2>1. old \o low \in Seq(Peers \X Nat)
    BY <1>10, StreamType
  <2>2. down' = [down EXCEPT ![c] = old \o low]
    BY <1>2, <1>5, <1>6
  <2> QED
    BY <2>1, <2>2 DEF EchoInv, EchoTypeInv
<1>12. \A op \in ring' : op = rd \/ (op \in ring /\ op.client_fd # fd[c])
  BY <1>5, <1>7 DEF EchoInv, RingInv
<1>13. EchoTypeInv'
  BY <1>1, <1>11 DEF EchoInv, EchoTypeInv
<1>14. RingInv'
  <2>1. /\ \A d, e \in Peers : fd'[d] = fd'[e] /\ fd'[d] # Echo!NoFd => d = e
        /\ uring
    BY <1>1 DEF EchoInv, RingInv
  <2>2. ASSUME NEW op \in ring', op # Echo!AcceptOp
        PROVE  \E d \in Peers : /\ fd'[d] # Echo!NoFd
                                /\ \/ op = Echo!ReadOp(fd'[d])
                                   \/ op = Echo!WriteOp(fd'[d], op.buf)
    BY <2>2, <1>1, <1>2, <1>12 DEF EchoInv, RingInv
  <2>3. \A o, p \in ring' : o.client_fd = p.client_fd => o = p
    BY <1>7, <1>12 DEF EchoInv, RingInv
  <2> QED
    BY <1>1, <2>1, <2>2, <2>3 DEF RingInv
<1>15. BytesInv'
  <2> SUFFICES ASSUME NEW d \in Peers
               PROVE  /\ Stream(down'[d], d) /\ Stream(up[d], d)
                      /\ Below(down'[d], up[d])
                      /\ UpTo(down'[d], sent[d]) /\ UpTo(up[d], sent[d])
                      /\ \A op \in ring' :
                           op.type = "Write" /\ op.client_fd = fd[d] =>
                             /\ Stream(op.buf, d) /\ UpTo(op.buf, sent[d])
                             /\ Below(down'[d], op.buf) /\ Below(op.buf, up[d])
    BY <1>1 DEF BytesInv
  <2>1. CASE d # c
    <3>1. \A op \in ring' : op.type = "Write" => op \in ring
      BY <1>7, <1>12
    <3> QED
      BY <2>1, <3>1, <1>11 DEF EchoInv, BytesInv
  <2>2. CASE d = c
    <3>1. \A op \in ring' : op.client_fd = fd[c] => op.type # "Write"
      BY <1>7, <1>12
    <3> QED
      BY <2>2, <3>1, <1>8, <1>10, <1>11
  <2> QED
    BY <2>1, <2>2
<1> QED
  BY <1>13, <1>14, <1>15 DEF EchoInv

(* Every step of the echo servers keeps the invariant; no other exercise   *)
(* touches their variables.                                                *)
LEMMA EchoStepInd == EchoInv /\ [Next]_vars => EchoInv'
<1> SUFFICES ASSUME EchoInv, [Next]_vars PROVE EchoInv'
  OBVIOUS
<1>1. CASE UNCHANGED echoVars
  BY <1>1 DEF echoVars, EchoInv, EchoTypeInv, RingInv, BytesInv
<1>2. CASE EchoStep
  <2>1. PICK c \in Peers :
          \/ Echo!Connect(c) \/ Echo!Send(c) \/ Echo!Close(c)
          \/ Echo!EpollAccept(c) \/ Echo!EpollAcceptFails(c)
          \/ Echo!EpollEcho(c) \/ Echo!EpollEnd(c)
          \/ Echo!CompleteAccept(c) \/ Echo!CompleteRead(c) \/ Echo!ReadEnds(c)
          \/ Echo!CompleteWrite(c) \/ Echo!WriteFails(c)
    BY <1>2 DEF EchoStep, Echo!Next
  <2> QED
    BY <2>1, PeerMoves, SendEcho, AcceptEcho, EndEcho, EpollEchoes, ReadEchoes,
       WriteEchoes
<1> QED
  BY <1>1, <1>2 DEF Next, FramingStep, SenderStep, ReceiverStep, GapStep, Idle, vars

(* A client of epoll_server.cpp or io_uring_server.cpp gets back its own   *)
(* bytes, in the order it sent them and none twice, and no operation in    *)
(* the ring names a closed descriptor, for any number of clients and       *)
(* descriptors and however the reads and writes cut the streams.           *)
THEOREM EchoesCorrect == Spec => []EchoesOwnBytes
<1>1. Init => EchoInv
  BY EchoStart DEF Init
<1>2. ASSUME EchoInv PROVE EchoesOwnBytes
  <2>1. ASSUME NEW c \in Peers, NEW i \in DOMAIN down[c]
        PROVE  down[c][i][1] = c /\ (i > 1 => down[c][i - 1][2] < down[c][i][2])
    <3>1. PICK s : s = down[c]
      OBVIOUS
    <3>2. Stream(s, c)
      BY <1>2, <3>1 DEF EchoInv, BytesInv
    <3>3. s \in Seq({c} \X Nat) /\ i \in DOMAIN s
      BY <3>1, <3>2, <2>1 DEF Stream
    <3>4. i \in 1 .. Len(s) /\ Len(s) \in Nat /\ s[i] \in {c} \X Nat
      BY <3>3
    <3>5. i > 1 => i - 1 \in 1 .. Len(s) /\ i - 1 < i
      BY <3>4
    <3>6. i > 1 => s[i - 1][2] < s[i][2]
      BY <3>2, <3>4, <3>5 DEF Stream
    <3> QED
      BY <3>1, <3>4, <3>6
  <2>2. ASSUME NEW op \in ring
        PROVE  op.client_fd \in {Echo!NoFd} \cup {fd[c] : c \in Peers}
    BY <1>2, OpsAre DEF Echo!AcceptOp
  <2> QED
    BY <2>1, <2>2 DEF EchoesOwnBytes, Echo!EchoesOwnBytes
<1> QED
  BY <1>1, <1>2, EchoStepInd, PTL DEF Spec
-----------------------------------------------------------------------------
(* FoldLeft takes the last element first: its iterator on the sets 1 .. k  *)
(* is the fold over the first k elements.                                  *)
LEMMA MaxIs ==
    ASSUME NEW n \in Nat, NEW s \in SUBSET (1 .. n + 1), n + 1 \in s
    PROVE  Gap!Max(s) = n + 1 /\ Framing!Max(s) = n + 1
<1>1. \A y \in s : y \in Nat /\ n + 1 >= y
  OBVIOUS
<1>2. \A x \in s : (\A y \in s : x >= y) => x = n + 1
  BY <1>1
<1>3. (CHOOSE x \in s : \A y \in s : x >= y) = n + 1
  BY <1>1, <1>2
<1> QED
  BY <1>3 DEF Gap!Max, Framing!Max

(* The iterator of the fold over the digits exists: it is extended by the  *)
(* sets with one more element.                                             *)
LEMMA DigitsFold ==
    ASSUME NEW q
    PROVE  \A n \in Nat : \E it :
             it = [s \in SUBSET (1 .. n) |->
                     IF s = {} THEN 0
                     ELSE it[s \ {Gap!Max(s)}] * 10 + q[Gap!Max(s)]]
<1> DEFINE Eq(it, n) == it = [s \in SUBSET (1 .. n) |->
                                IF s = {} THEN 0
                                ELSE it[s \ {Gap!Max(s)}] * 10 + q[Gap!Max(s)]]
           T == {n \in Nat : \E it : Eq(it, n)}
<1>1. 0 \in T
  <2>1. PICK it : it = [s \in SUBSET (1 .. 0) |-> 0]
    OBVIOUS
  <2>2. \A s \in SUBSET (1 .. 0) : s = {}
    OBVIOUS
  <2>3. Eq(it, 0)
    BY <2>1, <2>2, Zenon
  <2> QED
    BY <2>3
<1>2. ASSUME NEW n \in Nat, n \in T PROVE n + 1 \in T
  <2>1. PICK g : Eq(g, n)
    BY <1>2
  <2>2. PICK h : h = [s \in SUBSET (1 .. n + 1) |->
                        IF n + 1 \in s THEN g[s \ {n + 1}] * 10 + q[n + 1] ELSE g[s]]
    OBVIOUS
  <2>3. ASSUME NEW s \in SUBSET (1 .. n), s # {}
        PROVE  g[s] = g[s \ {Gap!Max(s)}] * 10 + q[Gap!Max(s)]
    BY <2>1, <2>3
  <2>4. g[{}] = 0
    BY <2>1
  <2>5. ASSUME NEW s \in SUBSET (1 .. n + 1)
        PROVE  h[s] = IF s = {} THEN 0
                      ELSE h[s \ {Gap!Max(s)}] * 10 + q[Gap!Max(s)]
    <3>1. CASE n + 1 \in s
      <4>1. Gap!Max(s) = n + 1
        BY <3>1, MaxIs
      <4>2. s \ {n + 1} \in SUBSET (1 .. n + 1) /\ n + 1 \notin s \ {n + 1}
        OBVIOUS
      <4>3. h[s \ {n + 1}] = g[s \ {n + 1}]
        BY <2>2, <4>2, Zenon
      <4>4. h[s] = g[s \ {n + 1}] * 10 + q[n + 1]
        BY <2>2, <3>1, Zenon
      <4>5. s # {}
        BY <3>1
      <4> QED
        BY <4>1, <4>3, <4>4, <4>5, Zenon
    <3>2. CASE n + 1 \notin s /\ s # {}
      <4>1. s \in SUBSET (1 .. n)
        BY <3>2
      <4>2. \A m : s \ {m} \in SUBSET (1 .. n + 1) /\ n + 1 \notin s \ {m}
        BY <3>2
      <4>3. \A m : h[s \ {m}] = g[s \ {m}]
        BY <2>2, <4>2, Zenon
      <4>4. h[s] = g[s]
        BY <2>2, <3>2, Zenon
      <4> QED
        BY <2>3, <3>2, <4>1, <4>3, <4>4, Zenon
    <3>3. CASE s = {}
      <4>1. h[s] = g[s]
        BY <2>2, <3>3, Zenon
      <4> QED
        BY <2>4, <3>3, <4>1, Zenon
    <3> QED
      BY <3>1, <3>2, <3>3
  <2>6. Eq(h, n + 1)
    <3>1. h = [s \in SUBSET (1 .. n + 1) |-> h[s]]
      BY <2>2, Zenon
    <3> QED
      BY <2>5, <3>1, Zenon
  <2> HIDE DEF Eq
  <2>7. n + 1 \in Nat
    OBVIOUS
  <2> QED
    BY <2>6, <2>7
<1> HIDE DEF T
<1>3. Nat \subseteq T
  BY <1>1, <1>2, AllOf
<1> QED
  BY <1>3 DEF T

(* What recv_id reads is a number.                                         *)
LEMMA DigitsType ==
    ASSUME NEW q \in Seq(Nat)
    PROVE  Gap!FoldLeft(LAMBDA id, ch : id * 10 + ch, 0, q) \in Nat
<1>1. PICK n \in Nat : n = Len(q) /\ DOMAIN q = 1 .. n
  OBVIOUS
<1> DEFINE Eq(it) == it = [s \in SUBSET (1 .. n) |->
                             IF s = {} THEN 0
                             ELSE it[s \ {Gap!Max(s)}] * 10 + q[Gap!Max(s)]]
<1>2. PICK it : it = CHOOSE i : Eq(i)
  OBVIOUS
<1>3. Gap!FoldLeft(LAMBDA id, ch : id * 10 + ch, 0, q) = it[1 .. n]
  <2>1. Gap!FoldLeft(LAMBDA id, ch : id * 10 + ch, 0, q)
          = (CHOOSE i : i = [s \in SUBSET (DOMAIN q) |->
                               IF s = {} THEN 0
                               ELSE i[s \ {Gap!Max(s)}] * 10 + q[Gap!Max(s)]])[DOMAIN q]
    BY DEF Gap!FoldLeft, Gap!MapThenFoldSet
  <2> QED
    BY <1>1, <1>2, <2>1, Zenon
<1>4. Eq(it)
  <2>1. \E i : Eq(i)
    BY DigitsFold
  <2> QED
    BY <1>2, <2>1, Zenon
<1> DEFINE T == {k \in Nat : k <= n => it[1 .. k] \in Nat}
<1>5. 0 \in T
  <2>1. 1 .. 0 = {}
    OBVIOUS
  <2>2. it[{}] = 0
    BY <1>4
  <2> QED
    BY <2>1, <2>2
<1>6. ASSUME NEW k \in Nat, k \in T PROVE k + 1 \in T
  <2> SUFFICES ASSUME k + 1 <= n PROVE it[1 .. k + 1] \in Nat
    OBVIOUS
  <2>1. PICK s : s = 1 .. k + 1
    OBVIOUS
  <2>2. /\ s \in SUBSET (1 .. n) /\ s # {} /\ k + 1 \in s
        /\ s \in SUBSET (1 .. k + 1)
    <3>1. k + 1 \in 1 .. k + 1 /\ \A x \in 1 .. k + 1 : x \in 1 .. n
      OBVIOUS
    <3> QED
      BY <2>1, <3>1
  <2>3. Gap!Max(s) = k + 1 /\ s \ {k + 1} = 1 .. k
    BY <2>1, <2>2, MaxIs
  <2>4. it[s] = it[s \ {Gap!Max(s)}] * 10 + q[Gap!Max(s)]
    BY <1>4, <2>2
  <2>5. it[1 .. k] \in Nat /\ q[k + 1] \in Nat
    BY <1>1, <1>6
  <2> HIDE DEF Eq
  <2>6. it[s] = it[1 .. k] * 10 + q[k + 1]
    BY <2>3, <2>4, Zenon
  <2> QED
    BY <2>1, <2>5, <2>6
<1> HIDE DEF T
<1>7. n \in T
  BY <1>5, <1>6, AllOf
<1>8. it[1 .. n] \in Nat
  BY <1>7 DEF T
<1> HIDE DEF Eq
<1> QED
  BY <1>3, <1>8
-----------------------------------------------------------------------------
(* The gap detector.  It reports what lies between the last message and a  *)
(* newer one, so everything below a message that arrived is accounted for; *)
(* that last_received arrived itself is what makes this inductive.         *)
GapInv ==
    /\ counter \in Nat /\ net \subseteq Seq(Nat)
    /\ last_received \in Nat /\ received \subseteq Nat
    /\ last_received = 0 \/ last_received \in received
    /\ \A id \in Nat \ {0} :
         \/ id \in received
         \/ \A later \in received : later < id
         \/ \E gap \in gaps : gap[1] < id /\ id < gap[2]

(* subscriber.cpp's recv_id reads a number from every datagram.            *)
LEMMA RecvIdType ==
    ASSUME NEW message \in Seq(Nat)
    PROVE  Gap!recv_id(message) \in Nat
<1> DEFINE I == {i \in 1 .. Len(message) : message[i] = Gap!BAR}
           bar == Gap!SelectInSeq(message, LAMBDA ch : ch = Gap!BAR)
<1>1. bar = IF I # {} THEN Gap!Min(I) ELSE 0
  BY DEF Gap!SelectInSeq
<1>2. bar \in 0 .. Len(message)
  <2>1. CASE I # {}
    <3>1. I \subseteq Nat /\ I \subseteq 0 .. Len(message)
      OBVIOUS
    <3>2. PICK x \in I : \A y \in I : x <= y
      BY <2>1, <3>1, LeastOf
    <3>3. Gap!Min(I) \in I
      BY <3>2 DEF Gap!Min
    <3> HIDE DEF I, bar
    <3> QED
      BY <1>1, <2>1, <3>1, <3>3
  <2>2. CASE I = {}
    <3>1. 0 \in 0 .. Len(message)
      OBVIOUS
    <3> HIDE DEF I, bar
    <3> QED
      BY <1>1, <2>2, <3>1
  <2> QED
    BY <2>1, <2>2
<1>3. PICK k \in 0 .. Len(message) : k = bar
  BY <1>2
<1>4. SubSeq(message, 1, k - 1) \in Seq(Nat)
  OBVIOUS
<1>5. Gap!FoldLeft(LAMBDA id, ch : id * 10 + ch, 0, SubSeq(message, 1, k - 1)) \in Nat
  BY <1>4, DigitsType
<1> QED
  BY <1>3, <1>5 DEF Gap!recv_id

(* Every step of the publisher, the network and the subscriber keeps the   *)
(* invariant.                                                              *)
LEMMA GapStepInd == GapInv /\ [Next]_vars => GapInv'
<1> SUFFICES ASSUME GapInv, [Next]_vars PROVE GapInv'
  OBVIOUS
<1>1. CASE UNCHANGED gapVars
  BY <1>1 DEF gapVars, GapInv
<1>2. ASSUME Gap!Publish PROVE GapInv'
  <2>1. Gap!Decimal(counter) \o <<Gap!BAR>> \in Seq(Nat)
    <3>1. counter \in Nat /\ counter \div 10 \in Nat /\ counter % 10 \in Nat
      BY DEF GapInv
    <3> QED
      BY <3>1 DEF Gap!Decimal, Gap!BAR
  <2>2. counter + 1 \in Nat
    BY DEF GapInv
  <2> QED
    BY <1>2, <2>1, <2>2 DEF Gap!Publish, GapInv
<1>3. ASSUME Gap!Subscription PROVE GapInv'
  BY <1>3 DEF Gap!Subscription, GapInv
<1>4. ASSUME NEW message \in net, Gap!Lose(message) PROVE GapInv'
  BY <1>4 DEF Gap!Lose, GapInv
<1>5. ASSUME NEW message \in net, Gap!Receive(message) PROVE GapInv'
  <2>1. PICK n \in Nat : n = Gap!recv_id(message)
    BY <1>5, RecvIdType DEF GapInv
  <2>2. /\ net' \subseteq net /\ UNCHANGED counter
        /\ gaps' = (IF n > last_received + 1 THEN gaps \cup {<<last_received, n>>} ELSE gaps)
        /\ last_received' = n /\ received' = received \cup {n}
    BY <1>5, <2>1 DEF Gap!Receive, Gap!IsGap
  <2>3. ASSUME NEW id \in Nat \ {0}
        PROVE  \/ id \in received'
               \/ \A later \in received' : later < id
               \/ \E gap \in gaps' : gap[1] < id /\ id < gap[2]
    <3>1. last_received \in Nat /\ received \subseteq Nat
          /\ (last_received = 0 \/ last_received \in received)
      BY DEF GapInv
    <3>2. CASE id \in received \/ \E gap \in gaps : gap[1] < id /\ id < gap[2]
      BY <3>2, <2>2
    <3>3. CASE \A later \in received : later < id
      <4>1. CASE n <= id
        BY <3>3, <4>1, <2>2
      <4>2. CASE n > id
        <5>1. last_received < id
          BY <3>1, <3>3
        <5>2. n > last_received + 1
          BY <3>1, <4>2, <5>1
        <5>3. <<last_received, n>> \in gaps'
          BY <2>2, <5>2
        <5> QED
          BY <4>2, <5>1, <5>3
      <4> QED
        BY <4>1, <4>2
    <3> QED
      BY <3>2, <3>3 DEF GapInv
  <2>4. /\ counter' \in Nat /\ net' \subseteq Seq(Nat)
        /\ last_received' \in Nat /\ received' \subseteq Nat /\ last_received' \in received'
    BY <2>2 DEF GapInv
  <2> QED
    BY <2>3, <2>4 DEF GapInv
<1>6. CASE GapStep
  BY <1>2, <1>3, <1>4, <1>5, <1>6 DEF GapStep, Gap!Next
<1> QED
  BY <1>1, <1>6 DEF Next, FramingStep, SenderStep, ReceiverStep, EchoStep, Idle, vars

(* udp_mcast/subscriber.cpp: whatever datagrams the network loses, delays  *)
(* or reorders, a message older than one that arrived has arrived itself   *)
(* or lies in a gap that was reported, for any number of messages.         *)
THEOREM GapsCorrect == Spec => []GapsReported
<1>1. Init => GapInv
  BY DEF Init, Gap!Init, GapInv
<1>2. GapInv => GapsReported
  <2>1. \A id \in 1 .. MaxMessages : id \in Nat \ {0}
    BY FeedsAssumption
  <2> QED
    BY <2>1 DEF GapInv, GapsReported, Gap!GapsReported
<1> QED
  BY <1>1, <1>2, GapStepInd, PTL DEF Spec
-----------------------------------------------------------------------------
(* The framing server.  Text(script) is what the client writes; its parts  *)
(* are the frames, which end at the positions off[1], off[2], ...          *)
Frames(script) == [i \in DOMAIN script |-> Framing!Frame(script[i])]
Text(script) == Framing!FlattenSeq(Frames(script)) \o <<Framing!NUL>>

Layout(script, off, text) ==
    LET last == Len(script)
    IN  /\ off \in [0 .. last -> Nat] /\ off[0] = 0
        /\ \A i \in 1 .. last :
             /\ off[i] = off[i - 1] + Len(Framing!Frame(script[i]))
             /\ off[i] <= off[last]
             /\ \A j \in 1 .. Len(Framing!Frame(script[i])) :
                  text[off[i - 1] + j] = Framing!Frame(script[i])[j]
        /\ Len(text) = off[last] + 1 /\ text[off[last] + 1] = Framing!NUL

IsScript(script) == /\ script \in Seq(Seq(Int)) /\ script # <<>>
                    /\ \A i \in DOMAIN script : Len(script[i]) \in 1 .. 99

(* The elements of a concatenation.                                        *)
LEMMA ConcatAt ==
    ASSUME NEW S, NEW s \in Seq(S), NEW t \in Seq(S)
    PROVE  /\ s \o t \in Seq(S) /\ Len(s \o t) = Len(s) + Len(t)
           /\ \A i \in 1 .. Len(s) : (s \o t)[i] = s[i]
           /\ \A j \in 1 .. Len(t) : (s \o t)[Len(s) + j] = t[j]
<1>1. PICK a \in Nat, b \in Nat : a = Len(s) /\ b = Len(t)
  OBVIOUS
<1>2. PICK u : u = s \o t
  OBVIOUS
<1>3. /\ u \in Seq(S) /\ Len(u) = a + b
      /\ \A i \in 1 .. a + b : u[i] = IF i <= a THEN s[i] ELSE t[i - a]
  BY <1>1, <1>2
<1>4. \A i \in 1 .. a : u[i] = s[i]
  <2>1. \A i \in 1 .. a : i \in 1 .. a + b /\ i <= a
    OBVIOUS
  <2> QED
    BY <1>3, <2>1
<1>5. \A j \in 1 .. b : u[a + j] = t[j]
  <2>1. \A j \in 1 .. b : a + j \in 1 .. a + b /\ ~(a + j <= a) /\ (a + j) - a = j
    OBVIOUS
  <2> QED
    BY <1>3, <2>1, Zenon
<1> QED
  BY <1>1, <1>2, <1>3, <1>4, <1>5

(* The characters of a frame.                                              *)
Digits(m) == IF Len(m) < 10 THEN 1 ELSE 2

LEMMA FrameIs ==
    ASSUME NEW m \in Seq(Int), Len(m) \in 1 .. 99
    PROVE  /\ Framing!Frame(m) \in Seq(Int)
           /\ Len(Framing!Frame(m)) = Digits(m) + 1 + Len(m)
           /\ Digits(m) = 1 => Framing!Frame(m)[1] = Len(m)
           /\ Digits(m) = 2 => /\ Framing!Frame(m)[1] = Len(m) \div 10
                               /\ Framing!Frame(m)[2] = Len(m) % 10
           /\ Framing!Frame(m)[Digits(m) + 1] = Framing!BAR
           /\ \A t \in 1 .. Len(m) : Framing!Frame(m)[Digits(m) + 1 + t] = m[t]
<1>1. PICK n \in 1 .. 99 : n = Len(m)
  OBVIOUS
<1>2. n \div 10 \in Int /\ n % 10 \in Int /\ Framing!BAR \in Int
  BY DEF Framing!BAR
<1>3. CASE n < 10
  <2>1. Framing!Frame(m) = <<n>> \o <<Framing!BAR>> \o m
    BY <1>1, <1>3 DEF Framing!Frame, Framing!Decimal
  <2>2. PICK h : h = <<n>> \o <<Framing!BAR>>
    OBVIOUS
  <2>3. h \in Seq(Int) /\ Len(h) = 2 /\ h[1] = n /\ h[2] = Framing!BAR
    BY <1>2, <2>2
  <2>4. PICK f : f = h \o m
    OBVIOUS
  <2>5. /\ f \in Seq(Int) /\ Len(f) = 2 + n /\ f[1] = n /\ f[2] = Framing!BAR
        /\ \A t \in 1 .. n : f[2 + t] = m[t]
    <3>1. /\ f \in Seq(Int) /\ Len(f) = Len(h) + Len(m)
          /\ \A i \in 1 .. Len(h) : f[i] = h[i]
          /\ \A j \in 1 .. Len(m) : f[Len(h) + j] = m[j]
      <4>1. h \in Seq(Int) /\ m \in Seq(Int)
        BY <2>3
      <4> QED
        BY <2>4, <4>1, ConcatAt
    <3>2. /\ Len(f) = 2 + n /\ \A i \in 1 .. 2 : f[i] = h[i]
          /\ \A j \in 1 .. n : f[2 + j] = m[j]
      BY <1>1, <2>3, <3>1, Zenon
    <3> QED
      BY <2>3, <3>1, <3>2
  <2>6. Framing!Frame(m) = f
    BY <2>1, <2>2, <2>4, Zenon
  <2>7. Digits(m) = 1
    BY <1>1, <1>3 DEF Digits
  <2> QED
    BY <1>1, <2>5, <2>6, <2>7, SMTT(30)
<1>4. CASE ~(n < 10)
  <2>1. Framing!Frame(m) = <<n \div 10, n % 10>> \o <<Framing!BAR>> \o m
    BY <1>1, <1>4 DEF Framing!Frame, Framing!Decimal
  <2>2. PICK a, b : a = n \div 10 /\ b = n % 10
    OBVIOUS
  <2>3. PICK h : h = <<a, b>> \o <<Framing!BAR>>
    OBVIOUS
  <2>4. h \in Seq(Int) /\ Len(h) = 3 /\ h[1] = a /\ h[2] = b /\ h[3] = Framing!BAR
    BY <1>2, <2>2, <2>3
  <2>5. PICK f : f = h \o m
    OBVIOUS
  <2>6. /\ f \in Seq(Int) /\ Len(f) = 3 + n /\ f[1] = a /\ f[2] = b
        /\ f[3] = Framing!BAR /\ \A t \in 1 .. n : f[3 + t] = m[t]
    <3>1. /\ f \in Seq(Int) /\ Len(f) = Len(h) + Len(m)
          /\ \A i \in 1 .. Len(h) : f[i] = h[i]
          /\ \A j \in 1 .. Len(m) : f[Len(h) + j] = m[j]
      <4>1. h \in Seq(Int) /\ m \in Seq(Int)
        BY <2>4
      <4> QED
        BY <2>5, <4>1, ConcatAt
    <3>2. /\ Len(f) = 3 + n /\ \A i \in 1 .. 3 : f[i] = h[i]
          /\ \A j \in 1 .. n : f[3 + j] = m[j]
      BY <1>1, <2>4, <3>1, Zenon
    <3> QED
      BY <2>4, <3>1, <3>2
  <2>7. Framing!Frame(m) = f
    BY <2>1, <2>2, <2>3, <2>5, Zenon
  <2>8. Digits(m) = 2
    BY <1>1, <1>4 DEF Digits
  <2> QED
    BY <1>1, <2>2, <2>6, <2>7, <2>8, SMTT(30)
<1> QED
  BY <1>3, <1>4

(* FlattenSeq's iterator exists: it is extended part by part.              *)
LEMMA FlattenFold ==
    ASSUME NEW q
    PROVE  \A n \in Nat : \E it :
             it = [i \in 1 .. n |-> IF i = 1 THEN q[i] ELSE it[i - 1] \o q[i]]
<1> DEFINE Eq(it, n) == it = [i \in 1 .. n |-> IF i = 1 THEN q[i] ELSE it[i - 1] \o q[i]]
           T == {n \in Nat : \E it : Eq(it, n)}
<1>1. 0 \in T
  <2>1. PICK it : it = [i \in 1 .. 0 |-> 0]
    OBVIOUS
  <2>2. \A i \in 1 .. 0 : FALSE
    OBVIOUS
  <2>3. Eq(it, 0)
    BY <2>1, <2>2, Zenon
  <2> QED
    BY <2>3
<1>2. ASSUME NEW n \in Nat, n \in T PROVE n + 1 \in T
  <2>1. PICK g : Eq(g, n)
    BY <1>2
  <2>2. PICK h : h = [i \in 1 .. n + 1 |->
                        IF i = n + 1 THEN (IF i = 1 THEN q[i] ELSE g[i - 1] \o q[i])
                        ELSE g[i]]
    OBVIOUS
  <2>3. ASSUME NEW i \in 1 .. n + 1
        PROVE  h[i] = IF i = 1 THEN q[i] ELSE h[i - 1] \o q[i]
    <3>1. i # 1 => i - 1 \in 1 .. n /\ i - 1 \in 1 .. n + 1 /\ i - 1 # n + 1
      OBVIOUS
    <3>2. i # 1 => h[i - 1] = g[i - 1]
      BY <2>2, <3>1, Zenon
    <3>3. CASE i = n + 1
      BY <2>2, <3>2, <3>3, Zenon
    <3>4. CASE i # n + 1
      <4>1. i \in 1 .. n
        BY <3>4
      <4>2. h[i] = g[i]
        BY <2>2, <3>4, Zenon
      <4>3. g[i] = IF i = 1 THEN q[i] ELSE g[i - 1] \o q[i]
        BY <2>1, <4>1, Zenon
      <4> QED
        BY <3>2, <4>2, <4>3, Zenon
    <3> QED
      BY <3>3, <3>4
  <2>4. Eq(h, n + 1)
    <3>1. h = [i \in 1 .. n + 1 |-> h[i]]
      BY <2>2, Zenon
    <3> QED
      BY <2>3, <3>1, Zenon
  <2> HIDE DEF Eq
  <2>5. n + 1 \in Nat
    OBVIOUS
  <2> QED
    BY <2>4, <2>5
<1> HIDE DEF T
<1>3. Nat \subseteq T
  BY <1>1, <1>2, AllOf
<1> QED
  BY <1>3 DEF T

(* FlattenSeq appends the parts one by one.                                *)
LEMMA FlattenSteps ==
    ASSUME NEW q \in Seq(Seq(Int)), q # <<>>
    PROVE  \E fl : /\ fl[0] = <<>> /\ fl[Len(q)] = Framing!FlattenSeq(q)
                   /\ \A k \in 1 .. Len(q) : fl[k] = fl[k - 1] \o q[k]
<1>1. PICK n \in Nat : n = Len(q) /\ n # 0
  OBVIOUS
<1> DEFINE Eq(it) == it = [i \in 1 .. n |-> IF i = 1 THEN q[i] ELSE it[i - 1] \o q[i]]
<1>2. PICK it : it = CHOOSE i : Eq(i)
  OBVIOUS
<1>3. Eq(it)
  <2>1. \E i : Eq(i)
    BY FlattenFold
  <2> QED
    BY <1>2, <2>1, Zenon
<1>4. Framing!FlattenSeq(q) = it[n]
  <2>1. Framing!FlattenSeq(q)
          = IF Len(q) = 0 THEN q
            ELSE (CHOOSE f : f = [i \in 1 .. Len(q) |->
                                    IF i = 1 THEN q[i] ELSE f[i - 1] \o q[i]])[Len(q)]
    BY DEF Framing!FlattenSeq
  <2> QED
    BY <1>1, <1>2, <2>1, Zenon
<1>5. PICK fl : fl = [i \in 0 .. n |-> IF i = 0 THEN <<>> ELSE it[i]]
  OBVIOUS
<1>6. fl[0] = <<>> /\ \A i \in 1 .. n : fl[i] = it[i]
  <2>1. 0 \in 0 .. n /\ \A i \in 1 .. n : i \in 0 .. n /\ i # 0
    OBVIOUS
  <2> QED
    BY <1>5, <2>1, Zenon
<1>7. ASSUME NEW k \in 1 .. n PROVE fl[k] = fl[k - 1] \o q[k]
  <2>1. it[k] = IF k = 1 THEN q[k] ELSE it[k - 1] \o q[k]
    BY <1>3, Zenon
  <2>2. CASE k = 1
    <3>1. q[k] \in Seq(Int) /\ 1 - 1 = 0
      BY <1>1
    <3>2. <<>> \o q[k] = q[k]
      BY <3>1, ConcatEmptySeq
    <3> QED
      BY <1>6, <2>1, <2>2, <3>1, <3>2, Zenon
  <2>3. CASE k # 1
    <3>1. k - 1 \in 1 .. n
      BY <2>3
    <3> QED
      BY <1>6, <2>1, <2>3, <3>1, Zenon
  <2> QED
    BY <2>2, <2>3
<1>8. fl[n] = Framing!FlattenSeq(q)
  BY <1>1, <1>4, <1>6
<1> QED
  BY <1>1, <1>6, <1>7, <1>8

(* Part i of q lies in flat from behind off[i - 1] up to off[i].           *)
Laid(q, off, flat) ==
    /\ flat \in Seq(Int) /\ off \in [0 .. Len(q) -> Nat]
    /\ off[0] = 0 /\ Len(flat) = off[Len(q)]
    /\ \A i \in 1 .. Len(q) :
         /\ off[i] = off[i - 1] + Len(q[i]) /\ off[i] <= off[Len(q)]
         /\ \A j \in 1 .. Len(q[i]) : flat[off[i - 1] + j] = q[i][j]

(* FlattenSeq lays its parts out one behind the other.                     *)
LEMMA FlattenLayout ==
    ASSUME NEW q \in Seq(Seq(Int)), q # <<>>
    PROVE  \E off : Laid(q, off, Framing!FlattenSeq(q))
<1>1. PICK n \in Nat : n = Len(q)
  OBVIOUS
<1>2. PICK fl : /\ fl[0] = <<>> /\ fl[n] = Framing!FlattenSeq(q)
                /\ \A k \in 1 .. n : fl[k] = fl[k - 1] \o q[k]
  BY <1>1, FlattenSteps
<1> DEFINE Fine(k) ==
             /\ fl[k] \in Seq(Int)
             /\ \A i \in 1 .. k :
                  /\ fl[i - 1] \in Seq(Int) /\ fl[i] \in Seq(Int)
                  /\ Len(fl[i]) = Len(fl[i - 1]) + Len(q[i]) /\ Len(fl[i]) <= Len(fl[k])
                  /\ \A j \in 1 .. Len(q[i]) : fl[k][Len(fl[i - 1]) + j] = q[i][j]
           T == {k \in Nat : k <= n => Fine(k)}
<1>3. Fine(0)
  <2>1. <<>> \in Seq(Int) /\ \A i \in 1 .. 0 : FALSE
    OBVIOUS
  <2> QED
    BY <1>2, <2>1, Zenon
<1>4. ASSUME NEW k \in Nat, Fine(k), k + 1 <= n PROVE Fine(k + 1)
  <2>1. Fine(k)
    BY <1>4
  <2>2. k + 1 \in 1 .. n /\ (k + 1) - 1 = k
    BY <1>4
  <2>3. PICK s, t : s = fl[k] /\ t = q[k + 1]
    OBVIOUS
  <2>4. s \in Seq(Int) /\ t \in Seq(Int)
    BY <1>1, <2>1, <2>2, <2>3
  <2>5. PICK u : u = s \o t
    OBVIOUS
  <2>6. fl[k + 1] = u
    BY <1>2, <2>2, <2>3, <2>5, Zenon
  <2>7. /\ u \in Seq(Int) /\ Len(u) = Len(s) + Len(t)
        /\ \A i \in 1 .. Len(s) : u[i] = s[i]
        /\ \A j \in 1 .. Len(t) : u[Len(s) + j] = t[j]
    BY <2>4, <2>5, ConcatAt
  <2>8. ASSUME NEW i \in 1 .. k + 1
        PROVE  /\ fl[i - 1] \in Seq(Int) /\ fl[i] \in Seq(Int)
               /\ Len(fl[i]) = Len(fl[i - 1]) + Len(q[i]) /\ Len(fl[i]) <= Len(u)
               /\ \A j \in 1 .. Len(q[i]) : u[Len(fl[i - 1]) + j] = q[i][j]
    <3>1. CASE i = k + 1
      <4>1. fl[i - 1] = s /\ fl[i] = u /\ q[i] = t
        BY <2>2, <2>3, <2>6, <3>1
      <4>2. Len(u) <= Len(u)
        BY <2>7
      <4> QED
        BY <2>4, <2>7, <4>1, <4>2, Zenon
    <3>2. CASE i # k + 1
      <4>1. i \in 1 .. k
        BY <3>2
      <4>2. PICK v, w : v = fl[i - 1] /\ w = fl[i]
        OBVIOUS
      <4>3. /\ v \in Seq(Int) /\ w \in Seq(Int)
            /\ Len(w) = Len(v) + Len(q[i]) /\ Len(w) <= Len(s)
            /\ \A j \in 1 .. Len(q[i]) : s[Len(v) + j] = q[i][j]
        BY <2>1, <2>3, <4>1, <4>2, Zenon
      <4>4. PICK a, b, c \in Nat : a = Len(v) /\ b = Len(q[i]) /\ c = Len(s)
        <5>1. q[i] \in Seq(Int)
          BY <1>1, <1>4, <4>1
        <5> QED
          BY <2>4, <4>3, <5>1
      <4>5. \A j \in 1 .. b : a + j \in 1 .. c
        <5>1. a + b <= c
          BY <4>3, <4>4, Zenon
        <5> QED
          BY <5>1
      <4>6. \A j \in 1 .. b : u[a + j] = s[a + j]
        BY <2>7, <4>4, <4>5
      <4>7. Len(w) <= Len(u)
        BY <2>4, <2>7, <4>3
      <4> QED
        BY <4>2, <4>3, <4>4, <4>6, <4>7, Zenon
    <3> QED
      BY <3>1, <3>2
  <2> QED
    BY <2>6, <2>7, <2>8, Zenon
<1>5. Nat \subseteq T
  <2> HIDE DEF Fine
  <2>1. 0 \in T
    BY <1>3
  <2>2. \A k \in Nat : k \in T => k + 1 \in T
    BY <1>4
  <2> QED
    BY <2>1, <2>2, AllOf
<1>6. Fine(n)
  <2> HIDE DEF Fine
  <2>1. n <= n
    OBVIOUS
  <2> QED
    BY <1>5, <2>1
<1>7. PICK off : off = [i \in 0 .. n |-> Len(fl[i])]
  OBVIOUS
<1>8. \A i \in 0 .. n : off[i] = Len(fl[i]) /\ off[i] \in Nat
  <2>1. \A i \in 0 .. n : fl[i] \in Seq(Int)
    <3>1. \A i \in 0 .. n : i = 0 \/ i \in 1 .. n
      OBVIOUS
    <3>2. <<>> \in Seq(Int)
      OBVIOUS
    <3> QED
      BY <1>2, <1>6, <3>1, <3>2, Zenon
  <2> QED
    BY <1>7, <2>1
<1>9. off \in [0 .. n -> Nat] /\ off[0] = 0
  <2>1. off[0] = Len(<<>>)
    <3>1. 0 \in 0 .. n
      OBVIOUS
    <3> QED
      BY <1>2, <1>8, <3>1, Zenon
  <2> QED
    BY <1>7, <1>8, <2>1
<1>10. ASSUME NEW i \in 1 .. n
       PROVE  /\ off[i] = off[i - 1] + Len(q[i]) /\ off[i] <= off[n]
              /\ \A j \in 1 .. Len(q[i]) : fl[n][off[i - 1] + j] = q[i][j]
  <2>1. i \in 0 .. n /\ i - 1 \in 0 .. n /\ n \in 0 .. n
    OBVIOUS
  <2>2. off[i] = Len(fl[i]) /\ off[i - 1] = Len(fl[i - 1]) /\ off[n] = Len(fl[n])
    BY <1>8, <2>1
  <2> QED
    BY <1>6, <2>2, Zenon
<1>11. Len(fl[n]) = off[n] /\ fl[n] \in Seq(Int)
  <2>1. n \in 0 .. n
    OBVIOUS
  <2> QED
    BY <1>6, <1>8, <2>1
<1> HIDE DEF Fine
<1>12. Laid(q, off, fl[n])
  BY <1>1, <1>9, <1>10, <1>11, Zenon DEF Laid
<1> QED
  BY <1>2, <1>12, Zenon

(* What a client writes: its frames, one behind the other, and the NUL.    *)
LEMMA TextLayout ==
    ASSUME NEW script, IsScript(script)
    PROVE  Text(script) \in Seq(Int) /\ \E off : Layout(script, off, Text(script))
<1>1. PICK q : q = Frames(script)
  OBVIOUS
<1>2. PICK last \in Nat : last = Len(script) /\ last # 0 /\ DOMAIN script = 1 .. last
  BY DEF IsScript
<1>3. \A i \in 1 .. last : q[i] = Framing!Frame(script[i]) /\ q[i] \in Seq(Int)
  <2>1. \A i \in 1 .. last : script[i] \in Seq(Int) /\ Len(script[i]) \in 1 .. 99
    BY <1>2, SMTT(30) DEF IsScript
  <2>2. \A i \in 1 .. last : Framing!Frame(script[i]) \in Seq(Int)
    BY <2>1, FrameIs
  <2> QED
    BY <1>1, <1>2, <2>2 DEF Frames
<1>4. q \in Seq(Seq(Int)) /\ Len(q) = last /\ q # <<>>
  BY <1>1, <1>2, <1>3 DEF Frames
<1>5. PICK flat, off : flat = Framing!FlattenSeq(q) /\ Laid(q, off, flat)
  BY <1>4, FlattenLayout
<1>6. PICK text : text = Text(script) /\ text = flat \o <<Framing!NUL>>
  BY <1>1, <1>5 DEF Text
<1>7. flat \in Seq(Int) /\ off \in [0 .. last -> Nat] /\ off[0] = 0 /\ Len(flat) = off[last]
  BY <1>4, <1>5 DEF Laid
<1>8. /\ text \in Seq(Int) /\ Len(text) = off[last] + 1
      /\ text[off[last] + 1] = Framing!NUL
      /\ \A x \in 1 .. off[last] : text[x] = flat[x]
  <2>1. PICK t : t = <<Framing!NUL>>
    OBVIOUS
  <2>2. t \in Seq(Int) /\ Len(t) = 1 /\ t[1] = Framing!NUL
    BY <2>1 DEF Framing!NUL
  <2>3. /\ text \in Seq(Int) /\ Len(text) = Len(flat) + Len(t)
        /\ \A x \in 1 .. Len(flat) : text[x] = flat[x]
        /\ \A y \in 1 .. Len(t) : text[Len(flat) + y] = t[y]
    BY <1>6, <1>7, <2>1, <2>2, ConcatAt
  <2> QED
    BY <1>7, <2>2, <2>3
<1>9. ASSUME NEW i \in 1 .. last
      PROVE  /\ off[i] = off[i - 1] + Len(q[i]) /\ off[i] <= off[last]
             /\ \A j \in 1 .. Len(q[i]) : text[off[i - 1] + j] = q[i][j]
  <2>1. /\ off[i] = off[i - 1] + Len(q[i]) /\ off[i] <= off[last]
        /\ \A j \in 1 .. Len(q[i]) : flat[off[i - 1] + j] = q[i][j]
    BY <1>4, <1>5 DEF Laid
  <2>2. PICK a, b, c \in Nat : a = off[i - 1] /\ b = Len(q[i]) /\ c = off[last]
    BY <1>3, <1>7, SMTT(30)
  <2>3. \A j \in 1 .. b : a + j \in 1 .. c
    <3>1. a + b <= c
      BY <2>1, <2>2, Zenon
    <3> QED
      BY <3>1
  <2>4. \A j \in 1 .. b : text[a + j] = flat[a + j]
    BY <1>8, <2>2, <2>3
  <2> QED
    BY <2>1, <2>2, <2>4, Zenon
<1>10. Layout(script, off, text)
  <2>1. \A i \in 1 .. last :
          /\ off[i] = off[i - 1] + Len(Framing!Frame(script[i]))
          /\ off[i] <= off[last]
          /\ \A j \in 1 .. Len(Framing!Frame(script[i])) :
               text[off[i - 1] + j] = Framing!Frame(script[i])[j]
    BY <1>3, <1>9, ZenonT(30)
  <2> QED
    BY <1>2, <1>7, <1>8, <2>1 DEF Layout
<1> QED
  BY <1>6, <1>8, <1>10
-----------------------------------------------------------------------------
(* The iterator of FoldLeft over TakeChar exists ...                       *)
IsParser(it, st, q, n) ==
    it = [s \in SUBSET (1 .. n) |->
            IF s = {} THEN st
            ELSE Framing!TakeChar(it[s \ {Framing!Max(s)}], q[Framing!Max(s)])]

LEMMA ParserFold ==
    ASSUME NEW st, NEW q
    PROVE  \A n \in Nat : \E it : IsParser(it, st, q, n)
<1> DEFINE Eq(it, n) == IsParser(it, st, q, n)
           T == {n \in Nat : \E it : Eq(it, n)}
<1>1. 0 \in T
  <2>1. PICK it : it = [s \in SUBSET (1 .. 0) |-> st]
    OBVIOUS
  <2>2. \A s \in SUBSET (1 .. 0) : s = {}
    OBVIOUS
  <2>3. Eq(it, 0)
    BY <2>1, <2>2, Zenon DEF IsParser
  <2> QED
    BY <2>3
<1>2. ASSUME NEW n \in Nat, n \in T PROVE n + 1 \in T
  <2>1. PICK g : Eq(g, n)
    BY <1>2
  <2>2. PICK h : h = [s \in SUBSET (1 .. n + 1) |->
                        IF n + 1 \in s
                        THEN Framing!TakeChar(g[s \ {n + 1}], q[n + 1]) ELSE g[s]]
    OBVIOUS
  <2>3. ASSUME NEW s \in SUBSET (1 .. n), s # {}
        PROVE  g[s] = Framing!TakeChar(g[s \ {Framing!Max(s)}], q[Framing!Max(s)])
    BY <2>1, <2>3, Zenon DEF IsParser
  <2>4. g[{}] = st
    <3>1. {} \in SUBSET (1 .. n)
      OBVIOUS
    <3> QED
      BY <2>1, <3>1, Zenon DEF IsParser
  <2>5. ASSUME NEW s \in SUBSET (1 .. n + 1)
        PROVE  h[s] = IF s = {} THEN st
                      ELSE Framing!TakeChar(h[s \ {Framing!Max(s)}], q[Framing!Max(s)])
    <3>1. CASE n + 1 \in s
      <4>1. Framing!Max(s) = n + 1
        BY <3>1, MaxIs
      <4>2. s \ {n + 1} \in SUBSET (1 .. n + 1) /\ n + 1 \notin s \ {n + 1}
        OBVIOUS
      <4>3. h[s \ {n + 1}] = g[s \ {n + 1}]
        BY <2>2, <4>2, Zenon
      <4>4. h[s] = Framing!TakeChar(g[s \ {n + 1}], q[n + 1])
        BY <2>2, <3>1, Zenon
      <4>5. s # {}
        BY <3>1
      <4> QED
        BY <4>1, <4>3, <4>4, <4>5, Zenon
    <3>2. CASE n + 1 \notin s /\ s # {}
      <4>1. s \in SUBSET (1 .. n)
        BY <3>2
      <4>2. \A m : s \ {m} \in SUBSET (1 .. n + 1) /\ n + 1 \notin s \ {m}
        BY <3>2
      <4>3. \A m : h[s \ {m}] = g[s \ {m}]
        BY <2>2, <4>2, Zenon
      <4>4. h[s] = g[s]
        BY <2>2, <3>2, Zenon
      <4> QED
        BY <2>3, <3>2, <4>1, <4>3, <4>4, Zenon
    <3>3. CASE s = {}
      <4>1. h[s] = g[s]
        BY <2>2, <3>3, Zenon
      <4> QED
        BY <2>4, <3>3, <4>1, Zenon
    <3> QED
      BY <3>1, <3>2, <3>3
  <2>6. Eq(h, n + 1)
    <3>1. h = [s \in SUBSET (1 .. n + 1) |-> h[s]]
      BY <2>2, Zenon
    <3> QED
      BY <2>5, <3>1, Zenon DEF IsParser
  <2> HIDE DEF Eq
  <2>7. n + 1 \in Nat
    OBVIOUS
  <2> QED
    BY <2>6, <2>7
<1> HIDE DEF T
<1>3. Nat \subseteq T
  BY <1>1, <1>2, AllOf
<1> QED
  BY <1>3 DEF T

(* ... and so the loop over the received characters takes them in order.   *)
LEMMA ParserSteps ==
    ASSUME NEW st, NEW q \in Seq(Int)
    PROVE  \E p : /\ p[0] = st
                  /\ \A k \in 1 .. Len(q) : p[k] = Framing!TakeChar(p[k - 1], q[k])
                  /\ p[Len(q)] = Framing!FoldLeft(Framing!TakeChar, st, q)
<1>1. PICK n \in Nat : n = Len(q) /\ DOMAIN q = 1 .. n
  OBVIOUS
<1>2. PICK it : it = CHOOSE i : IsParser(i, st, q, n)
  OBVIOUS
<1>3. Framing!FoldLeft(Framing!TakeChar, st, q) = it[1 .. n]
  <2>1. Framing!FoldLeft(Framing!TakeChar, st, q)
          = (CHOOSE i : i = [s \in SUBSET (DOMAIN q) |->
                               IF s = {} THEN st
                               ELSE Framing!TakeChar(i[s \ {Framing!Max(s)}],
                                                     q[Framing!Max(s)])])[DOMAIN q]
    BY DEF Framing!FoldLeft, Framing!MapThenFoldSet
  <2> QED
    BY <1>1, <1>2, <2>1, Zenon DEF IsParser
<1>4. IsParser(it, st, q, n)
  <2>1. \E i : IsParser(i, st, q, n)
    BY ParserFold
  <2> QED
    BY <1>2, <2>1, Zenon
<1>5. PICK p : p = [k \in 0 .. n |-> it[1 .. k]]
  OBVIOUS
<1>6. p[0] = st
  <2>1. 1 .. 0 = {} /\ {} \in SUBSET (1 .. n) /\ 0 \in 0 .. n
    OBVIOUS
  <2>2. it[{}] = st
    BY <1>4, <2>1, Zenon DEF IsParser
  <2> QED
    BY <1>5, <2>1, <2>2, Zenon
<1>7. ASSUME NEW k \in 1 .. n PROVE p[k] = Framing!TakeChar(p[k - 1], q[k])
  <2>1. PICK s : s = 1 .. k
    OBVIOUS
  <2>2. PICK m \in Nat : m = k - 1 /\ k = m + 1
    OBVIOUS
  <2>3. s \in SUBSET (1 .. n) /\ s # {} /\ k \in s /\ s \in SUBSET (1 .. m + 1)
    <3>1. k \in 1 .. k /\ \A x \in 1 .. k : x \in 1 .. n
      OBVIOUS
    <3> QED
      BY <2>1, <2>2, <3>1
  <2>4. Framing!Max(s) = k
    BY <2>2, <2>3, MaxIs
  <2>5. s \ {k} = 1 .. m
    BY <2>1, <2>2
  <2>6. it[s] = Framing!TakeChar(it[s \ {Framing!Max(s)}], q[Framing!Max(s)])
    BY <1>4, <2>3, Zenon DEF IsParser
  <2>7. it[s] = Framing!TakeChar(it[1 .. m], q[k])
    BY <2>4, <2>5, <2>6, Zenon
  <2>8. m \in 0 .. n /\ k \in 0 .. n
    BY <2>2
  <2> QED
    BY <1>5, <2>1, <2>2, <2>7, <2>8, Zenon
<1>8. p[n] = it[1 .. n]
  <2>1. n \in 0 .. n
    OBVIOUS
  <2> QED
    BY <1>5, <2>1
<1> QED
  BY <1>1, <1>3, <1>6, <1>7, <1>8, Zenon
-----------------------------------------------------------------------------
Parser(g, a, buffer, done) ==
    [getting_len |-> g, acc |-> a, msg_buffer |-> buffer, printed |-> done]

(* The parser after j characters of the frame of m, the messages before    *)
(* it printed.                                                             *)
InFrame(m, before, j, sv) ==
    \/ j = 0 /\ sv = Parser(TRUE, 0, <<>>, before)
    \/ j = 1 /\ Digits(m) = 2 /\ sv = Parser(TRUE, Len(m) \div 10, <<>>, before)
    \/ j = Digits(m) /\ sv = Parser(TRUE, Len(m), <<>>, before)
    \/ \E t \in 0 .. Len(m) - 1 :
         /\ j = Digits(m) + 1 + t
         /\ sv = Parser(FALSE, Len(m) - t, SubSeq(m, 1, t), before)

(* A number of two digits does not overflow size_t.                        *)
LEMMA SmallMod ==
    ASSUME NEW x \in 0 .. 99
    PROVE  x % Framing!SIZE_T = x
BY DEF Framing!SIZE_T

(* The part of a sequence up to an element is the part before it and it.   *)
LEMMA SubSeqNext ==
    ASSUME NEW S, NEW s \in Seq(S), NEW t \in 0 .. Len(s) - 1
    PROVE  Append(SubSeq(s, 1, t), s[t + 1]) = SubSeq(s, 1, t + 1)
<1>1. PICK u, v : u = SubSeq(s, 1, t) /\ v = SubSeq(s, 1, t + 1)
  OBVIOUS
<1>2. t \in Nat /\ t + 1 \in 1 .. Len(s) /\ s[t + 1] \in S
  OBVIOUS
<1>3. /\ u \in Seq(S) /\ Len(u) = t /\ \A i \in 1 .. t : u[i] = s[i]
      /\ v \in Seq(S) /\ Len(v) = t + 1 /\ \A i \in 1 .. t + 1 : v[i] = s[i]
  BY <1>1, <1>2
<1>4. PICK w : w = Append(u, s[t + 1])
  OBVIOUS
<1>5. /\ w \in Seq(S) /\ Len(w) = t + 1 /\ w[t + 1] = s[t + 1]
      /\ \A i \in 1 .. t : w[i] = u[i]
  BY <1>2, <1>3, <1>4
<1>6. \A i \in 1 .. t + 1 : w[i] = v[i]
  BY <1>2, <1>3, <1>5
<1>7. w = v
  BY <1>3, <1>5, <1>6, SeqEqual
<1> QED
  BY <1>1, <1>4, <1>7

(* A character of the frame of m moves the parser on in the frame; its     *)
(* last one prints m, whole.                                               *)
LEMMA FrameStep ==
    ASSUME NEW m \in Seq(Int), Len(m) \in 1 .. 99, NEW before, NEW sv, NEW j \in Nat,
           j < Len(Framing!Frame(m)), InFrame(m, before, j, sv), NEW next,
           next = Framing!TakeChar(sv, Framing!Frame(m)[j + 1])
    PROVE  IF j + 1 < Len(Framing!Frame(m)) THEN InFrame(m, before, j + 1, next)
           ELSE next = Parser(TRUE, 0, <<>>, Append(before, m))
<1>1. PICK f : f = Framing!Frame(m)
  OBVIOUS
<1>2. PICK n \in 1 .. 99, d \in 1 .. 2 : n = Len(m) /\ d = Digits(m)
  BY DEF Digits
<1>3. /\ Len(f) = d + 1 + n
      /\ d = 1 => f[1] = n
      /\ d = 2 => f[1] = n \div 10 /\ f[2] = n % 10
      /\ f[d + 1] = Framing!BAR
      /\ \A t \in 1 .. n : f[d + 1 + t] = m[t]
  BY <1>1, <1>2, FrameIs
<1>4. next = Framing!TakeChar(sv, f[j + 1])
  BY <1>1
<1>5. CASE j = 0 /\ sv = Parser(TRUE, 0, <<>>, before)
  <2>1. CASE d = 1
    <3>1. f[j + 1] = n /\ n # Framing!BAR /\ n = (0 * 10 + n) % Framing!SIZE_T
      <4>1. n < 10
        BY <1>2, <2>1 DEF Digits
      <4>2. 0 * 10 + n = n /\ n \in 0 .. 99
        OBVIOUS
      <4>3. n # Framing!BAR
        BY <4>1 DEF Framing!BAR
      <4>4. n % Framing!SIZE_T = n
        BY <4>2, SmallMod
      <4>5. j + 1 = 1 /\ f[1] = n
        BY <1>3, <1>5, <2>1
      <4> QED
        BY <4>2, <4>3, <4>4, <4>5, Zenon
    <3>2. next = Parser(TRUE, n, <<>>, before)
      <4>1. Framing!TakeChar(Parser(TRUE, 0, <<>>, before), n)
              = Parser(TRUE, n, <<>>, before)
        BY <3>1 DEF Framing!TakeChar, Parser
      <4> QED
        BY <1>4, <1>5, <3>1, <4>1, Zenon
    <3>3. j + 1 = d /\ j + 1 < Len(f)
      BY <1>3, <1>5, <2>1
    <3> QED
      BY <1>1, <1>2, <3>2, <3>3 DEF InFrame
  <2>2. CASE d = 2
    <3>1. PICK a : a = n \div 10
      OBVIOUS
    <3>2. a \in 0 .. 9 /\ a # Framing!BAR /\ a = (0 * 10 + a) % Framing!SIZE_T
      <4>1. a \in 0 .. 9
        BY <3>1
      <4>2. 0 * 10 + a = a /\ a \in 0 .. 99
        BY <4>1
      <4> QED
        <5>1. a # Framing!BAR
          BY <4>1 DEF Framing!BAR
        <5>2. a % Framing!SIZE_T = a
          BY <4>2, SmallMod
        <5> QED
          BY <4>1, <4>2, <5>1, <5>2, Zenon
    <3>3. f[j + 1] = a
      BY <1>3, <1>5, <2>2, <3>1
    <3>4. next = Parser(TRUE, a, <<>>, before)
      <4>1. Framing!TakeChar(Parser(TRUE, 0, <<>>, before), a)
              = Parser(TRUE, a, <<>>, before)
        BY <3>2 DEF Framing!TakeChar, Parser
      <4> QED
        BY <1>4, <1>5, <3>3, <4>1, Zenon
    <3>5. j + 1 = 1 /\ j + 1 < Len(f)
      BY <1>3, <1>5, <2>2
    <3> QED
      BY <1>1, <1>2, <2>2, <3>1, <3>4, <3>5 DEF InFrame
  <2>3. d = 1 \/ d = 2
    OBVIOUS
  <2> QED
    BY <2>1, <2>2, <2>3, Zenon
<1>6. CASE j = 1 /\ d = 2 /\ sv = Parser(TRUE, n \div 10, <<>>, before)
  <2>1. PICK a, b : a = n \div 10 /\ b = n % 10
    OBVIOUS
  <2>2. a \in 0 .. 9 /\ b \in 0 .. 9 /\ a * 10 + b = n
    BY <2>1
  <2>3. b # Framing!BAR /\ n = (a * 10 + b) % Framing!SIZE_T
    <3>1. n \in 0 .. 99
      OBVIOUS
    <3> QED
      <4>1. b # Framing!BAR
        BY <2>2 DEF Framing!BAR
      <4>2. n % Framing!SIZE_T = n
        BY <3>1, SmallMod
      <4> QED
        BY <2>2, <4>1, <4>2, Zenon
  <2>4. f[j + 1] = b
    BY <1>3, <1>6, <2>1
  <2>5. next = Parser(TRUE, n, <<>>, before)
    <3>1. Framing!TakeChar(Parser(TRUE, a, <<>>, before), b)
            = Parser(TRUE, n, <<>>, before)
      BY <2>3 DEF Framing!TakeChar, Parser
    <3> QED
      BY <1>4, <1>6, <2>1, <2>4, <3>1, Zenon
  <2>6. j + 1 = d /\ j + 1 < Len(f)
    BY <1>3, <1>6
  <2> QED
    BY <1>1, <1>2, <2>5, <2>6 DEF InFrame
<1>7. CASE j = d /\ sv = Parser(TRUE, n, <<>>, before)
  <2>1. next = Parser(FALSE, n, <<>>, before)
    <3>1. Framing!TakeChar(Parser(TRUE, n, <<>>, before), Framing!BAR)
            = Parser(FALSE, n, <<>>, before)
      BY DEF Framing!TakeChar, Parser
    <3> QED
      BY <1>3, <1>4, <1>7, <3>1, Zenon
  <2>2. SubSeq(m, 1, 0) = <<>> /\ n - 0 = n /\ 0 \in 0 .. n - 1
    OBVIOUS
  <2>3. j + 1 = d + 1 + 0 /\ j + 1 < Len(f)
    BY <1>3, <1>7
  <2>4. InFrame(m, before, j + 1, next)
    BY <1>2, <2>1, <2>2, <2>3, Zenon DEF InFrame
  <2> QED
    BY <1>1, <2>3, <2>4
<1>8. ASSUME NEW t \in 0 .. n - 1, j = d + 1 + t,
             sv = Parser(FALSE, n - t, SubSeq(m, 1, t), before)
      PROVE  IF j + 1 < Len(f) THEN InFrame(m, before, j + 1, next)
             ELSE next = Parser(TRUE, 0, <<>>, Append(before, m))
  <2>1. f[j + 1] = m[t + 1]
    <3>1. t + 1 \in 1 .. n /\ j + 1 = d + 1 + (t + 1)
      BY <1>8
    <3> QED
      BY <1>3, <3>1
  <2>2. Append(SubSeq(m, 1, t), m[t + 1]) = SubSeq(m, 1, t + 1)
    BY <1>2, SubSeqNext
  <2>3. CASE n - t = 1
    <3>1. next = Parser(TRUE, 0, <<>>, Append(before, SubSeq(m, 1, t + 1)))
      <4>1. Framing!TakeChar(Parser(FALSE, 1, SubSeq(m, 1, t), before), m[t + 1])
              = Parser(TRUE, 0, <<>>, Append(before, SubSeq(m, 1, t + 1)))
        <5>1. PICK u, v, ch : /\ u = SubSeq(m, 1, t + 1) /\ v = SubSeq(m, 1, t)
                              /\ ch = m[t + 1]
          OBVIOUS
        <5>2. Append(v, ch) = u
          BY <2>2, <5>1, Zenon
        <5>3. Framing!TakeChar(Parser(FALSE, 1, v, before), ch)
                = Parser(TRUE, 0, <<>>, Append(before, u))
          BY <5>2 DEF Framing!TakeChar, Parser
        <5> QED
          BY <5>1, <5>3, Zenon
      <4> QED
        BY <1>4, <1>8, <2>1, <2>3, <4>1, Zenon
    <3>2. t + 1 = Len(m) /\ ~(j + 1 < Len(f))
      BY <1>2, <1>3, <1>8, <2>3
    <3>3. SubSeq(m, 1, Len(m)) = m
      BY SubSeqFull
    <3> QED
      BY <3>1, <3>2, <3>3, Zenon
  <2>4. CASE n - t # 1
    <3>1. PICK a : a = n - t
      OBVIOUS
    <3>2. n - (t + 1) = (a - 1) % Framing!SIZE_T /\ a # 1
      <4>1. a - 1 \in 0 .. 99 /\ n - (t + 1) = a - 1
        BY <2>4, <3>1
      <4> QED
        BY <2>4, <3>1, <4>1, SmallMod
    <3>3. next = Parser(FALSE, n - (t + 1), SubSeq(m, 1, t + 1), before)
      <4>1. Framing!TakeChar(Parser(FALSE, a, SubSeq(m, 1, t), before), m[t + 1])
              = Parser(FALSE, n - (t + 1), SubSeq(m, 1, t + 1), before)
        <5>1. PICK u, v, ch, x : /\ u = SubSeq(m, 1, t + 1) /\ v = SubSeq(m, 1, t)
                                 /\ ch = m[t + 1] /\ x = n - (t + 1)
          OBVIOUS
        <5>2. Append(v, ch) = u /\ x = (a - 1) % Framing!SIZE_T
          BY <2>2, <3>2, <5>1, Zenon
        <5>3. Framing!TakeChar(Parser(FALSE, a, v, before), ch) = Parser(FALSE, x, u, before)
          BY <3>2, <5>2 DEF Framing!TakeChar, Parser
        <5> QED
          BY <5>1, <5>3, Zenon
      <4> QED
        BY <1>4, <1>8, <2>1, <3>1, <4>1, Zenon
    <3>4. t + 1 \in 0 .. n - 1 /\ j + 1 = d + 1 + (t + 1) /\ j + 1 < Len(f)
      BY <1>3, <1>8, <2>4
    <3>5. InFrame(m, before, j + 1, next)
      BY <1>2, <3>3, <3>4 DEF InFrame
    <3> QED
      BY <3>4, <3>5
  <2> QED
    BY <2>3, <2>4
<1> QED
  BY <1>1, <1>2, <1>5, <1>6, <1>7, <1>8 DEF InFrame
-----------------------------------------------------------------------------
(* The parser after k characters of the client's text.                     *)
ParserAt(script, off, k, sv) ==
    LET last == Len(script)
    IN  \/ \E i \in 1 .. last, j \in Nat :
             /\ j < Len(Framing!Frame(script[i])) /\ k = off[i - 1] + j
             /\ InFrame(script[i], SubSeq(script, 1, i - 1), j, sv)
        \/ k = off[last] /\ sv = Parser(TRUE, 0, <<>>, script)
        \/ k = off[last] + 1 /\ \E a : sv = Parser(TRUE, a, <<>>, script)

(* The messages of a script have one to 99 characters.                     *)
LEMMA ScriptAt ==
    ASSUME NEW script, IsScript(script), NEW i \in 1 .. Len(script)
    PROVE  script[i] \in Seq(Int) /\ Len(script[i]) \in 1 .. 99
BY DEF IsScript

(* The next character of the text takes the parser to the next position of *)
(* the text: inside the frame, to the next frame, or behind the NUL.       *)
LEMMA ParserStep ==
    ASSUME NEW script, IsScript(script), NEW off, NEW text, Layout(script, off, text),
           NEW k \in Nat, k < Len(text), NEW sv, ParserAt(script, off, k, sv)
    PROVE  ParserAt(script, off, k + 1, Framing!TakeChar(sv, text[k + 1]))
<1>1. PICK last \in Nat : last = Len(script) /\ last # 0 /\ DOMAIN script = 1 .. last
  BY DEF IsScript
<1>2. PICK next : next = Framing!TakeChar(sv, text[k + 1])
  OBVIOUS
<1> SUFFICES ParserAt(script, off, k + 1, next)
  BY <1>2, Zenon
<1>3. /\ off \in [0 .. last -> Nat] /\ off[0] = 0
      /\ \A i \in 1 .. last :
           /\ off[i] = off[i - 1] + Len(Framing!Frame(script[i]))
           /\ off[i] <= off[last]
           /\ \A j \in 1 .. Len(Framing!Frame(script[i])) :
                text[off[i - 1] + j] = Framing!Frame(script[i])[j]
      /\ Len(text) = off[last] + 1 /\ text[off[last] + 1] = Framing!NUL
  BY <1>1 DEF Layout
<1>4. ASSUME NEW i \in 1 .. last, NEW j \in Nat,
             j < Len(Framing!Frame(script[i])), k = off[i - 1] + j,
             InFrame(script[i], SubSeq(script, 1, i - 1), j, sv)
      PROVE  ParserAt(script, off, k + 1, next)
  <2>1. PICK m, f, before : /\ m = script[i] /\ f = Framing!Frame(m)
                            /\ before = SubSeq(script, 1, i - 1)
    OBVIOUS
  <2>2. m \in Seq(Int) /\ Len(m) \in 1 .. 99
    <3>1. i \in 1 .. Len(script)
      BY <1>1, Zenon
    <3> QED
      BY <2>1, <3>1, ScriptAt, Zenon
  <2>3. PICK l \in Nat : l = Len(f)
    BY <2>1, <2>2, FrameIs
  <2>4. PICK o \in Nat : o = off[i - 1] /\ off[i] = o + l /\ k = o + j /\ j < l
    <3>1. off[i - 1] \in Nat
      BY <1>3
    <3> QED
      BY <1>3, <1>4, <2>1, <2>3, <3>1, Zenon
  <2>5. text[k + 1] = f[j + 1]
    <3>1. j + 1 \in 1 .. l /\ k + 1 = o + (j + 1)
      <4>1. k = o + j /\ j < l
        BY <2>4, Zenon
      <4> QED
        BY <4>1
    <3>2. \A x \in 1 .. l : text[o + x] = f[x]
      BY <1>3, <2>1, <2>3, <2>4, Zenon
    <3> QED
      BY <3>1, <3>2
  <2>6. next = Framing!TakeChar(sv, f[j + 1])
    BY <1>2, <2>5, Zenon
  <2>7. IF j + 1 < l THEN InFrame(m, before, j + 1, next)
        ELSE next = Parser(TRUE, 0, <<>>, Append(before, m))
    <3>1. /\ InFrame(m, before, j, sv) /\ j < Len(Framing!Frame(m))
          /\ next = Framing!TakeChar(sv, Framing!Frame(m)[j + 1])
      BY <1>4, <2>1, <2>3, <2>4, <2>6, Zenon
    <3>2. IF j + 1 < Len(Framing!Frame(m)) THEN InFrame(m, before, j + 1, next)
          ELSE next = Parser(TRUE, 0, <<>>, Append(before, m))
      BY <2>2, <3>1, FrameStep
    <3> QED
      BY <2>1, <2>3, <3>2, Zenon
  <2>8. CASE j + 1 < l
    <3>1. k + 1 = off[i - 1] + (j + 1) /\ j + 1 \in Nat
      <4>1. k + 1 = o + (j + 1) /\ j + 1 \in Nat
        <5>1. k = o + j
          BY <2>4, Zenon
        <5> QED
          BY <5>1
      <4> QED
        BY <2>4, <4>1, Zenon
    <3>2. InFrame(script[i], SubSeq(script, 1, i - 1), j + 1, next)
      BY <2>1, <2>7, <2>8, Zenon
    <3>3. j + 1 < Len(Framing!Frame(script[i]))
      BY <2>1, <2>3, <2>8, Zenon
    <3> QED
      BY <1>1, <3>1, <3>2, <3>3, Zenon DEF ParserAt
  <2>9. CASE ~(j + 1 < l)
    <3>1. k + 1 = off[i]
      <4>1. k = o + j /\ j < l /\ off[i] = o + l
        BY <2>4, Zenon
      <4>2. k + 1 = o + l
        BY <2>9, <4>1
      <4> QED
        BY <4>1, <4>2, Zenon
    <3>2. Append(before, m) = SubSeq(script, 1, i)
      <4>1. script \in Seq(Seq(Int)) /\ i - 1 \in 0 .. Len(script) - 1 /\ (i - 1) + 1 = i
        BY <1>1 DEF IsScript
      <4> QED
        BY <2>1, <4>1, SubSeqNext
    <3>3. next = Parser(TRUE, 0, <<>>, SubSeq(script, 1, i))
      BY <2>7, <2>9, <3>2, Zenon
    <3>4. CASE i = last
      <4>1. SubSeq(script, 1, Len(script)) = script
        BY SubSeqFull DEF IsScript
      <4> QED
        BY <1>1, <3>1, <3>3, <3>4, <4>1, Zenon DEF ParserAt
    <3>5. CASE i # last
      <4>1. PICK h : h = i + 1
        OBVIOUS
      <4>2. h \in 1 .. last /\ h - 1 = i /\ 0 \in Nat /\ k + 1 = off[i] + 0
        <5>1. h \in 1 .. last /\ h - 1 = i
          BY <3>5, <4>1
        <5>2. k + 1 = (k + 1) + 0 /\ 0 \in Nat
          OBVIOUS
        <5> QED
          BY <3>1, <5>1, <5>2, Zenon
      <4>3. 0 < Len(Framing!Frame(script[h]))
        <5>1. script[h] \in Seq(Int) /\ Len(script[h]) \in 1 .. 99
          <6>1. h \in 1 .. Len(script)
            BY <1>1, <4>2, Zenon
          <6> QED
            BY <6>1, ScriptAt
        <5> QED
          BY <5>1, FrameIs DEF Digits
      <4>4. InFrame(script[h], SubSeq(script, 1, h - 1), 0, next)
        BY <3>3, <4>2, Zenon DEF InFrame
      <4> QED
        BY <1>1, <4>2, <4>3, <4>4, Zenon DEF ParserAt
    <3> QED
      BY <3>4, <3>5
  <2> QED
    BY <2>8, <2>9
<1>5. CASE k = off[last] /\ sv = Parser(TRUE, 0, <<>>, script)
  <2>1. text[k + 1] = Framing!NUL /\ Framing!NUL # Framing!BAR
    BY <1>3, <1>5 DEF Framing!NUL, Framing!BAR
  <2>2. PICK ch, a : ch = Framing!NUL /\ a = (0 * 10 + ch) % Framing!SIZE_T
    OBVIOUS
  <2>3. Framing!TakeChar(Parser(TRUE, 0, <<>>, script), ch) = Parser(TRUE, a, <<>>, script)
    BY <2>1, <2>2 DEF Framing!TakeChar, Parser
  <2>4. next = Parser(TRUE, a, <<>>, script)
    BY <1>2, <1>5, <2>1, <2>2, <2>3, Zenon
  <2>5. k + 1 = off[Len(script)] + 1
    BY <1>1, <1>5
  <2> QED
    BY <2>4, <2>5, Zenon DEF ParserAt
<1>6. k # off[last] + 1
  BY <1>3
<1> QED
  <2>1. \/ \E i \in 1 .. last, j \in Nat :
             /\ j < Len(Framing!Frame(script[i])) /\ k = off[i - 1] + j
             /\ InFrame(script[i], SubSeq(script, 1, i - 1), j, sv)
        \/ k = off[last] /\ sv = Parser(TRUE, 0, <<>>, script)
    BY <1>1, <1>6, Zenon DEF ParserAt
  <2> QED
    BY <1>4, <1>5, <2>1, Zenon
-----------------------------------------------------------------------------
(* The invariant: of the client's text, k characters have been parsed, the *)
(* socket holds the next ones and the client has yet to write the others.  *)
InTransit(off, text, k) ==
    /\ Layout(messages, off, text) /\ text \in Seq(Int)
    /\ k + Len(sock) + Len(unsent) = Len(text)
    /\ \A x \in 1 .. Len(sock) : sock[x] = text[k + x]
    /\ \A x \in 1 .. Len(unsent) : unsent[x] = text[k + Len(sock) + x]
    /\ ParserAt(messages, off, k, Framing!Server)
    /\ stopped => k = Len(text)

FramingInv ==
    /\ sock \in Seq(Int) /\ unsent \in Seq(Int)
    /\ \/ messages = <<>> /\ Framing!Init
       \/ /\ messages \in Conversations
          /\ \E off, text : \E k \in Nat : InTransit(off, text, k)

(* The conversations are scripts.                                          *)
LEMMA ScriptsAre ==
    ASSUME NEW script \in Conversations
    PROVE  IsScript(script)
BY FeedsAssumption DEF IsScript

(* The server's state in ParserAt is a record of its variables.            *)
LEMMA ParserRecord ==
    ASSUME NEW script, NEW off, NEW k, NEW sv, ParserAt(script, off, k, sv)
    PROVE  sv = Parser(sv.getting_len, sv.acc, sv.msg_buffer, sv.printed)
<1>1. \E g, a, b, p : sv = Parser(g, a, b, p)
  BY Zenon DEF ParserAt, InFrame
<1> QED
  BY <1>1 DEF Parser

(* A client that connects has its whole text still to write.               *)
LEMMA ConnectFrames == FramingInv /\ Framing!Connect => FramingInv'
<1> SUFFICES ASSUME FramingInv, Framing!Connect PROVE FramingInv'
  OBVIOUS
<1>1. PICK script \in Conversations : messages' = script /\ unsent' = Text(script)
  BY DEF Framing!Connect, Text, Frames
<1>2. IsScript(script)
  BY ScriptsAre
<1>3. Framing!Init
  <2>1. messages = <<>>
    BY DEF Framing!Connect
  <2>2. messages \notin Conversations
    BY <2>1, ScriptsAre DEF IsScript
  <2> QED
    BY <2>2 DEF FramingInv
<1>4. PICK off, text : text = Text(script) /\ Layout(script, off, text) /\ text \in Seq(Int)
  BY <1>2, TextLayout
<1>5. /\ sock' = <<>> /\ ~stopped'
      /\ Framing!Server' = Parser(TRUE, 0, <<>>, <<>>)
  BY <1>3 DEF Framing!Connect, Framing!Init, Framing!Server, Parser
<1>6. ParserAt(script, off, 0, Framing!Server')
  <2>1. 1 \in 1 .. Len(script) /\ 1 - 1 = 0 /\ 0 \in Nat /\ 0 = 0 + 0
    BY <1>2 DEF IsScript
  <2>2. 0 < Len(Framing!Frame(script[1]))
    <3>1. script[1] \in Seq(Int) /\ Len(script[1]) \in 1 .. 99
      BY <1>2, <2>1, ScriptAt
    <3> QED
      BY <3>1, FrameIs DEF Digits
  <2>3. off[0] = 0
    BY <1>4 DEF Layout
  <2>4. SubSeq(script, 1, 0) = <<>>
    BY <1>2 DEF IsScript
  <2>5. InFrame(script[1], SubSeq(script, 1, 1 - 1), 0, Framing!Server')
    BY <1>5, <2>1, <2>4, Zenon DEF InFrame
  <2>6. 0 = off[1 - 1] + 0
    BY <2>1, <2>3, Zenon
  <2> QED
    BY <2>1, <2>2, <2>5, <2>6, Zenon DEF ParserAt
<1>7. InTransit(off, text, 0)'
  <2>1. Len(sock') = 0 /\ Len(text) \in Nat /\ unsent' = text
    BY <1>1, <1>4, <1>5
  <2>2. 0 + Len(sock') + Len(unsent') = Len(text)
    BY <2>1
  <2>3. \A x \in 1 .. Len(sock') : FALSE
    BY <2>1
  <2>4. \A x \in 1 .. Len(unsent') : 0 + Len(sock') + x = x
    BY <2>1
  <2> QED
    BY <1>1, <1>4, <1>5, <1>6, <2>1, <2>2, <2>3, <2>4 DEF InTransit
<1>8. sock' \in Seq(Int) /\ unsent' \in Seq(Int)
  BY <1>1, <1>4, <1>5
<1>9. 0 \in Nat
  OBVIOUS
<1> QED
  BY <1>1, <1>7, <1>8, <1>9 DEF FramingInv

(* A write moves characters from the client to the socket.                 *)
LEMMA WriteFrames == FramingInv /\ Framing!Write => FramingInv'
<1> SUFFICES ASSUME FramingInv, Framing!Write PROVE FramingInv'
  OBVIOUS
<1>1. PICK n \in 1 .. Len(unsent) :
        /\ sock' = sock \o SubSeq(unsent, 1, n)
        /\ unsent' = SubSeq(unsent, n + 1, Len(unsent))
  BY DEF Framing!Write
<1>2. /\ sock \in Seq(Int) /\ unsent \in Seq(Int) /\ messages \in Conversations
      /\ \E off, text : \E k \in Nat : InTransit(off, text, k)
  BY <1>1 DEF FramingInv, Framing!Init
<1>3. PICK off, text : \E k \in Nat : InTransit(off, text, k)
  BY <1>2
<1>4. PICK k \in Nat : InTransit(off, text, k)
  BY <1>3
<1>5. PICK a \in Nat, b \in Nat : a = Len(sock) /\ b = Len(unsent) /\ n \in 1 .. b
  BY <1>1, <1>2
<1>6. PICK w : w = SubSeq(unsent, 1, n)
  OBVIOUS
<1>7. w \in Seq(Int) /\ Len(w) = n /\ \A x \in 1 .. n : w[x] = unsent[x]
  BY <1>2, <1>5, <1>6
<1>8. /\ sock' \in Seq(Int) /\ Len(sock') = a + n
      /\ \A x \in 1 .. a : sock'[x] = sock[x]
      /\ \A x \in 1 .. n : sock'[a + x] = w[x]
  BY <1>1, <1>2, <1>5, <1>6, <1>7, ConcatAt
<1>9. /\ unsent' \in Seq(Int) /\ Len(unsent') = b - n
      /\ \A x \in 1 .. b - n : unsent'[x] = unsent[n + x]
  BY <1>1, <1>2, <1>5
<1>10. InTransit(off, text, k)'
  <2>1. /\ k + a + b = Len(text)
        /\ \A x \in 1 .. a : sock[x] = text[k + x]
        /\ \A x \in 1 .. b : unsent[x] = text[k + a + x]
    BY <1>4, <1>5 DEF InTransit
  <2>2. k + Len(sock') + Len(unsent') = Len(text)
    <3>1. k + (a + n) + (b - n) = k + a + b
      OBVIOUS
    <3> QED
      BY <1>8, <1>9, <2>1, <3>1, Zenon
  <2>3. ASSUME NEW x \in 1 .. Len(sock') PROVE sock'[x] = text[k + x]
    <3>1. CASE x <= a
      <4>1. x \in 1 .. a
        BY <1>8, <2>3, <3>1
      <4> QED
        BY <1>8, <2>1, <4>1, Zenon
    <3>2. CASE ~(x <= a)
      <4>1. PICK y \in 1 .. n : x = a + y
        <5>1. x - a \in 1 .. n /\ x = a + (x - a)
          BY <1>8, <2>3, <3>2
        <5> QED
          BY <5>1
      <4>2. y \in 1 .. b /\ k + a + y = k + (a + y)
        BY <1>5
      <4>3. sock'[x] = unsent[y]
        BY <1>7, <1>8, <4>1, Zenon
      <4>4. unsent[y] = text[k + a + y]
        BY <2>1, <4>2, Zenon
      <4> QED
        BY <4>1, <4>2, <4>3, <4>4, Zenon
    <3> QED
      BY <3>1, <3>2
  <2>4. ASSUME NEW x \in 1 .. Len(unsent')
        PROVE  unsent'[x] = text[k + Len(sock') + x]
    <3>1. x \in 1 .. b - n /\ n + x \in 1 .. b
      BY <1>5, <1>9, <2>4
    <3>2. k + a + (n + x) = k + Len(sock') + x
      BY <1>5, <1>8, <3>1
    <3>3. unsent'[x] = unsent[n + x]
      BY <1>9, <3>1, Zenon
    <3>4. unsent[n + x] = text[k + a + (n + x)]
      BY <2>1, <3>1, Zenon
    <3> QED
      BY <3>2, <3>3, <3>4, Zenon
  <2>5. /\ UNCHANGED <<messages, stopped>> /\ Framing!Server' = Framing!Server
    BY DEF Framing!Write, Framing!Server
  <2> QED
    BY <1>4, <2>2, <2>3, <2>4, <2>5, Zenon DEF InTransit
<1>11. messages' \in Conversations
  BY <1>2 DEF Framing!Write
<1> QED
  BY <1>8, <1>9, <1>10, <1>11 DEF FramingInv

(* recv() takes any part of what the socket holds, and the loop over it    *)
(* takes the parser as many positions on.                                  *)
LEMMA RecvFrames == FramingInv /\ Framing!Recv => FramingInv'
<1> SUFFICES ASSUME FramingInv, Framing!Recv PROVE FramingInv'
  OBVIOUS
<1>1. PICK n \in 1 .. Len(sock) :
        LET server == Framing!FoldLeft(Framing!TakeChar, Framing!Server, SubSeq(sock, 1, n))
        IN  /\ n <= BUFFER_SIZE
            /\ getting_len' = server.getting_len /\ acc' = server.acc
            /\ msg_buffer' = server.msg_buffer /\ printed' = server.printed
            /\ sock' = SubSeq(sock, n + 1, Len(sock))
  BY DEF Framing!Recv
<1>2. /\ sock \in Seq(Int) /\ unsent \in Seq(Int) /\ messages \in Conversations
      /\ \E off, text : \E k \in Nat : InTransit(off, text, k)
  BY <1>1 DEF FramingInv, Framing!Init
<1>3. PICK off, text : \E k \in Nat : InTransit(off, text, k)
  BY <1>2
<1>4. PICK k \in Nat : InTransit(off, text, k)
  BY <1>3
<1>5. PICK a \in Nat, b \in Nat : a = Len(sock) /\ b = Len(unsent) /\ n \in 1 .. a
  BY <1>1, <1>2
<1>6. PICK w : w = SubSeq(sock, 1, n)
  OBVIOUS
<1>7. w \in Seq(Int) /\ Len(w) = n /\ \A x \in 1 .. n : w[x] = sock[x]
  BY <1>2, <1>5, <1>6
<1>8. /\ sock' \in Seq(Int) /\ Len(sock') = a - n
      /\ \A x \in 1 .. a - n : sock'[x] = sock[n + x]
  BY <1>1, <1>2, <1>5
<1>9. /\ k + a + b = Len(text) /\ Layout(messages, off, text) /\ text \in Seq(Int)
      /\ \A x \in 1 .. a : sock[x] = text[k + x]
      /\ \A x \in 1 .. b : unsent[x] = text[k + a + x]
      /\ ParserAt(messages, off, k, Framing!Server)
  BY <1>4, <1>5 DEF InTransit
<1>10. IsScript(messages)
  BY <1>2, ScriptsAre
<1>11. PICK p : /\ p[0] = Framing!Server
                /\ \A x \in 1 .. n : p[x] = Framing!TakeChar(p[x - 1], w[x])
                /\ p[n] = Framing!FoldLeft(Framing!TakeChar, Framing!Server, w)
  BY <1>7, ParserSteps, ZenonT(30)
<1> DEFINE T == {x \in Nat : x <= n => ParserAt(messages, off, k + x, p[x])}
<1>12. 0 \in T
  <2>1. k + 0 = k
    OBVIOUS
  <2>2. ParserAt(messages, off, k + 0, p[0])
    BY <1>9, <1>11, <2>1, Zenon
  <2> QED
    BY <2>2
<1>13. ASSUME NEW x \in Nat, x \in T PROVE x + 1 \in T
  <2> SUFFICES ASSUME x + 1 <= n PROVE ParserAt(messages, off, k + (x + 1), p[x + 1])
    OBVIOUS
  <2>1. x + 1 \in 1 .. n /\ (x + 1) - 1 = x /\ x <= n
    OBVIOUS
  <2>2. k + x \in Nat /\ (k + x) + 1 = k + (x + 1) /\ k + x < Len(text)
    BY <1>5, <1>9
  <2>3. ParserAt(messages, off, k + x, p[x])
    BY <1>13, <2>1
  <2>4. w[x + 1] = text[k + (x + 1)]
    <3>1. x + 1 \in 1 .. a
      BY <1>5, <2>1
    <3> QED
      BY <1>7, <1>9, <2>1, <3>1, Zenon
  <2>5. p[x + 1] = Framing!TakeChar(p[x], w[x + 1])
    BY <1>11, <2>1, Zenon
  <2>6. ParserAt(messages, off, (k + x) + 1, Framing!TakeChar(p[x], text[(k + x) + 1]))
    BY <1>9, <1>10, <2>2, <2>3, ParserStep
  <2> QED
    BY <2>2, <2>4, <2>5, <2>6, Zenon
<1> HIDE DEF T
<1>14. n \in T
  BY <1>12, <1>13, AllOf, SMTT(30)
<1>15. ParserAt(messages, off, k + n, p[n])
  <2>1. n \in Nat /\ n <= n
    OBVIOUS
  <2> QED
    BY <1>14, <2>1 DEF T
<1>16. Framing!Server' = p[n]
  <2>1. PICK sv : sv = p[n]
    OBVIOUS
  <2>2. /\ getting_len' = sv.getting_len /\ acc' = sv.acc
        /\ msg_buffer' = sv.msg_buffer /\ printed' = sv.printed
    BY <1>1, <1>6, <1>11, <2>1, Zenon
  <2>3. sv = Parser(sv.getting_len, sv.acc, sv.msg_buffer, sv.printed)
    BY <1>15, <2>1, ParserRecord
  <2> QED
    BY <2>1, <2>2, <2>3, Zenon DEF Framing!Server, Parser
<1>17. InTransit(off, text, k + n)'
  <2>1. k + n + Len(sock') + Len(unsent') = Len(text) /\ UNCHANGED <<messages, unsent>>
    <3>1. k + n + (a - n) + b = k + a + b
      OBVIOUS
    <3>2. UNCHANGED <<messages, unsent>>
      BY DEF Framing!Recv
    <3> QED
      BY <1>5, <1>8, <1>9, <3>1, <3>2, Zenon
  <2>2. ASSUME NEW x \in 1 .. Len(sock') PROVE sock'[x] = text[k + n + x]
    <3>1. x \in 1 .. a - n /\ n + x \in 1 .. a /\ k + (n + x) = k + n + x
      BY <1>5, <1>8, <2>2
    <3>2. sock'[x] = sock[n + x]
      BY <1>8, <3>1, Zenon
    <3>3. sock[n + x] = text[k + (n + x)]
      BY <1>9, <3>1, Zenon
    <3> QED
      BY <3>1, <3>2, <3>3, Zenon
  <2>3. ASSUME NEW x \in 1 .. Len(unsent')
        PROVE  unsent'[x] = text[k + n + Len(sock') + x]
    <3>1. x \in 1 .. b
      BY <1>5, <2>1, <2>3, Zenon
    <3>2. k + n + Len(sock') + x = k + a + x
      BY <1>5, <1>8, <3>1
    <3> QED
      BY <1>9, <2>1, <3>1, <3>2, Zenon
  <2>4. ~stopped'
    BY DEF Framing!Recv
  <2> QED
    BY <1>9, <1>15, <1>16, <2>1, <2>2, <2>3, <2>4, Zenon DEF InTransit
<1>18. k + n \in Nat /\ messages' \in Conversations /\ unsent' \in Seq(Int)
  BY <1>2 DEF Framing!Recv
<1> QED
  BY <1>8, <1>17, <1>18 DEF FramingInv

(* recv() returns 0 when the whole text has been parsed.                   *)
LEMMA EndFrames == FramingInv /\ Framing!RecvEnd => FramingInv'
<1> SUFFICES ASSUME FramingInv, Framing!RecvEnd PROVE FramingInv'
  OBVIOUS
<1>1. /\ messages # <<>> /\ unsent = <<>> /\ sock = <<>> /\ Framing!Server' = Framing!Server
      /\ UNCHANGED <<messages, unsent, sock>>
  BY DEF Framing!RecvEnd, Framing!Server
<1>2. PICK off, text : \E k \in Nat : InTransit(off, text, k)
  BY <1>1 DEF FramingInv
<1>3. PICK k \in Nat : InTransit(off, text, k)
  BY <1>2
<1>4. k = Len(text)
  <2>1. Len(sock) = 0 /\ Len(unsent) = 0 /\ k + Len(sock) + Len(unsent) = Len(text)
    BY <1>1, <1>3 DEF InTransit
  <2>2. k + 0 + 0 = k
    OBVIOUS
  <2> QED
    BY <2>1, <2>2, Zenon
<1>5. InTransit(off, text, k)'
  BY <1>1, <1>3, <1>4, Zenon DEF InTransit
<1>6. messages' \in Conversations /\ sock' \in Seq(Int) /\ unsent' \in Seq(Int)
  BY <1>1 DEF FramingInv
<1> QED
  BY <1>5, <1>6 DEF FramingInv

(* Every step of the client and of the framing server keeps the invariant. *)
LEMMA FramingStepInd == FramingInv /\ [Next]_vars => FramingInv'
<1> SUFFICES ASSUME FramingInv, [Next]_vars PROVE FramingInv'
  OBVIOUS
<1>1. CASE UNCHANGED framingVars
  BY <1>1 DEF framingVars, FramingInv, InTransit, Framing!Init, Framing!Server
<1>2. CASE FramingStep
  BY <1>2, ConnectFrames, WriteFrames, RecvFrames, EndFrames DEF FramingStep, Framing!Next
<1> QED
  BY <1>1, <1>2 DEF Next, GapStep, SenderStep, ReceiverStep, EchoStep, Idle, vars

(* A start of a sequence is a prefix of it.                                *)
LEMMA StartIsPrefix ==
    ASSUME NEW S, NEW s \in Seq(S), NEW n \in 0 .. Len(s)
    PROVE  Framing!IsPrefix(SubSeq(s, 1, n), s)
<1>1. PICK t : t = SubSeq(s, 1, n)
  OBVIOUS
<1>2. t \in Seq(S) /\ Len(t) = n
  BY <1>1
<1>3. SubSeq(t, 1, Len(t)) = t
  BY <1>2, SubSeqFull
<1>4. Len(t) <= Len(s)
  BY <1>2
<1>5. SubSeq(t, 1, Len(t)) = SubSeq(s, 1, Len(t))
  BY <1>1, <1>2, <1>3, Zenon
<1> QED
  BY <1>1, <1>4, <1>5 DEF Framing!IsPrefix

(* framing/server.cpp: however the client's writes and the receives cut    *)
(* the stream, the server prints the client's messages, each whole and     *)
(* once, and by the end of the stream all, for every conversation of       *)
(* messages of one to 99 characters and every buffer size.                 *)
THEOREM FramesCorrect == Spec => []FramesIntact
<1>1. Init => FramingInv
  <2>1. Framing!Init => messages = <<>> /\ sock \in Seq(Int) /\ unsent \in Seq(Int)
    BY DEF Framing!Init
  <2> QED
    BY <2>1 DEF Init, FramingInv
<1>2. ASSUME FramingInv PROVE FramesIntact
  <2>1. CASE messages = <<>> /\ Framing!Init
    <3>1. Framing!IsPrefix(<<>>, <<>>)
      BY DEF Framing!IsPrefix
    <3> QED
      BY <2>1, <3>1 DEF Framing!Init, FramesIntact, Framing!FramesIntact
  <2>2. ASSUME NEW off, NEW text, NEW k \in Nat, InTransit(off, text, k),
               messages \in Conversations
        PROVE  FramesIntact
    <3>1. PICK last \in Nat, script \in Seq(Seq(Int)) :
            last = Len(messages) /\ script = messages
      BY <2>2, ScriptsAre DEF IsScript
    <3>2. Framing!Server = Parser(getting_len, acc, msg_buffer, printed)
      BY DEF Framing!Server, Parser
    <3>3. Framing!Server.printed = printed
      BY DEF Framing!Server
    <3>4. /\ ParserAt(messages, off, k, Framing!Server) /\ Layout(messages, off, text)
          /\ stopped => k = Len(text)
      BY <2>2 DEF InTransit
    <3>5. \/ \E i \in 1 .. last, j \in Nat :
               /\ j < Len(Framing!Frame(messages[i])) /\ k = off[i - 1] + j
               /\ InFrame(messages[i], SubSeq(messages, 1, i - 1), j, Framing!Server)
          \/ \E g, a, b : Framing!Server = Parser(g, a, b, messages)
      <4>1. \/ \E i \in 1 .. Len(messages), j \in Nat :
                 /\ j < Len(Framing!Frame(messages[i])) /\ k = off[i - 1] + j
                 /\ InFrame(messages[i], SubSeq(messages, 1, i - 1), j, Framing!Server)
            \/ Framing!Server = Parser(TRUE, 0, <<>>, messages)
            \/ \E a : Framing!Server = Parser(TRUE, a, <<>>, messages)
        BY <3>4, Zenon DEF ParserAt
      <4>2. Len(messages) = last
        BY <3>1
      <4> QED
        BY <4>1, <4>2, Zenon
    <3>6. ASSUME NEW i \in 1 .. last, NEW j \in Nat,
                 j < Len(Framing!Frame(messages[i])), k = off[i - 1] + j,
                 InFrame(messages[i], SubSeq(messages, 1, i - 1), j, Framing!Server)
          PROVE  FramesIntact
      <4>1. printed = SubSeq(messages, 1, i - 1)
        <5>1. \E g, a, b : Framing!Server = Parser(g, a, b, SubSeq(messages, 1, i - 1))
          BY <3>6, Zenon DEF InFrame
        <5> QED
          BY <3>3, <5>1 DEF Parser
      <4>2. i - 1 \in 0 .. Len(script)
        BY <3>1
      <4>3. Framing!IsPrefix(printed, messages)
        BY <3>1, <4>1, <4>2, StartIsPrefix
      <4>4. k # Len(text)
        <5>1. PICK o \in Nat, z \in Nat, l \in Nat :
                /\ o = off[i - 1] /\ z = off[last] /\ l = Len(Framing!Frame(messages[i]))
                /\ o + l <= z /\ Len(text) = z + 1
          <6>1. /\ off \in [0 .. last -> Nat] /\ off[i] <= off[last]
                /\ off[i] = off[i - 1] + Len(Framing!Frame(messages[i]))
                /\ Len(text) = off[last] + 1
            BY <3>1, <3>4 DEF Layout
          <6>2. off[i - 1] \in Nat /\ off[last] \in Nat
            BY <6>1
          <6>3. Len(Framing!Frame(messages[i])) \in Nat
            <7>1. messages[i] \in Seq(Int) /\ Len(messages[i]) \in 1 .. 99
              BY <2>2, <3>1, ScriptsAre, ScriptAt
            <7> QED
              BY <7>1, FrameIs
          <6> QED
            BY <6>1, <6>2, <6>3
        <5>2. k = o + j /\ j < l
          BY <3>6, <5>1, Zenon
        <5>3. k < z + 1
          BY <5>1, <5>2, SMTT(30)
        <5> QED
          BY <5>1, <5>3
      <4> QED
        BY <3>4, <4>3, <4>4 DEF FramesIntact, Framing!FramesIntact
    <3>7. CASE \E g, a, b : Framing!Server = Parser(g, a, b, messages)
      <4>1. printed = messages
        <5>1. PICK g, a, b : Framing!Server = Parser(g, a, b, messages)
          BY <3>7, Zenon
        <5> QED
          BY <3>3, <5>1 DEF Parser
      <4>2. Framing!IsPrefix(SubSeq(script, 1, Len(script)), script)
        <5>1. Len(script) \in 0 .. Len(script)
          BY <3>1
        <5> QED
          BY <3>1, <5>1, StartIsPrefix
      <4>3. SubSeq(script, 1, Len(script)) = script
        BY <3>1, SubSeqFull
      <4> QED
        BY <3>1, <4>1, <4>2, <4>3 DEF FramesIntact, Framing!FramesIntact
    <3> QED
      BY <3>5, <3>6, <3>7
  <2> QED
    BY <1>2, <2>1, <2>2 DEF FramingInv
<1> QED
  BY <1>1, <1>2, FramingStepInd, PTL DEF Spec
=============================================================================

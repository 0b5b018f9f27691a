---------------------------- MODULE EpollServer -----------------------------
(***************************************************************************)
(* NetworkDeviceEpoll between its clients and the engine, down to the      *)
(* bytes of module Codec.  Which orders match is Engine's subject: here an *)
(* order trades with any orders entered before, up to MaxTrades of them,   *)
(* and what is left of it rests or is cancelled.                           *)
(* As DESIGN_DOC.md says of the project's clients, a read() returns one    *)
(* whole request.  Ghosts: `meant` and `says` (what the sender of some     *)
(* bytes wanted to say), `told` (the responses written to a client) and    *)
(* `cut` (a write() to it was short; the code drops the rest, and what the *)
(* client gets from then on is not followed).                              *)
(***************************************************************************)
EXTENDS Codec

CONSTANTS Conns,            \* connections in the course of the behaviour
          Descriptors,      \* what accept4 can return
          Requests,         \* what clients send: [type, value]
          MaxRequests,      \* bound on the requests sent
          MaxTrades,        \* bound on the trades of one order
          QUEUE_SIZE

VARIABLES conn, incoming, outgoing,
          answers,          \* what the engine has still to publish
          counter, match_counter,
          entered,          \* the keys of the orders the engine has accepted
          sent              \* requests sent

engineVars == <<answers, counter, match_counter, entered>>
queueVars == <<incoming, outgoing>>
vars == <<conn, queueVars, engineVars, sent>>

NoFd == -1
L == 4                      \* OrderStateEnum::L
Fillers == {0, SPACE}       \* what an uninitialised byte may hold
timestamp == 2739128        \* eight different digits

Unused(peer) == [peer |-> peer, fd |-> NoFd, up |-> <<>>,
                 down |-> <<>>, told |-> <<>>, cut |-> FALSE]

Init == /\ conn = [c \in Conns |-> Unused("new")]
        /\ incoming = <<>> /\ outgoing = <<>>
        /\ answers = <<>> /\ counter = 0 /\ match_counter = 0 /\ entered = {}
        /\ sent = 0
-----------------------------------------------------------------------------
(* The clients *)
Connect(c) == /\ conn[c].peer = "new"
              /\ conn' = [conn EXCEPT ![c].peer = "open"]
              /\ UNCHANGED <<queueVars, engineVars, sent>>

SendRequest(c, r) ==
    /\ conn[c].peer = "open" /\ sent < MaxRequests
    /\ sent' = sent + 1
    /\ conn' = [conn EXCEPT ![c].up =
                  Append(@, [bytes |-> Build(r.type, r.value), meant |-> r])]
    /\ UNCHANGED <<queueVars, engineVars>>

Disconnect(c) == /\ conn[c].peer = "open"
                 /\ conn' = [conn EXCEPT ![c].peer = "gone"]
                 /\ UNCHANGED <<queueVars, engineVars, sent>>
-----------------------------------------------------------------------------
(* receive_msg.  When accept4 fails the connection stays in the backlog.   *)
Waiting(c) == conn[c].peer \in {"open", "gone"} /\ conn[c].fd = NoFd

FreeDescriptors == Descriptors \ {conn[c].fd : c \in Conns}

Accept(c) == /\ Waiting(c) /\ FreeDescriptors # {}
             /\ conn' = [conn EXCEPT ![c].fd = Min(FreeDescriptors)]
             /\ UNCHANGED <<queueVars, engineVars, sent>>

\* epoll_ctl fails and the new descriptor is closed
AcceptUnregistered(c) == /\ Waiting(c) /\ FreeDescriptors # {}
                         /\ conn' = [conn EXCEPT ![c] = Unused("closed")]
                         /\ UNCHANGED <<queueVars, engineVars, sent>>

\* read() fills a prefix of msg.bytes; enqueue waits for room
ReadMsg(c) ==
    /\ conn[c].fd # NoFd /\ conn[c].up # <<>>
    /\ Len(incoming) < QUEUE_SIZE
    /\ LET m == Head(conn[c].up)
       IN  \E filler \in Fillers :
             incoming' = Append(incoming,
               [account |-> conn[c].fd, meant |-> m.meant,
                bytes |-> [i \in 0 .. kMaxReqSize - 1 |->
                             IF i \in DOMAIN m.bytes THEN m.bytes[i] ELSE filler]])
    /\ conn' = [conn EXCEPT ![c].up = Tail(@)]
    /\ UNCHANGED <<outgoing, engineVars, sent>>

\* read() returns 0 or fails: close; what was not read is lost, and the
\* descriptor is free for the next client
ReadEnd(c) == /\ conn[c].fd # NoFd
              /\ conn' = [conn EXCEPT ![c] = Unused("closed")]
              /\ UNCHANGED <<queueVars, engineVars, sent>>

\* Mutant of size: the whole buffer goes out.
size_max(bytes) == kMaxResSize

size(bytes) == CASE bytes[0] = A -> AcceptResponseView.WIRE_SIZE
                 [] bytes[0] = C -> CancelledResponseView.WIRE_SIZE
                 [] bytes[0] = I -> CancelRejectResponseView.WIRE_SIZE
                 [] bytes[0] = E -> ExecutedResponseView.WIRE_SIZE

\* w bytes go to whoever has the descriptor now; w <= 0: an error, dropped
send_msg(w) ==
    /\ outgoing # <<>>
    /\ LET m == Head(outgoing)
           to == {c \in Conns : conn[c].fd = m.account}
       IN  /\ w \in {0, 1, size(m.bytes)}
           /\ w > 0 => \E c \in to : conn[c].peer = "open"
           /\ conn' = [c \in Conns |->
                IF w = 0 \/ c \notin to THEN conn[c]
                ELSE IF conn[c].cut \/ w < size(m.bytes)
                THEN [conn[c] EXCEPT !.down = <<>>, !.told = <<>>, !.cut = TRUE]
                ELSE [conn[c] EXCEPT !.down = @ \o [i \in 1 .. w |-> m.bytes[i - 1]],
                                     !.told = Append(@, m.says)]]
    /\ outgoing' = Tail(outgoing)
    /\ UNCHANGED <<incoming, engineVars, sent>>
-----------------------------------------------------------------------------
(* The engine *)
Message(account, type, value, says) ==
    [account |-> account, says |-> [type |-> type, field |-> says],
     bytes |-> LET built == Build(type, value)
               IN  [i \in 0 .. kMaxResSize - 1 |->
                      IF i \in DOMAIN built THEN built[i] ELSE 0]]

\* what the views must show of a request: strings cut or padded, the rest 0
Shown(r) ==
    [f \in Fields(r.type) |->
       LET field == View(r.type)[f] IN
       CASE f \notin DOMAIN r.value /\ field[3] = "be" -> 0
         [] f \notin DOMAIN r.value /\ field[3] = "str" -> [i \in 1 .. field[2] |-> 0]
         [] f \in DOMAIN r.value /\ field[3] = "be" -> r.value[f]
         [] f \in DOMAIN r.value /\ field[3] = "str" -> Padded(r.value[f], field[2])]

send_accepted(account, order, id, meant) ==
    Message(account, A,
      [Timestamp |-> timestamp, UserRefNum |-> order.UserRefNum, Side |-> order.Side,
       Quantity |-> order.Quantity, Symbol |-> order.Symbol, Price |-> order.Price,
       TimeInForce |-> order.TimeInForce, Display |-> order.Display,
       OrderReferenceNumber |-> id, Capacity |-> order.Capacity,
       InterMarketSweepElig |-> order.InterMarketSweepElig,
       CrossType |-> order.CrossType, OrderState |-> L, ClOrdID |-> order.ClOrdID],
      [f \in Fields(O) \ {"AppendageLength"} |-> Shown(meant)[f]])

send_executed(account, user_ref_num, qty, price, liquidity, match) ==
    LET value == [UserRefNum |-> user_ref_num, Quantity |-> qty, Price |-> price,
                  LiquidityFlag |-> liquidity, MatchNumber |-> match]
    IN  Message(account, E, ("Timestamp" :> timestamp) @@ value, value)

send_cancelled(account, user_ref_num, qty, reason) ==
    LET value == [UserRefNum |-> user_ref_num, Quantity |-> qty, Reason |-> reason]
    IN  Message(account, C, ("Timestamp" :> timestamp) @@ value, value)

send_cancel_rejected(account, user_ref_num) ==
    Message(account, I, [Timestamp |-> timestamp, UserRefNum |-> user_ref_num,
                         AppendageLength |-> 0],
            [UserRefNum |-> user_ref_num])

\* insert_order: accepted, two messages per trade, and the rest, `left`, stays
\* on the book or is cancelled
Told(m, order, keys, left) ==
    LET ref == order.UserRefNum
        qty(i) == IF i < Len(keys) THEN 1 ELSE order.Quantity - left - (Len(keys) - 1)
        send_fills(i) ==
          <<send_executed(m.account, ref, qty(i), order.Price, 1, match_counter + i),
            send_executed(keys[i][1], keys[i][2], qty(i), order.Price,
                          2, match_counter + i)>>
        told == <<send_accepted(m.account, order, counter + 1, m.meant)>>
                \o FlattenSeq([i \in DOMAIN keys |-> send_fills(i)])
    IN  {told} \cup {told \o <<send_cancelled(m.account, ref, n, 3)>> : n \in {left} \ {0}}

\* all trades but the last are of one share; they leave nothing or one share
Answers(m, order) ==
    UNION {Told(m, order, a[1], a[2]) :
             a \in {x \in SeqOf(entered, MaxTrades) \X {0, 1, order.Quantity} :
                     x[1] = <<>> <=> x[2] = order.Quantity}}

ProcessEnter ==
    /\ incoming # <<>> /\ answers = <<>>
    /\ LET m == Head(incoming)
           decoded == decode(m.bytes)
       IN  /\ decoded.type = O
           /\ answers' \in Answers(m, decoded.field)
           /\ counter' = counter + 1
           /\ match_counter' = match_counter + (Len(answers') - 1) \div 2
           /\ entered' = entered \cup {<<m.account, decoded.field.UserRefNum>>}
    /\ incoming' = Tail(incoming)
    /\ UNCHANGED <<conn, outgoing, sent>>

ProcessCancel ==
    /\ incoming # <<>> /\ answers = <<>>
    /\ LET m == Head(incoming)
           decoded == decode(m.bytes)
           ref == decoded.field.UserRefNum
       IN  /\ decoded.type = X
           /\ answers' \in {<<send_cancel_rejected(m.account, ref)>>}
                \cup {<<send_cancelled(m.account, ref, decoded.field.Quantity, 4)>> :
                        key \in entered \cap {<<m.account, ref>>}}
    /\ incoming' = Tail(incoming)
    /\ UNCHANGED <<conn, outgoing, counter, match_counter, entered, sent>>

publish == /\ answers # <<>> /\ Len(outgoing) < QUEUE_SIZE
           /\ outgoing' = Append(outgoing, Head(answers))
           /\ answers' = Tail(answers)
           /\ UNCHANGED <<conn, incoming, counter, match_counter, entered, sent>>

Next == \/ \E c \in Conns : \/ Connect(c) \/ Disconnect(c)
                            \/ \E r \in Requests : SendRequest(c, r)
                            \/ Accept(c) \/ AcceptUnregistered(c) \/ ReadMsg(c) \/ ReadEnd(c)
        \/ ProcessEnter \/ ProcessCancel \/ publish
        \/ \E w \in 0 .. kMaxResSize : send_msg(w)

Spec == Init /\ [][Next]_vars
-----------------------------------------------------------------------------
(* What the engine's views read is what the client's builder was given,    *)
(* strings cut or padded with spaces, whatever the uninitialised rest of   *)
(* the message holds: 47 bytes are decoded of a 9-byte request.            *)
RequestsIntact ==
    \A i \in DOMAIN incoming :
      decode(incoming[i].bytes) = [type |-> incoming[i].meant.type,
                                   field |-> Shown(incoming[i].meant)]

\* how a client takes its stream apart: a type byte and that type's size
RECURSIVE Responses(_)
Responses(stream) ==
    IF stream = <<>> THEN <<>>
    ELSE LET bytes == [i \in 0 .. Len(stream) - 1 |-> stream[i + 1]]
         IN  IF bytes[0] \in {A, C, I, E} /\ Len(stream) >= WireSize(bytes[0])
             THEN <<decode(bytes)>> \o
                  Responses(SubSeq(stream, WireSize(bytes[0]) + 1, Len(stream)))
             ELSE <<[type |-> 0]>>

(* Until a write() to it falls short, a client that walks through its      *)
(* bytes message by message finds the responses written to it, in order,   *)
(* and every field its own request set is echoed as it set it.             *)
ResponsesIntact ==
    \A c \in Conns : conn[c].cut \/
      LET got == Responses(conn[c].down)
          told == conn[c].told
      IN  /\ Len(got) = Len(told)
          /\ \A i \in DOMAIN told :
               /\ got[i].type = told[i].type
               /\ \A f \in DOMAIN told[i].field : got[i].field[f] = told[i].field[f]
=============================================================================

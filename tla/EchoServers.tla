---------------------------- MODULE EchoServers -----------------------------
(***************************************************************************)
(* 3_event_poll: the same echo server on epoll, which reads and writes     *)
(* when a descriptor is ready, and on io_uring, which submits operations   *)
(* and waits for their completions, in whatever order the kernel finishes. *)
(* A byte is <<connection, position>>.  The operations of the ring name a  *)
(* descriptor, not a connection: the kernel serves whoever has it then.    *)
(***************************************************************************)
EXTENDS Integers, Sequences, SequencesExt, FiniteSetsExt

CONSTANTS Peers,            \* connections in the course of the behaviour
          Descriptors,      \* what accept can return
          MaxBytes          \* bound on the bytes a client sends

VARIABLES uring,            \* which of the two servers
          peer, fd,         \* the client's end and the server's, by connection
          sent, up, down,   \* bytes sent, not read yet, echoed
          ring              \* submitted operations: a set of requests

NoFd == -1
AcceptOp == [type |-> "Accept", client_fd |-> NoFd, buf |-> <<>>]
ReadOp(f) == [type |-> "Read", client_fd |-> f, buf |-> <<>>]
WriteOp(f, data) == [type |-> "Write", client_fd |-> f, buf |-> data]

Init == /\ uring \in BOOLEAN
        /\ peer = [c \in Peers |-> "new"] /\ fd = [c \in Peers |-> NoFd]
        /\ sent = [c \in Peers |-> 0]
        /\ up = [c \in Peers |-> <<>>] /\ down = [c \in Peers |-> <<>>]
        /\ ring = IF uring THEN {AcceptOp} ELSE {}
-----------------------------------------------------------------------------
Connect(c) == /\ peer[c] = "new" /\ peer' = [peer EXCEPT ![c] = "open"]
              /\ UNCHANGED <<uring, fd, sent, up, down, ring>>

Send(c) == /\ peer[c] = "open" /\ sent[c] < MaxBytes
           /\ sent' = [sent EXCEPT ![c] = @ + 1]
           /\ up' = [up EXCEPT ![c] = Append(@, <<c, sent'[c]>>)]
           /\ UNCHANGED <<uring, peer, fd, down, ring>>

Close(c) == /\ peer[c] = "open" /\ peer' = [peer EXCEPT ![c] = "gone"]
            /\ UNCHANGED <<uring, fd, sent, up, down, ring>>

\* The descriptor the kernel gives to a waiting connection.
FreeDescriptors == Descriptors \ {fd[c] : c \in Peers}
Accepts(c) == /\ peer[c] \in {"open", "gone"} /\ fd[c] = NoFd
              /\ FreeDescriptors # {}
              /\ fd' = [fd EXCEPT ![c] = Min(FreeDescriptors)]

\* close(): the descriptor is free
Closed(c) == /\ fd' = [fd EXCEPT ![c] = NoFd]
             /\ peer' = [peer EXCEPT ![c] = "closed"]

Echo(c, data, w) == down' = [down EXCEPT ![c] = @ \o SubSeq(data, 1, w)]
-----------------------------------------------------------------------------
(* epoll_server.cpp *)
EpollAccept(c) == /\ ~uring /\ Accepts(c)
                  /\ UNCHANGED <<uring, peer, sent, up, down, ring>>

\* epoll_ctl fails and the new descriptor is closed
EpollAcceptFails(c) ==
    /\ ~uring /\ peer[c] \in {"open", "gone"} /\ fd[c] = NoFd
    /\ FreeDescriptors # {}
    /\ Closed(c)
    /\ UNCHANGED <<uring, sent, up, down, ring>>

\* n bytes read, w of them written back: the result w is not looked at
EpollEcho(c) == /\ ~uring /\ fd[c] # NoFd
                /\ \E n \in 1 .. Len(up[c]) : \E w \in 0 .. n :
                     /\ up' = [up EXCEPT ![c] = SubSeq(@, n + 1, Len(@))]
                     /\ Echo(c, up[c], w)
                /\ UNCHANGED <<uring, peer, fd, sent, ring>>

\* the peer has closed, or the read failed
EpollEnd(c) == /\ ~uring /\ fd[c] # NoFd /\ peer[c] = "gone"
               /\ Closed(c)
               /\ UNCHANGED <<uring, sent, up, down, ring>>
-----------------------------------------------------------------------------
(* io_uring_server.cpp: one action per completion and its handling.  A     *)
(* failed accept is submitted again, which changes nothing.                *)
CompleteAccept(c) == /\ AcceptOp \in ring /\ Accepts(c)
                     /\ ring' = ring \cup {ReadOp(fd'[c])}
                     /\ UNCHANGED <<uring, peer, sent, up, down>>

\* Mutant of AfterRead: the next read is submitted along with the echo.
AfterReadBoth(f, data) == {WriteOp(f, data), ReadOp(f)}

\* queue_write: the read's request becomes the write
AfterRead(f, data) == {WriteOp(f, data)}

CompleteRead(c) == /\ fd[c] # NoFd /\ ReadOp(fd[c]) \in ring
                   /\ \E n \in 1 .. Len(up[c]) :
                        /\ up' = [up EXCEPT ![c] = SubSeq(@, n + 1, Len(@))]
                        /\ ring' = (ring \ {ReadOp(fd[c])})
                                   \cup AfterRead(fd[c], SubSeq(up[c], 1, n))
                   /\ UNCHANGED <<uring, peer, fd, sent, down>>

\* the peer has closed, or the receive failed
ReadEnds(c) == /\ fd[c] # NoFd /\ ReadOp(fd[c]) \in ring
               /\ peer[c] = "gone"
               /\ ring' = ring \ {ReadOp(fd[c])}
               /\ Closed(c)
               /\ UNCHANGED <<uring, sent, up, down>>

\* a short send ends like a whole one
CompleteWrite(c) == /\ fd[c] # NoFd
                    /\ \E op \in ring : \E w \in 1 .. Len(op.buf) :
                         /\ op = WriteOp(fd[c], op.buf)
                         /\ Echo(c, op.buf, w)
                         /\ ring' = (ring \ {op}) \cup {ReadOp(fd[c])}
                    /\ UNCHANGED <<uring, peer, fd, sent, up>>

WriteFails(c) == /\ fd[c] # NoFd /\ peer[c] = "gone"
                 /\ \E op \in ring : /\ op = WriteOp(fd[c], op.buf)
                                     /\ ring' = ring \ {op}
                 /\ Closed(c)
                 /\ UNCHANGED <<uring, sent, up, down>>

Next == \E c \in Peers :
          \/ Connect(c) \/ Send(c) \/ Close(c)
          \/ EpollAccept(c) \/ EpollAcceptFails(c) \/ EpollEcho(c) \/ EpollEnd(c)
          \/ CompleteAccept(c) \/ CompleteRead(c) \/ ReadEnds(c)
          \/ CompleteWrite(c) \/ WriteFails(c)

(* A client gets back bytes it has sent itself, in the order it sent them  *)
(* and none twice, although writes may fall short and descriptors are used *)
(* again; and no operation in flight names a descriptor that was closed.   *)
EchoesOwnBytes ==
    /\ \A c \in Peers : \A i \in DOMAIN down[c] :
         down[c][i][1] = c /\ (i > 1 => down[c][i - 1][2] < down[c][i][2])
    /\ \A op \in ring : op.client_fd \in {NoFd} \cup {fd[c] : c \in Peers}
=============================================================================

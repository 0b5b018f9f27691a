--------------------------- MODULE FramingServer ----------------------------
(***************************************************************************)
(* framing/: messages as <message_len>|<message> over TCP.  Neither the    *)
(* client's writes nor the network keep message boundaries, so a recv()    *)
(* returns any part of what has been written.                              *)
(***************************************************************************)
EXTENDS Ascii

CONSTANTS Conversations,    \* the messages of a client
          BUFFER_SIZE

VARIABLES messages, unsent, sock,                   \* the client, the stream
          getting_len, acc, msg_buffer, stopped,    \* the server
          printed

SIZE_T == 65536            \* 2^16: size_t, short enough for TLC

Init == /\ messages = <<>> /\ unsent = <<>> /\ sock = <<>>
        /\ getting_len = TRUE /\ acc = 0 /\ msg_buffer = <<>>
        /\ stopped = FALSE /\ printed = <<>>

Frame(m) == Decimal(Len(m)) \o <<BAR>> \o m

\* the client's last write sends the NUL of its string literal, too
Connect == /\ messages = <<>>
           /\ \E script \in Conversations :
                /\ messages' = script
                /\ unsent' = FlattenSeq([i \in DOMAIN script |-> Frame(script[i])])
                             \o <<NUL>>
           /\ UNCHANGED <<sock, getting_len, acc, msg_buffer, stopped, printed>>

Write == /\ \E n \in 1 .. Len(unsent) :
              /\ sock' = sock \o SubSeq(unsent, 1, n)
              /\ unsent' = SubSeq(unsent, n + 1, Len(unsent))
         /\ UNCHANGED <<messages, getting_len, acc, msg_buffer, stopped, printed>>

\* one turn of the loop over the received characters
TakeChar(server, ch) ==
    IF server.getting_len
    THEN IF ch = BAR THEN [server EXCEPT !.getting_len = FALSE]
         ELSE [server EXCEPT !.acc = (@ * 10 + ch) % SIZE_T]
    ELSE IF server.acc = 1
         THEN [server EXCEPT !.acc = 0, !.getting_len = TRUE, !.msg_buffer = <<>>,
                             !.printed = Append(@, Append(server.msg_buffer, ch))]
         ELSE [server EXCEPT !.acc = (@ - 1) % SIZE_T, !.msg_buffer = Append(@, ch)]

\* Mutant of Server: the parser starts over with every recv().
ServerFresh == [getting_len |-> TRUE, acc |-> 0, msg_buffer |-> <<>>,
                printed |-> printed]

Server == [getting_len |-> getting_len, acc |-> acc, msg_buffer |-> msg_buffer,
           printed |-> printed]

\* recv() < 0 hands over no characters and changes nothing
Recv == /\ ~stopped
        /\ \E n \in 1 .. Len(sock) :
             LET server == FoldLeft(TakeChar, Server, SubSeq(sock, 1, n))
             IN  /\ n <= BUFFER_SIZE
                 /\ getting_len' = server.getting_len
                 /\ acc' = server.acc
                 /\ msg_buffer' = server.msg_buffer
                 /\ printed' = server.printed
                 /\ sock' = SubSeq(sock, n + 1, Len(sock))
        /\ UNCHANGED <<messages, unsent, stopped>>

\* the client, which closes after its last write, is done: recv() returns 0
RecvEnd == /\ ~stopped /\ messages # <<>> /\ unsent = <<>> /\ sock = <<>>
           /\ stopped' = TRUE
           /\ UNCHANGED <<messages, unsent, sock, getting_len, acc, msg_buffer,
                          printed>>

Next == Connect \/ Write \/ Recv \/ RecvEnd

(* Whatever the boundaries of the receives, the server prints the client's *)
(* messages, each whole and once, and by the end of the stream all.        *)
FramesIntact == /\ IsPrefix(printed, messages)
                /\ stopped => printed = messages
=============================================================================

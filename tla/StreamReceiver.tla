--------------------------- MODULE StreamReceiver ---------------------------
(***************************************************************************)
(* multi_thread_rx: one epoll loop assembles messages of MESSAGE_SIZE      *)
(* bytes from SENDERS connections, each in a buffer of its own; a thread   *)
(* connects, sends a first part on every connection, then a second one.    *)
(* A byte is <<sender, position>>.  Every call of the two threads that can *)
(* fail does so up to MaxFailures times in all.                            *)
(***************************************************************************)
EXTENDS Integers, Sequences, FiniteSets, SequencesExt

CONSTANTS SENDERS, MESSAGE_SIZE,
          Part1, Part2,     \* lengths of the parts a sender sends
          MaxFailures       \* bound on calls that fail

VARIABLES calls,            \* calls sender_f has made
          refused,          \* senders whose connect() failed
          arrived,          \* unread bytes, by sender
          buffers,          \* by registered client
          unregistered,     \* clients accepted but not in the epoll set
          failures,         \* how many calls have failed
          events,           \* what epoll_wait returned and is not handled yet
          output, ended

senderVars == <<calls, refused>>
loopVars == <<buffers, unregistered, events, output>>

Senders == 1 .. SENDERS
Bytes(i, from, to) == [k \in 1 .. to - from + 1 |-> <<i, from + k - 1>>]

\* what sender i sends with its n-th call
Sent(i, n) == CASE n = 0 -> <<>>
                [] n = 1 -> Bytes(i, 1, Part1)
                [] n = 2 -> Bytes(i, Part1 + 1, Part1 + Part2)

Init == /\ calls = 0 /\ refused = {} /\ arrived = [i \in Senders |-> <<>>]
        /\ buffers = <<>> /\ unregistered = {} /\ failures = 0
        /\ events = {} /\ output = <<>> /\ ended = "no"

Running == ended = "no"
CallFails == failures < MaxFailures /\ failures' = failures + 1
-----------------------------------------------------------------------------
(* The sender: connect on every socket, then part1 on each, then part2.    *)
Caller == (calls % SENDERS) + 1
CallAgain == Running /\ calls < 3 * SENDERS /\ calls' = calls + 1

sender_f == /\ CallAgain /\ Caller \notin refused
            /\ arrived' = [arrived EXCEPT ![Caller] =
                             @ \o Sent(Caller, calls \div SENDERS)]
            /\ UNCHANGED <<refused, failures, loopVars, ended>>

\* the error is printed and the socket kept
ConnectFails == /\ CallAgain /\ calls < SENDERS /\ CallFails
                /\ refused' = refused \cup {Caller}
                /\ UNCHANGED <<arrived, loopVars, ended>>

\* send() on a socket that is not connected raises SIGPIPE
SendRefused == /\ CallAgain /\ Caller \in refused
               /\ ended' = "killed"
               /\ UNCHANGED <<refused, arrived, failures, loopVars>>

Sender == sender_f \/ ConnectFails \/ SendRefused
-----------------------------------------------------------------------------
(* The receiver.                                                           *)
rx_fd == 0
Backlog == {i \in Senders \ refused : i <= calls} \ (DOMAIN buffers \cup unregistered)

\* level-triggered; printed is the length of output
epoll_wait ==
    /\ Running /\ events = {} /\ Len(output) < 2
    /\ events' = {rx_fd : i \in Backlog} \cup {i \in DOMAIN buffers : arrived[i] # <<>>}
    /\ events' # {}
    /\ UNCHANGED <<senderVars, arrived, buffers, unregistered, failures, output, ended>>

Handle(event) == Running /\ event \in events /\ events' = events \ {event}

Accept == /\ Handle(rx_fd)
          /\ buffers' = [j \in DOMAIN buffers \cup {Min(Backlog)} |->
                           IF j \in DOMAIN buffers THEN buffers[j] ELSE <<>>]
          /\ UNCHANGED <<senderVars, arrived, unregistered, failures, output, ended>>

\* accept4 fails: the connection stays in the backlog
AcceptFails == /\ Handle(rx_fd) /\ CallFails
               /\ UNCHANGED <<senderVars, arrived, buffers, unregistered, output, ended>>

\* epoll_ctl fails: the client is neither registered nor closed
RegisterFails == /\ Handle(rx_fd) /\ CallFails
                 /\ unregistered' = unregistered \cup {Min(Backlog)}
                 /\ UNCHANGED <<senderVars, arrived, buffers, output, ended>>

\* Mutant of Room: a read may run into the next message.
RoomWhole(i) == MESSAGE_SIZE

Room(i) == MESSAGE_SIZE - Len(buffers[i])

Read(i) ==
    /\ i \in DOMAIN buffers /\ Handle(i)
    /\ \E n \in 1 .. Len(arrived[i]) :
         LET gathered == buffers[i] \o SubSeq(arrived[i], 1, n)
             whole == Len(gathered) >= MESSAGE_SIZE
         IN  /\ n <= Room(i)
             /\ arrived' = [arrived EXCEPT ![i] = SubSeq(@, n + 1, Len(@))]
             /\ buffers' = [buffers EXCEPT ![i] = IF whole THEN <<>> ELSE gathered]
             /\ output' = IF whole THEN Append(output, gathered) ELSE output
    /\ UNCHANGED <<senderVars, unregistered, failures, ended>>

\* n_in <= 0: the buffer, never full between events, stays as it is
ReadFails(i) == /\ i \in DOMAIN buffers /\ Handle(i) /\ CallFails
                /\ UNCHANGED <<senderVars, arrived, buffers, unregistered, output, ended>>

\* main returns, and the jthread joins sender_f
Return == /\ Running /\ events = {} /\ Len(output) >= 2
          /\ calls = 3 * SENDERS
          /\ ended' = "returned"
          /\ UNCHANGED <<senderVars, arrived, failures, loopVars>>

Receive == \/ epoll_wait \/ Accept \/ AcceptFails \/ RegisterFails
           \/ \E i \in Senders : Read(i) \/ ReadFails(i)
           \/ Return
-----------------------------------------------------------------------------
(* However the parts arrive, and whatever calls fail on the way, the       *)
(* receiver prints the first MESSAGE_SIZE bytes of every client it could   *)
(* register, whole, unmixed and once, and its loop ends exactly if it      *)
(* could register all: a failed accept4 or read is made good, a failed     *)
(* epoll_ctl leaves the loop waiting for the client for ever.  A failed    *)
(* connect ends the process at that socket's first send.                   *)
Settled ==
    \/ ended = "killed" /\ refused # {}
    \/ LET served == Senders \ unregistered IN
         /\ ToSet(output) = {Bytes(i, 1, MESSAGE_SIZE) : i \in served}
         /\ Len(output) = Cardinality(served)
         /\ (ended = "returned") = (unregistered = {})

EverySenderPrinted == <>[]Settled
=============================================================================

------------------------------ MODULE Pipeline ------------------------------
(***************************************************************************)
(* The three threads of main.cpp around the io_uring network device: the   *)
(* reader (receive_msg), the engine (run) and the writer (dequeue and      *)
(* send_msg), joined by two queues that wait when full and when empty, and *)
(* by submission_mutex, which guards the submission ring.                  *)
(*                                                                         *)
(* A request is the client it came from: one successful read is one whole  *)
(* message (DESIGN_DOC.md).  Which answer the engine gives is left open    *)
(* here (module Engine says which).  The kernel side of io_uring is        *)
(* external: submitted operations complete in any order, and the ring      *)
(* hands completions over oldest first.  A message is sent in at most      *)
(* PARTS pieces.                                                           *)
(***************************************************************************)
EXTENDS Integers, Sequences, FiniteSets

CONSTANTS Clients,          \* client sockets; a client is its fd and account
          QUEUE_SIZE,
          PARTS,            \* pieces a send can be cut into
          MaxRequests,      \* bound on the messages the clients send
          MaxTrades,        \* bound on the trades of one order
          MaxFaults         \* bound on failed operations and disconnects

NoClient == "none"          \* the descriptor of no client (a failed accept)

ASSUME PipelineAssumption == /\ NoClient \notin Clients
                             /\ QUEUE_SIZE \in Nat \ {0}
                             /\ PARTS \in Nat \ {0}
                             /\ MaxRequests \in Nat
                             /\ MaxTrades \in Nat
                             /\ MaxFaults \in Nat

VARIABLES incoming_queue,   \* accounts of the requests waiting for the engine
          outgoing_queue,   \* accounts of the responses waiting for the writer
          submission_mutex, \* "free", or the thread that holds it
          reader, cqe,      \* the reader thread and the completion it handles
          engine, answers,  \* the engine thread and what it still publishes
          writer, msg,      \* the writer thread and the response it holds
          accepting,        \* an accept is submitted
          reading,          \* clients with a recv submitted
          sending,          \* sending[c][n]: sends submitted for c with n
                            \* pieces to go
          cq,               \* completions, oldest first
          connected,        \* clients that have connected
          requests, faults, \* how many there have been
          lost,             \* clients that a failed or closed connection cut off
          owed              \* owed[c]: pieces published for c and not on the wire

threadVars == <<reader, cqe, engine, answers, writer, msg>>
queueVars == <<incoming_queue, outgoing_queue>>
ringVars == <<accepting, reading, sending, cq>>
clientVars == <<connected, requests, faults, lost>>
vars == <<queueVars, submission_mutex, threadVars, ringVars, clientVars, owed>>

NoCqe == [type |-> "none"]

Init == /\ incoming_queue = <<>> /\ outgoing_queue = <<>>
        /\ submission_mutex = "free"
        /\ reader = "wait" /\ cqe = NoCqe
        /\ engine = "dequeue" /\ answers = <<>>
        /\ writer = "dequeue" /\ msg = NoClient
        /\ accepting = TRUE         \* the constructor submits the accept
        /\ reading = {}
        /\ sending = [c \in Clients |-> [n \in 1 .. PARTS |-> 0]]
        /\ cq = <<>>
        /\ connected = {} /\ lost = {}
        /\ requests = 0 /\ faults = 0
        /\ owed = [c \in Clients |-> 0]
-----------------------------------------------------------------------------
(* The reader thread: receive_msg                                          *)

\* io_uring_wait_cqe returned a completion
WaitCqe == /\ reader = "wait"
           /\ cq # <<>>
           /\ reader' = "lock"
           /\ UNCHANGED <<queueVars, submission_mutex, cqe, engine, answers,
                          writer, msg, ringVars, clientVars, owed>>

LockAndTake == /\ reader = "lock"
               /\ submission_mutex = "free"
               /\ submission_mutex' = "reader"
               /\ cqe' = Head(cq)
               /\ cq' = Tail(cq)
               /\ reader' = "handle"
               /\ UNCHANGED <<queueVars, engine, answers, writer, msg,
                              accepting, reading, sending, clientVars, owed>>

\* the end of receive_msg: the lock goes out of scope
ReaderDone == /\ submission_mutex' = "free"
              /\ cqe' = NoCqe
              /\ reader' = "wait"
              /\ UNCHANGED <<queueVars, engine, answers, writer, msg, cq,
                             clientVars, owed>>

HandleAccept == /\ reader = "handle"
                /\ cqe.type = "Accept"
                /\ accepting' = TRUE
                /\ reading' = IF cqe.res = "ok" THEN reading \cup {cqe.fd}
                                                ELSE reading
                /\ UNCHANGED sending
                /\ ReaderDone

\* the peer closed or the recv failed: nothing is submitted again
HandleReadEnd == /\ reader = "handle"
                 /\ cqe.type = "Read"
                 /\ cqe.res # "data"
                 /\ UNCHANGED <<accepting, reading, sending>>
                 /\ ReaderDone

\* Mutant of HandleRead: the lock is kept while waiting for the queue.
HandleReadLocked == /\ reader = "handle"
                    /\ cqe.type = "Read"
                    /\ cqe.res = "data"
                    /\ Len(incoming_queue) < QUEUE_SIZE
                    /\ incoming_queue' = Append(incoming_queue, cqe.fd)
                    /\ reader' = "rearm"
                    /\ UNCHANGED <<outgoing_queue, submission_mutex, cqe,
                                   engine, answers, writer, msg, ringVars,
                                   clientVars, owed>>

\* lock.unlock() before the queue, which may be full
HandleRead == /\ reader = "handle"
              /\ cqe.type = "Read"
              /\ cqe.res = "data"
              /\ submission_mutex' = "free"
              /\ reader' = "enqueue"
              /\ UNCHANGED <<queueVars, cqe, engine, answers, writer, msg,
                             ringVars, clientVars, owed>>

EnqueueRequest == /\ reader = "enqueue"
                  /\ Len(incoming_queue) < QUEUE_SIZE
                  /\ incoming_queue' = Append(incoming_queue, cqe.fd)
                  /\ reader' = "relock"
                  /\ UNCHANGED <<outgoing_queue, submission_mutex, cqe, engine,
                                 answers, writer, msg, ringVars, clientVars,
                                 owed>>

\* Mutant of Relock: the lock is not taken again.
RelockSkipped == /\ reader = "relock"
                 /\ reader' = "rearm"
                 /\ UNCHANGED <<queueVars, submission_mutex, cqe, engine,
                                answers, writer, msg, ringVars, clientVars,
                                owed>>

Relock == /\ reader = "relock"
          /\ submission_mutex = "free"
          /\ submission_mutex' = "reader"
          /\ reader' = "rearm"
          /\ UNCHANGED <<queueVars, cqe, engine, answers, writer, msg,
                         ringVars, clientVars, owed>>

\* Mutant of RearmRead: the socket is not read again.
RearmReadForgotten == /\ reader = "rearm"
                      /\ UNCHANGED <<accepting, reading, sending>>
                      /\ ReaderDone

RearmRead == /\ reader = "rearm"
             /\ reading' = reading \cup {cqe.fd}
             /\ UNCHANGED <<accepting, sending>>
             /\ ReaderDone

\* Mutant of HandleWrite: a short send counts as done.
HandleWriteShort == /\ reader = "handle"
                    /\ cqe.type = "Write"
                    /\ UNCHANGED <<accepting, reading, sending>>
                    /\ ReaderDone

\* what a short send left over is submitted again; a send that is finished,
\* failed or returned 0 is forgotten
HandleWrite == /\ reader = "handle"
               /\ cqe.type = "Write"
               /\ sending' = IF cqe.res = "short"
                             THEN [sending EXCEPT ![cqe.fd][cqe.left] = @ + 1]
                             ELSE sending
               /\ UNCHANGED <<accepting, reading>>
               /\ ReaderDone

Reader == \/ WaitCqe \/ LockAndTake \/ HandleAccept \/ HandleReadEnd
          \/ HandleRead \/ EnqueueRequest \/ Relock \/ RearmRead \/ HandleWrite
-----------------------------------------------------------------------------
(* The engine thread: run                                                  *)

\* the addressees of m messages about an order of c: Accepted, two Executed
\* per trade (c and the other party), and Canceled if something is cancelled
Told(c, parties, m) ==
    [i \in 1 .. m |-> IF i % 2 = 1 /\ i > 1 THEN parties[i \div 2] ELSE c]

\* none for a type that decode does not know; one to c for a cancel, too
Answers(c) ==
    {<<>>} \cup UNION {{Told(c, parties, m) : parties \in [1 .. (m - 1) \div 2 -> connected]} :
                       m \in 1 .. 2 * MaxTrades + 2}

DequeueRequest == /\ engine = "dequeue"
                  /\ incoming_queue # <<>>
                  /\ incoming_queue' = Tail(incoming_queue)
                  /\ answers' \in Answers(Head(incoming_queue))
                  /\ engine' = IF answers' = <<>> THEN "dequeue" ELSE "publish"
                  /\ UNCHANGED <<outgoing_queue, submission_mutex, reader, cqe,
                                 writer, msg, ringVars, clientVars, owed>>

Publish == /\ engine = "publish"
           /\ Len(outgoing_queue) < QUEUE_SIZE
           /\ outgoing_queue' = Append(outgoing_queue, Head(answers))
           /\ owed' = [owed EXCEPT ![Head(answers)] = @ + PARTS]
           /\ answers' = Tail(answers)
           /\ engine' = IF Len(answers) = 1 THEN "dequeue" ELSE "publish"
           /\ UNCHANGED <<incoming_queue, submission_mutex, reader, cqe,
                          writer, msg, ringVars, clientVars>>

EngineThread == DequeueRequest \/ Publish
-----------------------------------------------------------------------------
(* The writer thread: dequeue, send_msg                                    *)
DequeueResponse == /\ writer = "dequeue"
                   /\ outgoing_queue # <<>>
                   /\ outgoing_queue' = Tail(outgoing_queue)
                   /\ msg' = Head(outgoing_queue)
                   /\ writer' = "lock"
                   /\ UNCHANGED <<incoming_queue, submission_mutex, reader, cqe,
                                  engine, answers, ringVars, clientVars, owed>>

LockToSend == /\ writer = "lock"
              /\ submission_mutex = "free"
              /\ submission_mutex' = "writer"
              /\ writer' = "submit"
              /\ UNCHANGED <<queueVars, reader, cqe, engine, answers, msg,
                             ringVars, clientVars, owed>>

SubmitSend == /\ writer = "submit"
              /\ sending' = [sending EXCEPT ![msg][PARTS] = @ + 1]
              /\ submission_mutex' = "free"
              /\ msg' = NoClient
              /\ writer' = "dequeue"
              /\ UNCHANGED <<queueVars, reader, cqe, engine, answers,
                             accepting, reading, cq, clientVars, owed>>

Writer == DequeueResponse \/ LockToSend \/ SubmitSend
-----------------------------------------------------------------------------
(* The kernel and the clients                                              *)
Complete(c) == cq' = Append(cq, c)

CompleteAccept(c) == /\ accepting
                     /\ c \notin connected
                     /\ connected' = connected \cup {c}
                     /\ accepting' = FALSE
                     /\ Complete([type |-> "Accept", fd |-> c, res |-> "ok"])
                     /\ UNCHANGED <<queueVars, submission_mutex, threadVars,
                                    reading, sending, requests, faults, lost,
                                    owed>>

FailAccept == /\ accepting
              /\ faults < MaxFaults
              /\ faults' = faults + 1
              /\ accepting' = FALSE
              /\ Complete([type |-> "Accept", fd |-> NoClient, res |-> "error"])
              /\ UNCHANGED <<queueVars, submission_mutex, threadVars, reading,
                             sending, connected, requests, lost, owed>>

CompleteRecv(c) == /\ c \in reading
                   /\ requests < MaxRequests
                   /\ requests' = requests + 1
                   /\ reading' = reading \ {c}
                   /\ Complete([type |-> "Read", fd |-> c, res |-> "data"])
                   /\ UNCHANGED <<queueVars, submission_mutex, threadVars,
                                  accepting, sending, connected, faults, lost,
                                  owed>>

\* the peer closed (res = 0) or the recv failed (res < 0)
EndRecv(c) == /\ c \in reading
              /\ faults < MaxFaults
              /\ faults' = faults + 1
              /\ lost' = lost \cup {c}
              /\ reading' = reading \ {c}
              /\ Complete([type |-> "Read", fd |-> c, res |-> "end"])
              /\ UNCHANGED <<queueVars, submission_mutex, threadVars, accepting,
                             sending, connected, requests, owed>>

\* k of the n pieces of a send go out
CompleteSend(c, n, k) ==
    /\ sending[c][n] > 0
    /\ sending' = [sending EXCEPT ![c][n] = @ - 1]
    /\ owed' = [owed EXCEPT ![c] = @ - k]
    /\ Complete([type |-> "Write", fd |-> c,
                 res |-> IF k = n THEN "all" ELSE "short", left |-> n - k])
    /\ UNCHANGED <<queueVars, submission_mutex, threadVars, accepting, reading,
                   clientVars>>

\* the send failed (res < 0) or sent nothing (res = 0)
FailSend(c, n) ==
    /\ sending[c][n] > 0
    /\ c \in lost \/ faults < MaxFaults
    /\ faults' = IF c \in lost THEN faults ELSE faults + 1
    /\ lost' = lost \cup {c}
    /\ sending' = [sending EXCEPT ![c][n] = @ - 1]
    /\ Complete([type |-> "Write", fd |-> c, res |-> "error", left |-> 0])
    /\ UNCHANGED <<queueVars, submission_mutex, threadVars, accepting, reading,
                   connected, requests, owed>>

SendEnds == \E c \in Clients, n \in 1 .. PARTS :
               FailSend(c, n) \/ \E k \in 1 .. n : CompleteSend(c, n, k)

Kernel == \/ \E c \in Clients : CompleteAccept(c) \/ CompleteRecv(c) \/ EndRecv(c)
          \/ FailAccept
          \/ SendEnds

Next == Reader \/ EngineThread \/ Writer \/ Kernel

Spec == Init /\ [][Next]_vars

(* The threads run for ever and are scheduled; a submitted send completes, *)
(* which takes a peer that reads or a connection that fails.  Nothing is   *)
(* assumed of the order in which threads get the mutex, nor of clients.    *)
FairSpec == Spec /\ WF_vars(Reader) /\ WF_vars(EngineThread)
                 /\ WF_vars(Writer) /\ WF_vars(SendEnds)
-----------------------------------------------------------------------------
(* Every variable stays in its type; both queues keep within QUEUE_SIZE.   *)
PipelineTypeOK ==
    /\ incoming_queue \in Seq(Clients) /\ Len(incoming_queue) <= QUEUE_SIZE
    /\ outgoing_queue \in Seq(Clients) /\ Len(outgoing_queue) <= QUEUE_SIZE
    /\ submission_mutex \in {"free", "reader", "writer"}
    /\ reader \in {"wait", "lock", "handle", "enqueue", "relock", "rearm"}
    /\ engine \in {"dequeue", "publish"}
    /\ writer \in {"dequeue", "lock", "submit"}
    /\ accepting \in BOOLEAN
    /\ reading \subseteq Clients
    /\ sending \in [Clients -> [1 .. PARTS -> Nat]]
    /\ connected \subseteq Clients /\ lost \subseteq Clients
    /\ owed \in [Clients -> Nat]

(* The submission ring and inflight_requests are not thread safe: the      *)
(* reader and the writer never work on them at once.                       *)
RingExclusive == ~(reader \in {"handle", "rearm"} /\ writer = "submit")

(* A client's messages stay in order because its socket has one recv at a  *)
(* time: submitted, completed, or with the reader, unless it was cut off.  *)
Outstanding(c) ==
    (IF c \in reading THEN 1 ELSE 0)
  + Cardinality({i \in 1 .. Len(cq) : cq[i].type \in {"Read", "Accept"}
                                      /\ cq[i].fd = c})
  + (IF cqe.type \in {"Read", "Accept"} /\ cqe.fd = c THEN 1 ELSE 0)

OneReadPerClient ==
    \A c \in Clients : /\ Outstanding(c) <= 1
                       /\ c \in connected \ lost => Outstanding(c) = 1

(* What clients still wait for is somewhere on its way: queued, with the   *)
(* writer, submitted, or a short send's remainder about to be resubmitted. *)
PiecesOf(c) ==
    LET count(q) == Cardinality({i \in 1 .. Len(q) : q[i] = c})
        left(e) == IF e.type = "Write" /\ e.fd = c THEN e.left ELSE 0
        atKernel[n \in 0 .. PARTS] ==
           IF n = 0 THEN 0 ELSE n * sending[c][n] + atKernel[n - 1]
        done[i \in 0 .. Len(cq)] ==
           IF i = 0 THEN 0 ELSE left(cq[i]) + done[i - 1]
    IN PARTS * (count(outgoing_queue) + (IF msg = c THEN 1 ELSE 0))
       + atKernel[PARTS] + done[Len(cq)] + left(cqe)

NoResponseLost == /\ PipelineTypeOK
                  /\ \A c \in Clients \ lost : owed[c] = PiecesOf(c)

(* Everything that comes in goes through: the threads never wait for each  *)
(* other in a circle (full queues and the mutex), and every response is on *)
(* the wire in full or its client is cut off.                              *)
Quiet == /\ reader = "wait" /\ cq = <<>>
         /\ engine = "dequeue" /\ incoming_queue = <<>>
         /\ writer = "dequeue" /\ outgoing_queue = <<>>
         /\ \A c \in Clients \ lost : owed[c] = 0
Drains == <>[]Quiet
=============================================================================

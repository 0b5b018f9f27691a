------------------------------- MODULE Feeds --------------------------------
(* The networking exercises, one per behaviour.                            *)
EXTENDS Integers, Sequences

CONSTANTS Conversations, BUFFER_SIZE, SENDERS, MESSAGE_SIZE, Part1, Part2,
          MaxFailures, Peers, Descriptors, MaxBytes, MaxMessages, Period

ASSUME FeedsAssumption ==
    /\ Descriptors \subseteq Nat /\ MaxMessages \in Nat
    /\ \A script \in Conversations :         \* Decimal has two digits
         /\ script \in Seq(Seq(Int)) /\ script # <<>>
         /\ \A i \in DOMAIN script : Len(script[i]) \in 1 .. 99

VARIABLES kind,
          messages, unsent, sock, getting_len, acc, msg_buffer, stopped, printed,
          calls, refused, arrived, buffers, unregistered, failures, events, output,
          ended,
          uring, peer, fd, sent, up, down, ring,
          counter, net, subscribed, turns, receiving, last_received, received, gaps

Framing == INSTANCE FramingServer
Receiver == INSTANCE StreamReceiver
Echo == INSTANCE EchoServers
Gap == INSTANCE GapDetector

framingVars == <<messages, unsent, sock, getting_len, acc, msg_buffer, stopped,
                 printed>>
receiverVars == <<calls, refused, arrived, buffers, unregistered, failures,
                  events, output, ended>>
echoVars == <<uring, peer, fd, sent, up, down, ring>>
gapVars == <<counter, net, subscribed, turns, receiving, last_received, received,
             gaps>>
vars == <<kind, framingVars, receiverVars, echoVars, gapVars>>

Init == /\ kind \in {"framing", "receiver", "echo", "gap"}
        /\ Framing!Init /\ Receiver!Init /\ Echo!Init /\ Gap!Init
        /\ kind # "echo" => ~uring

FramingStep == /\ kind = "framing" /\ Framing!Next
               /\ UNCHANGED <<kind, receiverVars, echoVars, gapVars>>
Idle == UNCHANGED <<kind, framingVars, echoVars, gapVars>>
SenderStep == kind = "receiver" /\ Receiver!Sender /\ Idle
ReceiverStep == kind = "receiver" /\ Receiver!Receive /\ Idle
EchoStep == /\ kind = "echo" /\ Echo!Next
            /\ UNCHANGED <<kind, framingVars, receiverVars, gapVars>>
GapStep == /\ kind = "gap" /\ Gap!Next
           /\ UNCHANGED <<kind, framingVars, receiverVars, echoVars>>

Next == FramingStep \/ SenderStep \/ ReceiverStep \/ EchoStep \/ GapStep

(* Both threads of multi_thread_rx go on while they can: sender_f never    *)
(* waits, and epoll_wait returns when a descriptor is ready.               *)
Spec == Init /\ [][Next]_vars /\ WF_vars(SenderStep) /\ WF_vars(ReceiverStep)

(* However client writes and receives cut the stream, the framing server   *)
(* prints the client's messages, whole, once, and by its end all of them.  *)
FramesIntact == Framing!FramesIntact

(* A client of either echo server gets back its own bytes, in order, none  *)
(* twice, and the ring holds no operation on a closed descriptor.          *)
EchoesOwnBytes == Echo!EchoesOwnBytes

(* A message of the multicast feed older than one that arrived has arrived *)
(* itself or lies in a gap the subscriber has reported.                    *)
GapsReported == Gap!GapsReported

(* multi_thread_rx prints one whole, unmixed message of every client it    *)
(* registers, and ends if it can register all, whatever calls fail.        *)
EverySenderPrinted == kind = "receiver" => Receiver!EverySenderPrinted
=============================================================================

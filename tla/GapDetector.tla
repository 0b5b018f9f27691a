---------------------------- MODULE GapDetector -----------------------------
(***************************************************************************)
(* udp_mcast: a publisher numbers its datagrams, a subscriber that leaves  *)
(* and joins the group by turns reports the gaps it sees.  The network     *)
(* loses, duplicates and reorders; a datagram that arrives while the       *)
(* subscriber is not a member is lost.                                     *)
(***************************************************************************)
EXTENDS Ascii

CONSTANTS MaxMessages,      \* bound on the datagrams published
          Period            \* turns between changes of membership: 10

VARIABLES counter,                      \* the publisher
          net,                          \* datagrams under way
          subscribed, turns, receiving, last_received,  \* the subscriber
          received, gaps                \* what it got and what it reported

Init == /\ counter = 0 /\ net = {}
        /\ subscribed = TRUE /\ turns = 0 /\ receiving = FALSE
        /\ last_received = 0 /\ received = {} /\ gaps = {}

Publish == /\ counter < MaxMessages
           /\ net' = net \cup {Decimal(counter) \o <<BAR>>}
           /\ counter' = counter + 1
           /\ UNCHANGED <<subscribed, turns, receiving, last_received, received, gaps>>

Lose(message) == /\ net' = net \ {message}
                 /\ UNCHANGED <<counter, subscribed, turns, receiving, last_received,
                                received, gaps>>

\* all that matters of a turn: is it the first, and its place in two periods
NextTurn == IF turns = 2 * Period THEN 1 ELSE turns + 1

\* the head of the loop: join, leave or go on; without membership the turn ends
Subscription ==
    /\ ~receiving
    /\ subscribed' = CASE turns % (2 * Period) = 0 /\ ~subscribed -> TRUE
                       [] subscribed /\ turns % Period = 0 /\ turns # 0 -> FALSE
                       [] OTHER -> subscribed
    /\ receiving' = subscribed'
    /\ turns' = IF subscribed' THEN turns ELSE NextTurn
    /\ UNCHANGED <<counter, net, last_received, received, gaps>>

\* the digits up to the bar
recv_id(message) ==
    FoldLeft(LAMBDA id, ch : id * 10 + ch, 0,
             SubSeq(message, 1, SelectInSeq(message, LAMBDA ch : ch = BAR) - 1))

\* Mutant of IsGap: a single missing message is not seen.
IsGapWide(id) == id > last_received + 2

IsGap(id) == id > last_received + 1

\* recvfrom; the datagram may come once more
Receive(message) ==
    /\ receiving
    /\ net' \in {net, net \ {message}}
    /\ LET id == recv_id(message)
       IN  /\ gaps' = IF IsGap(id) THEN gaps \cup {<<last_received, id>>} ELSE gaps
           /\ last_received' = id
           /\ received' = received \cup {id}
    /\ receiving' = FALSE
    /\ turns' = NextTurn
    /\ UNCHANGED <<counter, subscribed>>

Next == \/ Publish \/ Subscription
        \/ \E message \in net : Lose(message) \/ Receive(message)

(* README: the consumer has to detect the gap when a packet is lost or out *)
(* of order.  Every message after the first, older than some message that  *)
(* arrived, has arrived or lies in a gap the subscriber has reported.      *)
GapsReported ==
    \A id \in 1 .. MaxMessages :
      \/ id \in received
      \/ \A later \in received : later < id
      \/ \E gap \in gaps : gap[1] < id /\ id < gap[2]
=============================================================================

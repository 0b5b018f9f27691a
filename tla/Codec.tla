------------------------------- MODULE Codec --------------------------------
(***************************************************************************)
(* messages.hpp and message.cpp: the OUCH views and builders over raw      *)
(* bytes.  Views and builders state every offset and width on their own,   *)
(* and so does the model: <<offset, width, representation>> per field,     *)
(* read off each class.  A byte takes RADIX values, enough for the type    *)
(* letters, the padding and distinct digits of the numbers.                *)
(***************************************************************************)
EXTENDS Integers, Sequences, SequencesExt, FiniteSetsExt

RADIX == 8
SPACE == 7
Byte == 0 .. RADIX - 1

\* the TYPE letters O, X, A, C, I and E
O == 1
X == 2
A == 3
C == 4
I == 5
E == 6

\* byte i of n, most significant first, of the number v
Digit(v, n, i) == (v \div RADIX ^ (n - 1 - i)) % RADIX

\* Mutant of store_be: the bytes stay in the order of the host.
store_host(buf, p, n, v) ==
    [i \in DOMAIN buf |-> IF i \in p .. p + n - 1 THEN Digit(v, n, n - 1 - (i - p))
                          ELSE buf[i]]

store_be(buf, p, n, v) ==
    [i \in DOMAIN buf |-> IF i \in p .. p + n - 1 THEN Digit(v, n, i - p)
                          ELSE buf[i]]

load_be(buf, p, n) ==
    FoldLeft(LAMBDA v, i : v * RADIX + buf[p + i], 0, [i \in 1 .. n |-> i - 1])

\* cut to the width of the field, or padded with spaces
Padded(s, n) == [i \in 1 .. n |-> IF i <= Len(s) THEN s[i] ELSE SPACE]

store_str(buf, p, n, s) ==
    [i \in DOMAIN buf |-> IF i \in p .. p + n - 1 THEN Padded(s, n)[i - p + 1]
                          ELSE buf[i]]

load_str(buf, p, n) == [i \in 1 .. n |-> buf[p + i - 1]]

EnterRequestView ==
    [WIRE_SIZE |-> 47, UserRefNum |-> <<1, 4, "be">>, Side |-> <<5, 1, "be">>,
     Quantity |-> <<6, 4, "be">>, Symbol |-> <<10, 8, "str">>,
     Price |-> <<18, 8, "be">>, TimeInForce |-> <<26, 1, "be">>,
     Display |-> <<27, 1, "be">>, Capacity |-> <<28, 1, "be">>,
     InterMarketSweepElig |-> <<29, 1, "be">>, CrossType |-> <<30, 1, "be">>,
     ClOrdID |-> <<31, 14, "str">>, AppendageLength |-> <<45, 2, "be">>]

CancelRequestView ==
    [WIRE_SIZE |-> 9, UserRefNum |-> <<1, 4, "be">>, Quantity |-> <<5, 4, "be">>]

AcceptResponseView ==
    [WIRE_SIZE |-> 64, Timestamp |-> <<1, 8, "be">>,
     UserRefNum |-> <<9, 4, "be">>, Side |-> <<13, 1, "be">>,
     Quantity |-> <<14, 4, "be">>, Symbol |-> <<18, 8, "str">>,
     Price |-> <<26, 8, "be">>, TimeInForce |-> <<34, 1, "be">>,
     Display |-> <<35, 1, "be">>, OrderReferenceNumber |-> <<36, 8, "be">>,
     Capacity |-> <<44, 1, "be">>, InterMarketSweepElig |-> <<45, 1, "be">>,
     CrossType |-> <<46, 1, "be">>, OrderState |-> <<47, 1, "be">>,
     ClOrdID |-> <<48, 14, "str">>, AppendageLength |-> <<62, 2, "be">>]

CancelledResponseView ==
    [WIRE_SIZE |-> 18, Timestamp |-> <<1, 8, "be">>,
     UserRefNum |-> <<9, 4, "be">>, Quantity |-> <<13, 4, "be">>,
     Reason |-> <<17, 1, "be">>]

CancelRejectResponseView ==
    [WIRE_SIZE |-> 15, Timestamp |-> <<1, 8, "be">>,
     UserRefNum |-> <<9, 4, "be">>, AppendageLength |-> <<13, 2, "be">>]

ExecutedResponseView ==
    [WIRE_SIZE |-> 36, Timestamp |-> <<1, 8, "be">>,
     UserRefNum |-> <<9, 4, "be">>, Quantity |-> <<13, 4, "be">>,
     Price |-> <<17, 8, "be">>, LiquidityFlag |-> <<25, 1, "be">>,
     MatchNumber |-> <<26, 8, "be">>, AppendageLength |-> <<34, 2, "be">>]

View(type) == CASE type = O -> EnterRequestView
                [] type = X -> CancelRequestView
                [] type = A -> AcceptResponseView
                [] type = C -> CancelledResponseView
                [] type = I -> CancelRejectResponseView
                [] type = E -> ExecutedResponseView

Fields(type) == DOMAIN View(type) \ {"WIRE_SIZE"}
WireSize(type) == View(type).WIRE_SIZE

Read(type, buf, field) ==
    LET at == View(type)[field]
    IN  IF at[3] = "str" THEN load_str(buf, at[1], at[2])
        ELSE load_be(buf, at[1], at[2])

\* the type byte selects the view; another byte is unreachable
decode(buf) == [type |-> buf[0],
                field |-> [f \in Fields(buf[0]) |-> Read(buf[0], buf, f)]]
-----------------------------------------------------------------------------
EnterRequestBuilder ==
    [UserRefNum |-> <<1, 4, "be">>, Side |-> <<5, 1, "be">>,
     Quantity |-> <<6, 4, "be">>, Symbol |-> <<10, 8, "str">>,
     Price |-> <<18, 8, "be">>, TimeInForce |-> <<26, 1, "be">>,
     Display |-> <<27, 1, "be">>, Capacity |-> <<28, 1, "be">>,
     InterMarketSweepElig |-> <<29, 1, "be">>, CrossType |-> <<30, 1, "be">>,
     ClOrdID |-> <<31, 14, "str">>, AppendageLength |-> <<45, 2, "be">>]

CancelRequestBuilder ==
    [UserRefNum |-> <<1, 4, "be">>, Quantity |-> <<5, 4, "be">>]

AcceptResponseBuilder ==
    [Timestamp |-> <<1, 8, "be">>, UserRefNum |-> <<9, 4, "be">>,
     Side |-> <<13, 1, "be">>, Quantity |-> <<14, 4, "be">>,
     Symbol |-> <<18, 8, "str">>, Price |-> <<26, 8, "be">>,
     TimeInForce |-> <<34, 1, "be">>, Display |-> <<35, 1, "be">>,
     OrderReferenceNumber |-> <<36, 8, "be">>, Capacity |-> <<44, 1, "be">>,
     InterMarketSweepElig |-> <<45, 1, "be">>, CrossType |-> <<46, 1, "be">>,
     OrderState |-> <<47, 1, "be">>, ClOrdID |-> <<48, 14, "str">>,
     AppendageLength |-> <<62, 2, "be">>]

CancelledResponseBuilder ==
    [Timestamp |-> <<1, 8, "be">>, UserRefNum |-> <<9, 4, "be">>,
     Quantity |-> <<13, 4, "be">>, Reason |-> <<17, 1, "be">>]

CancelRejectResponseBuilder ==
    [Timestamp |-> <<1, 8, "be">>, UserRefNum |-> <<9, 4, "be">>,
     AppendageLength |-> <<13, 2, "be">>]

ExecutedResponseBuilder ==
    [Timestamp |-> <<1, 8, "be">>, UserRefNum |-> <<9, 4, "be">>,
     Quantity |-> <<13, 4, "be">>, Price |-> <<17, 8, "be">>,
     LiquidityFlag |-> <<25, 1, "be">>, MatchNumber |-> <<26, 8, "be">>,
     AppendageLength |-> <<34, 2, "be">>]

Builder(type) == CASE type = O -> EnterRequestBuilder
                   [] type = X -> CancelRequestBuilder
                   [] type = A -> AcceptResponseBuilder
                   [] type = C -> CancelledResponseBuilder
                   [] type = I -> CancelRejectResponseBuilder
                   [] type = E -> ExecutedResponseBuilder

\* one setter call
Set(type, buf, field, v) ==
    LET at == Builder(type)[field]
    IN  IF at[3] = "str" THEN store_str(buf, at[1], at[2], v)
        ELSE store_be(buf, at[1], at[2], v)

\* a builder's bytes after the setter calls for the fields of `value`
Build(type, value) ==
    LET empty == [i \in 0 .. WireSize(type) - 1 |-> IF i = 0 THEN type ELSE 0]
    IN  FoldSet(LAMBDA f, buf : Set(type, buf, f, value[f]), empty, DOMAIN value)

kMaxReqSize == 47
kMaxResSize == 64
=============================================================================

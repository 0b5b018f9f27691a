------------------------------- MODULE Ascii --------------------------------
(* Characters as their distance from '0', the form in which both parsers   *)
(* of 5_network use them (c - '0'), and the decimal digits of a number.    *)
EXTENDS Integers, Sequences, SequencesExt

BAR == 76               \* '|'
NUL == -48

Decimal(n) == IF n < 10 THEN <<n>> ELSE <<n \div 10, n % 10>>     \* n < 100
=============================================================================

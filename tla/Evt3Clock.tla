------------------------------ MODULE Evt3Clock ------------------------------
(***************************************************************************)
(* The time of the EVT3 decoder (hal/cpp/include/metavision/hal/decoders/  *)
(* evt3/evt3_decoder.h): a count of LowN * HighN microseconds that the     *)
(* sensor sends in two parts, EVT_TIME_HIGH and EVT_TIME_LOW, and a number *)
(* of loops that the decoder deduces.  In the code both parts have 12      *)
(* bits; the 40 bits of the loops are taken for unbounded.                 *)
(***************************************************************************)
EXTENDS Integers

CONSTANTS LowN,  \* 2 ^ NumBitsInTimestampLSB
          HighN  \* 2 ^ NumBitsInHighTimestampLSB

ASSUME ClockAssumption ==
    LowN \in Nat \ {0} /\ HighN \in Nat \ {0} /\ HighN % 2 = 0

Period == LowN * HighN

\* bitfield_timestamp
Clock == [loop : Nat, high : 0..(HighN - 1), low : 0..(LowN - 1)]

\* last_timestamp_.time
Stamp(c) == (c.loop * HighN + c.high) * LowN + c.low

\* Slip: a jump of exactly half the range is not taken for a loop.
OverflowTooStrict(c, high) == c.high > (HighN \div 2) + high

\* The high part went back by half its range or more.
Overflow(c, high) == c.high >= (HighN \div 2) + high

\* Slip: the low part stays when the high one changes.
TimeHighOnly(c, high) ==
    [c EXCEPT !.loop = IF Overflow(c, high) THEN @ + 1 ELSE @, !.high = high]

\* EVT_TIME_HIGH
TimeHigh(c, high) ==
    [loop |-> IF Overflow(c, high) THEN c.loop + 1 ELSE c.loop,
     high |-> high,
     low |-> IF c.high = high THEN c.low ELSE 0]

\* EVT_TIME_LOW
TimeLow(c, low) == [c EXCEPT !.low = low]

\* reset_last_timestamp_impl: the loops are counted with the largest time for
\* divisor, one less than the period.
ClockAt(t) ==
    [loop |-> t \div (Period - 1), high |-> (t \div LowN) % HighN, low |-> t % LowN]
=============================================================================

--------------------------- MODULE MCEvt3Decoder ----------------------------
(* Instances of Evt3Decoder: 2 low and 4 high values of the time.          *)
EXTENDS Evt3Decoder

MCStarts == {5}
MCJumps == {1, 4}
MCBlacklist == {2}
MCMasters == {1, 2}
\* The times that ClockAt gives the right number of loops for.
MCExact == {t \in 0..60 : t \div (Period - 1) = t \div Period}
MCAll == 0..60
MCBuffers == {3, 10}
=============================================================================

----------------------------- MODULE MCRawIndex -----------------------------
(* Recordings of a few events over three periods of two time units, one of *)
(* which may be empty.                                                     *)
EXTENDS RawIndex
MCTimes == {0, 1, 2, 5}
MCTargets == 0..9
=============================================================================

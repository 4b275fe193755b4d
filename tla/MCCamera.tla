------------------------------ MODULE MCCamera ------------------------------
(* One caller, as the samples have, with a stop_impl that may fail or not, *)
(* and two callers: a camera stopped from another thread than the one that *)
(* started it, whose run thread may fail or not.  Two slots leave room for a detached run thread next to its *)
(* successor.  One caller records, twice at most: the writer of the first  *)
(* recording may still be open when the second starts.  And one plays a    *)
(* file of two buffers, sought in the middle of a buffer and at the end.   *)
EXTENDS RawReader
CONSTANTS u1, u2
MCUsers == {u1, u2}
Case(callers, runFails, stopFails, plays) ==
    [callers |-> callers, runFails |-> runFails, stopFails |-> stopFails, plays |-> plays]
MCOne == Case({u1}, TRUE, FALSE, FALSE)
MCTwo == Case({u1, u2}, TRUE, FALSE, FALSE)
MCTwoSound == Case({u1, u2}, FALSE, FALSE, FALSE)
MCDetach == Case({u1}, TRUE, TRUE, FALSE)
MCRecord == Case({u1}, FALSE, FALSE, FALSE)
MCPlay == Case({u1}, FALSE, FALSE, TRUE)
MCSettings == {MCOne, MCTwo, MCTwoSound, MCDetach, MCRecord, MCPlay}
MCRecorded == {MCRecord}
MCTwoOnly == {MCTwo}
MCTargets == {2, FileSize + 1}
=============================================================================

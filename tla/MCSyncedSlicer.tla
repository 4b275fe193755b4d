--------------------------- MODULE MCSyncedSlicer ---------------------------
(* One setting per slicing condition, and a live slave that falls silent.  *)
(* The tapes hold what makes slicing hard: periods without events, events  *)
(* at the end of a period, equal times in master and slave, a slave that   *)
(* is ahead until it has to wait and one that ends early.                  *)
EXTENDS SyncedSlicer
Buf(ev, now) == [ev |-> ev, now |-> now]
NUs(us) == [type |-> "N_US", us |-> us, n |-> 1]
NEvents(n) == [type |-> "N_EVENTS", us |-> 1, n |-> n]
Mixed(us, n) == [type |-> "MIXED", us |-> us, n |-> n]
Identity == [type |-> "IDENTITY", us |-> 1, n |-> 1]

MCPeriods == [cond |-> NUs(2), room |-> 1, timed |-> TRUE, ends |-> {0, 1},
    master |-> <<Buf(<<2, 3>>, 3), Buf(<<>>, 7), Buf(<<8>>, 8)>>,
    slaves |-> << <<<<1, 2>>, <<3, 7>>, <<12>>, <<13>>>> >>]
MCCounts == [cond |-> NEvents(2), room |-> 1, timed |-> FALSE, ends |-> {0, 1, 2},
    master |-> <<Buf(<<1, 2, 2>>, 2), Buf(<<5>>, 5)>>,
    slaves |-> << <<<<0, 1>>, <<2, 3>>, <<4, 5>>>>, <<<<2>>>> >>]
MCMixed == [cond |-> Mixed(4, 2), room |-> 2, timed |-> TRUE, ends |-> {0, 1},
    master |-> <<Buf(<<4, 5, 6>>, 7), Buf(<<9, 13>>, 13)>>,
    slaves |-> << <<<<4, 6>>, <<8, 9, 10>>>> >>]
MCBuffers == [cond |-> Identity, room |-> 0, timed |-> TRUE, ends |-> {0, 1},
    master |-> <<Buf(<<1, 2>>, 2), Buf(<<20000>>, 20001)>>,
    slaves |-> << <<<<0>>, <<10000>>, <<10001, 20001>>>> >>]
MCAlone == [cond |-> NUs(2), room |-> 1, timed |-> TRUE, ends |-> {0},
    master |-> <<Buf(<<>>, 3), Buf(<<4, 5, 6>>, 6)>>, slaves |-> <<>>]
MCSilent == [cond |-> NUs(2), room |-> 1, timed |-> TRUE, ends |-> {},
    master |-> <<Buf(<<0, 1, 5>>, 6)>>,
    slaves |-> << <<<<0>>, <<4>>>>, <<<<1>>>> >>]

MCSettings == {MCPeriods, MCCounts, MCMixed, MCBuffers, MCAlone, MCSilent}
=============================================================================

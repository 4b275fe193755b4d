---------------------------- MODULE SliceStream ----------------------------
(***************************************************************************)
(* What the iterator of a stream slicer promises (camera_stream_slicer.h,  *)
(* synced_camera_streams_slicer.h): the events of the master camera, cut   *)
(* into consecutive slices by the slicing condition, each with the events  *)
(* of every slave that precede its end; and, before it ends, everything    *)
(* the master has produced.  Only the last slice, which is what remained   *)
(* when the master stopped, may hold other events of the slaves.           *)
(***************************************************************************)
EXTENDS Integers, SequencesExt

VARIABLES
    source, \* [cond, master, slaves]: the condition, and the event times of
            \* the master and of every slave
    given,  \* the slices given so far
    over    \* the iterator has reached its end

sliceVars == <<source, given, over>>

TracksTime(c) == c.type \in {"N_US", "MIXED"}
TracksCount(c) == c.type \in {"N_EVENTS", "MIXED"}

\* The events of a camera that no slice holds yet.
Rest(all, parts) == SubSeq(all, Len(FlattenSeq(parts)) + 1, Len(all))
MasterRest == Rest(source.master, [i \in DOMAIN given |-> given[i].master])
SlaveRest(k) == Rest(source.slaves[k], [i \in DOMAIN given |-> given[i].slaves[k]])

\* Where a slice starts: at the end of the previous one.  The first starts
\* with the clock, or at the period of the first event.
Starts ==
    IF given # <<>> THEN {Last(given).t}
    ELSE {0} \cup (IF source.master = <<>> THEN {}
                   ELSE {source.cond.us * (source.master[1] \div source.cond.us)})

\* The slice with the next m events of the master that ends at t, where n
\* gives how many events it takes of every slave.
Slice(m, status, t, n) ==
    [status |-> status, t |-> t, n |-> m, master |-> SubSeq(MasterRest, 1, m),
     slaves |-> [k \in DOMAIN source.slaves |-> SubSeq(SlaveRest(k), 1, n[k])]]
Preceding(events, t) == Len(SelectSeq(events, LAMBDA x : x < t))
UpTo(t) == [k \in DOMAIN source.slaves |-> Preceding(SlaveRest(k), t)]

Give(s) == given' = Append(given, s) /\ UNCHANGED <<source, over>>

IsLast(s) == s.status = "MET_AUTOMATIC" /\ (source.cond.type # "IDENTITY" \/ s.n = 0)
Open == ~over /\ (given = <<>> \/ ~IsLast(Last(given)))

\* A full period: all the master's events that precede its end.
GivePeriod ==
    /\ Open /\ TracksTime(source.cond)
    /\ \E start \in Starts :
          LET t == start + source.cond.us
              m == Preceding(MasterRest, t) IN
          /\ TracksCount(source.cond) => m < source.cond.n
          /\ Give(Slice(m, "MET_N_US", t, UpTo(t)))

\* A full count, all of it before the end of the period if there is one.
GiveCount ==
    /\ Open /\ TracksCount(source.cond)
    /\ Len(MasterRest) >= source.cond.n
    /\ LET t == MasterRest[source.cond.n] IN
          /\ TracksTime(source.cond) => \E start \in Starts : t < start + source.cond.us
          /\ Give(Slice(source.cond.n, "MET_N_EVENTS", t, UpTo(t)))

\* Without a condition: the events as they come.
GiveBuffer ==
    /\ Open /\ source.cond.type = "IDENTITY"
    /\ \E m \in 1..Len(MasterRest) :
          Give(Slice(m, "MET_AUTOMATIC", MasterRest[m], UpTo(MasterRest[m])))

\* The master has stopped: what is left of it, and any events of the slaves.
GiveRemainder ==
    /\ Open
    /\ LET m == Len(MasterRest)
           t == IF m > 0 THEN Last(MasterRest)
                ELSE IF given = <<>> THEN 0 ELSE Last(given).t IN
       /\ source.cond.type = "IDENTITY" => m = 0
       /\ TracksCount(source.cond) => m < source.cond.n
       /\ TracksTime(source.cond) => \E start \in Starts : t < start + source.cond.us
       /\ \E n \in [DOMAIN source.slaves -> 0..Len(FlattenSeq(source.slaves))] :
             /\ \A k \in DOMAIN n : n[k] <= Len(SlaveRest(k))
             /\ Give(Slice(m, "MET_AUTOMATIC", t, n))

End ==
    /\ ~over /\ MasterRest = <<>>
    /\ over' = TRUE /\ UNCHANGED <<source, given>>

Init == given = <<>> /\ over = FALSE
Next == GivePeriod \/ GiveCount \/ GiveBuffer \/ GiveRemainder \/ End

Spec == Init /\ [][Next]_sliceVars
=============================================================================

------------------------------ MODULE RawIndex ------------------------------
(***************************************************************************)
(* The index of a RAW file, hal/cpp/src/facilities/i_events_stream.cpp:    *)
(* the bookmarks that map timestamps to byte offsets, the file             *)
(* <recording>.tmp_index that keeps them from one opening to the next, the *)
(* thread that loads or builds them, and the lookup of seek().             *)
(*                                                                         *)
(* A recording is the sequence of its raw events, each the timestamp the   *)
(* decoder has after it, NoTime before the first; a byte offset is the     *)
(* position of an event.  One process at a time has the recording open.    *)
(* It may crash; between two openings the recording may grow, as a copy or *)
(* a recording under way does.  What a crash leaves of the index file is a *)
(* prefix of what was written, hence what a crash at an earlier step       *)
(* leaves.                                                                 *)
(***************************************************************************)
EXTENDS Integers, Sequences, FiniteSetsExt

CONSTANTS Times,        \* timestamps of the events
          Period,       \* bookmark_period_us
          MaxEvents,    \* bound on the length of the recording
          Targets,      \* timestamps that are sought
          CrashAnyTime  \* FALSE: no crash, and no failing remove, once the
                        \* build of an index has been aborted

ASSUME IndexAssumption ==
    /\ Times \subseteq Nat /\ Period \in Nat \ {0} /\ MaxEvents \in Nat
    /\ Targets \subseteq Nat
    /\ CrashAnyTime \in BOOLEAN

VARIABLES
    raw,     \* the recording
    disk,    \* the index file
    proc,    \* where the index thread is, "closed" without one
    status,  \* index_.status_
    index,   \* index_.bookmarks_
    abort,   \* abort_index_building_
    closing, \* the destructor waits for the index thread
    writing, \* the output stream of the index file is good
    b        \* the locals of build_and_try_writing_bookmarks

vars == <<raw, disk, proc, status, index, abort, closing, writing, b>>

NoTime == -1
Mark == [ts : Times \cup {NoTime}, off : 1..MaxEvents + 1]
NoFile == [exists |-> FALSE, header |-> FALSE, size |-> 0, marks |-> <<>>,
           magic |-> FALSE]
NoBuild == [next |-> 1, ts |-> NoTime, off |-> 1, shift |-> FALSE, marks |-> <<>>]

\* The decoder knows no time at first, and its time never decreases.
Recordings ==
    {r \in UNION {[1..n -> Times \cup {NoTime}] : n \in 0..MaxEvents} :
        \A i, j \in DOMAIN r : i < j => r[i] <= r[j]}

Init ==
    /\ raw \in Recordings
    /\ disk = NoFile /\ proc = "closed" /\ status = "NotBuilt" /\ index = <<>>
    /\ abort = FALSE /\ closing = FALSE /\ writing = FALSE /\ b = NoBuild

-----------------------------------------------------------------------------
(* The recording and the process that has it open.                         *)

Grow ==
    /\ proc = "closed" /\ Len(raw) < MaxEvents
    /\ \E t \in Times : Append(raw, t) \in Recordings /\ raw' = Append(raw, t)
    /\ UNCHANGED <<disk, proc, status, index, abort, closing, writing, b>>

\* index() creates the thread.
Open ==
    /\ proc = "closed" /\ proc' = "begin"
    /\ status' = "Building"
    /\ UNCHANGED <<raw, disk, index, abort, closing, writing, b>>

Forget ==
    /\ proc' = "closed" /\ status' = "NotBuilt" /\ index' = <<>>
    /\ abort' = FALSE /\ closing' = FALSE /\ writing' = FALSE /\ b' = NoBuild
    /\ UNCHANGED <<raw, disk>>

\* ~I_EventsStream() asks the thread to abort, and joins it.
Close ==
    /\ proc # "closed" /\ ~closing
    /\ closing' = TRUE /\ abort' = TRUE
    /\ UNCHANGED <<raw, disk, proc, status, index, writing, b>>

Closed == closing /\ proc = "ready" /\ Forget

Crash == proc # "closed" /\ (CrashAnyTime \/ ~abort) /\ Forget

-----------------------------------------------------------------------------
(* build_index: the index file is loaded when it is that of the recording  *)
(* and ends with the magic number.                                         *)

\* An abort asked for before this step is forgotten.
ThreadBegin ==
    /\ proc = "begin" /\ proc' = "check"
    /\ abort' = FALSE
    /\ UNCHANGED <<raw, disk, status, index, closing, writing, b>>

\* Slip: the size of the recording is not compared.
LooksValidOfAnySize == disk.exists /\ disk.header /\ disk.magic

LooksValid ==
    disk.exists /\ disk.header /\ disk.size = Len(raw) /\ disk.magic

Check ==
    /\ proc = "check"
    /\ proc' = IF LooksValid THEN "load" ELSE "create"
    /\ UNCHANGED <<raw, disk, status, index, abort, closing, writing, b>>

Finish(s, marks) == proc' = "ready" /\ status' = s /\ index' = marks

\* load_bookmarks, which an abort stops anywhere.
Load ==
    /\ proc = "load"
    /\ \E n \in 0..Len(disk.marks) :
          /\ n = Len(disk.marks) \/ abort
          /\ LET marks == SubSeq(disk.marks, 1, n) IN
             Finish(IF marks = <<>> THEN "Bad" ELSE "Good", marks)
    /\ UNCHANGED <<raw, disk, abort, closing, writing, b>>

-----------------------------------------------------------------------------
(* build_and_try_writing_bookmarks.                                        *)

\* The file is truncated, or cannot be written: the index is then built in
\* memory only.
Create ==
    /\ proc = "create" /\ proc' = "build"
    /\ b' = NoBuild
    /\ \/ writing' = TRUE /\ disk' = [NoFile EXCEPT !.exists = TRUE, !.size = Len(raw)]
       \/ writing' = FALSE /\ disk' = disk
    /\ UNCHANGED <<raw, status, index, abort, closing>>

Bookmark == [ts |-> b.ts, off |-> b.off]
Repeat(n) == [i \in 1..n |-> Bookmark]

\* add_bookmarks in memory and in the file; a write that fails ends the build.
AddBookmarks(n, then) ==
    \/ /\ b' = [then EXCEPT !.marks = b.marks \o Repeat(n)]
       /\ disk' = IF writing THEN [disk EXCEPT !.marks = @ \o Repeat(n)] ELSE disk
       /\ UNCHANGED <<proc, status, index>>
    \/ /\ writing /\ Finish("Bad", <<>>)
       /\ UNCHANGED <<b, disk>>

MoreEvents == b.next <= Len(raw) /\ ~abort

\* The header is written with the timestamp shift, which the decoder knows from
\* the first event that has a time at the latest; after a failure the stream
\* ignores what follows.
BuildHeader ==
    /\ proc = "build" /\ MoreEvents
    /\ ~b.shift
    /\ b' = [b EXCEPT !.shift = TRUE]
    /\ \/ /\ disk' = IF writing THEN [disk EXCEPT !.header = TRUE] ELSE disk
          /\ writing' = writing
       \/ writing /\ writing' = FALSE /\ disk' = disk
    /\ UNCHANGED <<raw, proc, status, index, abort, closing>>

\* Slip: a bookmark's offset is taken after its event has been decoded.
BuildEventAfter ==
    /\ proc = "build" /\ MoreEvents
    /\ b.shift \/ raw[b.next] = NoTime
    /\ LET t == raw[b.next]
           k == t \div Period + 1 IN
       IF t = NoTime \/ k <= Len(b.marks)
       THEN b' = [b EXCEPT !.next = @ + 1] /\ UNCHANGED <<disk, proc, status, index>>
       ELSE AddBookmarks(k - Len(b.marks),
                [b EXCEPT !.next = @ + 1, !.ts = t, !.off = b.next + 1])
    /\ UNCHANGED <<raw, abort, closing, writing>>

\* Slip: an event without a new bookmark is decoded again and again.
BuildEventStuck ==
    /\ proc = "build" /\ MoreEvents
    /\ b.shift \/ raw[b.next] = NoTime
    /\ LET t == raw[b.next]
           k == t \div Period + 1 IN
       IF t = NoTime \/ k <= Len(b.marks)
       THEN UNCHANGED <<b, disk, proc, status, index>>
       ELSE AddBookmarks(k - Len(b.marks),
                [b EXCEPT !.next = @ + 1, !.ts = t, !.off = b.next])
    /\ UNCHANGED <<raw, abort, closing, writing>>

\* One event is decoded.  When it opens a new period, the bookmarks up to that
\* period are those of the previous one; Len(b.marks) is last_bookmark_index.
BuildEvent ==
    /\ proc = "build" /\ MoreEvents
    /\ b.shift \/ raw[b.next] = NoTime
    /\ LET t == raw[b.next]
           k == t \div Period + 1 IN
       IF t = NoTime \/ k <= Len(b.marks)
       THEN b' = [b EXCEPT !.next = @ + 1] /\ UNCHANGED <<disk, proc, status, index>>
       ELSE AddBookmarks(k - Len(b.marks),
                [b EXCEPT !.next = @ + 1, !.ts = t, !.off = b.next])
    /\ UNCHANGED <<raw, abort, closing, writing>>

\* Slip: the bookmark of the last period is left out.
BuildLastForgotten ==
    /\ proc = "build" /\ ~MoreEvents /\ proc' = "magic"
    /\ UNCHANGED <<raw, disk, status, index, abort, closing, writing, b>>

\* At the end of the recording, or on an abort, the last bookmark is added.
BuildLast ==
    /\ proc = "build" /\ ~MoreEvents
    /\ \/ /\ proc' = "magic"
          /\ b' = [b EXCEPT !.marks = @ \o Repeat(1)]
          /\ disk' = IF writing THEN [disk EXCEPT !.marks = @ \o Repeat(1)] ELSE disk
          /\ UNCHANGED <<status, index>>
       \/ writing /\ Finish("Bad", <<>>) /\ UNCHANGED <<b, disk>>
    /\ UNCHANGED <<raw, abort, closing, writing>>

\* The magic number is written in both cases.
BuildMagic ==
    /\ proc = "magic"
    /\ \/ /\ proc' = "return"
          /\ disk' = IF writing THEN [disk EXCEPT !.magic = TRUE] ELSE disk
          /\ UNCHANGED <<status, index>>
       \/ writing /\ Finish("Bad", <<>>) /\ UNCHANGED disk
    /\ UNCHANGED <<raw, abort, closing, writing, b>>

\* return !abort
BuildReturn ==
    /\ proc = "return"
    /\ \/ abort /\ proc' = "remove" /\ UNCHANGED <<status, index>>
       \/ ~abort /\ Finish("Good", b.marks)
    /\ UNCHANGED <<raw, disk, abort, closing, writing, b>>

\* The incomplete file is removed; a remove that throws ends the thread.
Remove ==
    /\ proc = "remove"
    /\ \/ disk' = NoFile /\ Finish("Bad", <<>>)
       \/ CrashAnyTime /\ proc' = "ready" /\ UNCHANGED <<disk, status, index>>
    /\ UNCHANGED <<raw, abort, closing, writing, b>>

\* The decoder or the streaming throws, which ends the thread: the exception is
\* caught where the thread was created, and status_ is left as it is.
BuildThrows ==
    /\ proc = "build" /\ proc' = "ready"
    /\ UNCHANGED <<raw, disk, status, index, abort, closing, writing, b>>

ThreadStep ==
    \/ ThreadBegin \/ Check \/ Load
    \/ Create \/ BuildHeader \/ BuildEvent \/ BuildLast \/ BuildMagic
    \/ BuildReturn \/ Remove

Next == Grow \/ Open \/ Close \/ Closed \/ Crash \/ ThreadStep \/ BuildThrows

\* The index thread is scheduled, and need not throw; the destructor returns once
\* it has ended.
Safety == Init /\ [][Next]_vars
Spec == Safety /\ WF_vars(ThreadStep) /\ WF_vars(Closed)

-----------------------------------------------------------------------------
(* seek() and get_seek_range(), which answer once the status is Good.      *)

\* The memory behind the vector of bookmarks.
Beyond == [ts |-> NoTime, off |-> 0]

\* The first bookmark from that of period k on that has a time, or none when
\* there is no period k.  The code steps over the others without looking at the
\* end of the vector.
BookmarkFrom(k) ==
    IF k >= Len(index) THEN {}
    ELSE LET valid == {i \in k + 1..Len(index) : index[i].ts # NoTime} IN
         {IF valid = {} THEN Beyond ELSE index[Min(valid)]}

\* Slip: the lookup takes the bookmark of the next period.
LookupNext(target) == BookmarkFrom(target \div Period + 1)

\* The bookmark that seek(target) moves to.
Lookup(target) == BookmarkFrom(target \div Period)

FirstTime == LET valid == {i \in DOMAIN index : index[i].ts # NoTime} IN
             IF valid = {} THEN NoTime ELSE index[Min(valid)].ts
LastTime == index[Len(index)].ts

-----------------------------------------------------------------------------
\* The values of the variables; every bookmark lies in the recording.
TypeOK ==
    /\ raw \in Recordings
    /\ disk.marks \in Seq(Mark) /\ index \in Seq(Mark) /\ b.marks \in Seq(Mark)
    /\ disk.magic => disk.exists
    /\ proc \in {"closed", "begin", "check", "load", "create", "build", "magic",
                 "return", "remove", "ready"}
    /\ status \in {"NotBuilt", "Building", "Good", "Bad"}
    /\ abort \in BOOLEAN /\ closing \in BOOLEAN /\ writing \in BOOLEAN
    /\ \A i \in DOMAIN index : index[i].off <= Len(raw) \/ raw = <<>>

\* What the bookmarks of a recording should be: the one for the timestamps of
\* period k is the first event of the last period before k that has events.
Timed(r) == {i \in DOMAIN r : r[i] # NoTime}
PeriodOf(r, i) == r[i] \div Period
BookmarkFor(r, k) ==
    LET before == {PeriodOf(r, i) : i \in {j \in Timed(r) : PeriodOf(r, j) < k}} IN
    IF before = {} THEN [ts |-> NoTime, off |-> 1]
    ELSE LET first == Min({i \in Timed(r) : PeriodOf(r, i) = Max(before)}) IN
         [ts |-> r[first], off |-> first]
IndexOf(r) ==
    LET last == Max({PeriodOf(r, i) : i \in Timed(r)} \cup {-1}) IN
    [k \in 1..last + 2 |-> BookmarkFor(r, k - 1)]

InUse == status = "Good" /\ ~closing

\* An index in use is that of the recording as it is, whether it was built or
\* loaded, whatever crashed, failed, was aborted or grew before: the checks
\* of build_index recognise every file that is incomplete or of another file.
IndexIsRight == InUse => index = IndexOf(raw)

\* seek() in a recording that has a time: the lookup stays in the vector, the
\* bookmark is an event with its timestamp, at or before the target and every event
\* from the target on, and no period with events lies between the bookmark's
\* period and the target's.  It is not "the closest bookmark (lower timestamp)" of
\* i_events_stream.h:147: that of the target's own period is never taken.
SeekLandsBefore ==
    (InUse /\ Timed(raw) # {}) =>
        \A target \in Targets : \A m \in Lookup(target) :
            /\ m.off \in Timed(raw) /\ raw[m.off] = m.ts
            /\ m.ts <= target \/ m.ts = FirstTime
            /\ \A i \in Timed(raw) :
                  /\ raw[i] >= target => m.off <= i
                  /\ PeriodOf(raw, i) < target \div Period
                        => PeriodOf(raw, i) <= PeriodOf(raw, m.off)

\* get_seek_range() of a recording that has a time: it starts with the first event,
\* and ends with the first event of the last period, so up to a period before
\* "the timestamp of the last valid data in the file" of i_events_stream.h:156;
\* every timestamp of the range, and every event behind its end, can be sought.
RangeIsReachable ==
    (InUse /\ Timed(raw) # {}) =>
        /\ \E i \in Timed(raw) : FirstTime = raw[i] /\ \A j \in Timed(raw) : i <= j
        /\ \E i \in Timed(raw) :
              /\ LastTime = raw[i]
              /\ \A j \in Timed(raw) : /\ PeriodOf(raw, j) <= PeriodOf(raw, i)
                                       /\ PeriodOf(raw, j) = PeriodOf(raw, i) => i <= j
        /\ \A t \in (FirstTime..LastTime) \cup {raw[i] : i \in Timed(raw)} :
              Lookup(t) # {} /\ Beyond \notin Lookup(t)

\* The index thread has thrown, and nothing will set the status again.
Threw == proc = "ready" /\ status = "Building"

\* Indexing ends, and a destructor that waits for the thread returns, though its
\* abort may have been forgotten.  After an exception the status stays Building for
\* ever, where IndexStatus has Bad, "Index failed to be loaded or built"
\* (i_events_stream.h:131).
IndexingEnds ==
    /\ (status = "Building") ~> (status # "Building" \/ Threw)
    /\ closing ~> ~closing
=============================================================================

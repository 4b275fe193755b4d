---------------------------- MODULE SyncedSlicer ----------------------------
(***************************************************************************)
(* The slicers of sdk/modules/stream: SyncedCameraStreamsSlicer, and, for  *)
(* a setting without slaves, CameraStreamSlicer.  With them run the        *)
(* reslicing algorithm (EventBufferReslicerAlgorithm) and the queue of     *)
(* slices (ConcurrentQueue) of sdk/modules/core.                           *)
(*                                                                         *)
(* The application constructs the slicer, iterates and destroys it.  The   *)
(* run thread of the master camera cuts its events into slices and fetches *)
(* the slaves' events of each; the run thread of every slave buffers its   *)
(* events.  A section under the mutex of a slave is one action, and the    *)
(* two condition variables of a slave are flags that say who sleeps on     *)
(* them.  Master::mtx_ is held across waits, so its holder is a variable.  *)
(* The time callback does not take it.                                     *)
(*                                                                         *)
(* Camera::start() and stop() are as in module Camera, with the steps      *)
(* merged that nothing here can come between.  The external triggers are   *)
(* left out: they are moved along with the master's events.                *)
(***************************************************************************)
EXTENDS Integers, FiniteSets, SequencesExt

CONSTANTS Settings,  \* the settings a slicer may be used in
          MaxSlaves, \* a bound on their number of slaves
          None       \* no thread

\* cond: the slicing condition; room: max_queue_size, 0 for no bound;
\* master: the master's data, buffer after buffer, with the time the decoder
\* reports after each; timed: the device has a decoder that reports it;
\* slaves: the buffers of every slave; ends: the cameras whose stream ends,
\* where the others stay silent after their last buffer.
Slaves(s) == DOMAIN s.slaves
Cameras == 0..MaxSlaves
Master == 0

ASSUME SlicerAssumption ==
    /\ MaxSlaves \in Nat /\ None \notin {"app", "master"}
    /\ \A s \in Settings :
          /\ s.cond.type \in {"IDENTITY", "N_EVENTS", "N_US", "MIXED"}
          /\ s.cond.us \in Nat \ {0} /\ s.cond.n \in Nat \ {0}
          /\ s.room \in Nat /\ s.timed \in BOOLEAN
          /\ s.ends \subseteq Cameras
          /\ s.master \in Seq([ev : Seq(Nat), now : Nat])
          /\ s.slaves \in Seq(Seq(Seq(Nat))) /\ Len(s.slaves) <= MaxSlaves

VARIABLES
    setting,  \* the setting of this slicer, which does not change
    pc,       \* where the application and the master's run thread are
    at,       \* the slave that each of the two is at, in a loop over them
    ret,      \* where each of the two goes after on_new_slice or the loop
              \* that stops the slaves
    closing,  \* the slice that each of the two is closing
    feed,     \* where the run thread of each slave is
    next,     \* the next buffer of each camera
    running,  \* is_running_ of each camera
    joinable, \* the run thread of the camera has not been joined
    camLock,  \* the thread inside Camera::stop() of the camera
    state,    \* state_ of the master and of the slaves
    queue,    \* events_queue_ of each slave
    slaveAsleep,  \* its thread waits on slave_can_continue_cond_
    masterAsleep, \* the master's waits on its master_can_continue_cond_
    mtx,      \* the thread that holds Master::mtx_
    input,    \* the events of its buffer that the master has not processed
    slicer,   \* slicer_: has_processing_started_, curr_slice_ref_ts_,
              \* curr_slice_last_observed_ts_, n_events_in_current_slice_
    current,  \* the buffers of the current slice: the master's, the slaves'
    out,      \* the queue of slices
    enabled,  \* the queue is not closed
    ended,    \* the iterator has let go of the queue: it equals end()
    given     \* history: the slices the iterator has given

appVars == <<pc, at, ret, closing>>
camVars == <<next, running, joinable, camLock>>
slaveVars == <<feed, queue, slaveAsleep, masterAsleep>>
sliceVars == <<input, slicer, current>>
outVars == <<out, enabled, ended, given>>
vars == <<setting, appVars, camVars, slaveVars, state, mtx, sliceVars, outVars>>

NoSlice == [status |-> "NOT_MET", t |-> 0, n |-> 0, offline |-> FALSE]
NoEvents == [k \in Cameras |-> <<>>]

Init ==
    /\ setting \in Settings
    /\ pc = [app |-> "idle", master |-> "none"]
    /\ at = [app |-> 1, master |-> 1]
    /\ ret = [app |-> "none", master |-> "none"]
    /\ closing = [app |-> NoSlice, master |-> NoSlice]
    /\ feed = [k \in Cameras |-> "none"]
    /\ next = [k \in Cameras |-> 1]
    /\ running = [k \in Cameras |-> FALSE] /\ joinable = running
    /\ camLock = [k \in Cameras |-> None]
    /\ state = [k \in Cameras |-> "OFFLINE"]
    /\ queue = NoEvents
    /\ slaveAsleep = [k \in Cameras |-> FALSE] /\ masterAsleep = slaveAsleep
    /\ mtx = None
    /\ input = <<>> /\ current = NoEvents
    /\ slicer = [started |-> FALSE, ref |-> 0, last |-> 0, n |-> 0]
    /\ out = <<>> /\ enabled = TRUE /\ ended = FALSE /\ given = <<>>

NSlaves == Len(setting.slaves)
Cond == setting.cond
IsTrackingDuration == Cond.type \in {"N_US", "MIXED"}
IsTrackingCount == Cond.type \in {"N_EVENTS", "MIXED"}

Goto(th, to) == pc' = [pc EXCEPT ![th] = to]
\* The next slave of a loop, or what follows the loop.
NextSlave(th, after) ==
    IF at[th] < NSlaves THEN at' = [at EXCEPT ![th] = @ + 1] /\ UNCHANGED pc
    ELSE Goto(th, after) /\ UNCHANGED at

\* std::lower_bound: how many of the events, which are in order, precede t.
Preceding(events, t) == Cardinality({i \in DOMAIN events : events[i] < t})

-----------------------------------------------------------------------------
(* EventBufferReslicerAlgorithm.                                           *)

InitializeProcessing(t) ==
    [started |-> TRUE, last |-> t, n |-> 0,
     ref |-> IF IsTrackingDuration THEN Cond.us * (t \div Cond.us) ELSE t]

PeriodEnd == slicer.ref + Cond.us

\* find_next_slicing_condition_met: how many of the events belong to the
\* current slice, and whether they complete it.
ByCount(events) ==
    IF Len(events) + slicer.n < Cond.n
    THEN [status |-> "NOT_MET", len |-> Len(events)]
    ELSE [status |-> "MET_N_EVENTS", len |-> Cond.n - slicer.n]

ByDuration(events) ==
    IF Last(events) < PeriodEnd
    THEN [status |-> "NOT_MET", len |-> Len(events)]
    ELSE [status |-> "MET_N_US",
          len |-> Preceding(events, PeriodEnd)]

FindNextSlicingConditionMet(events) ==
    CASE Cond.type = "N_EVENTS" -> ByCount(events)
      [] Cond.type = "N_US" -> ByDuration(events)
      [] Cond.type = "MIXED" ->
            LET period == ByDuration(events)
                count == ByCount(SubSeq(events, 1, period.len)) IN
            IF count.status = "NOT_MET" THEN period ELSE count
      [] OTHER -> [status |-> "MET_AUTOMATIC", len |-> Len(events)]

\* close_and_restart_new_slice up to the call of on_new_slice, which tests
\* state_ at once; Put does the rest.
CloseSlice(th, sl, status, after) ==
    /\ closing' = [closing EXCEPT ![th] =
           [status |-> status, n |-> sl.n,
            t |-> IF status = "MET_N_US" THEN sl.ref + Cond.us ELSE sl.last,
            offline |-> state[Master] = "OFFLINE"]]
    /\ ret' = [ret EXCEPT ![th] = after]
    /\ at' = [at EXCEPT ![th] = 1]
    /\ Goto(th, IF NSlaves = 0 THEN "put" ELSE "slice")

-----------------------------------------------------------------------------
(* The run thread of the master: while (is_running_) process_impl().       *)

Buffer == setting.master[next[Master]]

MasterLoop ==
    /\ pc.master = "loop"
    /\ \/ /\ running[Master] /\ next[Master] <= Len(setting.master)
          /\ Goto("master", IF Buffer.ev = <<>> THEN "time" ELSE "lock")
       \/ /\ ~running[Master] \/ (next[Master] > Len(setting.master) /\ Master \in setting.ends)
          /\ Goto("master", "end")
    /\ UNCHANGED <<setting, at, ret, closing, camVars, slaveVars, state, mtx, sliceVars, outVars>>

\* The callback on the CD events takes mtx_ (CameraStreamSlicer has none) and
\* calls process_events.
MasterLock ==
    /\ pc.master = "lock"
    /\ NSlaves > 0 => mtx = None
    /\ mtx' = IF NSlaves > 0 THEN "master" ELSE None
    /\ input' = Buffer.ev
    /\ slicer' = IF slicer.started THEN slicer ELSE InitializeProcessing(Head(Buffer.ev))
    /\ Goto("master", "cd")
    /\ UNCHANGED <<setting, at, ret, closing, camVars, slaveVars, state, current, outVars>>

\* One round of process_events: the events up to the end of the slice, and
\* the slice if it is complete.
MasterProcess ==
    /\ pc.master = "cd" /\ input # <<>>
    /\ LET found == FindNextSlicingConditionMet(input)
           events == SubSeq(input, 1, found.len)
           sl == [slicer EXCEPT !.n = @ + found.len,
                                !.last = IF events = <<>> THEN @ ELSE Last(events)] IN
       /\ current' = [current EXCEPT ![Master] = @ \o events]
       /\ input' = SubSeq(input, found.len + 1, Len(input))
       /\ slicer' = sl
       /\ IF found.status = "NOT_MET" THEN UNCHANGED appVars
          ELSE CloseSlice("master", sl, found.status, "cd")
    /\ UNCHANGED <<setting, camVars, slaveVars, state, mtx, outVars>>

MasterUnlock ==
    /\ pc.master = "cd" /\ input = <<>>
    /\ mtx' = IF mtx = "master" THEN None ELSE mtx
    /\ Goto("master", "time")
    /\ UNCHANGED <<setting, at, ret, closing, camVars, slaveVars, state, sliceVars, outVars>>

\* The decoder's time callback, without mtx_: notify_elapsed_time closes the
\* periods that have passed.
MasterTime ==
    /\ pc.master = "time"
    /\ LET sl == IF slicer.started THEN slicer ELSE InitializeProcessing(0) IN
       IF setting.timed
       THEN /\ slicer' = sl
            /\ IF IsTrackingDuration /\ sl.ref + Cond.us < Buffer.now
               THEN CloseSlice("master", sl, "MET_N_US", "time") /\ UNCHANGED next
               ELSE /\ Goto("master", "loop") /\ UNCHANGED <<at, ret, closing>>
                    /\ next' = [next EXCEPT ![Master] = @ + 1]
       ELSE /\ Goto("master", "loop") /\ UNCHANGED <<slicer, at, ret, closing>>
            /\ next' = [next EXCEPT ![Master] = @ + 1]
    /\ UNCHANGED <<setting, running, joinable, camLock, slaveVars, state, mtx,
                   input, current, outVars>>

\* set_is_running(false)
MasterEnd ==
    /\ pc.master = "end"
    /\ running' = [running EXCEPT ![Master] = FALSE]
    /\ Goto("master", IF running[Master] THEN "stopped" ELSE "done")
    /\ UNCHANGED <<setting, at, ret, closing, next, joinable, camLock, slaveVars, state, mtx,
                   sliceVars, outVars>>

-----------------------------------------------------------------------------
(* on_new_slice, in the thread th.                                         *)

WakeMaster(k) == masterAsleep' = [masterAsleep EXCEPT ![k] = FALSE]

\* Slip: the master does not wait for a slave that has nothing yet.
GetSlicedEventsAtOnce(th) ==
    LET k == at[th]
        n == Preceding(queue[k], closing[th].t) IN
    /\ pc[th] = "slice" /\ ~closing[th].offline
    /\ queue' = [queue EXCEPT ![k] = SubSeq(@, n + 1, Len(@))]
    /\ current' = [current EXCEPT ![k] = @ \o SubSeq(queue[k], 1, n)]
    /\ slaveAsleep' = [slaveAsleep EXCEPT ![k] = @ /\ n = 0]
    /\ NextSlave(th, "put")
    /\ UNCHANGED <<setting, ret, closing, camVars, feed, masterAsleep, state, mtx, input,
                   slicer, outVars>>

\* Slave::get_sliced_events: under the slave's mutex, what precedes the end of
\* the slice; then on to the next slave if more cannot come, or to sleep.
GetSlicedEvents(th) ==
    LET k == at[th]
        n == Preceding(queue[k], closing[th].t)
        left == SubSeq(queue[k], n + 1, Len(queue[k])) IN
    /\ pc[th] = "slice" /\ ~closing[th].offline /\ ~masterAsleep[k]
    /\ queue' = [queue EXCEPT ![k] = left]
    /\ current' = [current EXCEPT ![k] = @ \o SubSeq(queue[k], 1, n)]
    /\ slaveAsleep' = [slaveAsleep EXCEPT ![k] = @ /\ n = 0]
    /\ IF left # <<>> \/ state[k] = "OFFLINE"
       THEN NextSlave(th, "put") /\ UNCHANGED masterAsleep
       ELSE masterAsleep' = [masterAsleep EXCEPT ![k] = TRUE] /\ UNCHANGED <<pc, at>>
    /\ UNCHANGED <<setting, ret, closing, camVars, feed, state, mtx, input, slicer, outVars>>

\* Slave::flush, which takes no mutex.
FlushSlave(th) ==
    LET k == at[th] IN
    /\ pc[th] = "slice" /\ closing[th].offline
    /\ queue' = [queue EXCEPT ![k] = <<>>]
    /\ current' = [current EXCEPT ![k] = @ \o queue[k]]
    /\ NextSlave(th, "put")
    /\ UNCHANGED <<setting, ret, closing, camVars, feed, slaveAsleep, masterAsleep, state, mtx,
                   input, slicer, outVars>>

\* queue_->emplace, which waits for room and gives up on a closed queue.
Emplace(slice) ==
    /\ enabled => (setting.room = 0 \/ Len(out) < setting.room)
    /\ out' = IF enabled THEN Append(out, slice) ELSE out

\* The rest of on_new_slice: the slice is queued, the buffers are fresh (except
\* that CameraStreamSlicer keeps them if its queue is closed); and the slicer
\* restarts.
Put(th) ==
    /\ pc[th] = "put"
    /\ Emplace([status |-> closing[th].status, t |-> closing[th].t, n |-> closing[th].n,
                master |-> current[Master],
                slaves |-> [k \in Slaves(setting) |-> current[k]]])
    /\ current' = IF NSlaves = 0 /\ ~enabled THEN current ELSE NoEvents
    /\ slicer' = [slicer EXCEPT !.ref = closing[th].t, !.last = closing[th].t, !.n = 0]
    /\ Goto(th, ret[th])
    /\ UNCHANGED <<setting, at, ret, closing, camVars, slaveVars, state, mtx, input,
                   enabled, ended, given>>

-----------------------------------------------------------------------------
(* Slave::stop, one slave after the other, in the thread th.               *)

StopSlaves(th, after) ==
    /\ at' = [at EXCEPT ![th] = 1] /\ ret' = [ret EXCEPT ![th] = after]
    /\ Goto(th, IF NSlaves = 0 THEN after ELSE "offline")

\* Slip: the slave's thread is not told.
SlaveOfflineSilent(th) ==
    /\ pc[th] = "offline"
    /\ state' = [state EXCEPT ![at[th]] = "OFFLINE"]
    /\ Goto(th, "stop")
    /\ UNCHANGED <<setting, at, ret, closing, camVars, slaveVars, mtx, sliceVars, outVars>>

\* Slave::stop's own section: the slave's thread is let go.
SlaveOffline(th) ==
    /\ pc[th] = "offline"
    /\ state' = [state EXCEPT ![at[th]] = "OFFLINE"]
    /\ slaveAsleep' = [slaveAsleep EXCEPT ![at[th]] = FALSE]
    /\ Goto(th, "stop")
    /\ UNCHANGED <<setting, at, ret, closing, camVars, feed, queue, masterAsleep, mtx,
                   sliceVars, outVars>>

NextOffline(th) ==
    IF at[th] < NSlaves THEN at' = [at EXCEPT ![th] = @ + 1] /\ Goto(th, "offline")
    ELSE Goto(th, ret[th]) /\ UNCHANGED at

\* Camera::stop() returns if there is no thread to join; otherwise its
\* set_is_running(false) calls the slave's callback for STOPPED, unless the
\* run thread has done so.
StopSlaveCamera(th) ==
    LET k == at[th] IN
    /\ pc[th] = "stop" /\ camLock[k] = None
    /\ IF joinable[k]
       THEN /\ camLock' = [camLock EXCEPT ![k] = th]
            /\ running' = [running EXCEPT ![k] = FALSE]
            /\ IF running[k] THEN WakeMaster(k) ELSE UNCHANGED masterAsleep
            /\ Goto(th, "join") /\ UNCHANGED at
       ELSE NextOffline(th) /\ UNCHANGED <<camLock, running, masterAsleep>>
    /\ UNCHANGED <<setting, ret, closing, next, joinable, feed, queue, slaveAsleep, state,
                   mtx, sliceVars, outVars>>

\* Slip: the run thread of the slave is not waited for.
JoinSlaveAtOnce(th) ==
    LET k == at[th] IN
    /\ pc[th] = "join"
    /\ joinable' = [joinable EXCEPT ![k] = FALSE]
    /\ camLock' = [camLock EXCEPT ![k] = None]
    /\ NextOffline(th)
    /\ UNCHANGED <<setting, ret, closing, next, running, slaveVars, state, mtx,
                   sliceVars, outVars>>

JoinSlave(th) ==
    LET k == at[th] IN
    /\ pc[th] = "join" /\ feed[k] = "done"
    /\ joinable' = [joinable EXCEPT ![k] = FALSE]
    /\ camLock' = [camLock EXCEPT ![k] = None]
    /\ NextOffline(th)
    /\ UNCHANGED <<setting, ret, closing, next, running, slaveVars, state, mtx,
                   sliceVars, outVars>>

\* The status callback of the master for STOPPED: under mtx_, the slaves are
\* stopped, the slicer is flushed and the queue is closed.
Stopped(th) ==
    /\ pc[th] = "stopped"
    /\ NSlaves > 0 => mtx = None
    /\ mtx' = IF NSlaves > 0 THEN th ELSE None
    /\ state' = [state EXCEPT ![Master] = "OFFLINE"]
    /\ StopSlaves(th, "flush")
    /\ UNCHANGED <<setting, closing, camVars, slaveVars, sliceVars, outVars>>

\* EventBufferReslicerAlgorithm::flush
Flush(th) ==
    /\ pc[th] = "flush"
    /\ IF slicer.started THEN CloseSlice(th, slicer, "MET_AUTOMATIC", "close")
       ELSE Goto(th, "close") /\ UNCHANGED <<at, ret, closing>>
    /\ UNCHANGED <<setting, camVars, slaveVars, state, mtx, sliceVars, outVars>>

Close(th) ==
    /\ pc[th] = "close"
    /\ enabled' = FALSE /\ mtx' = None
    /\ Goto(th, IF th = "master" THEN "done" ELSE "leave")
    /\ UNCHANGED <<setting, at, ret, closing, camVars, slaveVars, state, sliceVars, out, ended, given>>

-----------------------------------------------------------------------------
(* The application.                                                        *)

\* begin() starts the slaves, then the master, and then the iterator takes
\* the first slice.
Begin ==
    /\ pc.app = "idle"
    /\ Goto("app", IF NSlaves = 0 THEN "start" ELSE "start.slaves")
    /\ UNCHANGED <<setting, at, ret, closing, camVars, slaveVars, state, mtx, sliceVars, outVars>>

\* Camera::start() reports STARTED before its run thread does anything.
StartCamera(k) ==
    /\ running' = [running EXCEPT ![k] = TRUE]
    /\ joinable' = [joinable EXCEPT ![k] = TRUE]
    /\ state' = [state EXCEPT ![k] = "STARTED"]

StartSlave ==
    /\ pc.app = "start.slaves"
    /\ StartCamera(at.app)
    /\ feed' = [feed EXCEPT ![at.app] = "loop"]
    /\ NextSlave("app", "start")
    /\ UNCHANGED <<setting, ret, closing, next, camLock, queue, slaveAsleep, masterAsleep,
                   mtx, sliceVars, outVars>>

StartMaster ==
    /\ pc.app = "start"
    /\ StartCamera(Master)
    /\ pc' = [app |-> "iterate", master |-> "loop"]
    /\ UNCHANGED <<setting, at, ret, closing, next, camLock, slaveVars, mtx, sliceVars, outVars>>

\* operator++: pop_front waits for a slice or the end of a closed queue.
PopFront ==
    /\ pc.app = "iterate" /\ ~ended
    /\ \/ /\ out # <<>>
          /\ out' = Tail(out) /\ given' = Append(given, Head(out)) /\ UNCHANGED ended
       \/ /\ out = <<>> /\ ~enabled
          /\ ended' = TRUE /\ UNCHANGED <<out, given>>
    /\ UNCHANGED <<setting, appVars, camVars, slaveVars, state, mtx, sliceVars, enabled>>

\* The destructor, between two calls of the iterator or without any.
Destroy ==
    /\ pc.app \in {"idle", "iterate"}
    /\ StopSlaves("app", "destroy")
    /\ UNCHANGED <<setting, closing, camVars, slaveVars, state, mtx, sliceVars, outVars>>

DestroyClose ==
    /\ pc.app = "destroy"
    /\ enabled' = FALSE /\ Goto("app", "stop.master")
    /\ UNCHANGED <<setting, at, ret, closing, camVars, slaveVars, state, mtx, sliceVars, out, ended, given>>

\* camera_.stop() of the master.
StopMaster ==
    /\ pc.app = "stop.master"
    /\ running' = [running EXCEPT ![Master] = FALSE]
    /\ Goto("app", IF ~joinable[Master] THEN "gone"
                   ELSE IF running[Master] THEN "stopped" ELSE "leave")
    /\ UNCHANGED <<setting, at, ret, closing, next, joinable, camLock, slaveVars, state, mtx,
                   sliceVars, outVars>>

JoinMaster ==
    /\ pc.app = "leave" /\ pc.master = "done"
    /\ joinable' = [joinable EXCEPT ![Master] = FALSE] /\ Goto("app", "gone")
    /\ UNCHANGED <<setting, at, ret, closing, next, running, camLock, slaveVars, state, mtx,
                   sliceVars, outVars>>

-----------------------------------------------------------------------------
(* The run thread of the slave k.                                          *)

SlaveLoop(k) ==
    /\ feed[k] = "loop"
    /\ \/ /\ running[k] /\ next[k] <= Len(setting.slaves[k])
          /\ feed' = [feed EXCEPT ![k] = "events"]
       \/ /\ ~running[k] \/ (next[k] > Len(setting.slaves[k]) /\ k \in setting.ends)
          /\ feed' = [feed EXCEPT ![k] = "end"]
    /\ UNCHANGED <<setting, appVars, camVars, queue, slaveAsleep, masterAsleep, state, mtx,
                   sliceVars, outVars>>

\* Slip: one event more than the bound.
SlaveIsTooFastLate(k) ==
    /\ state[k] = "STARTED" /\ queue[k] # <<>>
    /\ \/ IsTrackingCount /\ Len(queue[k]) > 2 * Cond.n
       \/ IsTrackingDuration /\ Last(queue[k]) - Head(queue[k]) > 2 * Cond.us
       \/ Cond.type = "IDENTITY" /\ Last(queue[k]) - Head(queue[k]) > 10000

\* slave_is_too_fast
SlaveIsTooFast(k) ==
    /\ state[k] = "STARTED" /\ queue[k] # <<>>
    /\ \/ IsTrackingCount /\ Len(queue[k]) >= 2 * Cond.n
       \/ IsTrackingDuration /\ Last(queue[k]) - Head(queue[k]) >= 2 * Cond.us
       \/ Cond.type = "IDENTITY" /\ Last(queue[k]) - Head(queue[k]) >= 10000

\* The callback on the CD events waits while the slave is too fast, then keeps
\* the whole buffer; events that come before the wait and after the end of
\* streaming are dropped.
SlaveEvents(k) ==
    /\ feed[k] \in {"events", "full"} /\ ~slaveAsleep[k]
    /\ \/ /\ feed[k] = "events" /\ state[k] = "OFFLINE"
          /\ feed' = [feed EXCEPT ![k] = "loop"]
          /\ next' = [next EXCEPT ![k] = @ + 1]
          /\ UNCHANGED <<queue, slaveAsleep, masterAsleep>>
       \/ /\ SlaveIsTooFast(k)
          /\ feed' = [feed EXCEPT ![k] = "full"]
          /\ slaveAsleep' = [slaveAsleep EXCEPT ![k] = TRUE]
          /\ IF feed[k] = "events" THEN WakeMaster(k) ELSE UNCHANGED masterAsleep
          /\ UNCHANGED <<queue, next>>
       \/ /\ ~SlaveIsTooFast(k) /\ (feed[k] = "full" \/ state[k] = "STARTED")
          /\ queue' = [queue EXCEPT ![k] = @ \o setting.slaves[k][next[k]]]
          /\ WakeMaster(k)
          /\ feed' = [feed EXCEPT ![k] = "loop"]
          /\ next' = [next EXCEPT ![k] = @ + 1]
          /\ UNCHANGED slaveAsleep
    /\ UNCHANGED <<setting, appVars, running, joinable, camLock, state, mtx, sliceVars, outVars>>

\* Slip: the master is not told that the slave has ended.
SlaveEndSilent(k) ==
    /\ feed[k] = "end"
    /\ running' = [running EXCEPT ![k] = FALSE]
    /\ feed' = [feed EXCEPT ![k] = "done"]
    /\ state' = [state EXCEPT ![k] = "OFFLINE"]
    /\ UNCHANGED <<setting, appVars, next, joinable, camLock, queue, slaveAsleep, masterAsleep,
                   mtx, sliceVars, outVars>>

\* set_is_running(false), with the slave's callback for STOPPED.
SlaveEnd(k) ==
    /\ feed[k] = "end"
    /\ running' = [running EXCEPT ![k] = FALSE]
    /\ feed' = [feed EXCEPT ![k] = "done"]
    /\ IF running[k] THEN state' = [state EXCEPT ![k] = "OFFLINE"] /\ WakeMaster(k)
       ELSE UNCHANGED <<state, masterAsleep>>
    /\ UNCHANGED <<setting, appVars, next, joinable, camLock, queue, slaveAsleep, mtx,
                   sliceVars, outVars>>

-----------------------------------------------------------------------------
Slice(th) ==
    GetSlicedEvents(th) \/ FlushSlave(th) \/ Put(th)
StopStep(th) ==
    \/ SlaveOffline(th) \/ StopSlaveCamera(th) \/ JoinSlave(th)
    \/ Stopped(th) \/ Flush(th) \/ Close(th)

MasterStep ==
    \/ MasterLoop \/ MasterLock \/ MasterProcess \/ MasterUnlock \/ MasterTime \/ MasterEnd
    \/ Slice("master") \/ StopStep("master")
AppStep ==
    \/ StartSlave \/ StartMaster \/ PopFront \/ DestroyClose \/ StopMaster \/ JoinMaster
    \/ Slice("app") \/ StopStep("app")
SlaveStep(k) == SlaveLoop(k) \/ SlaveEvents(k) \/ SlaveEnd(k)

Next ==
    \/ MasterStep \/ AppStep \/ Begin \/ Destroy
    \/ \E k \in Slaves(setting) : SlaveStep(k)

\* Threads are scheduled, and the cameras deliver what their tape holds.  An
\* application that has begun to iterate goes on (it asks for slices until it
\* destroys the slicer), but it need not begin, nor ever destroy it.
Fairness ==
    /\ WF_vars(MasterStep) /\ WF_vars(AppStep)
    /\ \A k \in Cameras \ {Master} : WF_vars(k \in Slaves(setting) /\ SlaveStep(k))

Spec == Init /\ [][Next]_vars /\ Fairness

-----------------------------------------------------------------------------
AppPc == {"idle", "start.slaves", "start", "iterate", "destroy", "stop.master", "leave", "gone"}
MasterPc == {"none", "loop", "lock", "cd", "time", "end", "done"}
SharedPc == {"slice", "put", "offline", "stop", "join", "stopped", "flush", "close"}

\* The values of the variables, and the bounds that make a thread wait: of the
\* queue of slices, and of a slave's buffer, which one callback may overrun.
TypeOK ==
    /\ setting \in Settings
    /\ pc.app \in AppPc \cup SharedPc /\ pc.master \in MasterPc \cup SharedPc
    /\ at \in [{"app", "master"} -> 1..MaxSlaves + 1]
    /\ feed \in [Cameras -> {"none", "loop", "events", "full", "end", "done"}]
    /\ \A k \in Cameras : next[k] \in Nat /\ camLock[k] \in {None, "app", "master"}
    /\ {running, joinable, slaveAsleep, masterAsleep} \subseteq [Cameras -> BOOLEAN]
    /\ state \in [Cameras -> {"OFFLINE", "STARTED"}]
    /\ {queue, current} \subseteq [Cameras -> Seq(Nat)] /\ input \in Seq(Nat)
    /\ mtx \in {None, "app", "master"} /\ enabled \in BOOLEAN /\ ended \in BOOLEAN
    /\ setting.room > 0 => Len(out) <= setting.room
    /\ \A k \in Slaves(setting) :
          state[k] = "STARTED" /\ IsTrackingCount /\ next[k] > 1 =>
              Len(queue[k]) < 2 * Cond.n + Len(setting.slaves[k][next[k] - 1])

\* The iterator implements the stream of slices: whatever the interleaving,
\* it gives the master's events once and in order, cut as the condition says,
\* every slave's events up to each cut, and all of it before its end.
Given == INSTANCE SliceStream WITH
    source <- [cond |-> setting.cond,
               master |-> FlattenSeq([i \in DOMAIN setting.master |-> setting.master[i].ev]),
               slaves |-> [k \in Slaves(setting) |-> FlattenSeq(setting.slaves[k])]],
    given <- given,
    over <- ended
SlicesAreCut == Given!Spec

\* Slave::flush takes the rest of a slave's buffer without its mutex: it finds
\* the slave stopped, so that it does not throw, and its thread gone.
FlushAfterStop ==
    \A th \in {"app", "master"} :
        (pc[th] = "slice" /\ closing[th].offline) =>
            state[at[th]] = "OFFLINE" /\ feed[at[th]] \in {"none", "done"}

\* An iteration over cameras that all stop comes to its end: the master's
\* thread and the slaves' always wake each other, whichever stops first.
IterationEnds ==
    ({Master} \cup Slaves(setting) \subseteq setting.ends /\ pc.app = "iterate")
        ~> (ended \/ pc.app # "iterate")

\* The destructor returns, though cameras are live and silent, the master's
\* thread waits for a slave or for room, and slaves wait for the master.
DestructorReturns == (pc.app \in {"offline", "destroy"}) ~> (pc.app = "gone")
=============================================================================

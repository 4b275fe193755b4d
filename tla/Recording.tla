----------------------------- MODULE Recording -----------------------------
(***************************************************************************)
(* Recording the data of a camera: start_recording() and stop_recording()  *)
(* of sdk/modules/stream/cpp/src/camera.cpp, the registry of callbacks     *)
(* they use (sdk/modules/core/.../callback_manager.h), the writer behind   *)
(* each recording (event_file_writer.cpp, raw_event_file_logger.cpp) and   *)
(* its thread (sdk/modules/core/cpp/src/utils/threaded_process.cpp),       *)
(* composed with the run thread of module Camera.                          *)
(*                                                                         *)
(* A writer belongs to the callbacks that hold it: it is destroyed, and    *)
(* its file closed, by the thread that drops the last of them.  That is    *)
(* the user's if the run thread has not copied the callback yet, and       *)
(* otherwise the run thread, the next time it looks for callbacks, or the  *)
(* camera's destructor.                                                    *)
(*                                                                         *)
(* Data is the number of the buffer it comes in.  All recordings have the  *)
(* same path, so that a new one replaces the last; what a writer writes is *)
(* kept apart from what another writes to the same path.                   *)
(***************************************************************************)
EXTENDS Camera, Naturals, Sequences

CONSTANTS Recorded,   \* the settings in which the user records
          Writers,    \* slots for writers
          MaxBuffers, \* bound: buffers that the source delivers
          MaxQueued   \* buffers a writer keeps before its thread is asked to
                      \* write them (kMaxRawDataBufferSize)

\* A run thread that a failing stop_impl has detached may outlive the camera
\* and its recordings, and then uses what is destroyed; process_impl is here
\* that of a camera which does not play a file.
ASSUME RecordingAssumption ==
    /\ Recorded \subseteq Settings
    /\ \A s \in Recorded : ~s.stopFails /\ ~s.plays /\ \E u \in Users : s.callers = {u}
    /\ MaxBuffers \in Nat /\ MaxQueued \in Nat

VARIABLES
    cbs,     \* cbs_map_: the writers whose callback is registered
    vec,     \* cbs_vec_: those whose callback the run thread has copied
    dirty,   \* cbs_vec_dirty_
    known,   \* recording_cb_ids_, from which nothing is ever erased
    recUser, \* where the user is in start_recording() or stop_recording()
    calling, \* the run thread is in process_impl with a buffer
    calls,   \* the callbacks it has still to call with it
    fed,     \* the buffers delivered so far
    drops,   \* the writers that the user and the run thread are destroying
    phase,   \* of each writer: open, or how far its close() has got
    buf,     \* its buffer
    tasks,   \* the tasks of its thread, tasks_
    batch,   \* the tasks its thread has taken
    worker,  \* its thread: waiting or running tasks, or over
    file,    \* what it has written
    owed     \* history: what was delivered while it was recording

cbVars == <<cbs, vec, dirty, known>>
callVars == <<recUser, calling, calls, fed>>
writerVars == <<phase, buf, tasks, batch, worker, file>>
recVars == <<cbVars, callVars, drops, writerVars, owed>>
allVars == <<vars, recVars>>

RecInit ==
    /\ Init
    /\ cbs = {} /\ vec = {} /\ dirty = FALSE /\ known = {}
    /\ recUser = "idle" /\ calling = FALSE /\ calls = {} /\ fed = 0
    /\ drops = [user |-> {}, run |-> {}]
    /\ phase = [w \in Writers |-> "none"] /\ worker = phase
    /\ buf = [w \in Writers |-> <<>>]
    /\ tasks = buf /\ batch = buf /\ file = buf /\ owed = buf

Records == setting \in Recorded

\* cbs_mutex_ is held while a callback is removed or the copies are renewed,
\* and with it while the writers that this drops are destroyed.
CbsFree == drops.user = {} /\ drops.run = {}

\* The user is not inside another call.
UserFree == Records /\ NobodyInside /\ recUser = "idle" /\ CbsFree

-----------------------------------------------------------------------------
(* The user.                                                               *)

\* remove_callback of every callback the camera has ever recorded with: the
\* writers nobody else holds are destroyed at once.
RemoveCallbacks ==
    /\ cbs' = cbs \ known
    /\ dirty' = (dirty \/ cbs \cap known # {})
    /\ drops' = [drops EXCEPT !.user = (cbs \cap known) \ vec]

StopRecording ==
    /\ UserFree \/ (recUser = "stop" /\ CbsFree)
    /\ RemoveCallbacks
    /\ recUser' = "idle"
    /\ UNCHANGED <<vars, vec, known, calling, calls, fed, writerVars, owed>>

\* start_recording() stops the previous recording on the path; then
\* start_recording_impl opens a new writer and registers its callback.
StartRecording ==
    /\ UserFree /\ \E w \in Writers : phase[w] = "none"
    /\ RemoveCallbacks
    /\ recUser' = "start"
    /\ UNCHANGED <<vars, vec, known, calling, calls, fed, writerVars, owed>>

\* Slip: the thread of the new writer is not started.
OpenWriterNoThread(w) ==
    /\ phase' = [phase EXCEPT ![w] = "open"]
    /\ worker' = [worker EXCEPT ![w] = "over"]

\* The constructor of the writer starts its thread and opens the file.
OpenWriter(w) ==
    /\ phase' = [phase EXCEPT ![w] = "open"]
    /\ worker' = [worker EXCEPT ![w] = "active"]

\* add_callback
Register(w) == cbs' = cbs \cup {w} /\ dirty' = TRUE

AddCallback ==
    /\ recUser = "start" /\ CbsFree
    /\ LET w == CHOOSE x \in Writers : phase[x] = "none" IN
       OpenWriter(w) /\ Register(w) /\ known' = known \cup {w}
    /\ recUser' = "idle"
    /\ UNCHANGED <<vars, vec, calling, calls, fed, drops, buf, tasks, batch, file, owed>>

\* The destructor of a stopped camera drops the callbacks and their copies.
DestroyCamera ==
    /\ UserFree /\ runThread = None
    /\ drops' = [drops EXCEPT !.user = cbs \cup vec]
    /\ cbs' = {} /\ vec' = {}
    /\ recUser' = "gone"
    /\ UNCHANGED <<vars, dirty, known, calling, calls, fed, writerVars, owed>>

-----------------------------------------------------------------------------
(* The run thread, in process_impl.                                        *)

\* get_cbs() for the next buffer: if the callbacks have changed, the copies
\* are renewed and the writers that only the old ones held are destroyed.
GetCbs(t) ==
    LET callbacks == IF dirty THEN cbs ELSE vec IN
    /\ Records /\ run[t] = "process" /\ source = "on"
    /\ ~calling /\ fed < MaxBuffers
    /\ dirty => CbsFree
    /\ vec' = callbacks /\ dirty' = FALSE
    /\ drops' = [drops EXCEPT !.run = vec \ callbacks]
    /\ calls' = callbacks /\ calling' = TRUE /\ fed' = fed + 1
    /\ owed' = [w \in Writers |-> IF w \in cbs THEN Append(owed[w], fed + 1) ELSE owed[w]]
    /\ UNCHANGED <<vars, cbs, known, recUser, writerVars>>

\* add_raw_data: the buffer is kept, or handed with the others to the thread.
AddRawData ==
    /\ drops.run = {}
    /\ \E w \in calls :
          LET all == Append(buf[w], fed) IN
          /\ calls' = calls \ {w}
          /\ IF Len(all) > MaxQueued
             THEN /\ tasks' = [tasks EXCEPT ![w] = Append(@, all)]
                  /\ buf' = [buf EXCEPT ![w] = <<>>]
             ELSE buf' = [buf EXCEPT ![w] = all] /\ UNCHANGED tasks
    /\ UNCHANGED <<vars, cbVars, recUser, calling, fed, drops, phase, batch, worker, file, owed>>

\* process_impl returns.
Processed(t) ==
    /\ calling /\ calls = {} /\ drops.run = {}
    /\ RunGoto(t, "process", "loop")
    /\ calling' = FALSE
    /\ RunUnchanged /\ UNCHANGED <<flags, user, source, reported>>
    /\ UNCHANGED <<cbVars, recUser, calls, fed, drops, writerVars, owed>>

-----------------------------------------------------------------------------
(* ~EventFileWriter, in the thread that destroys the writer: flush(), then *)
(* the thread of the writer is stopped and the file is closed.             *)

CloseFlush(w) ==
    /\ w \in drops.user \cup drops.run /\ phase[w] = "open"
    /\ IF buf[w] # <<>>
       THEN /\ tasks' = [tasks EXCEPT ![w] = Append(@, buf[w])]
            /\ phase' = [phase EXCEPT ![w] = "flush"]
       ELSE /\ phase' = [phase EXCEPT ![w] = "stop"] /\ UNCHANGED tasks
    /\ UNCHANGED <<vars, cbVars, callVars, drops, buf, batch, worker, file, owed>>

\* while (!done): the task, the last of all, has been run.
CloseFlushed(w) ==
    /\ phase[w] = "flush" /\ tasks[w] = <<>> /\ batch[w] = <<>>
    /\ phase' = [phase EXCEPT ![w] = "stop"]
    /\ buf' = [buf EXCEPT ![w] = <<>>]
    /\ UNCHANGED <<vars, cbVars, callVars, drops, tasks, batch, worker, file, owed>>

CloseJoin(w) ==
    /\ phase[w] = "stop" /\ worker[w] = "over"
    /\ phase' = [phase EXCEPT ![w] = "closed"]
    /\ drops' = [th \in DOMAIN drops |-> drops[th] \ {w}]
    /\ UNCHANGED <<vars, cbVars, callVars, buf, tasks, batch, worker, file, owed>>

-----------------------------------------------------------------------------
(* ThreadedProcess::processing_thread.                                     *)

TakeTasks(w) ==
    /\ worker[w] = "active" /\ batch[w] = <<>> /\ tasks[w] # <<>>
    /\ batch' = [batch EXCEPT ![w] = tasks[w]] /\ tasks' = [tasks EXCEPT ![w] = <<>>]
    /\ UNCHANGED <<vars, cbVars, callVars, drops, phase, buf, worker, file, owed>>

RunTask(w) ==
    /\ batch[w] # <<>>
    /\ file' = [file EXCEPT ![w] = @ \o Head(batch[w])]
    /\ batch' = [batch EXCEPT ![w] = Tail(@)]
    /\ UNCHANGED <<vars, cbVars, callVars, drops, phase, buf, tasks, worker, owed>>

\* Slip: the thread leaves as soon as it is told to stop.
EndTasksAtOnce(w) ==
    /\ worker[w] = "active" /\ phase[w] = "stop" /\ batch[w] = <<>>
    /\ worker' = [worker EXCEPT ![w] = "over"]
    /\ UNCHANGED <<vars, cbVars, callVars, drops, phase, buf, tasks, batch, file, owed>>

\* Told to stop, it leaves when no task is left.
EndTasks(w) ==
    /\ worker[w] = "active" /\ phase[w] = "stop" /\ batch[w] = <<>> /\ tasks[w] = <<>>
    /\ worker' = [worker EXCEPT ![w] = "over"]
    /\ UNCHANGED <<vars, cbVars, callVars, drops, phase, buf, tasks, batch, file, owed>>

-----------------------------------------------------------------------------
\* A step of the camera.  A run thread that is in its callbacks does nothing
\* else, nor does a user in a call on the recording; and stop() ends with
\* stop_recording().
CameraStep(step) ==
    /\ step
    /\ calling => \A t \in RunThreads : run[t] = "process" => run'[t] = "process"
    /\ recUser # "idle" \/ drops.user # {} => user' = user
    /\ recUser' = IF Records /\ \E u \in Users : user[u] \in {"stop.impl", "stop.join"}
                                                 /\ user'[u] = "idle"
                  THEN "stop" ELSE recUser
    /\ UNCHANGED <<cbVars, calling, calls, fed, drops, writerVars, owed>>

\* Nothing follows the destruction of the camera.
Destroyed ==
    /\ recUser = "gone" /\ \A w \in Writers : phase[w] \in {"none", "closed"}
    /\ UNCHANGED allVars

WriterStep(w) ==
    \/ CloseFlush(w) \/ CloseFlushed(w) \/ CloseJoin(w)
    \/ TakeTasks(w) \/ RunTask(w) \/ EndTasks(w)

RecNext ==
    \/ CameraStep(Next)
    \/ StartRecording \/ AddCallback \/ StopRecording \/ DestroyCamera
    \/ AddRawData \/ \E t \in RunThreads : GetCbs(t) \/ Processed(t)
    \/ \E w \in Writers : WriterStep(w)
    \/ Destroyed

\* Camera's fairness, that of the calls the user is in and of the callbacks,
\* and that of the threads of the writers and of who waits for them.
RecFairness ==
    /\ \A u \in Users : WF_allVars(CameraStep(UserStep(u)))
    /\ \A t \in RunThreads : WF_allVars(CameraStep(RunStep(t))) /\ WF_allVars(Processed(t))
    /\ WF_allVars(AddCallback) /\ WF_allVars(recUser = "stop" /\ StopRecording)
    /\ WF_allVars(AddRawData)
    /\ \A w \in Writers : WF_allVars(WriterStep(w))

RecSpec == RecInit /\ [][RecNext]_allVars /\ RecFairness

-----------------------------------------------------------------------------
\* A closed recording holds every buffer that was delivered from the return
\* of start_recording() to the call of stop_recording(), in their order and
\* once: the comment on the stop_recording() of Camera::stop().
RecordingIsComplete == \A w \in Writers : phase[w] = "closed" => file[w] = owed[w]

\* The destructor of the camera returns with every recording closed: whoever
\* closes a writer is not left waiting for a thread that is gone.
RecordingsClose ==
    (recUser = "gone") ~> (drops.user = {} /\ \A w \in Writers : phase[w] \in {"none", "closed"})
=============================================================================

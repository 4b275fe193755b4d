------------------------------- MODULE Camera -------------------------------
(***************************************************************************)
(* Camera::start() and Camera::stop() of sdk/modules/stream/cpp/src/       *)
(* camera.cpp: users that call them from their own threads, the run thread *)
(* that start() creates, the mutex and the condition variable they share,  *)
(* and the source behind start_impl, process_impl and stop_impl.           *)
(*                                                                         *)
(* run_thread_mutex_ is held across several steps of a caller, so its      *)
(* owner is a variable; the condition variable is a set of waiters from    *)
(* which notify_one takes any.  set_is_running() tests is_running_, sets   *)
(* it and then calls the status callbacks in three steps, which no mutex   *)
(* makes one.                                                              *)
(***************************************************************************)
CONSTANTS Users,      \* threads that call start() and stop()
          RunThreads, \* slots for run threads alive at the same time
          None,       \* no thread
          Settings    \* the settings a camera may be used in

\* callers: the users that call it; runFails: start_impl and process_impl may
\* throw a HalConnectionException; stopFails: stop_impl may; plays: the camera
\* plays a RAW file, and its process_impl is the reader's, in module RawReader.
Setting == [callers : SUBSET Users, runFails : BOOLEAN, stopFails : BOOLEAN,
            plays : BOOLEAN]

ASSUME CameraAssumption ==
    /\ None \notin Users \cup RunThreads
    /\ Settings \subseteq Setting

VARIABLES
    setting,   \* the setting of this camera, which does not change
    status,    \* run_thread_status_
    isRunning, \* is_running_
    isStarted, \* camera_is_started_
    runThread, \* the thread that run_thread_ owns
    lock,      \* the user that holds run_thread_mutex_
    user,      \* where each user is in start() or stop()
    run,       \* where each run thread is
    source,    \* the events stream or reader of the camera
    reported   \* the status last given to the status callbacks

vars == <<setting, status, isRunning, isStarted, runThread, lock, user, run,
          source, reported>>
flags == <<setting, status, isRunning, isStarted, runThread>>

UserPc == {"idle", "start.test", "start.set", "start.report", "start.status",
           "start.notify", "start.spin", "stop.asleep", "stop.woken",
           "stop.test", "stop.set", "stop.report", "stop.impl", "stop.join"}
RunPc == {"none", "begin", "notify", "start", "started", "loop", "process",
          "end.test", "end.set", "end.report", "done"}

Init ==
    /\ status = "STOPPED" /\ isRunning = FALSE /\ isStarted = FALSE
    /\ runThread = None /\ lock = None
    /\ user = [u \in Users |-> "idle"]
    /\ run = [t \in RunThreads |-> "none"]
    /\ source = "off" /\ reported = "STOPPED"
    /\ setting \in Settings

UserGoto(u, from, to) == user[u] = from /\ user' = [user EXCEPT ![u] = to]
RunGoto(t, from, to) == run[t] = from /\ run' = [run EXCEPT ![t] = to]

\* run_thread_cond_.notify_one(): one of the callers asleep in stop(), if any.
NotifyOne(pcs) ==
    LET asleep == {u \in Users : pcs[u] = "stop.asleep"} IN
    IF asleep = {} THEN user' = pcs
    ELSE \E u \in asleep : user' = [pcs EXCEPT ![u] = "stop.woken"]

-----------------------------------------------------------------------------
(* start().  With a joinable run_thread_ it returns false.                 *)

StartCall(u) ==
    /\ u \in setting.callers /\ lock = None /\ runThread = None
    /\ UserGoto(u, "idle", "start.test")
    /\ lock' = u
    /\ isStarted' = FALSE
    /\ \E t \in RunThreads : RunGoto(t, "none", "begin") /\ runThread' = t
    /\ UNCHANGED <<setting, status, isRunning, source, reported>>

\* set_is_running(true)
StartSetRunning(u) ==
    /\ \/ /\ UserGoto(u, "start.test", IF isRunning THEN "start.status" ELSE "start.set")
          /\ UNCHANGED <<isRunning, reported>>
       \/ /\ UserGoto(u, "start.set", "start.report")
          /\ isRunning' = TRUE /\ UNCHANGED reported
       \/ /\ UserGoto(u, "start.report", "start.status")
          /\ reported' = "STARTED" /\ UNCHANGED isRunning
    /\ UNCHANGED <<setting, status, isStarted, runThread, lock, run, source>>

StartStatus(u) ==
    /\ UserGoto(u, "start.status", "start.notify")
    /\ status' = "STARTED" /\ lock' = None
    /\ UNCHANGED <<setting, isRunning, isStarted, runThread, run, source, reported>>

StartNotify(u) ==
    /\ user[u] = "start.notify"
    /\ NotifyOne([user EXCEPT ![u] = "start.spin"])
    /\ UNCHANGED <<flags, lock, run, source, reported>>

\* Slip: start() does not wait for the run thread.
StartReturnAtOnce(u) ==
    /\ UserGoto(u, "start.spin", "idle")
    /\ UNCHANGED <<flags, lock, run, source, reported>>

\* while (!camera_is_started_ && is_running_) {}
StartReturn(u) ==
    /\ isStarted \/ ~isRunning
    /\ UserGoto(u, "start.spin", "idle")
    /\ UNCHANGED <<flags, lock, run, source, reported>>

-----------------------------------------------------------------------------
(* stop().  Without a joinable run_thread_ it returns false.               *)

StopEnter(u) ==
    u \in setting.callers /\ user[u] = "idle" /\ runThread # None

\* Slip: the status is left RUNNING for the next call to see.
StopKeepsStatus(u) ==
    /\ lock = None
    /\ StopEnter(u) \/ user[u] = "stop.woken"
    /\ \/ /\ status = "RUNNING"
          /\ user' = [user EXCEPT ![u] = "stop.test"]
          /\ lock' = u
       \/ /\ status # "RUNNING"
          /\ user' = [user EXCEPT ![u] = "stop.asleep"]
          /\ UNCHANGED lock
    /\ UNCHANGED <<flags, run, source, reported>>

\* The wait for RUNNING, which releases the mutex while it is asleep and does
\* not look at run_thread_ again when woken.
StopWait(u) ==
    /\ lock = None
    /\ StopEnter(u) \/ user[u] = "stop.woken"
    /\ \/ /\ status = "RUNNING" /\ status' = "STOPPED"
          /\ user' = [user EXCEPT ![u] = "stop.test"]
          /\ lock' = u
       \/ /\ status # "RUNNING"
          /\ user' = [user EXCEPT ![u] = "stop.asleep"]
          /\ UNCHANGED <<status, lock>>
    /\ UNCHANGED <<setting, isRunning, isStarted, runThread, run, source, reported>>

\* set_is_running(false)
StopSetRunning(u) ==
    /\ \/ /\ UserGoto(u, "stop.test", IF isRunning THEN "stop.set" ELSE "stop.impl")
          /\ UNCHANGED <<isRunning, reported>>
       \/ /\ UserGoto(u, "stop.set", "stop.report")
          /\ isRunning' = FALSE /\ UNCHANGED reported
       \/ /\ UserGoto(u, "stop.report", "stop.impl")
          /\ reported' = "STOPPED" /\ UNCHANGED isRunning
    /\ UNCHANGED <<setting, status, isStarted, runThread, lock, run, source>>

\* stop_impl() stops the source, or throws: the run thread is then detached
\* and the exception goes to the caller.
StopImpl(u) ==
    /\ \/ /\ UserGoto(u, "stop.impl", "stop.join")
          /\ source' = "off"
          /\ UNCHANGED <<runThread, lock, run>>
       \/ /\ setting.stopFails
          /\ UserGoto(u, "stop.impl", "idle")
          /\ runThread' = None /\ lock' = None
          /\ run' = [run EXCEPT ![runThread] = IF @ = "done" THEN "none" ELSE @]
          /\ UNCHANGED source
    /\ UNCHANGED <<setting, status, isRunning, isStarted, reported>>

StopJoin(u) ==
    /\ UserGoto(u, "stop.join", "idle")
    /\ RunGoto(runThread, "done", "none")
    /\ runThread' = None /\ lock' = None
    /\ UNCHANGED <<setting, status, isRunning, isStarted, source, reported>>

-----------------------------------------------------------------------------
(* run().                                                                  *)

RunUnchanged == UNCHANGED <<setting, lock>>

\* Slip: the thread does not say that it is running.
RunBeginSilent(t) ==
    /\ lock = None /\ status = "STARTED"
    /\ RunGoto(t, "begin", "notify")
    /\ RunUnchanged /\ UNCHANGED <<flags, user, source, reported>>

RunBegin(t) ==
    /\ lock = None /\ status = "STARTED" /\ status' = "RUNNING"
    /\ RunGoto(t, "begin", "notify")
    /\ RunUnchanged
    /\ UNCHANGED <<isRunning, isStarted, runThread, user, source, reported>>

RunNotify(t) ==
    /\ RunGoto(t, "notify", "start") /\ NotifyOne(user)
    /\ RunUnchanged /\ UNCHANGED <<flags, source, reported>>

\* start_impl() starts the source, or throws: the error is propagated and the
\* thread ends.
RunStart(t) ==
    /\ \/ RunGoto(t, "start", "started") /\ source' = "on"
       \/ setting.runFails /\ RunGoto(t, "start", "end.test") /\ UNCHANGED source
    /\ RunUnchanged /\ UNCHANGED <<flags, user, reported>>

RunStarted(t) ==
    /\ RunGoto(t, "started", "loop") /\ isStarted' = TRUE
    /\ RunUnchanged
    /\ UNCHANGED <<status, isRunning, runThread, user, source, reported>>

\* while (is_running_)
RunLoop(t) ==
    /\ RunGoto(t, "loop", IF isRunning THEN "process" ELSE "end.test")
    /\ RunUnchanged /\ UNCHANGED <<flags, user, source, reported>>

\* process_impl() returns after some data.
RunProcess(t) ==
    /\ ~setting.plays /\ source = "on" /\ RunGoto(t, "process", "loop")
    /\ RunUnchanged /\ UNCHANGED <<flags, user, source, reported>>

\* process_impl() returns false at the end of the data, or throws.
RunProcessEnd(t) ==
    /\ ~setting.plays /\ (source # "on" \/ setting.runFails)
    /\ RunGoto(t, "process", "end.test")
    /\ RunUnchanged /\ UNCHANGED <<flags, user, source, reported>>

\* Slip: a run thread that ends by itself leaves is_running_ set.
RunEndSilent(t) ==
    /\ RunGoto(t, "end.test", IF t = runThread THEN "done" ELSE "none")
    /\ RunUnchanged /\ UNCHANGED <<flags, user, source, reported>>

\* set_is_running(false), after which the thread ends.
RunEnd(t) ==
    LET over == IF t = runThread THEN "done" ELSE "none" IN
    /\ \/ /\ RunGoto(t, "end.test", IF isRunning THEN "end.set" ELSE over)
          /\ UNCHANGED <<isRunning, reported>>
       \/ /\ RunGoto(t, "end.set", "end.report")
          /\ isRunning' = FALSE /\ UNCHANGED reported
       \/ /\ RunGoto(t, "end.report", over)
          /\ reported' = "STOPPED" /\ UNCHANGED isRunning
    /\ RunUnchanged /\ UNCHANGED <<status, isStarted, runThread, user, source>>

\* The recording ends, or the device stops sending.
SourceEnds ==
    /\ ~setting.plays /\ source = "on" /\ source' = "ended"
    /\ UNCHANGED <<flags, lock, user, run, reported>>

-----------------------------------------------------------------------------
UserStep(u) ==
    \/ StartSetRunning(u) \/ StartStatus(u) \/ StartNotify(u) \/ StartReturn(u)
    \/ user[u] = "stop.woken" /\ StopWait(u)
    \/ StopSetRunning(u) \/ StopImpl(u) \/ StopJoin(u)

RunStep(t) ==
    \/ RunBegin(t) \/ RunNotify(t) \/ RunStart(t) \/ RunStarted(t)
    \/ RunLoop(t) \/ RunEnd(t)
    \/ source # "on" /\ RunProcessEnd(t)

Next ==
    \/ \E u \in Users : StartCall(u) \/ StopWait(u) \/ UserStep(u)
    \/ \E t \in RunThreads : RunStep(t) \/ RunProcess(t) \/ RunProcessEnd(t)
    \/ SourceEnds

\* Threads are scheduled; a source that is on may never produce anything, and
\* nobody has to call start() or stop().
Fairness ==
    /\ \A u \in Users : WF_vars(UserStep(u))
    /\ \A t \in RunThreads : WF_vars(RunStep(t))

Safety == Init /\ [][Next]_vars
Spec == Safety /\ Fairness

-----------------------------------------------------------------------------
OneCaller == \E u \in Users : setting.callers = {u}

\* The values of the variables, and that stop() only joins or detaches a
\* joinable thread, though it does not look again after its wait.
TypeOK ==
    /\ setting \in Settings
    /\ status \in {"STOPPED", "STARTED", "RUNNING"}
    /\ isRunning \in BOOLEAN /\ isStarted \in BOOLEAN
    /\ runThread \in RunThreads \cup {None} /\ lock \in Users \cup {None}
    /\ user \in [Users -> UserPc] /\ run \in [RunThreads -> RunPc]
    /\ source \in {"off", "on", "ended"}
    /\ reported \in {"STOPPED", "STARTED"}
    /\ \A u \in Users : user[u] \in {"stop.test", "stop.impl", "stop.join"}
                            => runThread # None /\ lock = u

NobodyInside == \A u \in Users : user[u] = "idle"

\* stop() "stops ongoing streaming": without a run thread and without a call
\* under way the source is not on, so no data piles up that nobody reads.
StoppedMeansOff ==
    (~setting.stopFails /\ NobodyInside /\ runThread = None) => source # "on"

\* StoppedMeansOff for a single caller, whose start() returns before its stop()
\* and thereby keeps stop_impl behind start_impl.  A reader that is read once
\* more after it was stopped starts again by itself.
StoppedMeansOffAlone == OneCaller /\ ~setting.plays => StoppedMeansOff

\* is_running() is false from stop()'s return to the next start(), whoever calls;
\* once the file that is played has ended; and true as long as a camera that is not
\* stopped has a source that gives data and does not fail.  It is not what camera.h:360
\* says of an online source, "always returns true unless the stop function has been
\* called": with a run thread that has failed it is false without a call of stop().
RunningIsTold ==
    ~setting.stopFails =>
        /\ (NobodyInside /\ runThread = None) => ~isRunning
        /\ (setting.plays /\ runThread # None /\ run[runThread] = "done" /\ lock = None)
              => ~isRunning
        /\ (~setting.plays /\ ~setting.runFails /\ source = "on" /\ runThread # None
               /\ lock = None)
              => isRunning

\* start() returns, though a detached thread of an earlier run is alive: the
\* spin on the two flags ends however the run thread does.
StartReturns ==
    \A u \in Users :
        (OneCaller /\ user[u] = "start.test") ~> (user[u] = "idle")

\* stop() returns, whether it had to wait for the run thread or not.
StopReturns ==
    \A u \in Users :
        (OneCaller /\ ~setting.stopFails /\ user[u] \in {"stop.asleep", "stop.test"})
            ~> (user[u] = "idle")
=============================================================================

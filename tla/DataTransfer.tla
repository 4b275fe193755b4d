---------------------------- MODULE DataTransfer ----------------------------
(***************************************************************************)
(* The life cycle of hal/cpp/src/utils/data_transfer.cpp: one transfer     *)
(* thread, started and stopped by an owner, suspended and resumed by a     *)
(* seeker.  The threads share the three atomics stop_, suspend_ and        *)
(* running_ and the std::thread handle run_transfers_thread_.              *)
(*                                                                         *)
(* The predicates of both condition variables are only written under the   *)
(* mutex their waiter holds, and every write is followed by a notify_all:  *)
(* a wait is an action guarded by its predicate.                           *)
(*                                                                         *)
(* The producer is a parameter: the model says when run_impl returns or    *)
(* throws, not what it transfers.  The producer of a recording can be      *)
(* sought, and its start_impl and stop_impl cannot fail; the producer of a *)
(* device may fail, and as it cannot be sought it is never suspended.      *)
(***************************************************************************)
CONSTANTS Threads,   \* slots for transfer threads alive at the same time
          NoThread,  \* run_transfers_thread_ is not joinable
          Producers  \* what data_producer_ptr may be

ASSUME ThreadAssumption == NoThread \notin Threads
ASSUME ProducerAssumption == Producers \subseteq {"recording", "device"}

VARIABLES
    producer,  \* data_producer_ptr_: "recording" or "device"
    stop_,     \* std::atomic<bool> stop_
    suspend_,  \* std::atomic<bool> suspend_
    running_,  \* std::atomic<bool> running_
    thread,    \* the thread that run_transfers_thread_ owns, or NoThread
    pc,        \* where each transfer thread is
    call,      \* where the owner is in start() or stop()
    susp,      \* where the seeker is in suspend() ... resume()
    found      \* history: what suspend() found when it was called, or
               \* "started" once start() has created a thread since

flags == <<stop_, suspend_, running_>>
dtVars == <<producer, stop_, suspend_, running_, thread, pc, call, susp, found>>

ThreadPc == {"none", "started", "test", "clear", "enter", "run", "ret",
             "leave", "await", "error", "end", "stopped", "done"}
CallPc == {"idle", "start.join", "start.reset", "start.impl",
           "stop.impl", "stop.notify", "stop.join"}
SuspPc == {"none", "waiting", "suspended"}
Found == {"started", "idle", "running"}

DTInit ==
    /\ producer \in Producers
    /\ stop_ = FALSE /\ suspend_ = FALSE /\ running_ = FALSE
    /\ thread = NoThread
    /\ pc = [t \in Threads |-> "none"]
    /\ call = "idle" /\ susp = "none" /\ found = "started"

Seekable == producer = "recording"

\* What run_impl polls to know whether it has to return.
ShouldStop == stop_ \/ suspend_

-----------------------------------------------------------------------------
(* start(): a finished thread is joined first; a live one makes the call a *)
(* no-op, which is not an action.                                          *)

\* Slip: the finished thread is not joined.
StartWithoutJoin ==
    /\ call = "idle"
    /\ thread = NoThread \/ stop_
    /\ call' = "start.reset"
    /\ UNCHANGED <<producer, flags, thread, pc, susp, found>>

StartCall ==
    /\ call = "idle"
    /\ \/ thread = NoThread /\ call' = "start.reset"
       \/ thread # NoThread /\ stop_ /\ call' = "start.join"
    /\ UNCHANGED <<producer, flags, thread, pc, susp, found>>

\* std::thread::join returns once the thread has ended.
Join(next) ==
    /\ pc[thread] = "done"
    /\ pc' = [pc EXCEPT ![thread] = "none"]
    /\ thread' = NoThread
    /\ call' = next
    /\ UNCHANGED <<producer, flags, susp, found>>

StartJoin == call = "start.join" /\ Join("start.reset")

StartReset ==
    /\ call = "start.reset"
    /\ stop_' = FALSE /\ running_' = FALSE
    /\ call' = "start.impl"
    /\ UNCHANGED <<producer, suspend_, thread, pc, susp, found>>

\* The producer's start_impl succeeds and the thread is created.
StartSpawn ==
    /\ call = "start.impl"
    /\ \E t \in Threads :
          /\ pc[t] = "none"
          /\ pc' = [pc EXCEPT ![t] = "started"]
          /\ thread' = t
    /\ call' = "idle"
    /\ found' = "started"
    /\ UNCHANGED <<producer, flags, susp>>

\* start_impl throws: the flags are already reset, and there is no thread.
StartFails ==
    /\ ~Seekable
    /\ call = "start.impl" /\ call' = "idle"
    /\ UNCHANGED <<producer, flags, thread, pc, susp, found>>

-----------------------------------------------------------------------------
(* stop(): nothing to do without a joinable thread.                        *)

\* Slip: stop() does not look whether there is a thread.
StopCallAlways ==
    /\ call = "idle"
    /\ call' = "stop.impl"
    /\ UNCHANGED <<producer, flags, thread, pc, susp, found>>

StopCall ==
    /\ call = "idle" /\ thread # NoThread
    /\ call' = "stop.impl"
    /\ UNCHANGED <<producer, flags, thread, pc, susp, found>>

StopImpl ==
    /\ call = "stop.impl" /\ call' = "stop.notify"
    /\ UNCHANGED <<producer, flags, thread, pc, susp, found>>

\* stop_impl throws a HalConnectionException: the thread is told to stop but
\* no longer waited for, and the exception goes to the caller.
StopDetach ==
    /\ ~Seekable
    /\ call = "stop.impl" /\ call' = "idle"
    /\ stop_' = TRUE
    /\ thread' = NoThread
    /\ pc' = [pc EXCEPT ![thread] = IF @ = "done" THEN "none" ELSE @]
    /\ UNCHANGED <<producer, suspend_, running_, susp, found>>

StopNotify ==
    /\ call = "stop.notify" /\ call' = "stop.join"
    /\ stop_' = TRUE
    /\ UNCHANGED <<producer, suspend_, running_, thread, pc, susp, found>>

StopJoin == call = "stop.join" /\ Join("idle")

-----------------------------------------------------------------------------
(* The transfer thread.                                                    *)

Goto(t, from, to) ==
    /\ pc[t] = from
    /\ pc' = [pc EXCEPT ![t] = to]
    /\ UNCHANGED <<producer, thread, call, susp, found>>

\* The Started callbacks have returned.
StartedCallbacks(t) == Goto(t, "started", "test") /\ UNCHANGED flags

TestStop(t) ==
    /\ \/ stop_ /\ Goto(t, "test", "end")
       \/ ~stop_ /\ Goto(t, "test", "clear")
    /\ UNCHANGED flags

ClearSuspend(t) ==
    /\ Goto(t, "clear", "enter")
    /\ suspend_' = FALSE
    /\ UNCHANGED <<stop_, running_>>

EnterRun(t) ==
    /\ Goto(t, "enter", "run")
    /\ running_' = TRUE
    /\ UNCHANGED <<stop_, suspend_>>

\* run_impl returns: it saw should_stop() or the data ended.
RunReturn(t) == Goto(t, "run", "ret") /\ UNCHANGED flags

RunThrows(t) == ~Seekable /\ Goto(t, "run", "error") /\ UNCHANGED flags

TestSuspend(t) ==
    /\ \/ suspend_ /\ Goto(t, "ret", "leave")
       \/ ~suspend_ /\ Goto(t, "ret", "end")
    /\ UNCHANGED flags

LeaveRun(t) ==
    /\ Goto(t, "leave", "await")
    /\ running_' = FALSE
    /\ UNCHANGED <<stop_, suspend_>>

\* Slip: only resume() ends the wait.
AwaitForgetsStop(t) ==
    /\ ~suspend_
    /\ Goto(t, "await", "test")
    /\ UNCHANGED flags

\* Slip: the suspended thread does not wait.
AwaitForgetsSuspend(t) == Goto(t, "await", "test") /\ UNCHANGED flags

AwaitResume(t) ==
    /\ ~suspend_ \/ stop_
    /\ Goto(t, "await", "test")
    /\ UNCHANGED flags

ErrorCallbacks(t) == Goto(t, "error", "end") /\ UNCHANGED flags

\* Slip: the callbacks are called before the flag is set.
ThreadEndSilent(t) == Goto(t, "end", "stopped") /\ UNCHANGED flags

\* notify_stop() of the thread itself.
ThreadNotifyStop(t) ==
    /\ Goto(t, "end", "stopped")
    /\ stop_' = TRUE
    /\ UNCHANGED <<suspend_, running_>>

\* The Stopped callbacks have returned and the thread ends; a thread that
\* was detached leaves its slot at once.
StoppedCallbacks(t) ==
    /\ Goto(t, "stopped", IF t = thread THEN "done" ELSE "none")
    /\ UNCHANGED flags

-----------------------------------------------------------------------------
(* suspend() and resume().                                                 *)

SuspendSet ==
    /\ Seekable
    /\ susp = "none" /\ susp' = "waiting"
    /\ suspend_' = TRUE
    /\ found' = IF running_ /\ ~stop_ THEN "running" ELSE "idle"
    /\ UNCHANGED <<producer, stop_, running_, thread, pc, call>>

SuspendReturn ==
    /\ susp = "waiting" /\ susp' = "suspended"
    /\ ~running_ \/ stop_
    /\ UNCHANGED <<producer, flags, thread, pc, call, found>>

Resume ==
    /\ susp = "suspended" /\ susp' = "none"
    /\ suspend_' = FALSE
    /\ UNCHANGED <<producer, stop_, running_, thread, pc, call, found>>

-----------------------------------------------------------------------------
StartStep == StartCall \/ StartJoin \/ StartReset \/ StartSpawn \/ StartFails
StopStep == StopCall \/ StopImpl \/ StopDetach \/ StopNotify \/ StopJoin
OwnerStep == StartStep \/ StopStep
SeekerStep == SuspendSet \/ SuspendReturn \/ Resume

\* Every step of a thread outside run_impl.
ThreadStep(t) ==
    \/ StartedCallbacks(t) \/ TestStop(t) \/ ClearSuspend(t) \/ EnterRun(t)
    \/ TestSuspend(t) \/ LeaveRun(t) \/ AwaitResume(t) \/ ErrorCallbacks(t)
    \/ ThreadNotifyStop(t) \/ StoppedCallbacks(t)

DTNext ==
    \/ OwnerStep
    \/ SeekerStep
    \/ \E t \in Threads : ThreadStep(t) \/ RunReturn(t) \/ RunThrows(t)

\* The scheduler runs every thread; run_impl honours should_stop(), as the
\* producers do; a join that can return does.  Nobody has to call anything.
DTFairness ==
    /\ \A t \in Threads : WF_dtVars(ThreadStep(t))
    /\ \A t \in Threads : WF_dtVars(ShouldStop /\ RunReturn(t))
    /\ WF_dtVars(StopImpl) /\ WF_dtVars(StopNotify) /\ WF_dtVars(StopJoin)

DTSafety == DTInit /\ [][DTNext]_dtVars
DTSpec == DTSafety /\ DTFairness

-----------------------------------------------------------------------------
\* The values the flags, the handle and the program counters range over, and
\* that join and detach are only called on a joinable std::thread.
DTTypeOK ==
    /\ producer \in Producers
    /\ stop_ \in BOOLEAN /\ suspend_ \in BOOLEAN /\ running_ \in BOOLEAN
    /\ thread \in Threads \cup {NoThread}
    /\ pc \in [Threads -> ThreadPc]
    /\ call \in CallPc /\ susp \in SuspPc /\ found \in Found
    /\ call \in {"start.join", "stop.impl", "stop.notify", "stop.join"}
          => thread # NoThread

Alive(t) == pc[t] \notin {"none", "done"}

\* With a producer whose stop_impl cannot fail, the thread that run_transfers_thread_
\* owns is the only one alive: start() joins the thread that ended by itself
\* before it creates the next one, however its callbacks are delayed, so the
\* producer is never driven by two threads.
OneTransferThread ==
    Seekable => \A t \in Threads : Alive(t) => t = thread

\* Whoever runs in a Stopped callback, or in reaction to it, sees stopped():
\* seek() relies on it to decide whether to start the transfers again.
StoppedObserved ==
    Seekable => \A t \in Threads : pc[t] \in {"stopped", "done"} => stop_

\* A suspend() that was called on a running thread keeps it out of run_impl
\* until resume(), start() or stop(): what seek() needs to move the file's
\* position with no transfer under way.
SuspendKeepsOut ==
    (susp = "suspended" /\ found = "running" /\ ~stop_) =>
        \A t \in Threads : pc[t] \notin {"clear", "enter", "run"}

\* stop() returns: its notify_stop reaches the thread wherever it waits.
StopReturns == (call = "stop.impl") ~> (call = "idle")
=============================================================================

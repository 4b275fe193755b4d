------------------------- MODULE DataTransferProofs -------------------------
(***************************************************************************)
(* What DataTransfer guarantees for any number of thread slots.  The       *)
(* inductive invariant is IInv: the type invariant and, for the producer   *)
(* of a recording, where every slot but the one of run_transfers_thread_   *)
(* is free (OneSlot), what the owner's program counter says about the      *)
(* handle (CallThread), what a thread's program counter says about the     *)
(* flags (PcFlags), and what a suspend() that found the thread running     *)
(* knows of it (Kept).                                                     *)
(***************************************************************************)
EXTENDS DataTransfer, TLAPS

OneSlot == \A t \in Threads : pc[t] # "none" => t = thread

CallThread ==
    /\ call \in {"start.reset", "start.impl"} => thread = NoThread
    /\ call = "start.impl" => ~running_

PcFlags ==
    \A t \in Threads :
        /\ pc[t] \in {"run", "ret", "leave"} => running_
        /\ pc[t] \in {"started", "test", "clear", "enter", "await"} => ~running_
        /\ pc[t] \in {"stopped", "done"} => stop_
        /\ pc[t] # "error"

Kept ==
    (susp # "none" /\ found = "running") =>
        /\ suspend_
        /\ \A t \in Threads :
              /\ pc[t] \notin {"started", "clear", "enter"}
              /\ pc[t] = "test" => stop_
        /\ susp = "suspended" => ~running_ \/ stop_

IInv ==
    /\ DTTypeOK
    /\ Seekable => OneSlot /\ CallThread /\ PcFlags /\ Kept
    /\ ~Seekable => susp = "none"

-----------------------------------------------------------------------------
(* IInv holds initially: no slot is used and no call is under way.         *)
LEMMA InitIInv == DTInit => IInv
BY ThreadAssumption
   DEF DTInit, IInv, Seekable, DTTypeOK, OneSlot, CallThread, PcFlags, Kept,
       ThreadPc, CallPc, SuspPc, Found

(* Every step keeps the variables in their types: start() and stop() move  *)
(* the handle between the slots, and every thread stays in ThreadPc.       *)
LEMMA TypeStep ==
    ASSUME DTTypeOK, [DTNext]_dtVars
    PROVE  DTTypeOK'
<1> USE ThreadAssumption DEF DTTypeOK, ThreadPc, CallPc, SuspPc, Found, flags
<1>1. CASE OwnerStep
  BY ZenonT(30), <1>1 DEF OwnerStep, StartStep, StopStep, StartCall, StartJoin, StartReset,
              StartSpawn, StartFails, StopCall, StopImpl, StopDetach,
              StopNotify, StopJoin, Join
<1>2. CASE SeekerStep
  BY <1>2 DEF SeekerStep, SuspendSet, SuspendReturn, Resume
<1>3. ASSUME NEW t \in Threads, ThreadStep(t) \/ RunReturn(t) \/ RunThrows(t)
      PROVE  DTTypeOK'
  <2>1. ASSUME NEW to \in ThreadPc, pc' = [pc EXCEPT ![t] = to]
        PROVE  pc' \in [Threads -> ThreadPc]
    BY <2>1
  <2>2. CASE StartedCallbacks(t) \/ ErrorCallbacks(t) \/ RunReturn(t) \/ RunThrows(t)
    BY <2>2, <2>1 DEF StartedCallbacks, ErrorCallbacks, RunReturn, RunThrows, Goto
  <2>3. CASE ClearSuspend(t) \/ EnterRun(t) \/ LeaveRun(t) \/ ThreadNotifyStop(t)
    BY ZenonT(30), <2>3, <2>1 DEF ClearSuspend, EnterRun, LeaveRun, ThreadNotifyStop, Goto
  <2>4. CASE TestStop(t)
    BY <2>4, <2>1 DEF TestStop, Goto
  <2>5. CASE TestSuspend(t)
    BY <2>5, <2>1 DEF TestSuspend, Goto
  <2>6. CASE AwaitResume(t) \/ StoppedCallbacks(t)
    BY <2>6, <2>1 DEF AwaitResume, StoppedCallbacks, Goto
  <2> QED BY <1>3, <2>2, <2>3, <2>4, <2>5, <2>6 DEF ThreadStep
<1>4. CASE UNCHANGED dtVars
  BY <1>4 DEF dtVars
<1> QED BY <1>1, <1>2, <1>3, <1>4 DEF DTNext

(* The type invariant of data_transfer.cpp's flags and program counters.   *)
THEOREM TypeCorrect == DTSafety => []DTTypeOK
<1>1. DTInit => DTTypeOK
  BY InitIInv DEF IInv
<1>2. DTTypeOK /\ [DTNext]_dtVars => DTTypeOK'
  BY TypeStep
<1> QED BY <1>1, <1>2, PTL DEF DTSafety

-----------------------------------------------------------------------------
(* The owner's steps: start() creates a thread only in a state where no    *)
(* slot is used, and a join empties the slot it waited for.                *)
LEMMA OwnerKeeps ==
    ASSUME IInv, Seekable, OwnerStep
    PROVE  (OneSlot /\ CallThread /\ PcFlags /\ Kept)'
<1> USE ThreadAssumption
    DEF IInv, DTTypeOK, OneSlot, CallThread, PcFlags, Kept,
        ThreadPc, CallPc, SuspPc, Found, flags
<1>1. CASE StartCall
  BY <1>1 DEF StartCall
<1>2. CASE StartJoin \/ StopJoin
  <2>1. thread \in Threads /\ pc' = [pc EXCEPT ![thread] = "none"] /\ thread' = NoThread
    BY <1>2 DEF StartJoin, StopJoin, Join
  <2>2. \A t \in Threads : pc'[t] = "none"
    BY <2>1
  <2> QED BY <1>2, <2>1, <2>2 DEF StartJoin, StopJoin, Join
<1>3. CASE StartReset
  BY <1>3 DEF StartReset
<1>4. CASE StartSpawn
  <2>1. PICK t \in Threads : /\ pc[t] = "none"
                             /\ pc' = [pc EXCEPT ![t] = "started"]
                             /\ thread' = t
    BY <1>4 DEF StartSpawn
  <2>2. /\ call = "start.impl" /\ call' = "idle"
        /\ found' = "started"
        /\ UNCHANGED <<stop_, suspend_, running_, susp>>
    BY <1>4 DEF StartSpawn
  <2>3. \A u \in Threads : u # t => pc'[u] = "none"
    BY <2>1, <2>2
  <2> QED BY <2>1, <2>2, <2>3
<1>5. CASE StopCall \/ StopImpl \/ StopNotify
  BY <1>5 DEF StopCall, StopImpl, StopNotify
<1> QED BY <1>1, <1>2, <1>3, <1>4, <1>5
        DEF OwnerStep, StartStep, StopStep, StartFails, StopDetach

(* The seeker's steps: a suspend() that finds running_ set and stop_ clear *)
(* finds the thread between entering run_impl and notify_stop.             *)
LEMMA SeekerKeeps ==
    ASSUME IInv, Seekable, SeekerStep
    PROVE  (OneSlot /\ CallThread /\ PcFlags /\ Kept)'
BY DEF IInv, DTTypeOK, OneSlot, CallThread, PcFlags, Kept, SuspPc, Found,
       flags, SeekerStep, SuspendSet, SuspendReturn, Resume

(* A thread's steps: only the thread that the handle owns can take one.    *)
LEMMA ThreadKeeps ==
    ASSUME IInv, Seekable, NEW t \in Threads,
           ThreadStep(t) \/ RunReturn(t) \/ RunThrows(t)
    PROVE  (OneSlot /\ CallThread /\ PcFlags /\ Kept)'
<1> USE ThreadAssumption
    DEF IInv, DTTypeOK, OneSlot, CallThread, PcFlags, Kept,
        ThreadPc, CallPc, SuspPc, Found, flags, Goto
<1>1. CASE StartedCallbacks(t) \/ ClearSuspend(t)
  BY <1>1 DEF StartedCallbacks, ClearSuspend
<1>2. CASE TestStop(t)
  BY <1>2 DEF TestStop
<1>3. CASE EnterRun(t)
  BY <1>3 DEF EnterRun
<1>4. CASE RunReturn(t)
  BY <1>4 DEF RunReturn
<1>5. CASE TestSuspend(t)
  BY <1>5 DEF TestSuspend
<1>6. CASE LeaveRun(t)
  BY <1>6 DEF LeaveRun
<1>7. CASE AwaitResume(t)
  BY <1>7 DEF AwaitResume
<1>8. CASE ThreadNotifyStop(t)
  BY <1>8 DEF ThreadNotifyStop
<1>9. CASE StoppedCallbacks(t)
  BY <1>9 DEF StoppedCallbacks
<1>10. ~RunThrows(t) /\ ~ErrorCallbacks(t)
  BY DEF RunThrows, ErrorCallbacks
<1> QED BY <1>1, <1>2, <1>3, <1>4, <1>5, <1>6, <1>7, <1>8, <1>9, <1>10
        DEF ThreadStep

(* A stream has the same producer for all its life.                        *)
LEMMA SameProducer ==
    ASSUME [DTNext]_dtVars
    PROVE  Seekable' = Seekable
<1>1. CASE OwnerStep
  BY <1>1 DEF OwnerStep, StartStep, StopStep, StartCall, StartJoin, StartReset,
              StartSpawn, StartFails, StopCall, StopImpl, StopDetach,
              StopNotify, StopJoin, Join, Seekable
<1>2. CASE SeekerStep
  BY <1>2 DEF SeekerStep, SuspendSet, SuspendReturn, Resume, Seekable
<1>3. CASE \E t \in Threads : ThreadStep(t) \/ RunReturn(t) \/ RunThrows(t)
  BY <1>3 DEF ThreadStep, StartedCallbacks, TestStop, ClearSuspend, EnterRun,
              TestSuspend, LeaveRun, AwaitResume, ErrorCallbacks, ThreadNotifyStop,
              StoppedCallbacks, RunReturn, RunThrows, Goto, Seekable
<1> QED BY <1>1, <1>2, <1>3 DEF DTNext, dtVars, Seekable

(* The producer of a device is never suspended.                            *)
LEMMA NotSought ==
    ASSUME ~Seekable, susp = "none", [DTNext]_dtVars
    PROVE  susp' = "none"
<1>1. CASE OwnerStep
  BY <1>1 DEF OwnerStep, StartStep, StopStep, StartCall, StartJoin, StartReset,
              StartSpawn, StartFails, StopCall, StopImpl, StopDetach,
              StopNotify, StopJoin, Join
<1>2. CASE \E t \in Threads : ThreadStep(t) \/ RunReturn(t) \/ RunThrows(t)
  BY <1>2 DEF ThreadStep, StartedCallbacks, TestStop, ClearSuspend, EnterRun,
              TestSuspend, LeaveRun, AwaitResume, ErrorCallbacks,
              ThreadNotifyStop, StoppedCallbacks, RunReturn, RunThrows, Goto
<1> QED BY <1>1, <1>2
        DEF DTNext, SeekerStep, SuspendSet, SuspendReturn, Resume, dtVars

(* Every step of DataTransfer preserves the inductive invariant.           *)
LEMMA NextIInv == IInv /\ [DTNext]_dtVars => IInv'
<1> SUFFICES ASSUME IInv, [DTNext]_dtVars PROVE IInv'
  OBVIOUS
<1>1. DTTypeOK'
  BY TypeStep DEF IInv
<1>2. ASSUME Seekable PROVE (OneSlot /\ CallThread /\ PcFlags /\ Kept)'
  <2>1. CASE OwnerStep
    BY <1>2, <2>1, OwnerKeeps
  <2>2. CASE SeekerStep
    BY <1>2, <2>2, SeekerKeeps
  <2>3. CASE \E t \in Threads : ThreadStep(t) \/ RunReturn(t) \/ RunThrows(t)
    BY <1>2, <2>3, ThreadKeeps
  <2>4. CASE UNCHANGED dtVars
    BY <1>2, <2>4 DEF IInv, OneSlot, CallThread, PcFlags, Kept, dtVars
  <2> QED BY <2>1, <2>2, <2>3, <2>4 DEF DTNext
<1>3. ~Seekable => susp' = "none"
  BY NotSought DEF IInv
<1> QED BY <1>1, <1>2, <1>3, SameProducer DEF IInv

(* The inductive invariant holds in every reachable state.                 *)
LEMMA InvariantHolds == DTSafety => []IInv
BY InitIInv, NextIInv, PTL DEF DTSafety

(* start() and stop() never leave two transfer threads alive when the      *)
(* producer's stop_impl cannot fail.                                       *)
THEOREM OneThread == DTSafety => []OneTransferThread
<1>1. IInv => OneTransferThread
  BY DEF IInv, OneSlot, OneTransferThread, Alive
<1> QED BY <1>1, InvariantHolds, PTL

(* stopped() is true from the moment the Stopped callbacks are called      *)
(* until start() has joined the thread that called them.                   *)
THEOREM StoppedIsObserved == DTSafety => []StoppedObserved
<1>1. IInv => StoppedObserved
  BY DEF IInv, PcFlags, StoppedObserved
<1> QED BY <1>1, InvariantHolds, PTL

(* suspend() called on a running thread keeps it out of run_impl.          *)
THEOREM SuspendKeepsThreadOut == DTSafety => []SuspendKeepsOut
<1>1. IInv => SuspendKeepsOut
  BY DEF IInv, PcFlags, Kept, SuspendKeepsOut
<1> QED BY <1>1, InvariantHolds, PTL
=============================================================================

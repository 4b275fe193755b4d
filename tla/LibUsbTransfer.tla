--------------------------- MODULE LibUsbTransfer ---------------------------
(***************************************************************************)
(* hal_psee_plugins/src/boards/utils/psee_libusb_data_transfer.cpp as the  *)
(* producer of a DataTransfer: a ring of asynchronous bulk transfers that  *)
(* start_impl queues, that run_impl waits for and queues again in turn,    *)
(* and that stop_impl cancels, from the thread that calls stop() or, after *)
(* an error, from run_impl.                                                *)
(*                                                                         *)
(* libusb is external: it completes the transfers of the queue, data going *)
(* to the oldest one, but only while a thread handles its events, that is  *)
(* in wait_completion.  A transfer that times out with data is taken for   *)
(* completed.  Cancelling a transfer and handling the events may fail; a   *)
(* stop_impl that meets this goes on with the next transfer and throws at  *)
(* the end.  The pool of buffers is the unbounded one.                     *)
(*                                                                         *)
(* Environment: the owner does not call start() again while a thread that  *)
(* a failed stop() has detached is still there.                            *)
(***************************************************************************)
EXTENDS DataTransfer, Naturals, Sequences, SequencesExt

CONSTANTS NTransfers, \* async_transfer_num_
          MaxData     \* bound on the number of packets the device sends

ASSUME UsbAssumption == NTransfers \in Nat \ {0} /\ MaxData \in Nat

VARIABLES
    inFlight,  \* the transfers that libusb has, in the order of their submission
    completed, \* completion_ of each transfer
    result,    \* the status of each transfer, and the packet it carries
    sent,      \* packets sent by the device
    got,       \* history: the packet last given to transfer_data
    runAt,     \* where the transfer thread is in run_impl, and at which transfer
    ownAt,     \* where the owner is in start_impl or stop_impl, likewise
    errors     \* whether the last stop_impl of each side has met an error

usbVars == <<inFlight, completed, result, sent, got, runAt, ownAt, errors>>
vars == <<dtVars, usbVars>>

Transfers == 1..NTransfers
Nothing == [status |-> "none", packet |-> 0]
At(place, i) == [place |-> place, i |-> i]
Outside == At("outside", 1)

Init ==
    /\ DTInit
    /\ inFlight = <<>>
    /\ completed = [i \in Transfers |-> TRUE]
    /\ result = [i \in Transfers |-> Nothing]
    /\ sent = 0 /\ got = 0
    /\ runAt = Outside /\ ownAt = Outside
    /\ errors = [run |-> FALSE, own |-> FALSE]

Queued(i) == Contains(inFlight, i)

-----------------------------------------------------------------------------
(* libusb_handle_events_completed, called by whoever waits for a transfer. *)

Waits(at) == at.place \in {"wait", "stop.wait"} /\ ~completed[at.i]
EventsHandled == Waits(runAt) \/ Waits(ownAt)

\* async_bulk_cb
Complete(i, status, packet) ==
    /\ EventsHandled
    /\ \E k \in DOMAIN inFlight : inFlight[k] = i /\ inFlight' = RemoveAt(inFlight, k)
    /\ completed' = [completed EXCEPT ![i] = TRUE]
    /\ result' = [result EXCEPT ![i] = [status |-> status, packet |-> packet]]
    /\ UNCHANGED <<dtVars, got, runAt, ownAt, errors>>

UsbData ==
    /\ inFlight # <<>> /\ sent < MaxData
    /\ sent' = sent + 1
    /\ Complete(Head(inFlight), "data", sent + 1)

UsbTimeout(i) == Complete(i, "timeout", 0) /\ UNCHANGED sent
UsbError(i) == Complete(i, "error", 0) /\ UNCHANGED sent

\* The end of a transfer that libusb_cancel_transfer has been called for.
UsbCancelled(i) ==
    /\ result[i].status = "cancelling"
    /\ Complete(i, "cancelled", 0) /\ UNCHANGED sent

-----------------------------------------------------------------------------
\* Slip: the token of a transfer that could not be submitted is left cleared.
SubmitFailsWithoutToken(i) ==
    /\ ~Queued(i)
    /\ completed' = [completed EXCEPT ![i] = FALSE]
    /\ UNCHANGED <<inFlight, result>>

\* submit() that throws; a transfer that is queued already is busy.
SubmitFails(i) ==
    /\ completed' = [completed EXCEPT ![i] = ~Queued(i)]
    /\ UNCHANGED <<inFlight, result>>

SubmitWorks(i) ==
    /\ ~Queued(i)
    /\ inFlight' = Append(inFlight, i)
    /\ completed' = [completed EXCEPT ![i] = FALSE]
    /\ result' = [result EXCEPT ![i] = Nothing]

\* libusb_cancel_transfer, which finds nothing to cancel when i has completed.
Cancel(i) ==
    /\ result' = IF Queued(i) THEN [result EXCEPT ![i].status = "cancelling"] ELSE result
    /\ UNCHANGED <<inFlight, completed, sent, got>>

-----------------------------------------------------------------------------
(* start_impl, in the owner's call of DataTransfer::start.                 *)

\* clear_halt
UsbStart ==
    /\ call = "start.impl" /\ ownAt = Outside
    /\ \/ ownAt' = At("submit", 1) /\ UNCHANGED dtVars
       \/ StartFails /\ UNCHANGED ownAt
    /\ UNCHANGED <<inFlight, completed, result, sent, got, runAt, errors>>

UsbStartSubmit ==
    LET i == ownAt.i IN
    /\ ownAt.place = "submit"
    /\ \/ /\ SubmitWorks(i)
          /\ \/ i < NTransfers /\ ownAt' = At("submit", i + 1) /\ UNCHANGED dtVars
             \/ i = NTransfers /\ ownAt' = Outside /\ StartSpawn
       \/ SubmitFails(i) /\ ownAt' = Outside /\ StartFails
    /\ UNCHANGED <<sent, got, runAt, errors>>

-----------------------------------------------------------------------------
(* stop_impl: every transfer is cancelled and waited for in turn.          *)

Owner(at) == ownAt' = at /\ UNCHANGED <<runAt, errors>>
Runner(at) == runAt' = at /\ UNCHANGED <<ownAt, errors>>
RunnerStops ==
    /\ runAt' = At("stop.cancel", 1)
    /\ errors' = [errors EXCEPT !.run = FALSE]
    /\ UNCHANGED ownAt

\* cancel or wait_completion throws, which they do for a transfer that libusb has.
StopMayFail(at) == at.place \in {"stop.cancel", "stop.wait"} /\ ~completed[at.i]

UsbStop ==
    /\ call = "stop.impl" /\ ownAt = Outside
    /\ ownAt' = At("stop.cancel", 1)
    /\ errors' = [errors EXCEPT !.own = FALSE]
    /\ UNCHANGED <<dtVars, inFlight, completed, result, sent, got, runAt>>

UsbStopCancel ==
    /\ ownAt.place = "stop.cancel"
    /\ Cancel(ownAt.i) /\ Owner(At("stop.wait", ownAt.i))
    /\ UNCHANGED dtVars

\* After the last transfer stop_impl throws when one of them has failed, and
\* stop() detaches the thread.
OwnerNext(error) ==
    /\ \/ ownAt.i < NTransfers /\ ownAt' = At("stop.cancel", ownAt.i + 1) /\ UNCHANGED dtVars
       \/ ownAt.i = NTransfers /\ ownAt' = Outside /\ ~error /\ StopImpl
       \/ ownAt.i = NTransfers /\ ownAt' = Outside /\ error /\ StopDetach
    /\ errors' = [errors EXCEPT !.own = error]
    /\ UNCHANGED <<inFlight, completed, result, sent, got, runAt>>

UsbStopWait ==
    /\ ownAt.place = "stop.wait" /\ completed[ownAt.i]
    /\ OwnerNext(errors.own)

UsbStopFails == StopMayFail(ownAt) /\ OwnerNext(TRUE)

-----------------------------------------------------------------------------
(* run_impl.                                                               *)

InRun(t, place) == pc[t] = "run" /\ runAt.place = place

\* while (!should_stop()) run_transfers()
RunLoop(t) ==
    /\ InRun(t, "outside")
    /\ \/ ShouldStop /\ RunReturn(t) /\ UNCHANGED runAt
       \/ ~ShouldStop /\ runAt' = At("wait", 1) /\ UNCHANGED dtVars
    /\ UNCHANGED <<inFlight, completed, result, sent, got, ownAt, errors>>

\* Slip: any transfer that has completed is looked at, not the next one.
RunWaitAny(t) ==
    /\ InRun(t, "wait")
    /\ \E i \in Transfers :
          /\ completed[i]
          /\ Runner(IF ShouldStop THEN Outside ELSE At("look", i))
    /\ UNCHANGED <<dtVars, inFlight, completed, result, sent, got>>

\* A completed transfer is looked at, unless the thread has to stop.
RunWait(t) ==
    /\ InRun(t, "wait") /\ completed[runAt.i]
    /\ Runner(IF ShouldStop THEN Outside ELSE At("look", runAt.i))
    /\ UNCHANGED <<dtVars, inFlight, completed, result, sent, got>>

\* The wait throws: all transfers are stopped.
RunWaitFails(t) ==
    /\ InRun(t, "wait") /\ ~completed[runAt.i]
    /\ RunnerStops
    /\ UNCHANGED <<dtVars, inFlight, completed, result, sent, got>>

\* Slip: an error ends run_impl without stop_impl.
RunLookNoStop(t) ==
    LET r == result[runAt.i] IN
    /\ InRun(t, "look")
    /\ \/ r.status = "timeout" /\ Runner(At("submit", runAt.i)) /\ UNCHANGED <<dtVars, got>>
       \/ r.status = "data" /\ got' = r.packet /\ Runner(At("submit", runAt.i)) /\ UNCHANGED dtVars
       \/ r.status = "cancelled" /\ Runner(Outside) /\ RunReturn(t) /\ UNCHANGED got
       \/ r.status = "error" /\ Runner(Outside) /\ RunThrows(t) /\ UNCHANGED got
    /\ UNCHANGED <<inFlight, completed, result, sent>>

\* A timeout has no data; data goes to the callbacks before its transfer is
\* queued again; a cancelled transfer ends run_impl, another error stops all.
RunLook(t) ==
    LET r == result[runAt.i] IN
    /\ InRun(t, "look")
    /\ \/ r.status = "timeout" /\ Runner(At("submit", runAt.i)) /\ UNCHANGED <<dtVars, got>>
       \/ r.status = "data" /\ got' = r.packet /\ Runner(At("submit", runAt.i)) /\ UNCHANGED dtVars
       \/ r.status = "cancelled" /\ Runner(Outside) /\ RunReturn(t) /\ UNCHANGED got
       \/ r.status = "error" /\ RunnerStops /\ UNCHANGED <<dtVars, got>>
    /\ UNCHANGED <<inFlight, completed, result, sent>>

RunSubmit(t) ==
    LET i == runAt.i IN
    /\ InRun(t, "submit")
    /\ \/ SubmitWorks(i) /\ Runner(IF i < NTransfers THEN At("wait", i + 1) ELSE Outside)
       \/ SubmitFails(i) /\ RunnerStops
    /\ UNCHANGED <<dtVars, sent, got>>

\* stop_impl, and the exception goes on, or that of stop_impl does.
RunStopCancel(t) ==
    /\ InRun(t, "stop.cancel")
    /\ Cancel(runAt.i) /\ Runner(At("stop.wait", runAt.i))
    /\ UNCHANGED dtVars

RunnerNext(t, error) ==
    /\ \/ runAt.i < NTransfers /\ runAt' = At("stop.cancel", runAt.i + 1) /\ UNCHANGED dtVars
       \/ runAt.i = NTransfers /\ runAt' = Outside /\ RunThrows(t)
    /\ errors' = [errors EXCEPT !.run = error]
    /\ UNCHANGED <<inFlight, completed, result, sent, got, ownAt>>

RunStopWait(t) ==
    /\ InRun(t, "stop.wait") /\ completed[runAt.i]
    /\ RunnerNext(t, errors.run)

RunStopFails(t) == pc[t] = "run" /\ StopMayFail(runAt) /\ RunnerNext(t, TRUE)

TransferThread(t) ==
    \/ RunLoop(t) \/ RunWait(t) \/ RunLook(t) \/ RunSubmit(t)
    \/ RunStopCancel(t) \/ RunStopWait(t)
    \/ /\ \/ StartedCallbacks(t) \/ TestStop(t) \/ ClearSuspend(t) \/ EnterRun(t)
          \/ TestSuspend(t) \/ ErrorCallbacks(t) \/ ThreadNotifyStop(t)
          \/ StoppedCallbacks(t)
       /\ UNCHANGED usbVars

NoneDetached == \A t \in Threads : pc[t] # "none" => t = thread
OwnerCalls == ((StartCall /\ NoneDetached) \/ StopCall) /\ UNCHANGED usbVars

\* The steps of a call the owner has made.
OwnerSteps ==
    \/ UsbStart \/ UsbStartSubmit \/ UsbStop \/ UsbStopCancel \/ UsbStopWait
    \/ (StartJoin \/ StartReset \/ StopNotify \/ StopJoin) /\ UNCHANGED usbVars

Libusb(i) == UsbTimeout(i) \/ UsbCancelled(i)

Next ==
    \/ OwnerCalls \/ OwnerSteps \/ UsbStopFails
    \/ \E t \in Threads : TransferThread(t) \/ RunWaitFails(t) \/ RunStopFails(t)
    \/ \E i \in Transfers : Libusb(i) \/ UsbError(i)
    \/ UsbData

\* Threads are scheduled; a transfer has a timeout, so libusb completes it
\* while events are handled.  Nothing has to fail, and nothing says that the
\* owner is scheduled while the transfer it waits for is not queued.
Fairness ==
    /\ \A t \in Threads : WF_vars(TransferThread(t))
    /\ \A i \in Transfers : WF_vars(Libusb(i))
    /\ WF_vars(OwnerSteps)

Safety == Init /\ [][Next]_vars
Spec == Safety /\ Fairness

-----------------------------------------------------------------------------
\* The values of the variables.  completion_ is what its comment says: "A
\* transfer is completed as long as it is not queued".
TypeOK ==
    /\ DTTypeOK
    /\ IsInjective(inFlight)
    /\ completed = [i \in Transfers |-> ~Queued(i)]
    /\ \A i \in Transfers :
          result[i] \in [status : {"none", "data", "timeout", "error", "cancelling",
                                   "cancelled"}, packet : 0..MaxData]
    /\ sent \in 0..MaxData /\ got \in 0..sent
    /\ {runAt.i, ownAt.i} \subseteq Transfers
    /\ runAt.place \in {"outside", "wait", "look", "submit", "stop.cancel", "stop.wait"}
    /\ ownAt.place \in {"outside", "submit", "stop.cancel", "stop.wait"}
    /\ errors \in [run : BOOLEAN, own : BOOLEAN]

\* transfer_data is given the packets in the order the device sent them, and
\* while the thread is at it none is left out: "The transferred buffer must
\* hold coherent and continuous data".  The ring is walked in the order of
\* the submissions, whichever transfers time out on the way.
DataContinuous ==
    [][got' # got => /\ got' > got
                     /\ \A i \in Transfers :
                           (i # runAt.i /\ completed[i] /\ result[i].status = "data")
                               => result[i].packet > got']_vars

\* A run that ends with an error leaves no transfer to libusb, whatever the
\* owner does meanwhile, unless cancelling them has failed as well.
ErrorLeavesNone ==
    \A t \in Threads : pc[t] = "error" /\ ~errors.run => inFlight = <<>>

\* When stop_impl has returned no transfer is left to libusb: "cancelled
\* transfers are not re-queued and remain in completed state".  A transfer
\* that has completed with data just before it is cancelled is queued again
\* by run_impl, which does not know yet that it has to stop.
StopLeavesNone == call \in {"stop.notify", "stop.join"} => inFlight = <<>>

\* stop() waits for nothing that never comes: one that does not return finds the
\* transfer it waits for completed, and queued again by run_impl before it looks,
\* over and over.  Scheduling the threads fairly does not rule this out, as the token
\* is up only between two submissions until stop() sets stop_, after stop_impl.
StopReturnsUnlessOvertaken ==
    [](call = "stop.impl" =>
          \/ <>(call = "idle")
          \/ []<>(ownAt.place = "stop.wait" /\ completed[ownAt.i]))
=============================================================================

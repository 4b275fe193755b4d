---------------------------- MODULE EventsStream ----------------------------
(***************************************************************************)
(* The events stream, hal/cpp/src/facilities/i_events_stream.cpp, composed *)
(* with the transfer thread of DataTransfer and with its producer: that of *)
(* a recording, hal/cpp/src/utils/file_raw_data_producer.cpp, which can be *)
(* sought and keeps its data when stopped, or that of a device, which      *)
(* sends when it likes, may fail, and whose data ends with stop().         *)
(*                                                                         *)
(* Three actors share the state.  The user calls start(), stop() and       *)
(* seek() one at a time; the consumer loops over wait_next_buffer() and    *)
(* get_latest_raw_data(); the transfer thread runs its producer. A section *)
(* under one mutex is one action; a mutex held across a blocking call      *)
(* (seek_mutex_ and stream_mutex_ while the pool is empty) is read off the *)
(* program counter of its holder.                                          *)
(*                                                                         *)
(* The file is the chunks 1..NChunks, one per read; a bookmark is the      *)
(* chunk its byte offset points at.  A buffer is its chunk and whether it  *)
(* comes from the bounded pool or is a clone on the heap.  What a device  *)
(* sends is not told apart: its chunk is 1.                                *)
(***************************************************************************)
EXTENDS DataTransfer, Naturals, Sequences, FiniteSets

CONSTANTS NChunks,    \* number of reads the file holds
          Bookmarks,  \* the positions that the index maps timestamps to
          PoolSize,   \* number of buffers of the producer's bounded pool
          SeekAnyTime \* FALSE: seek() is not called while the transfer thread
                      \* is between its callbacks and run_impl

ASSUME StreamAssumption ==
    /\ NChunks \in Nat /\ PoolSize \in Nat \ {0}
    /\ Bookmarks \subseteq Nat \ {0}
    /\ SeekAnyTime \in BOOLEAN

VARIABLES
    streamStop, \* I_EventsStream::stop_
    seeking_,   \* I_EventsStream::seeking_
    queue,      \* available_buffers_
    connError,  \* data_transfer_connection_error_ is set
    user,       \* where the user is in start(), stop() or seek()
    target,     \* the byte offset of the bookmark that seek() chose
    cons,       \* where the consumer is
    held,       \* pool buffers that the consumer holds: 0 or 1
    rp,         \* where the transfer thread is in run_impl
    free,       \* buffers in the pool
    seekBuffer, \* seek_buffer_ is not null
    chunk,      \* the data read and not yet transferred, 0 for none
    pos,        \* the position of the file stream
    fseeking,   \* FileRawDataProducer::seeking_
    cursor,     \* history: the position the next data must come from
    got,        \* history: the position of the data last returned
    asked,      \* history: start() or a seek has been asked for since stop()
    broken      \* history: the device has failed without an error that the
                \* stream keeps, or while stop() was waiting for it

producerVars == <<rp, free, seekBuffer, chunk, pos, fseeking>>
history == <<cursor, got, asked, broken>>
streamVars == <<streamStop, seeking_, queue, connError, user, target, cons, held,
                producerVars, history>>
vars == <<dtVars, streamVars>>

UserPc == {"idle", "start.transfer", "start.wait", "stop.transfer", "stop.wait",
           "seek.release", "seek.suspend", "seek.wait", "seek.free", "seek.move",
           "seek.unblock", "seek.clear", "seek.restart", "seek.restarting",
           "seek.failed", "seek.done", "seek.resume"}
ConsPc == {"idle", "asleep", "woken", "ready", "ended", "failed"}
RunPc == {"top", "gate", "refill", "lock", "acquire", "deliver"}
Buffer == [chunk : 1..NChunks \cup {1}, pooled : BOOLEAN]

Init ==
    /\ DTInit
    /\ streamStop = TRUE /\ seeking_ = FALSE
    /\ queue = <<>> /\ connError = FALSE
    /\ user = "idle" /\ target = 1
    /\ cons = "idle" /\ held = 0
    /\ rp = "top" /\ seekBuffer = Seekable
    /\ free = IF Seekable THEN PoolSize - 1 ELSE PoolSize
    /\ chunk = 0 /\ pos = 1 /\ fseeking = FALSE
    /\ cursor = 1 /\ got = 0 /\ asked = FALSE
    /\ broken = FALSE

Pooled(q) == Cardinality({i \in DOMAIN q : q[i].pooled})
Cloned(q) == [i \in DOMAIN q |-> [q[i] EXCEPT !.pooled = FALSE]]

\* new_buffer_cond_.notify_all()
Notify == cons' = IF cons = "asleep" THEN "woken" ELSE cons

-----------------------------------------------------------------------------
(* The run_impl of a recording's producer, driven by the transfer thread.  *)

InRun(t, from) == pc[t] = "run" /\ rp = from
StreamUnchanged == UNCHANGED <<streamStop, seeking_, queue, connError, user,
                               target, cons, held, history>>

\* while (!should_stop()): every producer's run_impl returns when it sees it.
RunTop(t) ==
    /\ InRun(t, "top")
    /\ \/ ShouldStop /\ RunReturn(t) /\ rp' = rp
       \/ ~ShouldStop /\ Seekable /\ rp' = "gate" /\ UNCHANGED dtVars
    /\ StreamUnchanged
    /\ UNCHANGED <<free, seekBuffer, chunk, pos, fseeking>>

\* Under seek_mutex_: wait for the file's seek to be over; without a slack
\* buffer, go and take one with the mutex held.
RunGate(t) ==
    /\ InRun(t, "gate") /\ ~fseeking
    /\ rp' = IF seekBuffer THEN "lock" ELSE "refill"
    /\ StreamUnchanged
    /\ UNCHANGED <<dtVars, free, seekBuffer, chunk, pos, fseeking>>

RunRefill(t) ==
    /\ InRun(t, "refill") /\ free > 0
    /\ free' = free - 1 /\ seekBuffer' = TRUE
    /\ rp' = "lock"
    /\ StreamUnchanged
    /\ UNCHANGED <<dtVars, chunk, pos, fseeking>>

\* stream_mutex_ is taken, and kept until the data is transferred.
RunLock(t) ==
    /\ InRun(t, "lock") /\ rp' = "acquire"
    /\ StreamUnchanged
    /\ UNCHANGED <<dtVars, free, seekBuffer, chunk, pos, fseeking>>

\* A buffer is acquired and filled; at the end of the file it goes back and
\* run_impl returns.
RunRead(t) ==
    /\ InRun(t, "acquire") /\ free > 0
    /\ \/ /\ pos <= NChunks
          /\ chunk' = pos /\ pos' = pos + 1
          /\ free' = free - 1
          /\ rp' = "deliver"
          /\ UNCHANGED dtVars
       \/ /\ pos > NChunks
          /\ rp' = "top" /\ RunReturn(t)
          /\ UNCHANGED <<free, chunk, pos>>
    /\ StreamUnchanged
    /\ UNCHANGED <<seekBuffer, fseeking>>

\* Slip: the consumer is not notified of a new buffer.
RunDeliverSilent(t) ==
    /\ InRun(t, "deliver") /\ rp' = "top" /\ chunk' = 0
    /\ LET keep == ~seeking_ /\ ~streamStop IN
       /\ queue' = Append(queue, [chunk |-> chunk, pooled |-> keep])
       /\ free' = IF keep THEN free ELSE free + 1
    /\ UNCHANGED <<dtVars, streamStop, seeking_, connError, user, target, cons,
                   held, history, seekBuffer, pos, fseeking>>

\* transfer_data and the new-buffer callback: while a seek is in progress or
\* the stream is stopped the data is cloned and its buffer goes back to the
\* pool, and the consumer is not woken.
RunDeliver(t) ==
    /\ InRun(t, "deliver") /\ rp' = "top" /\ chunk' = 0
    /\ LET keep == ~seeking_ /\ ~streamStop IN
       /\ queue' = Append(queue, [chunk |-> chunk, pooled |-> keep])
       /\ free' = IF keep THEN free ELSE free + 1
       /\ IF keep THEN Notify ELSE cons' = cons
    /\ UNCHANGED <<dtVars, streamStop, seeking_, connError, user, target, held,
                   history, seekBuffer, pos, fseeking>>

RunStep(t) == RunTop(t) \/ RunGate(t) \/ RunRefill(t) \/ RunLock(t)
              \/ RunRead(t) \/ RunDeliver(t)

-----------------------------------------------------------------------------
(* A device: data comes at any time while its run_impl runs, and is lost   *)
(* when the pool has no buffer for it.                                     *)

\* Slip: data that comes after stop() is kept, as that of a recording is.
DeviceSendsAlways(t) ==
    /\ ~Seekable /\ pc[t] = "run" /\ free > 0
    /\ queue' = Append(queue, [chunk |-> 1, pooled |-> ~streamStop])
    /\ free' = IF streamStop THEN free ELSE free - 1
    /\ IF streamStop THEN cons' = cons ELSE Notify
    /\ UNCHANGED <<dtVars, streamStop, seeking_, connError, user, target, held,
                   history, rp, seekBuffer, chunk, pos, fseeking>>

\* The new-buffer callback, under new_buffer_safety_: what comes when the
\* stream is stopped goes back to the pool, which changes nothing.
DeviceSends(t) ==
    /\ ~Seekable /\ pc[t] = "run" /\ free > 0 /\ ~streamStop
    /\ queue' = Append(queue, [chunk |-> 1, pooled |-> TRUE])
    /\ free' = free - 1
    /\ Notify
    /\ UNCHANGED <<dtVars, streamStop, seeking_, connError, user, target, held,
                   history, rp, seekBuffer, chunk, pos, fseeking>>

\* run_impl throws, or gives up and returns though nobody told it to stop.
DeviceFails(t) ==
    \/ RunThrows(t) /\ UNCHANGED streamVars
    \/ /\ ~Seekable /\ ~ShouldStop /\ RunReturn(t) /\ broken' = TRUE
       /\ UNCHANGED <<streamStop, seeking_, queue, connError, user, target, cons,
                      held, producerVars, cursor, got, asked>>

\* The transfer error callback keeps the loss of the connection and ignores
\* every other error.
StreamError(t) ==
    /\ ErrorCallbacks(t)
    /\ \/ connError' = TRUE /\ broken' = broken
       \/ connError' = connError /\ broken' = TRUE
    /\ UNCHANGED <<streamStop, seeking_, queue, user, target, cons, held,
                   producerVars, cursor, got, asked>>

-----------------------------------------------------------------------------
(* The stream's status callback, called by the transfer thread.            *)

StreamStarted(t) == ~seeking_ /\ StartedCallbacks(t) /\ UNCHANGED streamVars

\* Slip: the end of the transfers counts during a seek too.
StreamStoppedAlways(t) ==
    /\ StoppedCallbacks(t)
    /\ streamStop' = TRUE /\ Notify
    /\ UNCHANGED <<seeking_, queue, connError, user, target, held,
                   producerVars, history>>

StreamStopped(t) ==
    /\ StoppedCallbacks(t)
    /\ IF seeking_ THEN UNCHANGED <<streamStop, cons>>
                   ELSE streamStop' = TRUE /\ Notify
    /\ UNCHANGED <<seeking_, queue, connError, user, target, held,
                   producerVars, history>>

TransferThread(t) ==
    \/ StreamStarted(t) \/ StreamStopped(t) \/ StreamError(t) \/ RunStep(t)
    \/ /\ \/ TestStop(t) \/ ClearSuspend(t) \/ EnterRun(t) \/ TestSuspend(t)
          \/ LeaveRun(t) \/ AwaitResume(t) \/ ThreadNotifyStop(t)
       /\ UNCHANGED streamVars

-----------------------------------------------------------------------------
(* start() and stop().                                                     *)

UserGoto(from, to) == user = from /\ user' = to

StreamStart ==
    /\ UserGoto("idle", "start.transfer")
    /\ streamStop' = FALSE /\ asked' = TRUE
    /\ UNCHANGED <<dtVars, seeking_, queue, connError, target, cons, held,
                   producerVars, cursor, got, broken>>

\* data_transfer_.start(), and start_device() once it has returned.
StreamStartTransfer ==
    /\ \/ UserGoto("start.transfer", "start.wait") /\ StartCall
       \/ /\ UserGoto("start.transfer", "idle")
          /\ thread # NoThread /\ ~stop_
          /\ UNCHANGED dtVars
    /\ UNCHANGED <<streamStop, seeking_, queue, connError, target, cons, held,
                   producerVars, history>>

\* The queue of a device is emptied, that of a recording copied out of the
\* pool; then the flag and the notification, all under new_buffer_safety_.
StreamStopCall ==
    /\ UserGoto("idle", "stop.transfer")
    /\ queue' = IF Seekable THEN Cloned(queue) ELSE <<>>
    /\ free' = free + Pooled(queue)
    /\ streamStop' = TRUE /\ Notify
    /\ asked' = FALSE
    /\ UNCHANGED <<dtVars, seeking_, connError, target, held, rp, seekBuffer,
                   chunk, pos, fseeking, cursor, got, broken>>

StreamStopTransfer ==
    /\ \/ UserGoto("stop.transfer", "stop.wait") /\ StopCall
       \/ UserGoto("stop.transfer", "idle") /\ thread = NoThread /\ UNCHANGED dtVars
    /\ UNCHANGED <<streamStop, seeking_, queue, connError, target, cons, held,
                   producerVars, history>>

\* The call into DataTransfer has returned.
StreamReturn ==
    /\ call = "idle"
    /\ \/ UserGoto("start.wait", "idle")
       \/ UserGoto("stop.wait", "idle")
       \/ UserGoto("seek.restarting", "seek.done")
    /\ UNCHANGED <<dtVars, streamStop, seeking_, queue, connError, target,
                   cons, held, producerVars, history>>

\* The steps of start() and stop() inside DataTransfer; what a device's
\* start_impl or stop_impl throws leaves start() or stop().
TransferCall ==
    \/ /\ \/ StartJoin \/ StartReset \/ StartSpawn \/ StartFails
          \/ StopImpl \/ StopNotify \/ StopJoin
       /\ UNCHANGED streamVars
    \/ /\ StopDetach /\ broken' = TRUE
       /\ UNCHANGED <<streamStop, seeking_, queue, connError, user, target,
                      cons, held, producerVars, cursor, got, asked>>

-----------------------------------------------------------------------------
(* seek(), for a timestamp whose bookmark the index has.                   *)

OnTheWayIn == \E t \in Threads : pc[t] \in {"test", "clear", "enter", "await"}

SeekBegin ==
    /\ Seekable /\ (SeekAnyTime \/ ~OnTheWayIn)
    /\ UserGoto("idle", "seek.release")
    /\ target' \in Bookmarks
    /\ seeking_' = TRUE
    /\ UNCHANGED <<dtVars, streamStop, queue, connError, cons, held,
                   producerVars, history>>

\* Slip: the buffers of the pool are not given back before suspend().
SeekReleaseNothing ==
    /\ UserGoto("seek.release", "seek.suspend")
    /\ UNCHANGED <<dtVars, streamStop, seeking_, queue, connError, target,
                   cons, held, producerVars, history>>

\* Under new_buffer_safety_, so that the transfer thread never waits for a
\* buffer that the queue holds.
SeekRelease ==
    /\ UserGoto("seek.release", "seek.suspend")
    /\ queue' = Cloned(queue) /\ free' = free + Pooled(queue)
    /\ UNCHANGED <<dtVars, streamStop, seeking_, connError, target, cons, held,
                   rp, seekBuffer, chunk, pos, fseeking, history>>

\* data_transfer_.suspend() is called, and returns.
SeekSuspend ==
    /\ \/ UserGoto("seek.suspend", "seek.wait") /\ SuspendSet
       \/ UserGoto("seek.wait", "seek.free") /\ SuspendReturn
    /\ UNCHANGED <<streamStop, seeking_, queue, connError, target, cons, held,
                   producerVars, history>>

\* Slip: the slack buffer is given back twice.
SeekFreesTwice ==
    /\ rp # "refill"
    /\ UserGoto("seek.free", "seek.move")
    /\ fseeking' = TRUE
    /\ free' = free + 1 /\ seekBuffer' = FALSE
    /\ UNCHANGED <<dtVars, streamStop, seeking_, queue, connError, target,
                   cons, held, rp, chunk, pos, history>>

\* FileRawDataProducer::seek: a position outside of the file fails at once;
\* otherwise the slack buffer goes back to the pool under seek_mutex_, which
\* the thread holds while it refills it.
SeekFree ==
    /\ \/ /\ target > NChunks + 1
          /\ UserGoto("seek.free", "seek.failed")
          /\ UNCHANGED <<fseeking, seekBuffer, free>>
       \/ /\ target <= NChunks + 1
          /\ rp # "refill"
          /\ UserGoto("seek.free", "seek.move")
          /\ fseeking' = TRUE
          /\ free' = IF seekBuffer THEN free + 1 ELSE free
          /\ seekBuffer' = FALSE
    /\ UNCHANGED <<dtVars, streamStop, seeking_, queue, connError, target,
                   cons, held, rp, chunk, pos, history>>

\* Under stream_mutex_: the file moves, unless there is nothing to read there.
SeekMove ==
    /\ UserGoto("seek.move", "seek.unblock")
    /\ rp \notin {"acquire", "deliver"}
    /\ pos' = IF target <= NChunks THEN target ELSE pos
    /\ UNCHANGED <<dtVars, streamStop, seeking_, queue, connError, target,
                   cons, held, rp, free, seekBuffer, chunk, fseeking, history>>

\* The thread may read again, and seek returns whether the file has moved.
SeekUnblock ==
    /\ UserGoto("seek.unblock",
                IF target <= NChunks THEN "seek.clear" ELSE "seek.failed")
    /\ fseeking' = FALSE
    /\ UNCHANGED <<dtVars, streamStop, seeking_, queue, connError, target,
                   cons, held, rp, free, seekBuffer, chunk, pos, history>>

\* Slip: the data read before the seek stays in the queue.
SeekKeepsQueue ==
    /\ UserGoto("seek.clear", "seek.restart")
    /\ streamStop' = FALSE /\ asked' = TRUE
    /\ cursor' = target
    /\ UNCHANGED <<dtVars, queue, seeking_, connError, target, cons, held,
                   producerVars, got, broken>>

\* Success: the queue is emptied, and the stream is no longer at its end.
SeekClear ==
    /\ UserGoto("seek.clear", "seek.restart")
    /\ queue' = <<>> /\ free' = free + Pooled(queue)
    /\ streamStop' = FALSE /\ asked' = TRUE
    /\ cursor' = target
    /\ UNCHANGED <<dtVars, seeking_, connError, target, cons, held, rp,
                   seekBuffer, chunk, pos, fseeking, got, broken>>

\* if (data_transfer_.stopped()) data_transfer_.start()
SeekRestart ==
    /\ \/ UserGoto("seek.restart", "seek.restarting") /\ stop_ /\ StartCall
       \/ UserGoto("seek.restart", "seek.done") /\ ~stop_ /\ UNCHANGED dtVars
    /\ UNCHANGED <<streamStop, seeking_, queue, connError, target, cons, held,
                   producerVars, history>>

\* Slip: a Stopped status ignored during a failed seek is not made up for.
SeekForgetsEnd ==
    /\ UserGoto("seek.failed", "seek.done")
    /\ UNCHANGED <<dtVars, streamStop, seeking_, queue, connError, target,
                   cons, held, producerVars, history>>

\* Failure: the status change that was ignored meanwhile is caught up with.
SeekFailed ==
    /\ UserGoto("seek.failed", "seek.done")
    /\ IF stop_ THEN streamStop' = TRUE /\ Notify
                ELSE UNCHANGED <<streamStop, cons>>
    /\ UNCHANGED <<dtVars, seeking_, queue, connError, target, held,
                   producerVars, history>>

SeekDone ==
    /\ UserGoto("seek.done", "seek.resume")
    /\ seeking_' = FALSE
    /\ UNCHANGED <<dtVars, streamStop, queue, connError, target, cons, held,
                   producerVars, history>>

SeekResume ==
    /\ UserGoto("seek.resume", "idle") /\ Resume
    /\ UNCHANGED <<streamStop, seeking_, queue, connError, target, cons, held,
                   producerVars, history>>

SeekStep == SeekRelease \/ SeekSuspend \/ SeekFree \/ SeekMove \/ SeekUnblock
            \/ SeekClear \/ SeekRestart \/ SeekFailed \/ SeekDone \/ SeekResume

-----------------------------------------------------------------------------
(* The consumer.                                                           *)

ConsumerUnchanged == UNCHANGED <<dtVars, streamStop, seeking_, connError, user,
                                 target, rp, seekBuffer, chunk, pos, fseeking,
                                 asked, broken>>

\* wait_next_buffer(): throws if the connection was lost and the stream is
\* stopped, else 1 if there is data and -1 if the stream is stopped.
WaitNextBuffer ==
    /\ cons \in {"idle", "woken", "ended", "failed"}
    /\ cons' = IF streamStop /\ connError THEN "failed"
               ELSE IF queue # <<>> THEN "ready"
               ELSE IF streamStop THEN "ended" ELSE "asleep"
    /\ ConsumerUnchanged /\ UNCHANGED <<queue, held, free, cursor, got>>

\* poll_buffer() does the same, but returns 0 rather than wait.
PollBuffer ==
    /\ cons \in {"idle", "ended", "failed"}
    /\ cons' = IF streamStop /\ connError THEN "failed"
               ELSE IF queue # <<>> THEN "ready"
               ELSE IF streamStop THEN "ended" ELSE "idle"
    /\ ConsumerUnchanged /\ UNCHANGED <<queue, held, free, cursor, got>>

TakeHead ==
    /\ queue' = Tail(queue)
    /\ held' = IF Head(queue).pooled THEN 1 ELSE 0
    /\ IF Seekable
       THEN got' = Head(queue).chunk /\ cursor' = Head(queue).chunk + 1
       ELSE UNCHANGED <<cursor, got>>

\* Slip: the buffer returned before is never dropped.
GetKeepingBuffer ==
    /\ cons = "ready" /\ cons' = "idle" /\ queue # <<>>
    /\ TakeHead
    /\ ConsumerUnchanged /\ UNCHANGED free

\* get_latest_raw_data(): throws as wait_next_buffer() does; else the buffer
\* returned before is dropped for the next.  A seek or a stop may have emptied
\* the queue since the wait.
GetLatestRawData ==
    /\ cons = "ready"
    /\ \/ /\ streamStop /\ connError /\ cons' = "failed"
          /\ UNCHANGED <<queue, held, free, cursor, got>>
       \/ /\ ~(streamStop /\ connError) /\ cons' = "idle"
          /\ queue = <<>> /\ UNCHANGED <<queue, held, free, cursor, got>>
       \/ /\ ~(streamStop /\ connError) /\ cons' = "idle"
          /\ queue # <<>> /\ TakeHead
          /\ free' = free + held
    /\ ConsumerUnchanged

\* The consumer is done with its buffer before it asks for another.
DropBuffer ==
    /\ held = 1 /\ held' = 0 /\ free' = free + 1
    /\ ConsumerUnchanged /\ UNCHANGED <<queue, cons, cursor, got>>

ConsumerStep == WaitNextBuffer \/ PollBuffer \/ GetLatestRawData

-----------------------------------------------------------------------------
\* The steps of a call the user has made.
UserStep == StreamStartTransfer \/ StreamStopTransfer \/ StreamReturn
            \/ TransferCall \/ SeekStep

Next ==
    \/ StreamStart \/ StreamStopCall \/ SeekBegin \/ UserStep
    \/ \E t \in Threads : TransferThread(t) \/ DeviceSends(t) \/ DeviceFails(t)
    \/ ConsumerStep \/ DropBuffer

\* Every thread is scheduled and a call that can go on does.  Nobody has to
\* call start(), stop() or seek(), the consumer may stop reading, and a device
\* need neither send nor fail.
CallFairness ==
    /\ \A t \in Threads : WF_vars(TransferThread(t))
    /\ WF_vars(UserStep)

\* A consumer that is scheduled, though it need not drop a buffer early.
ConsumerReads == WF_vars(ConsumerStep)

Safety == Init /\ [][Next]_vars
Spec == Safety /\ CallFairness

-----------------------------------------------------------------------------
\* The values of the stream's own variables; DataTransfer has its own.
TypeOK ==
    /\ DTTypeOK
    /\ streamStop \in BOOLEAN /\ seeking_ \in BOOLEAN
    /\ queue \in Seq(Buffer) /\ connError \in BOOLEAN
    /\ user \in UserPc /\ target \in Bookmarks \cup {1}
    /\ cons \in ConsPc /\ held \in {0, 1}
    /\ rp \in RunPc /\ free \in 0..PoolSize /\ seekBuffer \in BOOLEAN
    /\ chunk \in 0..NChunks /\ pos \in 1..NChunks + 1 /\ fseeking \in BOOLEAN
    /\ cursor \in 1..NChunks + 1 /\ got \in 0..NChunks
    /\ asked \in BOOLEAN /\ broken \in BOOLEAN

\* No buffer of the pool is lost or returned twice, whoever drops it: each is
\* free, the producer's slack, being transferred, queued or with the consumer.
PoolConserved ==
    free + (IF seekBuffer THEN 1 ELSE 0) + (IF rp = "deliver" THEN 1 ELSE 0)
         + Pooled(queue) + held = PoolSize

\* The consumer is told the end only when it has been given all the data, or
\* when nobody wants data: wait_next_buffer's -1 is "no more events will ever
\* be available".  A device has no end: its consumer is told so only once
\* stopped, and the loss of the connection is thrown instead, unless another
\* error, that the stream does not keep, has ended the transfers.
EndMeansEnd == [][(cons # "ended" /\ cons' = "ended") =>
                      \/ ~asked
                      \/ Seekable /\ cursor = NChunks + 1
                      \/ ~Seekable /\ broken]_vars

\* Once stop() has been called on a device's stream nothing is left to read,
\* however the call interleaves with the data that comes until the transfer
\* thread ends: what the consumer gets after the next start() was sent after it.
StopEndsData == ~Seekable /\ ~asked => queue = <<>>

\* The stream is a cursor in the file: the doc of seek() and of
\* get_latest_raw_data().
Cursor == INSTANCE RecordingCursor WITH
    NChunks <- NChunks, Bookmarks <- Bookmarks, cursor <- cursor, got <- got
StreamIsCursor == Cursor!Spec

\* The header's promise for a seek that has succeeded and returned: the next
\* data read is the bookmark's.  (cursor # got + 1 says that nothing was read
\* since the seek.)  Data read while the thread should be suspended is
\* dropped with what preceded the seek.
SeekReachesBookmark ==
    [][(GetLatestRawData /\ queue # <<>> /\ user = "idle" /\ cursor # got + 1)
           => Head(queue).chunk = cursor]_vars

\* start(), stop() and seek() return: the thread that they join or suspend is
\* not left waiting for a buffer, nor for a mutex held meanwhile.
CallsReturn == (user # "idle") ~> (user = "idle")

\* No wake-up is lost: once the user leaves the stream alone, a consumer
\* asleep in wait_next_buffer does not stay there with data to read, at the
\* end of the stream or after the loss of the device, though data that came
\* during a seek did not wake it.
ConsumerWoken ==
    ConsumerReads /\ <>[](user = "idle") =>
        ((cons = "asleep" /\ (queue # <<>> \/ streamStop)) ~> (cons # "asleep"))

\* A recording that was started, and that the user then leaves alone, hands out
\* the file to its last byte and tells the end.
ReadsToTheEnd ==
    ConsumerReads /\ Seekable /\ <>[](user = "idle" /\ asked /\ thread # NoThread)
        => []<>(cons = "ended" /\ cursor = NChunks + 1)
=============================================================================

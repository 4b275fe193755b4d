------------------------- MODULE EventsStreamProofs -------------------------
(***************************************************************************)
(* The events stream, for any file, bookmarks, pool and number of thread   *)
(* slots, whatever the order in which the user, the consumer and the       *)
(* transfer threads take their steps: no buffer of the pool is lost or     *)
(* given back twice; nothing is left to read on the stream of a stopped    *)
(* device, though threads that a failing stop_impl has detached go on      *)
(* sending; a recording is handed out as a cursor that only a seek moves;  *)
(* and its end is told only when there is nothing left.                    *)
(*                                                                         *)
(* A seek() that finds the transfer thread on its way into run_impl loses  *)
(* data, so that the theorems about the cursor and the end are about the   *)
(* streams without SeekAnyTime; the others hold with it too.               *)
(***************************************************************************)
EXTENDS EventsStream, DataTransferProofs, FiniteSetTheorems, SequenceTheorems

-----------------------------------------------------------------------------
(* The stream of a stopped device.                                         *)

\* Why StopEndsData holds.  A device is never sought, and its run_impl is not
\* that of a recording, so that the steps that queue copies do not occur; and
\* while nobody has asked for data the flag that makes the new-buffer callback
\* drop it is set, by the same section that empties the queue.
DeviceUserPc == {"idle", "start.transfer", "start.wait", "stop.transfer", "stop.wait"}
DeviceSteps == user \in DeviceUserPc /\ rp = "top"
Silent == ~asked => streamStop /\ queue = <<>>
DeviceInv == ~Seekable => DeviceSteps /\ Silent

LEMMA DeviceInit == Init => DeviceInv
  BY DEF Init, DeviceInv, DeviceSteps, DeviceUserPc, Silent

\* The producer is given to the constructor.
LEMMA OneProducer == [Next]_vars => producer' = producer
<1>. SUFFICES ASSUME [Next]_vars PROVE producer' = producer
  OBVIOUS
<1>. USE DEF dtVars, flags
<1>1. CASE StreamStart \/ StreamStopCall \/ SeekBegin
  BY <1>1 DEF StreamStart, StreamStopCall, SeekBegin
<1>2. CASE UserStep
  <2>1. CASE StreamStartTransfer \/ StreamStopTransfer \/ StreamReturn
    BY <2>1 DEF StreamStartTransfer, StreamStopTransfer, StreamReturn, StartCall, StopCall
  <2>2. CASE TransferCall
    BY <2>2 DEF TransferCall, StartJoin, StartReset, StartSpawn, StartFails,
       StopImpl, StopDetach, StopNotify, StopJoin, Join
  <2>3. CASE SeekStep
    BY <2>3 DEF SeekStep, SeekRelease, SeekSuspend, SeekFree, SeekMove, SeekUnblock,
       SeekClear, SeekRestart, SeekFailed, SeekDone, SeekResume,
       SuspendSet, SuspendReturn, StartCall, Resume
  <2>. QED BY <1>2, <2>1, <2>2, <2>3 DEF UserStep
<1>3. ASSUME NEW t \in Threads,
             TransferThread(t) \/ DeviceSends(t) \/ DeviceFails(t)
      PROVE  producer' = producer
  <2>. USE DEF Goto
  <2>1. CASE StreamStarted(t) \/ StreamStopped(t) \/ StreamError(t)
    BY <2>1 DEF StreamStarted, StreamStopped, StreamError, StartedCallbacks,
       StoppedCallbacks, ErrorCallbacks
  <2>2. CASE RunStep(t)
    BY <2>2 DEF RunStep, RunTop, RunGate, RunRefill, RunLock, RunRead, RunDeliver, RunReturn
  <2>3. CASE TestStop(t) \/ ClearSuspend(t) \/ EnterRun(t) \/ TestSuspend(t)
             \/ LeaveRun(t) \/ AwaitResume(t) \/ ThreadNotifyStop(t)
    BY <2>3 DEF TestStop, ClearSuspend, EnterRun, TestSuspend, LeaveRun, AwaitResume,
       ThreadNotifyStop
  <2>4. CASE DeviceSends(t) \/ DeviceFails(t)
    BY <2>4 DEF DeviceSends, DeviceFails, RunThrows, RunReturn
  <2>. QED BY <1>3, <2>1, <2>2, <2>3, <2>4 DEF TransferThread
<1>4. CASE ConsumerStep \/ DropBuffer
  BY <1>4 DEF ConsumerStep, WaitNextBuffer, PollBuffer, GetLatestRawData, DropBuffer, ConsumerUnchanged
<1>5. CASE UNCHANGED vars
  BY <1>5 DEF vars
<1>. QED BY <1>1, <1>2, <1>3, <1>4, <1>5 DEF Next

\* Every step of a device's stream keeps the invariant; those of a recording
\* are not enabled.
LEMMA DeviceStep == DeviceInv /\ [Next]_vars => DeviceInv'
<1>. SUFFICES ASSUME ~Seekable, DeviceSteps, Silent, [Next]_vars
              PROVE  DeviceSteps' /\ Silent'
  BY OneProducer DEF DeviceInv, Seekable
<1>. USE DEF DeviceSteps, DeviceUserPc, Silent, UserGoto, Pooled, Cloned
<1>1. CASE StreamStart
  BY <1>1 DEF StreamStart, producerVars
<1>2. CASE StreamStopCall
  BY <1>2 DEF StreamStopCall
<1>3. CASE SeekBegin
  BY <1>3 DEF SeekBegin
<1>4. CASE UserStep
  <2>1. CASE StreamStartTransfer \/ StreamStopTransfer \/ StreamReturn
    BY <2>1 DEF StreamStartTransfer, StreamStopTransfer, StreamReturn, producerVars, history
  <2>2. CASE TransferCall
    BY <2>2 DEF TransferCall, streamVars, producerVars, history
  <2>3. CASE SeekStep
    BY <2>3 DEF SeekStep, SeekRelease, SeekSuspend, SeekFree, SeekMove, SeekUnblock,
       SeekClear, SeekRestart, SeekFailed, SeekDone, SeekResume
  <2>. QED BY <1>4, <2>1, <2>2, <2>3 DEF UserStep
<1>5. ASSUME NEW t \in Threads,
             TransferThread(t) \/ DeviceSends(t) \/ DeviceFails(t)
      PROVE  DeviceSteps' /\ Silent'
  <2>1. CASE StreamStarted(t)
    BY <2>1 DEF StreamStarted, streamVars, producerVars, history
  <2>2. CASE StreamStopped(t)
    BY <2>2 DEF StreamStopped, producerVars, history
  <2>3. CASE StreamError(t)
    BY <2>3 DEF StreamError, producerVars
  <2>4. CASE RunStep(t)
    BY <2>4 DEF RunStep, RunTop, RunGate, RunRefill, RunLock, RunRead, RunDeliver,
       InRun, StreamUnchanged, history
  <2>5. CASE (TestStop(t) \/ ClearSuspend(t) \/ EnterRun(t) \/ TestSuspend(t)
             \/ LeaveRun(t) \/ AwaitResume(t) \/ ThreadNotifyStop(t))
             /\ UNCHANGED streamVars
    BY <2>5 DEF streamVars, producerVars, history
  <2>6. CASE DeviceSends(t)
    BY <2>6 DEF DeviceSends, history
  <2>7. CASE DeviceFails(t)
    BY <2>7 DEF DeviceFails, streamVars, producerVars, history
  <2>. QED BY <1>5, <2>1, <2>2, <2>3, <2>4, <2>5, <2>6, <2>7 DEF TransferThread
<1>6. CASE ConsumerStep
  BY <1>6 DEF ConsumerStep, WaitNextBuffer, PollBuffer, GetLatestRawData, ConsumerUnchanged
<1>7. CASE DropBuffer
  BY <1>7 DEF DropBuffer, ConsumerUnchanged
<1>8. CASE UNCHANGED vars
  BY <1>8 DEF vars, streamVars, producerVars, history
<1>. QED BY <1>1, <1>2, <1>3, <1>4, <1>5, <1>6, <1>7, <1>8 DEF Next

\* Nothing is left to read on the stream of a stopped device, whatever the
\* order in which stop(), the transfer thread and detached threads take the
\* mutex new_buffer_safety_.
THEOREM StopLeavesNoData == Spec => []StopEndsData
<1>1. DeviceInv => StopEndsData
  BY DEF DeviceInv, Silent, StopEndsData
<1>. QED BY <1>1, DeviceInit, DeviceStep, PTL DEF Spec, Safety

-----------------------------------------------------------------------------
(* How many buffers of a queue belong to the pool.                         *)

Queued == [chunk : Nat, pooled : BOOLEAN]
PooledAt(q) == {i \in DOMAIN q : q[i].pooled}
One(b) == IF b.pooled THEN 1 ELSE 0

LEMMA PooledType ==
    ASSUME NEW q \in Seq(Queued)
    PROVE  /\ IsFiniteSet(PooledAt(q))
           /\ Pooled(q) = Cardinality(PooledAt(q))
           /\ Pooled(q) \in Nat
<1>1. IsFiniteSet(1..Len(q))
  BY FS_Interval
<1>2. PooledAt(q) \in SUBSET (1..Len(q))
  BY DEF PooledAt
<1>3. IsFiniteSet(PooledAt(q))
  BY <1>1, <1>2, FS_Subset
<1>. QED BY <1>3, FS_CardinalityType DEF Pooled, PooledAt

LEMMA PooledNat == \A q \in Seq(Queued) : Pooled(q) \in Nat
  BY PooledType, Zenon

LEMMA PooledEmpty == <<>> \in Seq(Queued) /\ Pooled(<<>>) = 0
<1>1. PooledAt(<<>>) = {}
  BY DEF PooledAt
<1>. QED BY <1>1, FS_EmptySet DEF Pooled, PooledAt

\* The push of the new-buffer callback.
LEMMA PooledAppend ==
    ASSUME NEW q \in Seq(Queued), NEW b \in Queued
    PROVE  /\ Append(q, b) \in Seq(Queued)
           /\ Pooled(Append(q, b)) = Pooled(q) + One(b)
<1>. DEFINE r == Append(q, b)
<1>1. /\ r \in Seq(Queued) /\ Len(r) = Len(q) + 1
      /\ r[Len(q) + 1] = b
      /\ \A i \in 1..Len(q) : r[i] = q[i]
  OBVIOUS
<1>2. PooledAt(r) = IF b.pooled THEN PooledAt(q) \cup {Len(q) + 1} ELSE PooledAt(q)
  BY <1>1 DEF PooledAt, Queued
<1>3. Len(q) + 1 \notin PooledAt(q)
  BY DEF PooledAt
<1>4. /\ IsFiniteSet(PooledAt(q)) /\ Pooled(q) = Cardinality(PooledAt(q))
      /\ Pooled(q) \in Nat /\ Pooled(r) = Cardinality(PooledAt(r))
  BY <1>1, PooledType
<1>5. Cardinality(PooledAt(q) \cup {Len(q) + 1}) = Cardinality(PooledAt(q)) + 1
  BY <1>3, <1>4, FS_AddElement
<1>6. CASE b.pooled
  BY <1>1, <1>2, <1>4, <1>5, <1>6 DEF One
<1>7. CASE ~b.pooled
  BY <1>1, <1>2, <1>4, <1>7 DEF One
<1>. QED BY <1>6, <1>7

\* release_data_transfer_buffers
LEMMA PooledCloned ==
    ASSUME NEW q \in Seq(Queued)
    PROVE  Cloned(q) \in Seq(Queued) /\ Pooled(Cloned(q)) = 0
<1>1. Cloned(q) \in Seq(Queued)
  <2>1. \A i \in DOMAIN q : q[i] \in Queued
    OBVIOUS
  <2>2. \A b \in Queued : [b EXCEPT !.pooled = FALSE] \in Queued
    BY DEF Queued
  <2>3. \A i \in DOMAIN q : [q[i] EXCEPT !.pooled = FALSE] \in Queued
    BY <2>1, <2>2, Zenon
  <2>4. Cloned(q) \in [DOMAIN q -> Queued]
    BY <2>3, Zenon DEF Cloned
  <2>5. Len(q) \in Nat /\ DOMAIN q = 1..Len(q)
    OBVIOUS
  <2>. QED BY <2>4, <2>5, SeqDef
<1>2. \A i \in DOMAIN Cloned(q) : ~Cloned(q)[i].pooled
  <2>1. \A b \in Queued : ~[b EXCEPT !.pooled = FALSE].pooled
    BY DEF Queued
  <2>2. \A i \in DOMAIN q : q[i] \in Queued
    OBVIOUS
  <2>. QED BY <2>1, <2>2, Zenon DEF Cloned
<1>3. PooledAt(Cloned(q)) = {}
  BY <1>2 DEF PooledAt
<1>. QED BY <1>1, <1>3, PooledType, FS_EmptySet

\* The pop of get_latest_raw_data.
LEMMA PooledTail ==
    ASSUME NEW q \in Seq(Queued), q # <<>>
    PROVE  /\ Head(q) \in Queued /\ Tail(q) \in Seq(Queued)
           /\ Pooled(q) = Pooled(Tail(q)) + One(Head(q))
<1>. DEFINE r == Tail(q)
            f == [i \in PooledAt(r) |-> i + 1]
            T == PooledAt(q) \ {1}
<1>1. /\ r \in Seq(Queued) /\ Len(r) = Len(q) - 1 /\ Len(q) \in Nat \ {0}
      /\ \A i \in 1..Len(r) : r[i] = q[i + 1]
      /\ Head(q) = q[1] /\ q[1] \in Queued
  OBVIOUS
<1>2. \A i \in PooledAt(r) : i \in Nat /\ i + 1 \in T
  BY <1>1 DEF PooledAt
<1>3. \A j \in T : j \in Nat /\ j - 1 \in PooledAt(r)
  BY <1>1 DEF PooledAt
<1>4. f \in Bijection(PooledAt(r), T)
  <2>1. f \in [PooledAt(r) -> T]
    BY <1>2
  <2>2. \A a, b \in DOMAIN f : f[a] = f[b] => a = b
    BY <1>2
  <2>3. \A j \in T : \E i \in PooledAt(r) : f[i] = j
    <3>. SUFFICES ASSUME NEW j \in T PROVE f[j - 1] = j /\ j - 1 \in PooledAt(r)
      OBVIOUS
    <3>. QED BY <1>3
  <2>. QED BY <2>1, <2>2, <2>3 DEF Bijection, Injection, Surjection, IsInjective
<1>5. /\ IsFiniteSet(PooledAt(q)) /\ Pooled(q) = Cardinality(PooledAt(q))
      /\ IsFiniteSet(PooledAt(r)) /\ Pooled(r) = Cardinality(PooledAt(r))
      /\ Pooled(q) \in Nat /\ Pooled(r) \in Nat
  BY <1>1, PooledType
<1>6. ExistsBijection(PooledAt(r), T)
  BY <1>4, Zenon DEF ExistsBijection
<1>7. Cardinality(T) = Pooled(r)
  BY <1>5, <1>6, FS_Bijection, Zenon
<1>8. 1 \in PooledAt(q) <=> Head(q).pooled
  BY <1>1 DEF PooledAt
<1>9. Cardinality(T) = IF 1 \in PooledAt(q) THEN Pooled(q) - 1 ELSE Pooled(q)
  BY <1>5, FS_RemoveElement
<1>10. Pooled(q) = Pooled(r) + One(Head(q))
  <2>1. CASE Head(q).pooled
    BY <2>1, <1>5, <1>7, <1>8, <1>9 DEF One
  <2>2. CASE ~Head(q).pooled
    BY <2>2, <1>5, <1>7, <1>8, <1>9 DEF One
  <2>. QED BY <2>1, <2>2
<1>. QED BY <1>1, <1>10

-----------------------------------------------------------------------------
(* The pool.                                                               *)

\* PoolConserved with the types it needs, and what the transfer thread knows
\* when it goes for a new slack buffer: nobody else gives it one.
PoolTypes ==
    /\ queue \in Seq(Queued) /\ free \in Nat /\ held \in {0, 1}
    /\ seekBuffer \in BOOLEAN /\ rp \in RunPc
    /\ chunk \in Nat /\ pos \in Nat /\ target \in Nat
    /\ streamStop \in BOOLEAN /\ seeking_ \in BOOLEAN
PoolInv ==
    /\ PoolTypes
    /\ rp = "refill" => ~seekBuffer
    /\ PoolConserved

LEMMA PoolInit == Init => PoolInv
<1>. SUFFICES ASSUME Init PROVE PoolInv
  OBVIOUS
<1>1. /\ queue \in Seq(Queued) /\ Pooled(queue) = 0
      /\ held = 0 /\ rp = "top" /\ chunk = 0 /\ pos = 1 /\ target = 1
      /\ streamStop = TRUE /\ seeking_ = FALSE
  BY PooledEmpty DEF Init
<1>2. CASE Seekable
  <2>1. seekBuffer = TRUE /\ free = PoolSize - 1
    BY <1>2 DEF Init
  <2>2. free \in Nat
    BY <2>1, StreamAssumption
  <2>3. PoolConserved
    BY <1>1, <2>1, StreamAssumption DEF PoolConserved
  <2>4. PoolTypes
    BY <1>1, <2>1, <2>2 DEF PoolTypes, RunPc
  <2>. QED BY <1>1, <2>3, <2>4 DEF PoolInv
<1>3. CASE ~Seekable
  <2>1. seekBuffer = FALSE /\ free = PoolSize
    BY <1>3 DEF Init
  <2>2. free \in Nat
    BY <2>1, StreamAssumption
  <2>3. PoolConserved
    BY <1>1, <2>1, StreamAssumption DEF PoolConserved
  <2>4. PoolTypes
    BY <1>1, <2>1, <2>2 DEF PoolTypes, RunPc
  <2>. QED BY <1>1, <2>3, <2>4 DEF PoolInv
<1>. QED BY <1>2, <1>3

LEMMA PoolUnchanged ==
    ASSUME PoolInv, streamStop' \in BOOLEAN, seeking_' \in BOOLEAN, target' \in Nat,
           UNCHANGED <<queue, held, rp, free, seekBuffer, chunk, pos>>
    PROVE  PoolInv'
BY DEF PoolInv, PoolTypes, PoolConserved

\* The producer of a recording.
LEMMA PoolRun ==
    ASSUME PoolInv, NEW t, RunStep(t)
    PROVE  PoolInv'
<1>. USE StreamAssumption DEF PoolInv, PoolTypes, PoolConserved, RunPc, InRun
<1>1. CASE RunTop(t)
  BY <1>1 DEF RunTop, StreamUnchanged
<1>2. CASE RunGate(t)
  BY <1>2 DEF RunGate, StreamUnchanged
<1>3. CASE RunRefill(t)
  BY <1>3, PooledNat DEF RunRefill, StreamUnchanged
<1>4. CASE RunLock(t)
  BY <1>4 DEF RunLock, StreamUnchanged
<1>5. CASE RunRead(t)
  BY SMTT(30), <1>5, PooledNat DEF RunRead, StreamUnchanged
<1>6. CASE RunDeliver(t)
  <2>. DEFINE keep == ~seeking_ /\ ~streamStop
              b == [chunk |-> chunk, pooled |-> keep]
  <2>1. b \in Queued /\ One(b) = IF keep THEN 1 ELSE 0
    BY DEF Queued, One
  <2>2. /\ rp = "deliver" /\ rp' = "top" /\ chunk' = 0
        /\ queue' = Append(queue, b)
        /\ free' = IF keep THEN free ELSE free + 1
        /\ UNCHANGED <<streamStop, seeking_, target, held, seekBuffer, pos>>
    BY <1>6 DEF RunDeliver
  <2>3. queue' \in Seq(Queued) /\ Pooled(queue') = Pooled(queue) + One(b)
    BY <2>1, <2>2, PooledAppend
  <2>4. Pooled(queue) \in Nat
    BY PooledNat
  <2>5. PoolTypes'
    BY <2>2, <2>3
  <2>6. Pooled(queue') + free' = Pooled(queue) + free + 1
    <3>1. CASE keep
      <4>1. One(b) = 1 /\ free' = free
        BY <2>1, <2>2, <3>1
      <4>. QED BY <4>1, <2>3, <2>4
    <3>2. CASE ~keep
      <4>1. One(b) = 0 /\ free' = free + 1
        BY <2>1, <2>2, <3>2
      <4>. QED BY <4>1, <2>3, <2>4
    <3>. QED BY <3>1, <3>2
  <2>7. Pooled(queue') \in Nat
    BY <2>3, PooledNat
  <2>8. PoolConserved'
    <3>. DEFINE slack == IF seekBuffer THEN 1 ELSE 0
    <3>1. slack \in Nat /\ free + slack + 1 + Pooled(queue) + held = PoolSize
      BY <2>2
    <3>2. free' + slack + 0 + Pooled(queue') + held = PoolSize
      <4>1. \A p, f, p1, f1, s, h, n \in Nat :
               f + s + 1 + p + h = n /\ p1 + f1 = p + f + 1
                   => f1 + s + 0 + p1 + h = n
        OBVIOUS
      <4>2. free \in Nat /\ free' \in Nat /\ held \in Nat /\ PoolSize \in Nat
        BY <2>5
      <4>. HIDE DEF slack, PoolInv, PoolTypes, PoolConserved
      <4>. QED BY <4>1, <4>2, <2>4, <2>6, <2>7, <3>1
    <3>3. (IF rp' = "deliver" THEN 1 ELSE 0) = 0 /\ slack' = slack /\ held' = held
      BY <2>2
    <3>. QED BY <3>2, <3>3
  <2>. QED BY <2>2, <2>5, <2>8
<1>. QED BY <1>1, <1>2, <1>3, <1>4, <1>5, <1>6 DEF RunStep

\* stop() and seek() give the buffers of the queue back.
LEMMA PoolReleased ==
    ASSUME PoolInv, streamStop' \in BOOLEAN,
           queue' = <<>> \/ queue' = Cloned(queue),
           free' = free + Pooled(queue),
           UNCHANGED <<seeking_, target, held, rp, seekBuffer, chunk, pos>>
    PROVE  PoolInv'
<1>1. queue \in Seq(Queued)
  BY DEF PoolInv, PoolTypes
<1>2. queue' \in Seq(Queued) /\ Pooled(queue') = 0
  <2>1. CASE queue' = <<>>
    BY <2>1, PooledEmpty, Zenon
  <2>2. CASE queue' = Cloned(queue)
    BY <2>2, <1>1, PooledCloned, Zenon
  <2>. QED BY <2>1, <2>2
<1>3. Pooled(queue) \in Nat
  BY <1>1, PooledNat
<1>4. PoolTypes'
  BY <1>2, <1>3 DEF PoolInv, PoolTypes
<1>5. PoolConserved'
  BY <1>2, <1>3 DEF PoolInv, PoolTypes, PoolConserved
<1>. QED BY <1>4, <1>5 DEF PoolInv

LEMMA PoolSeek ==
    ASSUME PoolInv, SeekStep
    PROVE  PoolInv'
<1>. USE DEF UserGoto, producerVars, history
<1>1. CASE SeekRelease
  BY <1>1, PoolReleased DEF SeekRelease, PoolInv, PoolTypes
<1>2. CASE SeekClear
  BY <1>2, PoolReleased DEF SeekClear
<1>3. CASE SeekFree
  <2>1. Pooled(queue) \in Nat
    BY PooledNat DEF PoolInv, PoolTypes
  <2>2. /\ UNCHANGED <<streamStop, seeking_, queue, target, held, rp, chunk, pos>>
        /\ rp = "refill" => seekBuffer' = seekBuffer
        /\ \/ UNCHANGED <<seekBuffer, free>>
           \/ /\ seekBuffer' = FALSE
              /\ free' = IF seekBuffer THEN free + 1 ELSE free
    BY <1>3 DEF SeekFree
  <2>3. PoolTypes'
    <3>1. free' \in Nat /\ seekBuffer' \in BOOLEAN
      <4>. seekBuffer \in BOOLEAN /\ free \in Nat
        BY DEF PoolInv, PoolTypes
      <4>1. CASE UNCHANGED <<seekBuffer, free>>
        BY <4>1
      <4>2. CASE seekBuffer' = FALSE /\ free' = IF seekBuffer THEN free + 1 ELSE free
        <5>1. seekBuffer' \in BOOLEAN
          BY <4>2
        <5>2. free' = free + 1 \/ free' = free
          BY <4>2, Zenon
        <5>. QED BY <5>1, <5>2
      <4>. QED BY <2>2, <4>1, <4>2
    <3>. QED BY <2>2, <3>1 DEF PoolInv, PoolTypes
  <2>4. PoolConserved'
    BY <2>1, <2>2 DEF PoolInv, PoolTypes, PoolConserved
  <2>. QED BY <2>2, <2>3, <2>4 DEF PoolInv
<1>4. CASE SeekMove
  BY <1>4 DEF SeekMove, PoolInv, PoolTypes, PoolConserved
<1>5. CASE SeekSuspend \/ SeekUnblock \/ SeekRestart \/ SeekFailed \/ SeekDone \/ SeekResume
  BY <1>5, PoolUnchanged DEF SeekSuspend, SeekUnblock, SeekRestart, SeekFailed,
     SeekDone, SeekResume, PoolInv, PoolTypes
<1>. QED BY <1>1, <1>2, <1>3, <1>4, <1>5 DEF SeekStep

LEMMA PoolConsumer ==
    ASSUME PoolInv, ConsumerStep \/ DropBuffer
    PROVE  PoolInv'
<1>. USE DEF ConsumerUnchanged
<1>1. CASE WaitNextBuffer \/ PollBuffer
  BY <1>1, PoolUnchanged DEF WaitNextBuffer, PollBuffer, PoolInv, PoolTypes
<1>2. CASE GetLatestRawData
  <2>1. CASE UNCHANGED <<queue, held, free>>
    BY <1>2, <2>1, PoolUnchanged DEF GetLatestRawData, PoolInv, PoolTypes
  <2>2. CASE queue # <<>> /\ TakeHead /\ free' = free + held
    <3>1. /\ Tail(queue) \in Seq(Queued)
          /\ Pooled(queue) = Pooled(Tail(queue)) + One(Head(queue))
      BY <2>2, PooledTail DEF PoolInv, PoolTypes
    <3>2. queue' = Tail(queue) /\ held' = One(Head(queue))
      BY <2>2 DEF TakeHead, One
    <3>3. Pooled(queue) \in Nat /\ Pooled(Tail(queue)) \in Nat
      BY <3>1, PooledNat DEF PoolInv, PoolTypes
    <3>4. UNCHANGED <<streamStop, seeking_, target, rp, seekBuffer, chunk, pos>>
      BY <1>2 DEF GetLatestRawData
    <3>5. One(Head(queue)) \in {0, 1}
      BY DEF One
    <3>6. PoolTypes'
      BY <2>2, <3>1, <3>2, <3>4, <3>5 DEF PoolInv, PoolTypes
    <3>7. PoolConserved'
      BY SMTT(30), <2>2, <3>1, <3>2, <3>3, <3>4, <3>5 DEF PoolInv, PoolTypes, PoolConserved
    <3>. QED BY <3>4, <3>6, <3>7 DEF PoolInv
  <2>. QED BY <1>2, <2>1, <2>2 DEF GetLatestRawData
<1>3. CASE DropBuffer
  BY <1>3, PooledNat DEF DropBuffer, PoolInv, PoolTypes, PoolConserved
<1>. QED BY <1>1, <1>2, <1>3 DEF ConsumerStep

LEMMA PoolStep == PoolInv /\ [Next]_vars => PoolInv'
<1>. SUFFICES ASSUME PoolInv, [Next]_vars PROVE PoolInv'
  OBVIOUS
<1>. USE DEF UserGoto, producerVars, history, streamVars
<1>1. CASE StreamStart
  BY <1>1, PoolUnchanged DEF StreamStart, PoolInv, PoolTypes
<1>2. CASE StreamStopCall
  BY <1>2, PoolReleased DEF StreamStopCall
<1>3. CASE SeekBegin
  BY <1>3, PoolUnchanged, StreamAssumption DEF SeekBegin, PoolInv, PoolTypes
<1>4. CASE UserStep
  <2>1. CASE StreamStartTransfer \/ StreamStopTransfer \/ StreamReturn \/ TransferCall
    BY <2>1, PoolUnchanged DEF StreamStartTransfer, StreamStopTransfer, StreamReturn,
       TransferCall, PoolInv, PoolTypes
  <2>. QED BY <1>4, <2>1, PoolSeek DEF UserStep
<1>5. ASSUME NEW t \in Threads,
             TransferThread(t) \/ DeviceSends(t) \/ DeviceFails(t)
      PROVE  PoolInv'
  <2>1. CASE StreamStarted(t) \/ StreamStopped(t) \/ StreamError(t) \/ DeviceFails(t)
    BY <2>1, PoolUnchanged DEF StreamStarted, StreamStopped, StreamError, DeviceFails,
       PoolInv, PoolTypes
  <2>2. CASE UNCHANGED streamVars
    BY <2>2, PoolUnchanged DEF PoolInv, PoolTypes
  <2>3. CASE DeviceSends(t)
    <3>. DEFINE b == [chunk |-> 1, pooled |-> TRUE]
    <3>1. b \in Queued /\ One(b) = 1
      BY DEF Queued, One
    <3>2. queue' = Append(queue, b)
      BY <2>3 DEF DeviceSends
    <3>3. queue' \in Seq(Queued) /\ Pooled(queue') = Pooled(queue) + 1
      BY <3>1, <3>2, PooledAppend DEF PoolInv, PoolTypes
    <3>4. Pooled(queue) \in Nat
      BY PooledNat DEF PoolInv, PoolTypes
    <3>. QED BY <2>3, <3>3, <3>4 DEF DeviceSends, PoolInv, PoolTypes, PoolConserved
  <2>. QED BY <1>5, <2>1, <2>2, <2>3, PoolRun DEF TransferThread
<1>6. CASE UNCHANGED vars
  BY <1>6, PoolUnchanged DEF vars, PoolInv, PoolTypes
<1>. QED BY <1>1, <1>2, <1>3, <1>4, <1>5, <1>6, PoolConsumer DEF Next

\* Each buffer of the bounded pool is free, the producer's slack, being
\* transferred, queued or with the consumer, and never two of these: stop(),
\* seek(), the transfer thread and the consumer may release buffers in any
\* order, and each is released once.
THEOREM NoBufferIsLost == Spec => []PoolConserved
<1>1. PoolInv => PoolConserved
  BY DEF PoolInv
<1>. QED BY <1>1, PoolInit, PoolStep, PTL DEF Spec, Safety

-----------------------------------------------------------------------------
(* The transfer thread under the stream is that of DataTransfer.           *)

\* Whatever the stream does to its thread is a step of DataTransfer, or none.
LEMMA TransferStep == [Next]_vars => [DTNext]_dtVars
<1>. SUFFICES ASSUME [Next]_vars PROVE [DTNext]_dtVars
  OBVIOUS
<1>. USE DEF DTNext, OwnerStep, StartStep, StopStep, SeekerStep, ThreadStep
<1>1. CASE StreamStart \/ StreamStopCall \/ SeekBegin \/ ConsumerStep \/ DropBuffer
  BY <1>1 DEF StreamStart, StreamStopCall, SeekBegin, ConsumerStep, WaitNextBuffer,
     PollBuffer, GetLatestRawData, DropBuffer, ConsumerUnchanged
<1>2. CASE UserStep
  <2>1. CASE StreamStartTransfer \/ StreamStopTransfer \/ StreamReturn
    BY <2>1 DEF StreamStartTransfer, StreamStopTransfer, StreamReturn
  <2>2. CASE TransferCall
    BY <2>2 DEF TransferCall
  <2>3. CASE SeekStep
    BY <2>3 DEF SeekStep, SeekRelease, SeekSuspend, SeekFree, SeekMove, SeekUnblock,
       SeekClear, SeekRestart, SeekFailed, SeekDone, SeekResume
  <2>. QED BY <1>2, <2>1, <2>2, <2>3 DEF UserStep
<1>3. ASSUME NEW t \in Threads,
             TransferThread(t) \/ DeviceSends(t) \/ DeviceFails(t)
      PROVE  [DTNext]_dtVars
  <2>1. CASE StreamStarted(t) \/ StreamStopped(t) \/ StreamError(t)
    BY <2>1 DEF StreamStarted, StreamStopped, StreamError
  <2>2. CASE RunStep(t)
    BY <2>2 DEF RunStep, RunTop, RunGate, RunRefill, RunLock, RunRead, RunDeliver
  <2>3. CASE TestStop(t) \/ ClearSuspend(t) \/ EnterRun(t) \/ TestSuspend(t)
             \/ LeaveRun(t) \/ AwaitResume(t) \/ ThreadNotifyStop(t)
    BY <2>3
  <2>4. CASE DeviceSends(t) \/ DeviceFails(t)
    BY <2>4 DEF DeviceSends, DeviceFails
  <2>. QED BY <1>3, <2>1, <2>2, <2>3, <2>4 DEF TransferThread
<1>4. CASE UNCHANGED vars
  BY <1>4 DEF vars
<1>. QED BY <1>1, <1>2, <1>3, <1>4 DEF Next

LEMMA TransferInv == Spec => []IInv
<1>1. Init => IInv
  BY InitIInv DEF Init
<1>2. IInv /\ [Next]_vars => IInv'
  BY TransferStep, NextIInv
<1>. QED BY <1>1, <1>2, PTL DEF Spec, Safety

-----------------------------------------------------------------------------
(* The types.                                                              *)

\* The reads that a recording queues are those of its file.
Item == [chunk : IF Seekable THEN 1 .. NChunks ELSE {1}, pooled : BOOLEAN]
QueueType == queue \in Seq(Item)
Values ==
    /\ connError \in BOOLEAN /\ user \in UserPc /\ target \in Bookmarks \cup {1}
    /\ cons \in ConsPc /\ fseeking \in BOOLEAN
    /\ chunk \in 0..NChunks /\ pos \in 1..NChunks + 1
    /\ cursor \in 1..NChunks + 1 /\ got \in 0..NChunks
    /\ asked \in BOOLEAN /\ broken \in BOOLEAN
    /\ rp = "deliver" => chunk # 0
    /\ user = "seek.clear" => target <= NChunks
StreamTypes == QueueType /\ Values

\* The copies hold the same data as the buffers of the pool.
LEMMA ClonedType ==
    ASSUME NEW C, NEW q \in Seq([chunk : C, pooled : BOOLEAN])
    PROVE  /\ Cloned(q) \in Seq([chunk : C, pooled : BOOLEAN])
           /\ Len(Cloned(q)) = Len(q)
           /\ \A i \in 1..Len(q) : Cloned(q)[i].chunk = q[i].chunk
<1>. DEFINE R == [chunk : C, pooled : BOOLEAN]
<1>1. /\ DOMAIN q = 1..Len(q) /\ Len(q) \in Nat
      /\ \A i \in 1..Len(q) : q[i] \in R
  BY LenProperties, ElementOfSeq
<1>2. ASSUME NEW b \in R
      PROVE  /\ [b EXCEPT !.pooled = FALSE] \in R
             /\ [b EXCEPT !.pooled = FALSE].chunk = b.chunk
  <2>. DEFINE c == [b EXCEPT !.pooled = FALSE]
  <2>1. c \in R
    OBVIOUS
  <2>2. c.chunk = b.chunk
    OBVIOUS
  <2>. QED BY <2>1, <2>2
<1>3. \A i \in 1..Len(q) : Cloned(q)[i] \in R /\ Cloned(q)[i].chunk = q[i].chunk
  BY <1>1, <1>2, Zenon DEF Cloned
<1>4. DOMAIN Cloned(q) = 1..Len(q)
  BY <1>1, Zenon DEF Cloned
<1>5. Cloned(q) = [i \in 1..Len(q) |-> Cloned(q)[i]]
  BY <1>1, Zenon DEF Cloned
<1>6. Cloned(q) \in [1..Len(q) -> R]
  <2>. HIDE DEF R
  <2>. QED BY <1>3, <1>5
<1>. QED BY <1>1, <1>3, <1>4, <1>6, SeqDef, LenProperties

LEMMA QueueStep ==
    ASSUME QueueType, Values, DeviceInv, [Next]_vars
    PROVE  QueueType'
<1>. DEFINE C == IF Seekable THEN 1 .. NChunks ELSE {1}
<1>1. Item' = Item /\ Item = [chunk : C, pooled : BOOLEAN]
  BY OneProducer DEF Item, Seekable
<1>2. queue \in Seq(Item)
  BY DEF QueueType
<1>3. SUFFICES queue' \in Seq(Item)
  BY <1>1 DEF QueueType
<1>4. Cloned(queue) \in Seq(Item) /\ <<>> \in Seq(Item)
  <2>1. Cloned(queue) \in Seq([chunk : C, pooled : BOOLEAN])
    <3>. HIDE DEF C
    <3>. QED BY <1>1, <1>2, ClonedType, Zenon
  <2>. QED BY <1>1, <2>1
<1>5. \A b \in Item : Append(queue, b) \in Seq(Item)
  BY <1>2, AppendProperties
<1>6. queue # <<>> => Tail(queue) \in Seq(Item)
  BY <1>2, HeadTailProperties
<1>7. CASE UNCHANGED queue
  BY <1>2, <1>7
<1>8. CASE StreamStopCall
  BY <1>4, <1>8 DEF StreamStopCall
<1>9. CASE SeekStep
  <2>1. queue' \in {queue, <<>>, Cloned(queue)}
    BY <1>9 DEF SeekStep, SeekRelease, SeekSuspend, SeekFree, SeekMove, SeekUnblock,
       SeekClear, SeekRestart, SeekFailed, SeekDone, SeekResume
  <2>. QED BY <1>2, <1>4, <2>1
<1>10. ASSUME NEW t \in Threads, RunDeliver(t)
       PROVE  queue' \in Seq(Item)
  <2>. DEFINE b == [chunk |-> chunk, pooled |-> ~seeking_ /\ ~streamStop]
  <2>1. Seekable
    BY <1>10 DEF RunDeliver, InRun, DeviceInv, DeviceSteps
  <2>2. chunk \in 1..NChunks
    BY <1>10, StreamAssumption DEF RunDeliver, InRun, Values
  <2>3. b \in Item
    BY <2>1, <2>2 DEF Item
  <2>. QED BY <1>5, <1>10, <2>3 DEF RunDeliver
<1>11. ASSUME NEW t \in Threads, DeviceSends(t)
       PROVE  queue' \in Seq(Item)
  <2>1. [chunk |-> 1, pooled |-> TRUE] \in Item
    BY <1>11 DEF DeviceSends, Item
  <2>. QED BY <1>5, <1>11, <2>1 DEF DeviceSends
<1>12. ASSUME NEW t \in Threads, TransferThread(t) \/ DeviceFails(t), ~RunDeliver(t)
       PROVE  UNCHANGED queue
  BY <1>12 DEF TransferThread, StreamStarted, StreamStopped, StreamError, RunStep, RunTop,
     RunGate, RunRefill, RunLock, RunRead, DeviceFails, StreamUnchanged, streamVars
<1>13. CASE ConsumerStep
  <2>1. queue' = queue \/ (queue # <<>> /\ queue' = Tail(queue))
    BY <1>13 DEF ConsumerStep, WaitNextBuffer, PollBuffer, GetLatestRawData, TakeHead
  <2>. QED BY <1>2, <1>6, <2>1
<1>14. CASE StreamStart \/ SeekBegin \/ DropBuffer \/ UNCHANGED vars
  BY <1>7, <1>14 DEF StreamStart, SeekBegin, DropBuffer, vars, streamVars
<1>15. CASE UserStep /\ ~SeekStep
  BY <1>7, <1>15 DEF UserStep, StreamStartTransfer, StreamStopTransfer, StreamReturn,
     TransferCall, streamVars
<1>. HIDE DEF C
<1>. QED BY <1>7, <1>8, <1>9, <1>10, <1>11, <1>12, <1>13, <1>14, <1>15 DEF Next

LEMMA ValuesUnchanged ==
    ASSUME Values, cons' \in ConsPc, connError' \in BOOLEAN, broken' \in BOOLEAN,
           user' \in UserPc \ {"seek.clear"} \/ user' = user, fseeking' \in BOOLEAN,
           UNCHANGED <<target, chunk, pos, cursor, got, asked, rp>>
    PROVE  Values'
BY DEF Values

LEMMA ValuesStep ==
    ASSUME QueueType, Values, PoolInv, DeviceInv, [Next]_vars
    PROVE  Values'
<1>. USE StreamAssumption DEF Values, UserPc, ConsPc, UserGoto, Notify
<1>1. CASE StreamStart \/ StreamStopCall
  BY <1>1 DEF StreamStart, StreamStopCall, producerVars
<1>2. CASE SeekBegin
  BY <1>2 DEF SeekBegin, producerVars, history
<1>3. CASE UserStep
  <2>1. CASE StreamStartTransfer \/ StreamStopTransfer \/ StreamReturn
    BY <2>1 DEF StreamStartTransfer, StreamStopTransfer, StreamReturn, producerVars, history
  <2>2. CASE TransferCall
    <3>1. broken' = TRUE \/ broken' = broken
      BY <2>2 DEF TransferCall, streamVars, history
    <3>2. UNCHANGED <<cons, connError, user, target, chunk, pos, fseeking, cursor, got,
                      asked, rp>>
      BY <2>2, Zenon DEF TransferCall, streamVars, producerVars, history
    <3>. QED BY <3>1, <3>2, ValuesUnchanged
  <2>3. CASE SeekRelease \/ SeekSuspend \/ SeekDone \/ SeekResume
    BY <2>3, ValuesUnchanged DEF SeekRelease, SeekSuspend, SeekDone, SeekResume,
       producerVars, history
  <2>8. CASE SeekFree
    <3>1. /\ user' \in {"seek.move", "seek.failed"} /\ fseeking' \in BOOLEAN
          /\ UNCHANGED <<connError, target, cons, rp, chunk, pos, history>>
      BY <2>8 DEF SeekFree
    <3>. QED BY <3>1, ValuesUnchanged DEF history
  <2>4. CASE SeekMove
    BY <2>4 DEF SeekMove, history
  <2>5. CASE SeekUnblock
    BY <2>5 DEF SeekUnblock, history
  <2>6. CASE SeekClear
    BY <2>6 DEF SeekClear
  <2>7. CASE SeekRestart \/ SeekFailed
    BY <2>7 DEF SeekRestart, SeekFailed, producerVars, history
  <2>. QED BY <1>3, <2>1, <2>2, <2>3, <2>4, <2>5, <2>6, <2>7, <2>8 DEF UserStep, SeekStep
<1>4. ASSUME NEW t \in Threads,
             TransferThread(t) \/ DeviceSends(t) \/ DeviceFails(t)
      PROVE  Values'
  <2>1. CASE StreamStarted(t) \/ (UNCHANGED streamVars)
    BY <2>1 DEF StreamStarted, streamVars, producerVars, history
  <2>2. CASE StreamStopped(t)
    BY <2>2 DEF StreamStopped, producerVars, history
  <2>3. CASE StreamError(t)
    <3>1. connError' \in BOOLEAN /\ broken' \in BOOLEAN
      BY <2>3, Zenon DEF StreamError
    <3>. QED BY <2>3, <3>1, ValuesUnchanged DEF StreamError, producerVars
  <2>4. CASE RunTop(t) \/ RunGate(t) \/ RunRefill(t) \/ RunLock(t)
    BY <2>4 DEF RunTop, RunGate, RunRefill, RunLock, StreamUnchanged, history
  <2>5. CASE RunRead(t)
    BY <2>5 DEF RunRead, StreamUnchanged, history
  <2>6. CASE RunDeliver(t)
    BY <2>6 DEF RunDeliver, history
  <2>7. CASE DeviceSends(t)
    BY <2>7 DEF DeviceSends, history
  <2>8. CASE DeviceFails(t)
    <3>1. broken' = TRUE \/ broken' = broken
      BY <2>8 DEF DeviceFails, streamVars, history
    <3>2. UNCHANGED <<cons, connError, user, target, chunk, pos, fseeking, cursor, got,
                      asked, rp>>
      BY <2>8, Zenon DEF DeviceFails, streamVars, producerVars, history
    <3>. QED BY <3>1, <3>2, ValuesUnchanged
  <2>. QED BY <1>4, <2>1, <2>2, <2>3, <2>4, <2>5, <2>6, <2>7, <2>8 DEF TransferThread, RunStep
<1>5. CASE ConsumerStep
  <2>1. CASE WaitNextBuffer \/ PollBuffer
    BY <2>1 DEF WaitNextBuffer, PollBuffer, ConsumerUnchanged
  <2>2. CASE GetLatestRawData
    <3>1. queue # <<>> => Head(queue) \in Item
      BY DEF QueueType
    <3>2. CASE queue # <<>> /\ TakeHead
      <4>1. Seekable => Head(queue).chunk \in 1..NChunks
        BY <3>1, <3>2 DEF Item
      <4>2. /\ cons' \in ConsPc
            /\ UNCHANGED <<connError, user, target, fseeking, chunk, pos, asked, broken, rp>>
        BY <2>2 DEF GetLatestRawData, ConsumerUnchanged
      <4>3. cursor' \in 1..NChunks + 1 /\ got' \in 0..NChunks
        BY <3>2, <4>1 DEF TakeHead
      <4>. QED BY <4>2, <4>3
    <3>3. CASE UNCHANGED <<cursor, got>>
      BY <2>2, <3>3 DEF GetLatestRawData, ConsumerUnchanged
    <3>. QED BY <2>2, <3>2, <3>3 DEF GetLatestRawData
  <2>. QED BY <1>5, <2>1, <2>2 DEF ConsumerStep
<1>6. CASE DropBuffer \/ UNCHANGED vars
  BY <1>6 DEF DropBuffer, ConsumerUnchanged, vars, streamVars, producerVars, history
<1>. QED BY <1>1, <1>2, <1>3, <1>4, <1>5, <1>6 DEF Next

StreamInv == IInv /\ DeviceInv /\ PoolInv /\ StreamTypes

LEMMA StreamInit == Init => StreamInv
<1>. SUFFICES ASSUME Init PROVE StreamInv
  OBVIOUS
<1>1. IInv
  BY InitIInv DEF Init
<1>2. QueueType
  BY DEF Init, QueueType
<1>3. Values
  <2>1. /\ connError = FALSE /\ user = "idle" /\ target = 1 /\ cons = "idle"
        /\ fseeking = FALSE /\ chunk = 0 /\ pos = 1 /\ cursor = 1 /\ got = 0
        /\ asked = FALSE /\ broken = FALSE /\ rp = "top"
    BY DEF Init
  <2>2. 0 \in 0..NChunks /\ 1 \in 1..NChunks + 1
    BY StreamAssumption
  <2>3. user \in UserPc /\ cons \in ConsPc
    BY <2>1 DEF UserPc, ConsPc
  <2>. QED BY <2>1, <2>2, <2>3, Zenon DEF Values
<1>. QED BY <1>1, <1>2, <1>3, DeviceInit, PoolInit DEF StreamInv, StreamTypes

LEMMA StreamStep == StreamInv /\ [Next]_vars => StreamInv'
<1>. SUFFICES ASSUME StreamInv, [Next]_vars PROVE StreamInv'
  OBVIOUS
<1>1. IInv'
  BY TransferStep, NextIInv DEF StreamInv
<1>2. DeviceInv'
  BY DeviceStep DEF StreamInv
<1>3. PoolInv'
  BY PoolStep DEF StreamInv
<1>4. StreamTypes'
  BY QueueStep, ValuesStep DEF StreamInv, StreamTypes
<1>. QED BY <1>1, <1>2, <1>3, <1>4 DEF StreamInv

\* Every variable of the stream keeps to its values: in particular the pool
\* never holds more buffers than it was built with, the file is never
\* positioned outside of its data, and a thread is only joined that is there.
THEOREM StreamTypeOK == Spec => []TypeOK
<1>1. ASSUME StreamInv PROVE TypeOK
  <2>. USE <1>1 DEF StreamInv
  <2>1. DTTypeOK
    BY DEF IInv
  <2>2. queue \in Seq(Buffer)
    <3>1. \A i \in 1..Len(queue) : queue[i] \in Item
      BY ElementOfSeq DEF StreamTypes, QueueType
    <3>2. Item \subseteq Buffer
      BY DEF Item, Buffer
    <3>3. queue \in [1..Len(queue) -> Item] /\ Len(queue) \in Nat
      BY LenProperties DEF StreamTypes, QueueType
    <3>4. queue \in [1..Len(queue) -> Buffer]
      BY <3>2, <3>3
    <3>. QED BY <3>3, <3>4, SeqDef
  <2>3. free \in 0..PoolSize
    <3>1. Pooled(queue) \in Nat
      BY PooledNat DEF PoolInv, PoolTypes
    <3>. QED BY <3>1, StreamAssumption DEF PoolInv, PoolTypes, PoolConserved
  <2>. QED BY <2>1, <2>2, <2>3 DEF TypeOK, StreamTypes, Values, PoolInv, PoolTypes
<1>. QED BY <1>1, StreamInit, StreamStep, PTL DEF Spec, Safety

-----------------------------------------------------------------------------
(* Where the user's call is, for a recording.                              *)

Announced == {"seek.release", "seek.suspend", "seek.wait", "seek.free", "seek.move",
              "seek.unblock", "seek.clear", "seek.restart", "seek.restarting",
              "seek.failed", "seek.done"}
Suspended == {"seek.free", "seek.move", "seek.unblock", "seek.clear", "seek.restart",
              "seek.restarting", "seek.failed", "seek.done", "seek.resume"}
Restarts == {"start.wait", "seek.restarting"}

\* The transfer thread is started, stopped and suspended by the one user, who
\* returns from start() with a thread and from stop() without.
UserCalls ==
    /\ user \in UserPc
    /\ seeking_ <=> user \in Announced
    /\ seeking_ => target \in Bookmarks
    /\ susp = IF user = "seek.wait" THEN "waiting"
              ELSE IF user \in Suspended THEN "suspended" ELSE "none"
    /\ call \in {"start.join", "start.reset", "start.impl"} => user \in Restarts
    /\ call \in {"stop.impl", "stop.notify", "stop.join"} => user = "stop.wait"
    /\ user \in Restarts /\ call = "idle" => thread # NoThread
    /\ user = "stop.wait" /\ call = "idle" => thread = NoThread
    /\ thread # NoThread => pc[thread] # "none"

\* A seek keeps the thread out of run_impl from the return of suspend(): it
\* finds it in run_impl, from where suspend_ leads it to AwaitResume, or held
\* by the Started callback, or ended.
KeptOut ==
    /\ suspend_ => susp # "none"
    /\ seeking_ /\ susp # "none" => suspend_
    /\ call = "start.impl" => ~stop_
    /\ \A t \in Threads :
          /\ stop_ /\ user # "stop.wait" => pc[t] \in {"none", "stopped", "done"}
          /\ pc[t] = "end" /\ user # "stop.wait" => running_
          /\ pc[t] = "leave" => susp = "waiting"
          /\ seeking_ => pc[t] \notin {"test", "clear", "enter"}
          /\ seeking_ /\ pc[t] = "await" => susp # "none"
          /\ seeking_ /\ susp = "suspended" => pc[t] \notin {"run", "ret", "leave", "end"}
          /\ susp = "suspended" /\ suspend_ => pc[t] \notin {"enter", "run", "ret", "leave"}
    /\ rp # "top" => \E t \in Threads : pc[t] = "run"

-----------------------------------------------------------------------------
(* The data.                                                               *)

\* The reads of the file from one position on.
Consecutive(q, from) == \A i \in 1 .. Len(q) : q[i].chunk = from + i - 1

\* From the move of the file until the queue is emptied, the queue holds what
\* precedes the seek.
Moved == user = "seek.clear" \/ (user = "seek.unblock" /\ target <= NChunks)

\* The queue, the buffer being transferred and the file follow each other.
InOrder ==
    /\ Consecutive(queue, cursor)
    /\ chunk = IF rp = "deliver" THEN pos - 1 ELSE 0
    /\ IF Moved THEN pos = target
                ELSE pos = cursor + Len(queue) + (IF rp = "deliver" THEN 1 ELSE 0)

-----------------------------------------------------------------------------
(* The end.                                                                *)

AllQueued == cursor + Len(queue) = NChunks + 1

\* Transfers that nobody has asked to stop end when all the data is queued.
EndsAtEnd ==
    /\ asked /\ streamStop => AllQueued
    /\ \A t \in Threads :
          /\ asked /\ pc[t] = "ret" => suspend_ \/ AllQueued
          /\ asked /\ user \notin {"seek.restart", "seek.restarting"}
                /\ pc[t] \in {"end", "stopped", "done"} => AllQueued
          /\ user = "seek.restarting" /\ call = "idle"
               => pc[t] \notin {"end", "stopped", "done"}
    /\ stop_ /\ thread = NoThread /\ asked
         => user \in {"start.transfer", "start.wait", "seek.restart", "seek.restarting"}
    /\ ~asked => thread = NoThread \/ user \in {"stop.transfer", "stop.wait"}
    /\ user \in {"start.transfer", "start.wait", "seek.restart", "seek.restarting"} => asked
    /\ user \in {"stop.transfer", "stop.wait"} => ~asked

\* A device's transfers end when stop() is called or when it fails.
EndsBroken ==
    /\ ~suspend_
    /\ call \in {"start.join", "start.reset", "start.impl"} => user = "start.wait"
    /\ call \in {"stop.impl", "stop.notify", "stop.join"} => user = "stop.wait"
    /\ call \in {"start.reset", "start.impl"} => thread = NoThread
    /\ user \in {"start.transfer", "start.wait"} => asked
    /\ user \in {"stop.transfer", "stop.wait"} => ~asked
    /\ ~broken /\ ~connError =>
         /\ \A t \in Threads :
               /\ pc[t] # "none" => t = thread
               /\ asked => pc[t] \notin {"ret", "leave", "await", "end", "stopped", "done"}
               /\ asked /\ pc[t] # "none" => ~stop_
         /\ call = "start.impl" => ~stop_
         /\ ~asked => thread = NoThread \/ user \in {"stop.transfer", "stop.wait"}
         /\ user = "stop.wait" /\ call = "idle" => thread = NoThread
         /\ asked => ~streamStop

-----------------------------------------------------------------------------
(* Each step keeps the invariants of a recording.                          *)

LEMMA UserCallsStep ==
    ASSUME IInv, Seekable, UserCalls, [Next]_vars
    PROVE  UserCalls'
<1>. USE ThreadAssumption
     DEF IInv, DTTypeOK, OneSlot, CallThread, UserCalls, UserPc, Announced, Suspended, Restarts,
         ThreadPc, CallPc, SuspPc, UserGoto, dtVars, flags
<1>1. CASE StreamStart
  BY <1>1 DEF StreamStart
<1>5. CASE StreamStopCall
  BY <1>5 DEF StreamStopCall
<1>6. CASE SeekBegin
  BY <1>6 DEF SeekBegin
<1>2. CASE UserStep
  <2>1. CASE StreamStartTransfer
    BY <2>1 DEF StreamStartTransfer, StartCall
  <2>2. CASE StreamStopTransfer
    BY <2>2 DEF StreamStopTransfer, StopCall
  <2>3. CASE StreamReturn
    BY <2>3 DEF StreamReturn
  <2>4. CASE TransferCall
    <3>1. CASE StartJoin \/ StopJoin
      BY <2>4, <3>1 DEF TransferCall, StartJoin, StopJoin, Join, streamVars
    <3>2. CASE StartReset \/ StopImpl \/ StopNotify
      BY <2>4, <3>2 DEF TransferCall, StartReset, StopImpl, StopNotify, streamVars
    <3>3. CASE StartSpawn
      BY <2>4, <3>3 DEF TransferCall, StartSpawn, streamVars
    <3>. QED BY <2>4, <3>1, <3>2, <3>3 DEF TransferCall, StartFails, StopDetach
  <2>5. CASE SeekRelease \/ SeekFree \/ SeekMove \/ SeekUnblock \/ SeekClear
    BY <2>5 DEF SeekRelease, SeekFree, SeekMove, SeekUnblock, SeekClear
  <2>6. CASE SeekSuspend
    BY <2>6 DEF SeekSuspend, SuspendSet, SuspendReturn
  <2>7. CASE SeekRestart
    BY <2>7 DEF SeekRestart, StartCall
  <2>8. CASE SeekFailed
    BY <2>8 DEF SeekFailed
  <2>9. CASE SeekDone
    BY <2>9 DEF SeekDone
  <2>10. CASE SeekResume
    BY <2>10 DEF SeekResume, Resume
  <2>. QED BY <1>2, <2>1, <2>2, <2>3, <2>4, <2>5, <2>6, <2>7, <2>8, <2>9, <2>10
     DEF UserStep, SeekStep
<1>3. ASSUME NEW t \in Threads,
             TransferThread(t) \/ DeviceSends(t) \/ DeviceFails(t)
      PROVE  UserCalls'
  <2>. USE DEF Goto
  <2>1. CASE StreamStarted(t) \/ StreamStopped(t)
    BY <2>1 DEF StreamStarted, StreamStopped, StartedCallbacks, StoppedCallbacks, streamVars
  <2>2. CASE RunStep(t)
    BY <2>2 DEF RunStep, RunTop, RunGate, RunRefill, RunLock, RunRead, RunDeliver,
       RunReturn, InRun, StreamUnchanged
  <2>3. CASE (TestStop(t) \/ ClearSuspend(t) \/ EnterRun(t) \/ TestSuspend(t)
             \/ LeaveRun(t) \/ AwaitResume(t) \/ ThreadNotifyStop(t)) /\ UNCHANGED streamVars
    BY <2>3 DEF TestStop, ClearSuspend, EnterRun, TestSuspend, LeaveRun, AwaitResume,
       ThreadNotifyStop, streamVars
  <2>4. ~StreamError(t)
    BY DEF StreamError, ErrorCallbacks, PcFlags
  <2>5. ~DeviceSends(t) /\ ~DeviceFails(t)
    BY DEF DeviceSends, DeviceFails, RunThrows
  <2>. QED BY <1>3, <2>1, <2>2, <2>3, <2>4, <2>5 DEF TransferThread
<1>4. CASE ConsumerStep \/ DropBuffer \/ UNCHANGED vars
  BY <1>4 DEF ConsumerStep, WaitNextBuffer, PollBuffer, GetLatestRawData, DropBuffer,
     ConsumerUnchanged, vars, streamVars
<1>. QED BY <1>1, <1>2, <1>3, <1>4, <1>5, <1>6 DEF Next
LEMMA KeptOutStep ==
    ASSUME ~SeekAnyTime, IInv, Seekable, UserCalls, KeptOut, [Next]_vars
    PROVE  KeptOut'
<1>. USE ThreadAssumption
     DEF IInv, DTTypeOK, OneSlot, CallThread, PcFlags, UserCalls, KeptOut, UserPc, Announced,
         Suspended, Restarts, ThreadPc, CallPc, SuspPc, UserGoto, dtVars, flags,
         producerVars, InRun
<1>1. CASE StreamStart
  BY <1>1 DEF StreamStart
<1>5. CASE StreamStopCall
  BY <1>5 DEF StreamStopCall
<1>6. CASE SeekBegin
  BY <1>6 DEF SeekBegin, OnTheWayIn
<1>2. CASE UserStep
  <2>1. CASE StreamStartTransfer
    BY <2>1 DEF StreamStartTransfer, StartCall
  <2>2. CASE StreamStopTransfer
    BY <2>2 DEF StreamStopTransfer, StopCall
  <2>3. CASE StreamReturn
    BY <2>3 DEF StreamReturn
  <2>4. CASE TransferCall
    <3>1. CASE StartJoin \/ StopJoin
      BY <2>4, <3>1 DEF TransferCall, StartJoin, StopJoin, Join, streamVars
    <3>2. CASE StartReset \/ StopImpl \/ StopNotify
      BY <2>4, <3>2 DEF TransferCall, StartReset, StopImpl, StopNotify, streamVars
    <3>3. CASE StartSpawn
      BY <2>4, <3>3 DEF TransferCall, StartSpawn, streamVars
    <3>. QED BY <2>4, <3>1, <3>2, <3>3 DEF TransferCall, StartFails, StopDetach
  <2>5. CASE SeekRelease \/ SeekFree \/ SeekMove \/ SeekUnblock \/ SeekClear
    BY <2>5 DEF SeekRelease, SeekFree, SeekMove, SeekUnblock, SeekClear
  <2>6. CASE SeekSuspend
    BY <2>6 DEF SeekSuspend, SuspendSet, SuspendReturn
  <2>7. CASE SeekRestart
    BY <2>7 DEF SeekRestart, StartCall
  <2>8. CASE SeekFailed
    BY <2>8 DEF SeekFailed
  <2>9. CASE SeekDone
    BY <2>9 DEF SeekDone
  <2>10. CASE SeekResume
    BY <2>10 DEF SeekResume, Resume
  <2>. QED BY <1>2, <2>1, <2>2, <2>3, <2>4, <2>5, <2>6, <2>7, <2>8, <2>9, <2>10
     DEF UserStep, SeekStep
<1>3. ASSUME NEW t \in Threads,
             TransferThread(t) \/ DeviceSends(t) \/ DeviceFails(t)
      PROVE  KeptOut'
  <2>. USE DEF Goto
  <2>1. CASE StreamStarted(t) \/ StreamStopped(t)
    BY <2>1 DEF StreamStarted, StreamStopped, StartedCallbacks, StoppedCallbacks, streamVars
  <2>2. CASE RunStep(t)
    <3>1. CASE RunTop(t)
      BY <3>1 DEF RunTop, RunReturn, StreamUnchanged
    <3>2. CASE RunGate(t) \/ RunRefill(t) \/ RunLock(t) \/ RunDeliver(t)
      BY <3>2 DEF RunGate, RunRefill, RunLock, RunDeliver, StreamUnchanged
    <3>3. CASE RunRead(t)
      BY <3>3 DEF RunRead, RunReturn, StreamUnchanged
    <3>. QED BY <2>2, <3>1, <3>2, <3>3 DEF RunStep
  <2>3. CASE (TestStop(t) \/ ClearSuspend(t) \/ EnterRun(t) \/ TestSuspend(t)
             \/ LeaveRun(t) \/ AwaitResume(t) \/ ThreadNotifyStop(t)) /\ UNCHANGED streamVars
    BY <2>3 DEF TestStop, ClearSuspend, EnterRun, TestSuspend, LeaveRun, AwaitResume,
       ThreadNotifyStop, streamVars
  <2>4. ~StreamError(t)
    BY DEF StreamError, ErrorCallbacks, PcFlags
  <2>5. ~DeviceSends(t) /\ ~DeviceFails(t)
    BY DEF DeviceSends, DeviceFails, RunThrows
  <2>. QED BY <1>3, <2>1, <2>2, <2>3, <2>4, <2>5 DEF TransferThread
<1>4. CASE ConsumerStep \/ DropBuffer \/ UNCHANGED vars
  BY <1>4 DEF ConsumerStep, WaitNextBuffer, PollBuffer, GetLatestRawData, DropBuffer,
     ConsumerUnchanged, vars, streamVars
<1>. QED BY <1>1, <1>2, <1>3, <1>4, <1>5, <1>6 DEF Next
-----------------------------------------------------------------------------
(* The queue follows the cursor.                                           *)

LEMMA ConsecutiveAppend ==
    ASSUME NEW q \in Seq(Queued), NEW b \in Queued, NEW c \in Nat,
           Consecutive(q, c), b.chunk = c + Len(q)
    PROVE  Consecutive(Append(q, b), c) /\ Len(Append(q, b)) = Len(q) + 1
<1>. DEFINE r == Append(q, b)
<1>1. /\ Len(q) \in Nat /\ Len(r) = Len(q) + 1 /\ r[Len(q) + 1] = b
      /\ \A i \in 1..Len(q) : r[i] = q[i]
  BY AppendProperties, LenProperties
<1>2. ASSUME NEW i \in 1..Len(r)
      PROVE  r[i].chunk = c + i - 1
  <2>. HIDE DEF r
  <2>1. CASE i = Len(q) + 1
    BY <1>1, <2>1
  <2>2. CASE i \in 1..Len(q)
    BY <1>1, <2>2 DEF Consecutive
  <2>. QED BY <1>1, <2>1, <2>2
<1>. QED BY <1>1, <1>2 DEF Consecutive

LEMMA ConsecutiveTail ==
    ASSUME NEW q \in Seq(Queued), q # <<>>, NEW c \in Nat, Consecutive(q, c)
    PROVE  /\ Head(q).chunk = c
           /\ Consecutive(Tail(q), c + 1) /\ Len(q) = Len(Tail(q)) + 1
           /\ Len(Tail(q)) \in Nat
BY HeadTailProperties DEF Consecutive

LEMMA ConsecutiveCloned ==
    ASSUME NEW q \in Seq(Queued), NEW c \in Nat, Consecutive(q, c)
    PROVE  Consecutive(Cloned(q), c) /\ Len(Cloned(q)) = Len(q)
<1>1. q \in Seq([chunk : Nat, pooled : BOOLEAN])
  BY DEF Queued
<1>2. /\ Len(Cloned(q)) = Len(q)
      /\ \A i \in 1..Len(q) : Cloned(q)[i].chunk = q[i].chunk
  BY <1>1, ClonedType
<1>. QED BY <1>2 DEF Consecutive

LEMMA InOrderUnchanged ==
    ASSUME InOrder, UNCHANGED <<cursor, chunk, pos>>,
           Consecutive(queue', cursor), Len(queue') = Len(queue),
           rp' = "deliver" <=> rp = "deliver", Moved' <=> Moved, Moved => target' = target
    PROVE  InOrder'
BY DEF InOrder

LEMMA InOrderUser ==
    ASSUME StreamInv, Seekable, UserCalls, KeptOut, InOrder,
           StreamStart \/ StreamStopCall \/ SeekBegin \/ UserStep
    PROVE  InOrder'
<1>1. /\ queue \in Seq(Queued) /\ cursor \in Nat /\ pos \in Nat /\ target \in Nat
      /\ Consecutive(queue, cursor)
  BY StreamAssumption DEF StreamInv, PoolInv, PoolTypes, StreamTypes, Values, InOrder
<1>. USE DEF UserGoto, Moved, producerVars, history
<1>2. CASE StreamStart \/ SeekBegin
  BY <1>1, <1>2, InOrderUnchanged DEF StreamStart, SeekBegin
<1>3. CASE StreamStopCall \/ SeekRelease
  <2>1. queue' = Cloned(queue)
    BY <1>3 DEF StreamStopCall, SeekRelease
  <2>2. Consecutive(queue', cursor) /\ Len(queue') = Len(queue)
    BY <1>1, <2>1, ConsecutiveCloned
  <2>. QED BY <1>3, <2>2, InOrderUnchanged DEF StreamStopCall, SeekRelease
<1>4. CASE StreamStartTransfer \/ StreamStopTransfer \/ StreamReturn \/ TransferCall
  BY <1>1, <1>4, InOrderUnchanged
     DEF StreamStartTransfer, StreamStopTransfer, StreamReturn, TransferCall, streamVars
<1>5. CASE SeekSuspend \/ SeekFree \/ SeekUnblock \/ SeekRestart \/ SeekFailed
           \/ SeekDone \/ SeekResume
  BY <1>1, <1>5, InOrderUnchanged
     DEF SeekSuspend, SeekFree, SeekUnblock, SeekRestart, SeekFailed, SeekDone, SeekResume
<1>6. user \in {"seek.move", "seek.clear"} => rp = "top"
  BY DEF UserCalls, Announced, Suspended, KeptOut
<1>7. CASE SeekMove
  BY <1>1, <1>6, <1>7 DEF SeekMove, InOrder
<1>8. CASE SeekClear
  BY <1>1, <1>6, <1>8 DEF SeekClear, InOrder, Consecutive
<1>. QED BY <1>2, <1>3, <1>4, <1>5, <1>7, <1>8 DEF UserStep, SeekStep

LEMMA InOrderStep ==
    ASSUME StreamInv, Seekable, UserCalls, KeptOut, InOrder, [Next]_vars
    PROVE  InOrder'
<1>1. /\ queue \in Seq(Queued) /\ cursor \in Nat /\ pos \in Nat
      /\ chunk \in Nat /\ Len(queue) \in Nat /\ Consecutive(queue, cursor)
  BY StreamAssumption, LenProperties
     DEF StreamInv, PoolInv, PoolTypes, StreamTypes, Values, InOrder
<1>. USE DEF producerVars, history
<1>2. ASSUME NEW t \in Threads,
             TransferThread(t) \/ DeviceSends(t) \/ DeviceFails(t)
      PROVE  InOrder'
  <2>1. CASE StreamStarted(t) \/ StreamStopped(t) \/ StreamError(t) \/ UNCHANGED streamVars
    BY <1>1, <2>1, InOrderUnchanged
       DEF StreamStarted, StreamStopped, StreamError, streamVars, Moved
  <2>2. CASE RunTop(t) \/ RunGate(t) \/ RunRefill(t) \/ RunLock(t)
    BY <1>1, <2>2, InOrderUnchanged
       DEF RunTop, RunGate, RunRefill, RunLock, InRun, StreamUnchanged, Moved
  <2>3. pc[t] = "run" => ~Moved
    BY DEF Moved, KeptOut, UserCalls, Announced, Suspended
  <2>4. CASE RunRead(t)
    <3>1. rp = "acquire" /\ UNCHANGED <<queue, cursor, user, target>> /\ ~Moved
      BY <2>3, <2>4 DEF RunRead, InRun, StreamUnchanged
    <3>2. \/ chunk' = pos /\ pos' = pos + 1 /\ rp' = "deliver"
          \/ UNCHANGED <<chunk, pos>> /\ rp' = "top"
      BY <2>4 DEF RunRead
    <3>. QED BY <1>1, <3>1, <3>2 DEF InOrder, Moved
  <2>5. CASE RunDeliver(t)
    <3>. DEFINE b == [chunk |-> chunk, pooled |-> ~seeking_ /\ ~streamStop]
    <3>1. /\ rp = "deliver" /\ rp' = "top" /\ chunk' = 0 /\ queue' = Append(queue, b)
          /\ UNCHANGED <<cursor, pos, user, target>> /\ ~Moved
      BY <2>3, <2>5 DEF RunDeliver, InRun
    <3>2. b \in Queued /\ b.chunk = chunk
      BY <1>1 DEF Queued
    <3>3. chunk = cursor + Len(queue) /\ pos = cursor + Len(queue) + 1
      BY <1>1, <3>1 DEF InOrder
    <3>4. Consecutive(queue', cursor) /\ Len(queue') = Len(queue) + 1
      <4>. HIDE DEF b
      <4>. QED BY <1>1, <3>1, <3>2, <3>3, ConsecutiveAppend
    <3>5. Moved' = FALSE
      BY <3>1 DEF Moved
    <3>. HIDE DEF b
    <3>. QED BY <1>1, <3>1, <3>3, <3>4, <3>5 DEF InOrder
  <2>6. ~DeviceSends(t) /\ ~DeviceFails(t)
    BY DEF DeviceSends, DeviceFails, RunThrows
  <2>. QED BY <1>2, <2>1, <2>2, <2>4, <2>5, <2>6 DEF TransferThread, RunStep
<1>3. CASE WaitNextBuffer \/ PollBuffer \/ DropBuffer \/ UNCHANGED vars
  BY <1>1, <1>3, InOrderUnchanged
     DEF WaitNextBuffer, PollBuffer, DropBuffer, ConsumerUnchanged, vars, streamVars, Moved
<1>4. CASE GetLatestRawData
  <2>1. UNCHANGED <<user, target, rp, chunk, pos>>
    BY <1>4 DEF GetLatestRawData, ConsumerUnchanged
  <2>2. CASE UNCHANGED <<queue, cursor>>
    BY <1>1, <2>1, <2>2, InOrderUnchanged DEF Moved
  <2>3. CASE queue # <<>> /\ TakeHead
    <3>1. /\ queue' = Tail(queue) /\ cursor' = Head(queue).chunk + 1
      BY <2>3 DEF TakeHead
    <3>2. /\ Consecutive(queue', cursor') /\ cursor' = cursor + 1
          /\ Len(queue) = Len(queue') + 1 /\ Len(queue') \in Nat
      BY <1>1, <2>3, <3>1, ConsecutiveTail
    <3>3. Moved' = Moved
      BY <2>1 DEF Moved
    <3>. QED BY <1>1, <2>1, <3>2, <3>3 DEF InOrder
  <2>. QED BY <1>4, <2>2, <2>3 DEF GetLatestRawData
<1>. QED BY <1>2, <1>3, <1>4, InOrderUser DEF Next, ConsumerStep

-----------------------------------------------------------------------------
\* What holds of a recording that is not sought on the way into run_impl.
CursorInv == StreamInv /\ (Seekable => UserCalls /\ KeptOut /\ InOrder)

LEMMA CursorInvInit == Init => CursorInv
<1>. SUFFICES ASSUME Init PROVE CursorInv
  OBVIOUS
<1>. USE DEF Init, DTInit
<1>1. UserCalls
  BY DEF UserCalls, UserPc, Announced, Suspended, Restarts
<1>2. KeptOut
  BY DEF KeptOut
<1>3. InOrder
  BY DEF InOrder, Consecutive, Moved
<1>. QED BY <1>1, <1>2, <1>3, StreamInit DEF CursorInv

LEMMA CursorInvStep ==
    ASSUME ~SeekAnyTime
    PROVE  CursorInv /\ [Next]_vars => CursorInv'
<1>. SUFFICES ASSUME CursorInv, [Next]_vars PROVE CursorInv'
  OBVIOUS
<1>1. StreamInv'
  BY StreamStep DEF CursorInv
<1>2. CASE Seekable
  BY <1>1, <1>2, UserCallsStep, KeptOutStep, InOrderStep DEF CursorInv, StreamInv
<1>3. CASE ~Seekable
  BY <1>1, <1>3, OneProducer DEF CursorInv, Seekable
<1>. QED BY <1>2, <1>3

\* A step of the stream is a step of the cursor, or leaves it: the read of the
\* head of the queue, which the cursor points at, and the successful seek.
LEMMA CursorStep ==
    ASSUME CursorInv, [Next]_vars
    PROVE  (Seekable /\ Cursor!Next) \/ UNCHANGED <<cursor, got>>
<1>. USE DEF Cursor!Next, Cursor!ReadData, Cursor!SeekTo
<1>1. CASE UNCHANGED <<cursor, got>>
  BY <1>1
<1>2. CASE GetLatestRawData
  <2>1. CASE Seekable /\ queue # <<>> /\ TakeHead
    <3>1. Head(queue) \in Item /\ queue \in Seq(Queued) /\ cursor \in Nat
      BY <2>1, HeadTailProperties, StreamAssumption DEF CursorInv, StreamInv, StreamTypes, QueueType,
         Values, PoolInv, PoolTypes
    <3>2. Head(queue).chunk = cursor
      BY <2>1, <3>1, ConsecutiveTail DEF CursorInv, InOrder
    <3>3. Head(queue).chunk \in 1..NChunks
      BY <2>1, <3>1 DEF Item
    <3>4. got' = cursor /\ cursor' = cursor + 1
      BY <2>1, <3>2 DEF TakeHead
    <3>. QED BY <2>1, <3>2, <3>3, <3>4, StreamAssumption
  <2>2. CASE ~(Seekable /\ queue # <<>> /\ TakeHead)
    BY <1>1, <1>2, <2>2 DEF GetLatestRawData, TakeHead
  <2>. QED BY <2>1, <2>2
<1>3. CASE SeekClear
  <2>1. user = "seek.clear" /\ cursor' = target /\ got' = got
    BY <1>3 DEF SeekClear, UserGoto
  <2>2. Seekable
    BY <2>1 DEF CursorInv, StreamInv, DeviceInv, DeviceSteps, DeviceUserPc
  <2>3. target \in Bookmarks
    BY <2>1, <2>2 DEF CursorInv, UserCalls, Announced
  <2>. QED BY <2>1, <2>2, <2>3
<1>. USE DEF history
<1>4. CASE StreamStart \/ StreamStopCall \/ SeekBegin \/ DropBuffer \/ UNCHANGED vars
  BY <1>1, <1>4 DEF StreamStart, StreamStopCall, SeekBegin, DropBuffer, vars, streamVars
<1>5. CASE UserStep /\ ~SeekClear
  BY <1>1, <1>5 DEF UserStep, StreamStartTransfer, StreamStopTransfer, StreamReturn,
     TransferCall, streamVars, SeekStep, SeekRelease, SeekSuspend, SeekFree, SeekMove,
     SeekUnblock, SeekRestart, SeekFailed, SeekDone, SeekResume
<1>6. ASSUME NEW t \in Threads,
             TransferThread(t) \/ DeviceSends(t) \/ DeviceFails(t)
      PROVE  UNCHANGED <<cursor, got>>
  BY <1>6 DEF TransferThread, StreamStarted, StreamStopped, StreamError, RunStep, RunTop,
     RunGate, RunRefill, RunLock, RunRead, RunDeliver, StreamUnchanged, streamVars,
     DeviceSends, DeviceFails
<1>7. CASE WaitNextBuffer \/ PollBuffer
  BY <1>1, <1>7 DEF WaitNextBuffer, PollBuffer
<1>. QED BY <1>1, <1>2, <1>3, <1>4, <1>5, <1>6, <1>7 DEF Next, ConsumerStep

\* The consumer of a recording gets its file in order, no read of it skipped or
\* given twice, from the position of the last seek that succeeded, whatever the
\* order of the steps of the three actors: the stream implements RecordingCursor.
THEOREM StreamImplementsCursor ==
    ASSUME ~SeekAnyTime
    PROVE  Spec => StreamIsCursor
<1>1. Init => Cursor!Init
  BY DEF Init, Cursor!Init
<1>2. CursorInv /\ [Next]_vars => [Cursor!Next]_<<cursor, got>>
  BY CursorStep DEF Cursor!Next
<1>3. CursorInv /\ [Next]_vars => CursorInv'
  BY CursorInvStep
<1>. QED BY <1>1, <1>2, <1>3, CursorInvInit, PTL
     DEF Spec, Safety, StreamIsCursor, Cursor!Spec, Cursor!cursorVars

\* The read that follows a seek that succeeded is that of its bookmark: what the
\* transfer thread has read before the seek is never left in the queue.
THEOREM SeekReachesIt ==
    ASSUME ~SeekAnyTime
    PROVE  Spec => SeekReachesBookmark
<1>. DEFINE Still == ~Seekable => cursor = got + 1
            Reaches == (GetLatestRawData /\ queue # <<>> /\ user = "idle"
                          /\ cursor # got + 1) => Head(queue).chunk = cursor
<1>1. Init => CursorInv /\ Still
  BY CursorInvInit DEF Init
<1>2. CursorInv /\ Still /\ [Next]_vars => (CursorInv /\ Still)'
  BY CursorInvStep, CursorStep, OneProducer DEF Seekable
<1>3. CursorInv /\ Still => Reaches
  <2>. SUFFICES ASSUME CursorInv, Still, queue # <<>>, cursor # got + 1
                PROVE  Head(queue).chunk = cursor
    OBVIOUS
  <2>. QED BY ConsecutiveTail, StreamAssumption
           DEF CursorInv, InOrder, StreamInv, StreamTypes, Values, PoolInv, PoolTypes
<1>4. CursorInv /\ Still /\ [Next]_vars => [Reaches]_vars
  BY <1>3
<1>. HIDE DEF Still, Reaches
<1>. QED BY <1>1, <1>2, <1>4, PTL DEF Spec, Safety, SeekReachesBookmark, Reaches

-----------------------------------------------------------------------------
(* The consumer is told the end when there is one.                         *)

LEMMA EndsAtEndUser ==
    ASSUME StreamInv, Seekable, UserCalls, KeptOut, InOrder, EndsAtEnd,
           StreamStart \/ StreamStopCall \/ SeekBegin \/ UserStep
    PROVE  EndsAtEnd'
<1>1. /\ queue \in Seq(Queued) /\ Len(queue) \in Nat /\ cursor \in Nat
      /\ asked \in BOOLEAN /\ IInv
  BY StreamAssumption, LenProperties DEF StreamInv, PoolInv, PoolTypes, StreamTypes, Values
<1>. USE <1>1, ThreadAssumption
     DEF IInv, DTTypeOK, OneSlot, CallThread, PcFlags, UserCalls, KeptOut, EndsAtEnd, UserPc,
         Announced, Suspended, Restarts, ThreadPc, CallPc, SuspPc, UserGoto, dtVars, flags,
         producerVars, history
<1>2. CASE StreamStart
  BY <1>2 DEF StreamStart, AllQueued
<1>3. CASE StreamStopCall
  BY <1>3 DEF StreamStopCall, AllQueued
<1>4. CASE SeekBegin
  BY <1>4 DEF SeekBegin, AllQueued
<1>5. CASE StreamStartTransfer
  BY <1>5 DEF StreamStartTransfer, StartCall, AllQueued
<1>6. CASE StreamStopTransfer
  BY <1>6 DEF StreamStopTransfer, StopCall, AllQueued
<1>7. CASE StreamReturn
  BY <1>7 DEF StreamReturn, AllQueued
<1>8. CASE TransferCall
  <2>1. CASE StartJoin \/ StopJoin
    BY <1>8, <2>1 DEF TransferCall, StartJoin, StopJoin, Join, streamVars, AllQueued
  <2>2. CASE StartReset \/ StopImpl \/ StopNotify
    BY <1>8, <2>2 DEF TransferCall, StartReset, StopImpl, StopNotify, streamVars, AllQueued
  <2>3. CASE StartSpawn
    BY <1>8, <2>3 DEF TransferCall, StartSpawn, streamVars, AllQueued
  <2>. QED BY <1>8, <2>1, <2>2, <2>3 DEF TransferCall, StartFails, StopDetach
<1>9. CASE SeekRelease
  <2>1. Len(queue') = Len(queue)
    BY <1>9, ConsecutiveCloned DEF SeekRelease, InOrder
  <2>. QED BY <1>9, <2>1 DEF SeekRelease, AllQueued
<1>10. CASE SeekSuspend
  BY <1>10 DEF SeekSuspend, SuspendSet, SuspendReturn, AllQueued
<1>11. CASE SeekFree \/ SeekMove \/ SeekUnblock
  BY <1>11 DEF SeekFree, SeekMove, SeekUnblock, AllQueued
<1>12. CASE SeekClear
  BY <1>12 DEF SeekClear
<1>13. CASE SeekRestart
  BY <1>13 DEF SeekRestart, StartCall, AllQueued
<1>14. CASE SeekFailed
  BY <1>14 DEF SeekFailed, AllQueued
<1>15. CASE SeekDone
  BY <1>15 DEF SeekDone, AllQueued
<1>16. CASE SeekResume
  BY <1>16 DEF SeekResume, Resume, AllQueued
<1>. QED BY <1>2, <1>3, <1>4, <1>5, <1>6, <1>7, <1>8, <1>9, <1>10, <1>11, <1>12, <1>13,
            <1>14, <1>15, <1>16 DEF UserStep, SeekStep

LEMMA EndsAtEndThread ==
    ASSUME StreamInv, Seekable, UserCalls, KeptOut, InOrder, EndsAtEnd,
           NEW t \in Threads, TransferThread(t) \/ DeviceSends(t) \/ DeviceFails(t)
    PROVE  EndsAtEnd'
<1>1. /\ queue \in Seq(Queued) /\ Len(queue) \in Nat /\ cursor \in Nat /\ pos \in 1..NChunks + 1
      /\ asked \in BOOLEAN /\ IInv /\ NChunks \in Nat
  BY StreamAssumption, LenProperties DEF StreamInv, PoolInv, PoolTypes, StreamTypes, Values
<1>. USE <1>1, ThreadAssumption
     DEF IInv, DTTypeOK, OneSlot, PcFlags, UserCalls, KeptOut, EndsAtEnd,
         Announced, Suspended, ThreadPc, flags, producerVars, history, Goto
<1>2. CASE StreamStarted(t)
  BY <1>2 DEF StreamStarted, StartedCallbacks, streamVars, AllQueued
<1>3. CASE StreamStopped(t)
  BY <1>3 DEF StreamStopped, StoppedCallbacks, AllQueued
<1>4. CASE RunTop(t)
  <2>1. /\ pc[t] = "run"
        /\ UNCHANGED <<streamStop, seeking_, queue, user, target, asked, cursor>>
    BY <1>4 DEF RunTop, InRun, StreamUnchanged
  <2>2. AllQueued' = AllQueued
    BY <2>1 DEF AllQueued
  <2>3. CASE ShouldStop /\ RunReturn(t)
    <3>1. asked => suspend_
      BY <2>1, <2>3 DEF ShouldStop
    <3>. QED BY <2>1, <2>2, <2>3, <3>1 DEF RunReturn
  <2>4. CASE UNCHANGED dtVars
    BY <2>1, <2>2, <2>4 DEF dtVars
  <2>. QED BY <1>4, <2>3, <2>4 DEF RunTop
<1>5. CASE RunGate(t) \/ RunRefill(t) \/ RunLock(t)
  BY <1>5 DEF RunGate, RunRefill, RunLock, StreamUnchanged, dtVars, AllQueued
<1>6. pc[t] = "run" => ~Moved
  BY DEF Moved
<1>7. CASE RunRead(t)
  <2>1. pos > NChunks => AllQueued
    BY <1>6, <1>7 DEF RunRead, InRun, InOrder, AllQueued
  <2>2. AllQueued' = AllQueued
    BY <1>7 DEF RunRead, StreamUnchanged, AllQueued
  <2>. QED BY <1>7, <2>1, <2>2 DEF RunRead, RunReturn, InRun, StreamUnchanged, dtVars
<1>8. CASE RunDeliver(t)
  <2>1. ~AllQueued
    BY <1>6, <1>8 DEF RunDeliver, InRun, InOrder, AllQueued
  <2>. QED BY <1>8, <2>1 DEF RunDeliver, InRun, dtVars
<1>9. CASE TestStop(t) /\ UNCHANGED streamVars
  BY <1>9 DEF TestStop, streamVars, AllQueued
<1>10. CASE TestSuspend(t) /\ UNCHANGED streamVars
  BY <1>10 DEF TestSuspend, streamVars, AllQueued
<1>11. CASE (ClearSuspend(t) \/ EnterRun(t) \/ LeaveRun(t)) /\ UNCHANGED streamVars
  BY <1>11 DEF ClearSuspend, EnterRun, LeaveRun, streamVars, AllQueued
<1>12. CASE (AwaitResume(t) \/ ThreadNotifyStop(t)) /\ UNCHANGED streamVars
  BY <1>12 DEF AwaitResume, ThreadNotifyStop, streamVars, AllQueued
<1>13. ~StreamError(t) /\ ~DeviceSends(t) /\ ~DeviceFails(t)
  BY DEF StreamError, ErrorCallbacks, DeviceSends, DeviceFails, RunThrows
<1>. QED BY <1>2, <1>3, <1>4, <1>5, <1>7, <1>8, <1>9, <1>10, <1>11, <1>12, <1>13
     DEF TransferThread, RunStep

LEMMA EndsAtEndStep ==
    ASSUME StreamInv, Seekable, UserCalls, KeptOut, InOrder, EndsAtEnd, [Next]_vars
    PROVE  EndsAtEnd'
<1>1. CASE UNCHANGED <<dtVars, streamStop, user, asked, queue, cursor>>
  BY <1>1 DEF EndsAtEnd, AllQueued, dtVars
<1>2. CASE WaitNextBuffer \/ PollBuffer \/ DropBuffer \/ UNCHANGED vars
  BY <1>1, <1>2 DEF WaitNextBuffer, PollBuffer, DropBuffer, ConsumerUnchanged, vars,
     streamVars, history
<1>3. CASE GetLatestRawData
  <2>1. UNCHANGED <<dtVars, streamStop, user, asked>>
    BY <1>3 DEF GetLatestRawData, ConsumerUnchanged
  <2>2. CASE UNCHANGED <<queue, cursor>>
    BY <1>1, <2>1, <2>2
  <2>3. CASE queue # <<>> /\ TakeHead
    <3>1. queue' = Tail(queue) /\ cursor' = Head(queue).chunk + 1
      BY <2>3 DEF TakeHead
    <3>2. queue \in Seq(Queued) /\ cursor \in Nat /\ Consecutive(queue, cursor)
      BY StreamAssumption DEF StreamInv, PoolInv, PoolTypes, StreamTypes, Values, InOrder
    <3>3. cursor' = cursor + 1 /\ Len(queue) = Len(queue') + 1 /\ Len(queue') \in Nat
      BY <2>3, <3>1, <3>2, ConsecutiveTail
    <3>4. AllQueued' <=> AllQueued
      BY <3>2, <3>3, StreamAssumption DEF AllQueued
    <3>. QED BY <2>1, <3>4 DEF EndsAtEnd, dtVars
  <2>. QED BY <1>3, <2>2, <2>3 DEF GetLatestRawData
<1>. QED BY <1>2, <1>3, EndsAtEndUser, EndsAtEndThread DEF Next, ConsumerStep

LEMMA EndsBrokenUser ==
    ASSUME StreamInv, ~Seekable, EndsBroken,
           StreamStart \/ StreamStopCall \/ SeekBegin \/ UserStep
    PROVE  EndsBroken'
<1>1. /\ asked \in BOOLEAN /\ broken \in BOOLEAN /\ connError \in BOOLEAN
      /\ IInv /\ DeviceInv
  BY DEF StreamInv, StreamTypes, Values
<1>. USE <1>1, ThreadAssumption
     DEF IInv, DTTypeOK, DeviceInv, DeviceSteps, DeviceUserPc, EndsBroken,
         ThreadPc, CallPc, UserGoto, dtVars, flags, producerVars, history
<1>2. CASE StreamStart
  BY <1>2 DEF StreamStart
<1>3. CASE StreamStopCall
  BY <1>3 DEF StreamStopCall
<1>4. CASE StreamStartTransfer
  BY <1>4 DEF StreamStartTransfer, StartCall
<1>5. CASE StreamStopTransfer
  BY <1>5 DEF StreamStopTransfer, StopCall
<1>6. CASE StreamReturn
  BY <1>6 DEF StreamReturn
<1>7. CASE (StartJoin \/ StopJoin) /\ UNCHANGED streamVars
  BY <1>7 DEF StartJoin, StopJoin, Join, streamVars
<1>8. CASE (StartReset \/ StartFails) /\ UNCHANGED streamVars
  BY <1>8 DEF StartReset, StartFails, streamVars
<1>9. CASE StartSpawn /\ UNCHANGED streamVars
  BY <1>9 DEF StartSpawn, streamVars
<1>10. CASE (StopImpl \/ StopNotify) /\ UNCHANGED streamVars
  BY <1>10 DEF StopImpl, StopNotify, streamVars
<1>11. CASE StopDetach /\ broken' = TRUE /\ UNCHANGED <<user, asked>>
  BY <1>11 DEF StopDetach
<1>12. CASE TransferCall
  BY <1>7, <1>8, <1>9, <1>10, <1>11, <1>12 DEF TransferCall
<1>13. ~SeekBegin /\ ~SeekStep
  BY DEF SeekBegin, SeekStep, SeekRelease, SeekSuspend, SeekFree, SeekMove, SeekUnblock,
     SeekClear, SeekRestart, SeekFailed, SeekDone, SeekResume
<1>. QED BY <1>2, <1>3, <1>4, <1>5, <1>6, <1>12, <1>13 DEF UserStep

LEMMA EndsBrokenThread ==
    ASSUME StreamInv, ~Seekable, EndsBroken,
           NEW t \in Threads, TransferThread(t) \/ DeviceSends(t) \/ DeviceFails(t)
    PROVE  EndsBroken'
<1>1. /\ asked \in BOOLEAN /\ broken \in BOOLEAN /\ connError \in BOOLEAN
      /\ IInv /\ DeviceInv
  BY DEF StreamInv, StreamTypes, Values
<1>. USE <1>1
     DEF IInv, DTTypeOK, DeviceInv, DeviceSteps, EndsBroken,
         ThreadPc, dtVars, flags, producerVars, history, Goto
<1>2. CASE StreamStarted(t)
  BY <1>2 DEF StreamStarted, StartedCallbacks, streamVars
<1>3. CASE StreamStopped(t)
  BY <1>3 DEF StreamStopped, StoppedCallbacks
<1>4. CASE StreamError(t)
  BY <1>4 DEF StreamError, ErrorCallbacks
<1>5. CASE RunTop(t)
  BY <1>5 DEF RunTop, RunReturn, InRun, ShouldStop, StreamUnchanged
<1>6. ~(RunGate(t) \/ RunRefill(t) \/ RunLock(t) \/ RunRead(t) \/ RunDeliver(t))
  BY DEF RunGate, RunRefill, RunLock, RunRead, RunDeliver, InRun
<1>7. CASE (TestStop(t) \/ TestSuspend(t)) /\ UNCHANGED streamVars
  BY <1>7 DEF TestStop, TestSuspend, streamVars
<1>8. CASE (ClearSuspend(t) \/ EnterRun(t) \/ LeaveRun(t)) /\ UNCHANGED streamVars
  BY <1>8 DEF ClearSuspend, EnterRun, LeaveRun, streamVars
<1>9. CASE (AwaitResume(t) \/ ThreadNotifyStop(t)) /\ UNCHANGED streamVars
  BY <1>9 DEF AwaitResume, ThreadNotifyStop, streamVars
<1>10. CASE DeviceSends(t)
  BY <1>10 DEF DeviceSends
<1>11. CASE RunThrows(t) /\ UNCHANGED streamVars
  BY <1>11 DEF RunThrows, streamVars
<1>12. CASE RunReturn(t) /\ broken' = TRUE /\ UNCHANGED <<user, asked>>
  BY <1>12 DEF RunReturn
<1>13. CASE DeviceFails(t)
  BY <1>11, <1>12, <1>13 DEF DeviceFails
<1>. QED BY <1>2, <1>3, <1>4, <1>5, <1>6, <1>7, <1>8, <1>9, <1>10, <1>13
     DEF TransferThread, RunStep

LEMMA EndsBrokenStep ==
    ASSUME StreamInv, ~Seekable, EndsBroken, [Next]_vars
    PROVE  EndsBroken'
<1>1. CASE UNCHANGED <<dtVars, streamStop, user, asked, broken, connError>>
  BY <1>1 DEF EndsBroken, dtVars
<1>2. CASE ConsumerStep \/ DropBuffer \/ UNCHANGED vars
  BY <1>1, <1>2 DEF ConsumerStep, WaitNextBuffer, PollBuffer, GetLatestRawData,
     DropBuffer, ConsumerUnchanged, vars, streamVars, history
<1>. QED BY <1>2, EndsBrokenUser, EndsBrokenThread DEF Next

EndInv ==
    /\ CursorInv
    /\ IF Seekable THEN EndsAtEnd ELSE EndsBroken

LEMMA EndInvInit == Init => EndInv
<1>. SUFFICES ASSUME Init PROVE EndInv
  OBVIOUS
<1>. USE DEF Init, DTInit
<1>1. EndsAtEnd
  BY DEF EndsAtEnd
<1>2. EndsBroken
  BY DEF EndsBroken
<1>. QED BY <1>1, <1>2, CursorInvInit DEF EndInv

LEMMA EndInvStep ==
    ASSUME ~SeekAnyTime
    PROVE  EndInv /\ [Next]_vars => EndInv'
<1>. SUFFICES ASSUME EndInv, [Next]_vars PROVE EndInv'
  OBVIOUS
<1>1. CursorInv'
  BY CursorInvStep DEF EndInv
<1>2. Seekable' = Seekable
  BY OneProducer DEF Seekable
<1>3. CASE Seekable
  BY <1>1, <1>2, <1>3, EndsAtEndStep DEF EndInv, CursorInv
<1>4. CASE ~Seekable
  BY <1>1, <1>2, <1>4, EndsBrokenStep DEF EndInv, CursorInv
<1>. QED BY <1>3, <1>4

\* Who sets cons to "ended" has seen the stream stopped, its queue empty and no
\* loss of the connection.
LEMMA EndSeen ==
    ASSUME [Next]_vars, cons # "ended", cons' = "ended"
    PROVE  streamStop /\ queue = <<>> /\ ~connError
<1>. USE DEF Notify, producerVars, history
<1>1. CASE ConsumerStep
  BY <1>1 DEF ConsumerStep, WaitNextBuffer, PollBuffer, GetLatestRawData
<1>2. ~(StreamStart \/ StreamStopCall \/ SeekBegin \/ DropBuffer \/ UNCHANGED vars)
  BY DEF StreamStart, StreamStopCall, SeekBegin, DropBuffer, ConsumerUnchanged, vars, streamVars
<1>3. ~UserStep
  BY DEF UserStep, StreamStartTransfer, StreamStopTransfer, StreamReturn, TransferCall,
     streamVars, SeekStep, SeekRelease, SeekSuspend, SeekFree, SeekMove, SeekUnblock,
     SeekClear, SeekRestart, SeekFailed, SeekDone, SeekResume
<1>4. ASSUME NEW t \in Threads, TransferThread(t) \/ DeviceSends(t) \/ DeviceFails(t)
      PROVE  FALSE
  BY <1>4 DEF TransferThread, StreamStarted, StreamStopped, StreamError, RunStep, RunTop,
     RunGate, RunRefill, RunLock, RunRead, RunDeliver, StreamUnchanged, streamVars,
     DeviceSends, DeviceFails
<1>. QED BY <1>1, <1>2, <1>3, <1>4 DEF Next

\* wait_next_buffer() returns -1 when stop() has been called, when a recording has
\* been handed out to its last byte, and else only when a device has failed in a
\* way that the stream does not keep: a Stopped callback that comes late, or during
\* a seek, never tells the end of a stream with data to come.
THEOREM TheEndIsTheEnd ==
    ASSUME ~SeekAnyTime
    PROVE  Spec => EndMeansEnd
<1>. DEFINE TellsTheEnd == (cons # "ended" /\ cons' = "ended") =>
                               \/ ~asked
                               \/ Seekable /\ cursor = NChunks + 1
                               \/ ~Seekable /\ broken
<1>1. EndInv /\ [Next]_vars => TellsTheEnd
  <2>. SUFFICES ASSUME EndInv, [Next]_vars, cons # "ended", cons' = "ended", asked
                PROVE  IF Seekable THEN cursor = NChunks + 1 ELSE broken
    OBVIOUS
  <2>1. streamStop /\ queue = <<>> /\ ~connError
    BY EndSeen
  <2>2. cursor \in Nat
    BY StreamAssumption DEF EndInv, CursorInv, StreamInv, StreamTypes, Values
  <2>. QED BY <2>1, <2>2 DEF EndInv, EndsAtEnd, EndsBroken, AllQueued
<1>2. EndInv /\ [Next]_vars => [TellsTheEnd]_vars
  BY <1>1
<1>3. EndInv /\ [Next]_vars => EndInv'
  BY EndInvStep
<1>. HIDE DEF TellsTheEnd
<1>. QED BY <1>2, <1>3, EndInvInit, PTL DEF Spec, Safety, EndMeansEnd, TellsTheEnd
=============================================================================

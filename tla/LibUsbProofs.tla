---------------------------- MODULE LibUsbProofs ----------------------------
(***************************************************************************)
(* The ring of asynchronous USB transfers, for any number of transfers, of *)
(* packets and of thread slots: completion_ means what its comment says,   *)
(* a run that ends with an error leaves nothing to libusb, unless          *)
(* cancelling fails as well, and the packets reach transfer_data in the    *)
(* order the device sent them.                                             *)
(*                                                                         *)
(* The last rests on RingOrder: from the transfer that run_impl waits for, *)
(* the ring is in the order of the submissions, so that data, which goes   *)
(* to the oldest transfer of the queue, never overtakes data.              *)
(***************************************************************************)
EXTENDS LibUsbTransfer, DataTransferProofs, SequenceTheorems

-----------------------------------------------------------------------------
(* The invariants.                                                         *)

Result == [status : {"none", "data", "timeout", "error", "cancelling", "cancelled"},
           packet : 0..MaxData]
Stopping == {"stop.cancel", "stop.wait"}
RunPlaces == {"outside", "wait", "look", "submit"} \cup Stopping
OwnPlaces == {"outside", "submit"} \cup Stopping

QueueTypes ==
    /\ inFlight \in Seq(Transfers) /\ IsInjective(inFlight)
    /\ completed = [i \in Transfers |-> ~Queued(i)]
UsbValues ==
    /\ result \in [Transfers -> Result]
    /\ sent \in 0..MaxData /\ got \in 0..sent
    /\ \A i \in Transfers : result[i].packet <= sent
    /\ runAt \in [place : RunPlaces, i : Transfers]
    /\ ownAt \in [place : OwnPlaces, i : Transfers]
ErrorTypes == errors \in [run : BOOLEAN, own : BOOLEAN]
UsbTypes == QueueTypes /\ UsbValues /\ ErrorTypes

\* A thread is joined, or detached and gone, before start() creates the next one.
\* The ring is walked from its first transfer, by a thread that is in run_impl.
NoThreadLeft == \A t \in Threads : pc[t] = "none"
OneRunner == \A t, u \in Threads : pc[t] # "none" /\ pc[u] # "none" => t = u
UsbCalls ==
    /\ OneRunner
    /\ call \in {"start.reset", "start.impl"} => thread = NoThread /\ NoThreadLeft
    /\ ownAt.place = "submit" => call = "start.impl"
    /\ IF runAt.place = "outside" THEN runAt.i = 1
                                  ELSE \E t \in Threads : pc[t] = "run"

\* Nobody suspends the transfers of a device; what run_impl looks at has completed.
NeverSuspended == ~suspend_
Looked == runAt.place \in {"look", "submit"} => ~Queued(runAt.i)

\* After an error the transfers are cancelled and waited for in turn, and only
\* run_impl itself would submit one again.
Emptied ==
    /\ runAt.place \in Stopping /\ ~errors.run => \A j \in Transfers : j < runAt.i => ~Queued(j)
    /\ \A t \in Threads : pc[t] = "error" /\ ~errors.run => inFlight = <<>>

\* j comes before k when the ring is walked from f.
Earlier(f, j, k) ==
    \/ f <= j /\ j < k
    \/ j < k /\ k < f
    \/ k < f /\ f <= j

\* j is older than k in a queue that holds both.
Precedes(q, j, k) == \A a, b \in 1..Len(q) : q[a] = j /\ q[b] = k => a < b

HasData(k) == completed[k] /\ result[k].status = "data"

Order(f) ==
    \A j, k \in Transfers : Earlier(f, j, k) =>
        /\ Precedes(inFlight, j, k)
        /\ HasData(k) => ~Queued(j)
        /\ HasData(j) /\ HasData(k) => result[j].packet < result[k].packet

\* No data has been passed over: what is not given to transfer_data is newer.
Fresh(f) ==
    \A k \in Transfers :
        HasData(k) /\ ~(runAt.place = "submit" /\ k = f) => result[k].packet > got

RingOrder(f) == Order(f) /\ Fresh(f)

\* The order that start_impl makes, transfer by transfer.
Submitting ==
    ownAt.place = "submit" =>
        \A k \in Transfers : k < ownAt.i =>
            /\ Queued(k)
            /\ \A j \in Transfers : j < k => Precedes(inFlight, j, k)

\* A thread that was told to stop, or that has met an error, leaves the ring
\* where it is: the next start_impl makes the order anew.
Driving == {"started", "test", "clear", "enter", "run"}
Ring ==
    \A t \in Threads : pc[t] \in Driving =>
        \/ stop_ /\ runAt = Outside
        \/ runAt.place \in Stopping
        \/ RingOrder(runAt.i)

-----------------------------------------------------------------------------
(* The queue.                                                              *)

\* A submission goes to the end of the queue.
LEMMA SubmitSeq ==
    ASSUME NEW S, NEW q \in Seq(S), IsInjective(q), NEW i \in S, ~Contains(q, i)
    PROVE  /\ Append(q, i) \in Seq(S) /\ IsInjective(Append(q, i))
           /\ \A j \in S : Contains(Append(q, i), j) <=> j = i \/ Contains(q, j)
           /\ \A j, k \in S :
                 j # i /\ (k = i \/ Precedes(q, j, k)) => Precedes(Append(q, i), j, k)
<1>. DEFINE r == Append(q, i)
<1>1. /\ r \in Seq(S) /\ Len(q) \in Nat /\ Len(r) = Len(q) + 1
      /\ DOMAIN r = 1..Len(r) /\ DOMAIN q = 1..Len(q)
      /\ r[Len(r)] = i /\ \A a \in 1..Len(r) : a # Len(r) => a \in 1..Len(q) /\ r[a] = q[a]
  BY AppendProperties, LenProperties
<1>2. \A a \in 1..Len(q) : q[a] # i
  BY DEF Contains
<1>3. \A a \in 1..Len(q) : a \in 1..Len(r) /\ a # Len(r)
  BY <1>1
<1>4. Len(r) \in 1..Len(r)
  BY <1>1
<1>. HIDE DEF r
<1>5. IsInjective(r)
  BY <1>1, <1>2 DEF IsInjective
<1>6. ASSUME NEW j \in S
      PROVE  Contains(r, j) <=> j = i \/ Contains(q, j)
  BY <1>1, <1>3, <1>4 DEF Contains
<1>7. ASSUME NEW j \in S, NEW k \in S, j # i, k = i \/ Precedes(q, j, k)
      PROVE  Precedes(r, j, k)
  <2>. SUFFICES ASSUME NEW a \in 1..Len(r), NEW b \in 1..Len(r), r[a] = j, r[b] = k
                PROVE  a < b
    BY DEF Precedes
  <2>1. a # Len(r)
    BY <1>1, <1>7
  <2>2. CASE b = Len(r)
    BY <1>1, <2>1, <2>2
  <2>3. CASE b # Len(r)
    <3>1. b \in 1..Len(q) /\ q[b] = k /\ a \in 1..Len(q) /\ q[a] = j
      BY <1>1, <2>1, <2>3
    <3>. QED BY <1>2, <1>7, <3>1 DEF Precedes
  <2>. QED BY <2>2, <2>3
<1>. QED BY <1>1, <1>5, <1>6, <1>7 DEF r

\* What follows one position of a sequence.
LEMMA AfterSeq ==
    ASSUME NEW S, NEW q \in Seq(S), NEW n \in 1..Len(q)
    PROVE  /\ SubSeq(q, n + 1, Len(q)) \in Seq(S)
           /\ Len(SubSeq(q, n + 1, Len(q))) = Len(q) - n
           /\ \A a \in 1..Len(q) - n : SubSeq(q, n + 1, Len(q))[a] = q[a + n]
<1>1. Len(q) \in Nat /\ \A a \in 1..Len(q) : q[a] \in S
  BY LenProperties, ElementOfSeq
<1>2. ASSUME NEW m, NEW l, m = n + 1, l = Len(q), NEW t, t = SubSeq(q, m, l)
      PROVE  t \in Seq(S) /\ Len(t) = l - n /\ \A a \in 1..l - n : t[a] = q[a + n]
  <2>1. m \in Int /\ l \in Int /\ \A a \in m..l : q[a] \in S
    BY <1>1, <1>2
  <2>2. /\ t \in Seq(S) /\ Len(t) = IF m <= l THEN l - m + 1 ELSE 0
        /\ \A a \in 1..l - m + 1 : t[a] = q[m + a - 1]
    BY <1>2, <2>1, SubSeqProperties
  <2>3. ASSUME NEW x, x = IF m <= l THEN l - m + 1 ELSE 0
        PROVE  x = l - n
    BY <1>1, <1>2, <2>3
  <2>4. ASSUME NEW a \in 1..l - n
        PROVE  a \in 1..l - m + 1 /\ m + a - 1 = a + n
    BY <1>1, <1>2
  <2>. QED BY <2>2, <2>3, <2>4
<1>. QED BY <1>2

\* A completion takes its transfer out of the queue and leaves the others in
\* their order.
LEMMA CompleteSeq ==
    ASSUME NEW S, NEW q \in Seq(S), IsInjective(q), NEW n \in 1..Len(q)
    PROVE  /\ q[n] \in S
           /\ RemoveAt(q, n) \in Seq(S) /\ IsInjective(RemoveAt(q, n))
           /\ \A j \in S : Contains(RemoveAt(q, n), j) <=> j # q[n] /\ Contains(q, j)
           /\ \A j, k \in S : Precedes(q, j, k) => Precedes(RemoveAt(q, n), j, k)
<1>. DEFINE r == RemoveAt(q, n)
            s == SubSeq(q, 1, n - 1)
            t == SubSeq(q, n + 1, Len(q))
            old(a) == IF a < n THEN a ELSE a + 1
            new(a) == IF a < n THEN a ELSE a - 1
<1>1. /\ Len(q) \in Nat /\ \A a \in 1..Len(q) : q[a] \in S
      /\ DOMAIN q = 1..Len(q)
  BY LenProperties, ElementOfSeq
<1>2. /\ s \in Seq(S) /\ Len(s) = n - 1
      /\ \A a \in 1..n - 1 : s[a] = q[a]
  <2>1. \A a \in 1..n - 1 : q[a] \in S
    BY <1>1
  <2>. QED BY <1>1, <2>1, SubSeqProperties
<1>3. /\ t \in Seq(S) /\ Len(t) = Len(q) - n
      /\ \A a \in 1..Len(q) - n : t[a] = q[a + n]
  BY AfterSeq
<1>4. /\ r \in Seq(S) /\ Len(r) = Len(q) - 1 /\ DOMAIN r = 1..Len(r)
      /\ \A a \in 1..Len(r) : r[a] = IF a <= n - 1 THEN s[a] ELSE t[a - (n - 1)]
  <2>1. r = s \o t
    BY DEF RemoveAt
  <2>. HIDE DEF r, s, t
  <2>2. /\ s \o t \in Seq(S) /\ Len(s \o t) = Len(s) + Len(t)
        /\ \A a \in 1 .. Len(s) + Len(t) : (s \o t)[a] = IF a <= Len(s) THEN s[a] ELSE t[a - Len(s)]
    BY <1>2, <1>3, ConcatProperties
  <2>3. Len(s) + Len(t) = Len(q) - 1
    BY <1>1, <1>2, <1>3
  <2>4. DOMAIN r = 1..Len(r)
    BY <2>1, <2>2, LenProperties
  <2>. QED BY <1>2, <2>1, <2>2, <2>3, <2>4
<1>5. \A a \in 1..Len(r) : r[a] = q[old(a)] /\ old(a) \in 1..Len(q) /\ old(a) # n
  <2>. HIDE DEF r, s, t
  <2>. SUFFICES ASSUME NEW a \in 1..Len(r)
                PROVE  r[a] = q[old(a)] /\ old(a) \in 1..Len(q) /\ old(a) # n
    OBVIOUS
  <2>1. CASE a < n
    BY <1>1, <1>2, <1>4, <2>1
  <2>2. CASE ~(a < n)
    <3>1. a - (n - 1) \in 1..Len(q) - n /\ a - (n - 1) + n = a + 1
      BY <1>1, <1>4, <2>2
    <3>2. t[a - (n - 1)] = q[a - (n - 1) + n]
      BY <1>3, <3>1
    <3>. QED BY <1>1, <1>4, <2>2, <3>1, <3>2
  <2>. QED BY <2>1, <2>2
<1>6. \A b \in 1..Len(q) : b # n => new(b) \in 1..Len(r) /\ old(new(b)) = b
  BY <1>1, <1>4
<1>7. \A a, b \in 1..Len(r) : (old(a) < old(b) => a < b) /\ (old(a) = old(b) => a = b)
  BY <1>4
<1>. HIDE DEF r, old, new
<1>8. IsInjective(r)
  BY SMTT(30), <1>1, <1>4, <1>5, <1>7 DEF IsInjective
<1>9. ASSUME NEW j \in S
      PROVE  Contains(r, j) <=> j # q[n] /\ Contains(q, j)
  <2>1. ASSUME NEW a \in 1..Len(r), r[a] = j
        PROVE  j # q[n] /\ \E b \in 1..Len(q) : q[b] = j
    BY <1>1, <1>5, <2>1 DEF IsInjective
  <2>2. ASSUME NEW b \in 1..Len(q), q[b] = j, j # q[n]
        PROVE  \E a \in 1..Len(r) : r[a] = j
    BY <1>5, <1>6, <2>2
  <2>. QED BY <2>1, <2>2 DEF Contains
<1>10. ASSUME NEW j \in S, NEW k \in S, Precedes(q, j, k)
       PROVE  Precedes(r, j, k)
  BY SMTT(30), <1>5, <1>7, <1>10 DEF Precedes
<1>11. q[n] \in S
  BY <1>1
<1>. QED BY <1>4, <1>8, <1>9, <1>10, <1>11 DEF r

\* What is older than the oldest transfer of the queue is not in the queue.
LEMMA OldestSeq ==
    ASSUME NEW S, NEW q \in Seq(S), q # <<>>
    PROVE  /\ Head(q) \in S /\ Contains(q, Head(q))
           /\ \A j \in S : Precedes(q, j, Head(q)) => ~Contains(q, j)
<1>1. /\ Len(q) \in Nat \ {0} /\ Head(q) = q[1] /\ Head(q) \in S
  BY HeadTailProperties, LenProperties, EmptySeq
<1>2. \A j \in S : Precedes(q, j, q[1]) => \A a \in 1..Len(q) : q[a] # j
  BY <1>1 DEF Precedes
<1>. QED BY <1>1, <1>2 DEF Contains

\* The ring seen from the next transfer: f has become its last.
Follower(f) == IF f < NTransfers THEN f + 1 ELSE 1

LEMMA EarlierNext ==
    ASSUME NEW f \in Transfers
    PROVE  /\ Follower(f) \in Transfers
           /\ \A k \in Transfers : k # f => Earlier(f, f, k)
           /\ \A j, k \in Transfers : Earlier(Follower(f), j, k)
                 => j # f /\ (k = f \/ Earlier(f, j, k))
BY UsbAssumption DEF Transfers, Follower, Earlier

-----------------------------------------------------------------------------
(* What each operation does to the ring.                                   *)

\* The steps of the owner in a call, and those of the transfer thread, those
\* that fail included.
OwnerMoves == OwnerSteps \/ UsbStopFails
RunnerMoves(t) == TransferThread(t) \/ RunWaitFails(t) \/ RunStopFails(t)

\* The transfer thread under the ring is that of DataTransfer.
LEMMA UsbTransferStep == [Next]_vars => [DTNext]_dtVars
<1>. SUFFICES ASSUME [Next]_vars PROVE [DTNext]_dtVars
  OBVIOUS
<1>. USE DEF DTNext, OwnerStep, StartStep, StopStep, ThreadStep
<1>1. CASE OwnerCalls
  BY <1>1 DEF OwnerCalls
<1>2. CASE OwnerMoves
  BY <1>2 DEF OwnerMoves, OwnerSteps, UsbStart, UsbStartSubmit, UsbStop, UsbStopCancel,
     UsbStopWait, UsbStopFails, OwnerNext
<1>3. ASSUME NEW t \in Threads, RunnerMoves(t)
      PROVE  [DTNext]_dtVars
  BY <1>3 DEF RunnerMoves, TransferThread, RunLoop, RunWait, RunLook, RunSubmit, RunStopCancel,
     RunStopWait, RunWaitFails, RunStopFails, RunnerNext, RunnerStops
<1>4. CASE \/ \E i \in Transfers : Libusb(i) \/ UsbError(i)
           \/ UsbData
  BY <1>4 DEF Libusb, UsbTimeout, UsbCancelled, UsbError, UsbData, Complete
<1>5. CASE UNCHANGED vars
  BY <1>5 DEF vars
<1>. QED BY <1>1, <1>2, <1>3, <1>4, <1>5 DEF Next, OwnerMoves, RunnerMoves

LEMMA CompleteEffect ==
    ASSUME QueueTypes, NEW i, NEW status, NEW packet, Complete(i, status, packet)
    PROVE  /\ QueueTypes'
           /\ i \in Transfers /\ Queued(i)
           /\ \A j \in Transfers : Queued(j)' <=> j # i /\ Queued(j)
           /\ \A j, k \in Transfers : Precedes(inFlight, j, k) => Precedes(inFlight', j, k)
<1>1. PICK n \in DOMAIN inFlight : inFlight[n] = i /\ inFlight' = RemoveAt(inFlight, n)
  BY DEF Complete
<1>2. n \in 1..Len(inFlight)
  BY <1>1 DEF QueueTypes
<1>3. /\ i \in Transfers /\ inFlight' \in Seq(Transfers) /\ IsInjective(inFlight')
      /\ \A j \in Transfers : Queued(j)' <=> j # i /\ Queued(j)
      /\ \A j, k \in Transfers : Precedes(inFlight, j, k) => Precedes(inFlight', j, k)
  BY <1>1, <1>2, CompleteSeq DEF QueueTypes, Queued
<1>4. Queued(i)
  BY <1>1, <1>2 DEF Queued, Contains
<1>5. completed' = [j \in Transfers |-> ~Queued(j)']
  <2>1. completed' = [completed EXCEPT ![i] = TRUE]
    BY DEF Complete
  <2>. QED BY <1>3, <2>1, Zenon DEF QueueTypes
<1>. QED BY <1>3, <1>4, <1>5 DEF QueueTypes

LEMMA SubmitEffect ==
    ASSUME QueueTypes, NEW i \in Transfers, SubmitWorks(i)
    PROVE  /\ QueueTypes'
           /\ ~Queued(i)
           /\ \A j \in Transfers : Queued(j)' <=> j = i \/ Queued(j)
           /\ \A j, k \in Transfers :
                 j # i /\ (k = i \/ Precedes(inFlight, j, k)) => Precedes(inFlight', j, k)
<1>1. ~Contains(inFlight, i) /\ inFlight' = Append(inFlight, i)
  BY DEF SubmitWorks, Queued
<1>2. /\ inFlight' \in Seq(Transfers) /\ IsInjective(inFlight')
      /\ \A j \in Transfers : Queued(j)' <=> j = i \/ Queued(j)
      /\ \A j, k \in Transfers :
            j # i /\ (k = i \/ Precedes(inFlight, j, k)) => Precedes(inFlight', j, k)
  BY <1>1, SubmitSeq DEF QueueTypes, Queued
<1>3. completed' = [j \in Transfers |-> ~Queued(j)']
  <2>1. completed' = [completed EXCEPT ![i] = FALSE]
    BY DEF SubmitWorks
  <2>. QED BY <1>2, <2>1, Zenon DEF QueueTypes
<1>. QED BY <1>1, <1>2, <1>3 DEF QueueTypes, Queued

LEMMA FailEffect ==
    ASSUME QueueTypes, NEW i \in Transfers, SubmitFails(i)
    PROVE  UNCHANGED <<inFlight, completed, result>>
<1>1. completed' = [completed EXCEPT ![i] = ~Queued(i)] /\ UNCHANGED <<inFlight, result>>
  BY DEF SubmitFails
<1>2. completed' = completed
  BY <1>1, Zenon DEF QueueTypes
<1>. QED BY <1>1, <1>2

LEMMA CancelEffect ==
    ASSUME result \in [Transfers -> Result], NEW i \in Transfers, Cancel(i)
    PROVE  /\ result' \in [Transfers -> Result]
           /\ \A j \in Transfers : /\ result'[j].packet = result[j].packet
                                   /\ ~Queued(j) => result'[j] = result[j]
           /\ UNCHANGED <<inFlight, completed, sent, got>>
<1>1. CASE ~Queued(i)
  BY <1>1 DEF Cancel
<1>2. CASE Queued(i)
  <2>. DEFINE r == [result[i] EXCEPT !.status = "cancelling"]
  <2>1. result[i] \in Result
    OBVIOUS
  <2>2. r \in Result /\ r.packet = result[i].packet
    BY <2>1 DEF Result
  <2>3. result' = [result EXCEPT ![i] = r] /\ UNCHANGED <<inFlight, completed, sent, got>>
    BY <1>2 DEF Cancel
  <2>. HIDE DEF r
  <2>. QED BY <1>2, <2>2, <2>3
<1>. QED BY <1>1, <1>2

-----------------------------------------------------------------------------
(* The types.                                                              *)

LEMMA AtType ==
    ASSUME NEW P, NEW place \in P, NEW i \in Transfers
    PROVE  /\ At(place, i) \in [place : P, i : Transfers]
           /\ At(place, i).place = place /\ At(place, i).i = i
BY DEF At

LEMMA QueueTypesStep == UsbTypes /\ [Next]_vars => QueueTypes'
<1>. SUFFICES ASSUME UsbTypes, [Next]_vars PROVE QueueTypes'
  OBVIOUS
<1>1. QueueTypes /\ runAt.i \in Transfers /\ ownAt.i \in Transfers
  BY DEF UsbTypes, UsbValues
<1>2. ASSUME UNCHANGED <<inFlight, completed>>
      PROVE  QueueTypes'
  BY <1>1, <1>2 DEF QueueTypes, Queued
<1>. HIDE DEF QueueTypes
<1>3. CASE OwnerCalls \/ UsbStart \/ UsbStop \/ UsbStopWait \/ UsbStopFails \/ UNCHANGED vars
           \/ ((StartJoin \/ StartReset \/ StopNotify \/ StopJoin) /\ UNCHANGED usbVars)
  BY <1>2, <1>3 DEF OwnerCalls, UsbStart, UsbStop, UsbStopWait, UsbStopFails, OwnerNext, vars,
     usbVars
<1>4. CASE UsbStartSubmit
  BY <1>1, <1>2, <1>4, SubmitEffect, FailEffect DEF UsbStartSubmit
<1>5. CASE UsbStopCancel
  BY <1>2, <1>5 DEF UsbStopCancel, Cancel
<1>6. ASSUME NEW t \in Threads, RunnerMoves(t)
      PROVE  QueueTypes'
  <2>1. CASE RunSubmit(t)
    BY <1>1, <1>2, <2>1, SubmitEffect, FailEffect DEF RunSubmit
  <2>2. CASE ~RunSubmit(t)
    BY <1>2, <1>6, <2>2 DEF RunnerMoves, TransferThread, RunLoop, RunWait, RunLook, RunStopCancel,
       Cancel,
       RunStopWait, RunWaitFails, RunStopFails, RunnerNext, RunnerStops, usbVars
  <2>. QED BY <2>1, <2>2
<1>7. ASSUME NEW i, NEW status, NEW packet, Complete(i, status, packet)
      PROVE  QueueTypes'
  BY <1>1, <1>7, CompleteEffect
<1>. QED BY <1>3, <1>4, <1>5, <1>6, <1>7
     DEF Next, OwnerMoves, RunnerMoves, OwnerSteps, Libusb, UsbTimeout, UsbCancelled, UsbError,
        UsbData

\* The results of a completed transfer, and of one that is submitted.
LEMMA ResultType ==
    ASSUME UsbValues, NEW i \in Transfers, NEW r \in Result, NEW n \in Nat,
           sent <= n, r.packet <= n, result' = [result EXCEPT ![i] = r]
    PROVE  /\ result' \in [Transfers -> Result]
           /\ \A j \in Transfers : result'[j].packet <= n
<1>1. result' \in [Transfers -> Result]
  BY DEF UsbValues
<1>2. ASSUME NEW j \in Transfers
      PROVE  result'[j].packet <= n
  <2>1. result[j] \in Result /\ result[j].packet \in Nat /\ result[j].packet <= sent
    BY UsbAssumption DEF UsbValues, Result
  <2>2. sent \in Nat
    BY UsbAssumption DEF UsbValues
  <2>3. result'[j] = IF j = i THEN r ELSE result[j]
    BY DEF UsbValues
  <2>. QED BY <2>1, <2>2, <2>3
<1>. QED BY <1>1, <1>2

LEMMA NothingType == Nothing \in Result /\ Nothing.packet = 0 /\ Nothing.status = "none"
BY UsbAssumption DEF Nothing, Result

LEMMA ValuesKept ==
    ASSUME UsbValues, UNCHANGED <<result, sent, got>>,
           runAt' \in [place : RunPlaces, i : Transfers],
           ownAt' \in [place : OwnPlaces, i : Transfers]
    PROVE  UsbValues'
BY DEF UsbValues

LEMMA UsbValuesStep == UsbTypes /\ [Next]_vars => UsbValues'
<1>. SUFFICES ASSUME UsbTypes, [Next]_vars PROVE UsbValues'
  OBVIOUS
<1>1. /\ QueueTypes /\ UsbValues /\ runAt.i \in Transfers /\ ownAt.i \in Transfers
      /\ 1 \in Transfers
      /\ runAt \in [place : RunPlaces, i : Transfers]
      /\ ownAt \in [place : OwnPlaces, i : Transfers]
      /\ result \in [Transfers -> Result]
  BY UsbAssumption DEF UsbTypes, UsbValues, Transfers
<1>2. \A place \in RunPlaces, i \in Transfers : At(place, i) \in [place : RunPlaces, i : Transfers]
  BY DEF At
<1>3. \A place \in OwnPlaces, i \in Transfers : At(place, i) \in [place : OwnPlaces, i : Transfers]
  BY DEF At
<1>4. /\ Outside \in [place : RunPlaces, i : Transfers]
      /\ Outside \in [place : OwnPlaces, i : Transfers]
  BY <1>1 DEF Outside, At, RunPlaces, OwnPlaces
<1>5. \A i \in Transfers : i < NTransfers => i + 1 \in Transfers
  BY UsbAssumption DEF Transfers
<1>6. /\ {"wait", "look", "submit", "stop.cancel", "stop.wait"} \subseteq RunPlaces
      /\ {"submit", "stop.cancel", "stop.wait"} \subseteq OwnPlaces
  BY DEF RunPlaces, OwnPlaces, Stopping
<1>7. ASSUME NEW i \in Transfers, Cancel(i),
             runAt' \in [place : RunPlaces, i : Transfers],
             ownAt' \in [place : OwnPlaces, i : Transfers]
      PROVE  UsbValues'
  BY <1>1, <1>7, CancelEffect DEF UsbValues
<1>8. ASSUME NEW i \in Transfers, SubmitWorks(i) \/ SubmitFails(i), UNCHANGED <<sent, got>>,
             runAt' \in [place : RunPlaces, i : Transfers],
             ownAt' \in [place : OwnPlaces, i : Transfers]
      PROVE  UsbValues'
  <2>1. CASE SubmitFails(i)
    BY <1>1, <1>8, <2>1, ValuesKept DEF SubmitFails
  <2>2. CASE SubmitWorks(i)
    <3>1. sent \in Nat /\ 0 <= sent
      BY <1>1, UsbAssumption DEF UsbValues
    <3>2. /\ result' \in [Transfers -> Result]
          /\ \A j \in Transfers : result'[j].packet <= sent
      <4>1. result' = [result EXCEPT ![i] = Nothing] /\ sent <= sent /\ Nothing.packet <= sent
        BY <2>2, <3>1, NothingType DEF SubmitWorks
      <4>. QED BY <1>1, <3>1, <4>1, ResultType, NothingType
    <3>. QED BY <1>1, <1>8, <3>2 DEF UsbValues
  <2>. QED BY <1>8, <2>1, <2>2
<1>9. ASSUME NEW i, NEW status \in {"data", "timeout", "error", "cancelled"},
             NEW packet \in 0..MaxData, Complete(i, status, packet),
             sent' \in 0..MaxData, sent <= sent', packet <= sent'
      PROVE  UsbValues'
  <2>. DEFINE r == [status |-> status, packet |-> packet]
  <2>1. i \in Transfers
    BY <1>1, <1>9, CompleteEffect
  <2>2. r \in Result /\ r.packet = packet
    BY DEF Result
  <2>3. result' = [result EXCEPT ![i] = r] /\ UNCHANGED <<got, runAt, ownAt>>
    BY <1>9 DEF Complete
  <2>4. sent' \in Nat
    BY <1>9, UsbAssumption
  <2>. HIDE DEF r
  <2>5. /\ result' \in [Transfers -> Result]
        /\ \A j \in Transfers : result'[j].packet <= sent'
    BY <1>1, <1>9, <2>1, <2>2, <2>3, <2>4, ResultType
  <2>6. got' \in 0..sent'
    BY <1>1, <1>9, <2>3, UsbAssumption DEF UsbValues
  <2>. QED BY <1>1, <1>9, <2>3, <2>5, <2>6 DEF UsbValues
<1>. HIDE DEF UsbValues
<1>10. CASE OwnerCalls \/ UNCHANGED vars
           \/ ((StartJoin \/ StartReset \/ StopNotify \/ StopJoin) /\ UNCHANGED usbVars)
  BY <1>1, <1>10, ValuesKept DEF OwnerCalls, vars, usbVars
<1>11. CASE UsbStart \/ UsbStop \/ UsbStopWait \/ UsbStopFails
  BY <1>1, <1>3, <1>4, <1>5, <1>6, <1>11, ValuesKept DEF UsbStart, UsbStop, UsbStopWait,
     UsbStopFails, OwnerNext, Owner
<1>12. CASE UsbStartSubmit
  BY <1>1, <1>3, <1>4, <1>5, <1>6, <1>8, <1>12 DEF UsbStartSubmit
<1>13. CASE UsbStopCancel
  BY <1>1, <1>3, <1>6, <1>7, <1>13 DEF UsbStopCancel, Owner
<1>14. ASSUME NEW t \in Threads, RunnerMoves(t)
       PROVE  UsbValues'
  <2>1. CASE \/ RunLoop(t) \/ RunWait(t) \/ RunStopWait(t)
             \/ RunWaitFails(t) \/ RunStopFails(t) \/ UNCHANGED usbVars
    BY <1>1, <1>2, <1>4, <1>5, <1>6, <2>1, ValuesKept DEF RunLoop, RunWait, RunStopWait,
       RunWaitFails, RunStopFails, RunnerNext, RunnerStops, Runner, usbVars
  <2>2. CASE RunLook(t)
    <3>1. UNCHANGED <<result, sent, ownAt>> /\ runAt' \in [place : RunPlaces, i : Transfers]
      BY <1>1, <1>2, <1>4, <1>6, <2>2 DEF RunLook, Runner, RunnerStops
    <3>2. got' = got \/ got' = result[runAt.i].packet
      BY <2>2 DEF RunLook
    <3>3. result[runAt.i].packet \in 0..sent
      BY <1>1, UsbAssumption DEF UsbValues, Result
    <3>. QED BY <1>1, <3>1, <3>2, <3>3 DEF UsbValues
  <2>3. CASE RunSubmit(t)
    BY <1>1, <1>2, <1>4, <1>5, <1>6, <1>8, <2>3 DEF RunSubmit, Runner, RunnerStops
  <2>4. CASE RunStopCancel(t)
    BY <1>1, <1>2, <1>6, <1>7, <2>4 DEF RunStopCancel, Runner
  <2>. QED BY <1>14, <2>1, <2>2, <2>3, <2>4 DEF RunnerMoves, TransferThread
<1>15. CASE UsbData
  <2>1. sent' = sent + 1 /\ sent < MaxData /\ sent \in 0..MaxData
        /\ Complete(Head(inFlight), "data", sent + 1)
    BY <1>1, <1>15 DEF UsbData, UsbValues
  <2>2. sent + 1 \in 0..MaxData
    BY <2>1, UsbAssumption
  <2>. QED BY <1>9, <2>1, <2>2
<1>16. ASSUME NEW i \in Transfers, Libusb(i) \/ UsbError(i)
       PROVE  UsbValues'
  <2>1. sent' = sent /\ sent \in 0..MaxData /\ 0 \in 0..MaxData /\ 0 <= sent /\ sent <= sent
    BY <1>1, <1>16, UsbAssumption DEF Libusb, UsbTimeout, UsbCancelled, UsbError, UsbValues
  <2>. QED BY <1>9, <1>16, <2>1 DEF Libusb, UsbTimeout, UsbCancelled, UsbError
<1>. QED BY <1>10, <1>11, <1>12, <1>13, <1>14, <1>15, <1>16 DEF Next, OwnerMoves, RunnerMoves,
   OwnerSteps

LEMMA ErrorTypesStep == UsbTypes /\ [Next]_vars => ErrorTypes'
<1>. SUFFICES ASSUME UsbTypes, [Next]_vars PROVE ErrorTypes'
  OBVIOUS
<1>1. errors \in [run : BOOLEAN, own : BOOLEAN] /\ errors.run \in BOOLEAN /\ errors.own \in BOOLEAN
  BY DEF UsbTypes, ErrorTypes
<1>2. CASE UNCHANGED errors
  BY <1>1, <1>2 DEF ErrorTypes
<1>3. ASSUME NEW e \in BOOLEAN,
             errors' = [errors EXCEPT !.run = e] \/ errors' = [errors EXCEPT !.own = e]
      PROVE  ErrorTypes'
  BY <1>1, <1>3 DEF ErrorTypes
<1>4. CASE OwnerCalls \/ OwnerMoves \/ UNCHANGED vars
  <2>1. \/ UNCHANGED errors
        \/ \E e \in BOOLEAN : errors' = [errors EXCEPT !.own = e]
    BY <1>1, <1>4, Zenon DEF OwnerCalls, OwnerMoves, OwnerSteps, UsbStart, UsbStartSubmit, UsbStop,
       UsbStopCancel, UsbStopWait, UsbStopFails, OwnerNext, Owner, usbVars, vars
  <2>. QED BY <1>2, <1>3, <2>1
<1>5. ASSUME NEW t \in Threads, RunnerMoves(t)
      PROVE  ErrorTypes'
  <2>1. \/ UNCHANGED errors
        \/ \E e \in BOOLEAN : errors' = [errors EXCEPT !.run = e]
    BY <1>1, <1>5, Zenon DEF RunnerMoves, TransferThread, RunLoop, RunWait, RunLook, RunSubmit,
       RunStopCancel, RunStopWait, RunWaitFails, RunStopFails, RunnerNext, RunnerStops, Runner,
       usbVars
  <2>. QED BY <1>2, <1>3, <2>1
<1>6. CASE UsbData \/ \E i \in Transfers : Libusb(i) \/ UsbError(i)
  BY <1>2, <1>6 DEF UsbData, Libusb, UsbTimeout, UsbCancelled, UsbError, Complete
<1>. QED BY <1>4, <1>5, <1>6 DEF Next, OwnerMoves, RunnerMoves

LEMMA UsbTypesInit == Init => UsbTypes
<1>. SUFFICES ASSUME Init PROVE UsbTypes
  OBVIOUS
<1>1. inFlight = <<>> /\ completed = [i \in Transfers |-> TRUE]
  BY DEF Init
<1>2. \A i \in Transfers : ~Queued(i)
  BY <1>1 DEF Queued, Contains
<1>3. QueueTypes
  <2>1. completed = [i \in Transfers |-> ~Queued(i)]
    BY <1>1, <1>2, Zenon
  <2>2. inFlight \in Seq(Transfers) /\ IsInjective(inFlight)
    BY <1>1 DEF IsInjective
  <2>. QED BY <2>1, <2>2 DEF QueueTypes
<1>4. 1 \in Transfers /\ 0 \in 0..MaxData
  BY UsbAssumption DEF Transfers
<1>5. UsbValues
  BY <1>4, NothingType DEF Init, UsbValues, Outside, At, RunPlaces, OwnPlaces
<1>6. ErrorTypes
  BY DEF Init, ErrorTypes
<1>. QED BY <1>3, <1>5, <1>6 DEF UsbTypes

\* The type invariant for any ring: a transfer is completed as long as it is not
\* queued, also one whose submission has failed, and none is queued twice.
THEOREM UsbTypeOK == Spec => []TypeOK
<1>1. Init => DTTypeOK /\ UsbTypes
  BY InitIInv, UsbTypesInit DEF Init, IInv
<1>2. DTTypeOK /\ UsbTypes /\ [Next]_vars => (DTTypeOK /\ UsbTypes)'
  BY UsbTransferStep, TypeStep, QueueTypesStep, UsbValuesStep, ErrorTypesStep DEF UsbTypes
<1>3. DTTypeOK /\ UsbTypes => TypeOK
  BY DEF UsbTypes, UsbValues, QueueTypes, ErrorTypes, TypeOK, Result, RunPlaces, OwnPlaces, Stopping
<1>. QED BY <1>1, <1>2, <1>3, PTL DEF Spec, Safety

-----------------------------------------------------------------------------
(* The one thread that drives the ring.                                    *)

LEMMA UsbCallsStep ==
    ASSUME DTTypeOK, UsbTypes, UsbCalls, [Next]_vars
    PROVE  UsbCalls'
<1>1. Outside.place = "outside" /\ Outside.i = 1
  BY DEF Outside, At
<1>2. \A place, i : At(place, i).place = place /\ At(place, i).i = i
  BY DEF At
<1>. USE ThreadAssumption
     DEF DTTypeOK, OneRunner, NoThreadLeft, UsbCalls, ThreadPc, CallPc, dtVars, flags, usbVars,
        Owner, Runner
<1>3. CASE OwnerCalls
  BY <1>3 DEF OwnerCalls, NoneDetached, StartCall, StopCall
<1>4. CASE UsbStart
  BY <1>1, <1>2, <1>4 DEF UsbStart, StartFails
<1>5. CASE UsbStartSubmit
  <2>1. call = "start.impl" /\ thread = NoThread /\ \A t \in Threads : pc[t] = "none"
    BY <1>5 DEF UsbStartSubmit
  <2>2. UNCHANGED runAt /\ runAt.place = "outside"
    BY <1>5, <2>1 DEF UsbStartSubmit
  <2>3. CASE UNCHANGED dtVars
    BY <2>1, <2>2, <2>3
  <2>4. CASE StartSpawn /\ ownAt' = Outside
    BY <1>1, <2>1, <2>2, <2>4 DEF StartSpawn
  <2>5. CASE StartFails /\ ownAt' = Outside
    BY <1>1, <2>1, <2>2, <2>5 DEF StartFails
  <2>. QED BY <1>5, <2>3, <2>4, <2>5 DEF UsbStartSubmit
<1>6. CASE UsbStop \/ UsbStopCancel
  BY <1>1, <1>2, <1>6 DEF UsbStop, UsbStopCancel
<1>7. CASE UsbStopWait \/ UsbStopFails
  <2>1. CASE StopDetach
    <3>1. ownAt' = Outside /\ UNCHANGED runAt /\ call' = "idle"
      BY <1>7, <2>1 DEF UsbStopWait, UsbStopFails, OwnerNext, StopImpl, StopDetach
    <3>2. /\ pc' = [pc EXCEPT ![thread] = IF @ = "done" THEN "none" ELSE @]
          /\ thread \in Threads
      BY <2>1 DEF StopDetach
    <3>3. \A t \in Threads : (pc'[t] # "none" => pc[t] # "none") /\ (pc[t] = "run" => pc'[t] = "run")
      BY <3>2
    <3>. QED BY <1>1, <3>1, <3>3
  <2>2. CASE ~StopDetach
    BY <1>1, <1>2, <1>7, <2>2 DEF UsbStopWait, UsbStopFails, OwnerNext, StopImpl
  <2>. QED BY <2>1, <2>2
<1>8. CASE (StartJoin \/ StopJoin) /\ UNCHANGED usbVars
  <2>1. /\ thread \in Threads /\ pc[thread] = "done" /\ thread' = NoThread
        /\ pc' = [pc EXCEPT ![thread] = "none"]
        /\ call' \in {"start.reset", "idle"} /\ call \in {"start.join", "stop.join"}
    BY <1>8 DEF StartJoin, StopJoin, Join
  <2>2. \A t \in Threads : pc'[t] = "none" /\ pc[t] # "run"
    BY <2>1
  <2>. QED BY <1>8, <2>1, <2>2
<1>9. CASE (StartReset \/ StopNotify) /\ UNCHANGED usbVars
  BY <1>9 DEF StartReset, StopNotify
<1>10. ASSUME NEW t \in Threads, RunnerMoves(t)
       PROVE  UsbCalls'
  <2>. USE DEF Goto
  <2>1. CASE RunLoop(t)
    BY <1>2, <2>1 DEF RunLoop, RunReturn, InRun
  <2>2. CASE RunWait(t)
    BY <1>1, <1>2, <2>2 DEF RunWait, InRun
  <2>3. CASE RunLook(t)
    BY <1>1, <1>2, <2>3 DEF RunLook, RunReturn, RunnerStops, InRun
  <2>4. CASE RunSubmit(t)
    BY <1>1, <1>2, <2>4 DEF RunSubmit, RunnerStops, InRun
  <2>5. CASE RunStopCancel(t)
    BY <1>2, <2>5 DEF RunStopCancel, InRun
  <2>6. CASE RunStopWait(t) \/ RunWaitFails(t) \/ RunStopFails(t)
    BY <1>1, <1>2, <2>6 DEF RunStopWait, RunWaitFails, RunStopFails, RunnerNext, RunnerStops,
       RunThrows, InRun
  <2>7. CASE UNCHANGED usbVars /\ (StartedCallbacks(t) \/ ErrorCallbacks(t)
                                     \/ ThreadNotifyStop(t) \/ StoppedCallbacks(t))
    BY <2>7 DEF StartedCallbacks, ErrorCallbacks, ThreadNotifyStop, StoppedCallbacks
  <2>8. CASE UNCHANGED usbVars /\ (TestStop(t) \/ ClearSuspend(t) \/ EnterRun(t) \/ TestSuspend(t))
    BY <2>8 DEF TestStop, ClearSuspend, EnterRun, TestSuspend
  <2>. QED BY <1>10, <2>1, <2>2, <2>3, <2>4, <2>5, <2>6, <2>7, <2>8 DEF RunnerMoves, TransferThread
<1>11. CASE UsbData \/ (\E i \in Transfers : Libusb(i) \/ UsbError(i)) \/ UNCHANGED vars
  BY <1>11 DEF UsbData, Libusb, UsbTimeout, UsbCancelled, UsbError, Complete, vars
<1>. QED BY <1>3, <1>4, <1>5, <1>6, <1>7, <1>8, <1>9, <1>10, <1>11 DEF Next, OwnerMoves,
   RunnerMoves, OwnerSteps

\* Only run_impl and start_impl queue a transfer, and no thread is alive in start_impl.
LEMMA WhoSubmits ==
    ASSUME DTTypeOK, UsbTypes, UsbCalls, [Next]_vars
    PROVE  \/ \A j \in Transfers : Queued(j)' => Queued(j)
           \/ UsbStartSubmit /\ \A t \in Threads : pc[t] = "none"
           \/ \E t \in Threads : RunSubmit(t)
<1>1. QueueTypes
  BY DEF UsbTypes
<1>2. CASE UNCHANGED inFlight
  BY <1>2 DEF Queued
<1>3. CASE UsbStartSubmit
  BY <1>3, ThreadAssumption DEF UsbStartSubmit, UsbCalls, NoThreadLeft, DTTypeOK
<1>4. CASE OwnerCalls \/ (OwnerMoves /\ ~UsbStartSubmit) \/ UNCHANGED vars
  BY <1>2, <1>4 DEF OwnerCalls, OwnerMoves, OwnerSteps, UsbStart, UsbStop, UsbStopCancel, Cancel,
     UsbStopWait, UsbStopFails, OwnerNext, usbVars, vars
<1>5. ASSUME NEW t \in Threads, RunnerMoves(t), ~RunSubmit(t)
      PROVE  UNCHANGED inFlight
  BY <1>5 DEF RunnerMoves, TransferThread, RunLoop, RunWait, RunLook, RunStopCancel, Cancel,
     RunStopWait, RunWaitFails, RunStopFails, RunnerNext, RunnerStops, usbVars
<1>6. ASSUME NEW i, NEW status, NEW packet, Complete(i, status, packet)
      PROVE  \A j \in Transfers : Queued(j)' => Queued(j)
  BY <1>1, <1>6, CompleteEffect
<1>. QED BY <1>2, <1>3, <1>4, <1>5, <1>6
     DEF Next, OwnerMoves, RunnerMoves, Libusb, UsbTimeout, UsbCancelled, UsbError, UsbData

LEMMA EmptySeqHasNone ==
    ASSUME NEW S, NEW q \in Seq(S)
    PROVE  q = <<>> <=> \A j \in S : ~Contains(q, j)
<1>1. CASE q = <<>>
  BY <1>1 DEF Contains
<1>2. CASE q # <<>>
  BY <1>2, OldestSeq
<1>. QED BY <1>1, <1>2

LEMMA EmptiedStep ==
    ASSUME DTTypeOK, UsbTypes, UsbCalls, Emptied, [Next]_vars
    PROVE  Emptied'
<1>1. QueueTypes /\ QueueTypes' /\ runAt.i \in Transfers /\ UsbCalls'
  BY QueueTypesStep, UsbCallsStep DEF UsbTypes, UsbValues
<1>2. \A place, i : At(place, i).place = place /\ At(place, i).i = i
  BY DEF At
<1>3. Outside.place = "outside"
  BY DEF Outside, At
<1>7. /\ inFlight = <<>> <=> \A j \in Transfers : ~Queued(j)
      /\ inFlight' = <<>> <=> \A j \in Transfers : ~Queued(j)'
  BY <1>1, EmptySeqHasNone DEF QueueTypes, Queued
<1>8. /\ errors.run \in BOOLEAN
      /\ \A e : [errors EXCEPT !.own = e].run = errors.run
      /\ \A e : [errors EXCEPT !.run = e].run = e
  BY DEF UsbTypes, ErrorTypes
<1>. USE UsbAssumption DEF Transfers
<1>4. CASE UsbStartSubmit
  <2>1. \A t \in Threads : pc[t] = "none"
    BY <1>4, ThreadAssumption DEF UsbStartSubmit, UsbCalls, NoThreadLeft, DTTypeOK
  <2>2. UNCHANGED runAt /\ runAt.place = "outside"
    BY <1>4, <2>1 DEF UsbStartSubmit, UsbCalls
  <2>3. \A t \in Threads : pc'[t] # "error"
    BY <1>4, <2>1 DEF UsbStartSubmit, StartSpawn, StartFails, dtVars, DTTypeOK
  <2>. QED BY <2>2, <2>3 DEF Emptied, Stopping
<1>5. ASSUME NEW t \in Threads, RunSubmit(t)
      PROVE  Emptied'
  <2>1. pc[t] = "run" /\ UNCHANGED pc
    BY <1>5 DEF RunSubmit, InRun, dtVars
  <2>2. \A u \in Threads : pc'[u] # "error"
    BY <2>1 DEF UsbCalls, OneRunner
  <2>3. runAt' = At("stop.cancel", 1) \/ runAt'.place \in {"wait", "outside"}
    BY <1>2, <1>3, <1>5 DEF RunSubmit, Runner, RunnerStops
  <2>4. \A j \in Transfers : ~(j < 1)
    OBVIOUS
  <2>. QED BY <1>2, <2>2, <2>3, <2>4 DEF Emptied, Stopping
<1>6. ASSUME \A j \in Transfers : Queued(j)' => Queued(j)
      PROVE  Emptied'
  <2>1. ASSUME runAt'.i = runAt.i, runAt'.place \in Stopping => runAt.place \in Stopping,
               errors'.run = errors.run
        PROVE  runAt'.place \in Stopping /\ ~errors'.run
                  => \A j \in Transfers : j < runAt'.i => ~Queued(j)'
    BY <1>6, <2>1 DEF Emptied
  <2>2. ASSUME \A t \in Threads : pc'[t] = "error" => pc[t] = "error",
               errors'.run = errors.run
        PROVE  \A t \in Threads : pc'[t] = "error" /\ ~errors'.run => inFlight' = <<>>
    BY <1>6, <1>7, <2>2 DEF Emptied
  <2>3. CASE OwnerCalls \/ OwnerMoves
    <3>1. UNCHANGED runAt
      BY <2>3 DEF OwnerCalls, OwnerMoves, OwnerSteps, UsbStart, UsbStartSubmit, UsbStop,
         UsbStopCancel,
         UsbStopWait, UsbStopFails, OwnerNext, Owner, usbVars
    <3>2. errors'.run = errors.run
      <4>1. UNCHANGED errors \/ \E e : errors' = [errors EXCEPT !.own = e]
        BY <2>3, Zenon DEF OwnerCalls, OwnerMoves, OwnerSteps, UsbStart, UsbStartSubmit, UsbStop,
           UsbStopCancel, UsbStopWait, UsbStopFails, OwnerNext, Owner, usbVars
      <4>. QED BY <1>8, <4>1
    <3>3. \A t \in Threads : pc'[t] = "error" => pc[t] = "error"
      <4>1. CASE StopDetach
        BY <4>1 DEF StopDetach, DTTypeOK
      <4>2. CASE ~StopDetach
        BY <2>3, <4>2 DEF OwnerCalls, OwnerMoves, OwnerSteps, UsbStart, UsbStartSubmit, UsbStop,
           UsbStopCancel,
           UsbStopWait, UsbStopFails, OwnerNext, StartCall, StopCall, StartFails, StartSpawn,
              StopImpl,
           StartJoin, StopJoin, Join, StartReset, StopNotify, dtVars, DTTypeOK
      <4>. QED BY <4>1, <4>2
    <3>. QED BY <2>1, <2>2, <3>1, <3>2, <3>3 DEF Emptied
  <2>4. CASE UsbData \/ (\E i \in Transfers : Libusb(i) \/ UsbError(i)) \/ UNCHANGED vars
    <3>1. UNCHANGED <<runAt, pc, errors>>
      BY <2>4 DEF UsbData, Libusb, UsbTimeout, UsbCancelled, UsbError, Complete, vars,
         usbVars, dtVars
    <3>. QED BY <2>1, <2>2, <3>1 DEF Emptied
  <2>5. ASSUME NEW t \in Threads, RunnerMoves(t), ~RunSubmit(t)
        PROVE  Emptied'
    <3>1. CASE RunStopCancel(t)
      <4>1. runAt'.i = runAt.i /\ runAt.place = "stop.cancel" /\ UNCHANGED <<pc, errors>>
        BY <1>2, <3>1 DEF RunStopCancel, Runner, InRun, dtVars
      <4>. QED BY <2>1, <2>2, <4>1 DEF Emptied, Stopping
    <3>2. CASE RunStopWait(t)
      <4>1. /\ runAt.place = "stop.wait" /\ completed[runAt.i] /\ errors'.run = errors.run
        BY <1>8, <3>2 DEF RunStopWait, RunnerNext, InRun
      <4>2. ASSUME ~errors.run
            PROVE  \A j \in Transfers : j <= runAt.i => ~Queued(j)
        <5>1. ~Queued(runAt.i)
          BY <1>1, <4>1, Zenon DEF QueueTypes
        <5>2. \A j \in Transfers : j < runAt.i => ~Queued(j)
          BY <4>1, <4>2 DEF Emptied, Stopping
        <5>. QED BY <1>1, <5>1, <5>2
      <4>3. CASE runAt.i < NTransfers /\ runAt' = At("stop.cancel", runAt.i + 1) /\ UNCHANGED dtVars
        <5>1. runAt'.i = runAt.i + 1 /\ UNCHANGED pc
          BY <1>2, <4>3 DEF dtVars
        <5>2. ~errors.run => \A j \in Transfers : j < runAt.i + 1 => ~Queued(j)'
          BY <1>1, <1>6, <4>2
        <5>. QED BY <2>2, <4>1, <5>1, <5>2 DEF Emptied
      <4>4. CASE runAt.i = NTransfers /\ runAt' = Outside
        <5>1. ~errors.run => \A j \in Transfers : ~Queued(j)'
          BY <1>6, <4>2, <4>4
        <5>. QED BY <1>3, <1>7, <4>1, <4>4, <5>1 DEF Emptied, Stopping
      <4>. QED BY <3>2, <4>3, <4>4 DEF RunStopWait, RunnerNext
    <3>3. CASE RunStopFails(t)
      BY <1>8, <3>3 DEF RunStopFails, RunnerNext, Emptied
    <3>4. CASE RunLook(t) \/ RunWaitFails(t)
      <4>1. pc[t] = "run" /\ \A u \in Threads : pc'[u] # "error" \/ (u = t /\ RunThrows(t))
        BY <3>4 DEF RunLook, RunWaitFails, RunReturn, Goto, InRun, dtVars, DTTypeOK, UsbCalls,
           OneRunner
      <4>2. ~RunThrows(t)
        BY <3>4 DEF RunLook, RunWaitFails, RunThrows, RunReturn, Goto, dtVars, DTTypeOK
      <4>3. runAt' = At("stop.cancel", 1) \/ runAt'.place \in {"submit", "outside"}
        BY <1>2, <1>3, <3>4 DEF RunLook, RunWaitFails, Runner, RunnerStops
      <4>4. \A j \in Transfers : ~(j < 1)
        OBVIOUS
      <4>. QED BY <1>2, <4>1, <4>2, <4>3, <4>4 DEF Emptied, Stopping
    <3>5. CASE RunLoop(t) \/ RunWait(t)
      <4>1. \A u \in Threads : pc'[u] = "error" => pc[u] = "error"
        BY <3>5 DEF RunLoop, RunWait, RunReturn, Goto, dtVars, DTTypeOK
      <4>2. runAt'.place \in {"outside", "wait", "look"} /\ UNCHANGED errors
        BY <1>2, <1>3, <3>5 DEF RunLoop, RunWait, Runner, InRun
      <4>. QED BY <2>2, <4>1, <4>2 DEF Emptied, Stopping
    <3>6. CASE UNCHANGED usbVars /\ (StartedCallbacks(t) \/ TestStop(t) \/ ClearSuspend(t)
                \/ EnterRun(t) \/ TestSuspend(t) \/ ErrorCallbacks(t) \/ ThreadNotifyStop(t)
                \/ StoppedCallbacks(t))
      <4>1. \A u \in Threads : pc'[u] = "error" => pc[u] = "error"
        BY <3>6 DEF StartedCallbacks, TestStop, ClearSuspend, EnterRun, TestSuspend,
           ErrorCallbacks, ThreadNotifyStop, StoppedCallbacks, Goto, DTTypeOK
      <4>. QED BY <2>1, <2>2, <3>6, <4>1 DEF Emptied, usbVars
    <3>. QED BY <2>5, <3>1, <3>2, <3>3, <3>4, <3>5, <3>6 DEF RunnerMoves, TransferThread
  <2>6. CASE \E t \in Threads : RunSubmit(t)
    BY <1>5, <2>6
  <2>. QED BY <2>3, <2>4, <2>5, <2>6 DEF Next, OwnerMoves, RunnerMoves
<1>. QED BY <1>4, <1>5, <1>6, WhoSubmits

-----------------------------------------------------------------------------
(* The order of the ring.                                                  *)

LEMMA DataIsCompleted ==
    ASSUME QueueTypes, NEW k \in Transfers
    PROVE  HasData(k) <=> ~Queued(k) /\ result[k].status = "data"
<1>1. completed[k] = ~Queued(k)
  BY Zenon DEF QueueTypes
<1>. QED BY <1>1, Zenon DEF HasData

LEMMA DataIsCompletedNext ==
    ASSUME QueueTypes', NEW k \in Transfers
    PROVE  HasData(k)' <=> ~Queued(k)' /\ result'[k].status = "data"
<1>1. completed'[k] = ~Queued(k)'
  BY Zenon DEF QueueTypes
<1>. QED BY <1>1, Zenon DEF HasData

Kept1(k) == HasData(k) /\ result'[k] = result[k]

\* A cancellation, or any step that leaves libusb's queue alone.
LEMMA OrderSame ==
    ASSUME QueueTypes, NEW f \in Transfers, UNCHANGED <<inFlight, completed>>,
           \A j \in Transfers : ~Queued(j) => result'[j] = result[j]
    PROVE  /\ Order(f) => Order(f)'
           /\ \A k \in Transfers : HasData(k)' => Kept1(k)
<1>1. QueueTypes' /\ \A j \in Transfers : Queued(j)' <=> Queued(j)
  BY DEF QueueTypes, Queued
<1>2. \A k \in Transfers : HasData(k)' => Kept1(k)
  BY <1>1, DataIsCompleted, DataIsCompletedNext DEF Kept1
<1>. QED BY <1>1, <1>2 DEF Order, Kept1

\* A transfer that times out, fails or is cancelled.
LEMMA OrderComplete ==
    ASSUME QueueTypes, result \in [Transfers -> Result], NEW f \in Transfers,
           NEW i, NEW status, status # "data", NEW packet, Complete(i, status, packet)
    PROVE  /\ Order(f) => Order(f)'
           /\ \A k \in Transfers : HasData(k)' => Kept1(k)
<1>1. /\ QueueTypes' /\ i \in Transfers
      /\ \A j \in Transfers : Queued(j)' <=> j # i /\ Queued(j)
      /\ \A j, k \in Transfers : Precedes(inFlight, j, k) => Precedes(inFlight', j, k)
  BY CompleteEffect
<1>2. result' = [result EXCEPT ![i] = [status |-> status, packet |-> packet]]
  BY DEF Complete
<1>3. \A k \in Transfers : HasData(k)' => Kept1(k)
  BY <1>1, <1>2, DataIsCompleted, DataIsCompletedNext DEF Kept1
<1>. QED BY <1>1, <1>3 DEF Order, Kept1

\* Data for the oldest transfer of the queue.
LEMMA OrderData ==
    ASSUME UsbTypes, NEW f \in Transfers, UsbData
    PROVE  /\ Order(f) => Order(f)'
           /\ \A k \in Transfers : HasData(k)' => Kept1(k) \/ result'[k].packet = sent + 1
<1>. DEFINE i == Head(inFlight)
<1>1. QueueTypes /\ result \in [Transfers -> Result] /\ sent \in Nat
  BY UsbAssumption DEF UsbTypes, UsbValues
<1>2. Complete(i, "data", sent + 1) /\ inFlight # <<>>
  BY DEF UsbData
<1>3. /\ QueueTypes' /\ i \in Transfers /\ Queued(i)
      /\ \A j \in Transfers : Queued(j)' <=> j # i /\ Queued(j)
      /\ \A j, k \in Transfers : Precedes(inFlight, j, k) => Precedes(inFlight', j, k)
  BY <1>1, <1>2, CompleteEffect
<1>4. /\ result'[i].packet = sent + 1
      /\ \A k \in Transfers : k # i => result'[k] = result[k]
  BY <1>1, <1>2, <1>3 DEF Complete
<1>5. \A j \in Transfers : Precedes(inFlight, j, i) => ~Queued(j)
  BY <1>1, <1>2, OldestSeq DEF QueueTypes, Queued
<1>6. \A k \in Transfers : result[k].packet \in Nat /\ result[k].packet <= sent
  BY UsbAssumption DEF UsbTypes, UsbValues, Result
<1>. HIDE DEF i
<1>7. \A k \in Transfers : HasData(k)' => IF k = i THEN ~HasData(k) ELSE Kept1(k)
  BY <1>1, <1>3, <1>4, DataIsCompleted, DataIsCompletedNext DEF Kept1
<1>8. ASSUME Order(f) PROVE Order(f)'
  <2>. SUFFICES ASSUME NEW j \in Transfers, NEW k \in Transfers, Earlier(f, j, k)
                PROVE  /\ Precedes(inFlight', j, k)
                       /\ HasData(k)' => ~Queued(j)'
                       /\ HasData(j)' /\ HasData(k)' => result'[j].packet < result'[k].packet
    BY DEF Order
  <2>1. /\ Precedes(inFlight, j, k)
        /\ HasData(k) => ~Queued(j)
        /\ HasData(j) /\ HasData(k) => result[j].packet < result[k].packet
    BY <1>8 DEF Order
  <2>2. Precedes(inFlight', j, k)
    BY <1>3, <2>1
  <2>3. HasData(k)' => ~Queued(j)'
    BY <1>3, <1>5, <1>7, <2>1 DEF Kept1
  <2>4. ASSUME HasData(j)', HasData(k)'
        PROVE  result'[j].packet < result'[k].packet
    <3>1. CASE k = i
      <4>1. j # i
        BY <1>3, <1>5, <2>1, <3>1
      <4>2. result'[j].packet <= sent /\ result'[j].packet \in Nat
        BY <1>4, <1>6, <4>1
      <4>. QED BY <1>1, <1>4, <3>1, <4>2
    <3>2. CASE k # i
      <4>1. HasData(k) /\ result'[k] = result[k]
        BY <1>7, <2>4, <3>2 DEF Kept1
      <4>2. j # i
        BY <1>3, <2>1, <4>1
      <4>3. HasData(j) /\ result'[j] = result[j]
        BY <1>7, <2>4, <4>2 DEF Kept1
      <4>. QED BY <2>1, <4>1, <4>3
    <3>. QED BY <3>1, <3>2
  <2>. QED BY <2>2, <2>3, <2>4
<1>. QED BY <1>4, <1>7, <1>8

\* The transfer that has been looked at is queued again, and is the ring's last.
LEMMA OrderSubmit ==
    ASSUME QueueTypes, result \in [Transfers -> Result], NEW f \in Transfers, Order(f),
           SubmitWorks(f), NEW g, g = Follower(f)
    PROVE  /\ Order(g)'
           /\ \A k \in Transfers : HasData(k)' => k # f /\ Kept1(k)
<1>1. /\ QueueTypes'
      /\ \A j \in Transfers : Queued(j)' <=> j = f \/ Queued(j)
      /\ \A j, k \in Transfers :
            j # f /\ (k = f \/ Precedes(inFlight, j, k)) => Precedes(inFlight', j, k)
  BY SubmitEffect
<1>2. result' = [result EXCEPT ![f] = Nothing]
  BY DEF SubmitWorks
<1>3. \A k \in Transfers : HasData(k)' => k # f /\ Kept1(k)
  BY <1>1, <1>2, DataIsCompleted, DataIsCompletedNext DEF Kept1
<1>4. ASSUME NEW j \in Transfers, NEW k \in Transfers, Earlier(g, j, k)
      PROVE  /\ Precedes(inFlight', j, k)
             /\ HasData(k)' => ~Queued(j)'
             /\ HasData(j)' /\ HasData(k)' => result'[j].packet < result'[k].packet
  <2>1. j # f /\ (k = f \/ Earlier(f, j, k))
    BY <1>4, EarlierNext
  <2>2. CASE k = f
    BY <1>1, <1>3, <2>1, <2>2
  <2>3. CASE k # f
    <3>1. /\ Precedes(inFlight, j, k)
          /\ HasData(k) => ~Queued(j)
          /\ HasData(j) /\ HasData(k) => result[j].packet < result[k].packet
      BY <2>1, <2>3 DEF Order
    <3>. QED BY <1>1, <1>3, <2>1, <3>1 DEF Kept1
  <2>. QED BY <2>2, <2>3
<1>. QED BY <1>3, <1>4 DEF Order

\* start_impl has queued the last transfer.
LEMMA OrderStart ==
    ASSUME QueueTypes, Submitting, ownAt.place = "submit", ownAt.i = NTransfers,
           SubmitWorks(NTransfers)
    PROVE  Order(1)' /\ \A k \in Transfers : ~HasData(k)'
<1>1. NTransfers \in Transfers /\ \A k \in Transfers : k # NTransfers => k < NTransfers
  BY UsbAssumption DEF Transfers
<1>2. /\ QueueTypes'
      /\ \A j \in Transfers : Queued(j)' <=> j = NTransfers \/ Queued(j)
      /\ \A j, k \in Transfers :
            j # NTransfers /\ (k = NTransfers \/ Precedes(inFlight, j, k))
               => Precedes(inFlight', j, k)
  BY <1>1, SubmitEffect
<1>3. \A k \in Transfers : ~HasData(k)'
  BY <1>1, <1>2, DataIsCompletedNext DEF Submitting
<1>4. ASSUME NEW j \in Transfers, NEW k \in Transfers, Earlier(1, j, k)
      PROVE  Precedes(inFlight', j, k)
  <2>1. j < k /\ j # NTransfers
    BY <1>4, UsbAssumption DEF Earlier, Transfers
  <2>2. k # NTransfers => Precedes(inFlight, j, k)
    BY <1>1, <2>1 DEF Submitting
  <2>. QED BY <1>2, <2>1, <2>2
<1>. QED BY <1>3, <1>4 DEF Order

-----------------------------------------------------------------------------
(* The other invariants are inductive.                                     *)

UsbInv ==
    /\ DTTypeOK /\ UsbTypes /\ UsbCalls
    /\ NeverSuspended /\ Looked /\ Emptied /\ Submitting /\ Ring

LEMMA UsbInvInit == Init => UsbInv
<1>. SUFFICES ASSUME Init PROVE UsbInv
  OBVIOUS
<1>1. DTTypeOK /\ UsbTypes
  BY InitIInv, UsbTypesInit DEF Init, IInv
<1>2. /\ \A t \in Threads : pc[t] = "none"
      /\ thread = NoThread /\ call = "idle" /\ suspend_ = FALSE
      /\ runAt = Outside /\ ownAt = Outside
  BY DEF Init, DTInit
<1>3. Outside.place = "outside" /\ Outside.i = 1
  BY DEF Outside, At
<1>. QED BY <1>1, <1>2, <1>3 DEF UsbInv, UsbCalls, OneRunner, NoThreadLeft, NeverSuspended,
   Looked, Emptied,
         Submitting, Ring, Stopping, Driving

LEMMA NeverSuspendedStep == NeverSuspended /\ [Next]_vars => NeverSuspended'
<1>. SUFFICES ASSUME NeverSuspended, [Next]_vars PROVE NeverSuspended'
  OBVIOUS
<1>. USE DEF NeverSuspended, dtVars, flags
<1>1. CASE OwnerCalls \/ OwnerMoves
  BY <1>1 DEF OwnerCalls, OwnerMoves, OwnerSteps, UsbStart, UsbStartSubmit, UsbStop,
     UsbStopCancel, UsbStopWait, UsbStopFails, OwnerNext,
     StartCall, StopCall, StartFails, StartSpawn, StopImpl, StopDetach, StartJoin, StopJoin, Join,
     StartReset, StopNotify
<1>2. ASSUME NEW t \in Threads, RunnerMoves(t)
      PROVE  NeverSuspended'
  BY <1>2 DEF RunnerMoves, TransferThread, RunLoop, RunWait, RunLook, RunSubmit, RunStopCancel,
     RunStopWait, RunWaitFails, RunStopFails, RunnerNext, RunnerStops,
     RunReturn, RunThrows, StartedCallbacks, TestStop, ClearSuspend, EnterRun, TestSuspend,
     ErrorCallbacks, ThreadNotifyStop, StoppedCallbacks
<1>3. CASE UsbData \/ (\E i \in Transfers : Libusb(i) \/ UsbError(i)) \/ UNCHANGED vars
  BY <1>3 DEF UsbData, Libusb, UsbTimeout, UsbCancelled, UsbError, Complete, vars
<1>. QED BY <1>1, <1>2, <1>3 DEF Next, OwnerMoves, RunnerMoves

\* A step of the transfer thread is a step of run_impl or leaves the ring alone.
LEMMA WhoMovesRun ==
    ASSUME [Next]_vars
    PROVE  \/ UNCHANGED runAt
           \/ \E t \in Threads : \/ RunLoop(t) \/ RunWait(t) \/ RunLook(t) \/ RunSubmit(t)
                                 \/ RunStopCancel(t) \/ RunStopWait(t) \/ RunWaitFails(t) \/ RunStopFails(t)
<1>1. CASE OwnerCalls \/ OwnerMoves \/ UNCHANGED vars
  BY <1>1 DEF OwnerCalls, OwnerMoves, OwnerSteps, UsbStart, UsbStartSubmit, UsbStop,
     UsbStopCancel, UsbStopWait, UsbStopFails, OwnerNext,
     Owner, usbVars, vars
<1>2. ASSUME NEW t \in Threads, RunnerMoves(t)
      PROVE  \/ UNCHANGED runAt
             \/ RunLoop(t) \/ RunWait(t) \/ RunLook(t) \/ RunSubmit(t)
             \/ RunStopCancel(t) \/ RunStopWait(t) \/ RunWaitFails(t) \/ RunStopFails(t)
  BY <1>2 DEF RunnerMoves, TransferThread, usbVars
<1>3. CASE UsbData \/ \E i \in Transfers : Libusb(i) \/ UsbError(i)
  BY <1>3 DEF UsbData, Libusb, UsbTimeout, UsbCancelled, UsbError, Complete
<1>. QED BY <1>1, <1>2, <1>3 DEF Next, OwnerMoves, RunnerMoves

LEMMA LookedStep ==
    ASSUME DTTypeOK, UsbTypes, UsbCalls, Looked, [Next]_vars
    PROVE  Looked'
<1>1. QueueTypes /\ runAt.i \in Transfers
  BY DEF UsbTypes, UsbValues
<1>2. \A place, i : At(place, i).place = place /\ At(place, i).i = i
  BY DEF At
<1>3. Outside.place = "outside"
  BY DEF Outside, At
<1>4. CASE \A j \in Transfers : Queued(j)' => Queued(j)
  <2>1. CASE UNCHANGED runAt
    BY <1>1, <1>4, <2>1 DEF Looked
  <2>2. ASSUME NEW t \in Threads, RunLook(t)
        PROVE  Looked'
    <3>1. runAt.place = "look" /\ (runAt'.i = runAt.i \/ runAt'.place \in {"outside", "stop.cancel"})
      BY <1>2, <1>3, <2>2 DEF RunLook, InRun, Runner, RunnerStops
    <3>. QED BY <1>1, <1>4, <3>1 DEF Looked
  <2>3. ASSUME NEW t \in Threads, RunWait(t)
        PROVE  Looked'
    <3>1. completed[runAt.i] /\ (runAt'.i = runAt.i \/ runAt'.place = "outside")
      BY <1>2, <1>3, <2>3 DEF RunWait, Runner
    <3>2. ~Queued(runAt.i)
      BY <1>1, <3>1, Zenon DEF QueueTypes
    <3>. QED BY <1>1, <1>4, <3>1, <3>2 DEF Looked
  <2>4. ASSUME NEW t \in Threads,
               RunLoop(t) \/ RunSubmit(t) \/ RunStopCancel(t) \/ RunStopWait(t) \/ RunWaitFails(t) \/ RunStopFails(t)
        PROVE  Looked'
    <3>1. UNCHANGED runAt \/ runAt'.place \in {"outside", "wait", "stop.cancel", "stop.wait"}
      BY <1>2, <1>3, <2>4 DEF RunLoop, RunSubmit, RunStopCancel, RunStopWait, RunWaitFails,
         RunStopFails, RunnerNext, RunnerStops, Runner
    <3>. QED BY <2>1, <3>1 DEF Looked
  <2>. QED BY <2>1, <2>2, <2>3, <2>4, WhoMovesRun
<1>5. CASE UsbStartSubmit /\ \A t \in Threads : pc[t] = "none"
  <2>1. UNCHANGED runAt /\ runAt.place = "outside"
    BY <1>5 DEF UsbStartSubmit, UsbCalls
  <2>. QED BY <2>1 DEF Looked
<1>6. ASSUME NEW t \in Threads, RunSubmit(t)
      PROVE  Looked'
  <2>1. runAt'.place \in {"outside", "wait", "stop.cancel"}
    BY <1>2, <1>3, <1>6 DEF RunSubmit, Runner, RunnerStops
  <2>. QED BY <2>1 DEF Looked
<1>. QED BY <1>4, <1>5, <1>6, WhoSubmits

\* While start_impl submits, no thread and no event handler is at work.
LEMMA SubmittingStep ==
    ASSUME DTTypeOK, UsbTypes, UsbCalls, Submitting, [Next]_vars
    PROVE  Submitting'
<1>1. QueueTypes /\ runAt.i \in Transfers /\ ownAt.i \in Transfers
  BY DEF UsbTypes, UsbValues
<1>2. \A place, i : At(place, i).place = place /\ At(place, i).i = i
  BY DEF At
<1>3. Outside.place = "outside"
  BY DEF Outside, At
<1>4. CASE UNCHANGED <<inFlight, ownAt>>
  BY <1>4 DEF Submitting, Queued
<1>5. ASSUME ownAt'.place # "submit" PROVE Submitting'
  BY <1>5 DEF Submitting
<1>6. CASE UsbStart
  <2>1. UNCHANGED <<inFlight, ownAt>> \/ ownAt' = At("submit", 1)
    BY <1>6 DEF UsbStart
  <2>2. ASSUME ownAt' = At("submit", 1) PROVE Submitting'
    BY <1>2, <2>2 DEF Submitting, Transfers
  <2>. QED BY <1>4, <2>1, <2>2
<1>7. CASE UsbStartSubmit
  <2>1. CASE SubmitWorks(ownAt.i) /\ ownAt' = At("submit", ownAt.i + 1)
    <3>1. ownAt'.i = ownAt.i + 1
      BY <1>2, <2>1
    <3>2. \A k \in Transfers : k < ownAt.i + 1 => k = ownAt.i \/ k < ownAt.i
      BY <1>1 DEF Transfers
    <3>3. /\ \A j \in Transfers : Queued(j)' <=> j = ownAt.i \/ Queued(j)
          /\ \A j, k \in Transfers :
                j # ownAt.i /\ (k = ownAt.i \/ Precedes(inFlight, j, k))
                   => Precedes(inFlight', j, k)
      BY <1>1, <2>1, SubmitEffect
    <3>4. ASSUME NEW k \in Transfers, k < ownAt.i + 1
          PROVE  Queued(k)' /\ \A j \in Transfers : j < k => Precedes(inFlight', j, k)
      <4>1. k = ownAt.i \/ k < ownAt.i
        BY <3>2, <3>4
      <4>2. Queued(k)'
        BY <1>7, <3>3, <4>1 DEF Submitting, UsbStartSubmit
      <4>3. ASSUME NEW j \in Transfers, j < k PROVE Precedes(inFlight', j, k)
        <5>1. j # ownAt.i
          BY <1>1, <4>1, <4>3 DEF Transfers
        <5>2. k = ownAt.i \/ Precedes(inFlight, j, k)
          BY <1>7, <4>1, <4>3 DEF Submitting, UsbStartSubmit
        <5>. QED BY <3>3, <5>1, <5>2
      <4>. QED BY <4>2, <4>3
    <3>. QED BY <3>1, <3>4 DEF Submitting
  <2>2. CASE ownAt' = Outside
    BY <1>3, <1>5, <2>2
  <2>. QED BY <1>7, <2>1, <2>2 DEF UsbStartSubmit
<1>8. CASE UsbStop \/ UsbStopCancel \/ UsbStopWait \/ UsbStopFails
  BY <1>2, <1>3, <1>5, <1>8 DEF UsbStop, UsbStopCancel, UsbStopWait, UsbStopFails, OwnerNext, Owner
<1>9. CASE OwnerCalls \/ UNCHANGED vars
           \/ ((StartJoin \/ StartReset \/ StopNotify \/ StopJoin) /\ UNCHANGED usbVars)
  BY <1>4, <1>9 DEF OwnerCalls, usbVars, vars
<1>10. ASSUME NEW t \in Threads, RunnerMoves(t)
       PROVE  Submitting'
  <2>1. UNCHANGED ownAt /\ pc[t] # "none"
    BY <1>10 DEF RunnerMoves, TransferThread, RunLoop, RunWait, RunLook, RunSubmit, RunStopCancel,
       RunStopWait, RunWaitFails, RunStopFails, RunnerNext, RunnerStops,
       Runner, InRun, usbVars, StartedCallbacks, TestStop, ClearSuspend, EnterRun, TestSuspend,
       ErrorCallbacks, ThreadNotifyStop, StoppedCallbacks, Goto
  <2>2. ownAt.place # "submit"
    BY <2>1 DEF UsbCalls, NoThreadLeft
  <2>. QED BY <1>5, <2>1, <2>2
<1>11. ASSUME NEW i, NEW status, NEW packet, Complete(i, status, packet)
       PROVE  Submitting'
  <2>1. UNCHANGED ownAt /\ (Waits(runAt) \/ Waits(ownAt))
    BY <1>11 DEF Complete, EventsHandled
  <2>2. ownAt.place # "submit"
    BY <2>1, ThreadAssumption DEF Waits, UsbCalls, NoThreadLeft
  <2>. QED BY <1>5, <2>1, <2>2
<1>. QED BY <1>6, <1>7, <1>8, <1>9, <1>10, <1>11
     DEF Next, OwnerMoves, RunnerMoves, OwnerSteps, Libusb, UsbTimeout, UsbCancelled, UsbError,
        UsbData

-----------------------------------------------------------------------------
(* Ring is inductive.                                                      *)

\* A thread that comes to drive the ring was driving it, or was just created.
LEMMA WhoDrives ==
    ASSUME DTTypeOK, UsbTypes, UsbCalls, [Next]_vars, NEW t \in Threads, pc'[t] \in Driving
    PROVE  \/ pc[t] \in Driving /\ (stop_ => stop_')
           \/ UsbStartSubmit /\ StartSpawn
<1>. USE DEF DTTypeOK, Driving
<1>1. CASE UsbStartSubmit /\ StartSpawn
  BY <1>1
<1>2. CASE StartReset
  BY <1>2, ThreadAssumption DEF StartReset, UsbCalls, NoThreadLeft
<1>3. CASE UNCHANGED dtVars
  BY <1>3 DEF dtVars
<1>4. CASE (StartJoin \/ StopJoin) /\ UNCHANGED usbVars
  <2>1. /\ pc[thread] = "done" /\ pc' = [pc EXCEPT ![thread] = "none"] /\ UNCHANGED stop_
    BY <1>4 DEF StartJoin, StopJoin, Join, flags
  <2>. QED BY <2>1
<1>5. CASE StartCall \/ StopCall \/ StartFails \/ StopImpl \/ StopNotify
  BY <1>5 DEF StartCall, StopCall, StartFails, StopImpl, StopNotify, flags
<1>5a. CASE StopDetach
  BY <1>5a DEF StopDetach
<1>6. CASE OwnerCalls \/ OwnerMoves
  BY <1>1, <1>2, <1>3, <1>4, <1>5, <1>5a, <1>6 DEF OwnerCalls, OwnerMoves, OwnerSteps, UsbStart,
     UsbStartSubmit, UsbStop, UsbStopCancel, UsbStopWait, UsbStopFails, OwnerNext
<1>7. ASSUME NEW u \in Threads, RunnerMoves(u)
      PROVE  pc[t] \in Driving /\ (stop_ => stop_')
  <2>1. CASE RunReturn(u) \/ RunThrows(u)
    BY <2>1 DEF RunReturn, RunThrows, Goto, flags
  <2>2. CASE RunLoop(u) \/ RunWait(u) \/ RunLook(u) \/ RunSubmit(u) \/ RunStopCancel(u)
                \/ RunStopWait(u) \/ RunWaitFails(u) \/ RunStopFails(u)
    <3>1. RunReturn(u) \/ RunThrows(u) \/ UNCHANGED dtVars
      BY <2>2 DEF RunLoop, RunWait, RunLook, RunSubmit, RunStopCancel, RunStopWait, RunWaitFails,
         RunStopFails, RunnerNext, RunnerStops
    <3>2. CASE UNCHANGED dtVars
      BY <3>2 DEF dtVars
    <3>. QED BY <2>1, <3>1, <3>2
  <2>3. CASE StartedCallbacks(u) \/ TestStop(u) \/ ClearSuspend(u) \/ EnterRun(u)
    BY <2>3 DEF StartedCallbacks, TestStop, ClearSuspend, EnterRun, Goto, flags
  <2>4. CASE TestSuspend(u) \/ ErrorCallbacks(u) \/ ThreadNotifyStop(u) \/ StoppedCallbacks(u)
    BY <2>4 DEF TestSuspend, ErrorCallbacks, ThreadNotifyStop, StoppedCallbacks, Goto, flags
  <2>. QED BY <1>7, <2>2, <2>3, <2>4 DEF RunnerMoves, TransferThread
<1>8. CASE UsbData \/ (\E i \in Transfers : Libusb(i) \/ UsbError(i)) \/ UNCHANGED vars
  BY <1>3, <1>8 DEF UsbData, Libusb, UsbTimeout, UsbCancelled, UsbError, Complete, vars
<1>. QED BY <1>6, <1>7, <1>8 DEF Next, OwnerMoves, RunnerMoves

\* RingOrder, with the ring walked from a transfer that is given.
LEMMA RingFrom ==
    ASSUME NEW g, runAt'.i = g, Order(g)',
           \A k \in Transfers :
              HasData(k)' /\ ~(runAt'.place = "submit" /\ k = g) => result'[k].packet > got'
    PROVE  RingOrder(runAt.i)'
BY DEF RingOrder, Order, Fresh, Earlier

\* The walk stays where it is, and what is new is newer than what was given.
LEMMA RingStays ==
    ASSUME UsbValues, RingOrder(runAt.i), UNCHANGED got, runAt'.i = runAt.i,
           runAt.place = "submit" => runAt'.place = "submit",
           Order(runAt.i) => (\A f \in Transfers : Order(f) => Order(f)'),
           \A k \in Transfers : HasData(k)' => Kept1(k) \/ result'[k].packet = sent + 1
    PROVE  RingOrder(runAt.i)'
<1>1. PICK f \in Transfers : f = runAt.i
  BY DEF UsbValues
<1>2. Order(f) /\ Fresh(f)
  BY <1>1 DEF RingOrder
<1>3. Order(f)' /\ runAt'.i = f
  BY <1>1, <1>2
<1>4. got \in Nat /\ sent \in Nat /\ got <= sent
  BY UsbAssumption DEF UsbValues
<1>5. ASSUME NEW k \in Transfers, HasData(k)', ~(runAt'.place = "submit" /\ k = f)
      PROVE  result'[k].packet > got'
  <2>1. CASE Kept1(k)
    BY <1>2, <1>5, <2>1 DEF Kept1, Fresh
  <2>2. CASE result'[k].packet = sent + 1
    BY <1>4, <2>2
  <2>. QED BY <1>5, <2>1, <2>2
<1>. QED BY <1>3, <1>5, RingFrom

\* start_impl has just made the ring.
LEMMA RingStart ==
    ASSUME DTTypeOK, UsbTypes, UsbCalls, Submitting, UsbStartSubmit, StartSpawn
    PROVE  RingOrder(runAt.i)'
<1>1. /\ ownAt.place = "submit" /\ ownAt.i = NTransfers /\ SubmitWorks(NTransfers)
  <2>1. call = "start.impl" /\ call' = "idle"
    BY DEF StartSpawn
  <2>2. CASE UNCHANGED dtVars
    BY <2>1, <2>2 DEF dtVars
  <2>3. CASE StartFails
    BY <2>3, ThreadAssumption DEF StartFails, StartSpawn, DTTypeOK, UsbCalls
  <2>. QED BY <2>2, <2>3 DEF UsbStartSubmit
<1>2. UNCHANGED runAt /\ runAt.i = 1
  BY ThreadAssumption DEF UsbStartSubmit, UsbCalls, NoThreadLeft
<1>3. Order(1)' /\ \A k \in Transfers : ~HasData(k)'
  BY <1>1, OrderStart DEF UsbTypes
<1>. QED BY <1>2, <1>3, RingFrom

\* What run_impl does, seen from the one thread that is in it.
RingAt ==
    \/ stop_ /\ runAt = Outside
    \/ runAt.place \in Stopping
    \/ RingOrder(runAt.i)

LEMMA RingRun ==
    ASSUME DTTypeOK, UsbTypes, UsbCalls, NeverSuspended, Looked, RingAt,
           NEW t \in Threads, pc'[t] \in Driving, stop_ => stop_',
           RunLoop(t) \/ RunWait(t) \/ RunLook(t) \/ RunSubmit(t)
    PROVE  RingAt'
<1>1. /\ QueueTypes /\ UsbValues /\ runAt.i \in Transfers
      /\ result \in [Transfers -> Result] /\ sent \in Nat /\ got \in Nat /\ got <= sent
  BY UsbAssumption DEF UsbTypes, UsbValues
<1>2. \A place, i : At(place, i).place = place /\ At(place, i).i = i
  BY DEF At
<1>3. Outside.place = "outside" /\ Outside.i = 1
  BY DEF Outside, At
<1>4. \A to : pc' = [pc EXCEPT ![t] = to] => pc'[t] = to
  BY DEF DTTypeOK
<1>5. ~RunReturn(t)
  BY <1>4 DEF RunReturn, Goto, Driving
<1>6. runAt.place \notin Stopping
  BY DEF RunLoop, RunWait, RunLook, RunSubmit, InRun, Stopping
<1>7. ASSUME UNCHANGED <<inFlight, completed, result>>
      PROVE  /\ \A f \in Transfers : Order(f) => Order(f)'
             /\ \A k \in Transfers : HasData(k)' => Kept1(k)
  BY <1>1, <1>7, OrderSame
<1>8. CASE RunLoop(t)
  <2>1. ~ShouldStop /\ runAt.place = "outside" /\ runAt' = At("wait", 1)
        /\ UNCHANGED <<inFlight, completed, result, got>>
    BY <1>5, <1>8 DEF RunLoop, InRun
  <2>2. RingOrder(runAt.i) /\ runAt.i = 1 /\ runAt'.i = 1
    BY <1>2, <1>6, <2>1 DEF RingAt, ShouldStop, UsbCalls
  <2>. QED BY <1>1, <1>7, <2>1, <2>2, RingStays DEF RingAt
<1>9. CASE RunWait(t)
  <2>1. /\ runAt.place = "wait" /\ UNCHANGED <<stop_, inFlight, completed, result, got>>
        /\ runAt' = IF ShouldStop THEN Outside ELSE At("look", runAt.i)
    BY <1>9 DEF RunWait, InRun, Runner, dtVars
  <2>2. CASE ShouldStop
    BY <2>1, <2>2 DEF RingAt, ShouldStop, NeverSuspended
  <2>3. CASE ~ShouldStop
    <3>1. RingOrder(runAt.i) /\ runAt'.i = runAt.i
      BY <1>2, <1>3, <1>6, <2>1, <2>3 DEF RingAt
    <3>. QED BY <1>1, <1>7, <2>1, <3>1, RingStays DEF RingAt
  <2>. QED BY <2>2, <2>3
<1>10. CASE RunLook(t)
  <2>1. /\ runAt.place = "look" /\ UNCHANGED <<inFlight, completed, result>>
    BY <1>10 DEF RunLook, InRun
  <2>2. PICK f \in Transfers : f = runAt.i
    BY <1>1
  <2>3. Order(f) /\ Fresh(f) /\ RingOrder(runAt.i)
    BY <1>3, <1>6, <2>1, <2>2 DEF RingAt, RingOrder
  <2>4. CASE UNCHANGED got /\ runAt' = At("submit", runAt.i)
    <3>1. runAt'.i = runAt.i /\ runAt'.place = "submit"
      BY <1>2, <2>4
    <3>. QED BY <1>1, <1>7, <2>1, <2>3, <2>4, <3>1, RingStays DEF RingAt
  <2>5. CASE result[f].status = "data" /\ got' = result[f].packet /\ runAt' = At("submit", runAt.i)
    <3>1. runAt'.i = f
      BY <1>2, <2>2, <2>5
    <3>2. HasData(f)
      BY <1>1, <2>1, <2>2, <2>5, DataIsCompleted DEF Looked
    <3>3. ASSUME NEW k \in Transfers, HasData(k)', ~(runAt'.place = "submit" /\ k = f)
          PROVE  result'[k].packet > got'
      <4>1. HasData(k) /\ result'[k] = result[k]
        BY <1>7, <2>1, <3>3 DEF Kept1
      <4>2. k # f
        BY <1>2, <2>5, <3>3
      <4>3. result[f].packet < result[k].packet
        BY <2>3, <3>2, <4>1, <4>2, EarlierNext DEF Order
      <4>4. result[f].packet \in Nat /\ result[k].packet \in Nat
        BY <1>1, UsbAssumption DEF Result
      <4>. QED BY <2>5, <4>1, <4>3, <4>4
    <3>4. Order(f)'
      BY <1>7, <2>1, <2>3
    <3>. QED BY <3>1, <3>3, <3>4, RingFrom DEF RingAt
  <2>6. CASE runAt' = At("stop.cancel", 1)
    BY <1>2, <2>6 DEF RingAt, Stopping
  <2>. QED BY <1>5, <1>10, <2>2, <2>4, <2>5, <2>6 DEF RunLook, Runner, RunnerStops
<1>11. CASE RunSubmit(t)
  <2>1. runAt.place = "submit" /\ UNCHANGED <<sent, got>>
    BY <1>11 DEF RunSubmit, InRun
  <2>2. PICK f \in Transfers : f = runAt.i
    BY <1>1
  <2>3. Order(f) /\ Fresh(f)
    BY <1>3, <1>6, <2>1, <2>2 DEF RingAt, RingOrder
  <2>4. CASE SubmitWorks(f) /\ runAt' = IF f < NTransfers THEN At("wait", f + 1) ELSE Outside
    <3>1. PICK g \in Transfers : g = Follower(f)
      BY EarlierNext
    <3>2. runAt'.i = g
      BY <1>2, <1>3, <2>4, <3>1 DEF Follower
    <3>3. Order(g)' /\ \A k \in Transfers : HasData(k)' => k # f /\ Kept1(k)
      BY <1>1, <2>3, <2>4, <3>1, OrderSubmit
    <3>4. \A k \in Transfers : HasData(k)' => result'[k].packet > got'
      BY <2>1, <2>3, <3>3 DEF Kept1, Fresh
    <3>. QED BY <3>2, <3>3, <3>4, RingFrom DEF RingAt
  <2>5. CASE runAt' = At("stop.cancel", 1)
    BY <1>2, <2>5 DEF RingAt, Stopping
  <2>. QED BY <1>11, <2>2, <2>4, <2>5 DEF RunSubmit, Runner, RunnerStops
<1>. QED BY <1>8, <1>9, <1>10, <1>11

LEMMA RingStep ==
    ASSUME DTTypeOK, UsbTypes, UsbCalls, NeverSuspended, Looked, Submitting, Ring, [Next]_vars
    PROVE  Ring'
<1>. SUFFICES ASSUME NEW t \in Threads, pc'[t] \in Driving
              PROVE  RingAt'
  BY DEF Ring, RingAt
<1>1. CASE UsbStartSubmit /\ StartSpawn
  BY <1>1, RingStart DEF RingAt
<1>2. ASSUME pc[t] \in Driving, stop_ => stop_'
      PROVE  RingAt'
  <2>1. RingAt /\ pc[t] # "none"
    BY <1>2 DEF Ring, RingAt, Driving
  <2>2. /\ QueueTypes /\ UsbValues /\ runAt.i \in Transfers
        /\ result \in [Transfers -> Result]
    BY DEF UsbTypes, UsbValues
  <2>3. \A place, i : At(place, i).place = place /\ At(place, i).i = i
    BY DEF At
  <2>4. ASSUME UNCHANGED <<runAt, got>>,
               \A f \in Transfers : Order(f) => Order(f)',
               \A k \in Transfers : HasData(k)' => Kept1(k) \/ result'[k].packet = sent + 1
        PROVE  RingAt'
    BY <1>2, <2>1, <2>2, <2>4, RingStays DEF RingAt
  <2>5. ASSUME UNCHANGED <<runAt, got, inFlight, completed>>,
               \A j \in Transfers : ~Queued(j) => result'[j] = result[j]
        PROVE  RingAt'
    BY <2>2, <2>4, <2>5, OrderSame
  <2>6. CASE OwnerCalls \/ UsbStart \/ UsbStop \/ UsbStopWait \/ UsbStopFails \/ UNCHANGED vars
           \/ ((StartJoin \/ StartReset \/ StopNotify \/ StopJoin) /\ UNCHANGED usbVars)
    BY <2>5, <2>6 DEF OwnerCalls, UsbStart, UsbStop, UsbStopWait, UsbStopFails, OwnerNext, Owner,
       usbVars, vars
  <2>7. CASE UsbStartSubmit
    BY <2>1, <2>7 DEF UsbStartSubmit, UsbCalls, NoThreadLeft
  <2>8. CASE UsbStopCancel
    <3>1. ownAt.i \in Transfers /\ Cancel(ownAt.i) /\ UNCHANGED runAt
      BY <2>2, <2>8 DEF UsbStopCancel, Owner, UsbValues
    <3>. QED BY <2>2, <2>5, <3>1, CancelEffect
  <2>9. ASSUME NEW u \in Threads, RunnerMoves(u)
        PROVE  RingAt'
    <3>1. u = t
      <4>1. pc[u] # "none"
        BY <2>9 DEF RunnerMoves, TransferThread, RunLoop, RunWait, RunLook, RunSubmit,
           RunStopCancel,
           RunStopWait, RunWaitFails, RunStopFails, RunnerNext, RunnerStops, InRun,
              StartedCallbacks, TestStop, ClearSuspend, EnterRun, TestSuspend,
           ErrorCallbacks, ThreadNotifyStop, StoppedCallbacks, Goto
      <4>. QED BY <2>1, <4>1 DEF UsbCalls, OneRunner
    <3>2. CASE RunLoop(t) \/ RunWait(t) \/ RunLook(t) \/ RunSubmit(t)
      BY <1>2, <2>1, <3>2, RingRun
    <3>3. CASE RunStopCancel(t)
      BY <2>3, <3>3 DEF RunStopCancel, Runner, RingAt, Stopping
    <3>4. CASE RunStopWait(t) \/ RunWaitFails(t) \/ RunStopFails(t)
      <4>1. ~RunThrows(t)
        BY DEF RunThrows, Goto, Driving, DTTypeOK
      <4>. QED BY <2>3, <3>4, <4>1 DEF RunStopWait, RunWaitFails, RunStopFails, RunnerNext,
         RunnerStops, Runner, RingAt, Stopping
    <3>5. CASE UNCHANGED usbVars
      BY <2>5, <3>5 DEF usbVars
    <3>. QED BY <2>9, <3>1, <3>2, <3>3, <3>4, <3>5 DEF RunnerMoves, TransferThread
  <2>10. CASE UsbData
    <3>1. UNCHANGED <<runAt, got>>
      BY <2>10 DEF UsbData, Complete
    <3>. QED BY <2>4, <2>10, <3>1, OrderData
  <2>11. ASSUME NEW i \in Transfers, Libusb(i) \/ UsbError(i)
         PROVE  RingAt'
    <3>1. PICK status \in {"timeout", "cancelled", "error"} : Complete(i, status, 0)
      BY <2>11 DEF Libusb, UsbTimeout, UsbCancelled, UsbError
    <3>2. UNCHANGED <<runAt, got>>
      BY <3>1 DEF Complete
    <3>. QED BY <2>2, <2>4, <3>1, <3>2, OrderComplete
  <2>. QED BY <2>6, <2>7, <2>8, <2>9, <2>10, <2>11 DEF Next, OwnerMoves, RunnerMoves, OwnerSteps
<1>. QED BY <1>1, <1>2, WhoDrives

LEMMA UsbInvStep == UsbInv /\ [Next]_vars => UsbInv'
BY UsbTransferStep, TypeStep, QueueTypesStep, UsbValuesStep, ErrorTypesStep, UsbCallsStep,
   NeverSuspendedStep, LookedStep, EmptiedStep, SubmittingStep, RingStep DEF UsbInv, UsbTypes

-----------------------------------------------------------------------------
\* For any number of transfers: when the Error status is set libusb has none of
\* them, whatever the owner does meanwhile, unless stop_impl has met an error too.
THEOREM ErrorQueueEmpty == Spec => []ErrorLeavesNone
<1>1. UsbInv => ErrorLeavesNone
  BY DEF UsbInv, Emptied, ErrorLeavesNone
<1>. QED BY <1>1, UsbInvInit, UsbInvStep, PTL DEF Spec, Safety

\* For any number of transfers and packets: transfer_data is given the packets
\* in the order they were sent, and none before one that has completed earlier.
THEOREM RingIsContinuous == Spec => DataContinuous
<1>. DEFINE Newer == got' # got => /\ got' > got
                                   /\ \A i \in Transfers :
                                         (i # runAt.i /\ completed[i] /\ result[i].status = "data")
                                             => result[i].packet > got'
<1>1. UsbInv /\ [Next]_vars => [Newer]_vars
  <2>. SUFFICES ASSUME UsbInv, Next, got' # got PROVE Newer
    OBVIOUS
  <2>1. DTTypeOK /\ UsbTypes /\ QueueTypes /\ UsbValues /\ UsbCalls /\ Looked /\ Ring
    BY DEF UsbInv, UsbTypes
  <2>2. PICK t \in Threads : RunLook(t)
    <3>1. CASE OwnerCalls \/ OwnerMoves
      BY <3>1 DEF OwnerCalls, OwnerMoves, OwnerSteps, UsbStart, UsbStartSubmit, UsbStop,
         UsbStopCancel,
         Cancel, UsbStopWait, UsbStopFails, OwnerNext, usbVars
    <3>2. ASSUME NEW t \in Threads, RunnerMoves(t), ~RunLook(t)
          PROVE  FALSE
      BY <3>2 DEF RunnerMoves, TransferThread, RunLoop, RunWait, RunSubmit, RunStopCancel, Cancel,
         RunStopWait, RunWaitFails, RunStopFails, RunnerNext, RunnerStops, usbVars
    <3>3. CASE UsbData \/ \E i \in Transfers : Libusb(i) \/ UsbError(i)
      BY <3>3 DEF UsbData, Libusb, UsbTimeout, UsbCancelled, UsbError, Complete
    <3>. QED BY <3>1, <3>2, <3>3 DEF Next, OwnerMoves, RunnerMoves
  <2>3. /\ runAt.place = "look" /\ pc[t] = "run"
        /\ result[runAt.i].status = "data" /\ got' = result[runAt.i].packet
    BY <2>2 DEF RunLook, InRun
  <2>4. PICK f \in Transfers : f = runAt.i
    BY <2>1 DEF UsbValues
  <2>5. Order(f) /\ Fresh(f)
    BY <2>1, <2>3, <2>4 DEF Ring, RingOrder, Driving, Stopping, Outside, At
  <2>6. HasData(f)
    BY <2>1, <2>3, <2>4, DataIsCompleted DEF Looked
  <2>7. \A i \in Transfers : result[i].packet \in Nat
    BY <2>1, UsbAssumption DEF UsbValues, Result
  <2>8. got' > got
    BY <2>3, <2>4, <2>5, <2>6 DEF Fresh
  <2>9. ASSUME NEW i \in Transfers, i # f, HasData(i)
        PROVE  result[i].packet > got'
    <3>1. result[f].packet < result[i].packet
      BY <2>5, <2>6, <2>9, EarlierNext DEF Order
    <3>. QED BY <2>3, <2>4, <2>7, <3>1
  <2>. QED BY <2>4, <2>8, <2>9 DEF HasData
<1>. QED BY <1>1, UsbInvInit, UsbInvStep, PTL DEF Spec, Safety, DataContinuous
=============================================================================

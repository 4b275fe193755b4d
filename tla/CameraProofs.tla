---------------------------- MODULE CameraProofs ----------------------------
(***************************************************************************)
(* The flags of the camera and the thread behind them, for any number of   *)
(* users that start and stop it, any number of detached run threads, and   *)
(* whatever is recorded or sought meanwhile; and that the file a camera    *)
(* plays is read as a cursor, for any file and any size of buffer.         *)
(***************************************************************************)
EXTENDS RawReader, SequenceTheorems, TLAPS

-----------------------------------------------------------------------------
(* The mutex and the status.                                               *)

StartLocked == {"start.test", "start.set", "start.report", "start.status"}
StopLocked == {"stop.test", "stop.set", "stop.report", "stop.impl", "stop.join"}

CameraTypes ==
    /\ setting \in Settings
    /\ status \in {"STOPPED", "STARTED", "RUNNING"}
    /\ isRunning \in BOOLEAN /\ isStarted \in BOOLEAN
    /\ runThread \in RunThreads \cup {None} /\ lock \in Users \cup {None}
    /\ user \in [Users -> UserPc] /\ run \in [RunThreads -> RunPc]
    /\ source \in {"off", "on", "ended"}
    /\ reported \in {"STOPPED", "STARTED"}

\* The mutex is held in exactly the steps that the code puts under it, and a
\* thread is joinable for as long: the one test of runThread comes before.
Locking ==
    /\ \A u \in Users : user[u] \in StartLocked \cup StopLocked <=> lock = u
    /\ lock # None => runThread # None

\* The status and the run thread that run_thread_ owns go together: STARTED
\* until it has begun and RUNNING from then on, until a stop() takes it.
StatusOfThread ==
    /\ status # "STOPPED" => runThread # None
    /\ status = "STARTED" => run[runThread] = "begin"
    /\ status = "RUNNING" => run[runThread] # "begin"
    /\ runThread # None => run[runThread] # "none"
    /\ \A t \in RunThreads : run[t] = "begin" => t = runThread
    /\ \A u \in Users :
          /\ user[u] \in StartLocked => status = "STOPPED" /\ run[runThread] = "begin"
          /\ user[u] \in StopLocked => status = "STOPPED" /\ run[runThread] # "begin"

\* Without a failing stop_impl there is one run thread, and is_running_ is
\* cleared by whoever ends first.
RunningIsTrue ==
    ~setting.stopFails =>
        /\ \A t \in RunThreads : run[t] # "none" => t = runThread
        /\ runThread = None => ~isRunning
        /\ runThread # None /\ run[runThread] \in {"end.report", "done"} => ~isRunning
        /\ \A u \in Users :
              user[u] \in {"stop.report", "stop.impl", "stop.join"} => ~isRunning

\* The steps of a run thread that is done with start_impl.
Past == {"loop", "process", "end.test", "end.set", "end.report", "done"}
Starting == StartLocked \cup {"start.notify", "start.spin"}

\* A single caller's start() returns when the run thread is past start_impl, so
\* that its stop_impl is the last to touch the source.
Alone == OneCaller /\ ~setting.stopFails /\ ~setting.plays
StartsFirst ==
    Alone =>
        /\ isStarted /\ runThread # None => run[runThread] \in Past
        /\ runThread = None => source # "on"
        /\ \A u \in Users :
              /\ u \notin setting.callers => user[u] = "idle"
              /\ user[u] \in {"start.report", "start.status"} => isRunning
              /\ user[u] \in {"start.notify", "start.spin"} =>
                    runThread # None /\ (isRunning \/ run[runThread] \in {"end.report", "done"})
              /\ u \in setting.callers /\ user[u] \notin Starting /\ runThread # None
                    => run[runThread] \in Past
              /\ user[u] = "stop.join" => source # "on"

\* A camera whose run thread does not fail stops running when its source has ended,
\* or for a caller that is about to stop it; a caller that starts it sets the flag.
Online == ~setting.plays /\ ~setting.runFails /\ ~setting.stopFails
Ending == {"end.test", "end.set", "end.report", "done"}
Stopping == {"stop.report", "stop.impl", "stop.join"}
OnlineRuns ==
    Online /\ runThread # None =>
        /\ run[runThread] \in Ending /\ source = "on" => \E u \in Users : user[u] \in Stopping
        /\ ~isRunning =>
              \/ run[runThread] \in {"end.report", "done"}
              \/ \E u \in Users : user[u] \in {"start.test", "start.set"} \cup Stopping

CameraInv ==
    CameraTypes /\ Locking /\ StatusOfThread /\ RunningIsTrue /\ StartsFirst /\ OnlineRuns

-----------------------------------------------------------------------------
(* What the recording and the reader do to the camera.                     *)

\* process_impl returns to run(), at the end of a file to end it.
ReaderReturns(t) ==
    /\ RunGoto(t, "process", "loop") \/ (setting.plays /\ RunGoto(t, "process", "end.test"))
    /\ UNCHANGED <<flags, lock, user, source, reported>>

\* read() starts a reader that it finds stopped.
ReaderStarts ==
    /\ setting.plays /\ source' = "on"
    /\ UNCHANGED <<flags, lock, user, run, reported>>

CameraMove ==
    \/ Next
    \/ \E t \in RunThreads : ReaderReturns(t)
    \/ ReaderStarts

\* The setting of a camera does not change.
LEMMA SettingKept == [Next]_vars => setting' = setting
<1>. USE DEF vars, flags, RunUnchanged
<1>1. ASSUME NEW u \in Users, StartCall(u) \/ StopWait(u) \/ UserStep(u)
      PROVE  setting' = setting
  BY ZenonT(30), <1>1 DEF StartCall, StopWait, UserStep, StartSetRunning, StartStatus, StartNotify,
     StartReturn, StopSetRunning, StopImpl, StopJoin
<1>2. ASSUME NEW t \in RunThreads, RunStep(t) \/ RunProcess(t) \/ RunProcessEnd(t)
      PROVE  setting' = setting
  BY ZenonT(30), <1>2 DEF RunStep, RunBegin, RunNotify, RunStart, RunStarted, RunLoop, RunEnd, RunProcess,
     RunProcessEnd
<1>. QED BY <1>1, <1>2 DEF Next, SourceEnds

LEMMA SettingIsRigid == [ReadNext]_<<allVars, readVars>> => setting' = setting
<1>. SUFFICES ASSUME [ReadNext]_<<allVars, readVars>> PROVE setting' = setting
  OBVIOUS
<1>. USE DEF allVars, vars, flags, CameraUnchanged, RunUnchanged
<1>1. CASE RecNext
  <2>1. CASE CameraStep(Next)
    BY <2>1, SettingKept DEF CameraStep
  <2>2. ASSUME NEW t \in RunThreads, Processed(t) PROVE setting' = setting
    BY <2>2 DEF Processed
  <2>3. CASE StartRecording \/ AddCallback \/ StopRecording \/ DestroyCamera
             \/ AddRawData \/ (\E t \in RunThreads : GetCbs(t)) \/ Destroyed
    BY <2>3 DEF StartRecording, AddCallback, StopRecording, DestroyCamera, AddRawData,
       GetCbs, Destroyed
  <2>4. CASE \E w \in Writers : WriterStep(w)
    BY ZenonT(30), <2>4 DEF WriterStep, CloseFlush, CloseFlushed, CloseJoin, TakeTasks,
       RunTask, EndTasks
  <2>. QED BY <1>1, <2>1, <2>2, <2>3, <2>4 DEF RecNext
<1>2. CASE SeekCall \/ SeekLocked
  BY <1>2 DEF SeekCall, SeekLocked
<1>3. ASSUME NEW t \in RunThreads, Read(t) PROVE setting' = setting
  BY <1>3 DEF Read, ReadEnter, ReadBuffer, ReadNothing, ReadDecode
<1>. QED BY <1>1, <1>2, <1>3 DEF ReadNext

\* Only a camera that plays a file takes the reader's mutex.
ReaderOfFile == mutex # None => Plays

LEMMA ReaderOfFileHolds == ReadSpec => []ReaderOfFile
<1>1. ReadInit => ReaderOfFile
  BY DEF ReadInit, ReaderOfFile
<1>2. ReaderOfFile /\ [ReadNext]_<<allVars, readVars>> => ReaderOfFile'
  <2>. SUFFICES ASSUME ReaderOfFile, [ReadNext]_<<allVars, readVars>> PROVE ReaderOfFile'
    OBVIOUS
  <2>1. mutex' = mutex \/ mutex' = None \/ Plays
    <3>1. CASE UNCHANGED readVars
      BY <3>1 DEF readVars
    <3>2. CASE SeekCall \/ SeekLocked
      BY <3>2 DEF SeekCall, SeekLocked
    <3>3. ASSUME NEW t \in RunThreads, Read(t) PROVE mutex' = mutex \/ mutex' = None \/ Plays
      BY <3>3 DEF Read, ReadEnter, ReadBuffer, ReadNothing, ReadDecode
    <3>. QED BY <3>1, <3>2, <3>3 DEF ReadNext, readVars
  <2>. QED BY <2>1, SettingIsRigid DEF ReaderOfFile, Plays
<1>. QED BY <1>1, <1>2, PTL DEF ReadSpec

LEMMA CameraMoves == ReaderOfFile /\ [ReadNext]_<<allVars, readVars>> => [CameraMove]_vars
<1>. SUFFICES ASSUME ReaderOfFile, [ReadNext]_<<allVars, readVars>> PROVE [CameraMove]_vars
  OBVIOUS
<1>. USE DEF allVars, vars, flags, CameraUnchanged
<1>1. CASE RecNext
  <2>1. CASE CameraStep(Next)
    BY <2>1 DEF CameraStep, CameraMove
  <2>2. ASSUME NEW t \in RunThreads, Processed(t) PROVE CameraMove
    BY <2>2 DEF Processed, RunUnchanged, CameraMove, ReaderReturns
  <2>3. CASE StartRecording \/ AddCallback \/ StopRecording \/ DestroyCamera
             \/ AddRawData \/ (\E t \in RunThreads : GetCbs(t)) \/ Destroyed
    BY <2>3 DEF StartRecording, AddCallback, StopRecording, DestroyCamera, AddRawData,
       GetCbs, Destroyed
  <2>4. CASE \E w \in Writers : WriterStep(w)
    BY ZenonT(30), <2>4 DEF WriterStep, CloseFlush, CloseFlushed, CloseJoin, TakeTasks, RunTask, EndTasks
  <2>. QED BY <1>1, <2>1, <2>2, <2>3, <2>4 DEF RecNext
<1>2. CASE SeekCall \/ SeekLocked
  BY <1>2 DEF SeekCall, SeekLocked
<1>3. ASSUME NEW t \in RunThreads, Read(t) PROVE [CameraMove]_vars
  <2>1. CASE ReadNothing(t)
    BY <2>1, CameraAssumption DEF ReadNothing, ReaderOfFile, Plays, CameraMove, ReaderReturns
  <2>2. CASE ReadEnter(t) \/ ReadBuffer(t) \/ ReadDecode(t)
    BY <2>2 DEF ReadEnter, ReadBuffer, ReadDecode, CameraMove, ReaderReturns, ReaderStarts, Plays
  <2>. QED BY <1>3, <2>1, <2>2 DEF Read
<1>. QED BY <1>1, <1>2, <1>3 DEF ReadNext, readVars

-----------------------------------------------------------------------------
(* The invariant is inductive.                                             *)

LEMMA CameraInit == ReadInit => CameraInv
  BY CameraAssumption DEF ReadInit, RecInit, Init, CameraInv, CameraTypes, Locking,
     StatusOfThread, RunningIsTrue, StartsFirst, OnlineRuns, UserPc, RunPc, StartLocked,
     StopLocked, Past

LEMMA CameraTypesKept == CameraTypes /\ [CameraMove]_vars => CameraTypes'
<1>. SUFFICES ASSUME CameraTypes, [CameraMove]_vars PROVE CameraTypes'
  OBVIOUS
<1>. USE DEF CameraTypes, UserGoto, RunGoto, flags, vars
<1>1. ASSUME NEW u \in Users, StartCall(u) \/ StopWait(u) \/ UserStep(u)
      PROVE  CameraTypes'
  <2>1. CASE StartCall(u) \/ StartSetRunning(u) \/ StartStatus(u) \/ StartReturn(u)
    BY ZenonT(30), <2>1 DEF StartCall, StartSetRunning, StartStatus, StartReturn, UserPc, RunPc
  <2>2. CASE StartNotify(u)
    BY <2>2 DEF StartNotify, NotifyOne, UserPc
  <2>3. CASE StopWait(u)
    BY <2>3 DEF StopWait, UserPc
  <2>4. CASE StopSetRunning(u) \/ StopImpl(u) \/ StopJoin(u)
    BY ZenonT(30), <2>4 DEF StopSetRunning, StopImpl, StopJoin, UserPc, RunPc
  <2>. QED BY <1>1, <2>1, <2>2, <2>3, <2>4 DEF UserStep
<1>2. ASSUME NEW t \in RunThreads, RunStep(t) \/ RunProcess(t) \/ RunProcessEnd(t)
      PROVE  CameraTypes'
  <2>. USE DEF RunPc, RunUnchanged
  <2>1. CASE RunNotify(t)
    BY <2>1 DEF RunNotify, NotifyOne, UserPc
  <2>2. CASE RunBegin(t) \/ RunStart(t) \/ RunStarted(t) \/ RunLoop(t)
             \/ RunProcess(t) \/ RunProcessEnd(t)
    BY <2>2 DEF RunBegin, RunStart, RunStarted, RunLoop, RunProcess, RunProcessEnd
  <2>3. CASE RunEnd(t)
    BY <2>3 DEF RunEnd
  <2>. QED BY <1>2, <2>1, <2>2, <2>3 DEF RunStep
<1>3. CASE SourceEnds \/ ReaderStarts \/ \E t \in RunThreads : ReaderReturns(t)
  BY <1>3 DEF SourceEnds, ReaderStarts, ReaderReturns, RunPc
<1>. QED BY <1>1, <1>2, <1>3 DEF CameraMove, Next

LEMMA LockingKept ==
    Locking /\ StatusOfThread /\ CameraTypes /\ CameraTypes' /\ [CameraMove]_vars
        => Locking'
<1>. SUFFICES ASSUME Locking, StatusOfThread, CameraTypes, CameraTypes', [CameraMove]_vars
     PROVE  Locking'
  OBVIOUS
<1>. USE CameraAssumption DEF CameraTypes, Locking, StartLocked, StopLocked, UserGoto, RunGoto, flags, vars
<1>1. ASSUME NEW u \in Users, StartCall(u) \/ StopWait(u) \/ UserStep(u)
      PROVE  Locking'
  <2>1. CASE StartCall(u)
    BY <2>1 DEF StartCall
  <2>2. CASE StartSetRunning(u) \/ StartStatus(u) \/ StartReturn(u)
    BY <2>2 DEF StartSetRunning, StartStatus, StartReturn
  <2>3. CASE StartNotify(u)
    BY <2>3 DEF StartNotify, NotifyOne
  <2>4. CASE StopWait(u)
    BY <2>4 DEF StopWait, StopEnter, StatusOfThread
  <2>5. CASE StopSetRunning(u)
    BY <2>5 DEF StopSetRunning
  <2>6. CASE StopImpl(u)
    BY <2>6 DEF StopImpl
  <2>7. CASE StopJoin(u)
    BY <2>7 DEF StopJoin
  <2>. QED BY <1>1, <2>1, <2>2, <2>3, <2>4, <2>5, <2>6, <2>7 DEF UserStep
<1>2. ASSUME NEW t \in RunThreads, RunStep(t) \/ RunProcess(t) \/ RunProcessEnd(t)
      PROVE  Locking'
  <2>. USE DEF RunUnchanged
  <2>1. CASE RunBegin(t)
    BY <2>1 DEF RunBegin
  <2>2. CASE RunNotify(t)
    BY <2>2 DEF RunNotify, NotifyOne
  <2>3. CASE RunStart(t) \/ RunStarted(t)
    BY <2>3 DEF RunStart, RunStarted
  <2>4. CASE RunLoop(t) \/ RunProcess(t) \/ RunProcessEnd(t)
    BY <2>4 DEF RunLoop, RunProcess, RunProcessEnd
  <2>5. CASE RunEnd(t)
    BY <2>5 DEF RunEnd
  <2>. QED BY <1>2, <2>1, <2>2, <2>3, <2>4, <2>5 DEF RunStep
<1>3. CASE SourceEnds \/ ReaderStarts \/ \E t \in RunThreads : ReaderReturns(t)
  BY <1>3 DEF SourceEnds, ReaderStarts, ReaderReturns
<1>. QED BY <1>1, <1>2, <1>3 DEF CameraMove, Next

LEMMA StatusKept ==
    Locking /\ StatusOfThread /\ CameraTypes /\ CameraTypes' /\ [CameraMove]_vars
        => StatusOfThread'
<1>. SUFFICES ASSUME Locking /\ StatusOfThread, CameraTypes, CameraTypes', [CameraMove]_vars
     PROVE  StatusOfThread'
  OBVIOUS
<1>. USE CameraAssumption DEF CameraTypes, Locking, StatusOfThread, StartLocked, StopLocked, UserGoto, RunGoto, flags, vars
<1>1. ASSUME NEW u \in Users, StartCall(u) \/ StopWait(u) \/ UserStep(u)
      PROVE  StatusOfThread'
  <2>1. CASE StartCall(u)
    BY <2>1 DEF StartCall
  <2>2. CASE StartSetRunning(u) \/ StartStatus(u) \/ StartReturn(u)
    BY <2>2 DEF StartSetRunning, StartStatus, StartReturn
  <2>3. CASE StartNotify(u)
    BY <2>3 DEF StartNotify, NotifyOne
  <2>4. CASE StopWait(u)
    BY <2>4 DEF StopWait, StopEnter
  <2>5. CASE StopSetRunning(u)
    BY <2>5 DEF StopSetRunning
  <2>6. CASE StopImpl(u)
    BY <2>6 DEF StopImpl
  <2>7. CASE StopJoin(u)
    BY <2>7 DEF StopJoin
  <2>. QED BY <1>1, <2>1, <2>2, <2>3, <2>4, <2>5, <2>6, <2>7 DEF UserStep
<1>2. ASSUME NEW t \in RunThreads, RunStep(t) \/ RunProcess(t) \/ RunProcessEnd(t)
      PROVE  StatusOfThread'
  <2>. USE DEF RunUnchanged
  <2>1. CASE RunBegin(t)
    BY <2>1 DEF RunBegin
  <2>2. CASE RunNotify(t)
    BY <2>2 DEF RunNotify, NotifyOne
  <2>3. CASE RunStart(t) \/ RunStarted(t)
    BY <2>3 DEF RunStart, RunStarted
  <2>4. CASE RunLoop(t) \/ RunProcess(t) \/ RunProcessEnd(t)
    BY <2>4 DEF RunLoop, RunProcess, RunProcessEnd
  <2>5. CASE RunEnd(t)
    BY <2>5 DEF RunEnd
  <2>. QED BY <1>2, <2>1, <2>2, <2>3, <2>4, <2>5 DEF RunStep
<1>3. CASE SourceEnds \/ ReaderStarts \/ \E t \in RunThreads : ReaderReturns(t)
  BY <1>3 DEF SourceEnds, ReaderStarts, ReaderReturns
<1>. QED BY <1>1, <1>2, <1>3 DEF CameraMove, Next

LEMMA RunningKept ==
    Locking /\ StatusOfThread /\ RunningIsTrue /\ CameraTypes /\ CameraTypes' /\ [CameraMove]_vars
        => RunningIsTrue'
<1>. SUFFICES ASSUME Locking, StatusOfThread, RunningIsTrue, CameraTypes, CameraTypes', [CameraMove]_vars
     PROVE  RunningIsTrue'
  OBVIOUS
<1>. USE CameraAssumption DEF CameraTypes, Locking, StatusOfThread, RunningIsTrue, UserGoto, RunGoto,
     flags, vars, StartLocked, StopLocked
<1>1. ASSUME NEW u \in Users, StartCall(u) \/ StopWait(u) \/ UserStep(u)
      PROVE  RunningIsTrue'
  <2>1. CASE StartCall(u)
    BY <2>1 DEF StartCall
  <2>2. CASE StartSetRunning(u) \/ StartStatus(u) \/ StartReturn(u)
    BY <2>2 DEF StartSetRunning, StartStatus, StartReturn
  <2>3. CASE StartNotify(u)
    BY <2>3 DEF StartNotify, NotifyOne
  <2>4. CASE StopWait(u)
    BY <2>4 DEF StopWait, StopEnter
  <2>5. CASE StopSetRunning(u)
    BY <2>5 DEF StopSetRunning
  <2>6. CASE StopImpl(u)
    BY <2>6 DEF StopImpl
  <2>7. CASE StopJoin(u)
    BY <2>7 DEF StopJoin
  <2>. QED BY <1>1, <2>1, <2>2, <2>3, <2>4, <2>5, <2>6, <2>7 DEF UserStep
<1>2. ASSUME NEW t \in RunThreads, RunStep(t) \/ RunProcess(t) \/ RunProcessEnd(t)
      PROVE  RunningIsTrue'
  <2>. USE DEF RunUnchanged
  <2>1. CASE RunBegin(t)
    BY <2>1 DEF RunBegin
  <2>2. CASE RunNotify(t)
    BY <2>2 DEF RunNotify, NotifyOne
  <2>3. CASE RunStart(t) \/ RunStarted(t)
    BY <2>3 DEF RunStart, RunStarted
  <2>4. CASE RunLoop(t) \/ RunProcess(t) \/ RunProcessEnd(t)
    BY <2>4 DEF RunLoop, RunProcess, RunProcessEnd
  <2>5. CASE RunEnd(t)
    BY <2>5 DEF RunEnd
  <2>. QED BY <1>2, <2>1, <2>2, <2>3, <2>4, <2>5 DEF RunStep
<1>3. CASE SourceEnds \/ ReaderStarts \/ \E t \in RunThreads : ReaderReturns(t)
  BY <1>3 DEF SourceEnds, ReaderStarts, ReaderReturns
<1>. QED BY <1>1, <1>2, <1>3 DEF CameraMove, Next

LEMMA StartsKept ==
    Locking /\ StatusOfThread /\ RunningIsTrue /\ StartsFirst /\ CameraTypes /\ CameraTypes' /\ [CameraMove]_vars
        => StartsFirst'
<1>. SUFFICES ASSUME Locking, StatusOfThread, RunningIsTrue, StartsFirst, CameraTypes, CameraTypes', [CameraMove]_vars
     PROVE  StartsFirst'
  OBVIOUS
<1>. USE CameraAssumption DEF CameraTypes, Locking, StatusOfThread, RunningIsTrue, StartsFirst, UserGoto, RunGoto,
     flags, vars,
     StartLocked, StopLocked, Starting, Past, UserPc, RunPc, Alone, OneCaller
<1>1. ASSUME NEW u \in Users, StartCall(u) \/ StopWait(u) \/ UserStep(u)
      PROVE  StartsFirst'
  <2>1. CASE StartCall(u)
    BY <2>1 DEF StartCall
  <2>2. CASE StartSetRunning(u) \/ StartStatus(u) \/ StartReturn(u)
    BY <2>2 DEF StartSetRunning, StartStatus, StartReturn
  <2>3. CASE StartNotify(u)
    BY <2>3 DEF StartNotify, NotifyOne
  <2>4. CASE StopWait(u)
    BY <2>4 DEF StopWait, StopEnter
  <2>5. CASE StopSetRunning(u)
    BY <2>5 DEF StopSetRunning
  <2>6. CASE StopImpl(u)
    BY <2>6 DEF StopImpl
  <2>7. CASE StopJoin(u)
    BY <2>7 DEF StopJoin
  <2>. QED BY <1>1, <2>1, <2>2, <2>3, <2>4, <2>5, <2>6, <2>7 DEF UserStep
<1>2. ASSUME NEW t \in RunThreads, RunStep(t) \/ RunProcess(t) \/ RunProcessEnd(t)
      PROVE  StartsFirst'
  <2>. USE DEF RunUnchanged
  <2>1. CASE RunBegin(t)
    BY <2>1 DEF RunBegin
  <2>2. CASE RunNotify(t)
    BY <2>2 DEF RunNotify, NotifyOne
  <2>3. CASE RunStart(t) \/ RunStarted(t)
    BY <2>3 DEF RunStart, RunStarted
  <2>4. CASE RunLoop(t) \/ RunProcess(t) \/ RunProcessEnd(t)
    BY <2>4 DEF RunLoop, RunProcess, RunProcessEnd
  <2>5. CASE RunEnd(t)
    BY <2>5 DEF RunEnd
  <2>. QED BY <1>2, <2>1, <2>2, <2>3, <2>4, <2>5 DEF RunStep
<1>3. CASE SourceEnds \/ ReaderStarts \/ \E t \in RunThreads : ReaderReturns(t)
  BY <1>3 DEF SourceEnds, ReaderStarts, ReaderReturns
<1>. QED BY <1>1, <1>2, <1>3 DEF CameraMove, Next

LEMMA OnlineKept ==
    Locking /\ StatusOfThread /\ RunningIsTrue /\ OnlineRuns /\ CameraTypes /\ CameraTypes'
        /\ [CameraMove]_vars => OnlineRuns'
<1>. SUFFICES ASSUME Locking, StatusOfThread, RunningIsTrue, OnlineRuns, CameraTypes, CameraTypes',
                     [CameraMove]_vars
     PROVE  OnlineRuns'
  OBVIOUS
<1>. USE CameraAssumption DEF CameraTypes, Locking, StatusOfThread, RunningIsTrue, OnlineRuns,
     Online, Ending, Stopping, UserGoto, RunGoto, flags, vars, StartLocked, StopLocked
<1>1. ASSUME NEW u \in Users, StartCall(u) \/ StopWait(u) \/ UserStep(u)
      PROVE  OnlineRuns'
  <2>1. CASE StartCall(u)
    BY <2>1 DEF StartCall
  <2>2. CASE StartSetRunning(u) \/ StartStatus(u) \/ StartReturn(u)
    BY <2>2 DEF StartSetRunning, StartStatus, StartReturn
  <2>3. CASE StartNotify(u)
    BY <2>3 DEF StartNotify, NotifyOne
  <2>4. CASE StopWait(u)
    BY <2>4 DEF StopWait, StopEnter
  <2>5. CASE StopSetRunning(u)
    BY <2>5 DEF StopSetRunning
  <2>6. CASE StopImpl(u)
    BY <2>6 DEF StopImpl
  <2>7. CASE StopJoin(u)
    BY <2>7 DEF StopJoin
  <2>. QED BY <1>1, <2>1, <2>2, <2>3, <2>4, <2>5, <2>6, <2>7 DEF UserStep
<1>2. ASSUME NEW t \in RunThreads, RunStep(t) \/ RunProcess(t) \/ RunProcessEnd(t)
      PROVE  OnlineRuns'
  <2>. USE DEF RunUnchanged
  <2>1. CASE RunBegin(t)
    BY <2>1 DEF RunBegin
  <2>2. CASE RunNotify(t)
    BY <2>2 DEF RunNotify, NotifyOne
  <2>3. CASE RunStart(t) \/ RunStarted(t)
    BY <2>3 DEF RunStart, RunStarted
  <2>4. CASE RunLoop(t) \/ RunProcess(t) \/ RunProcessEnd(t)
    BY <2>4 DEF RunLoop, RunProcess, RunProcessEnd
  <2>5. CASE RunEnd(t)
    BY <2>5 DEF RunEnd
  <2>. QED BY <1>2, <2>1, <2>2, <2>3, <2>4, <2>5 DEF RunStep
<1>3. CASE SourceEnds \/ ReaderStarts \/ \E t \in RunThreads : ReaderReturns(t)
  BY <1>3 DEF SourceEnds, ReaderStarts, ReaderReturns
<1>. QED BY <1>1, <1>2, <1>3 DEF CameraMove, Next

LEMMA CameraInvariant == ReadSpec => []CameraInv
<1>1. CameraInv /\ ReaderOfFile /\ [ReadNext]_<<allVars, readVars>> => CameraInv'
  BY CameraMoves, CameraTypesKept, LockingKept, StatusKept, RunningKept, StartsKept, OnlineKept
     DEF CameraInv
<1>. QED BY CameraInit, ReaderOfFileHolds, <1>1, PTL DEF ReadSpec

-----------------------------------------------------------------------------
(* What the runs check of the flags.                                       *)

\* The values of the variables; and a stop() that slept until a start() has
\* finished finds a thread to join or to detach, though it does not look
\* again: Camera::Private::stop() under run_thread_mutex_.
THEOREM CameraTypeOK == ReadSpec => []TypeOK
<1>1. CameraInv => TypeOK
  BY CameraAssumption DEF CameraInv, CameraTypes, Locking, TypeOK, StartLocked, StopLocked
<1>. QED BY CameraInvariant, <1>1, PTL

\* For any number of callers in any order, is_running() is false from the return of
\* stop() to the next start(), and once a file that is played has ended: no
\* set_is_running(true) comes after the set_is_running(false) of the run that it
\* belongs to.  And it is true as long as nobody stops the camera, no run thread fails,
\* and the source gives data.
THEOREM RunningAlwaysTold == ReadSpec => []RunningIsTold
<1>1. CameraInv => RunningIsTold
  <2>. SUFFICES ASSUME CameraInv PROVE RunningIsTold
    OBVIOUS
  <2>1. CASE Online /\ source = "on" /\ runThread # None /\ lock = None
    <3>1. \A u \in Users : user[u] \notin StartLocked \cup StopLocked
      BY <2>1, CameraAssumption DEF CameraInv, Locking
    <3>2. \A u \in Users : user[u] \notin {"start.test", "start.set"} \cup Stopping
      BY <3>1 DEF StartLocked, StopLocked, Stopping
    <3>3. isRunning
      BY <2>1, <3>2 DEF CameraInv, OnlineRuns, Ending
    <3>. QED BY <2>1, <3>3 DEF CameraInv, RunningIsTrue, RunningIsTold, Online
  <2>2. CASE ~(Online /\ source = "on" /\ runThread # None /\ lock = None)
    BY <2>2 DEF CameraInv, RunningIsTrue, RunningIsTold, Online
  <2>. QED BY <2>1, <2>2
<1>. QED BY CameraInvariant, <1>1, PTL

\* A camera stopped by the one thread that started it leaves a source that is
\* not on, so that no data piles up: the start() of camera.cpp returns when
\* start_impl has, which keeps it before stop_impl.
THEOREM StoppedIsOff == ReadSpec => []StoppedMeansOffAlone
<1>1. CameraInv => StoppedMeansOffAlone
  BY DEF CameraInv, StartsFirst, Alone, StoppedMeansOffAlone, StoppedMeansOff
<1>. QED BY CameraInvariant, <1>1, PTL

-----------------------------------------------------------------------------
(* The file that is played.                                                *)

\* What is left of the buffer is what the stream gave last, up to its cursor.
ReaderInv ==
    /\ cursor \in 1 .. FileSize + 1 /\ target \in Nat
    /\ seeker \in {"idle", "lock"} /\ (seeker = "lock" => target \in Targets)
    /\ rest \in Seq(Nat) /\ Len(rest) < cursor
    /\ \A i \in 1 .. Len(rest) : rest[i] = cursor - Len(rest) + i - 1

\* The recording and the rest of the camera leave the reader alone.
LEMMA ReaderMoves ==
    ASSUME [ReadNext]_<<allVars, readVars>>
    PROVE  \/ UNCHANGED readVars
           \/ SeekCall \/ SeekLocked
           \/ \E t \in RunThreads : Read(t)
  BY DEF ReadNext, readVars

LEMMA ReaderInit == ReadInit => ReaderInv
  BY ReaderAssumption DEF ReadInit, ReaderInv

LEMMA ReaderKept == ReaderInv /\ [ReadNext]_<<allVars, readVars>> => ReaderInv'
<1>. SUFFICES ASSUME ReaderInv, [ReadNext]_<<allVars, readVars>> PROVE ReaderInv'
  OBVIOUS
<1>. USE ReaderAssumption DEF ReaderInv
<1>1. CASE UNCHANGED readVars
  BY <1>1 DEF readVars
<1>2. CASE SeekCall
  BY <1>2 DEF SeekCall
<1>3. CASE SeekLocked
  <2>. USE <1>3 DEF SeekLocked, SeekImpl
  <2>1. CASE target <= FileSize
    <3>1. target \in 1 .. FileSize /\ cursor' = target /\ rest' = <<>>
      BY <2>1
    <3>. QED BY <3>1
  <2>2. CASE ~(target <= FileSize)
    BY <2>2
  <2>. QED BY <2>1, <2>2
<1>4. ASSUME NEW t \in RunThreads, ReadEnter(t) \/ ReadNothing(t) PROVE ReaderInv'
  BY <1>4 DEF ReadEnter, ReadNothing
<1>5. ASSUME NEW t \in RunThreads, ReadBuffer(t) PROVE ReaderInv'
  <2>. DEFINE n == IF cursor + BufferSize <= FileSize + 1 THEN BufferSize
                   ELSE FileSize + 1 - cursor
  <2>1. n \in 1 .. FileSize + 1 - cursor
    BY <1>5 DEF ReadBuffer
  <2>2. /\ rest' = [i \in 1 .. n |-> cursor + i - 1]
        /\ cursor' = cursor + n /\ UNCHANGED <<seeker, target>>
    BY <1>5 DEF ReadBuffer
  <2>. HIDE DEF n
  <2>3. rest' \in Seq(Nat) /\ Len(rest') = n
    BY <2>1, <2>2
  <2>. QED BY <2>1, <2>2, <2>3
<1>6. ASSUME NEW t \in RunThreads, ReadDecode(t) PROVE ReaderInv'
  BY <1>6 DEF ReadDecode
<1>. QED BY <1>1, <1>2, <1>3, <1>4, <1>5, <1>6, ReaderMoves DEF Read

LEMMA NextInBuffer ==
    ASSUME NEW s \in Seq(Nat), s # <<>>, NEW c \in Nat,
           \A i \in 1 .. Len(s) : s[i] = c - Len(s) + i - 1
    PROVE  (IF Tail(s) # <<>> THEN Head(Tail(s)) ELSE c) = Head(s) + 1
<1>1. PICK rem \in Seq(Nat) :
         /\ rem = Tail(s) /\ Len(rem) = Len(s) - 1
         /\ \A i \in 1 .. Len(rem) : rem[i] = s[i + 1]
  <2>1. /\ Tail(s) \in Seq(Nat) /\ Len(Tail(s)) = Len(s) - 1
        /\ \A i \in 1 .. Len(Tail(s)) : Tail(s)[i] = s[i + 1]
    BY HeadTailProperties
  <2>. QED BY <2>1, Zenon
<1>2. Len(s) \in Nat \ {0} /\ Head(s) = c - Len(s)
  OBVIOUS
<1>3. CASE rem = <<>>
  <2>1. Len(rem) = 0
    BY <1>3
  <2>2. Len(s) = 1
    BY <1>1, <1>2, <2>1
  <2>3. c = Head(s) + 1
    BY <1>2, <2>2
  <2>. QED BY <1>1, <1>3, <2>3, Zenon
<1>4. CASE rem # <<>>
  <2>1. Len(rem) \in Nat \ {0} /\ Head(rem) = rem[1]
    BY <1>4
  <2>2. rem[1] = s[2] /\ s[2] = c - Len(s) + 1
    BY <1>1, <2>1
  <2>. QED BY <1>1, <1>2, <1>4, <2>1, <2>2
<1>. QED BY <1>3, <1>4

\* A file is played from a cursor that only a seek moves, for any size of file
\* and of buffer: the reader of raw_event_file_reader.cpp, whatever the order
\* of its reads, seeks, stops and restarts, implements module RecordingCursor.
THEOREM ReaderImplementsCursor == ReadSpec => PlayerIsCursor
<1>. DEFINE at == IF rest # <<>> THEN Head(rest) ELSE cursor
<1>1. ReadSpec => []ReaderInv
  BY ReaderInit, ReaderKept, PTL DEF ReadSpec
<1>2. ReadInit => Player!Init
  BY DEF ReadInit, Player!Init
<1>3. ReaderInv /\ ReaderInv' /\ [ReadNext]_<<allVars, readVars>>
        => [Player!Next]_(Player!cursorVars)
  <2>. SUFFICES ASSUME ReaderInv, ReaderInv', [ReadNext]_<<allVars, readVars>>
       PROVE  [Player!Next]_(Player!cursorVars)
    OBVIOUS
  <2>. USE ReaderAssumption DEF ReaderInv, Player!cursorVars
  <2>1. CASE UNCHANGED readVars \/ SeekCall
    BY <2>1 DEF readVars, SeekCall
  <2>2. CASE SeekLocked
    BY <2>2 DEF SeekLocked, SeekImpl, Player!Next, Player!SeekTo
  <2>3. ASSUME NEW t \in RunThreads, ReadEnter(t) \/ ReadNothing(t)
        PROVE  UNCHANGED Player!cursorVars
    BY <2>3 DEF ReadEnter, ReadNothing
  <2>4. ASSUME NEW t \in RunThreads, ReadBuffer(t) PROVE UNCHANGED Player!cursorVars
    BY <2>4 DEF ReadBuffer
  <2>5. ASSUME NEW t \in RunThreads, ReadDecode(t) PROVE Player!ReadData
    <3>1. rest # <<>> /\ decoded' = Head(rest) /\ rest' = Tail(rest) /\ cursor' = cursor
      BY <2>5 DEF ReadDecode
    <3>2. at = cursor - Len(rest) /\ at <= FileSize
      BY <3>1
    <3>3. (IF Tail(rest) # <<>> THEN Head(Tail(rest)) ELSE cursor) = Head(rest) + 1
      <4>1. /\ rest \in Seq(Nat) /\ cursor \in Nat
            /\ \A i \in 1 .. Len(rest) : rest[i] = cursor - Len(rest) + i - 1
        OBVIOUS
      <4>. QED BY <3>1, <4>1, NextInBuffer, Zenon
    <3>4. at' = at + 1
      BY <3>1, <3>3, Zenon
    <3>. QED BY <3>1, <3>2, <3>4 DEF Player!ReadData
  <2>. QED BY <2>1, <2>2, <2>3, <2>4, <2>5, ReaderMoves DEF Read, Player!Next
<1>. QED BY <1>1, <1>2, <1>3, PTL DEF ReadSpec, PlayerIsCursor, Player!Spec
=============================================================================

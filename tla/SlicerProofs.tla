---------------------------- MODULE SlicerProofs ----------------------------
(***************************************************************************)
(* The end of a slicer, for any number of slaves, any setting and any      *)
(* tapes: whichever of the application, the master's run thread and the    *)
(* slaves' is where, what remains of a slave's events is taken without its *)
(* mutex only when nobody else touches them.                               *)
(***************************************************************************)
EXTENDS SyncedSlicer, FiniteSetTheorems, SequenceTheorems, TLAPS

Threads == {"app", "master"}
Looping == {"offline", "stop", "join"}
FeedPc == {"none", "loop", "events", "full", "end", "done"}

\* The slave has been stopped and its thread joined, or it was never started.
Gone(k) == state[k] = "OFFLINE" /\ feed[k] \in {"none", "done"} /\ ~joinable[k]
AllGone == \A k \in Slaves(setting) : Gone(k)

SlicerTypes ==
    /\ setting \in Settings
    /\ pc \in [Threads -> AppPc \cup MasterPc \cup SharedPc]
    /\ at \in [Threads -> Nat]
    /\ ret \in [Threads -> {"none", "destroy", "cd", "time", "flush", "close"}]
    /\ DOMAIN closing = Threads
    /\ feed \in [Cameras -> FeedPc] /\ joinable \in [Cameras -> BOOLEAN]
    /\ state \in [Cameras -> {"OFFLINE", "STARTED"}]

\* Where a thread is in its loops over the slaves: those before the one that it
\* stops are gone, and that one is offline from the first step on.
LoopInv(th) ==
    /\ pc[th] \in Looping \cup {"slice", "start.slaves"} => at[th] \in Slaves(setting)
    /\ pc[th] \in Looping => \A k \in Slaves(setting) : k < at[th] => Gone(k)
    /\ pc[th] \in {"stop", "join"} => state[at[th]] = "OFFLINE"

\* What the application does once it has stopped the slaves.
Past == {"destroy", "stop.master", "stopped", "flush", "slice", "put", "close", "leave", "gone"}
Starting == {"idle", "start.slaves", "start"}

\* The application starts the master last, and stops it once the slaves are gone.
AppInv ==
    /\ pc["app"] \in AppPc \cup SharedPc
    /\ pc["app"] = "idle" => at["app"] = 1
    /\ pc["app"] \in Starting => pc["master"] = "none"
    /\ pc["app"] \in Looping => ret["app"] \in {"destroy", "flush"}
    /\ pc["app"] \in {"slice", "put"} => ret["app"] = "close"
    /\ pc["app"] \in Past => AllGone
    /\ pc["app"] \in Looping /\ ret["app"] = "flush" => AllGone

\* The master is stopped by its own thread, which then stops the slaves, or by
\* the application, which has stopped them before: it is not OFFLINE while its
\* thread cuts slices and a slave may still run.
MasterInv ==
    /\ pc["master"] \in MasterPc \cup SharedPc
    /\ pc["master"] \in Looping => ret["master"] = "flush"
    /\ pc["master"] \in {"slice", "put"} => ret["master"] \in {"cd", "time", "close"}
    /\ pc["master"] = "flush" => AllGone
    /\ state[Master] = "OFFLINE" => pc["master"] \in {"none"} \cup Looping \/ AllGone
    /\ pc["master"] = "slice" /\ closing["master"].offline => AllGone

\* A slave's thread that is not joinable has ended.
ThreadsEnd == \A k \in Slaves(setting) : ~joinable[k] => feed[k] \in {"none", "done"}

SlicerInv ==
    /\ SlicerTypes /\ AppInv /\ MasterInv /\ ThreadsEnd
    /\ LoopInv("app") /\ LoopInv("master")

-----------------------------------------------------------------------------
LEMMA SlaveFacts ==
    ASSUME setting \in Settings
    PROVE  /\ NSlaves \in Nat /\ Slaves(setting) = 1..NSlaves
           /\ \A k \in Slaves(setting) : k \in Cameras /\ k # Master /\ k \in Nat
<1>1. /\ setting.slaves \in Seq(Seq(Seq(Nat))) /\ Len(setting.slaves) <= MaxSlaves
      /\ MaxSlaves \in Nat
  BY SlicerAssumption
<1>2. NSlaves \in Nat /\ DOMAIN setting.slaves = 1..NSlaves
  BY <1>1, LenProperties DEF NSlaves
<1>. QED BY <1>1, <1>2 DEF NSlaves, Slaves, Cameras, Master

LEMMA SlicerInit == Init => SlicerInv
<1>. SUFFICES ASSUME Init PROVE SlicerInv
  OBVIOUS
<1>1. /\ setting \in Settings
      /\ pc = [th \in Threads |-> IF th = "app" THEN "idle" ELSE "none"]
      /\ at = [th \in Threads |-> 1] /\ ret = [th \in Threads |-> "none"]
      /\ closing = [th \in Threads |-> NoSlice]
      /\ feed = [k \in Cameras |-> "none"] /\ joinable = [k \in Cameras |-> FALSE]
      /\ state = [k \in Cameras |-> "OFFLINE"]
  BY DEF Init, Threads
<1>2. SlicerTypes
  BY <1>1 DEF SlicerTypes, Threads, AppPc, MasterPc, SharedPc, FeedPc
<1>3. /\ pc["app"] = "idle" /\ pc["master"] = "none" /\ at["app"] = 1
      /\ \A k \in Cameras : feed[k] = "none"
  BY <1>1 DEF Threads
<1>. QED BY <1>1, <1>2, <1>3, SlaveFacts DEF SlicerInv, AppInv, MasterInv, ThreadsEnd, LoopInv,
          AppPc, MasterPc, SharedPc, Looping, Past, Starting

-----------------------------------------------------------------------------
(* What a step leaves as it is.                                            *)

\* The step of one thread does not touch the other.
Mine(th) == \A o \in Threads \ {th} :
               /\ pc'[o] = pc[o] /\ at'[o] = at[o] /\ ret'[o] = ret[o]
               /\ closing'[o] = closing[o]

\* What is gone stays, and what is offline.
GoneStays == /\ setting' = setting
             /\ \A k \in Slaves(setting) : /\ Gone(k) => Gone(k)'
                                           /\ state[k] = "OFFLINE" => state'[k] = "OFFLINE"

LEMMA AppKept ==
    ASSUME SlicerInv, Mine("master"), GoneStays,
           pc["app"] \in Starting => pc'["master"] = "none"
    PROVE  AppInv' /\ LoopInv("app")'
<1>1. pc'["app"] = pc["app"] /\ at'["app"] = at["app"] /\ ret'["app"] = ret["app"]
  BY DEF Mine, Threads
<1>2. setting' = setting /\ (AllGone => AllGone')
  BY DEF GoneStays, AllGone
<1>3. AppInv'
  BY <1>1, <1>2 DEF SlicerInv, AppInv
<1>4. LoopInv("app")'
  BY <1>1, <1>2 DEF SlicerInv, LoopInv, GoneStays, Looping
<1>. QED BY <1>3, <1>4

LEMMA MasterKept ==
    ASSUME SlicerInv, Mine("app"), GoneStays,
           state'[Master] = "OFFLINE" => state[Master] = "OFFLINE" \/ AllGone
    PROVE  MasterInv' /\ LoopInv("master")'
<1>1. /\ pc'["master"] = pc["master"] /\ at'["master"] = at["master"]
      /\ ret'["master"] = ret["master"] /\ closing'["master"] = closing["master"]
  BY DEF Mine, Threads
<1>2. setting' = setting /\ (AllGone => AllGone')
  BY DEF GoneStays, AllGone
<1>3. MasterInv'
  BY <1>1, <1>2 DEF SlicerInv, MasterInv
<1>4. LoopInv("master")'
  BY <1>1, <1>2 DEF SlicerInv, LoopInv, GoneStays, Looping
<1>. QED BY <1>3, <1>4

LEMMA Quiet ==
    ASSUME SlicerInv, UNCHANGED <<setting, feed, joinable, state>>
    PROVE  GoneStays /\ ThreadsEnd'
BY DEF SlicerInv, GoneStays, ThreadsEnd, Gone

\* The places of the master that promise nothing about the slaves.
Plain == {"loop", "lock", "cd", "time", "end", "stopped", "close", "done"}

LEMMA MasterPlain ==
    ASSUME SlicerInv, GoneStays, UNCHANGED state,
           pc["master"] \notin {"none"} \cup Looping, pc'["master"] \in Plain
    PROVE  MasterInv' /\ LoopInv("master")'
<1>1. setting' = setting /\ (AllGone => AllGone')
  BY DEF GoneStays, AllGone
<1>. QED BY <1>1 DEF SlicerInv, MasterInv, LoopInv, Plain, Looping, MasterPc, SharedPc

LEMMA AppPast ==
    ASSUME SlicerInv, GoneStays, pc["app"] \in Past, pc'["app"] \in Past \ {"slice", "put"}
    PROVE  AppInv' /\ LoopInv("app")'
<1>1. setting' = setting /\ AllGone'
  BY DEF GoneStays, AllGone, SlicerInv, AppInv
<1>. QED BY <1>1 DEF SlicerInv, AppInv, LoopInv, Past, Starting, Looping, AppPc, SharedPc

-----------------------------------------------------------------------------
(* What the helpers of the actions do.                                     *)

LEMMA GotoEffect ==
    ASSUME SlicerTypes, NEW th \in Threads, NEW x \in AppPc \cup MasterPc \cup SharedPc, Goto(th, x)
    PROVE  /\ pc' \in [Threads -> AppPc \cup MasterPc \cup SharedPc] /\ pc'[th] = x
           /\ \A o \in Threads \ {th} : pc'[o] = pc[o]
BY DEF SlicerTypes, Goto

LEMMA CloseSliceEffect ==
    ASSUME SlicerTypes, NEW th \in Threads, NEW sl, NEW status, NEW after \in {"cd", "time", "close"},
           CloseSlice(th, sl, status, after)
    PROVE  /\ Mine(th) /\ DOMAIN closing' = Threads /\ at' \in [Threads -> Nat]
           /\ pc' \in [Threads -> AppPc \cup MasterPc \cup SharedPc]
           /\ ret' \in [Threads -> {"none", "destroy", "cd", "time", "flush", "close"}]
           /\ pc'[th] = (IF NSlaves = 0 THEN "put" ELSE "slice")
           /\ at'[th] = 1 /\ ret'[th] = after
           /\ closing'[th].offline <=> state[Master] = "OFFLINE"
<1>1. /\ at' = [at EXCEPT ![th] = 1] /\ ret' = [ret EXCEPT ![th] = after]
      /\ Goto(th, IF NSlaves = 0 THEN "put" ELSE "slice")
  BY DEF CloseSlice
<1>2. /\ pc' \in [Threads -> AppPc \cup MasterPc \cup SharedPc]
      /\ pc'[th] = (IF NSlaves = 0 THEN "put" ELSE "slice")
      /\ \A o \in Threads \ {th} : pc'[o] = pc[o]
  BY <1>1, GotoEffect DEF SharedPc
<1>3. /\ DOMAIN closing' = Threads /\ \A o \in Threads \ {th} : closing'[o] = closing[o]
      /\ closing'[th].offline <=> state[Master] = "OFFLINE"
  BY DEF CloseSlice, SlicerTypes
<1>. QED BY <1>1, <1>2, <1>3 DEF Mine, SlicerTypes

LEMMA NextSlaveEffect ==
    ASSUME SlicerTypes, NEW th \in Threads, NEW after \in {"put", "start"}, NextSlave(th, after),
           UNCHANGED <<ret, closing>>
    PROVE  /\ Mine(th) /\ at' \in [Threads -> Nat]
           /\ pc' \in [Threads -> AppPc \cup MasterPc \cup SharedPc]
           /\ \/ at[th] < NSlaves /\ at'[th] = at[th] + 1 /\ pc'[th] = pc[th]
              \/ ~(at[th] < NSlaves) /\ at'[th] = at[th] /\ pc'[th] = after
<1>1. CASE at[th] < NSlaves
  BY <1>1 DEF NextSlave, SlicerTypes, Mine
<1>2. CASE ~(at[th] < NSlaves)
  <2>1. Goto(th, after) /\ at' = at /\ after \in AppPc \cup MasterPc \cup SharedPc
    BY <1>2 DEF NextSlave, AppPc, SharedPc
  <2>. QED BY <1>2, <2>1, GotoEffect DEF SlicerTypes, Mine
<1>. QED BY <1>1, <1>2

LEMMA NextOfflineEffect ==
    ASSUME SlicerTypes, NEW th \in Threads, NextOffline(th), ret[th] \in {"destroy", "flush"},
           UNCHANGED <<ret, closing>>
    PROVE  /\ Mine(th) /\ at' \in [Threads -> Nat]
           /\ pc' \in [Threads -> AppPc \cup MasterPc \cup SharedPc]
           /\ \/ at[th] < NSlaves /\ at'[th] = at[th] + 1 /\ pc'[th] = "offline"
              \/ ~(at[th] < NSlaves) /\ at'[th] = at[th] /\ pc'[th] = ret[th]
<1>1. CASE at[th] < NSlaves
  <2>1. Goto(th, "offline") /\ at' = [at EXCEPT ![th] = @ + 1]
    BY <1>1 DEF NextOffline
  <2>. QED BY <1>1, <2>1, GotoEffect DEF SlicerTypes, Mine, SharedPc
<1>2. CASE ~(at[th] < NSlaves)
  <2>1. Goto(th, ret[th]) /\ at' = at /\ ret[th] \in AppPc \cup MasterPc \cup SharedPc
    BY <1>2 DEF NextOffline, AppPc, SharedPc
  <2>. QED BY <1>2, <2>1, GotoEffect DEF SlicerTypes, Mine
<1>. QED BY <1>1, <1>2

LEMMA StopSlavesEffect ==
    ASSUME SlicerTypes, NEW th \in Threads, NEW after \in {"destroy", "flush"}, StopSlaves(th, after),
           UNCHANGED closing
    PROVE  /\ Mine(th) /\ at' \in [Threads -> Nat]
           /\ pc' \in [Threads -> AppPc \cup MasterPc \cup SharedPc]
           /\ ret' \in [Threads -> {"none", "destroy", "cd", "time", "flush", "close"}]
           /\ at'[th] = 1 /\ ret'[th] = after
           /\ pc'[th] = (IF NSlaves = 0 THEN after ELSE "offline")
<1>1. /\ at' = [at EXCEPT ![th] = 1] /\ ret' = [ret EXCEPT ![th] = after]
      /\ Goto(th, IF NSlaves = 0 THEN after ELSE "offline")
  BY DEF StopSlaves
<1>2. (IF NSlaves = 0 THEN after ELSE "offline") \in AppPc \cup MasterPc \cup SharedPc
  BY DEF AppPc, SharedPc
<1>3. /\ pc' \in [Threads -> AppPc \cup MasterPc \cup SharedPc]
      /\ pc'[th] = (IF NSlaves = 0 THEN after ELSE "offline")
      /\ \A o \in Threads \ {th} : pc'[o] = pc[o]
  BY <1>1, <1>2, GotoEffect
<1>. QED BY <1>1, <1>3 DEF Mine, SlicerTypes

-----------------------------------------------------------------------------
(* The loop that stops the slaves.                                         *)

\* The loop of a thread begins: before its first slave there is none.
LEMMA LoopBegins ==
    ASSUME SlicerInv, NEW th \in Threads, setting' = setting,
           at'[th] = 1, pc'[th] = (IF NSlaves = 0 THEN "put" ELSE "slice") \/
                        pc'[th] = (IF NSlaves = 0 THEN "flush" ELSE "offline") \/
                        pc'[th] = (IF NSlaves = 0 THEN "destroy" ELSE "offline")
    PROVE  LoopInv(th)'
<1>1. NSlaves \in Nat /\ Slaves(setting) = 1..NSlaves
  BY SlaveFacts DEF SlicerInv, SlicerTypes
<1>2. NSlaves # 0 => 1 \in Slaves(setting)
  BY <1>1
<1>3. \A k \in Slaves(setting) : ~(k < 1)
  BY <1>1
<1>. QED BY <1>2, <1>3 DEF LoopInv, Looping

\* The loop goes on from a slave that is gone, or is at its end.
LEMMA LoopAdvances ==
    ASSUME SlicerInv, NEW th \in Threads, pc[th] \in Looping, GoneStays,
           NEW s, s = at[th], Gone(s)', ret[th] \in {"destroy", "flush"},
           \/ at[th] < NSlaves /\ at'[th] = at[th] + 1 /\ pc'[th] = "offline"
           \/ ~(at[th] < NSlaves) /\ at'[th] = at[th] /\ pc'[th] = ret[th]
    PROVE  LoopInv(th)' /\ (pc'[th] # "offline" => AllGone')
<1>1. /\ NSlaves \in Nat /\ Slaves(setting) = 1..NSlaves /\ setting' = setting
      /\ at[th] \in Slaves(setting)
      /\ \A k \in Slaves(setting) : k < at[th] => Gone(k)'
  BY SlaveFacts DEF SlicerInv, SlicerTypes, GoneStays, LoopInv, Threads, Looping
<1>2. \A k \in Slaves(setting) : k < at[th] + 1 => k < at[th] \/ k = s
  BY <1>1
<1>3. \A k \in Slaves(setting) : k < at[th] + 1 => Gone(k)'
  BY <1>1, <1>2 DEF Gone
<1>4. CASE at[th] < NSlaves /\ at'[th] = at[th] + 1 /\ pc'[th] = "offline"
  <2>1. at[th] + 1 \in Slaves(setting)
    BY <1>1, <1>4
  <2>. QED BY <1>1, <1>3, <1>4, <2>1 DEF LoopInv
<1>5. CASE ~(at[th] < NSlaves) /\ at'[th] = at[th] /\ pc'[th] = ret[th]
  <2>1. \A k \in Slaves(setting) : k < at[th] + 1
    BY <1>1, <1>5
  <2>2. AllGone'
    BY <1>1, <1>3, <2>1 DEF AllGone
  <2>. QED BY <1>5, <2>2 DEF LoopInv, Looping
<1>. QED BY <1>4, <1>5

\* A section of the loop over the slaves, in either thread.
LoopStep(th) == SlaveOffline(th) \/ StopSlaveCamera(th) \/ JoinSlave(th)

LEMMA LoopStepEffect ==
    ASSUME SlicerInv, NEW th \in Threads, LoopStep(th), ret[th] \in {"destroy", "flush"}
    PROVE  /\ SlicerTypes' /\ Mine(th) /\ GoneStays /\ ThreadsEnd' /\ LoopInv(th)'
           /\ pc[th] \in Looping /\ ret' = ret /\ state'[Master] = state[Master]
           /\ pc'[th] \in Looping \/ (pc'[th] = ret[th] /\ AllGone')
<1>1. pc[th] \in Looping /\ ret' = ret /\ closing' = closing /\ setting' = setting
  BY DEF LoopStep, SlaveOffline, StopSlaveCamera, JoinSlave, Looping
<1>. DEFINE k == at[th]
<1>2. /\ k \in Slaves(setting) /\ k \in Cameras /\ k # Master
      /\ pc[th] \in {"stop", "join"} => state[k] = "OFFLINE"
  BY <1>1, SlaveFacts DEF SlicerInv, SlicerTypes, LoopInv, Threads
<1>. HIDE DEF k
<1>3. CASE SlaveOffline(th)
  <2>1. /\ state' = [state EXCEPT ![k] = "OFFLINE"] /\ Goto(th, "stop")
        /\ UNCHANGED <<at, feed, joinable>> /\ pc[th] = "offline"
    BY <1>3 DEF SlaveOffline, camVars, k
  <2>2. /\ pc' \in [Threads -> AppPc \cup MasterPc \cup SharedPc] /\ pc'[th] = "stop"
        /\ \A o \in Threads \ {th} : pc'[o] = pc[o]
    BY <2>1, GotoEffect DEF SlicerInv, SharedPc
  <2>3. SlicerTypes' /\ Mine(th)
    BY <1>1, <2>1, <2>2 DEF SlicerInv, SlicerTypes, Mine
  <2>4. /\ state' \in [Cameras -> {"OFFLINE", "STARTED"}] /\ state'[k] = "OFFLINE"
        /\ \A j \in Cameras : state[j] = "OFFLINE" => state'[j] = "OFFLINE"
        /\ state'[Master] = state[Master]
    BY <1>2, <2>1 DEF SlicerInv, SlicerTypes
  <2>5. GoneStays /\ ThreadsEnd'
    BY <1>1, <2>1, <2>4, SlaveFacts DEF SlicerInv, SlicerTypes, GoneStays, ThreadsEnd, Gone
  <2>6. LoopInv(th)'
    <3>1. /\ at'[th] \in Slaves(setting)
          /\ \A j \in Slaves(setting) : j < at'[th] => Gone(j)'
          /\ state'[at'[th]] = "OFFLINE"
      BY <1>1, <1>2, <2>1, <2>4, <2>5 DEF SlicerInv, LoopInv, GoneStays, k, Threads
    <3>. QED BY <1>1, <2>2, <3>1 DEF LoopInv
  <2>. QED BY <1>1, <2>2, <2>3, <2>4, <2>5, <2>6 DEF Looping
<1>4. ASSUME NEW s \in Slaves(setting), s = k, Gone(s)', GoneStays, NextOffline(th)
      PROVE  /\ Mine(th) /\ at' \in [Threads -> Nat]
             /\ pc' \in [Threads -> AppPc \cup MasterPc \cup SharedPc]
             /\ LoopInv(th)' /\ (pc'[th] \in Looping \/ (pc'[th] = ret[th] /\ AllGone'))
  <2>1. /\ Mine(th) /\ at' \in [Threads -> Nat]
        /\ pc' \in [Threads -> AppPc \cup MasterPc \cup SharedPc]
        /\ \/ at[th] < NSlaves /\ at'[th] = at[th] + 1 /\ pc'[th] = "offline"
           \/ ~(at[th] < NSlaves) /\ at'[th] = at[th] /\ pc'[th] = ret[th]
    BY <1>1, <1>4, NextOfflineEffect DEF SlicerInv
  <2>2. s = at[th]
    BY <1>4 DEF k
  <2>3. LoopInv(th)' /\ (pc'[th] # "offline" => AllGone')
    BY <1>1, <1>4, <2>1, <2>2, LoopAdvances
  <2>. QED BY <2>1, <2>3 DEF Looping
<1>5. CASE StopSlaveCamera(th)
  <2>1. UNCHANGED <<feed, joinable, state>> /\ pc[th] = "stop"
    BY <1>5 DEF StopSlaveCamera, slaveVars
  <2>2. GoneStays /\ ThreadsEnd'
    BY <1>1, <2>1, Quiet
  <2>3. CASE joinable[k]
    <3>1. Goto(th, "join") /\ UNCHANGED at
      BY <1>5, <2>3 DEF StopSlaveCamera, k
    <3>2. /\ pc' \in [Threads -> AppPc \cup MasterPc \cup SharedPc] /\ pc'[th] = "join"
          /\ \A o \in Threads \ {th} : pc'[o] = pc[o]
      BY <3>1, GotoEffect DEF SlicerInv, SharedPc
    <3>3. SlicerTypes' /\ Mine(th)
      BY <1>1, <2>1, <3>1, <3>2 DEF SlicerInv, SlicerTypes, Mine
    <3>4. LoopInv(th)'
      <4>1. /\ at'[th] \in Slaves(setting)
            /\ \A j \in Slaves(setting) : j < at'[th] => Gone(j)'
            /\ state'[at'[th]] = "OFFLINE"
        BY <1>1, <1>2, <2>1, <2>2, <3>1 DEF SlicerInv, LoopInv, GoneStays, k, Threads
      <4>. QED BY <1>1, <3>2, <4>1 DEF LoopInv
    <3>. QED BY <1>1, <2>1, <2>2, <3>2, <3>3, <3>4 DEF Looping
  <2>4. CASE ~joinable[k]
    <3>1. NextOffline(th)
      BY <1>5, <2>4 DEF StopSlaveCamera, k
    <3>2. /\ Mine(th) /\ at' \in [Threads -> Nat]
          /\ pc' \in [Threads -> AppPc \cup MasterPc \cup SharedPc]
          /\ LoopInv(th)' /\ (pc'[th] \in Looping \/ (pc'[th] = ret[th] /\ AllGone'))
      <4>. PICK s \in Slaves(setting) : s = k
        BY <1>2
      <4>1. Gone(s)'
        BY <1>2, <2>1, <2>4 DEF SlicerInv, ThreadsEnd, Gone
      <4>. QED BY <1>4, <2>2, <3>1, <4>1
    <3>3. SlicerTypes'
      BY <1>1, <2>1, <3>2 DEF SlicerInv, SlicerTypes
    <3>. QED BY <1>1, <2>1, <2>2, <3>2, <3>3
  <2>. QED BY <2>3, <2>4
<1>6. CASE JoinSlave(th)
  <2>1. /\ UNCHANGED <<feed, state>> /\ pc[th] = "join" /\ feed[k] = "done"
        /\ joinable' = [joinable EXCEPT ![k] = FALSE] /\ NextOffline(th)
    BY <1>6 DEF JoinSlave, slaveVars, k
  <2>2. /\ joinable' \in [Cameras -> BOOLEAN] /\ ~joinable'[k]
        /\ \A j \in Cameras : ~joinable[j] => ~joinable'[j]
        /\ \A j \in Cameras : ~joinable'[j] => ~joinable[j] \/ feed[j] = "done"
    BY <1>2, <2>1 DEF SlicerInv, SlicerTypes
  <2>3. GoneStays /\ ThreadsEnd'
    BY <1>1, <2>1, <2>2, SlaveFacts DEF SlicerInv, SlicerTypes, GoneStays, ThreadsEnd, Gone
  <2>4. /\ Mine(th) /\ at' \in [Threads -> Nat]
        /\ pc' \in [Threads -> AppPc \cup MasterPc \cup SharedPc]
        /\ LoopInv(th)' /\ (pc'[th] \in Looping \/ (pc'[th] = ret[th] /\ AllGone'))
    <3>. PICK s \in Slaves(setting) : s = k
      BY <1>2
    <3>1. Gone(s)'
      BY <1>2, <2>1, <2>2 DEF Gone
    <3>. QED BY <1>4, <2>1, <2>3, <3>1
  <2>5. SlicerTypes'
    BY <1>1, <2>1, <2>2, <2>4 DEF SlicerInv, SlicerTypes
  <2>. QED BY <1>1, <2>1, <2>3, <2>4, <2>5
<1>. QED BY <1>3, <1>5, <1>6 DEF LoopStep

\* The slave's part of a slice, in either thread.
LEMMA SliceEffect ==
    ASSUME SlicerInv, NEW th \in Threads, GetSlicedEvents(th) \/ FlushSlave(th)
    PROVE  /\ SlicerTypes' /\ Mine(th) /\ GoneStays /\ ThreadsEnd' /\ LoopInv(th)'
           /\ pc[th] = "slice" /\ pc'[th] \in {"slice", "put"}
           /\ UNCHANGED <<ret, closing, state>>
<1>1. /\ UNCHANGED <<setting, ret, closing, state, feed, joinable>> /\ pc[th] = "slice"
      /\ NextSlave(th, "put") \/ UNCHANGED <<pc, at>>
  <2>1. CASE FlushSlave(th)
    BY <2>1 DEF FlushSlave, camVars
  <2>2. CASE GetSlicedEvents(th)
    BY <2>2 DEF GetSlicedEvents, camVars
  <2>. QED BY <2>1, <2>2
<1>2. GoneStays /\ ThreadsEnd'
  BY <1>1, Quiet
<1>3. /\ NSlaves \in Nat /\ Slaves(setting) = 1..NSlaves /\ at[th] \in Slaves(setting)
  BY <1>1, SlaveFacts DEF SlicerInv, SlicerTypes, LoopInv, Threads
<1>4. CASE UNCHANGED <<pc, at>>
  BY <1>1, <1>2, <1>3, <1>4 DEF SlicerInv, SlicerTypes, Mine, LoopInv, Looping
<1>5. CASE NextSlave(th, "put")
  <2>1. /\ Mine(th) /\ at' \in [Threads -> Nat]
        /\ pc' \in [Threads -> AppPc \cup MasterPc \cup SharedPc]
        /\ \/ at[th] < NSlaves /\ at'[th] = at[th] + 1 /\ pc'[th] = pc[th]
           \/ ~(at[th] < NSlaves) /\ at'[th] = at[th] /\ pc'[th] = "put"
    BY <1>1, <1>5, NextSlaveEffect DEF SlicerInv
  <2>2. SlicerTypes'
    BY <1>1, <2>1 DEF SlicerInv, SlicerTypes
  <2>3. pc'[th] = "slice" => at'[th] \in Slaves(setting)
    BY <1>1, <1>3, <2>1
  <2>4. LoopInv(th)' /\ pc'[th] \in {"slice", "put"}
    BY <1>1, <2>1, <2>3 DEF LoopInv, Looping
  <2>. QED BY <1>1, <1>2, <2>1, <2>2, <2>4
<1>. QED BY <1>1, <1>4, <1>5

-----------------------------------------------------------------------------
(* The steps of the threads.                                               *)

LEMMA SlaveStepKeeps ==
    ASSUME SlicerInv, NEW k \in Slaves(setting), SlaveStep(k)
    PROVE  SlicerInv'
<1>1. /\ UNCHANGED <<setting, pc, at, ret, closing, joinable, state>>
         \/ (SlaveEnd(k) /\ UNCHANGED <<setting, pc, at, ret, closing, joinable>>)
      /\ \E f \in FeedPc : feed[k] \notin {"none", "done"} /\ feed' = [feed EXCEPT ![k] = f]
  BY DEF SlaveStep, SlaveLoop, SlaveEvents, SlaveEnd, appVars, camVars, slaveVars, FeedPc
<1>2. UNCHANGED <<setting, pc, at, ret, closing, joinable>>
  BY <1>1
<1>3. k \in Cameras /\ k # Master
  BY SlaveFacts DEF SlicerInv, SlicerTypes
<1>4. state' = state \/ state' = [state EXCEPT ![k] = "OFFLINE"]
  BY <1>1 DEF SlaveEnd
<1>5. /\ state' \in [Cameras -> {"OFFLINE", "STARTED"}] /\ state'[Master] = state[Master]
      /\ \A j \in Cameras : state[j] = "OFFLINE" => state'[j] = "OFFLINE"
  <2>1. state \in [Cameras -> {"OFFLINE", "STARTED"}] /\ Master \in Cameras
    BY SlicerAssumption DEF SlicerInv, SlicerTypes, Master, Cameras
  <2>2. CASE state' = state
    BY <2>1, <2>2
  <2>3. CASE state' = [state EXCEPT ![k] = "OFFLINE"]
    BY <1>3, <2>1, <2>3
  <2>. QED BY <1>4, <2>2, <2>3
<1>6. /\ feed' \in [Cameras -> FeedPc]
      /\ \A j \in Cameras : feed[j] \in {"none", "done"} => feed'[j] = feed[j]
  BY <1>1, <1>3 DEF SlicerInv, SlicerTypes
<1>7. SlicerTypes'
  BY <1>2, <1>5, <1>6 DEF SlicerInv, SlicerTypes
<1>8. GoneStays /\ ThreadsEnd'
  BY <1>2, <1>5, <1>6, SlaveFacts DEF SlicerInv, SlicerTypes, GoneStays, ThreadsEnd, Gone
<1>9. Mine("app") /\ Mine("master")
  BY <1>2 DEF Mine
<1>10. pc["app"] \in Starting => pc'["master"] = "none"
  BY <1>2 DEF SlicerInv, AppInv
<1>. QED BY <1>5, <1>7, <1>8, <1>9, <1>10, AppKept, MasterKept DEF SlicerInv

LEMMA MasterStepKeeps == ASSUME SlicerInv, MasterStep PROVE SlicerInv'
<1>1. pc["master"] # "none" /\ "master" \in Threads
  BY DEF MasterStep, MasterLoop, MasterLock, MasterProcess, MasterUnlock, MasterTime, MasterEnd,
     Slice, GetSlicedEvents, FlushSlave, Put, StopStep, SlaveOffline, StopSlaveCamera, JoinSlave,
     Stopped, Flush, Close, Threads
<1>2. pc["app"] \notin Starting
  BY <1>1 DEF SlicerInv, AppInv
<1>3. ASSUME SlicerTypes', GoneStays, ThreadsEnd', Mine("master"), MasterInv', LoopInv("master")'
      PROVE  SlicerInv'
  BY <1>2, <1>3, AppKept DEF SlicerInv
<1>4. ASSUME UNCHANGED <<setting, feed, joinable, state, at, ret, closing>>,
             NEW x \in Plain, Goto("master", x), pc["master"] \notin Looping
      PROVE  SlicerInv'
  <2>1. /\ pc' \in [Threads -> AppPc \cup MasterPc \cup SharedPc] /\ pc'["master"] = x
        /\ \A o \in Threads \ {"master"} : pc'[o] = pc[o]
    BY <1>1, <1>4, GotoEffect DEF SlicerInv, Plain, MasterPc, SharedPc
  <2>2. SlicerTypes' /\ Mine("master")
    BY <1>4, <2>1 DEF SlicerInv, SlicerTypes, Mine
  <2>3. GoneStays /\ ThreadsEnd'
    BY <1>4, Quiet
  <2>4. MasterInv' /\ LoopInv("master")'
    BY <1>1, <1>4, <2>1, <2>3, MasterPlain
  <2>. QED BY <1>3, <2>2, <2>3, <2>4
<1>5. ASSUME UNCHANGED <<setting, feed, joinable, state>>,
             NEW sl, NEW status, NEW after \in {"cd", "time", "close"},
             CloseSlice("master", sl, status, after),
             pc["master"] \in {"cd", "time", "flush"}
      PROVE  SlicerInv'
  <2>1. /\ Mine("master") /\ DOMAIN closing' = Threads /\ at' \in [Threads -> Nat]
        /\ pc' \in [Threads -> AppPc \cup MasterPc \cup SharedPc]
        /\ ret' \in [Threads -> {"none", "destroy", "cd", "time", "flush", "close"}]
        /\ pc'["master"] = (IF NSlaves = 0 THEN "put" ELSE "slice")
        /\ at'["master"] = 1 /\ ret'["master"] = after
        /\ closing'["master"].offline <=> state[Master] = "OFFLINE"
    BY <1>1, <1>5, CloseSliceEffect DEF SlicerInv
  <2>2. SlicerTypes'
    BY <1>5, <2>1 DEF SlicerInv, SlicerTypes
  <2>3. GoneStays /\ ThreadsEnd' /\ (AllGone => AllGone')
    BY <1>5, Quiet DEF GoneStays, AllGone
  <2>4. LoopInv("master")'
    BY <1>1, <1>5, <2>1, LoopBegins
  <2>5. closing'["master"].offline \/ state'[Master] = "OFFLINE" => AllGone'
    BY <1>5, <2>1, <2>3 DEF SlicerInv, MasterInv, Looping
  <2>6. MasterInv'
    <3>1. pc'["master"] \in {"put", "slice"}
      BY <2>1
    <3>. QED BY <2>1, <2>5, <3>1 DEF MasterInv, SharedPc, Looping
  <2>. QED BY <1>3, <2>1, <2>2, <2>3, <2>4, <2>6
<1>6. CASE MasterLoop \/ MasterLock \/ MasterUnlock \/ MasterEnd \/ Close("master")
  <2>1. /\ UNCHANGED <<setting, feed, joinable, state, at, ret, closing>> /\ pc["master"] \notin Looping
        /\ \E x \in Plain : Goto("master", x)
    BY <1>6 DEF MasterLoop, MasterLock, MasterUnlock, MasterEnd, Close, camVars, slaveVars,
       appVars, Plain, Looping
  <2>. QED BY <1>4, <2>1
<1>7. CASE MasterProcess
  <2>1. UNCHANGED <<setting, feed, joinable, state>> /\ pc["master"] = "cd"
    BY <1>7 DEF MasterProcess, camVars, slaveVars
  <2>2. \/ UNCHANGED appVars
        \/ \E sl, status : CloseSlice("master", sl, status, "cd")
    BY <1>7 DEF MasterProcess
  <2>3. CASE UNCHANGED appVars
    <3>1. Goto("master", "cd")
      BY <2>1, <2>3 DEF appVars, Goto, SlicerInv, SlicerTypes
    <3>. QED BY <1>4, <2>1, <2>3, <3>1 DEF appVars, Plain, Looping
  <2>. QED BY <1>5, <2>1, <2>2, <2>3
<1>8. CASE MasterTime
  <2>1. UNCHANGED <<setting, feed, joinable, state>> /\ pc["master"] = "time"
    BY <1>8 DEF MasterTime, slaveVars
  <2>2. \/ Goto("master", "loop") /\ UNCHANGED <<at, ret, closing>>
        \/ \E sl, status : CloseSlice("master", sl, status, "time")
    BY <1>8 DEF MasterTime
  <2>. QED BY <1>4, <1>5, <2>1, <2>2 DEF Plain, Looping
<1>9. CASE GetSlicedEvents("master") \/ FlushSlave("master")
  <2>1. /\ SlicerTypes' /\ Mine("master") /\ GoneStays /\ ThreadsEnd' /\ LoopInv("master")'
        /\ pc["master"] = "slice" /\ pc'["master"] \in {"slice", "put"}
        /\ UNCHANGED <<ret, closing, state>>
    BY <1>1, <1>9, SliceEffect
  <2>2. AllGone => AllGone'
    BY <2>1 DEF GoneStays, AllGone
  <2>3. MasterInv'
    BY <2>1, <2>2 DEF SlicerInv, MasterInv, SharedPc, Looping
  <2>. QED BY <1>3, <2>1, <2>3
<1>10. CASE Put("master")
  <2>1. UNCHANGED <<setting, feed, joinable, state, at, ret, closing>> /\ pc["master"] = "put"
        /\ Goto("master", ret["master"])
    BY <1>10 DEF Put, camVars, slaveVars
  <2>2. ret["master"] \in Plain
    BY <2>1 DEF SlicerInv, MasterInv, Plain
  <2>. QED BY <1>4, <2>1, <2>2 DEF Looping
<1>11. CASE LoopStep("master")
  <2>1. ret["master"] = "flush"
    BY <1>11 DEF LoopStep, SlaveOffline, StopSlaveCamera, JoinSlave, SlicerInv, MasterInv, Looping
  <2>2. /\ SlicerTypes' /\ Mine("master") /\ GoneStays /\ ThreadsEnd' /\ LoopInv("master")'
        /\ ret' = ret /\ state'[Master] = state[Master]
        /\ pc'["master"] \in Looping \/ (pc'["master"] = ret["master"] /\ AllGone')
    BY <1>1, <1>11, <2>1, LoopStepEffect
  <2>3. MasterInv'
    BY <2>1, <2>2 DEF MasterInv, SharedPc, Looping
  <2>. QED BY <1>3, <2>2, <2>3
<1>12. CASE Stopped("master")
  <2>1. /\ UNCHANGED <<setting, feed, joinable, closing>> /\ pc["master"] = "stopped"
        /\ state' = [state EXCEPT ![Master] = "OFFLINE"] /\ StopSlaves("master", "flush")
    BY <1>12 DEF Stopped, camVars, slaveVars
  <2>2. /\ Mine("master") /\ at' \in [Threads -> Nat]
        /\ pc' \in [Threads -> AppPc \cup MasterPc \cup SharedPc]
        /\ ret' \in [Threads -> {"none", "destroy", "cd", "time", "flush", "close"}]
        /\ at'["master"] = 1 /\ ret'["master"] = "flush"
        /\ pc'["master"] = (IF NSlaves = 0 THEN "flush" ELSE "offline")
    BY <1>1, <2>1, StopSlavesEffect DEF SlicerInv
  <2>3. /\ state' \in [Cameras -> {"OFFLINE", "STARTED"}]
        /\ \A k \in Slaves(setting) : state'[k] = state[k]
    BY <2>1, SlaveFacts DEF SlicerInv, SlicerTypes
  <2>4. SlicerTypes'
    BY <2>1, <2>2, <2>3 DEF SlicerInv, SlicerTypes
  <2>5. GoneStays /\ ThreadsEnd'
    BY <2>1, <2>3 DEF SlicerInv, GoneStays, ThreadsEnd, Gone
  <2>6. LoopInv("master")'
    BY <1>1, <2>1, <2>2, LoopBegins
  <2>7. NSlaves = 0 => AllGone'
    BY <2>1, SlaveFacts DEF SlicerInv, SlicerTypes, AllGone
  <2>8. MasterInv'
    BY <2>2, <2>7 DEF MasterInv, SharedPc, Looping
  <2>. QED BY <1>3, <2>2, <2>4, <2>5, <2>6, <2>8
<1>13. CASE Flush("master")
  <2>1. UNCHANGED <<setting, feed, joinable, state>> /\ pc["master"] = "flush"
    BY <1>13 DEF Flush, camVars, slaveVars
  <2>2. \/ Goto("master", "close") /\ UNCHANGED <<at, ret, closing>>
        \/ \E sl, status : CloseSlice("master", sl, status, "close")
    BY <1>13 DEF Flush
  <2>. QED BY <1>4, <1>5, <2>1, <2>2 DEF Plain, Looping
<1>. QED BY <1>6, <1>7, <1>8, <1>9, <1>10, <1>11, <1>12, <1>13
     DEF MasterStep, Slice, StopStep, LoopStep

LEMMA AppStepKeeps == ASSUME SlicerInv, AppStep \/ Begin \/ Destroy PROVE SlicerInv'
<1>1. "app" \in Threads /\ "master" \in Threads
  BY DEF Threads
<1>2. ASSUME SlicerTypes', Mine("app"), GoneStays, ThreadsEnd', AppInv', LoopInv("app")',
             state'[Master] = "OFFLINE" => state[Master] = "OFFLINE" \/ AllGone
      PROVE  SlicerInv'
  BY <1>2, MasterKept DEF SlicerInv
<1>3. ASSUME UNCHANGED <<setting, feed, joinable, state, at, ret, closing>>,
             NEW x \in AppPc \cup SharedPc, Goto("app", x)
      PROVE  /\ SlicerTypes' /\ Mine("app") /\ GoneStays /\ ThreadsEnd' /\ pc'["app"] = x
             /\ AppInv' /\ LoopInv("app")' => SlicerInv'
  <2>1. /\ pc' \in [Threads -> AppPc \cup MasterPc \cup SharedPc] /\ pc'["app"] = x
        /\ \A o \in Threads \ {"app"} : pc'[o] = pc[o]
    BY <1>1, <1>3, GotoEffect DEF SlicerInv
  <2>2. SlicerTypes' /\ Mine("app")
    BY <1>3, <2>1 DEF SlicerInv, SlicerTypes, Mine
  <2>3. GoneStays /\ ThreadsEnd'
    BY <1>3, Quiet
  <2>. QED BY <1>2, <1>3, <2>1, <2>2, <2>3
<1>4. ASSUME UNCHANGED <<setting, feed, joinable, state, at, ret, closing>>,
             NEW x \in Past \ {"slice", "put"}, Goto("app", x), pc["app"] \in Past
      PROVE  SlicerInv'
  <2>1. x \in AppPc \cup SharedPc
    BY <1>4 DEF Past, AppPc, SharedPc
  <2>2. GoneStays /\ pc'["app"] = x /\ (AppInv' /\ LoopInv("app")' => SlicerInv')
    BY <1>3, <1>4, <2>1
  <2>. QED BY <1>4, <2>2, AppPast
<1>5. CASE Begin
  <2>1. /\ UNCHANGED <<setting, feed, joinable, state, at, ret, closing>> /\ pc["app"] = "idle"
        /\ Goto("app", IF NSlaves = 0 THEN "start" ELSE "start.slaves")
    BY <1>5 DEF Begin, camVars, slaveVars
  <2>2. (IF NSlaves = 0 THEN "start" ELSE "start.slaves") \in AppPc \cup SharedPc
    BY DEF AppPc
  <2>3. /\ Mine("app") /\ pc'["app"] = (IF NSlaves = 0 THEN "start" ELSE "start.slaves")
        /\ AppInv' /\ LoopInv("app")' => SlicerInv'
    BY <1>3, <2>1, <2>2
  <2>4. pc["master"] = "none" /\ pc'["master"] = "none" /\ at["app"] = 1
    BY <1>1, <2>1, <2>3 DEF SlicerInv, AppInv, Starting, Mine, Threads
  <2>5. AppInv'
    BY <2>3, <2>4 DEF AppInv, Starting, Looping, Past, AppPc
  <2>6. NSlaves # 0 => 1 \in Slaves(setting)
    BY SlaveFacts DEF SlicerInv, SlicerTypes
  <2>7. LoopInv("app")'
    BY <2>1, <2>3, <2>4, <2>6 DEF LoopInv, Looping
  <2>. QED BY <2>3, <2>5, <2>7
<1>6. CASE StartSlave
  <2>. DEFINE k == at["app"]
  <2>1. /\ UNCHANGED <<setting, ret, closing>> /\ pc["app"] = "start.slaves"
        /\ joinable' = [joinable EXCEPT ![k] = TRUE]
        /\ state' = [state EXCEPT ![k] = "STARTED"] /\ feed' = [feed EXCEPT ![k] = "loop"]
        /\ NextSlave("app", "start")
    BY <1>6 DEF StartSlave, StartCamera
  <2>2. /\ NSlaves \in Nat /\ Slaves(setting) = 1..NSlaves /\ k \in Slaves(setting)
        /\ k \in Cameras /\ k # Master
    BY <2>1, SlaveFacts DEF SlicerInv, SlicerTypes, LoopInv
  <2>3. /\ Mine("app") /\ at' \in [Threads -> Nat]
        /\ pc' \in [Threads -> AppPc \cup MasterPc \cup SharedPc]
        /\ \/ at["app"] < NSlaves /\ at'["app"] = at["app"] + 1 /\ pc'["app"] = pc["app"]
           \/ ~(at["app"] < NSlaves) /\ at'["app"] = at["app"] /\ pc'["app"] = "start"
    BY <1>1, <2>1, NextSlaveEffect DEF SlicerInv
  <2>. HIDE DEF k
  <2>4. /\ joinable' \in [Cameras -> BOOLEAN] /\ joinable'[k]
        /\ state' \in [Cameras -> {"OFFLINE", "STARTED"}]
        /\ feed' \in [Cameras -> FeedPc]
        /\ \A j \in Cameras \ {k} : joinable'[j] = joinable[j] /\ feed'[j] = feed[j]
    BY <2>1, <2>2 DEF SlicerInv, SlicerTypes, FeedPc
  <2>5. SlicerTypes'
    BY <2>1, <2>3, <2>4 DEF SlicerInv, SlicerTypes
  <2>6. ThreadsEnd'
    <3>. SUFFICES ASSUME NEW j \in Slaves(setting), ~joinable'[j]
                  PROVE  feed'[j] \in {"none", "done"}
      BY <2>1 DEF ThreadsEnd
    <3>. QED BY <2>4, SlaveFacts DEF SlicerInv, SlicerTypes, ThreadsEnd
  <2>7. pc["master"] = "none" /\ pc'["master"] = "none" /\ pc'["app"] \in {"start.slaves", "start"}
    BY <1>1, <2>1, <2>3 DEF SlicerInv, AppInv, Starting, Mine, Threads
  <2>8. AppInv'
    BY <2>7 DEF AppInv, Starting, Looping, Past, AppPc
  <2>9. pc'["app"] = "start.slaves" => at'["app"] \in Slaves(setting)
    BY <2>1, <2>2, <2>3 DEF k
  <2>10. LoopInv("app")'
    BY <2>1, <2>7, <2>9 DEF LoopInv, Looping
  <2>11. MasterInv' /\ LoopInv("master")'
    BY <2>7 DEF MasterInv, LoopInv, Looping, MasterPc
  <2>. QED BY <2>5, <2>6, <2>8, <2>10, <2>11 DEF SlicerInv
<1>7. CASE StartMaster
  <2>1. /\ UNCHANGED <<setting, feed, at, ret, closing>>
        /\ pc' = [app |-> "iterate", master |-> "loop"]
        /\ joinable' = [joinable EXCEPT ![Master] = TRUE]
        /\ state' = [state EXCEPT ![Master] = "STARTED"]
    BY <1>7 DEF StartMaster, StartCamera, slaveVars
  <2>2. Master \in Cameras
    BY SlicerAssumption DEF Master, Cameras
  <2>3. /\ joinable' \in [Cameras -> BOOLEAN]
        /\ state' \in [Cameras -> {"OFFLINE", "STARTED"}] /\ state'[Master] = "STARTED"
        /\ \A j \in Cameras \ {Master} : joinable'[j] = joinable[j]
    BY <2>1, <2>2 DEF SlicerInv, SlicerTypes
  <2>4. pc' = [th \in Threads |-> IF th = "app" THEN "iterate" ELSE "loop"]
    BY <2>1 DEF Threads
  <2>5. /\ pc' \in [Threads -> AppPc \cup MasterPc \cup SharedPc]
        /\ pc'["app"] = "iterate" /\ pc'["master"] = "loop"
    BY <1>1, <2>4 DEF AppPc, MasterPc
  <2>6. SlicerTypes'
    BY <2>1, <2>3, <2>5 DEF SlicerInv, SlicerTypes
  <2>7. ThreadsEnd'
    BY <2>1, <2>3, SlaveFacts DEF SlicerInv, SlicerTypes, ThreadsEnd
  <2>8. AppInv' /\ LoopInv("app")'
    BY <2>5 DEF AppInv, LoopInv, Starting, Looping, Past, AppPc
  <2>9. MasterInv' /\ LoopInv("master")'
    BY <2>3, <2>5 DEF MasterInv, LoopInv, Looping, MasterPc
  <2>. QED BY <2>6, <2>7, <2>8, <2>9 DEF SlicerInv
<1>8. CASE PopFront
  <2>1. UNCHANGED <<setting, feed, joinable, state, pc, at, ret, closing>> /\ pc["app"] = "iterate"
    BY <1>8 DEF PopFront, appVars, camVars, slaveVars
  <2>. QED BY <2>1 DEF SlicerInv, SlicerTypes, AppInv, MasterInv, ThreadsEnd, LoopInv, AllGone, Gone
<1>9. CASE Destroy
  <2>1. /\ UNCHANGED <<setting, feed, joinable, state, closing>> /\ StopSlaves("app", "destroy")
    BY <1>9 DEF Destroy, camVars, slaveVars
  <2>2. /\ Mine("app") /\ at' \in [Threads -> Nat]
        /\ pc' \in [Threads -> AppPc \cup MasterPc \cup SharedPc]
        /\ ret' \in [Threads -> {"none", "destroy", "cd", "time", "flush", "close"}]
        /\ at'["app"] = 1 /\ ret'["app"] = "destroy"
        /\ pc'["app"] = (IF NSlaves = 0 THEN "destroy" ELSE "offline")
    BY <1>1, <2>1, StopSlavesEffect DEF SlicerInv
  <2>3. SlicerTypes'
    BY <2>1, <2>2 DEF SlicerInv, SlicerTypes
  <2>4. GoneStays /\ ThreadsEnd'
    BY <2>1, Quiet
  <2>5. LoopInv("app")'
    BY <1>1, <2>1, <2>2, LoopBegins
  <2>6. NSlaves = 0 => AllGone'
    BY <2>1, SlaveFacts DEF SlicerInv, SlicerTypes, AllGone
  <2>7. AppInv'
    BY <2>2, <2>6 DEF AppInv, Starting, Looping, Past, AppPc, SharedPc
  <2>. QED BY <1>2, <2>1, <2>2, <2>3, <2>4, <2>5, <2>7
<1>10. CASE DestroyClose \/ StopMaster \/ Close("app")
  <2>1. /\ UNCHANGED <<setting, feed, joinable, state, at, ret, closing>> /\ pc["app"] \in Past
        /\ \E x \in Past \ {"slice", "put"} : Goto("app", x)
    BY <1>10 DEF DestroyClose, StopMaster, Close, camVars, slaveVars, Past
  <2>. QED BY <1>4, <2>1
<1>11. CASE JoinMaster
  <2>1. /\ UNCHANGED <<setting, feed, state, at, ret, closing>> /\ pc["app"] = "leave"
        /\ joinable' = [joinable EXCEPT ![Master] = FALSE] /\ Goto("app", "gone")
    BY <1>11 DEF JoinMaster, slaveVars
  <2>2. /\ pc' \in [Threads -> AppPc \cup MasterPc \cup SharedPc] /\ pc'["app"] = "gone"
        /\ \A o \in Threads \ {"app"} : pc'[o] = pc[o]
    BY <1>1, <2>1, GotoEffect DEF SlicerInv, AppPc
  <2>3. /\ joinable' \in [Cameras -> BOOLEAN]
        /\ \A k \in Slaves(setting) : joinable'[k] = joinable[k]
    BY <2>1, SlaveFacts DEF SlicerInv, SlicerTypes
  <2>4. SlicerTypes' /\ Mine("app")
    BY <2>1, <2>2, <2>3 DEF SlicerInv, SlicerTypes, Mine
  <2>5. GoneStays /\ ThreadsEnd'
    BY <2>1, <2>3 DEF SlicerInv, GoneStays, ThreadsEnd, Gone
  <2>6. AppInv' /\ LoopInv("app")'
    BY <2>1, <2>2, <2>5, AppPast DEF Past
  <2>. QED BY <1>2, <2>1, <2>4, <2>5, <2>6
<1>12. CASE GetSlicedEvents("app") \/ FlushSlave("app")
  <2>1. /\ SlicerTypes' /\ Mine("app") /\ GoneStays /\ ThreadsEnd' /\ LoopInv("app")'
        /\ pc["app"] = "slice" /\ pc'["app"] \in {"slice", "put"}
        /\ UNCHANGED <<ret, closing, state>>
    BY <1>1, <1>12, SliceEffect
  <2>2. AllGone'
    BY <2>1 DEF GoneStays, AllGone, SlicerInv, AppInv, Past
  <2>3. AppInv'
    BY <2>1, <2>2 DEF SlicerInv, AppInv, SharedPc, Looping, Starting
  <2>. QED BY <1>2, <2>1, <2>3
<1>13. CASE Put("app")
  <2>1. UNCHANGED <<setting, feed, joinable, state, at, ret, closing>> /\ pc["app"] = "put"
        /\ Goto("app", ret["app"])
    BY <1>13 DEF Put, camVars, slaveVars
  <2>2. ret["app"] \in Past \ {"slice", "put"} /\ pc["app"] \in Past
    BY <2>1 DEF SlicerInv, AppInv, Past
  <2>. QED BY <1>4, <2>1, <2>2
<1>14. CASE LoopStep("app")
  <2>1. ret["app"] \in {"destroy", "flush"}
    BY <1>14 DEF LoopStep, SlaveOffline, StopSlaveCamera, JoinSlave, SlicerInv, AppInv, Looping
  <2>2. /\ SlicerTypes' /\ Mine("app") /\ GoneStays /\ ThreadsEnd' /\ LoopInv("app")'
        /\ pc["app"] \in Looping /\ ret' = ret /\ state'[Master] = state[Master]
        /\ pc'["app"] \in Looping \/ (pc'["app"] = ret["app"] /\ AllGone')
    BY <1>1, <1>14, <2>1, LoopStepEffect
  <2>3. AllGone => AllGone'
    BY <2>2 DEF GoneStays, AllGone
  <2>4. AppInv'
    BY <2>1, <2>2, <2>3 DEF SlicerInv, AppInv, AppPc, SharedPc, Looping, Starting, Past
  <2>. QED BY <1>2, <2>2, <2>4
<1>15. CASE Stopped("app")
  <2>1. /\ UNCHANGED <<setting, feed, joinable, closing>> /\ pc["app"] = "stopped"
        /\ state' = [state EXCEPT ![Master] = "OFFLINE"] /\ StopSlaves("app", "flush")
    BY <1>15 DEF Stopped, camVars, slaveVars
  <2>2. /\ Mine("app") /\ at' \in [Threads -> Nat]
        /\ pc' \in [Threads -> AppPc \cup MasterPc \cup SharedPc]
        /\ ret' \in [Threads -> {"none", "destroy", "cd", "time", "flush", "close"}]
        /\ at'["app"] = 1 /\ ret'["app"] = "flush"
        /\ pc'["app"] = (IF NSlaves = 0 THEN "flush" ELSE "offline")
    BY <1>1, <2>1, StopSlavesEffect DEF SlicerInv
  <2>3. /\ state' \in [Cameras -> {"OFFLINE", "STARTED"}]
        /\ \A k \in Slaves(setting) : state'[k] = state[k]
    BY <2>1, SlaveFacts DEF SlicerInv, SlicerTypes
  <2>4. SlicerTypes'
    BY <2>1, <2>2, <2>3 DEF SlicerInv, SlicerTypes
  <2>5. GoneStays /\ ThreadsEnd'
    BY <2>1, <2>3 DEF SlicerInv, GoneStays, ThreadsEnd, Gone
  <2>6. LoopInv("app")'
    BY <1>1, <2>1, <2>2, LoopBegins
  <2>7. AllGone /\ AllGone'
    BY <2>1, <2>5 DEF SlicerInv, AppInv, Past, GoneStays, AllGone
  <2>8. AppInv'
    BY <2>2, <2>7 DEF AppInv, SharedPc, Looping, Starting
  <2>. QED BY <1>2, <2>2, <2>4, <2>5, <2>6, <2>7, <2>8
<1>16. CASE Flush("app")
  <2>1. UNCHANGED <<setting, feed, joinable, state>> /\ pc["app"] = "flush"
    BY <1>16 DEF Flush, camVars, slaveVars
  <2>2. \/ Goto("app", "close") /\ UNCHANGED <<at, ret, closing>>
        \/ CloseSlice("app", slicer, "MET_AUTOMATIC", "close")
    BY <1>16 DEF Flush
  <2>3. CASE Goto("app", "close") /\ UNCHANGED <<at, ret, closing>>
    BY <1>4, <2>1, <2>3 DEF Past
  <2>4. CASE CloseSlice("app", slicer, "MET_AUTOMATIC", "close")
    <3>1. /\ Mine("app") /\ DOMAIN closing' = Threads /\ at' \in [Threads -> Nat]
          /\ pc' \in [Threads -> AppPc \cup MasterPc \cup SharedPc]
          /\ ret' \in [Threads -> {"none", "destroy", "cd", "time", "flush", "close"}]
          /\ pc'["app"] = (IF NSlaves = 0 THEN "put" ELSE "slice")
          /\ at'["app"] = 1 /\ ret'["app"] = "close"
      BY <1>1, <2>4, CloseSliceEffect DEF SlicerInv
    <3>2. SlicerTypes'
      BY <2>1, <3>1 DEF SlicerInv, SlicerTypes
    <3>3. GoneStays /\ ThreadsEnd' /\ AllGone'
      BY <2>1, Quiet DEF GoneStays, AllGone, SlicerInv, AppInv, Past
    <3>4. LoopInv("app")'
      BY <1>1, <2>1, <3>1, LoopBegins
    <3>5. AppInv'
      BY <3>1, <3>3 DEF AppInv, SharedPc, Looping, Starting
    <3>. QED BY <1>2, <2>1, <3>1, <3>2, <3>3, <3>4, <3>5
  <2>. QED BY <2>2, <2>3, <2>4
<1>. QED BY <1>5, <1>6, <1>7, <1>8, <1>9, <1>10, <1>11, <1>12, <1>13, <1>14, <1>15, <1>16
     DEF AppStep, Slice, StopStep, LoopStep

LEMMA SlicerStep == SlicerInv /\ [Next]_vars => SlicerInv'
<1>. SUFFICES ASSUME SlicerInv, [Next]_vars PROVE SlicerInv'
  OBVIOUS
<1>1. CASE UNCHANGED vars
  BY <1>1 DEF vars, appVars, camVars, slaveVars, SlicerInv, SlicerTypes, AppInv, MasterInv,
     ThreadsEnd, LoopInv, AllGone, Gone
<1>2. CASE Next
  BY <1>2, MasterStepKeeps, AppStepKeeps, SlaveStepKeeps DEF Next
<1>. QED BY <1>1, <1>2

-----------------------------------------------------------------------------
(* The theorem.                                                            *)

LEMMA GoneWhenFlushed == SlicerInv => FlushAfterStop
<1>. SUFFICES ASSUME SlicerInv, NEW th \in {"app", "master"},
                     pc[th] = "slice", closing[th].offline
              PROVE  state[at[th]] = "OFFLINE" /\ feed[at[th]] \in {"none", "done"}
  BY DEF FlushAfterStop
<1>1. at[th] \in Slaves(setting)
  BY DEF SlicerInv, LoopInv
<1>2. AllGone
  BY DEF SlicerInv, AppInv, MasterInv, Past
<1>. QED BY <1>1, <1>2 DEF AllGone, Gone

\* Slave::flush reads what a slave has buffered without the mutex of the slave:
\* with any number of slaves, whoever ends the streaming (the master's own
\* thread, its stop by the application, the destructor) and whatever the slaves
\* do meanwhile, it finds the slave stopped and its thread gone.
THEOREM FlushFindsThemGone == Spec => []FlushAfterStop
<1>1. Spec => []SlicerInv
  BY SlicerInit, SlicerStep, PTL DEF Spec
<1>. QED BY <1>1, GoneWhenFlushed, PTL

-----------------------------------------------------------------------------
(* The values of the variables, and the bounds that make a thread wait.    *)

Statuses == {"NOT_MET", "MET_N_EVENTS", "MET_N_US", "MET_AUTOMATIC"}
ClosingSlices == [status : Statuses, t : Int, n : Nat, offline : BOOLEAN]
QueuedSlices == [status : Statuses, t : Int, n : Nat, master : Seq(Nat),
                 slaves : [Slaves(setting) -> Seq(Nat)]]

\* The loops over the slaves stay among them.
AtSlaves == \A th \in Threads : at[th] \in 1..MaxSlaves + 1

FlagTypes ==
    /\ camLock \in [Cameras -> {None, "app", "master"}] /\ mtx \in {None, "app", "master"}
    /\ running \in [Cameras -> BOOLEAN]
    /\ slaveAsleep \in [Cameras -> BOOLEAN] /\ masterAsleep \in [Cameras -> BOOLEAN]
    /\ enabled \in BOOLEAN /\ ended \in BOOLEAN

\* A camera takes its next buffer if there is one; a slave is started with its
\* first.
Tapes ==
    /\ next \in [Cameras -> Nat \ {0}]
    /\ pc["master"] = "lock" =>
          next[Master] <= Len(setting.master) /\ Buffer.ev # <<>>
    /\ \A k \in Slaves(setting) :
          /\ next[k] <= Len(setting.slaves[k]) + 1
          /\ feed[k] \in {"events", "full"} => next[k] <= Len(setting.slaves[k])
          /\ feed[k] = "none" => next[k] = 1
          /\ pc["app"] = "idle" \/ (pc["app"] = "start.slaves" /\ k >= at["app"]) =>
                feed[k] = "none"

\* A slice never has more events than its condition counts.
SlicerTypesAndCount ==
    /\ slicer \in [started : BOOLEAN, ref : Int, last : Int, n : Nat]
    /\ IsTrackingCount => slicer.n <= Cond.n
    /\ \A th \in Threads : closing[th] \in ClosingSlices

EventTypes ==
    /\ queue \in [Cameras -> Seq(Nat)] /\ current \in [Cameras -> Seq(Nat)]
    /\ input \in Seq(Nat)

OutTypes == out \in Seq(QueuedSlices) /\ (setting.room > 0 => Len(out) <= setting.room)

\* A slave that is too fast has been stopped before its next buffer.
QueueBound ==
    \A k \in Slaves(setting) :
        state[k] = "STARTED" /\ IsTrackingCount /\ next[k] > 1 =>
            Len(queue[k]) < 2 * Cond.n + Len(setting.slaves[k][next[k] - 1])

SlicerValues ==
    /\ AtSlaves /\ FlagTypes /\ Tapes /\ SlicerTypesAndCount /\ EventTypes
    /\ OutTypes /\ QueueBound

-----------------------------------------------------------------------------
LEMMA SettingFacts ==
    ASSUME setting \in Settings
    PROVE  /\ setting.master \in Seq([ev : Seq(Nat), now : Nat])
           /\ \A k \in Slaves(setting) : setting.slaves[k] \in Seq(Seq(Nat))
           /\ Cond.type \in {"IDENTITY", "N_EVENTS", "N_US", "MIXED"}
           /\ Cond.us \in Nat \ {0} /\ Cond.n \in Nat \ {0} /\ setting.room \in Nat
           /\ Master \in Cameras
<1>1. /\ setting.master \in Seq([ev : Seq(Nat), now : Nat]) /\ setting.room \in Nat
      /\ setting.slaves \in Seq(Seq(Seq(Nat)))
      /\ Cond.type \in {"IDENTITY", "N_EVENTS", "N_US", "MIXED"}
      /\ Cond.us \in Nat \ {0} /\ Cond.n \in Nat \ {0} /\ Master \in Cameras
  BY SlicerAssumption DEF Cond, Cameras, Master
<1>2. \A k \in Slaves(setting) : setting.slaves[k] \in Seq(Seq(Nat))
  BY <1>1, ElementOfSeq, LenProperties DEF Slaves
<1>. QED BY <1>1, <1>2

LEMMA PrecedingBound ==
    ASSUME NEW S, NEW events \in Seq(S), NEW t
    PROVE  Preceding(events, t) \in 0..Len(events)
<1>. DEFINE before == {i \in DOMAIN events : events[i] < t}
<1>1. Len(events) \in Nat /\ DOMAIN events = 1..Len(events)
  BY LenProperties
<1>2. /\ IsFiniteSet(1..Len(events))
      /\ Cardinality(1..Len(events)) = Len(events)
  BY <1>1, FS_Interval
<1>3. before \in SUBSET (1..Len(events))
  BY <1>1
<1>4. IsFiniteSet(before) /\ Cardinality(before) <= Len(events)
  BY <1>2, <1>3, FS_Subset
<1>5. Cardinality(before) \in Nat
  BY <1>4, FS_CardinalityType
<1>. QED BY <1>1, <1>4, <1>5 DEF Preceding

LEMMA CutTypes ==
    ASSUME NEW S, NEW s \in Seq(S), NEW m \in 0..Len(s)
    PROVE  /\ SubSeq(s, 1, m) \in Seq(S) /\ Len(SubSeq(s, 1, m)) = m
           /\ SubSeq(s, m + 1, Len(s)) \in Seq(S)
           /\ Len(SubSeq(s, m + 1, Len(s))) = Len(s) - m
<1>1. Len(s) \in Nat /\ m \in Nat /\ m <= Len(s)
  BY LenProperties
<1>2. \A i \in 1..m : s[i] \in S
  BY <1>1, ElementOfSeq
<1>3. \A i \in m + 1 .. Len(s) : s[i] \in S
  BY <1>1, ElementOfSeq
<1>. QED BY <1>1, <1>2, <1>3, SubSeqProperties

LEMMA LastType ==
    ASSUME NEW S, NEW s \in Seq(S), s # <<>>
    PROVE  Last(s) \in S /\ Head(s) \in S /\ Len(s) \in Nat \ {0}
<1>1. Len(s) \in Nat \ {0}
  BY EmptySeq, LenProperties
<1>2. s[Len(s)] \in S /\ s[1] \in S
  BY <1>1, ElementOfSeq
<1>. QED BY <1>1, <1>2, HeadTailProperties DEF Last

\* find_next_slicing_condition_met takes no more than there is, and no more than
\* is missing from a count.
LEMMA FindBounds ==
    ASSUME setting \in Settings, slicer.n \in Nat, IsTrackingCount => slicer.n <= Cond.n,
           NEW events \in Seq(Nat), events # <<>>
    PROVE  LET found == FindNextSlicingConditionMet(events) IN
           /\ found.len \in 0..Len(events) /\ found.status \in Statuses
           /\ IsTrackingCount => slicer.n + found.len <= Cond.n
<1>1. /\ Len(events) \in Nat /\ Cond.n \in Nat /\ PeriodEnd \in {PeriodEnd}
      /\ Cond.type \in {"IDENTITY", "N_EVENTS", "N_US", "MIXED"}
  BY SettingFacts, LenProperties
<1>2. Preceding(events, PeriodEnd) \in 0..Len(events)
  BY PrecedingBound
<1>. DEFINE period == ByDuration(events)
<1>3. period.len \in 0..Len(events) /\ period.status \in {"NOT_MET", "MET_N_US"}
  BY <1>1, <1>2 DEF ByDuration
<1>4. ASSUME IsTrackingCount, NEW s \in Seq(Nat)
      PROVE  /\ ByCount(s).len \in 0..Len(s) /\ ByCount(s).status \in {"NOT_MET", "MET_N_EVENTS"}
             /\ slicer.n + ByCount(s).len <= Cond.n
             /\ ByCount(s).status = "NOT_MET" => slicer.n + Len(s) <= Cond.n
  <2>1. Len(s) \in Nat
    BY LenProperties
  <2>. QED BY <1>1, <1>4, <2>1 DEF ByCount
<1>. HIDE DEF period
<1>5. CASE Cond.type = "N_EVENTS"
  BY <1>4, <1>5 DEF FindNextSlicingConditionMet, IsTrackingCount, Statuses
<1>6. CASE Cond.type = "N_US"
  BY <1>3, <1>6 DEF FindNextSlicingConditionMet, IsTrackingCount, Statuses, period
<1>7. CASE Cond.type = "MIXED"
  <2>. DEFINE count == ByCount(SubSeq(events, 1, period.len))
  <2>1. /\ SubSeq(events, 1, period.len) \in Seq(Nat)
        /\ Len(SubSeq(events, 1, period.len)) = period.len
    BY <1>3, CutTypes
  <2>2. /\ count.len \in 0..period.len /\ count.status \in {"NOT_MET", "MET_N_EVENTS"}
        /\ slicer.n + count.len <= Cond.n
        /\ count.status = "NOT_MET" => slicer.n + period.len <= Cond.n
    BY <1>4, <1>7, <2>1 DEF IsTrackingCount
  <2>3. FindNextSlicingConditionMet(events) = IF count.status = "NOT_MET" THEN period ELSE count
    BY <1>7 DEF FindNextSlicingConditionMet, period
  <2>. HIDE DEF count
  <2>. QED BY <1>1, <1>3, <2>2, <2>3 DEF Statuses
<1>8. CASE Cond.type = "IDENTITY"
  BY <1>1, <1>8 DEF FindNextSlicingConditionMet, IsTrackingCount, Statuses
<1>. QED BY <1>1, <1>5, <1>6, <1>7, <1>8

LEMMA ValuesInit == Init => SlicerValues
<1>. SUFFICES ASSUME Init PROVE SlicerValues
  OBVIOUS
<1>1. /\ setting \in Settings
      /\ pc["app"] = "idle" /\ pc["master"] = "none"
      /\ feed = [k \in Cameras |-> "none"] /\ next = [k \in Cameras |-> 1]
      /\ running = [k \in Cameras |-> FALSE] /\ camLock = [k \in Cameras |-> None]
      /\ queue = NoEvents /\ current = NoEvents /\ input = <<>>
      /\ slaveAsleep = [k \in Cameras |-> FALSE] /\ masterAsleep = [k \in Cameras |-> FALSE]
      /\ mtx = None /\ out = <<>> /\ enabled = TRUE /\ ended = FALSE
      /\ slicer = [started |-> FALSE, ref |-> 0, last |-> 0, n |-> 0]
  BY DEF Init
<1>2. \A k \in Slaves(setting) : k \in Cameras
  BY <1>1, SlaveFacts
<1>3. AtSlaves
  <2>1. \A th \in Threads : at[th] = 1
    BY DEF Init, Threads
  <2>. QED BY <2>1, SlicerAssumption DEF AtSlaves
<1>4. FlagTypes
  BY <1>1 DEF FlagTypes
<1>5. Tapes
  <2>1. \A k \in Slaves(setting) : Len(setting.slaves[k]) \in Nat
    BY <1>1, SettingFacts, LenProperties
  <2>. QED BY <1>1, <1>2, <2>1 DEF Tapes
<1>6. SlicerTypesAndCount
  <2>1. \A th \in Threads : closing[th] = NoSlice
    BY DEF Init, Threads
  <2>2. NoSlice \in ClosingSlices
    BY DEF NoSlice, ClosingSlices, Statuses
  <2>3. Cond.n \in Nat
    BY <1>1, SettingFacts
  <2>. QED BY <1>1, <2>1, <2>2, <2>3 DEF SlicerTypesAndCount
<1>7. EventTypes
  <2>1. <<>> \in Seq(Nat)
    BY EmptySeq
  <2>. QED BY <1>1, <2>1 DEF EventTypes, NoEvents
<1>8. OutTypes
  BY <1>1, EmptySeq, SettingFacts DEF OutTypes
<1>9. QueueBound
  BY <1>1, <1>2 DEF QueueBound
<1>. QED BY <1>3, <1>4, <1>5, <1>6, <1>7, <1>8, <1>9 DEF SlicerValues

-----------------------------------------------------------------------------
(* The steps, one part of the invariant after the other.                   *)

LEMMA SettingStays == [Next]_vars => setting' = setting
BY DEF Next, MasterStep, AppStep, SlaveStep, Slice, StopStep, Begin, Destroy, MasterLoop,
   MasterLock, MasterProcess, MasterUnlock, MasterTime, MasterEnd, GetSlicedEvents, FlushSlave,
   Put, SlaveOffline, StopSlaveCamera, JoinSlave, Stopped, Flush, Close, StartSlave,
   StartMaster, PopFront, DestroyClose, StopMaster, JoinMaster, SlaveLoop, SlaveEvents,
   SlaveEnd, vars

\* The slave of a loop is the first, or one more, if there is one more.
LEMMA AtMoves ==
    ASSUME [Next]_vars
    PROVE  \/ UNCHANGED at
           \/ \E th \in Threads :
                 \/ at' = [at EXCEPT ![th] = 1]
                 \/ at[th] < NSlaves /\ at' = [at EXCEPT ![th] = @ + 1]
<1>1. CASE UNCHANGED vars
  BY <1>1 DEF vars, appVars
<1>2. CASE Begin \/ Destroy
  BY <1>2 DEF Begin, Destroy, StopSlaves, Threads
<1>3. CASE \E k \in Slaves(setting) : SlaveStep(k)
  BY <1>3 DEF SlaveStep, SlaveLoop, SlaveEvents, SlaveEnd, appVars
<1>4. ASSUME NEW th \in Threads, Slice(th) \/ StopStep(th)
      PROVE  \/ UNCHANGED at
             \/ at' = [at EXCEPT ![th] = 1]
             \/ at[th] < NSlaves /\ at' = [at EXCEPT ![th] = @ + 1]
  BY <1>4 DEF Slice, GetSlicedEvents, FlushSlave, Put, StopStep, SlaveOffline, StopSlaveCamera,
     JoinSlave, Stopped, Flush, Close, NextSlave, NextOffline, StopSlaves, CloseSlice
<1>5. CASE MasterLoop \/ MasterLock \/ MasterProcess \/ MasterUnlock \/ MasterTime \/ MasterEnd
  BY <1>5 DEF MasterLoop, MasterLock, MasterProcess, MasterUnlock, MasterTime, MasterEnd,
     CloseSlice, appVars, Threads
<1>6. CASE StartSlave \/ StartMaster \/ PopFront \/ DestroyClose \/ StopMaster \/ JoinMaster
  BY <1>6 DEF StartSlave, StartMaster, PopFront, DestroyClose, StopMaster, JoinMaster, NextSlave,
     appVars, Threads
<1>. QED BY <1>1, <1>2, <1>3, <1>4, <1>5, <1>6 DEF Next, MasterStep, AppStep, Threads

LEMMA AtSlavesStep ==
    ASSUME SlicerInv, AtSlaves, [Next]_vars
    PROVE  AtSlaves'
<1>1. NSlaves \in Nat /\ NSlaves <= MaxSlaves /\ MaxSlaves \in Nat
  BY SlicerAssumption, SlaveFacts DEF NSlaves, SlicerInv, SlicerTypes
<1>2. at \in [Threads -> 1..MaxSlaves + 1]
  BY DEF SlicerInv, SlicerTypes, AtSlaves
<1>3. at' \in [Threads -> 1..MaxSlaves + 1]
  <2>1. CASE UNCHANGED at
    BY <1>2, <2>1
  <2>2. ASSUME NEW th \in Threads, at' = [at EXCEPT ![th] = 1]
        PROVE  at' \in [Threads -> 1..MaxSlaves + 1]
    BY <1>1, <1>2, <2>2
  <2>3. ASSUME NEW th \in Threads, at[th] < NSlaves, at' = [at EXCEPT ![th] = @ + 1]
        PROVE  at' \in [Threads -> 1..MaxSlaves + 1]
    BY <1>1, <1>2, <2>3
  <2>. QED BY <2>1, <2>2, <2>3, AtMoves
<1>. QED BY <1>3 DEF AtSlaves

LEMMA FlagTypesStep ==
    ASSUME FlagTypes, SlicerInv, [Next]_vars
    PROVE  FlagTypes'
<1>1. CASE UNCHANGED vars
  BY <1>1 DEF vars, camVars, slaveVars, outVars, FlagTypes
<1>2. CASE Begin \/ Destroy
  BY <1>2 DEF Begin, Destroy, camVars, slaveVars, outVars, FlagTypes
<1>3. ASSUME NEW k \in Slaves(setting), SlaveStep(k) PROVE FlagTypes'
  <2>1. UNCHANGED <<camLock, mtx, enabled, ended>>
    BY <1>3 DEF SlaveStep, SlaveLoop, SlaveEvents, SlaveEnd, camVars, outVars
  <2>2. running' \in [Cameras -> BOOLEAN]
    BY <1>3 DEF SlaveStep, SlaveLoop, SlaveEvents, SlaveEnd, camVars, FlagTypes
  <2>3. slaveAsleep' \in [Cameras -> BOOLEAN] /\ masterAsleep' \in [Cameras -> BOOLEAN]
    BY <1>3 DEF SlaveStep, SlaveLoop, SlaveEvents, SlaveEnd, WakeMaster, FlagTypes
  <2>. QED BY <2>1, <2>2, <2>3 DEF FlagTypes
<1>4. ASSUME NEW th \in Threads, Slice(th) PROVE FlagTypes'
  <2>1. UNCHANGED <<camLock, mtx, enabled, ended, running>>
    BY <1>4 DEF Slice, GetSlicedEvents, FlushSlave, Put, camVars, outVars
  <2>2. slaveAsleep' \in [Cameras -> BOOLEAN]
    <3>1. ASSUME NEW k, NEW c, slaveAsleep' = [slaveAsleep EXCEPT ![k] = @ /\ c]
          PROVE  slaveAsleep' \in [Cameras -> BOOLEAN]
      <4>1. \A j \in Cameras : slaveAsleep'[j] \in BOOLEAN
        BY <3>1 DEF FlagTypes
      <4>. QED BY <3>1, <4>1 DEF FlagTypes
    <3>2. \/ UNCHANGED slaveAsleep
          \/ \E k, c : slaveAsleep' = [slaveAsleep EXCEPT ![k] = @ /\ c]
      BY <1>4 DEF Slice, GetSlicedEvents, FlushSlave, Put, slaveVars
    <3>. QED BY <3>1, <3>2 DEF FlagTypes
  <2>3. masterAsleep' \in [Cameras -> BOOLEAN]
    BY <1>4 DEF Slice, GetSlicedEvents, FlushSlave, Put, slaveVars, FlagTypes
  <2>. QED BY <2>1, <2>2, <2>3 DEF FlagTypes
<1>5. ASSUME NEW th \in Threads, StopStep(th) PROVE FlagTypes'
  <2>1. /\ camLock' \in [Cameras -> {None, "app", "master"}]
        /\ mtx' \in {None, "app", "master"}
    BY <1>5 DEF StopStep, SlaveOffline, StopSlaveCamera, JoinSlave, Stopped, Flush, Close,
       camVars, FlagTypes, Threads
  <2>2. /\ running' \in [Cameras -> BOOLEAN]
        /\ slaveAsleep' \in [Cameras -> BOOLEAN] /\ masterAsleep' \in [Cameras -> BOOLEAN]
    BY <1>5 DEF StopStep, SlaveOffline, StopSlaveCamera, JoinSlave, Stopped, Flush, Close,
       camVars, slaveVars, WakeMaster, FlagTypes
  <2>3. enabled' \in BOOLEAN /\ ended' \in BOOLEAN
    BY <1>5 DEF StopStep, SlaveOffline, StopSlaveCamera, JoinSlave, Stopped, Flush, Close,
       outVars, FlagTypes
  <2>. QED BY <2>1, <2>2, <2>3 DEF FlagTypes
<1>6. CASE MasterLoop \/ MasterLock \/ MasterProcess \/ MasterUnlock \/ MasterTime \/ MasterEnd
  BY <1>6 DEF MasterLoop, MasterLock, MasterProcess, MasterUnlock, MasterTime, MasterEnd,
     camVars, slaveVars, outVars, FlagTypes
<1>7. CASE StartSlave \/ StartMaster \/ PopFront \/ DestroyClose \/ StopMaster \/ JoinMaster
  BY <1>7 DEF StartSlave, StartMaster, StartCamera, PopFront, DestroyClose, StopMaster,
     JoinMaster, camVars, slaveVars, outVars, FlagTypes
<1>. QED BY <1>1, <1>2, <1>3, <1>4, <1>5, <1>6, <1>7 DEF Next, MasterStep, AppStep, Threads

LEMMA NextMoves ==
    ASSUME [Next]_vars
    PROVE  \/ UNCHANGED <<next, feed>>
           \/ StartSlave \/ MasterTime
           \/ \E k \in Slaves(setting) : SlaveStep(k)
<1>1. CASE UNCHANGED vars
  BY <1>1 DEF vars, camVars, slaveVars
<1>2. CASE Begin \/ Destroy
  BY <1>2 DEF Begin, Destroy, camVars, slaveVars
<1>3. ASSUME NEW th \in Threads, Slice(th) \/ StopStep(th)
      PROVE  UNCHANGED <<next, feed>>
  BY <1>3 DEF Slice, GetSlicedEvents, FlushSlave, Put, StopStep, SlaveOffline, StopSlaveCamera,
     JoinSlave, Stopped, Flush, Close, camVars, slaveVars
<1>4. CASE MasterLoop \/ MasterLock \/ MasterProcess \/ MasterUnlock \/ MasterEnd
  BY <1>4 DEF MasterLoop, MasterLock, MasterProcess, MasterUnlock, MasterEnd, camVars, slaveVars
<1>5. CASE StartMaster \/ PopFront \/ DestroyClose \/ StopMaster \/ JoinMaster
  BY <1>5 DEF StartMaster, PopFront, DestroyClose, StopMaster, JoinMaster, camVars, slaveVars
<1>. QED BY <1>1, <1>2, <1>3, <1>4, <1>5 DEF Next, MasterStep, AppStep, Threads

LEMMA SlaveTapes ==
    ASSUME SlicerInv, Tapes, [Next]_vars
    PROVE  /\ next' \in [Cameras -> Nat \ {0}]
           /\ \A j \in Slaves(setting) :
                 /\ next'[j] <= Len(setting.slaves[j]) + 1
                 /\ feed'[j] \in {"events", "full"} => next'[j] <= Len(setting.slaves[j])
                 /\ feed'[j] = "none" => next'[j] = 1
<1>0. /\ \A j \in Slaves(setting) : j \in Cameras /\ j # Master
      /\ next \in [Cameras -> Nat \ {0}] /\ feed \in [Cameras -> FeedPc]
  BY SlaveFacts DEF SlicerInv, SlicerTypes, Tapes
<1>1. CASE UNCHANGED <<next, feed>>
  BY <1>1 DEF Tapes
<1>2. CASE StartSlave
  <2>1. next' = next /\ feed' = [feed EXCEPT ![at["app"]] = "loop"]
    BY <1>2 DEF StartSlave
  <2>. QED BY <1>0, <2>1 DEF Tapes
<1>3. CASE MasterTime
  <2>1. feed' = feed /\ (next' = next \/ next' = [next EXCEPT ![Master] = @ + 1])
    BY <1>3 DEF MasterTime, slaveVars
  <2>2. next' \in [Cameras -> Nat \ {0}]
    BY <1>0, <2>1
  <2>3. \A j \in Slaves(setting) : next'[j] = next[j]
    BY <1>0, <2>1
  <2>. QED BY <2>1, <2>2, <2>3 DEF Tapes
<1>4. ASSUME NEW k \in Slaves(setting), SlaveStep(k)
      PROVE  /\ next' \in [Cameras -> Nat \ {0}]
             /\ \A j \in Slaves(setting) :
                   /\ next'[j] <= Len(setting.slaves[j]) + 1
                   /\ feed'[j] \in {"events", "full"} => next'[j] <= Len(setting.slaves[j])
                   /\ feed'[j] = "none" => next'[j] = 1
  <2>1. \/ /\ next' = next
           /\ \E f \in {"end", "done"} : feed' = [feed EXCEPT ![k] = f]
        \/ /\ next' = next /\ next[k] <= Len(setting.slaves[k])
           /\ \E f \in {"events", "full"} : feed' = [feed EXCEPT ![k] = f]
        \/ /\ next' = [next EXCEPT ![k] = @ + 1] /\ next[k] <= Len(setting.slaves[k])
           /\ feed' = [feed EXCEPT ![k] = "loop"]
    <3>1. CASE SlaveLoop(k)
      BY <3>1 DEF SlaveLoop, camVars
    <3>2. CASE SlaveEvents(k)
      BY <3>2 DEF SlaveEvents, Tapes
    <3>3. CASE SlaveEnd(k)
      BY <3>3 DEF SlaveEnd
    <3>. QED BY <1>4, <3>1, <3>2, <3>3 DEF SlaveStep
  <2>2. next' \in [Cameras -> Nat \ {0}]
    BY <1>0, <2>1
  <2>3. \A j \in Slaves(setting) \ {k} : next'[j] = next[j] /\ feed'[j] = feed[j]
    BY <1>0, <2>1
  <2>4. feed'[k] \in {"events", "full"} => next'[k] <= Len(setting.slaves[k])
    BY <1>0, <2>1
  <2>5. feed'[k] # "none"
    BY <1>0, <2>1
  <2>6. next'[k] <= Len(setting.slaves[k]) + 1
    <3>1. Len(setting.slaves[k]) \in Nat /\ k \in Cameras /\ setting \in Settings
      BY <1>0, SettingFacts, LenProperties DEF SlicerInv, SlicerTypes
    <3>2. next[k] <= Len(setting.slaves[k]) + 1
      BY DEF Tapes
    <3>. QED BY <1>0, <2>1, <3>1, <3>2
  <2>. QED BY <2>2, <2>3, <2>4, <2>5, <2>6 DEF Tapes
<1>. QED BY <1>1, <1>2, <1>3, <1>4, NextMoves

LEMMA StartsInOrder ==
    ASSUME SlicerInv, Tapes, [Next]_vars, NEW j \in Slaves(setting),
           pc'["app"] = "idle" \/ (pc'["app"] = "start.slaves" /\ j >= at'["app"])
    PROVE  feed'[j] = "none"
<1>0. /\ j \in Cameras /\ j # Master /\ j \in Nat /\ feed \in [Cameras -> FeedPc]
      /\ pc \in [Threads -> AppPc \cup MasterPc \cup SharedPc] /\ "app" \in Threads
      /\ NSlaves \in Nat /\ Slaves(setting) = 1..NSlaves /\ at["app"] \in Nat
  BY SlaveFacts DEF SlicerInv, SlicerTypes, Threads
<1>1. ASSUME UNCHANGED <<pc, at, feed>> PROVE feed'[j] = "none"
  BY <1>1 DEF Tapes
<1>2. CASE UNCHANGED vars
  BY <1>1, <1>2 DEF vars, appVars, slaveVars
<1>3. CASE Begin
  <2>1. pc["app"] = "idle" /\ feed' = feed
    BY <1>3 DEF Begin, slaveVars
  <2>. QED BY <2>1 DEF Tapes
<1>4. CASE StartSlave
  <2>1. /\ pc["app"] = "start.slaves" /\ NextSlave("app", "start")
        /\ feed' = [feed EXCEPT ![at["app"]] = "loop"]
        /\ UNCHANGED <<ret, closing>>
    BY <1>4 DEF StartSlave
  <2>2. \/ at["app"] < NSlaves /\ at'["app"] = at["app"] + 1 /\ pc'["app"] = pc["app"]
        \/ pc'["app"] = "start"
    BY <1>0, <2>1, NextSlaveEffect DEF SlicerInv
  <2>3. at'["app"] = at["app"] + 1 /\ pc'["app"] = "start.slaves"
    BY <2>1, <2>2
  <2>4. j # at["app"] /\ j >= at["app"]
    BY <1>0, <2>3
  <2>. QED BY <1>0, <2>1, <2>4 DEF Tapes
<1>5. ASSUME NEW k \in Slaves(setting), SlaveStep(k) PROVE feed'[j] = "none"
  <2>1. /\ UNCHANGED <<pc, at>>
        /\ \E f \in FeedPc : feed[k] \notin {"none", "done"} /\ feed' = [feed EXCEPT ![k] = f]
    BY <1>5 DEF SlaveStep, SlaveLoop, SlaveEvents, SlaveEnd, appVars, FeedPc
  <2>2. feed[j] = "none"
    BY <2>1 DEF Tapes
  <2>. QED BY <1>0, <2>1, <2>2
<1>6. ASSUME NEW th \in Threads, \E x : Goto(th, x) /\ x \notin {"idle", "start.slaves"},
             pc["app"] \notin {"idle", "start.slaves"}
      PROVE  FALSE
  BY <1>0, <1>6 DEF Goto, Threads
<1>7. CASE Destroy
  <2>1. pc' = [pc EXCEPT !["app"] = IF NSlaves = 0 THEN "destroy" ELSE "offline"]
    BY <1>7 DEF Destroy, StopSlaves, Goto
  <2>. QED BY <1>0, <2>1
<1>8. CASE StartMaster
  BY <1>8 DEF StartMaster
<1>9. CASE PopFront \/ DestroyClose \/ StopMaster \/ JoinMaster
  BY <1>0, <1>9 DEF PopFront, DestroyClose, StopMaster, JoinMaster, Goto, appVars
<1>10. ASSUME NEW th \in Threads, Slice(th) \/ StopStep(th) PROVE feed'[j] = "none"
  <2>1. pc[th] \in SharedPc /\ feed' = feed
    BY <1>10 DEF Slice, GetSlicedEvents, FlushSlave, Put, StopStep, SlaveOffline, StopSlaveCamera,
       JoinSlave, Stopped, Flush, Close, slaveVars, SharedPc
  <2>2. \/ UNCHANGED <<pc, at>>
        \/ Goto(th, ret[th]) \/ NextSlave(th, "put") \/ NextOffline(th)
        \/ \E x \in SharedPc \cup {"flush", "done", "leave"} : Goto(th, x)
    BY <1>10 DEF Slice, GetSlicedEvents, FlushSlave, Put, StopStep, SlaveOffline, StopSlaveCamera,
       JoinSlave, Stopped, Flush, Close, StopSlaves, CloseSlice, SharedPc
  <2>3. ret[th] \notin {"idle", "start.slaves"}
    BY <1>10 DEF SlicerInv, SlicerTypes
  <2>4. UNCHANGED pc \/ \E x : Goto(th, x) /\ x \notin {"idle", "start.slaves"}
    BY <2>2, <2>3 DEF NextSlave, NextOffline, SharedPc
  <2>5. pc["app"] \notin {"idle", "start.slaves"}
    <3>1. CASE th = "app"
      BY <2>1, <3>1 DEF SharedPc
    <3>2. CASE th = "master"
      BY <2>1, <3>2 DEF SharedPc, SlicerInv, AppInv, Starting
    <3>. QED BY <1>10, <3>1, <3>2 DEF Threads
  <2>. QED BY <1>6, <1>10, <2>4, <2>5
<1>11. CASE MasterLoop \/ MasterLock \/ MasterProcess \/ MasterUnlock \/ MasterTime \/ MasterEnd
  <2>1. pc["master"] # "none"
    BY <1>11 DEF MasterLoop, MasterLock, MasterProcess, MasterUnlock, MasterTime, MasterEnd
  <2>2. UNCHANGED pc \/ \E x : Goto("master", x)
    BY <1>11 DEF MasterLoop, MasterLock, MasterProcess, MasterUnlock, MasterTime, MasterEnd,
       CloseSlice, appVars
  <2>3. pc'["app"] = pc["app"]
    BY <1>0, <2>2 DEF Goto, Threads
  <2>. QED BY <2>1, <2>3 DEF SlicerInv, AppInv, Starting
<1>. QED BY <1>2, <1>3, <1>4, <1>5, <1>7, <1>8, <1>9, <1>10, <1>11
     DEF Next, MasterStep, AppStep, Threads

\* A buffer that the master takes is there, and not empty.
LEMMA MasterTapes ==
    ASSUME SlicerInv, Tapes, [Next]_vars, pc'["master"] = "lock"
    PROVE  next'[Master] <= Len(setting.master) /\ setting.master[next'[Master]].ev # <<>>
<1>0. /\ pc \in [Threads -> AppPc \cup MasterPc \cup SharedPc] /\ "master" \in Threads
      /\ next \in [Cameras -> Nat \ {0}]
      /\ \A j \in Slaves(setting) : j \in Cameras /\ j # Master
  BY SlaveFacts DEF SlicerInv, SlicerTypes, Threads, Tapes
<1>1. ASSUME pc["master"] = "lock", next'[Master] = next[Master]
      PROVE  next'[Master] <= Len(setting.master) /\ setting.master[next'[Master]].ev # <<>>
  BY <1>1 DEF Tapes, Buffer
<1>2. CASE MasterLoop
  <2>1. /\ next' = next
        /\ \/ /\ next[Master] <= Len(setting.master)
              /\ Goto("master", IF Buffer.ev = <<>> THEN "time" ELSE "lock")
           \/ Goto("master", "end")
    BY <1>2 DEF MasterLoop, camVars
  <2>2. next[Master] <= Len(setting.master) /\ Buffer.ev # <<>>
    BY <1>0, <2>1 DEF Goto
  <2>. QED BY <2>1, <2>2 DEF Buffer
<1>3. ASSUME NEW th \in Threads, NEW x, x # "lock", Goto(th, x), next' = next
      PROVE  next'[Master] <= Len(setting.master) /\ setting.master[next'[Master]].ev # <<>>
  <2>1. pc["master"] = "lock"
    BY <1>0, <1>3 DEF Goto, Threads
  <2>. QED BY <1>1, <1>3, <2>1
<1>4. ASSUME UNCHANGED <<pc, next>>
      PROVE  next'[Master] <= Len(setting.master) /\ setting.master[next'[Master]].ev # <<>>
  BY <1>1, <1>4
<1>5. CASE UNCHANGED vars
  BY <1>4, <1>5 DEF vars, appVars, camVars
<1>6. CASE Begin \/ Destroy \/ DestroyClose \/ StopMaster \/ JoinMaster
  BY <1>3, <1>6 DEF Begin, Destroy, StopSlaves, DestroyClose, StopMaster, JoinMaster, camVars,
     Threads
<1>7. CASE PopFront
  BY <1>4, <1>7 DEF PopFront, appVars, camVars
<1>8. CASE StartMaster
  BY <1>8 DEF StartMaster
<1>9. CASE StartSlave
  BY <1>3, <1>4, <1>9 DEF StartSlave, NextSlave, Threads
<1>10. ASSUME NEW k \in Slaves(setting), SlaveStep(k)
       PROVE  next'[Master] <= Len(setting.master) /\ setting.master[next'[Master]].ev # <<>>
  <2>1. UNCHANGED pc /\ (next' = next \/ next' = [next EXCEPT ![k] = @ + 1])
    BY <1>10 DEF SlaveStep, SlaveLoop, SlaveEvents, SlaveEnd, appVars, camVars
  <2>2. next'[Master] = next[Master]
    <3>1. k \in Cameras /\ k # Master
      BY <1>0
    <3>2. CASE next' = [next EXCEPT ![k] = @ + 1]
      BY <1>0, <3>1, <3>2
    <3>. QED BY <2>1, <3>2
  <2>. QED BY <1>1, <2>1, <2>2
<1>11. ASSUME NEW th \in Threads, Slice(th) \/ StopStep(th)
       PROVE  next'[Master] <= Len(setting.master) /\ setting.master[next'[Master]].ev # <<>>
  <2>1. /\ next' = next
        /\ \/ UNCHANGED pc
           \/ Goto(th, ret[th]) \/ NextSlave(th, "put") \/ NextOffline(th)
           \/ \E x \in SharedPc \cup {"flush", "done", "leave"} : Goto(th, x)
    BY <1>11 DEF Slice, GetSlicedEvents, FlushSlave, Put, StopStep, SlaveOffline, StopSlaveCamera,
       JoinSlave, Stopped, Flush, Close, StopSlaves, CloseSlice, SharedPc, camVars
  <2>2. ret[th] # "lock"
    BY <1>11 DEF SlicerInv, SlicerTypes
  <2>3. UNCHANGED pc \/ \E x : x # "lock" /\ Goto(th, x)
    BY <2>1, <2>2 DEF NextSlave, NextOffline, SharedPc
  <2>. QED BY <1>3, <1>4, <1>11, <2>1, <2>3
<1>12. CASE MasterLock \/ MasterUnlock \/ MasterEnd
  BY <1>3, <1>12 DEF MasterLock, MasterUnlock, MasterEnd, camVars, Threads
<1>13. CASE MasterProcess \/ MasterTime
  <2>1. pc["master"] \in {"cd", "time"}
    BY <1>13 DEF MasterProcess, MasterTime
  <2>2. \/ UNCHANGED pc
        \/ \E x \in {"put", "slice", "loop"} : Goto("master", x)
    BY <1>13 DEF MasterProcess, MasterTime, CloseSlice, appVars
  <2>. QED BY <1>0, <2>1, <2>2 DEF Goto
<1>. QED BY <1>2, <1>5, <1>6, <1>7, <1>8, <1>9, <1>10, <1>11, <1>12, <1>13
     DEF Next, MasterStep, AppStep, Threads

LEMMA TapesStep ==
    ASSUME SlicerInv, Tapes, [Next]_vars
    PROVE  Tapes'
BY SettingStays, SlaveTapes, StartsInOrder, MasterTapes DEF Tapes, Buffer

\* Whoever closes a slice gives it the values of one.
LEMMA ClosedSliceType ==
    ASSUME SlicerInv, SlicerTypesAndCount, NEW th \in Threads,
           NEW sl \in [started : BOOLEAN, ref : Int, last : Int, n : Nat],
           NEW status \in Statuses, NEW after, CloseSlice(th, sl, status, after)
    PROVE  \A o \in Threads : closing'[o] \in ClosingSlices
<1>. DEFINE t == IF status = "MET_N_US" THEN sl.ref + Cond.us ELSE sl.last
            new == [status |-> status, n |-> sl.n, t |-> t, offline |-> state[Master] = "OFFLINE"]
<1>1. /\ DOMAIN closing = Threads /\ Cond.us \in Nat
      /\ \A o \in Threads : closing[o] \in ClosingSlices
  BY SettingFacts DEF SlicerInv, SlicerTypes, SlicerTypesAndCount
<1>2. t \in Int /\ sl.n \in Nat /\ (state[Master] = "OFFLINE") \in BOOLEAN
  BY <1>1
<1>3. new \in ClosingSlices
  <2>. HIDE DEF t
  <2>. QED BY <1>2 DEF ClosingSlices
<1>4. closing' = [closing EXCEPT ![th] = new]
  BY DEF CloseSlice
<1>. HIDE DEF new
<1>. QED BY <1>1, <1>3, <1>4

\* The slice that is under way, one event or one period after the other.
LEMMA SliceMoves ==
    ASSUME [Next]_vars
    PROVE  \/ UNCHANGED <<slicer, closing, input, queue, current>>
           \/ MasterLock \/ MasterProcess \/ MasterTime
           \/ \E th \in Threads : Slice(th) \/ Flush(th)
           \/ \E k \in Slaves(setting) : SlaveEvents(k)
<1>1. CASE UNCHANGED vars
  BY <1>1 DEF vars, appVars, slaveVars, sliceVars
<1>2. CASE Begin \/ Destroy
  BY <1>2 DEF Begin, Destroy, slaveVars, sliceVars
<1>3. ASSUME NEW th \in Threads,
             SlaveOffline(th) \/ StopSlaveCamera(th) \/ JoinSlave(th) \/ Stopped(th) \/ Close(th)
      PROVE  UNCHANGED <<slicer, closing, input, queue, current>>
  BY <1>3 DEF SlaveOffline, StopSlaveCamera, JoinSlave, Stopped, Close, slaveVars, sliceVars
<1>4. CASE MasterLoop \/ MasterUnlock \/ MasterEnd
  BY <1>4 DEF MasterLoop, MasterUnlock, MasterEnd, slaveVars, sliceVars
<1>5. CASE StartSlave \/ StartMaster \/ PopFront \/ DestroyClose \/ StopMaster \/ JoinMaster
  BY <1>5 DEF StartSlave, StartMaster, PopFront, DestroyClose, StopMaster, JoinMaster, appVars,
     slaveVars, sliceVars
<1>6. ASSUME NEW k \in Slaves(setting), SlaveLoop(k) \/ SlaveEnd(k)
      PROVE  UNCHANGED <<slicer, closing, input, queue, current>>
  BY <1>6 DEF SlaveLoop, SlaveEnd, appVars, sliceVars
<1>. QED BY <1>1, <1>2, <1>3, <1>4, <1>5, <1>6
     DEF Next, MasterStep, AppStep, SlaveStep, StopStep, Threads

\* The buffer that the master takes.
LEMMA MasterBuffer ==
    ASSUME SlicerInv, Tapes, pc["master"] = "lock"
    PROVE  Buffer.ev \in Seq(Nat) /\ Head(Buffer.ev) \in Nat
<1>1. /\ setting.master \in Seq([ev : Seq(Nat), now : Nat]) /\ Master \in Cameras
      /\ next[Master] \in Nat \ {0} /\ next[Master] <= Len(setting.master)
      /\ Buffer.ev # <<>>
  BY SettingFacts DEF Tapes, SlicerInv, SlicerTypes
<1>2. next[Master] \in 1..Len(setting.master)
  BY <1>1, LenProperties
<1>3. Buffer \in [ev : Seq(Nat), now : Nat]
  BY <1>1, <1>2, ElementOfSeq DEF Buffer
<1>4. Buffer.ev \in Seq(Nat)
  BY <1>3
<1>. QED BY <1>1, <1>4, LastType

LEMMA InitializedType ==
    ASSUME setting \in Settings, NEW t \in Nat
    PROVE  /\ InitializeProcessing(t) \in [started : BOOLEAN, ref : Int, last : Int, n : Nat]
           /\ InitializeProcessing(t).n = 0
<1>1. Cond.us \in Nat \ {0}
  BY SettingFacts
<1>2. t \div Cond.us \in Int
  BY <1>1
<1>3. (IF IsTrackingDuration THEN Cond.us * (t \div Cond.us) ELSE t) \in Int
  <2>. DEFINE q == t \div Cond.us
  <2>1. q \in Int
    BY <1>2
  <2>. HIDE DEF q
  <2>2. Cond.us * q \in Int
    BY <1>1, <2>1
  <2>. QED BY <2>2 DEF q
<1>. QED BY <1>3 DEF InitializeProcessing

LEMMA SlicerMoves ==
    ASSUME NEW s \in [started : BOOLEAN, ref : Int, last : Int, n : Nat],
           NEW n \in Nat, NEW l \in Int
    PROVE  /\ [s EXCEPT !.n = n, !.last = l] \in [started : BOOLEAN, ref : Int, last : Int, n : Nat]
           /\ [s EXCEPT !.n = n, !.last = l].n = n
  OBVIOUS

LEMMA MasterProcessTypes ==
    ASSUME SlicerInv, SlicerTypesAndCount, EventTypes, MasterProcess
    PROVE  /\ input' \in Seq(Nat) /\ current' \in [Cameras -> Seq(Nat)] /\ queue' = queue
           /\ slicer' \in [started : BOOLEAN, ref : Int, last : Int, n : Nat]
           /\ IsTrackingCount => slicer'.n <= Cond.n
           /\ \A th \in Threads : closing'[th] \in ClosingSlices
<1>. DEFINE found == FindNextSlicingConditionMet(input)
            events == SubSeq(input, 1, found.len)
            lastTime == IF events = <<>> THEN slicer.last ELSE Last(events)
            sl == [slicer EXCEPT !.n = @ + found.len,
                                 !.last = IF events = <<>> THEN @ ELSE Last(events)]
<1>1. /\ input # <<>> /\ current' = [current EXCEPT ![Master] = @ \o events]
      /\ input' = SubSeq(input, found.len + 1, Len(input)) /\ slicer' = sl
      /\ UNCHANGED closing \/ CloseSlice("master", sl, found.status, "cd")
      /\ queue' = queue
  BY DEF MasterProcess, appVars, slaveVars
<1>2. /\ setting \in Settings /\ Master \in Cameras /\ Cond.n \in Nat
      /\ input \in Seq(Nat) /\ current \in [Cameras -> Seq(Nat)]
      /\ slicer \in [started : BOOLEAN, ref : Int, last : Int, n : Nat]
      /\ IsTrackingCount => slicer.n <= Cond.n
  BY SettingFacts DEF SlicerInv, SlicerTypes, SlicerTypesAndCount, EventTypes
<1>3. /\ found.len \in 0..Len(input) /\ found.status \in Statuses
      /\ IsTrackingCount => slicer.n + found.len <= Cond.n
  BY <1>1, <1>2, FindBounds
<1>. HIDE DEF found
<1>4. events \in Seq(Nat) /\ SubSeq(input, found.len + 1, Len(input)) \in Seq(Nat)
  BY <1>2, <1>3, CutTypes
<1>. HIDE DEF events
<1>5. current' \in [Cameras -> Seq(Nat)]
  <2>1. current[Master] \o events \in Seq(Nat)
    BY <1>2, <1>4, ConcatProperties
  <2>. QED BY <1>1, <1>2, <2>1
<1>6. lastTime \in Int
  <2>1. events # <<>> => Last(events) \in Nat
    BY <1>4, LastType
  <2>. QED BY <1>2, <2>1
<1>7. slicer.n + found.len \in Nat
  BY <1>2, <1>3, LenProperties
<1>8. sl = [slicer EXCEPT !.n = slicer.n + found.len, !.last = lastTime]
  OBVIOUS
<1>9. /\ sl \in [started : BOOLEAN, ref : Int, last : Int, n : Nat]
      /\ sl.n = slicer.n + found.len
  <2>. HIDE DEF sl, lastTime
  <2>. QED BY <1>2, <1>6, <1>7, <1>8, SlicerMoves
<1>. HIDE DEF sl
<1>10. \A th \in Threads : closing'[th] \in ClosingSlices
  BY <1>1, <1>3, <1>9, ClosedSliceType DEF SlicerTypesAndCount, Threads
<1>. QED BY <1>1, <1>3, <1>4, <1>5, <1>9, <1>10

\* What is taken of a slave.
LEMMA SliceTypes ==
    ASSUME SlicerInv, SlicerTypesAndCount, EventTypes, NEW th \in Threads, Slice(th)
    PROVE  /\ input' = input /\ closing' = closing
           /\ queue' \in [Cameras -> Seq(Nat)] /\ current' \in [Cameras -> Seq(Nat)]
           /\ slicer' \in [started : BOOLEAN, ref : Int, last : Int, n : Nat]
           /\ slicer'.n = slicer.n \/ slicer'.n = 0
<1>1. /\ queue \in [Cameras -> Seq(Nat)] /\ current \in [Cameras -> Seq(Nat)]
      /\ slicer \in [started : BOOLEAN, ref : Int, last : Int, n : Nat]
      /\ closing[th] \in ClosingSlices
  BY DEF EventTypes, SlicerTypesAndCount
<1>. DEFINE k == at[th]
<1>2. pc[th] = "slice" => k \in Cameras
  BY SlaveFacts DEF SlicerInv, SlicerTypes, LoopInv, Threads
<1>. HIDE DEF k
<1>3. CASE GetSlicedEvents(th)
  <2>. DEFINE n == Preceding(queue[k], closing[th].t)
  <2>1. /\ pc[th] = "slice" /\ UNCHANGED <<input, slicer, closing>>
        /\ queue' = [queue EXCEPT ![k] = SubSeq(queue[k], n + 1, Len(queue[k]))]
        /\ current' = [current EXCEPT ![k] = @ \o SubSeq(queue[k], 1, n)]
    BY <1>3 DEF GetSlicedEvents, k
  <2>2. n \in 0..Len(queue[k])
    BY <1>1, <1>2, <2>1, PrecedingBound
  <2>. HIDE DEF n
  <2>3. SubSeq(queue[k], 1, n) \in Seq(Nat) /\ SubSeq(queue[k], n + 1, Len(queue[k])) \in Seq(Nat)
    BY <1>1, <1>2, <2>1, <2>2, CutTypes
  <2>4. current[k] \o SubSeq(queue[k], 1, n) \in Seq(Nat)
    BY <1>1, <1>2, <2>1, <2>3, ConcatProperties
  <2>. QED BY <1>1, <1>2, <2>1, <2>3, <2>4
<1>4. CASE FlushSlave(th)
  <2>1. /\ pc[th] = "slice" /\ UNCHANGED <<input, slicer, closing>>
        /\ queue' = [queue EXCEPT ![k] = <<>>]
        /\ current' = [current EXCEPT ![k] = @ \o queue[k]]
    BY <1>4 DEF FlushSlave, k
  <2>2. <<>> \in Seq(Nat) /\ current[k] \o queue[k] \in Seq(Nat)
    BY <1>1, <1>2, <2>1, ConcatProperties, EmptySeq
  <2>. QED BY <1>1, <1>2, <2>1, <2>2
<1>5. CASE Put(th)
  <2>1. /\ UNCHANGED <<input, closing, queue>> /\ (current' = current \/ current' = NoEvents)
        /\ slicer' = [slicer EXCEPT !.ref = closing[th].t, !.last = closing[th].t, !.n = 0]
    BY <1>5 DEF Put, slaveVars
  <2>2. NoEvents \in [Cameras -> Seq(Nat)]
    BY EmptySeq DEF NoEvents
  <2>3. closing[th].t \in Int
    BY <1>1 DEF ClosingSlices
  <2>4. /\ slicer' \in [started : BOOLEAN, ref : Int, last : Int, n : Nat]
        /\ slicer'.n = 0
    BY <1>1, <2>1, <2>3
  <2>. QED BY <1>1, <2>1, <2>2, <2>4
<1>. QED BY <1>3, <1>4, <1>5 DEF Slice

\* The buffer that a slave keeps.
LEMMA SlaveBuffer ==
    ASSUME SlicerInv, Tapes, NEW k \in Slaves(setting), feed[k] \in {"events", "full"}
    PROVE  setting.slaves[k][next[k]] \in Seq(Nat)
<1>1. /\ setting.slaves[k] \in Seq(Seq(Nat)) /\ k \in Cameras
      /\ next[k] \in Nat \ {0} /\ next[k] <= Len(setting.slaves[k])
  BY SettingFacts, SlaveFacts DEF SlicerInv, SlicerTypes, Tapes
<1>2. next[k] \in 1..Len(setting.slaves[k])
  BY <1>1, LenProperties
<1>. QED BY <1>1, <1>2, ElementOfSeq

LEMMA EventsStep ==
    ASSUME SlicerInv, Tapes, SlicerTypesAndCount, EventTypes, [Next]_vars
    PROVE  SlicerTypesAndCount' /\ EventTypes'
<1>1. setting' = setting /\ setting \in Settings /\ Cond.n \in Nat
  BY SettingStays, SettingFacts DEF SlicerInv, SlicerTypes
<1>2. (IsTrackingCount' <=> IsTrackingCount) /\ Cond' = Cond
  BY <1>1 DEF IsTrackingCount, Cond
<1>3. CASE UNCHANGED <<slicer, closing, input, queue, current>>
  BY <1>2, <1>3 DEF SlicerTypesAndCount, EventTypes
<1>4. CASE MasterLock
  <2>1. /\ UNCHANGED <<closing, queue, current>> /\ pc["master"] = "lock" /\ input' = Buffer.ev
        /\ slicer' = slicer \/ slicer' = InitializeProcessing(Head(Buffer.ev))
    BY <1>4 DEF MasterLock, slaveVars
  <2>2. Buffer.ev \in Seq(Nat) /\ Head(Buffer.ev) \in Nat
    BY <2>1, MasterBuffer
  <2>3. /\ slicer' \in [started : BOOLEAN, ref : Int, last : Int, n : Nat]
        /\ IsTrackingCount => slicer'.n <= Cond.n
    <3>1. /\ InitializeProcessing(Head(Buffer.ev))
                \in [started : BOOLEAN, ref : Int, last : Int, n : Nat]
          /\ InitializeProcessing(Head(Buffer.ev)).n = 0
      BY <1>1, <2>2, InitializedType
    <3>2. CASE slicer' = slicer
      BY <3>2 DEF SlicerTypesAndCount
    <3>3. CASE slicer' = InitializeProcessing(Head(Buffer.ev))
      BY <1>1, <3>1, <3>3
    <3>. QED BY <2>1, <3>2, <3>3
  <2>. QED BY <1>2, <2>1, <2>2, <2>3 DEF SlicerTypesAndCount, EventTypes
<1>5. CASE MasterProcess
  BY <1>2, <1>5, MasterProcessTypes DEF SlicerTypesAndCount, EventTypes
<1>6. CASE MasterTime
  <2>. DEFINE sl == IF slicer.started THEN slicer ELSE InitializeProcessing(0)
  <2>1. /\ UNCHANGED <<queue, current, input>> /\ (slicer' = slicer \/ slicer' = sl)
        /\ UNCHANGED closing \/ CloseSlice("master", sl, "MET_N_US", "time")
    BY <1>6 DEF MasterTime, slaveVars
  <2>2. /\ sl \in [started : BOOLEAN, ref : Int, last : Int, n : Nat]
        /\ IsTrackingCount => sl.n <= Cond.n
    BY <1>1, InitializedType DEF SlicerTypesAndCount
  <2>. HIDE DEF sl
  <2>3. \A th \in Threads : closing'[th] \in ClosingSlices
    BY <2>1, <2>2, ClosedSliceType DEF SlicerTypesAndCount, Threads, Statuses
  <2>. QED BY <1>2, <2>1, <2>2, <2>3 DEF SlicerTypesAndCount, EventTypes
<1>7. ASSUME NEW th \in Threads, Slice(th)
      PROVE  SlicerTypesAndCount' /\ EventTypes'
  <2>1. /\ input' = input /\ closing' = closing
        /\ queue' \in [Cameras -> Seq(Nat)] /\ current' \in [Cameras -> Seq(Nat)]
        /\ slicer' \in [started : BOOLEAN, ref : Int, last : Int, n : Nat]
        /\ slicer'.n = slicer.n \/ slicer'.n = 0
    BY <1>7, SliceTypes
  <2>2. IsTrackingCount => slicer'.n <= Cond.n
    BY <1>1, <2>1 DEF SlicerTypesAndCount
  <2>. QED BY <1>2, <2>1, <2>2 DEF SlicerTypesAndCount, EventTypes
<1>8. ASSUME NEW th \in Threads, Flush(th)
      PROVE  SlicerTypesAndCount' /\ EventTypes'
  <2>1. /\ UNCHANGED <<slicer, input, queue, current>>
        /\ UNCHANGED closing \/ CloseSlice(th, slicer, "MET_AUTOMATIC", "close")
    BY <1>8 DEF Flush, slaveVars, sliceVars
  <2>2. \A o \in Threads : closing'[o] \in ClosingSlices
    BY <2>1, ClosedSliceType DEF SlicerTypesAndCount, Statuses
  <2>. QED BY <1>2, <2>1, <2>2 DEF SlicerTypesAndCount, EventTypes
<1>9. ASSUME NEW k \in Slaves(setting), SlaveEvents(k)
      PROVE  SlicerTypesAndCount' /\ EventTypes'
  <2>1. /\ UNCHANGED <<slicer, closing, input, current>> /\ feed[k] \in {"events", "full"}
        /\ queue' = queue \/ queue' = [queue EXCEPT ![k] = @ \o setting.slaves[k][next[k]]]
    BY <1>9 DEF SlaveEvents, appVars, sliceVars
  <2>2. k \in Cameras /\ queue[k] \o setting.slaves[k][next[k]] \in Seq(Nat)
    BY <1>1, <2>1, SlaveFacts, SlaveBuffer, ConcatProperties DEF EventTypes
  <2>3. queue' \in [Cameras -> Seq(Nat)]
    BY <2>1, <2>2 DEF EventTypes
  <2>. QED BY <1>2, <2>1, <2>3 DEF SlicerTypesAndCount, EventTypes
<1>. QED BY <1>3, <1>4, <1>5, <1>6, <1>7, <1>8, <1>9, SliceMoves

\* The queue of slices: a slice is added to a full queue by nobody.
LEMMA OutStep ==
    ASSUME SlicerInv, SlicerTypesAndCount, EventTypes, OutTypes, [Next]_vars
    PROVE  OutTypes'
<1>1. /\ setting' = setting /\ setting \in Settings /\ QueuedSlices' = QueuedSlices
      /\ out \in Seq(QueuedSlices) /\ setting.room \in Nat
      /\ setting.room > 0 => Len(out) <= setting.room
  BY SettingStays, SettingFacts DEF SlicerInv, SlicerTypes, QueuedSlices, OutTypes
<1>2. CASE UNCHANGED out
  BY <1>1, <1>2 DEF OutTypes
<1>3. CASE PopFront
  <2>1. CASE out # <<>> /\ out' = Tail(out)
    <3>1. Tail(out) \in Seq(QueuedSlices) /\ Len(Tail(out)) = Len(out) - 1 /\ Len(out) \in Nat
      BY <1>1, <2>1, HeadTailProperties, LenProperties
    <3>. QED BY <1>1, <2>1, <3>1 DEF OutTypes
  <2>. QED BY <1>2, <1>3, <2>1 DEF PopFront
<1>4. ASSUME NEW th \in Threads, Put(th) PROVE OutTypes'
  <2>. DEFINE new == [status |-> closing[th].status, t |-> closing[th].t, n |-> closing[th].n,
                      master |-> current[Master],
                      slaves |-> [k \in Slaves(setting) |-> current[k]]]
  <2>1. /\ enabled => (setting.room = 0 \/ Len(out) < setting.room)
        /\ out' = IF enabled THEN Append(out, new) ELSE out
    BY <1>4 DEF Put, Emplace
  <2>2. new \in QueuedSlices
    <3>1. closing[th] \in ClosingSlices /\ current[Master] \in Seq(Nat)
      BY <1>1, SettingFacts DEF SlicerTypesAndCount, EventTypes
    <3>2. [k \in Slaves(setting) |-> current[k]] \in [Slaves(setting) -> Seq(Nat)]
      BY <1>1, SlaveFacts DEF EventTypes
    <3>. QED BY <3>1, <3>2 DEF ClosingSlices, QueuedSlices
  <2>. HIDE DEF new
  <2>3. CASE enabled
    <3>1. Append(out, new) \in Seq(QueuedSlices) /\ Len(Append(out, new)) = Len(out) + 1
      BY <1>1, <2>2, AppendProperties
    <3>2. Len(out) \in Nat
      BY <1>1, LenProperties
    <3>. QED BY <1>1, <2>1, <2>3, <3>1, <3>2 DEF OutTypes
  <2>4. CASE ~enabled
    BY <1>2, <2>1, <2>4
  <2>. QED BY <2>3, <2>4
<1>5. UNCHANGED out \/ PopFront \/ \E th \in Threads : Put(th)
  <2>1. CASE UNCHANGED vars
    BY <2>1 DEF vars, outVars
  <2>2. CASE Begin \/ Destroy
    BY <2>2 DEF Begin, Destroy, outVars
  <2>3. ASSUME NEW k \in Slaves(setting), SlaveStep(k) PROVE UNCHANGED out
    BY <2>3 DEF SlaveStep, SlaveLoop, SlaveEvents, SlaveEnd, outVars
  <2>4. ASSUME NEW th \in Threads, GetSlicedEvents(th) \/ FlushSlave(th) \/ StopStep(th)
        PROVE  UNCHANGED out
    BY <2>4 DEF GetSlicedEvents, FlushSlave, StopStep, SlaveOffline, StopSlaveCamera, JoinSlave,
       Stopped, Flush, Close, outVars
  <2>5. CASE MasterLoop \/ MasterLock \/ MasterProcess \/ MasterUnlock \/ MasterTime \/ MasterEnd
    BY <2>5 DEF MasterLoop, MasterLock, MasterProcess, MasterUnlock, MasterTime, MasterEnd, outVars
  <2>6. CASE StartSlave \/ StartMaster \/ DestroyClose \/ StopMaster \/ JoinMaster
    BY <2>6 DEF StartSlave, StartMaster, DestroyClose, StopMaster, JoinMaster, outVars
  <2>. QED BY <2>1, <2>2, <2>3, <2>4, <2>5, <2>6 DEF Next, MasterStep, AppStep, Slice, Threads
<1>. QED BY <1>2, <1>3, <1>4, <1>5

\* A slave's events are taken from its queue by whoever slices, and added by its
\* own thread, which waits while they are too many.
LEMMA QueueMoves ==
    ASSUME SlicerInv, [Next]_vars
    PROVE  \/ UNCHANGED <<queue, next, state>>
           \/ UNCHANGED <<queue, state>> /\ next' = [next EXCEPT ![Master] = @ + 1]
           \/ UNCHANGED <<queue, next>>
                 /\ \E k \in Cameras : state' = [state EXCEPT ![k] = "OFFLINE"]
           \/ StartSlave \/ StartMaster
           \/ \E th \in Threads : GetSlicedEvents(th) \/ FlushSlave(th)
           \/ \E k \in Slaves(setting) : SlaveEvents(k)
<1>1. CASE UNCHANGED vars
  BY <1>1 DEF vars, camVars, slaveVars
<1>2. CASE Begin \/ Destroy
  BY <1>2 DEF Begin, Destroy, camVars, slaveVars
<1>3. ASSUME NEW k \in Slaves(setting), SlaveLoop(k) \/ SlaveEnd(k)
      PROVE  /\ UNCHANGED <<queue, next>> /\ k \in Cameras
             /\ UNCHANGED state \/ state' = [state EXCEPT ![k] = "OFFLINE"]
  BY <1>3, SlaveFacts DEF SlaveLoop, SlaveEnd, camVars, SlicerInv, SlicerTypes
<1>4. ASSUME NEW th \in Threads,
             Put(th) \/ StopSlaveCamera(th) \/ JoinSlave(th) \/ Flush(th) \/ Close(th)
      PROVE  UNCHANGED <<queue, next, state>>
  BY <1>4 DEF Put, StopSlaveCamera, JoinSlave, Flush, Close, camVars, slaveVars
<1>5. ASSUME NEW th \in Threads, SlaveOffline(th) \/ Stopped(th)
      PROVE  UNCHANGED <<queue, next>> /\ \E k \in Cameras : state' = [state EXCEPT ![k] = "OFFLINE"]
  <2>1. CASE SlaveOffline(th)
    <3>1. UNCHANGED <<queue, next>> /\ state' = [state EXCEPT ![at[th]] = "OFFLINE"]
          /\ pc[th] = "offline"
      BY <2>1 DEF SlaveOffline, camVars
    <3>2. at[th] \in Cameras
      BY <3>1, SlaveFacts DEF SlicerInv, SlicerTypes, LoopInv, Looping, Threads
    <3>. QED BY <3>1, <3>2
  <2>2. CASE Stopped(th)
    BY <2>2, SettingFacts DEF Stopped, camVars, slaveVars, SlicerInv, SlicerTypes
  <2>. QED BY <1>5, <2>1, <2>2
<1>6. CASE MasterLoop \/ MasterLock \/ MasterProcess \/ MasterUnlock \/ MasterEnd
  BY <1>6 DEF MasterLoop, MasterLock, MasterProcess, MasterUnlock, MasterEnd, camVars, slaveVars
<1>7. CASE MasterTime
  BY <1>7 DEF MasterTime, slaveVars
<1>8. CASE PopFront \/ DestroyClose \/ StopMaster \/ JoinMaster
  BY <1>8 DEF PopFront, DestroyClose, StopMaster, JoinMaster, camVars, slaveVars
<1>. QED BY <1>1, <1>2, <1>3, <1>4, <1>5, <1>6, <1>7, <1>8
     DEF Next, MasterStep, AppStep, SlaveStep, Slice, StopStep, Threads

LEMMA QueueBoundStep ==
    ASSUME SlicerInv, Tapes, EventTypes, QueueBound, [Next]_vars
    PROVE  QueueBound'
<1>1. /\ setting' = setting /\ setting \in Settings /\ Cond.n \in Nat \ {0} /\ Cond' = Cond
      /\ IsTrackingCount' <=> IsTrackingCount
      /\ \A k \in Slaves(setting) : k \in Cameras /\ k # Master
      /\ Master \in Cameras
  BY SettingStays, SettingFacts, SlaveFacts DEF SlicerInv, SlicerTypes, Cond, IsTrackingCount
<1>2. /\ queue \in [Cameras -> Seq(Nat)] /\ next \in [Cameras -> Nat \ {0}]
      /\ state \in [Cameras -> {"OFFLINE", "STARTED"}] /\ feed \in [Cameras -> FeedPc]
  BY DEF EventTypes, Tapes, SlicerInv, SlicerTypes
<1>3. SUFFICES ASSUME NEW j \in Slaves(setting), IsTrackingCount,
                      state'[j] = "STARTED", next'[j] > 1
               PROVE  Len(queue'[j]) < 2 * Cond.n + Len(setting.slaves[j][next'[j] - 1])
  BY <1>1 DEF QueueBound
<1>4. ASSUME queue'[j] = queue[j], next'[j] = next[j], state[j] = "STARTED"
      PROVE  Len(queue'[j]) < 2 * Cond.n + Len(setting.slaves[j][next'[j] - 1])
  BY <1>3, <1>4 DEF QueueBound
<1>5. CASE UNCHANGED <<queue, next, state>>
  BY <1>3, <1>4, <1>5
<1>6. CASE UNCHANGED <<queue, state>> /\ next' = [next EXCEPT ![Master] = @ + 1]
  <2>1. next'[j] = next[j]
    BY <1>1, <1>2, <1>6
  <2>. QED BY <1>3, <1>4, <1>6, <2>1
<1>7. ASSUME UNCHANGED <<queue, next>>,
             NEW k \in Cameras, state' = [state EXCEPT ![k] = "OFFLINE"]
      PROVE  Len(queue'[j]) < 2 * Cond.n + Len(setting.slaves[j][next'[j] - 1])
  <2>1. state[j] = "STARTED"
    BY <1>1, <1>2, <1>3, <1>7
  <2>. QED BY <1>4, <1>7, <2>1
<1>8. CASE StartSlave
  <2>. DEFINE k == at["app"]
  <2>1. /\ UNCHANGED <<queue, next>> /\ pc["app"] = "start.slaves"
        /\ state' = [state EXCEPT ![k] = "STARTED"]
    BY <1>8 DEF StartSlave, StartCamera
  <2>2. k \in Slaves(setting) /\ k \in Nat
    BY <2>1, <1>1, SlaveFacts DEF SlicerInv, LoopInv
  <2>3. next[k] = 1
    BY <2>1, <2>2 DEF Tapes
  <2>. HIDE DEF k
  <2>4. j # k
    BY <1>3, <2>1, <2>3
  <2>5. state[j] = "STARTED"
    BY <1>1, <1>2, <1>3, <2>1, <2>4
  <2>. QED BY <1>4, <2>1, <2>5
<1>9. CASE StartMaster
  <2>1. UNCHANGED <<queue, next>> /\ state' = [state EXCEPT ![Master] = "STARTED"]
    BY <1>9 DEF StartMaster, StartCamera, slaveVars
  <2>2. state[j] = "STARTED"
    BY <1>1, <1>2, <1>3, <2>1
  <2>. QED BY <1>4, <2>1, <2>2
<1>10. /\ Len(queue[j]) \in Nat
       /\ next[j] > 1 => Len(setting.slaves[j][next[j] - 1]) \in Nat
  <2>1. /\ next[j] \in Nat /\ next[j] <= Len(setting.slaves[j]) + 1 /\ j \in Cameras
        /\ setting.slaves[j] \in Seq(Seq(Nat))
    BY <1>1, <1>2, SettingFacts DEF Tapes
  <2>2. next[j] > 1 => next[j] - 1 \in 1..Len(setting.slaves[j])
    BY <2>1, LenProperties
  <2>3. next[j] > 1 => setting.slaves[j][next[j] - 1] \in Seq(Nat)
    BY <2>1, <2>2, ElementOfSeq
  <2>. QED BY <1>2, <2>1, <2>3, LenProperties
<1>11. ASSUME NEW th \in Threads, GetSlicedEvents(th)
       PROVE  Len(queue'[j]) < 2 * Cond.n + Len(setting.slaves[j][next'[j] - 1])
  <2>. DEFINE k == at[th]
              n == Preceding(queue[k], closing[th].t)
  <2>1. /\ UNCHANGED <<next, state>> /\ pc[th] = "slice"
        /\ queue' = [queue EXCEPT ![k] = SubSeq(queue[k], n + 1, Len(queue[k]))]
    BY <1>11 DEF GetSlicedEvents, camVars
  <2>2. k \in Slaves(setting) /\ k \in Cameras
    BY <1>1, <2>1 DEF SlicerInv, LoopInv, Threads
  <2>. HIDE DEF k
  <2>3. n \in 0..Len(queue[k]) /\ Len(queue[k]) \in Nat
    BY <1>2, <2>2, PrecedingBound, LenProperties
  <2>. HIDE DEF n
  <2>4. Len(SubSeq(queue[k], n + 1, Len(queue[k]))) = Len(queue[k]) - n
    BY <1>2, <2>2, <2>3, CutTypes
  <2>5. CASE j # k
    BY <1>1, <1>2, <1>3, <1>4, <2>1, <2>5
  <2>6. CASE j = k
    <3>. DEFINE bound == 2 * Cond.n + Len(setting.slaves[j][next[j] - 1])
    <3>1. Len(queue[j]) < bound
      BY <1>3, <2>1 DEF QueueBound
    <3>2. Len(queue'[j]) \in Nat /\ Len(queue'[j]) <= Len(queue[j])
      BY <1>2, <2>1, <2>2, <2>3, <2>4, <2>6
    <3>3. bound \in Nat
      BY <1>1, <1>3, <1>10, <2>1
    <3>4. Len(queue'[j]) < bound
      <4>. HIDE DEF bound
      <4>. QED BY <1>10, <3>1, <3>2, <3>3
    <3>. QED BY <2>1, <3>4
  <2>. QED BY <2>5, <2>6
<1>12. ASSUME NEW th \in Threads, FlushSlave(th)
       PROVE  Len(queue'[j]) < 2 * Cond.n + Len(setting.slaves[j][next'[j] - 1])
  <2>. DEFINE k == at[th]
  <2>1. /\ UNCHANGED <<next, state>> /\ queue' = [queue EXCEPT ![k] = <<>>]
        /\ pc[th] = "slice" /\ closing[th].offline
    BY <1>12 DEF FlushSlave, camVars
  <2>2. state[k] = "OFFLINE"
    BY <2>1, GoneWhenFlushed DEF FlushAfterStop, Threads
  <2>. HIDE DEF k
  <2>3. j # k
    BY <1>3, <2>1, <2>2
  <2>. QED BY <1>1, <1>2, <1>3, <1>4, <2>1, <2>3
<1>13. ASSUME NEW k \in Slaves(setting), SlaveEvents(k)
       PROVE  Len(queue'[j]) < 2 * Cond.n + Len(setting.slaves[j][next'[j] - 1])
  <2>. DEFINE more == setting.slaves[k][next[k]]
  <2>1. /\ state' = state /\ feed[k] \in {"events", "full"}
        /\ \/ queue' = queue /\ next' = next
           \/ queue' = queue /\ next' = [next EXCEPT ![k] = @ + 1] /\ state[k] = "OFFLINE"
           \/ /\ ~SlaveIsTooFast(k)
              /\ queue' = [queue EXCEPT ![k] = @ \o more]
              /\ next' = [next EXCEPT ![k] = @ + 1]
    BY <1>13 DEF SlaveEvents
  <2>2. k \in Cameras /\ more \in Seq(Nat) /\ next[k] \in Nat
    BY <1>1, <1>2, <2>1, SlaveBuffer
  <2>3. CASE j # k
    <3>1. queue'[j] = queue[j] /\ next'[j] = next[j]
      BY <1>1, <1>2, <2>1, <2>2, <2>3
    <3>. QED BY <1>3, <1>4, <2>1, <3>1
  <2>4. CASE queue' = queue /\ next' = next
    BY <1>3, <1>4, <2>1, <2>4
  <2>5. CASE j = k /\ ~SlaveIsTooFast(k) /\ queue' = [queue EXCEPT ![k] = @ \o more]
             /\ next' = [next EXCEPT ![k] = @ + 1]
    <3>1. queue'[j] = queue[k] \o more /\ next'[j] - 1 = next[k]
      <4>. HIDE DEF more
      <4>1. queue'[k] = queue[k] \o more
        BY <1>2, <2>2, <2>5
      <4>2. next'[k] = next[k] + 1
        BY <1>2, <2>2, <2>5
      <4>. QED BY <2>2, <2>5, <4>1, <4>2
    <3>2. Len(queue'[j]) = Len(queue[k]) + Len(more) /\ Len(more) \in Nat
      BY <1>2, <2>2, <3>1, ConcatProperties, LenProperties
    <3>3. queue[k] = <<>> \/ ~(Len(queue[k]) >= 2 * Cond.n)
      <4>1. state[k] = "STARTED" /\ IsTrackingCount
        BY <1>3, <2>1, <2>5
      <4>2. /\ state[k] = "STARTED" /\ queue[k] # <<>>
            /\ IsTrackingCount /\ Len(queue[k]) >= 2 * Cond.n
            => SlaveIsTooFast(k)
        BY DEF SlaveIsTooFast
      <4>. QED BY <2>5, <4>1, <4>2, ZenonT(30)
    <3>4. Len(queue[k]) < 2 * Cond.n
      BY <1>1, <1>10, <2>5, <3>3, EmptySeq
    <3>5. Len(setting.slaves[j][next'[j] - 1]) = Len(more)
      BY <2>5, <3>1
    <3>. HIDE DEF more
    <3>. QED BY <1>1, <1>10, <2>5, <3>2, <3>4, <3>5
  <2>. QED BY <1>3, <2>1, <2>3, <2>4, <2>5
<1>. QED BY <1>5, <1>6, <1>7, <1>8, <1>9, <1>11, <1>12, <1>13, QueueMoves

LEMMA ValuesStep == SlicerInv /\ SlicerValues /\ [Next]_vars => SlicerValues'
BY AtSlavesStep, FlagTypesStep, TapesStep, EventsStep, OutStep, QueueBoundStep DEF SlicerValues

\* The values of the variables, for any number of slaves, any setting and any
\* tapes: the queue of slices never exceeds its bound, and a slave's buffer
\* exceeds the two slices after which its thread must wait (slave_is_too_fast)
\* by less than the last callback brought.
THEOREM SlicerTypeOK == Spec => []TypeOK
<1>1. SlicerInv /\ SlicerValues => TypeOK
  <2>. SUFFICES ASSUME SlicerInv, SlicerValues PROVE TypeOK
    OBVIOUS
  <2>1. at \in [{"app", "master"} -> 1..MaxSlaves + 1]
    BY DEF SlicerInv, SlicerTypes, SlicerValues, AtSlaves, Threads
  <2>2. /\ setting \in Settings
        /\ pc.app \in AppPc \cup SharedPc /\ pc.master \in MasterPc \cup SharedPc
        /\ feed \in [Cameras -> {"none", "loop", "events", "full", "end", "done"}]
        /\ state \in [Cameras -> {"OFFLINE", "STARTED"}]
    BY DEF SlicerInv, SlicerTypes, AppInv, MasterInv, FeedPc
  <2>3. /\ \A k \in Cameras : next[k] \in Nat /\ camLock[k] \in {None, "app", "master"}
        /\ {running, joinable, slaveAsleep, masterAsleep} \subseteq [Cameras -> BOOLEAN]
        /\ mtx \in {None, "app", "master"} /\ enabled \in BOOLEAN /\ ended \in BOOLEAN
    BY DEF SlicerInv, SlicerTypes, SlicerValues, FlagTypes, Tapes
  <2>4. /\ {queue, current} \subseteq [Cameras -> Seq(Nat)] /\ input \in Seq(Nat)
        /\ setting.room > 0 => Len(out) <= setting.room
    BY DEF SlicerValues, EventTypes, OutTypes
  <2>. QED BY <2>1, <2>2, <2>3, <2>4 DEF TypeOK, SlicerValues, QueueBound
<1>. QED BY <1>1, SlicerInit, SlicerStep, ValuesInit, ValuesStep, PTL DEF Spec
=============================================================================

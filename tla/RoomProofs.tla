----------------------------- MODULE RoomProofs -----------------------------
(***************************************************************************)
(* What holds of the room of Room.tla for every number of clients, task    *)
(* slots and instances.  There are two inductive invariants.               *)
(*                                                                         *)
(* RoomInv, for the types and for who streams: first the lemmas on slots,  *)
(* then one lemma per action, then the theorems.                           *)
(*                                                                         *)
(* SafeInv adds                                                            *)
(*   - Launchers: an installed loop has exactly one task to launch it;     *)
(*   - InstInv: who holds an instance that is open, and that the retained  *)
(*     probe and a promoted listener are held by one task at a time;       *)
(*   - PeopleInv: reservations are counted, a start that is about to be    *)
(*     launched has its client, a closed room has nothing left;            *)
(*   - SessionInv: "starting" has an owner, a promoted probe's monitor is  *)
(*     gone, the retained probe is only asked by the current generation.   *)
(* First come the effects of the actions on the task slots, then one part  *)
(* per conjunct, then the theorems; the room's other properties follow.    *)
(***************************************************************************)
EXTENDS Room, TLAPS, FiniteSetTheorems

-----------------------------------------------------------------------------
(* Slots and task states.                                                  *)

\* The program counters of each kind of task.
LEMMA KindPc ==
  /\ \A t \in Task : {"free", "detach", "dispose", "end"} \subseteq Pc(t)
  /\ \A t \in InitTask \cup MonitorTask : StartPc \cup {"result"} \subseteq Pc(t)
  /\ \A t \in InitTask : {"count", "monitor"} \subseteq Pc(t)
  /\ \A t \in MonitorTask : {"installed", "select", "fail", "finish"} \subseteq Pc(t)
  /\ \A t \in RunTask : {"begin", "await", "mark", "stream", "drain", "ended",
                         "monitor"} \subseteq Pc(t)
  /\ \A t \in StartTask : {"begin", "dial", "stream"} \subseteq Pc(t)
  /\ \A t \in SlowTask : {"spawn"} \subseteq Pc(t)
BY TaskAssumption DEF Pc, Task

\* A slot chosen for a new goroutine is free.
LEMMA SlotIsFree ==
  ASSUME NEW K, FreeSlots(K) # {}
  PROVE  Slot(K) \in K /\ task[Slot(K)].pc = "free"
BY DEF Slot, FreeSlots

\* What is written into a slot must be a task state of that slot's kind.
LEMMA TaskUpdate ==
  ASSUME TaskOK, NEW t \in Task, NEW v \in TaskState, v.pc \in Pc(t),
         task' = [task EXCEPT ![t] = v]
  PROVE  TaskOK'
BY DEF TaskOK

\* The same for a step that writes two slots.
LEMMA TaskUpdateTwo ==
  ASSUME TaskOK, NEW t \in Task, NEW v \in TaskState, v.pc \in Pc(t),
         NEW u \in Task, NEW w \in TaskState, w.pc \in Pc(u),
         task' = [task EXCEPT ![t] = v, ![u] = w]
  PROVE  TaskOK'
BY DEF TaskOK

\* The task states the actions write.
LEMMA NewTaskType ==
  ASSUME NEW pc \in AllPc, NEW g \in Nat, NEW d \in Inst \cup {None}
  PROVE  /\ NewTask(pc, g, d) \in TaskState
         /\ NewTask(pc, g, d).pc = pc
BY DEF NewTask, TaskState, Outcome

\* A task that only moves on keeps its state otherwise.
LEMMA StepType ==
  ASSUME TaskOK, NEW t \in Task, NEW pc \in AllPc
  PROVE  /\ Step(t, pc) \in TaskState
         /\ Step(t, pc).pc = pc
BY DEF Step, TaskOK, TaskState

\* The state of a starter that has its result.
LEMMA FinishedType ==
  ASSUME TaskOK, NEW t \in Task, NEW out \in Outcome
  PROVE  /\ Finished(t, out) \in TaskState
         /\ Finished(t, out).pc = "result"
BY ZenonT(60) DEF Finished, Step, TaskOK, TaskState, AllPc

\* The state of a task whose work is done.
LEMMA EndedType == Ended \in TaskState /\ Ended.pc = "end"
BY NewTaskType DEF Ended, AllPc

\* The state of a free slot.
LEMMA FreeTaskType == FreeTask \in TaskState /\ FreeTask.pc = "free"
BY NewTaskType DEF FreeTask, AllPc

\* Moving on to a pc of the slot's kind preserves the types.
LEMMA GotoType ==
  ASSUME TaskOK, NEW t \in Task, NEW pc \in AllPc, pc \in Pc(t), Goto(t, pc)
  PROVE  TaskOK'
BY StepType, TaskUpdate DEF Goto

\* Ending a task preserves the types.
LEMMA EndType ==
  ASSUME TaskOK, NEW t \in Task, End(t)
  PROVE  TaskOK'
BY KindPc, EndedType, TaskUpdate DEF End

\* Handing a task over to the cleanup preserves the types.
LEMMA ToDetachType ==
  ASSUME TaskOK, NEW t \in Task, ToDetach(t)
  PROVE  TaskOK'
<1>. DEFINE v == NewTask("detach", 0, None)
<1>1. v \in TaskState /\ v.pc = "detach"
  BY NewTaskType DEF AllPc
<1>2. task' = [task EXCEPT ![t] = v]
  BY DEF ToDetach
<1>. HIDE DEF v
<1>. QED
  BY <1>1, <1>2, KindPc, TaskUpdate

-----------------------------------------------------------------------------
(* Connections.                                                            *)

\* Reserve preserves the types.
LEMMA ReserveType ==
  ASSUME TypeOK, NEW c \in Client, Reserve(c)
  PROVE  TypeOK'
BY DEF Reserve, TypeOK, TaskOK, Conn, session, listeners,
       downstream, closing

\* ReleaseReservation preserves the types.
LEMMA ReleaseReservationType ==
  ASSUME TypeOK, NEW c \in Client, ReleaseReservation(c)
  PROVE  TypeOK'
BY DEF ReleaseReservation, TypeOK, TaskOK, Conn, session, listeners,
       downstream, closing

\* ReleaseCheck preserves the types.
LEMMA ReleaseCheckType ==
  ASSUME TypeOK, NEW c \in Client, ReleaseCheck(c)
  PROVE  TypeOK'
BY DEF ReleaseCheck, TypeOK, TaskOK, Conn, session, listeners,
       downstream, closing, RemoveIfIdle

\* AddClient preserves the types.
LEMMA AddClientType ==
  ASSUME TypeOK, NEW c \in Client, AddClient(c)
  PROVE  TypeOK'
BY DEF AddClient, TypeOK, TaskOK, Conn, session, listeners,
       downstream, closing

\* StartInit preserves the types.
LEMMA StartInitType ==
  ASSUME TypeOK, NEW c \in Client, StartInit(c)
  PROVE  TypeOK'
<1>1. TaskOK'
  <2>1. CASE closed
    BY <2>1 DEF StartInit, TypeOK, TaskOK
  <2>2. CASE ~closed
    <3>. DEFINE v == NewTask("acquire", since[c], None)
                t == Slot(InitTask)
    <3>1. t \in Task /\ t \in InitTask
      BY <2>2, SlotIsFree DEF StartInit, Task
    <3>2. since[c] \in Nat
      BY DEF TypeOK
    <3>3. v \in TaskState /\ v.pc = "acquire"
      BY <3>2, NewTaskType DEF AllPc, StartPc
    <3>4. v.pc \in Pc(t)
      BY <3>1, <3>3, KindPc DEF StartPc
    <3>5. task' = [task EXCEPT ![t] = v]
      BY <2>2 DEF StartInit
    <3>. HIDE DEF v, t
    <3>. QED
      BY <3>1, <3>3, <3>4, <3>5, TaskUpdate DEF TypeOK
  <2>. QED
    BY <2>1, <2>2 DEF TypeOK
<1>. QED
  BY <1>1 DEF StartInit, TypeOK, Conn, session, listeners, closing

\* Drop preserves the types.
LEMMA DropType ==
  ASSUME TypeOK, NEW c \in Client, Drop(c)
  PROVE  TypeOK'
BY DEF Drop, TypeOK, TaskOK, Conn, session, listeners,
       downstream, closing

\* CountAfterDrop preserves the types.
LEMMA CountAfterDropType ==
  ASSUME TypeOK, NEW c \in Client, CountAfterDrop(c)
  PROVE  TypeOK'
BY DEF CountAfterDrop, TypeOK, TaskOK, Conn, session, listeners,
       downstream, closing

\* SpawnCleanup preserves the types.
LEMMA SpawnCleanupType ==
  ASSUME TypeOK, NEW c \in Client, SpawnCleanup(c)
  PROVE  TypeOK'
<1>1. TaskOK'
  <2>1. CASE closed
    BY <2>1 DEF SpawnCleanup, TypeOK, TaskOK
  <2>2. CASE ~closed
    <3>. DEFINE v == NewTask("detach", 0, None)
                t == Slot(CleanupTask)
    <3>1. t \in Task
      BY <2>2, SlotIsFree DEF SpawnCleanup, Task
    <3>2. v \in TaskState /\ v.pc = "detach"
      BY NewTaskType DEF AllPc
    <3>3. v.pc \in Pc(t)
      BY <3>1, <3>2, KindPc
    <3>4. task' = [task EXCEPT ![t] = v]
      BY <2>2 DEF SpawnCleanup
    <3>. HIDE DEF v, t
    <3>. QED
      BY <3>1, <3>2, <3>3, <3>4, TaskUpdate DEF TypeOK
  <2>. QED
    BY <2>1, <2>2 DEF TypeOK
<1>. QED
  BY <1>1 DEF SpawnCleanup, TypeOK, Conn, session, listeners, closing

\* RemoveSlow preserves the types.
LEMMA RemoveSlowType ==
  ASSUME TypeOK, NEW S \in SUBSET Slow, RemoveSlow(S)
  PROVE  TypeOK'
<1>1. TaskOK'
  <2>. DEFINE w == NewTask("spawn", 0, None)
              v == [w EXCEPT !.out = IF clients' = {} THEN "last" ELSE "more"]
              t == Slot(SlowTask)
  <2>1. t \in Task /\ t \in SlowTask
    BY SlotIsFree DEF RemoveSlow, Task
  <2>2. v \in TaskState /\ v.pc = "spawn"
    BY NewTaskType DEF TaskState, Outcome, AllPc
  <2>3. v.pc \in Pc(t)
    BY <2>1, <2>2, KindPc
  <2>4. task' = [task EXCEPT ![t] = v]
    BY DEF RemoveSlow
  <2>. HIDE DEF v, t
  <2>. QED
    BY <2>1, <2>2, <2>3, <2>4, TaskUpdate DEF TypeOK
<1>. QED
  BY <1>1 DEF RemoveSlow, TypeOK, Conn, session, listeners, closing

-----------------------------------------------------------------------------
(* Cleanup and startLiveSession.                                           *)

\* The task state a starter is left in.
LEMMA StarterUpdate ==
  ASSUME TaskOK, NEW t \in InitTask \cup MonitorTask, NEW v \in TaskState,
         v.pc \in StartPc \cup {"result"}, task' = [task EXCEPT ![t] = v]
  PROVE  TaskOK'
<1>1. t \in Task /\ v.pc \in Pc(t)
  BY KindPc DEF Task
<1>. QED
  BY <1>1, TaskUpdate

\* Detach preserves the types.
LEMMA DetachType ==
  ASSUME TypeOK, NEW t \in Task, Detach(t)
  PROVE  TypeOK'
<1>1. TaskOK'
  <2>1. CASE closed \/ ~IdleClients
    BY <2>1, EndType DEF Detach, TypeOK
  <2>2. CASE ~(closed \/ ~IdleClients)
    <3>. DEFINE w == NewTask("dispose", 0, douyinLive)
                v == [w EXCEPT !.p = probeLive]
    <3>1. w \in TaskState /\ w.pc = "dispose"
      BY NewTaskType DEF TypeOK, AllPc
    <3>2. v \in TaskState /\ v.pc = "dispose"
      BY <3>1 DEF TypeOK, TaskState
    <3>3. task' = [task EXCEPT ![t] = v]
      BY <2>2 DEF Detach
    <3>. HIDE DEF v
    <3>. QED
      BY <3>2, <3>3, KindPc, TaskUpdate DEF TypeOK
  <2>. QED
    BY <2>1, <2>2
<1>2. /\ monitor' \in MonitorTask \cup {None} /\ generation' \in Nat
      /\ douyinLive' \in Inst \cup {None} /\ probeLive' \in Inst \cup {None}
      /\ probeFailures' \in 0..RotateAfter /\ upstreamReady' \in BOOLEAN
      /\ starting' \in BOOLEAN /\ knownValid' \in BOOLEAN
  <2>1. CASE closed \/ ~IdleClients
    BY <2>1 DEF Detach, TypeOK, session
  <2>2. CASE ~(closed \/ ~IdleClients)
    <3>1. /\ monitor' = None /\ douyinLive' = None /\ probeLive' = None
          /\ probeFailures' = 0 /\ upstreamReady' = FALSE /\ starting' = FALSE
          /\ generation' = generation + 1 /\ knownValid' = knownValid
      BY <2>2 DEF Detach
    <3>2. generation + 1 \in Nat
      BY DEF TypeOK
    <3>3. 0 \in 0..RotateAfter
      BY OptionAssumption
    <3>4. knownValid \in BOOLEAN
      BY DEF TypeOK
    <3>. QED
      BY <3>1, <3>2, <3>3, <3>4
  <2>. QED
    BY <2>1, <2>2
<1>3. UNCHANGED <<listeners, downstream, closing>>
  BY DEF Detach
<1>. QED
  BY <1>1, <1>2, <1>3 DEF TypeOK, listeners, downstream, closing

\* Dispose preserves the types.
LEMMA DisposeType ==
  ASSUME TypeOK, NEW t \in Task, Dispose(t)
  PROVE  TypeOK'
<1>1. TaskOK'
  <2>1. CASE t \in MonitorTask
    <3>. DEFINE v == [Step(t, "finish") EXCEPT !.p = None]
    <3>1. v \in TaskState /\ v.pc = "finish"
      BY StepType DEF TypeOK, TaskState, AllPc
    <3>2. task' = [task EXCEPT ![t] = v]
      BY <2>1 DEF Dispose
    <3>. HIDE DEF v
    <3>. QED
      BY <2>1, <3>1, <3>2, KindPc, TaskUpdate DEF TypeOK
  <2>2. CASE t \notin MonitorTask
    BY <2>2, EndType DEF Dispose, End, TypeOK
  <2>. QED
    BY <2>1, <2>2
<1>. QED
  BY <1>1 DEF Dispose, TypeOK, session, listeners, downstream, closing

\* EndTask preserves the types.
LEMMA EndTaskType ==
  ASSUME TypeOK, NEW t \in Task, EndTask(t)
  PROVE  TypeOK'
<1>1. TaskOK'
  BY KindPc, FreeTaskType, TaskUpdate DEF EndTask, TypeOK
<1>. QED
  BY <1>1 DEF EndTask, RemoveIfIdle, TypeOK, session, listeners, downstream

\* Acquire preserves the types.
LEMMA AcquireType ==
  ASSUME TypeOK, NEW t \in InitTask \cup MonitorTask, Acquire(t)
  PROVE  TypeOK'
<1>1. TaskOK'
  <2>. DEFINE f == Finished(t, "inactive")
              p == [Step(t, "prepare") EXCEPT !.d = probeLive]
              s == Step(t, "create")
  <2>1. f \in TaskState /\ f.pc = "result"
    BY FinishedType DEF TypeOK, Outcome, Task
  <2>2. p \in TaskState /\ p.pc = "prepare"
    BY SMTT(20), StepType DEF TypeOK, TaskState, Task, AllPc, StartPc
  <2>3. s \in TaskState /\ s.pc = "create"
    BY StepType DEF TypeOK, Task, AllPc, StartPc
  <2>4. \E v \in {f, p, s} : task' = [task EXCEPT ![t] = v]
    BY DEF Acquire
  <2>. HIDE DEF f, p, s
  <2>. QED
    <3>1. PICK v \in {f, p, s} : task' = [task EXCEPT ![t] = v]
      BY <2>4
    <3>2. v \in TaskState /\ v.pc \in StartPc \cup {"result"}
      BY <2>1, <2>2, <2>3 DEF StartPc
    <3>. QED
      BY <3>1, <3>2, StarterUpdate DEF TypeOK
<1>. QED
  BY <1>1 DEF Acquire, TypeOK, session, listeners, downstream, closing

\* CreateFails preserves the types.
LEMMA CreateFailsType ==
  ASSUME TypeOK, NEW t \in InitTask \cup MonitorTask, CreateFails(t)
  PROVE  TypeOK'
<1>1. TaskOK'
  BY FinishedType, StarterUpdate DEF CreateFails, TypeOK, Outcome, Task
<1>. QED
  BY <1>1 DEF CreateFails, TypeOK, session, listeners, downstream, closing

\* Create preserves the types.
LEMMA CreateType ==
  ASSUME TypeOK, NEW t \in InitTask \cup MonitorTask, Create(t)
  PROVE  TypeOK'
<1>. DEFINE f == Finished(t, "inactive")
            p(x) == [Step(t, "prepare") EXCEPT !.d = x]
            adopt == Current(task[t].gen) /\ probeLive = None
<1>1. f \in TaskState /\ f.pc = "result"
  BY FinishedType DEF TypeOK, Outcome, Task
<1>2. \A x \in Inst \cup {None} : p(x) \in TaskState /\ p(x).pc = "prepare"
  BY SMTT(20), StepType DEF TypeOK, TaskState, Task, AllPc, StartPc
<1>3. CASE adopt
  <2>1. PICK i \in Inst :
               /\ probeLive' = i
               /\ task' = [task EXCEPT ![t] = p(i)]
               /\ open' = open \cup {i} /\ held' = held \cup {i}
               /\ ready' = ready \ {i} /\ returned' = returned \ {i}
    BY <1>3 DEF Create, FreeInst
  <2>2. TaskOK'
    <3>. DEFINE v == p(i)
    <3>1. v \in TaskState /\ v.pc = "prepare" /\ task' = [task EXCEPT ![t] = v]
      BY <1>2, <2>1
    <3>. HIDE DEF v
    <3>. QED
      BY <3>1, StarterUpdate DEF TypeOK, StartPc
  <2>3. UNCHANGED <<generation, monitor, douyinLive, upstreamReady, starting,
                    knownValid, downstream, closing>> /\ probeFailures' = 0
    BY <1>3 DEF Create
  <2>. QED
    BY <2>1, <2>2, <2>3, OptionAssumption DEF TypeOK, downstream, closing
<1>4. CASE ~adopt
  <2>1. TaskOK'
    <3>. DEFINE q == p(probeLive)
    <3>1. q \in TaskState /\ q.pc = "prepare"
      BY <1>2 DEF TypeOK
    <3>2. \E v \in {f, q} : task' = [task EXCEPT ![t] = v]
      BY <1>4 DEF Create
    <3>. HIDE DEF f, q
    <3>. QED
      <4>1. PICK v \in {f, q} : task' = [task EXCEPT ![t] = v]
        BY <3>2
      <4>2. v \in TaskState /\ v.pc \in StartPc \cup {"result"}
        BY <1>1, <3>1 DEF StartPc
      <4>. QED
        BY <4>1, <4>2, StarterUpdate DEF TypeOK
  <2>. QED
    BY <1>4, <2>1 DEF Create, TypeOK, listeners, downstream, closing
<1>. QED
  BY <1>3, <1>4

\* Prepare preserves the types.
LEMMA PrepareType ==
  ASSUME TypeOK, NEW t \in InitTask \cup MonitorTask, Prepare(t)
  PROVE  TypeOK'
<1>1. TaskOK'
  <2>. DEFINE q(pc, out) == [Step(t, pc) EXCEPT !.out = out]
  <2>1. PICK pc \in {"commit", "discard", "record"},
             out \in {"live", "offline", "missing", "unknown", "failed"} :
               task' = [task EXCEPT ![t] = q(pc, out)]
    BY DEF Prepare
  <2>2. q(pc, out) \in TaskState /\ q(pc, out).pc = pc
    BY SMTT(20), StepType DEF TypeOK, TaskState, Task, AllPc, StartPc, Outcome
  <2>. DEFINE v == q(pc, out)
  <2>3. v \in TaskState /\ v.pc = pc /\ task' = [task EXCEPT ![t] = v]
    BY <2>1, <2>2
  <2>. HIDE DEF v
  <2>. QED
    BY <2>3, StarterUpdate DEF TypeOK, StartPc
<1>. QED
  BY <1>1 DEF Prepare, TypeOK, session, listeners, downstream, closing

\* Commit preserves the types.
LEMMA CommitType ==
  ASSUME TypeOK, NEW t \in InitTask \cup MonitorTask, Commit(t)
  PROVE  TypeOK'
<1>1. TaskOK'
  <2>. DEFINE f == Finished(t, "inactive")
  <2>1. f \in TaskState /\ f.pc = "result"
    BY FinishedType DEF TypeOK, Outcome, Task
  <2>2. \/ task' = [task EXCEPT ![t] = f]
        \/ \E pc \in {"promote", "reset", "record"} : Goto(t, pc)
    BY DEF Commit, Goto
  <2>. HIDE DEF f
  <2>3. CASE task' = [task EXCEPT ![t] = f]
    BY <2>1, <2>3, StarterUpdate DEF TypeOK
  <2>4. CASE \E pc \in {"promote", "reset", "record"} : Goto(t, pc)
    BY <2>4, GotoType, KindPc DEF TypeOK, Task, AllPc, StartPc
  <2>. QED
    BY <2>2, <2>3, <2>4
<1>. QED
  BY <1>1 DEF Commit, TypeOK, session, listeners, downstream, closing

\* ResetProbeFailures preserves the types.
LEMMA ResetProbeFailuresType ==
  ASSUME TypeOK, NEW t \in InitTask \cup MonitorTask, ResetProbeFailures(t)
  PROVE  TypeOK'
<1>1. task[t].out \in Outcome
  BY DEF TypeOK, TaskOK, TaskState, Task
<1>2. TaskOK'
  BY <1>1, FinishedType, StarterUpdate DEF ResetProbeFailures, TypeOK, Task
<1>. QED
  BY <1>2, OptionAssumption
  DEF ResetProbeFailures, TypeOK, session, listeners, downstream, closing

\* RecordProbeFailure preserves the types.
LEMMA RecordProbeFailureType ==
  ASSUME TypeOK, NEW t \in InitTask \cup MonitorTask, RecordProbeFailure(t)
  PROVE  TypeOK'
<1>1. task[t].out \in Outcome
  BY DEF TypeOK, TaskOK, TaskState, Task
<1>2. TaskOK'
  BY <1>1, FinishedType, StarterUpdate DEF RecordProbeFailure, TypeOK, Task
<1>. QED
  BY <1>2, OptionAssumption
  DEF RecordProbeFailure, TypeOK, session, listeners, downstream, closing

\* DiscardProbe preserves the types.
LEMMA DiscardProbeType ==
  ASSUME TypeOK, NEW t \in InitTask \cup MonitorTask, DiscardProbe(t)
  PROVE  TypeOK'
<1>1. task[t].out \in Outcome
  BY DEF TypeOK, TaskOK, TaskState, Task
<1>2. TaskOK'
  BY <1>1, FinishedType, StarterUpdate DEF DiscardProbe, TypeOK, Task
<1>. QED
  BY <1>2, OptionAssumption DEF DiscardProbe, TypeOK, session, listeners, downstream, closing

\* PromoteProbe preserves the types.
LEMMA PromoteProbeType ==
  ASSUME TypeOK, NEW t \in InitTask \cup MonitorTask, PromoteProbe(t)
  PROVE  TypeOK'
<1>1. TaskOK'
  <2>1. CASE Goto(t, "check")
    BY <2>1, GotoType, KindPc DEF TypeOK, Task, AllPc, StartPc
  <2>2. CASE task' = [task EXCEPT ![t] = [Step(t, "discard") EXCEPT
                                             !.out = "inactive"]]
    <3>. DEFINE v == [Step(t, "discard") EXCEPT !.out = "inactive"]
    <3>1. v \in TaskState /\ v.pc = "discard"
      BY SMTT(20), StepType DEF TypeOK, TaskState, Task, AllPc, StartPc, Outcome
    <3>. HIDE DEF v
    <3>. QED
      BY <2>2, <3>1, StarterUpdate DEF TypeOK, StartPc, v
  <2>. QED
    BY <2>1, <2>2 DEF PromoteProbe
<1>2. CASE Current(task[t].gen) /\ probeLive = task[t].d
  <2>1. /\ douyinLive' = probeLive /\ probeLive' = None
        /\ probeFailures' = 0 /\ upstreamReady' = FALSE /\ starting' = FALSE
        /\ monitor' \in {None, monitor}
        /\ UNCHANGED <<generation, knownValid, listeners, downstream, closing>>
    BY <1>2 DEF PromoteProbe
  <2>2. probeFailures' \in 0..RotateAfter
    BY <2>1, OptionAssumption
  <2>. QED
    BY <1>1, <2>1, <2>2 DEF TypeOK, listeners, downstream, closing
<1>3. CASE ~(Current(task[t].gen) /\ probeLive = task[t].d)
  <2>1. UNCHANGED <<session, listeners, downstream, closing>>
    BY <1>3 DEF PromoteProbe, session
  <2>. QED
    BY <1>1, <2>1 DEF TypeOK, session, listeners, downstream, closing
<1>. QED
  BY <1>2, <1>3

\* CheckAdopted preserves the types.
LEMMA CheckAdoptedType ==
  ASSUME TypeOK, NEW t \in InitTask \cup MonitorTask, CheckAdopted(t)
  PROVE  TypeOK'
<1>1. TaskOK'
  BY GotoType, KindPc DEF CheckAdopted, TypeOK, Task, AllPc, StartPc
<1>. QED
  BY <1>1 DEF CheckAdopted, TypeOK, session, listeners, downstream, closing

\* DisposePendingLive preserves the types.
LEMMA DisposePendingLiveType ==
  ASSUME TypeOK, NEW t \in InitTask \cup MonitorTask, DisposePendingLive(t)
  PROVE  TypeOK'
<1>1. TaskOK'
  BY FinishedType, StarterUpdate DEF DisposePendingLive, TypeOK, Outcome, Task
<1>. QED
  BY <1>1 DEF DisposePendingLive, TypeOK, listeners, downstream, closing

\* LaunchRun preserves the types.
LEMMA LaunchRunType ==
  ASSUME TypeOK, NEW t \in InitTask \cup MonitorTask, LaunchRun(t)
  PROVE  TypeOK'
<1>1. TaskOK'
  <2>1. CASE Goto(t, "undo")
    BY <2>1, GotoType, KindPc DEF TypeOK, Task, AllPc, StartPc
  <2>2. CASE Current(task[t].gen)
    <3>. DEFINE v == Finished(t, "ok")
                w == NewTask("begin", task[t].gen, task[t].d)
                u == Slot(RunTask)
    <3>1. u \in RunTask
      BY <2>2, SlotIsFree DEF LaunchRun
    <3>2. v \in TaskState /\ v.pc = "result"
      BY FinishedType DEF TypeOK, Outcome, Task
    <3>3. task[t].gen \in Nat /\ task[t].d \in Inst \cup {None}
      BY DEF TypeOK, TaskOK, TaskState, Task
    <3>4. w \in TaskState /\ w.pc = "begin"
      BY <3>3, NewTaskType DEF AllPc
    <3>5. task' = [task EXCEPT ![t] = v, ![u] = w]
      BY <2>2 DEF LaunchRun
    <3>6. t \in Task /\ v.pc \in Pc(t)
      BY <3>2, KindPc DEF Task
    <3>7. u \in Task /\ w.pc \in Pc(u)
      BY <3>1, <3>4, KindPc DEF Task
    <3>. HIDE DEF u, v, w
    <3>. QED
      BY <3>2, <3>4, <3>5, <3>6, <3>7, TaskUpdateTwo DEF TypeOK
  <2>. QED
    BY <2>1, <2>2 DEF LaunchRun
<1>. QED
  BY <1>1 DEF LaunchRun, TypeOK, session, listeners, downstream, closing

\* Every step of startLiveSession preserves the types.
LEMMA StartSessionType ==
  ASSUME TypeOK, NEW t \in InitTask \cup MonitorTask, StartSession(t)
  PROVE  TypeOK'
BY AcquireType, CreateFailsType, CreateType, PrepareType, CommitType,
   ResetProbeFailuresType, RecordProbeFailureType, DiscardProbeType,
   PromoteProbeType, CheckAdoptedType, DisposePendingLiveType, LaunchRunType
DEF StartSession

\* Every step of the cleanup preserves the types.
LEMMA CleanupType ==
  ASSUME TypeOK, NEW t \in Task, Cleanup(t)
  PROVE  TypeOK'
BY DetachType, DisposeType, EndTaskType DEF Cleanup

-----------------------------------------------------------------------------
(* The result of a start, and the monitor.                                 *)

\* InitStarted preserves the types.
LEMMA InitStartedType ==
  ASSUME TypeOK, NEW t \in InitTask, InitStarted(t)
  PROVE  TypeOK'
<1>1. TaskOK'
  <2>. DEFINE c == NewTask("count", 0, None)
  <2>1. c \in TaskState /\ c.pc = "count"
    BY NewTaskType DEF AllPc
  <2>2. \E v \in {c, Ended} : task' = [task EXCEPT ![t] = v]
    BY DEF InitStarted
  <2>. HIDE DEF c
  <2>3. t \in Task /\ "count" \in Pc(t) /\ "end" \in Pc(t)
    BY KindPc DEF Task
  <2>4. PICK v \in {c, Ended} : task' = [task EXCEPT ![t] = v]
    BY <2>2
  <2>5. v \in TaskState /\ v.pc \in Pc(t)
    BY <2>1, <2>3, EndedType
  <2>. QED
    BY <2>3, <2>4, <2>5, TaskUpdate DEF TypeOK
<1>. QED
  BY <1>1 DEF InitStarted, TypeOK, listeners, downstream, closing

\* InitCount preserves the types.
LEMMA InitCountType ==
  ASSUME TypeOK, NEW t \in InitTask, InitCount(t)
  PROVE  TypeOK'
<1>1. TaskOK'
  BY ToDetachType, EndType DEF InitCount, TypeOK, Task
<1>. QED
  BY <1>1 DEF InitCount, TypeOK, session, listeners, downstream, closing

\* FailGeneration preserves the types.
LEMMA FailGenerationType ==
  ASSUME TypeOK, NEW t \in InitTask \cup MonitorTask, FailGeneration(t)
  PROVE  TypeOK'
<1>1. CASE Current(task[t].gen)
  <2>. DEFINE w == NewTask("dispose", task[t].gen, None)
              v == [w EXCEPT !.p = probeLive]
  <2>1. task[t].gen \in Nat
    BY DEF TypeOK, TaskOK, TaskState, Task
  <2>2. w \in TaskState /\ w.pc = "dispose"
    BY <2>1, NewTaskType DEF AllPc
  <2>3. v \in TaskState /\ v.pc = "dispose"
    BY <2>2 DEF TypeOK, TaskState
  <2>4. task' = [task EXCEPT ![t] = v]
    BY <1>1 DEF FailGeneration
  <2>. HIDE DEF v, w
  <2>5. TaskOK'
    BY <2>3, <2>4, KindPc, TaskUpdate DEF TypeOK, Task
  <2>6. /\ probeLive' = None /\ probeFailures' = 0 /\ starting' = FALSE
        /\ monitor' \in {None, monitor} /\ generation' = generation + 1
        /\ clients' = {}
        /\ conn' = [c \in Client |-> IF c \in clients /\ conn[c] = "open"
                                     THEN "gone" ELSE conn[c]]
        /\ UNCHANGED <<douyinLive, upstreamReady, knownValid, listeners,
                       pendingClients, since, closing>>
    BY <1>1 DEF FailGeneration
  <2>7. conn' \in [Client -> Conn]
    BY <2>6 DEF TypeOK, Conn
  <2>8. probeFailures' \in 0..RotateAfter /\ generation' \in Nat
    BY <2>6, OptionAssumption DEF TypeOK
  <2>. QED
    BY <2>5, <2>6, <2>7, <2>8 DEF TypeOK, listeners, closing
<1>2. CASE ~Current(task[t].gen)
  <2>1. TaskOK'
    <3>1. CASE t \in MonitorTask
      BY <1>2, <3>1, GotoType, KindPc DEF FailGeneration, TypeOK, Task, AllPc
    <3>2. CASE t \notin MonitorTask
      BY <1>2, <3>2, EndType DEF FailGeneration, TypeOK, Task
    <3>. QED
      BY <3>1, <3>2
  <2>. QED
    BY <1>2, <2>1 DEF FailGeneration, TypeOK, listeners, closing
<1>. QED
  BY <1>1, <1>2

\* Installing a monitor loop, by an init task or at the end of a run task.
LEMMA InstallMonitorType ==
  ASSUME TypeOK, NEW t \in InitTask \cup RunTask, NEW g \in Nat,
         InstallMonitor(t, g)
  PROVE  TaskOK' /\ monitor' \in MonitorTask \cup {None}
<1>1. CASE monitor # None
  BY <1>1, EndType DEF InstallMonitor, TypeOK, Task
<1>2. CASE monitor = None
  <2>. DEFINE m == Slot(MonitorTask)
              n == NewTask("monitor", 0, None)
              v == [n EXCEPT !.loop = m]
              w == NewTask("installed", g, None)
  <2>1. m \in MonitorTask
    BY <1>2, SlotIsFree DEF InstallMonitor
  <2>2. n \in TaskState /\ n.pc = "monitor"
    BY NewTaskType DEF AllPc
  <2>. HIDE DEF n
  <2>3. v \in TaskState /\ v.pc = "monitor"
    BY <2>1, <2>2 DEF TaskState
  <2>4. w \in TaskState /\ w.pc = "installed"
    BY NewTaskType DEF AllPc
  <2>5. task' = [task EXCEPT ![t] = v, ![m] = w] /\ monitor' = m
    BY <1>2 DEF InstallMonitor, n
  <2>6. v.pc \in Pc(t) /\ w.pc \in Pc(m)
    BY <2>1, <2>3, <2>4, KindPc
  <2>. HIDE DEF m, v, w
  <2>. QED
    BY <2>1, <2>3, <2>4, <2>5, <2>6, TaskUpdateTwo DEF TypeOK, Task
<1>. QED
  BY <1>1, <1>2

\* TransitionToMonitor preserves the types.
LEMMA TransitionToMonitorType ==
  ASSUME TypeOK, NEW t \in InitTask, TransitionToMonitor(t)
  PROVE  TypeOK'
<1>1. task[t].gen \in Nat
  BY DEF TypeOK, TaskOK, TaskState, Task
<1>2. TaskOK' /\ monitor' \in MonitorTask \cup {None}
  <2>1. \/ End(t) /\ UNCHANGED monitor
        \/ ToDetach(t) /\ UNCHANGED monitor
        \/ InstallMonitor(t, task[t].gen)
    BY DEF TransitionToMonitor
  <2>. QED
    BY <1>1, <2>1, EndType, ToDetachType, InstallMonitorType DEF TypeOK, Task
<1>. QED
  BY <1>2 DEF TransitionToMonitor, TypeOK, listeners, downstream, closing

\* LaunchMonitor preserves the types.
LEMMA LaunchMonitorType ==
  ASSUME TypeOK, NEW t \in InitTask \cup RunTask, LaunchMonitor(t)
  PROVE  TypeOK'
<1>. DEFINE m == task[t].loop
            v == Step(m, "select")
<1>1. \E w \in {v, FreeTask} : task' = [task EXCEPT ![t] = Ended, ![m] = w]
  BY DEF LaunchMonitor
<1>2. t \in Task /\ "end" \in Pc(t)
  BY KindPc DEF Task
<1>3. m \in MonitorTask \cup {None}
  BY <1>2 DEF TypeOK, TaskOK, TaskState
<1>4. TaskOK'
  <2>1. CASE m \in MonitorTask
    <3>1. m \in Task /\ "select" \in Pc(m) /\ "free" \in Pc(m)
      BY <2>1, KindPc DEF Task
    <3>. HIDE DEF m
    <3>2. v \in TaskState /\ v.pc = "select"
      BY <3>1, StepType DEF TypeOK, AllPc
    <3>. HIDE DEF v
    <3>3. PICK w \in {v, FreeTask} : task' = [task EXCEPT ![t] = Ended, ![m] = w]
      BY <1>1
    <3>4. w \in TaskState /\ w.pc \in Pc(m)
      BY <3>1, <3>2, FreeTaskType
    <3>5. Ended \in TaskState /\ Ended.pc \in Pc(t)
      BY <1>2, EndedType
    <3>. QED
      BY <1>2, <3>1, <3>3, <3>4, <3>5, TaskUpdateTwo DEF TypeOK
  <2>2. CASE m = None
    <3>1. m \notin Task
      BY <2>2, TaskAssumption
    <3>. HIDE DEF m, v
    <3>2. task' = [task EXCEPT ![t] = Ended]
      BY <1>1, <3>1 DEF TypeOK, TaskOK
    <3>. QED
      BY <1>2, <3>2, EndedType, TaskUpdate DEF TypeOK
  <2>. QED
    BY <1>3, <2>1, <2>2
<1>. QED
  BY <1>4 DEF LaunchMonitor, TypeOK, listeners, downstream, closing

\* MonitorStopped preserves the types.
LEMMA MonitorStoppedType ==
  ASSUME TypeOK, NEW t \in MonitorTask, MonitorStopped(t)
  PROVE  TypeOK'
<1>1. TaskOK'
  BY GotoType, KindPc DEF MonitorStopped, TypeOK, Task, AllPc
<1>. QED
  BY <1>1 DEF MonitorStopped, TypeOK, session, listeners, downstream, closing

\* NotifyTick preserves the types.
LEMMA NotifyTickType ==
  ASSUME TypeOK, NEW t \in MonitorTask, NotifyTick(t)
  PROVE  TypeOK'
<1>1. TaskOK'
  BY GotoType, KindPc DEF NotifyTick, TypeOK, Task, AllPc
<1>. QED
  BY <1>1 DEF NotifyTick, TypeOK, session, listeners, downstream, closing

\* PollTick preserves the types.
LEMMA PollTickType ==
  ASSUME TypeOK, NEW t \in MonitorTask, PollTick(t)
  PROVE  TypeOK'
<1>1. TaskOK'
  <2>1. \/ Goto(t, "acquire") \/ Goto(t, "finish")
    BY DEF PollTick
  <2>. QED
    BY <2>1, GotoType, KindPc DEF TypeOK, Task, AllPc, StartPc
<1>. QED
  BY <1>1 DEF PollTick, TypeOK, listeners, downstream, closing

\* MonitorResult preserves the types.
LEMMA MonitorResultType ==
  ASSUME TypeOK, NEW t \in MonitorTask, MonitorResult(t)
  PROVE  TypeOK'
<1>1. TaskOK'
  <2>. DEFINE q(pc) == [Step(t, pc) EXCEPT !.out = "none"]
  <2>1. PICK pc \in {"finish", "fail", "select"} :
               task' = [task EXCEPT ![t] = q(pc)]
    BY DEF MonitorResult
  <2>2. q(pc) \in TaskState /\ q(pc).pc = pc
    BY StepType DEF TypeOK, TaskState, Task, AllPc, Outcome
  <2>. DEFINE v == q(pc)
  <2>3. v \in TaskState /\ v.pc = pc /\ task' = [task EXCEPT ![t] = v]
    BY <2>1, <2>2
  <2>. HIDE DEF v
  <2>. QED
    BY <2>3, KindPc, TaskUpdate DEF TypeOK, Task
<1>. QED
  BY <1>1 DEF MonitorResult, TypeOK, listeners, downstream, closing

\* FinishMonitor preserves the types.
LEMMA FinishMonitorType ==
  ASSUME TypeOK, NEW t \in MonitorTask, FinishMonitor(t)
  PROVE  TypeOK'
<1>1. TaskOK'
  BY EndType DEF FinishMonitor, TypeOK, Task
<1>. QED
  BY <1>1 DEF FinishMonitor, TypeOK, listeners, downstream, closing

-----------------------------------------------------------------------------
(* The listener, slow clients, Close.                                      *)

\* StartListener preserves the types.
LEMMA StartListenerType ==
  ASSUME TypeOK, NEW t \in RunTask, StartListener(t)
  PROVE  TypeOK'
<1>1. TaskOK'
  <2>1. CASE Current(task[t].gen)
    <3>. DEFINE v == Step(t, "await")
                w == NewTask("begin", 0, task[t].d)
                u == Slot(StartTask)
    <3>1. u \in StartTask
      BY <2>1, SlotIsFree DEF StartListener
    <3>2. t \in Task /\ task[t].d \in Inst \cup {None}
      BY DEF TypeOK, TaskOK, TaskState, Task
    <3>3. v \in TaskState /\ v.pc = "await"
      BY <3>2, StepType DEF TypeOK, AllPc
    <3>4. w \in TaskState /\ w.pc = "begin"
      BY <3>2, NewTaskType DEF AllPc
    <3>5. task' = [task EXCEPT ![t] = v, ![u] = w]
      BY <2>1 DEF StartListener
    <3>6. v.pc \in Pc(t)
      BY <3>3, KindPc
    <3>7. u \in Task /\ w.pc \in Pc(u)
      BY <3>1, <3>4, KindPc DEF Task
    <3>. HIDE DEF u, v, w
    <3>. QED
      BY <3>2, <3>3, <3>4, <3>5, <3>6, <3>7, TaskUpdateTwo DEF TypeOK
  <2>2. CASE ~Current(task[t].gen)
    BY <2>2, EndType DEF StartListener, TypeOK, Task
  <2>. QED
    BY <2>1, <2>2
<1>. QED
  BY <1>1 DEF StartListener, TypeOK, session, listeners, downstream, closing

\* AwaitReady preserves the types.
LEMMA AwaitReadyType ==
  ASSUME TypeOK, NEW t \in RunTask, AwaitReady(t)
  PROVE  TypeOK'
<1>1. TaskOK'
  BY GotoType, KindPc DEF AwaitReady, TypeOK, Task, AllPc
<1>. QED
  BY <1>1 DEF AwaitReady, TypeOK, session, listeners, downstream, closing

\* AwaitReturn preserves the types.
LEMMA AwaitReturnType ==
  ASSUME TypeOK, NEW t \in RunTask, AwaitReturn(t)
  PROVE  TypeOK'
<1>1. TaskOK'
  BY GotoType, KindPc DEF AwaitReturn, TypeOK, Task, AllPc
<1>. QED
  BY <1>1 DEF AwaitReturn, TypeOK, session, downstream, closing

\* MarkUpstreamReady preserves the types.
LEMMA MarkUpstreamReadyType ==
  ASSUME TypeOK, NEW t \in RunTask, MarkUpstreamReady(t)
  PROVE  TypeOK'
<1>1. TaskOK'
  <2>1. \/ Goto(t, "stream") \/ Goto(t, "drain")
    BY DEF MarkUpstreamReady
  <2>. QED
    BY <2>1, GotoType, KindPc DEF TypeOK, Task, AllPc
<1>. QED
  BY <1>1 DEF MarkUpstreamReady, TypeOK, downstream, closing

\* DrainTimeout preserves the types.
LEMMA DrainTimeoutType ==
  ASSUME TypeOK, NEW t \in RunTask, DrainTimeout(t)
  PROVE  TypeOK'
<1>1. TaskOK'
  BY GotoType, KindPc DEF DrainTimeout, TypeOK, Task, AllPc
<1>. QED
  BY <1>1 DEF DrainTimeout, TypeOK, session, listeners, downstream, closing

\* EndLiveSession preserves the types.
LEMMA EndLiveSessionType ==
  ASSUME TypeOK, NEW t \in RunTask, EndLiveSession(t)
  PROVE  TypeOK'
<1>1. task[t].gen \in Nat
  BY DEF TypeOK, TaskOK, TaskState, Task
<1>2. TaskOK' /\ monitor' \in MonitorTask \cup {None}
  <2>1. \/ End(t) /\ UNCHANGED monitor
        \/ ToDetach(t) /\ UNCHANGED monitor
        \/ InstallMonitor(t, task[t].gen)
    BY DEF EndLiveSession
  <2>. QED
    BY <1>1, <2>1, EndType, ToDetachType, InstallMonitorType DEF TypeOK, Task
<1>. QED
  BY <1>2 DEF EndLiveSession, TypeOK, listeners, downstream, closing

\* A listener's Start works on an instance (see CarriesInstance below).
LEMMA BeginStartType ==
  ASSUME TypeOK, NEW t \in StartTask, task[t].d \in Inst, BeginStart(t)
  PROVE  TypeOK'
<1>1. TaskOK'
  <2>1. Goto(t, "dial") \/ End(t)
    BY DEF BeginStart
  <2>. QED
    BY <2>1, EndType, GotoType, KindPc DEF TypeOK, Task, AllPc
<1>. QED
  BY <1>1 DEF BeginStart, TypeOK, session, downstream, closing

\* DialSucceeds preserves the types.
LEMMA DialSucceedsType ==
  ASSUME TypeOK, NEW t \in StartTask, task[t].d \in Inst, DialSucceeds(t)
  PROVE  TypeOK'
<1>1. TaskOK'
  BY GotoType, KindPc DEF DialSucceeds, TypeOK, Task, AllPc
<1>. QED
  BY <1>1 DEF DialSucceeds, TypeOK, session, downstream, closing

\* StartReturns preserves the types.
LEMMA StartReturnsType ==
  ASSUME TypeOK, NEW t \in StartTask, task[t].d \in Inst, StartReturns(t)
  PROVE  TypeOK'
<1>1. TaskOK'
  BY EndType DEF StartReturns, TypeOK, Task
<1>. QED
  BY <1>1 DEF StartReturns, TypeOK, session, downstream, closing

\* SpawnSlow preserves the types.
LEMMA SpawnSlowType ==
  ASSUME TypeOK, NEW t \in SlowTask, SpawnSlow(t)
  PROVE  TypeOK'
<1>1. TaskOK'
  <2>. DEFINE d == NewTask("detach", 0, None)
  <2>1. d \in TaskState /\ d.pc = "detach"
    BY NewTaskType DEF AllPc
  <2>2. \E v \in {FreeTask, d, Ended} : task' = [task EXCEPT ![t] = v]
    BY DEF SpawnSlow
  <2>3. t \in Task /\ {"free", "detach", "end"} \subseteq Pc(t)
    BY KindPc DEF Task
  <2>. HIDE DEF d
  <2>4. PICK v \in {FreeTask, d, Ended} : task' = [task EXCEPT ![t] = v]
    BY <2>2
  <2>5. v \in TaskState /\ v.pc \in Pc(t)
    BY <2>1, <2>3, FreeTaskType, EndedType
  <2>. QED
    BY <2>3, <2>4, <2>5, TaskUpdate DEF TypeOK
<1>. QED
  BY <1>1 DEF SpawnSlow, TypeOK, session, listeners, downstream, closing

\* Close preserves the types.
LEMMA CloseType ==
  ASSUME TypeOK, Close
  PROVE  TypeOK'
<1>1. probeFailures' \in 0..RotateAfter
  BY OptionAssumption DEF Close
<1>. QED
  BY <1>1 DEF Close, TypeOK, TaskOK, listeners, downstream

\* CloseStep preserves the types.
LEMMA CloseStepType ==
  ASSUME TypeOK, CloseStep
  PROVE  TypeOK'
<1>1. CASE CloseClients
  BY <1>1 DEF CloseClients, TypeOK, TaskOK, Conn, session, listeners
<1>2. CASE CloseListeners
  BY <1>2 DEF CloseListeners, TypeOK, TaskOK, session, downstream
<1>3. CASE CloseWait
  BY <1>3 DEF CloseWait, TypeOK, TaskOK, session, listeners, downstream
<1>. QED
  BY <1>1, <1>2, <1>3 DEF CloseStep

-----------------------------------------------------------------------------
(***************************************************************************)
(* The inductive invariant.  A task that has its instance keeps it, so that*)
(* a listener is started on an instance and never on None; and the loop the*)
(* room names as its monitor belongs to the current generation, which is   *)
(* why a promoted probe always finds and takes out the monitor in place.   *)
(***************************************************************************)
CarryPc == (StartPc \ {"acquire", "create"})
             \cup {"begin", "await", "mark", "dial", "stream", "drain", "ended"}
CarriesInstance == \A t \in Task : task[t].pc \in CarryPc => task[t].d \in Inst
MonitorInPlace ==
  monitor # None => /\ task[monitor].pc \notin {"free", "end", "detach"}
                    /\ task[monitor].gen = generation
OneOwner == ~closed /\ monitor # None => douyinLive = None
RoomInv == TypeOK /\ CarriesInstance /\ MonitorInPlace /\ OneOwner

\* What the states written into a slot look like, for the steps below.
LEMMA Fields ==
  ASSUME TaskOK
  PROVE  /\ \A pc, g, d : /\ NewTask(pc, g, d).pc = pc
                          /\ NewTask(pc, g, d).gen = g
                          /\ NewTask(pc, g, d).d = d
         /\ \A t \in Task : \A pc : /\ Step(t, pc).pc = pc
                                    /\ Step(t, pc).gen = task[t].gen
                                    /\ Step(t, pc).d = task[t].d
         /\ \A t \in Task : \A out : /\ Finished(t, out).pc = "result"
                                     /\ Finished(t, out).gen = task[t].gen
         /\ Ended.pc = "end" /\ FreeTask.pc = "free"
BY DEF NewTask, Step, Finished, Ended, FreeTask, TaskOK, TaskState

\* The instance a task carries, when it writes one slot.
LEMMA CarryUpdate ==
  ASSUME TaskOK, CarriesInstance, NEW t \in Task, NEW v,
         v.pc \in CarryPc => v.d \in Inst, task' = [task EXCEPT ![t] = v]
  PROVE  CarriesInstance'
BY DEF CarriesInstance, TaskOK

\* The same, for a step that writes two slots.
LEMMA CarryUpdateTwo ==
  ASSUME TaskOK, CarriesInstance, NEW t \in Task, NEW v, NEW u \in Task, NEW w,
         v.pc \in CarryPc => v.d \in Inst, w.pc \in CarryPc => w.d \in Inst,
         task' = [task EXCEPT ![t] = v, ![u] = w]
  PROVE  CarriesInstance'
BY DEF CarriesInstance, TaskOK

\* Moving on, with the instance at hand if the next pc needs one.
LEMMA CarryGoto ==
  ASSUME TaskOK, CarriesInstance, NEW t \in Task, NEW pc,
         pc \in CarryPc => task[t].pc \in CarryPc, Goto(t, pc)
  PROVE  CarriesInstance'
BY Fields, CarryUpdate DEF Goto, CarriesInstance

\* The end of a task, or its cleanup, needs no instance.
LEMMA CarryEnd ==
  ASSUME TaskOK, CarriesInstance, NEW t \in Task, End(t) \/ ToDetach(t)
  PROVE  CarriesInstance'
<1>1. "end" \notin CarryPc /\ "detach" \notin CarryPc
  BY DEF CarryPc, StartPc
<1>. QED
  BY <1>1, Fields, CarryUpdate DEF End, ToDetach

\* ConnStep: a task that has its instance keeps it.
LEMMA ConnStepCarries ==
  ASSUME TypeOK, CarriesInstance, NEW c \in Client, ConnStep(c)
  PROVE  CarriesInstance'
<1>1. "acquire" \notin CarryPc /\ "detach" \notin CarryPc
  BY DEF CarryPc, StartPc
<1>2. CASE UNCHANGED task
  BY <1>2 DEF CarriesInstance
<1>3. CASE ~closed /\ StartInit(c)
  <2>1. Slot(InitTask) \in Task
    BY <1>3, SlotIsFree DEF StartInit, Task
  <2>. DEFINE v == NewTask("acquire", since[c], None)
  <2>2. v.pc \notin CarryPc
    BY <1>1, Fields DEF TypeOK
  <2>3. task' = [task EXCEPT ![Slot(InitTask)] = v]
    BY <1>3 DEF StartInit
  <2>. HIDE DEF v
  <2>. QED
    BY <2>1, <2>2, <2>3, CarryUpdate DEF TypeOK
<1>4. CASE ~closed /\ SpawnCleanup(c)
  <2>1. Slot(CleanupTask) \in Task
    BY <1>4, SlotIsFree DEF SpawnCleanup, Task
  <2>. DEFINE v == NewTask("detach", 0, None)
  <2>2. v.pc \notin CarryPc
    BY <1>1, Fields DEF TypeOK
  <2>3. task' = [task EXCEPT ![Slot(CleanupTask)] = v]
    BY <1>4 DEF SpawnCleanup
  <2>. HIDE DEF v
  <2>. QED
    BY <2>1, <2>2, <2>3, CarryUpdate DEF TypeOK
<1>. QED
  BY <1>2, <1>3, <1>4
  DEF ConnStep, Reserve, ReleaseReservation, ReleaseCheck, AddClient, StartInit,
      Drop, CountAfterDrop, SpawnCleanup

\* SlowStep: a task that has its instance keeps it.
LEMMA SlowStepCarries ==
  ASSUME TypeOK, CarriesInstance
  PROVE  /\ \A S \in SUBSET Slow : RemoveSlow(S) => CarriesInstance'
         /\ \A t \in SlowTask : SpawnSlow(t) => CarriesInstance'
<1>1. {"spawn", "free", "detach", "end"} \cap CarryPc = {}
  BY DEF CarryPc, StartPc
<1>2. ASSUME NEW S \in SUBSET Slow, RemoveSlow(S)
      PROVE  CarriesInstance'
  <2>. DEFINE w == NewTask("spawn", 0, None)
              v == [w EXCEPT !.out = IF clients' = {} THEN "last" ELSE "more"]
              t == Slot(SlowTask)
  <2>1. t \in Task
    BY <1>2, SlotIsFree DEF RemoveSlow, Task
  <2>2. v.pc = "spawn"
    BY DEF NewTask
  <2>3. task' = [task EXCEPT ![t] = v]
    BY <1>2 DEF RemoveSlow
  <2>. HIDE DEF v, t
  <2>. QED
    BY <1>1, <2>1, <2>2, <2>3, CarryUpdate DEF TypeOK
<1>3. ASSUME NEW t \in SlowTask, SpawnSlow(t)
      PROVE  CarriesInstance'
  <2>1. t \in Task
    BY DEF Task
  <2>2. PICK v \in {FreeTask, NewTask("detach", 0, None), Ended} :
               task' = [task EXCEPT ![t] = v]
    BY <1>3 DEF SpawnSlow
  <2>3. v.pc \notin CarryPc
    BY <1>1, <2>2, Fields DEF TypeOK
  <2>. QED
    BY <2>1, <2>2, <2>3, CarryUpdate DEF TypeOK
<1>. QED
  BY <1>2, <1>3

\* Cleanup: a task that has its instance keeps it.
LEMMA CleanupCarries ==
  ASSUME TypeOK, CarriesInstance, NEW t \in Task, Cleanup(t)
  PROVE  CarriesInstance'
<1>1. {"dispose", "finish", "end", "free"} \cap CarryPc = {}
  BY DEF CarryPc, StartPc
<1>2. CASE Detach(t)
  <2>1. CASE End(t)
    BY <2>1, CarryEnd DEF TypeOK
  <2>2. CASE task' = [task EXCEPT ![t] =
               [NewTask("dispose", 0, douyinLive) EXCEPT !.p = probeLive]]
    <3>. DEFINE v == [NewTask("dispose", 0, douyinLive) EXCEPT !.p = probeLive]
    <3>1. v.pc = "dispose"
      BY DEF NewTask
    <3>2. task' = [task EXCEPT ![t] = v]
      BY <2>2
    <3>. HIDE DEF v
    <3>. QED
      BY <1>1, <3>1, <3>2, CarryUpdate DEF TypeOK
  <2>. QED
    BY <1>2, <2>1, <2>2 DEF Detach
<1>3. CASE Dispose(t)
  <2>. DEFINE f == [Step(t, "finish") EXCEPT !.p = None]
  <2>1. f.pc = "finish"
    BY DEF Step, TypeOK, TaskOK, TaskState
  <2>2. PICK v \in {f, Ended} : task' = [task EXCEPT ![t] = v]
    BY <1>3 DEF Dispose
  <2>. HIDE DEF f
  <2>3. v.pc \notin CarryPc
    BY <1>1, <2>1, <2>2, Fields DEF TypeOK
  <2>. QED
    BY <2>2, <2>3, CarryUpdate DEF TypeOK
<1>4. CASE EndTask(t)
  BY <1>1, <1>4, Fields, CarryUpdate DEF EndTask, TypeOK
<1>. QED
  BY <1>2, <1>3, <1>4 DEF Cleanup

\* The steps of startLiveSession.  Each writes one slot, except LaunchRun.
LEMMA StartSessionCarries ==
  ASSUME TypeOK, CarriesInstance, NEW t \in InitTask \cup MonitorTask,
         StartSession(t)
  PROVE  CarriesInstance'
<1>. DEFINE Writes(v) == task' = [task EXCEPT ![t] = v]
<1>1. t \in Task /\ "result" \notin CarryPc /\ "create" \notin CarryPc
  BY DEF Task, CarryPc, StartPc
<1>2. \A out : Finished(t, out).pc = "result"
  BY <1>1, Fields DEF TypeOK
<1>3. \A v : (v.pc \in CarryPc => v.d \in Inst) /\ Writes(v) => CarriesInstance'
  BY <1>1, CarryUpdate DEF TypeOK
<1>4. CASE \E out : Writes(Finished(t, out))
  <2>1. PICK out : Writes(Finished(t, out))
    BY <1>4
  <2>2. Finished(t, out).pc \notin CarryPc
    BY <1>1, <1>2
  <2>. HIDE DEF Writes
  <2>. QED
    BY <1>3, <2>1, <2>2
<1>5. CASE Acquire(t) /\ ~(\E out : Writes(Finished(t, out)))
  <2>1. CASE probeLive = None
    <3>1. Goto(t, "create")
      BY <1>5, <2>1 DEF Acquire, Goto
    <3>. QED
      BY <1>1, <3>1, CarryGoto DEF TypeOK
  <2>2. CASE probeLive # None
    <3>. DEFINE v == [Step(t, "prepare") EXCEPT !.d = probeLive]
    <3>1. v.d = probeLive /\ probeLive \in Inst
      BY <1>1, <2>2 DEF Step, TypeOK, TaskOK, TaskState
    <3>2. Writes(v)
      BY <1>5, <2>2 DEF Acquire
    <3>. HIDE DEF v, Writes
    <3>. QED
      BY <1>3, <3>1, <3>2
  <2>. QED
    BY <2>1, <2>2
<1>6. CASE Create(t) /\ ~(\E out : Writes(Finished(t, out)))
  <2>. DEFINE v(i) == [Step(t, "prepare") EXCEPT !.d = i]
  <2>1. PICK i \in Inst : Writes(v(i))
    BY <1>6 DEF Create, FreeInst, TypeOK
  <2>2. v(i).d = i
    BY <1>1 DEF Step, TypeOK, TaskOK, TaskState
  <2>. HIDE DEF v, Writes
  <2>. QED
    BY <1>3, <2>1, <2>2
<1>7. CASE Prepare(t)
  <2>. DEFINE v(pc, out) == [Step(t, pc) EXCEPT !.out = out]
  <2>1. PICK pc, out : Writes(v(pc, out))
    BY <1>7 DEF Prepare
  <2>2. v(pc, out).d = task[t].d
    BY <1>1 DEF Step, TypeOK, TaskOK, TaskState
  <2>3. task[t].d \in Inst
    BY <1>1, <1>7 DEF Prepare, CarriesInstance, CarryPc, StartPc
  <2>. HIDE DEF v, Writes
  <2>. QED
    BY <1>3, <2>1, <2>2, <2>3
<1>8. CASE PromoteProbe(t) /\ ~Goto(t, "check")
  <2>. DEFINE v == [Step(t, "discard") EXCEPT !.out = "inactive"]
  <2>1. Writes(v)
    BY <1>8 DEF PromoteProbe
  <2>2. v.d = task[t].d
    BY <1>1 DEF Step, TypeOK, TaskOK, TaskState
  <2>3. task[t].d \in Inst
    BY <1>1, <1>8 DEF PromoteProbe, CarriesInstance, CarryPc, StartPc
  <2>. HIDE DEF v, Writes
  <2>. QED
    BY <1>3, <2>1, <2>2, <2>3
<1>9. CASE task[t].pc \in CarryPc /\ \E pc : Goto(t, pc)
  BY <1>1, <1>9, CarryGoto DEF TypeOK
<1>10. CASE LaunchRun(t) /\ Current(task[t].gen)
  <2>. DEFINE v == Finished(t, "ok")
              w == NewTask("begin", task[t].gen, task[t].d)
              u == Slot(RunTask)
  <2>1. u \in Task
    BY <1>10, SlotIsFree DEF LaunchRun, Task
  <2>2. task[t].d \in Inst
    BY <1>1, <1>10 DEF LaunchRun, CarriesInstance, CarryPc, StartPc
  <2>3. v.pc \notin CarryPc
    BY <1>1, <1>2
  <2>4. w.d \in Inst
    BY <2>2, Fields DEF TypeOK
  <2>5. task' = [task EXCEPT ![t] = v, ![u] = w]
    BY <1>10 DEF LaunchRun
  <2>. HIDE DEF u, v, w
  <2>. QED
    BY <1>1, <2>1, <2>3, <2>4, <2>5, CarryUpdateTwo DEF TypeOK
<1>11. CASE CreateFails(t) \/ ResetProbeFailures(t) \/ RecordProbeFailure(t)
             \/ DiscardProbe(t) \/ DisposePendingLive(t)
  <2>1. \E out : Writes(Finished(t, out))
    BY <1>11 DEF CreateFails, ResetProbeFailures, RecordProbeFailure,
                 DiscardProbe, DisposePendingLive
  <2>. QED
    BY <1>4, <2>1
<1>12. CASE Commit(t)
  <2>1. (\E out : Writes(Finished(t, out))) \/ (\E pc : Goto(t, pc))
    BY <1>12 DEF Commit, Goto
  <2>2. task[t].pc \in CarryPc
    BY <1>12 DEF Commit, CarryPc, StartPc
  <2>. QED
    BY <1>4, <1>9, <2>1, <2>2
<1>13. CASE CheckAdopted(t) \/ (LaunchRun(t) /\ ~Current(task[t].gen))
             \/ (PromoteProbe(t) /\ Goto(t, "check"))
  <2>1. \E pc : Goto(t, pc)
    BY <1>13 DEF CheckAdopted, LaunchRun
  <2>2. task[t].pc \in CarryPc
    BY <1>13 DEF CheckAdopted, LaunchRun, PromoteProbe, CarryPc, StartPc
  <2>. QED
    BY <1>9, <2>1, <2>2
<1>. QED
  BY <1>4, <1>5, <1>6, <1>7, <1>8, <1>10, <1>11, <1>12, <1>13 DEF StartSession

\* InstallMonitor: a task that has its instance keeps it.
LEMMA InstallMonitorCarries ==
  ASSUME TypeOK, CarriesInstance, NEW t \in InitTask \cup RunTask, NEW g \in Nat,
         InstallMonitor(t, g)
  PROVE  CarriesInstance'
<1>1. CASE monitor # None
  BY <1>1, CarryEnd DEF InstallMonitor, TypeOK, Task
<1>2. CASE monitor = None
  <2>. DEFINE m == Slot(MonitorTask)
              v == [NewTask("monitor", 0, None) EXCEPT !.loop = m]
              w == NewTask("installed", g, None)
  <2>1. m \in Task /\ t \in Task
    BY <1>2, SlotIsFree DEF InstallMonitor, Task
  <2>2. v.pc = "monitor" /\ w.pc = "installed"
    BY DEF NewTask
  <2>3. task' = [task EXCEPT ![t] = v, ![m] = w]
    BY <1>2 DEF InstallMonitor
  <2>4. v.pc \notin CarryPc /\ w.pc \notin CarryPc
    BY <2>2 DEF CarryPc, StartPc
  <2>. HIDE DEF m, v, w
  <2>. QED
    BY <2>1, <2>3, <2>4, CarryUpdateTwo DEF TypeOK
<1>. QED
  BY <1>1, <1>2

\* LaunchMonitor: a task that has its instance keeps it.
LEMMA LaunchMonitorCarries ==
  ASSUME TypeOK, CarriesInstance, NEW t \in InitTask \cup RunTask,
         LaunchMonitor(t)
  PROVE  CarriesInstance'
<1>. DEFINE m == task[t].loop
            v == Step(m, "select")
<1>1. t \in Task /\ {"select", "free", "end"} \cap CarryPc = {}
  BY DEF Task, CarryPc, StartPc
<1>2. PICK w \in {v, FreeTask} : task' = [task EXCEPT ![t] = Ended, ![m] = w]
  BY DEF LaunchMonitor
<1>3. Ended.pc \notin CarryPc /\ FreeTask.pc \notin CarryPc
  BY <1>1, Fields DEF TypeOK
<1>4. CASE m \in Task
  <2>1. w.pc \notin CarryPc
    BY <1>1, <1>3, <1>4, Fields DEF TypeOK
  <2>. HIDE DEF m, v
  <2>. QED
    BY <1>1, <1>2, <1>3, <1>4, <2>1, CarryUpdateTwo DEF TypeOK
<1>5. CASE m \notin Task
  <2>. HIDE DEF m, v
  <2>1. task' = [task EXCEPT ![t] = Ended]
    BY <1>2, <1>5 DEF TypeOK, TaskOK
  <2>. QED
    BY <1>1, <1>3, <2>1, CarryUpdate DEF TypeOK
<1>. QED
  BY <1>4, <1>5

\* InitStep: a task that has its instance keeps it.
LEMMA InitStepCarries ==
  ASSUME TypeOK, CarriesInstance, NEW t \in InitTask, InitStep(t)
  PROVE  CarriesInstance'
<1>. DEFINE Writes(v) == task' = [task EXCEPT ![t] = v]
<1>1. t \in Task /\ {"count", "end", "free", "dispose", "finish"} \cap CarryPc = {}
  BY DEF Task, CarryPc, StartPc
<1>2. \A v : v.pc \notin CarryPc /\ Writes(v) => CarriesInstance'
  BY <1>1, CarryUpdate DEF TypeOK
<1>3. CASE InitStarted(t)
  <2>1. Writes(NewTask("count", 0, None)) \/ Writes(Ended)
    BY <1>3 DEF InitStarted
  <2>2. NewTask("count", 0, None).pc = "count" /\ Ended.pc = "end"
    BY Fields DEF TypeOK
  <2>. HIDE DEF Writes
  <2>. QED
    BY <1>1, <1>2, <2>1, <2>2
<1>4. CASE InitCount(t)
  BY <1>1, <1>4, CarryEnd DEF InitCount, TypeOK
<1>5. CASE FailGeneration(t)
  <2>1. CASE Current(task[t].gen)
    <3>. DEFINE v == [NewTask("dispose", task[t].gen, None) EXCEPT !.p = probeLive]
    <3>1. Writes(v) /\ v.pc = "dispose"
      BY <1>5, <2>1 DEF FailGeneration, NewTask
    <3>. HIDE DEF v, Writes
    <3>. QED
      BY <1>1, <1>2, <3>1
  <2>2. CASE ~Current(task[t].gen)
    <3>1. End(t) \/ Goto(t, "finish")
      BY <1>5, <2>2 DEF FailGeneration
    <3>. QED
      BY <1>1, <3>1, CarryEnd, CarryGoto DEF TypeOK
  <2>. QED
    BY <2>1, <2>2
<1>6. CASE TransitionToMonitor(t)
  <2>1. task[t].gen \in Nat
    BY <1>1 DEF TypeOK, TaskOK, TaskState
  <2>2. End(t) \/ ToDetach(t) \/ InstallMonitor(t, task[t].gen)
    BY <1>6 DEF TransitionToMonitor
  <2>. QED
    BY <1>1, <2>1, <2>2, CarryEnd, InstallMonitorCarries DEF TypeOK
<1>7. CASE LaunchMonitor(t)
  BY <1>7, LaunchMonitorCarries
<1>. QED
  BY <1>1, <1>3, <1>4, <1>5, <1>6, <1>7, StartSessionCarries, CleanupCarries
  DEF InitStep

\* MonitorStep: a task that has its instance keeps it.
LEMMA MonitorStepCarries ==
  ASSUME TypeOK, CarriesInstance, NEW t \in MonitorTask, MonitorStep(t)
  PROVE  CarriesInstance'
<1>. DEFINE Writes(v) == task' = [task EXCEPT ![t] = v]
<1>1. /\ t \in Task
      /\ {"acquire", "finish", "fail", "select", "end", "dispose"} \cap CarryPc = {}
  BY DEF Task, CarryPc, StartPc
<1>2. \A v : v.pc \notin CarryPc /\ Writes(v) => CarriesInstance'
  BY <1>1, CarryUpdate DEF TypeOK
<1>3. CASE MonitorStopped(t) \/ NotifyTick(t) \/ PollTick(t)
  <2>1. Goto(t, "finish") \/ Goto(t, "acquire")
    BY <1>3 DEF MonitorStopped, NotifyTick, PollTick
  <2>. QED
    BY <1>1, <2>1, CarryGoto DEF TypeOK
<1>4. CASE MonitorResult(t)
  <2>. DEFINE v(pc) == [Step(t, pc) EXCEPT !.out = "none"]
  <2>1. PICK pc \in {"finish", "fail", "select"} : Writes(v(pc))
    BY <1>4 DEF MonitorResult
  <2>2. v(pc).pc = pc
    BY <1>1 DEF Step, TypeOK, TaskOK, TaskState
  <2>. HIDE DEF v, Writes
  <2>. QED
    BY <1>1, <1>2, <2>1, <2>2
<1>5. CASE FinishMonitor(t)
  BY <1>1, <1>5, CarryEnd DEF FinishMonitor, TypeOK
<1>6. CASE FailGeneration(t)
  <2>1. CASE Current(task[t].gen)
    <3>. DEFINE v == [NewTask("dispose", task[t].gen, None) EXCEPT !.p = probeLive]
    <3>1. Writes(v) /\ v.pc = "dispose"
      BY <1>6, <2>1 DEF FailGeneration, NewTask
    <3>. HIDE DEF v, Writes
    <3>. QED
      BY <1>1, <1>2, <3>1
  <2>2. CASE ~Current(task[t].gen)
    <3>1. End(t) \/ Goto(t, "finish")
      BY <1>6, <2>2 DEF FailGeneration
    <3>. QED
      BY <1>1, <3>1, CarryEnd, CarryGoto DEF TypeOK
  <2>. QED
    BY <2>1, <2>2
<1>. QED
  BY <1>1, <1>3, <1>4, <1>5, <1>6, StartSessionCarries, CleanupCarries
  DEF MonitorStep

\* RunStep: a task that has its instance keeps it.
LEMMA RunStepCarries ==
  ASSUME TypeOK, CarriesInstance, NEW t \in RunTask, RunStep(t)
  PROVE  CarriesInstance'
<1>1. t \in Task
  BY DEF Task
<1>2. CASE StartListener(t)
  <2>1. task[t].pc \in CarryPc
    BY <1>2 DEF StartListener, CarryPc
  <2>2. CASE Current(task[t].gen)
    <3>. DEFINE v == Step(t, "await")
                w == NewTask("begin", 0, task[t].d)
                u == Slot(StartTask)
    <3>1. u \in Task
      BY <1>2, <2>2, SlotIsFree DEF StartListener, Task
    <3>2. v.d \in Inst /\ w.d \in Inst
      BY <1>1, <2>1, Fields DEF CarriesInstance, TypeOK
    <3>3. task' = [task EXCEPT ![t] = v, ![u] = w]
      BY <1>2, <2>2 DEF StartListener
    <3>. HIDE DEF u, v, w
    <3>. QED
      BY <1>1, <3>1, <3>2, <3>3, CarryUpdateTwo DEF TypeOK
  <2>3. CASE ~Current(task[t].gen)
    BY <1>1, <1>2, <2>3, CarryEnd DEF StartListener, TypeOK
  <2>. QED
    BY <2>2, <2>3
<1>3. CASE AwaitReady(t) \/ AwaitReturn(t) \/ MarkUpstreamReady(t)
             \/ DrainTimeout(t)
  <2>1. \E pc : Goto(t, pc)
    BY <1>3 DEF AwaitReady, AwaitReturn, MarkUpstreamReady, DrainTimeout
  <2>2. task[t].pc \in CarryPc
    BY <1>3 DEF AwaitReady, AwaitReturn, MarkUpstreamReady, DrainTimeout, CarryPc
  <2>. QED
    BY <1>1, <2>1, <2>2, CarryGoto DEF TypeOK
<1>4. CASE EndLiveSession(t)
  <2>1. task[t].gen \in Nat
    BY <1>1 DEF TypeOK, TaskOK, TaskState
  <2>2. End(t) \/ ToDetach(t) \/ InstallMonitor(t, task[t].gen)
    BY <1>4 DEF EndLiveSession
  <2>. QED
    BY <1>1, <2>1, <2>2, CarryEnd, InstallMonitorCarries DEF TypeOK
<1>. QED
  BY <1>1, <1>2, <1>3, <1>4, LaunchMonitorCarries, CleanupCarries DEF RunStep

\* StartStep: a task that has its instance keeps it.
LEMMA StartStepCarries ==
  ASSUME TypeOK, CarriesInstance, NEW t \in StartTask, StartStep(t)
  PROVE  CarriesInstance'
<1>1. t \in Task /\ {"begin", "dial", "stream"} \subseteq CarryPc
  BY DEF Task, CarryPc
<1>2. CASE BeginStart(t) \/ DialSucceeds(t) \/ StartReturns(t)
  <2>1. End(t) \/ \E pc : Goto(t, pc)
    BY <1>2 DEF BeginStart, DialSucceeds, StartReturns
  <2>2. task[t].pc \in CarryPc
    BY <1>1, <1>2 DEF BeginStart, DialSucceeds, StartReturns
  <2>. QED
    BY <1>1, <2>1, <2>2, CarryEnd, CarryGoto DEF TypeOK
<1>. QED
  BY <1>1, <1>2, CleanupCarries DEF StartStep

-----------------------------------------------------------------------------
(* The monitor in place.                                                   *)

OwnerInv == MonitorInPlace /\ OneOwner
Lost == {"free", "end", "detach"}

\* A step that leaves the generation alone and installs neither a monitor nor
\* a listener, and writes slots without disturbing the monitor's.
LEMMA OwnerKept ==
  ASSUME TypeOK, OwnerInv, closed => closed', generation' = generation,
         monitor' \in {monitor, None}, douyinLive' \in {douyinLive, None},
         monitor' # None => /\ task'[monitor].pc \notin Lost
                            /\ task'[monitor].gen = task[monitor].gen
  PROVE  OwnerInv'
BY DEF OwnerInv, MonitorInPlace, OneOwner, Lost, TypeOK

\* The same, for a step that writes one slot.
LEMMA OwnerWrite ==
  ASSUME TypeOK, OwnerInv, closed => closed', generation' = generation,
         monitor' \in {monitor, None}, douyinLive' \in {douyinLive, None},
         NEW t \in Task, NEW v, task' = [task EXCEPT ![t] = v],
         monitor' = t => v.pc \notin Lost /\ v.gen = task[t].gen
  PROVE  OwnerInv'
<1>1. ASSUME monitor' # None
      PROVE  /\ task'[monitor].pc \notin Lost
             /\ task'[monitor].gen = task[monitor].gen
  <2>1. monitor' = monitor /\ monitor \in Task
    BY <1>1 DEF TypeOK, Task
  <2>2. CASE monitor = t
    BY <2>1, <2>2 DEF TypeOK, TaskOK
  <2>3. CASE monitor # t
    <3>1. task'[monitor] = task[monitor]
      BY <2>1, <2>3 DEF TypeOK, TaskOK
    <3>. QED
      BY <1>1, <2>1, <3>1 DEF OwnerInv, MonitorInPlace, Lost
  <2>. QED
    BY <2>2, <2>3
<1>. QED
  BY <1>1, OwnerKept

\* The same, for a step that also writes a slot of another kind.
LEMMA OwnerWriteTwo ==
  ASSUME TypeOK, OwnerInv, closed => closed', generation' = generation,
         monitor' \in {monitor, None}, douyinLive' \in {douyinLive, None},
         NEW t \in Task, NEW v, NEW u \in Task \ MonitorTask, NEW w,
         task' = [task EXCEPT ![t] = v, ![u] = w],
         t \in MonitorTask => v.pc \notin Lost /\ v.gen = task[t].gen
  PROVE  OwnerInv'
<1>1. ASSUME monitor' # None
      PROVE  /\ task'[monitor].pc \notin Lost
             /\ task'[monitor].gen = task[monitor].gen
  <2>1. monitor' = monitor /\ monitor \in Task /\ monitor \in MonitorTask
    BY <1>1 DEF TypeOK, Task
  <2>2. CASE monitor = t
    BY <2>1, <2>2 DEF TypeOK, TaskOK
  <2>3. CASE monitor # t
    <3>1. task'[monitor] = task[monitor]
      BY <2>1, <2>3 DEF TypeOK, TaskOK
    <3>. QED
      BY <1>1, <2>1, <3>1 DEF OwnerInv, MonitorInPlace, Lost
  <2>. QED
    BY <2>2, <2>3
<1>. QED
  BY <1>1, OwnerKept

\* Only the slots of monitor tasks can be the monitor in place.
LEMMA KindsDisjoint ==
  (InitTask \cup RunTask \cup StartTask \cup CleanupTask \cup SlowTask)
    \cap MonitorTask = {}
BY TaskAssumption

\* ConnStep keeps the monitor in place and the room to one owner.
LEMMA ConnStepOwner ==
  ASSUME TypeOK, OwnerInv, NEW c \in Client, ConnStep(c)
  PROVE  OwnerInv'
<1>1. UNCHANGED <<generation, monitor, douyinLive>> /\ (closed => closed')
  <2>1. CASE ReleaseCheck(c)
    BY <2>1 DEF ReleaseCheck, RemoveIfIdle, session
  <2>2. CASE Reserve(c) \/ ReleaseReservation(c) \/ AddClient(c) \/ StartInit(c)
    BY <2>2 DEF Reserve, ReleaseReservation, AddClient, StartInit, session, closing
  <2>3. CASE Drop(c) \/ CountAfterDrop(c) \/ SpawnCleanup(c)
    BY <2>3 DEF Drop, CountAfterDrop, SpawnCleanup, session, closing
  <2>. QED
    BY <2>1, <2>2, <2>3 DEF ConnStep
<1>2. CASE UNCHANGED task
  BY <1>1, <1>2 DEF OwnerInv, MonitorInPlace, OneOwner
<1>3. CASE ~closed /\ StartInit(c)
  <2>1. Slot(InitTask) \in Task \ MonitorTask
    BY <1>3, SlotIsFree, KindsDisjoint DEF StartInit, Task
  <2>2. PICK v : task' = [task EXCEPT ![Slot(InitTask)] = v]
    BY <1>3 DEF StartInit
  <2>3. monitor' # Slot(InitTask)
    BY <1>1, <2>1, TaskAssumption DEF TypeOK
  <2>. QED
    BY <1>1, <2>1, <2>2, <2>3, OwnerWrite
<1>4. CASE ~closed /\ SpawnCleanup(c)
  <2>1. Slot(CleanupTask) \in Task \ MonitorTask
    BY <1>4, SlotIsFree, KindsDisjoint DEF SpawnCleanup, Task
  <2>2. PICK v : task' = [task EXCEPT ![Slot(CleanupTask)] = v]
    BY <1>4 DEF SpawnCleanup
  <2>3. monitor' # Slot(CleanupTask)
    BY <1>1, <2>1, TaskAssumption DEF TypeOK
  <2>. QED
    BY <1>1, <2>1, <2>2, <2>3, OwnerWrite
<1>. QED
  BY <1>2, <1>3, <1>4
  DEF ConnStep, Reserve, ReleaseReservation, ReleaseCheck, AddClient, StartInit,
      Drop, CountAfterDrop, SpawnCleanup

\* SlowStep keeps the monitor in place and the room to one owner.
LEMMA SlowStepOwner ==
  ASSUME TypeOK, OwnerInv
  PROVE  /\ \A S \in SUBSET Slow : RemoveSlow(S) => OwnerInv'
         /\ \A t \in SlowTask : SpawnSlow(t) => OwnerInv'
<1>1. ASSUME NEW S \in SUBSET Slow, RemoveSlow(S)
      PROVE  OwnerInv'
  <2>1. Slot(SlowTask) \in Task \ MonitorTask
    BY <1>1, SlotIsFree, KindsDisjoint DEF RemoveSlow, Task
  <2>2. PICK v : task' = [task EXCEPT ![Slot(SlowTask)] = v]
    BY <1>1 DEF RemoveSlow
  <2>3. UNCHANGED <<generation, monitor, douyinLive, closed>>
    BY <1>1 DEF RemoveSlow, session, closing
  <2>4. monitor' # Slot(SlowTask)
    BY <2>1, <2>3, TaskAssumption DEF TypeOK
  <2>. QED
    BY <2>1, <2>2, <2>3, <2>4, OwnerWrite
<1>2. ASSUME NEW t \in SlowTask, SpawnSlow(t)
      PROVE  OwnerInv'
  <2>1. t \in Task \ MonitorTask
    BY KindsDisjoint DEF Task
  <2>2. PICK v : task' = [task EXCEPT ![t] = v]
    BY <1>2 DEF SpawnSlow
  <2>3. UNCHANGED <<generation, monitor, douyinLive, closed>>
    BY <1>2 DEF SpawnSlow, session, closing
  <2>4. monitor' # t
    BY <2>1, <2>3, TaskAssumption DEF TypeOK
  <2>. QED
    BY <2>1, <2>2, <2>3, <2>4, OwnerWrite
<1>. QED
  BY <1>1, <1>2

\* Cleanup keeps the monitor in place and the room to one owner.
LEMMA CleanupOwner ==
  ASSUME TypeOK, OwnerInv, NEW t \in Task, Cleanup(t)
  PROVE  OwnerInv'
<1>1. CASE Detach(t)
  <2>1. CASE closed \/ ~IdleClients
    <3>1. UNCHANGED <<generation, monitor, douyinLive, closed>> /\ End(t)
      BY <1>1, <2>1 DEF Detach, session, closing
    <3>2. monitor' # t
      BY <1>1, <3>1, TaskAssumption DEF Detach, OwnerInv, MonitorInPlace
    <3>. QED
      BY <3>1, <3>2, OwnerWrite DEF End
  <2>2. CASE ~(closed \/ ~IdleClients)
    BY <1>1, <2>2 DEF Detach, OwnerInv, MonitorInPlace, OneOwner
  <2>. QED
    BY <2>1, <2>2
<1>2. CASE Dispose(t)
  <2>1. UNCHANGED <<generation, monitor, douyinLive, closed>>
    BY <1>2 DEF Dispose, session, closing
  <2>2. CASE t \in MonitorTask
    <3>. DEFINE v == [Step(t, "finish") EXCEPT !.p = None]
    <3>1. v.pc = "finish" /\ v.gen = task[t].gen
      BY DEF Step, TypeOK, TaskOK, TaskState
    <3>2. task' = [task EXCEPT ![t] = v]
      BY <1>2, <2>2 DEF Dispose
    <3>. HIDE DEF v
    <3>. QED
      BY <2>1, <3>1, <3>2, OwnerWrite DEF Lost
  <2>3. CASE t \notin MonitorTask
    <3>1. monitor' # t
      BY <2>1, <2>3, TaskAssumption DEF TypeOK
    <3>. QED
      BY <1>2, <2>1, <2>3, <3>1, OwnerWrite DEF Dispose
  <2>. QED
    BY <2>2, <2>3
<1>3. CASE EndTask(t)
  <2>1. UNCHANGED <<generation, monitor, douyinLive>> /\ (closed => closed')
    BY <1>3 DEF EndTask, RemoveIfIdle, session
  <2>2. monitor' # t
    BY <1>3, <2>1, TaskAssumption DEF EndTask, OwnerInv, MonitorInPlace
  <2>. QED
    BY <1>3, <2>1, <2>2, OwnerWrite DEF EndTask
<1>. QED
  BY <1>1, <1>2, <1>3 DEF Cleanup

\* StartSession keeps the monitor in place and the room to one owner.
LEMMA StartSessionOwner ==
  ASSUME TypeOK, OwnerInv, NEW t \in InitTask \cup MonitorTask, StartSession(t)
  PROVE  OwnerInv'
<1>. DEFINE Keeps(v) == v.pc \notin Lost /\ v.gen = task[t].gen
            Writes(v) == task' = [task EXCEPT ![t] = v]
<1>1. t \in Task /\ StartPc \cap Lost = {} /\ "result" \notin Lost
  BY DEF Task, StartPc, Lost
<1>2. \A out : Keeps(Finished(t, out))
  BY <1>1, Fields DEF TypeOK
<1>3. \A pc : pc \notin Lost => Keeps(Step(t, pc))
  BY <1>1, Fields DEF TypeOK
<1>4. CASE PromoteProbe(t)
  <2>1. PICK v : Writes(v) /\ Keeps(v)
    <3>1. CASE Goto(t, "check")
      BY <1>1, <1>3, <3>1 DEF Goto, StartPc
    <3>2. CASE ~Goto(t, "check")
      <4>. DEFINE v == [Step(t, "discard") EXCEPT !.out = "inactive"]
      <4>1. Writes(v)
        BY <1>4, <3>2 DEF PromoteProbe
      <4>2. Keeps(v)
        BY <1>1 DEF Step, TypeOK, TaskOK, TaskState, Lost
      <4>. QED
        BY <4>1, <4>2
    <3>. QED
      BY <3>1, <3>2
  <2>2. UNCHANGED <<generation, closed>>
    BY <1>4 DEF PromoteProbe, closing
  <2>3. CASE Current(task[t].gen) /\ probeLive = task[t].d
    <3>1. monitor' = None
      BY <1>4, <2>3 DEF PromoteProbe, OwnerInv, MonitorInPlace, Current
    <3>. QED
      BY <3>1 DEF OwnerInv, MonitorInPlace, OneOwner
  <2>4. CASE ~(Current(task[t].gen) /\ probeLive = task[t].d)
    <3>1. UNCHANGED <<monitor, douyinLive>>
      BY <1>4, <2>4 DEF PromoteProbe
    <3>. HIDE DEF Writes, Keeps
    <3>2. task' = [task EXCEPT ![t] = v] /\ v.pc \notin Lost /\ v.gen = task[t].gen
      BY <2>1 DEF Writes, Keeps
    <3>. QED
      BY <1>1, <2>2, <3>1, <3>2, OwnerWrite
  <2>. QED
    BY <2>3, <2>4
<1>5. CASE LaunchRun(t) /\ Current(task[t].gen)
  <2>1. PICK w : task' = [task EXCEPT ![t] = Finished(t, "ok"), ![Slot(RunTask)] = w]
    BY <1>5 DEF LaunchRun
  <2>2. Slot(RunTask) \in Task \ MonitorTask
    BY <1>5, SlotIsFree, KindsDisjoint DEF LaunchRun, Task
  <2>3. UNCHANGED <<generation, monitor, douyinLive, closed>>
    BY <1>5 DEF LaunchRun, session, closing
  <2>. QED
    BY <1>1, <1>2, <2>1, <2>2, <2>3, OwnerWriteTwo
<1>6. CASE ~PromoteProbe(t) /\ ~(LaunchRun(t) /\ Current(task[t].gen))
  <2>1. /\ UNCHANGED <<generation, monitor, closed>>
        /\ douyinLive' \in {douyinLive, None}
    BY <1>6 DEF StartSession, Acquire, CreateFails, Create, Prepare, Commit,
                ResetProbeFailures, RecordProbeFailure, DiscardProbe,
                CheckAdopted, DisposePendingLive, LaunchRun, session, closing
  <2>2. \E v : Writes(v) /\ Keeps(v)
    <3>1. CASE \E out : Writes(Finished(t, out))
      BY <1>2, <3>1
    <3>2. CASE \E pc \in StartPc : Goto(t, pc)
      BY <1>1, <1>3, <3>2 DEF Goto
    <3>3. CASE \E i : Writes([Step(t, "prepare") EXCEPT !.d = i])
      <4>1. \A i : Keeps([Step(t, "prepare") EXCEPT !.d = i])
        BY <1>1 DEF Step, TypeOK, TaskOK, TaskState, Lost
      <4>. QED
        BY <3>3, <4>1
    <3>4. CASE \E out : \E pc \in StartPc : Writes([Step(t, pc) EXCEPT !.out = out])
      <4>1. \A out : \A pc \in StartPc : Keeps([Step(t, pc) EXCEPT !.out = out])
        BY <1>1 DEF Step, TypeOK, TaskOK, TaskState, Lost
      <4>. QED
        BY <3>4, <4>1
    <3>5. CASE Acquire(t) \/ CreateFails(t) \/ Create(t)
      BY <3>5, <3>1, <3>2, <3>3 DEF Acquire, CreateFails, Create, Goto, StartPc
    <3>6. CASE Prepare(t)
      <4>1. PICK pc \in {"commit", "discard", "record"},
                 out \in {"live", "offline", "missing", "unknown", "failed"} :
                   task' = [task EXCEPT ![t] = [Step(t, pc) EXCEPT !.out = out]]
        BY <3>6 DEF Prepare
      <4>2. pc \in StartPc
        BY DEF StartPc
      <4>3. Writes([Step(t, pc) EXCEPT !.out = out])
        BY <4>1
      <4>. HIDE DEF Writes, Keeps
      <4>. QED
        BY <4>2, <4>3, <3>4
    <3>7. CASE Commit(t) \/ ResetProbeFailures(t) \/ RecordProbeFailure(t)
      BY <3>7, <3>1, <3>2
      DEF Commit, ResetProbeFailures, RecordProbeFailure, Goto, StartPc
    <3>8. CASE DiscardProbe(t) \/ CheckAdopted(t) \/ DisposePendingLive(t)
               \/ (LaunchRun(t) /\ ~Current(task[t].gen))
      BY <3>8, <3>1, <3>2
      DEF DiscardProbe, CheckAdopted, DisposePendingLive, LaunchRun, StartPc
    <3>. QED
      BY <1>6, <3>5, <3>6, <3>7, <3>8 DEF StartSession
  <2>3. PICK v : task' = [task EXCEPT ![t] = v]
                 /\ v.pc \notin Lost /\ v.gen = task[t].gen
    BY <2>2
  <2>. QED
    BY <1>1, <2>1, <2>3, OwnerWrite
<1>. QED
  BY <1>4, <1>5, <1>6

\* A monitor loop is only installed when nothing streams, in an open room, for
\* the current generation.
LEMMA InstallMonitorOwner ==
  ASSUME TypeOK, OwnerInv, NEW t \in InitTask \cup RunTask,
         Current(task[t].gen), douyinLive' = None,
         InstallMonitor(t, task[t].gen), UNCHANGED <<generation, closed>>
  PROVE  OwnerInv'
<1>1. t \in Task \ MonitorTask
  BY KindsDisjoint DEF Task
<1>2. monitor # t
  BY <1>1, TaskAssumption DEF TypeOK
<1>3. CASE monitor # None
  BY <1>1, <1>2, <1>3, OwnerWrite DEF InstallMonitor, End
<1>4. CASE monitor = None
  <2>. DEFINE m == Slot(MonitorTask)
              w == NewTask("installed", task[t].gen, None)
  <2>1. m \in MonitorTask /\ m \in Task
    BY <1>4, SlotIsFree DEF InstallMonitor, Task
  <2>2. w.pc = "installed" /\ w.gen = task[t].gen
    BY DEF NewTask
  <2>3. PICK v : task' = [task EXCEPT ![t] = v, ![m] = w]
    BY <1>4 DEF InstallMonitor
  <2>4. monitor' = m
    BY <1>4 DEF InstallMonitor
  <2>. HIDE DEF m, w
  <2>5. task'[m] = w
    BY <1>1, <2>1, <2>3 DEF TypeOK, TaskOK
  <2>6. MonitorInPlace'
    BY <2>2, <2>4, <2>5 DEF MonitorInPlace, Current
  <2>. QED
    BY <2>6 DEF OwnerInv, OneOwner
<1>. QED
  BY <1>3, <1>4

\* LaunchMonitor keeps the monitor in place and the room to one owner.
LEMMA LaunchMonitorOwner ==
  ASSUME TypeOK, OwnerInv, NEW t \in InitTask \cup RunTask, LaunchMonitor(t)
  PROVE  OwnerInv'
<1>. DEFINE m == task[t].loop
<1>1. t \in Task /\ monitor # t
  BY KindsDisjoint, TaskAssumption DEF Task, TypeOK
<1>2. UNCHANGED <<generation, douyinLive, closed>>
  BY DEF LaunchMonitor, closing
<1>3. CASE Current(task[m].gen)
  <2>. DEFINE w == Step(m, "select")
  <2>1. task' = [task EXCEPT ![t] = Ended, ![m] = w] /\ monitor' = monitor
    BY <1>3 DEF LaunchMonitor
  <2>2. m \in Task => w.pc = "select" /\ w.gen = task[m].gen
    BY Fields DEF TypeOK
  <2>. HIDE DEF m, w
  <2>3. ASSUME monitor # None
        PROVE  task'[monitor].pc \notin Lost /\ task'[monitor].gen = task[monitor].gen
    <3>1. monitor \in Task
      BY <2>3 DEF TypeOK, Task
    <3>2. CASE monitor = m
      BY <2>1, <2>2, <3>1, <3>2 DEF TypeOK, TaskOK, Lost
    <3>3. CASE monitor # m
      <4>1. task'[monitor] = task[monitor]
        BY <1>1, <2>1, <3>1, <3>3 DEF TypeOK, TaskOK
      <4>. QED
        BY <2>3, <4>1 DEF OwnerInv, MonitorInPlace, Lost
    <3>. QED
      BY <3>2, <3>3
  <2>. QED
    BY <1>2, <2>1, <2>3, OwnerKept
<1>4. CASE ~Current(task[m].gen)
  <2>1. /\ task' = [task EXCEPT ![t] = Ended, ![m] = FreeTask]
        /\ monitor' = IF monitor = m THEN None ELSE monitor
    BY <1>4 DEF LaunchMonitor
  <2>. HIDE DEF m
  <2>2. ASSUME monitor' # None
        PROVE  task'[monitor].pc \notin Lost /\ task'[monitor].gen = task[monitor].gen
    <3>1. monitor \in Task /\ monitor # m /\ monitor # None
      BY <2>1, <2>2 DEF TypeOK, Task
    <3>2. task'[monitor] = task[monitor]
      BY <1>1, <2>1, <3>1 DEF TypeOK, TaskOK
    <3>. QED
      BY <3>1, <3>2 DEF OwnerInv, MonitorInPlace, Lost
  <2>. QED
    BY <1>2, <2>1, <2>2, OwnerKept
<1>. QED
  BY <1>3, <1>4

\* A generation that fails takes the monitor of that generation with it.
LEMMA FailGenerationOwner ==
  ASSUME TypeOK, OwnerInv, NEW t \in InitTask \cup MonitorTask,
         FailGeneration(t)
  PROVE  OwnerInv'
<1>1. CASE Current(task[t].gen)
  <2>1. monitor' = None
    BY <1>1 DEF FailGeneration, OwnerInv, MonitorInPlace, Current
  <2>. QED
    BY <2>1 DEF OwnerInv, MonitorInPlace, OneOwner
<1>2. CASE ~Current(task[t].gen)
  <2>1. UNCHANGED <<generation, monitor, douyinLive, closed>>
    BY <1>2 DEF FailGeneration, closing
  <2>2. t \in Task
    BY DEF Task
  <2>3. CASE t \in MonitorTask
    <3>1. task' = [task EXCEPT ![t] = Step(t, "finish")]
      BY <1>2, <2>3 DEF FailGeneration, Goto
    <3>2. Step(t, "finish").pc \notin Lost /\ Step(t, "finish").gen = task[t].gen
      BY <2>2, Fields DEF TypeOK, Lost
    <3>. QED
      BY <2>1, <2>2, <3>1, <3>2, OwnerWrite
  <2>4. CASE t \notin MonitorTask
    <3>1. monitor' # t
      BY <2>1, <2>2, <2>4, TaskAssumption DEF TypeOK
    <3>. QED
      BY <1>2, <2>1, <2>2, <2>4, <3>1, OwnerWrite DEF FailGeneration, End
  <2>. QED
    BY <2>3, <2>4
<1>. QED
  BY <1>1, <1>2

\* InitStep keeps the monitor in place and the room to one owner.
LEMMA InitStepOwner ==
  ASSUME TypeOK, OwnerInv, NEW t \in InitTask, InitStep(t)
  PROVE  OwnerInv'
<1>1. t \in Task /\ monitor # t /\ t # None
  BY KindsDisjoint, TaskAssumption DEF Task, TypeOK
<1>2. ASSUME UNCHANGED <<generation, monitor, closed>>,
             douyinLive' \in {douyinLive, None},
             NEW v, task' = [task EXCEPT ![t] = v]
      PROVE  OwnerInv'
  BY <1>1, <1>2, OwnerWrite
<1>3. CASE InitStarted(t)
  BY <1>2, <1>3 DEF InitStarted, closing
<1>4. CASE InitCount(t)
  BY <1>2, <1>4 DEF InitCount, End, ToDetach, session, closing
<1>5. CASE TransitionToMonitor(t)
  <2>1. UNCHANGED <<generation, douyinLive, closed>>
    BY <1>5 DEF TransitionToMonitor, closing
  <2>2. CASE (End(t) \/ ToDetach(t)) /\ UNCHANGED monitor
    BY <1>2, <2>1, <2>2 DEF End, ToDetach
  <2>3. CASE ~((End(t) \/ ToDetach(t)) /\ UNCHANGED monitor)
    <3>1. /\ Current(task[t].gen) /\ douyinLive = None
          /\ InstallMonitor(t, task[t].gen)
      BY <1>5, <2>3 DEF TransitionToMonitor
    <3>. QED
      BY <2>1, <3>1, InstallMonitorOwner
  <2>. QED
    BY <2>2, <2>3
<1>. QED
  BY <1>1, <1>3, <1>4, <1>5, StartSessionOwner, FailGenerationOwner,
     LaunchMonitorOwner, CleanupOwner DEF InitStep

\* MonitorStep keeps the monitor in place and the room to one owner.
LEMMA MonitorStepOwner ==
  ASSUME TypeOK, OwnerInv, NEW t \in MonitorTask, MonitorStep(t)
  PROVE  OwnerInv'
<1>1. t \in Task
  BY DEF Task
<1>2. CASE MonitorStopped(t) \/ NotifyTick(t) \/ PollTick(t)
  <2>1. PICK pc \in {"finish", "acquire"} : Goto(t, pc)
    BY <1>2 DEF MonitorStopped, NotifyTick, PollTick
  <2>2. Step(t, pc).pc \notin Lost /\ Step(t, pc).gen = task[t].gen
    BY <1>1, Fields DEF TypeOK, Lost
  <2>3. UNCHANGED <<generation, monitor, douyinLive, closed>>
    BY <1>2 DEF MonitorStopped, NotifyTick, PollTick, session, closing
  <2>. QED
    BY <1>1, <2>1, <2>2, <2>3, OwnerWrite DEF Goto
<1>3. CASE MonitorResult(t)
  <2>. DEFINE v(pc) == [Step(t, pc) EXCEPT !.out = "none"]
  <2>1. PICK pc \in {"finish", "fail", "select"} : task' = [task EXCEPT ![t] = v(pc)]
    BY <1>3 DEF MonitorResult
  <2>2. v(pc).pc = pc /\ v(pc).gen = task[t].gen
    BY <1>1 DEF Step, TypeOK, TaskOK, TaskState
  <2>3. UNCHANGED <<generation, monitor, douyinLive, closed>>
    BY <1>3 DEF MonitorResult, closing
  <2>. HIDE DEF v
  <2>. QED
    BY <1>1, <2>1, <2>2, <2>3, OwnerWrite DEF Lost
<1>4. CASE FinishMonitor(t)
  <2>1. UNCHANGED <<generation, douyinLive, closed>> /\ monitor' \in {monitor, None}
    BY <1>4 DEF FinishMonitor, closing
  <2>2. monitor' # t
    BY <1>1, <1>4, TaskAssumption DEF FinishMonitor
  <2>. QED
    BY <1>1, <1>4, <2>1, <2>2, OwnerWrite DEF FinishMonitor, End
<1>. QED
  BY <1>1, <1>2, <1>3, <1>4, StartSessionOwner, FailGenerationOwner, CleanupOwner
  DEF MonitorStep

\* RunStep keeps the monitor in place and the room to one owner.
LEMMA RunStepOwner ==
  ASSUME TypeOK, OwnerInv, NEW t \in RunTask, RunStep(t)
  PROVE  OwnerInv'
<1>1. t \in Task \ MonitorTask /\ monitor # t /\ t # None
  BY KindsDisjoint, TaskAssumption DEF Task, TypeOK
<1>2. ASSUME UNCHANGED <<generation, monitor, closed>>,
             douyinLive' \in {douyinLive, None},
             NEW v, task' = [task EXCEPT ![t] = v]
      PROVE  OwnerInv'
  BY <1>1, <1>2, OwnerWrite
<1>3. CASE StartListener(t)
  <2>1. UNCHANGED <<generation, monitor, douyinLive, closed>>
    BY <1>3 DEF StartListener, session, closing
  <2>2. CASE Current(task[t].gen)
    <3>1. Slot(StartTask) \in Task \ MonitorTask
      BY <1>3, <2>2, SlotIsFree, KindsDisjoint DEF StartListener, Task
    <3>2. PICK v, w : task' = [task EXCEPT ![t] = v, ![Slot(StartTask)] = w]
      BY <1>3, <2>2 DEF StartListener
    <3>. QED
      BY <1>1, <2>1, <3>1, <3>2, OwnerWriteTwo
  <2>3. CASE ~Current(task[t].gen)
    BY <1>2, <1>3, <2>1, <2>3 DEF StartListener, End
  <2>. QED
    BY <2>2, <2>3
<1>4. CASE AwaitReady(t) \/ AwaitReturn(t) \/ MarkUpstreamReady(t)
             \/ DrainTimeout(t)
  BY <1>2, <1>4 DEF AwaitReady, AwaitReturn, MarkUpstreamReady, DrainTimeout, Goto,
                    session, closing
<1>5. CASE EndLiveSession(t)
  <2>1. UNCHANGED <<generation, closed>> /\ douyinLive' \in {douyinLive, None}
    BY <1>5 DEF EndLiveSession, closing
  <2>2. CASE (End(t) \/ ToDetach(t)) /\ UNCHANGED monitor
    BY <1>2, <2>1, <2>2 DEF End, ToDetach
  <2>3. CASE ~((End(t) \/ ToDetach(t)) /\ UNCHANGED monitor)
    <3>1. /\ Current(task[t].gen) /\ douyinLive' = None
          /\ InstallMonitor(t, task[t].gen)
      BY <1>5, <2>3 DEF EndLiveSession, Adopted
    <3>. QED
      BY <2>1, <3>1, InstallMonitorOwner
  <2>. QED
    BY <2>2, <2>3
<1>. QED
  BY <1>1, <1>3, <1>4, <1>5, LaunchMonitorOwner, CleanupOwner DEF RunStep

\* StartStep keeps the monitor in place and the room to one owner.
LEMMA StartStepOwner ==
  ASSUME TypeOK, OwnerInv, NEW t \in StartTask, StartStep(t)
  PROVE  OwnerInv'
<1>1. t \in Task /\ monitor # t /\ t # None
  BY KindsDisjoint, TaskAssumption DEF Task, TypeOK
<1>2. CASE BeginStart(t) \/ DialSucceeds(t) \/ StartReturns(t)
  <2>1. UNCHANGED <<generation, monitor, douyinLive, closed>>
    BY <1>2 DEF BeginStart, DialSucceeds, StartReturns, session, closing
  <2>2. \E v : task' = [task EXCEPT ![t] = v]
    BY <1>2 DEF BeginStart, DialSucceeds, StartReturns, Goto, End
  <2>. QED
    BY <1>1, <2>1, <2>2, OwnerWrite
<1>. QED
  BY <1>1, <1>2, CleanupOwner DEF StartStep

\* Close keeps the monitor in place and the room to one owner.
LEMMA CloseOwner ==
  ASSUME TypeOK, OwnerInv, Close \/ CloseStep
  PROVE  OwnerInv'
BY DEF Close, CloseStep, CloseClients, CloseListeners, CloseWait, OwnerInv,
       MonitorInPlace, OneOwner, session

-----------------------------------------------------------------------------
(* The theorems.                                                           *)

\* The invariant holds in an empty room.
LEMMA RoomInit == Init => RoomInv
<1>. SUFFICES ASSUME Init
              PROVE  RoomInv
  OBVIOUS
<1>1. FreeTask \in TaskState /\ FreeTask.pc = "free"
  BY FreeTaskType
<1>. HIDE DEF FreeTask
<1>2. TaskOK
  BY <1>1, KindPc DEF Init, TaskOK
<1>3. TypeOK
  <2>1. 0 \in 0..RotateAfter /\ <<None, None>> \in (Inst \cup {None}) \X (Inst \cup {None})
    BY OptionAssumption
  <2>2. conn \in [Client -> Conn] /\ since \in [Client -> Nat]
    BY DEF Init, Conn
  <2>. QED
    BY <1>2, <2>1, <2>2 DEF Init, TypeOK
<1>4. CarriesInstance
  BY <1>1 DEF Init, CarriesInstance, CarryPc, StartPc
<1>. QED
  BY <1>3, <1>4 DEF Init, RoomInv, MonitorInPlace, OneOwner

\* Every step of every goroutine preserves it.
LEMMA RoomStep == RoomInv /\ [Next]_vars => RoomInv'
<1>. SUFFICES ASSUME RoomInv, [Next]_vars
              PROVE  RoomInv'
  OBVIOUS
<1>. USE DEF RoomInv
<1>0. OwnerInv
  BY DEF OwnerInv
<1>1. ASSUME NEW c \in Client, ConnStep(c)
      PROVE  RoomInv'
  <2>1. TypeOK'
    BY <1>1, ReserveType, ReleaseReservationType, ReleaseCheckType,
       AddClientType, StartInitType, DropType, CountAfterDropType,
       SpawnCleanupType DEF ConnStep
  <2>. QED
    BY <1>0, <1>1, <2>1, ConnStepCarries, ConnStepOwner DEF OwnerInv
<1>2. ASSUME NEW S \in SUBSET Slow, RemoveSlow(S)
      PROVE  RoomInv'
  BY <1>0, <1>2, RemoveSlowType, SlowStepCarries, SlowStepOwner DEF OwnerInv
<1>3. ASSUME NEW t \in Task, Cleanup(t)
      PROVE  RoomInv'
  BY <1>0, <1>3, CleanupType, CleanupCarries, CleanupOwner DEF OwnerInv
<1>4. ASSUME NEW t \in InitTask, InitStep(t)
      PROVE  RoomInv'
  <2>1. TypeOK'
    BY <1>3, <1>4, StartSessionType, InitStartedType, InitCountType,
       FailGenerationType, TransitionToMonitorType, LaunchMonitorType
    DEF InitStep, Task
  <2>. QED
    BY <1>0, <1>4, <2>1, InitStepCarries, InitStepOwner DEF OwnerInv
<1>5. ASSUME NEW t \in MonitorTask, MonitorStep(t)
      PROVE  RoomInv'
  <2>1. TypeOK'
    BY <1>3, <1>5, MonitorStoppedType, NotifyTickType, PollTickType,
       StartSessionType, MonitorResultType, FailGenerationType,
       FinishMonitorType DEF MonitorStep, Task
  <2>. QED
    BY <1>0, <1>5, <2>1, MonitorStepCarries, MonitorStepOwner DEF OwnerInv
<1>6. ASSUME NEW t \in RunTask, RunStep(t)
      PROVE  RoomInv'
  <2>1. TypeOK'
    BY <1>3, <1>6, StartListenerType, AwaitReadyType, AwaitReturnType,
       MarkUpstreamReadyType, DrainTimeoutType, EndLiveSessionType,
       LaunchMonitorType DEF RunStep, Task
  <2>. QED
    BY <1>0, <1>6, <2>1, RunStepCarries, RunStepOwner DEF OwnerInv
<1>7. ASSUME NEW t \in StartTask, StartStep(t)
      PROVE  RoomInv'
  <2>1. t \in Task /\ {"begin", "dial", "stream"} \subseteq CarryPc
    BY DEF Task, CarryPc
  <2>2. BeginStart(t) \/ DialSucceeds(t) \/ StartReturns(t) => task[t].d \in Inst
    BY <2>1 DEF BeginStart, DialSucceeds, StartReturns, CarriesInstance
  <2>3. TypeOK'
    BY <1>3, <1>7, <2>1, <2>2, BeginStartType, DialSucceedsType,
       StartReturnsType DEF StartStep
  <2>. QED
    BY <1>0, <1>7, <2>3, StartStepCarries, StartStepOwner DEF OwnerInv
<1>8. ASSUME NEW t \in SlowTask, SlowStep(t)
      PROVE  RoomInv'
  <2>1. t \in Task
    BY DEF Task
  <2>2. CASE SpawnSlow(t)
    BY <1>0, <2>2, SpawnSlowType, SlowStepCarries, SlowStepOwner DEF OwnerInv
  <2>. QED
    BY <1>3, <1>8, <2>1, <2>2 DEF SlowStep
<1>9. CASE Close \/ CloseStep
  <2>1. UNCHANGED task
    BY <1>9 DEF Close, CloseStep, CloseClients, CloseListeners, CloseWait
  <2>2. CarriesInstance'
    BY <2>1 DEF CarriesInstance
  <2>. QED
    BY <1>0, <1>9, <2>2, CloseType, CloseStepType, CloseOwner DEF OwnerInv
<1>10. CASE UNCHANGED vars
  <2>1. TypeOK'
    BY <1>10 DEF vars, session, listeners, downstream, closing, TypeOK, TaskOK
  <2>2. CarriesInstance'
    BY <1>10 DEF vars, CarriesInstance
  <2>3. MonitorInPlace' /\ OneOwner'
    BY <1>10 DEF vars, session, closing, MonitorInPlace, OneOwner
  <2>. QED
    BY <2>1, <2>2, <2>3
<1>11. \A t \in CleanupTask : t \in Task
  BY DEF Task
<1>. QED
  BY <1>1, <1>2, <1>3, <1>4, <1>5, <1>6, <1>7, <1>8, <1>9, <1>10, <1>11 DEF Next

\* Every reachable state of the room satisfies the inductive invariant.
THEOREM RoomInvariant == Spec => []RoomInv
<1>. QED
  BY RoomInit, RoomStep, PTL DEF Spec

\* Type correctness: in particular a listener's Start, its readiness and its
\* return are always those of an instance.
THEOREM TypeCorrect == Spec => []TypeOK
<1>1. RoomInv => TypeOK
  BY DEF RoomInv
<1>. QED
  BY <1>1, RoomInvariant, PTL

\* The room never polls and streams at once, and the monitor in place is never
\* one of a generation that has been retired.
THEOREM SingleOwner == Spec => []OneUpstreamOwner
<1>1. RoomInv => OneUpstreamOwner
  BY DEF RoomInv, MonitorInPlace, OneOwner, OneUpstreamOwner
<1>. QED
  BY <1>1, RoomInvariant, PTL

\* A generation is retired by two steps only, and neither leaves a client
\* behind: the cleanup, which saw that there is none, and the failed start,
\* which closes them all.
THEOREM RetiresNobody == Spec => GenerationRetiresNobody
<1>1. ASSUME [Next]_vars, generation' # generation
      PROVE  clients' = {}
  <2>1. ASSUME NEW t, Cleanup(t)
        PROVE  clients' = {}
    BY <1>1, <2>1 DEF Cleanup, Detach, Dispose, EndTask, IdleClients, session,
                      downstream
  <2>2. ASSUME NEW t, StartSession(t)
        PROVE  FALSE
    BY <1>1, <2>2
    DEF StartSession, Acquire, CreateFails, Create, Prepare, Commit,
        ResetProbeFailures, RecordProbeFailure, DiscardProbe, PromoteProbe,
        CheckAdopted, DisposePendingLive, LaunchRun, session
  <2>3. ASSUME NEW t, FailGeneration(t)
        PROVE  clients' = {}
    BY <1>1, <2>3 DEF FailGeneration
  <2>4. ASSUME NEW t, LaunchMonitor(t)
        PROVE  FALSE
    BY <1>1, <2>4 DEF LaunchMonitor
  <2>5. ASSUME NEW c, ConnStep(c)
        PROVE  FALSE
    BY <1>1, <2>5
    DEF ConnStep, Reserve, ReleaseReservation, ReleaseCheck, AddClient,
        StartInit, Drop, CountAfterDrop, SpawnCleanup, session
  <2>6. ASSUME NEW t, InitStep(t)
        PROVE  clients' = {}
    BY <1>1, <2>1, <2>2, <2>3, <2>4, <2>6
    DEF InitStep, InitStarted, InitCount, TransitionToMonitor, session
  <2>7. ASSUME NEW t, MonitorStep(t)
        PROVE  clients' = {}
    BY <1>1, <2>1, <2>2, <2>3, <2>7
    DEF MonitorStep, MonitorStopped, NotifyTick, PollTick, MonitorResult,
        FinishMonitor, session
  <2>8. ASSUME NEW t, RunStep(t)
        PROVE  clients' = {}
    BY <1>1, <2>1, <2>4, <2>8
    DEF RunStep, StartListener, AwaitReady, AwaitReturn, MarkUpstreamReady,
        DrainTimeout, EndLiveSession, session
  <2>9. ASSUME NEW t, StartStep(t) \/ SlowStep(t)
        PROVE  clients' = {}
    BY <1>1, <2>1, <2>9
    DEF StartStep, SlowStep, BeginStart, DialSucceeds, StartReturns, SpawnSlow,
        session
  <2>10. ~(Close \/ CloseStep \/ (\E S \in SUBSET Slow : RemoveSlow(S)))
    BY <1>1 DEF Close, CloseStep, CloseClients, CloseListeners, CloseWait,
                RemoveSlow, session
  <2>. QED
    BY <1>1, <2>1, <2>5, <2>6, <2>7, <2>8, <2>9, <2>10 DEF Next, vars, session
<1>. QED
  BY <1>1, PTL DEF Spec, GenerationRetiresNobody


-----------------------------------------------------------------------------
(***************************************************************************)
(* What the steps do to the slots, without the records: which slots a step *)
(* writes, and the fields that matter of what it writes.                   *)
(***************************************************************************)
Only(S) == \A u \in Task \ S : task'[u] = task[u]

\* One slot is written.
LEMMA WriteEffect ==
  ASSUME TaskOK, NEW t \in Task, NEW v, task' = [task EXCEPT ![t] = v]
  PROVE  Only({t}) /\ task'[t] = v
BY DEF TaskOK, Only

\* Two slots are written.
LEMMA WriteTwoEffect ==
  ASSUME TaskOK, NEW t \in Task, NEW u \in Task, u # t, NEW v, NEW w,
         task' = [task EXCEPT ![t] = v, ![u] = w]
  PROVE  Only({t, u}) /\ task'[t] = v /\ task'[u] = w
BY DEF TaskOK, Only

\* The fields of the states that tasks are given.
LEMMA StateFields ==
  ASSUME TaskOK
  PROVE  /\ \A pc, g, d : /\ NewTask(pc, g, d).pc = pc
                          /\ NewTask(pc, g, d).gen = g
                          /\ NewTask(pc, g, d).d = d
         /\ \A t \in Task : \A pc : /\ Step(t, pc).pc = pc
                                    /\ Step(t, pc).gen = task[t].gen
                                    /\ Step(t, pc).d = task[t].d
         /\ \A t \in Task : \A x : /\ Finished(t, x).pc = "result"
                                   /\ Finished(t, x).gen = task[t].gen
                                   /\ Finished(t, x).out = x
         /\ Ended.pc = "end" /\ FreeTask.pc = "free"
<1>1. \A t \in Task : task[t] \in TaskState
  BY DEF TaskOK
<1>2. \A t \in Task : \A x : Finished(t, x).out = x
  BY <1>1, ZenonT(60) DEF Finished, Step, TaskState
<1>. QED
  BY <1>2, Fields

\* The fields of those that are made from another state.
LEMMA ChangedFields ==
  ASSUME TaskOK
  PROVE  /\ \A pc, g, d, x : LET v == [NewTask(pc, g, d) EXCEPT !.p = x] IN
              v.pc = pc /\ v.gen = g /\ v.d = d /\ v.p = x
         /\ \A pc, g, d, x : LET v == [NewTask(pc, g, d) EXCEPT !.loop = x] IN
              v.pc = pc /\ v.loop = x
         /\ \A t \in Task : \A pc, x : LET v == [Step(t, pc) EXCEPT !.d = x] IN
              v.pc = pc /\ v.gen = task[t].gen /\ v.d = x
         /\ \A t \in Task : \A pc, x : LET v == [Step(t, pc) EXCEPT !.p = x] IN
              v.pc = pc
         /\ \A t \in Task : \A pc, x : LET v == [Step(t, pc) EXCEPT !.out = x] IN
              v.pc = pc /\ v.gen = task[t].gen /\ v.d = task[t].d
<1>1. \A t \in Task : task[t] \in TaskState
  BY DEF TaskOK
<1>2. /\ \A t \in Task : \A pc, x : LET v == [Step(t, pc) EXCEPT !.d = x] IN
              v.pc = pc /\ v.gen = task[t].gen /\ v.d = x
      /\ \A t \in Task : \A pc, x : LET v == [Step(t, pc) EXCEPT !.p = x] IN
              v.pc = pc
  BY <1>1, ZenonT(60) DEF Step, TaskState
<1>3. \A t \in Task : \A pc, x : LET v == [Step(t, pc) EXCEPT !.out = x] IN
              v.pc = pc /\ v.gen = task[t].gen /\ v.d = task[t].d
  BY <1>1, ZenonT(60) DEF Step, TaskState
<1>4. /\ \A pc, g, d, x : LET v == [NewTask(pc, g, d) EXCEPT !.p = x] IN
              v.pc = pc /\ v.gen = g /\ v.d = d /\ v.p = x
      /\ \A pc, g, d, x : LET v == [NewTask(pc, g, d) EXCEPT !.loop = x] IN
              v.pc = pc /\ v.loop = x
  BY ZenonT(60) DEF NewTask
<1>. QED
  BY <1>2, <1>3, <1>4

\* A task moves on with what it has; it has its result; it is done, and carries
\* nothing any more.
Moves(t, pcs) == /\ Only({t}) /\ task'[t].pc \in pcs
                 /\ task'[t].gen = task[t].gen /\ task'[t].d = task[t].d
Results(t) == /\ Only({t}) /\ task'[t].pc = "result"
              /\ task'[t].gen = task[t].gen
Idles(t, pcs) == Only({t}) /\ task'[t].pc \in pcs

\* Goto, End, ToDetach and the result of a start.
LEMMA PlainEffect ==
  ASSUME TaskOK, NEW t \in Task
  PROVE  /\ \A pc : Goto(t, pc) => Moves(t, {pc})
         /\ End(t) => Idles(t, {"end"})
         /\ ToDetach(t) => Idles(t, {"detach"})
         /\ \A x : task' = [task EXCEPT ![t] = Finished(t, x)] =>
                     Results(t) /\ task'[t].out = x
<1>1. ASSUME NEW pc, Goto(t, pc)
      PROVE  Moves(t, {pc})
  <2>1. Only({t}) /\ task'[t] = Step(t, pc)
    BY <1>1, WriteEffect DEF Goto
  <2>. QED
    BY <2>1, StateFields DEF Moves
<1>2. ASSUME End(t)
      PROVE  Idles(t, {"end"})
  BY <1>2, WriteEffect, StateFields DEF End, Idles
<1>3. ASSUME ToDetach(t)
      PROVE  Idles(t, {"detach"})
  <2>1. Only({t}) /\ task'[t] = NewTask("detach", 0, None)
    BY <1>3, WriteEffect DEF ToDetach
  <2>. QED
    BY <2>1, StateFields DEF Idles
<1>4. ASSUME NEW x, task' = [task EXCEPT ![t] = Finished(t, x)]
      PROVE  Results(t) /\ task'[t].out = x
  <2>1. Only({t}) /\ task'[t] = Finished(t, x)
    BY <1>4, WriteEffect
  <2>. QED
    BY <2>1, StateFields DEF Results
<1>. QED
  BY <1>1, <1>2, <1>3, <1>4

\* The cleanup: Detach hands the listener and the probe to Dispose.
LEMMA DetachEffect ==
  ASSUME TaskOK, NEW t \in Task, Detach(t)
  PROVE  \/ Idles(t, {"end"}) /\ UNCHANGED session
         \/ /\ ~closed /\ IdleClients
            /\ Only({t}) /\ task'[t].pc = "dispose"
            /\ task'[t].d = douyinLive /\ task'[t].p = probeLive
<1>1. CASE closed \/ ~IdleClients
  BY <1>1, PlainEffect DEF Detach
<1>2. CASE ~(closed \/ ~IdleClients)
  <2>. DEFINE v == [NewTask("dispose", 0, douyinLive) EXCEPT !.p = probeLive]
  <2>1. v.pc = "dispose" /\ v.d = douyinLive /\ v.p = probeLive
    BY ChangedFields
  <2>2. task' = [task EXCEPT ![t] = v]
    BY <1>2 DEF Detach
  <2>. HIDE DEF v
  <2>. QED
    BY <1>2, <2>1, <2>2, WriteEffect
<1>. QED
  BY <1>1, <1>2

\* Dispose lets go of both; a monitor's task goes on to finish its loop.
LEMMA DisposeEffect ==
  ASSUME TaskOK, NEW t \in Task, Dispose(t)
  PROVE  Only({t}) /\ task'[t].pc = IF t \in MonitorTask THEN "finish" ELSE "end"
<1>. DEFINE v == [Step(t, "finish") EXCEPT !.p = None]
<1>1. v.pc = "finish"
  BY ChangedFields
<1>2. task' = [task EXCEPT ![t] = IF t \in MonitorTask THEN v ELSE Ended]
  BY DEF Dispose
<1>. HIDE DEF v
<1>. QED
  BY <1>1, <1>2, WriteEffect, StateFields

\* A slot becomes free.
LEMMA EndTaskEffect ==
  ASSUME TaskOK, NEW t \in Task, EndTask(t)
  PROVE  Idles(t, {"free"})
BY WriteEffect, StateFields DEF EndTask, Idles

\* A start takes the probe of the room, or goes to create one, or gives up.
LEMMA AcquireEffect ==
  ASSUME TaskOK, NEW t \in Task, Acquire(t)
  PROVE  /\ Only({t}) /\ task'[t].gen = task[t].gen
         /\ \/ task'[t].pc = "result" /\ task'[t].out = "inactive"
            \/ task'[t].pc = "create"
            \/ /\ task'[t].pc = "prepare" /\ task'[t].d = probeLive
               /\ Current(task[t].gen)
<1>. DEFINE v == [Step(t, "prepare") EXCEPT !.d = probeLive]
<1>1. v.pc = "prepare" /\ v.gen = task[t].gen /\ v.d = probeLive
  BY ChangedFields
<1>2. \/ task' = [task EXCEPT ![t] = Finished(t, "inactive")]
      \/ task' = [task EXCEPT ![t] = Step(t, "create")]
      \/ Current(task[t].gen) /\ task' = [task EXCEPT ![t] = v]
  BY DEF Acquire
<1>. HIDE DEF v
<1>3. /\ Only({t})
      /\ \/ task'[t] = Finished(t, "inactive")
         \/ task'[t] = Step(t, "create")
         \/ Current(task[t].gen) /\ task'[t] = v
  BY <1>2, WriteEffect
<1>. QED
  BY <1>1, <1>3, StateFields

\* The same after the second look; a created instance was referred to nowhere.
LEMMA CreateEffect ==
  ASSUME TaskOK, NEW t \in Task, Create(t)
  PROVE  /\ Only({t}) /\ task'[t].gen = task[t].gen
         /\ \/ /\ task'[t].pc = "result" /\ task'[t].out = "inactive"
               /\ UNCHANGED <<probeLive, probeFailures, listeners>>
               /\ ~Current(task[t].gen)
            \/ /\ task'[t].pc = "prepare" /\ task'[t].d = probeLive
               /\ UNCHANGED <<probeLive, probeFailures, listeners>>
               /\ Current(task[t].gen)
            \/ \E i \in FreeInst :
                 /\ task'[t].pc = "prepare" /\ task'[t].d = i
                 /\ probeLive' = i /\ probeLive = None /\ Current(task[t].gen)
                 /\ open' = open \cup {i} /\ held' = held \cup {i}
                 /\ returned' = returned \ {i}
<1>1. CASE Current(task[t].gen) /\ probeLive = None
  <2>1. PICK i \in FreeInst :
               /\ probeLive' = i
               /\ task' = [task EXCEPT ![t] = [Step(t, "prepare") EXCEPT !.d = i]]
               /\ open' = open \cup {i} /\ held' = held \cup {i}
               /\ ready' = ready \ {i} /\ returned' = returned \ {i}
    BY <1>1 DEF Create
  <2>. DEFINE v == [Step(t, "prepare") EXCEPT !.d = i]
  <2>2. v.pc = "prepare" /\ v.gen = task[t].gen /\ v.d = i
    BY ChangedFields
  <2>3. task' = [task EXCEPT ![t] = v]
    BY <2>1
  <2>. HIDE DEF v
  <2>. QED
    BY <1>1, <2>1, <2>2, <2>3, WriteEffect
<1>2. CASE ~(Current(task[t].gen) /\ probeLive = None)
  <2>. DEFINE v == [Step(t, "prepare") EXCEPT !.d = probeLive]
  <2>1. v.pc = "prepare" /\ v.gen = task[t].gen /\ v.d = probeLive
    BY ChangedFields
  <2>2. /\ task' = [task EXCEPT ![t] = IF Current(task[t].gen) THEN v
                                       ELSE Finished(t, "inactive")]
        /\ UNCHANGED <<probeLive, probeFailures, listeners>>
    BY <1>2 DEF Create
  <2>. HIDE DEF v
  <2>3. /\ Only({t})
        /\ task'[t] = IF Current(task[t].gen) THEN v ELSE Finished(t, "inactive")
    BY <2>2, WriteEffect
  <2>. QED
    BY <1>2, <2>1, <2>2, <2>3, StateFields
<1>. QED
  BY <1>1, <1>2

\* What the upstream answered decides where a start goes.
LEMMA PrepareEffect ==
  ASSUME TaskOK, NEW t \in Task, Prepare(t)
  PROVE  Moves(t, {"commit", "discard", "record"})
<1>. DEFINE goes(out, prepared) == IF prepared \/ out = "offline" THEN "commit"
                                   ELSE IF out = "missing" THEN "discard" ELSE "record"
            v(out, prepared) == [Step(t, goes(out, prepared)) EXCEPT !.out = out]
<1>1. \A out, prepared : LET w == v(out, prepared) IN
        /\ w.pc \in {"commit", "discard", "record"}
        /\ w.gen = task[t].gen /\ w.d = task[t].d
  BY ChangedFields
<1>2. \E out \in {"live", "offline", "missing", "unknown", "failed"},
         prepared \in BOOLEAN : task' = [task EXCEPT ![t] = v(out, prepared)]
  BY DEF Prepare
<1>. HIDE DEF v
<1>3. PICK out, prepared : task' = [task EXCEPT ![t] = v(out, prepared)]
  BY <1>2
<1>4. Only({t}) /\ task'[t] = v(out, prepared)
  BY <1>3, WriteEffect
<1>. QED
  BY <1>1, <1>4 DEF Moves

\* Whether the answer is still about the room's probe, too.
LEMMA CommitEffect ==
  ASSUME TaskOK, NEW t \in Task, Commit(t)
  PROVE  Results(t) \/ Moves(t, {"promote", "reset", "record"})
<1>1. \/ task' = [task EXCEPT ![t] = Finished(t, "inactive")]
      \/ \E pc \in {"promote", "reset", "record"} :
           task' = [task EXCEPT ![t] = Step(t, pc)]
  BY DEF Commit
<1>2. /\ Only({t})
      /\ \/ task'[t] = Finished(t, "inactive")
         \/ \E pc \in {"promote", "reset", "record"} : task'[t] = Step(t, pc)
  BY <1>1, WriteEffect
<1>. QED
  BY <1>2, StateFields DEF Moves, Results

\* A start that promotes its probe goes on, one that does not discards it.
LEMMA PromoteEffect ==
  ASSUME TaskOK, NEW t \in Task, PromoteProbe(t)
  PROVE  IF Current(task[t].gen) /\ probeLive = task[t].d
         THEN Moves(t, {"check"}) ELSE Moves(t, {"discard"})
<1>1. CASE Current(task[t].gen) /\ probeLive = task[t].d
  BY <1>1, PlainEffect DEF PromoteProbe
<1>2. CASE ~(Current(task[t].gen) /\ probeLive = task[t].d)
  <2>. DEFINE v == [Step(t, "discard") EXCEPT !.out = "inactive"]
  <2>1. v.pc = "discard" /\ v.gen = task[t].gen /\ v.d = task[t].d
    BY ChangedFields
  <2>2. task' = [task EXCEPT ![t] = v]
    BY <1>2 DEF PromoteProbe
  <2>. HIDE DEF v
  <2>. QED
    BY <1>2, <2>1, <2>2, WriteEffect DEF Moves
<1>. QED
  BY <1>1, <1>2

\* A start hands its listener to a new goroutine, in a slot that was free.
LEMMA LaunchRunEffect ==
  ASSUME TaskOK, NEW t \in InitTask \cup MonitorTask, LaunchRun(t)
  PROVE  \/ ~Current(task[t].gen) /\ Moves(t, {"undo"})
         \/ /\ Current(task[t].gen)
            /\ \E u \in RunTask :
                 /\ task[u].pc = "free" /\ Only({t, u})
                 /\ task'[t].pc = "result" /\ task'[t].out = "ok"
                 /\ task'[t].gen = task[t].gen
                 /\ task'[u].pc = "begin" /\ task'[u].d = task[t].d
                 /\ task'[u].gen = task[t].gen
<1>1. CASE ~Current(task[t].gen)
  BY <1>1, PlainEffect DEF LaunchRun, Task
<1>2. CASE Current(task[t].gen)
  <2>. DEFINE u == Slot(RunTask)
  <2>1. u \in RunTask /\ task[u].pc = "free" /\ u # t /\ u \in Task /\ t \in Task
    BY <1>2, SlotIsFree, TaskAssumption DEF LaunchRun, Task
  <2>2. task' = [task EXCEPT ![t] = Finished(t, "ok"),
                             ![u] = NewTask("begin", task[t].gen, task[t].d)]
    BY <1>2 DEF LaunchRun
  <2>. HIDE DEF u
  <2>3. /\ Only({t, u}) /\ task'[t] = Finished(t, "ok")
        /\ task'[u] = NewTask("begin", task[t].gen, task[t].d)
    BY <2>1, <2>2, WriteTwoEffect
  <2>4. /\ task'[t].pc = "result" /\ task'[t].out = "ok"
        /\ task'[t].gen = task[t].gen
        /\ task'[u].pc = "begin" /\ task'[u].d = task[t].d
        /\ task'[u].gen = task[t].gen
    BY <2>1, <2>3, StateFields
  <2>. QED
    BY <1>2, <2>1, <2>3, <2>4
<1>. QED
  BY <1>1, <1>2

\* An init task that has started a session, or found the room inactive.
LEMMA InitStartedEffect ==
  ASSUME TaskOK, NEW t \in Task, InitStarted(t)
  PROVE  Idles(t, {"count", "end"})
<1>1. \/ task' = [task EXCEPT ![t] = NewTask("count", 0, None)]
      \/ task' = [task EXCEPT ![t] = Ended]
  BY DEF InitStarted
<1>2. Only({t}) /\ task'[t] \in {NewTask("count", 0, None), Ended}
  BY <1>1, WriteEffect
<1>. QED
  BY <1>2, StateFields DEF Idles

\* A failed start retires the generation and disposes of the room's probe.
LEMMA FailEffect ==
  ASSUME TaskOK, NEW t \in Task, FailGeneration(t)
  PROVE  IF Current(task[t].gen)
         THEN /\ Only({t}) /\ task'[t].pc = "dispose"
              /\ task'[t].d = None /\ task'[t].p = probeLive
              /\ task'[t].gen = task[t].gen
         ELSE Idles(t, {IF t \in MonitorTask THEN "finish" ELSE "end"})
<1>1. CASE Current(task[t].gen)
  <2>. DEFINE v == [NewTask("dispose", task[t].gen, None) EXCEPT !.p = probeLive]
  <2>1. v.pc = "dispose" /\ v.gen = task[t].gen /\ v.d = None /\ v.p = probeLive
    BY ChangedFields
  <2>2. task' = [task EXCEPT ![t] = v]
    BY <1>1 DEF FailGeneration
  <2>. HIDE DEF v
  <2>. QED
    BY <1>1, <2>1, <2>2, WriteEffect
<1>2. CASE ~Current(task[t].gen)
  BY <1>2, PlainEffect DEF FailGeneration, Moves, Idles
<1>. QED
  BY <1>1, <1>2

\* A monitor is installed in a slot that was free, with a launcher.
LEMMA InstallEffect ==
  ASSUME TaskOK, NEW t \in InitTask \cup RunTask, NEW g, InstallMonitor(t, g)
  PROVE  \/ monitor # None /\ monitor' = monitor /\ Idles(t, {"end"})
         \/ /\ monitor = None
            /\ \E m \in MonitorTask :
                 /\ task[m].pc = "free" /\ Only({t, m}) /\ monitor' = m
                 /\ task'[t].pc = "monitor" /\ task'[t].loop = m
                 /\ task'[m].pc = "installed" /\ task'[m].gen = g
<1>1. CASE monitor # None
  BY <1>1, PlainEffect DEF InstallMonitor, Task
<1>2. CASE monitor = None
  <2>. DEFINE m == Slot(MonitorTask)
  <2>1. m \in MonitorTask /\ task[m].pc = "free" /\ m # t /\ m \in Task /\ t \in Task
    BY <1>2, SlotIsFree, TaskAssumption DEF InstallMonitor, Task
  <2>. DEFINE v == [NewTask("monitor", 0, None) EXCEPT !.loop = m]
  <2>2. v.pc = "monitor" /\ v.loop = m
    BY ChangedFields
  <2>3. /\ task' = [task EXCEPT ![t] = v, ![m] = NewTask("installed", g, None)]
        /\ monitor' = m
    BY <1>2 DEF InstallMonitor
  <2>. HIDE DEF m, v
  <2>4. Only({t, m}) /\ task'[t] = v /\ task'[m] = NewTask("installed", g, None)
    BY <2>1, <2>3, WriteTwoEffect
  <2>5. task'[m].pc = "installed" /\ task'[m].gen = g
    BY <2>4, StateFields
  <2>. QED
    BY <1>2, <2>1, <2>2, <2>3, <2>4, <2>5
<1>. QED
  BY <1>1, <1>2

\* A launcher starts the loop it installed, or gives its slot back.
LEMMA LaunchMonitorEffect ==
  ASSUME TaskOK, NEW t \in InitTask \cup RunTask, task[t].loop \in MonitorTask,
         LaunchMonitor(t)
  PROVE  LET m == task[t].loop IN
         /\ Only({t, m}) /\ task'[t].pc = "end" /\ task[t].pc = "monitor"
         /\ IF Current(task[m].gen)
            THEN /\ task'[m].pc = "select" /\ task'[m].gen = task[m].gen
                 /\ monitor' = monitor
            ELSE /\ task'[m].pc = "free"
                 /\ monitor' = IF monitor = m THEN None ELSE monitor
<1>. DEFINE m == task[t].loop
<1>1. m \in Task /\ t \in Task /\ m # t
  BY TaskAssumption DEF Task
<1>2. /\ task' = [task EXCEPT ![t] = Ended,
                    ![m] = IF Current(task[m].gen) THEN Step(m, "select") ELSE FreeTask]
      /\ monitor' = IF ~Current(task[m].gen) /\ monitor = m THEN None ELSE monitor
      /\ task[t].pc = "monitor"
  BY DEF LaunchMonitor
<1>. HIDE DEF m
<1>3. /\ Only({t, m}) /\ task'[t] = Ended
      /\ task'[m] = IF Current(task[m].gen) THEN Step(m, "select") ELSE FreeTask
  BY <1>1, <1>2, WriteTwoEffect
<1>. QED
  BY <1>1, <1>2, <1>3, StateFields DEF m

\* A monitor's task that has a result goes on, out of the start.
LEMMA MonitorResultEffect ==
  ASSUME TaskOK, NEW t \in Task, MonitorResult(t)
  PROVE  Idles(t, {"finish", "fail", "select"})
<1>. DEFINE v(pc) == [Step(t, pc) EXCEPT !.out = "none"]
<1>1. \A pc : v(pc).pc = pc
  BY ChangedFields
<1>2. \E pc \in {"finish", "fail", "select"} : task' = [task EXCEPT ![t] = v(pc)]
  BY DEF MonitorResult
<1>. HIDE DEF v
<1>3. Only({t}) /\ \E pc \in {"finish", "fail", "select"} : task'[t] = v(pc)
  BY <1>2, WriteEffect
<1>. QED
  BY <1>1, <1>3 DEF Idles

\* A session gives its listener to a goroutine that starts it, in a free slot.
LEMMA StartListenerEffect ==
  ASSUME TaskOK, NEW t \in RunTask, StartListener(t)
  PROVE  IF Current(task[t].gen)
         THEN /\ UNCHANGED listeners
              /\ \E u \in StartTask :
                   /\ task[u].pc = "free" /\ Only({t, u})
                   /\ task'[t].pc = "await" /\ task'[t].gen = task[t].gen
                   /\ task'[t].d = task[t].d
                   /\ task'[u].pc = "begin" /\ task'[u].d = task[t].d
         ELSE /\ open' = open \ {task[t].d} /\ held' = held \ {task[t].d}
              /\ UNCHANGED returned /\ Idles(t, {"end"})
<1>1. CASE ~Current(task[t].gen)
  BY <1>1, PlainEffect DEF StartListener, Task
<1>2. CASE Current(task[t].gen)
  <2>. DEFINE u == Slot(StartTask)
  <2>1. u \in StartTask /\ task[u].pc = "free" /\ u # t /\ u \in Task /\ t \in Task
    BY <1>2, SlotIsFree, TaskAssumption DEF StartListener, Task
  <2>2. /\ task' = [task EXCEPT ![t] = Step(t, "await"),
                                ![u] = NewTask("begin", 0, task[t].d)]
        /\ UNCHANGED listeners
    BY <1>2 DEF StartListener
  <2>. HIDE DEF u
  <2>3. /\ Only({t, u}) /\ task'[t] = Step(t, "await")
        /\ task'[u] = NewTask("begin", 0, task[t].d)
    BY <2>1, <2>2, WriteTwoEffect
  <2>4. /\ task'[t].pc = "await" /\ task'[t].gen = task[t].gen
        /\ task'[t].d = task[t].d
        /\ task'[u].pc = "begin" /\ task'[u].d = task[t].d
    BY <2>1, <2>3, StateFields
  <2>. QED
    BY <1>2, <2>1, <2>2, <2>3, <2>4
<1>. QED
  BY <1>1, <1>2

\* A batch of slow clients that is handed to a task, or refused.
LEMMA SpawnSlowEffect ==
  ASSUME TaskOK, NEW t \in Task, SpawnSlow(t)
  PROVE  Idles(t, IF closed THEN {"free"} ELSE {"detach", "end"})
<1>1. \/ closed /\ task' = [task EXCEPT ![t] = FreeTask]
      \/ ~closed /\ task' = [task EXCEPT ![t] = NewTask("detach", 0, None)]
      \/ ~closed /\ task' = [task EXCEPT ![t] = Ended]
  BY DEF SpawnSlow
<1>2. /\ Only({t})
      /\ \/ closed /\ task'[t] = FreeTask
         \/ ~closed /\ task'[t] \in {NewTask("detach", 0, None), Ended}
  BY <1>1, WriteEffect
<1>. QED
  BY <1>2, StateFields DEF Idles

\* What a connection puts into a slot: a start of the generation AddClient saw,
\* a cleanup, or a batch of slow clients; a closed room refuses.
LEMMA StartInitEffect ==
  ASSUME TaskOK, NEW c \in Client, StartInit(c)
  PROVE  \/ closed /\ UNCHANGED task
         \/ /\ ~closed
            /\ \E u \in InitTask :
                 /\ task[u].pc = "free" /\ Only({u})
                 /\ task'[u].pc = "acquire" /\ task'[u].gen = since[c]
<1>1. CASE closed
  BY <1>1 DEF StartInit
<1>2. CASE ~closed
  <2>. DEFINE u == Slot(InitTask)
  <2>1. u \in InitTask /\ task[u].pc = "free" /\ u \in Task
    BY <1>2, SlotIsFree DEF StartInit, Task
  <2>2. task' = [task EXCEPT ![u] = NewTask("acquire", since[c], None)]
    BY <1>2 DEF StartInit
  <2>. HIDE DEF u
  <2>3. Only({u}) /\ task'[u] = NewTask("acquire", since[c], None)
    BY <2>1, <2>2, WriteEffect
  <2>4. task'[u].pc = "acquire" /\ task'[u].gen = since[c]
    BY <2>3, StateFields
  <2>. QED
    BY <1>2, <2>1, <2>3, <2>4
<1>. QED
  BY <1>1, <1>2

\* The task a connection or a batch of slow clients hands the cleanup to.
LEMMA SpawnCleanupEffect ==
  ASSUME TaskOK, NEW c \in Client, SpawnCleanup(c)
  PROVE  \/ closed /\ UNCHANGED task
         \/ /\ ~closed
            /\ \E u \in CleanupTask : /\ task[u].pc = "free"
                                      /\ Idles(u, {"detach"})
<1>1. CASE closed
  BY <1>1 DEF SpawnCleanup
<1>2. CASE ~closed
  <2>. DEFINE u == Slot(CleanupTask)
  <2>1. u \in CleanupTask /\ task[u].pc = "free" /\ u \in Task
    BY <1>2, SlotIsFree DEF SpawnCleanup, Task
  <2>2. task' = [task EXCEPT ![u] = NewTask("detach", 0, None)]
    BY <1>2 DEF SpawnCleanup
  <2>. HIDE DEF u
  <2>3. Only({u}) /\ task'[u] = NewTask("detach", 0, None)
    BY <2>1, <2>2, WriteEffect
  <2>4. task'[u].pc = "detach"
    BY <2>3, StateFields
  <2>. QED
    BY <1>2, <2>1, <2>3, <2>4 DEF Idles
<1>. QED
  BY <1>1, <1>2

\* A batch of slow clients takes a free slot.
LEMMA RemoveSlowEffect ==
  ASSUME TaskOK, NEW S \in SUBSET Slow, RemoveSlow(S)
  PROVE  \E u \in SlowTask : task[u].pc = "free" /\ Idles(u, {"spawn"})
<1>. DEFINE u == Slot(SlowTask)
            v == [NewTask("spawn", 0, None) EXCEPT
                    !.out = IF clients' = {} THEN "last" ELSE "more"]
<1>1. u \in SlowTask /\ task[u].pc = "free" /\ u \in Task
  BY SlotIsFree DEF RemoveSlow, Task
<1>2. v.pc = "spawn"
  BY DEF NewTask
<1>3. task' = [task EXCEPT ![u] = v]
  BY DEF RemoveSlow
<1>. HIDE DEF u, v
<1>4. Only({u}) /\ task'[u] = v
  BY <1>1, <1>3, WriteEffect
<1>. QED
  BY <1>1, <1>2, <1>4 DEF Idles

-----------------------------------------------------------------------------
(***************************************************************************)
(* The slots a kind of step writes, and where their tasks come from and go *)
(* to.  A closed room takes no free slot.                                  *)
(***************************************************************************)
Writes(from, to) ==
  \E S \in SUBSET Task :
    /\ Only(S)
    /\ \A u \in S : /\ task[u].pc \in from \/ (~closed /\ task[u].pc = "free")
                    /\ task'[u].pc \in to

\* A task that writes its own slot.
LEMMA WritesOwn ==
  ASSUME NEW t \in Task, NEW from, NEW to, Only({t}), task[t].pc \in from,
         task'[t].pc \in to
  PROVE  Writes(from, to)
BY DEF Writes, Only

\* A task that gives a free slot to another one, too.
LEMMA WritesTwo ==
  ASSUME NEW t \in Task, NEW u \in Task, NEW from, NEW to, Only({t, u}),
         ~closed, task[t].pc \in from, task[u].pc = "free",
         task'[t].pc \in to, task'[u].pc \in to
  PROVE  Writes(from, to)
<1>1. {t, u} \in SUBSET Task
  OBVIOUS
<1>2. \A w \in {t, u} : /\ task[w].pc \in from \/ (~closed /\ task[w].pc = "free")
                        /\ task'[w].pc \in to
  OBVIOUS
<1>. QED
  BY <1>1, <1>2 DEF Writes

\* A step that fills a free slot, or writes none.
LEMMA WritesNew ==
  ASSUME NEW from, NEW to
  PROVE  /\ UNCHANGED task => Writes(from, to)
         /\ \A u \in Task : /\ ~closed /\ task[u].pc = "free" /\ Only({u})
                           /\ task'[u].pc \in to
                           => Writes(from, to)
<1>1. ASSUME UNCHANGED task
      PROVE  Writes(from, to)
  <2>1. {} \in SUBSET Task /\ Only({})
    BY <1>1 DEF Only
  <2>. QED
    BY <2>1 DEF Writes
<1>2. ASSUME NEW u \in Task, ~closed, task[u].pc = "free", Only({u}),
             task'[u].pc \in to
      PROVE  Writes(from, to)
  <2>1. {u} \in SUBSET Task
    OBVIOUS
  <2>2. \A w \in {u} : /\ task[w].pc \in from \/ (~closed /\ task[w].pc = "free")
                      /\ task'[w].pc \in to
    BY <1>2
  <2>. QED
    BY <1>2, <2>1, <2>2 DEF Writes
<1>. QED
  BY <1>1, <1>2

\* A session starts in its own slot, and a run task gets a free one.
LEMMA StartWrites ==
  ASSUME TaskOK, NEW t \in InitTask \cup MonitorTask, StartSession(t)
  PROVE  Writes(StartPc, StartPc \cup {"result", "begin"})
<1>0. t \in Task
  BY DEF Task
<1>. USE DEF StartPc
<1>1. CASE LaunchRun(t)
  <2>1. task[t].pc = "launch"
    BY <1>1 DEF LaunchRun
  <2>2. CASE ~Current(task[t].gen)
    <3>1. Moves(t, {"undo"})
      BY <1>1, <2>2, LaunchRunEffect
    <3>. QED
      BY <1>0, <2>1, <3>1, WritesOwn DEF Moves
  <2>3. CASE Current(task[t].gen)
    <3>1. PICK u \in RunTask : /\ task[u].pc = "free" /\ Only({t, u})
                               /\ task'[t].pc = "result"
                               /\ task'[u].pc = "begin"
      BY <1>1, <2>3, LaunchRunEffect
    <3>2. ~closed
      BY <2>3 DEF Current
    <3>. QED
      BY <1>0, <2>1, <3>1, <3>2, WritesTwo DEF Task
  <2>. QED
    BY <2>2, <2>3
<1>2. ASSUME task[t].pc \in StartPc, Only({t}),
             task'[t].pc \in StartPc \cup {"result", "begin"}
      PROVE  Writes(StartPc, StartPc \cup {"result", "begin"})
  BY <1>0, <1>2, WritesOwn
<1>3. CASE Acquire(t)
  BY <1>0, <1>2, <1>3, AcquireEffect DEF Acquire
<1>4. CASE CreateFails(t)
  <2>1. Results(t) /\ task[t].pc = "create"
    BY <1>0, <1>4, PlainEffect DEF CreateFails
  <2>. QED
    BY <1>2, <2>1 DEF Results
<1>5. CASE Create(t)
  BY <1>0, <1>2, <1>5, CreateEffect DEF Create
<1>6. CASE Prepare(t)
  BY <1>0, <1>2, <1>6, PrepareEffect DEF Prepare, Moves
<1>7. CASE Commit(t)
  BY <1>0, <1>2, <1>7, CommitEffect DEF Commit, Moves, Results
<1>8. CASE ResetProbeFailures(t)
  <2>1. Results(t) /\ task[t].pc = "reset"
    BY <1>0, <1>8, PlainEffect DEF ResetProbeFailures
  <2>. QED
    BY <1>2, <2>1 DEF Results
<1>9. CASE RecordProbeFailure(t)
  <2>1. Results(t) /\ task[t].pc = "record"
    BY <1>0, <1>9, PlainEffect DEF RecordProbeFailure
  <2>. QED
    BY <1>2, <2>1 DEF Results
<1>10. CASE DiscardProbe(t)
  <2>1. Results(t) /\ task[t].pc = "discard"
    BY <1>0, <1>10, PlainEffect DEF DiscardProbe
  <2>. QED
    BY <1>2, <2>1 DEF Results
<1>11. CASE PromoteProbe(t)
  BY <1>0, <1>2, <1>11, PromoteEffect DEF PromoteProbe, Moves
<1>12. CASE CheckAdopted(t)
  <2>1. Moves(t, {"launch", "undo"}) /\ task[t].pc = "check"
    BY <1>0, <1>12, PlainEffect DEF CheckAdopted, Moves
  <2>. QED
    BY <1>2, <2>1 DEF Moves
<1>13. CASE DisposePendingLive(t)
  <2>1. Results(t) /\ task[t].pc = "undo"
    BY <1>0, <1>13, PlainEffect DEF DisposePendingLive
  <2>. QED
    BY <1>2, <2>1 DEF Results
<1>. QED
  BY <1>1, <1>3, <1>4, <1>5, <1>6, <1>7, <1>8, <1>9, <1>10, <1>11, <1>12, <1>13
  DEF StartSession

\* The cleanup at the end of a task.
LEMMA CleanupWrites ==
  ASSUME TaskOK, NEW t \in Task, Cleanup(t)
  PROVE  Writes({"detach", "dispose", "end"}, {"dispose", "end", "finish", "free"})
<1>1. CASE Detach(t)
  <2>1. Only({t}) /\ task[t].pc = "detach" /\ task'[t].pc \in {"end", "dispose"}
    BY <1>1, DetachEffect DEF Detach, Idles
  <2>. QED
    BY <2>1, WritesOwn
<1>2. CASE Dispose(t)
  <2>1. Only({t}) /\ task[t].pc = "dispose" /\ task'[t].pc \in {"end", "finish"}
    BY <1>2, DisposeEffect DEF Dispose
  <2>. QED
    BY <2>1, WritesOwn
<1>3. CASE EndTask(t)
  <2>1. Only({t}) /\ task[t].pc = "end" /\ task'[t].pc = "free"
    BY <1>3, EndTaskEffect DEF EndTask, Idles
  <2>. QED
    BY <2>1, WritesOwn
<1>. QED
  BY <1>1, <1>2, <1>3 DEF Cleanup

\* What a connection hands to a task.
LEMMA ConnWrites ==
  ASSUME TaskOK, NEW c \in Client, ConnStep(c)
  PROVE  Writes({}, {"acquire", "detach"})
<1>1. CASE UNCHANGED task
  BY <1>1, WritesNew
<1>2. CASE StartInit(c)
  <2>1. CASE ~closed
    <3>1. PICK u \in InitTask : /\ task[u].pc = "free" /\ Only({u})
                                /\ task'[u].pc = "acquire"
      BY <1>2, <2>1, StartInitEffect
    <3>. QED
      BY <2>1, <3>1, WritesNew DEF Task
  <2>. QED
    BY <1>1, <1>2, <2>1, StartInitEffect
<1>3. CASE SpawnCleanup(c)
  <2>1. CASE ~closed
    <3>1. PICK u \in CleanupTask : task[u].pc = "free" /\ Idles(u, {"detach"})
      BY <1>3, <2>1, SpawnCleanupEffect
    <3>. QED
      BY <2>1, <3>1, WritesNew DEF Task, Idles
  <2>. QED
    BY <1>1, <1>3, <2>1, SpawnCleanupEffect
<1>. QED
  BY <1>1, <1>2, <1>3
  DEF ConnStep, Reserve, ReleaseReservation, ReleaseCheck, AddClient, Drop,
      CountAfterDrop

\* The end of a start or of a session: the task ends, or cleans up, or has a
\* monitor installed for the room.
LEMMA HandoverEffect ==
  ASSUME TaskOK, NEW t \in InitTask \cup RunTask,
         TransitionToMonitor(t) \/ EndLiveSession(t)
  PROVE  \/ monitor' = monitor /\ Idles(t, {"end", "detach"})
         \/ /\ monitor = None /\ Current(task[t].gen)
            /\ \E m \in MonitorTask :
                 /\ task[m].pc = "free" /\ Only({t, m}) /\ monitor' = m
                 /\ task'[t].pc = "monitor" /\ task'[t].loop = m
                 /\ task'[m].pc = "installed" /\ task'[m].gen = task[t].gen
<1>1. \/ monitor' = monitor /\ End(t)
      \/ monitor' = monitor /\ ToDetach(t)
      \/ Current(task[t].gen) /\ InstallMonitor(t, task[t].gen)
  BY DEF TransitionToMonitor, EndLiveSession, Adopted
<1>2. t \in Task
  BY DEF Task
<1>3. CASE monitor' = monitor /\ End(t)
  BY <1>2, <1>3, PlainEffect DEF Idles
<1>4. CASE monitor' = monitor /\ ToDetach(t)
  BY <1>2, <1>4, PlainEffect DEF Idles
<1>5. CASE Current(task[t].gen) /\ InstallMonitor(t, task[t].gen)
  <2>. DEFINE g == task[t].gen
  <2>0. InstallMonitor(t, g)
    BY <1>5
  <2>. HIDE DEF g
  <2>1. \/ monitor' = monitor /\ Idles(t, {"end"})
        \/ /\ monitor = None
           /\ \E m \in MonitorTask :
                /\ task[m].pc = "free" /\ Only({t, m}) /\ monitor' = m
                /\ task'[t].pc = "monitor" /\ task'[t].loop = m
                /\ task'[m].pc = "installed" /\ task'[m].gen = g
    BY <2>0, InstallEffect
  <2>2. Idles(t, {"end"}) => Idles(t, {"end", "detach"})
    BY DEF Idles
  <2>. QED
    BY <1>5, <2>1, <2>2 DEF g
<1>. QED
  BY <1>1, <1>3, <1>4, <1>5

\* The other steps of an init task, but for the monitor it may install.
LEMMA InitWrites ==
  ASSUME TaskOK, NEW t \in InitTask,
         InitStarted(t) \/ InitCount(t) \/ FailGeneration(t)
  PROVE  Writes({"result", "count", "fail"}, {"count", "end", "detach", "dispose"})
<1>0. t \in Task /\ t \notin MonitorTask
  BY TaskAssumption DEF Task
<1>1. CASE InitStarted(t)
  <2>1. Idles(t, {"count", "end"}) /\ task[t].pc = "result"
    BY <1>0, <1>1, InitStartedEffect DEF InitStarted
  <2>. QED
    BY <1>0, <2>1, WritesOwn DEF Idles
<1>2. CASE InitCount(t)
  <2>1. Idles(t, {"end", "detach"}) /\ task[t].pc = "count"
    BY <1>0, <1>2, PlainEffect DEF InitCount, Idles
  <2>. QED
    BY <1>0, <2>1, WritesOwn DEF Idles
<1>3. CASE FailGeneration(t)
  <2>1. /\ Only({t}) /\ task[t].pc \in {"result", "fail"}
        /\ task'[t].pc \in {"dispose", "end"}
    BY <1>0, <1>3, FailEffect DEF FailGeneration, Idles
  <2>. QED
    BY <1>0, <2>1, WritesOwn
<1>. QED
  BY <1>1, <1>2, <1>3

\* Those of a monitor loop.
LEMMA MonitorWrites ==
  ASSUME TaskOK, NEW t \in MonitorTask,
         \/ MonitorStopped(t) \/ NotifyTick(t) \/ PollTick(t)
         \/ MonitorResult(t) \/ FailGeneration(t) \/ FinishMonitor(t)
  PROVE  Writes({"select", "result", "fail", "finish"},
                {"select", "acquire", "fail", "finish", "dispose", "end"})
<1>0. t \in Task /\ t \notin InitTask
  BY TaskAssumption DEF Task
<1>1. CASE MonitorStopped(t) \/ NotifyTick(t) \/ PollTick(t)
  <2>1. task[t].pc = "select" /\ \E pc \in {"finish", "acquire"} : Goto(t, pc)
    BY <1>1 DEF MonitorStopped, NotifyTick, PollTick
  <2>2. Only({t}) /\ task'[t].pc \in {"finish", "acquire"}
    BY <1>0, <2>1, PlainEffect DEF Moves
  <2>. QED
    BY <1>0, <2>1, <2>2, WritesOwn
<1>2. CASE MonitorResult(t)
  <2>1. Idles(t, {"finish", "fail", "select"}) /\ task[t].pc = "result"
    BY <1>0, <1>2, MonitorResultEffect DEF MonitorResult
  <2>. QED
    BY <1>0, <2>1, WritesOwn DEF Idles
<1>3. CASE FailGeneration(t)
  <2>1. /\ Only({t}) /\ task[t].pc = "fail"
        /\ task'[t].pc \in {"dispose", "finish"}
    BY <1>0, <1>3, FailEffect DEF FailGeneration, Idles
  <2>. QED
    BY <1>0, <2>1, WritesOwn
<1>4. CASE FinishMonitor(t)
  <2>1. Idles(t, {"end"}) /\ task[t].pc = "finish"
    BY <1>0, <1>4, PlainEffect DEF FinishMonitor
  <2>. QED
    BY <1>0, <2>1, WritesOwn DEF Idles
<1>. QED
  BY <1>1, <1>2, <1>3, <1>4

\* Those of a session.
LEMMA RunWrites ==
  ASSUME TaskOK, NEW t \in RunTask,
         \/ StartListener(t) \/ AwaitReady(t) \/ AwaitReturn(t)
         \/ MarkUpstreamReady(t) \/ DrainTimeout(t)
  PROVE  Writes({"begin", "await", "mark", "stream", "drain"},
                {"begin", "await", "mark", "stream", "drain", "ended", "end"})
<1>0. t \in Task
  BY DEF Task
<1>1. CASE StartListener(t)
  <2>1. task[t].pc = "begin"
    BY <1>1 DEF StartListener
  <2>2. CASE ~Current(task[t].gen)
    <3>1. Idles(t, {"end"})
      BY <1>1, <2>2, StartListenerEffect
    <3>. QED
      BY <1>0, <2>1, <3>1, WritesOwn DEF Idles
  <2>3. CASE Current(task[t].gen)
    <3>1. PICK u \in StartTask : /\ task[u].pc = "free" /\ Only({t, u})
                                 /\ task'[t].pc = "await"
                                 /\ task'[u].pc = "begin"
      BY <1>1, <2>3, StartListenerEffect
    <3>2. ~closed
      BY <2>3 DEF Current
    <3>. QED
      BY <1>0, <2>1, <3>1, <3>2, WritesTwo DEF Task
  <2>. QED
    BY <2>2, <2>3
<1>2. CASE AwaitReady(t) \/ AwaitReturn(t) \/ MarkUpstreamReady(t) \/ DrainTimeout(t)
  <2>1. /\ task[t].pc \in {"await", "mark", "stream", "drain"}
        /\ \E pc \in {"mark", "stream", "drain", "ended"} : Goto(t, pc)
    BY <1>2 DEF AwaitReady, AwaitReturn, MarkUpstreamReady, DrainTimeout
  <2>2. Only({t}) /\ task'[t].pc \in {"mark", "stream", "drain", "ended"}
    BY <1>0, <2>1, PlainEffect DEF Moves
  <2>. QED
    BY <1>0, <2>1, <2>2, WritesOwn
<1>. QED
  BY <1>1, <1>2

\* Those of the goroutine that runs a listener's Start.
LEMMA ListenWrites ==
  ASSUME TaskOK, NEW t \in StartTask,
         BeginStart(t) \/ DialSucceeds(t) \/ StartReturns(t)
  PROVE  Writes({"begin", "dial", "stream"}, {"dial", "stream", "end"})
<1>0. t \in Task
  BY DEF Task
<1>1. /\ task[t].pc \in {"begin", "dial", "stream"}
      /\ End(t) \/ \E pc \in {"dial", "stream"} : Goto(t, pc)
  BY DEF BeginStart, DialSucceeds, StartReturns
<1>2. Only({t}) /\ task'[t].pc \in {"dial", "stream", "end"}
  BY <1>0, <1>1, PlainEffect DEF Moves, Idles
<1>. QED
  BY <1>0, <1>1, <1>2, WritesOwn

-----------------------------------------------------------------------------
(***************************************************************************)
(* The loops: an installed loop has exactly one task about to launch it.   *)
(***************************************************************************)
LoopPcs == {"monitor", "installed"}
Launchers ==
  /\ \A t \in Task : task[t].pc = "monitor" =>
       task[t].loop \in MonitorTask /\ task[task[t].loop].pc = "installed"
  /\ \A t, u \in Task : t # u /\ task[t].pc = "monitor" /\ task[u].pc = "monitor"
                          => task[t].loop # task[u].loop
  /\ \A m \in Task : task[m].pc = "installed" =>
       \E t \in InitTask \cup RunTask : task[t].pc = "monitor" /\ task[t].loop = m

\* A closed room starts no task.
StartsNothing == closed => Active' \subseteq Active

\* A step that neither installs nor launches a loop.
LEMMA LoopKept ==
  ASSUME Launchers, NEW from, NEW to, Writes(from, to),
         (from \cup to) \cap LoopPcs = {},
         closed => from \cap Uncounted = {} \/ to \subseteq Uncounted
  PROVE  Launchers' /\ StartsNothing
<1>0. PICK S \in SUBSET Task :
        /\ Only(S)
        /\ \A u \in S : /\ task[u].pc \in from \/ (~closed /\ task[u].pc = "free")
                        /\ task'[u].pc \in to
  BY DEF Writes
<1>1. \A u \in S : /\ task[u].pc \notin LoopPcs
                   /\ task'[u].pc \notin LoopPcs
  BY <1>0 DEF LoopPcs
<1>4. StartsNothing
  BY <1>0 DEF StartsNothing, Active, Only
<1>2. \A u \in Task : task[u].pc \in LoopPcs \/ task'[u].pc \in LoopPcs
                        => task'[u] = task[u]
  BY <1>0, <1>1 DEF Only
<1>3. MonitorTask \subseteq Task /\ InitTask \cup RunTask \subseteq Task
  BY DEF Task
<1>. QED
  BY <1>2, <1>3, <1>4 DEF Launchers, LoopPcs

\* A loop is installed together with the task that launches it.
LEMMA HandoverLoop ==
  ASSUME TaskOK, Launchers, NEW t \in InitTask \cup RunTask,
         TransitionToMonitor(t) \/ EndLiveSession(t)
  PROVE  Launchers' /\ StartsNothing
<1>0. /\ t \in Task /\ MonitorTask \subseteq Task /\ InitTask \cup RunTask \subseteq Task
      /\ task[t].pc \in {"result", "ended"}
  BY DEF Task, TransitionToMonitor, EndLiveSession
<1>1. CASE Idles(t, {"end", "detach"})
  <2>1. Writes({"result", "ended"}, {"end", "detach"})
    BY <1>0, <1>1, WritesOwn DEF Idles
  <2>. QED
    BY <1>0, <2>1, LoopKept DEF LoopPcs, Uncounted
<1>2. ASSUME NEW m \in MonitorTask, task[m].pc = "free", Only({t, m}), ~closed,
             task'[t].pc = "monitor", task'[t].loop = m,
             task'[m].pc = "installed"
      PROVE  Launchers' /\ StartsNothing
  <2>1. \A u \in Task : u # t /\ u # m => task'[u] = task[u]
    BY <1>2 DEF Only
  <2>2. m # t /\ m \in Task
    BY <1>0, <1>2
  <2>. QED
    BY <1>0, <1>2, <2>1, <2>2 DEF Launchers, LoopPcs, StartsNothing
<1>. QED
  BY <1>1, <1>2, HandoverEffect DEF Current

\* The task that launches a loop, or gives it up, is done with it.
LEMMA LaunchLoop ==
  ASSUME TaskOK, Launchers, NEW t \in InitTask \cup RunTask, LaunchMonitor(t)
  PROVE  Launchers' /\ StartsNothing
<1>1. t \in Task /\ MonitorTask \subseteq Task /\ InitTask \cup RunTask \subseteq Task
      /\ task[t].pc = "monitor"
  BY DEF Task, LaunchMonitor
<1>. DEFINE m == task[t].loop
<1>2. m \in MonitorTask /\ task[m].pc = "installed" /\ m # t
  BY <1>1, TaskAssumption DEF Launchers
<1>3. /\ Only({t, m}) /\ task'[t].pc = "end"
      /\ task'[m].pc \in IF closed THEN {"free"} ELSE {"select", "free"}
  BY <1>2, LaunchMonitorEffect DEF Current
<1>4. \A u \in Task : u # t /\ u # m => task'[u] = task[u]
  BY <1>3 DEF Only
<1>. QED
  BY <1>1, <1>2, <1>3, <1>4 DEF Launchers, StartsNothing, Active, Uncounted

\* No step leaves an installed loop without its launcher.
LEMMA LoopStep ==
  ASSUME TypeOK, Launchers, [Next]_vars
  PROVE  Launchers' /\ StartsNothing
<1>0. TaskOK
  BY DEF TypeOK
<1>. USE DEF LoopPcs, Uncounted
<1>1. CASE UNCHANGED task
  BY <1>1 DEF Launchers, StartsNothing, Active
<1>2. ASSUME NEW c \in Client, ConnStep(c)
      PROVE  Launchers' /\ StartsNothing
  <2>1. Writes({}, {"acquire", "detach"})
    BY <1>0, <1>2, ConnWrites
  <2>. QED
    BY <2>1, LoopKept
<1>3. ASSUME NEW S \in SUBSET Slow, RemoveSlow(S)
      PROVE  Launchers' /\ StartsNothing
  <2>1. PICK u \in SlowTask : task[u].pc = "free" /\ Idles(u, {"spawn"})
    BY <1>0, <1>3, RemoveSlowEffect
  <2>2. Writes({"free"}, {"spawn"})
    BY <2>1, WritesOwn DEF Idles, Task
  <2>. QED
    BY <2>2, LoopKept
<1>4. ASSUME NEW t \in Task, SpawnSlow(t)
      PROVE  Launchers' /\ StartsNothing
  <2>. DEFINE to == IF closed THEN {"free"} ELSE {"detach", "end"}
  <2>1. Idles(t, to) /\ task[t].pc = "spawn"
    BY <1>0, <1>4, SpawnSlowEffect DEF SpawnSlow
  <2>2. Writes({"spawn"}, to)
    BY <2>1, WritesOwn DEF Idles
  <2>. QED
    BY <2>2, LoopKept
<1>5. ASSUME NEW t \in Task, Cleanup(t)
      PROVE  Launchers' /\ StartsNothing
  <2>1. Writes({"detach", "dispose", "end"}, {"dispose", "end", "finish", "free"})
    BY <1>0, <1>5, CleanupWrites
  <2>. QED
    BY <2>1, LoopKept
<1>6. ASSUME NEW t \in InitTask \cup MonitorTask, StartSession(t)
      PROVE  Launchers' /\ StartsNothing
  <2>1. Writes(StartPc, StartPc \cup {"result", "begin"})
    BY <1>0, <1>6, StartWrites
  <2>. QED
    BY <2>1, LoopKept DEF StartPc
<1>7. ASSUME NEW t \in InitTask, InitStep(t)
      PROVE  Launchers' /\ StartsNothing
  <2>1. CASE InitStarted(t) \/ InitCount(t) \/ FailGeneration(t)
    <3>1. Writes({"result", "count", "fail"}, {"count", "end", "detach", "dispose"})
      BY <1>0, <2>1, InitWrites
    <3>. QED
      BY <3>1, LoopKept
  <2>2. t \in Task
    BY DEF Task
  <2>. QED
    BY <1>0, <1>5, <1>6, <1>7, <2>1, <2>2, HandoverLoop, LaunchLoop DEF InitStep
<1>8. ASSUME NEW t \in MonitorTask, MonitorStep(t)
      PROVE  Launchers' /\ StartsNothing
  <2>1. CASE \/ MonitorStopped(t) \/ NotifyTick(t) \/ PollTick(t)
             \/ MonitorResult(t) \/ FailGeneration(t) \/ FinishMonitor(t)
    <3>1. Writes({"select", "result", "fail", "finish"},
                 {"select", "acquire", "fail", "finish", "dispose", "end"})
      BY <1>0, <2>1, MonitorWrites
    <3>. QED
      BY <3>1, LoopKept
  <2>2. t \in Task
    BY DEF Task
  <2>. QED
    BY <1>5, <1>6, <1>8, <2>1, <2>2 DEF MonitorStep
<1>9. ASSUME NEW t \in RunTask, RunStep(t)
      PROVE  Launchers' /\ StartsNothing
  <2>1. CASE \/ StartListener(t) \/ AwaitReady(t) \/ AwaitReturn(t)
             \/ MarkUpstreamReady(t) \/ DrainTimeout(t)
    <3>1. Writes({"begin", "await", "mark", "stream", "drain"},
                 {"begin", "await", "mark", "stream", "drain", "ended", "end"})
      BY <1>0, <2>1, RunWrites
    <3>. QED
      BY <3>1, LoopKept
  <2>2. t \in Task
    BY DEF Task
  <2>. QED
    BY <1>0, <1>5, <1>9, <2>1, <2>2, HandoverLoop, LaunchLoop DEF RunStep
<1>10. ASSUME NEW t \in StartTask, StartStep(t)
       PROVE  Launchers' /\ StartsNothing
  <2>1. CASE BeginStart(t) \/ DialSucceeds(t) \/ StartReturns(t)
    <3>1. Writes({"begin", "dial", "stream"}, {"dial", "stream", "end"})
      BY <1>0, <2>1, ListenWrites
    <3>. QED
      BY <3>1, LoopKept
  <2>2. t \in Task
    BY DEF Task
  <2>. QED
    BY <1>5, <1>10, <2>1, <2>2 DEF StartStep
<1>11. CleanupTask \cup SlowTask \subseteq Task
  BY DEF Task
<1>12. ASSUME NEW t \in CleanupTask, Cleanup(t)
       PROVE  Launchers' /\ StartsNothing
  BY <1>5, <1>11, <1>12
<1>13. ASSUME NEW t \in SlowTask, SlowStep(t)
       PROVE  Launchers' /\ StartsNothing
  BY <1>4, <1>5, <1>11, <1>13 DEF SlowStep
<1>14. CASE Close \/ CloseStep \/ UNCHANGED vars
  BY <1>1, <1>14 DEF Close, CloseStep, CloseClients, CloseListeners, CloseWait, vars
<1>. QED
  BY <1>2, <1>3, <1>7, <1>8, <1>9, <1>10, <1>12, <1>13, <1>14 DEF Next

-----------------------------------------------------------------------------
(***************************************************************************)
(* The instances.                                                          *)
(***************************************************************************)
Promoted == {"check", "undo", "launch"}
Late == Promoted \cup {"begin", "await", "mark", "dial", "stream"}
Holds(t, i) ==
  \/ task[t].pc \in Late /\ task[t].d = i
  \/ task[t].pc = "dispose" /\ i \in {task[t].d, task[t].p}

ReturnedClosed == returned \cap open = {}
OpenOwned ==
  \A i \in open : \/ i \in {probeLive, taken[1], taken[2]}
                  \/ \E t \in Task : Holds(t, i)
ProbeApart ==
  probeLive # None => /\ probeLive \in open \cap held
                      /\ probeLive \notin {taken[1], taken[2]}
                      /\ \A t \in Task : ~Holds(t, probeLive)
PromotedOnce ==
  \A t, u \in Task : t # u /\ task[t].pc \in Promoted /\ task[u].pc \in Late
                       => task[t].d # task[u].d
ReadyApart ==
  ~closed /\ upstreamReady =>
    /\ douyinLive # None
    /\ \A t \in Task : task[t].pc \in Promoted => task[t].d # douyinLive
InstInv == ReturnedClosed /\ OpenOwned /\ ProbeApart /\ PromotedOnce /\ ReadyApart

\* A step that leaves the instances and what the room knows of them alone, and
\* only writes slots of tasks that hold none before and after it.
LEMMA InstKept ==
  ASSUME InstInv, UNCHANGED <<listeners, taken, douyinLive, probeLive>>,
         closed => closed', upstreamReady' \in {upstreamReady, FALSE},
         NEW S \in SUBSET Task, Only(S),
         \A u \in S : {task[u].pc, task'[u].pc} \cap (Late \cup {"dispose"}) = {}
  PROVE  InstInv'
<1>1. \A u \in Task : \A i : Holds(u, i)' <=> Holds(u, i)
  BY DEF Holds, Only
<1>2. \A u \in Task : /\ task'[u].pc \in Late => task'[u] = task[u]
                      /\ task[u].pc \in Late => task'[u] = task[u]
  BY DEF Only
<1>3. ReturnedClosed' /\ OpenOwned' /\ ProbeApart'
  BY <1>1 DEF InstInv, ReturnedClosed, OpenOwned, ProbeApart, listeners
<1>3a. Promoted \subseteq Late
  BY DEF Promoted, Late
<1>4. PromotedOnce'
  BY <1>2, <1>3a DEF InstInv, PromotedOnce
<1>5. ReadyApart'
  BY <1>2, <1>3a DEF InstInv, ReadyApart
<1>. QED
  BY <1>3, <1>4, <1>5 DEF InstInv

\* The same, with what is known of the slots it writes.
LEMMA InstWrites ==
  ASSUME InstInv, UNCHANGED <<listeners, taken, douyinLive, probeLive>>,
         closed => closed', upstreamReady' \in {upstreamReady, FALSE},
         NEW from, NEW to, Writes(from, to),
         (from \cup to) \cap (Late \cup {"dispose"}) = {}
  PROVE  InstInv'
<1>1. PICK S \in SUBSET Task :
        /\ Only(S)
        /\ \A u \in S : /\ task[u].pc \in from \/ (~closed /\ task[u].pc = "free")
                        /\ task'[u].pc \in to
  BY DEF Writes
<1>2. \A u \in S : {task[u].pc, task'[u].pc} \cap (Late \cup {"dispose"}) = {}
  BY <1>1 DEF Late, Promoted
<1>. QED
  BY <1>1, <1>2, InstKept

\* The steps of a start.
LEMMA InstStart ==
  ASSUME TypeOK, CarriesInstance, InstInv, NEW t \in InitTask \cup MonitorTask,
         StartSession(t)
  PROVE  InstInv'
<1>0. TaskOK /\ t \in Task
  BY DEF TypeOK, Task
<1>. USE DEF Late, Promoted
<1>1. CASE Acquire(t)
  BY <1>0, <1>1, AcquireEffect, InstKept DEF Acquire, session, closing
<1>2. CASE CreateFails(t)
  <2>1. Results(t) /\ UNCHANGED <<session, listeners, closing>> /\ task[t].pc = "create"
    BY <1>0, <1>2, PlainEffect DEF CreateFails
  <2>. QED
    BY <1>0, <2>1, InstKept DEF Results, session, closing
<1>. USE DEF InstInv, ReturnedClosed, OpenOwned, ProbeApart, PromotedOnce,
             ReadyApart, Holds, Only
<1>3. CASE Create(t)
  <2>1. UNCHANGED <<douyinLive, upstreamReady, closing>> /\ task[t].pc = "create"
    BY <1>3 DEF Create
  <2>. QED
    BY <1>0, <2>1, <1>3, CreateEffect, InstAssumption
    DEF closing, FreeInst, Referenced, TypeOK, listeners
<1>4. CASE Prepare(t)
  <2>1. Moves(t, {"commit", "discard", "record"})
    BY <1>0, <1>4, PrepareEffect
  <2>2. UNCHANGED <<session, listeners, closing>> /\ task[t].pc = "prepare"
    BY <1>4 DEF Prepare
  <2>. QED
    BY <1>0, <2>1, <2>2, InstKept DEF Moves, session, closing
<1>5. CASE Commit(t)
  <2>1. Results(t) \/ Moves(t, {"promote", "reset", "record"})
    BY <1>0, <1>5, CommitEffect
  <2>2. /\ UNCHANGED <<douyinLive, probeLive, upstreamReady, listeners, closing>>
        /\ task[t].pc = "commit"
    BY <1>5 DEF Commit
  <2>. QED
    BY <1>0, <2>1, <2>2, InstKept DEF Moves, Results, closing
<1>6. CASE ResetProbeFailures(t)
  <2>1. Results(t)
    BY <1>0, <1>6, PlainEffect DEF ResetProbeFailures
  <2>2. /\ UNCHANGED <<douyinLive, probeLive, upstreamReady, listeners, closing>>
        /\ task[t].pc = "reset"
    BY <1>6 DEF ResetProbeFailures
  <2>. QED
    BY <1>0, <2>1, <2>2, InstKept DEF Results, closing
<1>7. CASE RecordProbeFailure(t)
  <2>1. Results(t)
    BY <1>0, <1>7, PlainEffect DEF RecordProbeFailure
  <2>. QED
    BY <1>0, <1>7, <2>1 DEF RecordProbeFailure, Results, closing
<1>8. CASE DiscardProbe(t)
  <2>1. Results(t)
    BY <1>0, <1>8, PlainEffect DEF DiscardProbe
  <2>. QED
    BY <1>0, <1>8, <2>1 DEF DiscardProbe, Results, closing
<1>9. CASE PromoteProbe(t)
  <2>1. task[t].d \in Inst /\ task[t].pc = "promote"
    BY <1>0, <1>9 DEF PromoteProbe, CarriesInstance, CarryPc, StartPc
  <2>2. CASE Current(task[t].gen) /\ probeLive = task[t].d
    <3>1. Moves(t, {"check"})
      BY <1>0, <1>9, <2>2, PromoteEffect
    <3>2. /\ UNCHANGED <<listeners, closing>> /\ probeLive' = None
          /\ douyinLive' = probeLive /\ upstreamReady' = FALSE
      BY <1>9, <2>2 DEF PromoteProbe
    <3>3. OpenOwned'
      BY <1>0, <2>1, <2>2, <3>1, <3>2 DEF listeners, closing, Moves
    <3>4. PromotedOnce'
      BY <1>0, <2>1, <2>2, <3>1, InstAssumption DEF Moves
    <3>. QED
      BY <3>2, <3>3, <3>4 DEF listeners
  <2>3. CASE ~(Current(task[t].gen) /\ probeLive = task[t].d)
    <3>1. Moves(t, {"discard"})
      BY <1>0, <1>9, <2>3, PromoteEffect
    <3>2. UNCHANGED <<douyinLive, probeLive, upstreamReady, listeners, closing>>
      BY <1>9, <2>3 DEF PromoteProbe
    <3>. QED
      BY <1>0, <2>1, <3>1, <3>2, InstKept DEF Moves, closing
  <2>. QED
    BY <2>2, <2>3
<1>10. CASE CheckAdopted(t)
  <2>1. Moves(t, {"launch", "undo"})
    BY <1>0, <1>10, PlainEffect DEF CheckAdopted, Moves
  <2>. QED
    BY <1>0, <1>10, <2>1 DEF CheckAdopted, Moves, session, listeners, closing
<1>11. CASE DisposePendingLive(t)
  <2>1. Results(t)
    BY <1>0, <1>11, PlainEffect DEF DisposePendingLive
  <2>. QED
    BY <1>0, <1>11, <2>1 DEF DisposePendingLive, Results, closing
<1>12. CASE LaunchRun(t)
  <2>1. UNCHANGED <<session, listeners, closing>> /\ task[t].pc = "launch"
    BY <1>12 DEF LaunchRun
  <2>. QED
    BY <1>0, <1>12, <2>1, LaunchRunEffect, TaskAssumption
    DEF Moves, session, listeners, closing, Task
<1>. QED
  BY <1>1, <1>2, <1>3, <1>4, <1>5, <1>6, <1>7, <1>8, <1>9, <1>10, <1>11, <1>12
  DEF StartSession

\* The cleanup: Detach hands over what the room has, Dispose closes it.
LEMMA InstCleanup ==
  ASSUME TypeOK, InstInv, NEW t \in Task, Cleanup(t)
  PROVE  InstInv'
<1>0. TaskOK
  BY DEF TypeOK
<1>. USE DEF Late, Promoted
<1>1. CASE EndTask(t)
  <2>1. Idles(t, {"free"}) /\ task[t].pc = "end"
    BY <1>0, <1>1, EndTaskEffect DEF EndTask
  <2>2. /\ UNCHANGED <<listeners, taken, douyinLive, probeLive, upstreamReady>>
        /\ closed => closed'
    BY <1>1 DEF EndTask, RemoveIfIdle, session
  <2>. QED
    BY <2>1, <2>2, InstKept DEF Idles
<1>2. CASE Detach(t) /\ Idles(t, {"end"}) /\ UNCHANGED session
  <2>1. task[t].pc = "detach" /\ UNCHANGED <<listeners, closing>>
    BY <1>2 DEF Detach
  <2>. QED
    BY <1>2, <2>1, InstKept DEF Idles, session, closing
<1>. USE DEF InstInv, ReturnedClosed, OpenOwned, ProbeApart, PromotedOnce,
             ReadyApart, Holds, Only
<1>3. CASE /\ Detach(t) /\ ~closed /\ IdleClients
           /\ Only({t}) /\ task'[t].pc = "dispose"
           /\ task'[t].d = douyinLive /\ task'[t].p = probeLive
  <2>1. task[t].pc = "detach"
    BY <1>3 DEF Detach
  <2>2. /\ UNCHANGED <<listeners, closing>>
        /\ probeLive' = None /\ upstreamReady' = FALSE
    BY <1>3 DEF Detach
  <2>. QED
    BY <1>3, <2>1, <2>2 DEF listeners, closing
<1>4. CASE Dispose(t)
  <2>1. /\ Only({t}) /\ task[t].pc = "dispose"
        /\ task'[t].pc \in {"finish", "end"}
    BY <1>0, <1>4, DisposeEffect DEF Dispose
  <2>2. /\ open' = open \ {task[t].d, task[t].p} /\ held' = held \ {task[t].p}
        /\ UNCHANGED <<session, returned, closing>>
    BY <1>4 DEF Dispose
  <2>. QED
    BY <2>1, <2>2 DEF session, closing
<1>. QED
  BY <1>0, <1>1, <1>2, <1>3, <1>4, DetachEffect DEF Cleanup, Detach

\* A failed generation hands its probe to the cleanup.
LEMMA InstFail ==
  ASSUME TypeOK, InstInv, NEW t \in Task, FailGeneration(t)
  PROVE  InstInv'
<1>0. /\ TaskOK /\ task[t].pc \in {"result", "fail"}
      /\ UNCHANGED <<douyinLive, upstreamReady, listeners, closing>>
  BY DEF TypeOK, FailGeneration
<1>. USE DEF Late, Promoted
<1>1. CASE Current(task[t].gen)
  <2>1. /\ Only({t}) /\ task'[t].pc = "dispose"
        /\ task'[t].d = None /\ task'[t].p = probeLive
    BY <1>0, <1>1, FailEffect
  <2>2. probeLive' = None
    BY <1>1 DEF FailGeneration
  <2>. QED
    BY <1>0, <2>1, <2>2
    DEF InstInv, ReturnedClosed, OpenOwned, ProbeApart, PromotedOnce, ReadyApart,
        Holds, Only, listeners, closing
<1>2. CASE ~Current(task[t].gen)
  <2>1. Only({t}) /\ task'[t].pc \in {"finish", "end"}
    BY <1>0, <1>2, FailEffect DEF Idles
  <2>2. UNCHANGED probeLive
    BY <1>2 DEF FailGeneration
  <2>. QED
    BY <1>0, <2>1, <2>2, InstKept DEF closing
<1>. QED
  BY <1>1, <1>2

\* The end of a start or of a session, and the launch of the monitor.
LEMMA InstHandover ==
  ASSUME TypeOK, Launchers, InstInv, NEW t \in InitTask \cup RunTask,
         TransitionToMonitor(t) \/ EndLiveSession(t) \/ LaunchMonitor(t)
  PROVE  InstInv'
<1>0. t \in Task /\ TaskOK /\ MonitorTask \subseteq Task
  BY DEF Task, TypeOK
<1>1. /\ UNCHANGED <<probeLive, listeners, taken, closed>>
      /\ task[t].pc \in {"result", "ended", "monitor"}
      /\ \/ UNCHANGED <<douyinLive, upstreamReady>>
         \/ douyinLive' = None /\ upstreamReady' = FALSE
  BY DEF TransitionToMonitor, EndLiveSession, LaunchMonitor, closing
<1>. USE DEF Late, Promoted
<1>. DEFINE Apart ==
       \E S \in SUBSET Task :
         /\ Only(S)
         /\ \A u \in S : {task[u].pc, task'[u].pc} \cap (Late \cup {"dispose"}) = {}
<1>2. Apart
  <2>1. CASE LaunchMonitor(t)
    <3>. DEFINE m == task[t].loop
    <3>1. m \in MonitorTask /\ task[m].pc = "installed"
      BY <1>0, <2>1 DEF Launchers, LaunchMonitor
    <3>2. /\ Only({t, m}) /\ task'[t].pc = "end"
          /\ task'[m].pc \in {"select", "free"}
      BY <1>0, <2>1, <3>1, LaunchMonitorEffect
    <3>3. {t, m} \in SUBSET Task
      BY <1>0, <3>1
    <3>. QED
      BY <1>1, <3>1, <3>2, <3>3
  <2>2. CASE TransitionToMonitor(t) \/ EndLiveSession(t)
    <3>1. CASE Idles(t, {"end", "detach"})
      <4>1. {t} \in SUBSET Task
        BY <1>0
      <4>2. Only({t}) /\ \A u \in {t} :
              {task[u].pc, task'[u].pc} \cap (Late \cup {"dispose"}) = {}
        BY <1>1, <3>1 DEF Idles
      <4>. QED
        BY <4>1, <4>2
    <3>2. ASSUME NEW m \in MonitorTask, task[m].pc = "free", Only({t, m}),
                 task'[t].pc = "monitor", task'[m].pc = "installed"
          PROVE  Apart
      <4>1. {t, m} \in SUBSET Task
        BY <1>0
      <4>2. \A u \in {t, m} :
              {task[u].pc, task'[u].pc} \cap (Late \cup {"dispose"}) = {}
        BY <1>1, <3>2
      <4>. QED
        BY <3>2, <4>1, <4>2
    <3>. QED
      BY <1>0, <2>2, <3>1, <3>2, HandoverEffect
  <2>. QED
    BY <2>1, <2>2
<1>3. PICK S \in SUBSET Task :
        /\ Only(S)
        /\ \A u \in S : {task[u].pc, task'[u].pc} \cap (Late \cup {"dispose"}) = {}
  BY <1>2
<1>4. CASE UNCHANGED <<douyinLive, upstreamReady>>
  BY <1>1, <1>3, <1>4, InstKept
<1>5. CASE upstreamReady' = FALSE
  <2>1. \A u \in Task : /\ task'[u].pc \in Late \cup {"dispose"} => task'[u] = task[u]
                        /\ task[u].pc \in Late \cup {"dispose"} => task'[u] = task[u]
    BY <1>3 DEF Only
  <2>. QED
    BY <1>1, <1>5, <2>1
    DEF InstInv, ReturnedClosed, OpenOwned, ProbeApart, PromotedOnce, ReadyApart,
        Holds, listeners
<1>. QED
  BY <1>1, <1>4, <1>5

\* The steps of a session.
LEMMA InstRun ==
  ASSUME TypeOK, CarriesInstance, InstInv, NEW t \in RunTask,
         \/ StartListener(t) \/ AwaitReady(t) \/ AwaitReturn(t)
         \/ MarkUpstreamReady(t) \/ DrainTimeout(t)
  PROVE  InstInv'
<1>0. t \in Task /\ TaskOK
  BY DEF Task, TypeOK
<1>. USE DEF Late, Promoted, InstInv, ReturnedClosed, OpenOwned, ProbeApart,
             PromotedOnce, ReadyApart, Holds, Only
<1>1. CASE StartListener(t)
  <2>1. task[t].pc = "begin" /\ UNCHANGED <<session, closing>>
    BY <1>1 DEF StartListener
  <2>2. CASE Current(task[t].gen)
    <3>1. PICK u \in StartTask :
            /\ task[u].pc = "free" /\ Only({t, u})
            /\ task'[t].pc = "await" /\ task'[t].d = task[t].d
            /\ task'[u].pc = "begin" /\ task'[u].d = task[t].d
      BY <1>0, <1>1, <2>2, StartListenerEffect
    <3>2. UNCHANGED listeners /\ u \in Task
      BY <1>0, <1>1, <2>2, StartListenerEffect DEF Task
    <3>. QED
      BY <1>0, <2>1, <3>1, <3>2 DEF session, closing, listeners
  <2>3. CASE ~Current(task[t].gen)
    <3>1. /\ open' = open \ {task[t].d} /\ held' = held \ {task[t].d}
          /\ UNCHANGED returned /\ Idles(t, {"end"})
      BY <1>0, <1>1, <2>3, StartListenerEffect
    <3>. QED
      BY <1>0, <2>1, <3>1 DEF session, closing, Idles
  <2>. QED
    BY <2>2, <2>3
<1>2. CASE AwaitReady(t)
  <2>1. /\ task[t].pc = "await" /\ Moves(t, {"mark"})
        /\ UNCHANGED <<session, listeners, closing>>
    BY <1>0, <1>2, PlainEffect DEF AwaitReady
  <2>. QED
    BY <1>0, <2>1 DEF Moves, session, closing, listeners
<1>3. CASE AwaitReturn(t)
  <2>1. /\ task[t].d \in returned /\ Moves(t, {"ended"})
        /\ returned' = returned \ {task[t].d}
        /\ UNCHANGED <<session, open, held, closing>>
        /\ task[t].pc \in {"await", "stream", "drain"}
    BY <1>0, <1>3, PlainEffect DEF AwaitReturn
  <2>. QED
    BY <1>0, <2>1 DEF Moves, session, closing
<1>4. CASE MarkUpstreamReady(t)
  <2>1. /\ task[t].pc = "mark" /\ task[t].d \in Inst
        /\ UNCHANGED <<douyinLive, probeLive, held, returned, closing>>
    BY <1>0, <1>4 DEF MarkUpstreamReady, CarriesInstance, CarryPc
  <2>2. CASE Adopted(t)
    <3>1. /\ Moves(t, {"stream"}) /\ open' = open /\ douyinLive = task[t].d
      BY <1>0, <1>4, <2>2, PlainEffect DEF MarkUpstreamReady, Adopted
    <3>2. ReturnedClosed' /\ OpenOwned' /\ ProbeApart'
      BY <1>0, <2>1, <3>1 DEF Moves, closing
    <3>3. PromotedOnce'
      BY <1>0, <2>1, <3>1 DEF Moves
    <3>4. ReadyApart'
      <4>1. \A u \in Task : task'[u].pc \in Promoted =>
              u # t /\ task'[u] = task[u]
        BY <1>0, <3>1 DEF Moves
      <4>2. \A u \in Task : u # t /\ task[u].pc \in Promoted =>
              task[u].d # task[t].d
        BY <1>0, <2>1
      <4>. QED
        BY <2>1, <3>1, <4>1, <4>2, InstAssumption
    <3>. QED
      BY <3>2, <3>3, <3>4
  <2>3. CASE ~Adopted(t)
    <3>1. /\ Moves(t, {"drain"}) /\ open' = open \ {task[t].d}
          /\ upstreamReady' => upstreamReady
      BY <1>0, <1>4, <2>3, PlainEffect DEF MarkUpstreamReady, TypeOK
    <3>2. ReturnedClosed' /\ OpenOwned' /\ ProbeApart'
      BY <1>0, <2>1, <3>1 DEF Moves, closing
    <3>3. PromotedOnce' /\ ReadyApart'
      BY <1>0, <2>1, <3>1 DEF Moves, closing
    <3>. QED
      BY <3>2, <3>3
  <2>. QED
    BY <2>2, <2>3
<1>5. CASE DrainTimeout(t)
  <2>1. /\ task[t].pc = "drain" /\ Moves(t, {"ended"})
        /\ UNCHANGED <<session, listeners, closing>>
    BY <1>0, <1>5, PlainEffect DEF DrainTimeout
  <2>. QED
    BY <1>0, <2>1, InstKept DEF Moves, session, closing
<1>. QED
  BY <1>1, <1>2, <1>3, <1>4, <1>5

\* The steps of the goroutine that runs a listener's Start.
LEMMA InstListen ==
  ASSUME TypeOK, InstInv, NEW t \in StartTask,
         BeginStart(t) \/ DialSucceeds(t) \/ StartReturns(t)
  PROVE  InstInv'
<1>0. t \in Task /\ TaskOK /\ UNCHANGED <<session, closing>>
  BY DEF Task, TypeOK, BeginStart, DialSucceeds, StartReturns
<1>. USE DEF Late, Promoted, InstInv, ReturnedClosed, OpenOwned, ProbeApart,
             PromotedOnce, ReadyApart, Holds, Only
<1>1. CASE BeginStart(t)
  <2>1. task[t].pc = "begin" /\ UNCHANGED <<open, held>>
    BY <1>1 DEF BeginStart
  <2>2. CASE task[t].d \in open
    <3>1. Moves(t, {"dial"}) /\ UNCHANGED returned
      BY <1>0, <1>1, <2>2, PlainEffect DEF BeginStart
    <3>. QED
      BY <1>0, <2>1, <3>1 DEF Moves, session, closing
  <2>3. CASE task[t].d \notin open
    <3>1. Idles(t, {"end"}) /\ returned' = returned \cup {task[t].d}
      BY <1>0, <1>1, <2>3, PlainEffect DEF BeginStart
    <3>. QED
      BY <1>0, <2>1, <2>3, <3>1 DEF Idles, session, closing
  <2>. QED
    BY <2>2, <2>3
<1>2. CASE DialSucceeds(t)
  <2>1. /\ task[t].pc = "dial" /\ Moves(t, {"stream"})
        /\ UNCHANGED <<open, held, returned>>
    BY <1>0, <1>2, PlainEffect DEF DialSucceeds
  <2>. QED
    BY <1>0, <2>1 DEF Moves, session, closing
<1>3. CASE StartReturns(t)
  <2>1. /\ task[t].pc \in {"dial", "stream"} /\ Idles(t, {"end"})
        /\ open' = open \ {task[t].d} /\ held' = held \ {task[t].d}
        /\ returned' = returned \cup {task[t].d}
    BY <1>0, <1>3, PlainEffect DEF StartReturns
  <2>. QED
    BY <1>0, <2>1 DEF Idles, session, closing
<1>. QED
  BY <1>1, <1>2, <1>3

-----------------------------------------------------------------------------
(***************************************************************************)
(* The end of the room, its reservations and its newcomers.                *)
(***************************************************************************)
ClosedRoom ==
  /\ closed <=> closer # "none"
  /\ closed => douyinLive = None /\ probeLive = None
  /\ closer \notin {"clear", "stop"} => taken = <<None, None>>
  /\ closer \in {"stop", "wait", "done"} => clients = {}
  /\ closer = "done" /\ ~CloseTimeout => Active = {}
Reserved == {c \in Client : conn[c] = "reserved"}
Reservations == pendingClients = Cardinality(Reserved)
AddingPresent ==
  \A c \in Client : conn[c] = "adding" =>
    /\ since[c] <= generation
    /\ ~closed /\ since[c] = generation => c \in clients
PeopleInv == ClosedRoom /\ Reservations /\ AddingPresent

\* Most steps are none of a client's, and give a closed room no instance.
Quiet ==
  /\ UNCHANGED <<downstream, closing>>
  /\ generation' \in {generation, generation + 1}
  /\ closed => /\ douyinLive' \in {douyinLive, None}
               /\ probeLive' \in {probeLive, None}

\* What Quiet steps keep.
LEMMA PeopleKept ==
  ASSUME TypeOK, PeopleInv, Quiet, StartsNothing
  PROVE  PeopleInv'
<1>1. ClosedRoom'
  BY DEF PeopleInv, ClosedRoom, Quiet, StartsNothing, downstream, closing
<1>2. Reservations'
  BY DEF PeopleInv, Reservations, Reserved, Quiet, downstream
<1>3. AddingPresent'
  BY DEF PeopleInv, AddingPresent, Quiet, downstream, closing, TypeOK
<1>. QED
  BY <1>1, <1>2, <1>3 DEF PeopleInv

\* The quiet steps of every kind of task.
LEMMA QuietSteps ==
  ASSUME NEW t
  PROVE  /\ StartSession(t) => Quiet
         /\ Detach(t) \/ Dispose(t) => Quiet
         /\ \/ InitStarted(t) \/ InitCount(t) \/ TransitionToMonitor(t)
            \/ LaunchMonitor(t)
            => Quiet
         /\ \/ MonitorStopped(t) \/ NotifyTick(t) \/ PollTick(t)
            \/ MonitorResult(t) \/ FinishMonitor(t)
            => Quiet
         /\ \/ StartListener(t) \/ AwaitReady(t) \/ AwaitReturn(t)
            \/ MarkUpstreamReady(t) \/ DrainTimeout(t) \/ EndLiveSession(t)
            => Quiet
         /\ BeginStart(t) \/ DialSucceeds(t) \/ StartReturns(t) => Quiet
         /\ SpawnSlow(t) => Quiet
<1>. USE DEF Quiet, session
<1>1. ASSUME StartSession(t)
      PROVE  Quiet
  <2>1. CASE \/ Acquire(t) \/ CreateFails(t) \/ Create(t) \/ Prepare(t) \/ Commit(t)
             \/ ResetProbeFailures(t)
    BY <2>1 DEF Acquire, CreateFails, Create, Prepare, Commit,
                ResetProbeFailures, Current
  <2>2. CASE \/ RecordProbeFailure(t) \/ DiscardProbe(t) \/ PromoteProbe(t)
             \/ CheckAdopted(t) \/ DisposePendingLive(t) \/ LaunchRun(t)
    BY <2>2 DEF RecordProbeFailure, DiscardProbe, PromoteProbe, CheckAdopted,
                DisposePendingLive, LaunchRun, Current
  <2>. QED
    BY <1>1, <2>1, <2>2 DEF StartSession
<1>2. Detach(t) \/ Dispose(t) => Quiet
  BY DEF Detach, Dispose
<1>3. \/ InitStarted(t) \/ InitCount(t) \/ TransitionToMonitor(t)
      \/ LaunchMonitor(t)
      => Quiet
  BY DEF InitStarted, InitCount, TransitionToMonitor, LaunchMonitor
<1>4. \/ MonitorStopped(t) \/ NotifyTick(t) \/ PollTick(t)
      \/ MonitorResult(t) \/ FinishMonitor(t)
      => Quiet
  BY DEF MonitorStopped, NotifyTick, PollTick, MonitorResult, FinishMonitor
<1>5. \/ StartListener(t) \/ AwaitReady(t) \/ AwaitReturn(t)
      \/ MarkUpstreamReady(t) \/ DrainTimeout(t) \/ EndLiveSession(t)
      => Quiet
  BY DEF StartListener, AwaitReady, AwaitReturn, MarkUpstreamReady, DrainTimeout,
         EndLiveSession
<1>6. BeginStart(t) \/ DialSucceeds(t) \/ StartReturns(t) => Quiet
  BY DEF BeginStart, DialSucceeds, StartReturns
<1>7. SpawnSlow(t) => Quiet
  BY DEF SpawnSlow
<1>. QED
  BY <1>1, <1>2, <1>3, <1>4, <1>5, <1>6, <1>7

\* removeIfIdle ends the room only when no task is left but the one that asks.
LEMMA ClosedByRemoval ==
  ASSUME TypeOK, ClosedRoom, NEW A, RemoveIfIdle(A), Active' \subseteq A,
         UNCHANGED <<douyinLive, probeLive, clients>>, StartsNothing
  PROVE  ClosedRoom'
BY DEF ClosedRoom, RemoveIfIdle, Removable, IdleClients, StartsNothing

\* The end of a task.
LEMMA PeopleEndTask ==
  ASSUME TypeOK, PeopleInv, NEW t \in Task, EndTask(t), StartsNothing
  PROVE  PeopleInv'
<1>1. TaskOK /\ UNCHANGED <<session, listeners, downstream>>
  BY DEF TypeOK, EndTask
<1>2. Active' \subseteq Active \ {t}
  <2>1. Only({t}) /\ task'[t].pc = "free" /\ task[t].pc = "end"
    BY <1>1, EndTaskEffect DEF Idles, EndTask
  <2>. QED
    BY <2>1 DEF Only, Active, Uncounted
<1>3. ClosedRoom'
  BY <1>1, <1>2, ClosedByRemoval DEF EndTask, session, downstream, PeopleInv
<1>4. Reservations' /\ AddingPresent'
  BY <1>1 DEF PeopleInv, Reservations, Reserved, AddingPresent, session, downstream,
              EndTask, RemoveIfIdle
<1>. QED
  BY <1>3, <1>4 DEF PeopleInv

\* A generation that fails goes with its clients.
LEMMA PeopleFail ==
  ASSUME TypeOK, PeopleInv, NEW t \in Task, FailGeneration(t), StartsNothing
  PROVE  PeopleInv'
<1>1. CASE ~Current(task[t].gen)
  <2>1. Quiet
    BY <1>1 DEF FailGeneration, Quiet, downstream
  <2>. QED
    BY <2>1, PeopleKept
<1>2. CASE Current(task[t].gen)
  <2>1. /\ UNCHANGED <<douyinLive, pendingClients, since, closing>>
        /\ probeLive' = None /\ clients' = {} /\ generation' = generation + 1
        /\ ~closed
    BY <1>2 DEF FailGeneration, Current
  <2>6. conn' = [c \in Client |-> IF c \in clients /\ conn[c] = "open"
                                  THEN "gone" ELSE conn[c]]
    BY <1>2 DEF FailGeneration
  <2>7. \A c \in Client : conn'[c] = conn[c] \/ (conn[c] = "open" /\ conn'[c] = "gone")
    BY <2>6
  <2>2. ClosedRoom'
    BY <2>1 DEF PeopleInv, ClosedRoom, closing
  <2>3. Reserved' = Reserved
    BY <2>7 DEF Reserved
  <2>4. Reservations'
    BY <2>1, <2>3 DEF PeopleInv, Reservations
  <2>5. AddingPresent'
    BY <2>1, <2>7 DEF PeopleInv, AddingPresent, TypeOK
  <2>. QED
    BY <2>2, <2>4, <2>5 DEF PeopleInv
<1>. QED
  BY <1>1, <1>2

\* The number of reservations, as they come and go.
LEMMA ReservedCount ==
  ASSUME TypeOK, Reservations, NEW c \in Client
  PROVE  /\ conn[c] = "reserved" => pendingClients > 0
         /\ conn[c] # "reserved" /\ Reserved' = Reserved \cup {c}
              /\ pendingClients' = pendingClients + 1 => Reservations'
         /\ conn[c] = "reserved" /\ Reserved' = Reserved \ {c}
              /\ pendingClients' = pendingClients - 1 => Reservations'
<1>1. IsFiniteSet(Reserved)
  BY ClientAssumption, FS_Subset DEF Reserved
<1>2. Cardinality(Reserved) \in Nat
  BY <1>1, FS_CardinalityType
<1>3. c \in Reserved <=> conn[c] = "reserved"
  BY DEF Reserved
<1>4. ASSUME conn[c] = "reserved"
      PROVE  pendingClients > 0
  BY <1>1, <1>2, <1>3, <1>4, FS_EmptySet DEF Reservations
<1>5. c \notin Reserved => Cardinality(Reserved \cup {c}) = Cardinality(Reserved) + 1
  BY <1>1, FS_AddElement
<1>6. c \in Reserved => Cardinality(Reserved \ {c}) = Cardinality(Reserved) - 1
  BY <1>1, FS_RemoveElement
<1>. QED
  BY <1>2, <1>3, <1>4, <1>5, <1>6 DEF Reservations

\* The steps of a connection.
LEMMA PeopleConn ==
  ASSUME TypeOK, PeopleInv, NEW c \in Client, ConnStep(c), StartsNothing
  PROVE  PeopleInv'
<1>. USE DEF PeopleInv
<1>1. CASE Reserve(c)
  <2>1. ClosedRoom' /\ AddingPresent'
    BY <1>1 DEF Reserve, ClosedRoom, AddingPresent, session, closing, Active, TypeOK
  <2>2. Reserved' = Reserved \cup {c}
    BY <1>1 DEF Reserve, Reserved, TypeOK
  <2>3. Reservations'
    BY <1>1, <2>2, ReservedCount DEF Reserve
  <2>. QED
    BY <2>1, <2>3
<1>2. CASE ReleaseReservation(c)
  <2>1. ClosedRoom' /\ AddingPresent'
    BY <1>2 DEF ReleaseReservation, ClosedRoom, AddingPresent, session, closing,
                Active, TypeOK
  <2>2. Reserved' = Reserved \ {c}
    BY <1>2 DEF ReleaseReservation, Reserved, TypeOK
  <2>3. pendingClients' = pendingClients - 1
    BY <1>2, ReservedCount DEF ReleaseReservation
  <2>4. Reservations'
    BY <1>2, <2>2, <2>3, ReservedCount DEF ReleaseReservation
  <2>. QED
    BY <2>1, <2>4
<1>3. CASE ReleaseCheck(c)
  <2>1. Active' \subseteq Active
    BY <1>3 DEF ReleaseCheck, Active
  <2>2. ClosedRoom'
    BY <1>3, <2>1, ClosedByRemoval DEF ReleaseCheck, session
  <2>3. Reserved' = Reserved /\ AddingPresent'
    BY <1>3 DEF ReleaseCheck, RemoveIfIdle, Reserved, AddingPresent, session, TypeOK
  <2>4. Reservations'
    BY <1>3, <2>3 DEF ReleaseCheck, Reservations
  <2>. QED
    BY <2>2, <2>3, <2>4
<1>4. CASE AddClient(c)
  <2>1. ClosedRoom'
    BY <1>4 DEF AddClient, ClosedRoom, closing, Active
  <2>2. AddingPresent'
    BY <1>4 DEF AddClient, AddingPresent, closing, TypeOK
  <2>3. Reserved' = Reserved \ {c}
    BY <1>4 DEF AddClient, Reserved, TypeOK
  <2>4. pendingClients' = pendingClients - 1
    BY <1>4, ReservedCount DEF AddClient
  <2>5. Reservations'
    BY <1>4, <2>3, <2>4, ReservedCount DEF AddClient
  <2>. QED
    BY <2>1, <2>2, <2>5
<1>5. CASE StartInit(c)
  <2>1. ClosedRoom'
    BY <1>5 DEF StartInit, ClosedRoom, session, closing, StartsNothing
  <2>2. AddingPresent' /\ Reserved' = Reserved
    BY <1>5 DEF StartInit, AddingPresent, Reserved, session, closing, TypeOK
  <2>3. Reservations'
    BY <1>5, <2>2 DEF StartInit, Reservations
  <2>. QED
    BY <2>1, <2>2, <2>3
<1>6. CASE Drop(c) \/ CountAfterDrop(c) \/ SpawnCleanup(c)
  <2>1. ClosedRoom'
    BY <1>6 DEF Drop, CountAfterDrop, SpawnCleanup, ClosedRoom, session, closing,
                StartsNothing
  <2>2. AddingPresent' /\ Reserved' = Reserved
    BY <1>6 DEF Drop, CountAfterDrop, SpawnCleanup, AddingPresent, Reserved,
                session, closing, TypeOK
  <2>3. Reservations'
    BY <1>6, <2>2 DEF Drop, CountAfterDrop, SpawnCleanup, Reservations
  <2>. QED
    BY <2>1, <2>2, <2>3
<1>. QED
  BY <1>1, <1>2, <1>3, <1>4, <1>5, <1>6 DEF ConnStep

\* A batch of slow clients.
LEMMA PeopleSlow ==
  ASSUME TypeOK, PeopleInv, NEW S \in SUBSET Slow, RemoveSlow(S), StartsNothing
  PROVE  PeopleInv'
<1>1. /\ UNCHANGED <<session, listeners, pendingClients, since, closing>>
      /\ clients' = clients \ S /\ \A c \in S : conn[c] = "open"
      /\ \A c \in Client : conn'[c] = IF c \in S THEN "gone" ELSE conn[c]
  BY DEF RemoveSlow
<1>2. ClosedRoom'
  BY <1>1 DEF PeopleInv, ClosedRoom, session, closing, StartsNothing
<1>3. Reserved' = Reserved
  BY <1>1 DEF Reserved
<1>4. Reservations'
  BY <1>1, <1>3 DEF PeopleInv, Reservations
<1>5. AddingPresent'
  BY <1>1 DEF PeopleInv, AddingPresent, session, closing
<1>. QED
  BY <1>2, <1>4, <1>5 DEF PeopleInv

\* The steps of Close.
LEMMA PeopleClose ==
  ASSUME TypeOK, PeopleInv, Close \/ CloseStep
  PROVE  PeopleInv'
<1>1. CASE Close
  BY <1>1 DEF Close, PeopleInv, ClosedRoom, Reservations, Reserved, AddingPresent,
              downstream, Active
<1>2. CASE CloseClients
  <2>1. /\ UNCHANGED <<session, pendingClients, since, closed, taken, task>>
        /\ clients' = {} /\ closer = "clear" /\ closer' = "stop"
        /\ conn' = [c \in Client |-> IF c \in clients /\ conn[c] = "open"
                                     THEN "gone" ELSE conn[c]]
    BY <1>2 DEF CloseClients
  <2>6. \A c \in Client : conn'[c] = conn[c] \/ (conn[c] = "open" /\ conn'[c] = "gone")
    BY <2>1
  <2>2. ClosedRoom'
    BY <2>1 DEF PeopleInv, ClosedRoom, session, Active
  <2>3. Reserved' = Reserved /\ closed
    BY <2>1, <2>6 DEF Reserved, PeopleInv, ClosedRoom
  <2>4. Reservations'
    BY <2>1, <2>3 DEF PeopleInv, Reservations
  <2>5. AddingPresent'
    BY <2>1, <2>3, <2>6 DEF PeopleInv, AddingPresent, session
  <2>. QED
    BY <2>2, <2>4, <2>5 DEF PeopleInv
<1>3. CASE CloseListeners
  BY <1>3 DEF CloseListeners, PeopleInv, ClosedRoom, Reservations, Reserved,
              AddingPresent, session, downstream, Active
<1>4. CASE CloseWait
  BY <1>4 DEF CloseWait, PeopleInv, ClosedRoom, Reservations, Reserved,
              AddingPresent, session, downstream, Active
<1>. QED
  BY <1>1, <1>2, <1>3, <1>4 DEF CloseStep

-----------------------------------------------------------------------------
(***************************************************************************)
(* The start in progress, the monitor, and the probe they ask.             *)
(***************************************************************************)
Probing == {"prepare", "commit", "reset", "record", "discard", "promote"}
Starter == StartPc \cup {"result"}
StartingOwned ==
  ~closed /\ starting =>
    /\ douyinLive = None
    /\ \/ \E c \in Client : conn[c] = "adding" /\ since[c] = generation
       \/ \E t \in InitTask \cup MonitorTask :
            /\ task[t].pc \in Starter /\ task[t].gen = generation
            /\ t \in MonitorTask => monitor = t
PromotedAlone ==
  monitor # None => /\ task[monitor].pc \notin Promoted
                    /\ ~(task[monitor].pc = "result" /\ task[monitor].out = "ok")
ProbeIsCurrent ==
  probeLive # None =>
    \A t \in Task : task[t].pc \in Probing /\ task[t].d = probeLive
                      => task[t].gen = generation
NotLaunched ==
  \A t \in Task : task[t].pc \in Probing \ {"prepare"} => task[t].out # "ok"
SessionInv == StartingOwned /\ PromotedAlone /\ ProbeIsCurrent /\ NotLaunched

\* No start about to be launched is lost with its connection.
KeepsAdding ==
  \A c \in Client : conn[c] = "adding" => conn'[c] = "adding" /\ since'[c] = since[c]

\* A step that is none of a start's.
LEMMA SessionKept ==
  ASSUME TypeOK, SessionInv, KeepsAdding, closed => closed',
         generation' = generation, monitor' = monitor, starting' => starting,
         douyinLive' \in {douyinLive, None}, probeLive' \in {probeLive, None},
         NEW from, NEW to, Writes(from, to), (from \cup to) \cap Starter = {}
  PROVE  SessionInv'
<1>1. PICK S \in SUBSET Task :
        /\ Only(S)
        /\ \A u \in S : /\ task[u].pc \in from \/ (~closed /\ task[u].pc = "free")
                        /\ task'[u].pc \in to
  BY DEF Writes
<1>2. \A u \in Task : task[u].pc \in Starter \/ task'[u].pc \in Starter
                        => task'[u] = task[u]
  BY <1>1 DEF Only, Starter, StartPc
<1>3. InitTask \cup MonitorTask \subseteq Task
  BY DEF Task
<1>. USE DEF Starter, StartPc, Promoted, Probing
<1>4. StartingOwned'
  BY <1>2, <1>3 DEF SessionInv, StartingOwned, KeepsAdding
<1>5. PromotedAlone'
  BY <1>2, <1>3 DEF SessionInv, PromotedAlone, TypeOK
<1>6. ProbeIsCurrent' /\ NotLaunched'
  BY <1>2 DEF SessionInv, ProbeIsCurrent, NotLaunched
<1>. QED
  BY <1>4, <1>5, <1>6 DEF SessionInv

\* A start that has a result but has not launched a listener never says "ok".
LEMMA StartOut ==
  ASSUME TaskOK, NotLaunched, NEW t \in InitTask \cup MonitorTask, StartSession(t)
  PROVE  /\ task'[t].pc \in Probing \ {"prepare"} => task'[t].out # "ok"
         /\ ~LaunchRun(t) /\ task'[t].pc = "result" => task'[t].out # "ok"
<1>0. t \in Task /\ task[t] \in TaskState
  BY DEF Task, TaskOK
<1>1. \A pc, x : LET v == [Step(t, pc) EXCEPT !.out = x] IN v.pc = pc /\ v.out = x
  BY <1>0, ZenonT(60) DEF Step, TaskState
<1>2. \A pc : Step(t, pc).pc = pc /\ Step(t, pc).out = task[t].out
  BY <1>0, ZenonT(60) DEF Step, TaskState
<1>3. \A x : Finished(t, x).pc = "result" /\ Finished(t, x).out = x
  BY <1>0, StateFields
<1>. USE DEF Probing
<1>4. CASE Acquire(t)
  BY <1>0, <1>4, AcquireEffect DEF Acquire, LaunchRun
<1>5. CASE CreateFails(t)
  <2>1. task'[t] = Finished(t, "failed")
    BY <1>0, <1>5, WriteEffect DEF CreateFails
  <2>. QED
    BY <1>3, <2>1
<1>6. CASE Create(t)
  <2>1. task'[t].pc \in {"prepare", "result"}
        /\ (task'[t].pc = "result" => task'[t].out = "inactive")
    BY <1>0, <1>6, CreateEffect
  <2>. QED
    BY <2>1
<1>7. CASE Prepare(t)
  <2>1. PICK pc \in {"commit", "discard", "record"},
             out \in {"live", "offline", "missing", "unknown", "failed"} :
          task' = [task EXCEPT ![t] = [Step(t, pc) EXCEPT !.out = out]]
    BY <1>7, ZenonT(60) DEF Prepare
  <2>. DEFINE v == [Step(t, pc) EXCEPT !.out = out]
  <2>2. v.pc = pc /\ v.out = out
    BY <1>1
  <2>3. task' = [task EXCEPT ![t] = v]
    BY <2>1
  <2>. HIDE DEF v
  <2>4. task'[t] = v
    BY <1>0, <2>3, WriteEffect
  <2>. QED
    BY <2>2, <2>4
<1>8. CASE Commit(t)
  <2>1. /\ task[t].pc = "commit"
        /\ \/ task' = [task EXCEPT ![t] = Finished(t, "inactive")]
           \/ \E pc \in {"promote", "reset", "record"} :
                task' = [task EXCEPT ![t] = Step(t, pc)]
    BY <1>8 DEF Commit
  <2>2. \/ task'[t] = Finished(t, "inactive")
        \/ \E pc \in {"promote", "reset", "record"} : task'[t] = Step(t, pc)
    BY <1>0, <2>1, WriteEffect
  <2>. QED
    BY <1>0, <1>2, <1>3, <2>1, <2>2 DEF NotLaunched
<1>9. CASE ResetProbeFailures(t) \/ RecordProbeFailure(t) \/ DiscardProbe(t)
  <2>1. /\ task[t].pc \in {"reset", "record", "discard"}
        /\ task' = [task EXCEPT ![t] = Finished(t, task[t].out)]
    BY <1>9 DEF ResetProbeFailures, RecordProbeFailure, DiscardProbe
  <2>2. task'[t] = Finished(t, task[t].out)
    BY <1>0, <2>1, WriteEffect
  <2>. QED
    BY <1>0, <1>3, <2>1, <2>2 DEF NotLaunched
<1>10. CASE PromoteProbe(t)
  <2>. DEFINE v == [Step(t, "discard") EXCEPT !.out = "inactive"]
  <2>1. v.pc = "discard" /\ v.out = "inactive"
    BY <1>1
  <2>2. \/ task' = [task EXCEPT ![t] = Step(t, "check")]
        \/ task' = [task EXCEPT ![t] = v]
    BY <1>10 DEF PromoteProbe, Goto
  <2>. HIDE DEF v
  <2>3. task'[t] \in {Step(t, "check"), v}
    BY <1>0, <2>2, WriteEffect
  <2>. QED
    BY <1>2, <2>1, <2>3
<1>11. CASE CheckAdopted(t)
  <2>1. Moves(t, {"launch", "undo"})
    BY <1>0, <1>11, PlainEffect DEF CheckAdopted, Moves
  <2>. QED
    BY <2>1 DEF Moves
<1>12. CASE DisposePendingLive(t)
  <2>1. task'[t] = Finished(t, "inactive")
    BY <1>0, <1>12, WriteEffect DEF DisposePendingLive
  <2>. QED
    BY <1>3, <2>1
<1>13. CASE LaunchRun(t)
  <2>1. task'[t].pc \in {"undo", "result"}
    BY <1>13, LaunchRunEffect DEF Moves
  <2>. QED
    BY <1>13, <2>1
<1>. QED
  BY <1>4, <1>5, <1>6, <1>7, <1>8, <1>9, <1>10, <1>11, <1>12, <1>13 DEF StartSession

\* A start that goes on, with the probe of its own generation or with none.
LEMMA SessionGoesOn ==
  ASSUME TypeOK, SessionInv, NEW t \in InitTask \cup MonitorTask, StartSession(t),
         Only({t}), ~LaunchRun(t), Quiet,
         UNCHANGED <<generation, monitor, starting>>,
         douyinLive' \in {douyinLive, None}, probeLive' \in {probeLive, None},
         task[t].pc \in StartPc, task'[t].pc \in Starter,
         task'[t].gen = task[t].gen,
         task'[t].pc \in Promoted => task[t].pc \in Promoted,
         task'[t].pc \in Probing =>
           \/ task[t].pc \in Probing /\ task'[t].d = task[t].d
           \/ task[t].gen = generation
  PROVE  SessionInv'
<1>0. t \in Task /\ TaskOK /\ InitTask \cup MonitorTask \subseteq Task
  BY DEF Task, TypeOK
<1>1. \A u \in Task : u # t => task'[u] = task[u]
  BY DEF Only
<1>2. /\ task'[t].pc \in Probing \ {"prepare"} => task'[t].out # "ok"
      /\ task'[t].pc = "result" => task'[t].out # "ok"
  BY <1>0, StartOut DEF SessionInv
<1>. USE DEF Starter, StartPc, Promoted, Probing
<1>3. StartingOwned'
  BY <1>0, <1>1 DEF SessionInv, StartingOwned, Quiet, downstream, closing
<1>4. PromotedAlone'
  BY <1>0, <1>1, <1>2 DEF SessionInv, PromotedAlone, TypeOK
<1>5. ProbeIsCurrent'
  BY <1>0, <1>1 DEF SessionInv, ProbeIsCurrent
<1>6. NotLaunched'
  BY <1>0, <1>1, <1>2 DEF SessionInv, NotLaunched
<1>. QED
  BY <1>3, <1>4, <1>5, <1>6 DEF SessionInv

\* The steps of a start.
LEMMA SessionStart ==
  ASSUME RoomInv, SessionInv, NEW t \in InitTask \cup MonitorTask, StartSession(t)
  PROVE  SessionInv'
<1>0. /\ t \in Task /\ TypeOK /\ TaskOK /\ InitTask \cup MonitorTask \subseteq Task
      /\ Quiet /\ RunTask \subseteq Task
  BY QuietSteps DEF Task, TypeOK, RoomInv
<1>. USE DEF Starter, StartPc, Promoted, Probing
<1>1. CASE Acquire(t)
  <2>1. /\ Only({t}) /\ task'[t].gen = task[t].gen
        /\ task'[t].pc \in {"result", "create", "prepare"}
        /\ task'[t].pc = "prepare" => Current(task[t].gen)
    BY <1>0, <1>1, AcquireEffect
  <2>2. task[t].pc = "acquire" /\ UNCHANGED session /\ ~LaunchRun(t)
    BY <1>1 DEF Acquire, LaunchRun
  <2>. QED
    BY <1>0, <2>1, <2>2, SessionGoesOn DEF session, Current
<1>2. CASE CreateFails(t)
  <2>1. Results(t) /\ task[t].pc = "create" /\ UNCHANGED session /\ ~LaunchRun(t)
    BY <1>0, <1>2, PlainEffect DEF CreateFails, LaunchRun
  <2>. QED
    BY <1>0, <2>1, SessionGoesOn DEF session, Results
<1>3. CASE Create(t)
  <2>1. /\ UNCHANGED <<generation, monitor, douyinLive, starting>>
        /\ task[t].pc = "create" /\ ~LaunchRun(t)
    BY <1>3 DEF Create, LaunchRun
  <2>2. /\ Only({t}) /\ task'[t].gen = task[t].gen
        /\ task'[t].pc \in {"result", "prepare"}
        /\ task'[t].pc = "prepare" => Current(task[t].gen)
        /\ \/ UNCHANGED probeLive
           \/ \E i \in FreeInst : probeLive' = i
    BY <1>0, <1>3, CreateEffect
  <2>3. CASE UNCHANGED probeLive
    BY <1>0, <2>1, <2>2, <2>3, SessionGoesOn DEF Current
  <2>4. ASSUME NEW i \in FreeInst, probeLive' = i
        PROVE  SessionInv'
    <3>1. \A u \in Task : u # t => task'[u] = task[u] /\ task[u].d # i
      BY <2>2 DEF Only, FreeInst, Referenced
    <3>2. ProbeIsCurrent'
      BY <2>1, <2>2, <2>4, <3>1 DEF ProbeIsCurrent, Current
    <3>3. StartingOwned'
      BY <1>0, <2>1, <2>2, <3>1
      DEF SessionInv, StartingOwned, Quiet, downstream, closing
    <3>4. /\ task'[t].pc = "result" => task'[t].out # "ok"
          /\ task'[t].pc \in Probing \ {"prepare"} => task'[t].out # "ok"
      BY <1>0, <2>1, StartOut DEF SessionInv
    <3>5. PromotedAlone' /\ NotLaunched'
      BY <1>0, <2>1, <2>2, <3>1, <3>4 DEF SessionInv, PromotedAlone, NotLaunched, TypeOK
    <3>. QED
      BY <3>2, <3>3, <3>5 DEF SessionInv
  <2>. QED
    BY <2>2, <2>3, <2>4
<1>4. CASE Prepare(t)
  <2>1. /\ Moves(t, {"commit", "discard", "record"}) /\ task[t].pc = "prepare"
        /\ UNCHANGED session /\ ~LaunchRun(t)
    BY <1>0, <1>4, PrepareEffect DEF Prepare, LaunchRun
  <2>. QED
    BY <1>0, <2>1, SessionGoesOn DEF session, Moves
<1>5. CASE Commit(t)
  <2>1. /\ Results(t) \/ Moves(t, {"promote", "reset", "record"})
        /\ task[t].pc = "commit" /\ ~LaunchRun(t)
        /\ UNCHANGED <<generation, monitor, starting, douyinLive, probeLive>>
    BY <1>0, <1>5, CommitEffect DEF Commit, LaunchRun
  <2>. QED
    BY <1>0, <2>1, SessionGoesOn DEF Moves, Results
<1>6. CASE ResetProbeFailures(t) \/ RecordProbeFailure(t) \/ DiscardProbe(t)
  <2>1. /\ task[t].pc \in {"reset", "record", "discard"} /\ ~LaunchRun(t)
        /\ task' = [task EXCEPT ![t] = Finished(t, task[t].out)]
        /\ UNCHANGED <<generation, monitor, starting, douyinLive>>
        /\ probeLive' \in {probeLive, None}
    BY <1>6 DEF ResetProbeFailures, RecordProbeFailure, DiscardProbe, LaunchRun
  <2>2. Results(t)
    BY <1>0, <2>1, PlainEffect
  <2>. QED
    BY <1>0, <2>1, <2>2, SessionGoesOn DEF Results
<1>7. CASE PromoteProbe(t)
  <2>1. CASE ~(Current(task[t].gen) /\ probeLive = task[t].d)
    <3>1. /\ Moves(t, {"discard"}) /\ task[t].pc = "promote" /\ ~LaunchRun(t)
          /\ UNCHANGED <<generation, monitor, starting, douyinLive, probeLive>>
      BY <1>0, <1>7, <2>1, PromoteEffect DEF PromoteProbe, LaunchRun
    <3>. QED
      BY <1>0, <3>1, SessionGoesOn DEF Moves
  <2>2. CASE Current(task[t].gen) /\ probeLive = task[t].d
    <3>1. /\ Moves(t, {"check"}) /\ probeLive' = None /\ starting' = FALSE
          /\ monitor' = IF monitor # None /\ task[monitor].gen = task[t].gen
                        THEN None ELSE monitor
      BY <1>0, <1>7, <2>2, PromoteEffect DEF PromoteProbe
    <3>2. monitor' = None
      BY <2>2, <3>1 DEF RoomInv, MonitorInPlace, Current
    <3>3. NotLaunched'
      BY <1>0, <3>1 DEF SessionInv, NotLaunched, Moves, Only
    <3>. QED
      BY <3>1, <3>2, <3>3 DEF SessionInv, StartingOwned, PromotedAlone, ProbeIsCurrent
  <2>. QED
    BY <2>1, <2>2
<1>8. CASE CheckAdopted(t)
  <2>1. /\ Moves(t, {"launch", "undo"}) /\ task[t].pc = "check"
        /\ UNCHANGED session /\ ~LaunchRun(t)
    BY <1>0, <1>8, PlainEffect DEF CheckAdopted, LaunchRun, Moves
  <2>. QED
    BY <1>0, <2>1, SessionGoesOn DEF session, Moves
<1>9. CASE DisposePendingLive(t)
  <2>1. /\ Results(t) /\ task[t].pc = "undo" /\ ~LaunchRun(t)
        /\ UNCHANGED <<generation, monitor, starting, probeLive>>
        /\ douyinLive' \in {douyinLive, None}
    BY <1>0, <1>9, PlainEffect DEF DisposePendingLive, LaunchRun
  <2>. QED
    BY <1>0, <2>1, SessionGoesOn DEF Results
<1>10. CASE LaunchRun(t)
  <2>1. task[t].pc = "launch" /\ UNCHANGED <<session, downstream, closing>>
    BY <1>10 DEF LaunchRun
  <2>2. t # monitor
    BY <1>0, <2>1, TaskAssumption DEF SessionInv, PromotedAlone
  <2>3. /\ task'[t].pc \in {"undo", "result"} /\ task'[t].gen = task[t].gen
        /\ \A u \in Task :
             \/ u = t
             \/ task'[u] = task[u]
             \/ task[u].pc = "free" /\ task'[u].pc = "begin"
    <3>1. CASE ~Current(task[t].gen)
      <4>1. Moves(t, {"undo"})
        BY <1>0, <1>10, <3>1, LaunchRunEffect
      <4>. QED
        BY <4>1 DEF Moves, Only
    <3>2. CASE Current(task[t].gen)
      <4>1. PICK u \in RunTask :
              /\ task[u].pc = "free" /\ Only({t, u})
              /\ task'[t].pc = "result" /\ task'[t].gen = task[t].gen
              /\ task'[u].pc = "begin"
        BY <1>0, <1>10, <3>2, LaunchRunEffect
      <4>2. \A w \in Task : w # t /\ w # u => task'[w] = task[w]
        BY <4>1 DEF Only
      <4>. QED
        BY <4>1, <4>2
    <3>. QED
      BY <3>1, <3>2
  <2>4. StartingOwned'
    BY <1>0, <2>1, <2>3 DEF SessionInv, StartingOwned, session, downstream, closing
  <2>5. PromotedAlone'
    BY <1>0, <2>1, <2>2, <2>3 DEF SessionInv, PromotedAlone, session, TypeOK
  <2>6. ProbeIsCurrent' /\ NotLaunched'
    BY <1>0, <2>1, <2>3 DEF SessionInv, ProbeIsCurrent, NotLaunched, session
  <2>. QED
    BY <2>4, <2>5, <2>6 DEF SessionInv
<1>. QED
  BY <1>1, <1>2, <1>3, <1>4, <1>5, <1>6, <1>7, <1>8, <1>9, <1>10 DEF StartSession

\* The cleanup.
LEMMA SessionCleanup ==
  ASSUME TypeOK, SessionInv, NEW t \in Task, Cleanup(t)
  PROVE  SessionInv'
<1>0. TaskOK /\ UNCHANGED downstream /\ (closed => closed')
  BY DEF TypeOK, Cleanup, Detach, Dispose, EndTask, RemoveIfIdle, closing
<1>1. KeepsAdding
  BY <1>0 DEF KeepsAdding, downstream
<1>2. Writes({"detach", "dispose", "end"}, {"dispose", "end", "finish", "free"})
  BY <1>0, CleanupWrites
<1>3. CASE UNCHANGED session
  BY <1>0, <1>1, <1>2, <1>3, SessionKept DEF session, Starter, StartPc
<1>4. CASE ~UNCHANGED session
  <2>1. /\ Only({t}) /\ task'[t].pc = "dispose"
        /\ monitor' = None /\ probeLive' = None /\ starting' = FALSE
    BY <1>0, <1>4, DetachEffect DEF Cleanup, Detach, Dispose, EndTask
  <2>2. NotLaunched'
    BY <1>0, <2>1 DEF SessionInv, NotLaunched, Only, Probing
  <2>. QED
    BY <2>1, <2>2 DEF SessionInv, StartingOwned, PromotedAlone, ProbeIsCurrent
<1>. QED
  BY <1>3, <1>4

\* A generation that fails.
LEMMA SessionFail ==
  ASSUME TypeOK, SessionInv, NEW t \in Task, FailGeneration(t)
  PROVE  SessionInv'
<1>0. TaskOK /\ UNCHANGED closing
  BY DEF TypeOK, FailGeneration
<1>. USE DEF Starter, StartPc, Promoted, Probing
<1>1. CASE Current(task[t].gen)
  <2>1. /\ Only({t}) /\ task'[t].pc = "dispose" /\ task[t].pc \in {"result", "fail"}
        /\ probeLive' = None /\ starting' = FALSE /\ monitor' \in {monitor, None}
        /\ monitor' = t => t \in MonitorTask
    BY <1>0, <1>1, FailEffect, TaskAssumption DEF FailGeneration, TypeOK
  <2>2. NotLaunched'
    BY <1>0, <2>1 DEF SessionInv, NotLaunched, Only
  <2>3. PromotedAlone'
    BY <1>0, <2>1, TaskAssumption DEF SessionInv, PromotedAlone, Only, TypeOK, Task
  <2>. QED
    BY <2>1, <2>2, <2>3 DEF SessionInv, StartingOwned, ProbeIsCurrent
<1>2. CASE ~Current(task[t].gen)
  <2>1. /\ Only({t}) /\ task'[t].pc \in {"finish", "end"}
        /\ task[t].pc \in {"result", "fail"}
        /\ UNCHANGED <<probeLive, starting, monitor, generation, douyinLive,
                       downstream, closing>>
    BY <1>0, <1>2, FailEffect DEF Idles, FailGeneration, downstream
  <2>2. \A u \in Task : u # t => task'[u] = task[u]
    BY <2>1 DEF Only
  <2>3. StartingOwned'
    BY <1>2, <2>1, <2>2
    DEF SessionInv, StartingOwned, downstream, closing, Current, Task
  <2>4. PromotedAlone'
    BY <2>1, <2>2 DEF SessionInv, PromotedAlone, TypeOK, Task
  <2>5. ProbeIsCurrent' /\ NotLaunched'
    BY <2>1, <2>2 DEF SessionInv, ProbeIsCurrent, NotLaunched
  <2>. QED
    BY <2>3, <2>4, <2>5 DEF SessionInv
<1>. QED
  BY <1>1, <1>2

\* The end of a start clears "starting" when the start was the room's.
LEMMA SessionInit ==
  ASSUME TypeOK, SessionInv, NEW t \in InitTask, InitStarted(t) \/ InitCount(t)
  PROVE  SessionInv'
<1>0. /\ t \in Task /\ TaskOK /\ Quiet /\ t # monitor
      /\ UNCHANGED <<generation, monitor, douyinLive, probeLive>>
  BY QuietSteps, TaskAssumption
  DEF Task, TypeOK, InitStarted, InitCount, session
<1>1. KeepsAdding
  BY <1>0 DEF KeepsAdding, Quiet, downstream
<1>. USE DEF Starter, StartPc, Promoted, Probing
<1>2. CASE InitCount(t)
  <2>1. Idles(t, {"end", "detach"}) /\ task[t].pc = "count" /\ UNCHANGED session
    BY <1>0, <1>2, PlainEffect DEF InitCount, Idles
  <2>2. Writes({"count"}, {"end", "detach"})
    BY <1>0, <2>1, WritesOwn DEF Idles
  <2>. QED
    BY <1>0, <1>1, <2>1, <2>2, SessionKept DEF Quiet, session, closing
<1>3. CASE InitStarted(t)
  <2>1. /\ Idles(t, {"count", "end"}) /\ task[t].pc = "result"
        /\ starting' = (starting /\ ~Current(task[t].gen))
    BY <1>0, <1>3, InitStartedEffect DEF InitStarted
  <2>2. \A u \in Task : u # t => task'[u] = task[u]
    BY <2>1 DEF Only, Idles
  <2>3. StartingOwned'
    BY <1>0, <2>1, <2>2
    DEF SessionInv, StartingOwned, Quiet, downstream, closing, Current, Task
  <2>4. PromotedAlone'
    BY <1>0, <2>1, <2>2 DEF SessionInv, PromotedAlone, TypeOK, Task
  <2>5. ProbeIsCurrent' /\ NotLaunched'
    BY <1>0, <2>1, <2>2 DEF SessionInv, ProbeIsCurrent, NotLaunched, Idles
  <2>. QED
    BY <2>3, <2>4, <2>5 DEF SessionInv
<1>. QED
  BY <1>2, <1>3

\* A start or a session that hands over to a monitor.
LEMMA SessionHandover ==
  ASSUME TypeOK, SessionInv, NEW t \in InitTask \cup RunTask,
         TransitionToMonitor(t) \/ EndLiveSession(t)
  PROVE  SessionInv'
<1>0. /\ t \in Task /\ TaskOK /\ Quiet /\ t # monitor /\ MonitorTask \subseteq Task
      /\ UNCHANGED <<generation, probeLive>>
      /\ task[t].pc \in {"result", "ended"}
  BY QuietSteps, TaskAssumption
  DEF Task, TypeOK, TransitionToMonitor, EndLiveSession
<1>. USE DEF Starter, StartPc, Promoted, Probing
<1>1. \/ starting' = FALSE
      \/ UNCHANGED <<starting, douyinLive, monitor>> /\ End(t)
           /\ (task[t].pc = "result" =>
                 ~Current(task[t].gen) \/ douyinLive # None)
  BY DEF TransitionToMonitor, EndLiveSession
<1>2. \/ monitor' = monitor /\ Idles(t, {"end", "detach"})
      \/ /\ monitor = None
         /\ \E m \in MonitorTask :
              /\ task[m].pc = "free" /\ Only({t, m}) /\ monitor' = m
              /\ task'[t].pc = "monitor" /\ task'[m].pc = "installed"
  BY <1>0, HandoverEffect
<1>3. \A u \in Task : task'[u].pc \in Starter =>
                      u # t /\ task'[u] = task[u]
  BY <1>2 DEF Idles, Only
<1>4. ProbeIsCurrent' /\ NotLaunched'
  BY <1>0, <1>3 DEF SessionInv, ProbeIsCurrent, NotLaunched
<1>5. PromotedAlone'
  BY <1>0, <1>2, <1>3 DEF SessionInv, PromotedAlone, TypeOK
<1>6. StartingOwned'
  <2>1. CASE starting' = FALSE
    BY <2>1 DEF StartingOwned
  <2>2. CASE /\ UNCHANGED <<starting, douyinLive, monitor>> /\ Idles(t, {"end"})
             /\ (task[t].pc = "result" =>
                   ~Current(task[t].gen) \/ douyinLive # None)
    <3>1. \A u \in Task : u # t => task'[u] = task[u]
      BY <2>2 DEF Idles, Only
    <3>. QED
      BY <1>0, <2>2, <3>1
      DEF SessionInv, StartingOwned, Quiet, downstream, closing, Current, Task
  <2>. QED
    BY <1>0, <1>1, <2>1, <2>2, PlainEffect
<1>. QED
  BY <1>4, <1>5, <1>6 DEF SessionInv

\* The launch of a loop.
LEMMA SessionLaunch ==
  ASSUME TypeOK, Launchers, SessionInv, NEW t \in InitTask \cup RunTask,
         LaunchMonitor(t)
  PROVE  SessionInv'
<1>0. /\ t \in Task /\ TaskOK /\ Quiet /\ t # monitor /\ MonitorTask \subseteq Task
      /\ UNCHANGED <<generation, probeLive, douyinLive, starting>>
      /\ task[t].pc = "monitor"
  BY QuietSteps, TaskAssumption DEF Task, TypeOK, LaunchMonitor
<1>. DEFINE m == task[t].loop
<1>1. m \in MonitorTask /\ task[m].pc = "installed" /\ m # None
  BY <1>0, TaskAssumption DEF Launchers
<1>2. /\ Only({t, m}) /\ task'[t].pc = "end"
      /\ task'[m].pc \in {"select", "free"}
      /\ monitor' = monitor \/ (monitor = m /\ monitor' = None)
  BY <1>1, <1>0, LaunchMonitorEffect
<1>. HIDE DEF m
<1>3. \A u \in Task : u # t /\ u # m => task'[u] = task[u]
  BY <1>2 DEF Only
<1>. USE DEF Starter, StartPc, Promoted, Probing
<1>4. StartingOwned'
  BY <1>0, <1>1, <1>2, <1>3
  DEF SessionInv, StartingOwned, Quiet, downstream, closing, Task
<1>5. PromotedAlone'
  BY <1>0, <1>1, <1>2, <1>3 DEF SessionInv, PromotedAlone, TypeOK
<1>6. ProbeIsCurrent' /\ NotLaunched'
  BY <1>0, <1>1, <1>2, <1>3 DEF SessionInv, ProbeIsCurrent, NotLaunched
<1>. QED
  BY <1>4, <1>5, <1>6 DEF SessionInv

\* The steps of a loop: it asks for a start of its generation, and clears
\* "starting" when its start has a result, unless it has lost the room.
LEMMA SessionMonitor ==
  ASSUME RoomInv, SessionInv, NEW t \in MonitorTask,
         \/ MonitorStopped(t) \/ NotifyTick(t) \/ PollTick(t)
         \/ MonitorResult(t) \/ FinishMonitor(t)
  PROVE  SessionInv'
<1>0. /\ t \in Task /\ TypeOK /\ TaskOK /\ Quiet /\ t # None
      /\ UNCHANGED <<generation, douyinLive, probeLive>>
      /\ InitTask \cup MonitorTask \subseteq Task
  BY QuietSteps, TaskAssumption
  DEF Task, RoomInv, TypeOK, MonitorStopped, NotifyTick, PollTick, MonitorResult,
      FinishMonitor, session
<1>a. KeepsAdding
  BY <1>0 DEF KeepsAdding, Quiet, downstream
<1>. USE DEF Starter, StartPc, Promoted, Probing
<1>1. CASE MonitorStopped(t) \/ NotifyTick(t)
  <2>1. Moves(t, {"finish"}) /\ task[t].pc = "select" /\ UNCHANGED session
    BY <1>0, <1>1, PlainEffect DEF MonitorStopped, NotifyTick
  <2>2. Writes({"select"}, {"finish"})
    BY <1>0, <2>1, WritesOwn DEF Moves
  <2>. QED
    BY <1>0, <1>a, <2>1, <2>2, SessionKept DEF Quiet, session, closing
<1>2. CASE PollTick(t)
  <2>. DEFINE keep == Owns(t) /\ douyinLive = None /\ clients # {}
  <2>1. /\ Moves(t, IF keep THEN {"acquire"} ELSE {"finish"})
        /\ task[t].pc = "select" /\ starting' = (starting \/ keep)
        /\ monitor' = monitor
    BY <1>0, <1>2, PlainEffect DEF PollTick
  <2>2. keep => Current(task[t].gen) /\ monitor = t /\ douyinLive = None
    BY DEF Owns
  <2>. HIDE DEF keep
  <2>3. \A u \in Task : u # t => task'[u] = task[u]
    BY <2>1 DEF Only, Moves
  <2>4. StartingOwned'
    BY <1>0, <2>1, <2>2, <2>3
    DEF SessionInv, StartingOwned, Quiet, downstream, closing, Current, Moves
  <2>5. PromotedAlone'
    BY <1>0, <2>1, <2>3 DEF SessionInv, PromotedAlone, TypeOK, Moves
  <2>6. ProbeIsCurrent' /\ NotLaunched'
    BY <1>0, <2>1, <2>3 DEF SessionInv, ProbeIsCurrent, NotLaunched, Moves
  <2>. QED
    BY <2>4, <2>5, <2>6 DEF SessionInv
<1>3. CASE MonitorResult(t)
  <2>1. /\ Idles(t, {"finish", "fail", "select"}) /\ task[t].pc = "result"
        /\ starting' = (starting /\ (task[t].out = "ok" \/ ~Owns(t)))
        /\ monitor' = monitor
    BY <1>0, <1>3, MonitorResultEffect DEF MonitorResult
  <2>2. \A u \in Task : u # t => task'[u] = task[u]
    BY <2>1 DEF Only, Idles
  <2>3. ~closed /\ starting' => monitor # t
    BY <1>0, <2>1
    DEF SessionInv, PromotedAlone, Owns, Current, RoomInv, MonitorInPlace
  <2>4. StartingOwned'
    BY <1>0, <2>1, <2>2, <2>3
    DEF SessionInv, StartingOwned, Quiet, downstream, closing
  <2>5. PromotedAlone'
    BY <1>0, <2>1, <2>2 DEF SessionInv, PromotedAlone, TypeOK, Idles
  <2>6. ProbeIsCurrent' /\ NotLaunched'
    BY <1>0, <2>1, <2>2 DEF SessionInv, ProbeIsCurrent, NotLaunched, Idles
  <2>. QED
    BY <2>4, <2>5, <2>6 DEF SessionInv
<1>4. CASE FinishMonitor(t)
  <2>1. /\ Idles(t, {"end"}) /\ task[t].pc = "finish"
        /\ monitor' = (IF monitor = t THEN None ELSE monitor)
        /\ UNCHANGED starting
    BY <1>0, <1>4, PlainEffect DEF FinishMonitor
  <2>2. \A u \in Task : u # t => task'[u] = task[u]
    BY <2>1 DEF Only, Idles
  <2>3. StartingOwned'
    BY <1>0, <2>1, <2>2
    DEF SessionInv, StartingOwned, Quiet, downstream, closing
  <2>4. PromotedAlone'
    BY <1>0, <2>1, <2>2 DEF SessionInv, PromotedAlone, TypeOK
  <2>5. ProbeIsCurrent' /\ NotLaunched'
    BY <1>0, <2>1, <2>2 DEF SessionInv, ProbeIsCurrent, NotLaunched, Idles
  <2>. QED
    BY <2>3, <2>4, <2>5 DEF SessionInv
<1>. QED
  BY <1>1, <1>2, <1>3, <1>4

\* The steps of a session and of its Start.
LEMMA SessionRun ==
  ASSUME TypeOK, SessionInv, NEW t \in RunTask \cup StartTask,
         \/ /\ t \in RunTask
            /\ \/ StartListener(t) \/ AwaitReady(t) \/ AwaitReturn(t)
               \/ MarkUpstreamReady(t) \/ DrainTimeout(t)
         \/ /\ t \in StartTask
            /\ BeginStart(t) \/ DialSucceeds(t) \/ StartReturns(t)
  PROVE  SessionInv'
<1>0. /\ TaskOK /\ Quiet
      /\ UNCHANGED <<generation, monitor, starting, douyinLive, probeLive>>
  BY QuietSteps
  DEF TypeOK, StartListener, AwaitReady, AwaitReturn, MarkUpstreamReady,
      DrainTimeout, BeginStart, DialSucceeds, StartReturns, session
<1>1. KeepsAdding
  BY <1>0 DEF KeepsAdding, Quiet, downstream
<1>2. \/ Writes({"begin", "await", "mark", "stream", "drain"},
                {"begin", "await", "mark", "stream", "drain", "ended", "end"})
      \/ Writes({"begin", "dial", "stream"}, {"dial", "stream", "end"})
  BY <1>0, RunWrites, ListenWrites
<1>. QED
  BY <1>0, <1>1, <1>2, SessionKept DEF Quiet, closing, Starter, StartPc

\* The steps of a connection: the first client starts a session, and hands it to
\* an init task.
LEMMA SessionConn ==
  ASSUME TypeOK, SessionInv, NEW c \in Client, ConnStep(c)
  PROVE  SessionInv'
<1>0. /\ TaskOK /\ UNCHANGED <<generation, monitor, douyinLive, probeLive>>
      /\ closed => closed'
  <2>1. CASE Reserve(c) \/ ReleaseReservation(c) \/ ReleaseCheck(c) \/ AddClient(c)
    BY <2>1 DEF Reserve, ReleaseReservation, ReleaseCheck, AddClient, RemoveIfIdle,
                session, closing, TypeOK
  <2>2. CASE StartInit(c) \/ Drop(c) \/ CountAfterDrop(c) \/ SpawnCleanup(c)
    BY <2>2 DEF StartInit, Drop, CountAfterDrop, SpawnCleanup, session, closing, TypeOK
  <2>. QED
    BY <2>1, <2>2 DEF ConnStep
<1>1. CASE AddClient(c)
  <2>1. UNCHANGED task
    BY <1>1 DEF AddClient
  <2>2. StartingOwned'
    BY <1>0, <1>1, <2>1 DEF AddClient, SessionInv, StartingOwned, closing, TypeOK
  <2>. QED
    BY <1>0, <2>1, <2>2 DEF SessionInv, PromotedAlone, ProbeIsCurrent, NotLaunched
<1>2. CASE StartInit(c) /\ ~closed
  <2>1. PICK u \in InitTask :
          /\ task[u].pc = "free" /\ Only({u})
          /\ task'[u].pc = "acquire" /\ task'[u].gen = since[c]
    BY <1>0, <1>2, StartInitEffect
  <2>2. \A w \in Task : w # u => task'[w] = task[w]
    BY <2>1 DEF Only
  <2>3. /\ u \in Task /\ u # monitor /\ u \notin MonitorTask
        /\ InitTask \cup MonitorTask \subseteq Task
    BY TaskAssumption DEF Task, TypeOK
  <2>4. /\ UNCHANGED <<starting, closed>>
        /\ \A x \in Client : x # c => conn'[x] = conn[x] /\ since'[x] = since[x]
    BY <1>2 DEF StartInit, session, closing, TypeOK
  <2>. USE DEF Starter, StartPc, Promoted, Probing
  <2>5. StartingOwned'
    BY <1>0, <2>1, <2>2, <2>3, <2>4 DEF SessionInv, StartingOwned
  <2>6. PromotedAlone'
    BY <1>0, <2>1, <2>2, <2>3 DEF SessionInv, PromotedAlone, TypeOK
  <2>7. ProbeIsCurrent' /\ NotLaunched'
    BY <1>0, <2>1, <2>2 DEF SessionInv, ProbeIsCurrent, NotLaunched
  <2>. QED
    BY <2>5, <2>6, <2>7 DEF SessionInv
<1>3. CASE StartInit(c) /\ closed
  <2>1. UNCHANGED <<session, task, closed>>
    BY <1>3 DEF StartInit, closing
  <2>. QED
    BY <1>3, <2>1 DEF SessionInv, StartingOwned, PromotedAlone, ProbeIsCurrent,
                      NotLaunched, session
<1>4. CASE \/ Reserve(c) \/ ReleaseReservation(c) \/ ReleaseCheck(c)
           \/ Drop(c) \/ CountAfterDrop(c) \/ SpawnCleanup(c)
  <2>1. KeepsAdding /\ UNCHANGED session
    BY <1>4 DEF Reserve, ReleaseReservation, ReleaseCheck, Drop, CountAfterDrop,
                SpawnCleanup, KeepsAdding, TypeOK
  <2>2. Writes({}, {"acquire", "detach"})
    BY <1>0, ConnWrites
  <2>3. Writes({}, {"detach"})
    <3>1. CASE UNCHANGED task
      BY <3>1, WritesNew
    <3>2. CASE SpawnCleanup(c) /\ ~closed
      <4>1. PICK u \in CleanupTask : task[u].pc = "free" /\ Idles(u, {"detach"})
        BY <1>0, <3>2, SpawnCleanupEffect
      <4>. QED
        BY <3>2, <4>1, WritesNew DEF Task, Idles
    <3>. QED
      BY <1>4, <3>1, <3>2
      DEF Reserve, ReleaseReservation, ReleaseCheck, Drop, CountAfterDrop,
          SpawnCleanup
  <2>. QED
    BY <1>0, <2>1, <2>3, SessionKept DEF session, Starter, StartPc
<1>. QED
  BY <1>1, <1>2, <1>3, <1>4 DEF ConnStep

\* A batch of slow clients, removed and handed to a task.
LEMMA SessionSlow ==
  ASSUME TypeOK, SessionInv,
         \/ \E S \in SUBSET Slow : RemoveSlow(S)
         \/ \E t \in SlowTask : SpawnSlow(t)
  PROVE  SessionInv'
<1>0. TaskOK
  BY DEF TypeOK
<1>1. UNCHANGED <<session, closing>> /\ KeepsAdding
  BY DEF RemoveSlow, SpawnSlow, KeepsAdding, downstream
<1>2. Writes({"free", "spawn"}, {"spawn", "free", "detach", "end"})
  <2>1. ASSUME NEW S \in SUBSET Slow, RemoveSlow(S)
        PROVE  <1>2!:
    <3>1. PICK u \in SlowTask : task[u].pc = "free" /\ Idles(u, {"spawn"})
      BY <1>0, <2>1, RemoveSlowEffect
    <3>. QED
      BY <3>1, WritesOwn DEF Idles, Task
  <2>2. ASSUME NEW t \in SlowTask, SpawnSlow(t)
        PROVE  <1>2!:
    <3>1. t \in Task
      BY DEF Task
    <3>2. Idles(t, IF closed THEN {"free"} ELSE {"detach", "end"})
      BY <1>0, <2>2, <3>1, SpawnSlowEffect
    <3>3. /\ Only({t}) /\ task[t].pc = "spawn"
          /\ task'[t].pc \in {"free", "detach", "end"}
      BY <2>2, <3>2 DEF SpawnSlow, Idles
    <3>. QED
      BY <3>1, <3>3, WritesOwn
  <2>. QED
    BY <2>1, <2>2
<1>. QED
  BY <1>1, <1>2, SessionKept DEF session, closing, Starter, StartPc

\* The steps of Close.
LEMMA SessionClose ==
  ASSUME TypeOK, SessionInv, Close \/ CloseStep
  PROVE  SessionInv'
<1>1. UNCHANGED <<generation, monitor, starting, task>>
  BY DEF Close, CloseStep, CloseClients, CloseListeners, CloseWait, session
<1>2. PromotedAlone' /\ NotLaunched'
  BY <1>1 DEF SessionInv, PromotedAlone, NotLaunched
<1>3. ProbeIsCurrent'
  BY <1>1 DEF SessionInv, ProbeIsCurrent, Close, CloseStep, CloseClients,
              CloseListeners, CloseWait, session
<1>4. StartingOwned'
  <2>1. CASE Close
    BY <2>1 DEF Close, StartingOwned
  <2>2. CASE CloseClients
    <3>1. conn' = [x \in Client |-> IF x \in clients /\ conn[x] = "open"
                                    THEN "gone" ELSE conn[x]]
      BY <2>2 DEF CloseClients
    <3>2. \A x \in Client : conn[x] = "adding" => conn'[x] = "adding"
      BY <3>1
    <3>. QED
      BY <1>1, <2>2, <3>2 DEF CloseClients, SessionInv, StartingOwned, session
  <2>3. CASE CloseListeners \/ CloseWait
    BY <1>1, <2>3
    DEF CloseListeners, CloseWait, SessionInv, StartingOwned, session, downstream
  <2>. QED
    BY <2>1, <2>2, <2>3 DEF CloseStep
<1>. QED
  BY <1>2, <1>3, <1>4 DEF SessionInv

-----------------------------------------------------------------------------
(***************************************************************************)
(* The instances again: the steps that touch none, and Close.              *)
(***************************************************************************)

\* The steps of a connection and of a batch of slow clients.
LEMMA InstConn ==
  ASSUME TypeOK, InstInv,
         \/ \E c \in Client : ConnStep(c)
         \/ \E S \in SUBSET Slow : RemoveSlow(S)
         \/ \E t \in SlowTask : SpawnSlow(t)
  PROVE  InstInv'
<1>. USE DEF Late, Promoted
<1>0. TaskOK
  BY DEF TypeOK
<1>1. ASSUME NEW c \in Client, ConnStep(c)
      PROVE  InstInv'
  <2>1. /\ UNCHANGED <<listeners, taken, douyinLive, probeLive, upstreamReady>>
        /\ closed => closed'
    <3>1. CASE Reserve(c) \/ ReleaseReservation(c) \/ ReleaseCheck(c) \/ AddClient(c)
      BY <3>1 DEF Reserve, ReleaseReservation, ReleaseCheck, AddClient, RemoveIfIdle,
                  session, closing, TypeOK
    <3>2. CASE StartInit(c) \/ Drop(c) \/ CountAfterDrop(c) \/ SpawnCleanup(c)
      BY <3>2 DEF StartInit, Drop, CountAfterDrop, SpawnCleanup, session, closing
    <3>. QED
      BY <1>1, <3>1, <3>2 DEF ConnStep
  <2>2. Writes({}, {"acquire", "detach"})
    BY <1>0, <1>1, ConnWrites
  <2>. QED
    BY <2>1, <2>2, InstWrites
<1>2. ASSUME NEW S \in SUBSET Slow, RemoveSlow(S)
      PROVE  InstInv'
  <2>1. UNCHANGED <<session, listeners, closing>>
    BY <1>2 DEF RemoveSlow
  <2>2. PICK u \in SlowTask : task[u].pc = "free" /\ Idles(u, {"spawn"})
    BY <1>0, <1>2, RemoveSlowEffect
  <2>3. Writes({"free"}, {"spawn"})
    BY <2>2, WritesOwn DEF Idles, Task
  <2>. QED
    BY <2>1, <2>3, InstWrites DEF session, closing
<1>3. ASSUME NEW t \in SlowTask, SpawnSlow(t)
      PROVE  InstInv'
  <2>0. t \in Task /\ task[t].pc = "spawn" /\ UNCHANGED <<session, listeners, closing>>
    BY <1>3 DEF Task, SpawnSlow
  <2>1. Idles(t, IF closed THEN {"free"} ELSE {"detach", "end"})
    BY <1>0, <1>3, <2>0, SpawnSlowEffect
  <2>2. Only({t}) /\ task'[t].pc \in {"free", "detach", "end"}
    BY <2>1 DEF Idles
  <2>3. Writes({"spawn"}, {"free", "detach", "end"})
    BY <2>0, <2>2, WritesOwn
  <2>. QED
    BY <2>0, <2>3, InstWrites DEF session, closing
<1>. QED
  BY <1>1, <1>2, <1>3

\* The steps of an init task after its start, and those of a monitor loop.
LEMMA InstLoop ==
  ASSUME TypeOK, InstInv, NEW t \in InitTask \cup MonitorTask,
         \/ t \in InitTask /\ (InitStarted(t) \/ InitCount(t))
         \/ /\ t \in MonitorTask
            /\ \/ MonitorStopped(t) \/ NotifyTick(t) \/ PollTick(t)
               \/ MonitorResult(t) \/ FinishMonitor(t)
  PROVE  InstInv'
<1>1. TaskOK /\ UNCHANGED <<douyinLive, probeLive, upstreamReady, listeners, closing>>
  BY DEF TypeOK, InitStarted, InitCount, MonitorStopped, NotifyTick, PollTick,
         MonitorResult, FinishMonitor, session
<1>2. CASE t \in InitTask /\ InitCount(t)
  <2>1. t \in Task /\ Idles(t, {"end", "detach"}) /\ task[t].pc = "count"
    BY <1>1, <1>2, PlainEffect DEF InitCount, Idles, Task
  <2>2. Writes({"count"}, {"end", "detach"})
    BY <2>1, WritesOwn DEF Idles
  <2>. QED
    BY <1>1, <2>2, InstWrites DEF closing, Late, Promoted
<1>3. CASE t \in InitTask /\ InitStarted(t)
  <2>1. t \in Task /\ Idles(t, {"count", "end"}) /\ task[t].pc = "result"
    BY <1>1, <1>3, InitStartedEffect DEF InitStarted, Task
  <2>2. Writes({"result"}, {"count", "end"})
    BY <2>1, WritesOwn DEF Idles
  <2>. QED
    BY <1>1, <2>2, InstWrites DEF closing, Late, Promoted
<1>4. CASE MonitorResult(t)
  <2>1. t \in Task /\ Idles(t, {"finish", "fail", "select"}) /\ task[t].pc = "result"
    BY <1>1, <1>4, MonitorResultEffect DEF MonitorResult, Task
  <2>2. Writes({"result"}, {"finish", "fail", "select"})
    BY <2>1, WritesOwn DEF Idles
  <2>. QED
    BY <1>1, <2>2, InstWrites DEF closing, Late, Promoted
<1>5. CASE MonitorStopped(t) \/ NotifyTick(t) \/ PollTick(t) \/ FinishMonitor(t)
  <2>1. /\ t \in Task /\ task[t].pc \in {"select", "finish"}
        /\ (\E pc \in {"finish", "acquire"} : Goto(t, pc)) \/ End(t)
    BY <1>5 DEF MonitorStopped, NotifyTick, PollTick, FinishMonitor, Task
  <2>2. Only({t}) /\ task'[t].pc \in {"finish", "acquire", "end"}
    BY <1>1, <2>1, PlainEffect DEF Moves, Idles
  <2>3. Writes({"select", "finish"}, {"finish", "acquire", "end"})
    BY <2>1, <2>2, WritesOwn
  <2>. QED
    BY <1>1, <2>3, InstWrites DEF closing, Late, Promoted
<1>. QED
  BY <1>2, <1>3, <1>4, <1>5

\* Close takes both instances out of the room, and then closes them.
LEMMA InstClose ==
  ASSUME TypeOK, ClosedRoom, InstInv, Close \/ CloseStep
  PROVE  InstInv'
<1>. USE DEF InstInv, ReturnedClosed, OpenOwned, ProbeApart, PromotedOnce,
             ReadyApart, Holds
<1>1. CASE Close
  <2>1. taken = <<None, None>> /\ None \notin open
    BY <1>1, InstAssumption DEF Close, ClosedRoom, TypeOK
  <2>. QED
    BY <1>1, <2>1 DEF Close, listeners, TypeOK
<1>2. CASE CloseListeners
  <2>1. None \notin open
    BY InstAssumption DEF TypeOK
  <2>. QED
    BY <1>2, <2>1 DEF CloseListeners, session
<1>3. CASE CloseClients \/ CloseWait
  BY <1>3 DEF CloseClients, CloseWait, session, listeners
<1>. QED
  BY <1>1, <1>2, <1>3 DEF CloseStep

-----------------------------------------------------------------------------
(***************************************************************************)
(* The invariant of the room, with all its parts.                          *)
(***************************************************************************)
SafeInv == RoomInv /\ Launchers /\ InstInv /\ PeopleInv /\ SessionInv

\* It holds in an empty room.
LEMMA SafeInit == Init => SafeInv
<1>. SUFFICES ASSUME Init
              PROVE  SafeInv
  OBVIOUS
<1>1. FreeTask.pc = "free"
  BY FreeTaskType
<1>. HIDE DEF FreeTask
<1>2. \A t \in Task : task[t].pc = "free"
  BY <1>1 DEF Init
<1>3. Launchers
  BY <1>2 DEF Launchers
<1>4. InstInv
  BY <1>2 DEF Init, InstInv, ReturnedClosed, OpenOwned, ProbeApart, PromotedOnce,
              ReadyApart, Late, Promoted
<1>5. PeopleInv
  <2>1. Reserved = {}
    BY DEF Init, Reserved
  <2>2. Reservations
    BY <2>1, FS_EmptySet DEF Init, Reservations
  <2>3. ClosedRoom /\ AddingPresent
    BY DEF Init, ClosedRoom, AddingPresent
  <2>. QED
    BY <2>2, <2>3 DEF PeopleInv
<1>6. SessionInv
  BY <1>2 DEF Init, SessionInv, StartingOwned, PromotedAlone, ProbeIsCurrent,
              NotLaunched, Probing
<1>. QED
  BY <1>3, <1>4, <1>5, <1>6, RoomInit DEF SafeInv

\* Every step of every goroutine preserves it.
LEMMA SafeStep == SafeInv /\ [Next]_vars => SafeInv'
<1>. SUFFICES ASSUME SafeInv, [Next]_vars
              PROVE  SafeInv'
  OBVIOUS
<1>0. /\ RoomInv /\ TypeOK /\ TaskOK /\ CarriesInstance /\ Launchers /\ InstInv
      /\ PeopleInv /\ SessionInv /\ ClosedRoom
      /\ InitTask \cup MonitorTask \cup RunTask \cup StartTask
           \cup CleanupTask \cup SlowTask \subseteq Task
  BY DEF SafeInv, RoomInv, TypeOK, PeopleInv, Task
<1>1. RoomInv' /\ Launchers' /\ StartsNothing
  BY <1>0, RoomStep, LoopStep
<1>. DEFINE Rest == InstInv' /\ PeopleInv' /\ SessionInv'
<1>2. ASSUME NEW c \in Client, ConnStep(c)
      PROVE  Rest
  BY <1>0, <1>1, <1>2, InstConn, PeopleConn, SessionConn
<1>3. ASSUME NEW S \in SUBSET Slow, RemoveSlow(S)
      PROVE  Rest
  BY <1>0, <1>1, <1>3, InstConn, PeopleSlow, SessionSlow
<1>4. ASSUME NEW t \in Task, Cleanup(t)
      PROVE  Rest
  <2>1. InstInv' /\ SessionInv'
    BY <1>0, <1>4, InstCleanup, SessionCleanup
  <2>2. PeopleInv'
    BY <1>0, <1>1, <1>4, QuietSteps, PeopleKept, PeopleEndTask DEF Cleanup
  <2>. QED
    BY <2>1, <2>2
<1>5. ASSUME NEW t \in InitTask \cup MonitorTask, StartSession(t)
      PROVE  Rest
  BY <1>0, <1>1, <1>5, InstStart, SessionStart, QuietSteps, PeopleKept
<1>6. ASSUME NEW t \in Task, FailGeneration(t)
      PROVE  Rest
  BY <1>0, <1>1, <1>6, InstFail, PeopleFail, SessionFail
<1>7. ASSUME NEW t \in InitTask \cup RunTask,
             TransitionToMonitor(t) \/ EndLiveSession(t) \/ LaunchMonitor(t)
      PROVE  Rest
  BY <1>0, <1>1, <1>7, InstHandover, SessionHandover, SessionLaunch, QuietSteps,
     PeopleKept
<1>8. ASSUME NEW t \in InitTask, InitStep(t)
      PROVE  Rest
  <2>1. CASE InitStarted(t) \/ InitCount(t)
    BY <1>0, <1>1, <2>1, InstLoop, SessionInit, QuietSteps, PeopleKept
  <2>. QED
    BY <1>0, <1>4, <1>5, <1>6, <1>7, <1>8, <2>1 DEF InitStep
<1>9. ASSUME NEW t \in MonitorTask, MonitorStep(t)
      PROVE  Rest
  <2>1. CASE \/ MonitorStopped(t) \/ NotifyTick(t) \/ PollTick(t)
             \/ MonitorResult(t) \/ FinishMonitor(t)
    BY <1>0, <1>1, <2>1, InstLoop, SessionMonitor, QuietSteps, PeopleKept
  <2>. QED
    BY <1>0, <1>4, <1>5, <1>6, <1>9, <2>1 DEF MonitorStep
<1>10. ASSUME NEW t \in RunTask, RunStep(t)
       PROVE  Rest
  <2>1. CASE \/ StartListener(t) \/ AwaitReady(t) \/ AwaitReturn(t)
             \/ MarkUpstreamReady(t) \/ DrainTimeout(t)
    BY <1>0, <1>1, <2>1, InstRun, SessionRun, QuietSteps, PeopleKept
  <2>. QED
    BY <1>0, <1>4, <1>7, <1>10, <2>1 DEF RunStep
<1>11. ASSUME NEW t \in StartTask, StartStep(t)
       PROVE  Rest
  <2>1. CASE BeginStart(t) \/ DialSucceeds(t) \/ StartReturns(t)
    BY <1>0, <1>1, <2>1, InstListen, SessionRun, QuietSteps, PeopleKept
  <2>. QED
    BY <1>0, <1>4, <1>11, <2>1 DEF StartStep
<1>12. ASSUME NEW t \in SlowTask, SlowStep(t)
       PROVE  Rest
  <2>1. CASE SpawnSlow(t)
    BY <1>0, <1>1, <2>1, InstConn, SessionSlow, QuietSteps, PeopleKept
  <2>. QED
    BY <1>0, <1>4, <1>12, <2>1 DEF SlowStep
<1>13. ASSUME Close \/ CloseStep
       PROVE  Rest
  <2>1. InstInv'
    BY <1>0, <1>13, InstClose
  <2>2. PeopleInv'
    BY <1>0, <1>13, PeopleClose
  <2>3. SessionInv'
    BY <1>0, <1>13, SessionClose
  <2>. QED
    BY <2>1, <2>2, <2>3
<1>14. ASSUME UNCHANGED vars
       PROVE  Rest
  <2>0. UNCHANGED <<session, listeners, downstream, closing, task>>
    BY <1>14 DEF vars
  <2>. USE DEF session, listeners, downstream, closing
  <2>1. InstInv'
    BY <1>0, <2>0 DEF InstInv, ReturnedClosed, OpenOwned, ProbeApart, PromotedOnce,
                ReadyApart, Holds
  <2>2. PeopleInv'
    BY <1>0, <2>0 DEF PeopleInv, ClosedRoom, Reservations, Reserved, AddingPresent,
                      Active
  <2>3. SessionInv'
    BY <1>0, <2>0 DEF SessionInv, StartingOwned, PromotedAlone, ProbeIsCurrent,
                      NotLaunched
  <2>. QED
    BY <2>1, <2>2, <2>3
<1>. HIDE DEF Rest
<1>15. Rest
  BY <1>0, <1>2, <1>3, <1>4, <1>8, <1>9, <1>10, <1>11, <1>12, <1>13, <1>14 DEF Next
<1>. QED
  BY <1>1, <1>15 DEF SafeInv, Rest

\* Every reachable state of the room satisfies the invariant.
THEOREM RoomIsSafe == Spec => []SafeInv
<1>. QED
  BY SafeInit, SafeStep, PTL DEF Spec

-----------------------------------------------------------------------------
(***************************************************************************)
(* What follows for the room.                                              *)
(***************************************************************************)

\* A start in progress always has somebody who ends it: a client whose start is
\* about to be launched, or a start of the current generation; the probe the
\* room retains is open and held, and "online" has a listener behind it.
THEOREM SessionSound == Spec => []SessionConsistent
<1>1. SafeInv => SessionConsistent
  <2>. SUFFICES ASSUME SafeInv
                PROVE  SessionConsistent
    OBVIOUS
  <2>1. StartingHasOwner
    BY DEF SafeInv, SessionInv, StartingOwned, StartingHasOwner, Starter
  <2>2. RetainedProbeUsable /\ ReadyMeansLive
    BY DEF SafeInv, InstInv, ProbeApart, ReadyApart, RetainedProbeUsable,
           ReadyMeansLive
  <2>. QED
    BY <2>1, <2>2 DEF SessionConsistent
<1>. QED
  BY <1>1, RoomIsSafe, PTL

\* No open instance is out of reach of the room, its tasks and its Close.
THEOREM NothingIsLost == Spec => []NoListenerLost
<1>1. SafeInv => NoListenerLost
  BY DEF SafeInv, InstInv, OpenOwned, Holds, NoListenerLost, Referenced
<1>. QED
  BY <1>1, RoomIsSafe, PTL

\* A monitor that is in place has its loop running, or a task about to launch it.
THEOREM MonitorsRun == Spec => []MonitorHasLoop
<1>1. SafeInv => MonitorHasLoop
  BY DEF SafeInv, RoomInv, TypeOK, MonitorInPlace, Launchers, MonitorHasLoop, Task
<1>. QED
  BY <1>1, RoomIsSafe, PTL

\* When Close has returned in time, no client, task or open listener is left.
THEOREM CloseIsComplete == Spec => []CloseStopsAll
<1>1. ASSUME SafeInv
      PROVE  CloseStopsAll
  <2>1. ASSUME closer = "done", ~CloseTimeout
        PROVE  clients = {} /\ Active = {} /\ open = {}
    <3>1. /\ clients = {} /\ Active = {} /\ probeLive = None
          /\ taken = <<None, None>>
      BY <1>1, <2>1 DEF SafeInv, PeopleInv, ClosedRoom
    <3>2. \A t \in Task : task[t].pc \in Uncounted
      BY <3>1 DEF Active
    <3>3. \A t \in Task : \A i : ~Holds(t, i)
      BY <3>2 DEF Holds, Late, Promoted, Uncounted
    <3>4. None \notin open
      BY <1>1, InstAssumption DEF SafeInv, RoomInv, TypeOK
    <3>. QED
      BY <1>1, <3>1, <3>3, <3>4 DEF SafeInv, InstInv, OpenOwned
  <2>. QED
    BY <2>1 DEF CloseStopsAll
<1>. QED
  BY <1>1, RoomIsSafe, PTL

\* What removeIfIdle finds when it ends the room.
LEMMA RemovedIsEmpty ==
  ASSUME SafeInv, NEW A, Removable(A),
         \A t \in Task : task[t].pc \notin Uncounted \cup {"end"} => t \in A
  PROVE  /\ clients = {} /\ open = {}
         /\ \A c \in Client : /\ conn[c] # "reserved"
                              /\ conn[c] = "adding" => since[c] # generation
<1>1. /\ ~closed /\ clients = {} /\ pendingClients = 0
      /\ probeLive = None /\ taken = <<None, None>> /\ A = {}
  BY DEF Removable, IdleClients, SafeInv, PeopleInv, ClosedRoom
<1>2. open = {}
  <2>1. \A t \in Task : \A i : ~Holds(t, i)
    BY <1>1 DEF Holds, Late, Promoted, Uncounted
  <2>2. None \notin open
    BY InstAssumption DEF SafeInv, RoomInv, TypeOK
  <2>. QED
    BY <1>1, <2>1, <2>2 DEF SafeInv, InstInv, OpenOwned
<1>3. Reserved = {}
  <2>1. IsFiniteSet(Reserved)
    BY ClientAssumption, FS_Subset DEF Reserved
  <2>. QED
    BY <1>1, <2>1, FS_EmptySet DEF SafeInv, PeopleInv, Reservations
<1>. QED
  BY <1>1, <1>2, <1>3 DEF Reserved, SafeInv, PeopleInv, AddingPresent

\* Only removeIfIdle ends an open room; Close does it after closing it.
LEMMA EndedByRemoval ==
  ASSUME SafeInv, [Next]_vars, ~closed, closer' = "done"
  PROVE  \/ \E c \in Client : ReleaseCheck(c) /\ Removable(Active)
         \/ \E t \in Task : EndTask(t) /\ Removable(Active \ {t})
<1>1. closer = "none"
  BY DEF SafeInv, PeopleInv, ClosedRoom
<1>2. ~UNCHANGED closing
  BY <1>1 DEF closing
<1>3. ASSUME NEW t, StartSession(t) \/ FailGeneration(t)
      PROVE  FALSE
  BY <1>2, <1>3, QuietSteps DEF FailGeneration, Quiet
<1>4. ASSUME NEW t \in Task, Cleanup(t)
      PROVE  EndTask(t) /\ Removable(Active \ {t})
  BY <1>1, <1>2, <1>4, QuietSteps DEF Cleanup, Quiet, EndTask, RemoveIfIdle
<1>5. ASSUME NEW c \in Client, ConnStep(c)
      PROVE  ReleaseCheck(c) /\ Removable(Active)
  BY <1>1, <1>2, <1>5
  DEF ConnStep, Reserve, ReleaseReservation, ReleaseCheck, AddClient, StartInit,
      Drop, CountAfterDrop, SpawnCleanup, RemoveIfIdle
<1>6. ASSUME NEW t \in Task, InitStep(t) \/ MonitorStep(t)
      PROVE  EndTask(t) /\ Removable(Active \ {t})
  BY <1>2, <1>3, <1>4, <1>6, QuietSteps DEF InitStep, MonitorStep, Quiet
<1>7. ASSUME NEW t \in Task, RunStep(t) \/ StartStep(t) \/ SlowStep(t)
      PROVE  EndTask(t) /\ Removable(Active \ {t})
  BY <1>2, <1>4, <1>7, QuietSteps DEF RunStep, StartStep, SlowStep, Quiet
<1>8. ~\E S \in SUBSET Slow : RemoveSlow(S)
  BY <1>2 DEF RemoveSlow
<1>9. ~(Close \/ CloseStep)
  BY <1>1 DEF Close, CloseStep, CloseClients, CloseListeners, CloseWait
<1>10. ~UNCHANGED vars
  BY <1>2 DEF vars
<1>11. InitTask \cup MonitorTask \cup RunTask \cup StartTask
           \cup CleanupTask \cup SlowTask \subseteq Task
  BY DEF Task
<1>. QED
  BY <1>4, <1>5, <1>6, <1>7, <1>8, <1>9, <1>10, <1>11 DEF Next

\* A room that is open ends only when nobody uses it, and a closed one lets no
\* client in and starts no task.
THEOREM EndsOnce == Spec => RoomEndsOnce
<1>1. ASSUME SafeInv, [Next]_vars, ~closed, closer' = "done"
      PROVE  /\ clients = {} /\ open = {}
             /\ \A c \in Client :
                  /\ conn[c] # "reserved"
                  /\ conn[c] = "adding" => since[c] # generation
  <2>1. \/ \E c \in Client : ReleaseCheck(c) /\ Removable(Active)
        \/ \E t \in Task : EndTask(t) /\ Removable(Active \ {t})
    BY <1>1, EndedByRemoval
  <2>. QED
    BY <1>1, <2>1, RemovedIsEmpty DEF EndTask, Active
<1>2. ASSUME SafeInv, [Next]_vars, closed
      PROVE  clients' \subseteq clients /\ Active' \subseteq Active
  <2>1. Active' \subseteq Active
    BY <1>1, <1>2, LoopStep DEF SafeInv, RoomInv, StartsNothing
  <2>2. clients' \subseteq clients
    <3>1. ASSUME NEW t, \/ StartSession(t) \/ FailGeneration(t) \/ Cleanup(t)
          PROVE  clients' \subseteq clients
      BY <3>1, QuietSteps DEF Cleanup, FailGeneration, Quiet, EndTask, downstream
    <3>2. ASSUME NEW t, InitStep(t) \/ MonitorStep(t)
          PROVE  clients' \subseteq clients
      BY <3>1, <3>2, QuietSteps DEF InitStep, MonitorStep, Quiet, downstream
    <3>3. ASSUME NEW t, RunStep(t) \/ StartStep(t) \/ SlowStep(t)
          PROVE  clients' \subseteq clients
      BY <3>1, <3>3, QuietSteps DEF RunStep, StartStep, SlowStep, Quiet, downstream
    <3>4. ASSUME NEW c, ConnStep(c)
          PROVE  clients' \subseteq clients
      BY <1>2, <3>4
      DEF ConnStep, Reserve, ReleaseReservation, ReleaseCheck, AddClient, StartInit,
          Drop, CountAfterDrop, SpawnCleanup
    <3>5. \/ Close \/ CloseStep \/ (\E S \in SUBSET Slow : RemoveSlow(S))
          \/ UNCHANGED vars
          => clients' \subseteq clients
      BY DEF Close, CloseStep, CloseClients, CloseListeners, CloseWait, RemoveSlow,
             vars, downstream
    <3>. QED
      BY <1>2, <3>1, <3>2, <3>3, <3>4, <3>5 DEF Next
  <2>. QED
    BY <2>1, <2>2
<1>3. SafeInv /\ [Next]_vars =>
        [~closed /\ closer' = "done"
           => (/\ clients = {} /\ open = {}
               /\ \A c \in Client :
                     /\ conn[c] # "reserved"
                     /\ conn[c] = "adding" => since[c] # generation)]_vars
  BY <1>1
<1>4. SafeInv /\ [Next]_vars =>
        [closed => (/\ clients' \subseteq clients
                    /\ Active' \subseteq Active)]_vars
  BY <1>2
<1>. QED
  BY <1>3, <1>4, RoomIsSafe, PTL
  DEF Spec, RoomEndsOnce, RemovedRoomIsEmpty, ClosedAdmitsNothing

-----------------------------------------------------------------------------
(***************************************************************************)
(* What a step of a task writes besides its own slot is a free slot or the *)
(* slot of a loop that is not launched yet, and none of these carries the  *)
(* number of a generation.                                                 *)
(***************************************************************************)
Alone(t) ==
  \A u \in Task : u # t /\ task'[u] # task[u] => task[u].pc \in {"free", "installed"}

\* One slot, or two of which the second carries nothing.
LEMMA AloneSlots ==
  ASSUME NEW t
  PROVE  /\ Only({t}) => Alone(t)
         /\ \A u : task[u].pc \in {"free", "installed"} /\ Only({t, u}) => Alone(t)
BY DEF Only, Alone

\* A start writes its own slot, and that of the run task it launches.
LEMMA StartAlone ==
  ASSUME TaskOK, NEW t \in InitTask \cup MonitorTask, StartSession(t)
  PROVE  Alone(t)
<1>0. t \in Task
  BY DEF Task
<1>1. CASE LaunchRun(t)
  <2>1. \/ Only({t})
        \/ \E u \in RunTask : task[u].pc = "free" /\ Only({t, u})
    BY <1>1, LaunchRunEffect DEF Moves
  <2>. QED
    BY <2>1, AloneSlots
<1>2. CASE \/ Acquire(t) \/ Create(t) \/ Prepare(t) \/ Commit(t) \/ PromoteProbe(t)
  <2>1. Only({t})
    BY <1>0, <1>2, AcquireEffect, CreateEffect, PrepareEffect, CommitEffect,
       PromoteEffect DEF Moves, Results
  <2>. QED
    BY <2>1, AloneSlots
<1>3. CASE \/ CreateFails(t) \/ ResetProbeFailures(t) \/ RecordProbeFailure(t)
           \/ DiscardProbe(t) \/ CheckAdopted(t) \/ DisposePendingLive(t)
  <2>1. \/ \E x : task' = [task EXCEPT ![t] = Finished(t, x)]
        \/ \E pc : Goto(t, pc)
    BY <1>3 DEF CreateFails, ResetProbeFailures, RecordProbeFailure, DiscardProbe,
                CheckAdopted, DisposePendingLive
  <2>2. Only({t})
    BY <1>0, <2>1, PlainEffect DEF Moves, Results
  <2>. QED
    BY <2>2, AloneSlots
<1>. QED
  BY <1>1, <1>2, <1>3 DEF StartSession

\* The end of a task writes its own slot.
LEMMA CleanupAlone ==
  ASSUME TaskOK, NEW t \in Task, Cleanup(t)
  PROVE  Alone(t)
<1>1. Only({t})
  BY DetachEffect, DisposeEffect, EndTaskEffect DEF Cleanup, Idles
<1>. QED
  BY <1>1, AloneSlots

\* So do the rest of an init task and of a monitor loop, but for the loop that
\* is installed or launched.
LEMMA LoopAlone ==
  ASSUME TaskOK, Launchers, NEW t \in Task,
         \/ t \in InitTask /\ InitStep(t)
         \/ t \in MonitorTask /\ MonitorStep(t)
  PROVE  Alone(t)
<1>1. CASE StartSession(t) /\ t \in InitTask \cup MonitorTask
  BY <1>1, StartAlone
<1>2. CASE Cleanup(t)
  BY <1>2, CleanupAlone
<1>3. CASE InitStarted(t) \/ FailGeneration(t) \/ MonitorResult(t)
  <2>1. Only({t})
    BY <1>3, InitStartedEffect, FailEffect, MonitorResultEffect DEF Idles
  <2>. QED
    BY <2>1, AloneSlots
<1>4. CASE \/ InitCount(t) \/ MonitorStopped(t) \/ NotifyTick(t) \/ PollTick(t)
           \/ FinishMonitor(t)
  <2>1. ToDetach(t) \/ End(t) \/ \E pc : Goto(t, pc)
    BY <1>4 DEF InitCount, MonitorStopped, NotifyTick, PollTick, FinishMonitor
  <2>2. Only({t})
    BY <2>1, PlainEffect DEF Moves, Idles
  <2>. QED
    BY <2>2, AloneSlots
<1>5. CASE TransitionToMonitor(t) /\ t \in InitTask
  <2>1. \/ Only({t})
        \/ \E u \in MonitorTask : task[u].pc = "free" /\ Only({t, u})
    BY <1>5, HandoverEffect DEF Idles
  <2>. QED
    BY <2>1, AloneSlots
<1>6. CASE LaunchMonitor(t) /\ t \in InitTask
  <2>1. task[t].pc = "monitor"
    BY <1>6 DEF LaunchMonitor
  <2>2. task[t].loop \in MonitorTask /\ task[task[t].loop].pc = "installed"
    BY <2>1 DEF Launchers
  <2>3. Only({t, task[t].loop})
    BY <1>6, <2>2, LaunchMonitorEffect
  <2>. QED
    BY <2>2, <2>3, AloneSlots
<1>. QED
  BY <1>1, <1>2, <1>3, <1>4, <1>5, <1>6 DEF InitStep, MonitorStep

\* So do a session and the goroutine of its listener.
LEMMA RunAlone ==
  ASSUME TaskOK, Launchers, NEW t \in Task,
         \/ t \in RunTask /\ RunStep(t)
         \/ t \in StartTask /\ StartStep(t)
         \/ t \in SlowTask /\ SlowStep(t)
  PROVE  Alone(t)
<1>1. CASE Cleanup(t)
  BY <1>1, CleanupAlone
<1>2. CASE StartListener(t) /\ t \in RunTask
  <2>1. \/ Only({t})
        \/ \E u \in StartTask : task[u].pc = "free" /\ Only({t, u})
    BY <1>2, StartListenerEffect DEF Idles
  <2>. QED
    BY <2>1, AloneSlots
<1>3. CASE \/ AwaitReady(t) \/ AwaitReturn(t) \/ MarkUpstreamReady(t)
           \/ DrainTimeout(t) \/ BeginStart(t) \/ DialSucceeds(t) \/ StartReturns(t)
  <2>1. End(t) \/ \E pc : Goto(t, pc)
    BY <1>3 DEF AwaitReady, AwaitReturn, MarkUpstreamReady, DrainTimeout,
                BeginStart, DialSucceeds, StartReturns
  <2>2. Only({t})
    BY <2>1, PlainEffect DEF Moves, Idles
  <2>. QED
    BY <2>2, AloneSlots
<1>4. CASE EndLiveSession(t) /\ t \in RunTask
  <2>1. \/ Only({t})
        \/ \E u \in MonitorTask : task[u].pc = "free" /\ Only({t, u})
    BY <1>4, HandoverEffect DEF Idles
  <2>. QED
    BY <2>1, AloneSlots
<1>5. CASE LaunchMonitor(t) /\ t \in RunTask
  <2>1. task[t].pc = "monitor"
    BY <1>5 DEF LaunchMonitor
  <2>2. task[t].loop \in MonitorTask /\ task[task[t].loop].pc = "installed"
    BY <2>1 DEF Launchers
  <2>3. Only({t, task[t].loop})
    BY <1>5, <2>2, LaunchMonitorEffect
  <2>. QED
    BY <2>2, <2>3, AloneSlots
<1>6. CASE SpawnSlow(t)
  BY <1>6, SpawnSlowEffect, AloneSlots DEF Idles
<1>. QED
  BY <1>1, <1>2, <1>3, <1>4, <1>5, <1>6 DEF RunStep, StartStep, SlowStep

-----------------------------------------------------------------------------
(***************************************************************************)
(* A task that carries the number of a retired generation.                 *)
(***************************************************************************)
Spares(t) ==
  /\ UNCHANGED <<generation, monitor, probeLive, probeFailures,
                 upstreamReady, starting, knownValid, clients>>
  /\ douyinLive' # douyinLive =>
       douyinLive = task[t].d /\ douyinLive' = None

\* A start of a retired generation finds that the retained probe is not its own.
LEMMA StaleStart ==
  ASSUME TypeOK, CarriesInstance, ProbeIsCurrent, NEW t \in Task,
         task[t].gen # generation, StartSession(t)
  PROVE  Spares(t)
<1>1. ~Current(task[t].gen)
  BY DEF Current
<1>2. task[t].pc \in {"reset", "record", "discard"} => probeLive # task[t].d
  BY InstAssumption DEF ProbeIsCurrent, CarriesInstance, CarryPc, Probing, StartPc
<1>3. CASE Acquire(t) \/ CreateFails(t) \/ Create(t) \/ Prepare(t) \/ Commit(t)
  BY <1>1, <1>3
  DEF Acquire, CreateFails, Create, Prepare, Commit, Spares, session, downstream, TypeOK
<1>4. CASE ResetProbeFailures(t) \/ RecordProbeFailure(t) \/ DiscardProbe(t)
  BY <1>2, <1>4
  DEF ResetProbeFailures, RecordProbeFailure, DiscardProbe, Spares, downstream
<1>5. CASE \/ PromoteProbe(t) \/ CheckAdopted(t) \/ DisposePendingLive(t)
           \/ LaunchRun(t)
  BY <1>1, <1>5
  DEF PromoteProbe, CheckAdopted, DisposePendingLive, LaunchRun, Spares, session,
      downstream
<1>. QED
  BY <1>3, <1>4, <1>5 DEF StartSession

\* The other steps of such a task find that the room is no longer theirs.
LEMMA StaleLoop ==
  ASSUME TypeOK, MonitorInPlace, NEW t \in Task,
         task[t].gen # generation,
         \/ InitStarted(t) \/ FailGeneration(t) \/ TransitionToMonitor(t)
         \/ MonitorStopped(t) \/ NotifyTick(t) \/ PollTick(t)
         \/ MonitorResult(t) \/ FinishMonitor(t)
         \/ StartListener(t) \/ AwaitReady(t) \/ AwaitReturn(t)
         \/ MarkUpstreamReady(t) \/ DrainTimeout(t) \/ EndLiveSession(t)
  PROVE  Spares(t)
<1>1. ~Current(task[t].gen) /\ ~Owns(t) /\ ~Adopted(t)
  BY DEF Current, Owns, Adopted
<1>2. monitor # t \/ monitor = None
  BY DEF MonitorInPlace
<1>3. CASE InitStarted(t) \/ FailGeneration(t) \/ TransitionToMonitor(t)
  BY <1>1, <1>3
  DEF InitStarted, FailGeneration, TransitionToMonitor, Spares, downstream, TypeOK
<1>4. CASE \/ MonitorStopped(t) \/ NotifyTick(t) \/ PollTick(t)
           \/ MonitorResult(t) \/ FinishMonitor(t)
  BY <1>1, <1>2, <1>4
  DEF MonitorStopped, NotifyTick, PollTick, MonitorResult, FinishMonitor, Spares,
      session, downstream, TypeOK
<1>5. CASE \/ StartListener(t) \/ AwaitReady(t) \/ AwaitReturn(t)
           \/ MarkUpstreamReady(t) \/ DrainTimeout(t) \/ EndLiveSession(t)
  BY <1>1, <1>5
  DEF StartListener, AwaitReady, AwaitReturn, MarkUpstreamReady, DrainTimeout,
      EndLiveSession, Spares, session, downstream, TypeOK
<1>. QED
  BY <1>3, <1>4, <1>5

\* A task of a retired generation leaves the session and the clients of the
\* generation that replaced it alone.
THEOREM StaleHarmless == Spec => StaleTaskHarmless
<1>1. ASSUME SafeInv, [Next]_vars, NEW t \in Task, CarriesGeneration(t),
             task[t].gen # generation, task'[t] # task[t]
      PROVE  Spares(t)
  <2>0. /\ TypeOK /\ TaskOK /\ CarriesInstance /\ MonitorInPlace /\ Launchers
        /\ ProbeIsCurrent
        /\ task[t].pc \notin {"free", "installed"}
        /\ InitTask \cup MonitorTask \cup RunTask \cup StartTask
             \cup CleanupTask \cup SlowTask \subseteq Task
    BY <1>1 DEF SafeInv, RoomInv, SessionInv, TypeOK, CarriesGeneration, Task
  <2>1. ASSUME NEW x \in Task, Alone(x)
        PROVE  x = t
    BY <1>1, <2>0, <2>1 DEF Alone
  <2>2. ASSUME NEW c \in Client, ConnStep(c)
        PROVE  FALSE
    <3>1. Writes({}, {"acquire", "detach"})
      BY <2>0, <2>2, ConnWrites
    <3>. QED
      BY <1>1, <2>0, <3>1 DEF Writes, Only
  <2>3. ASSUME NEW S \in SUBSET Slow, RemoveSlow(S)
        PROVE  FALSE
    <3>1. PICK u \in SlowTask : task[u].pc = "free" /\ Idles(u, {"spawn"})
      BY <2>0, <2>3, RemoveSlowEffect
    <3>. QED
      BY <1>1, <2>0, <3>1 DEF Idles, Only
  <2>4. CASE \/ \E x \in InitTask : InitStep(x)
             \/ \E x \in MonitorTask : MonitorStep(x)
    <3>1. \/ t \in InitTask /\ InitStep(t)
          \/ t \in MonitorTask /\ MonitorStep(t)
      BY <2>0, <2>1, <2>4, LoopAlone
    <3>2. ~(Cleanup(t) \/ InitCount(t) \/ LaunchMonitor(t))
      BY <1>1 DEF CarriesGeneration, Cleanup, Detach, Dispose, EndTask, InitCount,
                  LaunchMonitor
    <3>. QED
      BY <1>1, <2>0, <3>1, <3>2, StaleStart, StaleLoop DEF InitStep, MonitorStep
  <2>5. CASE \/ \E x \in RunTask : RunStep(x)
             \/ \E x \in StartTask : StartStep(x)
             \/ \E x \in SlowTask : SlowStep(x)
    <3>1. t \in RunTask /\ RunStep(t)
      BY <1>1, <2>0, <2>1, <2>5, RunAlone, TaskAssumption DEF CarriesGeneration
    <3>2. ~(Cleanup(t) \/ LaunchMonitor(t))
      BY <1>1 DEF CarriesGeneration, Cleanup, Detach, Dispose, EndTask, LaunchMonitor
    <3>. QED
      BY <1>1, <2>0, <3>1, <3>2, StaleLoop DEF RunStep
  <2>6. CASE \E x \in CleanupTask : Cleanup(x)
    <3>1. Cleanup(t)
      BY <2>0, <2>1, <2>6, CleanupAlone
    <3>. QED
      BY <1>1, <3>1 DEF CarriesGeneration, Cleanup, Detach, Dispose, EndTask
  <2>7. CASE Close \/ CloseStep \/ UNCHANGED vars
    BY <1>1, <2>7
    DEF Close, CloseStep, CloseClients, CloseListeners, CloseWait, vars
  <2>. QED
    BY <1>1, <2>2, <2>3, <2>4, <2>5, <2>6, <2>7 DEF Next
<1>2. SafeInv /\ [Next]_vars =>
        [\A t \in Task :
           CarriesGeneration(t) /\ task[t].gen # generation /\ task'[t] # task[t]
           => /\ UNCHANGED <<generation, monitor, probeLive, probeFailures,
                             upstreamReady, starting, knownValid, clients>>
              /\ douyinLive' # douyinLive =>
                   douyinLive = task[t].d /\ douyinLive' = None]_vars
  BY <1>1 DEF Spares
<1>. QED
  BY <1>2, RoomIsSafe, PTL DEF Spec, StaleTaskHarmless
===============================================================================

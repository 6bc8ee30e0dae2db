-------------------------------- MODULE Room --------------------------------
(***************************************************************************)
(* One live room of the server (internal/server/room*.go): the clients     *)
(* attached to it, the session generation that numbers its upstream        *)
(* sessions, the probe instance it retains, the upstream listener it runs, *)
(* the offline monitor, and the background tasks that carry a session from *)
(* one to the next.                                                        *)
(*                                                                         *)
(* A step of the module is one critical section of r.mu (with clientsMu    *)
(* nested in it), one of clientsMu alone, or one call that leaves the      *)
(* room: everything between two such steps of a goroutine may be           *)
(* interleaved with the other goroutines, exactly as in the code.          *)
(*                                                                         *)
(* An operator marked "Bug" is a wrong variant of the definition after it, *)
(* used to show that a property notices the mistake; no specification here *)
(* refers to it.                                                           *)
(*                                                                         *)
(* Abstracted: the text of status messages, metadata and statusUnknown     *)
(* (no decision here reads them), logging, the close handshakes.           *)
(***************************************************************************)
EXTENDS Integers, FiniteSets

CONSTANTS
  Client,        \* downstream connections, each used once
  Flaky,         \* those whose WebSocket upgrade may fail
  Slow,          \* those whose outbound queue may overflow
  InitTask, MonitorTask, RunTask, StartTask, CleanupTask, SlowTask,
                 \* slots for the background goroutines of each kind: their
                 \* numbers bound how many of a kind are alive at once
  Inst,          \* 1..m: bound on DouyinLive instances alive at once
  None,          \* the nil pointer
  Anonymous,     \* r.cookie == "": only anonymous probes rotate
  RotateAfter,   \* anonymousProbeRotateFailures (3 in the code)
  Shutdown,      \* may the server close the room?
  CloseTimeout   \* may a wait of roomCloseTimeout expire?

Task == InitTask \cup MonitorTask \cup RunTask \cup StartTask
          \cup CleanupTask \cup SlowTask

ASSUME TaskAssumption ==
  /\ None \notin Task
  /\ MonitorTask \cap (InitTask \cup RunTask \cup StartTask
                       \cup CleanupTask \cup SlowTask) = {}
  /\ InitTask \cap (RunTask \cup StartTask \cup CleanupTask \cup SlowTask) = {}
  /\ RunTask \cap (StartTask \cup CleanupTask \cup SlowTask) = {}
  /\ StartTask \cap (CleanupTask \cup SlowTask) = {}
  /\ CleanupTask \cap SlowTask = {}
ASSUME InstAssumption == None \notin Inst
ASSUME ClientAssumption ==
  IsFiniteSet(Client) /\ Flaky \subseteq Client /\ Slow \subseteq Client
ASSUME OptionAssumption ==
  /\ Anonymous \in BOOLEAN
  /\ Shutdown \in BOOLEAN
  /\ CloseTimeout \in BOOLEAN
  /\ RotateAfter \in Nat \ {0}

VARIABLES
  closed,          \* Room.closed, also the end of lifecycleCtx
  starting,        \* Room.starting
  generation,      \* Room.sessionGeneration
  monitor,         \* Room.monitor: the task slot its loop runs in, or None
  douyinLive,      \* Room.douyinLive
  probeLive,       \* Room.probeLive
  probeFailures,   \* Room.probeFailures, saturating at RotateAfter
  upstreamReady,   \* Room.upstreamReady
  knownValid,      \* Room.knownValid
  clients,         \* Room.clients
  pendingClients,  \* Room.pendingClients
  conn,            \* where the goroutine of each connection is
  since,           \* the sessionGeneration AddClient captured, per connection
  task,            \* background goroutines (startTask), by slot
  open,            \* instances on which Close has not been called
  held,            \* instances whose signer and HTTP resources are unreleased
  ready,           \* instances whose readyCh is closed
  returned,        \* instances whose Start has returned
  closer,          \* progress of Room.Close; "done" is closeDone
  taken            \* the <<listener, probe>> that Close took out of the room

session == <<generation, monitor, douyinLive, probeLive, probeFailures,
             upstreamReady, starting, knownValid>>
listeners == <<open, held, ready, returned>>
downstream == <<clients, pendingClients, conn, since>>
closing == <<closed, closer, taken>>
vars == <<session, listeners, downstream, closing, task>>

-----------------------------------------------------------------------------
(***************************************************************************)
(* Tasks.  A slot is "free", or "installed" (a monitor loop that is not    *)
(* launched yet), or "spawn" (a slow-client batch not handed to startTask  *)
(* yet); in every other pc it counts in activeTasks.                       *)
(***************************************************************************)
StartPc == {"acquire", "create", "prepare", "commit", "reset", "record",
            "discard", "promote", "check", "undo", "launch"}
AllPc == StartPc \cup
  {"free", "installed", "spawn", "end", "detach", "dispose", "result", "count",
   "monitor", "select", "fail", "finish", "begin", "await", "mark", "dial",
   "stream", "drain", "ended"}
Pc(t) ==
  {"free", "detach", "dispose", "end"} \cup
  IF t \in InitTask THEN StartPc \cup {"result", "count", "monitor"}
  ELSE IF t \in MonitorTask
  THEN StartPc \cup {"installed", "select", "result", "fail", "finish"}
  ELSE IF t \in RunTask
  THEN {"begin", "await", "mark", "stream", "drain", "ended", "monitor"}
  ELSE IF t \in StartTask THEN {"begin", "dial", "stream"}
  ELSE IF t \in SlowTask THEN {"spawn"} ELSE {}
Outcome == {"none", "ok", "inactive", "live", "offline", "missing",
            "unknown", "failed", "last", "more"}
TaskState == [pc : AllPc, gen : Nat, out : Outcome,
              d : Inst \cup {None}, p : Inst \cup {None},
              loop : MonitorTask \cup {None}]

NewTask(pc, g, d) ==
  [pc |-> pc, gen |-> g, out |-> "none", d |-> d, p |-> None, loop |-> None]
Conn == {"new", "reserved", "releasing", "adding", "open", "closing", "last",
         "gone"}
FreeTask == NewTask("free", 0, None)
Ended == NewTask("end", 0, None)

Uncounted == {"free", "installed", "spawn"}
Active == {t \in Task : task[t].pc \notin Uncounted}   \* Room.activeTasks
FreeSlots(kind) == {t \in kind : task[t].pc = "free"}
Slot(kind) == CHOOSE t \in FreeSlots(kind) : TRUE

Step(t, pc) == [task[t] EXCEPT !.pc = pc]
Goto(t, pc) == task' = [task EXCEPT ![t] = Step(t, pc)]
ToDetach(t) == task' = [task EXCEPT ![t] = NewTask("detach", 0, None)]
End(t) == task' = [task EXCEPT ![t] = Ended]

Referenced(i) ==
  \/ i \in {douyinLive, probeLive} \cup {taken[1], taken[2]}
  \/ \E t \in Task : i \in {task[t].d, task[t].p}
FreeInst == {i \in Inst \ held : ~Referenced(i)}

Current(g) == ~closed /\ generation = g
IdleClients == clients = {} /\ pendingClients = 0

TaskOK ==
  task \in [Task -> TaskState] /\ \A t \in Task : task[t].pc \in Pc(t)

TypeOK ==
  /\ closed \in BOOLEAN /\ starting \in BOOLEAN /\ generation \in Nat
  /\ monitor \in MonitorTask \cup {None}
  /\ douyinLive \in Inst \cup {None} /\ probeLive \in Inst \cup {None}
  /\ probeFailures \in 0..RotateAfter
  /\ upstreamReady \in BOOLEAN /\ knownValid \in BOOLEAN
  /\ clients \subseteq Client /\ pendingClients \in Nat
  /\ conn \in [Client -> Conn] /\ since \in [Client -> Nat]
  /\ TaskOK
  /\ open \subseteq Inst /\ held \subseteq Inst
  /\ ready \subseteq Inst /\ returned \subseteq Inst
  /\ closer \in {"none", "clear", "stop", "wait", "done"}
  /\ taken \in (Inst \cup {None}) \X (Inst \cup {None})

-----------------------------------------------------------------------------
Init ==
  /\ closed = FALSE /\ starting = FALSE /\ generation = 0
  /\ monitor = None /\ douyinLive = None /\ probeLive = None
  /\ probeFailures = 0 /\ upstreamReady = FALSE /\ knownValid = FALSE
  /\ clients = {} /\ pendingClients = 0
  /\ conn = [c \in Client |-> "new"] /\ since = [c \in Client |-> 0]
  /\ task = [t \in Task |-> FreeTask]
  /\ open = {} /\ held = {} /\ ready = {} /\ returned = {}
  /\ closer = "none" /\ taken = <<None, None>>

-----------------------------------------------------------------------------
(***************************************************************************)
(* removeIfIdle: the room closes itself when nothing is left in it.  It is *)
(* called at many places; inside a task it can do nothing, because that    *)
(* task still counts in activeTasks.                                       *)
(***************************************************************************)
\* Bug: a reservation does not keep the room.
RemovableWhenReserved(active) ==
  /\ ~closed /\ clients = {}
  /\ douyinLive = None /\ probeLive = None /\ monitor = None
  /\ ~starting /\ active = {}

Removable(active) ==
  /\ ~closed /\ IdleClients
  /\ douyinLive = None /\ probeLive = None /\ monitor = None
  /\ ~starting /\ active = {}

\* Bug: finishClose is forgotten, a later Close waits for ever.
RemoveIfIdleUnfinished(active) ==
  /\ closed' = (closed \/ Removable(active))
  /\ UNCHANGED <<closer, taken>>

RemoveIfIdle(active) ==
  /\ closed' = (closed \/ Removable(active))
  /\ closer' = IF Removable(active) THEN "done" ELSE closer
  /\ taken' = taken

-----------------------------------------------------------------------------
(* A connection: reservation, upgrade, AddClient, disconnection.           *)

\* RoomManager.AcquireRoom reserves the room before the WebSocket upgrade.
Reserve(c) ==
  /\ conn[c] = "new" /\ ~closed
  /\ pendingClients' = pendingClients + 1
  /\ conn' = [conn EXCEPT ![c] = "reserved"]
  /\ UNCHANGED <<session, listeners, clients, since, closing, task>>

\* The upgrade failed.
ReleaseReservation(c) ==
  /\ conn[c] = "reserved" /\ c \in Flaky
  /\ pendingClients' = IF pendingClients > 0 THEN pendingClients - 1 ELSE 0
  /\ conn' = [conn EXCEPT ![c] = "releasing"]
  /\ UNCHANGED <<session, listeners, clients, since, closing, task>>

ReleaseCheck(c) ==
  /\ conn[c] = "releasing"
  /\ RemoveIfIdle(Active)
  /\ conn' = [conn EXCEPT ![c] = "gone"]
  /\ UNCHANGED <<session, listeners, clients, pendingClients, since, task>>

\* OnOpen.  The first client of an idle room starts a session; AddClient
\* captures the generation here and hands it to the task in StartInit.
AddClient(c) ==
  /\ conn[c] = "reserved"
  /\ pendingClients' = IF pendingClients > 0 THEN pendingClients - 1 ELSE 0
  /\ LET first == douyinLive = None /\ monitor = None /\ ~starting IN
       /\ conn' = [conn EXCEPT ![c] = IF closed THEN "gone"
                                      ELSE IF first THEN "adding" ELSE "open"]
       /\ clients' = IF closed THEN clients ELSE clients \cup {c}
       /\ starting' = (starting \/ (~closed /\ first))
       /\ since' = IF ~closed /\ first THEN [since EXCEPT ![c] = generation]
                                       ELSE since
  /\ UNCHANGED <<generation, monitor, douyinLive, probeLive, probeFailures,
                 upstreamReady, knownValid, listeners, closing, task>>

\* startTask(initializeLiveSession); a room closed meanwhile refuses, and
\* closeClient then only removes the client (its own startTask is refused too).
StartInit(c) ==
  /\ conn[c] = "adding"
  /\ closed \/ FreeSlots(InitTask) # {}
  /\ task' = IF closed THEN task
             ELSE [task EXCEPT ![Slot(InitTask)] =
                     NewTask("acquire", since[c], None)]
  /\ clients' = IF closed THEN clients \ {c} ELSE clients
  /\ conn' = [conn EXCEPT ![c] = IF c \in clients' THEN "open" ELSE "gone"]
  /\ since' = [since EXCEPT ![c] = 0]
  /\ UNCHANGED <<session, listeners, pendingClients, closing>>

\* closeClient (OnClose, or a write error in writeLoop) removes the client,
\* then reads the number of those left, then hands the cleanup to a task.
Drop(c) ==
  /\ conn[c] = "open" /\ c \in clients
  /\ clients' = clients \ {c}
  /\ conn' = [conn EXCEPT ![c] = "closing"]
  /\ UNCHANGED <<session, listeners, pendingClients, since, closing, task>>

CountAfterDrop(c) ==
  /\ conn[c] = "closing"
  /\ conn' = [conn EXCEPT ![c] = IF clients = {} THEN "last" ELSE "gone"]
  /\ UNCHANGED <<session, listeners, clients, pendingClients, since, closing, task>>

\* A closed room refuses the task; the cleanup run inline finds it closed too.
SpawnCleanup(c) ==
  /\ conn[c] = "last"
  /\ closed \/ FreeSlots(CleanupTask) # {}
  /\ task' = IF closed THEN task
             ELSE [task EXCEPT ![Slot(CleanupTask)] =
                     NewTask("detach", 0, None)]
  /\ conn' = [conn EXCEPT ![c] = "gone"]
  /\ UNCHANGED <<session, listeners, clients, pendingClients, since, closing>>

\* closeSlowClients: a batch of clients with a full queue is removed under one
\* lock, "last" remembers that none was left; the closing runs in a task.
RemoveSlow(S) ==
  /\ S # {} /\ S \subseteq clients /\ \A c \in S : conn[c] = "open"
  /\ FreeSlots(SlowTask) # {}
  /\ clients' = clients \ S
  /\ conn' = [c \in Client |-> IF c \in S THEN "gone" ELSE conn[c]]
  /\ task' = [task EXCEPT ![Slot(SlowTask)] =
                [NewTask("spawn", 0, None) EXCEPT
                   !.out = IF clients' = {} THEN "last" ELSE "more"]]
  /\ UNCHANGED <<session, listeners, pendingClients, since, closing>>

SpawnSlow(t) ==
  /\ task[t].pc = "spawn"
  /\ task' = [task EXCEPT ![t] =
                IF closed THEN FreeTask
                ELSE IF task[t].out = "last" THEN NewTask("detach", 0, None)
                ELSE Ended]
  /\ UNCHANGED <<session, listeners, downstream, closing>>

-----------------------------------------------------------------------------
(* Cleanup and the end of a task, common to every kind.                    *)

\* Bug: the clients are not counted again before the generation is retired.
DetachUnchecked(t) ==
  /\ task[t].pc = "detach" /\ ~closed
  /\ task' = [task EXCEPT ![t] =
       [NewTask("dispose", 0, douyinLive) EXCEPT !.p = probeLive]]
  /\ monitor' = None /\ douyinLive' = None /\ probeLive' = None
  /\ probeFailures' = 0 /\ upstreamReady' = FALSE /\ starting' = FALSE
  /\ generation' = generation + 1
  /\ UNCHANGED <<knownValid, listeners, downstream, closing>>

\* detachBackgroundWorkersIfIdle: only a clientless room retires its
\* generation.  (Waiting for the monitor to exit is bounded and changes nothing.)
Detach(t) ==
  /\ task[t].pc = "detach"
  /\ IF closed \/ ~IdleClients
     THEN /\ End(t)
          /\ UNCHANGED session
     ELSE /\ task' = [task EXCEPT ![t] =
               [NewTask("dispose", 0, douyinLive) EXCEPT !.p = probeLive]]
          /\ monitor' = None /\ douyinLive' = None /\ probeLive' = None
          /\ probeFailures' = 0 /\ upstreamReady' = FALSE /\ starting' = FALSE
          /\ generation' = generation + 1
          /\ UNCHANGED knownValid
  /\ UNCHANGED <<listeners, downstream, closing>>

\* workers.close, and the probe.Dispose of closeClientsForFailedGeneration:
\* the listener is only closed (its Start releases it), the probe disposed.
Dispose(t) ==
  /\ task[t].pc = "dispose"
  /\ open' = open \ {task[t].d, task[t].p}
  /\ held' = held \ {task[t].p}
  /\ task' = [task EXCEPT ![t] =
       IF t \in MonitorTask THEN [Step(t, "finish") EXCEPT !.p = None]
       ELSE Ended]
  /\ UNCHANGED <<session, ready, returned, downstream, closing>>

\* The deferred end of startTaskInternal: activeTasks-- and then removeIfIdle.
\* The two critical sections are one step here: only removeIfIdle and the wait
\* of Close read activeTasks, so a step of another task between the two has
\* the same effect before both (a removal, the wait) or after both (the rest).
EndTask(t) ==
  /\ task[t].pc = "end"
  /\ RemoveIfIdle(Active \ {t})
  /\ task' = [task EXCEPT ![t] = FreeTask]
  /\ UNCHANGED <<session, listeners, downstream>>

-----------------------------------------------------------------------------
(***************************************************************************)
(* startLiveSession, run by an init task or by the poll of a monitor: get  *)
(* the probe, ask the upstream, commit what it said, promote the probe to  *)
(* the room's listener and launch it.                                      *)
(***************************************************************************)
Finished(t, out) == [Step(t, "result") EXCEPT !.out = out, !.d = None]

\* Bug: no new instance is created when the room retains none.
AcquireNothing(t) ==
  /\ task[t].pc = "acquire"
  /\ task' = [task EXCEPT ![t] =
       IF ~Current(task[t].gen) THEN Finished(t, "inactive")
       ELSE [Step(t, "prepare") EXCEPT !.d = probeLive]]
  /\ UNCHANGED <<session, listeners, downstream, closing>>

\* acquireProbeLive, first critical section.
Acquire(t) ==
  /\ task[t].pc = "acquire"
  /\ task' = [task EXCEPT ![t] =
       IF ~Current(task[t].gen) THEN Finished(t, "inactive")
       ELSE IF probeLive # None THEN [Step(t, "prepare") EXCEPT !.d = probeLive]
       ELSE Step(t, "create")]
  /\ UNCHANGED <<session, listeners, downstream, closing>>

\* NewDouyinLiveWithOptions and the second critical section: the instance is
\* adopted, or disposed at once when the session moved on or another task won.
CreateFails(t) ==
  /\ task[t].pc = "create"
  /\ task' = [task EXCEPT ![t] = Finished(t, "failed")]
  /\ UNCHANGED <<session, listeners, downstream, closing>>

Create(t) ==
  /\ task[t].pc = "create"
  /\ IF Current(task[t].gen) /\ probeLive = None
     THEN /\ FreeInst # {}
          /\ LET i == CHOOSE x \in FreeInst : TRUE IN
               /\ probeLive' = i
               /\ task' = [task EXCEPT ![t] = [Step(t, "prepare") EXCEPT !.d = i]]
               /\ open' = open \cup {i} /\ held' = held \cup {i}
               /\ ready' = ready \ {i} /\ returned' = returned \ {i}
          /\ probeFailures' = 0
     ELSE /\ task' = [task EXCEPT ![t] =
               IF Current(task[t].gen)
               THEN [Step(t, "prepare") EXCEPT !.d = probeLive]
               ELSE Finished(t, "inactive")]
          /\ UNCHANGED <<probeLive, probeFailures, listeners>>
  /\ UNCHANGED <<generation, monitor, douyinLive, upstreamReady, starting,
                 knownValid, downstream, closing>>

\* PrepareWebSocketContext and confirmLiveSessionStatus, outside every lock.
\* A refused Prepare skips the commit, unless the room is known offline.
Prepare(t) ==
  /\ task[t].pc = "prepare"
  /\ \E out \in {"live", "offline", "missing", "unknown", "failed"},
        prepared \in BOOLEAN :
       /\ out = "live" => prepared
       /\ task' = [task EXCEPT ![t] =
            [Step(t, IF prepared \/ out = "offline" THEN "commit"
                     ELSE IF out = "missing" THEN "discard" ELSE "record")
             EXCEPT !.out = out]]
  /\ UNCHANGED <<session, listeners, downstream, closing>>

\* commitProbeMetadataForGeneration.
Commit(t) ==
  /\ task[t].pc = "commit"
  /\ LET ok == Current(task[t].gen) /\ probeLive = task[t].d
         out == task[t].out
     IN /\ knownValid' = (knownValid \/ (ok /\ out \in {"live", "offline"}))
        /\ task' = [task EXCEPT ![t] =
             IF ~ok THEN Finished(t, "inactive")
             ELSE Step(t, CASE out = "live" -> "promote"
                            [] out = "offline" -> "reset"
                            [] OTHER -> "record")]
  /\ UNCHANGED <<generation, monitor, douyinLive, probeLive, probeFailures,
                 upstreamReady, starting, listeners, downstream, closing>>

ResetProbeFailures(t) ==
  /\ task[t].pc = "reset"
  /\ probeFailures' = IF probeLive = task[t].d THEN 0 ELSE probeFailures
  /\ task' = [task EXCEPT ![t] = Finished(t, task[t].out)]
  /\ UNCHANGED <<generation, monitor, douyinLive, probeLive, upstreamReady,
                 starting, knownValid, listeners, downstream, closing>>

\* recordProbeFailure; the rotated probe is disposed right after.
RecordProbeFailure(t) ==
  /\ task[t].pc = "record"
  /\ LET d == task[t].d
         mine == probeLive = d
         rotate == mine /\ Anonymous /\ probeFailures + 1 >= RotateAfter
     IN /\ probeLive' = IF rotate THEN None ELSE probeLive
        /\ probeFailures' = IF rotate THEN 0
                            ELSE IF mine /\ probeFailures < RotateAfter
                                 THEN probeFailures + 1
                                 ELSE probeFailures
        /\ open' = IF rotate THEN open \ {d} ELSE open
        /\ held' = IF rotate THEN held \ {d} ELSE held
  /\ task' = [task EXCEPT ![t] = Finished(t, task[t].out)]
  /\ UNCHANGED <<generation, monitor, douyinLive, upstreamReady, starting,
                 knownValid, ready, returned, downstream, closing>>

\* Bug: the discarded probe is still retained.
DiscardProbeOnly(t) ==
  /\ task[t].pc = "discard"
  /\ open' = open \ {task[t].d} /\ held' = held \ {task[t].d}
  /\ task' = [task EXCEPT ![t] = Finished(t, task[t].out)]
  /\ UNCHANGED <<session, ready, returned, downstream, closing>>

\* discardProbeLive: the room does not exist, or the promotion was refused.
DiscardProbe(t) ==
  /\ task[t].pc = "discard"
  /\ LET d == task[t].d IN
       /\ probeLive' = IF probeLive = d THEN None ELSE probeLive
       /\ probeFailures' = IF probeLive = d THEN 0 ELSE probeFailures
       /\ open' = open \ {d} /\ held' = held \ {d}
  /\ task' = [task EXCEPT ![t] = Finished(t, task[t].out)]
  /\ UNCHANGED <<generation, monitor, douyinLive, upstreamReady, starting,
                 knownValid, ready, returned, downstream, closing>>

\* Bug: the monitor keeps the room while the listener streams.
PromoteProbeOnly(t) ==
  /\ task[t].pc = "promote"
  /\ IF Current(task[t].gen) /\ probeLive = task[t].d
     THEN /\ douyinLive' = probeLive /\ probeLive' = None
          /\ probeFailures' = 0 /\ upstreamReady' = FALSE /\ starting' = FALSE
          /\ Goto(t, "check")
     ELSE /\ task' = [task EXCEPT ![t] = [Step(t, "discard") EXCEPT
                                            !.out = "inactive"]]
          /\ UNCHANGED <<douyinLive, probeLive, probeFailures, upstreamReady,
                         starting>>
  /\ UNCHANGED <<monitor, generation, knownValid, listeners, downstream, closing>>

PromoteProbe(t) ==
  /\ task[t].pc = "promote"
  /\ IF Current(task[t].gen) /\ probeLive = task[t].d
     THEN /\ douyinLive' = probeLive /\ probeLive' = None
          /\ probeFailures' = 0 /\ upstreamReady' = FALSE /\ starting' = FALSE
          /\ monitor' = IF monitor # None /\ task[monitor].gen = task[t].gen
                        THEN None ELSE monitor
          /\ Goto(t, "check")
     ELSE /\ task' = [task EXCEPT ![t] = [Step(t, "discard") EXCEPT
                                            !.out = "inactive"]]
          /\ UNCHANGED <<douyinLive, probeLive, probeFailures, upstreamReady,
                         starting, monitor>>
  /\ UNCHANGED <<generation, knownValid, listeners, downstream, closing>>

\* The second look at the room, after SubscribeMessage.
CheckAdopted(t) ==
  /\ task[t].pc = "check"
  /\ Goto(t, IF Current(task[t].gen) /\ douyinLive = task[t].d /\ clients # {}
             THEN "launch" ELSE "undo")
  /\ UNCHANGED <<session, listeners, downstream, closing>>

\* Bug: the listener is forgotten, not disposed.
ForgetPendingLive(t) ==
  /\ task[t].pc = "undo"
  /\ douyinLive' = IF douyinLive = task[t].d THEN None ELSE douyinLive
  /\ task' = [task EXCEPT ![t] = Finished(t, "inactive")]
  /\ UNCHANGED <<generation, monitor, probeLive, probeFailures, upstreamReady,
                 starting, knownValid, listeners, downstream, closing>>

\* disposePendingLive.
DisposePendingLive(t) ==
  /\ task[t].pc = "undo"
  /\ LET d == task[t].d IN
       /\ douyinLive' = IF douyinLive = d THEN None ELSE douyinLive
       /\ open' = open \ {d} /\ held' = held \ {d}
  /\ task' = [task EXCEPT ![t] = Finished(t, "inactive")]
  /\ UNCHANGED <<generation, monitor, probeLive, probeFailures, upstreamReady,
                 starting, knownValid, ready, returned, downstream, closing>>

\* Bug: only the generation is compared, a closed room starts the task.
LaunchRunInClosedRoom(t) ==
  /\ task[t].pc = "launch"
  /\ IF generation = task[t].gen
     THEN /\ FreeSlots(RunTask) # {}
          /\ task' = [task EXCEPT
               ![t] = Finished(t, "ok"),
               ![Slot(RunTask)] = NewTask("begin", task[t].gen, task[t].d)]
     ELSE Goto(t, "undo")
  /\ UNCHANGED <<session, listeners, downstream, closing>>

\* startTaskForGeneration(runLiveSession).
LaunchRun(t) ==
  /\ task[t].pc = "launch"
  /\ IF Current(task[t].gen)
     THEN /\ FreeSlots(RunTask) # {}
          /\ task' = [task EXCEPT
               ![t] = Finished(t, "ok"),
               ![Slot(RunTask)] = NewTask("begin", task[t].gen, task[t].d)]
     ELSE Goto(t, "undo")
  /\ UNCHANGED <<session, listeners, downstream, closing>>

-----------------------------------------------------------------------------
(***************************************************************************)
(* What an init task does with the result (handleLiveSessionStartResult),  *)
(* and the transitions to the offline monitor.                             *)
(***************************************************************************)
\* Bug: the start of another generation is cleared.
InitStartedAnyGeneration(t) ==
  /\ task[t].pc = "result" /\ task[t].out \in {"ok", "inactive"}
  /\ starting' = FALSE
  /\ task' = [task EXCEPT ![t] =
       IF task[t].out = "inactive" /\ Current(task[t].gen)
       THEN NewTask("count", 0, None) ELSE Ended]
  /\ UNCHANGED <<generation, monitor, douyinLive, probeLive, probeFailures,
                 upstreamReady, knownValid, listeners, downstream, closing>>

\* Started, or inactive: clearStartingForGeneration.
InitStarted(t) ==
  /\ task[t].pc = "result" /\ task[t].out \in {"ok", "inactive"}
  /\ starting' = (starting /\ ~Current(task[t].gen))
  /\ task' = [task EXCEPT ![t] =
       IF task[t].out = "inactive" /\ Current(task[t].gen)
       THEN NewTask("count", 0, None) ELSE Ended]
  /\ UNCHANGED <<generation, monitor, douyinLive, probeLive, probeFailures,
                 upstreamReady, knownValid, listeners, downstream, closing>>

\* clientCount after an inactive start; the room keeps its workers if any.
InitCount(t) ==
  /\ task[t].pc = "count"
  /\ IF clients = {} THEN ToDetach(t) ELSE End(t)
  /\ UNCHANGED <<session, listeners, downstream, closing>>

\* closeClientsForFailedGeneration, of an init task or of a monitor ("fail").
FailGeneration(t) ==
  /\ \/ t \in InitTask /\ task[t].pc = "result"
        /\ task[t].out \in {"missing", "failed"}
     \/ task[t].pc = "fail"
  /\ IF Current(task[t].gen)
     THEN /\ probeLive' = None /\ probeFailures' = 0 /\ starting' = FALSE
          /\ monitor' = IF monitor # None /\ task[monitor].gen = task[t].gen
                        THEN None ELSE monitor
          /\ generation' = generation + 1
          /\ clients' = {}
          /\ conn' = [c \in Client |-> IF c \in clients /\ conn[c] = "open"
                                       THEN "gone" ELSE conn[c]]
          /\ task' = [task EXCEPT ![t] =
               [NewTask("dispose", task[t].gen, None) EXCEPT !.p = probeLive]]
     ELSE /\ IF t \in MonitorTask THEN Goto(t, "finish") ELSE End(t)
          /\ UNCHANGED <<probeLive, probeFailures, starting, monitor,
                         generation, clients, conn>>
  /\ UNCHANGED <<douyinLive, upstreamReady, knownValid, listeners,
                 pendingClients, since, closing>>

\* installMonitorLoopLocked: reuse the monitor of this generation, or install
\* a new one, whose loop gets a slot; a monitor of another generation refuses.
Installable(g) == monitor = None \/ task[monitor].gen = g
InstallMonitor(t, g) ==
  IF monitor # None
  THEN End(t) /\ monitor' = monitor
  ELSE /\ FreeSlots(MonitorTask) # {}
       /\ monitor' = Slot(MonitorTask)
       /\ task' = [task EXCEPT
            ![t] = [NewTask("monitor", 0, None) EXCEPT
                      !.loop = Slot(MonitorTask)],
            ![Slot(MonitorTask)] = NewTask("installed", g, None)]

\* Bug: "starting" is only cleared when a monitor takes over.
TransitionToMonitorStarting(t) ==
  /\ task[t].pc = "result" /\ task[t].out \in {"offline", "unknown"}
  /\ LET g == task[t].gen IN
       IF ~Current(g) \/ douyinLive # None
       THEN End(t) /\ UNCHANGED <<starting, monitor>>
       ELSE IF clients = {}
       THEN ToDetach(t) /\ UNCHANGED <<starting, monitor>>
       ELSE /\ starting' = FALSE
            /\ IF Installable(g)
               THEN InstallMonitor(t, g)
               ELSE End(t) /\ UNCHANGED monitor
  /\ UNCHANGED <<generation, douyinLive, probeLive, probeFailures,
                 upstreamReady, knownValid, listeners, downstream, closing>>

\* transitionToMonitorForGeneration, after an offline or unknown start.
TransitionToMonitor(t) ==
  /\ task[t].pc = "result" /\ task[t].out \in {"offline", "unknown"}
  /\ LET g == task[t].gen IN
       IF ~Current(g) \/ douyinLive # None
       THEN End(t) /\ UNCHANGED <<starting, monitor>>
       ELSE /\ starting' = FALSE
            /\ IF clients = {}
               THEN ToDetach(t) /\ UNCHANGED monitor
               ELSE IF Installable(g)
               THEN InstallMonitor(t, g)
               ELSE End(t) /\ UNCHANGED monitor
  /\ UNCHANGED <<generation, douyinLive, probeLive, probeFailures,
                 upstreamReady, knownValid, listeners, downstream, closing>>

\* launchMonitorLoop; a refused loop is finished on the spot.
LaunchMonitor(t) ==
  /\ task[t].pc = "monitor"
  /\ LET m == task[t].loop
     IN IF Current(task[m].gen)
        THEN /\ task' = [task EXCEPT ![t] = Ended, ![m] = Step(m, "select")]
             /\ UNCHANGED monitor
        ELSE /\ task' = [task EXCEPT ![t] = Ended, ![m] = FreeTask]
             /\ monitor' = IF monitor = m THEN None ELSE monitor
  /\ UNCHANGED <<generation, douyinLive, probeLive, probeFailures,
                 upstreamReady, starting, knownValid, listeners, downstream,
                 closing>>

-----------------------------------------------------------------------------
(***************************************************************************)
(* runMonitorLoop.  A loop owns the room while monitor is its slot; its    *)
(* stop channel is closed by whoever takes it out of the room.             *)
(***************************************************************************)
Owns(t) == Current(task[t].gen) /\ monitor = t

\* lifecycleCtx.Done() or stopCh.
MonitorStopped(t) ==
  /\ task[t].pc = "select"
  /\ closed \/ monitor # t
  /\ Goto(t, "finish")
  /\ UNCHANGED <<session, listeners, downstream, closing>>

\* The notify tick gives the loop up when no client is left to notify.
NotifyTick(t) ==
  /\ task[t].pc = "select"
  /\ ~Owns(t) \/ clients = {}
  /\ Goto(t, "finish")
  /\ UNCHANGED <<session, listeners, downstream, closing>>

\* The poll tick: beginMonitorProbe.  (A start in progress: skip this tick.)
PollTick(t) ==
  /\ task[t].pc = "select"
  /\ LET keep == Owns(t) /\ douyinLive = None /\ clients # {} IN
       /\ keep => ~starting
       /\ Goto(t, IF keep THEN "acquire" ELSE "finish")
       /\ starting' = (starting \/ keep)
  /\ UNCHANGED <<generation, monitor, douyinLive, probeLive, probeFailures,
                 upstreamReady, knownValid, listeners, downstream, closing>>

\* Bug: a poll that fails or finds the room offline leaves "starting" set.
MonitorResultStarting(t) ==
  /\ task[t].pc = "result"
  /\ LET out == task[t].out IN
       task' = [task EXCEPT ![t] =
         [Step(t, IF out \in {"ok", "inactive"} \/ ~Owns(t) THEN "finish"
                  ELSE IF out = "missing" /\ ~knownValid THEN "fail"
                  ELSE "select") EXCEPT !.out = "none"]]
  /\ UNCHANGED <<session, listeners, downstream, closing>>

\* completeMonitorProbe and commitMonitorStatus: a loop that lost the room
\* exits, a room never seen valid and now missing fails, else poll again.
MonitorResult(t) ==
  /\ task[t].pc = "result"
  /\ LET out == task[t].out IN
       /\ starting' = (starting /\ (out = "ok" \/ ~Owns(t)))
       /\ task' = [task EXCEPT ![t] =
            [Step(t, IF out \in {"ok", "inactive"} \/ ~Owns(t) THEN "finish"
                     ELSE IF out = "missing" /\ ~knownValid THEN "fail"
                     ELSE "select") EXCEPT !.out = "none"]]
  /\ UNCHANGED <<generation, monitor, douyinLive, probeLive, probeFailures,
                 upstreamReady, knownValid, listeners, downstream, closing>>

\* Bug: a loop that exits stays installed.
FinishMonitorInPlace(t) ==
  /\ task[t].pc = "finish"
  /\ End(t)
  /\ UNCHANGED <<session, listeners, downstream, closing>>

\* The deferred loop.finish.
FinishMonitor(t) ==
  /\ task[t].pc = "finish"
  /\ monitor' = IF monitor = t THEN None ELSE monitor
  /\ End(t)
  /\ UNCHANGED <<generation, douyinLive, probeLive, probeFailures,
                 upstreamReady, starting, knownValid, listeners, downstream,
                 closing>>

-----------------------------------------------------------------------------
(***************************************************************************)
(* runLiveSession, and the task in which it runs the listener's Start.     *)
(***************************************************************************)
Adopted(t) == Current(task[t].gen) /\ douyinLive = task[t].d

\* startTaskForGeneration(d.Start), or Dispose when the session moved on.
StartListener(t) ==
  /\ task[t].pc = "begin"
  /\ IF Current(task[t].gen)
     THEN /\ FreeSlots(StartTask) # {}
          /\ task' = [task EXCEPT
               ![t] = Step(t, "await"),
               ![Slot(StartTask)] = NewTask("begin", 0, task[t].d)]
          /\ UNCHANGED listeners
     ELSE /\ open' = open \ {task[t].d} /\ held' = held \ {task[t].d}
          /\ End(t)
          /\ UNCHANGED <<ready, returned>>
  /\ UNCHANGED <<session, downstream, closing>>

\* The select on readyCh and startErrCh: either, when both are there.  The
\* error is received once, and nobody looks at readyCh after it.
AwaitReady(t) ==
  /\ task[t].pc = "await" /\ task[t].d \in ready
  /\ Goto(t, "mark")
  /\ UNCHANGED <<session, listeners, downstream, closing>>

AwaitReturn(t) ==
  /\ task[t].pc \in {"await", "stream", "drain"}
  /\ task[t].d \in returned
  /\ returned' = returned \ {task[t].d}
  /\ ready' = ready \ {task[t].d}
  /\ Goto(t, "ended")
  /\ UNCHANGED <<session, open, held, downstream, closing>>

\* markUpstreamReady; when it refuses, the listener is closed right after.
MarkUpstreamReady(t) ==
  /\ task[t].pc = "mark"
  /\ upstreamReady' = (upstreamReady \/ Adopted(t))
  /\ open' = IF Adopted(t) THEN open ELSE open \ {task[t].d}
  /\ Goto(t, IF Adopted(t) THEN "stream" ELSE "drain")
  /\ UNCHANGED <<generation, monitor, douyinLive, probeLive, probeFailures,
                 starting, knownValid, held, ready, returned, downstream,
                 closing>>

\* A refused listener is waited for at most roomCloseTimeout.
DrainTimeout(t) ==
  /\ task[t].pc = "drain" /\ CloseTimeout
  /\ Goto(t, "ended")
  /\ UNCHANGED <<session, listeners, downstream, closing>>

\* Bug: the room stays "online" after its stream has ended.
EndLiveSessionStillReady(t) ==
  /\ task[t].pc = "ended"
  /\ IF ~Adopted(t)
     THEN /\ End(t)
          /\ UNCHANGED <<douyinLive, starting, monitor>>
     ELSE /\ douyinLive' = None /\ starting' = FALSE
          /\ IF clients = {}
             THEN ToDetach(t) /\ UNCHANGED monitor
             ELSE IF Installable(task[t].gen)
             THEN InstallMonitor(t, task[t].gen)
             ELSE End(t) /\ UNCHANGED monitor
  /\ UNCHANGED <<generation, upstreamReady, probeLive, probeFailures, knownValid,
                 listeners, downstream, closing>>

\* transitionLiveSessionToMonitor.
EndLiveSession(t) ==
  /\ task[t].pc = "ended"
  /\ IF ~Adopted(t)
     THEN /\ End(t)
          /\ UNCHANGED <<douyinLive, upstreamReady, starting, monitor>>
     ELSE /\ douyinLive' = None /\ upstreamReady' = FALSE /\ starting' = FALSE
          /\ IF clients = {}
             THEN ToDetach(t) /\ UNCHANGED monitor
             ELSE IF Installable(task[t].gen)
             THEN InstallMonitor(t, task[t].gen)
             ELSE End(t) /\ UNCHANGED monitor
  /\ UNCHANGED <<generation, probeLive, probeFailures, knownValid, listeners,
                 downstream, closing>>

\* Start: beginStart refuses a closed listener before cleanup is deferred.
BeginStart(t) ==
  /\ task[t].pc = "begin"
  /\ IF task[t].d \in open
     THEN Goto(t, "dial") /\ UNCHANGED returned
     ELSE /\ returned' = returned \cup {task[t].d}
          /\ End(t)
  /\ UNCHANGED <<session, open, held, ready, downstream, closing>>

\* A successful handshake: markReady.
DialSucceeds(t) ==
  /\ task[t].pc = "dial"
  /\ ready' = ready \cup {task[t].d}
  /\ Goto(t, "stream")
  /\ UNCHANGED <<session, open, held, returned, downstream, closing>>

\* The dial fails for good, the stream ends, or Close interrupts either:
\* cleanup releases the listener and Start returns.
StartReturns(t) ==
  /\ task[t].pc \in {"dial", "stream"}
  /\ returned' = returned \cup {task[t].d}
  /\ open' = open \ {task[t].d} /\ held' = held \ {task[t].d}
  /\ End(t)
  /\ UNCHANGED <<session, ready, downstream, closing>>

-----------------------------------------------------------------------------
(* Room.Close (from RoomManager.CloseAll).                                 *)

Close ==
  /\ Shutdown /\ ~closed
  /\ closed' = TRUE
  /\ closer' = "clear"
  /\ taken' = <<douyinLive, probeLive>>
  /\ douyinLive' = None /\ probeLive' = None /\ probeFailures' = 0
  /\ UNCHANGED <<generation, monitor, upstreamReady, starting, knownValid,
                 listeners, downstream, task>>

\* closeAllClients.
CloseClients ==
  /\ closer = "clear"
  /\ closer' = "stop"
  /\ clients' = {}
  /\ conn' = [c \in Client |-> IF c \in clients /\ conn[c] = "open"
                               THEN "gone" ELSE conn[c]]
  /\ UNCHANGED <<session, listeners, pendingClients, since, closed, taken, task>>

\* Bugs: the retained probe, or the listener, survives Close.
CloseListenersOnly ==
  /\ closer = "stop"
  /\ closer' = "wait"
  /\ open' = open \ {taken[1]}
  /\ taken' = <<None, None>>
  /\ UNCHANGED <<session, held, ready, returned, downstream, closed, task>>
CloseProbeOnly ==
  /\ closer = "stop"
  /\ closer' = "wait"
  /\ open' = open \ {taken[2]} /\ held' = held \ {taken[2]}
  /\ taken' = <<None, None>>
  /\ UNCHANGED <<session, ready, returned, downstream, closed, task>>

\* d.Close and probe.Dispose, then onClose.
CloseListeners ==
  /\ closer = "stop"
  /\ closer' = "wait"
  /\ open' = open \ {taken[1], taken[2]}
  /\ held' = held \ {taken[2]}
  /\ taken' = <<None, None>>
  /\ UNCHANGED <<session, ready, returned, downstream, closed, task>>

\* tasks.Wait, at most roomCloseTimeout.
CloseWait ==
  /\ closer = "wait" /\ (Active = {} \/ CloseTimeout)
  /\ closer' = "done"
  /\ UNCHANGED <<session, listeners, downstream, closed, taken, task>>

-----------------------------------------------------------------------------
StartSession(t) ==
  \/ Acquire(t) \/ CreateFails(t) \/ Create(t) \/ Prepare(t) \/ Commit(t)
  \/ ResetProbeFailures(t) \/ RecordProbeFailure(t) \/ DiscardProbe(t)
  \/ PromoteProbe(t) \/ CheckAdopted(t) \/ DisposePendingLive(t)
  \/ LaunchRun(t)
Cleanup(t) ==
  Detach(t) \/ Dispose(t) \/ EndTask(t)

InitStep(t) ==
  \/ StartSession(t) \/ InitStarted(t) \/ InitCount(t) \/ FailGeneration(t)
  \/ TransitionToMonitor(t) \/ LaunchMonitor(t) \/ Cleanup(t)
MonitorStep(t) ==
  \/ MonitorStopped(t) \/ NotifyTick(t) \/ PollTick(t) \/ StartSession(t)
  \/ MonitorResult(t) \/ FailGeneration(t) \/ FinishMonitor(t) \/ Cleanup(t)
RunStep(t) ==
  \/ StartListener(t) \/ AwaitReady(t) \/ AwaitReturn(t)
  \/ MarkUpstreamReady(t) \/ DrainTimeout(t) \/ EndLiveSession(t)
  \/ LaunchMonitor(t) \/ Cleanup(t)
StartStep(t) == BeginStart(t) \/ DialSucceeds(t) \/ StartReturns(t) \/ Cleanup(t)
SlowStep(t) == SpawnSlow(t) \/ Cleanup(t)

ConnStep(c) ==
  \/ Reserve(c) \/ ReleaseReservation(c) \/ ReleaseCheck(c) \/ AddClient(c)
  \/ StartInit(c) \/ Drop(c) \/ CountAfterDrop(c) \/ SpawnCleanup(c)
CloseStep == CloseClients \/ CloseListeners \/ CloseWait

Next ==
  \/ \E c \in Client : ConnStep(c)
  \/ \E S \in SUBSET Slow : RemoveSlow(S)
  \/ \E t \in InitTask : InitStep(t)
  \/ \E t \in MonitorTask : MonitorStep(t)
  \/ \E t \in RunTask : RunStep(t)
  \/ \E t \in StartTask : StartStep(t)
  \/ \E t \in CleanupTask : Cleanup(t)
  \/ \E t \in SlowTask : SlowStep(t)
  \/ Close \/ CloseStep

Spec == Init /\ [][Next]_vars

(***************************************************************************)
(* Fairness.  A goroutine that can run eventually does; every upstream     *)
(* request has a timeout, tickers tick, a reserved connection is upgraded  *)
(* or refused.  Start returns if its listener is closed; an open stream    *)
(* may last for ever.  Nobody has to connect, leave or shut down.          *)
(***************************************************************************)
StartReturnsClosed(t) == task[t].d \notin open /\ StartReturns(t)
Fairness ==
  /\ \A c \in Client :
       /\ WF_vars(ReleaseReservation(c) \/ AddClient(c))
       /\ WF_vars(ReleaseCheck(c) \/ StartInit(c)
                    \/ CountAfterDrop(c) \/ SpawnCleanup(c))
  /\ \A t \in InitTask : WF_vars(InitStep(t))
  /\ \A t \in MonitorTask : WF_vars(MonitorStep(t))
  /\ \A t \in RunTask : WF_vars(RunStep(t))
  /\ \A t \in StartTask : WF_vars(BeginStart(t) \/ StartReturnsClosed(t)
                                    \/ Cleanup(t))
  /\ \A t \in CleanupTask : WF_vars(Cleanup(t))
  /\ \A t \in SlowTask : WF_vars(SlowStep(t))
  /\ WF_vars(CloseStep)
FairSpec == Spec /\ Fairness

-----------------------------------------------------------------------------
(* What must hold: session state.                                          *)

\* The room polls or streams, never both, and the monitor in place belongs to
\* the current generation, so that its results are not thrown away as stale.
OneUpstreamOwner ==
  ~closed /\ monitor # None =>
    douyinLive = None /\ task[monitor].gen = generation

\* A monitor in place has a goroutine: its loop runs, or the task that
\* installed it is about to launch it (else every client waits on a dead loop).
MonitorHasLoop ==
  monitor # None =>
    IF task[monitor].pc = "installed"
    THEN \E t \in InitTask \cup RunTask :
           task[t].pc = "monitor" /\ task[t].loop = monitor
    ELSE task[monitor].pc \notin {"free", "end"}

\* "starting" never outlives the start it stands for: a client that only waits
\* for a start in progress would otherwise wait for ever.
StartingHasOwner ==
  ~closed /\ starting =>
    \/ \E c \in Client : conn[c] = "adding" /\ since[c] = generation
    \/ \E t \in InitTask \cup MonitorTask :
         task[t].pc \in StartPc \cup {"result"} /\ task[t].gen = generation

\* The probe the room retains for its next poll is neither closed nor disposed.
RetainedProbeUsable == probeLive # None => probeLive \in open \cap held

\* An instance that is still open is reachable from the room, from a task or
\* from Close: none is forgotten with its connection open.
NoListenerLost == \A i \in open : Referenced(i)

\* Newcomers are told the room is online only while a listener is in place.
ReadyMeansLive == ~closed /\ upstreamReady => douyinLive # None

\* What the session state says is so: a start in progress has somebody who
\* ends it, the retained probe can be asked, "online" has a listener behind it.
SessionConsistent == StartingHasOwner /\ RetainedProbeUsable /\ ReadyMeansLive

\* A generation is only retired together with all its clients: a client that
\* arrived before the decision keeps its session.
GenerationRetiresNobody == [][generation' # generation => clients' = {}]_vars

\* A task that carries the number of a retired generation leaves the session
\* and the clients of the generation that replaced it alone; all it may still
\* do is take the listener it promoted itself out of the room.
CarriesGeneration(t) ==
  /\ t \in InitTask \cup MonitorTask \cup RunTask
  /\ task[t].pc \notin {"free", "installed", "count", "monitor", "detach",
                        "dispose", "end"}
StaleTaskHarmless ==
  [][\A t \in Task :
       CarriesGeneration(t) /\ task[t].gen # generation /\ task'[t] # task[t]
       => /\ UNCHANGED <<generation, monitor, probeLive, probeFailures,
                         upstreamReady, starting, knownValid, clients>>
          /\ douyinLive' # douyinLive =>
               douyinLive = task[t].d /\ douyinLive' = None]_vars

-----------------------------------------------------------------------------
(* What must hold: the end of the room.                                    *)

\* removeIfIdle takes the room out of the manager only when nobody uses it: no
\* client, no reservation, no open listener, no start about to be launched but
\* one whose generation has failed meanwhile, with its client.
RemovedRoomIsEmpty ==
  [][~closed /\ closer' = "done" =>
       /\ clients = {} /\ open = {}
       /\ \A c \in Client :
            /\ conn[c] # "reserved"
            /\ conn[c] = "adding" => since[c] # generation]_vars

\* When Close has returned, and its wait did not expire, nothing of the room
\* is left running: no client, no task, no open listener.
CloseStopsAll ==
  closer = "done" /\ ~CloseTimeout => clients = {} /\ Active = {} /\ open = {}

\* A closed room lets no client in and starts no task.
ClosedAdmitsNothing ==
  [][closed => /\ clients' \subseteq clients
               /\ Active' \subseteq Active]_vars

\* A room ends when nobody uses it or Close says so, and is not used after it.
RoomEndsOnce == RemovedRoomIsEmpty /\ ClosedAdmitsNothing

-----------------------------------------------------------------------------
(* What must eventually hold.                                              *)

\* Every start in progress comes to a decision.
StartResolves == starting ~> (~starting \/ closed)

\* A room that is closed comes to its end: Close returns, and all goroutines
\* of the room end, also those Close gave up on.
CloseEnds == closed ~> closer = "done" /\ Active = {}

-----------------------------------------------------------------------------
(* What the comments and docs say, and the code does not do.               *)

\* The server keeps polling for the clients it holds: a room with clients
\* streams, polls or is about to.
ClientsAreServed ==
  ~closed /\ clients # {} => douyinLive # None \/ monitor # None \/ starting

\* A listener that streams can be stopped: it is the room's, or with whoever
\* is about to close it.  (A start that gives up clears "starting" although
\* another start of its generation has begun; a third one then takes the room
\* from a listener that streams.)
StreamHasStopper ==
  \A t \in RunTask :
    task[t].pc = "stream" /\ task[t].d \in open =>
      \/ task[t].d \in {douyinLive, taken[1]}
      \/ \E u \in Task : task[u].pc = "dispose" /\ task[u].d = task[t].d

\* A room that has been closed has released every instance it created.
CloseReleasesAll == closer = "done" => held = {}
=============================================================================

---------------------------- MODULE ProbeLookup ----------------------------
(***************************************************************************)
(* One-shot status lookups of the HTTP API (RoomManager.LookupRoom in      *)
(* internal/server/room_manager.go): concurrent requests for one live id   *)
(* share one upstream probe, each request waits under its own context,     *)
(* and the last one to leave cancels the probe nobody waits for.  Probes   *)
(* compete for a bounded number of permits, and RoomManager.Close cancels  *)
(* and awaits them.                                                        *)
(*                                                                         *)
(* A request makes one lookup, so a probe is named by the request that     *)
(* started it.  Abstracted: the LiveStatus itself, and the rooms closed by *)
(* CloseAll (module Room).  An operator marked "Bug" is a wrong variant of *)
(* the definition after it, which no specification here refers to.         *)
(***************************************************************************)
EXTENDS Integers, FiniteSets

CONSTANTS
  Caller,       \* lookups, and the probes they start
  Id,           \* live ids
  None,         \* the nil *roomProbeCall
  Permits,      \* capacity of probeSem (8 in the code)
  WaitTimeout   \* may the wait of Close (probeShutdownWaitTimeout) expire?

ASSUME CallerAssumption == IsFiniteSet(Caller) /\ None \notin Caller
ASSUME PermitsAssumption == Permits \in Nat \ {0} /\ WaitTimeout \in BOOLEAN

VARIABLES
  closed,       \* RoomManager.closed
  stopped,      \* probeCtx is cancelled
  closer,       \* progress of RoomManager.Close
  probeCalls,   \* RoomManager.probeCalls: the probe a new lookup may join
  pc,           \* where each lookup is; "adding" holds probeMu
  gone,         \* lookups whose own context is done
  wants,        \* the live id of a lookup
  on,           \* the probe it waits for
  outcome,      \* what it returned
  call          \* roomProbeCall and the goroutine that executes it

lookups == <<pc, gone, wants, on, outcome>>
manager == <<closed, stopped, closer>>
vars == <<manager, probeCalls, lookups, call>>

\* "left" is the cancellation caused by the last waiter of the probe.
Result == {"none", "ok", "error", "timeout", "stopped", "left"}
CallState ==
  [st : {"none", "queued", "probing", "finishing", "finished"}, id : Id \cup {None},
   waiters : Nat, left : BOOLEAN, timedOut : BOOLEAN, result : Result]
NoCall == [st |-> "none", id |-> None, waiters |-> 0, left |-> FALSE,
           timedOut |-> FALSE, result |-> "none"]

TypeOK ==
  /\ closed \in BOOLEAN /\ stopped \in BOOLEAN
  /\ closer \in {"none", "cancel", "sync", "wait", "done"}
  /\ probeCalls \in [Id -> Caller \cup {None}]
  /\ pc \in [Caller -> {"idle", "adding", "waiting", "leaving", "returned"}]
  /\ gone \subseteq Caller
  /\ wants \in [Caller -> Id \cup {None}]
  /\ on \in [Caller -> Caller \cup {None}]
  /\ outcome \in [Caller -> Result \cup {"refused", "gone"}]
  /\ call \in [Caller -> CallState]

Init ==
  /\ closed = FALSE /\ stopped = FALSE /\ closer = "none"
  /\ probeCalls = [i \in Id |-> None]
  /\ pc = [c \in Caller |-> "idle"] /\ gone = {}
  /\ wants = [c \in Caller |-> None] /\ on = [c \in Caller |-> None]
  /\ outcome = [c \in Caller |-> "none"]
  /\ call = [k \in Caller |-> NoCall]

Waiters(k) == {c \in Caller : on[c] = k /\ pc[c] \in {"waiting", "leaving"}}
MuFree == \A c \in Caller : pc[c] # "adding"
Running == {k \in Caller : call[k].st \in {"queued", "probing", "finishing"}}
\* Bug: a probe has no timeout of its own.
ContextDoneUntimed(k) == stopped \/ call[k].left

ContextDone(k) == stopped \/ call[k].left \/ call[k].timedOut
Causes(k) == {r \in {"stopped", "left", "timeout"} :
                \/ r = "stopped" /\ stopped
                \/ r = "left" /\ call[k].left
                \/ r = "timeout" /\ call[k].timedOut}
Return(c, out) ==
  /\ pc' = [pc EXCEPT ![c] = "returned"]
  /\ outcome' = [outcome EXCEPT ![c] = out]

-----------------------------------------------------------------------------
(* LookupRoom.                                                             *)

\* The client goes away, or the request times out.
CallerGone(c) ==
  /\ pc[c] # "returned" /\ c \notin gone
  /\ gone' = gone \cup {c}
  /\ UNCHANGED <<manager, probeCalls, pc, wants, on, outcome, call>>

Refuse(c) ==
  /\ pc[c] = "idle" /\ (closed \/ c \in gone)
  /\ Return(c, "refused")
  /\ UNCHANGED <<manager, probeCalls, gone, wants, on, call>>

\* Lock probeMu and look at closed, which Close sets without the lock.
Enter(c, i) ==
  /\ pc[c] = "idle" /\ MuFree /\ ~closed
  /\ pc' = [pc EXCEPT ![c] = "adding"]
  /\ wants' = [wants EXCEPT ![c] = i]
  /\ UNCHANGED <<manager, probeCalls, gone, on, outcome, call>>

\* Bug: a probe whose last waiter has left, and which is cancelled, is joined.
JoinableWhenLeft(k) == k # None /\ call[k].st # "finished"

Joinable(k) == k # None /\ call[k].st # "finished" /\ call[k].waiters > 0

\* Join the probe in flight, or start one in its place; then unlock.
Add(c) ==
  /\ pc[c] = "adding"
  /\ LET i == wants[c]
         k == probeCalls[i]
     IN IF Joinable(k)
        THEN /\ call' = [call EXCEPT ![k].waiters = @ + 1]
             /\ on' = [on EXCEPT ![c] = k]
             /\ UNCHANGED probeCalls
        ELSE /\ call' = [call EXCEPT ![c] =
                  [NoCall EXCEPT !.st = "queued", !.id = i, !.waiters = 1]]
             /\ on' = [on EXCEPT ![c] = c]
             /\ probeCalls' = [probeCalls EXCEPT ![i] = c]
  /\ pc' = [pc EXCEPT ![c] = "waiting"]
  /\ UNCHANGED <<manager, gone, wants, outcome>>

-----------------------------------------------------------------------------
(* waitForRoomProbe.                                                       *)

Receive(c) ==
  /\ pc[c] = "waiting" /\ call[on[c]].st = "finished"
  /\ Return(c, call[on[c]].result)
  /\ UNCHANGED <<manager, probeCalls, gone, wants, on, call>>

\* ctx.Done, and the result is still not there.
GiveUp(c) ==
  /\ pc[c] = "waiting" /\ c \in gone /\ call[on[c]].st # "finished"
  /\ pc' = [pc EXCEPT ![c] = "leaving"]
  /\ UNCHANGED <<manager, probeCalls, gone, wants, on, outcome, call>>

\* Bug: a waiter that leaves is still counted.
LeaveUncounted(c) ==
  /\ pc[c] = "leaving" /\ MuFree
  /\ Return(c, "gone")
  /\ UNCHANGED <<manager, probeCalls, gone, wants, on, call>>

\* Bug: a waiter that has left leaves again.
LeaveAgain(c) ==
  /\ pc[c] = "leaving" /\ MuFree
  /\ call' = [call EXCEPT ![on[c]].waiters = @ - 1]
  /\ UNCHANGED <<manager, probeCalls, lookups>>

\* Bug: the probe nobody waits for any more goes on.
LeaveUncancelled(c) ==
  /\ pc[c] = "leaving" /\ MuFree
  /\ LET k == on[c] IN
       call' = IF call[k].st # "finished" /\ call[k].waiters > 0
               THEN [call EXCEPT ![k].waiters = @ - 1]
               ELSE call
  /\ Return(c, "gone")
  /\ UNCHANGED <<manager, probeCalls, gone, wants, on>>

\* The last waiter to leave an unfinished probe cancels it.
Leave(c) ==
  /\ pc[c] = "leaving" /\ MuFree
  /\ LET k == on[c] IN
       call' = IF call[k].st # "finished" /\ call[k].waiters > 0
               THEN [call EXCEPT ![k].waiters = @ - 1,
                                 ![k].left = call[k].waiters = 1]
               ELSE call
  /\ Return(c, "gone")
  /\ UNCHANGED <<manager, probeCalls, gone, wants, on>>

-----------------------------------------------------------------------------
(* executeRoomProbe, in a goroutine of probeWG.                            *)

\* roomProbeTimeout.
ProbeTimeout(k) ==
  /\ k \in Running /\ ~call[k].timedOut
  /\ call' = [call EXCEPT ![k].timedOut = TRUE]
  /\ UNCHANGED <<manager, probeCalls, lookups>>

\* The select on probeSem and the context takes either when both are there.
AcquirePermit(k) ==
  /\ call[k].st = "queued"
  /\ Cardinality({x \in Caller : call[x].st = "probing"}) < Permits
  /\ call' = [call EXCEPT ![k].st = "probing"]
  /\ UNCHANGED <<manager, probeCalls, lookups>>

NoPermit(k) ==
  /\ call[k].st = "queued" /\ ContextDone(k)
  /\ \E r \in Causes(k) :
       call' = [call EXCEPT ![k].st = "finishing", ![k].result = r]
  /\ UNCHANGED <<manager, probeCalls, lookups>>

\* CheckLiveStatus answers, or fails, or its context ends it; the permit is
\* given back.
ProbeReturns(k) ==
  /\ call[k].st = "probing"
  /\ \E r \in {"ok", "error"} \cup Causes(k) :
       call' = [call EXCEPT ![k].st = "finishing", ![k].result = r]
  /\ UNCHANGED <<manager, probeCalls, lookups>>

\* Bug: the entry is deleted although a newer probe has taken it over.
FinishAnyEntry(k) ==
  /\ call[k].st = "finishing" /\ MuFree
  /\ probeCalls' = [probeCalls EXCEPT ![call[k].id] = None]
  /\ call' = [call EXCEPT ![k].st = "finished"]
  /\ UNCHANGED <<manager, lookups>>

\* The deferred end: leave the map, mark the call finished, close done.
Finish(k) ==
  /\ call[k].st = "finishing" /\ MuFree
  /\ probeCalls' = [i \in Id |-> IF i = call[k].id /\ probeCalls[i] = k
                                 THEN None ELSE probeCalls[i]]
  /\ call' = [call EXCEPT ![k].st = "finished"]
  /\ UNCHANGED <<manager, lookups>>

-----------------------------------------------------------------------------
(* RoomManager.Close.                                                      *)

Close ==
  /\ closer = "none"
  /\ closed' = TRUE /\ closer' = "cancel"
  /\ UNCHANGED <<stopped, probeCalls, lookups, call>>

\* Bug: the probes in flight are not cancelled.
CancelNothing ==
  /\ closer = "cancel"
  /\ closer' = "sync"
  /\ UNCHANGED <<closed, stopped, probeCalls, lookups, call>>

CancelProbes ==
  /\ closer = "cancel"
  /\ stopped' = TRUE /\ closer' = "sync"
  /\ UNCHANGED <<closed, probeCalls, lookups, call>>

\* Bug: the lock is not taken before the wait begins.
SyncUnlocked ==
  /\ closer = "sync"
  /\ closer' = "wait"
  /\ UNCHANGED <<closed, stopped, probeCalls, lookups, call>>

\* Lock and unlock probeMu: every lookup that saw the manager open has added
\* its probe to probeWG.
SyncLookups ==
  /\ closer = "sync" /\ MuFree
  /\ closer' = "wait"
  /\ UNCHANGED <<closed, stopped, probeCalls, lookups, call>>

WaitForProbes ==
  /\ closer = "wait" /\ (Running = {} \/ WaitTimeout)
  /\ closer' = "done"
  /\ UNCHANGED <<closed, stopped, probeCalls, lookups, call>>

-----------------------------------------------------------------------------
LookupStep(c) ==
  Refuse(c) \/ (\E i \in Id : Enter(c, i)) \/ Add(c)
    \/ Receive(c) \/ GiveUp(c) \/ Leave(c)
ProbeStep(k) == AcquirePermit(k) \/ NoPermit(k) \/ ProbeReturns(k) \/ Finish(k)
CloseStep == CancelProbes \/ SyncLookups \/ WaitForProbes

Next ==
  \/ \E c \in Caller :
       CallerGone(c) \/ LookupStep(c) \/ ProbeStep(c) \/ ProbeTimeout(c)
  \/ Close \/ CloseStep

Spec == Init /\ [][Next]_vars

(***************************************************************************)
(* Fairness.  Goroutines that can run do.  CheckLiveStatus may take as     *)
(* long as its context lets it, so a probe is only bound to return once    *)
(* the context is done; TimersFire says that its timer fires.  A lookup    *)
(* may never be made, its client may never leave, and the manager may      *)
(* never be closed.                                                        *)
(***************************************************************************)
EndCancelled(k) == ContextDone(k) /\ ProbeReturns(k)
Fairness ==
  /\ \A c \in Caller : WF_vars(Add(c) \/ Receive(c) \/ GiveUp(c) \/ Leave(c))
  /\ \A k \in Caller :
       WF_vars(AcquirePermit(k) \/ NoPermit(k) \/ EndCancelled(k) \/ Finish(k))
  /\ WF_vars(CloseStep)
FairSpec == Spec /\ Fairness
TimersFire == \A k \in Caller : WF_vars(ProbeTimeout(k))

-----------------------------------------------------------------------------
(* What must hold.                                                         *)

\* An unfinished probe that somebody waits for is the one new lookups join:
\* there is never a second probe of the same live id besides it.
SingleFlight ==
  \A k \in Caller :
    k \in Running /\ call[k].waiters > 0 => probeCalls[call[k].id] = k

\* The waiters counted in an unfinished probe are the lookups waiting for it.
WaitersCounted ==
  \A k \in Running : call[k].waiters = Cardinality(Waiters(k))

\* "Otherwise one disconnected client would cancel the shared probe for every
\* other waiter": no lookup returns the cancellation another one has caused.
NoOneElsesCancellation == \A c \in Caller : outcome[c] # "left"

\* Once Close has begun to wait for the probes, no probe is started any more
\* (probeWG.Add would race with probeWG.Wait).
NoProbeAfterSync ==
  [][(closer \in {"wait", "done"}) => (Running' \subseteq Running)]_vars

\* When Close has returned, and its wait did not expire, no probe is running.
CloseAwaitsProbes == closer = "done" /\ ~WaitTimeout => Running = {}

\* A lookup that waits eventually returns, even if its client stays, by the
\* time limit of the probe.
Waiting == {c \in Caller : pc[c] \in {"waiting", "leaving"}}
LookupReturns == TimersFire => (Waiting # {} ~> Waiting = {})

\* Cancellation alone, without the timer of a probe or that of Close, ends
\* what nobody needs: a probe that all its waiters have left (nobody joins it
\* any more), and the wait of Close.
Abandoned == {k \in Running : call[k].waiters = 0}
Closing == closed /\ closer # "done"
CancellationEnds == Abandoned # {} \/ Closing ~> Abandoned = {} /\ ~Closing
=============================================================================

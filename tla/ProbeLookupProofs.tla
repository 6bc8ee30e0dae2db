------------------------- MODULE ProbeLookupProofs -------------------------
(***************************************************************************)
(* What holds of the lookups for any number of requests, live ids and      *)
(* permits: type correctness, one probe per live id, the waiter count, and *)
(* that nobody is cancelled by somebody else's departure.                  *)
(***************************************************************************)
EXTENDS ProbeLookup, FiniteSetTheorems, TLAPS

\* A lookup starts at most one probe, and waits for a probe that was started.
Places ==
  \A c \in Caller :
    /\ pc[c] \in {"idle", "adding"} => call[c] = NoCall
    /\ pc[c] = "adding" => wants[c] \in Id
    /\ pc[c] \in {"waiting", "leaving"} =>
         on[c] \in Caller /\ call[on[c]].st # "none"

\* A probe that was not started has no waiters; a started one has a live id;
\* only a probe left by its last waiter ends with that cancellation.
Calls ==
  \A k \in Caller :
    /\ call[k].st = "none" => call[k].waiters = 0
    /\ call[k].st # "none" => call[k].id \in Id
    /\ call[k].result = "left" => call[k].left
    /\ call[k].left => call[k].waiters = 0

\* Nobody waits for a probe that its last waiter has cancelled.
LeftAlone == \A k \in Caller : call[k].left => Waiters(k) = {}

\* Close has shut the door before it waits.
CloseOrder ==
  /\ closer # "none" => closed
  /\ closer \in {"wait", "done"} => MuFree

Base == TypeOK /\ Places /\ Calls
LookupInv ==
  /\ Base /\ SingleFlight /\ WaitersCounted /\ LeftAlone
  /\ NoOneElsesCancellation /\ CloseOrder /\ CloseAwaitsProbes

-----------------------------------------------------------------------------
(* Types.                                                                  *)

\* The types, and where lookups and probes are.
LEMMA BaseInit == Init => Base
<1>. SUFFICES ASSUME Init PROVE Base
  OBVIOUS
<1>. USE DEF Init
<1>1. NoCall \in CallState
  BY DEF NoCall, CallState, Result
<1>2. TypeOK
  BY <1>1 DEF TypeOK, Result
<1>3. Places
  BY DEF Places
<1>4. Calls
  BY DEF Calls, NoCall
<1>. QED
  BY <1>2, <1>3, <1>4 DEF Base

\* A started probe changes, and lookups move on to their end at most.
LEMMA CallChanged ==
  ASSUME Base, NEW k \in Caller, NEW w \in CallState,
         call' = [call EXCEPT ![k] = w], call[k].st # "none",
         w.st # "none", w.id = call[k].id, w.result = "left" => w.left,
         w.left => w.waiters = 0,
         \A x \in Caller : pc'[x] = pc[x] \/ pc'[x] = "returned",
         UNCHANGED <<wants, on>>
  PROVE  Places' /\ Calls' /\ call' \in [Caller -> CallState]
<1>1. /\ call' \in [Caller -> CallState] /\ call'[k] = w
      /\ \A x \in Caller : x # k => call'[x] = call[x]
  BY DEF Base, TypeOK
<1>2. call[k] # NoCall
  BY DEF NoCall
<1>3. Places'
  BY <1>1, <1>2 DEF Base, Places
<1>4. Calls'
  BY <1>1 DEF Base, Calls
<1>. QED
  BY <1>1, <1>3, <1>4

\* Steps of a lookup keep the types.
LEMMA LookupBase ==
  ASSUME Base, NEW c \in Caller, CallerGone(c) \/ LookupStep(c)
  PROVE  Base'
<1>. USE DEF Base
<1>1. CASE CallerGone(c)
  BY <1>1 DEF CallerGone, TypeOK, Places, Calls, manager
<1>2. CASE Refuse(c)
  BY <1>2 DEF Refuse, Return, TypeOK, Places, Calls, manager
<1>3. ASSUME NEW i \in Id, Enter(c, i)
      PROVE  Base'
  BY <1>3 DEF Enter, TypeOK, Places, Calls, manager
<1>4. CASE Add(c)
  <2>. DEFINE i == wants[c]
              k == probeCalls[i]
  <2>1. i \in Id /\ call[c] = NoCall
    BY <1>4 DEF Add, Places
  <2>2. CASE Joinable(k)
    <3>1. /\ k \in Caller /\ call[k].st # "none"
          /\ call[k].waiters \in Nat /\ ~call[k].left
      BY <2>1, <2>2, CallerAssumption DEF Joinable, TypeOK, Calls, CallState
    <3>2. /\ call' = [call EXCEPT ![k].waiters = call[k].waiters + 1]
          /\ on' = [on EXCEPT ![c] = k] /\ pc' = [pc EXCEPT ![c] = "waiting"]
          /\ UNCHANGED <<manager, probeCalls, gone, wants, outcome>>
      BY <1>4, <2>2 DEF Add
    <3>. HIDE DEF i, k
    <3>3. call' \in [Caller -> CallState]
      BY <3>1, <3>2 DEF TypeOK, CallState
    <3>4. Places' /\ Calls'
      <4>1. \A x \in Caller : /\ call'[x].st = call[x].st /\ call'[x].id = call[x].id
                              /\ call'[x].left = call[x].left
                              /\ call'[x].result = call[x].result
                              /\ x # k => call'[x] = call[x]
        BY <3>1, <3>2 DEF TypeOK, CallState
      <4>2. Calls'
        BY <3>1, <4>1 DEF Calls
      <4>3. call[k] # NoCall
        BY <3>1 DEF NoCall
      <4>4. Places'
        BY <3>1, <3>2, <4>1, <4>3 DEF Places, TypeOK
      <4>. QED
        BY <4>2, <4>4
    <3>. QED
      BY <3>1, <3>2, <3>3, <3>4 DEF TypeOK, manager
  <2>3. CASE ~Joinable(k)
    <3>. DEFINE v == [NoCall EXCEPT !.st = "queued", !.id = i, !.waiters = 1]
    <3>1. /\ call' = [call EXCEPT ![c] = v]
          /\ on' = [on EXCEPT ![c] = c] /\ pc' = [pc EXCEPT ![c] = "waiting"]
          /\ probeCalls' = [probeCalls EXCEPT ![i] = c]
          /\ UNCHANGED <<manager, gone, wants, outcome>>
      BY <1>4, <2>3 DEF Add
    <3>2. /\ v \in CallState /\ v.st = "queued" /\ v.id = i
          /\ v.result = "none" /\ v.waiters = 1 /\ ~v.left
      BY <2>1 DEF NoCall, CallState, Result
    <3>. HIDE DEF i, k, v
    <3>3. TypeOK'
      BY <2>1, <3>1, <3>2 DEF TypeOK, manager
    <3>4. Places' /\ Calls'
      BY <2>1, <3>1, <3>2 DEF TypeOK, Places, Calls
    <3>. QED
      BY <3>3, <3>4
  <2>. QED
    BY <2>2, <2>3
<1>5. CASE Receive(c)
  <2>1. call[on[c]].result \in Result
    BY <1>5 DEF Receive, Places, TypeOK, CallState
  <2>. QED
    BY <1>5, <2>1 DEF Receive, Return, TypeOK, Places, Calls, manager
<1>6. CASE GiveUp(c)
  BY <1>6 DEF GiveUp, TypeOK, Places, Calls, manager
<1>7. CASE Leave(c)
  <2>. DEFINE k == on[c]
  <2>1. k \in Caller /\ call[k].st # "none"
    BY <1>7 DEF Leave, Places
  <2>2. /\ pc' = [pc EXCEPT ![c] = "returned"]
        /\ outcome' = [outcome EXCEPT ![c] = "gone"]
        /\ UNCHANGED <<manager, probeCalls, gone, wants, on>>
    BY <1>7 DEF Leave, Return
  <2>3. CASE call' = call
    BY <2>2, <2>3 DEF TypeOK, Places, Calls, manager
  <2>. DEFINE n == call[k].waiters
  <2>4. ASSUME n > 0, call' = [call EXCEPT ![k].waiters = n - 1, ![k].left = n = 1]
        PROVE  Base'
    <3>1. n \in Nat /\ n - 1 \in Nat
      BY <2>1, <2>4 DEF TypeOK, CallState
    <3>. DEFINE last == n = 1
                rest == n - 1
                w == [call[k] EXCEPT !.waiters = rest, !.left = last]
    <3>2. last \in BOOLEAN /\ rest \in Nat
      BY <3>1
    <3>3. last => rest = 0
      OBVIOUS
    <3>4. call' = [call EXCEPT ![k] = w]
      BY <2>1, <2>4 DEF TypeOK, CallState
    <3>. HIDE DEF last, rest, n
    <3>. DEFINE r == call[k]
    <3>5. /\ w \in CallState /\ w.st = r.st /\ w.id = r.id
          /\ w.result = r.result /\ (w.left => w.waiters = 0)
      <4>1. r \in CallState
        BY <2>1 DEF TypeOK
      <4>. HIDE DEF r
      <4>2. w = [r EXCEPT !.waiters = rest, !.left = last]
        BY DEF r
      <4>. HIDE DEF w
      <4>3. /\ w.st = r.st /\ w.id = r.id /\ w.result = r.result
            /\ w.waiters = rest /\ w.timedOut = r.timedOut
        BY <4>1, <4>2 DEF CallState
      <4>4. w.left => last
        BY <4>1, <4>2 DEF CallState
      <4>5. w \in CallState
        BY <3>2, <4>1, <4>2 DEF CallState
      <4>. QED
        BY <3>3, <4>3, <4>4, <4>5
    <3>6. call[k].result # "left"
      BY <2>1, <2>4 DEF Calls, n
    <3>7. \A x \in Caller : pc'[x] = pc[x] \/ pc'[x] = "returned"
      BY <2>2 DEF TypeOK
    <3>. HIDE DEF w, k
    <3>8. Places' /\ Calls' /\ call' \in [Caller -> CallState]
      BY <2>1, <2>2, <3>4, <3>5, <3>6, <3>7, CallChanged
    <3>. QED
      BY <2>2, <3>8 DEF TypeOK, manager
  <2>. QED
    BY <1>7, <2>3, <2>4 DEF Leave
<1>. QED
  BY <1>1, <1>2, <1>3, <1>4, <1>5, <1>6, <1>7 DEF LookupStep

\* The causes a context can end for.
LEMMA CausesTyped ==
  ASSUME TypeOK, NEW k \in Caller
  PROVE  /\ Causes(k) \subseteq Result
         /\ "left" \in Causes(k) => call[k].left
BY DEF Causes, Result

\* Steps of a probe keep the types.
LEMMA ProbeBase ==
  ASSUME Base, NEW k \in Caller, ProbeStep(k) \/ ProbeTimeout(k)
  PROVE  Base'
<1>. DEFINE Kept(w) ==
       /\ w \in CallState /\ w.st # "none" /\ w.id = call[k].id
       /\ (w.result = "left" => w.left) /\ (w.left => w.waiters = 0)
       /\ call' = [call EXCEPT ![k] = w] /\ call[k].st # "none"
       /\ UNCHANGED <<manager, lookups>>
<1>0. /\ call[k] \in CallState /\ (call[k].result = "left" => call[k].left)
      /\ (call[k].left => call[k].waiters = 0)
  BY DEF Base, TypeOK, Calls
<1>1. ASSUME NEW w, Kept(w), probeCalls' \in [Id -> Caller \cup {None}]
      PROVE  Base'
  <2>1. Places' /\ Calls' /\ call' \in [Caller -> CallState]
    BY <1>1, CallChanged DEF lookups
  <2>. QED
    BY <1>1, <2>1 DEF Base, TypeOK, manager, lookups
<1>2. probeCalls \in [Id -> Caller \cup {None}] /\ call \in [Caller -> CallState]
  BY DEF Base, TypeOK
<1>3. CASE ProbeTimeout(k)
  <2>. DEFINE w == [call[k] EXCEPT !.timedOut = TRUE]
  <2>1. Kept(w) /\ probeCalls' = probeCalls
    BY <1>0, <1>2, <1>3 DEF ProbeTimeout, Running, CallState
  <2>. QED
    BY <1>1, <1>2, <2>1
<1>4. CASE AcquirePermit(k)
  <2>. DEFINE w == [call[k] EXCEPT !.st = "probing"]
  <2>1. Kept(w) /\ probeCalls' = probeCalls
    BY <1>0, <1>2, <1>4 DEF AcquirePermit, CallState
  <2>. QED
    BY <1>1, <1>2, <2>1
<1>5. CASE NoPermit(k) \/ ProbeReturns(k)
  <2>1. PICK r \in {"ok", "error"} \cup Causes(k) :
          /\ call' = [call EXCEPT ![k].st = "finishing", ![k].result = r]
          /\ call[k].st \in {"queued", "probing"}
          /\ UNCHANGED <<manager, probeCalls, lookups>>
    BY <1>5 DEF NoPermit, ProbeReturns
  <2>. DEFINE w == [call[k] EXCEPT !.st = "finishing", !.result = r]
  <2>2. r \in Result /\ (r = "left" => call[k].left)
    BY <2>1, CausesTyped DEF Base, Result
  <2>3. call' = [call EXCEPT ![k] = w]
    BY <1>0, <1>2, <2>1 DEF CallState
  <2>4. Kept(w) /\ probeCalls' = probeCalls
    BY <1>0, <2>1, <2>2, <2>3 DEF CallState
  <2>. QED
    BY <1>1, <1>2, <2>4
<1>6. CASE Finish(k)
  <2>. DEFINE w == [call[k] EXCEPT !.st = "finished"]
  <2>1. Kept(w)
    BY <1>0, <1>2, <1>6 DEF Finish, CallState
  <2>2. probeCalls' \in [Id -> Caller \cup {None}]
    BY <1>2, <1>6 DEF Finish
  <2>. QED
    BY <1>1, <2>1, <2>2
<1>. QED
  BY <1>3, <1>4, <1>5, <1>6 DEF ProbeStep

\* Steps of Close keep the types.
LEMMA CloseBase ==
  ASSUME Base, Close \/ CloseStep
  PROVE  Base'
BY DEF Base, Close, CloseStep, CancelProbes, SyncLookups, WaitForProbes,
       TypeOK, Places, Calls, lookups

\* So does every step.
LEMMA BaseStep ==
  ASSUME Base, [Next]_vars
  PROVE  Base'
<1>1. CASE UNCHANGED vars
  BY <1>1 DEF Base, vars, manager, lookups, TypeOK, Places, Calls
<1>. QED
  BY <1>1, LookupBase, ProbeBase, CloseBase DEF Next

-----------------------------------------------------------------------------
(* What the steps do to the probes.                                        *)

\* No probe starts, is joined or is left.
CallsKept ==
  \A x \in Caller :
    /\ call'[x].id = call[x].id /\ call'[x].left = call[x].left
    /\ call'[x].waiters = call[x].waiters
    /\ x \in Running' => x \in Running

\* A probe's own steps leave its waiters alone.
LEMMA ProbeEffects ==
  ASSUME Base, NEW k \in Caller, ProbeStep(k) \/ ProbeTimeout(k)
  PROVE  CallsKept /\ UNCHANGED <<manager, lookups>> /\ (Finish(k) \/ UNCHANGED probeCalls)
<1>0. call \in [Caller -> CallState]
  BY DEF Base, TypeOK
<1>1. CASE ProbeTimeout(k)
  BY <1>0, <1>1 DEF ProbeTimeout, CallsKept, Running, CallState
<1>2. CASE AcquirePermit(k)
  BY <1>0, <1>2 DEF AcquirePermit, CallsKept, Running, CallState
<1>3. CASE NoPermit(k) \/ ProbeReturns(k)
  <2>1. PICK r \in {"ok", "error"} \cup Causes(k) :
          /\ call' = [call EXCEPT ![k].st = "finishing", ![k].result = r]
          /\ call[k].st \in {"queued", "probing"}
          /\ UNCHANGED <<manager, probeCalls, lookups>>
    BY <1>3 DEF NoPermit, ProbeReturns
  <2>. QED
    BY <1>0, <2>1 DEF CallsKept, Running, CallState
<1>4. CASE Finish(k)
  BY <1>0, <1>4 DEF Finish, CallsKept, Running, CallState
<1>. QED
  BY <1>1, <1>2, <1>3, <1>4 DEF ProbeStep

\* So do Close, and the steps of a lookup that do not touch a probe.
LEMMA QuietEffects ==
  ASSUME Base, UNCHANGED call
  PROVE  CallsKept
BY DEF CallsKept, Running

\* A lookup joins the probe in flight, which nobody has cancelled.
LEMMA JoinEffects ==
  ASSUME Base, NEW c \in Caller, Add(c), Joinable(probeCalls[wants[c]])
  PROVE  LET k == probeCalls[wants[c]] IN
         /\ k \in Running /\ call[k].waiters > 0 /\ ~call[k].left
         /\ call'[k].waiters = call[k].waiters + 1
         /\ \A x \in Caller : /\ call'[x].id = call[x].id
                              /\ call'[x].left = call[x].left
                              /\ call'[x].st = call[x].st
                              /\ x # k => call'[x] = call[x]
         /\ on' = [on EXCEPT ![c] = k] /\ pc' = [pc EXCEPT ![c] = "waiting"]
         /\ UNCHANGED <<probeCalls, outcome, manager>>
<1>. DEFINE k == probeCalls[wants[c]]
<1>1. wants[c] \in Id
  BY DEF Base, Add, Places
<1>2. k \in Caller /\ call[k].waiters > 0 /\ call[k].st # "finished"
  BY <1>1, CallerAssumption DEF Base, Joinable, TypeOK
<1>3. k \in Running /\ ~call[k].left /\ call[k] \in CallState
  BY <1>2 DEF Base, Calls, Running, CallState, TypeOK
<1>4. /\ call' = [call EXCEPT ![k].waiters = call[k].waiters + 1]
      /\ on' = [on EXCEPT ![c] = k] /\ pc' = [pc EXCEPT ![c] = "waiting"]
      /\ UNCHANGED <<probeCalls, outcome, manager>>
  BY DEF Add
<1>. HIDE DEF k
<1>5. /\ call'[k].waiters = call[k].waiters + 1
      /\ \A x \in Caller : /\ call'[x].id = call[x].id
                           /\ call'[x].left = call[x].left
                           /\ call'[x].st = call[x].st
                           /\ x # k => call'[x] = call[x]
  BY <1>2, <1>3, <1>4 DEF Base, TypeOK, CallState
<1>. QED
  BY <1>2, <1>3, <1>4, <1>5 DEF k

\* Or it starts a probe of its own.
LEMMA StartEffects ==
  ASSUME Base, NEW c \in Caller, Add(c), ~Joinable(probeCalls[wants[c]])
  PROVE  /\ call[c] = NoCall /\ wants[c] \in Id
         /\ call'[c].st = "queued" /\ call'[c].waiters = 1
         /\ ~call'[c].left /\ call'[c].id = wants[c]
         /\ \A x \in Caller : x # c => call'[x] = call[x]
         /\ probeCalls' = [probeCalls EXCEPT ![wants[c]] = c]
         /\ on' = [on EXCEPT ![c] = c] /\ pc' = [pc EXCEPT ![c] = "waiting"]
         /\ UNCHANGED <<outcome, manager>>
<1>1. /\ call' = [call EXCEPT ![c] =
              [NoCall EXCEPT !.st = "queued", !.id = wants[c], !.waiters = 1]]
      /\ probeCalls' = [probeCalls EXCEPT ![wants[c]] = c]
      /\ on' = [on EXCEPT ![c] = c] /\ pc' = [pc EXCEPT ![c] = "waiting"]
      /\ UNCHANGED <<outcome, manager>>
  BY DEF Add
<1>2. call[c] = NoCall /\ wants[c] \in Id
  BY DEF Base, Add, Places
<1>. QED
  BY <1>1, <1>2 DEF Base, TypeOK, NoCall

\* A lookup leaves: a probe it was counted in loses a waiter, and is
\* cancelled if that was the last one.
LEMMA LeaveEffects ==
  ASSUME Base, NEW c \in Caller, Leave(c)
  PROVE  LET k == on[c] IN
         /\ k \in Caller /\ c \in Waiters(k)
         /\ \/ /\ UNCHANGED call
               /\ call[k].st = "finished" \/ call[k].waiters = 0
            \/ /\ call[k].st # "finished" /\ call[k].waiters > 0
               /\ call'[k].waiters = call[k].waiters - 1
               /\ call'[k].left => call[k].waiters = 1
         /\ \A x \in Caller : /\ call'[x].id = call[x].id
                              /\ call'[x].st = call[x].st
                              /\ x # k => call'[x] = call[x]
         /\ pc' = [pc EXCEPT ![c] = "returned"]
         /\ outcome' = [outcome EXCEPT ![c] = "gone"]
         /\ UNCHANGED <<probeCalls, on, manager>>
<1>. DEFINE k == on[c]
            n == call[k].waiters
<1>1. k \in Caller /\ c \in Waiters(k)
  BY DEF Base, Leave, Places, Waiters
<1>2. call[k] \in CallState /\ n \in Nat /\ call \in [Caller -> CallState]
  BY <1>1 DEF Base, TypeOK, CallState
<1>3. /\ \/ UNCHANGED call /\ (call[k].st = "finished" \/ ~(n > 0))
         \/ /\ call[k].st # "finished" /\ n > 0
            /\ call' = [call EXCEPT ![k].waiters = n - 1, ![k].left = n = 1]
      /\ pc' = [pc EXCEPT ![c] = "returned"]
      /\ outcome' = [outcome EXCEPT ![c] = "gone"]
      /\ UNCHANGED <<probeCalls, on, manager>>
  BY DEF Leave, Return
<1>4. CASE UNCHANGED call /\ (call[k].st = "finished" \/ ~(n > 0))
  BY <1>1, <1>2, <1>3, <1>4
<1>5. ASSUME n > 0, call' = [call EXCEPT ![k].waiters = n - 1, ![k].left = n = 1]
      PROVE  /\ call'[k].waiters = n - 1
             /\ call'[k].left => n = 1
             /\ \A x \in Caller : /\ call'[x].id = call[x].id
                                  /\ call'[x].st = call[x].st
                                  /\ x # k => call'[x] = call[x]
  <2>. HIDE DEF k, n
  <2>. DEFINE last == n = 1
              rest == n - 1
  <2>1. call' = [call EXCEPT ![k].waiters = rest, ![k].left = last]
    BY <1>5
  <2>2. last => n = 1
    OBVIOUS
  <2>3. rest = n - 1
    OBVIOUS
  <2>. HIDE DEF last, rest
  <2>. QED
    BY <1>1, <1>2, <2>1, <2>2, <2>3 DEF CallState
<1>. QED
  BY <1>1, <1>3, <1>4, <1>5

\* Every step is of one of these kinds.
LEMMA Steps ==
  ASSUME Base, [Next]_vars
  PROVE  \/ \E c \in Caller : Add(c) \/ Receive(c) \/ Leave(c)
         \/ \E k \in Caller : Finish(k)
         \/ /\ CallsKept /\ UNCHANGED probeCalls
            /\ \A k \in Caller : Waiters(k)' = Waiters(k)
<1>1. ASSUME NEW c \in Caller, CallerGone(c) \/ LookupStep(c)
      PROVE  \/ Add(c) \/ Receive(c) \/ Leave(c)
             \/ /\ CallsKept /\ UNCHANGED probeCalls
                /\ \A k \in Caller : Waiters(k)' = Waiters(k)
  <2>1. CASE CallerGone(c)
    BY <2>1, QuietEffects DEF CallerGone, Waiters
  <2>2. CASE Refuse(c)
    BY <2>2, QuietEffects DEF Refuse, Return, Waiters, Base, TypeOK
  <2>3. ASSUME NEW i \in Id, Enter(c, i)
        PROVE  /\ CallsKept /\ UNCHANGED probeCalls
               /\ \A k \in Caller : Waiters(k)' = Waiters(k)
    BY <2>3, QuietEffects DEF Enter, Waiters, Base, TypeOK
  <2>4. CASE GiveUp(c)
    BY <2>4, QuietEffects DEF GiveUp, Waiters, Base, TypeOK
  <2>. QED
    BY <1>1, <2>1, <2>2, <2>3, <2>4 DEF LookupStep
<1>2. ASSUME NEW k \in Caller, ProbeStep(k) \/ ProbeTimeout(k)
      PROVE  \/ Finish(k)
             \/ /\ CallsKept /\ UNCHANGED probeCalls
                /\ \A x \in Caller : Waiters(x)' = Waiters(x)
  BY <1>2, ProbeEffects DEF lookups, Waiters
<1>3. CASE Close \/ CloseStep \/ UNCHANGED vars
  <2>1. UNCHANGED <<call, probeCalls, lookups>>
    BY <1>3 DEF Close, CloseStep, CancelProbes, SyncLookups, WaitForProbes, vars
  <2>. QED
    BY <2>1, QuietEffects DEF lookups, Waiters
<1>. QED
  BY <1>1, <1>2, <1>3 DEF Next

-----------------------------------------------------------------------------
(* One probe per live id.                                                  *)

\* A lookup starts a probe only when nobody waits for the one in the map, and
\* a probe that ends takes only its own entry away.
LEMMA SingleFlightStep ==
  ASSUME Base, SingleFlight, [Next]_vars
  PROVE  SingleFlight'
<1>1. ASSUME NEW c \in Caller, Add(c), Joinable(probeCalls[wants[c]])
      PROVE  SingleFlight'
  BY <1>1, JoinEffects DEF SingleFlight, Running
<1>2. ASSUME NEW c \in Caller, Add(c), ~Joinable(probeCalls[wants[c]])
      PROVE  SingleFlight'
  <2>1. /\ wants[c] \in Id /\ call'[c].id = wants[c]
        /\ \A x \in Caller : x # c => call'[x] = call[x]
        /\ probeCalls' = [probeCalls EXCEPT ![wants[c]] = c]
    BY <1>2, StartEffects
  <2>2. probeCalls'[wants[c]] = c
        /\ \A i \in Id : i # wants[c] => probeCalls'[i] = probeCalls[i]
    BY <2>1 DEF Base, TypeOK
  <2>3. ASSUME NEW k \in Caller, k # c, k \in Running', call'[k].waiters > 0
        PROVE  probeCalls'[call'[k].id] = k
    <3>1. k \in Running /\ call[k].waiters > 0 /\ call'[k].id = call[k].id
      BY <2>1, <2>3 DEF Running
    <3>2. probeCalls[call[k].id] = k /\ call[k].id \in Id
      BY <3>1 DEF SingleFlight, Base, Calls, Running
    <3>3. call[k].id # wants[c]
      BY <1>2, <3>1, <3>2, CallerAssumption DEF Joinable, Running
    <3>. QED
      BY <2>2, <3>1, <3>2, <3>3
  <2>. QED
    BY <2>1, <2>2, <2>3 DEF SingleFlight
<1>3. ASSUME NEW c \in Caller, Leave(c)
      PROVE  SingleFlight'
  <2>. DEFINE k == on[c]
  <2>1. /\ k \in Caller /\ call[k].waiters \in Nat
        /\ call'[k].waiters > 0 => call[k].waiters > 0
        /\ \A x \in Caller : /\ call'[x].id = call[x].id
                             /\ call'[x].st = call[x].st
                             /\ x # k => call'[x] = call[x]
        /\ UNCHANGED probeCalls
    BY <1>3, LeaveEffects DEF Base, TypeOK, CallState
  <2>. QED
    BY <2>1 DEF SingleFlight, Running
<1>4. ASSUME NEW c \in Caller, Receive(c)
      PROVE  SingleFlight'
  BY <1>4 DEF Receive, SingleFlight, Running
<1>5. ASSUME NEW k \in Caller, Finish(k)
      PROVE  SingleFlight'
  <2>1. k \notin Running' /\ CallsKept
    BY <1>5, ProbeEffects DEF ProbeStep, Finish, Running, Base, TypeOK, CallState
  <2>2. \A i \in Id : probeCalls[i] # k => probeCalls'[i] = probeCalls[i]
    BY <1>5 DEF Finish
  <2>. QED
    BY <2>1, <2>2 DEF SingleFlight, CallsKept, Base, Calls, Running
<1>6. CASE CallsKept /\ UNCHANGED probeCalls
  BY <1>6 DEF SingleFlight, CallsKept
<1>. QED
  BY <1>1, <1>2, <1>3, <1>4, <1>5, <1>6, Steps

-----------------------------------------------------------------------------
(* Waiters.                                                                *)

\* Sets of waiters are finite.
LEMMA WaitersFinite ==
  ASSUME NEW k PROVE IsFiniteSet(Waiters(k)) /\ Cardinality(Waiters(k)) \in Nat
<1>1. Waiters(k) \subseteq Caller
  BY DEF Waiters
<1>. QED
  BY <1>1, CallerAssumption, FS_Subset, FS_CardinalityType

\* A probe counts the lookups that wait for it.
LEMMA WaitersCountedStep ==
  ASSUME Base, WaitersCounted, [Next]_vars
  PROVE  WaitersCounted'
<1>1. ASSUME NEW c \in Caller, Add(c), Joinable(probeCalls[wants[c]])
      PROVE  WaitersCounted'
  <2>0. PICK k \in Caller : k = probeCalls[wants[c]]
    BY <1>1, JoinEffects DEF Running
  <2>1. /\ k \in Running /\ call'[k].waiters = call[k].waiters + 1
        /\ \A x \in Caller : /\ call'[x].st = call[x].st
                             /\ x # k => call'[x] = call[x]
        /\ on' = [on EXCEPT ![c] = k] /\ pc' = [pc EXCEPT ![c] = "waiting"]
    BY <1>1, <2>0, JoinEffects
  <2>2. pc[c] = "adding"
    BY <1>1 DEF Add
  <2>3. c \notin Waiters(k) /\ Waiters(k)' = Waiters(k) \cup {c}
        /\ \A x \in Caller : x # k => Waiters(x)' = Waiters(x)
    BY <2>1, <2>2 DEF Waiters, Base, TypeOK
  <2>4. Cardinality(Waiters(k)') = Cardinality(Waiters(k)) + 1
    BY <2>3, WaitersFinite, FS_AddElement
  <2>. QED
    BY <2>1, <2>3, <2>4 DEF WaitersCounted, Running
<1>2. ASSUME NEW c \in Caller, Add(c), ~Joinable(probeCalls[wants[c]])
      PROVE  WaitersCounted'
  <2>1. /\ call[c] = NoCall /\ call'[c].waiters = 1
        /\ \A x \in Caller : x # c => call'[x] = call[x]
        /\ on' = [on EXCEPT ![c] = c] /\ pc' = [pc EXCEPT ![c] = "waiting"]
    BY <1>2, StartEffects
  <2>2. pc[c] = "adding"
    BY <1>2 DEF Add
  <2>3. Waiters(c) = {}
    BY <2>1 DEF Waiters, Base, Places, NoCall
  <2>4. Waiters(c)' = {c} /\ \A x \in Caller : x # c => Waiters(x)' = Waiters(x)
    BY <2>1, <2>2, <2>3 DEF Waiters, Base, TypeOK
  <2>5. Cardinality(Waiters(c)') = 1
    BY <2>4, FS_Singleton
  <2>. QED
    BY <2>1, <2>4, <2>5 DEF WaitersCounted, Running
<1>3. ASSUME NEW c \in Caller, Leave(c)
      PROVE  WaitersCounted'
  <2>0. PICK k \in Caller : k = on[c]
    BY <1>3, LeaveEffects
  <2>1. /\ c \in Waiters(k)
        /\ \/ call[k].st = "finished" \/ call[k].waiters = 0
           \/ call'[k].waiters = call[k].waiters - 1
        /\ \A x \in Caller : /\ call'[x].st = call[x].st
                             /\ x # k => call'[x] = call[x]
        /\ pc' = [pc EXCEPT ![c] = "returned"] /\ UNCHANGED on
    BY <1>3, <2>0, LeaveEffects
  <2>2. Waiters(k)' = Waiters(k) \ {c}
        /\ \A x \in Caller : x # k => Waiters(x)' = Waiters(x)
    BY <2>1 DEF Waiters, Base, TypeOK
  <2>3. Cardinality(Waiters(k)') = Cardinality(Waiters(k)) - 1
        /\ Cardinality(Waiters(k)) \in Nat /\ Waiters(k) # {}
    BY <2>1, <2>2, WaitersFinite, FS_RemoveElement
  <2>4. Cardinality(Waiters(k)) # 0
    BY <2>3, WaitersFinite, FS_EmptySet
  <2>5. k \in Running => call[k].st # "finished" /\ call[k].waiters # 0
    BY <2>4 DEF WaitersCounted, Running
  <2>. QED
    BY ZenonT(60), <2>1, <2>2, <2>3, <2>5 DEF WaitersCounted, Running
<1>4. ASSUME NEW c \in Caller, Receive(c)
      PROVE  WaitersCounted'
  <2>1. on[c] \in Caller /\ call[on[c]].st = "finished" /\ UNCHANGED <<call, on>>
        /\ pc' = [pc EXCEPT ![c] = "returned"]
    BY <1>4 DEF Receive, Return, Base, Places
  <2>2. \A x \in Caller : x # on[c] => Waiters(x)' = Waiters(x)
    BY <2>1 DEF Waiters, Base, TypeOK
  <2>. QED
    BY <2>1, <2>2 DEF WaitersCounted, Running
<1>5. ASSUME NEW k \in Caller, Finish(k)
      PROVE  WaitersCounted'
  <2>1. CallsKept /\ UNCHANGED lookups
    BY <1>5, ProbeEffects DEF ProbeStep
  <2>. QED
    BY <2>1 DEF WaitersCounted, CallsKept, lookups, Waiters, Running
<1>6. CASE CallsKept /\ \A k \in Caller : Waiters(k)' = Waiters(k)
  BY <1>6 DEF WaitersCounted, CallsKept, Running
<1>. QED
  BY <1>1, <1>2, <1>3, <1>4, <1>5, <1>6, Steps

\* Nobody waits for, or joins, a probe that was left by its last waiter.
LEMMA LeftAloneStep ==
  ASSUME Base, WaitersCounted, LeftAlone, [Next]_vars
  PROVE  LeftAlone'
<1>1. ASSUME NEW c \in Caller, Add(c), Joinable(probeCalls[wants[c]])
      PROVE  LeftAlone'
  <2>1. PICK k \in Caller : k = probeCalls[wants[c]]
    BY <1>1, JoinEffects DEF Running
  <2>2. /\ ~call[k].left /\ \A x \in Caller : call'[x].left = call[x].left
        /\ on' = [on EXCEPT ![c] = k] /\ pc' = [pc EXCEPT ![c] = "waiting"]
    BY <1>1, <2>1, JoinEffects
  <2>3. \A x \in Caller : x # k => Waiters(x)' \subseteq Waiters(x)
    BY <2>2 DEF Waiters, Base, TypeOK
  <2>. QED
    BY <2>2, <2>3 DEF LeftAlone
<1>2. ASSUME NEW c \in Caller, Add(c), ~Joinable(probeCalls[wants[c]])
      PROVE  LeftAlone'
  <2>1. /\ ~call'[c].left /\ \A x \in Caller : x # c => call'[x] = call[x]
        /\ on' = [on EXCEPT ![c] = c] /\ pc' = [pc EXCEPT ![c] = "waiting"]
    BY <1>2, StartEffects
  <2>2. \A x \in Caller : x # c => Waiters(x)' \subseteq Waiters(x)
    BY <2>1 DEF Waiters, Base, TypeOK
  <2>. QED
    BY <2>1, <2>2 DEF LeftAlone
<1>3. ASSUME NEW c \in Caller, Leave(c)
      PROVE  LeftAlone'
  <2>1. PICK k \in Caller : k = on[c]
    BY <1>3, LeaveEffects
  <2>2. /\ c \in Waiters(k)
        /\ \/ UNCHANGED call
           \/ k \in Running /\ (call'[k].left => call[k].waiters = 1)
        /\ \A x \in Caller : x # k => call'[x] = call[x]
        /\ pc' = [pc EXCEPT ![c] = "returned"] /\ UNCHANGED on
    BY <1>3, <2>1, LeaveEffects DEF Running, Base, Calls, TypeOK, CallState
  <2>3. Waiters(k)' = Waiters(k) \ {c}
        /\ \A x \in Caller : x # k => Waiters(x)' = Waiters(x)
    BY <2>2 DEF Waiters, Base, TypeOK
  <2>4. CASE UNCHANGED call
    BY <2>3, <2>4 DEF LeftAlone
  <2>5. CASE call # call' /\ call'[k].left
    <3>1. call[k].waiters = 1 /\ k \in Running
      BY <2>2, <2>5
    <3>2. Cardinality(Waiters(k)) = 1
      BY <3>1 DEF WaitersCounted
    <3>3. Waiters(k)' = {}
      <4>1. IsFiniteSet(Waiters(k) \ {c})
            /\ Cardinality(Waiters(k) \ {c}) = Cardinality(Waiters(k)) - 1
        BY <2>2, WaitersFinite, FS_RemoveElement
      <4>2. Cardinality(Waiters(k) \ {c}) = 0
        BY <3>2, <4>1
      <4>. QED
        BY <2>3, <4>1, <4>2, FS_EmptySet
    <3>. QED
      BY <2>2, <2>3, <3>3 DEF LeftAlone
  <2>6. CASE ~call'[k].left
    BY <2>2, <2>3, <2>6 DEF LeftAlone
  <2>. QED
    BY <2>4, <2>5, <2>6
<1>4. ASSUME NEW c \in Caller, Receive(c)
      PROVE  LeftAlone'
  <2>1. UNCHANGED <<call, on>> /\ pc' = [pc EXCEPT ![c] = "returned"]
    BY <1>4 DEF Receive, Return
  <2>2. \A x \in Caller : Waiters(x)' \subseteq Waiters(x)
    BY <2>1 DEF Waiters, Base, TypeOK
  <2>. QED
    BY <2>1, <2>2 DEF LeftAlone
<1>5. ASSUME NEW k \in Caller, Finish(k)
      PROVE  LeftAlone'
  <2>1. CallsKept /\ UNCHANGED lookups
    BY <1>5, ProbeEffects DEF ProbeStep
  <2>. QED
    BY <2>1 DEF LeftAlone, CallsKept, lookups, Waiters
<1>6. CASE CallsKept /\ \A k \in Caller : Waiters(k)' = Waiters(k)
  BY <1>6 DEF LeftAlone, CallsKept
<1>. QED
  BY <1>1, <1>2, <1>3, <1>4, <1>5, <1>6, Steps

\* A lookup receives the result of a probe that somebody, itself, waits for.
LEMMA NoOneElsesStep ==
  ASSUME Base, LeftAlone, NoOneElsesCancellation, [Next]_vars
  PROVE  NoOneElsesCancellation'
<1>1. ASSUME NEW c \in Caller, NEW out, Return(c, out), out # "left"
      PROVE  NoOneElsesCancellation'
  BY <1>1 DEF Return, NoOneElsesCancellation, Base, TypeOK
<1>2. ASSUME NEW c \in Caller, CallerGone(c) \/ LookupStep(c)
      PROVE  NoOneElsesCancellation'
  <2>1. CASE Receive(c)
    <3>1. on[c] \in Caller /\ c \in Waiters(on[c])
      BY <2>1 DEF Receive, Base, Places, Waiters
    <3>2. call[on[c]].result # "left"
      BY <3>1 DEF LeftAlone, Base, Calls
    <3>. QED
      BY <1>1, <2>1, <3>2 DEF Receive
  <2>2. CASE Refuse(c) \/ Leave(c)
    BY <1>1, <2>2 DEF Refuse, Leave
  <2>3. CASE UNCHANGED outcome
    BY <2>3 DEF NoOneElsesCancellation
  <2>. QED
    BY <1>2, <2>1, <2>2, <2>3 DEF CallerGone, LookupStep, Enter, Add, GiveUp
<1>3. ASSUME NEW k \in Caller, ProbeStep(k) \/ ProbeTimeout(k)
      PROVE  NoOneElsesCancellation'
  BY <1>3, ProbeEffects DEF lookups, NoOneElsesCancellation
<1>4. CASE Close \/ CloseStep \/ UNCHANGED vars
  BY <1>4 DEF Close, CloseStep, CancelProbes, SyncLookups, WaitForProbes,
              vars, lookups, NoOneElsesCancellation
<1>. QED
  BY <1>2, <1>3, <1>4 DEF Next

-----------------------------------------------------------------------------
(* Close.                                                                  *)

\* No lookup enters once the manager is closed, and Close waits until those
\* that did have added their probe.
LEMMA CloseOrderStep ==
  ASSUME Base, CloseOrder, [Next]_vars
  PROVE  CloseOrder'
<1>1. ASSUME NEW c \in Caller, CallerGone(c) \/ LookupStep(c)
      PROVE  CloseOrder'
  <2>1. ASSUME NEW i \in Id, Enter(c, i)
        PROVE  CloseOrder'
    BY <2>1 DEF Enter, CloseOrder, manager
  <2>2. CASE ~\E i \in Id : Enter(c, i)
    <3>1. UNCHANGED manager /\ \A x \in Caller : pc'[x] = "adding" => pc[x] = "adding"
      BY <1>1, <2>2 DEF CallerGone, LookupStep, Refuse, Add, Receive, GiveUp,
                        Leave, Return, Base, TypeOK
    <3>. QED
      BY <3>1 DEF CloseOrder, MuFree, manager
  <2>. QED
    BY <2>1, <2>2
<1>2. ASSUME NEW k \in Caller, ProbeStep(k) \/ ProbeTimeout(k)
      PROVE  CloseOrder'
  BY <1>2, ProbeEffects DEF CloseOrder, MuFree, manager, lookups
<1>3. CASE Close \/ CloseStep \/ UNCHANGED vars
  BY <1>3 DEF Close, CloseStep, CancelProbes, SyncLookups, WaitForProbes, vars,
              manager, lookups, CloseOrder, MuFree
<1>. QED
  BY <1>1, <1>2, <1>3 DEF Next

\* Only a lookup that holds probeMu starts a probe.
LEMMA NoneStarts ==
  ASSUME Base, CloseOrder, closer \in {"wait", "done"}, [Next]_vars
  PROVE  Running' \subseteq Running
<1>1. \A c \in Caller : ~Add(c)
  BY DEF Add, CloseOrder, MuFree
<1>2. ASSUME NEW c \in Caller, Leave(c)
      PROVE  Running' \subseteq Running
  BY <1>2, LeaveEffects DEF Running
<1>3. ASSUME NEW c \in Caller, Receive(c)
      PROVE  Running' \subseteq Running
  BY <1>3 DEF Receive, Running
<1>4. ASSUME NEW k \in Caller, Finish(k)
      PROVE  Running' \subseteq Running
  BY <1>4, ProbeEffects DEF ProbeStep, CallsKept, Running
<1>5. CASE CallsKept
  BY <1>5 DEF CallsKept, Running
<1>. QED
  BY <1>1, <1>2, <1>3, <1>4, <1>5, Steps

\* The probes that Close has waited for are not followed by others.
LEMMA CloseAwaitsStep ==
  ASSUME Base, CloseOrder, CloseAwaitsProbes, [Next]_vars
  PROVE  CloseAwaitsProbes'
<1>1. CASE closer = "done"
  <2>1. Running' \subseteq Running
    BY <1>1, NoneStarts
  <2>. QED
    BY <1>1, <2>1 DEF CloseAwaitsProbes
<1>2. CASE WaitForProbes
  BY <1>2 DEF WaitForProbes, CloseAwaitsProbes, Running
<1>3. CASE closer # "done" /\ ~WaitForProbes
  <2>1. closer' # "done"
    <3>1. CASE UNCHANGED manager
      BY <1>3, <3>1 DEF manager
    <3>2. CASE Close \/ CancelProbes \/ SyncLookups
      BY <3>2 DEF Close, CancelProbes, SyncLookups
    <3>3. ASSUME NEW c \in Caller, CallerGone(c) \/ LookupStep(c)
          PROVE  UNCHANGED manager
      BY <3>3 DEF CallerGone, LookupStep, Refuse, Enter, Add, Receive, GiveUp, Leave
    <3>. QED
      BY <1>3, <3>1, <3>2, <3>3, ProbeEffects DEF Next, CloseStep, vars
  <2>. QED
    BY <2>1 DEF CloseAwaitsProbes
<1>. QED
  BY <1>1, <1>2, <1>3

-----------------------------------------------------------------------------
(* Theorems.                                                               *)

\* The inductive invariant of LookupRoom, its probes and Close.
THEOREM LookupInvariant == Spec => []LookupInv
<1>1. Init => LookupInv
  <2>. SUFFICES ASSUME Init PROVE LookupInv
    OBVIOUS
  <2>1. Base
    BY BaseInit
  <2>2. Running = {} /\ \A k \in Caller : Waiters(k) = {}
    BY DEF Init, Running, NoCall, Waiters
  <2>3. NoOneElsesCancellation /\ CloseOrder /\ CloseAwaitsProbes
    BY DEF Init, NoOneElsesCancellation, CloseOrder, CloseAwaitsProbes
  <2>. QED
    BY <2>1, <2>2, <2>3 DEF LookupInv, SingleFlight, WaitersCounted, LeftAlone
<1>2. LookupInv /\ [Next]_vars => LookupInv'
  BY BaseStep, SingleFlightStep, WaitersCountedStep, LeftAloneStep,
     NoOneElsesStep, CloseOrderStep, CloseAwaitsStep DEF LookupInv
<1>. QED
  BY <1>1, <1>2, PTL DEF Spec

\* Types: in particular a waiter count never goes below zero.
THEOREM LookupTypes == Spec => []TypeOK
BY LookupInvariant, PTL DEF LookupInv, Base

\* However many requests there are, one probe per live id serves those that
\* wait: LookupRoom (room_manager.go:270-286) starts no second one.
THEOREM OneProbePerId == Spec => []SingleFlight
BY LookupInvariant, PTL DEF LookupInv

\* The waiters field decides who cancels a probe; it counts exactly the
\* lookups that wait for it (waitForRoomProbe, room_manager.go:304-312).
THEOREM WaiterCount == Spec => []WaitersCounted
BY LookupInvariant, PTL DEF LookupInv

\* A disconnected client never cancels the lookup of another one (the comment
\* at room_manager.go:278-280).
THEOREM NobodyElseCancels == Spec => []NoOneElsesCancellation
BY LookupInvariant, PTL DEF LookupInv

\* RoomManager.Close leaves no probe behind, unless its wait expires.
THEOREM CloseLeavesNoProbe == Spec => []CloseAwaitsProbes
BY LookupInvariant, PTL DEF LookupInv

\* probeWG.Add never races with the probeWG.Wait of Close.
THEOREM NoLateProbe == Spec => NoProbeAfterSync
<1>1. LookupInv /\ [Next]_vars =>
        [(closer \in {"wait", "done"}) => (Running' \subseteq Running)]_vars
  BY NoneStarts DEF LookupInv
<1>. QED
  BY <1>1, LookupInvariant, PTL DEF Spec, NoProbeAfterSync
=============================================================================

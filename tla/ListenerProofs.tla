--------------------------- MODULE ListenerProofs ---------------------------
(***************************************************************************)
(* Proofs about the listener of Listener.tla, for all calls, connections,  *)
(* loops and attempts.  The inductive invariant ListenerInv adds to the    *)
(* types                                                                   *)
(*   - Places: where a call can be, and what it holds there;               *)
(*   - Phases: a listener that dials has no connection, one that has       *)
(*     stopped its heartbeat has none, one that is cleaned up has neither; *)
(*   - LoopOwned: without time limits a loop that is taken is waited for;  *)
(*   - Counts: the failures and confirmations are over when a connection   *)
(*     is read again.                                                      *)
(* BeatInv adds for the heartbeats                                         *)
(*   - Closed: what a call of Close has done so far;                       *)
(*   - Apart: from dialing to the next heartbeat no loop is alive but      *)
(*     those that were given up, and until then a loop sees dl.conn empty  *)
(*     or the connection it was started for;                               *)
(*   - InUse: a connection in use has a loop that goes on, as long as      *)
(*     nobody else has asked for the status.                               *)
(* A step is reduced to what it writes into a call or a loop (the lemmas   *)
(* "Effect"), and each kind of write is shown to keep the invariant once.  *)
(***************************************************************************)
EXTENDS Listener, TLAPS
-----------------------------------------------------------------------------
(***************************************************************************)
(* What a step writes into the state of a call or of a heartbeat loop.     *)
(***************************************************************************)
CallOK == call \in [Call -> CallState]
LoopOK == loop \in [Loop -> LoopState]

\* Call p goes on with these values, the others stay where they are.
Becomes(p, pc, then, k, h, again, tries) ==
  /\ call' \in [Call -> CallState]
  /\ \A q \in Call : q # p => call'[q] = call[q]
  /\ call'[p].pc = pc /\ call'[p].then = then
  /\ call'[p].conn = k /\ call'[p].beat = h
  /\ call'[p].again = again /\ call'[p].tries = tries
\* Only the place of p changes.
Moves(p, pc) ==
  Becomes(p, pc, call[p].then, call[p].conn, call[p].beat, call[p].again, call[p].tries)
\* p ends its session.
Cleans(p) == Becomes(p, "stopbeat", "unprepare", call[p].conn, call[p].beat, FALSE, 0)
\* Loop h goes on with these values.
BeatBecomes(h, pc, stop, k, of) ==
  /\ loop' \in [Loop -> LoopState]
  /\ \A g \in Loop : g # h => loop'[g] = loop[g]
  /\ loop'[h].pc = pc /\ loop'[h].stop = stop
  /\ loop'[h].conn = k /\ loop'[h].of = of

\* A new state of a call, and of a loop.
LEMMA WriteEffect ==
  ASSUME CallOK, NEW p \in Call, NEW v \in CallState, call' = [call EXCEPT ![p] = v]
  PROVE  Becomes(p, v.pc, v.then, v.conn, v.beat, v.again, v.tries)
BY DEF CallOK, Becomes

\* A write into one loop leaves the others alone.
LEMMA BeatEffect ==
  ASSUME LoopOK, NEW h \in Loop, NEW v \in LoopState, loop' = [loop EXCEPT ![h] = v]
  PROVE  BeatBecomes(h, v.pc, v.stop, v.conn, v.of)
BY DEF LoopOK, BeatBecomes

\* Every place is a place, and the values written are values.
LEMMA Values ==
  /\ StartPc \cup ClosePc \cup StopPc \cup TakePc \subseteq Pc
  /\ {"idle", "report", "returned"} \subseteq Pc
  /\ 0 \in 0 .. Attempts /\ FALSE \in BOOLEAN /\ TRUE \in BOOLEAN
BY BoundAssumption DEF Pc, StartPc, ClosePc, StopPc, TakePc

\* Goto.
LEMMA GotoEffect ==
  ASSUME CallOK, NEW p \in Call, NEW pc \in Pc, Goto(p, pc)
  PROVE  Moves(p, pc)
<1>. DEFINE v == [call[p] EXCEPT !.pc = pc]
<1>1. call[p] \in CallState
  BY DEF CallOK
<1>2. /\ v \in CallState /\ v.pc = pc /\ v.then = call[p].then
      /\ v.conn = call[p].conn /\ v.beat = call[p].beat
      /\ v.again = call[p].again /\ v.tries = call[p].tries
  BY <1>1, ZenonT(60) DEF CallState
<1>3. call' = [call EXCEPT ![p] = v]
  BY DEF Goto
<1>. HIDE DEF v
<1>. QED
  BY <1>2, <1>3, WriteEffect DEF Moves

\* Hold, HoldBeat and StopThen.
LEMMA HoldEffect ==
  ASSUME CallOK, NEW p \in Call, NEW k \in Conn \cup {None}, NEW pc \in Pc,
         Hold(p, k, pc)
  PROVE  Becomes(p, pc, call[p].then, k, call[p].beat, call[p].again, call[p].tries)
<1>. DEFINE v == [call[p] EXCEPT !.conn = k, !.pc = pc]
<1>1. call[p] \in CallState
  BY DEF CallOK
<1>2. /\ v \in CallState /\ v.pc = pc /\ v.then = call[p].then
      /\ v.conn = k /\ v.beat = call[p].beat
      /\ v.again = call[p].again /\ v.tries = call[p].tries
  BY <1>1, ZenonT(60) DEF CallState
<1>3. call' = [call EXCEPT ![p] = v]
  BY DEF Hold
<1>. HIDE DEF v
<1>. QED
  BY <1>2, <1>3, WriteEffect

\* HoldBeat changes the place of a call and the loop it stops.
LEMMA HoldBeatEffect ==
  ASSUME CallOK, NEW p \in Call, NEW h \in Loop \cup {None}, NEW pc \in Pc,
         HoldBeat(p, h, pc)
  PROVE  Becomes(p, pc, call[p].then, call[p].conn, h, call[p].again, call[p].tries)
<1>. DEFINE v == [call[p] EXCEPT !.beat = h, !.pc = pc]
<1>1. call[p] \in CallState
  BY DEF CallOK
<1>2. /\ v \in CallState /\ v.pc = pc /\ v.then = call[p].then
      /\ v.conn = call[p].conn /\ v.beat = h
      /\ v.again = call[p].again /\ v.tries = call[p].tries
  BY <1>1, ZenonT(60) DEF CallState
<1>3. call' = [call EXCEPT ![p] = v]
  BY DEF HoldBeat
<1>. HIDE DEF v
<1>. QED
  BY <1>2, <1>3, WriteEffect

\* StopThen sends a call to stopHeartbeatLoop, and says where it goes on.
LEMMA StopThenEffect ==
  ASSUME CallOK, NEW p \in Call, NEW pc \in Pc, StopThen(p, pc)
  PROVE  Becomes(p, "stopbeat", pc, call[p].conn, call[p].beat, call[p].again,
                 call[p].tries)
<1>. DEFINE v == [call[p] EXCEPT !.pc = "stopbeat", !.then = pc]
<1>1. call[p] \in CallState /\ "stopbeat" \in Pc
  BY Values DEF CallOK, StopPc
<1>2. /\ v \in CallState /\ v.pc = "stopbeat" /\ v.then = pc
      /\ v.conn = call[p].conn /\ v.beat = call[p].beat
      /\ v.again = call[p].again /\ v.tries = call[p].tries
  BY <1>1, ZenonT(60) DEF CallState
<1>3. call' = [call EXCEPT ![p] = v]
  BY DEF StopThen
<1>. HIDE DEF v
<1>. QED
  BY <1>2, <1>3, WriteEffect

\* The locals of a reconnection and of a status check end.
LEMMA ClearedState ==
  ASSUME CallOK, NEW p \in Call
  PROVE  /\ Cleared(p) \in CallState
         /\ Cleared(p).pc = call[p].pc /\ Cleared(p).then = call[p].then
         /\ Cleared(p).conn = call[p].conn /\ Cleared(p).beat = call[p].beat
         /\ Cleared(p).again = FALSE /\ Cleared(p).tries = 0
<1>1. call[p] \in CallState
  BY DEF CallOK
<1>2. 0 \in 0 .. Attempts /\ FALSE \in BOOLEAN
  BY Values
<1>. QED
  BY <1>1, <1>2, ZenonT(60) DEF Cleared, CallState

\* Leave ends a reconnection or a status check.
LEMMA LeaveEffect ==
  ASSUME CallOK, NEW p \in Call, NEW pc \in Pc, Leave(p, pc)
  PROVE  Becomes(p, pc, call[p].then, call[p].conn, call[p].beat, FALSE, 0)
<1>. DEFINE u == Cleared(p)
            v == [u EXCEPT !.pc = pc]
<1>1. /\ u \in CallState /\ u.then = call[p].then
      /\ u.conn = call[p].conn /\ u.beat = call[p].beat
      /\ u.again = FALSE /\ u.tries = 0
  BY ClearedState
<1>2. call' = [call EXCEPT ![p] = v]
  BY DEF Leave
<1>. HIDE DEF u
<1>3. /\ v \in CallState /\ v.pc = pc /\ v.then = u.then /\ v.conn = u.conn
      /\ v.beat = u.beat /\ v.again = u.again /\ v.tries = u.tries
  BY <1>1, ZenonT(60) DEF CallState
<1>. HIDE DEF v
<1>. QED
  BY <1>1, <1>2, <1>3, WriteEffect

\* Cleanup sends Start to the end of its session.
LEMMA CleanupEffect ==
  ASSUME CallOK, NEW p \in Call, Cleanup(p)
  PROVE  Cleans(p)
<1>. DEFINE u == Cleared(p)
            v == [u EXCEPT !.pc = "stopbeat", !.then = "unprepare"]
<1>1. /\ u \in CallState /\ u.then = call[p].then
      /\ u.conn = call[p].conn /\ u.beat = call[p].beat
      /\ u.again = FALSE /\ u.tries = 0
  BY ClearedState
<1>2. call' = [call EXCEPT ![p] = v]
  BY DEF Cleanup
<1>3. "stopbeat" \in Pc /\ "unprepare" \in Pc
  BY Values DEF StartPc, StopPc
<1>. HIDE DEF u
<1>4. /\ v \in CallState /\ v.pc = "stopbeat" /\ v.then = "unprepare"
      /\ v.conn = u.conn
      /\ v.beat = u.beat /\ v.again = u.again /\ v.tries = u.tries
  BY <1>1, <1>3, ZenonT(60) DEF CallState
<1>. HIDE DEF v
<1>. QED
  BY <1>1, <1>2, <1>4, WriteEffect DEF Cleans

\* The other writes: a failed attempt, a read error, an answer, a reconnection.
LEMMA AttemptEffect ==
  ASSUME CallOK, NEW p \in Call, call[p].tries + 1 \in 0 .. Attempts,
         call' = [call EXCEPT ![p] = [@ EXCEPT !.pc = "attempt",
                                             !.tries = call[p].tries + 1]]
  PROVE  Becomes(p, "attempt", call[p].then, call[p].conn, call[p].beat,
                 call[p].again, call[p].tries + 1)
<1>. DEFINE n == call[p].tries + 1
            v == [call[p] EXCEPT !.pc = "attempt", !.tries = n]
<1>1. call[p] \in CallState /\ "attempt" \in Pc /\ n \in 0 .. Attempts
  BY Values DEF CallOK, StartPc
<1>2. call' = [call EXCEPT ![p] = v]
  OBVIOUS
<1>. HIDE DEF n
<1>3. /\ v \in CallState /\ v.pc = "attempt" /\ v.then = call[p].then
      /\ v.conn = call[p].conn /\ v.beat = call[p].beat
      /\ v.again = call[p].again /\ v.tries = n
  BY <1>1, ZenonT(60) DEF CallState
<1>. HIDE DEF v
<1>. QED
  BY <1>2, <1>3, WriteEffect DEF n

\* ReadFails leaves the connection that was read.
LEMMA ReadErrorEffect ==
  ASSUME CallOK, NEW p \in Call, NEW retry \in BOOLEAN,
         call' = [call EXCEPT ![p] = [@ EXCEPT !.conn = None, !.retry = retry,
                                             !.pc = "readerror"]]
  PROVE  Becomes(p, "readerror", call[p].then, None, call[p].beat,
                 call[p].again, call[p].tries)
<1>. DEFINE v == [call[p] EXCEPT !.conn = None, !.retry = retry, !.pc = "readerror"]
<1>1. call[p] \in CallState /\ "readerror" \in Pc /\ None \in Conn \cup {None}
  BY Values DEF CallOK, StartPc
<1>2. /\ v \in CallState /\ v.pc = "readerror" /\ v.then = call[p].then
      /\ v.conn = None /\ v.beat = call[p].beat
      /\ v.again = call[p].again /\ v.tries = call[p].tries
  BY <1>1, ZenonT(60) DEF CallState
<1>3. call' = [call EXCEPT ![p] = v]
  OBVIOUS
<1>. HIDE DEF v
<1>. QED
  BY <1>2, <1>3, WriteEffect

\* StatusAnswer changes the place of a call and its answer.
LEMMA AnswerEffect ==
  ASSUME CallOK, NEW p \in Call, NEW live \in BOOLEAN, NEW pc \in Pc,
         call' = [call EXCEPT ![p] = [@ EXCEPT !.answer = live, !.pc = pc]]
  PROVE  Moves(p, pc)
<1>. DEFINE v == [call[p] EXCEPT !.answer = live, !.pc = pc]
<1>1. call[p] \in CallState
  BY DEF CallOK
<1>2. /\ v \in CallState /\ v.pc = pc /\ v.then = call[p].then
      /\ v.conn = call[p].conn /\ v.beat = call[p].beat
      /\ v.again = call[p].again /\ v.tries = call[p].tries
  BY <1>1, ZenonT(60) DEF CallState
<1>3. call' = [call EXCEPT ![p] = v]
  OBVIOUS
<1>. HIDE DEF v
<1>. QED
  BY <1>2, <1>3, WriteEffect DEF Moves

\* Reconnect takes the old connection into the reconnection.
LEMMA ReconnectEffect ==
  ASSUME CallOK, NEW p \in Call, NEW k \in Conn \cup {None},
         call' = [call EXCEPT ![p] = [@ EXCEPT !.conn = k, !.again = TRUE,
                        !.tries = 0, !.pc = "stopbeat", !.then = "closeold"]]
  PROVE  Becomes(p, "stopbeat", "closeold", k, call[p].beat, TRUE, 0)
<1>. DEFINE v == [call[p] EXCEPT !.conn = k, !.again = TRUE,
                    !.tries = 0, !.pc = "stopbeat", !.then = "closeold"]
<1>1. /\ call[p] \in CallState /\ "stopbeat" \in Pc /\ "closeold" \in Pc
      /\ 0 \in 0 .. Attempts /\ TRUE \in BOOLEAN
  BY Values DEF CallOK, StartPc, StopPc
<1>2. /\ v \in CallState /\ v.pc = "stopbeat" /\ v.then = "closeold"
      /\ v.conn = k /\ v.beat = call[p].beat /\ v.again = TRUE /\ v.tries = 0
  BY <1>1, ZenonT(60) DEF CallState
<1>3. call' = [call EXCEPT ![p] = v]
  OBVIOUS
<1>. HIDE DEF v
<1>. QED
  BY <1>2, <1>3, WriteEffect

\* The same for loops.
LEMMA BeatHoldEffect ==
  ASSUME LoopOK, NEW h \in Loop, NEW k \in Conn \cup {None},
         NEW pc \in {"check", "send", "write", "refresh", "wait", "fail", "close"},
         BeatHold(h, k, pc)
  PROVE  BeatBecomes(h, pc, loop[h].stop, k, loop[h].of)
<1>. DEFINE v == [loop[h] EXCEPT !.conn = k, !.pc = pc]
<1>1. loop[h] \in LoopState
  BY DEF LoopOK
<1>2. /\ v \in LoopState /\ v.pc = pc /\ v.stop = loop[h].stop
      /\ v.conn = k /\ v.of = loop[h].of
  BY <1>1, ZenonT(60) DEF LoopState
<1>3. loop' = [loop EXCEPT ![h] = v]
  BY DEF BeatHold
<1>. HIDE DEF v
<1>. QED
  BY <1>2, <1>3, BeatEffect

\* BeatGoto changes the place of a loop.
LEMMA BeatGotoEffect ==
  ASSUME LoopOK, NEW h \in Loop,
         NEW pc \in {"check", "send", "write", "refresh", "wait", "fail", "close"},
         BeatGoto(h, pc)
  PROVE  BeatBecomes(h, pc, loop[h].stop, loop[h].conn, loop[h].of)
<1>. DEFINE v == [loop[h] EXCEPT !.pc = pc]
<1>1. loop[h] \in LoopState
  BY DEF LoopOK
<1>2. /\ v \in LoopState /\ v.pc = pc /\ v.stop = loop[h].stop
      /\ v.conn = loop[h].conn /\ v.of = loop[h].of
  BY <1>1, ZenonT(60) DEF LoopState
<1>3. loop' = [loop EXCEPT ![h] = v]
  BY DEF BeatGoto
<1>. HIDE DEF v
<1>. QED
  BY <1>2, <1>3, BeatEffect

\* SignalBeat closes the stop channel of a loop.
LEMMA BeatStopEffect ==
  ASSUME LoopOK, NEW h \in Loop, loop' = [loop EXCEPT ![h].stop = TRUE]
  PROVE  BeatBecomes(h, loop[h].pc, TRUE, loop[h].conn, loop[h].of)
<1>. DEFINE v == [loop[h] EXCEPT !.stop = TRUE]
<1>1. loop[h] \in LoopState
  BY DEF LoopOK
<1>2. /\ v \in LoopState /\ v.pc = loop[h].pc /\ v.stop = TRUE
      /\ v.conn = loop[h].conn /\ v.of = loop[h].of
  BY <1>1, ZenonT(60) DEF LoopState
<1>3. loop' = [loop EXCEPT ![h] = v]
  OBVIOUS
<1>. HIDE DEF v
<1>. QED
  BY <1>2, <1>3, BeatEffect

\* A loop that ends leaves nothing behind.
LEMMA BeatEndsEffect ==
  ASSUME LoopOK, NEW h \in Loop, BeatEnds(h)
  PROVE  BeatBecomes(h, "done", FALSE, None, None)
<1>. DEFINE v == [pc |-> "done", stop |-> FALSE, conn |-> None, of |-> None]
<1>1. v \in LoopState
  BY DEF LoopState
<1>2. loop' = [loop EXCEPT ![h] = v]
  BY DEF BeatEnds
<1>3. v.pc = "done" /\ v.stop = FALSE /\ v.conn = None /\ v.of = None
  OBVIOUS
<1>. HIDE DEF v
<1>. QED
  BY <1>1, <1>2, <1>3, BeatEffect

-----------------------------------------------------------------------------
(***************************************************************************)
(* The invariant.                                                          *)
(***************************************************************************)
Shut == Closer \cup Disposer
DialPc == {"begun", "context", "asking", "entering", "verdict", "url", "dial",
           "install", "refresh", "attempt", "closeold"}
CleanPc == {"unprepare", "takeconn", "closeconn", "release", "finish"}
AskPc == {"asking", "entering", "verdict", "asked", "paged", "report"}
Stopping(p, pc) == call[p].pc \in StopPc /\ call[p].then = pc
Cleaned(p) == call[p].pc = "returned" /\ call[p].then = "unprepare"
Cleaning(p) == call[p].pc \in CleanPc \/ Stopping(p, "unprepare")
Dialing(p) == call[p].pc \in DialPc \/ Stopping(p, "closeold")

\* Where a call can be, and what it holds there.
PlaceOK(p) ==
  /\ call[p].pc = "idle" => call[p].then = "idle"
  /\ p \in Starter =>
       /\ call[p].pc \in {"idle", "returned"} \cup StartPc
       /\ call[p].pc \in StopPc => call[p].then \in {"beat", "closeold", "unprepare"}
  /\ p \in Shut =>
       /\ call[p].pc \in {"idle", "returned"} \cup ClosePc
       /\ call[p].pc \in StopPc => call[p].then = "takeconn"
  /\ p \in Preparer \cup Checker => call[p].pc \in {"idle", "returned"} \cup AskPc
HoldOK(p) ==
  /\ call[p].conn # None =>
       \/ call[p].pc \in {"install", "reading", "closeconn", "closeold"}
       \/ Stopping(p, "closeold")
  /\ call[p].pc = "install" => call[p].conn # None
  /\ call[p].pc \in {"signalbeat", "waitbeat"} <=> call[p].beat # None
Places == \A p \in Call : PlaceOK(p) /\ HoldOK(p)

\* A listener that has not run is empty; one that dials has no connection, one
\* that has stopped its heartbeat has none, one that has been cleaned up has
\* neither, nor a signer.
Connless(p) ==
  Dialing(p) \/ Cleaned(p) \/ call[p].pc \in {"closeconn", "release", "finish"}
Beatless(p) ==
  \/ call[p].pc \in DialPc \cup {"live", "ready", "beat"} \cup CleanPc
  \/ call[p].pc \in {"signalbeat", "waitbeat"}
  \/ Stopping(p, "beat") \/ Cleaned(p)
Phases ==
  /\ lifecycle = "new" => /\ conn = None /\ beat = None
                          /\ \A h \in Loop : loop[h].pc = "done"
  /\ \A p \in Starter : /\ Connless(p) => conn = None
                        /\ Beatless(p) => beat = None
                        /\ call[p].pc = "finish" \/ Cleaned(p) => released
                        /\ Cleaned(p) => lifecycle = "closed"

\* Without time limits a loop that is taken is waited for.
LoopOwned ==
  ~BeatTimeout =>
    \A h \in Loop : loop[h].pc # "done" => beat = h \/ \E p \in Call : call[p].beat = h
StructInv ==
  /\ OneRun /\ ConnectionsOwned /\ OneHeartbeat /\ LoopOwned /\ Places /\ Phases

\* The counters, and the attempts of a reconnection.
CountsOf(p) ==
  /\ ~call[p].again => call[p].tries = 0
  /\ call[p].again => \/ Dialing(p) \/ Stopping(p, "beat")
                      \/ call[p].pc \in {"live", "ready", "beat", "reset"}
  /\ call[p].again /\ call[p].pc \in DialPc \ {"attempt", "closeold"}
       => call[p].tries < Attempts
  /\ Inside(p) /\ ~Cleaning(p) /\ ~call[p].again
       /\ call[p].pc \notin {"delay", "reconnect"} => failures = 0
  /\ Inside(p) /\ ~Cleaning(p)
       /\ call[p].pc \notin {"decide", "delay", "reconnect"}
       /\ (call[p].again => call[p].pc = "reset") => confirmations = 0
Counts ==
  /\ lifecycle = "new" => failures = 0 /\ confirmations = 0
  /\ \A p \in Starter : CountsOf(p)
ListenerInv == TypeOK /\ StructInv /\ Counts

\* Who holds a connection to install or to close it, and who is about to tell
\* a loop to stop.
Owner(p, k) ==
  /\ call[p].conn = k
  /\ call[p].pc \in {"install", "closeconn", "closeold"} \cup StopPc
Teller(p, h) == call[p].pc = "signalbeat" /\ call[p].beat = h

\* A step of one call that touches no connection and no loop.
LEMMA CallKept ==
  ASSUME StructInv, NEW p \in Call,
         \A q \in Call : q # p => call'[q] = call[q],
         UNCHANGED <<lifecycle, conn, beat, sock, loop>>, released => released',
         PlaceOK(p)', HoldOK(p)',
         call'[p].pc \notin {"install", "closeconn", "closeold", "signalbeat", "waitbeat"},
         call[p].pc \notin {"install", "closeconn", "closeold", "signalbeat", "waitbeat"},
         call[p].pc = "stopbeat" => call[p].conn = None,
         p \in Starter => /\ Inside(p) /\ Inside(p)'
                          /\ Connless(p)' => Connless(p)
                          /\ Beatless(p)' => Beatless(p)
                          /\ call'[p].pc = "finish" => released'
  PROVE  StructInv'
<1>1. OneRun'
  BY DEF StructInv, OneRun, Inside, Call
<1>2. Places'
  BY DEF StructInv, Places, PlaceOK, HoldOK, Stopping
<1>3. Phases'
  <2>1. ASSUME NEW q \in Starter
        PROVE  /\ Connless(q)' => Connless(q)
               /\ Beatless(q)' => Beatless(q)
               /\ (call[q].pc = "finish" \/ Cleaned(q))' => released'
               /\ Cleaned(q)' => Cleaned(q)
    <3>1. CASE q = p
      <4>1. ~Cleaned(q)'
        BY <2>1, <3>1 DEF Cleaned, Inside, StartPc, StopPc, TakePc
      <4>. QED
        BY <2>1, <3>1, <4>1
    <3>2. CASE q # p
      BY <2>1, <3>2 DEF Call, Connless, Beatless, Cleaned, Dialing, Stopping, Phases,
                        StructInv
    <3>. QED
      BY <3>1, <3>2
  <2>. QED
    BY <2>1 DEF StructInv, Phases
<1>4. ConnectionsOwned'
  <2>1. ASSUME NEW k \in Conn, NEW q \in Call, Owner(q, k)
        PROVE  Owner(q, k)'
    <3>1. CASE q = p
      BY <2>1, <3>1, NoneAssumption
      DEF Owner, StopPc, StructInv, Places, HoldOK, Stopping
    <3>2. CASE q # p
      BY <2>1, <3>2 DEF Owner
    <3>. QED
      BY <3>1, <3>2
  <2>. QED
    BY <2>1 DEF StructInv, ConnectionsOwned, Owner
<1>5. OneHeartbeat' /\ LoopOwned'
  <2>1. ASSUME NEW q \in Call, NEW h \in Loop
        PROVE  /\ Teller(q, h) => Teller(q, h)'
               /\ call[q].beat = h => call'[q].beat = h
    BY <2>1, NoneAssumption DEF Teller, StructInv, Places, HoldOK
  <2>. QED
    BY <2>1 DEF StructInv, OneHeartbeat, LoopOwned, Teller
<1>. QED
  BY <1>1, <1>2, <1>3, <1>4, <1>5 DEF StructInv

\* The types of the calls and of the loops.
LEMMA Typed == TypeOK => CallOK /\ LoopOK
BY DEF TypeOK, CallOK, LoopOK

\* A call is of one kind.
LEMMA Kinds ==
  /\ \A p \in Starter : p \in Call /\ p \notin Shut /\ p \notin Preparer \cup Checker
  /\ \A p \in Shut : p \in Call /\ p \notin Starter /\ p \notin Preparer \cup Checker
  /\ \A p \in Preparer \cup Checker : p \in Call /\ p \notin Starter /\ p \notin Shut
BY CallAssumption DEF Call, Shut

\* A step keeps the counters if it keeps those of its own call, and changes
\* the shared ones only in the listener that runs.
LEMMA CountsKept ==
  ASSUME StructInv, Counts, NEW p \in Call,
         \A q \in Call : q # p => call'[q] = call[q],
         lifecycle' = "new" => lifecycle = "new",
         p \in Starter => CountsOf(p)',
         \/ failures' = failures /\ confirmations' \in {0, confirmations}
         \/ p \in Starter /\ Inside(p)
  PROVE  Counts'
<1>1. CASE p \in Starter /\ Inside(p)
  <2>1. lifecycle # "new"
    BY <1>1 DEF StructInv, OneRun
  <2>2. ASSUME NEW q \in Starter PROVE CountsOf(q)'
    <3>1. CASE q = p
      BY <3>1
    <3>2. CASE q # p
      <4>1. ~Inside(q) /\ q \in Call
        BY <1>1, <3>2 DEF StructInv, OneRun, Call
      <4>2. CountsOf(q) /\ call'[q] = call[q]
        BY <3>2, <4>1 DEF Counts
      <4>. QED
        BY <4>1, <4>2 DEF CountsOf, Inside, Dialing, Stopping
    <3>. QED
      BY <3>1, <3>2
  <2>. QED
    BY <2>1, <2>2 DEF Counts
<1>2. CASE failures' = failures /\ confirmations' \in {0, confirmations}
  <2>1. ASSUME NEW q \in Starter PROVE CountsOf(q)'
    <3>1. CASE q = p
      BY <3>1
    <3>2. CASE q # p
      <4>1. q \in Call
        BY DEF Call
      <4>2. CountsOf(q) /\ call'[q] = call[q]
        BY <3>2, <4>1 DEF Counts
      <4>. QED
        BY <1>2, <4>1, <4>2 DEF CountsOf, Inside, Dialing, Stopping, Cleaning
    <3>. QED
      BY <3>1, <3>2
  <2>. QED
    BY <1>2, <2>1 DEF Counts
<1>. QED
  BY <1>1, <1>2

Frame == UNCHANGED <<lifecycle, conn, beat, sock, loop>> /\ (released => released')

\* A listener that dials: what its attempt comes to.
DialFrom == DialPc \ {"install", "closeold"}
Fails(p) ==
  \/ Cleans(p)
  \/ Moves(p, "reconnect") /\ ~call[p].again
  \/ /\ call[p].again
     /\ Becomes(p, "attempt", call[p].then, call[p].conn, call[p].beat, TRUE,
                call[p].tries + 1)
Dials(p) ==
  \/ Fails(p)
  \/ \E pc \in {"context", "asking", "entering", "verdict", "url", "dial"} :
       Moves(p, pc) /\ call[p].pc # "attempt"
  \/ Moves(p, "refresh") /\ call[p].tries < Attempts

\* A step of a listener that dials, by which nothing else changes, keeps the
\* structure and the counters.
LEMMA DialKept ==
  ASSUME ListenerInv, NEW p \in Starter, call[p].pc \in DialFrom, Frame,
         failures' = failures, confirmations' \in {0, confirmations}, Dials(p)
  PROVE  StructInv' /\ Counts'
<1>1. p \in Call /\ p \notin Shut /\ p \notin Preparer \cup Checker
  BY Kinds
<1>2. /\ PlaceOK(p) /\ HoldOK(p) /\ Inside(p) /\ Dialing(p) /\ ~Cleaning(p)
      /\ call[p].pc # "idle"
  BY <1>1 DEF ListenerInv, StructInv, Places, Inside, DialFrom, DialPc, StartPc,
              Dialing, Cleaning, CleanPc, Stopping, StopPc
<1>3. call[p].conn = None /\ call[p].beat = None
  BY <1>2 DEF HoldOK, DialFrom, DialPc, Stopping, StopPc
<1>4. /\ \A q \in Call : q # p => call'[q] = call[q]
      /\ call'[p].conn = None /\ call'[p].beat = None
      /\ \/ call'[p].pc = "stopbeat" /\ call'[p].then = "unprepare"
         \/ call'[p].pc \in DialFrom \cup {"reconnect"} /\ call'[p].pc # "begun"
  BY <1>3 DEF Dials, Fails, Moves, Cleans, Becomes, DialFrom, DialPc
<1>5. PlaceOK(p)' /\ HoldOK(p)'
  BY <1>1, <1>2, <1>4 DEF PlaceOK, HoldOK, DialFrom, DialPc, StartPc, StopPc, Stopping
<1>6. StructInv'
  <2>1. /\ Inside(p)' /\ Connless(p) /\ Beatless(p) /\ call'[p].pc # "finish"
        /\ call[p].pc # "stopbeat"
        /\ call'[p].pc \notin {"install", "closeconn", "closeold", "signalbeat", "waitbeat"}
        /\ call[p].pc \notin {"install", "closeconn", "closeold", "signalbeat", "waitbeat"}
    BY <1>2, <1>4 DEF Inside, Connless, Beatless, DialFrom, DialPc, StartPc, StopPc
  <2>. QED
    BY <1>1, <1>2, <1>4, <1>5, <2>1, CallKept DEF ListenerInv, Frame
<1>7. CountsOf(p) /\ call[p].tries \in Nat /\ call[p].again \in BOOLEAN
  <2>1. call[p] \in CallState
    BY <1>1, Typed DEF ListenerInv, CallOK
  <2>. QED
    BY <2>1, BoundAssumption DEF ListenerInv, Counts, CallState
<1>8. CountsOf(p)'
  <2>1. CASE Cleans(p)
    BY <2>1 DEF CountsOf, Cleans, Becomes, Cleaning, Stopping, StopPc, DialPc
  <2>2. CASE Moves(p, "reconnect") /\ ~call[p].again
    BY <1>2, <1>7, <2>2 DEF CountsOf, Moves, Becomes, DialFrom, DialPc
  <2>3. CASE /\ call[p].again
             /\ Becomes(p, "attempt", call[p].then, call[p].conn, call[p].beat, TRUE,
                        call[p].tries + 1)
    BY <1>7, <2>3 DEF CountsOf, Becomes, Dialing, DialPc
  <2>4. ASSUME NEW pc \in {"context", "asking", "entering", "verdict", "url", "dial"},
               Moves(p, pc), call[p].pc # "attempt"
        PROVE  CountsOf(p)'
    <3>1. /\ call'[p].pc = pc /\ call'[p].again = call[p].again
          /\ call'[p].tries = call[p].tries
      BY <2>4 DEF Moves, Becomes
    <3>2. Dialing(p)' /\ pc # "reset"
      BY <3>1 DEF Dialing, DialPc
    <3>3. call[p].again => call[p].tries < Attempts
      BY <1>7, <2>4 DEF CountsOf, DialFrom
    <3>4. call[p].pc \notin {"delay", "reconnect", "decide", "reset"}
      BY DEF DialFrom, DialPc
    <3>. QED
      BY <1>2, <1>7, <3>1, <3>2, <3>3, <3>4 DEF CountsOf
  <2>5. CASE Moves(p, "refresh") /\ call[p].tries < Attempts
    <3>1. /\ call'[p].pc = "refresh" /\ call'[p].again = call[p].again
          /\ call'[p].tries = call[p].tries
      BY <2>5 DEF Moves, Becomes
    <3>2. Dialing(p)'
      BY <3>1 DEF Dialing, DialPc
    <3>4. call[p].pc \notin {"delay", "reconnect", "decide", "reset"}
      BY DEF DialFrom, DialPc
    <3>. QED
      BY <1>2, <1>7, <2>5, <3>1, <3>2, <3>4 DEF CountsOf
  <2>. QED
    BY <2>1, <2>2, <2>3, <2>4, <2>5 DEF Dials, Fails
<1>. QED
  BY <1>1, <1>2, <1>4, <1>6, <1>8, CountsKept DEF ListenerInv, Frame

\* A listener that reads: between its connection and the next.
ReadPc == {"live", "ready", "reset", "read", "reading", "ending", "readerror",
           "ask", "asked", "paged", "judge", "decide", "delay", "reconnect"}
Reads(p) ==
  \E pc \in Pc, then \in Pc, k \in Conn \cup {None}, again \in BOOLEAN, n \in Nat :
    /\ Becomes(p, pc, then, k, call[p].beat, again, n)
    /\ k # None => pc = "reading"
    /\ \/ /\ pc \in ReadPc /\ then = call[p].then
          /\ pc \in {"live", "ready"} => call[p].pc \in {"live", "ready"}
       \/ pc = "stopbeat" /\ then = "unprepare"
       \/ pc = "stopbeat" /\ then = "beat" /\ call[p].pc = "ready"

\* A step of a listener that reads keeps the structure.
LEMMA ReadKept ==
  ASSUME StructInv, NEW p \in Starter, call[p].pc \in ReadPc, Frame, Reads(p)
  PROVE  StructInv'
<1>1. p \in Call /\ p \notin Shut /\ p \notin Preparer \cup Checker
  BY Kinds
<1>2. PlaceOK(p) /\ HoldOK(p) /\ Inside(p) /\ call[p].beat = None
  BY <1>1 DEF StructInv, Places, Inside, ReadPc, StartPc, HoldOK
<1>4. /\ \A q \in Call : q # p => call'[q] = call[q]
      /\ call'[p].beat = None
      /\ call'[p].conn # None => call'[p].pc = "reading"
      /\ \/ call'[p].pc = "stopbeat" /\ call'[p].then = "unprepare"
         \/ call'[p].pc = "stopbeat" /\ call'[p].then = "beat" /\ call[p].pc = "ready"
         \/ /\ call'[p].pc \in ReadPc
            /\ call'[p].pc \in {"live", "ready"} => call[p].pc \in {"live", "ready"}
  BY <1>2 DEF Reads, Becomes
<1>5. PlaceOK(p)' /\ HoldOK(p)'
  BY <1>1, <1>4 DEF PlaceOK, HoldOK, ReadPc, StartPc, StopPc, Stopping
<1>6. /\ Inside(p)' /\ ~Connless(p)' /\ (Beatless(p)' => Beatless(p))
      /\ call'[p].pc # "finish"
      /\ call[p].pc # "stopbeat"
      /\ call'[p].pc \notin {"install", "closeconn", "closeold", "signalbeat", "waitbeat"}
      /\ call[p].pc \notin {"install", "closeconn", "closeold", "signalbeat", "waitbeat"}
  BY <1>4 DEF Inside, Connless, Beatless, ReadPc, DialPc, CleanPc, StartPc, StopPc,
              Dialing, Stopping, Cleaned
<1>. QED
  BY <1>1, <1>2, <1>4, <1>5, <1>6, CallKept DEF Frame

\* A call other than Start that goes on, with nothing in hand.
OtherPc == {"unlive", "signal", "dispose", "returned"} \cup AskPc
Others(p) ==
  \E pc \in Pc, then \in Pc, again \in BOOLEAN, n \in Nat :
    /\ Becomes(p, pc, then, call[p].conn, call[p].beat, again, n)
    /\ pc # "idle"
    /\ p \in Shut => \/ pc \in {"unlive", "signal", "returned"}
                     \/ pc = "stopbeat" /\ then = "takeconn"
    /\ p \notin Shut => pc \in AskPc \cup {"returned"}

\* A step of another call that holds neither a connection nor a loop keeps it.
LEMMA OtherKept ==
  ASSUME StructInv, NEW p \in Call \ Starter,
         call[p].pc \in {"idle"} \cup OtherPc, Frame, Others(p)
  PROVE  StructInv'
<1>1. p \in Shut \/ p \in Preparer \cup Checker
  BY DEF Call, Shut
<1>2. PlaceOK(p) /\ HoldOK(p)
  BY DEF StructInv, Places
<1>3. call[p].conn = None /\ call[p].beat = None /\ call[p].pc # "stopbeat"
  BY <1>2 DEF HoldOK, OtherPc, AskPc, Stopping, StopPc
<1>4. /\ \A q \in Call : q # p => call'[q] = call[q]
      /\ call'[p].conn = None /\ call'[p].beat = None
      /\ call'[p].pc \in OtherPc \cup {"stopbeat"}
      /\ p \in Shut => \/ call'[p].pc \in {"unlive", "signal", "returned"}
                       \/ call'[p].pc = "stopbeat" /\ call'[p].then = "takeconn"
      /\ p \notin Shut => call'[p].pc \in AskPc \cup {"returned"}
  BY <1>3 DEF Others, Becomes, OtherPc
<1>5. PlaceOK(p)' /\ HoldOK(p)'
  BY <1>1, <1>4, Kinds DEF PlaceOK, HoldOK, OtherPc, AskPc, ClosePc, StopPc, Stopping
<1>6. /\ call'[p].pc \notin {"install", "closeconn", "closeold", "signalbeat", "waitbeat"}
      /\ call[p].pc \notin {"install", "closeconn", "closeold", "signalbeat", "waitbeat"}
  BY <1>4 DEF OtherPc, AskPc
<1>. QED
  BY <1>1, <1>3, <1>4, <1>5, <1>6, CallKept DEF Frame

-----------------------------------------------------------------------------
(***************************************************************************)
(* The steps that take, close or install a connection, or a loop.          *)
(***************************************************************************)
\* The invariant of one call, when it steps and the others do not.
LEMMA PlacesKept ==
  ASSUME Places, NEW p \in Call, \A q \in Call : q # p => call'[q] = call[q],
         PlaceOK(p)', HoldOK(p)'
  PROVE  Places'
BY DEF Places, PlaceOK, HoldOK, Stopping

\* A step that starts and ends no Start keeps the one that runs alone.
LEMMA RunKept ==
  ASSUME OneRun, NEW p \in Call, \A q \in Call : q # p => call'[q] = call[q],
         lifecycle' = lifecycle, p \in Starter => (Inside(p)' <=> Inside(p))
  PROVE  OneRun'
BY DEF OneRun, Inside, Call

\* TakeBeat.
LEMMA TakeBeatKept ==
  ASSUME ListenerInv, NEW p \in Call, TakeBeat(p)
  PROVE  StructInv'
<1>1. call[p].pc = "stopbeat" /\ beat' = None /\ PlaceOK(p) /\ HoldOK(p)
      /\ call[p].beat = None
      /\ UNCHANGED <<lifecycle, conn, sock, loop, released>>
  BY DEF TakeBeat, ListenerInv, StructInv, Places, HoldOK, closing, context
<1>2. /\ beat \in Loop \cup {None} /\ call[p].then \in Pc /\ "signalbeat" \in Pc
      /\ CallOK
  BY Typed, Values DEF ListenerInv, TypeOK, CallOK, CallState, StopPc, StartPc
<1>3. Becomes(p, IF beat = None THEN call[p].then ELSE "signalbeat", call[p].then,
              call[p].conn, beat, call[p].again, call[p].tries)
  BY <1>2, HoldBeatEffect DEF TakeBeat
<1>4. /\ \A q \in Call : q # p => call'[q] = call[q]
      /\ call'[p].conn = call[p].conn /\ call'[p].then = call[p].then
      /\ beat = None => call'[p].pc = call[p].then /\ call'[p].beat = None
      /\ beat # None => call'[p].pc = "signalbeat" /\ call'[p].beat = beat
  BY <1>3 DEF Becomes
<1>5. /\ p \in Starter => call[p].then \in {"beat", "closeold", "unprepare"}
      /\ p \in Shut => call[p].then = "takeconn"
      /\ p \in Starter \cup Shut
      /\ call[p].conn # None => call[p].then = "closeold"
  BY <1>1, Kinds DEF PlaceOK, HoldOK, Call, Shut, AskPc, StopPc, Stopping
<1>6. PlaceOK(p)' /\ HoldOK(p)'
  BY <1>1, <1>4, <1>5, Kinds
  DEF PlaceOK, HoldOK, StartPc, ClosePc, StopPc, TakePc, Stopping, AskPc
<1>7. p \in Starter => Inside(p) /\ Inside(p)'
  BY <1>1, <1>4, <1>5 DEF Inside, StartPc, StopPc
<1>8. OneRun' /\ Places'
  BY <1>1, <1>4, <1>6, <1>7, RunKept, PlacesKept DEF ListenerInv, StructInv
<1>9. ConnectionsOwned'
  <2>1. ASSUME NEW k \in Conn, NEW q \in Call, Owner(q, k)
        PROVE  Owner(q, k)'
    <3>1. CASE q = p
      BY <1>4, <1>5, <2>1, <3>1, NoneAssumption DEF Owner, StopPc
    <3>2. CASE q # p
      BY <1>4, <2>1, <3>2 DEF Owner
    <3>. QED
      BY <3>1, <3>2
  <2>. QED
    BY <1>1, <2>1 DEF ListenerInv, StructInv, ConnectionsOwned, Owner
<1>10. OneHeartbeat' /\ LoopOwned'
  <2>1. ASSUME NEW q \in Call, NEW h \in Loop
        PROVE  /\ Teller(q, h) => Teller(q, h)'
               /\ call[q].beat = h => call'[q].beat = h
    BY <1>1, <1>4, <2>1, NoneAssumption DEF Teller
  <2>2. ASSUME NEW h \in Loop, beat = h
        PROVE  Teller(p, h)' /\ call'[p].beat = h
    BY <1>4, <2>2, NoneAssumption DEF Teller
  <2>. QED
    BY <1>1, <2>1, <2>2 DEF ListenerInv, StructInv, OneHeartbeat, LoopOwned, Teller
<1>11. Phases'
  <2>1. ASSUME NEW q \in Starter
        PROVE  /\ Connless(q)' => Connless(q)
               /\ (call[q].pc = "finish" \/ Cleaned(q))'
                    => call[q].pc = "finish" \/ Cleaned(q)
               /\ Cleaned(q)' => Cleaned(q)
    <3>1. CASE q = p
      BY <1>1, <1>4, <1>5, <2>1, <3>1
      DEF Connless, Cleaned, Dialing, DialPc, Stopping, StopPc
    <3>2. CASE q # p
      BY <1>4, <2>1, <3>2 DEF Call, Connless, Cleaned, Dialing, Stopping
    <3>. QED
      BY <3>1, <3>2
  <2>. QED
    BY <1>1, <2>1 DEF ListenerInv, StructInv, Phases
<1>. QED
  BY <1>8, <1>9, <1>10, <1>11 DEF StructInv

\* SignalBeat.
LEMMA SignalBeatKept ==
  ASSUME ListenerInv, NEW p \in Call, SignalBeat(p)
  PROVE  StructInv'
<1>1. call[p].pc = "signalbeat" /\ PlaceOK(p) /\ HoldOK(p)
      /\ call[p].beat # None /\ CallOK /\ LoopOK
      /\ UNCHANGED <<lifecycle, conn, beat, sock, released>>
  BY Typed DEF SignalBeat, ListenerInv, StructInv, Places, HoldOK, closing, context
<1>2. PICK h \in Loop : h = call[p].beat
  BY <1>1 DEF CallOK, CallState
<1>3. BeatBecomes(h, loop[h].pc, TRUE, loop[h].conn, loop[h].of)
  BY <1>1, <1>2, BeatStopEffect DEF SignalBeat
<1>4. /\ \A g \in Loop : loop'[g].pc = loop[g].pc /\ loop'[g].conn = loop[g].conn
      /\ \A g \in Loop : g # h => loop'[g].stop = loop[g].stop
      /\ loop'[h].stop
  BY <1>3 DEF BeatBecomes
<1>5. Moves(p, "waitbeat")
  BY <1>1, Values, GotoEffect DEF SignalBeat, StartPc, StopPc
<1>6. /\ \A q \in Call : q # p => call'[q] = call[q]
      /\ call'[p].conn = call[p].conn /\ call'[p].then = call[p].then
      /\ call'[p].beat = call[p].beat /\ call'[p].pc = "waitbeat"
  BY <1>5 DEF Moves, Becomes
<1>7. PlaceOK(p)' /\ HoldOK(p)'
  BY <1>1, <1>6, Kinds DEF PlaceOK, HoldOK, StartPc, ClosePc, StopPc, Stopping, AskPc
<1>8. OneRun' /\ Places'
  <2>1. Inside(p) /\ Inside(p)'
    BY <1>1, <1>6 DEF Inside, StartPc, StopPc
  <2>. QED
    BY <1>1, <1>6, <1>7, <2>1, RunKept, PlacesKept DEF ListenerInv, StructInv
<1>9. ConnectionsOwned'
  <2>1. ASSUME NEW k \in Conn, NEW q \in Call, Owner(q, k)
        PROVE  Owner(q, k)'
    BY <1>6, <2>1 DEF Owner, StopPc
  <2>. QED
    BY <1>1, <1>4, <2>1 DEF ListenerInv, StructInv, ConnectionsOwned, Owner
<1>10. OneHeartbeat' /\ LoopOwned'
  <2>1. ASSUME NEW q \in Call, NEW g \in Loop
        PROVE  /\ Teller(q, g) /\ g # h => Teller(q, g)'
               /\ call[q].beat = g => call'[q].beat = g
    BY <1>2, <1>6, <2>1 DEF Teller
  <2>. QED
    BY <1>1, <1>4, <2>1 DEF ListenerInv, StructInv, OneHeartbeat, LoopOwned, Teller
<1>11. Phases'
  <2>1. ASSUME NEW q \in Starter
        PROVE  /\ Connless(q)' => Connless(q)
               /\ Beatless(q)' => Beatless(q)
               /\ (call[q].pc = "finish" \/ Cleaned(q))'
                    => call[q].pc = "finish" \/ Cleaned(q)
               /\ Cleaned(q)' => Cleaned(q)
    <3>1. CASE q = p
      BY <1>1, <1>6, <3>1
      DEF Connless, Beatless, Cleaned, Dialing, DialPc, CleanPc, Stopping, StopPc
    <3>2. CASE q # p
      BY <1>6, <2>1, <3>2 DEF Call, Connless, Beatless, Cleaned, Dialing, Stopping
    <3>. QED
      BY <3>1, <3>2
  <2>. QED
    BY <1>1, <1>4, <2>1 DEF ListenerInv, StructInv, Phases
<1>. QED
  BY <1>8, <1>9, <1>10, <1>11 DEF StructInv

\* AwaitBeat.
LEMMA AwaitBeatKept ==
  ASSUME ListenerInv, NEW p \in Call, AwaitBeat(p)
  PROVE  StructInv'
<1>1. call[p].pc = "waitbeat" /\ PlaceOK(p) /\ HoldOK(p)
      /\ (loop[call[p].beat].pc = "done" \/ BeatTimeout) /\ CallOK
      /\ UNCHANGED <<lifecycle, conn, beat, sock, loop, released>>
  BY Typed DEF AwaitBeat, ListenerInv, StructInv, Places, HoldOK, closing, context
<1>2. Becomes(p, call[p].then, call[p].then, call[p].conn, None, call[p].again,
              call[p].tries)
  <2>1. call[p].then \in Pc /\ None \in Loop \cup {None}
    BY <1>1 DEF CallOK, CallState
  <2>. QED
    BY <1>1, <2>1, HoldBeatEffect DEF AwaitBeat
<1>4. /\ \A q \in Call : q # p => call'[q] = call[q]
      /\ call'[p].conn = call[p].conn /\ call'[p].then = call[p].then
      /\ call'[p].pc = call[p].then /\ call'[p].beat = None
  BY <1>2 DEF Becomes
<1>5. /\ p \in Starter => call[p].then \in {"beat", "closeold", "unprepare"}
      /\ p \in Shut => call[p].then = "takeconn"
      /\ p \in Starter \cup Shut
      /\ call[p].conn # None => call[p].then = "closeold"
  BY <1>1, Kinds DEF PlaceOK, HoldOK, Call, Shut, AskPc, StopPc, Stopping
<1>6. PlaceOK(p)' /\ HoldOK(p)'
  BY <1>1, <1>4, <1>5, Kinds
  DEF PlaceOK, HoldOK, StartPc, ClosePc, StopPc, TakePc, Stopping, AskPc
<1>7. p \in Starter => Inside(p) /\ Inside(p)'
  BY <1>1, <1>4, <1>5 DEF Inside, StartPc, StopPc
<1>8. OneRun' /\ Places'
  BY <1>1, <1>4, <1>6, <1>7, RunKept, PlacesKept DEF ListenerInv, StructInv
<1>9. ConnectionsOwned'
  <2>1. ASSUME NEW k \in Conn, NEW q \in Call, Owner(q, k)
        PROVE  Owner(q, k)'
    <3>1. CASE q = p
      BY <1>4, <1>5, <2>1, <3>1, NoneAssumption DEF Owner, StopPc
    <3>2. CASE q # p
      BY <1>4, <2>1, <3>2 DEF Owner
    <3>. QED
      BY <3>1, <3>2
  <2>. QED
    BY <1>1, <2>1 DEF ListenerInv, StructInv, ConnectionsOwned, Owner
<1>10. OneHeartbeat' /\ LoopOwned'
  <2>1. ASSUME NEW q \in Call, NEW h \in Loop
        PROVE  /\ Teller(q, h) => Teller(q, h)'
               /\ call[q].beat = h /\ loop[h].pc # "done" /\ ~BeatTimeout
                    => call'[q].beat = h
    BY <1>1, <1>4, <2>1 DEF Teller
  <2>. QED
    BY <1>1, <2>1 DEF ListenerInv, StructInv, OneHeartbeat, LoopOwned, Teller
<1>11. Phases'
  <2>1. ASSUME NEW q \in Starter
        PROVE  /\ Connless(q)' => Connless(q)
               /\ Beatless(q)' => Beatless(q)
               /\ (call[q].pc = "finish" \/ Cleaned(q))'
                    => call[q].pc = "finish" \/ Cleaned(q)
               /\ Cleaned(q)' => Cleaned(q)
    <3>1. CASE q = p
      BY <1>1, <1>4, <1>5, <2>1, <3>1
      DEF Connless, Beatless, Cleaned, Dialing, DialPc, Stopping, StopPc
    <3>2. CASE q # p
      BY <1>4, <2>1, <3>2 DEF Call, Connless, Beatless, Cleaned, Dialing, Stopping
    <3>. QED
      BY <3>1, <3>2
  <2>. QED
    BY <1>1, <2>1 DEF ListenerInv, StructInv, Phases
<1>. QED
  BY <1>8, <1>9, <1>10, <1>11 DEF StructInv

\* No listener has finished while another runs.
LEMMA OthersOut ==
  ASSUME StructInv, NEW p \in Starter, Inside(p), NEW q \in Starter, q # p
  PROVE  /\ ~Inside(q) /\ ~Cleaned(q) /\ ~Connless(q) /\ ~Beatless(q)
         /\ call[q].pc # "finish"
<1>1. ~Inside(q) /\ lifecycle # "closed"
  BY DEF StructInv, OneRun
<1>2. ~Cleaned(q)
  BY <1>1 DEF StructInv, Phases
<1>. QED
  BY <1>1, <1>2 DEF Inside, StartPc, StopPc, TakePc, Connless, Beatless, Dialing,
                    Stopping, DialPc, CleanPc

\* So only the phase of the listener that runs is in question.
LEMMA PhasesKept ==
  ASSUME StructInv, NEW p \in Starter, Inside(p), Inside(p)',
         \A q \in Call : q # p => call'[q] = call[q],
         lifecycle' = lifecycle,
         Connless(p)' => conn' = None, Beatless(p)' => beat' = None,
         call'[p].pc = "finish" => released'
  PROVE  Phases'
<1>1. lifecycle' # "new"
  BY DEF StructInv, OneRun
<1>2. ASSUME NEW q \in Starter, q # p
      PROVE  ~Cleaned(q)' /\ ~Connless(q)' /\ ~Beatless(q)' /\ call'[q].pc # "finish"
  <2>1. call'[q] = call[q]
    BY <1>2 DEF Call
  <2>. QED
    BY <1>2, <2>1, OthersOut
    DEF Connless, Beatless, Cleaned, Dialing, Stopping
<1>3. ~Cleaned(p)'
  BY DEF Cleaned, Inside, StartPc, StopPc, TakePc
<1>. QED
  BY <1>1, <1>2, <1>3 DEF Phases

\* Steps that touch neither a loop nor the call's loop keep OneHeartbeat and
\* LoopOwned.
LEMMA BeatsKept ==
  ASSUME StructInv, NEW p \in Call, \A q \in Call : q # p => call'[q] = call[q],
         beat' = beat, loop' = loop, call'[p].beat = call[p].beat,
         call[p].pc # "signalbeat"
  PROVE  OneHeartbeat' /\ LoopOwned'
<1>1. ASSUME NEW q \in Call, NEW h \in Loop
      PROVE  /\ Teller(q, h) => Teller(q, h)'
             /\ call[q].beat = h => call'[q].beat = h
  BY <1>1 DEF Teller
<1>. QED
  BY <1>1 DEF StructInv, OneHeartbeat, LoopOwned, Teller

\* TakeConn.
LEMMA TakeConnKept ==
  ASSUME ListenerInv, NEW p \in Call, TakeConn(p)
  PROVE  StructInv'
<1>1. call[p].pc = "takeconn" /\ conn' = None /\ PlaceOK(p) /\ HoldOK(p)
      /\ call[p].beat = None /\ call[p].conn = None
      /\ UNCHANGED <<lifecycle, beat, sock, loop, released>>
  BY DEF TakeConn, ListenerInv, StructInv, Places, HoldOK, closing, context, Stopping,
         StopPc
<1>2. Becomes(p, "closeconn", call[p].then, conn, call[p].beat, call[p].again,
              call[p].tries)
  <2>1. conn \in Conn \cup {None} /\ "closeconn" \in Pc /\ CallOK
    BY Typed, Values DEF ListenerInv, TypeOK, TakePc, StartPc
  <2>. QED
    BY <2>1, HoldEffect DEF TakeConn
<1>3. /\ \A q \in Call : q # p => call'[q] = call[q]
      /\ call'[p].conn = conn /\ call'[p].pc = "closeconn" /\ call'[p].beat = None
  BY <1>1, <1>2 DEF Becomes
<1>4. PlaceOK(p)' /\ HoldOK(p)'
  BY <1>1, <1>3, Kinds DEF PlaceOK, HoldOK, StartPc, ClosePc, TakePc, StopPc, Stopping,
                           AskPc
<1>5. Inside(p) /\ Inside(p)'
  BY <1>1, <1>3 DEF Inside, StartPc, TakePc
<1>6. OneRun' /\ Places' /\ OneHeartbeat' /\ LoopOwned'
  BY <1>1, <1>3, <1>4, <1>5, RunKept, PlacesKept, BeatsKept DEF ListenerInv, StructInv
<1>7. ConnectionsOwned'
  <2>1. ASSUME NEW k \in Conn
        PROVE  /\ \A q \in Call : Owner(q, k) => Owner(q, k)'
               /\ conn = k => Owner(p, k)'
    BY <1>1, <1>3, <2>1, NoneAssumption DEF Owner
  <2>. QED
    BY <1>1, <2>1 DEF ListenerInv, StructInv, ConnectionsOwned, Owner
<1>8. Phases'
  <2>1. ASSUME NEW q \in Starter
        PROVE  /\ Beatless(q)' => Beatless(q)
               /\ (call[q].pc = "finish" \/ Cleaned(q))'
                    => call[q].pc = "finish" \/ Cleaned(q)
               /\ Cleaned(q)' => Cleaned(q)
    <3>1. CASE q = p
      BY <1>1, <1>3, <3>1 DEF Beatless, Cleaned, CleanPc
    <3>2. CASE q # p
      BY <1>3, <2>1, <3>2 DEF Call, Beatless, Cleaned, Stopping
    <3>. QED
      BY <3>1, <3>2
  <2>. QED
    BY <1>1, <2>1 DEF ListenerInv, StructInv, Phases
<1>. QED
  BY <1>6, <1>7, <1>8 DEF StructInv

\* CloseConn.
LEMMA CloseConnKept ==
  ASSUME ListenerInv, NEW p \in Call, CloseConn(p)
  PROVE  StructInv'
<1>1. call[p].pc = "closeconn" /\ PlaceOK(p) /\ HoldOK(p)
      /\ call[p].beat = None
      /\ UNCHANGED <<lifecycle, conn, beat, loop, released>>
  BY DEF CloseConn, ListenerInv, StructInv, Places, HoldOK, closing, context
<1>. DEFINE pc == IF p \in Starter THEN "release"
                  ELSE IF p \in Disposer THEN "dispose" ELSE "returned"
<1>2. Becomes(p, pc, call[p].then, None, call[p].beat, call[p].again, call[p].tries)
  <2>1. None \in Conn \cup {None} /\ pc \in Pc /\ CallOK
    BY Typed, Values DEF ListenerInv, StartPc, ClosePc
  <2>. QED
    BY <2>1, HoldEffect DEF CloseConn
<1>3. /\ \A q \in Call : q # p => call'[q] = call[q]
      /\ call'[p].conn = None /\ call'[p].pc = pc /\ call'[p].beat = None
  BY <1>1, <1>2 DEF Becomes
<1>4. PlaceOK(p)' /\ HoldOK(p)'
  BY <1>1, <1>3, Kinds DEF PlaceOK, HoldOK, StartPc, ClosePc, TakePc, StopPc, Stopping,
                           AskPc
<1>5. p \in Starter => Inside(p) /\ Inside(p)'
  BY <1>1, <1>3 DEF Inside, StartPc, TakePc
<1>6. OneRun' /\ Places' /\ OneHeartbeat' /\ LoopOwned'
  BY <1>1, <1>3, <1>4, <1>5, RunKept, PlacesKept, BeatsKept DEF ListenerInv, StructInv
<1>7. ConnectionsOwned'
  <2>1. ASSUME NEW k \in Conn, sock'[k] # "closed"
        PROVE  /\ sock[k] # "closed" /\ call[p].conn # k
               /\ \A q \in Call : Owner(q, k) => Owner(q, k)'
    <3>1. sock \in [Conn -> {"open", "cut", "closed"}]
      BY DEF ListenerInv, TypeOK
    <3>2. sock[k] # "closed" /\ call[p].conn # k
      BY <2>1, <3>1, NoneAssumption DEF CloseConn, CloseSocket
    <3>. QED
      BY <1>3, <3>2 DEF Owner
  <2>. QED
    BY <1>1, <2>1 DEF ListenerInv, StructInv, ConnectionsOwned, Owner
<1>8. Phases'
  <2>1. ASSUME NEW q \in Starter
        PROVE  /\ Connless(q)' => Connless(q)
               /\ Beatless(q)' => Beatless(q)
               /\ (call[q].pc = "finish" \/ Cleaned(q))'
                    => call[q].pc = "finish" \/ Cleaned(q)
               /\ Cleaned(q)' => Cleaned(q)
    <3>1. CASE q = p
      BY <1>1, <1>3, <3>1 DEF Connless, Beatless, Cleaned, CleanPc
    <3>2. CASE q # p
      BY <1>3, <2>1, <3>2 DEF Call, Connless, Beatless, Cleaned, Dialing, Stopping
    <3>. QED
      BY <3>1, <3>2
  <2>. QED
    BY <1>1, <2>1 DEF ListenerInv, StructInv, Phases
<1>. QED
  BY <1>6, <1>7, <1>8 DEF StructInv

\* DialSucceeds.
LEMMA DialSucceedsKept ==
  ASSUME ListenerInv, NEW p \in Starter, DialSucceeds(p)
  PROVE  StructInv'
<1>1. p \in Call /\ p \notin Shut /\ p \notin Preparer \cup Checker
  BY Kinds
<1>2. call[p].pc = "dial" /\ PlaceOK(p) /\ HoldOK(p)
      /\ call[p].beat = None /\ call[p].conn = None
      /\ UNCHANGED <<lifecycle, conn, beat, loop, released>>
  BY <1>1 DEF DialSucceeds, ListenerInv, StructInv, Places, HoldOK, closing, context,
              Stopping, StopPc
<1>3. PICK k \in FreeConn : sock' = [sock EXCEPT ![k] = "open"] /\ Hold(p, k, "install")
  BY DEF DialSucceeds
<1>4. k \in Conn
  BY DEF FreeConn
<1>5. Becomes(p, "install", call[p].then, k, call[p].beat, call[p].again, call[p].tries)
  <2>1. k \in Conn \cup {None} /\ "install" \in Pc /\ CallOK
    BY <1>4, Typed, Values DEF ListenerInv, StartPc
  <2>. QED
    BY <1>1, <1>3, <2>1, HoldEffect
<1>6. /\ \A q \in Call : q # p => call'[q] = call[q]
      /\ call'[p].conn = k /\ call'[p].pc = "install" /\ call'[p].beat = None
  BY <1>2, <1>5 DEF Becomes
<1>7. PlaceOK(p)' /\ HoldOK(p)'
  BY <1>1, <1>4, <1>6, NoneAssumption
  DEF PlaceOK, HoldOK, StartPc, StopPc, Stopping
<1>8. Inside(p) /\ Inside(p)'
  BY <1>2, <1>6 DEF Inside, StartPc
<1>9. OneRun' /\ Places' /\ OneHeartbeat' /\ LoopOwned'
  BY <1>1, <1>2, <1>6, <1>7, <1>8, RunKept, PlacesKept, BeatsKept
  DEF ListenerInv, StructInv
<1>10. ConnectionsOwned'
  <2>1. ASSUME NEW j \in Conn, sock'[j] # "closed"
        PROVE  /\ j = k \/ sock[j] # "closed"
               /\ \A q \in Call : Owner(q, j) => Owner(q, j)'
    <3>1. sock \in [Conn -> {"open", "cut", "closed"}]
      BY DEF ListenerInv, TypeOK
    <3>. QED
      BY <1>2, <1>3, <1>6, <2>1, <3>1 DEF Owner, StopPc
  <2>2. Owner(p, k)'
    BY <1>6 DEF Owner
  <2>. QED
    BY <1>1, <1>2, <2>1, <2>2 DEF ListenerInv, StructInv, ConnectionsOwned, Owner
<1>11. Phases'
  <2>1. Connless(p) /\ Beatless(p)
    BY <1>2 DEF Connless, Dialing, Beatless, DialPc
  <2>2. conn' = None /\ beat' = None
    BY <1>2, <2>1 DEF ListenerInv, StructInv, Phases
  <2>. QED
    BY <1>1, <1>2, <1>6, <1>8, <2>2, PhasesKept DEF ListenerInv
<1>. QED
  BY <1>9, <1>10, <1>11 DEF StructInv

\* Install.
LEMMA InstallKept ==
  ASSUME ListenerInv, NEW p \in Starter, Install(p)
  PROVE  StructInv'
<1>1. p \in Call /\ p \notin Shut /\ p \notin Preparer \cup Checker
  BY Kinds
<1>2. call[p].pc = "install" /\ PlaceOK(p) /\ HoldOK(p)
      /\ call[p].beat = None /\ conn' = call[p].conn
      /\ UNCHANGED <<lifecycle, beat, sock, loop, released>>
  BY <1>1 DEF Install, ListenerInv, StructInv, Places, HoldOK, closing, context
<1>3. Becomes(p, "live", call[p].then, None, call[p].beat, call[p].again, call[p].tries)
  <2>1. None \in Conn \cup {None} /\ "live" \in Pc /\ CallOK
    BY Typed, Values DEF ListenerInv, StartPc
  <2>. QED
    BY <1>1, <2>1, HoldEffect DEF Install
<1>4. /\ \A q \in Call : q # p => call'[q] = call[q]
      /\ call'[p].conn = None /\ call'[p].pc = "live" /\ call'[p].beat = None
  BY <1>2, <1>3 DEF Becomes
<1>5. PlaceOK(p)' /\ HoldOK(p)'
  BY <1>1, <1>4 DEF PlaceOK, HoldOK, StartPc, StopPc, Stopping
<1>6. Inside(p) /\ Inside(p)'
  BY <1>2, <1>4 DEF Inside, StartPc
<1>7. OneRun' /\ Places' /\ OneHeartbeat' /\ LoopOwned'
  BY <1>1, <1>2, <1>4, <1>5, <1>6, RunKept, PlacesKept, BeatsKept
  DEF ListenerInv, StructInv
<1>8. Connless(p) /\ Beatless(p)
  BY <1>2 DEF Connless, Dialing, Beatless, DialPc
<1>9. conn = None /\ beat' = None
  BY <1>2, <1>8 DEF ListenerInv, StructInv, Phases
<1>10. ConnectionsOwned'
  <2>1. ASSUME NEW j \in Conn, NEW q \in Call, Owner(q, j)
        PROVE  (q = p /\ conn' = j) \/ Owner(q, j)'
    BY <1>2, <1>4, <2>1 DEF Owner
  <2>. QED
    BY <1>2, <1>9, <2>1, NoneAssumption
    DEF ListenerInv, StructInv, ConnectionsOwned, Owner
<1>11. Phases'
  <2>1. ~Connless(p)'
    BY <1>4 DEF Connless, Dialing, DialPc, Stopping, StopPc, Cleaned
  <2>. QED
    BY <1>1, <1>2, <1>4, <1>6, <1>9, <2>1, PhasesKept DEF ListenerInv
<1>. QED
  BY <1>7, <1>10, <1>11 DEF StructInv

\* StartBeat.
LEMMA StartBeatKept ==
  ASSUME ListenerInv, NEW p \in Starter, StartBeat(p)
  PROVE  StructInv'
<1>1. p \in Call /\ p \notin Shut /\ p \notin Preparer \cup Checker
  BY Kinds
<1>2. call[p].pc = "beat" /\ PlaceOK(p) /\ HoldOK(p) /\ CallOK /\ LoopOK
      /\ call[p].beat = None /\ call[p].conn = None
      /\ UNCHANGED <<lifecycle, conn, sock, released>>
  BY <1>1, Typed DEF StartBeat, ListenerInv, StructInv, Places, HoldOK, closing, context,
                     Stopping, StopPc
<1>. DEFINE v == [pc |-> "check", stop |-> FALSE, conn |-> None, of |-> conn]
<1>3. PICK h \in FreeLoop : beat' = h /\ loop' = [loop EXCEPT ![h] = v]
  BY DEF StartBeat
<1>4. h \in Loop /\ loop[h].pc = "done"
  BY DEF FreeLoop
<1>5. /\ \A g \in Loop : g # h => loop'[g] = loop[g]
      /\ loop'[h].pc = "check"
  <2>1. v \in LoopState /\ v.pc = "check"
    BY DEF LoopState, ListenerInv, TypeOK
  <2>. HIDE DEF v
  <2>. QED
    BY <1>2, <1>3, <1>4, <2>1, BeatEffect DEF BeatBecomes
<1>. HIDE DEF v
<1>6. Moves(p, IF call[p].again THEN "reset" ELSE "read")
  BY <1>1, <1>2, Values, GotoEffect DEF StartBeat, StartPc
<1>7. /\ \A q \in Call : q # p => call'[q] = call[q]
      /\ call'[p].conn = None /\ call'[p].pc \in {"reset", "read"}
      /\ call'[p].beat = None
  BY <1>2, <1>6 DEF Moves, Becomes
<1>8. PlaceOK(p)' /\ HoldOK(p)'
  BY <1>1, <1>7 DEF PlaceOK, HoldOK, StartPc, StopPc, Stopping
<1>9. Inside(p) /\ Inside(p)'
  BY <1>2, <1>7 DEF Inside, StartPc
<1>10. OneRun' /\ Places'
  BY <1>1, <1>2, <1>7, <1>8, <1>9, RunKept, PlacesKept DEF ListenerInv, StructInv
<1>11. beat = None
  BY <1>2 DEF ListenerInv, StructInv, Phases, Beatless
<1>12. OneHeartbeat' /\ LoopOwned'
  <2>1. ASSUME NEW q \in Call, NEW g \in Loop
        PROVE  /\ Teller(q, g) => Teller(q, g)'
               /\ call[q].beat = g => call'[q].beat = g
    BY <1>2, <1>7, <2>1 DEF Teller
  <2>2. \A g \in Loop : g # h => beat # g
    BY <1>11, NoneAssumption
  <2>. QED
    BY <1>3, <1>5, <2>1, <2>2 DEF ListenerInv, StructInv, OneHeartbeat, LoopOwned, Teller
<1>13. ConnectionsOwned'
  <2>1. ASSUME NEW j \in Conn, NEW q \in Call, Owner(q, j)
        PROVE  Owner(q, j)'
    BY <1>2, <1>7, <2>1 DEF Owner, StopPc
  <2>2. ASSUME NEW g \in Loop, loop[g].pc = "close"
        PROVE  loop'[g] = loop[g]
    BY <1>4, <1>5, <2>2
  <2>. QED
    BY <1>2, <2>1, <2>2 DEF ListenerInv, StructInv, ConnectionsOwned, Owner
<1>14. Phases'
  <2>1. ~Connless(p)' /\ ~Beatless(p)'
    BY <1>7 DEF Connless, Beatless, Dialing, DialPc, CleanPc, Stopping, StopPc, Cleaned
  <2>. QED
    BY <1>1, <1>2, <1>7, <1>9, <2>1, PhasesKept DEF ListenerInv
<1>. QED
  BY <1>10, <1>12, <1>13, <1>14 DEF StructInv

\* Reconnect, when the listener goes on.
LEMMA ReconnectKept ==
  ASSUME ListenerInv, NEW p \in Starter, Reconnect(p), ~manualClose
  PROVE  StructInv'
<1>1. p \in Call /\ p \notin Shut /\ p \notin Preparer \cup Checker
  BY Kinds
<1>2. call[p].pc = "reconnect" /\ PlaceOK(p) /\ HoldOK(p) /\ CallOK
      /\ call[p].beat = None /\ call[p].conn = None /\ conn' = None
      /\ UNCHANGED <<lifecycle, beat, sock, loop, released>>
  BY <1>1, Typed DEF Reconnect, ListenerInv, StructInv, Places, HoldOK, closing, context,
                     Stopping, StopPc
<1>3. Becomes(p, "stopbeat", "closeold", conn, call[p].beat, TRUE, 0)
  <2>1. conn \in Conn \cup {None}
    BY DEF ListenerInv, TypeOK
  <2>. QED
    BY <1>1, <1>2, <2>1, ReconnectEffect DEF Reconnect
<1>4. /\ \A q \in Call : q # p => call'[q] = call[q]
      /\ call'[p].conn = conn /\ call'[p].pc = "stopbeat" /\ call'[p].then = "closeold"
      /\ call'[p].beat = None
  BY <1>2, <1>3 DEF Becomes
<1>5. PlaceOK(p)' /\ HoldOK(p)'
  BY <1>1, <1>4 DEF PlaceOK, HoldOK, StartPc, StopPc, Stopping
<1>6. Inside(p) /\ Inside(p)'
  BY <1>2, <1>4 DEF Inside, StartPc, StopPc
<1>7. OneRun' /\ Places' /\ OneHeartbeat' /\ LoopOwned'
  BY <1>1, <1>2, <1>4, <1>5, <1>6, RunKept, PlacesKept, BeatsKept
  DEF ListenerInv, StructInv
<1>8. ConnectionsOwned'
  <2>1. ASSUME NEW j \in Conn
        PROVE  /\ \A q \in Call : Owner(q, j) => Owner(q, j)'
               /\ conn = j => Owner(p, j)'
    BY <1>1, <1>2, <1>4, <2>1, NoneAssumption DEF Owner, StopPc
  <2>. QED
    BY <1>1, <1>2, <2>1 DEF ListenerInv, StructInv, ConnectionsOwned, Owner
<1>9. Phases'
  <2>1. ~Beatless(p)'
    BY <1>4 DEF Beatless, DialPc, CleanPc, Stopping, StopPc, Cleaned
  <2>. QED
    BY <1>1, <1>2, <1>4, <1>6, <2>1, PhasesKept DEF ListenerInv
<1>. QED
  BY <1>7, <1>8, <1>9 DEF StructInv

\* CloseOld.
LEMMA CloseOldKept ==
  ASSUME ListenerInv, NEW p \in Starter, CloseOld(p)
  PROVE  StructInv'
<1>1. p \in Call /\ p \notin Shut /\ p \notin Preparer \cup Checker
  BY Kinds
<1>2. call[p].pc = "closeold" /\ PlaceOK(p) /\ HoldOK(p)
      /\ call[p].beat = None
      /\ UNCHANGED <<lifecycle, conn, beat, loop, released>>
  BY <1>1 DEF CloseOld, ListenerInv, StructInv, Places, HoldOK, closing, context
<1>3. Becomes(p, "attempt", call[p].then, None, call[p].beat, call[p].again,
              call[p].tries)
  <2>1. None \in Conn \cup {None} /\ "attempt" \in Pc /\ CallOK
    BY Typed, Values DEF ListenerInv, StartPc
  <2>. QED
    BY <1>1, <2>1, HoldEffect DEF CloseOld
<1>4. /\ \A q \in Call : q # p => call'[q] = call[q]
      /\ call'[p].conn = None /\ call'[p].pc = "attempt" /\ call'[p].beat = None
  BY <1>2, <1>3 DEF Becomes
<1>5. PlaceOK(p)' /\ HoldOK(p)'
  BY <1>1, <1>4 DEF PlaceOK, HoldOK, StartPc, StopPc, Stopping
<1>6. Inside(p) /\ Inside(p)'
  BY <1>2, <1>4 DEF Inside, StartPc
<1>7. OneRun' /\ Places' /\ OneHeartbeat' /\ LoopOwned'
  BY <1>1, <1>2, <1>4, <1>5, <1>6, RunKept, PlacesKept, BeatsKept
  DEF ListenerInv, StructInv
<1>8. ConnectionsOwned'
  <2>1. ASSUME NEW k \in Conn, sock'[k] # "closed"
        PROVE  /\ sock[k] # "closed" /\ call[p].conn # k
               /\ \A q \in Call : Owner(q, k) => Owner(q, k)'
    <3>1. sock \in [Conn -> {"open", "cut", "closed"}]
      BY DEF ListenerInv, TypeOK
    <3>2. sock[k] # "closed" /\ call[p].conn # k
      BY <2>1, <3>1, NoneAssumption DEF CloseOld, CloseSocket
    <3>. QED
      BY <1>4, <3>2 DEF Owner
  <2>. QED
    BY <1>2, <2>1 DEF ListenerInv, StructInv, ConnectionsOwned, Owner
<1>9. Phases'
  <2>1. Connless(p) /\ Beatless(p)
    BY <1>2 DEF Connless, Dialing, Beatless, DialPc
  <2>2. conn' = None /\ beat' = None
    BY <1>2, <2>1 DEF ListenerInv, StructInv, Phases
  <2>. QED
    BY <1>1, <1>2, <1>4, <1>6, <2>2, PhasesKept DEF ListenerInv
<1>. QED
  BY <1>7, <1>8, <1>9 DEF StructInv

\* Unprepare and Release.
LEMMA UnprepareKept ==
  ASSUME ListenerInv, NEW p \in Starter, Unprepare(p) \/ Release(p)
  PROVE  StructInv'
<1>1. p \in Call /\ p \notin Shut /\ p \notin Preparer \cup Checker
  BY Kinds
<1>2. PlaceOK(p) /\ HoldOK(p) /\ CallOK /\ call[p].pc \in {"unprepare", "release"}
  BY <1>1, Typed DEF Unprepare, Release, ListenerInv, StructInv, Places
<1>3. call[p].conn = None /\ call[p].beat = None
  BY <1>2 DEF HoldOK, Stopping, StopPc
<1>4. /\ UNCHANGED <<lifecycle, conn, beat, sock, loop>> /\ (released => released')
      /\ call'[p].pc = "finish" => released'
  <2>1. CASE Unprepare(p)
    <3>1. Moves(p, "takeconn")
      BY <1>1, <1>2, <2>1, Values, GotoEffect DEF Unprepare, TakePc, StartPc
    <3>. QED
      BY <2>1, <3>1 DEF Unprepare, closing, Moves, Becomes
  <2>2. CASE Release(p)
    BY <2>2 DEF Release, closing
  <2>. QED
    BY <2>1, <2>2
<1>5. \/ call[p].pc = "unprepare" /\ Moves(p, "takeconn")
      \/ call[p].pc = "release" /\ Moves(p, "finish")
  BY <1>1, <1>2, Values, GotoEffect DEF Unprepare, Release, TakePc, StartPc
<1>6. /\ \A q \in Call : q # p => call'[q] = call[q]
      /\ call'[p].conn = None /\ call'[p].beat = None
      /\ \/ call[p].pc = "unprepare" /\ call'[p].pc = "takeconn"
         \/ call[p].pc = "release" /\ call'[p].pc = "finish"
  BY <1>3, <1>5 DEF Moves, Becomes
<1>7. PlaceOK(p)' /\ HoldOK(p)'
  BY <1>1, <1>6 DEF PlaceOK, HoldOK, StartPc, TakePc, StopPc, Stopping
<1>8. /\ Inside(p) /\ Inside(p)' /\ Beatless(p)
      /\ Connless(p)' => Connless(p)
  BY <1>6 DEF Inside, StartPc, TakePc, Connless, Beatless, CleanPc, DialPc, Dialing,
              Stopping, StopPc, Cleaned
<1>. QED
  BY <1>1, <1>2, <1>4, <1>6, <1>7, <1>8, CallKept DEF ListenerInv

\* FinishLifecycle: only now may the listener be told to have ended.
LEMMA FinishKept ==
  ASSUME ListenerInv, NEW p \in Starter, FinishLifecycle(p)
  PROVE  StructInv'
<1>1. p \in Call /\ p \notin Shut /\ p \notin Preparer \cup Checker
  BY Kinds
<1>2. call[p].pc = "finish" /\ PlaceOK(p) /\ HoldOK(p) /\ CallOK
      /\ call[p].beat = None /\ call[p].conn = None /\ lifecycle' = "closed"
      /\ UNCHANGED <<conn, beat, sock, loop, released>>
  BY <1>1, Typed DEF FinishLifecycle, ListenerInv, StructInv, Places, HoldOK, context,
                     Stopping, StopPc
<1>3. Moves(p, "returned")
  BY <1>1, <1>2, Values, GotoEffect DEF FinishLifecycle
<1>4. /\ \A q \in Call : q # p => call'[q] = call[q]
      /\ call'[p].conn = None /\ call'[p].pc = "returned" /\ call'[p].beat = None
  BY <1>2, <1>3 DEF Moves, Becomes
<1>5. PlaceOK(p)' /\ HoldOK(p)'
  BY <1>1, <1>4 DEF PlaceOK, HoldOK, StartPc, TakePc, StopPc, Stopping
<1>6. Inside(p) /\ ~Inside(p)' /\ Connless(p) /\ Beatless(p)
  BY <1>2, <1>4 DEF Inside, StartPc, StopPc, TakePc, Connless, Beatless, CleanPc
<1>7. conn' = None /\ beat' = None /\ released'
  BY <1>2, <1>6 DEF ListenerInv, StructInv, Phases
<1>8. ASSUME NEW q \in Starter
      PROVE  ~Inside(q)' /\ call'[q].pc # "finish"
  <2>1. CASE q = p
    BY <1>4, <1>6, <2>1
  <2>2. CASE q # p
    BY <1>4, <1>6, <2>2, OthersOut DEF ListenerInv, Inside, Call
  <2>. QED
    BY <2>1, <2>2
<1>9. OneRun' /\ Places'
  BY <1>1, <1>2, <1>4, <1>5, <1>8, PlacesKept DEF ListenerInv, StructInv, OneRun
<1>10. OneHeartbeat' /\ LoopOwned'
  BY <1>1, <1>2, <1>4, BeatsKept DEF ListenerInv
<1>11. ConnectionsOwned'
  <2>1. ASSUME NEW j \in Conn, NEW q \in Call, Owner(q, j)
        PROVE  Owner(q, j)'
    BY <1>2, <1>4, <2>1 DEF Owner, StopPc
  <2>. QED
    BY <1>2, <2>1 DEF ListenerInv, StructInv, ConnectionsOwned, Owner
<1>12. Phases'
  BY <1>2, <1>7, <1>8 DEF Phases
<1>. QED
  BY <1>9, <1>10, <1>11, <1>12 DEF StructInv

\* BeginStart.
LEMMA BeginStartKept ==
  ASSUME ListenerInv, NEW p \in Starter, BeginStart(p)
  PROVE  StructInv'
<1>1. p \in Call /\ p \notin Shut /\ p \notin Preparer \cup Checker
  BY Kinds
<1>2. call[p].pc = "idle" /\ PlaceOK(p) /\ HoldOK(p) /\ CallOK
      /\ call[p].beat = None /\ call[p].conn = None /\ call[p].then = "idle"
      /\ UNCHANGED <<conn, beat, sock, loop, released>>
  BY <1>1, Typed DEF BeginStart, ListenerInv, StructInv, Places, PlaceOK, HoldOK, context,
                     Stopping, StopPc
<1>3. \/ lifecycle # "new" /\ lifecycle' = lifecycle /\ Moves(p, "returned")
      \/ lifecycle = "new" /\ lifecycle' = "closed" /\ Moves(p, "returned")
      \/ lifecycle = "new" /\ lifecycle' = "running" /\ Moves(p, "begun")
  <2>1. Goto(p, "returned") => Moves(p, "returned")
    BY <1>1, <1>2, Values, GotoEffect
  <2>2. Goto(p, "begun") => Moves(p, "begun")
    BY <1>1, <1>2, Values, GotoEffect DEF StartPc
  <2>. QED
    BY <2>1, <2>2 DEF BeginStart
<1>4. /\ \A q \in Call : q # p => call'[q] = call[q]
      /\ call'[p].conn = None /\ call'[p].beat = None /\ call'[p].then = "idle"
      /\ call'[p].pc \in {"returned", "begun"}
      /\ \/ lifecycle # "new" /\ lifecycle' = lifecycle /\ call'[p].pc = "returned"
         \/ lifecycle = "new" /\ lifecycle' = "closed" /\ call'[p].pc = "returned"
         \/ lifecycle = "new" /\ lifecycle' = "running" /\ call'[p].pc = "begun"
  BY <1>2, <1>3 DEF Moves, Becomes
<1>5. PlaceOK(p)' /\ HoldOK(p)'
  BY <1>1, <1>4 DEF PlaceOK, HoldOK, StartPc, StopPc, Stopping
<1>6. ~Inside(p) /\ (Inside(p)' <=> call'[p].pc = "begun")
  BY <1>2, <1>4 DEF Inside, StartPc, StopPc, TakePc
<1>7. OneRun' /\ Places'
  <2>1. OneRun'
    <3>1. \A q \in Starter : q # p => (Inside(q)' <=> Inside(q))
      BY <1>4 DEF Call, Inside
    <3>. QED
      BY <1>4, <1>6, <3>1 DEF ListenerInv, StructInv, OneRun
  <2>. QED
    BY <1>1, <1>4, <1>5, <2>1, PlacesKept DEF ListenerInv, StructInv
<1>8. OneHeartbeat' /\ LoopOwned'
  BY <1>1, <1>2, <1>4, BeatsKept DEF ListenerInv
<1>9. ConnectionsOwned'
  <2>1. ASSUME NEW j \in Conn, NEW q \in Call, Owner(q, j)
        PROVE  Owner(q, j)'
    BY <1>2, <1>4, <2>1 DEF Owner, StopPc
  <2>. QED
    BY <1>2, <2>1 DEF ListenerInv, StructInv, ConnectionsOwned, Owner
<1>10. Phases'
  <2>1. ASSUME NEW q \in Starter, q # p
        PROVE  /\ Connless(q)' <=> Connless(q)
               /\ Beatless(q)' <=> Beatless(q)
               /\ Cleaned(q)' <=> Cleaned(q)
               /\ call'[q].pc = call[q].pc
    BY <1>4, <2>1 DEF Call, Connless, Beatless, Cleaned, Dialing, Stopping
  <2>2. ~Cleaned(p)' /\ call'[p].pc # "finish"
    BY <1>4 DEF Cleaned
  <2>3. Connless(p)' \/ Beatless(p)' => call'[p].pc = "begun"
    BY <1>4 DEF Connless, Beatless, Cleaned, Dialing, DialPc, CleanPc, Stopping, StopPc
  <2>4. call'[p].pc = "begun" => conn' = None /\ beat' = None
    BY <1>2, <1>4 DEF ListenerInv, StructInv, Phases
  <2>5. ASSUME NEW q \in Starter, q # p, Cleaned(q)
        PROVE  lifecycle' = "closed"
    <3>1. lifecycle = "closed"
      BY <2>5 DEF ListenerInv, StructInv, Phases
    <3>. QED
      BY <1>4, <3>1
  <2>6. lifecycle' # "new"
    BY <1>4
  <2>. QED
    BY <1>2, <2>1, <2>2, <2>3, <2>4, <2>5, <2>6 DEF ListenerInv, StructInv, Phases
<1>. QED
  BY <1>7, <1>8, <1>9, <1>10 DEF StructInv

\* BeginClose.
LEMMA BeginCloseKept ==
  ASSUME ListenerInv, NEW p \in Shut, BeginClose(p)
  PROVE  StructInv'
<1>1. p \in Call /\ p \notin Starter /\ p \notin Preparer \cup Checker
  BY Kinds
<1>2. call[p].pc = "idle" /\ PlaceOK(p) /\ HoldOK(p) /\ CallOK
      /\ call[p].beat = None /\ call[p].conn = None
      /\ UNCHANGED <<conn, beat, sock, loop, released>>
  BY <1>1, Typed DEF BeginClose, ListenerInv, StructInv, Places, HoldOK, context,
                     Stopping, StopPc
<1>3. Moves(p, "unlive")
  BY <1>1, <1>2, Values, GotoEffect DEF BeginClose, ClosePc
<1>4. /\ \A q \in Call : q # p => call'[q] = call[q]
      /\ call'[p].conn = None /\ call'[p].pc = "unlive" /\ call'[p].beat = None
  BY <1>2, <1>3 DEF Moves, Becomes
<1>5. PlaceOK(p)' /\ HoldOK(p)'
  BY <1>1, <1>4 DEF PlaceOK, HoldOK, ClosePc, StopPc, Stopping
<1>6. /\ lifecycle' # "new"
      /\ lifecycle \in {"running", "closing"} <=> lifecycle' \in {"running", "closing"}
      /\ lifecycle = "closed" => lifecycle' = "closed"
  BY DEF BeginClose, ListenerInv, TypeOK
<1>7. \A q \in Starter : call'[q] = call[q]
  BY <1>1, <1>4 DEF Call
<1>8. OneRun' /\ Places'
  <2>1. \A q \in Starter : Inside(q)' <=> Inside(q)
    BY <1>7 DEF Inside
  <2>2. OneRun'
    BY <1>6, <2>1 DEF ListenerInv, StructInv, OneRun
  <2>. QED
    BY <1>1, <1>4, <1>5, <2>2, PlacesKept DEF ListenerInv, StructInv
<1>9. OneHeartbeat' /\ LoopOwned'
  BY <1>1, <1>2, <1>4, BeatsKept DEF ListenerInv
<1>10. ConnectionsOwned'
  <2>1. ASSUME NEW j \in Conn, NEW q \in Call, Owner(q, j)
        PROVE  Owner(q, j)'
    BY <1>2, <1>4, <2>1 DEF Owner, StopPc
  <2>. QED
    BY <1>2, <2>1 DEF ListenerInv, StructInv, ConnectionsOwned, Owner
<1>11. Phases'
  <2>1. ASSUME NEW q \in Starter
        PROVE  /\ Connless(q)' <=> Connless(q)
               /\ Beatless(q)' <=> Beatless(q)
               /\ Cleaned(q)' <=> Cleaned(q)
               /\ call'[q].pc = call[q].pc
    BY <1>7, <2>1 DEF Connless, Beatless, Cleaned, Dialing, Stopping
  <2>. QED
    BY <1>2, <1>6, <2>1 DEF ListenerInv, StructInv, Phases
<1>. QED
  BY <1>8, <1>9, <1>10, <1>11 DEF StructInv

\* A step of a loop that changes only the loop.
LEMMA LoopKept ==
  ASSUME StructInv, NEW h \in Loop, loop[h].pc \notin {"done", "close"},
         \A g \in Loop : g # h => loop'[g] = loop[g],
         loop'[h].pc = "done" \/ loop'[h].stop = loop[h].stop,
         UNCHANGED <<lifecycle, conn, beat, sock, call, released>>
  PROVE  StructInv'
<1>1. OneRun' /\ Places'
  BY DEF StructInv, OneRun, Inside, Places, PlaceOK, HoldOK, Stopping
<1>2. ConnectionsOwned'
  BY DEF StructInv, ConnectionsOwned
<1>3. OneHeartbeat' /\ LoopOwned'
  BY DEF StructInv, OneHeartbeat, LoopOwned
<1>4. Phases'
  <2>1. lifecycle # "new"
    BY DEF StructInv, Phases
  <2>2. ASSUME NEW q \in Starter
        PROVE  /\ Connless(q)' <=> Connless(q)
               /\ Beatless(q)' <=> Beatless(q)
               /\ Cleaned(q)' <=> Cleaned(q)
    BY DEF Connless, Beatless, Cleaned, Dialing, Stopping
  <2>. QED
    BY <2>1, <2>2 DEF StructInv, Phases
<1>. QED
  BY <1>1, <1>2, <1>3, <1>4 DEF StructInv

\* BeatCheck, BeatSend, BeatWrite, BeatRefresh, BeatTick.
BeatMoves(h) == BeatCheck(h) \/ BeatSend(h) \/ BeatWrite(h) \/ BeatRefresh(h) \/ BeatTick(h)
\* They change one loop: it ends for a reason, or goes on for its connection.
LEMMA BeatMovesEffect ==
  ASSUME TypeOK, NEW h \in Loop, BeatMoves(h)
  PROVE  /\ loop[h].pc \in {"check", "send", "write", "refresh", "wait"}
         /\ UNCHANGED <<closing, status, failures, conn, beat, context, ready, sock, call>>
         /\ loop' \in [Loop -> LoopState]
         /\ \A g \in Loop : g # h => loop'[g] = loop[g]
         /\ \/ loop'[h].pc = "done" /\ (loop[h].stop \/ manualClose \/ ~isLive)
            \/ /\ loop'[h].pc \in {"check", "send", "write", "refresh", "wait", "fail"}
               /\ loop'[h].stop = loop[h].stop /\ loop'[h].of = loop[h].of
<1>. DEFINE Goes(pc, k) == BeatBecomes(h, pc, loop[h].stop, k, loop[h].of)
            Ends == BeatBecomes(h, "done", FALSE, None, None)
<1>1. LoopOK
  BY Typed
<1>2. /\ BeatEnds(h) => Ends
      /\ \A pc \in {"check", "send", "write", "refresh", "wait", "fail"} :
           BeatGoto(h, pc) => Goes(pc, loop[h].conn)
      /\ \A pc \in {"check", "send", "write", "refresh", "wait", "fail"},
            k \in Conn \cup {None} :
           BeatHold(h, k, pc) => Goes(pc, k)
  BY <1>1, BeatEndsEffect, BeatGotoEffect, BeatHoldEffect
<1>. HIDE DEF Goes, Ends
<1>3. \/ Ends /\ (loop[h].stop \/ manualClose \/ ~isLive)
      \/ \E pc \in {"check", "send", "write", "refresh", "wait", "fail"},
            k \in Conn \cup {None} : Goes(pc, k)
  <2>1. loop[h].conn \in Conn \cup {None} /\ conn \in Conn \cup {None}
        /\ None \in Conn \cup {None}
    BY <1>1 DEF LoopOK, LoopState, TypeOK
  <2>2. CASE BeatCheck(h)
    BY <1>2, <2>1, <2>2 DEF BeatCheck
  <2>3. CASE BeatSend(h)
    BY <1>2, <2>1, <2>3 DEF BeatSend
  <2>4. CASE BeatWrite(h)
    BY <1>2, <2>1, <2>4 DEF BeatWrite
  <2>5. CASE BeatRefresh(h)
    BY <1>2, <2>1, <2>5 DEF BeatRefresh
  <2>6. CASE BeatTick(h)
    BY <1>2, <2>1, <2>6 DEF BeatTick
  <2>. QED
    BY <2>2, <2>3, <2>4, <2>5, <2>6 DEF BeatMoves
<1>4. /\ loop[h].pc \in {"check", "send", "write", "refresh", "wait"}
      /\ UNCHANGED <<closing, status, failures, conn, beat, context, ready, sock, call>>
  BY DEF BeatMoves, BeatCheck, BeatSend, BeatWrite, BeatRefresh, BeatTick
<1>. QED
  BY <1>3, <1>4 DEF Goes, Ends, BeatBecomes

\* BeatFails, BeatClose and the upstream.
LEMMA BeatFailsEffect ==
  ASSUME TypeOK, NEW h \in Loop, BeatFails(h)
  PROVE  BeatBecomes(h, "close", loop[h].stop, conn, loop[h].of)
BY Typed, BeatHoldEffect DEF BeatFails, TypeOK

\* A heartbeat that fails takes dl.conn to close it.
LEMMA BeatFailsKept ==
  ASSUME ListenerInv, NEW h \in Loop, BeatFails(h)
  PROVE  StructInv'
<1>1. loop[h].pc = "fail" /\ conn' = None
      /\ UNCHANGED <<lifecycle, beat, sock, call, released>>
  BY DEF BeatFails, closing, context
<1>2. /\ \A g \in Loop : g # h => loop'[g] = loop[g]
      /\ loop'[h].pc = "close" /\ loop'[h].conn = conn /\ loop'[h].stop = loop[h].stop
  BY BeatFailsEffect DEF ListenerInv, BeatBecomes
<1>3. OneRun' /\ Places'
  BY <1>1 DEF ListenerInv, StructInv, OneRun, Inside, Places, PlaceOK, HoldOK, Stopping
<1>4. ConnectionsOwned'
  BY <1>1, <1>2 DEF ListenerInv, StructInv, ConnectionsOwned
<1>5. OneHeartbeat' /\ LoopOwned'
  BY <1>1, <1>2 DEF ListenerInv, StructInv, OneHeartbeat, LoopOwned
<1>6. Phases'
  <2>1. lifecycle # "new"
    BY <1>1 DEF ListenerInv, StructInv, Phases
  <2>2. ASSUME NEW q \in Starter
        PROVE  /\ Beatless(q)' <=> Beatless(q)
               /\ Cleaned(q)' <=> Cleaned(q)
    BY <1>1 DEF Beatless, Cleaned, Stopping
  <2>. QED
    BY <1>1, <2>1, <2>2 DEF ListenerInv, StructInv, Phases
<1>. QED
  BY <1>3, <1>4, <1>5, <1>6 DEF StructInv

\* It closes what it took, and ends.
LEMMA BeatCloseKept ==
  ASSUME ListenerInv, NEW h \in Loop, BeatClose(h)
  PROVE  StructInv'
<1>1. loop[h].pc = "close"
      /\ UNCHANGED <<lifecycle, conn, beat, call, released>>
  BY DEF BeatClose, closing, context
<1>2. /\ \A g \in Loop : g # h => loop'[g] = loop[g]
      /\ loop'[h].pc = "done"
  BY Typed, BeatEndsEffect DEF ListenerInv, BeatClose, BeatBecomes
<1>3. OneRun' /\ Places'
  BY <1>1 DEF ListenerInv, StructInv, OneRun, Inside, Places, PlaceOK, HoldOK, Stopping
<1>4. ConnectionsOwned'
  <2>1. ASSUME NEW k \in Conn, sock'[k] # "closed"
        PROVE  /\ sock[k] # "closed" /\ loop[h].conn # k
    <3>1. sock \in [Conn -> {"open", "cut", "closed"}]
      BY DEF ListenerInv, TypeOK
    <3>. QED
      BY <2>1, <3>1, NoneAssumption DEF BeatClose, CloseSocket
  <2>. QED
    BY <1>1, <1>2, <2>1 DEF ListenerInv, StructInv, ConnectionsOwned
<1>5. OneHeartbeat' /\ LoopOwned'
  BY <1>1, <1>2 DEF ListenerInv, StructInv, OneHeartbeat, LoopOwned
<1>6. Phases'
  <2>1. lifecycle # "new"
    BY <1>1 DEF ListenerInv, StructInv, Phases
  <2>2. ASSUME NEW q \in Starter
        PROVE  /\ Connless(q)' <=> Connless(q)
               /\ Beatless(q)' <=> Beatless(q)
               /\ Cleaned(q)' <=> Cleaned(q)
    BY <1>1 DEF Connless, Beatless, Cleaned, Dialing, Stopping
  <2>. QED
    BY <1>1, <2>1, <2>2 DEF ListenerInv, StructInv, Phases
<1>. QED
  BY <1>3, <1>4, <1>5, <1>6 DEF StructInv

\* The upstream drops a connection.
LEMMA CutKept ==
  ASSUME ListenerInv, NEW k \in Conn, Cut(k)
  PROVE  StructInv'
<1>1. /\ UNCHANGED <<lifecycle, conn, beat, loop, call, released>>
      /\ \A j \in Conn : sock'[j] # "closed" => sock[j] # "closed"
  BY DEF Cut, closing, context, ListenerInv, TypeOK
<1>2. OneRun' /\ Places' /\ OneHeartbeat' /\ LoopOwned'
  BY <1>1 DEF ListenerInv, StructInv, OneRun, Inside, Places, PlaceOK, HoldOK, Stopping,
              OneHeartbeat, LoopOwned
<1>3. ConnectionsOwned'
  BY <1>1 DEF ListenerInv, StructInv, ConnectionsOwned
<1>4. Phases'
  <2>2. ASSUME NEW q \in Starter
        PROVE  /\ Connless(q)' <=> Connless(q)
               /\ Beatless(q)' <=> Beatless(q)
               /\ Cleaned(q)' <=> Cleaned(q)
    BY <1>1 DEF Connless, Beatless, Cleaned, Dialing, Stopping
  <2>. QED
    BY <1>1, <2>2 DEF ListenerInv, StructInv, Phases
<1>. QED
  BY <1>2, <1>3, <1>4 DEF StructInv

-----------------------------------------------------------------------------
(***************************************************************************)
(* The steps of the listener that dials.                                   *)
(***************************************************************************)
\* What an attempt that fails comes to.
LEMMA ConnectFailedEffect ==
  ASSUME ListenerInv, NEW p \in Starter, NEW offline \in BOOLEAN,
         call[p].pc \in {"context", "refresh", "verdict", "url", "dial"},
         ConnectFailed(p, offline)
  PROVE  Fails(p)
<1>1. p \in Call /\ p \notin Preparer /\ CallOK
  BY Kinds, Typed DEF ListenerInv
<1>2. call[p].again \in BOOLEAN /\ call[p].tries \in 0 .. Attempts
  BY <1>1 DEF CallOK, CallState
<1>3. CASE call[p].again
  <2>1. call[p].tries < Attempts
    BY <1>3 DEF ListenerInv, Counts, CountsOf, DialPc
  <2>2. call[p].tries + 1 \in 0 .. Attempts
    BY <1>2, <2>1, BoundAssumption
  <2>3. Becomes(p, "attempt", call[p].then, call[p].conn, call[p].beat,
                call[p].again, call[p].tries + 1)
    BY <1>1, <1>3, <2>2, AttemptEffect DEF ConnectFailed
  <2>4. call[p].again = TRUE
    BY <1>2, <1>3
  <2>. QED
    BY <2>3, <2>4 DEF Fails
<1>4. CASE ~call[p].again /\ offline
  BY <1>1, <1>4, CleanupEffect DEF ConnectFailed, Fails
<1>5. CASE ~call[p].again /\ ~offline
  <2>1. "reconnect" \in Pc
    BY Values DEF StartPc
  <2>. QED
    BY <1>1, <1>5, <2>1, GotoEffect DEF ConnectFailed, Fails
<1>. QED
  BY <1>3, <1>4, <1>5

\* What a listener that dials writes has the right type.
LEMMA DialsTyped ==
  ASSUME NEW p \in Call, Dials(p)
  PROVE  call' \in [Call -> CallState]
BY DEF Dials, Fails, Moves, Cleans, Becomes

\* Each way a listener that dials goes on is one of Dials.
LEMMA DialGoes ==
  ASSUME ListenerInv, NEW p \in Starter
  PROVE  /\ \A pc \in {"context", "asking", "entering", "verdict", "url", "dial"} :
              Goto(p, pc) /\ call[p].pc # "attempt" => Dials(p)
         /\ Goto(p, "refresh") /\ call[p].tries < Attempts => Dials(p)
         /\ Cleanup(p) => Dials(p)
         /\ call[p].pc \in {"context", "refresh", "verdict", "url", "dial"} =>
              \A offline \in BOOLEAN : ConnectFailed(p, offline) => Dials(p)
<1>1. p \in Call /\ CallOK
  BY Kinds, Typed DEF ListenerInv
<1>2. {"context", "asking", "entering", "verdict", "url", "dial", "refresh"} \subseteq Pc
  BY Values DEF StartPc
<1>3. ASSUME NEW pc \in {"context", "asking", "entering", "verdict", "url", "dial"},
             Goto(p, pc), call[p].pc # "attempt"
      PROVE  Dials(p)
  BY <1>1, <1>2, <1>3, GotoEffect DEF Dials
<1>4. ASSUME Goto(p, "refresh"), call[p].tries < Attempts
      PROVE  Dials(p)
  BY <1>1, <1>2, <1>4, GotoEffect DEF Dials
<1>5. ASSUME Cleanup(p)
      PROVE  Dials(p)
  BY <1>1, <1>5, CleanupEffect DEF Dials, Fails
<1>6. ASSUME call[p].pc \in {"context", "refresh", "verdict", "url", "dial"},
             NEW offline \in BOOLEAN, ConnectFailed(p, offline)
      PROVE  Dials(p)
  BY <1>6, ConnectFailedEffect DEF Dials
<1>. QED
  BY <1>3, <1>4, <1>5, <1>6

\* The steps of this group.
DialMoves(p) ==
  \/ ReuseContext(p) \/ BeginPrepare(p) \/ PrepareAnswer(p) \/ PrepareFails(p)
  \/ PageAnswer(p) /\ call[p].pc = "asking"
  \/ Prepared(p) \/ BuildURL(p) \/ DialFails(p) \/ DialWithFallback(p)
  \/ CheckKnownOffline(p) \/ Attempt(p)

\* The steps of this group are steps of a listener that dials.
LEMMA DialMovesDial ==
  ASSUME ListenerInv, NEW p \in Starter, DialMoves(p)
  PROVE  Dials(p) /\ call[p].pc \in DialFrom
<1>1. p \in Call /\ p \notin Preparer /\ p \notin Checker /\ CallOK /\ PlaceOK(p)
  BY Kinds, Typed DEF ListenerInv, StructInv, Places
<1>2. FALSE \in BOOLEAN
  OBVIOUS
<1>3. CASE ReuseContext(p)
  BY <1>3, DialGoes DEF ReuseContext, DialFrom, DialPc
<1>4. CASE BeginPrepare(p)
  <2>1. call[p].pc \in {"context", "refresh"}
    BY <1>1, <1>4 DEF BeginPrepare
  <2>. QED
    BY <1>2, <1>4, <2>1, DialGoes DEF BeginPrepare, DialFrom, DialPc
<1>5. CASE PrepareAnswer(p)
  BY <1>5, DialGoes DEF PrepareAnswer, DialFrom, DialPc
<1>6. CASE PrepareFails(p)
  <2>1. KnownOffline \in BOOLEAN
    BY DEF KnownOffline, ListenerInv, TypeOK
  <2>. QED
    BY <1>2, <1>6, <2>1, DialGoes DEF PrepareFails, DialFrom, DialPc
<1>7. CASE PageAnswer(p) /\ call[p].pc = "asking"
  BY <1>7, DialGoes DEF PageAnswer, DialFrom, DialPc
<1>8. CASE Prepared(p)
  BY <1>1, <1>8, DialGoes DEF Prepared, DialFrom, DialPc
<1>9. CASE BuildURL(p)
  BY <1>2, <1>9, DialGoes DEF BuildURL, DialFrom, DialPc
<1>10. CASE DialFails(p)
  BY <1>2, <1>10, DialGoes DEF DialFails, DialFrom, DialPc
<1>11. CASE DialWithFallback(p)
  BY <1>11, DialGoes DEF DialWithFallback, DialFrom, DialPc
<1>12. CASE CheckKnownOffline(p)
  BY <1>12, DialGoes DEF CheckKnownOffline, DialFrom, DialPc
<1>13. CASE Attempt(p)
  <2>1. call[p].tries \in 0 .. Attempts
    BY <1>1 DEF CallOK, CallState
  <2>2. call[p].tries = Attempts \/ call[p].tries < Attempts
    BY <2>1, BoundAssumption
  <2>. QED
    BY <1>13, <2>2, DialGoes DEF Attempt, DialFrom, DialPc
<1>. QED
  BY <1>3, <1>4, <1>5, <1>6, <1>7, <1>8, <1>9, <1>10, <1>11, <1>12, <1>13 DEF DialMoves

\* What they do to the rest, whoever takes them.
LEMMA DialMovesFrame ==
  ASSUME TypeOK, NEW p \in Call, DialMoves(p)
  PROVE  /\ UNCHANGED <<closing, failures, conn, beat, released, ready, sock, loop>>
         /\ confirmations' \in {0, confirmations}
         /\ isLive' \in BOOLEAN /\ known' \in BOOLEAN
         /\ prepared' \in BOOLEAN /\ fallback' \in BOOLEAN
         /\ contextMu' \in Call \cup {None}
<1>. USE DEF TypeOK, status, context, closing
<1>1. CASE ReuseContext(p)
  BY <1>1 DEF ReuseContext
<1>2. CASE BeginPrepare(p)
  BY <1>2 DEF BeginPrepare
<1>3. CASE PrepareAnswer(p)
  BY <1>3 DEF PrepareAnswer, SetLiveStatus
<1>4. CASE PrepareFails(p)
  BY <1>4 DEF PrepareFails
<1>5. CASE PageAnswer(p)
  BY <1>5 DEF PageAnswer, SetLiveStatus
<1>6. CASE Prepared(p)
  BY <1>6 DEF Prepared
<1>7. CASE BuildURL(p)
  BY <1>7 DEF BuildURL
<1>8. CASE DialFails(p)
  BY <1>8 DEF DialFails
<1>9. CASE DialWithFallback(p)
  BY <1>9 DEF DialWithFallback
<1>10. CASE CheckKnownOffline(p)
  BY <1>10 DEF CheckKnownOffline
<1>11. CASE Attempt(p)
  BY <1>11 DEF Attempt
<1>. QED
  BY <1>1, <1>2, <1>3, <1>4, <1>5, <1>6, <1>7, <1>8, <1>9, <1>10, <1>11 DEF DialMoves

\* The steps of this group keep the invariant.
LEMMA DialMovesKept ==
  ASSUME ListenerInv, NEW p \in Starter, DialMoves(p)
  PROVE  ListenerInv'
<1>1. p \in Call
  BY Kinds
<1>2. /\ UNCHANGED <<closing, failures, conn, beat, released, ready, sock, loop>>
      /\ confirmations' \in {0, confirmations}
      /\ isLive' \in BOOLEAN /\ known' \in BOOLEAN
      /\ prepared' \in BOOLEAN /\ fallback' \in BOOLEAN
      /\ contextMu' \in Call \cup {None}
  BY <1>1, DialMovesFrame DEF ListenerInv
<1>3. Dials(p) /\ call[p].pc \in DialFrom
  BY DialMovesDial
<1>4. TypeOK'
  BY <1>1, <1>2, <1>3, DialsTyped DEF ListenerInv, TypeOK, closing
<1>. QED
  BY <1>2, <1>3, <1>4, DialKept DEF ListenerInv, Frame, closing

-----------------------------------------------------------------------------
(***************************************************************************)
(* The steps of the listener that reads.                                   *)
(***************************************************************************)
LEMMA ReadsTyped ==
  ASSUME NEW p \in Call, Reads(p)
  PROVE  call' \in [Call -> CallState]
BY DEF Reads, Becomes

\* Where a listener that reads can go on: it moves, takes or leaves the
\* connection it reads, ends its reconnection, starts its heartbeat, or stops.
ReadOn == ReadPc \ {"live", "ready"}

\* What a listener that reads writes has the right type.
LEMMA ReadValues ==
  ASSUME ListenerInv, NEW p \in Starter, call[p].pc \in ReadPc
  PROVE  /\ call[p].then \in Pc /\ call[p].conn \in Conn \cup {None}
         /\ call[p].again \in BOOLEAN /\ call[p].tries \in Nat
         /\ call[p].pc # "reading" => call[p].conn = None
         /\ ReadPc \subseteq Pc /\ "stopbeat" \in Pc /\ "unprepare" \in Pc
         /\ "beat" \in Pc /\ FALSE \in BOOLEAN /\ 0 \in Nat
         /\ None \in Conn \cup {None}
<1>1. p \in Call
  BY Kinds
<1>2. /\ call[p].then \in Pc /\ call[p].conn \in Conn \cup {None}
      /\ call[p].again \in BOOLEAN /\ call[p].tries \in Nat
  <2>1. call[p] \in CallState
    BY <1>1, Typed DEF ListenerInv, CallOK
  <2>. QED
    BY <2>1, BoundAssumption DEF CallState
<1>3. call[p].pc # "reading" => call[p].conn = None
  BY <1>1 DEF ListenerInv, StructInv, Places, HoldOK, ReadPc, Stopping, StopPc
<1>4. /\ ReadPc \subseteq Pc /\ "stopbeat" \in Pc /\ "unprepare" \in Pc /\ "beat" \in Pc
      /\ FALSE \in BOOLEAN /\ 0 \in Nat /\ None \in Conn \cup {None}
  BY Values DEF ReadPc, StartPc, StopPc
<1>. QED
  BY <1>2, <1>3, <1>4

\* It takes or leaves the connection it reads.
LEMMA ReadHolds ==
  ASSUME ListenerInv, NEW p \in Starter, call[p].pc \in ReadPc,
         NEW k \in Conn \cup {None}, NEW pc \in ReadOn, k # None => pc = "reading",
         Becomes(p, pc, call[p].then, k, call[p].beat, call[p].again, call[p].tries)
  PROVE  Reads(p)
BY ReadValues DEF Reads, ReadOn

\* It goes on.
LEMMA ReadGoes ==
  ASSUME ListenerInv, NEW p \in Starter, call[p].pc \in ReadPc \ {"reading"},
         NEW pc \in ReadOn, Moves(p, pc)
  PROVE  Reads(p)
BY ReadValues, ReadHolds DEF Moves

\* MarkLive takes it from live to ready.
LEMMA ReadReady ==
  ASSUME ListenerInv, NEW p \in Starter, call[p].pc = "live", Moves(p, "ready")
  PROVE  Reads(p)
<1>1. call[p].pc \in ReadPc /\ "ready" \in ReadPc
  BY DEF ReadPc
<1>2. Becomes(p, "ready", call[p].then, None, call[p].beat, call[p].again,
              call[p].tries)
  BY <1>1, ReadValues DEF Moves
<1>. QED
  BY <1>1, <1>2, ReadValues DEF Reads

\* It leaves a reconnection or a status check.
LEMMA ReadLeaves ==
  ASSUME ListenerInv, NEW p \in Starter, call[p].pc \in ReadPc \ {"reading"},
         NEW pc \in ReadOn,
         Becomes(p, pc, call[p].then, call[p].conn, call[p].beat, FALSE, 0)
  PROVE  Reads(p)
BY ReadValues DEF Reads, ReadOn

\* MarkReady takes it to the start of its heartbeat.
LEMMA ReadBeats ==
  ASSUME ListenerInv, NEW p \in Starter, call[p].pc = "ready",
         Becomes(p, "stopbeat", "beat", call[p].conn, call[p].beat, call[p].again,
                 call[p].tries)
  PROVE  Reads(p)
<1>1. call[p].pc \in ReadPc
  BY DEF ReadPc
<1>. QED
  BY <1>1, ReadValues DEF Reads

\* It ends its session.
LEMMA ReadCleans ==
  ASSUME ListenerInv, NEW p \in Starter, call[p].pc \in ReadPc \ {"reading"}, Cleans(p)
  PROVE  Reads(p)
BY ReadValues DEF Reads, Cleans

\* The counters of a listener that cleans up are of no account.
LEMMA CleansCounts ==
  ASSUME NEW p \in Call, Cleans(p)
  PROVE  CountsOf(p)'
BY DEF CountsOf, Cleans, Becomes, Cleaning, Stopping, StopPc, DialPc

\* A listener that reads has read its connection since it reset its counters.
LEMMA ReadCounts ==
  ASSUME ListenerInv, NEW p \in Starter, call[p].pc \in ReadPc
  PROVE  /\ Inside(p) /\ ~Cleaning(p) /\ ~Dialing(p) /\ CountsOf(p)
         /\ ~Stopping(p, "beat") /\ ~Stopping(p, "closeold")
         /\ call[p].again \in BOOLEAN
         /\ call[p].pc \notin {"live", "ready", "reset"} =>
              call[p].again = FALSE /\ call[p].tries = 0
         /\ call[p].pc \notin {"live", "ready", "decide", "delay", "reconnect"}
              => confirmations = 0
         /\ call[p].pc \notin {"live", "ready", "reset", "delay", "reconnect"}
              => failures = 0
<1>1. Inside(p) /\ ~Cleaning(p) /\ ~Dialing(p) /\ CountsOf(p)
      /\ ~Stopping(p, "beat") /\ ~Stopping(p, "closeold")
  BY DEF ListenerInv, Counts, Inside, Cleaning, Dialing, Stopping, ReadPc, DialPc,
         CleanPc, StopPc, StartPc
<1>2. call[p].again \in BOOLEAN
  BY Kinds, Typed DEF ListenerInv, CallOK, CallState
<1>3. call[p].pc \notin {"live", "ready", "reset"} =>
        call[p].again = FALSE /\ call[p].tries = 0
  BY <1>1, <1>2 DEF CountsOf, ReadPc
<1>. QED
  BY <1>1, <1>2, <1>3 DEF CountsOf

\* A listener that goes on reading keeps its counters.
LEMMA ReadGoesCounts ==
  ASSUME NEW p \in Call, call'[p].again = FALSE, call'[p].tries = 0,
         \/ call'[p].pc \in {"delay", "reconnect"}
         \/ call'[p].pc = "decide" /\ failures' = 0
         \/ failures' = 0 /\ confirmations' = 0
  PROVE  CountsOf(p)'
BY DEF CountsOf

\* The steps of this group.
ReadMoves(p) ==
  \/ MarkLive(p) \/ MarkReady(p) \/ ResetFailures(p)
  \/ ReadLoop(p) \/ ReadMessage(p) \/ ReadFails(p) \/ LiveEnds(p)
  \/ HandleReadError(p) \/ AskStatus(p) \/ StatusAnswer(p) \/ StatusFails(p)
  \/ PageAnswer(p) /\ call[p].pc # "asking"
  \/ Judge(p) \/ Decide(p) \/ WaitForDelay(p)
  \/ Reconnect(p) /\ manualClose

\* The steps of this group are steps of a listener that reads, and keep its
\* counters.
LEMMA ReadMovesRead ==
  ASSUME ListenerInv, NEW p \in Starter, ReadMoves(p)
  PROVE  /\ Reads(p) /\ call[p].pc \in ReadPc /\ CountsOf(p)'
         /\ failures' \in 0 .. 1 /\ confirmations' \in 0 .. 1
<1>1. p \in Call /\ CallOK
  BY Kinds, Typed DEF ListenerInv
<1>g. ASSUME NEW pc \in ReadPc, Goto(p, pc)
      PROVE  Moves(p, pc)
  BY <1>1, <1>g, Values, GotoEffect DEF StartPc, ReadPc
<1>h. ASSUME NEW pc \in ReadPc, NEW k \in Conn \cup {None}, Hold(p, k, pc)
      PROVE  Becomes(p, pc, call[p].then, k, call[p].beat, call[p].again, call[p].tries)
  BY <1>1, <1>h, Values, HoldEffect DEF StartPc, ReadPc
<1>l. ASSUME NEW pc \in ReadPc, Leave(p, pc)
      PROVE  Becomes(p, pc, call[p].then, call[p].conn, call[p].beat, FALSE, 0)
  BY <1>1, <1>l, Values, LeaveEffect DEF StartPc, ReadPc
<1>c. ASSUME Cleanup(p)
      PROVE  Cleans(p) /\ CountsOf(p)'
  BY <1>1, <1>c, CleanupEffect, CleansCounts
<1>r. /\ {"reset", "read", "reading", "ending", "readerror", "ask", "asked", "paged",
          "judge", "decide", "delay", "reconnect"} \subseteq ReadOn
      /\ {"live", "ready"} \subseteq ReadPc /\ ReadOn \subseteq ReadPc
  BY DEF ReadOn, ReadPc
<1>3. /\ conn \in Conn \cup {None} /\ None \in Conn \cup {None}
      /\ failures \in 0 .. 1 /\ confirmations \in 0 .. 1
      /\ 0 \in 0 .. 1 /\ 1 \in 0 .. 1
  BY DEF ListenerInv, TypeOK
<1>4. CASE MarkLive(p)
  <2>1. call[p].pc = "live" /\ Moves(p, "ready") /\ UNCHANGED failures
        /\ confirmations' = 0
    BY <1>g, <1>r, <1>4 DEF MarkLive, SetLiveStatus
  <2>8. call[p].pc \in ReadPc \ {"reading"}
    BY <2>1 DEF ReadPc, ReadOn
  <2>2. CountsOf(p)'
    <3>1. call'[p].pc = "ready" /\ call'[p].again = call[p].again
          /\ call'[p].tries = call[p].tries
      BY <2>1 DEF Moves, Becomes
    <3>2. call[p].again = FALSE => call[p].tries = 0 /\ failures = 0
      BY <2>1, <2>8, ReadCounts DEF CountsOf
    <3>. QED
      BY <2>1, <2>8, <3>1, <3>2, ReadCounts DEF CountsOf, DialPc
  <2>9. call[p].pc \in ReadPc /\ Reads(p)
    BY <1>3, <2>1, <2>8, ReadReady
  <2>. QED
    BY <1>3, <2>1, <2>2, <2>9
<1>5. CASE MarkReady(p)
  <2>1. call[p].pc = "ready" /\ UNCHANGED <<failures, confirmations>>
        /\ Becomes(p, "stopbeat", "beat", call[p].conn, call[p].beat, call[p].again,
                   call[p].tries)
    <3>1. "beat" \in Pc
      BY Values DEF StartPc
    <3>. QED
      BY <1>1, <1>5, <3>1, StopThenEffect DEF MarkReady, status
  <2>8. call[p].pc \in ReadPc \ {"reading"}
    BY <2>1 DEF ReadPc, ReadOn
  <2>2. CountsOf(p)'
    <3>1. Stopping(p, "beat")' /\ call'[p].pc = "stopbeat"
          /\ call'[p].again = call[p].again /\ call'[p].tries = call[p].tries
      BY <2>1 DEF Becomes, Stopping, StopPc
    <3>. QED
      BY <2>1, <3>1, <2>8, ReadCounts DEF CountsOf, DialPc, Cleaning, CleanPc
  <2>9. call[p].pc \in ReadPc /\ Reads(p)
    BY <1>3, <2>1, <2>8, ReadBeats
  <2>. QED
    BY <1>3, <2>1, <2>2, <2>9
<1>6. CASE ResetFailures(p)
  <2>1. call[p].pc = "reset" /\ failures' = 0 /\ UNCHANGED confirmations
        /\ Becomes(p, "read", call[p].then, call[p].conn, call[p].beat, FALSE, 0)
    BY <1>l, <1>r, <1>6 DEF ResetFailures, status
  <2>8. call[p].pc \in ReadPc \ {"reading"} /\ "read" \in ReadOn
    BY <2>1 DEF ReadPc, ReadOn
  <2>7. confirmations = 0
    BY <2>1, <2>8, ReadCounts
  <2>2. CountsOf(p)'
    <3>1. call'[p].again = FALSE /\ call'[p].tries = 0 /\ call'[p].pc = "read"
      BY <2>1 DEF Becomes
    <3>. QED
      BY <1>1, <2>1, <3>1, <2>7, ReadGoesCounts
  <2>9. call[p].pc \in ReadPc /\ Reads(p)
    BY <1>3, <2>1, <2>8, ReadLeaves
  <2>. QED
    BY <1>3, <2>1, <2>2, <2>9
<1>7. CASE ReadLoop(p)
  <2>1. call[p].pc = "read" /\ UNCHANGED <<failures, confirmations>>
        /\ \/ Becomes(p, "reading", call[p].then, conn, call[p].beat, call[p].again,
                      call[p].tries)
           \/ Cleans(p) /\ CountsOf(p)'
    BY <1>h, <1>c, <1>r, <1>3, <1>7 DEF ReadLoop, status
  <2>8. call[p].pc \in ReadPc \ {"reading"} /\ "reading" \in ReadOn
    BY <2>1 DEF ReadPc, ReadOn
  <2>7. call[p].again = FALSE /\ call[p].tries = 0 /\ failures = 0 /\ confirmations = 0
    BY <2>1, <2>8, ReadCounts
  <2>2. CountsOf(p)'
    <3>1. CASE Becomes(p, "reading", call[p].then, conn, call[p].beat, call[p].again,
                       call[p].tries)
      BY <1>1, <2>1, <3>1, <2>7, ReadGoesCounts DEF Becomes
    <3>. QED
      BY <2>1, <3>1
  <2>9. call[p].pc \in ReadPc /\ Reads(p)
    BY <1>3, <2>1, <2>8, ReadHolds, ReadCleans
  <2>. QED
    BY <1>3, <2>1, <2>2, <2>9
<1>8. CASE ReadMessage(p)
  <2>1. call[p].pc = "reading" /\ UNCHANGED <<failures, confirmations>>
        /\ \E pc \in {"read", "ending"} :
             Becomes(p, pc, call[p].then, None, call[p].beat, call[p].again,
                     call[p].tries)
    BY <1>h, <1>r, <1>3, <1>8 DEF ReadMessage, status
  <2>8. call[p].pc \in ReadPc /\ "read" \in ReadOn /\ "ending" \in ReadOn
    BY <2>1 DEF ReadPc, ReadOn
  <2>7. call[p].again = FALSE /\ call[p].tries = 0 /\ failures = 0 /\ confirmations = 0
    BY <2>1, <2>8, ReadCounts
  <2>2. CountsOf(p)'
    BY <1>1, <2>1, <2>7, ReadGoesCounts DEF Becomes
  <2>9. call[p].pc \in ReadPc /\ Reads(p)
    BY <1>3, <2>1, <2>8, ReadHolds
  <2>. QED
    BY <1>3, <2>1, <2>2, <2>9
<1>9. CASE ReadFails(p)
  <2>1. call[p].pc = "reading" /\ UNCHANGED <<failures, confirmations>>
        /\ Becomes(p, "readerror", call[p].then, None, call[p].beat, call[p].again,
                   call[p].tries)
    BY <1>1, <1>9, ReadErrorEffect DEF ReadFails, status
  <2>8. call[p].pc \in ReadPc /\ "readerror" \in ReadOn
    BY <2>1 DEF ReadPc, ReadOn
  <2>7. call[p].again = FALSE /\ call[p].tries = 0 /\ failures = 0 /\ confirmations = 0
    BY <2>1, <2>8, ReadCounts
  <2>2. CountsOf(p)'
    BY <1>1, <2>1, <2>7, ReadGoesCounts DEF Becomes
  <2>9. call[p].pc \in ReadPc /\ Reads(p)
    BY <1>3, <2>1, <2>8, ReadHolds
  <2>. QED
    BY <1>3, <2>1, <2>2, <2>9
<1>10. CASE LiveEnds(p)
  <2>1. call[p].pc = "ending" /\ UNCHANGED failures
        /\ confirmations' \in {0, confirmations} /\ Moves(p, "read")
    BY <1>g, <1>r, <1>10 DEF LiveEnds, SetLiveStatus, status
  <2>8. call[p].pc \in ReadPc \ {"reading"} /\ "read" \in ReadOn
    BY <2>1 DEF ReadPc, ReadOn
  <2>7. call[p].again = FALSE /\ call[p].tries = 0 /\ failures = 0 /\ confirmations = 0
    BY <2>1, <2>8, ReadCounts
  <2>2. CountsOf(p)'
    BY <1>1, <2>1, <2>7, ReadGoesCounts DEF Moves, Becomes
  <2>9. call[p].pc \in ReadPc /\ Reads(p)
    BY <1>3, <2>1, <2>8, ReadGoes
  <2>. QED
    BY <1>3, <2>1, <2>2, <2>9
<1>11. CASE HandleReadError(p)
  <2>1. call[p].pc = "readerror" /\ UNCHANGED <<failures, confirmations>>
        /\ (Moves(p, "ask") \/ (Cleans(p) /\ CountsOf(p)'))
    <3>1. "ask" \in ReadPc
      BY DEF ReadPc
    <3>2. Goto(p, "ask") \/ Cleanup(p)
      BY <1>11 DEF HandleReadError
    <3>. QED
      <4>1. CASE Goto(p, "ask")
        <5>1. Moves(p, "ask")
          BY <1>g, <3>1, <4>1
        <5>. QED
          BY <1>11, <5>1 DEF HandleReadError, status
      <4>2. CASE Cleanup(p)
        BY <1>c, <1>11, <4>2 DEF HandleReadError, status
      <4>. QED
        BY <3>2, <4>1, <4>2
  <2>8. call[p].pc \in ReadPc \ {"reading"} /\ "ask" \in ReadOn
    BY <2>1 DEF ReadPc, ReadOn
  <2>7. call[p].again = FALSE /\ call[p].tries = 0 /\ failures = 0 /\ confirmations = 0
    BY <2>1, <2>8, ReadCounts
  <2>2. CountsOf(p)'
    <3>1. CASE Moves(p, "ask")
      BY <1>1, <2>1, <3>1, <2>7, ReadGoesCounts DEF Moves, Becomes
    <3>. QED
      BY <2>1, <3>1
  <2>9. call[p].pc \in ReadPc /\ Reads(p)
    BY <1>3, <2>1, <2>8, ReadGoes, ReadCleans
  <2>. QED
    BY <1>3, <2>1, <2>2, <2>9
<1>12. CASE AskStatus(p)
  <2>1. call[p].pc = "ask" /\ UNCHANGED <<failures, confirmations>>
        /\ \E pc \in {"asked", "decide"} : Moves(p, pc)
    BY <1>g, <1>r, <1>12 DEF AskStatus, status
  <2>8. call[p].pc \in ReadPc \ {"reading"} /\ "asked" \in ReadOn /\ "decide" \in ReadOn
    BY <2>1 DEF ReadPc, ReadOn
  <2>7. call[p].again = FALSE /\ call[p].tries = 0 /\ failures = 0 /\ confirmations = 0
    BY <2>1, <2>8, ReadCounts
  <2>2. CountsOf(p)'
    BY <1>1, <2>1, <2>7, ReadGoesCounts DEF Moves, Becomes
  <2>9. call[p].pc \in ReadPc /\ Reads(p)
    BY <1>3, <2>1, <2>8, ReadGoes
  <2>. QED
    BY <1>3, <2>1, <2>2, <2>9
<1>13. CASE StatusAnswer(p)
  <2>1. call[p].pc \in {"asked", "paged"} /\ UNCHANGED failures
        /\ confirmations' \in {0, confirmations} /\ Moves(p, "judge")
    <3>1. "judge" \in Pc
      BY Values DEF StartPc
    <3>2. \E live \in BOOLEAN :
            call' = [call EXCEPT ![p] = [@ EXCEPT !.answer = live, !.pc = "judge"]]
      BY <1>13 DEF StatusAnswer
    <3>3. Moves(p, "judge")
      BY <1>1, <3>1, <3>2, AnswerEffect
    <3>. QED
      BY <1>13, <3>3 DEF StatusAnswer, SetLiveStatus
  <2>8. call[p].pc \in ReadPc \ {"reading"} /\ "judge" \in ReadOn
    BY <2>1 DEF ReadPc, ReadOn
  <2>7. call[p].again = FALSE /\ call[p].tries = 0 /\ failures = 0 /\ confirmations = 0
    BY <2>1, <2>8, ReadCounts
  <2>2. CountsOf(p)'
    BY <1>1, <2>1, <2>7, ReadGoesCounts DEF Moves, Becomes
  <2>9. call[p].pc \in ReadPc /\ Reads(p)
    BY <1>3, <2>1, <2>8, ReadGoes
  <2>. QED
    BY <1>3, <2>1, <2>2, <2>9
<1>14. CASE StatusFails(p)
  <2>1. call[p].pc \in {"asked", "paged"} /\ UNCHANGED <<failures, confirmations>>
        /\ Moves(p, "decide")
    BY <1>g, <1>r, <1>14 DEF StatusFails, status
  <2>8. call[p].pc \in ReadPc \ {"reading"} /\ "decide" \in ReadOn
    BY <2>1 DEF ReadPc, ReadOn
  <2>7. call[p].again = FALSE /\ call[p].tries = 0 /\ failures = 0 /\ confirmations = 0
    BY <2>1, <2>8, ReadCounts
  <2>2. CountsOf(p)'
    BY <1>1, <2>1, <2>7, ReadGoesCounts DEF Moves, Becomes
  <2>9. call[p].pc \in ReadPc /\ Reads(p)
    BY <1>3, <2>1, <2>8, ReadGoes
  <2>. QED
    BY <1>3, <2>1, <2>2, <2>9
<1>15. CASE PageAnswer(p) /\ call[p].pc # "asking"
  <2>1. call[p].pc = "asked" /\ UNCHANGED failures
        /\ confirmations' \in {0, confirmations} /\ Moves(p, "paged")
    BY <1>g, <1>r, <1>15 DEF PageAnswer, SetLiveStatus
  <2>8. call[p].pc \in ReadPc \ {"reading"} /\ "paged" \in ReadOn
    BY <2>1 DEF ReadPc, ReadOn
  <2>7. call[p].again = FALSE /\ call[p].tries = 0 /\ failures = 0 /\ confirmations = 0
    BY <2>1, <2>8, ReadCounts
  <2>2. CountsOf(p)'
    BY <1>1, <2>1, <2>7, ReadGoesCounts DEF Moves, Becomes
  <2>9. call[p].pc \in ReadPc /\ Reads(p)
    BY <1>3, <2>1, <2>8, ReadGoes
  <2>. QED
    BY <1>3, <2>1, <2>2, <2>9
<1>16. CASE Judge(p)
  <2>1. call[p].pc = "judge" /\ UNCHANGED failures
    BY <1>16 DEF Judge
  <2>8. call[p].pc \in ReadPc \ {"reading"} /\ "decide" \in ReadOn
    BY <2>1 DEF ReadPc, ReadOn
  <2>2. confirmations = 0 /\ failures = 0 /\ call[p].again = FALSE /\ call[p].tries = 0
    BY <2>1, <2>8, ReadCounts
  <2>3. confirmations' \in 0 .. 1 /\ Moves(p, "decide")
    BY <1>g, <1>c, <1>r, <1>3, <1>16, <2>2 DEF Judge
  <2>4. CountsOf(p)'
    BY <1>1, <2>1, <2>2, <2>3, ReadGoesCounts DEF Moves, Becomes
  <2>9. call[p].pc \in ReadPc /\ Reads(p)
    BY <1>3, <2>1, <2>8, <2>3, ReadGoes
  <2>. QED
    BY <1>3, <2>1, <2>3, <2>4, <2>9
<1>17. CASE Decide(p)
  <2>1. call[p].pc = "decide" /\ UNCHANGED confirmations
    BY <1>17 DEF Decide, status
  <2>8. call[p].pc \in ReadPc \ {"reading"} /\ "delay" \in ReadOn
    BY <2>1 DEF ReadPc, ReadOn
  <2>2. failures = 0
    BY <2>1, <2>8, ReadCounts
  <2>3. \/ Cleans(p) /\ CountsOf(p)' /\ failures' = 0
        \/ /\ failures' = 1
           /\ Becomes(p, "delay", call[p].then, call[p].conn, call[p].beat, FALSE, 0)
    <3>1. "delay" \in ReadPc
      BY DEF ReadPc
    <3>2. CASE manualClose \/ ~call[p].retry
      <4>1. Cleanup(p) /\ failures' = failures
        BY <1>17, <3>2 DEF Decide
      <4>. QED
        BY <1>c, <2>2, <4>1
    <3>3. CASE ~(manualClose \/ ~call[p].retry)
      <4>1. Leave(p, "delay") /\ failures' = failures + 1
        BY <1>17, <3>3 DEF Decide
      <4>2. Becomes(p, "delay", call[p].then, call[p].conn, call[p].beat, FALSE, 0)
        BY <1>l, <3>1, <4>1
      <4>3. failures' = 1
        BY <2>2, <4>1
      <4>. QED
        BY <4>2, <4>3
    <3>. QED
      BY <3>2, <3>3
  <2>4. CountsOf(p)'
    <3>1. CASE Becomes(p, "delay", call[p].then, call[p].conn, call[p].beat, FALSE, 0)
      BY <1>1, <3>1, ReadGoesCounts DEF Becomes
    <3>. QED
      BY <2>3, <3>1
  <2>9. call[p].pc \in ReadPc /\ Reads(p)
    BY <1>3, <2>1, <2>8, <2>3, ReadLeaves, ReadCleans
  <2>. QED
    BY <1>3, <2>1, <2>3, <2>4, <2>9
<1>18. CASE WaitForDelay(p)
  <2>1. call[p].pc = "delay" /\ UNCHANGED <<failures, confirmations>>
        /\ (Moves(p, "reconnect") \/ (Cleans(p) /\ CountsOf(p)'))
    <3>1. "reconnect" \in ReadPc
      BY DEF ReadPc
    <3>2. Goto(p, "reconnect") \/ Cleanup(p)
      BY <1>18 DEF WaitForDelay
    <3>. QED
      <4>1. CASE Goto(p, "reconnect")
        <5>1. Moves(p, "reconnect")
          BY <1>g, <3>1, <4>1
        <5>. QED
          BY <1>18, <5>1 DEF WaitForDelay, status
      <4>2. CASE Cleanup(p)
        BY <1>c, <1>18, <4>2 DEF WaitForDelay, status
      <4>. QED
        BY <3>2, <4>1, <4>2
  <2>8. call[p].pc \in ReadPc \ {"reading"} /\ "reconnect" \in ReadOn
    BY <2>1 DEF ReadPc, ReadOn
  <2>7. call[p].again = FALSE /\ call[p].tries = 0
    BY <2>1, <2>8, ReadCounts
  <2>2. CountsOf(p)'
    <3>1. CASE Moves(p, "reconnect")
      BY <1>1, <2>1, <3>1, <2>7, ReadGoesCounts DEF Moves, Becomes
    <3>. QED
      BY <2>1, <3>1
  <2>9. call[p].pc \in ReadPc /\ Reads(p)
    BY <1>3, <2>1, <2>8, ReadGoes, ReadCleans
  <2>. QED
    BY <1>3, <2>1, <2>2, <2>9
<1>19. CASE Reconnect(p) /\ manualClose
  <2>1. call[p].pc = "reconnect" /\ UNCHANGED <<failures, confirmations>>
        /\ Cleans(p) /\ CountsOf(p)'
    BY <1>c, <1>19 DEF Reconnect, status
  <2>8. call[p].pc \in ReadPc \ {"reading"}
    BY <2>1 DEF ReadPc, ReadOn
  <2>9. call[p].pc \in ReadPc /\ Reads(p)
    BY <1>3, <2>1, <2>8, ReadCleans
  <2>. QED
    BY <1>3, <2>1, <2>9
<1>. QED
  BY <1>4, <1>5, <1>6, <1>7, <1>8, <1>9, <1>10, <1>11, <1>12, <1>13, <1>14, <1>15,
     <1>16, <1>17, <1>18, <1>19 DEF ReadMoves

\* What they do to the rest, whoever takes them.
LEMMA ReadMovesFrame ==
  ASSUME TypeOK, NEW p \in Call, ReadMoves(p)
  PROVE  /\ UNCHANGED <<closing, beat, conn, prepared, released, fallback, sock, loop>>
         /\ isLive' \in BOOLEAN /\ known' \in BOOLEAN /\ ready' \in BOOLEAN
         /\ contextMu' \in Call \cup {None}
<1>. USE DEF TypeOK, status, context, closing
<1>1. CASE MarkLive(p) \/ MarkReady(p) \/ ResetFailures(p) \/ ReadLoop(p)
  BY <1>1 DEF MarkLive, MarkReady, ResetFailures, ReadLoop, SetLiveStatus
<1>2. CASE ReadMessage(p) \/ ReadFails(p) \/ LiveEnds(p) \/ HandleReadError(p)
  BY <1>2 DEF ReadMessage, ReadFails, LiveEnds, HandleReadError, SetLiveStatus
<1>3. CASE AskStatus(p) \/ StatusAnswer(p) \/ StatusFails(p) \/ PageAnswer(p)
  BY <1>3 DEF AskStatus, StatusAnswer, StatusFails, PageAnswer, SetLiveStatus
<1>4. CASE Judge(p) \/ Decide(p) \/ WaitForDelay(p) \/ (Reconnect(p) /\ manualClose)
  BY <1>4 DEF Judge, Decide, WaitForDelay, Reconnect
<1>. QED
  BY <1>1, <1>2, <1>3, <1>4 DEF ReadMoves

\* The steps of this group keep the invariant.
LEMMA ReadMovesKept ==
  ASSUME ListenerInv, NEW p \in Starter, ReadMoves(p)
  PROVE  ListenerInv'
<1>1. p \in Call
  BY Kinds
<1>2. /\ UNCHANGED <<closing, beat, conn, prepared, released, fallback, sock, loop>>
      /\ isLive' \in BOOLEAN /\ known' \in BOOLEAN /\ ready' \in BOOLEAN
      /\ contextMu' \in Call \cup {None}
  BY <1>1, ReadMovesFrame DEF ListenerInv
<1>3. /\ Reads(p) /\ call[p].pc \in ReadPc /\ CountsOf(p)'
      /\ failures' \in 0 .. 1 /\ confirmations' \in 0 .. 1
  BY ReadMovesRead
<1>4. TypeOK'
  BY <1>1, <1>2, <1>3, ReadsTyped DEF ListenerInv, TypeOK, closing
<1>5. StructInv'
  BY <1>2, <1>3, ReadKept DEF ListenerInv, Frame, closing
<1>6. Counts'
  <2>1. /\ \A q \in Call : q # p => call'[q] = call[q]
        /\ Inside(p)
    BY <1>3, ReadCounts DEF Reads, Becomes
  <2>. QED
    BY <1>1, <1>2, <1>3, <2>1, CountsKept DEF ListenerInv, closing
<1>. QED
  BY <1>4, <1>5, <1>6 DEF ListenerInv

-----------------------------------------------------------------------------
(***************************************************************************)
(* The steps of the other calls.                                           *)
(***************************************************************************)
LEMMA OthersTyped ==
  ASSUME NEW p \in Call, Others(p)
  PROVE  call' \in [Call -> CallState]
BY DEF Others, Becomes

\* A step of another call keeps the structure and the counters.
LEMMA OthersKept ==
  ASSUME ListenerInv, NEW p \in Call \ Starter, call[p].pc \in {"idle"} \cup OtherPc,
         Frame, Others(p), failures' = failures, confirmations' \in {0, confirmations}
  PROVE  StructInv' /\ Counts'
<1>1. \A q \in Call : q # p => call'[q] = call[q]
  BY DEF Others, Becomes
<1>. QED
  BY <1>1, OtherKept, CountsKept DEF ListenerInv, Frame

\* Where a call of PrepareWebSocketContext or CheckLiveStatus can go on.
LEMMA AskGoes ==
  ASSUME ListenerInv, NEW p \in Preparer \cup Checker, NEW pc \in AskPc \cup {"returned"},
         \/ Moves(p, pc)
         \/ Becomes(p, pc, call[p].then, call[p].conn, call[p].beat, FALSE, 0)
  PROVE  Others(p)
<1>1. p \in Call /\ p \notin Shut
  BY Kinds
<1>2. call[p].then \in Pc /\ call[p].again \in BOOLEAN /\ call[p].tries \in Nat
  <2>1. call[p] \in CallState
    BY <1>1, Typed DEF ListenerInv, CallOK
  <2>. QED
    BY <2>1, BoundAssumption DEF CallState
<1>3. pc \in Pc /\ pc # "idle" /\ FALSE \in BOOLEAN /\ 0 \in Nat
  BY DEF AskPc, Pc, StartPc
<1>. QED
  BY <1>1, <1>2, <1>3 DEF Others, Moves

\* The steps of PrepareWebSocketContext.
LEMMA PreparerGoes ==
  ASSUME ListenerInv, NEW p \in Preparer, PrepareStep(p), ~PageAnswer(p)
  PROVE  Others(p) /\ call[p].pc \in {"idle"} \cup OtherPc
<1>1. p \in Call \ Starter /\ p \in Preparer \cup Checker /\ CallOK /\ PlaceOK(p)
  BY Kinds, Typed DEF ListenerInv, StructInv, Places
<1>2. /\ call[p].pc \in {"idle", "entering", "verdict"}
      /\ \E pc \in {"asking", "verdict", "returned"} : Goto(p, pc)
  <2>1. CASE BeginPrepare(p)
    BY <1>1, <2>1 DEF BeginPrepare, ConnectFailed, PlaceOK, AskPc
  <2>2. CASE PrepareAnswer(p)
    BY <2>2 DEF PrepareAnswer
  <2>3. CASE PrepareFails(p)
    BY <2>3 DEF PrepareFails, ConnectFailed
  <2>4. CASE Prepared(p)
    BY <2>4 DEF Prepared
  <2>. QED
    BY <2>1, <2>2, <2>3, <2>4 DEF PrepareStep
<1>3. PICK pc \in {"asking", "verdict", "returned"} : Goto(p, pc)
  BY <1>2
<1>4. pc \in Pc /\ pc \in AskPc \cup {"returned"}
  BY Values DEF StartPc, AskPc
<1>5. Moves(p, pc)
  BY <1>1, <1>3, <1>4, GotoEffect
<1>. QED
  BY <1>1, <1>2, <1>4, <1>5, AskGoes DEF OtherPc, AskPc

LEMMA PreparerKept ==
  ASSUME ListenerInv, NEW p \in Preparer, PrepareStep(p), ~PageAnswer(p)
  PROVE  ListenerInv'
<1>1. p \in Call \ Starter
  BY Kinds
<1>2. DialMoves(p)
  BY DEF PrepareStep, DialMoves
<1>3. /\ UNCHANGED <<closing, failures, conn, beat, released, ready, sock, loop>>
      /\ confirmations' \in {0, confirmations}
      /\ isLive' \in BOOLEAN /\ known' \in BOOLEAN
      /\ prepared' \in BOOLEAN /\ fallback' \in BOOLEAN
      /\ contextMu' \in Call \cup {None}
  BY <1>1, <1>2, DialMovesFrame DEF ListenerInv
<1>4. Others(p) /\ call[p].pc \in {"idle"} \cup OtherPc
  BY PreparerGoes
<1>5. TypeOK'
  BY <1>1, <1>3, <1>4, OthersTyped DEF ListenerInv, TypeOK, closing
<1>. QED
  BY <1>1, <1>3, <1>4, <1>5, OthersKept DEF ListenerInv, Frame, closing

\* The steps of CheckLiveStatus, and the page's answer to both.
LEMMA CheckerGoes ==
  ASSUME ListenerInv, NEW p \in Preparer \cup Checker, StatusStep(p) \/ SaveStatus(p)
  PROVE  Others(p) /\ call[p].pc \in {"idle"} \cup OtherPc
<1>1. p \in Call /\ p \notin Starter /\ CallOK
  BY Kinds, Typed DEF ListenerInv
<1>2. {"asked", "entering", "paged", "report", "returned"} \subseteq Pc
  BY Values DEF AskPc, StartPc
<1>3. /\ call[p].pc \in {"idle", "asking", "asked", "paged", "report"}
      /\ \E pc \in {"asked", "entering", "paged", "report", "returned"} :
           \/ Moves(p, pc)
           \/ Becomes(p, pc, call[p].then, call[p].conn, call[p].beat, FALSE, 0)
  <2>1. CASE AskStatus(p)
    BY <1>1, <1>2, <2>1, GotoEffect DEF AskStatus
  <2>2. CASE PageAnswer(p)
    BY <1>1, <1>2, <2>2, GotoEffect DEF PageAnswer
  <2>3. CASE StatusAnswer(p)
    <3>1. PICK live \in BOOLEAN :
            call' = [call EXCEPT ![p] = [@ EXCEPT !.answer = live, !.pc = "report"]]
      BY <1>1, <2>3 DEF StatusAnswer
    <3>2. Moves(p, "report")
      BY <1>1, <1>2, <3>1, AnswerEffect
    <3>. QED
      BY <2>3, <3>2 DEF StatusAnswer
  <2>4. CASE StatusFails(p)
    BY <1>1, <1>2, <2>4, GotoEffect DEF StatusFails
  <2>5. CASE SaveStatus(p)
    BY <1>1, <1>2, <2>5, LeaveEffect DEF SaveStatus
  <2>. QED
    BY <2>1, <2>2, <2>3, <2>4, <2>5 DEF StatusStep
<1>4. PICK pc \in {"asked", "entering", "paged", "report", "returned"} :
         \/ Moves(p, pc)
         \/ Becomes(p, pc, call[p].then, call[p].conn, call[p].beat, FALSE, 0)
  BY <1>3
<1>5. pc \in AskPc \cup {"returned"}
  BY DEF AskPc
<1>. QED
  BY <1>3, <1>4, <1>5, AskGoes DEF OtherPc, AskPc

LEMMA CheckerKept ==
  ASSUME ListenerInv, NEW p \in Preparer \cup Checker, StatusStep(p) \/ SaveStatus(p)
  PROVE  ListenerInv'
<1>1. p \in Call /\ p \notin Starter /\ CallOK
  BY Kinds, Typed DEF ListenerInv
<1>2. /\ UNCHANGED <<closing, failures, conn, beat, prepared, released, fallback,
                     ready, sock, loop>>
      /\ confirmations' \in {0, confirmations}
      /\ isLive' \in BOOLEAN /\ known' \in BOOLEAN
      /\ contextMu' \in Call \cup {None}
  <2>. USE DEF TypeOK, ListenerInv, status, context, closing, SetLiveStatus
  <2>1. CASE AskStatus(p)
    BY <1>1, <2>1 DEF AskStatus
  <2>2. CASE PageAnswer(p)
    BY <2>2 DEF PageAnswer
  <2>3. CASE StatusAnswer(p)
    BY <2>3 DEF StatusAnswer
  <2>4. CASE StatusFails(p)
    BY <2>4 DEF StatusFails
  <2>5. CASE SaveStatus(p)
    <3>1. call[p].answer \in BOOLEAN
      BY <1>1 DEF CallOK, CallState
    <3>. QED
      BY <2>5, <3>1 DEF SaveStatus
  <2>. QED
    BY <2>1, <2>2, <2>3, <2>4, <2>5 DEF StatusStep
<1>3. Others(p) /\ call[p].pc \in {"idle"} \cup OtherPc
  BY CheckerGoes
<1>4. TypeOK'
  BY <1>1, <1>2, <1>3, OthersTyped DEF ListenerInv, TypeOK, closing
<1>. QED
  BY <1>1, <1>2, <1>3, <1>4, OthersKept DEF ListenerInv, Frame, closing

\* CloseStatus, SignalClose and DisposeProfile.
LEMMA ShutKept ==
  ASSUME ListenerInv, NEW p \in Shut,
         CloseStatus(p) \/ SignalClose(p) \/ DisposeProfile(p)
  PROVE  ListenerInv'
<1>1. p \in Call /\ p \notin Starter /\ p \notin Preparer \cup Checker /\ CallOK
  BY Kinds, Typed DEF ListenerInv
<1>2. /\ UNCHANGED <<lifecycle, manualClose, failures, conn, beat, prepared, contextMu,
                     fallback, ready, sock, loop>>
      /\ confirmations' \in {0, confirmations}
      /\ isLive' \in BOOLEAN /\ known' \in BOOLEAN /\ signalled' \in BOOLEAN
      /\ released' \in BOOLEAN /\ (released => released')
  <2>. USE DEF TypeOK, ListenerInv, status, context, closing
  <2>1. CASE CloseStatus(p)
    BY <2>1 DEF CloseStatus, SetLiveStatus
  <2>2. CASE SignalClose(p)
    BY <2>2 DEF SignalClose
  <2>3. CASE DisposeProfile(p)
    BY <2>3 DEF DisposeProfile
  <2>. QED
    BY <2>1, <2>2, <2>3
<1>3. {"signal", "takeconn", "returned", "stopbeat"} \subseteq Pc
  BY Values DEF ClosePc, TakePc, StopPc
<1>4. /\ call[p].pc \in {"unlive", "signal", "dispose"}
      /\ \/ \E pc \in {"signal", "returned"} : Moves(p, pc)
         \/ Becomes(p, "stopbeat", "takeconn", call[p].conn, call[p].beat, call[p].again,
                    call[p].tries)
  BY <1>1, <1>3, GotoEffect, StopThenEffect DEF CloseStatus, SignalClose, DisposeProfile
<1>5. call[p].then \in Pc /\ call[p].again \in BOOLEAN /\ call[p].tries \in Nat
  <2>1. call[p] \in CallState
    BY <1>1 DEF CallOK
  <2>. QED
    BY <2>1, BoundAssumption DEF CallState
<1>6. Others(p) /\ call[p].pc \in {"idle"} \cup OtherPc
  BY <1>1, <1>3, <1>4, <1>5 DEF Others, Moves, OtherPc
<1>7. TypeOK'
  BY <1>1, <1>2, <1>6, OthersTyped DEF ListenerInv, TypeOK
<1>. QED
  BY <1>1, <1>2, <1>6, <1>7, OthersKept DEF ListenerInv, Frame

-----------------------------------------------------------------------------
(***************************************************************************)
(* The types and the counters at the steps that take, close or install.    *)
(***************************************************************************)
\* Of a step of one call that writes none of the flags.
LEMMA TypeKept ==
  ASSUME TypeOK, call' \in [Call -> CallState], loop' \in [Loop -> LoopState],
         conn' \in Conn \cup {None}, beat' \in Loop \cup {None},
         confirmations' \in 0 .. 1,
         sock' \in [Conn -> {"open", "cut", "closed"}],
         UNCHANGED <<closing, isLive, known, failures, context, ready>>
  PROVE  TypeOK'
BY DEF TypeOK, closing, context

\* The counters of a call that goes on under the same count of attempts.
LEMMA StopStepKept ==
  ASSUME ListenerInv, NEW p \in Call, StopStep(p)
  PROVE  ListenerInv'
<1>1. CallOK /\ LoopOK /\ call[p] \in CallState /\ HoldOK(p) /\ PlaceOK(p)
  BY Typed DEF ListenerInv, CallOK, StructInv, Places
<1>2. {"signalbeat", "waitbeat"} \subseteq Pc
  BY Values DEF StopPc, StartPc
<1>3. StructInv'
  BY TakeBeatKept, SignalBeatKept, AwaitBeatKept DEF StopStep
<1>4. /\ call[p].pc \in StopPc
      /\ UNCHANGED <<closing, status, failures, conn, context, ready, sock>>
      /\ beat' \in Loop \cup {None} /\ loop' \in [Loop -> LoopState]
      /\ \E pc \in {call[p].then, "signalbeat", "waitbeat"}, h \in Loop \cup {None} :
           Becomes(p, pc, call[p].then, call[p].conn, h, call[p].again, call[p].tries)
  <2>1. CASE TakeBeat(p)
    <3>1. /\ beat \in Loop \cup {None} /\ call[p].then \in Pc
          /\ loop \in [Loop -> LoopState]
      BY <1>1 DEF ListenerInv, TypeOK, CallState
    <3>2. Becomes(p, IF beat = None THEN call[p].then ELSE "signalbeat", call[p].then,
                  call[p].conn, beat, call[p].again, call[p].tries)
      BY <1>1, <1>2, <2>1, <3>1, HoldBeatEffect DEF TakeBeat
    <3>. QED
      BY <2>1, <3>1, <3>2 DEF TakeBeat, StopPc
  <2>2. CASE SignalBeat(p)
    <3>1. call[p].beat \in Loop /\ beat \in Loop \cup {None}
      BY <1>1, <2>2 DEF HoldOK, CallState, SignalBeat, ListenerInv, TypeOK
    <3>2. loop' \in [Loop -> LoopState]
      BY <1>1, <2>2, <3>1, BeatStopEffect DEF SignalBeat, BeatBecomes
    <3>3. Becomes(p, "waitbeat", call[p].then, call[p].conn, call[p].beat, call[p].again,
                  call[p].tries)
      BY <1>1, <1>2, <2>2, GotoEffect DEF SignalBeat, Moves
    <3>. QED
      BY <2>2, <3>1, <3>2, <3>3 DEF SignalBeat, StopPc
  <2>3. CASE AwaitBeat(p)
    <3>1. /\ beat \in Loop \cup {None} /\ call[p].then \in Pc
          /\ loop \in [Loop -> LoopState]
      BY <1>1 DEF ListenerInv, TypeOK, CallState
    <3>2. Becomes(p, call[p].then, call[p].then, call[p].conn, None, call[p].again,
                  call[p].tries)
      BY <1>1, <2>3, <3>1, HoldBeatEffect DEF AwaitBeat
    <3>. QED
      BY <2>3, <3>1, <3>2 DEF AwaitBeat, StopPc
  <2>. QED
    BY <2>1, <2>2, <2>3 DEF StopStep
<1>5. PICK pc \in {call[p].then, "signalbeat", "waitbeat"}, h \in Loop \cup {None} :
        Becomes(p, pc, call[p].then, call[p].conn, h, call[p].again, call[p].tries)
  BY <1>4
<1>6. TypeOK'
  <2>1. call' \in [Call -> CallState] /\ UNCHANGED <<isLive, known, confirmations>>
    BY <1>4, <1>5 DEF Becomes, status
  <2>2. /\ conn \in Conn \cup {None} /\ confirmations \in 0 .. 1
        /\ sock \in [Conn -> {"open", "cut", "closed"}]
    BY DEF ListenerInv, TypeOK
  <2>. QED
    BY <1>4, <2>1, <2>2, TypeKept DEF ListenerInv
<1>7. Counts'
  <2>1. p \in Starter => CountsOf(p)'
    <3>1. SUFFICES ASSUME p \in Starter PROVE CountsOf(p)'
      OBVIOUS
    <3>2. CountsOf(p) /\ call[p].then \in {"beat", "closeold", "unprepare"}
      BY <1>1, <1>4, <3>1 DEF ListenerInv, Counts, PlaceOK
    <3>3. /\ call'[p].pc \in {call[p].then, "signalbeat", "waitbeat"}
          /\ call'[p].then = call[p].then /\ call'[p].again = call[p].again
          /\ call'[p].tries = call[p].tries
          /\ failures' = failures /\ confirmations' = confirmations
      BY <1>4, <1>5 DEF Becomes, status
    <3>4. /\ Inside(p) /\ Inside(p)'
          /\ Cleaning(p)' <=> Cleaning(p)
          /\ Dialing(p) => Dialing(p)'
          /\ Stopping(p, "beat") => Stopping(p, "beat")' \/ call'[p].pc = "beat"
      BY <1>4, <3>2, <3>3
      DEF Inside, StartPc, StopPc, Cleaning, CleanPc, Dialing, DialPc, Stopping
    <3>5. /\ call'[p].pc \notin {"decide", "delay", "reconnect", "reset"}
          /\ call[p].pc \notin {"decide", "delay", "reconnect", "reset", "live", "ready",
                                "beat"}
          /\ call'[p].pc \notin DialPc \ {"attempt", "closeold"}
      BY <1>4, <3>2, <3>3 DEF StopPc, DialPc
    <3>. QED
      BY <3>2, <3>3, <3>4, <3>5 DEF CountsOf
  <2>2. /\ \A q \in Call : q # p => call'[q] = call[q]
        /\ lifecycle' = lifecycle /\ failures' = failures /\ confirmations' = confirmations
    BY <1>4, <1>5 DEF Becomes, closing, status
  <2>. QED
    BY <2>1, <2>2, CountsKept DEF ListenerInv
<1>. QED
  BY <1>3, <1>6, <1>7 DEF ListenerInv

\* TakeConn and CloseConn.
LEMMA TakeStepKept ==
  ASSUME ListenerInv, NEW p \in Call, TakeStep(p)
  PROVE  ListenerInv'
<1>1. CallOK
  BY Typed DEF ListenerInv
<1>2. StructInv'
  BY TakeConnKept, CloseConnKept DEF TakeStep
<1>3. {"closeconn", "release", "dispose", "returned"} \subseteq Pc
  BY Values DEF TakePc, StartPc, ClosePc
<1>4. /\ conn \in Conn \cup {None} /\ None \in Conn \cup {None}
      /\ confirmations \in 0 .. 1 /\ beat \in Loop \cup {None}
      /\ sock \in [Conn -> {"open", "cut", "closed"}]
      /\ loop \in [Loop -> LoopState]
  BY DEF ListenerInv, TypeOK
<1>5. /\ call[p].pc \in TakePc
      /\ UNCHANGED <<closing, status, failures, beat, context, ready, loop>>
      /\ conn' \in Conn \cup {None} /\ sock' \in [Conn -> {"open", "cut", "closed"}]
      /\ \E pc \in {"closeconn", "release", "dispose", "returned"},
            k \in Conn \cup {None} :
           /\ Becomes(p, pc, call[p].then, k, call[p].beat, call[p].again, call[p].tries)
           /\ p \in Starter => pc \in {"closeconn", "release"}
  <2>1. CASE TakeConn(p)
    <3>1. Becomes(p, "closeconn", call[p].then, conn, call[p].beat, call[p].again,
                  call[p].tries)
      BY <1>1, <1>3, <1>4, <2>1, HoldEffect DEF TakeConn
    <3>. QED
      BY <1>4, <2>1, <3>1 DEF TakeConn, TakePc
  <2>2. CASE CloseConn(p)
    <3>. DEFINE pc == IF p \in Starter THEN "release"
                      ELSE IF p \in Disposer THEN "dispose" ELSE "returned"
    <3>1. Becomes(p, pc, call[p].then, None, call[p].beat, call[p].again, call[p].tries)
      BY <1>1, <1>3, <1>4, <2>2, HoldEffect DEF CloseConn
    <3>2. sock' \in [Conn -> {"open", "cut", "closed"}]
      BY <1>4, <2>2 DEF CloseConn, CloseSocket
    <3>. QED
      BY <1>4, <2>2, <3>1, <3>2 DEF CloseConn, TakePc
  <2>. QED
    BY <2>1, <2>2 DEF TakeStep
<1>6. PICK pc \in {"closeconn", "release", "dispose", "returned"}, k \in Conn \cup {None} :
        /\ Becomes(p, pc, call[p].then, k, call[p].beat, call[p].again, call[p].tries)
        /\ p \in Starter => pc \in {"closeconn", "release"}
  BY <1>5
<1>7. TypeOK'
  <2>1. call' \in [Call -> CallState] /\ UNCHANGED <<isLive, known, confirmations>>
        /\ beat' = beat /\ loop' = loop
    BY <1>5, <1>6 DEF Becomes, status
  <2>. QED
    BY <1>4, <1>5, <2>1, TypeKept DEF ListenerInv
<1>8. Counts'
  <2>1. p \in Starter => CountsOf(p)'
    <3>1. SUFFICES ASSUME p \in Starter PROVE CountsOf(p)'
      OBVIOUS
    <3>2. CountsOf(p)
      BY <3>1 DEF ListenerInv, Counts
    <3>3. /\ call'[p].pc \in {"closeconn", "release"}
          /\ call'[p].again = call[p].again /\ call'[p].tries = call[p].tries
      BY <1>6, <3>1 DEF Becomes
    <3>4. ~call[p].again
      BY <1>5, <3>2 DEF CountsOf, TakePc, Dialing, DialPc, Stopping, StopPc
    <3>5. Cleaning(p)'
      BY <3>3 DEF Cleaning, CleanPc
    <3>. QED
      BY <3>2, <3>3, <3>4, <3>5 DEF CountsOf
  <2>2. /\ \A q \in Call : q # p => call'[q] = call[q]
        /\ lifecycle' = lifecycle /\ failures' = failures /\ confirmations' = confirmations
    BY <1>5, <1>6 DEF Becomes, closing, status
  <2>. QED
    BY <2>1, <2>2, CountsKept DEF ListenerInv
<1>. QED
  BY <1>2, <1>7, <1>8 DEF ListenerInv

\* A listener that connects: DialSucceeds, Install, StartBeat, CloseOld and the
\* beginning of a reconnection.
ConnectMoves(p) ==
  \/ DialSucceeds(p) \/ Install(p) \/ StartBeat(p) \/ CloseOld(p)
  \/ Reconnect(p) /\ ~manualClose

\* The steps of this group keep the invariant.
LEMMA ConnectKept ==
  ASSUME ListenerInv, NEW p \in Starter, ConnectMoves(p)
  PROVE  ListenerInv'
<1>1. p \in Call /\ CallOK /\ LoopOK /\ call[p] \in CallState /\ CountsOf(p)
  BY Kinds, Typed DEF ListenerInv, CallOK, Counts
<1>2. StructInv'
  BY DialSucceedsKept, InstallKept, StartBeatKept, CloseOldKept, ReconnectKept
  DEF ConnectMoves
<1>3. {"install", "live", "reset", "read", "attempt"} \subseteq Pc
  BY Values DEF StartPc
<1>4. /\ conn \in Conn \cup {None} /\ None \in Conn \cup {None}
      /\ confirmations \in 0 .. 1 /\ beat \in Loop \cup {None}
      /\ sock \in [Conn -> {"open", "cut", "closed"}]
      /\ loop \in [Loop -> LoopState] /\ 0 \in 0 .. 1
  BY DEF ListenerInv, TypeOK
<1>5. CASE DialSucceeds(p)
  <2>1. PICK k \in FreeConn : sock' = [sock EXCEPT ![k] = "open"] /\ Hold(p, k, "install")
    BY <1>5 DEF DialSucceeds
  <2>2. k \in Conn /\ k \in Conn \cup {None}
    BY DEF FreeConn
  <2>3. Becomes(p, "install", call[p].then, k, call[p].beat, call[p].again,
                call[p].tries)
    BY <1>1, <1>3, <2>1, <2>2, HoldEffect
  <2>4. /\ call' \in [Call -> CallState] /\ call'[p].pc = "install"
        /\ call'[p].again = call[p].again /\ call'[p].tries = call[p].tries
        /\ \A q \in Call : q # p => call'[q] = call[q]
    BY <2>3 DEF Becomes
  <2>5. call[p].pc = "dial"
        /\ UNCHANGED <<closing, isLive, known, confirmations, failures, conn, beat,
                       context, ready, loop>>
    BY <1>5 DEF DialSucceeds, status
  <2>6. sock' \in [Conn -> {"open", "cut", "closed"}]
    BY <1>4, <2>1, <2>2
  <2>7. TypeOK'
    BY <1>4, <2>4, <2>5, <2>6, TypeKept DEF ListenerInv
  <2>8. Inside(p) /\ CountsOf(p)'
    BY <1>1, <2>4, <2>5
    DEF CountsOf, Inside, StartPc, Cleaning, CleanPc, Dialing, DialPc, Stopping, StopPc
  <2>. QED
    BY <1>1, <1>2, <2>4, <2>5, <2>7, <2>8, CountsKept DEF ListenerInv, closing
<1>6. CASE Install(p)
  <2>1. Becomes(p, "live", call[p].then, None, call[p].beat, call[p].again,
                call[p].tries)
    BY <1>1, <1>3, <1>4, <1>6, HoldEffect DEF Install
  <2>2. /\ call' \in [Call -> CallState] /\ call'[p].pc = "live"
        /\ call'[p].again = call[p].again /\ call'[p].tries = call[p].tries
        /\ \A q \in Call : q # p => call'[q] = call[q]
    BY <2>1 DEF Becomes
  <2>3. call[p].pc = "install" /\ conn' = call[p].conn
        /\ UNCHANGED <<closing, isLive, known, confirmations, failures, beat,
                       context, ready, sock, loop>>
    BY <1>6 DEF Install, status
  <2>4. conn' \in Conn \cup {None}
    BY <1>1, <2>3 DEF CallState
  <2>5. TypeOK'
    BY <1>4, <2>2, <2>3, <2>4, TypeKept DEF ListenerInv
  <2>6. Inside(p) /\ CountsOf(p)'
    BY <1>1, <2>2, <2>3
    DEF CountsOf, Inside, StartPc, Cleaning, CleanPc, Dialing, DialPc, Stopping, StopPc
  <2>. QED
    BY <1>1, <1>2, <2>2, <2>3, <2>5, <2>6, CountsKept DEF ListenerInv, closing
<1>7. CASE StartBeat(p)
  <2>. DEFINE v == [pc |-> "check", stop |-> FALSE, conn |-> None, of |-> conn]
  <2>1. PICK h \in FreeLoop : beat' = h /\ loop' = [loop EXCEPT ![h] = v]
    BY <1>7 DEF StartBeat
  <2>2. h \in Loop /\ v \in LoopState
    BY <1>4 DEF FreeLoop, LoopState
  <2>3. loop' \in [Loop -> LoopState] /\ beat' \in Loop \cup {None}
    BY <1>4, <2>1, <2>2
  <2>. HIDE DEF v
  <2>4. Moves(p, IF call[p].again THEN "reset" ELSE "read")
    BY <1>1, <1>3, <1>7, GotoEffect DEF StartBeat
  <2>5. /\ call' \in [Call -> CallState]
        /\ call[p].again => call'[p].pc = "reset"
        /\ ~call[p].again => call'[p].pc = "read"
        /\ call'[p].again = call[p].again /\ call'[p].tries = call[p].tries
        /\ \A q \in Call : q # p => call'[q] = call[q]
    BY <2>4 DEF Moves, Becomes
  <2>6. call[p].pc = "beat" /\ confirmations' = 0
        /\ UNCHANGED <<closing, isLive, known, failures, conn, context, ready, sock>>
    BY <1>7 DEF StartBeat
  <2>7. TypeOK'
    BY <1>4, <2>3, <2>5, <2>6, TypeKept DEF ListenerInv
  <2>8. Inside(p) /\ CountsOf(p)'
    <3>1. Inside(p) /\ ~Cleaning(p)
      BY <2>6 DEF Inside, StartPc, Cleaning, CleanPc, Stopping, StopPc
    <3>2. call'[p].pc \notin DialPc
      BY <2>5 DEF DialPc
    <3>. QED
      BY <1>1, <2>5, <2>6, <3>1, <3>2 DEF CountsOf
  <2>. QED
    BY <1>1, <1>2, <2>5, <2>6, <2>7, <2>8, CountsKept DEF ListenerInv, closing
<1>8. CASE CloseOld(p)
  <2>1. Becomes(p, "attempt", call[p].then, None, call[p].beat, call[p].again,
                call[p].tries)
    BY <1>1, <1>3, <1>4, <1>8, HoldEffect DEF CloseOld
  <2>2. /\ call' \in [Call -> CallState] /\ call'[p].pc = "attempt"
        /\ call'[p].again = call[p].again /\ call'[p].tries = call[p].tries
        /\ \A q \in Call : q # p => call'[q] = call[q]
    BY <2>1 DEF Becomes
  <2>3. call[p].pc = "closeold"
        /\ UNCHANGED <<closing, isLive, known, confirmations, failures, conn, beat,
                       context, ready, loop>>
    BY <1>8 DEF CloseOld, status
  <2>4. sock' \in [Conn -> {"open", "cut", "closed"}]
    BY <1>4, <1>8 DEF CloseOld, CloseSocket
  <2>5. TypeOK'
    BY <1>4, <2>2, <2>3, <2>4, TypeKept DEF ListenerInv
  <2>6. Inside(p) /\ CountsOf(p)'
    BY <1>1, <2>2, <2>3
    DEF CountsOf, Inside, StartPc, Cleaning, CleanPc, Dialing, DialPc, Stopping, StopPc
  <2>. QED
    BY <1>1, <1>2, <2>2, <2>3, <2>5, <2>6, CountsKept DEF ListenerInv, closing
<1>9. CASE Reconnect(p) /\ ~manualClose
  <2>1. Becomes(p, "stopbeat", "closeold", conn, call[p].beat, TRUE, 0)
    BY <1>1, <1>4, <1>9, ReconnectEffect DEF Reconnect
  <2>2. /\ call' \in [Call -> CallState] /\ call'[p].pc = "stopbeat"
        /\ call'[p].then = "closeold"
        /\ call'[p].again = TRUE /\ call'[p].tries = 0
        /\ \A q \in Call : q # p => call'[q] = call[q]
    BY <2>1 DEF Becomes
  <2>3. call[p].pc = "reconnect" /\ conn' = None
        /\ UNCHANGED <<closing, isLive, known, confirmations, failures, beat,
                       context, ready, sock, loop>>
    BY <1>9 DEF Reconnect, status
  <2>4. TypeOK'
    BY <1>4, <2>2, <2>3, TypeKept DEF ListenerInv
  <2>5. Inside(p) /\ CountsOf(p)'
    BY <2>2, <2>3 DEF CountsOf, Inside, StartPc, Dialing, DialPc, Stopping, StopPc
  <2>. QED
    BY <1>1, <1>2, <2>2, <2>3, <2>4, <2>5, CountsKept DEF ListenerInv, closing
<1>. QED
  BY <1>5, <1>6, <1>7, <1>8, <1>9 DEF ConnectMoves

\* cleanup: Unprepare, Release and FinishLifecycle.
LEMMA CleanupStepKept ==
  ASSUME ListenerInv, NEW p \in Starter, CleanupStep(p)
  PROVE  ListenerInv'
<1>1. p \in Call /\ CallOK /\ CountsOf(p)
  BY Kinds, Typed DEF ListenerInv, Counts
<1>2. StructInv'
  BY UnprepareKept, FinishKept DEF CleanupStep
<1>3. {"takeconn", "finish", "returned"} \subseteq Pc
  BY Values DEF StartPc, TakePc
<1>4. /\ call[p].pc \in {"unprepare", "release", "finish"}
      /\ \E pc \in {"takeconn", "finish", "returned"} : Moves(p, pc)
  BY <1>1, <1>3, GotoEffect DEF CleanupStep, Unprepare, Release, FinishLifecycle
<1>5. /\ call' \in [Call -> CallState]
      /\ call'[p].pc \in {"takeconn", "finish", "returned"}
      /\ call'[p].again = call[p].again /\ call'[p].tries = call[p].tries
      /\ \A q \in Call : q # p => call'[q] = call[q]
  BY <1>4 DEF Moves, Becomes
<1>6. /\ UNCHANGED <<manualClose, signalled, isLive, known, confirmations, failures,
                     conn, beat, contextMu, fallback, ready, sock, loop>>
      /\ lifecycle' \in {lifecycle, "closed"}
      /\ prepared' \in BOOLEAN /\ released' \in BOOLEAN
  <2>. USE DEF ListenerInv, TypeOK, status, context, closing
  <2>1. CASE Unprepare(p)
    BY <2>1 DEF Unprepare
  <2>2. CASE Release(p)
    BY <2>2 DEF Release
  <2>3. CASE FinishLifecycle(p)
    BY <2>3 DEF FinishLifecycle
  <2>. QED
    BY <2>1, <2>2, <2>3 DEF CleanupStep
<1>7. TypeOK'
  BY <1>5, <1>6 DEF ListenerInv, TypeOK
<1>8. CountsOf(p)'
  <2>1. ~call[p].again
    BY <1>1, <1>4 DEF CountsOf, Dialing, DialPc, Stopping, StopPc
  <2>2. Cleaning(p)' \/ ~Inside(p)'
    BY <1>5 DEF Cleaning, CleanPc, Inside, StartPc, StopPc, TakePc
  <2>. QED
    BY <1>1, <1>5, <2>1, <2>2 DEF CountsOf
<1>. QED
  BY <1>1, <1>2, <1>5, <1>6, <1>7, <1>8, CountsKept DEF ListenerInv

\* BeginStart and BeginClose.
LEMMA BeginStartInv ==
  ASSUME ListenerInv, NEW p \in Starter, BeginStart(p)
  PROVE  ListenerInv'
<1>1. p \in Call /\ CallOK /\ CountsOf(p)
  BY Kinds, Typed DEF ListenerInv, Counts
<1>2. {"begun", "returned"} \subseteq Pc
  BY Values DEF StartPc
<1>3. /\ call[p].pc = "idle"
      /\ \/ Moves(p, "returned") /\ lifecycle' \in {lifecycle, "closed"}
         \/ Moves(p, "begun") /\ lifecycle = "new" /\ lifecycle' = "running"
  BY <1>1, <1>2, GotoEffect DEF BeginStart
<1>4. /\ call' \in [Call -> CallState]
      /\ call'[p].pc = "returned" \/ (call'[p].pc = "begun" /\ lifecycle = "new")
      /\ call'[p].again = call[p].again /\ call'[p].tries = call[p].tries
      /\ \A q \in Call : q # p => call'[q] = call[q]
  BY <1>3 DEF Moves, Becomes
<1>5. /\ UNCHANGED <<manualClose, signalled, isLive, known, confirmations, failures,
                     conn, beat, context, ready, sock, loop>>
      /\ lifecycle' \in {"new", "running", "closing", "closed"}
  BY <1>3 DEF BeginStart, ListenerInv, TypeOK, status
<1>6. TypeOK'
  BY <1>4, <1>5 DEF ListenerInv, TypeOK, context
<1>7. CountsOf(p)'
  <2>1. ~call[p].again
    BY <1>1, <1>3 DEF CountsOf, Dialing, DialPc, Stopping, StopPc
  <2>2. CASE call'[p].pc = "returned"
    <3>1. ~Inside(p)'
      BY <2>2 DEF Inside, StartPc, StopPc, TakePc
    <3>. QED
      BY <1>1, <1>4, <2>1, <3>1 DEF CountsOf
  <2>3. CASE lifecycle = "new"
    BY <1>1, <1>4, <1>5, <2>1, <2>3 DEF CountsOf, ListenerInv, Counts
  <2>. QED
    BY <1>4, <2>2, <2>3
<1>8. lifecycle' = "new" => lifecycle = "new"
  BY <1>3
<1>. QED
  BY <1>1, <1>4, <1>5, <1>6, <1>7, <1>8, BeginStartKept, CountsKept DEF ListenerInv

\* The first step of Close keeps the invariant.
LEMMA BeginCloseInv ==
  ASSUME ListenerInv, NEW p \in Shut, BeginClose(p)
  PROVE  ListenerInv'
<1>1. p \in Call /\ p \notin Starter /\ CallOK
  BY Kinds, Typed DEF ListenerInv
<1>2. Moves(p, "unlive")
  BY <1>1, Values, GotoEffect DEF BeginClose, ClosePc
<1>3. /\ call' \in [Call -> CallState]
      /\ \A q \in Call : q # p => call'[q] = call[q]
  BY <1>2 DEF Moves, Becomes
<1>4. /\ UNCHANGED <<signalled, isLive, known, confirmations, failures,
                     conn, beat, context, ready, sock, loop>>
      /\ manualClose' \in BOOLEAN
      /\ lifecycle' \in {"new", "running", "closing", "closed"}
      /\ lifecycle' # "new"
  BY DEF BeginClose, ListenerInv, TypeOK, status
<1>5. TypeOK'
  BY <1>3, <1>4 DEF ListenerInv, TypeOK, context
<1>. QED
  BY <1>1, <1>3, <1>4, <1>5, BeginCloseKept, CountsKept DEF ListenerInv

\* A step of a loop, or of the upstream, leaves the calls alone.
LEMMA CountsApart ==
  ASSUME Counts, UNCHANGED <<lifecycle, failures, confirmations, call>>
  PROVE  Counts'
<1>1. \A p \in Starter : CountsOf(p)'
  BY DEF Counts, CountsOf, Inside, Dialing, Stopping, Cleaning
<1>. QED
  BY <1>1 DEF Counts

\* The steps of a heartbeat loop keep the invariant.
LEMMA BeatStepKept ==
  ASSUME ListenerInv, NEW h \in Loop, BeatStep(h)
  PROVE  ListenerInv'
<1>1. CASE BeatMoves(h)
  <2>1. /\ loop[h].pc \in {"check", "send", "write", "refresh", "wait"}
        /\ UNCHANGED <<closing, status, failures, conn, beat, context, ready, sock, call>>
        /\ loop' \in [Loop -> LoopState]
        /\ \A g \in Loop : g # h => loop'[g] = loop[g]
        /\ loop'[h].pc = "done" \/ loop'[h].stop = loop[h].stop
    BY <1>1, BeatMovesEffect DEF ListenerInv
  <2>2. TypeOK'
    BY <2>1 DEF ListenerInv, TypeOK, closing, status, context
  <2>. QED
    BY <2>1, <2>2, LoopKept, CountsApart DEF ListenerInv, closing, status, context
<1>2. CASE BeatFails(h)
  <2>1. /\ UNCHANGED <<closing, status, failures, beat, context, ready, sock, call>>
        /\ conn' = None
    BY <1>2 DEF BeatFails
  <2>2. loop' \in [Loop -> LoopState]
    BY <1>2, BeatFailsEffect DEF ListenerInv, BeatBecomes
  <2>3. TypeOK'
    BY <2>1, <2>2 DEF ListenerInv, TypeOK, closing, status, context
  <2>. QED
    BY <1>2, <2>1, <2>3, BeatFailsKept, CountsApart DEF ListenerInv, closing, status
<1>3. CASE BeatClose(h)
  <2>1. UNCHANGED <<closing, status, failures, conn, beat, context, ready, call>>
    BY <1>3 DEF BeatClose
  <2>2. loop' \in [Loop -> LoopState]
    BY <1>3, Typed, BeatEndsEffect DEF ListenerInv, BeatBecomes, BeatClose
  <2>3. sock' \in [Conn -> {"open", "cut", "closed"}]
    BY <1>3 DEF ListenerInv, TypeOK, BeatClose, CloseSocket
  <2>4. TypeOK'
    BY <2>1, <2>2, <2>3 DEF ListenerInv, TypeOK, closing, status, context
  <2>. QED
    BY <1>3, <2>1, <2>4, BeatCloseKept, CountsApart DEF ListenerInv, closing, status
<1>. QED
  BY <1>1, <1>2, <1>3 DEF BeatStep, BeatMoves

\* So does a connection that the upstream drops.
LEMMA CutInv ==
  ASSUME ListenerInv, NEW k \in Conn, Cut(k)
  PROVE  ListenerInv'
<1>1. UNCHANGED <<closing, status, failures, conn, beat, context, ready, loop, call>>
      /\ sock' \in [Conn -> {"open", "cut", "closed"}]
  BY DEF Cut, ListenerInv, TypeOK
<1>2. TypeOK'
  BY <1>1 DEF ListenerInv, TypeOK, closing, status, context
<1>. QED
  BY <1>1, <1>2, CutKept, CountsApart DEF ListenerInv, closing, status

-----------------------------------------------------------------------------
(***************************************************************************)
(* The invariant holds of the listener.                                    *)
(***************************************************************************)
LEMMA InitInv == Init => ListenerInv
<1>. SUFFICES ASSUME Init PROVE ListenerInv
  OBVIOUS
<1>. DEFINE c == [pc |-> "idle", then |-> "idle", conn |-> None, beat |-> None,
                  again |-> FALSE, tries |-> 0, answer |-> FALSE, retry |-> FALSE]
            l == [pc |-> "done", stop |-> FALSE, conn |-> None, of |-> None]
<1>1. c \in CallState
  <2>1. /\ "idle" \in Pc /\ None \in Conn \cup {None} /\ None \in Loop \cup {None}
        /\ FALSE \in BOOLEAN /\ 0 \in 0 .. Attempts
    BY Values
  <2>. QED
    BY <2>1 DEF CallState
<1>2. l \in LoopState
  BY DEF LoopState
<1>3. /\ c.pc = "idle" /\ c.then = "idle" /\ c.conn = None /\ c.beat = None
      /\ c.again = FALSE /\ c.tries = 0 /\ l.pc = "done"
  OBVIOUS
<1>4. call = [p \in Call |-> c] /\ loop = [h \in Loop |-> l]
  BY DEF Init
<1>. HIDE DEF c, l
<1>5. TypeOK
  <2>1. call \in [Call -> CallState] /\ loop \in [Loop -> LoopState]
    BY <1>1, <1>2, <1>4
  <2>2. 0 \in 0 .. 1 /\ {FALSE} \subseteq BOOLEAN
    OBVIOUS
  <2>. QED
    BY <2>1, <2>2 DEF Init, TypeOK
<1>6. /\ \A p \in Call : /\ call[p].pc = "idle" /\ call[p].then = "idle"
                         /\ call[p].conn = None /\ call[p].beat = None
                         /\ call[p].again = FALSE /\ call[p].tries = 0
      /\ \A h \in Loop : loop[h].pc = "done"
      /\ \A k \in Conn : sock[k] = "closed"
      /\ lifecycle = "new" /\ conn = None /\ beat = None
      /\ failures = 0 /\ confirmations = 0
  BY <1>3, <1>4 DEF Init
<1>7. \A p \in Starter : p \in Call
  BY DEF Call
<1>8. \A p \in Starter : ~Inside(p) /\ call[p].pc = "idle"
  BY <1>6, <1>7 DEF Inside, StartPc, StopPc, TakePc
<1>9. OneRun /\ ConnectionsOwned /\ OneHeartbeat /\ LoopOwned
  BY <1>6, <1>8 DEF OneRun, ConnectionsOwned, OneHeartbeat, LoopOwned
<1>10. Places
  BY <1>6 DEF Places, PlaceOK, HoldOK, StopPc, Stopping
<1>11. Phases
  BY <1>6, <1>8 DEF Phases, Connless, Beatless, Cleaned, Dialing, Stopping, DialPc,
                    CleanPc, StopPc
<1>12. Counts
  BY <1>6, <1>7, <1>8 DEF Counts, CountsOf, DialPc
<1>. QED
  BY <1>5, <1>9, <1>10, <1>11, <1>12 DEF ListenerInv, StructInv

\* Every step of the system keeps the invariant.
LEMMA StepInv == ListenerInv /\ [Next]_vars => ListenerInv'
<1>. SUFFICES ASSUME ListenerInv, [Next]_vars PROVE ListenerInv'
  OBVIOUS
<1>1. ASSUME NEW p \in Starter, BeginStart(p) \/ RunStep(p)
      PROVE  ListenerInv'
  <2>0. p \in Call
    BY Kinds
  <2>1. CASE BeginStart(p)
    BY <2>1, BeginStartInv
  <2>2. CASE StopStep(p)
    BY <2>0, <2>2, StopStepKept
  <2>3. CASE TakeStep(p)
    BY <2>0, <2>3, TakeStepKept
  <2>4. CASE DialMoves(p)
    BY <2>4, DialMovesKept
  <2>5. CASE ReadMoves(p)
    BY <2>5, ReadMovesKept
  <2>6. CASE ConnectMoves(p)
    BY <2>6, ConnectKept
  <2>7. CASE CleanupStep(p)
    BY <2>7, CleanupStepKept
  <2>8. CASE PrepareStep(p) \/ StatusStep(p)
    BY <2>4, <2>5, <2>8 DEF PrepareStep, StatusStep, DialMoves, ReadMoves
  <2>9. CASE DialStep(p) \/ ReadStep(p)
    BY <2>4, <2>5, <2>6, <2>9
    DEF DialStep, ReadStep, DialMoves, ReadMoves, ConnectMoves
  <2>. QED
    BY <1>1, <2>1, <2>2, <2>3, <2>7, <2>8, <2>9 DEF RunStep
<1>2. ASSUME NEW p \in Closer \cup Disposer, BeginClose(p) \/ CloseStep(p)
      PROVE  ListenerInv'
  <2>1. p \in Shut /\ p \in Call
    BY DEF Shut, Call
  <2>. QED
    BY <1>2, <2>1, BeginCloseInv, ShutKept, StopStepKept, TakeStepKept DEF CloseStep
<1>3. ASSUME NEW p \in Preparer, PrepareStep(p)
      PROVE  ListenerInv'
  BY <1>3, PreparerKept, CheckerKept DEF StatusStep
<1>4. ASSUME NEW p \in Checker, StatusStep(p) \/ SaveStatus(p)
      PROVE  ListenerInv'
  BY <1>4, CheckerKept
<1>5. CASE UNCHANGED vars
  <2>1. TypeOK'
    BY <1>5 DEF ListenerInv, TypeOK, vars, closing, status, context
  <2>2. OneRun' /\ Places' /\ ConnectionsOwned' /\ OneHeartbeat' /\ LoopOwned'
    BY <1>5
    DEF ListenerInv, StructInv, OneRun, Inside, Places, PlaceOK, HoldOK, Stopping,
        ConnectionsOwned, OneHeartbeat, LoopOwned, vars, closing
  <2>3. Phases'
    <3>1. ASSUME NEW q \in Starter
          PROVE  /\ Connless(q)' <=> Connless(q)
                 /\ Beatless(q)' <=> Beatless(q)
                 /\ Cleaned(q)' <=> Cleaned(q)
      BY <1>5 DEF Connless, Beatless, Cleaned, Dialing, Stopping, vars
    <3>. QED
      BY <1>5, <3>1 DEF ListenerInv, StructInv, Phases, vars, closing, context
  <2>4. Counts'
    BY <1>5, CountsApart DEF ListenerInv, vars, closing, status
  <2>. QED
    BY <2>1, <2>2, <2>3, <2>4 DEF ListenerInv, StructInv
<1>. QED
  BY <1>1, <1>2, <1>3, <1>4, <1>5, BeatStepKept, CutInv DEF Next

\* The inductive invariant of the listener: every reachable state is typed, and
\* every call of Start, Close, Dispose, PrepareWebSocketContext and CheckLiveStatus
\* holds at its place what StructInv says, with the counters that Counts says.
THEOREM ListenerInvariant == Spec => []ListenerInv
BY InitInv, StepInv, PTL DEF Spec

\* Type correctness of the listener, for any number of calls, connections, loops
\* and attempts.  It bounds attemptIndex of reconnect by defaultMaxRetries, and
\* consecutiveFailures and offlineConfirmations by 1: the longer delays of
\* reconnectPlan and the second confirmation of the guard are never reached.
THEOREM ListenerTypes == Spec => []TypeOK
<1>1. ListenerInv => TypeOK
  BY DEF ListenerInv
<1>. QED
  BY <1>1, ListenerInvariant, PTL

\* A Start that has returned was cleaned up: it left neither a connection nor a
\* heartbeat that could be anybody's.
LEMMA NothingLeftHolds == ListenerInv => NothingLeft
<1>. SUFFICES ASSUME ListenerInv,
                     NEW s \in Starter, Cleaned(s),
                     \A p \in Starter : ~Inside(p),
                     \A p \in Shut : call[p].pc \in {"idle", "returned"}
              PROVE  /\ \A k \in Conn : sock[k] # "closed" =>
                          BeatTimeout /\ \E h \in Loop : loop[h].pc = "close" /\ loop[h].conn = k
                     /\ \A h \in Loop : loop[h].pc # "done" => BeatTimeout /\ loop[h].stop
                     /\ released
  BY DEF NothingLeft, Cleaned, Shut
<1>1. conn = None /\ beat = None /\ released
  BY DEF ListenerInv, StructInv, Phases, Connless, Beatless
<1>2. ASSUME NEW p \in Call
      PROVE  /\ call[p].pc \notin {"install", "closeconn", "closeold"} \cup StopPc
             /\ call[p].beat = None
  <2>1. PlaceOK(p) /\ HoldOK(p)
    BY DEF ListenerInv, StructInv, Places
  <2>2. p \in Starter \/ p \in Shut \/ p \in Preparer \cup Checker
    BY DEF Call, Shut
  <2>3. p \in Starter => call[p].pc \in {"idle", "returned"}
    BY <2>1 DEF PlaceOK, Inside
  <2>4. call[p].pc \in {"idle", "returned"} \cup AskPc
    BY <2>1, <2>2, <2>3 DEF PlaceOK
  <2>. QED
    BY <2>1, <2>4 DEF HoldOK, AskPc, StopPc
<1>3. ASSUME NEW h \in Loop, loop[h].pc # "done"
      PROVE  BeatTimeout /\ loop[h].stop
  <2>1. beat # h /\ \A p \in Call : call[p].beat # h /\ call[p].pc # "signalbeat"
    BY <1>1, <1>2, NoneAssumption DEF StopPc
  <2>. QED
    BY <1>3, <2>1 DEF ListenerInv, StructInv, OneHeartbeat, LoopOwned
<1>4. ASSUME NEW k \in Conn, sock[k] # "closed"
      PROVE  BeatTimeout /\ \E h \in Loop : loop[h].pc = "close" /\ loop[h].conn = k
  <2>1. \E h \in Loop : loop[h].pc = "close" /\ loop[h].conn = k
    BY <1>1, <1>2, <1>4, NoneAssumption DEF ListenerInv, StructInv, ConnectionsOwned
  <2>. QED
    BY <1>3, <2>1
<1>. QED
  BY <1>1, <1>3, <1>4

\* Nothing is forgotten by a listener, whoever starts, closes, disposes, prepares or
\* asks it at the same time: one Start at most runs; every open connection is
\* dl.conn or is held by somebody about to install or close it; one heartbeat loop at
\* most has not been told to stop, and it can be; and after Start and the calls of
\* Close and Dispose nothing is left but what stopHeartbeatLoop gave up after its
\* time limit (lifecycle.go, websocket_connection.go, reconnect.go, heartbeat.go).
THEOREM ListenerSafe == Spec => []NothingForgotten
<1>1. ListenerInv => NothingForgotten
  BY NothingLeftHolds DEF NothingForgotten, ListenerInv, StructInv
<1>. QED
  BY <1>1, ListenerInvariant, PTL

-----------------------------------------------------------------------------
(***************************************************************************)
(* What the steps of the calls leave to the others.                        *)
(***************************************************************************)
\* The loops go on where they are, each for its connection.
LoopsStay ==
  \A h \in Loop : /\ loop'[h].pc = loop[h].pc /\ loop'[h].of = loop[h].of
                  /\ loop'[h].conn = loop[h].conn
Rest(p) == \A q \in Call : q # p => call'[q] = call[q]

\* SignalBeat changes a flag of a loop; the other steps of stopHeartbeatLoop,
\* TakeConn and CloseConn change no loop.
LEMMA StopStepApart ==
  ASSUME ListenerInv, NEW p \in Call, StopStep(p)
  PROVE  /\ Rest(p) /\ LoopsStay /\ conn' = conn
         /\ UNCHANGED <<closing, status>>
         /\ call[p].pc \in StopPc
         /\ call'[p].pc \in {call[p].then, "signalbeat", "waitbeat"}
         /\ call'[p].then = call[p].then
<1>1. CallOK /\ LoopOK /\ call[p] \in CallState /\ HoldOK(p)
  BY Typed DEF ListenerInv, CallOK, StructInv, Places
<1>2. {"signalbeat", "waitbeat"} \subseteq Pc
  BY Values DEF StopPc, StartPc
<1>3. CASE TakeBeat(p)
  <2>1. beat \in Loop \cup {None} /\ call[p].then \in Pc
    BY <1>1 DEF ListenerInv, TypeOK, CallState
  <2>2. Becomes(p, IF beat = None THEN call[p].then ELSE "signalbeat", call[p].then,
                call[p].conn, beat, call[p].again, call[p].tries)
    BY <1>1, <1>2, <1>3, <2>1, HoldBeatEffect DEF TakeBeat
  <2>. QED
    BY <1>3, <2>2 DEF TakeBeat, Becomes, Rest, LoopsStay, StopPc
<1>4. CASE SignalBeat(p)
  <2>1. call[p].beat \in Loop
    BY <1>1, <1>4 DEF HoldOK, CallState, SignalBeat
  <2>2. BeatBecomes(call[p].beat, loop[call[p].beat].pc, TRUE, loop[call[p].beat].conn,
                    loop[call[p].beat].of)
    BY <1>1, <1>4, <2>1, BeatStopEffect DEF SignalBeat
  <2>3. LoopsStay
    BY <2>1, <2>2 DEF LoopsStay, BeatBecomes
  <2>4. Moves(p, "waitbeat")
    BY <1>1, <1>2, <1>4, GotoEffect DEF SignalBeat
  <2>. QED
    BY <1>4, <2>3, <2>4 DEF SignalBeat, Moves, Becomes, Rest, StopPc
<1>5. CASE AwaitBeat(p)
  <2>1. call[p].then \in Pc
    BY <1>1 DEF CallState
  <2>2. Becomes(p, call[p].then, call[p].then, call[p].conn, None, call[p].again,
                call[p].tries)
    BY <1>1, <1>5, <2>1, HoldBeatEffect DEF AwaitBeat
  <2>. QED
    BY <1>5, <2>2 DEF AwaitBeat, Becomes, Rest, LoopsStay, StopPc
<1>. QED
  BY <1>3, <1>4, <1>5 DEF StopStep

\* TakeConn and CloseConn change no loop, and dl.conn to nil at most.
LEMMA TakeStepApart ==
  ASSUME ListenerInv, NEW p \in Call, TakeStep(p)
  PROVE  /\ Rest(p) /\ LoopsStay /\ conn' \in {conn, None}
         /\ UNCHANGED <<closing, status>>
         /\ call[p].pc \in TakePc
         /\ call'[p].pc \in {"closeconn", "release", "dispose", "returned"}
<1>1. CallOK /\ conn \in Conn \cup {None} /\ None \in Conn \cup {None}
  BY Typed DEF ListenerInv, TypeOK
<1>2. {"closeconn", "release", "dispose", "returned"} \subseteq Pc
  BY Values DEF TakePc, StartPc, ClosePc
<1>3. CASE TakeConn(p)
  <2>1. Becomes(p, "closeconn", call[p].then, conn, call[p].beat, call[p].again,
                call[p].tries)
    BY <1>1, <1>2, <1>3, HoldEffect DEF TakeConn
  <2>. QED
    BY <1>3, <2>1 DEF TakeConn, Becomes, Rest, LoopsStay, TakePc
<1>4. CASE CloseConn(p)
  <2>. DEFINE pc == IF p \in Starter THEN "release"
                    ELSE IF p \in Disposer THEN "dispose" ELSE "returned"
  <2>1. Becomes(p, pc, call[p].then, None, call[p].beat, call[p].again, call[p].tries)
    BY <1>1, <1>2, <1>4, HoldEffect DEF CloseConn
  <2>. QED
    BY <1>4, <2>1 DEF CloseConn, Becomes, Rest, LoopsStay, TakePc
<1>. QED
  BY <1>3, <1>4 DEF TakeStep

\* Nor do the other steps of cleanup.
LEMMA CleanupStepApart ==
  ASSUME ListenerInv, NEW p \in Starter, CleanupStep(p)
  PROVE  /\ Rest(p) /\ LoopsStay /\ conn' = conn
         /\ UNCHANGED <<manualClose, signalled, status>>
         /\ call[p].pc \in {"unprepare", "release", "finish"}
         /\ call'[p].pc \in {"takeconn", "finish", "returned"}
<1>1. p \in Call /\ CallOK
  BY Kinds, Typed DEF ListenerInv
<1>2. {"takeconn", "finish", "returned"} \subseteq Pc
  BY Values DEF StartPc, TakePc
<1>3. /\ call[p].pc \in {"unprepare", "release", "finish"}
      /\ \E pc \in {"takeconn", "finish", "returned"} : Moves(p, pc)
  BY <1>1, <1>2, GotoEffect DEF CleanupStep, Unprepare, Release, FinishLifecycle
<1>4. UNCHANGED <<manualClose, signalled, status, conn, loop>>
  BY DEF CleanupStep, Unprepare, Release, FinishLifecycle, closing
<1>. QED
  BY <1>3, <1>4 DEF Moves, Becomes, Rest, LoopsStay

\* A listener that dials changes neither loops nor dl.conn.  It goes on to prepare
\* its connection from an attempt only, and only before the listener is signalled.
LEMMA DialMovesApart ==
  ASSUME ListenerInv, NEW p \in Starter, DialMoves(p)
  PROVE  /\ Rest(p) /\ LoopsStay /\ conn' = conn /\ UNCHANGED closing
         /\ call[p].pc \in DialFrom
         /\ \/ call'[p].pc = "stopbeat" /\ call'[p].then = "unprepare"
            \/ call'[p].pc \in {"reconnect", "attempt"}
            \/ /\ call'[p].pc \in {"context", "asking", "entering", "verdict", "url", "dial"}
               /\ call[p].pc # "attempt"
            \/ call'[p].pc = "refresh" /\ call[p].pc = "attempt" /\ ~signalled
<1>1. p \in Call /\ CallOK
  BY Kinds, Typed DEF ListenerInv
<1>2. Dials(p) /\ call[p].pc \in DialFrom
  BY DialMovesDial
<1>3. UNCHANGED <<closing, conn, loop>>
  BY <1>1, DialMovesFrame DEF ListenerInv
<1>4. call'[p].pc = "refresh" => call[p].pc = "attempt" /\ ~signalled
  <2>1. CASE Attempt(p)
    <3>1. call[p].pc = "attempt" /\ (signalled => Cleanup(p))
      BY <2>1 DEF Attempt
    <3>2. Cleanup(p) => call'[p].pc = "stopbeat"
      BY <1>1, CleanupEffect DEF Cleans, Becomes
    <3>. QED
      BY <3>1, <3>2
  <2>2. CASE ~Attempt(p)
    <3>1. \/ \E pc \in {"url", "asking", "entering", "verdict", "dial", "context"} :
               Goto(p, pc)
          \/ Cleanup(p)
          \/ \E offline \in BOOLEAN : ConnectFailed(p, offline)
      <4>1. KnownOffline \in BOOLEAN /\ FALSE \in BOOLEAN
        BY DEF KnownOffline, ListenerInv, TypeOK
      <4>2. p \notin Preparer
        BY Kinds
      <4>3. CASE \/ ReuseContext(p) \/ BeginPrepare(p) \/ PrepareAnswer(p)
                 \/ PrepareFails(p)
        BY <4>1, <4>3 DEF ReuseContext, BeginPrepare, PrepareAnswer, PrepareFails
      <4>4. CASE \/ PageAnswer(p) /\ call[p].pc = "asking"
                 \/ Prepared(p) \/ BuildURL(p)
        BY <4>1, <4>2, <4>4 DEF PageAnswer, Prepared, BuildURL
      <4>5. CASE DialFails(p) \/ DialWithFallback(p) \/ CheckKnownOffline(p)
        BY <4>1, <4>5 DEF DialFails, DialWithFallback, CheckKnownOffline
      <4>. QED
        BY <2>2, <4>3, <4>4, <4>5 DEF DialMoves
    <3>2. ASSUME NEW pc \in {"url", "asking", "entering", "verdict", "dial", "context"},
                 Goto(p, pc)
          PROVE  call'[p].pc = pc
      BY <1>1, <3>2, Values, GotoEffect DEF StartPc, Moves, Becomes
    <3>3. Cleanup(p) => call'[p].pc = "stopbeat"
      BY <1>1, CleanupEffect DEF Cleans, Becomes
    <3>4. ASSUME NEW offline \in BOOLEAN, ConnectFailed(p, offline)
          PROVE  call'[p].pc # "refresh"
      <4>1. call[p].pc \in {"context", "refresh", "verdict", "url", "dial"} \/ Dials(p)
        BY <1>2
      <4>2. call \in [Call -> CallState] /\ p \notin Preparer
        BY <1>1, Kinds DEF CallOK
      <4>3. Goto(p, "reconnect") => call'[p].pc = "reconnect"
        BY <1>1, Values, GotoEffect DEF StartPc, Moves, Becomes
      <4>4. \A v : call' = [call EXCEPT ![p] = v] => call'[p] = v
        BY <1>1, <4>2
      <4>5. CASE call[p].again
        <5>1. call' = [call EXCEPT ![p] = [call[p] EXCEPT !.pc = "attempt",
                                             !.tries = call[p].tries + 1]]
          BY <3>4, <4>2, <4>5 DEF ConnectFailed
        <5>2. call[p] \in CallState
          BY <1>1, <4>2
        <5>3. [call[p] EXCEPT !.pc = "attempt", !.tries = call[p].tries + 1].pc = "attempt"
          BY <5>2, ZenonT(30) DEF CallState
        <5>. QED
          BY <4>4, <5>1, <5>3
      <4>6. CASE ~call[p].again
        BY <3>3, <3>4, <4>2, <4>3, <4>6 DEF ConnectFailed
      <4>. QED
        BY <4>5, <4>6
    <3>. QED
      BY <3>1, <3>2, <3>3, <3>4
  <2>. QED
    BY <2>1, <2>2
<1>5. /\ Rest(p)
      /\ \/ call'[p].pc = "stopbeat" /\ call'[p].then = "unprepare"
         \/ call'[p].pc \in {"reconnect", "attempt", "refresh"}
         \/ /\ call'[p].pc \in {"context", "asking", "entering", "verdict", "url", "dial"}
            /\ call[p].pc # "attempt"
  BY <1>2 DEF Dials, Fails, Cleans, Moves, Becomes, Rest
<1>. QED
  BY <1>2, <1>3, <1>4, <1>5 DEF LoopsStay

\* A listener that reads changes neither loops nor dl.conn.
LEMMA ReadMovesApart ==
  ASSUME ListenerInv, NEW p \in Starter, ReadMoves(p)
  PROVE  /\ Rest(p) /\ loop' = loop /\ conn' = conn /\ UNCHANGED closing
         /\ call[p].pc \in ReadPc
         /\ \/ call'[p].pc = "stopbeat" /\ call'[p].then = "unprepare"
            \/ call'[p].pc = "stopbeat" /\ call'[p].then = "beat" /\ call[p].pc = "ready"
            \/ call'[p].pc \in ReadPc
         /\ call'[p].pc \in {"live", "ready"} => call[p].pc \in {"live", "ready"}
<1>1. p \in Call
  BY Kinds
<1>2. Reads(p) /\ call[p].pc \in ReadPc
  BY ReadMovesRead
<1>3. UNCHANGED <<closing, conn, loop>>
  BY <1>1, ReadMovesFrame DEF ListenerInv
<1>. QED
  BY <1>2, <1>3 DEF Reads, Becomes, Rest

-----------------------------------------------------------------------------
(***************************************************************************)
(* A heartbeat and the connection it was started for.                      *)
(***************************************************************************)
\* What a call of Close or Dispose has done.
Closed ==
  \A p \in Shut :
    /\ call[p].pc # "idle" => manualClose
    /\ call[p].pc \notin {"idle", "unlive", "signal"} => signalled

\* A loop that can be told to stop, or that somebody stops and waits for; one that
\* is alive and not attached was given up by who waited for it.
HoldsPc == {"signalbeat", "waitbeat"}
Attached(h) == beat = h \/ \E p \in Call : call[p].pc \in HoldsPc /\ call[p].beat = h

\* From the moment Start dials until it starts the heartbeat of the new
\* connection, no loop is alive and attached; and as long as it is attached, no
\* loop outlives its connection by more than dl.conn being empty.
QuietPc == (DialPc \ {"attempt", "closeold"}) \cup {"live", "ready", "beat"}
Quiet(p) == call[p].pc \in QuietPc \/ Stopping(p, "beat")
Apart ==
  \A h \in Loop : loop[h].pc # "done" /\ Attached(h) =>
    /\ \A p \in Starter : ~Quiet(p)
    /\ conn \in {None, loop[h].of}
    /\ loop[h].pc = "close" => loop[h].conn \in {None, loop[h].of}

\* Between the start of the heartbeat and the next reconnection, the connection
\* has a loop that goes on, as long as nobody else has asked for the status.
UsePc == {"reset", "read", "reading", "ending"}
InUse ==
  \A p \in Starter :
    call[p].pc \in UsePc /\ isLive /\ ~manualClose /\ conn # None =>
      \E h \in Loop : /\ loop[h].pc \notin {"done", "close"} /\ ~loop[h].stop
                      /\ loop[h].of = conn
BeatInv ==
  /\ Closed
  /\ Apart
  /\ NobodyAsked => InUse

\* A step of a call closes nothing again.
LEMMA ClosedKept ==
  ASSUME Closed, NEW p \in Call, Rest(p),
         manualClose => manualClose', signalled => signalled',
         p \in Shut =>
           /\ call'[p].pc # "idle" => manualClose'
           /\ call'[p].pc \notin {"idle", "unlive", "signal"} => signalled'
  PROVE  Closed'
<1>1. ASSUME NEW q \in Shut
      PROVE  /\ call'[q].pc # "idle" => manualClose'
             /\ call'[q].pc \notin {"idle", "unlive", "signal"} => signalled'
  <2>1. q \in Call
    BY Kinds
  <2>. QED
    BY <2>1 DEF Closed, Rest
<1>. QED
  BY <1>1 DEF Closed

\* A step of a call that does not take another loop attaches none.
LEMMA AttachedKept ==
  ASSUME NEW p \in Call, Rest(p), beat' \in {beat, None}, NEW h \in Loop, Attached(h)',
         call'[p].pc \in HoldsPc /\ call'[p].beat = h => Attached(h)
  PROVE  Attached(h)
<1>1. CASE beat' = h
  <2>1. beat = h
    BY <1>1, NoneAssumption
  <2>. QED
    BY <2>1 DEF Attached
<1>2. CASE \E q \in Call : call'[q].pc \in HoldsPc /\ call'[q].beat = h
  <2>1. PICK q \in Call : call'[q].pc \in HoldsPc /\ call'[q].beat = h
    BY <1>2
  <2>2. CASE q = p
    BY <2>1, <2>2
  <2>3. CASE q # p
    <3>1. call[q].pc \in HoldsPc /\ call[q].beat = h
      BY <2>1, <2>3 DEF Rest
    <3>. QED
      BY <3>1 DEF Attached
  <2>. QED
    BY <2>2, <2>3
<1>. QED
  BY <1>1, <1>2 DEF Attached

\* No attached loop is alive.
AllDone == \A h \in Loop : Attached(h) => loop[h].pc = "done"

\* A step of a call that leaves the loops where they are, takes no other, and
\* leaves the connection or none, keeps a heartbeat apart from the next connection.
LEMMA ApartKept ==
  ASSUME Apart, NEW p \in Call, Rest(p), LoopsStay, conn' \in {conn, None},
         beat' \in {beat, None},
         \A h \in Loop : call'[p].pc \in HoldsPc /\ call'[p].beat = h => Attached(h),
         p \in Starter /\ Quiet(p)' => Quiet(p) \/ AllDone
  PROVE  Apart'
<1>1. ASSUME NEW h \in Loop, loop'[h].pc # "done", Attached(h)'
      PROVE  /\ \A q \in Starter : ~Quiet(q)'
             /\ conn' \in {None, loop'[h].of}
             /\ loop'[h].pc = "close" => loop'[h].conn \in {None, loop'[h].of}
  <2>1. loop[h].pc # "done" /\ Attached(h)
    BY <1>1, AttachedKept DEF LoopsStay
  <2>2. ASSUME NEW q \in Starter
        PROVE  ~Quiet(q)'
    <3>1. CASE q = p
      BY <2>1, <3>1 DEF Apart, AllDone
    <3>2. CASE q # p
      <4>1. call'[q] = call[q]
        BY <3>2, Kinds DEF Rest
      <4>. QED
        BY <2>1, <4>1 DEF Apart, Quiet, Stopping
    <3>. QED
      BY <3>1, <3>2
  <2>. QED
    BY <1>1, <2>1, <2>2 DEF Apart, LoopsStay
<1>. QED
  BY <1>1 DEF Apart

\* Who neither prepares nor asks changes nothing about whether anybody has.
LEMMA AskedKept ==
  ASSUME NEW p \in Call, Rest(p), p \in Starter \cup Shut, NobodyAsked'
  PROVE  NobodyAsked
<1>1. ASSUME NEW q \in Preparer \cup Checker
      PROVE  q # p /\ q \in Call
  BY Kinds
<1>. QED
  BY <1>1 DEF NobodyAsked, Rest

\* No connection is in use while the listener that runs does something else.
LEMMA NotInUse ==
  ASSUME StructInv, NEW p \in Starter, Inside(p), Rest(p), call'[p].pc \notin UsePc
  PROVE  InUse'
<1>1. ASSUME NEW q \in Starter
      PROVE  call'[q].pc \notin UsePc
  <2>1. CASE q # p
    <3>1. call'[q] = call[q] /\ ~Inside(q)
      BY <2>1, Kinds, OthersOut DEF Rest
    <3>. QED
      BY <3>1 DEF Inside, UsePc, StartPc
  <2>. QED
    BY <2>1
<1>. QED
  BY <1>1 DEF InUse

\* Nor is one once the listener is to be closed.
LEMMA ClosedUse ==
  ASSUME manualClose'
  PROVE  InUse'
BY DEF InUse

\* Who stops a loop: the Start that runs, or a call of Close or Dispose that has
\* signalled it.
LEMMA WhoStops ==
  ASSUME ListenerInv, Closed, NEW p \in Call, call[p].pc \in StopPc \cup TakePc
  PROVE  \/ p \in Starter /\ Inside(p)
         \/ p \in Shut /\ manualClose /\ signalled
<1>1. PlaceOK(p)
  BY DEF ListenerInv, StructInv, Places
<1>2. p \in Starter \/ p \in Shut \/ p \in Preparer \cup Checker
  BY DEF Call, Shut
<1>3. p \notin Preparer \cup Checker
  BY <1>1 DEF PlaceOK, StopPc, TakePc, AskPc
<1>4. p \in Starter => Inside(p)
  BY DEF Inside, StartPc
<1>5. p \in Shut => manualClose /\ signalled
  BY DEF Closed, StopPc, TakePc
<1>. QED
  BY <1>2, <1>3, <1>4, <1>5

\* Who stops a loop has taken it from the listener.
LEMMA StopStepHolds ==
  ASSUME ListenerInv, NEW p \in Call, StopStep(p) \/ TakeStep(p)
  PROVE  /\ beat' \in {beat, None}
         /\ \A h \in Loop : call'[p].pc \in HoldsPc /\ call'[p].beat = h => Attached(h)
<1>1. CallOK /\ call[p] \in CallState /\ PlaceOK(p)
  BY Typed DEF ListenerInv, CallOK, StructInv, Places
<1>2. {"signalbeat", "waitbeat"} \subseteq Pc
  BY Values DEF StopPc, StartPc
<1>3. CASE TakeBeat(p)
  <2>1. beat \in Loop \cup {None} /\ call[p].then \in Pc
    BY <1>1 DEF ListenerInv, TypeOK, CallState
  <2>2. Becomes(p, IF beat = None THEN call[p].then ELSE "signalbeat", call[p].then,
                call[p].conn, beat, call[p].again, call[p].tries)
    BY <1>1, <1>2, <1>3, <2>1, HoldBeatEffect DEF TakeBeat
  <2>. QED
    BY <1>3, <2>2 DEF TakeBeat, Becomes, Attached
<1>4. CASE SignalBeat(p)
  <2>1. Moves(p, "waitbeat")
    BY <1>1, <1>2, <1>4, GotoEffect DEF SignalBeat
  <2>. QED
    BY <1>4, <2>1 DEF SignalBeat, Moves, Becomes, Attached, HoldsPc
<1>5. CASE AwaitBeat(p)
  <2>1. call[p].then \in Pc
    BY <1>1 DEF CallState
  <2>2. Becomes(p, call[p].then, call[p].then, call[p].conn, None, call[p].again,
                call[p].tries)
    BY <1>1, <1>5, <2>1, HoldBeatEffect DEF AwaitBeat
  <2>. QED
    BY <1>5, <2>2, NoneAssumption DEF AwaitBeat, Becomes
<1>6. CASE TakeStep(p)
  <2>1. call'[p].pc \notin HoldsPc
    BY <1>6, TakeStepApart DEF HoldsPc
  <2>2. beat' = beat
    BY <1>6 DEF TakeStep, TakeConn, CloseConn
  <2>. QED
    BY <2>1, <2>2
<1>. QED
  BY <1>3, <1>4, <1>5, <1>6 DEF StopStep

\* The steps of stopHeartbeatLoop, and closeCurrentConnection.
LEMMA StopStepBeat ==
  ASSUME ListenerInv, BeatInv, NEW p \in Call, StopStep(p) \/ TakeStep(p)
  PROVE  BeatInv'
<1>1. /\ Rest(p) /\ LoopsStay /\ conn' \in {conn, None}
      /\ UNCHANGED <<closing, status>>
      /\ call[p].pc \in StopPc \cup TakePc
  BY StopStepApart, TakeStepApart
<1>2. \/ /\ call[p].pc \in StopPc /\ call'[p].then = call[p].then
         /\ call'[p].pc \in {call[p].then, "signalbeat", "waitbeat"}
      \/ call'[p].pc \in {"closeconn", "release", "dispose", "returned"}
  BY StopStepApart, TakeStepApart
<1>3. PlaceOK(p) /\ Closed
  BY DEF ListenerInv, StructInv, Places, BeatInv
<1>4. \/ p \in Starter /\ Inside(p)
      \/ p \in Shut /\ manualClose /\ signalled
  BY <1>1, <1>3, WhoStops
<1>5. manualClose' = manualClose /\ signalled' = signalled
  BY <1>1 DEF closing
<1>6. Closed'
  <2>1. p \in Shut => manualClose' /\ signalled'
    BY <1>4, <1>5, Kinds
  <2>. QED
    BY <1>1, <1>3, <1>5, <2>1, ClosedKept
<1>7. p \in Starter /\ Quiet(p)' => Quiet(p)
  BY <1>2, <1>3 DEF PlaceOK, Quiet, QuietPc, Stopping, StopPc, DialPc
<1>8. InUse'
  <2>1. CASE p \in Starter /\ Inside(p)
    <3>1. call'[p].pc \notin UsePc
      BY <1>2, <1>3, <2>1 DEF PlaceOK, UsePc, StopPc
    <3>. QED
      BY <1>1, <2>1, <3>1, NotInUse DEF ListenerInv
  <2>. QED
    BY <1>4, <1>5, <2>1, ClosedUse
<1>9. /\ beat' \in {beat, None}
      /\ \A h \in Loop : call'[p].pc \in HoldsPc /\ call'[p].beat = h => Attached(h)
  BY StopStepHolds
<1>. QED
  BY <1>1, <1>6, <1>7, <1>8, <1>9, ApartKept DEF BeatInv

\* The other steps of cleanup.
LEMMA CleanupStepBeat ==
  ASSUME ListenerInv, BeatInv, NEW p \in Starter, CleanupStep(p)
  PROVE  BeatInv'
<1>1. /\ Rest(p) /\ LoopsStay /\ conn' = conn
      /\ UNCHANGED <<manualClose, signalled, status>>
      /\ call[p].pc \in {"unprepare", "release", "finish"}
      /\ call'[p].pc \in {"takeconn", "finish", "returned"}
  BY CleanupStepApart
<1>2. p \in Call /\ p \notin Shut /\ Inside(p)
  BY <1>1, Kinds DEF Inside, StartPc
<1>3. Closed'
  BY <1>1, <1>2, ClosedKept DEF BeatInv
<1>4. ~Quiet(p)'
  BY <1>1 DEF Quiet, QuietPc, DialPc, Stopping, StopPc
<1>5. InUse'
  <2>1. call'[p].pc \notin UsePc
    BY <1>1 DEF UsePc
  <2>. QED
    BY <1>1, <1>2, <2>1, NotInUse DEF ListenerInv
<1>6. beat' = beat /\ call'[p].pc \notin HoldsPc
  BY <1>1 DEF CleanupStep, Unprepare, Release, FinishLifecycle, HoldsPc
<1>. QED
  BY <1>1, <1>2, <1>3, <1>4, <1>5, <1>6, ApartKept DEF BeatInv

\* A listener that goes on using its connection has used it before, and does not
\* find the session live again meanwhile.
LEMMA ReadUse ==
  ASSUME ListenerInv, NEW p \in Starter, ReadMoves(p), call'[p].pc \in UsePc
  PROVE  call[p].pc \in UsePc /\ (isLive' => isLive)
<1>1. p \in Call /\ p \notin Preparer /\ CallOK
  BY Kinds, Typed DEF ListenerInv
<1>2. ASSUME NEW pc \in {"ready", "ask", "asked", "paged", "decide", "delay", "reconnect"}
      PROVE  ~Goto(p, pc) /\ ~Leave(p, pc)
  <2>1. pc \in Pc
    BY Values DEF StartPc
  <2>2. Goto(p, pc) => call'[p].pc = pc
    BY <1>1, <2>1, GotoEffect DEF Moves, Becomes
  <2>3. Leave(p, pc) => call'[p].pc = pc
    BY <1>1, <2>1, LeaveEffect DEF Becomes
  <2>. QED
    BY <2>2, <2>3 DEF UsePc
<1>3. ~Cleanup(p)
  BY <1>1, CleanupEffect DEF Cleans, Becomes, UsePc
<1>4. ~MarkLive(p) /\ ~HandleReadError(p) /\ ~AskStatus(p) /\ ~StatusFails(p)
      /\ ~Decide(p) /\ ~WaitForDelay(p) /\ ~(Reconnect(p) /\ manualClose)
      /\ ~(PageAnswer(p) /\ call[p].pc # "asking") /\ ~Judge(p)
  BY <1>2, <1>3 DEF MarkLive, HandleReadError, AskStatus, StatusFails, Decide,
                    WaitForDelay, Reconnect, PageAnswer, Judge
<1>5. ~MarkReady(p)
  <2>1. "beat" \in Pc
    BY Values DEF StartPc
  <2>2. StopThen(p, "beat") => call'[p].pc = "stopbeat"
    BY <1>1, <2>1, StopThenEffect DEF Becomes
  <2>. QED
    BY <2>2 DEF MarkReady, UsePc
<1>6. ~StatusAnswer(p)
  <2>1. "judge" \in Pc
    BY Values DEF StartPc
  <2>2. ASSUME NEW live \in BOOLEAN,
               call' = [call EXCEPT ![p] = [@ EXCEPT !.answer = live, !.pc = "judge"]]
        PROVE  call'[p].pc = "judge"
    BY <1>1, <2>1, <2>2, AnswerEffect DEF Moves, Becomes
  <2>. QED
    BY <2>2 DEF StatusAnswer, UsePc
<1>7. ~ReadFails(p)
  <2>1. ASSUME NEW retry \in BOOLEAN,
               call' = [call EXCEPT ![p] = [@ EXCEPT !.conn = None, !.retry = retry,
                                                   !.pc = "readerror"]]
        PROVE  call'[p].pc = "readerror"
    BY <1>1, <2>1, ReadErrorEffect DEF Becomes
  <2>. QED
    BY <2>1 DEF ReadFails, UsePc
<1>8. CASE ResetFailures(p) \/ ReadLoop(p) \/ ReadMessage(p)
  BY <1>8 DEF ResetFailures, ReadLoop, ReadMessage, status, UsePc
<1>9. CASE LiveEnds(p)
  BY <1>9 DEF LiveEnds, SetLiveStatus, status, UsePc
<1>. QED
  BY <1>4, <1>5, <1>6, <1>7, <1>8, <1>9 DEF ReadMoves

\* The steps of a listener that reads.
LEMMA ReadMovesBeat ==
  ASSUME ListenerInv, BeatInv, NEW p \in Starter, ReadMoves(p)
  PROVE  BeatInv'
<1>1. /\ Rest(p) /\ loop' = loop /\ conn' = conn /\ UNCHANGED closing
      /\ call[p].pc \in ReadPc
      /\ \/ call'[p].pc = "stopbeat" /\ call'[p].then = "unprepare"
         \/ call'[p].pc = "stopbeat" /\ call'[p].then = "beat" /\ call[p].pc = "ready"
         \/ call'[p].pc \in ReadPc
      /\ call'[p].pc \in {"live", "ready"} => call[p].pc \in {"live", "ready"}
  BY ReadMovesApart
<1>2. p \in Call /\ p \notin Shut /\ Inside(p)
  BY <1>1, Kinds DEF Inside, StartPc, ReadPc
<1>3. Closed'
  BY <1>1, <1>2, ClosedKept DEF BeatInv, closing
<1>4. LoopsStay
  BY <1>1 DEF LoopsStay
<1>5. Quiet(p)' => Quiet(p)
  BY <1>1 DEF Quiet, QuietPc, DialPc, ReadPc, Stopping, StopPc
<1>6. ASSUME InUse
      PROVE  InUse'
  <2>1. CASE call'[p].pc \notin UsePc
    BY <1>1, <1>2, <2>1, NotInUse DEF ListenerInv
  <2>2. CASE call'[p].pc \in UsePc
    <3>1. call[p].pc \in UsePc /\ (isLive' => isLive)
      BY <2>2, ReadUse
    <3>2. ASSUME NEW q \in Starter, call'[q].pc \in UsePc
          PROVE  call[q].pc \in UsePc
      BY <1>1, <3>1, <3>2, Kinds DEF Rest
    <3>. QED
      BY <1>1, <1>6, <3>1, <3>2 DEF InUse, closing
  <2>. QED
    BY <2>1, <2>2
<1>7. beat' = beat /\ call'[p].pc \notin HoldsPc
  BY <1>1, <1>2, ReadMovesFrame DEF ListenerInv, ReadPc, HoldsPc
<1>. QED
  BY <1>1, <1>2, <1>3, <1>4, <1>5, <1>6, <1>7, ApartKept, AskedKept DEF BeatInv

\* When a reconnection goes on, no heartbeat is attached: the last one was waited
\* for or given up, by Start or by a call of Close that would have cancelled the
\* attempt.
LEMMA AttemptAlone ==
  ASSUME ListenerInv, Closed, NEW p \in Starter, call[p].pc = "attempt", ~signalled
  PROVE  AllDone
<1>. SUFFICES ASSUME NEW h \in Loop, Attached(h)
              PROVE  FALSE
  BY DEF AllDone
<1>1. Inside(p) /\ beat = None
  BY DEF Inside, StartPc, ListenerInv, StructInv, Phases, Beatless, DialPc
<1>2. h # None
  BY NoneAssumption
<1>3. PICK q \in Call : call[q].pc \in HoldsPc /\ call[q].beat = h
  BY <1>1, <1>2 DEF Attached
<1>4. q \in Starter /\ Inside(q)
  BY <1>3, WhoStops DEF StopPc, HoldsPc
<1>. QED
  BY <1>1, <1>3, <1>4 DEF ListenerInv, StructInv, OneRun, HoldsPc

\* The steps of a listener that dials.
LEMMA DialMovesBeat ==
  ASSUME ListenerInv, BeatInv, NEW p \in Starter, DialMoves(p)
  PROVE  BeatInv'
<1>1. /\ Rest(p) /\ LoopsStay /\ conn' = conn /\ UNCHANGED closing
      /\ call[p].pc \in DialFrom
      /\ \/ call'[p].pc = "stopbeat" /\ call'[p].then = "unprepare"
         \/ call'[p].pc \in {"reconnect", "attempt"}
         \/ /\ call'[p].pc \in {"context", "asking", "entering", "verdict", "url", "dial"}
            /\ call[p].pc # "attempt"
         \/ call'[p].pc = "refresh" /\ call[p].pc = "attempt" /\ ~signalled
  BY DialMovesApart
<1>2. p \in Call /\ p \notin Shut /\ Inside(p)
  BY <1>1, Kinds DEF Inside, StartPc, DialFrom, DialPc
<1>3. Closed'
  BY <1>1, <1>2, ClosedKept DEF BeatInv, closing
<1>4. ASSUME Quiet(p)'
      PROVE  Quiet(p) \/ AllDone
  <2>1. CASE call[p].pc = "attempt"
    BY <1>1, <1>4, <2>1, AttemptAlone
    DEF BeatInv, Quiet, QuietPc, DialPc, Stopping, StopPc
  <2>2. CASE call[p].pc # "attempt"
    BY <1>1, <2>2 DEF Quiet, QuietPc, DialFrom
  <2>. QED
    BY <2>1, <2>2
<1>5. InUse'
  <2>1. call'[p].pc \notin UsePc
    BY <1>1 DEF UsePc
  <2>. QED
    BY <1>1, <1>2, <2>1, NotInUse DEF ListenerInv
<1>6. beat' = beat /\ call'[p].pc \notin HoldsPc
  BY <1>1, <1>2, DialMovesFrame DEF ListenerInv, HoldsPc
<1>. QED
  BY <1>1, <1>2, <1>3, <1>4, <1>5, <1>6, ApartKept DEF BeatInv

\* A connection stays in use when nothing that speaks of it changes.
LEMMA UseKept ==
  ASSUME InUse, NEW p \in Call, Rest(p), p \in Starter => call'[p].pc \notin UsePc,
         UNCHANGED <<loop, conn, isLive, manualClose>>
  PROVE  InUse'
<1>1. ASSUME NEW q \in Starter, call'[q].pc \in UsePc
      PROVE  call[q].pc \in UsePc
  BY <1>1, Kinds DEF Rest
<1>. QED
  BY <1>1 DEF InUse

\* StartBeat: the new loop is the only one attached, and it is for dl.conn.
LEMMA StartBeatBeat ==
  ASSUME ListenerInv, BeatInv, NEW p \in Starter, StartBeat(p)
  PROVE  BeatInv'
<1>. DEFINE v == [pc |-> "check", stop |-> FALSE, conn |-> None, of |-> conn]
<1>1. p \in Call /\ p \notin Shut /\ CallOK /\ LoopOK /\ Inside(p)
  BY Kinds, Typed DEF ListenerInv, StartBeat, Inside, StartPc
<1>2. PICK h \in Loop : beat' = h /\ loop' = [loop EXCEPT ![h] = v]
  BY DEF StartBeat, FreeLoop
<1>3. /\ loop'[h].pc = "check" /\ loop'[h].stop = FALSE /\ loop'[h].of = conn
      /\ \A g \in Loop : g # h => loop'[g] = loop[g]
  <2>1. v \in LoopState
    BY DEF LoopState, ListenerInv, TypeOK
  <2>2. v.pc = "check" /\ v.stop = FALSE /\ v.of = conn
    OBVIOUS
  <2>. HIDE DEF v
  <2>. QED
    BY <1>1, <1>2, <2>1, <2>2, BeatEffect DEF BeatBecomes
<1>4. /\ Rest(p) /\ call'[p].pc \in {"reset", "read"} /\ call[p].pc = "beat"
      /\ conn' = conn /\ UNCHANGED closing
  <2>1. {"reset", "read"} \subseteq Pc
    BY Values DEF StartPc
  <2>2. \E pc \in {"reset", "read"} : Moves(p, pc)
    BY <1>1, <2>1, GotoEffect DEF StartBeat
  <2>. QED
    BY <2>2 DEF StartBeat, Moves, Becomes, Rest
<1>5. Closed'
  BY <1>1, <1>4, ClosedKept DEF BeatInv, closing
<1>6. ASSUME Apart
      PROVE  Apart'
  <2>1. AllDone
    BY <1>4, <1>6 DEF Apart, AllDone, Quiet, QuietPc
  <2>2. ASSUME NEW q \in Starter
        PROVE  ~Quiet(q)'
    <3>1. CASE q = p
      BY <1>4, <3>1 DEF Quiet, QuietPc, DialPc, Stopping, StopPc
    <3>2. CASE q # p
      <4>1. call'[q] = call[q] /\ ~Inside(q)
        BY <1>1, <1>4, <3>2, Kinds, OthersOut DEF Rest, ListenerInv
      <4>. QED
        BY <4>1 DEF Inside, Quiet, QuietPc, DialPc, Stopping, StartPc
    <3>. QED
      BY <3>1, <3>2
  <2>3. ASSUME NEW g \in Loop, g # h, Attached(g)'
        PROVE  loop'[g].pc = "done"
    <3>1. PICK q \in Call : call'[q].pc \in HoldsPc /\ call'[q].beat = g
      BY <1>2, <2>3 DEF Attached
    <3>2. q # p
      BY <1>4, <3>1 DEF HoldsPc
    <3>3. Attached(g)
      BY <1>4, <3>1, <3>2 DEF Attached, Rest
    <3>. QED
      BY <1>3, <2>1, <2>3, <3>3 DEF AllDone
  <2>. QED
    BY <1>3, <1>4, <2>2, <2>3 DEF Apart
<1>7. InUse'
  BY <1>3, <1>4 DEF InUse
<1>. QED
  BY <1>5, <1>6, <1>7 DEF BeatInv

\* The other steps that make, install or give up a connection.
LEMMA ConnectMovesBeat ==
  ASSUME ListenerInv, BeatInv, NEW p \in Starter, ConnectMoves(p)
  PROVE  BeatInv'
<1>1. p \in Call /\ p \notin Shut /\ CallOK /\ conn \in Conn \cup {None}
      /\ None \in Conn \cup {None}
  BY Kinds, Typed DEF ListenerInv, TypeOK
<1>2. {"install", "live", "attempt"} \subseteq Pc
  BY Values DEF StartPc
<1>3. CASE DialSucceeds(p)
  <2>1. PICK k \in Conn : Hold(p, k, "install")
    BY <1>3 DEF DialSucceeds, FreeConn
  <2>2. Becomes(p, "install", call[p].then, k, call[p].beat, call[p].again, call[p].tries)
    BY <1>1, <1>2, <2>1, HoldEffect
  <2>3. /\ Rest(p) /\ call'[p].pc = "install" /\ call[p].pc = "dial"
        /\ UNCHANGED <<closing, conn, beat, loop>>
    BY <1>3, <2>2 DEF DialSucceeds, Becomes, Rest
  <2>4. /\ Quiet(p) /\ Inside(p) /\ call'[p].pc \notin UsePc \cup HoldsPc
        /\ LoopsStay
    BY <2>3 DEF Quiet, QuietPc, DialPc, Inside, StartPc, UsePc, HoldsPc, LoopsStay
  <2>. QED
    BY <1>1, <2>3, <2>4, ClosedKept, ApartKept, NotInUse DEF BeatInv, closing, ListenerInv
<1>4. CASE Install(p)
  <2>1. call[p].conn \in Conn \cup {None}
    BY <1>1 DEF CallOK, CallState
  <2>2. Becomes(p, "live", call[p].then, None, call[p].beat, call[p].again, call[p].tries)
    BY <1>1, <1>2, <1>4, HoldEffect DEF Install
  <2>3. /\ Rest(p) /\ call'[p].pc = "live" /\ call[p].pc = "install"
        /\ UNCHANGED <<closing, beat, loop>>
    BY <1>4, <2>2 DEF Install, Becomes, Rest
  <2>4. Quiet(p) /\ Inside(p) /\ call'[p].pc \notin UsePc \cup HoldsPc
    BY <2>3 DEF Quiet, QuietPc, DialPc, Inside, StartPc, UsePc, HoldsPc
  <2>5. ASSUME Apart
        PROVE  Apart'
    <3>1. \A h \in Loop : Attached(h)' => Attached(h)
      BY <1>1, <2>3, <2>4, AttachedKept
    <3>. QED
      BY <2>3, <2>4, <2>5, <3>1 DEF Apart
  <2>. QED
    BY <1>1, <2>3, <2>4, <2>5, ClosedKept, NotInUse DEF BeatInv, closing, ListenerInv
<1>5. CASE CloseOld(p)
  <2>2. Becomes(p, "attempt", call[p].then, None, call[p].beat, call[p].again,
                call[p].tries)
    BY <1>1, <1>2, <1>5, HoldEffect DEF CloseOld
  <2>3. /\ Rest(p) /\ call'[p].pc = "attempt" /\ call[p].pc = "closeold"
        /\ UNCHANGED <<closing, conn, beat, loop>>
    BY <1>5, <2>2 DEF CloseOld, Becomes, Rest
  <2>4. /\ ~Quiet(p)' /\ Inside(p) /\ call'[p].pc \notin UsePc \cup HoldsPc
        /\ LoopsStay
    BY <2>3 DEF Quiet, QuietPc, DialPc, Stopping, StopPc, Inside, StartPc, UsePc, HoldsPc,
                LoopsStay
  <2>. QED
    BY <1>1, <2>3, <2>4, ClosedKept, ApartKept, NotInUse DEF BeatInv, closing, ListenerInv
<1>6. CASE Reconnect(p) /\ ~manualClose
  <2>1. call' = [call EXCEPT ![p] = [@ EXCEPT !.conn = conn, !.again = TRUE,
                   !.tries = 0, !.pc = "stopbeat", !.then = "closeold"]]
    BY <1>6 DEF Reconnect
  <2>2. Becomes(p, "stopbeat", "closeold", conn, call[p].beat, TRUE, 0)
    BY <1>1, <2>1, ReconnectEffect
  <2>3. /\ Rest(p) /\ call'[p].pc = "stopbeat" /\ call'[p].then = "closeold"
        /\ call[p].pc = "reconnect" /\ conn' = None /\ UNCHANGED <<closing, beat, loop>>
    BY <1>6, <2>2 DEF Reconnect, Becomes, Rest
  <2>4. /\ ~Quiet(p)' /\ Inside(p) /\ call'[p].pc \notin UsePc \cup HoldsPc
        /\ LoopsStay
    BY <2>3 DEF Quiet, QuietPc, DialPc, Stopping, StopPc, Inside, StartPc, UsePc, HoldsPc,
                LoopsStay
  <2>. QED
    BY <1>1, <2>3, <2>4, ClosedKept, ApartKept, NotInUse DEF BeatInv, closing, ListenerInv
<1>. QED
  BY <1>3, <1>4, <1>5, <1>6, StartBeatBeat DEF ConnectMoves

\* Start begins with no loop alive.
LEMMA BeginStartBeat ==
  ASSUME ListenerInv, BeatInv, NEW p \in Starter, BeginStart(p)
  PROVE  BeatInv'
<1>1. p \in Call /\ p \notin Shut /\ CallOK
  BY Kinds, Typed DEF ListenerInv
<1>2. {"begun", "returned"} \subseteq Pc
  BY Values DEF StartPc
<1>3. \/ Moves(p, "returned")
      \/ Moves(p, "begun") /\ lifecycle = "new"
  BY <1>1, <1>2, GotoEffect DEF BeginStart
<1>4. /\ UNCHANGED <<manualClose, signalled, isLive, conn, beat, loop>>
      /\ Rest(p) /\ LoopsStay
  BY <1>3 DEF BeginStart, status, Moves, Becomes, Rest, LoopsStay
<1>5. call'[p].pc \in {"begun", "returned"}
      /\ (call'[p].pc = "begun" => \A h \in Loop : loop[h].pc = "done")
  BY <1>3 DEF Moves, Becomes, ListenerInv, StructInv, Phases
<1>6. /\ Quiet(p)' => AllDone
      /\ call'[p].pc \notin UsePc \cup HoldsPc
  BY <1>5 DEF Quiet, QuietPc, DialPc, Stopping, StopPc, UsePc, HoldsPc, AllDone
<1>. QED
  BY <1>1, <1>4, <1>6, ClosedKept, ApartKept, UseKept, AskedKept DEF BeatInv

\* The steps of Close and Dispose that are theirs alone.
LEMMA ShutBeat ==
  ASSUME ListenerInv, BeatInv, NEW p \in Shut,
         BeginClose(p) \/ CloseStatus(p) \/ SignalClose(p) \/ DisposeProfile(p)
  PROVE  BeatInv'
<1>1. p \in Call /\ p \notin Starter /\ CallOK
  BY Kinds, Typed DEF ListenerInv
<1>2. {"unlive", "signal", "takeconn", "returned"} \subseteq Pc
  BY Values DEF ClosePc, TakePc
<1>3. /\ conn' = conn /\ loop' = loop /\ beat' = beat
      /\ manualClose' = IF BeginClose(p) THEN TRUE ELSE manualClose
      /\ signalled' = IF SignalClose(p) THEN TRUE ELSE signalled
  BY DEF BeginClose, CloseStatus, SignalClose, DisposeProfile, closing
<1>4. /\ BeginClose(p) => Moves(p, "unlive") /\ call[p].pc = "idle"
      /\ CloseStatus(p) => Moves(p, "signal") /\ call[p].pc = "unlive"
      /\ SignalClose(p) =>
           /\ Becomes(p, "stopbeat", "takeconn", call[p].conn, call[p].beat,
                      call[p].again, call[p].tries)
           /\ call[p].pc = "signal"
      /\ DisposeProfile(p) => Moves(p, "returned") /\ call[p].pc = "dispose"
  BY <1>1, <1>2, GotoEffect, StopThenEffect
  DEF BeginClose, CloseStatus, SignalClose, DisposeProfile
<1>5. Rest(p) /\ LoopsStay /\ call'[p].pc \notin HoldsPc
  BY <1>3, <1>4 DEF Moves, Becomes, Rest, LoopsStay, HoldsPc
<1>6. /\ manualClose'
      /\ call'[p].pc \notin {"idle", "unlive", "signal"} => signalled'
  <2>1. manualClose \in BOOLEAN /\ signalled \in BOOLEAN
    BY DEF ListenerInv, TypeOK
  <2>. QED
    BY <1>3, <1>4, <2>1 DEF BeatInv, Closed, Moves, Becomes
<1>7. Closed'
  BY <1>1, <1>3, <1>5, <1>6, ClosedKept DEF BeatInv
<1>. QED
  BY <1>1, <1>3, <1>5, <1>6, <1>7, ApartKept, ClosedUse DEF BeatInv

\* The steps of PrepareWebSocketContext and CheckLiveStatus.
LEMMA AskBeat ==
  ASSUME ListenerInv, ListenerInv', BeatInv, NEW p \in Preparer \cup Checker,
         (p \in Preparer /\ PrepareStep(p)) \/ StatusStep(p) \/ SaveStatus(p)
  PROVE  BeatInv'
<1>1. p \in Call /\ p \notin Starter /\ p \notin Shut /\ call \in [Call -> CallState]
  BY Kinds, Typed DEF ListenerInv, CallOK
<1>2. UNCHANGED <<manualClose, signalled, conn, loop>> /\ Rest(p)
  <2>. USE <1>1 DEF Rest, Goto, closing
  <2>1. CASE BeginPrepare(p) \/ PrepareFails(p)
    <3>1. ASSUME NEW offline \in BOOLEAN, ConnectFailed(p, offline)
          PROVE  Rest(p)
      BY <3>1 DEF ConnectFailed, Cleanup
    <3>2. {FALSE, KnownOffline} \subseteq BOOLEAN
      BY DEF KnownOffline, ListenerInv, TypeOK
    <3>. QED
      BY <2>1, <3>1, <3>2 DEF BeginPrepare, PrepareFails
  <2>2. CASE PageAnswer(p) \/ PrepareAnswer(p) \/ Prepared(p)
    BY <2>2 DEF PageAnswer, PrepareAnswer, Prepared
  <2>3. CASE AskStatus(p) \/ StatusAnswer(p) \/ StatusFails(p) \/ SaveStatus(p)
    BY <2>3 DEF AskStatus, StatusAnswer, StatusFails, SaveStatus, Leave
  <2>. QED
    BY <2>1, <2>2, <2>3 DEF PrepareStep, StatusStep
<1>3. LoopsStay
  BY <1>2 DEF LoopsStay
<1>4. beat' = beat
  BY DEF PrepareStep, StatusStep, BeginPrepare, PageAnswer, PrepareAnswer, PrepareFails,
         Prepared, AskStatus, StatusAnswer, StatusFails, SaveStatus, ConnectFailed
<1>5. call'[p].pc \notin HoldsPc
  BY <1>1 DEF ListenerInv, StructInv, Places, PlaceOK, AskPc, HoldsPc
<1>6. call'[p].pc # "idle"
  <2>1. CASE StatusStep(p) \/ SaveStatus(p)
    BY <2>1, CheckerGoes DEF Others, Becomes
  <2>2. CASE p \in Preparer /\ PrepareStep(p) /\ ~PageAnswer(p)
    BY <2>2, PreparerGoes DEF Others, Becomes
  <2>. QED
    BY <2>1, <2>2 DEF StatusStep
<1>7. ~NobodyAsked'
  BY <1>6 DEF NobodyAsked
<1>. QED
  BY <1>1, <1>2, <1>3, <1>4, <1>5, <1>7, ClosedKept, ApartKept DEF BeatInv

\* The steps of a loop: it ends, goes on, or takes away the connection it is for.
LEMMA BeatStepBeat ==
  ASSUME ListenerInv, BeatInv, NEW h \in Loop, BeatStep(h)
  PROVE  BeatInv'
<1>1. LoopOK
  BY Typed DEF ListenerInv
<1>0. UNCHANGED <<closing, beat, call>>
  BY DEF BeatStep, BeatCheck, BeatSend, BeatWrite, BeatRefresh, BeatTick, BeatFails,
         BeatClose
<1>2. /\ Closed' /\ (NobodyAsked' <=> NobodyAsked)
      /\ \A g \in Loop : Attached(g)' <=> Attached(g)
  BY <1>0 DEF BeatInv, Closed, NobodyAsked, Attached, closing
<1>3. CASE BeatMoves(h)
  <2>1. /\ loop[h].pc \in {"check", "send", "write", "refresh", "wait"}
        /\ UNCHANGED <<closing, status, conn, call>>
        /\ \A g \in Loop : g # h => loop'[g] = loop[g]
        /\ \/ loop'[h].pc = "done" /\ (loop[h].stop \/ manualClose \/ ~isLive)
           \/ /\ loop'[h].pc \in {"check", "send", "write", "refresh", "wait", "fail"}
              /\ loop'[h].stop = loop[h].stop /\ loop'[h].of = loop[h].of
    BY <1>3, BeatMovesEffect DEF ListenerInv
  <2>2. Apart => Apart'
    <3>1. \A q \in Starter : Quiet(q)' <=> Quiet(q)
      BY <2>1 DEF Quiet, Stopping
    <3>. QED
      BY <1>2, <2>1, <3>1 DEF Apart
  <2>3. ASSUME InUse
        PROVE  InUse'
    <3>1. SUFFICES ASSUME NEW q \in Starter,
                          call[q].pc \in UsePc, isLive, ~manualClose, conn # None
                   PROVE  \E g \in Loop : /\ loop'[g].pc \notin {"done", "close"}
                                          /\ ~loop'[g].stop /\ loop'[g].of = conn
      BY <2>1 DEF InUse, closing, status
    <3>2. PICK g \in Loop : /\ loop[g].pc \notin {"done", "close"} /\ ~loop[g].stop
                            /\ loop[g].of = conn
      BY <2>3, <3>1 DEF InUse
    <3>3. CASE g = h
      BY <2>1, <3>1, <3>2, <3>3
    <3>4. CASE g # h
      BY <2>1, <3>2, <3>4
    <3>. QED
      BY <3>3, <3>4
  <2>. QED
    BY <1>2, <2>2, <2>3 DEF BeatInv
<1>4. CASE BeatFails(h)
  <2>1. BeatBecomes(h, "close", loop[h].stop, conn, loop[h].of)
    BY <1>4, BeatFailsEffect DEF ListenerInv
  <2>2. conn' = None /\ call' = call /\ loop[h].pc = "fail"
    BY <1>4 DEF BeatFails
  <2>3. Apart => Apart'
    <3>1. \A q \in Starter : Quiet(q)' <=> Quiet(q)
      BY <2>2 DEF Quiet, Stopping
    <3>. QED
      BY <1>2, <2>1, <2>2, <3>1 DEF Apart, BeatBecomes
  <2>4. InUse'
    BY <2>2 DEF InUse
  <2>. QED
    BY <1>2, <2>3, <2>4 DEF BeatInv
<1>5. CASE BeatClose(h)
  <2>1. BeatBecomes(h, "done", FALSE, None, None)
    BY <1>1, <1>5, BeatEndsEffect DEF BeatClose
  <2>2. /\ UNCHANGED <<conn, call, isLive, manualClose>> /\ loop[h].pc = "close"
        /\ \A g \in Loop : g # h => loop'[g] = loop[g]
        /\ loop'[h].pc = "done"
    BY <1>5, <2>1 DEF BeatClose, status, closing, BeatBecomes
  <2>3. Apart => Apart'
    <3>1. \A q \in Starter : Quiet(q)' <=> Quiet(q)
      BY <2>2 DEF Quiet, Stopping
    <3>. QED
      BY <1>2, <2>2, <3>1 DEF Apart
  <2>4. ASSUME InUse
        PROVE  InUse'
    <3>1. SUFFICES ASSUME NEW q \in Starter,
                          call[q].pc \in UsePc, isLive, ~manualClose, conn # None
                   PROVE  \E g \in Loop : /\ loop'[g].pc \notin {"done", "close"}
                                          /\ ~loop'[g].stop /\ loop'[g].of = conn
      BY <2>2 DEF InUse
    <3>2. PICK g \in Loop : /\ loop[g].pc \notin {"done", "close"} /\ ~loop[g].stop
                            /\ loop[g].of = conn
      BY <2>4, <3>1 DEF InUse
    <3>3. g # h
      BY <2>2, <3>2
    <3>. QED
      BY <2>2, <3>2, <3>3
  <2>. QED
    BY <1>2, <2>3, <2>4 DEF BeatInv
<1>. QED
  BY <1>3, <1>4, <1>5 DEF BeatStep, BeatMoves

\* What the invariant speaks of does not change.
LEMMA BeatApart ==
  ASSUME BeatInv, UNCHANGED <<call, loop, conn, beat, isLive, manualClose, signalled>>
  PROVE  BeatInv'
<1>1. Closed'
  BY DEF BeatInv, Closed
<1>2. Apart => Apart'
  BY DEF Apart, Attached, Quiet, Stopping
<1>3. (InUse => InUse') /\ (NobodyAsked' <=> NobodyAsked)
  BY DEF InUse, NobodyAsked
<1>. QED
  BY <1>1, <1>2, <1>3 DEF BeatInv

\* At first nothing is closed, alive or in use.
LEMMA BeatInit == Init => BeatInv
<1>1. ASSUME Init, NEW p \in Call
      PROVE  call[p].pc = "idle"
  BY <1>1 DEF Init
<1>2. ASSUME Init, NEW h \in Loop
      PROVE  loop[h].pc = "done"
  BY <1>2 DEF Init
<1>3. Init => Closed
  BY <1>1, Kinds DEF Closed
<1>4. Init => Apart
  BY <1>2 DEF Apart
<1>5. Init => InUse
  BY DEF Init, InUse
<1>. QED
  BY <1>3, <1>4, <1>5 DEF BeatInv

\* Every step of the system keeps it.
LEMMA BeatStepInv == ListenerInv /\ BeatInv /\ [Next]_vars => BeatInv'
<1>. SUFFICES ASSUME ListenerInv, BeatInv, [Next]_vars
              PROVE  BeatInv'
  OBVIOUS
<1>1. ASSUME NEW p \in Starter, BeginStart(p) \/ RunStep(p)
      PROVE  BeatInv'
  <2>0. p \in Call
    BY Kinds
  <2>1. CASE BeginStart(p)
    BY <2>1, BeginStartBeat
  <2>2. CASE StopStep(p) \/ TakeStep(p)
    BY <2>0, <2>2, StopStepBeat
  <2>3. CASE DialMoves(p)
    BY <2>3, DialMovesBeat
  <2>4. CASE ReadMoves(p)
    BY <2>4, ReadMovesBeat
  <2>5. CASE ConnectMoves(p)
    BY <2>5, ConnectMovesBeat
  <2>6. CASE CleanupStep(p)
    BY <2>6, CleanupStepBeat
  <2>7. CASE PrepareStep(p) \/ StatusStep(p)
    BY <2>3, <2>4, <2>7 DEF PrepareStep, StatusStep, DialMoves, ReadMoves
  <2>8. CASE DialStep(p) \/ ReadStep(p)
    BY <2>3, <2>4, <2>5, <2>8
    DEF DialStep, ReadStep, DialMoves, ReadMoves, ConnectMoves
  <2>. QED
    BY <1>1, <2>1, <2>2, <2>6, <2>7, <2>8 DEF RunStep
<1>2. ASSUME NEW p \in Closer \cup Disposer, BeginClose(p) \/ CloseStep(p)
      PROVE  BeatInv'
  <2>1. p \in Shut /\ p \in Call
    BY DEF Shut, Call
  <2>. QED
    BY <1>2, <2>1, ShutBeat, StopStepBeat DEF CloseStep
<1>3. ASSUME NEW p \in Preparer \cup Checker,
             (p \in Preparer /\ PrepareStep(p)) \/ StatusStep(p) \/ SaveStatus(p)
      PROVE  BeatInv'
  BY <1>3, StepInv, AskBeat
<1>4. ASSUME NEW k \in Conn, Cut(k)
      PROVE  BeatInv'
  BY <1>4, BeatApart DEF Cut, closing, status
<1>5. CASE UNCHANGED vars
  BY <1>5, BeatApart DEF vars, closing, status
<1>. QED
  BY <1>1, <1>2, <1>3, <1>4, <1>5, BeatStepBeat DEF Next

\* The inductive invariant of the heartbeats.
LEMMA BeatInvariant == Spec => [](ListenerInv /\ BeatInv)
<1>1. Init => ListenerInv /\ BeatInv
  BY InitInv, BeatInit
<1>2. ListenerInv /\ BeatInv /\ [Next]_vars => (ListenerInv /\ BeatInv)'
  BY StepInv, BeatStepInv
<1>. QED
  BY <1>1, <1>2, PTL DEF Spec

\* A heartbeat that fails closes no connection but the one it was started for, as
\* long as it was not told to stop or somebody waits for it, however Start, Close and
\* Dispose interleave with it: reconnect stops the loop before it dials, and if a call
\* of Close took the loop, the attempt is given up because closeCtx is cancelled.  Only
\* a loop whose write outlasts the wait of stopHeartbeatLoop may close the connection
\* that follows (heartbeat.go, reconnect.go, lifecycle.go).
THEOREM HeartbeatsHarmless == Spec => HeartbeatHarmless
<1>1. ASSUME ListenerInv, NEW h \in Loop, loop[h].pc # "done", ~GivenUp(h)
      PROVE  Attached(h)
  <2>1. CASE ~loop[h].stop
    BY <1>1, <2>1 DEF ListenerInv, StructInv, OneHeartbeat, Attached, HoldsPc
  <2>2. CASE \E p \in Call : call[p].beat = h
    <3>1. PICK p \in Call : call[p].beat = h
      BY <2>2
    <3>2. call[p].beat # None
      BY <3>1, NoneAssumption
    <3>. QED
      BY <1>1, <3>1, <3>2 DEF ListenerInv, StructInv, Places, HoldOK, Attached, HoldsPc
  <2>. QED
    BY <1>1, <2>1, <2>2 DEF GivenUp
<1>2. ListenerInv /\ BeatInv =>
        [\A h \in Loop :
           loop[h].pc = "close" /\ loop'[h].pc = "done" =>
             loop[h].conn \in {None, loop[h].of} \/ GivenUp(h)]_vars
  BY <1>1 DEF BeatInv, Apart
<1>. QED
  BY <1>2, BeatInvariant, PTL DEF HeartbeatHarmless

\* As long as nobody else has asked for the live status of a listener that runs, a
\* connection that is read has a heartbeat: no loop ends while its connection is in use.
\* (A status check of another call may record offline and then live again: a loop that
\* looks in between ends, and the stream goes on.)  Whether stopHeartbeatLoop waits in
\* vain does not matter here (heartbeat.go, live_status.go, websocket_connection.go).
THEOREM StreamsHaveHeartbeat == Spec => []StreamHasHeartbeat
<1>1. BeatInv => StreamHasHeartbeat
  BY DEF BeatInv, InUse, StreamHasHeartbeat, UsePc
<1>. QED
  BY <1>1, BeatInvariant, PTL
=============================================================================

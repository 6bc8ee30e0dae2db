------------------------------ MODULE Listener ------------------------------
(***************************************************************************)
(* One upstream listener (DouyinLive: lifecycle.go, websocket_connection.go,*)
(* reconnect.go, heartbeat.go, live_status.go): the goroutine that runs    *)
(* Start, dials, reads and reconnects; its heartbeat loops; callers of     *)
(* Close, Dispose, PrepareWebSocketContext and CheckLiveStatus; and an     *)
(* upstream that may drop a connection at any time.                        *)
(*                                                                         *)
(* A step is one critical section of dl.mu, one channel operation, or one  *)
(* network call.  contextMu is held from one step to another, for as long  *)
(* as the requests made under it take.                                     *)
(*                                                                         *)
(* Abstracted: what the requests and messages carry beyond live, offline   *)
(* and the live-end message; writeMu and ACKs (a failed ACK is logged); the *)
(* user agent and HTTP client chosen for a reconnection; delays.           *)
(*                                                                         *)
(* An operator marked "Bug" is a wrong variant of the definition after it; *)
(* no specification here refers to it.                                     *)
(***************************************************************************)
EXTENDS Integers, FiniteSets

CONSTANTS
  Starter, Closer, Disposer, Preparer, Checker,
               \* calls of Start, Close, Dispose, PrepareWebSocketContext and
               \* CheckLiveStatus, each made at most once; a call in both of
               \* the last two sets is one of either kind
  Conn,        \* bound on connections somebody still refers to
  Loop,        \* bound on heartbeat loops alive at once
  None,        \* the nil pointer
  Attempts,    \* defaultMaxRetries (5 in the code)
  BeatTimeout  \* may stopHeartbeatLoop's wait of 1.5 s expire?

Call == Starter \cup Closer \cup Disposer \cup Preparer \cup Checker

ASSUME NoneAssumption == None \notin Conn \cup Loop \cup Call
ASSUME CallAssumption ==
  /\ Starter \cap (Closer \cup Disposer \cup Preparer \cup Checker) = {}
  /\ Closer \cap (Disposer \cup Preparer \cup Checker) = {}
  /\ Disposer \cap (Preparer \cup Checker) = {}
ASSUME BoundAssumption == Attempts \in Nat \ {0} /\ BeatTimeout \in BOOLEAN

VARIABLES
  lifecycle,      \* lifecycleState
  manualClose,
  signalled,      \* closeCtx is cancelled
  isLive,
  known,          \* liveStatusKnown
  confirmations,  \* liveStatusGuard.offlineConfirmations
  failures,       \* consecutiveFailures
  conn,           \* dl.conn
  beat,           \* heartbeatStopCh and heartbeatDoneCh: the loop they are of
  prepared,       \* contextPrepared
  contextMu,      \* the call that holds contextMu, or None
  released,       \* releaseResources has run: the signer is closed
  ready,          \* readyCh is closed
  fallback,       \* the signer has switched to its fallback
  sock,           \* the socket of each connection; an unused one is "closed"
  loop,           \* heartbeat loops; an unused one is "done"
  call            \* the calls of the constants above

status == <<isLive, known, confirmations>>
closing == <<lifecycle, manualClose, signalled>>
context == <<prepared, contextMu, released, fallback>>
vars == <<closing, status, failures, conn, beat, context, ready, sock, loop, call>>

-----------------------------------------------------------------------------
StopPc == {"stopbeat", "signalbeat", "waitbeat"}
TakePc == {"takeconn", "closeconn"}
StartPc == {"begun", "context", "asking", "entering", "verdict", "url", "dial",
            "install", "live", "ready", "beat", "reset", "read", "reading",
            "ending", "readerror", "ask", "asked", "paged", "judge", "decide", "delay",
            "reconnect", "closeold", "attempt", "refresh", "unprepare", "release",
            "finish"}
             \cup StopPc \cup TakePc
ClosePc == {"unlive", "signal", "dispose"} \cup StopPc \cup TakePc
Pc == {"idle", "report", "returned"} \cup StartPc \cup ClosePc

CallState == [pc : Pc,
              then : Pc,                \* where stopHeartbeatLoop returns to
              conn : Conn \cup {None},  \* the connection the call holds
              beat : Loop \cup {None},  \* the loop it is stopping
              again : BOOLEAN,          \* in reconnect, not in startWebSocket
              tries : 0 .. Attempts,    \* attemptIndex of reconnect
              answer : BOOLEAN,         \* what a status check has answered
              retry : BOOLEAN]          \* shouldRetry of the read error
LoopState == [pc : {"check", "send", "write", "refresh", "wait",
                    "fail", "close", "done"},
              stop : BOOLEAN,           \* its stop channel is closed
              conn : Conn \cup {None},  \* the connection it writes to or closes
              of : Conn \cup {None}]    \* the connection it was started for

Goto(p, pc) == call' = [call EXCEPT ![p].pc = pc]
\* Go on at pc with the connection k, or the heartbeat loop h, in hand.
Hold(p, k, pc) == call' = [call EXCEPT ![p] = [@ EXCEPT !.conn = k, !.pc = pc]]
HoldBeat(p, h, pc) == call' = [call EXCEPT ![p] = [@ EXCEPT !.beat = h, !.pc = pc]]
\* Call stopHeartbeatLoop, and go on at pc after it.
StopThen(p, pc) ==
  call' = [call EXCEPT ![p] = [@ EXCEPT !.pc = "stopbeat", !.then = pc]]
\* The locals of reconnect and of a status check end with them.
Cleared(p) == [call[p] EXCEPT !.again = FALSE, !.tries = 0,
                              !.answer = FALSE, !.retry = FALSE]
Leave(p, pc) == call' = [call EXCEPT ![p] = [Cleared(p) EXCEPT !.pc = pc]]
Cleanup(p) ==
  call' = [call EXCEPT
    ![p] = [Cleared(p) EXCEPT !.pc = "stopbeat", !.then = "unprepare"]]
Usable == lifecycle \notin {"closing", "closed"}
KnownLive == known /\ isLive
KnownOffline == known /\ ~isLive
SetLiveStatus(live) ==
  /\ isLive' = live /\ known' = TRUE
  /\ confirmations' = IF live THEN 0 ELSE confirmations

FreeConn ==
  {k \in Conn :
     /\ sock[k] = "closed" /\ conn # k
     /\ \A p \in Call : call[p].conn # k
     /\ \A h \in Loop : k \notin {loop[h].conn, loop[h].of}}
FreeLoop ==
  {h \in Loop : loop[h].pc = "done" /\ beat # h /\ \A p \in Call : call[p].beat # h}

\* consecutiveFailures and offlineConfirmations never pass 1: the listener
\* ends, or a new connection resets both.  The longer delays of reconnectPlan
\* and the second confirmation of the guard are never reached.
TypeOK ==
  /\ lifecycle \in {"new", "running", "closing", "closed"}
  /\ {manualClose, signalled, isLive, known, prepared, released, ready, fallback}
       \subseteq BOOLEAN
  /\ confirmations \in 0 .. 1 /\ failures \in 0 .. 1
  /\ conn \in Conn \cup {None} /\ beat \in Loop \cup {None}
  /\ contextMu \in Call \cup {None}
  /\ sock \in [Conn -> {"open", "cut", "closed"}]
  /\ loop \in [Loop -> LoopState]
  /\ call \in [Call -> CallState]

Init ==
  /\ lifecycle = "new" /\ manualClose = FALSE /\ signalled = FALSE
  /\ isLive = FALSE /\ known = FALSE /\ confirmations = 0 /\ failures = 0
  /\ conn = None /\ beat = None
  /\ prepared = FALSE /\ contextMu = None /\ released = FALSE
  /\ ready = FALSE /\ fallback = FALSE
  /\ sock = [k \in Conn |-> "closed"]
  /\ loop = [h \in Loop |-> [pc |-> "done", stop |-> FALSE,
                             conn |-> None, of |-> None]]
  /\ call = [p \in Call |->
               [pc |-> "idle", then |-> "idle", conn |-> None, beat |-> None,
                again |-> FALSE, tries |-> 0, answer |-> FALSE, retry |-> FALSE]]

-----------------------------------------------------------------------------
(* stopHeartbeatLoop, called by Start and by Close.                        *)

TakeBeat(p) ==
  /\ call[p].pc = "stopbeat"
  /\ beat' = None
  /\ HoldBeat(p, beat, IF beat = None THEN call[p].then ELSE "signalbeat")
  /\ UNCHANGED <<closing, status, failures, conn, context, ready, sock, loop>>

\* Bug: the loop is waited for, and not told to stop.
SignalNothing(p) ==
  /\ call[p].pc = "signalbeat"
  /\ Goto(p, "waitbeat")
  /\ UNCHANGED <<closing, status, failures, conn, beat, context, ready, sock, loop>>
SignalBeat(p) ==
  /\ call[p].pc = "signalbeat"
  /\ loop' = [loop EXCEPT ![call[p].beat].stop = TRUE]
  /\ Goto(p, "waitbeat")
  /\ UNCHANGED <<closing, status, failures, conn, beat, context, ready, sock>>

AwaitBeat(p) ==
  /\ call[p].pc = "waitbeat"
  /\ loop[call[p].beat].pc = "done" \/ BeatTimeout
  /\ HoldBeat(p, None, call[p].then)
  /\ UNCHANGED <<closing, status, failures, conn, beat, context, ready, sock, loop>>

\* closeCurrentConnection, and the end of cleanup: take dl.conn, then close it.
TakeConn(p) ==
  /\ call[p].pc = "takeconn"
  /\ conn' = None
  /\ Hold(p, conn, "closeconn")
  /\ UNCHANGED <<closing, status, failures, beat, context, ready, sock, loop>>

CloseSocket(k) ==
  sock' = IF k = None THEN sock ELSE [sock EXCEPT ![k] = "closed"]
CloseConn(p) ==
  /\ call[p].pc = "closeconn"
  /\ CloseSocket(call[p].conn)
  /\ Hold(p, None, IF p \in Starter THEN "release"
                   ELSE IF p \in Disposer THEN "dispose" ELSE "returned")
  /\ UNCHANGED <<closing, status, failures, conn, beat, context, ready, loop>>

-----------------------------------------------------------------------------
(* Close and Dispose.                                                      *)

BeginClose(p) ==
  /\ call[p].pc = "idle"
  /\ manualClose' = TRUE
  /\ lifecycle' = CASE lifecycle = "new" -> "closed"
                    [] lifecycle = "running" -> "closing"
                    [] OTHER -> lifecycle
  /\ Goto(p, "unlive")
  /\ UNCHANGED <<signalled, status, failures, conn, beat, context, ready, sock, loop>>

CloseStatus(p) ==
  /\ call[p].pc = "unlive"
  /\ SetLiveStatus(FALSE)
  /\ Goto(p, "signal")
  /\ UNCHANGED <<closing, failures, conn, beat, context, ready, sock, loop>>

SignalClose(p) ==
  /\ call[p].pc = "signal"
  /\ signalled' = TRUE
  /\ StopThen(p, "takeconn")
  /\ UNCHANGED <<lifecycle, manualClose, status, failures, conn, beat, context,
                 ready, sock, loop>>

\* Dispose takes contextMu: it waits for the requests in progress.
DisposeProfile(p) ==
  /\ call[p].pc = "dispose" /\ contextMu = None
  /\ released' = TRUE
  /\ Goto(p, "returned")
  /\ UNCHANGED <<closing, status, failures, conn, beat, prepared, contextMu,
                 fallback, ready, sock, loop>>

-----------------------------------------------------------------------------
(* Requests under contextMu: the preparation of a connection.              *)

\* A connection could not be made; "not live" ends the first attempt for good.
ConnectFailed(p, offline) ==
  IF p \in Preparer THEN Goto(p, "returned")
  ELSE IF call[p].again
  THEN call' = [call EXCEPT ![p] = [@ EXCEPT !.pc = "attempt",
                                             !.tries = call[p].tries + 1]]
  ELSE IF offline THEN Cleanup(p) ELSE Goto(p, "reconnect")

\* websocketDialContext: a context prepared before Start is used as it is.
ReuseContext(p) ==
  /\ call[p].pc = "context" /\ prepared
  /\ contextMu = None /\ contextMu' = p
  /\ Goto(p, "url")
  /\ UNCHANGED <<closing, status, failures, conn, beat, prepared, released,
                 fallback, ready, sock, loop>>

\* prepareWebSocketContextLocked, in websocketDialContext, reconnectDialContext
\* or PrepareWebSocketContext.
BeginPrepare(p) ==
  /\ \/ call[p].pc = "context" /\ ~prepared
     \/ call[p].pc = "refresh"
     \/ p \in Preparer /\ call[p].pc = "idle"
  /\ contextMu = None
  /\ IF Usable THEN prepared' = FALSE ELSE UNCHANGED prepared
  /\ \/ Usable /\ contextMu' = p /\ known' = FALSE /\ Goto(p, "asking")
     \/ ConnectFailed(p, FALSE) /\ UNCHANGED <<contextMu, known>>
  /\ UNCHANGED <<closing, isLive, confirmations, failures, conn, beat, released,
                 fallback, ready, sock, loop>>

\* The live page: first in a preparation, and in a status check to which
\* web/enter gave no answer.
PageAnswer(p) ==
  /\ call[p].pc \in {"asking", "asked"}
  /\ \/ known' = FALSE /\ UNCHANGED <<isLive, confirmations>>
     \/ \E live \in BOOLEAN : SetLiveStatus(live)
  /\ Goto(p, IF call[p].pc = "asking" THEN "entering" ELSE "paged")
  /\ UNCHANGED <<closing, failures, conn, beat, context, ready, sock, loop>>
\* web/enter.
PrepareAnswer(p) ==
  /\ call[p].pc = "entering"
  /\ UNCHANGED status \/ \E live \in BOOLEAN : SetLiveStatus(live)
  /\ Goto(p, "verdict")
  /\ UNCHANGED <<closing, failures, conn, beat, context, ready, sock, loop>>

\* Bug: contextMu stays locked on the error path.
PrepareFailsLocked(p) ==
  /\ call[p].pc = "verdict"
  /\ \E offline \in {FALSE, KnownOffline} : ConnectFailed(p, offline)
  /\ UNCHANGED <<closing, status, failures, conn, beat, context, ready, sock, loop>>
PrepareFails(p) ==
  /\ call[p].pc = "verdict"
  /\ contextMu' = None
  /\ \E offline \in {FALSE, KnownOffline} : ConnectFailed(p, offline)
  /\ UNCHANGED <<closing, status, failures, conn, beat, prepared, released,
                 fallback, ready, sock, loop>>
Prepared(p) ==
  /\ call[p].pc = "verdict" /\ KnownLive /\ ~released
  /\ prepared' = TRUE
  /\ IF p \in Preparer
     THEN contextMu' = None /\ Goto(p, "returned")
     ELSE Goto(p, "url") /\ UNCHANGED contextMu
  /\ UNCHANGED <<closing, status, failures, conn, beat, released, fallback,
                 ready, sock, loop>>

\* buildWebsocketURL: a closed signer refuses.
BuildURL(p) ==
  /\ call[p].pc = "url"
  /\ contextMu' = None
  /\ \/ ~released /\ Goto(p, "dial")
     \/ ConnectFailed(p, FALSE)
  /\ UNCHANGED <<closing, status, failures, conn, beat, prepared, released,
                 fallback, ready, sock, loop>>

-----------------------------------------------------------------------------
(* Dialing.                                                                *)

\* dialUpstreamWebSocket gives up a connection made after Close.
DialSucceeds(p) ==
  /\ call[p].pc = "dial" /\ ~signalled
  /\ \E k \in FreeConn :
       /\ sock' = [sock EXCEPT ![k] = "open"]
       /\ Hold(p, k, "install")
  /\ UNCHANGED <<closing, status, failures, conn, beat, context, ready, loop>>
DialFails(p) ==
  /\ call[p].pc = "dial"
  /\ ConnectFailed(p, FALSE)
  /\ UNCHANGED <<closing, status, failures, conn, beat, context, ready, sock, loop>>
\* A native signature was refused: dial once more with the fallback signer.
DialWithFallback(p) ==
  /\ call[p].pc = "dial" /\ ~fallback /\ ~released
  /\ fallback' = TRUE
  /\ Goto(p, "context")
  /\ UNCHANGED <<closing, status, failures, conn, beat, prepared, contextMu,
                 released, ready, sock, loop>>

Install(p) ==
  /\ call[p].pc = "install"
  /\ conn' = call[p].conn
  /\ Hold(p, None, "live")
  /\ UNCHANGED <<closing, status, failures, beat, context, ready, sock, loop>>

MarkLive(p) ==
  /\ call[p].pc = "live"
  /\ SetLiveStatus(TRUE)
  /\ Goto(p, "ready")
  /\ UNCHANGED <<closing, failures, conn, beat, context, ready, sock, loop>>

\* Bug: a reconnection starts no heartbeat.
MarkReadyOnce(p) ==
  /\ call[p].pc = "ready"
  /\ ready' = TRUE
  /\ IF call[p].again THEN Goto(p, "reset") ELSE StopThen(p, "beat")
  /\ UNCHANGED <<closing, status, failures, conn, beat, context, sock, loop>>
MarkReady(p) ==
  /\ call[p].pc = "ready"
  /\ ready' = TRUE
  /\ StopThen(p, "beat")
  /\ UNCHANGED <<closing, status, failures, conn, beat, context, sock, loop>>

StartBeat(p) ==
  /\ call[p].pc = "beat"
  /\ \E h \in FreeLoop :
       /\ beat' = h
       /\ loop' = [loop EXCEPT ![h] = [pc |-> "check", stop |-> FALSE,
                                      conn |-> None, of |-> conn]]
  /\ confirmations' = 0
  /\ Goto(p, IF call[p].again THEN "reset" ELSE "read")
  /\ UNCHANGED <<closing, isLive, known, failures, conn, context, ready, sock>>

\* Bug: a new connection does not end the series of failures.
ResetNothing(p) ==
  /\ call[p].pc = "reset"
  /\ Leave(p, "read")
  /\ UNCHANGED <<closing, status, failures, conn, beat, context, ready, sock, loop>>
ResetFailures(p) ==
  /\ call[p].pc = "reset"
  /\ failures' = 0
  /\ Leave(p, "read")
  /\ UNCHANGED <<closing, status, conn, beat, context, ready, sock, loop>>

-----------------------------------------------------------------------------
(* Start and its read loop.                                                *)

\* Bug: a listener that runs may be started again.
BeginStartTwice(p) ==
  /\ call[p].pc = "idle"
  /\ IF lifecycle \notin {"new", "running"}
     THEN Goto(p, "returned") /\ UNCHANGED lifecycle
     ELSE lifecycle' = "running" /\ Goto(p, "begun")
  /\ UNCHANGED <<manualClose, signalled, status, failures, conn, beat, context,
                 ready, sock, loop>>
BeginStart(p) ==
  /\ call[p].pc = "idle"
  /\ IF lifecycle # "new"
     THEN Goto(p, "returned") /\ UNCHANGED lifecycle
     ELSE IF manualClose \/ signalled
     THEN lifecycle' = "closed" /\ Goto(p, "returned")
     ELSE lifecycle' = "running" /\ Goto(p, "begun")
  /\ UNCHANGED <<manualClose, signalled, status, failures, conn, beat, context,
                 ready, sock, loop>>

CheckKnownOffline(p) ==
  /\ call[p].pc = "begun"
  /\ IF KnownOffline THEN Cleanup(p) ELSE Goto(p, "context")
  /\ UNCHANGED <<closing, status, failures, conn, beat, context, ready, sock, loop>>

ReadLoop(p) ==
  /\ call[p].pc = "read"
  /\ IF isLive
     THEN Hold(p, conn, "reading")
     ELSE Cleanup(p)
  /\ UNCHANGED <<closing, status, failures, conn, beat, context, ready, sock, loop>>

\* A message, of which only the end of the live session matters here.
ReadMessage(p) ==
  /\ call[p].pc = "reading" /\ call[p].conn # None /\ sock[call[p].conn] = "open"
  /\ \E pc \in {"read", "ending"} : Hold(p, None, pc)
  /\ UNCHANGED <<closing, status, failures, conn, beat, context, ready, sock, loop>>
\* A connection that is closed here, or has timed out, is worth a reconnection;
\* one the upstream closed depends on its code.
ReadFails(p) ==
  /\ call[p].pc = "reading"
  /\ \E retry \in IF call[p].conn # None /\ sock[call[p].conn] = "cut"
                  THEN BOOLEAN ELSE {TRUE} :
       call' = [call EXCEPT ![p] = [@ EXCEPT !.conn = None, !.retry = retry,
                                             !.pc = "readerror"]]
  /\ UNCHANGED <<closing, status, failures, conn, beat, context, ready, sock, loop>>

\* Bug: the end of the session is published and nothing else.
LiveEndsUnnoticed(p) ==
  /\ call[p].pc = "ending"
  /\ Goto(p, "read")
  /\ UNCHANGED <<closing, status, failures, conn, beat, context, ready, sock, loop>>
LiveEnds(p) ==
  /\ call[p].pc = "ending"
  /\ IF manualClose \/ ~isLive THEN UNCHANGED status ELSE SetLiveStatus(FALSE)
  /\ Goto(p, "read")
  /\ UNCHANGED <<closing, failures, conn, beat, context, ready, sock, loop>>

\* handleReadError: end here, or ask whether the room is still live.
HandleReadError(p) ==
  /\ call[p].pc = "readerror"
  /\ IF manualClose \/ ~isLive THEN Cleanup(p) ELSE Goto(p, "ask")
  /\ UNCHANGED <<closing, status, failures, conn, beat, context, ready, sock, loop>>

\* fetchLiveStatusFromAPI, for Start and for CheckLiveStatus.
AskStatus(p) ==
  /\ call[p].pc = IF p \in Starter THEN "ask" ELSE "idle"
  /\ contextMu = None
  /\ \/ Usable /\ contextMu' = p /\ known' = FALSE /\ Goto(p, "asked")
     \/ /\ Goto(p, IF p \in Starter THEN "decide" ELSE "returned")
        /\ UNCHANGED <<known, contextMu>>
  /\ UNCHANGED <<closing, isLive, confirmations, failures, conn, beat, prepared,
                 released, fallback, ready, sock, loop>>
StatusAnswer(p) ==
  /\ call[p].pc \in {"asked", "paged"}
  /\ contextMu' = None
  /\ \E live \in BOOLEAN :
       /\ SetLiveStatus(live)
       /\ call' = [call EXCEPT ![p] = [@ EXCEPT
            !.answer = live, !.pc = IF p \in Starter THEN "judge" ELSE "report"]]
  /\ UNCHANGED <<closing, failures, conn, beat, prepared, released, fallback,
                 ready, sock, loop>>
StatusFails(p) ==
  /\ call[p].pc \in {"asked", "paged"}
  /\ contextMu' = None
  /\ Goto(p, IF p \in Starter THEN "decide" ELSE "returned")
  /\ UNCHANGED <<closing, status, failures, conn, beat, prepared, released, fallback,
                 ready, sock, loop>>

\* shouldCloseAfterStatusCheck.
Judge(p) ==
  /\ call[p].pc = "judge"
  /\ LET recorded == IF call[p].answer THEN 0 ELSE confirmations + 1 IN
       /\ confirmations' = recorded
       /\ IF recorded >= 2
          THEN isLive' = FALSE /\ known' = TRUE /\ Cleanup(p)
          ELSE /\ IF call[p].answer THEN isLive' = TRUE /\ known' = TRUE
                                    ELSE UNCHANGED <<isLive, known>>
               /\ Goto(p, "decide")
  /\ UNCHANGED <<closing, failures, conn, beat, context, ready, sock, loop>>

\* reconnectDecision, and recordReconnectFailure.
Decide(p) ==
  /\ call[p].pc = "decide"
  /\ IF manualClose \/ ~call[p].retry
     THEN Cleanup(p) /\ UNCHANGED failures
     ELSE failures' = failures + 1 /\ Leave(p, "delay")
  /\ UNCHANGED <<closing, status, conn, beat, context, ready, sock, loop>>

WaitForDelay(p) ==
  /\ call[p].pc = "delay"
  /\ Goto(p, "reconnect") \/ (signalled /\ Cleanup(p))
  /\ UNCHANGED <<closing, status, failures, conn, beat, context, ready, sock, loop>>

\* Bug: the old heartbeat goes on while a new connection is made.
ReconnectUnderHeartbeat(p) ==
  /\ call[p].pc = "reconnect"
  /\ IF manualClose
     THEN Cleanup(p) /\ UNCHANGED conn
     ELSE /\ conn' = None
          /\ call' = [call EXCEPT ![p] = [@ EXCEPT !.conn = conn, !.again = TRUE,
                        !.tries = 0, !.pc = "closeold"]]
  /\ UNCHANGED <<closing, status, failures, beat, context, ready, sock, loop>>
\* reconnect: give up the old connection and its heartbeat before dialing.
Reconnect(p) ==
  /\ call[p].pc = "reconnect"
  /\ IF manualClose
     THEN Cleanup(p) /\ UNCHANGED conn
     ELSE /\ conn' = None
          /\ call' = [call EXCEPT ![p] = [@ EXCEPT !.conn = conn, !.again = TRUE,
                        !.tries = 0, !.pc = "stopbeat", !.then = "closeold"]]
  /\ UNCHANGED <<closing, status, failures, beat, context, ready, sock, loop>>

\* Bug: the old connection is forgotten.
ForgetOld(p) ==
  /\ call[p].pc = "closeold"
  /\ Hold(p, None, "attempt")
  /\ UNCHANGED <<closing, status, failures, conn, beat, context, ready, sock, loop>>
CloseOld(p) ==
  /\ call[p].pc = "closeold"
  /\ CloseSocket(call[p].conn)
  /\ Hold(p, None, "attempt")
  /\ UNCHANGED <<closing, status, failures, conn, beat, context, ready, loop>>

\* retry.Do.
Attempt(p) ==
  /\ call[p].pc = "attempt"
  /\ IF signalled \/ call[p].tries = Attempts THEN Cleanup(p) ELSE Goto(p, "refresh")
  /\ UNCHANGED <<closing, status, failures, conn, beat, context, ready, sock, loop>>

\* Bug: cleanup leaves the connection to its reader.
UnprepareOnly(p) ==
  /\ call[p].pc = "unprepare" /\ contextMu = None
  /\ prepared' = FALSE
  /\ Goto(p, "release")
  /\ UNCHANGED <<closing, status, failures, conn, beat, contextMu, released,
                 fallback, ready, sock, loop>>
\* cleanup, after stopHeartbeatLoop.
Unprepare(p) ==
  /\ call[p].pc = "unprepare" /\ contextMu = None
  /\ prepared' = FALSE
  /\ Goto(p, "takeconn")
  /\ UNCHANGED <<closing, status, failures, conn, beat, contextMu, released,
                 fallback, ready, sock, loop>>

Release(p) ==
  /\ call[p].pc = "release"
  /\ released' = TRUE
  /\ Goto(p, "finish")
  /\ UNCHANGED <<closing, status, failures, conn, beat, prepared, contextMu,
                 fallback, ready, sock, loop>>

FinishLifecycle(p) ==
  /\ call[p].pc = "finish"
  /\ lifecycle' = "closed"
  /\ Goto(p, "returned")
  /\ UNCHANGED <<manualClose, signalled, status, failures, conn, beat, context,
                 ready, sock, loop>>

\* CheckLiveStatus saves its answer once more, without contextMu.
SaveStatus(p) ==
  /\ call[p].pc = "report"
  /\ SetLiveStatus(call[p].answer)
  /\ Leave(p, "returned")
  /\ UNCHANGED <<closing, failures, conn, beat, context, ready, sock, loop>>

-----------------------------------------------------------------------------
(* A heartbeat loop, and the upstream.                                     *)

BeatGoto(h, pc) == loop' = [loop EXCEPT ![h].pc = pc]
BeatHold(h, k, pc) == loop' = [loop EXCEPT ![h] = [@ EXCEPT !.conn = k, !.pc = pc]]
BeatEnds(h) ==
  loop' = [loop EXCEPT ![h] = [pc |-> "done", stop |-> FALSE,
                             conn |-> None, of |-> None]]

\* Bug: only the end of the live session stops the heartbeat.
BeatCheckLive(h) ==
  /\ loop[h].pc = "check"
  /\ IF ~isLive THEN BeatEnds(h) ELSE BeatGoto(h, "send")
  /\ UNCHANGED <<closing, status, failures, conn, beat, context, ready, sock, call>>
BeatCheck(h) ==
  /\ loop[h].pc = "check"
  /\ IF manualClose \/ ~isLive THEN BeatEnds(h) ELSE BeatGoto(h, "send")
  /\ UNCHANGED <<closing, status, failures, conn, beat, context, ready, sock, call>>

\* writeBinaryMessage takes the connection, then writes to it.
BeatSend(h) ==
  /\ loop[h].pc = "send"
  /\ BeatHold(h, conn, IF conn = None THEN "fail" ELSE "write")
  /\ UNCHANGED <<closing, status, failures, conn, beat, context, ready, sock, call>>
BeatWrite(h) ==
  /\ loop[h].pc = "write"
  /\ \/ sock[loop[h].conn] # "closed" /\ BeatGoto(h, "refresh")
     \/ BeatGoto(h, "fail")
  /\ UNCHANGED <<closing, status, failures, conn, beat, context, ready, sock, call>>
\* refreshCurrentReadDeadline fails if the connection is gone by now.
BeatRefresh(h) ==
  /\ loop[h].pc = "refresh"
  /\ BeatHold(h, None, IF conn = None \/ sock[conn] = "closed"
                       THEN "fail" ELSE "wait")
  /\ UNCHANGED <<closing, status, failures, conn, beat, context, ready, sock, call>>

BeatTick(h) ==
  /\ loop[h].pc = "wait"
  /\ BeatGoto(h, "check") \/ (loop[h].stop /\ BeatEnds(h))
  /\ UNCHANGED <<closing, status, failures, conn, beat, context, ready, sock, call>>

\* closeCurrentConnection closes whatever connection is current.
BeatFails(h) ==
  /\ loop[h].pc = "fail"
  /\ conn' = None
  /\ BeatHold(h, conn, "close")
  /\ UNCHANGED <<closing, status, failures, beat, context, ready, sock, call>>
BeatClose(h) ==
  /\ loop[h].pc = "close"
  /\ CloseSocket(loop[h].conn)
  /\ BeatEnds(h)
  /\ UNCHANGED <<closing, status, failures, conn, beat, context, ready, call>>

Cut(k) ==
  /\ sock[k] = "open"
  /\ sock' = [sock EXCEPT ![k] = "cut"]
  /\ UNCHANGED <<closing, status, failures, conn, beat, context, ready, loop, call>>

-----------------------------------------------------------------------------
StopStep(p) == TakeBeat(p) \/ SignalBeat(p) \/ AwaitBeat(p)
TakeStep(p) == TakeConn(p) \/ CloseConn(p)
PrepareStep(p) ==
  \/ BeginPrepare(p) \/ PageAnswer(p) \/ PrepareAnswer(p)
  \/ PrepareFails(p) \/ Prepared(p)
StatusStep(p) ==
  AskStatus(p) \/ PageAnswer(p) \/ StatusAnswer(p) \/ StatusFails(p)
DialStep(p) ==
  \/ ReuseContext(p) \/ BuildURL(p)
  \/ DialSucceeds(p) \/ DialFails(p) \/ DialWithFallback(p)
  \/ Install(p) \/ MarkLive(p) \/ MarkReady(p) \/ StartBeat(p) \/ ResetFailures(p)
ReadStep(p) ==
  \/ CheckKnownOffline(p) \/ ReadLoop(p) \/ ReadMessage(p) \/ ReadFails(p)
  \/ LiveEnds(p) \/ HandleReadError(p) \/ Judge(p) \/ Decide(p)
  \/ WaitForDelay(p) \/ Reconnect(p) \/ CloseOld(p) \/ Attempt(p)
CleanupStep(p) == Unprepare(p) \/ Release(p) \/ FinishLifecycle(p)
RunStep(p) ==
  \/ StopStep(p) \/ TakeStep(p) \/ PrepareStep(p) \/ StatusStep(p)
  \/ DialStep(p) \/ ReadStep(p) \/ CleanupStep(p)
CloseStep(p) ==
  \/ CloseStatus(p) \/ SignalClose(p) \/ StopStep(p) \/ TakeStep(p)
  \/ DisposeProfile(p)
BeatStep(h) ==
  \/ BeatCheck(h) \/ BeatSend(h) \/ BeatWrite(h) \/ BeatRefresh(h)
  \/ BeatTick(h) \/ BeatFails(h) \/ BeatClose(h)

Next ==
  \/ \E p \in Starter : BeginStart(p) \/ RunStep(p)
  \/ \E p \in Closer \cup Disposer : BeginClose(p) \/ CloseStep(p)
  \/ \E p \in Preparer : PrepareStep(p)
  \/ \E p \in Checker : StatusStep(p) \/ SaveStatus(p)
  \/ \E h \in Loop : BeatStep(h)
  \/ \E k \in Conn : Cut(k)

Spec == Init /\ [][Next]_vars

(***************************************************************************)
(* Fairness.  Every goroutine goes on: requests, dials and writes have time *)
(* limits, tickers tick, a read ends with a message or an error (a silent  *)
(* stream is not told from one that carries messages without consequence). *)
(* Nobody has to call, and the upstream need not drop a connection.        *)
(***************************************************************************)
Fairness ==
  /\ \A p \in Starter : WF_vars(RunStep(p))
  /\ \A p \in Closer \cup Disposer : WF_vars(CloseStep(p))
  /\ \A p \in Preparer : WF_vars(PrepareStep(p) /\ call[p].pc # "idle")
  /\ \A p \in Checker :
       WF_vars((StatusStep(p) \/ SaveStatus(p)) /\ call[p].pc # "idle")
  /\ \A h \in Loop : WF_vars(BeatStep(h))
FairSpec == Spec /\ Fairness

\* The upstream drops a connection that gets no heartbeat any more.
CutSilent(k) ==
  /\ \A h \in Loop : loop[h].pc = "done" \/ loop[h].of # k
  /\ Cut(k)
DropFairness == Fairness /\ \A k \in Conn : WF_vars(CutSilent(k))

-----------------------------------------------------------------------------
(* What must hold.                                                         *)

Inside(p) == call[p].pc \in StartPc
\* A listener runs at most once at a time, and as long as it runs it is not
\* "closed": cleanup releases nothing that another Start still uses.
OneRun ==
  /\ \A p, q \in Starter : Inside(p) /\ Inside(q) => p = q
  /\ lifecycle \in {"running", "closing"} <=> \E p \in Starter : Inside(p)

\* Every connection that is not closed is dl.conn or held by somebody who is
\* about to install or close it: none is forgotten in a reconnection.
ConnectionsOwned ==
  \A k \in Conn : sock[k] # "closed" =>
    \/ conn = k
    \/ \E p \in Call :
         /\ call[p].conn = k
         /\ call[p].pc \in {"install", "closeconn", "closeold"} \cup StopPc
    \/ \E h \in Loop : loop[h].conn = k /\ loop[h].pc = "close"

\* At most one loop has not been told to stop, and it can be told to.
OneHeartbeat ==
  \A h \in Loop :
    loop[h].pc # "done" /\ ~loop[h].stop =>
      beat = h \/ \E p \in Call : call[p].pc = "signalbeat" /\ call[p].beat = h

\* As long as nobody else has asked for the live status, a connection that is
\* read has a heartbeat loop, or the upstream would drop it: no loop ends while
\* its connection is in use.
NobodyAsked == \A p \in Preparer \cup Checker : call[p].pc = "idle"
StreamHasHeartbeat ==
  NobodyAsked => \A p \in Starter :
    /\ call[p].pc = "reading" /\ isLive /\ ~manualClose
    /\ call[p].conn # None /\ call[p].conn = conn
    => \E h \in Loop : loop[h].pc # "done" /\ loop[h].of = conn

\* A heartbeat that fails closes the connection it was started for, never the
\* one that replaced it: unless it was told to stop, and who waited for that
\* gave up, since a write may take longer (5 s) than stopHeartbeatLoop waits.
GivenUp(h) == loop[h].stop /\ \A p \in Call : call[p].beat # h
HeartbeatHarmless ==
  [][\A h \in Loop :
       loop[h].pc = "close" /\ loop'[h].pc = "done" =>
         loop[h].conn \in {None, loop[h].of} \/ GivenUp(h)]_vars

\* When Start has returned and no call of Close is in progress, the listener
\* has no connection, no heartbeat and no signer left, whoever took what; only
\* a loop that stopHeartbeatLoop gave up may still be closing its connection.
NothingLeft ==
  /\ \E p \in Starter : call[p].pc = "returned" /\ call[p].then = "unprepare"
  /\ \A p \in Starter : ~Inside(p)
  /\ \A p \in Closer \cup Disposer : call[p].pc \in {"idle", "returned"}
  => /\ \A k \in Conn : sock[k] # "closed" =>
          BeatTimeout /\ \E h \in Loop : loop[h].pc = "close" /\ loop[h].conn = k
     /\ \A h \in Loop : loop[h].pc # "done" => BeatTimeout /\ loop[h].stop
     /\ released

\* A listener runs at most once at a time, whoever starts it again or asks for
\* its status meanwhile; each of its connections is known to somebody who will
\* close it, one heartbeat loop at most has not been told to stop, and after
\* Start and the calls of Close and Dispose nothing is left.
NothingForgotten == OneRun /\ ConnectionsOwned /\ OneHeartbeat /\ NothingLeft

\* A call of Close or Dispose returns, whatever Start is doing.
CloseReturns ==
  \A p \in Closer \cup Disposer : call[p].pc = "unlive" ~> call[p].pc = "returned"

\* The end of the live session ends Start.
LiveEndEndsStart ==
  \A p \in Starter : call[p].pc = "ending" ~> call[p].pc = "returned"

\* "Close permanently stops this listener": Start returns after Close.
CloseEndsStart == manualClose ~> \A p \in Starter : ~Inside(p)

\* Close comes to its end, and brings Start to its own.
CloseCompletes == CloseReturns /\ CloseEndsStart
=============================================================================

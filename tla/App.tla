--------------------------------- MODULE App ---------------------------------
(***************************************************************************)
(* The process (internal/server/runner.go, app.go).  The main goroutine    *)
(* starts the server in a goroutine, which starts a third one, the         *)
(* watcher; main and watcher both wait for the signal and shut the         *)
(* application down, which is done once.  The process ends with the main   *)
(* goroutine, whatever the others are doing.                               *)
(***************************************************************************)
EXTENDS Naturals

VARIABLES
    ctxDone,    \* SIGINT or SIGTERM came
    ready,      \* the server listens
    main,       \* "starting", "running", "shutdown" or "exited"
    server,     \* app.Run: "starting", "serving" or "ended"
    runErr,     \* what it sent to runErrCh: "none", "closed" (ErrServerClosed) or "failed"
    watcher,    \* "none", "waiting", "shutdown" or "ended"
    once,       \* shutdownOnce: "fresh", "rooms" (being closed), "http" (due), "drain" or "done"
    code        \* of the exit

vars == <<ctxDone, ready, main, server, runErr, watcher, once, code>>

Init ==
    /\ ctxDone = FALSE /\ ready = FALSE
    /\ main = "starting" /\ server = "starting" /\ runErr = "none"
    /\ watcher = "none" /\ once = "fresh" /\ code = 0

Running == main # "exited"

Signal ==
    /\ Running /\ ~ctxDone /\ ctxDone' = TRUE
    /\ UNCHANGED <<ready, main, server, runErr, watcher, once, code>>

\* The server listens, or cannot: a bad port, or none that is free.  It
\* serves until it fails, or finds that HTTP is being shut down.
Listen ==
    /\ Running /\ server = "starting"
    /\ \/ server' = "serving" /\ ready' = TRUE /\ watcher' = "waiting" /\ UNCHANGED runErr
       \/ server' = "ended" /\ runErr' = "failed" /\ UNCHANGED <<ready, watcher>>
    /\ UNCHANGED <<ctxDone, main, once, code>>
Serve ==
    /\ Running /\ server = "serving" /\ server' = "ended"
    /\ runErr' = IF once \in {"drain", "done"} THEN "closed" ELSE "failed"
    /\ UNCHANGED <<ctxDone, ready, main, watcher, once, code>>

\* The watcher: the signal or the end of the server, whichever it sees.
Watch ==
    /\ Running /\ watcher = "waiting"
    /\ \/ ctxDone /\ watcher' = "shutdown"
       \/ server = "ended" /\ watcher' = "ended"
    /\ UNCHANGED <<ctxDone, ready, main, server, runErr, once, code>>

\* Shutdown, by the first who calls it while the other waits: the rooms and
\* the probes are closed, then HTTP, whose open requests get some time.
ShutdownHTTPFirst ==
    /\ Running /\ (main = "shutdown" \/ watcher = "shutdown")
    /\ \/ once = "fresh" /\ once' = "drain"
       \/ once = "drain" /\ once' = "rooms"
       \/ once = "rooms" /\ once' = "done"
    /\ UNCHANGED <<ctxDone, ready, main, server, runErr, watcher, code>>
Shutdown ==
    /\ Running /\ (main = "shutdown" \/ watcher = "shutdown")
    /\ \/ once = "fresh" /\ once' = "rooms"
       \/ once = "rooms" /\ once' = "http"
       \/ once = "http" /\ once' = "drain"
       \/ once = "drain" /\ once' = "done"
    /\ UNCHANGED <<ctxDone, ready, main, server, runErr, watcher, code>>

\* Run: a select whose cases are both there takes either.
AwaitReady ==
    /\ main = "starting"
    /\ \/ ready /\ main' = "running" /\ UNCHANGED code
       \/ runErr # "none" /\ main' = "shutdown" /\ code' = 1
    /\ UNCHANGED <<ctxDone, ready, server, runErr, watcher, once>>
AwaitEnd ==
    /\ main = "running"
    /\ \/ ctxDone /\ main' = "shutdown" /\ UNCHANGED code
       \/ runErr = "failed" /\ main' = "shutdown" /\ code' = 1
       \/ runErr = "closed" /\ main' = "exited" /\ UNCHANGED code
    /\ UNCHANGED <<ctxDone, ready, server, runErr, watcher, once>>
Exit ==
    /\ main = "shutdown" /\ once = "done" /\ main' = "exited"
    /\ code' \in {code, 1}   \* Shutdown may return an error
    /\ UNCHANGED <<ctxDone, ready, server, runErr, watcher, once>>

Next ==
    \/ Signal \/ Listen \/ Serve \/ Watch \/ Shutdown
    \/ AwaitReady \/ AwaitEnd \/ Exit

Spec == Init /\ [][Next]_vars
-----------------------------------------------------------------------------
\* The process never ends before the rooms are closed, also when the main
\* goroutine sees the end of the server and leaves the rest of the shutdown to
\* the watcher; and its status is 0 only after a signal.
RoomsCloseFirst ==
    /\ main = "exited" => once \in {"http", "drain", "done"}
    /\ main = "exited" /\ code = 0 => ctxDone

\* The strengthening that makes it inductive.  The server sees that HTTP is
\* shut down when it is; who shuts down saw the signal, or found the server
\* failed, and the watcher never does so for the latter.
ShutdownHasCause ==
    /\ runErr = "closed" => once \in {"drain", "done"}
    /\ watcher = "shutdown" => ctxDone
    /\ once # "fresh" => ctxDone \/ main \in {"shutdown", "exited"}
    /\ main = "shutdown" => ctxDone \/ code = 1
AppInv == RoomsCloseFirst /\ ShutdownHasCause
=============================================================================

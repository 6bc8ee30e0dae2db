------------------------------ MODULE MCWaits ------------------------------
(***************************************************************************)
(* What must end, for TLC, in one run: `part` says which part is explored. *)
(* "lookups" are the status lookups and their probes, "listener" is one    *)
(* listener with an upstream that drops connections without a heartbeat.   *)
(* They share no state.                                                    *)
(***************************************************************************)
EXTENDS ProbeLookup

CONSTANTS Starter, Closer, Disposer, Preparer, Checker, Conn, Loop, Attempts, BeatTimeout

VARIABLES
    part,
    lifecycle, manualClose, signalled, isLive, known, confirmations, failures, conn, beat,
    prepared, contextMu, released, ready, fallback, sock, loop, calls   \* Listener

L == INSTANCE Listener WITH call <- calls

listenerVars == <<lifecycle, manualClose, signalled, isLive, known, confirmations, failures,
                  conn, beat, prepared, contextMu, released, ready, fallback, sock, loop, calls>>

\* Callers are alike, and so are live ids: it may as well be this caller that
\* makes the first lookup, of this id.
FirstCaller == CHOOSE c \in Caller : TRUE
FirstId == CHOOSE i \in Id : TRUE
FirstLookup ==
    (\A c \in Caller : wants[c] = None) =>
        wants' \in {wants, [wants EXCEPT ![FirstCaller] = FirstId]}

\* Likewise for the connections and heartbeat loops that are free.
FirstFree ==
    /\ \A k \in L!FreeConn : sock'[k] # sock[k] => k = CHOOSE x \in L!FreeConn : TRUE
    /\ \A h \in L!FreeLoop : loop'[h] # loop[h] => h = CHOOSE x \in L!FreeLoop : TRUE

MCInit == part \in {"lookups", "listener"} /\ Init /\ L!Init

MCNext ==
    /\ UNCHANGED part
    /\ part # "lookups" => UNCHANGED vars
    /\ part # "listener" => UNCHANGED listenerVars
    /\ \/ part = "lookups" /\ Next /\ FirstLookup
       \/ part = "listener" /\ L!Next /\ FirstFree

MCSpec == MCInit /\ [][MCNext]_<<part, vars, listenerVars>> /\ Fairness /\ L!DropFairness
-----------------------------------------------------------------------------
\* The end of the live session, or Dispose, ends Start.
LiveEndEndsStart == L!LiveEndEndsStart

\* Dispose returns.
CloseCompletes == L!CloseCompletes
=============================================================================

------------------------------ MODULE MCService ------------------------------
(***************************************************************************)
(* Six parts of the service for TLC, in one run: `part` says which one is *)
(* explored.  They share no state: "queue" is a downstream client,         *)
(* "bus" the message bus, "signer" the local signer of a listener, "app"   *)
(* the process, "rooms" the rooms by key and "file" a saved cookie.        *)
(***************************************************************************)
EXTENDS ClientQueue

CONSTANTS
    Ids, MaxPublished, Goroutines, Sessions, Browsers, Runtimes, Conns, LiveIds, Rooms,
    Savers, MaxCookie, MaxFiles, None

VARIABLES
    part,
    subscribers, used, publisher, published, manualClose, calls,   \* MessageBus
    signer, fallbackMu, at, local, live, madeFor,                  \* Signer
    ctxDone, ready, main, server, runErr, watcher, once, code,     \* App
    rooms, room, conn, closed, closer, left,                       \* RoomManager
    cookie, saver, content, synced, path, entries, temps, crashed, saved   \* CookieFile

Bus == INSTANCE MessageBus WITH Subscriber <- Ids
Local == INSTANCE Signer WITH
    Goroutine <- Goroutines, Session <- Sessions, Browser <- Browsers, Runtime <- Runtimes
Process == INSTANCE App
Manager == INSTANCE RoomManager WITH
    Conn <- Conns, LiveId <- LiveIds, Room <- Rooms, Cookie <- {"a", "b"},
    Stored <- [id \in LiveIds |-> IF id = "own" THEN "a" ELSE None]
File == INSTANCE CookieFile WITH Saver <- Savers

ASSUME RoomsAssumption == Manager!ManagerAssumption

busVars == <<subscribers, used, publisher, published, manualClose, calls>>
signerVars == <<signer, fallbackMu, at, local, live, madeFor>>
appVars == <<ctxDone, ready, main, server, runErr, watcher, once, code>>
managerVars == <<rooms, room, conn, closed, closer, left>>
fileVars == <<cookie, saver, content, synced, path, entries, temps, crashed, saved>>

MCInit ==
    /\ part \in {"queue", "bus", "signer", "app", "rooms", "file"}
    /\ Init /\ Bus!Init /\ Local!Init /\ Process!Init /\ Manager!Init /\ File!Init

MCNext ==
    /\ UNCHANGED part
    /\ part # "queue" => UNCHANGED vars
    /\ part # "bus" => UNCHANGED busVars
    /\ part # "signer" => UNCHANGED signerVars
    /\ part # "app" => UNCHANGED appVars
    /\ part # "rooms" => UNCHANGED managerVars
    /\ part # "file" => UNCHANGED fileVars
    /\ \/ part = "queue" /\ Next
       \/ part = "bus" /\ Bus!Next
       \/ part = "signer" /\ Local!Next
       \/ part = "app" /\ Process!Next
       \/ part = "rooms" /\ Manager!Next
       \/ part = "file" /\ File!Next

MCSpec == MCInit /\ [][MCNext]_<<part, vars, busVars, signerVars, appVars, managerVars, fileVars>> /\ Fairness
-----------------------------------------------------------------------------
\* One message reaches the handlers in order, and none that stays subscribed
\* is left out.
HandlersInOrder == Bus!HandlersInOrder

\* What a close leaves behind: the runtimes of a signer are all closed or
\* still in somebody's hands, the one in place is that of the bound profile,
\* and the process does not end before its rooms are closed.
CloseLosesNothing ==
    /\ Local!TypeOK /\ Local!RuntimesAccounted /\ Local!RuntimeFits
    /\ Process!RoomsCloseFirst

\* An open room is found under its key, a client keeps its room open unless
\* the manager closes, and none is left after that.
RoomsByKey == Manager!TypeOK /\ Manager!RoomsByKey

\* A file of cookies is never torn, and no save is undone by an older one.
FileIsWhole == File!TypeOK /\ File!FileIsWhole
=============================================================================

----------------------------- MODULE RoomManager -----------------------------
(***************************************************************************)
(* The rooms of the service by key (internal/server/room_manager.go), and  *)
(* the HTTP handlers that ask for them.  A handler gets or creates the     *)
(* room of its live id and cookie, then reserves a place in it; the room   *)
(* may end in between, and the handler tries again.  A room that ends      *)
(* first closes itself, under its own lock, and only then takes itself out *)
(* of the map, under the manager's: meanwhile a new room may have come     *)
(* under its key.  Close stops new rooms, then closes those it finds.      *)
(*                                                                         *)
(* What a room does with its clients is Room.tla; here it is busy from its *)
(* first client on, and may be idle again once its clients have left.      *)
(***************************************************************************)
EXTENDS FiniteSets, Naturals

CONSTANTS
    Conn,              \* HTTP requests
    LiveId, Cookie,
    Stored,            \* the configured cookies: [LiveId -> Cookie or None]
    Room,              \* rooms; one is never used again, so that they are a bound
    None

VARIABLES
    rooms,      \* RoomManager.rooms: from keys to rooms, or None
    room,       \* of each room: key, closed, pendingClients, clients, busy, and how far its end
                \* is: "none", "callback" (onClose is due) or "done", by way of "clients"
                \* and "upstream" if it is Close that ends it
    conn,       \* of each request: where it is, its key and its room
    closed,     \* RoomManager.closed
    closer,     \* RoomManager.Close: "idle", "snapshot", "rooms" or "done"
    left        \* the rooms CloseAll has still to close

vars == <<rooms, room, conn, closed, closer, left>>

\* cookieForRoom and roomManagerKey: a cookie of the request comes before the
\* configured one.  The key has a hash of the cookie, which is the cookie here.
CookieForRoom(id, override) == IF override # None THEN override ELSE Stored[id]
Key == LiveId \X (Cookie \cup {None})

Init ==
    /\ rooms = [k \in Key |-> None]
    /\ room = [r \in Room |-> [key |-> None, closed |-> TRUE, pending |-> 0, clients |-> {},
                               busy |-> FALSE, end |-> "none"]]
    /\ conn = [c \in Conn |-> [at |-> "new", key |-> None, room |-> None]]
    /\ closed = FALSE /\ closer = "idle" /\ left = {}

Go(c, at) == conn' = [conn EXCEPT ![c].at = at]

Request(c) ==
    /\ conn[c].at = "new"
    /\ \E id \in LiveId, override \in Cookie \cup {None} :
          conn' = [conn EXCEPT ![c] = [at |-> "acquire", key |-> <<id, CookieForRoom(id, override)>>,
                                       room |-> None]]
    /\ UNCHANGED <<rooms, room, closed, closer, left>>

\* GetOrCreateRoom, under roomsMu: the room in the map unless it is closed.
Fresh == {r \in Room : room[r].key = None}
GetOrCreateRoom(c) ==
    LET k == conn[c].key
        found == rooms[k] # None /\ ~room[rooms[k]].closed
        r == IF found THEN rooms[k] ELSE CHOOSE new \in Fresh : TRUE
    IN  /\ conn[c].at = "acquire" /\ ~closed
        /\ found \/ Fresh # {}
        /\ rooms' = [rooms EXCEPT ![k] = r]
        /\ room' = IF found THEN room ELSE [room EXCEPT ![r].key = k, ![r].closed = FALSE]
        /\ conn' = [conn EXCEPT ![c].at = "reserve", ![c].room = r]
        /\ UNCHANGED <<closed, closer, left>>
Refuse(c) ==
    /\ conn[c].at = "acquire" /\ closed /\ Go(c, "gone")
    /\ UNCHANGED <<rooms, room, closed, closer, left>>

\* reserveClient; AcquireRoom tries again if the room is closed by now.
ReserveClient(c) ==
    LET r == conn[c].room
    IN  /\ conn[c].at = "reserve"
        /\ IF room[r].closed THEN Go(c, "acquire") /\ UNCHANGED room
           ELSE Go(c, "upgrade") /\ room' = [room EXCEPT ![r].pending = @ + 1]
        /\ UNCHANGED <<rooms, closed, closer, left>>

\* removeIfIdle, up to the end of its section.
RemoveIfIdle(r, state) ==
    IF ~state.closed /\ state.clients = {} /\ state.pending = 0 /\ ~state.busy
    THEN [state EXCEPT !.closed = TRUE, !.end = "callback"]
    ELSE state

\* The upgrade fails: releaseClientReservation.
Release(c) ==
    /\ conn[c].at = "upgrade" /\ Go(c, "releasing")
    /\ room' = [room EXCEPT ![conn[c].room].pending = @ - 1]
    /\ UNCHANGED <<rooms, closed, closer, left>>
ReleaseCheck(c) ==
    LET r == conn[c].room
    IN  /\ conn[c].at = "releasing" /\ Go(c, "gone")
        /\ room' = [room EXCEPT ![r] = RemoveIfIdle(r, @)]
        /\ UNCHANGED <<rooms, closed, closer, left>>

\* The upgrade succeeds: AddClient, which closes the client of a closed room.
AddClient(c) ==
    LET r == conn[c].room
    IN  /\ conn[c].at = "upgrade"
        /\ IF room[r].closed
           THEN Go(c, "gone") /\ room' = [room EXCEPT ![r].pending = @ - 1]
           ELSE /\ Go(c, "open")
                /\ room' = [room EXCEPT ![r].pending = @ - 1, ![r].clients = @ \cup {c},
                                        ![r].busy = TRUE]
        /\ UNCHANGED <<rooms, closed, closer, left>>
RemoveClient(c) ==
    /\ conn[c].at = "open" /\ Go(c, "gone")
    /\ room' = [room EXCEPT ![conn[c].room].clients = @ \ {c}]
    /\ UNCHANGED <<rooms, closed, closer, left>>

\* The last background task of a room ends, and checks whether it is idle.
EndTask(r) ==
    /\ room[r].busy /\ room[r].clients = {}
    /\ room' = [room EXCEPT ![r] = RemoveIfIdle(r, [@ EXCEPT !.busy = FALSE])]
    /\ UNCHANGED <<rooms, conn, closed, closer, left>>

\* onClose: the room leaves the map, if it is still the one under its key.
OnCloseUnchecked(r) ==
    /\ room[r].end \in {"callback", "upstream"}
    /\ rooms' = [rooms EXCEPT ![room[r].key] = None]
    /\ room' = [room EXCEPT ![r].end = "done"]
    /\ UNCHANGED <<conn, closed, closer, left>>
OnClose(r) ==
    /\ room[r].end \in {"callback", "upstream"}
    /\ rooms' = [rooms EXCEPT ![room[r].key] = IF @ = r THEN None ELSE @]
    /\ room' = [room EXCEPT ![r].end = "done"]
    /\ UNCHANGED <<conn, closed, closer, left>>

\* Close: no new rooms from here on; then CloseAll, with a copy of the map.
Close ==
    /\ closer = "idle" /\ closed' = TRUE /\ closer' = "snapshot"
    /\ UNCHANGED <<rooms, room, conn, left>>
Snapshot ==
    /\ closer = "snapshot" /\ closer' = "rooms"
    /\ left' = {rooms[k] : k \in Key} \ {None}
    /\ UNCHANGED <<rooms, room, conn, closed>>

\* Room.Close of the next one: it waits, for some time, for one that ends
\* already, and for the tasks of its own.
CloseRoom(r) ==
    /\ closer = "rooms" /\ r \in left /\ ~room[r].closed
    /\ \A s \in left : room[s].end \notin {"clients", "upstream"}
    /\ room' = [room EXCEPT ![r].closed = TRUE, ![r].end = "clients"]
    /\ UNCHANGED <<rooms, conn, closed, closer, left>>
CloseAllClients(r) ==
    /\ room[r].end = "clients"
    /\ room' = [room EXCEPT ![r].end = "upstream", ![r].clients = {}]
    /\ conn' = [c \in Conn |-> IF c \in room[r].clients THEN [conn[c] EXCEPT !.at = "gone"]
                               ELSE conn[c]]
    /\ UNCHANGED <<rooms, closed, closer, left>>
RoomClosed(r) ==
    /\ closer = "rooms" /\ r \in left /\ room[r].end \in {"callback", "done"}
    /\ left' = left \ {r}
    /\ UNCHANGED <<rooms, room, conn, closed, closer>>
CloseReturns ==
    /\ closer = "rooms" /\ left = {} /\ closer' = "done"
    /\ UNCHANGED <<rooms, room, conn, closed, left>>

Next ==
    \/ \E c \in Conn :
          \/ Request(c) \/ GetOrCreateRoom(c) \/ Refuse(c) \/ ReserveClient(c)
          \/ Release(c) \/ ReleaseCheck(c) \/ AddClient(c) \/ RemoveClient(c)
    \/ \E r \in Room :
          EndTask(r) \/ OnClose(r) \/ CloseRoom(r) \/ CloseAllClients(r) \/ RoomClosed(r)
    \/ Close \/ Snapshot \/ CloseReturns

Spec == Init /\ [][Next]_vars
-----------------------------------------------------------------------------
\* A room is no request, and a key is never mistaken for none.
ManagerAssumption ==
    /\ None \notin Room /\ None \notin Key /\ IsFiniteSet(Conn)
    /\ Stored \in [LiveId -> Cookie \cup {None}]

At == {"new", "acquire", "reserve", "upgrade", "releasing", "open", "gone"}
RoomState == [key : Key \cup {None}, closed : BOOLEAN, pending : Nat, clients : SUBSET Conn,
              busy : BOOLEAN, end : {"none", "clients", "upstream", "callback", "done"}]
TypeOK ==
    /\ rooms \in [Key -> Room \cup {None}] /\ room \in [Room -> RoomState]
    /\ conn \in [Conn -> [at : At, key : Key \cup {None}, room : Room \cup {None}]]
    /\ closed \in BOOLEAN /\ closer \in {"idle", "snapshot", "rooms", "done"}
    /\ left \subseteq Room

\* A room that is open is the one under its key, so that two open rooms never
\* stream the same id with the same cookie and Close finds every one; and a
\* room that has ended does not stay in the map.
OpenRoomIsFound ==
    \A r \in Room : room[r].key # None =>
        /\ ~room[r].closed => rooms[room[r].key] = r
        /\ rooms[room[r].key] = r => room[r].end # "done"

\* A reservation or a client keeps its room open, unless Close ends it; and a
\* client is in the room of its own id and cookie.
ClientKeepsRoom ==
    \A c \in Conn :
        LET r == conn[c].room
        IN  /\ conn[c].at \in {"upgrade", "open"} => room[r].key = conn[c].key
            /\ conn[c].at \in {"upgrade", "open"} /\ room[r].closed => closed
            /\ conn[c].at = "open" <=> \E s \in Room : c \in room[s].clients

\* Once Close has returned no room is open and no client is in one.
NothingOutlivesClose ==
    closer = "done" => \A r \in Room : room[r].closed /\ room[r].clients = {}

\* What the manager promises about the rooms under its keys.
RoomsByKey == OpenRoomIsFound /\ ClientKeepsRoom /\ NothingOutlivesClose

\* The strengthening that makes these inductive.  The map names rooms by their
\* own key, and a room that ends is closed.
KeysFit ==
    /\ \A k \in Key : rooms[k] # None => room[rooms[k]].key = k
    /\ \A r \in Room :
          /\ room[r].key = None =>
                room[r].closed /\ room[r].end = "none" /\ room[r].clients = {} /\ ~room[r].busy
          /\ room[r].end # "none" => room[r].closed
          /\ room[r].end \in {"upstream", "callback", "done"} => room[r].clients = {}

\* The places counted in a room are those of the requests that have one, and
\* its clients the requests that stay.
Upgrading(r) == {c \in Conn : conn[c].at = "upgrade" /\ conn[c].room = r}
PlacesCounted ==
    /\ \A r \in Room : room[r].pending = Cardinality(Upgrading(r))
    /\ \A r \in Room : \A c \in room[r].clients : conn[c].at = "open" /\ conn[c].room = r
    /\ \A c \in Conn : conn[c].at = "open" => c \in room[conn[c].room].clients
    /\ \A c \in Conn : conn[c].at # "new" => conn[c].key \in Key
    /\ \A c \in Conn : conn[c].at \in {"reserve", "upgrade", "releasing", "open"} =>
          conn[c].room \in Room /\ room[conn[c].room].key = conn[c].key

\* What Close has still to do: the rooms it found that are open, or whose
\* clients it has not closed yet.  A room that closed itself has none.
CloseProgress ==
    /\ closer # "idle" <=> closed
    /\ \A r \in Room : room[r].end = "clients" => closer = "rooms" /\ r \in left
    /\ \A r \in Room : room[r].closed /\ room[r].end = "none" => room[r].key = None
    /\ closer \in {"rooms", "done"} => \A r \in Room : ~room[r].closed => r \in left
    /\ closer = "done" => left = {}

RoomsInv == TypeOK /\ RoomsByKey /\ KeysFit /\ PlacesCounted /\ CloseProgress
=============================================================================

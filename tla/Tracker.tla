------------------------------ MODULE Tracker ------------------------------
(***************************************************************************)
(* The behaviour log of jsScript/webmssdk.js: handlers of events append to *)
(* lists, a full list is reported, and what may be reported per unit of    *)
(* time is limited.  The account of that is kept in local storage, so that *)
(* a reload of the page does not start it anew.                            *)
(*                                                                         *)
(* The lists that are reported are counts and the last move; every entry   *)
(* has the size 1.  Beside them there are three short logs of recent       *)
(* events.                                                                 *)
(***************************************************************************)
EXTENDS Integers, SequencesExt

CONSTANTS
    Limit,                  \* 500 entries of a list
    RecentLimit, Dropped,   \* 200 recent events, of which 100 are dropped
    MoveGap,                \* 500 ms between two moves
    UnitTime, UnitAmount,   \* the quota
    Spots,                 \* where the mouse may be
    MaxTime, MaxEvents, MaxLoads   \* bounds of the model

Kinds == {"move", "click", "keyboard"}
Lists == Kinds \cup {"windows"}

VARIABLES
    now, events, loads,
    storage,     \* does local storage work?  Its exceptions are swallowed.
    enabled,     \* Cki.enableTrack
    installed,   \* the handlers are (Dle)
    unloading,   \* Cki.triggerUnload
    recent,      \* the logs of recent events: [d, at]
    last,        \* the last entries of the list of moves: at most one [ts, at]
    track        \* lists: the counts; stat: the account (Djo); saved: what storage has;
                 \* accepted: what was reported under the account since stat.sTm, and
                 \* batch: the last of it (both for the property)

vars == <<now, events, loads, storage, enabled, installed, unloading, recent, last, track>>

Empty == [l \in Lists |-> 0]
NoStat == [sTm |-> 0, acc |-> 0]

Init ==
    /\ now = 0 /\ events = 0 /\ loads = 0
    /\ storage \in BOOLEAN /\ enabled \in BOOLEAN
    /\ installed = FALSE /\ unloading = FALSE
    /\ recent = [k \in Kinds |-> <<>>] /\ last = {}
    /\ track = [lists |-> Empty, stat |-> NoStat, saved |-> {}, accepted |-> 0, batch |-> 0]

\* Time passes between events.
Tick ==
    /\ now < MaxTime /\ now' = now + 1
    /\ UNCHANGED <<events, loads, storage, enabled, installed, unloading, recent, last, track>>

\* A page is loaded, maybe again: everything but the storage is as at the
\* start.  The account is read back, or begins now; that is not saved yet.
Load ==
    /\ loads < MaxLoads /\ loads' = loads + 1
    /\ installed' = FALSE /\ unloading' = FALSE
    /\ recent' = [k \in Kinds |-> <<>>] /\ last' = {}
    /\ track' = [track EXCEPT !.lists = Empty,
                              !.stat = IF track.saved = {} THEN [sTm |-> now, acc |-> 0]
                                       ELSE CHOOSE x \in track.saved : TRUE]
    /\ UNCHANGED <<now, events, storage, enabled>>

\* The handlers are installed once.
Install ==
    /\ loads > 0 /\ ~installed /\ installed' = TRUE
    /\ UNCHANGED <<now, events, loads, storage, enabled, unloading, recent, last, track>>

\* The report: all lists are taken.  If the unit of time is over a new one
\* begins with this report; else it is sent while there is quota left, and
\* lost otherwise.  (The mode that is sent anyway has no caller left.)
FlushUnsaved(t) ==
    LET size == t.lists.move + t.lists.click + t.lists.keyboard + t.lists.windows
        same == now < t.stat.sTm + UnitTime
        stat == IF same THEN [t.stat EXCEPT !.acc = @ + size] ELSE [sTm |-> now, acc |-> size]
    IN  IF size = 0 THEN t
        ELSE IF same /\ t.stat.acc >= UnitAmount THEN [t EXCEPT !.lists = Empty]
        ELSE [t EXCEPT !.lists = Empty, !.stat = stat,
                       !.saved = IF storage /\ ~same THEN {stat} ELSE @,
                       !.accepted = IF same THEN @ + size ELSE size, !.batch = size]
Flush(t) ==
    LET size == t.lists.move + t.lists.click + t.lists.keyboard + t.lists.windows
        same == now < t.stat.sTm + UnitTime
        stat == IF same THEN [t.stat EXCEPT !.acc = @ + size] ELSE [sTm |-> now, acc |-> size]
    IN  IF size = 0 THEN t
        ELSE IF same /\ t.stat.acc >= UnitAmount THEN [t EXCEPT !.lists = Empty]
        ELSE [t EXCEPT !.lists = Empty, !.stat = stat,
                       !.saved = IF storage THEN {stat} ELSE @,
                       !.accepted = IF same THEN @ + size ELSE size, !.batch = size]

\* The log of recent events: the older half is dropped when it is long, and
\* an event at the time, or at the place, of the one before is left out.
Recent(log, kind, at) ==
    LET rest == IF Len(log) > RecentLimit THEN SubSeq(log, Dropped + 1, Len(log)) ELSE log
        again == /\ rest # <<>>
                 /\ \/ now <= Last(rest).d
                    \/ kind # "keyboard" /\ at = Last(rest).at
    IN  IF again THEN rest ELSE Append(rest, [d |-> now, at |-> at])

\* The list that is reported: a full one is reported first (one of keys is
\* full one later); a move to where the last one was, or too soon after it,
\* is left out.
Full(kind) == IF kind = "keyboard" THEN track.lists[kind] > Limit ELSE track.lists[kind] >= Limit
Push(kind, at) ==
    LET flush == enabled /\ Full(kind)
        t == IF flush THEN Flush(track) ELSE track
        before == IF flush THEN {} ELSE last
        skip == ~enabled \/ (kind = "move" /\ \E m \in before : m.at = at \/ now - m.ts < MoveGap)
    IN  /\ track' = IF skip THEN t ELSE [t EXCEPT !.lists[kind] = @ + 1]
        /\ last' = IF kind = "move" /\ ~skip THEN {[ts |-> now, at |-> at]} ELSE before

\* The handlers of moves, of clicks and touches, and of keys, where at is
\* whether a modifier is down.
Event(kind, at) ==
    /\ installed /\ events < MaxEvents /\ events' = events + 1
    /\ recent' = [recent EXCEPT ![kind] = Recent(@, kind, at)]
    /\ Push(kind, at)
    /\ UNCHANGED <<now, loads, storage, enabled, installed, unloading>>

\* The window is shown or hidden.
Visibility ==
    /\ loads > 0 /\ events < MaxEvents /\ events' = events + 1
    /\ track' = [track EXCEPT !.lists.windows = @ + 1]
    /\ UNCHANGED <<now, loads, storage, enabled, installed, unloading, recent, last>>

\* The timer that the constructor sets when it enables the log.
Report ==
    /\ loads > 0 /\ enabled
    /\ track' = Flush(track) /\ last' = {}
    /\ UNCHANGED <<now, events, loads, storage, enabled, installed, unloading, recent>>

\* beforeunload and unload: the first of them reports.
Unload ==
    /\ loads > 0 /\ ~unloading /\ unloading' = TRUE
    /\ track' = IF enabled THEN Flush(track) ELSE track
    /\ last' = IF enabled THEN {} ELSE last
    /\ UNCHANGED <<now, events, loads, storage, enabled, installed, recent>>

Next ==
    \/ Tick \/ Load \/ Install \/ Visibility \/ Report \/ Unload
    \/ \E kind \in Kinds, at \in Spots : Event(kind, at)

Spec == Init /\ [][Next]_vars
-----------------------------------------------------------------------------
\* The lists keep within their limits however reports and events alternate,
\* the account agrees with what was reported in this unit of time, also
\* after reloads in between, and each report but the first of a unit began
\* within the quota.
QuotaKept ==
    /\ \A k \in Kinds : track.lists[k] <= (IF k = "keyboard" THEN Limit + 1 ELSE Limit)
    /\ \A k \in Kinds : Len(recent[k]) <= RecentLimit + 1
    /\ \A k \in Kinds : \A i, j \in DOMAIN recent[k] : i < j => recent[k][i].d < recent[k][j].d
    /\ storage /\ loads > 0 => track.stat.acc = track.accepted
    /\ storage => track.accepted - track.batch < UnitAmount

\* The limits allow for at least one entry.
TrackerAssumption ==
    /\ {Limit, Dropped, UnitAmount} \subseteq Nat \ {0}
    /\ {RecentLimit, MoveGap, UnitTime, MaxTime, MaxEvents, MaxLoads} \subseteq Nat

\* The strengthening that makes it inductive.  Where storage works, it has the
\* account as it stands, or nothing was reported yet; recent events are in
\* the past.
Stat == [sTm : Nat, acc : Nat]
TypeOK ==
    /\ now \in Nat /\ loads \in Nat /\ storage \in BOOLEAN /\ enabled \in BOOLEAN
    /\ recent \in [Kinds -> Seq([d : Nat, at : Spots])]
    /\ last \subseteq [ts : Nat, at : Spots]
    /\ track \in [lists : [Lists -> Nat], stat : Stat, saved : SUBSET Stat, accepted : Nat,
                  batch : Nat]
AccountSaved ==
    /\ storage => \/ track.saved = {} /\ track.accepted = 0 /\ track.stat.acc = 0
                  \/ track.saved = {track.stat}
    /\ loads = 0 => track.accepted = 0 /\ track.stat.acc = 0 /\ ~installed
    /\ \A k \in Kinds : \A i \in DOMAIN recent[k] : recent[k][i].d <= now
TrackerInv == TypeOK /\ QuotaKept /\ AccountSaved
=============================================================================

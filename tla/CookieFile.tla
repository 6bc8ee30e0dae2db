----------------------------- MODULE CookieFile -----------------------------
(***************************************************************************)
(* A cookie manager and its file (sign/cookie_manager.go).  SaveConfig     *)
(* writes a temporary file, syncs it, renames it over the old file and     *)
(* tries to sync the directory; each step may fail, several goroutines may *)
(* save at once, and the process or the machine may stop anywhere.  The    *)
(* lock of the manager is held, for reading, during a whole save.          *)
(*                                                                         *)
(* The file system is external: a write reaches the disk by a sync or at   *)
(* any time before; a rename is seen at once by other processes, and is    *)
(* certain to survive a loss of power after a sync of the directory.       *)
(***************************************************************************)
EXTENDS Integers, Sequences

CONSTANTS
    Saver,      \* goroutines that save
    MaxCookie,  \* bound of the model: how often the cookie is set
    MaxFiles    \* bound of the model: files made

VARIABLES
    cookie,     \* the one in memory: 0, 1, 2, ... in the order in which they were set
    saver,      \* of each: where it is, what it writes and to which file
    content,    \* of the files made so far, in order; one that is not written, or lost, is Torn
    synced,     \* the files that are on disk
    path,       \* the file that has the name; file 1 is there from the beginning
    entries,    \* the files that may have the name after a loss of power
    temps,      \* the files that have a temporary name
    crashed,    \* the process stopped before (some temporary names are left over)
    saved       \* for the property: the newest cookie that was saved, and the newest one
                \* whose name was synced

vars == <<cookie, saver, content, synced, path, entries, temps, crashed, saved>>
files == <<content, synced, path, entries, temps, crashed>>

Torn == -1
Idle == [at |-> "idle", data |-> 0, file |-> 1]
NewerOf(x, y) == IF x > y THEN x ELSE y

Init ==
    /\ cookie = 0 /\ saver = [p \in Saver |-> Idle]
    /\ content = <<0>> /\ synced = {1} /\ path = 1 /\ entries = {1}
    /\ temps = {} /\ crashed = FALSE /\ saved = [name |-> 0, disk |-> 0]

\* SetDouyinCookie and UpdateCookie wait for the saves.
SetCookie ==
    /\ \A p \in Saver : saver[p].at = "idle"
    /\ cookie < MaxCookie /\ cookie' = cookie + 1
    /\ UNCHANGED <<saver, files, saved>>

\* SaveConfig takes the lock and the cookie; a symbolic link is refused, as
\* is a directory where no file can be made.
Begin(p) ==
    /\ saver[p].at = "idle" /\ Len(content) < MaxFiles
    /\ content' = Append(content, Torn) /\ temps' = temps \cup {Len(content) + 1}
    /\ saver' = [saver EXCEPT ![p] = [at |-> "write", data |-> cookie, file |-> Len(content) + 1]]
    /\ UNCHANGED <<cookie, synced, path, entries, crashed, saved>>
Write(p) ==
    /\ saver[p].at = "write"
    /\ content' = [content EXCEPT ![saver[p].file] = saver[p].data]
    /\ saver' = [saver EXCEPT ![p].at = "sync"]
    /\ UNCHANGED <<cookie, synced, path, entries, temps, crashed, saved>>
SyncNothing(p) ==
    /\ saver[p].at = "sync"
    /\ saver' = [saver EXCEPT ![p].at = "rename"]
    /\ UNCHANGED <<cookie, files, saved>>
Sync(p) ==
    /\ saver[p].at = "sync"
    /\ synced' = synced \cup {saver[p].file}
    /\ saver' = [saver EXCEPT ![p].at = "rename"]
    /\ UNCHANGED <<cookie, content, path, entries, temps, crashed, saved>>

\* Any of these steps fails: the temporary file is removed.
Fail(p) ==
    /\ saver[p].at \in {"write", "sync", "rename"}
    /\ temps' = temps \ {saver[p].file} /\ saver' = [saver EXCEPT ![p] = Idle]
    /\ UNCHANGED <<cookie, content, synced, path, entries, crashed, saved>>

Rename(p) ==
    /\ saver[p].at = "rename"
    /\ path' = saver[p].file /\ entries' = entries \cup {saver[p].file}
    /\ temps' = temps \ {saver[p].file}
    /\ saver' = [saver EXCEPT ![p].at = "directory"]
    /\ UNCHANGED <<cookie, content, synced, crashed, saved>>

\* The directory is synced, or cannot be, and the save succeeds.
SyncDirectory(p) ==
    LET name == NewerOf(saved.name, saver[p].data)
    IN  /\ saver[p].at = "directory" /\ saver' = [saver EXCEPT ![p] = Idle]
        /\ \/ entries' = {path}
              /\ saved' = [name |-> name, disk |-> NewerOf(saved.disk, saver[p].data)]
           \/ UNCHANGED entries /\ saved' = [saved EXCEPT !.name = name]
        /\ UNCHANGED <<cookie, content, synced, path, temps, crashed>>

\* The process stops, and is started again with the cookie of the file
\* (LoadConfig).  With the power, what was not synced may be lost.
Load == cookie' = content'[path'] /\ saver' = [p \in Saver |-> Idle]
Kill ==
    /\ ~crashed /\ crashed' = TRUE
    /\ UNCHANGED <<content, synced, path, entries, temps, saved>> /\ Load
LosePower ==
    /\ ~crashed /\ crashed' = TRUE
    /\ path' \in entries /\ entries' = {path'}
    /\ \E lost \in SUBSET (DOMAIN content \ synced) :
          content' = [f \in DOMAIN content |-> IF f \in lost THEN Torn ELSE content[f]]
    /\ saved' = [saved EXCEPT !.name = saved.disk]
    /\ UNCHANGED <<synced, temps>> /\ Load

Next ==
    \/ SetCookie \/ Kill \/ LosePower
    \/ \E p \in Saver :
          Begin(p) \/ Write(p) \/ Sync(p) \/ Rename(p) \/ SyncDirectory(p) \/ Fail(p)

Spec == Init /\ [][Next]_vars
-----------------------------------------------------------------------------
TypeOK ==
    /\ cookie \in Nat
    /\ saver \in [Saver -> [at : {"idle", "write", "sync", "rename", "directory"},
                            data : Nat, file : DOMAIN content]]
    /\ content \in Seq(Nat \cup {Torn}) /\ synced \subseteq DOMAIN content
    /\ path \in entries /\ entries \subseteq DOMAIN content /\ temps \subseteq DOMAIN content
    /\ crashed \in BOOLEAN /\ saved \in [name : Nat, disk : Nat]

\* Whatever fails or stops, the file has one whole cookie, never an older one
\* than a save that succeeded left there; and no temporary file stays behind
\* unless the process was stopped.
FileIsWhole ==
    /\ content[path] # Torn /\ content[path] >= saved.name
    /\ \A f \in entries : content[f] # Torn /\ content[f] >= saved.disk
    /\ ~crashed => temps \subseteq {saver[p].file : p \in Saver}

\* The strengthening that makes it inductive.  What may have the name was
\* synced before and is whole; a save writes to a file of its own, the cookie
\* that is in memory until it ends, and has synced it before it renames it.
NamesAreSynced ==
    /\ entries \subseteq synced /\ \A f \in synced : content[f] # Torn
    /\ saved.disk <= saved.name /\ saved.name <= cookie
SavesTheCookie ==
    \A p \in Saver :
        /\ saver[p].at # "idle" => saver[p].data = cookie
        /\ saver[p].at \in {"sync", "rename"} => content[saver[p].file] = cookie
        /\ saver[p].at = "write" => saver[p].file \notin synced
        /\ saver[p].at = "rename" => saver[p].file \in synced
        /\ saver[p].at = "directory" => content[path] = cookie
        /\ \A q \in Saver \ {p} :
              saver[p].at = "write" /\ saver[q].at # "idle" => saver[p].file # saver[q].file
TempsAreInUse ==
    ~crashed => \A f \in temps : \E p \in Saver :
        saver[p].file = f /\ saver[p].at \in {"write", "sync", "rename"}
FileInv == TypeOK /\ FileIsWhole /\ NamesAreSynced /\ SavesTheCookie /\ TempsAreInUse
=============================================================================

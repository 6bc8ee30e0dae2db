---------------------------- MODULE ClientQueue ----------------------------
(***************************************************************************)
(* One downstream client (internal/server/room_client.go): the bounded     *)
(* queue that broadcasts fill, the write loop that empties it, the pongs   *)
(* of the reading goroutine, and the closing handshake, which may be asked *)
(* for by a removal, by the write loop itself or by a broadcast that finds *)
(* the client too slow.                                                    *)
(*                                                                         *)
(* Three goroutines write to the connection, one at a time under writeMu:  *)
(* "loop", "pong" and "closer".  A write blocks until the peer takes it,   *)
(* the deadline of the connection passes, or the connection is closed.     *)
(* stateMu guards short sections and is not held across a step, so that    *)
(* what happens under it is one step.                                      *)
(***************************************************************************)
EXTENDS Integers, SequencesExt

CONSTANTS
    Sizes,         \* the sizes of messages
    MaxQueue,      \* clientSendQueueSize
    MaxBytes,      \* maxClientQueuedBytes
    MaxMessage,    \* maxClientMessageBytes
    MaxMessages, MaxPongs   \* bounds of the model

ASSUME SizesAssumption == Sizes \subseteq Nat
ASSUME LimitsAssumption == MaxQueue \in Nat /\ MaxBytes \in Nat

VARIABLES
    inRoom,       \* the client is in the room's map
    sendQueue,    \* the messages that wait: [id, size]
    queuedBytes,
    made, pongs,  \* how many messages were accepted, and pongs written (bounds)
    taken,        \* the message the write loop has, if any: a sequence
    pc,           \* where the three writers and the batch close are
    writeMu,      \* the writer that has it, or "none"
    stopCh,       \* closed: the close has begun
    final,        \* the directive of the close has a last message
    deadline,     \* of writes: "none", "data" (5 s), "control" (1 s) or "past"
    netClosed,
    sent          \* what the peer was sent: ids of messages, 0 for a pong, -1 for the last
                  \* message and -2 for the close frame

vars == <<inRoom, sendQueue, queuedBytes, made, pongs, taken, pc, writeMu, stopCh, final,
          deadline, netClosed, sent>>
net == <<deadline, netClosed, sent>>
books == <<sendQueue, queuedBytes, made, pongs, taken>>

Pong == 0
Final == -1
CloseFrame == -2
Frames == Nat \cup {Final, CloseFrame}
Writers == {"loop", "pong", "closer"}

Init ==
    /\ inRoom = TRUE /\ sendQueue = <<>> /\ queuedBytes = 0
    /\ made = 0 /\ pongs = 0 /\ taken = <<>>
    /\ pc = [loop |-> "select", pong |-> "idle", closer |-> "idle", batch |-> "idle"]
    /\ writeMu = "none" /\ stopCh = FALSE /\ final = FALSE
    /\ deadline = "none" /\ netClosed = FALSE /\ sent = <<>>

Goto(p, l) == pc' = [pc EXCEPT ![p] = l]
SetDeadline(t) == deadline' = IF netClosed THEN deadline ELSE t   \* it fails once closed

\* beginClose, by whoever is first: the queue stops and the handshake starts.
BeginClose(p, l, last) ==
    IF stopCh THEN Goto(p, l) /\ UNCHANGED <<stopCh, final>>
    ELSE /\ stopCh' = TRUE /\ final' = last
         /\ pc' = [pc EXCEPT ![p] = l, !.closer = "interrupt"]

\* enqueueWithResult, by a broadcast or a message to this client.  Too large
\* a message is skipped.  If there is no room left for it the client is too
\* slow: the first to find that removes it, and closes it as a task.
EnqueueUnlimited(size) ==
    /\ made < MaxMessages /\ size <= MaxMessage /\ ~stopCh
    /\ IF Len(sendQueue) = MaxQueue
       THEN /\ inRoom' = FALSE
            /\ IF inRoom THEN Goto("batch", "begin") ELSE UNCHANGED pc
            /\ UNCHANGED books
       ELSE /\ sendQueue' = Append(sendQueue, [id |-> made + 1, size |-> size])
            /\ queuedBytes' = queuedBytes + size /\ made' = made + 1
            /\ UNCHANGED <<inRoom, pc, pongs, taken>>
    /\ UNCHANGED <<writeMu, stopCh, final, net>>
Enqueue(size) ==
    /\ made < MaxMessages /\ size <= MaxMessage /\ ~stopCh
    /\ IF queuedBytes + size > MaxBytes \/ Len(sendQueue) = MaxQueue
       THEN /\ inRoom' = FALSE
            /\ IF inRoom THEN Goto("batch", "begin") ELSE UNCHANGED pc
            /\ UNCHANGED books
       ELSE /\ sendQueue' = Append(sendQueue, [id |-> made + 1, size |-> size])
            /\ queuedBytes' = queuedBytes + size /\ made' = made + 1
            /\ UNCHANGED <<inRoom, pc, pongs, taken>>
    /\ UNCHANGED <<writeMu, stopCh, final, net>>

\* closeClient: the client leaves, or is removed; the service removes all of
\* them in a batch.  (Removal and the beginning of the close are two sections
\* of the code; nobody who finds the client removed begins a close of his own
\* in between, and what a broadcast may still enqueue it may enqueue before.)
RemoveClient ==
    /\ inRoom /\ inRoom' = FALSE
    /\ BeginClose("batch", pc.batch, FALSE)
    /\ UNCHANGED <<books, writeMu, net>>
RemoveAll ==
    /\ inRoom /\ inRoom' = FALSE
    /\ Goto("batch", "begin")
    /\ UNCHANGED <<books, writeMu, stopCh, final, net>>

\* closeClientsAndWait: the handshake is begun and waited for; after the
\* time limit the connection is closed by force, and the wait is limited too.
BatchBegin ==
    /\ pc.batch = "begin"
    /\ BeginClose("batch", "wait", TRUE)
    /\ UNCHANGED <<inRoom, books, writeMu, net>>
BatchWait ==
    /\ pc.batch = "wait"
    /\ \/ pc.closer = "done" /\ Goto("batch", "done") /\ UNCHANGED net
       \/ /\ pc.closer # "done" /\ Goto("batch", "forced")
          /\ deadline' = "past" /\ netClosed' = TRUE /\ UNCHANGED sent
    /\ UNCHANGED <<inRoom, books, writeMu, stopCh, final>>
BatchForced ==
    /\ pc.batch = "forced" /\ Goto("batch", "done")
    /\ UNCHANGED <<inRoom, books, writeMu, stopCh, final, net>>

\* writeLoop: the next message, or the end; if both are there, either.
LoopTake ==
    /\ pc.loop = "select" /\ sendQueue # <<>>
    /\ taken' = <<Head(sendQueue)>> /\ sendQueue' = Tail(sendQueue)
    /\ Goto("loop", "lock")
    /\ UNCHANGED <<inRoom, queuedBytes, made, pongs, writeMu, stopCh, final, net>>
LoopStop ==
    /\ pc.loop = "select" /\ stopCh /\ Goto("loop", "ended")
    /\ UNCHANGED <<inRoom, books, writeMu, stopCh, final, net>>

\* A ping is answered by the reading goroutine.
Ping ==
    /\ pc.pong = "idle" /\ pongs < MaxPongs /\ pongs' = pongs + 1
    /\ Goto("pong", "lock")
    /\ UNCHANGED <<inRoom, sendQueue, queuedBytes, made, taken, writeMu, stopCh, final, net>>

\* writeMessage and writePong.
Data == {"loop", "pong"}
Lock(w) ==
    /\ pc[w] = "lock" /\ writeMu = "none" /\ writeMu' = w
    /\ Goto(w, "check")
    /\ UNCHANGED <<inRoom, books, stopCh, final, net>>

\* Unless the close has begun the deadline is set, under stateMu.
After(w) == IF w = "loop" THEN "failed" ELSE "idle"
CheckLate(w) ==
    /\ pc[w] = "check" /\ Goto(w, "write")
    /\ SetDeadline(IF w = "loop" THEN "data" ELSE "control")
    /\ UNCHANGED <<inRoom, books, writeMu, stopCh, final, netClosed, sent>>
Check(w) ==
    /\ pc[w] = "check"
    /\ IF stopCh
       THEN Goto(w, After(w)) /\ writeMu' = "none" /\ UNCHANGED deadline
       ELSE /\ Goto(w, "write")
            /\ SetDeadline(IF w = "loop" THEN "data" ELSE "control")
            /\ UNCHANGED writeMu
    /\ UNCHANGED <<inRoom, books, stopCh, final, netClosed, sent>>

\* The write ends: the frame is sent, or not.  Then the deadline is removed
\* and writeMu released.
Write(w) ==
    /\ pc[w] = "write"
    /\ \/ /\ ~netClosed /\ Goto(w, "written")
          /\ sent' = Append(sent, IF w = "pong" THEN Pong ELSE Head(taken).id)
       \/ Goto(w, "broken") /\ UNCHANGED sent
    /\ UNCHANGED <<inRoom, books, writeMu, stopCh, final, deadline, netClosed>>
UnlockUnlessBroken(w) ==
    /\ pc[w] \in {"written", "broken"}
    /\ SetDeadline("none") /\ writeMu' = (IF pc[w] = "broken" THEN w ELSE "none")
    /\ Goto(w, IF w = "loop" /\ pc[w] = "written" THEN "release" ELSE After(w))
    /\ UNCHANGED <<inRoom, books, stopCh, final, netClosed, sent>>
Unlock(w) ==
    /\ pc[w] \in {"written", "broken"}
    /\ SetDeadline("none") /\ writeMu' = "none"
    /\ Goto(w, IF w = "loop" /\ pc[w] = "written" THEN "release" ELSE After(w))
    /\ UNCHANGED <<inRoom, books, stopCh, final, netClosed, sent>>

\* The bytes are given back in either case; after an error the loop closes
\* the client, waits for that and removes it.
Release ==
    /\ pc.loop \in {"release", "failed"}
    /\ taken' = <<>>
    /\ queuedBytes' = IF queuedBytes < Head(taken).size THEN 0 ELSE queuedBytes - Head(taken).size
    /\ Goto("loop", IF pc.loop = "release" THEN "select" ELSE "close")
    /\ UNCHANGED <<inRoom, sendQueue, made, pongs, writeMu, stopCh, final, net>>
LoopClose ==
    /\ pc.loop = "close" /\ BeginClose("loop", "await", FALSE)
    /\ UNCHANGED <<inRoom, books, writeMu, net>>
LoopRemove ==
    /\ pc.loop = "await" /\ pc.closer = "done"
    /\ inRoom' = FALSE /\ Goto("loop", "ended")
    /\ UNCHANGED <<books, writeMu, stopCh, final, net>>

\* writeFinalAndClose: a write that is blocked is interrupted, before and
\* after writeMu is taken; then the last message and the close frame.
Interrupt ==
    /\ pc.closer = "interrupt" /\ Goto("closer", "lock")
    /\ SetDeadline("control")
    /\ UNCHANGED <<inRoom, books, writeMu, stopCh, final, netClosed, sent>>
CloserLockless ==
    /\ pc.closer = "lock" /\ writeMu' = "closer"
    /\ Goto("closer", IF final THEN "final" ELSE "close")
    /\ SetDeadline("control")
    /\ UNCHANGED <<inRoom, books, stopCh, final, netClosed, sent>>
CloserLock ==
    /\ pc.closer = "lock" /\ writeMu = "none" /\ writeMu' = "closer"
    /\ Goto("closer", IF final THEN "final" ELSE "close")
    /\ SetDeadline("control")
    /\ UNCHANGED <<inRoom, books, stopCh, final, netClosed, sent>>
WriteFinal ==
    /\ pc.closer = "final" /\ Goto("closer", "close")
    /\ \/ ~netClosed /\ sent' = Append(sent, Final)
       \/ UNCHANGED sent
    /\ UNCHANGED <<inRoom, books, writeMu, stopCh, final, deadline, netClosed>>
WriteClose ==
    /\ pc.closer = "close" /\ Goto("closer", "net")
    /\ \/ ~netClosed /\ sent' = Append(sent, CloseFrame)
       \/ UNCHANGED sent
    /\ writeMu' = "none"
    /\ UNCHANGED <<inRoom, books, stopCh, final, deadline, netClosed>>
CloseNet ==
    /\ pc.closer = "net" /\ Goto("closer", "done")
    /\ netClosed' = TRUE
    /\ UNCHANGED <<inRoom, books, writeMu, stopCh, final, deadline, sent>>

Next ==
    \/ \E size \in Sizes : Enqueue(size)
    \/ RemoveClient \/ RemoveAll \/ BatchBegin \/ BatchWait \/ BatchForced
    \/ LoopTake \/ LoopStop \/ Release \/ LoopClose \/ LoopRemove
    \/ Ping
    \/ \E w \in Data : Lock(w) \/ Check(w) \/ Write(w) \/ Unlock(w)
    \/ Interrupt \/ CloserLock \/ WriteFinal \/ WriteClose \/ CloseNet

Spec == Init /\ [][Next]_vars

\* The goroutines of the write loop, of the handshake and of the batch run,
\* and a write does not outlast its deadline.
Ends(w) == Write(w) /\ deadline # "none"
Fairness ==
    /\ WF_vars(LoopTake) /\ WF_vars(LoopStop) /\ WF_vars(Release)
    /\ WF_vars(LoopClose) /\ WF_vars(LoopRemove)
    /\ \A w \in Data : WF_vars(Lock(w)) /\ WF_vars(Check(w)) /\ WF_vars(Ends(w)) /\ WF_vars(Unlock(w))
    /\ WF_vars(Interrupt) /\ WF_vars(CloserLock) /\ WF_vars(WriteFinal)
    /\ WF_vars(WriteClose) /\ WF_vars(CloseNet)
    /\ WF_vars(BatchBegin) /\ WF_vars(BatchWait) /\ WF_vars(BatchForced)
FairSpec == Spec /\ Fairness
-----------------------------------------------------------------------------
Message == [id : Nat, size : Nat]
Pc == {"idle", "select", "ended", "lock", "check", "write", "written", "broken", "release",
       "failed", "close", "await", "interrupt", "final", "net", "done", "begin", "wait", "forced"}
TypeOK ==
    /\ inRoom \in BOOLEAN /\ stopCh \in BOOLEAN /\ final \in BOOLEAN /\ netClosed \in BOOLEAN
    /\ sendQueue \in Seq(Message) /\ queuedBytes \in Int
    /\ made \in Nat /\ pongs \in Nat
    /\ taken \in Seq(Message) /\ Len(taken) <= 1
    /\ pc \in [Writers \cup {"batch"} -> Pc]
    /\ writeMu \in Writers \cup {"none"}
    /\ deadline \in {"none", "data", "control", "past"}
    /\ sent \in Seq(Frames)

\* The bytes of the messages of q.
Bytes(q) == LET upTo[i \in 0 .. Len(q)] == IF i = 0 THEN 0 ELSE upTo[i - 1] + q[i].size
            IN  upTo[Len(q)]

\* The bytes that are counted are those of the messages that wait or are
\* being written, whatever becomes of the writes, and they and the messages
\* keep within their limits.
BytesAccounted ==
    /\ queuedBytes = Bytes(taken \o sendQueue)
    /\ queuedBytes <= MaxBytes /\ Len(sendQueue) <= MaxQueue

\* No write is without a deadline, and once the close has interrupted the
\* writers, none of them ever has the long one again: a slow peer delays the
\* close of its client by the short one at most.
InterruptHolds ==
    \A w \in Data : pc[w] = "write" =>
        /\ deadline # "none"
        /\ pc.closer \notin {"idle", "interrupt"} => deadline \in {"control", "past"}

\* The peer gets the messages in the order of the queue, none of them twice,
\* and nothing after the close frame, or after the last message but that.
FramesInOrder ==
    \A i, j \in DOMAIN sent : i < j =>
        /\ sent[i] # CloseFrame
        /\ sent[i] = Final => sent[j] = CloseFrame
        /\ sent[i] > 0 /\ sent[j] > 0 => sent[i] < sent[j]

\* The strengthening that makes these inductive.  writeMu belongs to the
\* goroutine that is between its lock and its unlock, and nobody else.
Locked(w) == IF w = "closer" THEN {"final", "close"} ELSE {"check", "write", "written", "broken"}
OneWriter == \A w \in Writers : writeMu = w <=> pc[w] \in Locked(w)

\* The handshake runs once the queue has stopped; no write begins any more,
\* and the ones that go on end before the handshake writes.
Unsent == {"lock", "check", "write"}
Stopped ==
    /\ stopCh <=> pc.closer # "idle"
    /\ netClosed => stopCh /\ (deadline = "past" \/ pc.closer = "done")
    /\ pc.batch \in {"wait", "forced"} => stopCh
    /\ \A w \in Data : pc[w] = "write" => pc.closer \in {"idle", "interrupt", "lock"}
    /\ pc.loop \in Unsent \cup {"written", "broken", "release", "failed"} <=> taken # <<>>

\* The messages that wait are in order, after the one being written, after
\* those sent; the last two frames are written by the handshake alone.
Ordered ==
    /\ \A i \in DOMAIN sendQueue : sendQueue[i].id > 0 /\ sendQueue[i].id <= made
    /\ \A i, j \in DOMAIN sendQueue : i < j => sendQueue[i].id < sendQueue[j].id
    /\ \A k \in DOMAIN taken :
          /\ taken[k].id > 0 /\ taken[k].id <= made
          /\ \A i \in DOMAIN sendQueue : taken[k].id < sendQueue[i].id
          /\ pc.loop \in Unsent => \A j \in DOMAIN sent : sent[j] < taken[k].id
    /\ \A j \in DOMAIN sent :
          /\ sent[j] <= made /\ \A i \in DOMAIN sendQueue : sent[j] < sendQueue[i].id
          /\ sent[j] = CloseFrame => pc.closer \in {"net", "done"}
          /\ sent[j] = Final => pc.closer \in {"close", "net", "done"}

QueueInv == TypeOK /\ OneWriter /\ Stopped /\ Ordered /\ InterruptHolds /\ FramesInOrder

\* A client that was removed, or whose close has begun, is closed, removed,
\* and rid of its goroutines, whatever its writers are doing and however slow
\* its peer is.
CloseFinishes ==
    stopCh \/ ~inRoom ~> /\ pc.closer = "done" /\ pc.loop = "ended"
                         /\ pc.batch \in {"idle", "done"} /\ ~inRoom
=============================================================================

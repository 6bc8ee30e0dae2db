--------------------------- MODULE ServiceProofs ---------------------------
(***************************************************************************)
(* What holds of the parts of the service that MCService puts together,    *)
(* for any constants: first of a downstream client (ClientQueue), with the *)
(* bytes that are counted in its queue; then of the message bus, of the    *)
(* process, of the signer, of the file of cookies and of the rooms by key; *)
(* last, of the composition.                                               *)
(* One lemma per action shows that it preserves the invariant of its part. *)
(***************************************************************************)
EXTENDS MCService, FiniteSetTheorems, SequenceTheorems, WellFoundedInduction, TLAPS

-----------------------------------------------------------------------------
(* The beginning of a close.                                               *)

\* Only the first who begins it starts the handshake; nobody else is moved.
LEMMA BeginCloseEffect ==
  ASSUME TypeOK, NEW p \in {"loop", "batch"}, NEW l \in Pc, NEW last \in BOOLEAN,
         BeginClose(p, l, last)
  PROVE  /\ pc' \in [Writers \cup {"batch"} -> Pc] /\ pc'[p] = l
         /\ \A q \in Writers \cup {"batch"} : q # p /\ q # "closer" => pc'[q] = pc[q]
         /\ pc'["closer"] = IF stopCh THEN pc["closer"] ELSE "interrupt"
         /\ stopCh' = TRUE /\ final' \in BOOLEAN
<1> USE DEF TypeOK, Writers, Pc
<1>1. CASE stopCh
  <2>1. pc' = [pc EXCEPT ![p] = l] /\ stopCh' = stopCh /\ final' = final
    BY <1>1 DEF BeginClose, Goto
  <2> QED BY <1>1, <2>1
<1>2. CASE ~stopCh
  <2>1. pc' = [pc EXCEPT ![p] = l, !["closer"] = "interrupt"] /\ stopCh' = TRUE /\ final' = last
    BY <1>2 DEF BeginClose
  <2> QED BY <1>2, <2>1
<1> QED BY <1>1, <1>2

\* No writer is disturbed by it.
LEMMA BeginCloseInv ==
  ASSUME QueueInv, NEW p \in {"loop", "batch"}, NEW l \in Pc, NEW last \in BOOLEAN,
         BeginClose(p, l, last), UNCHANGED <<books, writeMu, net>>, inRoom' \in BOOLEAN,
         p = "loop" => pc[p] = "close" /\ l = "await"
  PROVE  QueueInv'
<1> USE DEF QueueInv, books, net
<1>1. /\ pc' \in [Writers \cup {"batch"} -> Pc] /\ pc'[p] = l
      /\ \A q \in Writers \cup {"batch"} : q # p /\ q # "closer" => pc'[q] = pc[q]
      /\ pc'["closer"] = IF stopCh THEN pc["closer"] ELSE "interrupt"
      /\ stopCh' = TRUE /\ final' \in BOOLEAN
  BY BeginCloseEffect
<1>2. TypeOK' BY <1>1 DEF TypeOK
<1>3. OneWriter' BY <1>1 DEF OneWriter, Stopped, Locked, Writers
<1>4. Stopped' BY <1>1 DEF Stopped, Unsent, Writers, Data
<1>5. Ordered' BY <1>1 DEF Ordered, Stopped, Unsent, Writers
<1>6. InterruptHolds' BY <1>1 DEF InterruptHolds, Stopped, Writers, Data
<1>7. FramesInOrder' BY DEF FramesInOrder
<1> QED BY <1>2, <1>3, <1>4, <1>5, <1>6, <1>7

\* The three places that begin a close: a removal, the batch, the write loop.
LEMMA RemoveClientInv ==
  ASSUME QueueInv, RemoveClient PROVE QueueInv'
<1>1. pc["batch"] \in Pc BY DEF QueueInv, TypeOK
<1> QED BY <1>1, BeginCloseInv DEF RemoveClient, books, net

LEMMA BatchBeginInv ==
  ASSUME QueueInv, BatchBegin PROVE QueueInv'
<1>1. inRoom' \in BOOLEAN BY DEF BatchBegin, QueueInv, TypeOK
<1> QED BY <1>1, BeginCloseInv DEF BatchBegin, Pc, books, net

LEMMA LoopCloseInv ==
  ASSUME QueueInv, LoopClose PROVE QueueInv'
<1>1. inRoom' \in BOOLEAN BY DEF LoopClose, QueueInv, TypeOK
<1> QED BY <1>1, BeginCloseInv DEF LoopClose, Pc, books, net

-----------------------------------------------------------------------------
(* Sequences, and frames on the wire.                                      *)

\* An element of a sequence, by its index.
LEMMA Element ==
  ASSUME NEW S, NEW s \in Seq(S), NEW i \in DOMAIN s PROVE i \in Nat /\ s[i] \in S
<1>1. i \in 1 .. Len(s) /\ Len(s) \in Nat BY LenProperties
<1> QED BY <1>1, ElementOfSeq

\* The indices of a sequence that has become longer by one.
LEMMA LastOrBefore ==
  ASSUME NEW n \in Nat, NEW j \in 1 .. n + 1 PROVE j \in 1 .. n \/ j = n + 1
OBVIOUS

\* A frame that is newer than all before it and older than all that wait may
\* be sent by whoever has writeMu.
LEMMA FrameSent ==
  ASSUME QueueInv, NEW f \in Frames, sent' = Append(sent, f),
         UNCHANGED <<made, sendQueue, taken>>,
         f <= made, \A i \in DOMAIN sendQueue : f < sendQueue[i].id,
         f > 0 => \A j \in DOMAIN sent : sent[j] < f,
         \A j \in DOMAIN sent : sent[j] # CloseFrame /\ (sent[j] = Final => f = CloseFrame),
         pc'["loop"] \in Unsent => pc["loop"] \in Unsent /\ \A k \in DOMAIN taken : f < taken[k].id,
         pc["closer"] \in {"close", "net", "done"} => pc'["closer"] \in {"close", "net", "done"},
         f = CloseFrame => pc'["closer"] \in {"net", "done"},
         f = Final => pc'["closer"] \in {"close", "net", "done"}
  PROVE  sent' \in Seq(Frames) /\ Ordered' /\ FramesInOrder'
<1> DEFINE n == Len(sent)
<1>1. sent \in Seq(Frames) /\ n \in Nat /\ DOMAIN sent = 1 .. n
  BY DEF QueueInv, TypeOK
<1>2. /\ sent' \in Seq(Frames) /\ Len(sent') = n + 1 /\ sent'[n + 1] = f
      /\ \A j \in 1 .. n : sent'[j] = sent[j]
  BY <1>1, AppendProperties
<1>3. DOMAIN sent' = 1 .. n + 1 BY <1>2
<1>4. \A j \in DOMAIN sent' : (j \in DOMAIN sent /\ sent'[j] = sent[j]) \/ (j = n + 1 /\ sent'[j] = f)
  <2> SUFFICES ASSUME NEW j \in 1 .. n + 1
               PROVE  (j \in DOMAIN sent /\ sent'[j] = sent[j]) \/ (j = n + 1 /\ sent'[j] = f)
    BY <1>3
  <2>1. j \in 1 .. n \/ j = n + 1 BY <1>1, LastOrBefore
  <2> QED BY <1>1, <1>2, <2>1
<1>5. \A j \in DOMAIN sent : sent[j] \in Int
  <2>1. \A j \in DOMAIN sent : sent[j] \in Frames BY <1>1, Element
  <2> QED BY <2>1 DEF Frames, Final
<1>6. Ordered'
  <2>1. /\ \A i \in DOMAIN sendQueue' : sendQueue'[i].id > 0 /\ sendQueue'[i].id <= made'
        /\ \A i, j \in DOMAIN sendQueue' : i < j => sendQueue'[i].id < sendQueue'[j].id
    BY DEF QueueInv, Ordered
  <2>2. ASSUME NEW k \in DOMAIN taken'
        PROVE  /\ taken'[k].id > 0 /\ taken'[k].id <= made'
               /\ \A i \in DOMAIN sendQueue' : taken'[k].id < sendQueue'[i].id
               /\ pc'["loop"] \in Unsent => \A j \in DOMAIN sent' : sent'[j] < taken'[k].id
    BY <1>4 DEF QueueInv, Ordered
  <2>3. ASSUME NEW j \in DOMAIN sent'
        PROVE  /\ sent'[j] <= made' /\ \A i \in DOMAIN sendQueue' : sent'[j] < sendQueue'[i].id
               /\ sent'[j] = CloseFrame => pc'["closer"] \in {"net", "done"}
               /\ sent'[j] = Final => pc'["closer"] \in {"close", "net", "done"}
    BY <1>4 DEF QueueInv, Ordered
  <2> QED BY <2>1, <2>2, <2>3 DEF Ordered
<1>7. FramesInOrder'
  <2> SUFFICES ASSUME NEW i \in DOMAIN sent', NEW j \in DOMAIN sent', i < j
               PROVE  /\ sent'[i] # CloseFrame
                      /\ sent'[i] = Final => sent'[j] = CloseFrame
                      /\ sent'[i] > 0 /\ sent'[j] > 0 => sent'[i] < sent'[j]
    BY DEF FramesInOrder
  <2>1. i \in DOMAIN sent /\ sent'[i] = sent[i] BY <1>1, <1>3, <1>4
  <2>2. CASE j \in DOMAIN sent /\ sent'[j] = sent[j] BY <2>1, <2>2 DEF QueueInv, FramesInOrder
  <2>3. CASE j = n + 1 /\ sent'[j] = f BY <2>1, <2>3
  <2> QED BY <1>4, <2>2, <2>3
<1> QED BY <1>2, <1>6, <1>7

-----------------------------------------------------------------------------
(* The queue: what a broadcast puts in and a removal leaves.               *)

LEMMA EnqueueInv ==
  ASSUME QueueInv, NEW size \in Sizes, Enqueue(size) PROVE QueueInv'
<1> USE DEF QueueInv
<1>1. TypeOK'
  <2>1. pc' \in [Writers \cup {"batch"} -> Pc] BY DEF Enqueue, Goto, Data, TypeOK, Writers, Pc
  <2>2. inRoom' \in BOOLEAN /\ stopCh' \in BOOLEAN /\ final' \in BOOLEAN /\ netClosed' \in BOOLEAN
    BY DEF Enqueue, TypeOK, net
  <2>3. sendQueue' \in Seq(Message) /\ queuedBytes' \in Int /\ made' \in Nat /\ pongs' \in Nat
    <3>1. CASE sendQueue' = sendQueue /\ queuedBytes' = queuedBytes /\ made' = made
      BY <3>1 DEF Enqueue, TypeOK, books
    <3>2. CASE /\ sendQueue' = Append(sendQueue, [id |-> made + 1, size |-> size])
               /\ queuedBytes' = queuedBytes + size /\ made' = made + 1
      <4>1. size \in Nat /\ [id |-> made + 1, size |-> size] \in Message
        BY SizesAssumption DEF TypeOK, Message
      <4>2. pongs' = pongs BY DEF Enqueue, books
      <4>3. /\ sendQueue \in Seq(Message) /\ queuedBytes \in Int /\ made \in Nat /\ pongs \in Nat
        BY DEF TypeOK
      <4>4. sendQueue' \in Seq(Message) BY <3>2, <4>1, <4>3, AppendProperties
      <4> QED BY <3>2, <4>1, <4>2, <4>3, <4>4
    <3> QED BY <3>1, <3>2 DEF Enqueue, books
  <2>4. taken' \in Seq(Message) /\ Len(taken') <= 1
    BY DEF Enqueue, TypeOK, books
  <2>5. /\ writeMu' \in Writers \cup {"none"}
        /\ deadline' \in {"none", "data", "control", "past"}
    BY DEF Enqueue, TypeOK, Writers, Data, net
  <2>6. sent' \in Seq(Frames)
    BY DEF Enqueue, TypeOK, net
  <2> QED BY <2>1, <2>2, <2>3, <2>4, <2>5, <2>6 DEF TypeOK
<1>2. OneWriter' BY SMTT(20) DEF Enqueue, Goto, books, Data, TypeOK, OneWriter, Locked, Writers, net
<1>3. Stopped' BY SMTT(20) DEF Enqueue, Goto, books, Data, TypeOK, Stopped, OneWriter, Locked, Unsent, Writers, net
<1>4. Ordered'
  <2>1. CASE sendQueue' = sendQueue /\ made' = made
    BY <2>1 DEF Enqueue, Goto, books, Ordered, TypeOK, Writers, Unsent, net
  <2>2. CASE sendQueue' = Append(sendQueue, [id |-> made + 1, size |-> size]) /\ made' = made + 1
    <3> DEFINE n == Len(sendQueue)
    <3>1. /\ [id |-> made + 1, size |-> size] \in Message /\ made \in Nat
          /\ sendQueue \in Seq(Message) /\ n \in Nat /\ DOMAIN sendQueue = 1 .. n
      BY SizesAssumption DEF TypeOK, Message
    <3>2. /\ DOMAIN sendQueue' = 1 .. n + 1 /\ sendQueue'[n + 1].id = made + 1
          /\ \A i \in 1 .. n : sendQueue'[i] = sendQueue[i]
      BY <2>2, <3>1, AppendProperties
    <3>3. \A i \in DOMAIN sendQueue' :
             (i \in DOMAIN sendQueue /\ sendQueue'[i] = sendQueue[i]) \/ (i = n + 1 /\ sendQueue'[i].id = made + 1)
      <4> SUFFICES ASSUME NEW i \in 1 .. n + 1
                   PROVE  \/ i \in DOMAIN sendQueue /\ sendQueue'[i] = sendQueue[i]
                          \/ i = n + 1 /\ sendQueue'[i].id = made + 1
        BY <3>2
      <4>1. i \in 1 .. n \/ i = n + 1 BY <3>1, LastOrBefore
      <4> QED BY <3>1, <3>2, <4>1
    <3>4. \A i \in DOMAIN sendQueue : sendQueue[i].id \in Nat
      <4>1. \A i \in DOMAIN sendQueue : sendQueue[i] \in Message BY <3>1, Element
      <4> QED BY <4>1 DEF Message
    <3>5. \A j \in DOMAIN sent : sent[j] \in Int
      <4>1. \A j \in DOMAIN sent : sent[j] \in Frames BY Element DEF TypeOK
      <4> QED BY <4>1 DEF Frames, Final, CloseFrame
    <3>6. \A k \in DOMAIN taken : taken[k].id \in Nat
      <4>1. \A k \in DOMAIN taken : taken[k] \in Message BY Element DEF TypeOK
      <4> QED BY <4>1 DEF Message
    <3>7. UNCHANGED <<pc, taken, sent>>
      <4>1. made' # made BY <2>2, <3>1
      <4> QED BY <4>1 DEF Enqueue, books, net
    <3>8. /\ \A i \in DOMAIN sendQueue' : sendQueue'[i].id > 0 /\ sendQueue'[i].id <= made'
          /\ \A i, j \in DOMAIN sendQueue' : i < j => sendQueue'[i].id < sendQueue'[j].id
      BY <2>2, <3>1, <3>2, <3>3, <3>4 DEF Ordered
    <3>9. ASSUME NEW k \in DOMAIN taken
          PROVE  taken[k].id <= made' /\ \A i \in DOMAIN sendQueue' : taken[k].id < sendQueue'[i].id
      BY <2>2, <3>1, <3>3, <3>6 DEF Ordered
    <3>10. ASSUME NEW j \in DOMAIN sent
           PROVE  sent[j] <= made' /\ \A i \in DOMAIN sendQueue' : sent[j] < sendQueue'[i].id
      BY <2>2, <3>1, <3>3, <3>5 DEF Ordered
    <3> QED BY <3>7, <3>8, <3>9, <3>10 DEF Ordered
  <2> QED BY <2>1, <2>2 DEF Enqueue, books
<1>5. InterruptHolds' BY SMTT(20) DEF Enqueue, Goto, books, Data, TypeOK, Stopped, InterruptHolds, OneWriter, Locked, Writers, net
<1>6. FramesInOrder' BY SMTT(20) DEF Enqueue, books, Data, TypeOK, Ordered, Stopped, FramesInOrder, Unsent, Writers, OneWriter, Locked, net
<1> QED BY <1>1, <1>2, <1>3, <1>4, <1>5, <1>6

LEMMA RemoveAllInv ==
  ASSUME QueueInv, RemoveAll PROVE QueueInv'
<1> USE DEF QueueInv
<1>1. TypeOK'
  <2>1. pc' \in [Writers \cup {"batch"} -> Pc] BY DEF RemoveAll, Goto, Data, TypeOK, Writers, Pc
  <2>2. inRoom' \in BOOLEAN /\ stopCh' \in BOOLEAN /\ final' \in BOOLEAN /\ netClosed' \in BOOLEAN
    BY DEF RemoveAll, TypeOK, net
  <2>3. sendQueue' \in Seq(Message) /\ queuedBytes' \in Int /\ made' \in Nat /\ pongs' \in Nat
    BY DEF RemoveAll, TypeOK, books
  <2>4. taken' \in Seq(Message) /\ Len(taken') <= 1
    BY DEF RemoveAll, TypeOK, books
  <2>5. /\ writeMu' \in Writers \cup {"none"}
        /\ deadline' \in {"none", "data", "control", "past"}
    BY DEF RemoveAll, TypeOK, Writers, Data, net
  <2>6. sent' \in Seq(Frames)
    BY DEF RemoveAll, TypeOK, net
  <2> QED BY <2>1, <2>2, <2>3, <2>4, <2>5, <2>6 DEF TypeOK
<1>2. OneWriter' BY SMTT(20) DEF RemoveAll, Goto, books, Data, TypeOK, OneWriter, Locked, Writers, net
<1>3. Stopped' BY SMTT(20) DEF RemoveAll, Goto, books, Data, TypeOK, Stopped, OneWriter, Locked, Unsent, Writers, net
<1>4. Ordered' BY SMTT(20) DEF RemoveAll, Goto, books, Data, TypeOK, Ordered, Stopped, OneWriter, Locked, Unsent, Writers, net
<1>5. InterruptHolds' BY SMTT(20) DEF RemoveAll, Goto, books, Data, TypeOK, Stopped, InterruptHolds, OneWriter, Locked, Writers, net
<1>6. FramesInOrder' BY SMTT(20) DEF RemoveAll, books, Data, TypeOK, Ordered, Stopped, FramesInOrder, Unsent, Writers, OneWriter, Locked, net
<1> QED BY <1>1, <1>2, <1>3, <1>4, <1>5, <1>6

LEMMA BatchWaitInv ==
  ASSUME QueueInv, BatchWait PROVE QueueInv'
<1> USE DEF QueueInv
<1>1. TypeOK'
  <2>1. pc' \in [Writers \cup {"batch"} -> Pc] BY DEF BatchWait, Goto, Data, TypeOK, Writers, Pc
  <2>2. inRoom' \in BOOLEAN /\ stopCh' \in BOOLEAN /\ final' \in BOOLEAN /\ netClosed' \in BOOLEAN
    BY DEF BatchWait, TypeOK, net
  <2>3. sendQueue' \in Seq(Message) /\ queuedBytes' \in Int /\ made' \in Nat /\ pongs' \in Nat
    BY DEF BatchWait, TypeOK, books
  <2>4. taken' \in Seq(Message) /\ Len(taken') <= 1
    BY DEF BatchWait, TypeOK, books
  <2>5. /\ writeMu' \in Writers \cup {"none"}
        /\ deadline' \in {"none", "data", "control", "past"}
    BY DEF BatchWait, TypeOK, Writers, Data, net
  <2>6. sent' \in Seq(Frames)
    BY DEF BatchWait, TypeOK, net
  <2> QED BY <2>1, <2>2, <2>3, <2>4, <2>5, <2>6 DEF TypeOK
<1>2. OneWriter' BY SMTT(20) DEF BatchWait, Goto, books, Data, TypeOK, OneWriter, Locked, Writers, net
<1>3. Stopped' BY SMTT(20) DEF BatchWait, Goto, books, Data, TypeOK, Stopped, OneWriter, Locked, Unsent, Writers, net
<1>4. Ordered' BY SMTT(20) DEF BatchWait, Goto, books, Data, TypeOK, Ordered, Stopped, OneWriter, Locked, Unsent, Writers, net
<1>5. InterruptHolds' BY SMTT(20) DEF BatchWait, Goto, books, Data, TypeOK, Stopped, InterruptHolds, OneWriter, Locked, Writers, net
<1>6. FramesInOrder' BY SMTT(20) DEF BatchWait, books, Data, TypeOK, Ordered, Stopped, FramesInOrder, Unsent, Writers, OneWriter, Locked, net
<1> QED BY <1>1, <1>2, <1>3, <1>4, <1>5, <1>6

LEMMA BatchForcedInv ==
  ASSUME QueueInv, BatchForced PROVE QueueInv'
<1> USE DEF QueueInv
<1>1. TypeOK'
  <2>1. pc' \in [Writers \cup {"batch"} -> Pc] BY DEF BatchForced, Goto, Data, TypeOK, Writers, Pc
  <2>2. inRoom' \in BOOLEAN /\ stopCh' \in BOOLEAN /\ final' \in BOOLEAN /\ netClosed' \in BOOLEAN
    BY DEF BatchForced, TypeOK, net
  <2>3. sendQueue' \in Seq(Message) /\ queuedBytes' \in Int /\ made' \in Nat /\ pongs' \in Nat
    BY DEF BatchForced, TypeOK, books
  <2>4. taken' \in Seq(Message) /\ Len(taken') <= 1
    BY DEF BatchForced, TypeOK, books
  <2>5. /\ writeMu' \in Writers \cup {"none"}
        /\ deadline' \in {"none", "data", "control", "past"}
    BY DEF BatchForced, TypeOK, Writers, Data, net
  <2>6. sent' \in Seq(Frames)
    BY DEF BatchForced, TypeOK, net
  <2> QED BY <2>1, <2>2, <2>3, <2>4, <2>5, <2>6 DEF TypeOK
<1>2. OneWriter' BY SMTT(20) DEF BatchForced, Goto, books, Data, TypeOK, OneWriter, Locked, Writers, net
<1>3. Stopped' BY SMTT(20) DEF BatchForced, Goto, books, Data, TypeOK, Stopped, OneWriter, Locked, Unsent, Writers, net
<1>4. Ordered' BY SMTT(20) DEF BatchForced, Goto, books, Data, TypeOK, Ordered, Stopped, OneWriter, Locked, Unsent, Writers, net
<1>5. InterruptHolds' BY SMTT(20) DEF BatchForced, Goto, books, Data, TypeOK, Stopped, InterruptHolds, OneWriter, Locked, Writers, net
<1>6. FramesInOrder' BY SMTT(20) DEF BatchForced, books, Data, TypeOK, Ordered, Stopped, FramesInOrder, Unsent, Writers, OneWriter, Locked, net
<1> QED BY <1>1, <1>2, <1>3, <1>4, <1>5, <1>6

-----------------------------------------------------------------------------
(* The write loop.                                                         *)

LEMMA LoopTakeInv ==
  ASSUME QueueInv, LoopTake PROVE QueueInv'
<1> USE DEF QueueInv
<1>1. TypeOK'
  <2>1. pc' \in [Writers \cup {"batch"} -> Pc] BY DEF LoopTake, Goto, Data, TypeOK, Writers, Pc
  <2>2. inRoom' \in BOOLEAN /\ stopCh' \in BOOLEAN /\ final' \in BOOLEAN /\ netClosed' \in BOOLEAN
    BY DEF LoopTake, TypeOK, net
  <2>3. sendQueue' \in Seq(Message) /\ queuedBytes' \in Int /\ made' \in Nat /\ pongs' \in Nat
    BY DEF LoopTake, TypeOK, books
  <2>4. taken' \in Seq(Message) /\ Len(taken') <= 1
    <3>1. Head(sendQueue) \in Message BY HeadTailProperties DEF LoopTake, TypeOK
    <3> QED BY <3>1 DEF LoopTake
  <2>5. /\ writeMu' \in Writers \cup {"none"}
        /\ deadline' \in {"none", "data", "control", "past"}
    BY DEF LoopTake, TypeOK, Writers, Data, net
  <2>6. sent' \in Seq(Frames)
    BY DEF LoopTake, TypeOK, net
  <2> QED BY <2>1, <2>2, <2>3, <2>4, <2>5, <2>6 DEF TypeOK
<1>2. OneWriter'
  <2>1. pc \in [Writers \cup {"batch"} -> Pc] BY DEF TypeOK
  <2>2. pc["loop"] = "select" /\ pc' = [pc EXCEPT !["loop"] = "lock"] /\ writeMu' = writeMu
    BY DEF LoopTake, Goto
  <2>3. /\ pc'["loop"] = "lock"
        /\ \A w \in Writers : w # "loop" => pc'[w] = pc[w]
    BY <2>1, <2>2 DEF Writers
  <2> QED BY <2>2, <2>3 DEF OneWriter, Locked, Writers
<1>3. Stopped' BY SMTT(20) DEF LoopTake, Goto, books, Data, TypeOK, Stopped, OneWriter, Locked, Unsent, Writers, net
<1>4. Ordered'
  <2> DEFINE n == Len(sendQueue)
  <2>1. /\ sendQueue \in Seq(Message) /\ n \in Nat \ {0} /\ DOMAIN sendQueue = 1 .. n
        /\ taken' = <<sendQueue[1]>>
    BY EmptySeq DEF LoopTake, TypeOK
  <2>2. /\ DOMAIN sendQueue' = 1 .. n - 1
        /\ \A i \in 1 .. n - 1 : sendQueue'[i] = sendQueue[i + 1]
    BY <2>1, HeadTailProperties DEF LoopTake
  <2>3. \A i \in DOMAIN sendQueue' : i + 1 \in DOMAIN sendQueue /\ sendQueue'[i] = sendQueue[i + 1]
    BY <2>1, <2>2
  <2>4. UNCHANGED <<made, sent>> /\ pc'["closer"] = pc["closer"]
    BY DEF LoopTake, Goto, TypeOK, Writers, net
  <2>5. \A i \in DOMAIN sendQueue' : i \in Nat
    BY <2>1, <2>2
  <2>6. /\ \A i \in DOMAIN sendQueue' : sendQueue'[i].id > 0 /\ sendQueue'[i].id <= made'
        /\ \A i, j \in DOMAIN sendQueue' : i < j => sendQueue'[i].id < sendQueue'[j].id
    BY <2>3, <2>4, <2>5 DEF Ordered
  <2>7. /\ sendQueue[1].id > 0 /\ sendQueue[1].id <= made
        /\ \A i \in DOMAIN sendQueue' : sendQueue[1].id < sendQueue'[i].id
        /\ \A j \in DOMAIN sent : sent[j] < sendQueue[1].id
    BY <2>1, <2>2, <2>3 DEF Ordered
  <2>8. ASSUME NEW j \in DOMAIN sent
        PROVE  \A i \in DOMAIN sendQueue' : sent[j] < sendQueue'[i].id
    BY <2>3 DEF Ordered
  <2>9. \A k \in DOMAIN taken' : taken'[k] = sendQueue[1]
    BY <2>1
  <2> QED BY <2>4, <2>6, <2>7, <2>8, <2>9 DEF Ordered
<1>5. InterruptHolds' BY SMTT(20) DEF LoopTake, Goto, books, Data, TypeOK, Stopped, InterruptHolds, OneWriter, Locked, Writers, net
<1>6. FramesInOrder' BY SMTT(20) DEF LoopTake, books, Data, TypeOK, Ordered, Stopped, FramesInOrder, Unsent, Writers, OneWriter, Locked, net
<1> QED BY <1>1, <1>2, <1>3, <1>4, <1>5, <1>6

LEMMA LoopStopInv ==
  ASSUME QueueInv, LoopStop PROVE QueueInv'
<1> USE DEF QueueInv
<1>1. TypeOK'
  <2>1. pc' \in [Writers \cup {"batch"} -> Pc] BY DEF LoopStop, Goto, Data, TypeOK, Writers, Pc
  <2>2. inRoom' \in BOOLEAN /\ stopCh' \in BOOLEAN /\ final' \in BOOLEAN /\ netClosed' \in BOOLEAN
    BY DEF LoopStop, TypeOK, net
  <2>3. sendQueue' \in Seq(Message) /\ queuedBytes' \in Int /\ made' \in Nat /\ pongs' \in Nat
    BY DEF LoopStop, TypeOK, books
  <2>4. taken' \in Seq(Message) /\ Len(taken') <= 1
    BY DEF LoopStop, TypeOK, books
  <2>5. /\ writeMu' \in Writers \cup {"none"}
        /\ deadline' \in {"none", "data", "control", "past"}
    BY DEF LoopStop, TypeOK, Writers, Data, net
  <2>6. sent' \in Seq(Frames)
    BY DEF LoopStop, TypeOK, net
  <2> QED BY <2>1, <2>2, <2>3, <2>4, <2>5, <2>6 DEF TypeOK
<1>2. OneWriter' BY SMTT(20) DEF LoopStop, Goto, books, Data, TypeOK, OneWriter, Locked, Writers, net
<1>3. Stopped' BY SMTT(20) DEF LoopStop, Goto, books, Data, TypeOK, Stopped, OneWriter, Locked, Unsent, Writers, net
<1>4. Ordered' BY SMTT(20) DEF LoopStop, Goto, books, Data, TypeOK, Ordered, Stopped, OneWriter, Locked, Unsent, Writers, net
<1>5. InterruptHolds' BY SMTT(20) DEF LoopStop, Goto, books, Data, TypeOK, Stopped, InterruptHolds, OneWriter, Locked, Writers, net
<1>6. FramesInOrder' BY SMTT(20) DEF LoopStop, books, Data, TypeOK, Ordered, Stopped, FramesInOrder, Unsent, Writers, OneWriter, Locked, net
<1> QED BY <1>1, <1>2, <1>3, <1>4, <1>5, <1>6

LEMMA ReleaseInv ==
  ASSUME QueueInv, Release PROVE QueueInv'
<1> USE DEF QueueInv
<1>1. TypeOK'
  <2>1. pc' \in [Writers \cup {"batch"} -> Pc] BY DEF Release, Goto, Data, TypeOK, Writers, Pc
  <2>2. inRoom' \in BOOLEAN /\ stopCh' \in BOOLEAN /\ final' \in BOOLEAN /\ netClosed' \in BOOLEAN
    BY DEF Release, TypeOK, net
  <2>3. sendQueue' \in Seq(Message) /\ queuedBytes' \in Int /\ made' \in Nat /\ pongs' \in Nat
    <3>1. sendQueue' \in Seq(Message) /\ made' \in Nat /\ pongs' \in Nat
      BY DEF Release, TypeOK
    <3>2. queuedBytes' \in Int
      <4>1. pc["loop"] \in {"release", "failed"} /\ taken # << >>
        BY DEF Release, Stopped
      <4>2. taken \in Seq(Message) /\ queuedBytes \in Int BY DEF TypeOK
      <4>3. Head(taken) \in Message BY <4>1, <4>2, HeadTailProperties
      <4>4. Head(taken).size \in Nat BY <4>3 DEF Message
      <4>5. queuedBytes' = IF queuedBytes < Head(taken).size THEN 0 ELSE queuedBytes - Head(taken).size
        BY DEF Release
      <4> QED BY <4>2, <4>4, <4>5
    <3> QED BY <3>1, <3>2
  <2>4. taken' \in Seq(Message) /\ Len(taken') <= 1
    <3>1. taken' = << >> BY DEF Release
    <3> QED BY <3>1, EmptySeq
  <2>5. /\ writeMu' \in Writers \cup {"none"}
        /\ deadline' \in {"none", "data", "control", "past"}
    BY DEF Release, TypeOK, Writers, Data, net
  <2>6. sent' \in Seq(Frames)
    BY DEF Release, TypeOK, net
  <2> QED BY <2>1, <2>2, <2>3, <2>4, <2>5, <2>6 DEF TypeOK
<1>2. OneWriter' BY SMTT(20) DEF Release, Goto, books, Data, TypeOK, OneWriter, Locked, Writers, net
<1>3. Stopped' BY SMTT(20) DEF Release, Goto, books, Data, TypeOK, Stopped, OneWriter, Locked, Unsent, Writers, net
<1>4. Ordered' BY SMTT(20) DEF Release, Goto, books, Data, TypeOK, Ordered, Stopped, OneWriter, Locked, Unsent, Writers, net
<1>5. InterruptHolds' BY SMTT(20) DEF Release, Goto, books, Data, TypeOK, Stopped, InterruptHolds, OneWriter, Locked, Writers, net
<1>6. FramesInOrder' BY SMTT(20) DEF Release, books, Data, TypeOK, Ordered, Stopped, FramesInOrder, Unsent, Writers, OneWriter, Locked, net
<1> QED BY <1>1, <1>2, <1>3, <1>4, <1>5, <1>6

LEMMA LoopRemoveInv ==
  ASSUME QueueInv, LoopRemove PROVE QueueInv'
<1> USE DEF QueueInv
<1>1. TypeOK'
  <2>1. pc' \in [Writers \cup {"batch"} -> Pc] BY DEF LoopRemove, Goto, Data, TypeOK, Writers, Pc
  <2>2. inRoom' \in BOOLEAN /\ stopCh' \in BOOLEAN /\ final' \in BOOLEAN /\ netClosed' \in BOOLEAN
    BY DEF LoopRemove, TypeOK, net
  <2>3. sendQueue' \in Seq(Message) /\ queuedBytes' \in Int /\ made' \in Nat /\ pongs' \in Nat
    BY DEF LoopRemove, TypeOK, books
  <2>4. taken' \in Seq(Message) /\ Len(taken') <= 1
    BY DEF LoopRemove, TypeOK, books
  <2>5. /\ writeMu' \in Writers \cup {"none"}
        /\ deadline' \in {"none", "data", "control", "past"}
    BY DEF LoopRemove, TypeOK, Writers, Data, net
  <2>6. sent' \in Seq(Frames)
    BY DEF LoopRemove, TypeOK, net
  <2> QED BY <2>1, <2>2, <2>3, <2>4, <2>5, <2>6 DEF TypeOK
<1>2. OneWriter' BY SMTT(20) DEF LoopRemove, Goto, books, Data, TypeOK, OneWriter, Locked, Writers, net
<1>3. Stopped' BY SMTT(20) DEF LoopRemove, Goto, books, Data, TypeOK, Stopped, OneWriter, Locked, Unsent, Writers, net
<1>4. Ordered' BY SMTT(20) DEF LoopRemove, Goto, books, Data, TypeOK, Ordered, Stopped, OneWriter, Locked, Unsent, Writers, net
<1>5. InterruptHolds' BY SMTT(20) DEF LoopRemove, Goto, books, Data, TypeOK, Stopped, InterruptHolds, OneWriter, Locked, Writers, net
<1>6. FramesInOrder' BY SMTT(20) DEF LoopRemove, books, Data, TypeOK, Ordered, Stopped, FramesInOrder, Unsent, Writers, OneWriter, Locked, net
<1> QED BY <1>1, <1>2, <1>3, <1>4, <1>5, <1>6

-----------------------------------------------------------------------------
(* A write of the loop or of a pong, under writeMu.                        *)

LEMMA PingInv ==
  ASSUME QueueInv, Ping PROVE QueueInv'
<1> USE DEF QueueInv
<1>1. TypeOK'
  <2>1. pc' \in [Writers \cup {"batch"} -> Pc] BY DEF Ping, Goto, Data, TypeOK, Writers, Pc
  <2>2. inRoom' \in BOOLEAN /\ stopCh' \in BOOLEAN /\ final' \in BOOLEAN /\ netClosed' \in BOOLEAN
    BY DEF Ping, TypeOK, net
  <2>3. sendQueue' \in Seq(Message) /\ queuedBytes' \in Int /\ made' \in Nat /\ pongs' \in Nat
    BY DEF Ping, TypeOK, books
  <2>4. taken' \in Seq(Message) /\ Len(taken') <= 1
    BY DEF Ping, TypeOK, books
  <2>5. /\ writeMu' \in Writers \cup {"none"}
        /\ deadline' \in {"none", "data", "control", "past"}
    BY DEF Ping, TypeOK, Writers, Data, net
  <2>6. sent' \in Seq(Frames)
    BY DEF Ping, TypeOK, net
  <2> QED BY <2>1, <2>2, <2>3, <2>4, <2>5, <2>6 DEF TypeOK
<1>2. OneWriter' BY SMTT(20) DEF Ping, Goto, books, Data, TypeOK, OneWriter, Locked, Writers, net
<1>3. Stopped' BY SMTT(20) DEF Ping, Goto, books, Data, TypeOK, Stopped, OneWriter, Locked, Unsent, Writers, net
<1>4. Ordered' BY SMTT(20) DEF Ping, Goto, books, Data, TypeOK, Ordered, Stopped, OneWriter, Locked, Unsent, Writers, net
<1>5. InterruptHolds' BY SMTT(20) DEF Ping, Goto, books, Data, TypeOK, Stopped, InterruptHolds, OneWriter, Locked, Writers, net
<1>6. FramesInOrder' BY SMTT(20) DEF Ping, books, Data, TypeOK, Ordered, Stopped, FramesInOrder, Unsent, Writers, OneWriter, Locked, net
<1> QED BY <1>1, <1>2, <1>3, <1>4, <1>5, <1>6

LEMMA LockInv ==
  ASSUME QueueInv, NEW w \in Data, Lock(w) PROVE QueueInv'
<1> USE DEF QueueInv
<1>1. TypeOK'
  <2>1. pc' \in [Writers \cup {"batch"} -> Pc] BY DEF Lock, Goto, Data, TypeOK, Writers, Pc
  <2>2. inRoom' \in BOOLEAN /\ stopCh' \in BOOLEAN /\ final' \in BOOLEAN /\ netClosed' \in BOOLEAN
    BY DEF Lock, TypeOK, net
  <2>3. sendQueue' \in Seq(Message) /\ queuedBytes' \in Int /\ made' \in Nat /\ pongs' \in Nat
    BY DEF Lock, TypeOK, books
  <2>4. taken' \in Seq(Message) /\ Len(taken') <= 1
    BY DEF Lock, TypeOK, books
  <2>5. /\ writeMu' \in Writers \cup {"none"}
        /\ deadline' \in {"none", "data", "control", "past"}
    BY DEF Lock, TypeOK, Writers, Data, net
  <2>6. sent' \in Seq(Frames)
    BY DEF Lock, TypeOK, net
  <2> QED BY <2>1, <2>2, <2>3, <2>4, <2>5, <2>6 DEF TypeOK
<1>2. OneWriter' BY SMTT(20) DEF Lock, Goto, books, Data, TypeOK, OneWriter, Locked, Writers, net
<1>3. Stopped' BY SMTT(20) DEF Lock, Goto, books, Data, TypeOK, Stopped, OneWriter, Locked, Unsent, Writers, net
<1>4. Ordered' BY SMTT(20) DEF Lock, Goto, books, Data, TypeOK, Ordered, Stopped, OneWriter, Locked, Unsent, Writers, net
<1>5. InterruptHolds' BY SMTT(20) DEF Lock, Goto, books, Data, TypeOK, Stopped, InterruptHolds, OneWriter, Locked, Writers, net
<1>6. FramesInOrder' BY SMTT(20) DEF Lock, books, Data, TypeOK, Ordered, Stopped, FramesInOrder, Unsent, Writers, OneWriter, Locked, net
<1> QED BY <1>1, <1>2, <1>3, <1>4, <1>5, <1>6

LEMMA CheckInv ==
  ASSUME QueueInv, NEW w \in Data, Check(w) PROVE QueueInv'
<1> USE DEF QueueInv
<1>1. TypeOK'
  <2>1. pc' \in [Writers \cup {"batch"} -> Pc] BY DEF Check, Goto, After, Data, TypeOK, Writers, Pc
  <2>2. inRoom' \in BOOLEAN /\ stopCh' \in BOOLEAN /\ final' \in BOOLEAN /\ netClosed' \in BOOLEAN
    BY DEF Check, TypeOK, net
  <2>3. sendQueue' \in Seq(Message) /\ queuedBytes' \in Int /\ made' \in Nat /\ pongs' \in Nat
    BY DEF Check, TypeOK, books
  <2>4. taken' \in Seq(Message) /\ Len(taken') <= 1
    BY DEF Check, TypeOK, books
  <2>5. /\ writeMu' \in Writers \cup {"none"}
        /\ deadline' \in {"none", "data", "control", "past"}
    BY DEF Check, TypeOK, Writers, SetDeadline, Data, net
  <2>6. sent' \in Seq(Frames)
    BY DEF Check, TypeOK, net
  <2> QED BY <2>1, <2>2, <2>3, <2>4, <2>5, <2>6 DEF TypeOK
<1>2. OneWriter' BY SMTT(20) DEF Check, Goto, books, After, Data, TypeOK, OneWriter, Locked, Writers, net
<1>3. Stopped' BY SMTT(20) DEF Check, Goto, books, After, Data, TypeOK, Stopped, OneWriter, Locked, Unsent, Writers, net
<1>4. Ordered' BY SMTT(20) DEF Check, Goto, books, Data, TypeOK, Ordered, Stopped, OneWriter, Locked, Unsent, Writers, net
<1>5. InterruptHolds' BY SMTT(20) DEF Check, Goto, SetDeadline, books, After, Data, TypeOK, Stopped, InterruptHolds, OneWriter, Locked, Writers, net
<1>6. FramesInOrder' BY SMTT(20) DEF Check, books, Data, TypeOK, Ordered, Stopped, FramesInOrder, Unsent, Writers, OneWriter, Locked, net
<1> QED BY <1>1, <1>2, <1>3, <1>4, <1>5, <1>6

LEMMA WriteInv ==
  ASSUME QueueInv, NEW w \in Data, Write(w) PROVE QueueInv'
<1> USE DEF QueueInv
<1>0. sent' \in Seq(Frames) /\ Ordered' /\ FramesInOrder'
  <2>1. /\ pc' \in [Writers \cup {"batch"} -> Pc] /\ pc'["closer"] = pc["closer"]
        /\ w = "loop" => pc'["loop"] \notin Unsent
        /\ w = "pong" => pc'["loop"] = pc["loop"]
    BY DEF Write, Goto, TypeOK, Writers, Pc, Data, Unsent
  <2>2. pc["closer"] \in {"idle", "interrupt", "lock"} BY DEF Write, Stopped
  <2>3. \A j \in DOMAIN sent : sent[j] # CloseFrame /\ sent[j] # Final
    BY <2>2 DEF Ordered
  <2>4. CASE sent' = sent
    BY <2>1, <2>4 DEF Write, TypeOK, Ordered, FramesInOrder, books, Data, Unsent
  <2>5. CASE w = "pong" /\ sent' = Append(sent, Pong)
    <3>1. Pong \in Frames /\ Pong <= made /\ Pong # CloseFrame /\ Pong # Final /\ ~(Pong > 0)
      BY DEF TypeOK, Pong, Frames, CloseFrame, Final
    <3>2. /\ \A i \in DOMAIN sendQueue : Pong < sendQueue[i].id
          /\ \A k \in DOMAIN taken : Pong < taken[k].id
      BY DEF Ordered, Pong
    <3>3. UNCHANGED <<made, sendQueue, taken>> BY DEF Write, books
    <3> QED BY <2>1, <2>2, <2>3, <2>5, <3>1, <3>2, <3>3, FrameSent
  <2>6. CASE w = "loop" /\ sent' = Append(sent, Head(taken).id)
    <3> DEFINE f == Head(taken).id
    <3>1. taken # <<>> /\ 1 \in DOMAIN taken /\ Head(taken) = taken[1] /\ taken[1] \in Message
      BY <2>6, EmptySeq, ElementOfSeq DEF Write, Stopped, Unsent, TypeOK
    <3>2. f \in Nat /\ f > 0 /\ f \in Frames /\ f <= made /\ f # CloseFrame /\ f # Final
      BY <3>1 DEF Ordered, Message, Frames, CloseFrame, Final
    <3>3. \A i \in DOMAIN sendQueue : f < sendQueue[i].id BY <3>1 DEF Ordered
    <3>4. \A j \in DOMAIN sent : sent[j] < f BY <2>6, <3>1 DEF Ordered, Write, Unsent
    <3>5. UNCHANGED <<made, sendQueue, taken>> BY DEF Write, books
    <3> HIDE DEF f
    <3> QED BY <2>1, <2>2, <2>3, <2>6, <3>2, <3>3, <3>4, <3>5, FrameSent DEF f
  <2> QED BY <2>4, <2>5, <2>6 DEF Write, Data
<1>1. TypeOK'
  <2>1. pc' \in [Writers \cup {"batch"} -> Pc] BY DEF Write, Goto, Data, TypeOK, Writers, Pc
  <2>2. inRoom' \in BOOLEAN /\ stopCh' \in BOOLEAN /\ final' \in BOOLEAN /\ netClosed' \in BOOLEAN
    BY DEF Write, TypeOK, net
  <2>3. sendQueue' \in Seq(Message) /\ queuedBytes' \in Int /\ made' \in Nat /\ pongs' \in Nat
    BY DEF Write, TypeOK, books
  <2>4. taken' \in Seq(Message) /\ Len(taken') <= 1
    BY DEF Write, TypeOK, books
  <2>5. /\ writeMu' \in Writers \cup {"none"}
        /\ deadline' \in {"none", "data", "control", "past"}
    BY DEF Write, TypeOK, Writers, Data, net
  <2> QED BY <1>0, <2>1, <2>2, <2>3, <2>4, <2>5 DEF TypeOK
<1>2. OneWriter' BY SMTT(20) DEF Write, Goto, books, Data, TypeOK, OneWriter, Locked, Writers, net
<1>3. Stopped' BY SMTT(20) DEF Write, Goto, books, Data, TypeOK, Stopped, OneWriter, Locked, Unsent, Writers, net
<1>5. InterruptHolds' BY SMTT(20) DEF Write, Goto, books, Data, TypeOK, Stopped, InterruptHolds, OneWriter, Locked, Writers, net
<1> QED BY <1>0, <1>1, <1>2, <1>3, <1>5

LEMMA UnlockInv ==
  ASSUME QueueInv, NEW w \in Data, Unlock(w) PROVE QueueInv'
<1> USE DEF QueueInv
<1>1. TypeOK'
  <2>1. pc' \in [Writers \cup {"batch"} -> Pc] BY DEF Unlock, Goto, After, Data, TypeOK, Writers, Pc
  <2>2. inRoom' \in BOOLEAN /\ stopCh' \in BOOLEAN /\ final' \in BOOLEAN /\ netClosed' \in BOOLEAN
    BY DEF Unlock, TypeOK, net
  <2>3. sendQueue' \in Seq(Message) /\ queuedBytes' \in Int /\ made' \in Nat /\ pongs' \in Nat
    BY DEF Unlock, TypeOK, books
  <2>4. taken' \in Seq(Message) /\ Len(taken') <= 1
    BY DEF Unlock, TypeOK, books
  <2>5. /\ writeMu' \in Writers \cup {"none"}
        /\ deadline' \in {"none", "data", "control", "past"}
    BY DEF Unlock, TypeOK, Writers, SetDeadline, Data, net
  <2>6. sent' \in Seq(Frames)
    BY DEF Unlock, TypeOK, net
  <2> QED BY <2>1, <2>2, <2>3, <2>4, <2>5, <2>6 DEF TypeOK
<1>2. OneWriter' BY SMTT(20) DEF Unlock, Goto, books, After, Data, TypeOK, OneWriter, Locked, Writers, net
<1>3. Stopped' BY SMTT(20) DEF Unlock, Goto, SetDeadline, books, After, Data, TypeOK, Stopped, OneWriter, Locked, Unsent, Writers, net
<1>4. Ordered' BY SMTT(20) DEF Unlock, Goto, books, After, Data, TypeOK, Ordered, Stopped, OneWriter, Locked, Unsent, Writers, net
<1>5. InterruptHolds' BY SMTT(20) DEF Unlock, Goto, books, After, Data, TypeOK, Stopped, InterruptHolds, OneWriter, Locked, Writers, net
<1>6. FramesInOrder' BY SMTT(20) DEF Unlock, books, Data, TypeOK, Ordered, Stopped, FramesInOrder, Unsent, Writers, OneWriter, Locked, net
<1> QED BY <1>1, <1>2, <1>3, <1>4, <1>5, <1>6

-----------------------------------------------------------------------------
(* The closing handshake.                                                  *)

LEMMA InterruptInv ==
  ASSUME QueueInv, Interrupt PROVE QueueInv'
<1> USE DEF QueueInv
<1>1. TypeOK'
  <2>1. pc' \in [Writers \cup {"batch"} -> Pc] BY DEF Interrupt, Goto, Data, TypeOK, Writers, Pc
  <2>2. inRoom' \in BOOLEAN /\ stopCh' \in BOOLEAN /\ final' \in BOOLEAN /\ netClosed' \in BOOLEAN
    BY DEF Interrupt, TypeOK, net
  <2>3. sendQueue' \in Seq(Message) /\ queuedBytes' \in Int /\ made' \in Nat /\ pongs' \in Nat
    BY DEF Interrupt, TypeOK, books
  <2>4. taken' \in Seq(Message) /\ Len(taken') <= 1
    BY DEF Interrupt, TypeOK, books
  <2>5. /\ writeMu' \in Writers \cup {"none"}
        /\ deadline' \in {"none", "data", "control", "past"}
    BY DEF Interrupt, TypeOK, Writers, SetDeadline, Data, net
  <2>6. sent' \in Seq(Frames)
    BY DEF Interrupt, TypeOK, net
  <2> QED BY <2>1, <2>2, <2>3, <2>4, <2>5, <2>6 DEF TypeOK
<1>2. OneWriter' BY SMTT(20) DEF Interrupt, Goto, books, Data, TypeOK, OneWriter, Locked, Writers, net
<1>3. Stopped' BY SMTT(20) DEF Interrupt, Goto, SetDeadline, books, Data, TypeOK, Stopped, OneWriter, Locked, Unsent, Writers, net
<1>4. Ordered' BY SMTT(20) DEF Interrupt, Goto, books, Data, TypeOK, Ordered, Stopped, OneWriter, Locked, Unsent, Writers, net
<1>5. InterruptHolds' BY SMTT(20) DEF Interrupt, SetDeadline, books, Data, TypeOK, Stopped, InterruptHolds, OneWriter, Locked, Writers, net
<1>6. FramesInOrder' BY SMTT(20) DEF Interrupt, books, Data, TypeOK, Ordered, Stopped, FramesInOrder, Unsent, Writers, OneWriter, Locked, net
<1> QED BY <1>1, <1>2, <1>3, <1>4, <1>5, <1>6

LEMMA CloserLockInv ==
  ASSUME QueueInv, CloserLock PROVE QueueInv'
<1> USE DEF QueueInv
<1>1. TypeOK'
  <2>1. pc' \in [Writers \cup {"batch"} -> Pc] BY DEF CloserLock, Goto, Data, TypeOK, Writers, Pc
  <2>2. inRoom' \in BOOLEAN /\ stopCh' \in BOOLEAN /\ final' \in BOOLEAN /\ netClosed' \in BOOLEAN
    BY DEF CloserLock, TypeOK, net
  <2>3. sendQueue' \in Seq(Message) /\ queuedBytes' \in Int /\ made' \in Nat /\ pongs' \in Nat
    BY DEF CloserLock, TypeOK, books
  <2>4. taken' \in Seq(Message) /\ Len(taken') <= 1
    BY DEF CloserLock, TypeOK, books
  <2>5. /\ writeMu' \in Writers \cup {"none"}
        /\ deadline' \in {"none", "data", "control", "past"}
    BY DEF CloserLock, TypeOK, Writers, SetDeadline, Data, net
  <2>6. sent' \in Seq(Frames)
    BY DEF CloserLock, TypeOK, net
  <2> QED BY <2>1, <2>2, <2>3, <2>4, <2>5, <2>6 DEF TypeOK
<1>2. OneWriter' BY SMTT(20) DEF CloserLock, Goto, books, Data, TypeOK, OneWriter, Locked, Writers, net
<1>3. Stopped' BY SMTT(20) DEF CloserLock, Goto, SetDeadline, books, Data, TypeOK, Stopped, OneWriter, Locked, Unsent, Writers, net
<1>4. Ordered' BY SMTT(20) DEF CloserLock, Goto, books, Data, TypeOK, Ordered, Stopped, OneWriter, Locked, Unsent, Writers, net
<1>5. InterruptHolds' BY SMTT(20) DEF CloserLock, Goto, books, Data, TypeOK, Stopped, InterruptHolds, OneWriter, Locked, Writers, net
<1>6. FramesInOrder' BY SMTT(20) DEF CloserLock, books, Data, TypeOK, Ordered, Stopped, FramesInOrder, Unsent, Writers, OneWriter, Locked, net
<1> QED BY <1>1, <1>2, <1>3, <1>4, <1>5, <1>6

LEMMA WriteFinalInv ==
  ASSUME QueueInv, WriteFinal PROVE QueueInv'
<1> USE DEF QueueInv
<1>0. sent' \in Seq(Frames) /\ Ordered' /\ FramesInOrder'
  <2>1. /\ pc'["closer"] = "close" /\ pc'["loop"] = pc["loop"] /\ pc["closer"] = "final"
        /\ UNCHANGED <<made, sendQueue, taken>>
    BY DEF WriteFinal, Goto, TypeOK, Writers, books
  <2>2. CASE sent' = sent
    BY <2>1, <2>2 DEF TypeOK, Ordered, FramesInOrder
  <2>3. CASE sent' = Append(sent, Final)
    <3>1. Final \in Frames /\ Final <= made /\ ~(Final > 0) /\ Final # CloseFrame
      BY DEF TypeOK, Frames, CloseFrame, Final
    <3>2. /\ \A i \in DOMAIN sendQueue : Final < sendQueue[i].id
          /\ \A k \in DOMAIN taken : Final < taken[k].id
      <4>1. /\ \A i \in DOMAIN sendQueue : sendQueue[i] \in Message
            /\ \A k \in DOMAIN taken : taken[k] \in Message
        BY Element DEF TypeOK
      <4> QED BY <4>1 DEF Ordered, Final, Message
    <3>3. \A j \in DOMAIN sent : sent[j] # CloseFrame /\ (sent[j] = Final => Final = CloseFrame)
      BY <2>1 DEF Ordered
    <3> QED BY <2>1, <2>3, <3>1, <3>2, <3>3, FrameSent
  <2> QED BY <2>2, <2>3 DEF WriteFinal
<1>1. TypeOK'
  <2>1. pc' \in [Writers \cup {"batch"} -> Pc] BY DEF WriteFinal, Goto, Data, TypeOK, Writers, Pc
  <2>2. inRoom' \in BOOLEAN /\ stopCh' \in BOOLEAN /\ final' \in BOOLEAN /\ netClosed' \in BOOLEAN
    BY DEF WriteFinal, TypeOK, net
  <2>3. sendQueue' \in Seq(Message) /\ queuedBytes' \in Int /\ made' \in Nat /\ pongs' \in Nat
    BY DEF WriteFinal, TypeOK, books
  <2>4. taken' \in Seq(Message) /\ Len(taken') <= 1
    BY DEF WriteFinal, TypeOK, books
  <2>5. /\ writeMu' \in Writers \cup {"none"}
        /\ deadline' \in {"none", "data", "control", "past"}
    BY DEF WriteFinal, TypeOK, Writers, Data, net
  <2> QED BY <1>0, <2>1, <2>2, <2>3, <2>4, <2>5 DEF TypeOK
<1>2. OneWriter' BY SMTT(20) DEF WriteFinal, Goto, books, Data, TypeOK, OneWriter, Locked, Writers, net
<1>3. Stopped' BY SMTT(20) DEF WriteFinal, Goto, books, Data, TypeOK, Stopped, OneWriter, Locked, Unsent, Writers, net
<1>5. InterruptHolds' BY SMTT(20) DEF WriteFinal, Goto, books, Data, TypeOK, Stopped, InterruptHolds, OneWriter, Locked, Writers, net
<1> QED BY <1>0, <1>1, <1>2, <1>3, <1>5

LEMMA WriteCloseInv ==
  ASSUME QueueInv, WriteClose PROVE QueueInv'
<1> USE DEF QueueInv
<1>0. sent' \in Seq(Frames) /\ Ordered' /\ FramesInOrder'
  <2>1. /\ pc'["closer"] = "net" /\ pc'["loop"] = pc["loop"] /\ pc["closer"] = "close"
        /\ UNCHANGED <<made, sendQueue, taken>>
    BY DEF WriteClose, Goto, TypeOK, Writers, books
  <2>2. CASE sent' = sent
    BY <2>1, <2>2 DEF TypeOK, Ordered, FramesInOrder
  <2>3. CASE sent' = Append(sent, CloseFrame)
    <3>1. CloseFrame \in Frames /\ CloseFrame <= made /\ ~(CloseFrame > 0) /\ Final # CloseFrame
      BY DEF TypeOK, Frames, CloseFrame, Final
    <3>2. /\ \A i \in DOMAIN sendQueue : CloseFrame < sendQueue[i].id
          /\ \A k \in DOMAIN taken : CloseFrame < taken[k].id
      <4>1. /\ \A i \in DOMAIN sendQueue : sendQueue[i] \in Message
            /\ \A k \in DOMAIN taken : taken[k] \in Message
        BY Element DEF TypeOK
      <4> QED BY <4>1 DEF Ordered, CloseFrame, Message
    <3>3. \A j \in DOMAIN sent : sent[j] # CloseFrame /\ (sent[j] = Final => CloseFrame = CloseFrame)
      BY <2>1 DEF Ordered
    <3> QED BY <2>1, <2>3, <3>1, <3>2, <3>3, FrameSent
  <2> QED BY <2>2, <2>3 DEF WriteClose
<1>1. TypeOK'
  <2>1. pc' \in [Writers \cup {"batch"} -> Pc] BY DEF WriteClose, Goto, Data, TypeOK, Writers, Pc
  <2>2. inRoom' \in BOOLEAN /\ stopCh' \in BOOLEAN /\ final' \in BOOLEAN /\ netClosed' \in BOOLEAN
    BY DEF WriteClose, TypeOK, net
  <2>3. sendQueue' \in Seq(Message) /\ queuedBytes' \in Int /\ made' \in Nat /\ pongs' \in Nat
    BY DEF WriteClose, TypeOK, books
  <2>4. taken' \in Seq(Message) /\ Len(taken') <= 1
    BY DEF WriteClose, TypeOK, books
  <2>5. /\ writeMu' \in Writers \cup {"none"}
        /\ deadline' \in {"none", "data", "control", "past"}
    BY DEF WriteClose, TypeOK, Writers, Data, net
  <2> QED BY <1>0, <2>1, <2>2, <2>3, <2>4, <2>5 DEF TypeOK
<1>2. OneWriter' BY SMTT(20) DEF WriteClose, Goto, books, Data, TypeOK, OneWriter, Locked, Writers, net
<1>3. Stopped' BY SMTT(20) DEF WriteClose, Goto, books, Data, TypeOK, Stopped, OneWriter, Locked, Unsent, Writers, net
<1>5. InterruptHolds' BY SMTT(20) DEF WriteClose, Goto, books, Data, TypeOK, Stopped, InterruptHolds, OneWriter, Locked, Writers, net
<1> QED BY <1>0, <1>1, <1>2, <1>3, <1>5

LEMMA CloseNetInv ==
  ASSUME QueueInv, CloseNet PROVE QueueInv'
<1> USE DEF QueueInv
<1>1. TypeOK'
  <2>1. pc' \in [Writers \cup {"batch"} -> Pc] BY DEF CloseNet, Goto, Data, TypeOK, Writers, Pc
  <2>2. inRoom' \in BOOLEAN /\ stopCh' \in BOOLEAN /\ final' \in BOOLEAN /\ netClosed' \in BOOLEAN
    BY DEF CloseNet, TypeOK, net
  <2>3. sendQueue' \in Seq(Message) /\ queuedBytes' \in Int /\ made' \in Nat /\ pongs' \in Nat
    BY DEF CloseNet, TypeOK, books
  <2>4. taken' \in Seq(Message) /\ Len(taken') <= 1
    BY DEF CloseNet, TypeOK, books
  <2>5. /\ writeMu' \in Writers \cup {"none"}
        /\ deadline' \in {"none", "data", "control", "past"}
    BY DEF CloseNet, TypeOK, Writers, Data, net
  <2>6. sent' \in Seq(Frames)
    BY DEF CloseNet, TypeOK, net
  <2> QED BY <2>1, <2>2, <2>3, <2>4, <2>5, <2>6 DEF TypeOK
<1>2. OneWriter' BY SMTT(20) DEF CloseNet, Goto, books, Data, TypeOK, OneWriter, Locked, Writers, net
<1>3. Stopped' BY SMTT(20) DEF CloseNet, Goto, books, Data, TypeOK, Stopped, OneWriter, Locked, Unsent, Writers, net
<1>4. Ordered' BY SMTT(20) DEF CloseNet, Goto, books, Data, TypeOK, Ordered, Stopped, OneWriter, Locked, Unsent, Writers, net
<1>5. InterruptHolds' BY SMTT(20) DEF CloseNet, Goto, books, Data, TypeOK, Stopped, InterruptHolds, OneWriter, Locked, Writers, net
<1>6. FramesInOrder' BY SMTT(20) DEF CloseNet, books, Data, TypeOK, Ordered, Stopped, FramesInOrder, Unsent, Writers, OneWriter, Locked, net
<1> QED BY <1>1, <1>2, <1>3, <1>4, <1>5, <1>6

-----------------------------------------------------------------------------
(* The theorems.                                                           *)

\* The beginning.
LEMMA InitInv == Init => QueueInv
<1> SUFFICES ASSUME Init PROVE QueueInv BY DEF QueueInv
<1>1. TypeOK
  <2>1. <<>> \in Seq(Message) /\ Len(<<>>) = 0 /\ <<>> \in Seq(Frames) BY EmptySeq
  <2>2. pc \in [Writers \cup {"batch"} -> Pc] BY DEF Init, Writers, Pc
  <2>3. inRoom \in BOOLEAN /\ stopCh \in BOOLEAN /\ final \in BOOLEAN /\ netClosed \in BOOLEAN
    BY DEF Init
  <2>4. queuedBytes \in Int /\ made \in Nat /\ pongs \in Nat BY DEF Init
  <2>5. writeMu \in Writers \cup {"none"} /\ deadline \in {"none", "data", "control", "past"}
    BY DEF Init
  <2>6. sendQueue = <<>> /\ taken = <<>> /\ sent = <<>> BY DEF Init
  <2> QED BY <2>1, <2>2, <2>3, <2>4, <2>5, <2>6 DEF TypeOK
<1>2. OneWriter BY DEF Init, OneWriter, Writers, Locked
<1>3. Stopped BY DEF Init, Stopped, Data, Unsent
<1>4. Ordered /\ InterruptHolds /\ FramesInOrder
  BY DEF Init, Ordered, InterruptHolds, FramesInOrder, Data
<1> QED BY <1>1, <1>2, <1>3, <1>4 DEF QueueInv

\* Every step.
LEMMA NextInv == QueueInv /\ [Next]_vars => QueueInv'
<1> SUFFICES ASSUME QueueInv, [Next]_vars PROVE QueueInv' OBVIOUS
<1>1. CASE \E size \in Sizes : Enqueue(size) BY <1>1, EnqueueInv
<1>2. CASE RemoveClient \/ RemoveAll BY <1>2, RemoveClientInv, RemoveAllInv
<1>3. CASE BatchBegin \/ BatchWait \/ BatchForced BY <1>3, BatchBeginInv, BatchWaitInv, BatchForcedInv
<1>4. CASE LoopTake \/ LoopStop \/ Release \/ LoopClose \/ LoopRemove
  BY <1>4, LoopTakeInv, LoopStopInv, ReleaseInv, LoopCloseInv, LoopRemoveInv
<1>5. CASE Ping BY <1>5, PingInv
<1>6. CASE \E w \in Data : Lock(w) \/ Check(w) \/ Write(w) \/ Unlock(w)
  BY <1>6, LockInv, CheckInv, WriteInv, UnlockInv
<1>7. CASE Interrupt \/ CloserLock \/ WriteFinal \/ WriteClose \/ CloseNet
  BY <1>7, InterruptInv, CloserLockInv, WriteFinalInv, WriteCloseInv, CloseNetInv
<1>8. CASE UNCHANGED vars
  BY <1>8 DEF vars, books, QueueInv, TypeOK, OneWriter, Stopped, Ordered, InterruptHolds, FramesInOrder, net
<1> QED BY <1>1, <1>2, <1>3, <1>4, <1>5, <1>6, <1>7, <1>8 DEF Next

\* The inductive invariant of a client, for any queue, any limits and any
\* messages (room_client.go, lines 115-301).
THEOREM QueueInvariant == Spec => []QueueInv
BY InitInv, NextInv, PTL DEF Spec

\* The variables of a client keep their types.
THEOREM QueueTypes == Spec => []TypeOK
<1>1. QueueInv => TypeOK BY DEF QueueInv
<1> QED BY <1>1, QueueInvariant, PTL

\* Once beginClose has interrupted the writers (writeFinalAndClose), no write
\* has a deadline other than the short one, and none has no deadline.
THEOREM CloseIsPrompt == Spec => []InterruptHolds
<1>1. QueueInv => InterruptHolds BY DEF QueueInv
<1> QED BY <1>1, QueueInvariant, PTL

\* Whatever the order of broadcasts, pongs and the handshake, the peer gets
\* the messages in the order of the queue and the close frame last.
THEOREM FramesOrdered == Spec => []FramesInOrder
<1>1. QueueInv => FramesInOrder BY DEF QueueInv
<1> QED BY <1>1, QueueInvariant, PTL
-----------------------------------------------------------------------------
(***************************************************************************)
(* Induction.  That smaller numbers come before larger ones is well        *)
(* founded (WellFoundedInduction); so a set of numbers has a least one,    *)
(* and a set that has 0 and the successors of its members has all.         *)
(***************************************************************************)

LEMMA Least ==
  ASSUME NEW T, T \subseteq Nat, T # {}
  PROVE  \E x \in T : \A y \in T : x <= y
<1> DEFINE R == OpToRel(<, Nat)
<1>1. IsWellFoundedOn(R, Nat) BY NatLessThanWellFounded
<1>2. \A x, y \in Nat : x < y => <<x, y>> \in R BY DEF OpToRel
<1> HIDE DEF R
<1>3. PICK x \in T : \A y \in T : ~ (<<y, x>> \in R) BY <1>1, WFMin
<1>4. \A y \in T : ~ (y < x) BY <1>2, <1>3
<1>5. \A y \in T : x <= y BY <1>3, <1>4
<1> QED BY <1>3, <1>5

LEMMA Induction ==
  ASSUME NEW S, 0 \in S, \A n \in Nat : n \in S => n + 1 \in S
  PROVE  Nat \subseteq S
<1> SUFFICES ASSUME Nat \ S # {} PROVE FALSE OBVIOUS
<1>1. PICK x \in Nat \ S : \A y \in Nat \ S : x <= y BY Least
<1>2. x # 0 /\ x - 1 \in Nat BY <1>1
<1>3. x - 1 \in S BY <1>1, <1>2
<1>4. (x - 1) + 1 = x BY <1>1
<1> QED BY <1>1, <1>2, <1>3, <1>4

-----------------------------------------------------------------------------
(* The bytes that are counted.                                             *)

\* What a function has to satisfy to be the one in the definition of Bytes.
Sums(q, f) == f = [i \in 0 .. Len(q) |-> IF i = 0 THEN 0 ELSE f[i - 1] + q[i].size]

LEMMA SumsPointwise ==
  ASSUME NEW q \in Seq(Message), NEW f
  PROVE  Sums(q, f) <=> /\ f = [i \in 0 .. Len(q) |-> f[i]]
                        /\ f[0] = 0
                        /\ \A i \in 1 .. Len(q) : f[i] = f[i - 1] + q[i].size
<1> DEFINE n == Len(q)
           g == [i \in 0 .. n |-> IF i = 0 THEN 0 ELSE f[i - 1] + q[i].size]
<1>1. n \in Nat BY LenProperties
<1>2. 0 \in 0 .. n /\ (\A i \in 1 .. n : i \in 0 .. n /\ i # 0) BY <1>1
<1>3. \A i \in 0 .. n : i = 0 \/ i \in 1 .. n BY <1>1
<1>4. ASSUME Sums(q, f)
      PROVE  /\ f = [i \in 0 .. n |-> f[i]] /\ f[0] = 0
             /\ \A i \in 1 .. n : f[i] = f[i - 1] + q[i].size
  <2>1. f = g BY <1>4 DEF Sums
  <2>2. \A i \in 0 .. n : g[i] = IF i = 0 THEN 0 ELSE f[i - 1] + q[i].size OBVIOUS
  <2>3. g = [i \in 0 .. n |-> g[i]] OBVIOUS
  <2> HIDE DEF g
  <2>4. f[0] = 0 BY <2>1, <2>2, <1>2
  <2>5. \A i \in 1 .. n : f[i] = f[i - 1] + q[i].size BY <2>1, <2>2, <1>2
  <2>6. f = [i \in 0 .. n |-> f[i]] BY <2>1, <2>3
  <2> QED BY <2>4, <2>5, <2>6
<1>5. ASSUME f = [i \in 0 .. n |-> f[i]], f[0] = 0,
             \A i \in 1 .. n : f[i] = f[i - 1] + q[i].size
      PROVE  Sums(q, f)
  <2>1. \A i \in 0 .. n : f[i] = IF i = 0 THEN 0 ELSE f[i - 1] + q[i].size BY <1>3, <1>5
  <2>2. [i \in 0 .. n |-> f[i]] = g BY <2>1
  <2>3. f = g BY <2>2, <1>5
  <2> QED BY <2>3 DEF Sums
<1> QED BY <1>4, <1>5

\* One message more.
LEMMA SumsExtended ==
  ASSUME NEW q \in Seq(Message), NEW k \in Nat, k + 1 <= Len(q), NEW f \in [0 .. k -> Nat],
         f[0] = 0, \A i \in 1 .. k : f[i] = f[i - 1] + q[i].size
  PROVE  \E g \in [0 .. k + 1 -> Nat] :
            /\ g[0] = 0 /\ \A i \in 1 .. k + 1 : g[i] = g[i - 1] + q[i].size
            /\ g[k + 1] = f[k] + q[k + 1].size
<1> DEFINE g == [i \in 0 .. k + 1 |-> IF i = k + 1 THEN f[k] + q[k + 1].size ELSE f[i]]
<1>1. q[k + 1].size \in Nat
  <2>1. k + 1 \in 1 .. Len(q) BY LenProperties
  <2>2. q[k + 1] \in Message BY <2>1, ElementOfSeq
  <2> QED BY <2>2 DEF Message
<1>2. g \in [0 .. k + 1 -> Nat] BY <1>1
<1>3. \A i \in 0 .. k : i # k + 1 /\ i \in 0 .. k + 1 /\ g[i] = f[i] OBVIOUS
<1>4. g[k + 1] = f[k] + q[k + 1].size OBVIOUS
<1> HIDE DEF g
<1>5. ASSUME NEW i \in 1 .. k + 1 PROVE g[i] = g[i - 1] + q[i].size
  <2>1. CASE i = k + 1
    <3>1. i - 1 = k /\ k \in 0 .. k BY <2>1
    <3> QED BY <3>1, <2>1, <1>3, <1>4
  <2>2. CASE i # k + 1
    <3>1. i \in 1 .. k /\ i \in 0 .. k /\ i - 1 \in 0 .. k BY <2>2
    <3> QED BY <3>1, <1>3
  <2> QED BY <2>1, <2>2
<1>6. g[0] = 0
  <2>1. 0 \in 0 .. k OBVIOUS
  <2> QED BY <2>1, <1>3
<1> QED BY <1>2, <1>4, <1>5, <1>6

\* There is such a function, and only one.
LEMMA SumsExist ==
  ASSUME NEW q \in Seq(Message) PROVE \E f \in [0 .. Len(q) -> Nat] : Sums(q, f)
<1> DEFINE Upto(n) == \E f \in [0 .. n -> Nat] :
                         f[0] = 0 /\ \A i \in 1 .. n : f[i] = f[i - 1] + q[i].size
           S == {n \in Nat : n <= Len(q) => Upto(n)}
<1>1. Len(q) \in Nat BY LenProperties
<1>2. 0 \in S
  <2> DEFINE z == [i \in 0 .. 0 |-> 0]
  <2>1. z \in [0 .. 0 -> Nat] /\ z[0] = 0 OBVIOUS
  <2>2. \A i \in 1 .. 0 : FALSE OBVIOUS
  <2> HIDE DEF z
  <2>3. Upto(0) BY <2>1, <2>2
  <2> QED BY <2>3
<1>3. ASSUME NEW n \in Nat, n \in S PROVE n + 1 \in S
  <2>1. ASSUME n + 1 <= Len(q) PROVE Upto(n + 1)
    <3>1. Upto(n)
      <4>1. n <= Len(q) BY <1>1, <2>1
      <4> HIDE DEF Upto
      <4> QED BY <4>1, <1>3
    <3>2. PICK f \in [0 .. n -> Nat] : f[0] = 0 /\ \A i \in 1 .. n : f[i] = f[i - 1] + q[i].size
      BY <3>1
    <3>3. \E g \in [0 .. n + 1 -> Nat] :
             /\ g[0] = 0 /\ \A i \in 1 .. n + 1 : g[i] = g[i - 1] + q[i].size
             /\ g[n + 1] = f[n] + q[n + 1].size
      BY <2>1, <3>2, SumsExtended
    <3> QED BY <3>3
  <2> HIDE DEF Upto
  <2> QED BY <2>1
<1> HIDE DEF S
<1>4. Nat \subseteq S BY <1>2, <1>3, Induction
<1>5. Upto(Len(q))
  <2>1. Len(q) \in S BY <1>1, <1>4
  <2> QED BY <1>1, <2>1 DEF S
<1>6. PICK f \in [0 .. Len(q) -> Nat] : f[0] = 0 /\ \A i \in 1 .. Len(q) : f[i] = f[i - 1] + q[i].size
  BY <1>5
<1>7. f = [i \in 0 .. Len(q) |-> f[i]] OBVIOUS
<1> QED BY <1>6, <1>7, SumsPointwise

LEMMA SumsUnique ==
  ASSUME NEW q \in Seq(Message), NEW f, NEW g, Sums(q, f), Sums(q, g)
  PROVE  f = g
<1> DEFINE S == {n \in Nat : n <= Len(q) => f[n] = g[n]}
<1>1. /\ f = [i \in 0 .. Len(q) |-> f[i]] /\ f[0] = 0
      /\ g = [i \in 0 .. Len(q) |-> g[i]] /\ g[0] = 0
      /\ \A i \in 1 .. Len(q) : f[i] = f[i - 1] + q[i].size /\ g[i] = g[i - 1] + q[i].size
  BY SumsPointwise
<1>2. Len(q) \in Nat BY LenProperties
<1>3. 0 \in S BY <1>1
<1>4. ASSUME NEW n \in Nat, n \in S PROVE n + 1 \in S
  <2> SUFFICES ASSUME n + 1 <= Len(q) PROVE f[n + 1] = g[n + 1] BY <1>2
  <2>1. f[n] = g[n] BY <1>2, <1>4
  <2>2. n + 1 \in 1 .. Len(q) /\ (n + 1) - 1 = n BY <1>2
  <2> QED BY <2>1, <2>2, <1>1
<1>5. Nat \subseteq S
  <2> HIDE DEF S
  <2> QED BY <1>3, <1>4, Induction
<1>6. \A i \in 0 .. Len(q) : f[i] = g[i] BY <1>2, <1>5
<1>7. [i \in 0 .. Len(q) |-> f[i]] = [i \in 0 .. Len(q) |-> g[i]] BY <1>6
<1> QED BY <1>1, <1>7

\* So Bytes is what any such function ends with.
LEMMA BytesIs ==
  ASSUME NEW q \in Seq(Message), NEW f, Sums(q, f) PROVE Bytes(q) = f[Len(q)]
<1> DEFINE upTo == CHOOSE g : g = [i \in 0 .. Len(q) |-> IF i = 0 THEN 0 ELSE g[i - 1] + q[i].size]
<1>1. Bytes(q) = upTo[Len(q)] BY DEF Bytes
<1>2. Sums(q, upTo) BY DEF Sums
<1> HIDE DEF upTo
<1>3. upTo = f BY <1>2, SumsUnique
<1> QED BY <1>1, <1>3

LEMMA BytesNat == ASSUME NEW q \in Seq(Message) PROVE Bytes(q) \in Nat
<1>1. PICK f \in [0 .. Len(q) -> Nat] : Sums(q, f) BY SumsExist
<1>2. Len(q) \in 0 .. Len(q) BY LenProperties
<1> QED BY <1>1, <1>2, BytesIs

LEMMA BytesEmpty == Bytes(<< >>) = 0
<1>1. << >> \in Seq(Message) /\ Len(<< >>) = 0 BY EmptySeq
<1>2. PICK f : Sums(<< >>, f) BY <1>1, SumsExist
<1>3. f[0] = 0 BY <1>1, <1>2, SumsPointwise
<1> QED BY <1>1, <1>2, <1>3, BytesIs

LEMMA BytesAppend ==
  ASSUME NEW q \in Seq(Message), NEW x \in Message
  PROVE  Bytes(Append(q, x)) = Bytes(q) + x.size
<1> DEFINE k == Len(q)
           p == Append(q, x)
<1>1. /\ k \in Nat /\ p \in Seq(Message) /\ Len(p) = k + 1 /\ p[k + 1] = x
      /\ \A i \in 1 .. k : p[i] = q[i]
  BY AppendProperties, LenProperties
<1>2. PICK f \in [0 .. k -> Nat] : Sums(q, f) BY SumsExist
<1>3. f[0] = 0 /\ \A i \in 1 .. k : f[i] = f[i - 1] + q[i].size BY <1>2, SumsPointwise
<1>4. Bytes(q) = f[k] BY <1>2, BytesIs
<1> HIDE DEF k, p
<1>5. \A i \in 1 .. k : f[i] = f[i - 1] + p[i].size BY <1>1, <1>3
<1>6. PICK g \in [0 .. k + 1 -> Nat] :
         /\ g[0] = 0 /\ \A i \in 1 .. k + 1 : g[i] = g[i - 1] + p[i].size
         /\ g[k + 1] = f[k] + p[k + 1].size
  <2>1. k + 1 <= Len(p) BY <1>1
  <2> QED BY <1>1, <1>3, <1>5, <2>1, SumsExtended
<1>7. g = [i \in 0 .. k + 1 |-> g[i]] OBVIOUS
<1>8. Sums(p, g) BY <1>1, <1>6, <1>7, SumsPointwise
<1>9. Bytes(p) = g[k + 1] BY <1>1, <1>8, BytesIs
<1> QED BY <1>1, <1>4, <1>6, <1>9 DEF p

LEMMA BytesTail ==
  ASSUME NEW q \in Seq(Message), q # << >>
  PROVE  Bytes(q) = Head(q).size + Bytes(Tail(q))
<1> DEFINE k == Len(q)
           p == Tail(q)
           s == Head(q).size
<1>1. /\ k \in Nat /\ k > 0 /\ p \in Seq(Message) /\ Len(p) = k - 1 /\ Head(q) \in Message
      /\ \A i \in 1 .. k - 1 : p[i] = q[i + 1]
  BY HeadTailProperties, LenProperties, EmptySeq
<1>2. s \in Nat /\ s = q[1].size BY <1>1 DEF Message
<1>3. PICK f \in [0 .. k - 1 -> Nat] : Sums(p, f) BY <1>1, SumsExist
<1>4. f[0] = 0 /\ \A i \in 1 .. k - 1 : f[i] = f[i - 1] + p[i].size
  BY <1>1, <1>3, SumsPointwise
<1>5. Bytes(p) = f[k - 1] BY <1>1, <1>3, BytesIs
<1> HIDE DEF k, p, s
<1> DEFINE g == [i \in 0 .. k |-> IF i = 0 THEN 0 ELSE s + f[i - 1]]
<1>6. g = [i \in 0 .. k |-> g[i]] /\ g[0] = 0 BY <1>1
<1>7. \A i \in 1 .. k : g[i] = s + f[i - 1] BY <1>1
<1> HIDE DEF g
<1>8. ASSUME NEW i \in 1 .. k PROVE g[i] = g[i - 1] + q[i].size
  <2>1. CASE i = 1
    <3>1. g[1] = s + f[0] BY <1>7, <2>1
    <3> QED BY <3>1, <2>1, <1>2, <1>4, <1>6
  <2>2. CASE i # 1
    <3>1. /\ i - 1 \in 1 .. k - 1 /\ i - 1 \in 1 .. k /\ (i - 1) + 1 = i
          /\ i - 1 \in 0 .. k - 1 /\ (i - 1) - 1 \in 0 .. k - 1
      BY <1>1, <2>2
    <3>2. g[i] = s + f[i - 1] /\ g[i - 1] = s + f[(i - 1) - 1] BY <3>1, <1>7
    <3>3. f[i - 1] = f[(i - 1) - 1] + q[i].size BY <3>1, <1>1, <1>4
    <3>4. f[(i - 1) - 1] \in Nat /\ q[i].size \in Nat
      <4>1. q[i] \in Message BY ElementOfSeq DEF k
      <4> QED BY <4>1, <3>1 DEF Message
    <3> QED BY <3>2, <3>3, <3>4, <1>2
  <2> QED BY <2>1, <2>2
<1>9. Sums(q, g) BY <1>6, <1>8, SumsPointwise DEF k
<1>10. Bytes(q) = g[k] BY <1>9, BytesIs DEF k
<1>11. k \in 1 .. k BY <1>1
<1> QED BY <1>5, <1>7, <1>10, <1>11 DEF p, s

\* The queue with a message in the hands of the write loop before it.
LEMMA BytesTaken ==
  ASSUME NEW q \in Seq(Message), NEW x \in Message
  PROVE  Bytes(<<x>> \o q) = x.size + Bytes(q)
<1> DEFINE p == <<x>> \o q
<1>1. <<x>> \in Seq(Message) /\ Len(<<x>>) = 1 /\ <<x>>[1] = x OBVIOUS
<1>2. /\ p \in Seq(Message) /\ Len(p) = 1 + Len(q)
      /\ \A i \in 1 .. 1 + Len(q) : p[i] = IF i <= 1 THEN <<x>>[i] ELSE q[i - 1]
  BY <1>1, ConcatProperties
<1>3. Len(q) \in Nat BY LenProperties
<1> HIDE DEF p
<1>4. p # << >>
  <2>1. Len(p) # 0 BY <1>2, <1>3
  <2> QED BY <2>1, EmptySeq
<1>5. Head(p) = x BY <1>1, <1>2, <1>3
<1>6. Tail(p) = q
  <2>1. Tail(p) \in Seq(Message) /\ Len(Tail(p)) = Len(q)
        /\ \A i \in 1 .. Len(q) : Tail(p)[i] = p[i + 1]
    BY <1>2, <1>3, <1>4, HeadTailProperties
  <2>2. \A i \in 1 .. Len(q) : p[i + 1] = q[i]
    <3> SUFFICES ASSUME NEW i \in 1 .. Len(q) PROVE p[i + 1] = q[i] OBVIOUS
    <3>1. i + 1 \in 1 .. 1 + Len(q) /\ ~(i + 1 <= 1) /\ (i + 1) - 1 = i BY <1>3
    <3> QED BY <3>1, <1>2
  <2> QED BY <2>1, <2>2, SeqEqual
<1> QED BY <1>2, <1>4, <1>5, <1>6, BytesTail DEF p

\* The account holds at the beginning, and every step keeps it.
LEMMA AccountedInit == Init => BytesAccounted
<1> SUFFICES ASSUME Init PROVE BytesAccounted OBVIOUS
<1>1. taken = << >> /\ sendQueue = << >> /\ queuedBytes = 0 BY DEF Init
<1>2. << >> \in Seq(Message) /\ Len(<< >>) = 0 BY EmptySeq
<1>3. taken \o sendQueue = << >> BY <1>1, <1>2, ConcatEmptySeq
<1> QED BY <1>1, <1>2, <1>3, BytesEmpty, LimitsAssumption DEF BytesAccounted

LEMMA AccountedStep == QueueInv /\ BytesAccounted /\ [Next]_vars => BytesAccounted'
<1> SUFFICES ASSUME QueueInv, BytesAccounted, [Next]_vars PROVE BytesAccounted' OBVIOUS
<1>1. /\ taken \in Seq(Message) /\ sendQueue \in Seq(Message) /\ made \in Nat
      /\ Len(taken) \in Nat /\ Len(taken) <= 1
  BY LenProperties DEF QueueInv, TypeOK
<1>2. taken \o sendQueue \in Seq(Message) BY <1>1, ConcatProperties
<1>3. CASE UNCHANGED <<taken, sendQueue, queuedBytes>> BY <1>3 DEF BytesAccounted
<1>4. ASSUME NEW size \in Sizes, Enqueue(size) PROVE BytesAccounted'
  <2>1. CASE queuedBytes + size > MaxBytes \/ Len(sendQueue) = MaxQueue
    BY <1>3, <1>4, <2>1 DEF Enqueue, books
  <2>2. CASE ~(queuedBytes + size > MaxBytes \/ Len(sendQueue) = MaxQueue)
    <3> DEFINE x == [id |-> made + 1, size |-> size]
    <3>1. sendQueue' = Append(sendQueue, x) /\ queuedBytes' = queuedBytes + size /\ taken' = taken
      BY <1>4, <2>2 DEF Enqueue
    <3>2. x \in Message /\ x.size = size /\ size \in Nat BY <1>1, SizesAssumption DEF Message
    <3> HIDE DEF x
    <3>3. taken \o Append(sendQueue, x) = Append(taken \o sendQueue, x)
      <4>1. <<x>> \in Seq(Message) BY <3>2
      <4>2. (taken \o sendQueue) \o <<x>> = taken \o (sendQueue \o <<x>>)
        BY <1>1, <4>1, ConcatAssociative
      <4>3. Append(sendQueue, x) = sendQueue \o <<x>> BY <1>1, <3>2, AppendIsConcat
      <4>4. Append(taken \o sendQueue, x) = (taken \o sendQueue) \o <<x>>
        BY <1>2, <3>2, AppendIsConcat
      <4> QED BY <4>2, <4>3, <4>4
    <3>4. queuedBytes' = Bytes(taken' \o sendQueue')
      <4>1. Bytes(Append(taken \o sendQueue, x)) = Bytes(taken \o sendQueue) + size
        BY <1>2, <3>2, BytesAppend
      <4> QED BY <4>1, <3>1, <3>3 DEF BytesAccounted
    <3>5. queuedBytes' <= MaxBytes
      <4>1. queuedBytes \in Nat BY <1>2, BytesNat DEF BytesAccounted
      <4> QED BY <4>1, <2>2, <3>1, <3>2, LimitsAssumption
    <3>6. Len(sendQueue') <= MaxQueue
      <4>1. Len(sendQueue') = Len(sendQueue) + 1 /\ Len(sendQueue) \in Nat
        BY <1>1, <3>1, <3>2, AppendProperties, LenProperties
      <4>2. Len(sendQueue) <= MaxQueue /\ Len(sendQueue) # MaxQueue BY <2>2 DEF BytesAccounted
      <4> QED BY <4>1, <4>2, LimitsAssumption
    <3> QED BY <3>4, <3>5, <3>6 DEF BytesAccounted
  <2> QED BY <2>1, <2>2
<1>5. ASSUME LoopTake PROVE BytesAccounted'
  <2>1. /\ taken' = <<Head(sendQueue)>> /\ sendQueue' = Tail(sendQueue)
        /\ queuedBytes' = queuedBytes /\ sendQueue # << >>
    BY <1>5 DEF LoopTake
  <2>2. taken = << >> BY <1>5 DEF LoopTake, QueueInv, Stopped, Unsent
  <2>3. taken \o sendQueue = sendQueue BY <1>1, <2>2, ConcatEmptySeq
  <2>4. /\ Head(sendQueue) \in Message /\ Tail(sendQueue) \in Seq(Message)
        /\ Len(Tail(sendQueue)) = Len(sendQueue) - 1 /\ Len(sendQueue) \in Nat
    BY <1>1, <2>1, HeadTailProperties, LenProperties
  <2>5. Bytes(sendQueue) = Head(sendQueue).size + Bytes(Tail(sendQueue))
    BY <1>1, <2>1, BytesTail
  <2>6. Bytes(<<Head(sendQueue)>> \o Tail(sendQueue)) = Head(sendQueue).size + Bytes(Tail(sendQueue))
    BY <2>4, BytesTaken
  <2>7. queuedBytes' = Bytes(taken' \o sendQueue') BY <2>1, <2>3, <2>5, <2>6 DEF BytesAccounted
  <2>8. Len(sendQueue') <= MaxQueue BY <2>1, <2>4, LimitsAssumption DEF BytesAccounted
  <2> QED BY <2>1, <2>7, <2>8 DEF BytesAccounted
<1>6. ASSUME Release PROVE BytesAccounted'
  <2> DEFINE x == Head(taken)
  <2>1. /\ taken' = << >> /\ sendQueue' = sendQueue
        /\ queuedBytes' = IF queuedBytes < x.size THEN 0 ELSE queuedBytes - x.size
    BY <1>6 DEF Release
  <2>2. taken # << >> BY <1>6 DEF Release, QueueInv, Stopped, Unsent
  <2>3. x \in Message /\ taken = <<x>>
    <3>1. x \in Message BY <1>1, <2>2, HeadTailProperties
    <3>2. Len(taken) = 1
      <4> DEFINE n == Len(taken)
      <4>1. n \in Nat \ {0} BY <1>1, <2>2, EmptySeq
      <4>2. n <= 1 BY <1>1
      <4> HIDE DEF n
      <4>3. n = 1 BY <4>1, <4>2
      <4> QED BY <4>3 DEF n
    <3>3. <<x>> \in Seq(Message) /\ Len(<<x>>) = 1 /\ <<x>>[1] = x BY <3>1
    <3>4. taken[1] = x OBVIOUS
    <3>5. \A i \in 1 .. 1 : taken[i] = <<x>>[i] BY <3>3, <3>4
    <3>6. taken = <<x>> BY <1>1, <3>2, <3>3, <3>5, SeqEqual
    <3> QED BY <3>1, <3>6
  <2>4. x.size \in Nat BY <2>3 DEF Message
  <2> HIDE DEF x
  <2>5. queuedBytes = x.size + Bytes(sendQueue)
    BY <1>1, <2>3, BytesTaken DEF BytesAccounted
  <2>6. Bytes(sendQueue) \in Nat BY <1>1, BytesNat
  <2>7. queuedBytes' = Bytes(sendQueue) BY <2>1, <2>4, <2>5, <2>6
  <2>8. taken' \o sendQueue' = sendQueue BY <1>1, <2>1, ConcatEmptySeq
  <2>9. queuedBytes' <= MaxBytes
    BY <2>4, <2>5, <2>6, <2>7, LimitsAssumption DEF BytesAccounted
  <2> QED BY <2>1, <2>7, <2>8, <2>9 DEF BytesAccounted
<1>7. CASE RemoveClient \/ RemoveAll \/ BatchBegin \/ BatchWait \/ BatchForced \/ LoopStop \/ LoopClose \/ LoopRemove
  BY <1>3, <1>7 DEF RemoveClient, RemoveAll, BatchBegin, BatchWait, BatchForced, LoopStop, LoopClose,
                    LoopRemove, books
<1>8. CASE Ping BY <1>3, <1>8 DEF Ping
<1>9. ASSUME NEW w \in Data, Lock(w) \/ Check(w) \/ Write(w) \/ Unlock(w) PROVE BytesAccounted'
  BY <1>3, <1>9 DEF Lock, Check, Write, Unlock, books
<1>10. CASE Interrupt \/ CloserLock \/ WriteFinal \/ WriteClose \/ CloseNet
  BY <1>3, <1>10 DEF Interrupt, CloserLock, WriteFinal, WriteClose, CloseNet, books
<1>11. CASE UNCHANGED vars BY <1>3, <1>11 DEF vars
<1> QED BY <1>4, <1>5, <1>6, <1>7, <1>8, <1>9, <1>10, <1>11 DEF Next

\* For any limits and any sizes the counted bytes are those of the messages in
\* the queue and in the hands of the write loop, and within the limits
\* (room_client.go: enqueueWithResult, writeLoop).
THEOREM BytesAreAccounted == Spec => []BytesAccounted
<1>1. QueueInv /\ QueueInv' /\ BytesAccounted /\ [Next]_vars => BytesAccounted' BY AccountedStep
<1> QED BY <1>1, AccountedInit, QueueInvariant, PTL DEF Spec

\* A sequence without its i-th element.
LEMMA RemoveAtIs ==
  ASSUME NEW S, NEW s \in Seq(S), NEW i \in 1 .. Len(s)
  PROVE  /\ RemoveAt(s, i) \in Seq(S) /\ Len(RemoveAt(s, i)) = Len(s) - 1
         /\ \A j \in 1 .. Len(s) - 1 : RemoveAt(s, i)[j] = IF j < i THEN s[j] ELSE s[j + 1]
<1> DEFINE a == SubSeq(s, 1, i - 1)
           b == SubSeq(s, i + 1, Len(s))
<1>1. Len(s) \in Nat /\ \A j \in 1 .. Len(s) : s[j] \in S BY LenProperties, ElementOfSeq
<1>2. /\ a \in Seq(S) /\ Len(a) = i - 1 /\ \A j \in 1 .. i - 1 : a[j] = s[j]
  <2>1. \A j \in 1 .. i - 1 : s[j] \in S BY <1>1
  <2>2. 1 \in Int /\ i - 1 \in Int /\ (i - 1) - 1 + 1 = i - 1 BY <1>1
  <2>3. /\ a \in Seq(S) /\ Len(a) = IF 1 <= i - 1 THEN (i - 1) - 1 + 1 ELSE 0
        /\ \A j \in 1 .. (i - 1) - 1 + 1 : a[j] = s[1 + j - 1]
    BY <2>1, <2>2, SubSeqProperties
  <2>4. Len(a) = i - 1 BY <2>3, <1>1
  <2>5. \A j \in 1 .. i - 1 : j \in 1 .. (i - 1) - 1 + 1 /\ 1 + j - 1 = j BY <1>1
  <2> QED BY <2>3, <2>4, <2>5
<1>3. /\ b \in Seq(S) /\ Len(b) = Len(s) - i /\ \A j \in 1 .. Len(s) - i : b[j] = s[i + j]
  <2>1. \A j \in i + 1 .. Len(s) : s[j] \in S BY <1>1
  <2>2. i + 1 \in Int /\ Len(s) \in Int BY <1>1
  <2>3. /\ b \in Seq(S) /\ Len(b) = IF i + 1 <= Len(s) THEN Len(s) - (i + 1) + 1 ELSE 0
        /\ \A j \in 1 .. Len(s) - (i + 1) + 1 : b[j] = s[i + 1 + j - 1]
    BY <2>1, <2>2, SubSeqProperties
  <2>4. Len(b) = Len(s) - i BY <2>3, <1>1
  <2>5. \A j \in 1 .. Len(s) - i : j \in 1 .. Len(s) - (i + 1) + 1 /\ i + 1 + j - 1 = i + j BY <1>1
  <2> QED BY <2>3, <2>4, <2>5
<1>4. RemoveAt(s, i) = a \o b BY DEF RemoveAt
<1> HIDE DEF a, b
<1>5. /\ a \o b \in Seq(S) /\ Len(a \o b) = Len(a) + Len(b)
      /\ \A j \in 1 .. Len(a) + Len(b) : (a \o b)[j] = IF j <= Len(a) THEN a[j] ELSE b[j - Len(a)]
  BY <1>2, <1>3, ConcatProperties
<1>6. ASSUME NEW j \in 1 .. Len(s) - 1
      PROVE  (a \o b)[j] = IF j < i THEN s[j] ELSE s[j + 1]
  <2>1. j \in 1 .. Len(a) + Len(b) BY <1>1, <1>2, <1>3
  <2>2. CASE j < i
    <3>1. j <= Len(a) /\ j \in 1 .. i - 1 BY <2>2, <1>1, <1>2
    <3> QED BY <3>1, <2>1, <2>2, <1>2, <1>5
  <2>3. CASE ~(j < i)
    <3>1. /\ ~(j <= Len(a)) /\ j - Len(a) \in 1 .. Len(s) - i /\ i + (j - Len(a)) = j + 1
      BY <2>3, <1>1, <1>2
    <3> QED BY <3>1, <2>1, <2>3, <1>3, <1>5
  <2> QED BY <2>2, <2>3
<1>7. Len(a) + Len(b) = Len(s) - 1 BY <1>1, <1>2, <1>3
<1> QED BY <1>4, <1>5, <1>6, <1>7

\* What a list has in it after a subscription, and after a removal.
LEMMA AppendMembers ==
  ASSUME NEW S, NEW s \in Seq(S), NEW x \in S
  PROVE  /\ Append(s, x) \in Seq(S)
         /\ DOMAIN s = 1 .. Len(s) /\ DOMAIN Append(s, x) = 1 .. Len(s) + 1 /\ Len(s) \in Nat
         /\ \A j \in DOMAIN s : Append(s, x)[j] = s[j]
         /\ \A j \in DOMAIN Append(s, x) : j \in DOMAIN s \/ j = Len(s) + 1
         /\ Append(s, x)[Len(s) + 1] = x
<1>1. /\ Append(s, x) \in Seq(S) /\ Len(Append(s, x)) = Len(s) + 1 /\ Len(s) \in Nat
      /\ DOMAIN s = 1 .. Len(s) /\ DOMAIN Append(s, x) = 1 .. Len(Append(s, x))
      /\ \A i \in 1 .. Len(s) : Append(s, x)[i] = s[i]
      /\ Append(s, x)[Len(s) + 1] = x
  BY AppendProperties, LenProperties
<1>2. \A j \in 1 .. Len(s) + 1 : j \in 1 .. Len(s) \/ j = Len(s) + 1 BY <1>1
<1> QED BY <1>1, <1>2

LEMMA RemoveMembers ==
  ASSUME NEW S, NEW s \in Seq(S), NEW i \in DOMAIN s
  PROVE  /\ RemoveAt(s, i) \in Seq(S)
         /\ \A j \in DOMAIN RemoveAt(s, i) :
               \E k \in DOMAIN s \ {i} : RemoveAt(s, i)[j] = s[k]
         /\ \A j, k \in DOMAIN RemoveAt(s, i) : j # k =>
               \E l, m \in DOMAIN s : l # m /\ RemoveAt(s, i)[j] = s[l] /\ RemoveAt(s, i)[k] = s[m]
<1> DEFINE r == RemoveAt(s, i)
           pos(j) == IF j < i THEN j ELSE j + 1
<1>1. Len(s) \in Nat /\ DOMAIN s = 1 .. Len(s) BY LenProperties
<1>2. /\ r \in Seq(S) /\ Len(r) = Len(s) - 1
      /\ \A j \in 1 .. Len(s) - 1 : r[j] = IF j < i THEN s[j] ELSE s[j + 1]
  BY <1>1, RemoveAtIs
<1>3. DOMAIN r = 1 .. Len(s) - 1 BY <1>2, LenProperties
<1> HIDE DEF r
<1>4. \A j \in DOMAIN r : pos(j) \in DOMAIN s \ {i} /\ r[j] = s[pos(j)] BY <1>1, <1>2, <1>3
<1>5. \A j, k \in DOMAIN r : j # k => pos(j) # pos(k) BY <1>1, <1>3
<1> QED BY <1>2, <1>4, <1>5 DEF r

-----------------------------------------------------------------------------
(* The message bus.                                                        *)

\* The state of the publication.
LEMMA PublisherType ==
  ASSUME NEW p \in Bus!Publication, NEW l \in {"idle", "check", "call"}, NEW i \in Nat \ {0}
  PROVE  /\ [p EXCEPT !.at = l] \in Bus!Publication
         /\ [p EXCEPT !.at = l, !.i = i] \in Bus!Publication
         /\ [p EXCEPT !.i = i] \in Bus!Publication
         /\ [p EXCEPT !.legacy = FALSE, !.i = i] \in Bus!Publication
BY DEF Bus!Publication

LEMMA BusInit == Bus!Init => Bus!BusInv
<1> SUFFICES ASSUME Bus!Init PROVE Bus!BusInv OBVIOUS
<1>1. << >> \in Seq(Bus!Subscription) /\ DOMAIN << >> = {}
  <2>1. Len(<< >>) = 0 /\ << >> \in Seq(Bus!Subscription) BY EmptySeq
  <2>2. DOMAIN << >> = 1 .. 0 BY <2>1, LenProperties
  <2> QED BY <2>1, <2>2
<1>2. subscribers = << >> /\ calls = << >> /\ publisher.snapshot = << >> BY DEF Bus!Init
<1>3. Bus!TypeOK
  <2>1. publisher = [at |-> "idle", snapshot |-> << >>, legacy |-> TRUE, i |-> 1, method |-> "chat"]
    BY DEF Bus!Init
  <2>2. "chat" \in Bus!Methods /\ 1 \in Nat \ {0} BY DEF Bus!Methods
  <2>3. publisher \in Bus!Publication
    BY <1>1, <2>1, <2>2 DEF Bus!Publication
  <2> QED BY <1>1, <1>2, <2>3 DEF Bus!Init, Bus!TypeOK
<1>4. Bus!IdsGiven(subscribers) /\ Bus!IdsGiven(publisher.snapshot) BY <1>1, <1>2 DEF Bus!IdsGiven, Bus!Distinct
<1>5. Bus!CallsPassed /\ Bus!PassedCalled /\ Bus!CallsInOrder BY <1>1, <1>2 DEF Bus!CallsPassed, Bus!PassedCalled, Bus!CallsInOrder
<1>6. Bus!Stage BY <1>1, <1>2 DEF Bus!Stage, Bus!Init
<1> QED BY <1>3, <1>4, <1>5, <1>6 DEF Bus!BusInv

\* Steps that leave the publication alone.
LEMMA PublicationKept ==
  ASSUME Bus!BusInv, UNCHANGED <<publisher, calls>>, used \subseteq used', manualClose => manualClose',
         subscribers' \in Seq(Bus!Subscription), used' \subseteq Ids, published' \in Nat,
         manualClose' \in BOOLEAN, Bus!IdsGiven(subscribers)',
         \A i \in DOMAIN publisher.snapshot :
            Bus!Subscribed(publisher.snapshot[i])' => Bus!Subscribed(publisher.snapshot[i])
  PROVE  Bus!BusInv'
<1>1. Bus!TypeOK' BY DEF Bus!BusInv, Bus!TypeOK
<1>2. Bus!IdsGiven(publisher.snapshot)' BY DEF Bus!BusInv, Bus!IdsGiven, Bus!Distinct
<1>3. Bus!CallsPassed' BY DEF Bus!BusInv, Bus!CallsPassed, Bus!Passed
<1>4. Bus!PassedCalled' BY DEF Bus!BusInv, Bus!PassedCalled, Bus!Passed, Bus!Called, Bus!Wanted, Bus!Accepts
<1>5. Bus!Stage' BY DEF Bus!BusInv, Bus!Stage, Bus!Wanted, Bus!Passed, Bus!Accepts
<1>6. Bus!CallsInOrder' BY DEF Bus!BusInv, Bus!CallsInOrder, Bus!Wanted, Bus!Before, Bus!Accepts
<1> QED BY <1>1, <1>2, <1>3, <1>4, <1>5, <1>6 DEF Bus!BusInv

LEMMA SubscribeInv ==
  ASSUME Bus!BusInv, NEW id \in Ids, NEW legacy \in BOOLEAN, NEW methods \in Bus!Filters,
         Bus!Subscribe(id, legacy, methods)
  PROVE  Bus!BusInv'
<1> DEFINE x == [id |-> id, legacy |-> legacy, accepts |-> methods]
<1>1. x \in Bus!Subscription BY DEF Bus!Subscription, Bus!Filters, Bus!Methods
<1>2. /\ subscribers \in Seq(Bus!Subscription) /\ subscribers' = Append(subscribers, x)
      /\ used' = used \cup {id} /\ id \notin used /\ x.id = id
      /\ UNCHANGED <<publisher, calls, published, manualClose>>
  BY DEF Bus!Subscribe, Bus!BusInv, Bus!TypeOK
<1> HIDE DEF x
<1>3. /\ subscribers' \in Seq(Bus!Subscription)
      /\ \A j \in DOMAIN subscribers : subscribers'[j] = subscribers[j]
      /\ \A j \in DOMAIN subscribers' : j \in DOMAIN subscribers \/ j = Len(subscribers) + 1
      /\ subscribers'[Len(subscribers) + 1] = x
  BY <1>1, <1>2, AppendMembers
<1>4. \A j \in DOMAIN subscribers : subscribers[j].id \in used /\ subscribers[j].id # id
  BY <1>2 DEF Bus!BusInv, Bus!IdsGiven
<1>5. Bus!IdsGiven(subscribers)'
  <2>1. Bus!Distinct(subscribers') BY <1>2, <1>3, <1>4 DEF Bus!Distinct, Bus!BusInv, Bus!IdsGiven
  <2>2. \A j \in DOMAIN subscribers' : subscribers'[j].id \in used' BY <1>2, <1>3, <1>4
  <2> QED BY <2>1, <2>2 DEF Bus!IdsGiven
<1>6. \A i \in DOMAIN publisher.snapshot :
         Bus!Subscribed(publisher.snapshot[i])' => Bus!Subscribed(publisher.snapshot[i])
  <2> SUFFICES ASSUME NEW i \in DOMAIN publisher.snapshot, NEW j \in DOMAIN subscribers',
                      subscribers'[j] = publisher.snapshot[i]
               PROVE  Bus!Subscribed(publisher.snapshot[i])
    BY <1>2 DEF Bus!Subscribed
  <2>1. publisher.snapshot[i].id # id BY <1>2 DEF Bus!BusInv, Bus!IdsGiven
  <2>2. j \in DOMAIN subscribers BY <2>1, <1>2, <1>3
  <2> QED BY <2>2, <1>3 DEF Bus!Subscribed
<1>7. /\ used \subseteq used' /\ used' \subseteq Ids /\ published' \in Nat
      /\ manualClose' = manualClose /\ manualClose' \in BOOLEAN
  BY <1>2 DEF Bus!BusInv, Bus!TypeOK
<1> QED BY <1>2, <1>3, <1>5, <1>6, <1>7, PublicationKept

LEMMA UnsubscribeInv ==
  ASSUME Bus!BusInv, NEW id \in Ids, Bus!Unsubscribe(id)
  PROVE  Bus!BusInv'
<1>1. PICK i \in DOMAIN subscribers : subscribers' = RemoveAt(subscribers, i) BY DEF Bus!Unsubscribe, RemoveAt, Bus!RemoveAt
<1>2. subscribers \in Seq(Bus!Subscription) /\ UNCHANGED <<publisher, calls, published, manualClose, used>>
  BY DEF Bus!Unsubscribe, Bus!BusInv, Bus!TypeOK
<1>3. /\ subscribers' \in Seq(Bus!Subscription)
      /\ \A j \in DOMAIN subscribers' : \E k \in DOMAIN subscribers \ {i} : subscribers'[j] = subscribers[k]
      /\ \A j, k \in DOMAIN subscribers' : j # k =>
            \E l, m \in DOMAIN subscribers :
               l # m /\ subscribers'[j] = subscribers[l] /\ subscribers'[k] = subscribers[m]
  BY <1>1, <1>2, RemoveMembers
<1>4. Bus!IdsGiven(subscribers)'
  <2>1. Bus!Distinct(subscribers') BY <1>3 DEF Bus!Distinct, Bus!BusInv, Bus!IdsGiven
  <2>2. \A j \in DOMAIN subscribers' : subscribers'[j].id \in used'
    BY <1>2, <1>3 DEF Bus!BusInv, Bus!IdsGiven
  <2> QED BY <2>1, <2>2 DEF Bus!IdsGiven
<1>5. \A j \in DOMAIN publisher.snapshot :
         Bus!Subscribed(publisher.snapshot[j])' => Bus!Subscribed(publisher.snapshot[j])
  BY <1>2, <1>3 DEF Bus!Subscribed
<1>6. used' = used /\ used' \subseteq Ids /\ published' \in Nat
      /\ manualClose' = manualClose /\ manualClose' \in BOOLEAN
  BY <1>2 DEF Bus!BusInv, Bus!TypeOK
<1> QED BY <1>2, <1>3, <1>4, <1>5, <1>6, PublicationKept

LEMMA CloseListenerInv ==
  ASSUME Bus!BusInv, Bus!CloseListener PROVE Bus!BusInv'
<1>1. UNCHANGED <<subscribers, used, publisher, published, calls>> /\ manualClose' = TRUE
  BY DEF Bus!CloseListener
<1>2. Bus!IdsGiven(subscribers)' BY <1>1 DEF Bus!BusInv, Bus!IdsGiven, Bus!Distinct
<1>3. \A j \in DOMAIN publisher.snapshot :
         Bus!Subscribed(publisher.snapshot[j])' => Bus!Subscribed(publisher.snapshot[j])
  BY <1>1 DEF Bus!Subscribed
<1> QED BY <1>1, <1>2, <1>3, PublicationKept DEF Bus!BusInv, Bus!TypeOK

\* A publication begins: nobody has been passed or called.
LEMMA PublishInv ==
  ASSUME Bus!BusInv, NEW method \in Bus!Methods, Bus!Publish(method)
  PROVE  Bus!BusInv'
<1>1. /\ publisher' = [at |-> "check", snapshot |-> subscribers, legacy |-> TRUE, i |-> 1,
                       method |-> method]
      /\ calls' = << >> /\ UNCHANGED <<subscribers, used, manualClose>>
      /\ published' = published + 1
  BY DEF Bus!Publish
<1>2. << >> \in Seq(Bus!Subscription) /\ DOMAIN << >> = {}
  <2>1. Len(<< >>) = 0 /\ << >> \in Seq(Bus!Subscription) BY EmptySeq
  <2>2. DOMAIN << >> = 1 .. 0 BY <2>1, LenProperties
  <2> QED BY <2>1, <2>2
<1>3. Bus!TypeOK' BY <1>1, <1>2 DEF Bus!BusInv, Bus!TypeOK, Bus!Publication
<1>4. Bus!IdsGiven(subscribers)' /\ Bus!IdsGiven(publisher.snapshot)'
  BY <1>1 DEF Bus!BusInv, Bus!IdsGiven, Bus!Distinct
<1>5. DOMAIN calls' = {} BY <1>1, <1>2
<1>6. \A i \in DOMAIN publisher.snapshot' : ~Bus!Passed(i)'
  <2>1. DOMAIN subscribers = 1 .. Len(subscribers) BY LenProperties DEF Bus!BusInv, Bus!TypeOK
  <2> QED BY <1>1, <2>1 DEF Bus!Passed
<1>7. Bus!CallsPassed' /\ Bus!CallsInOrder' BY <1>5 DEF Bus!CallsPassed, Bus!CallsInOrder
<1>8. Bus!PassedCalled' BY <1>6 DEF Bus!PassedCalled
<1>9. Bus!Stage' BY <1>1 DEF Bus!Stage
<1> QED BY <1>3, <1>4, <1>7, <1>8, <1>9 DEF Bus!BusInv

\* Steps of a publication that call nobody: what was passed stays so, and what
\* is passed anew need not be called.
LEMMA NobodyCalled ==
  ASSUME Bus!BusInv, UNCHANGED <<subscribers, used, published, manualClose, calls>>,
         publisher'.snapshot = publisher.snapshot, publisher'.method = publisher.method,
         Bus!TypeOK', Bus!Stage',
         \A i \in DOMAIN publisher.snapshot : Bus!Passed(i) => Bus!Passed(i)',
         \A i \in DOMAIN publisher.snapshot :
            LET s == publisher.snapshot[i]
            IN  Bus!Passed(i)' /\ ~Bus!Passed(i) => ~Bus!Subscribed(s) \/ ~Bus!Wanted(s)
  PROVE  Bus!BusInv'
<1>1. Bus!IdsGiven(subscribers)' /\ Bus!IdsGiven(publisher.snapshot)' BY DEF Bus!BusInv, Bus!IdsGiven, Bus!Distinct
<1>2. Bus!CallsPassed' BY DEF Bus!BusInv, Bus!CallsPassed
<1>3. \A s : Bus!Wanted(s)' <=> Bus!Wanted(s) BY DEF Bus!Wanted, Bus!Accepts
<1>4. \A s : (Bus!Subscribed(s)' <=> Bus!Subscribed(s)) /\ (Bus!Called(s)' <=> Bus!Called(s)) BY DEF Bus!Subscribed, Bus!Called
<1>5. \A s, t : Bus!Before(s, t)' <=> Bus!Before(s, t) BY DEF Bus!Before
<1>6. Bus!PassedCalled'
  <2> SUFFICES ASSUME NEW i \in DOMAIN publisher.snapshot, Bus!Passed(i)',
                      Bus!Subscribed(publisher.snapshot[i]), Bus!Wanted(publisher.snapshot[i])
               PROVE  Bus!Called(publisher.snapshot[i])
    BY <1>3, <1>4 DEF Bus!PassedCalled
  <2>1. Bus!Passed(i) OBVIOUS
  <2> QED BY <2>1 DEF Bus!BusInv, Bus!PassedCalled
<1>7. Bus!CallsInOrder' BY <1>3, <1>5 DEF Bus!BusInv, Bus!CallsInOrder
<1> QED BY <1>1, <1>2, <1>6, <1>7 DEF Bus!BusInv

LEMMA PassEndsInv ==
  ASSUME Bus!BusInv, Bus!PassEnds PROVE Bus!BusInv'
<1>1. /\ publisher.at = "check" /\ publisher.i > Len(publisher.snapshot)
      /\ publisher' = IF publisher.legacy THEN [publisher EXCEPT !.legacy = FALSE, !.i = 1]
                      ELSE [publisher EXCEPT !.at = "idle"]
      /\ UNCHANGED <<subscribers, used, published, manualClose, calls>>
  BY DEF Bus!PassEnds
<1>2. Bus!TypeOK'
  <2>1. publisher' \in Bus!Publication
    <3>1. publisher \in Bus!Publication
      BY DEF Bus!BusInv, Bus!TypeOK
    <3>2. 1 \in Nat \ {0} /\ publisher.at \in {"idle", "check", "call"} BY <3>1 DEF Bus!Publication
    <3>3. [publisher EXCEPT !.legacy = FALSE, !.i = 1] \in Bus!Publication
      BY <3>1, <3>2, PublisherType
    <3>4. [publisher EXCEPT !.at = "idle"] \in Bus!Publication
      BY <3>1, <3>2, PublisherType
    <3> QED BY <1>1, <3>3, <3>4
  <2> QED BY <1>1, <2>1 DEF Bus!BusInv, Bus!TypeOK
<1>3. /\ publisher.snapshot \in Seq(Bus!Subscription) /\ publisher.i \in Nat /\ publisher.legacy \in BOOLEAN
      /\ publisher'.snapshot = publisher.snapshot /\ publisher'.method = publisher.method
  BY <1>1 DEF Bus!BusInv, Bus!TypeOK, Bus!Publication
<1>4. \A i \in DOMAIN publisher.snapshot : i \in Nat /\ ~(i < 1) /\ i < publisher.i
  <2>1. DOMAIN publisher.snapshot = 1 .. Len(publisher.snapshot) /\ Len(publisher.snapshot) \in Nat
    BY <1>3, LenProperties
  <2> QED BY <2>1, <1>1, <1>3
<1>5. CASE publisher.legacy
  <2>1. publisher'.legacy = FALSE /\ publisher'.i = 1 /\ publisher'.at = "check"
    BY <1>1, <1>5 DEF Bus!BusInv, Bus!TypeOK, Bus!Publication
  <2>2. \A i \in DOMAIN publisher.snapshot : Bus!Passed(i)' <=> publisher.snapshot[i].legacy
    BY <2>1, <1>3, <1>4 DEF Bus!Passed
  <2>3. \A i \in DOMAIN publisher.snapshot : Bus!Passed(i) <=> publisher.snapshot[i].legacy
    BY <1>4, <1>5 DEF Bus!Passed
  <2>4. Bus!Stage' BY <2>1 DEF Bus!Stage
  <2> QED BY <1>1, <1>2, <1>3, <2>2, <2>3, <2>4, NobodyCalled
<1>6. CASE ~publisher.legacy
  <2>1. publisher'.legacy = FALSE /\ publisher'.i = publisher.i /\ publisher'.at = "idle"
    BY <1>1, <1>3, <1>6 DEF Bus!BusInv, Bus!TypeOK, Bus!Publication
  <2>2. \A i \in DOMAIN publisher.snapshot : Bus!Passed(i)' /\ Bus!Passed(i)
    BY <2>1, <1>3, <1>4, <1>6 DEF Bus!Passed
  <2>3. Bus!Stage' BY <2>1, <2>2, <1>3 DEF Bus!Stage
  <2> QED BY <1>1, <1>2, <1>3, <2>2, <2>3, NobodyCalled
<1> QED BY <1>3, <1>5, <1>6

LEMMA CheckSubscriberInv ==
  ASSUME Bus!BusInv, Bus!Check PROVE Bus!BusInv'
<1> DEFINE k == publisher.i
           s == publisher.snapshot[k]
<1>1. /\ publisher.at = "check" /\ k <= Len(publisher.snapshot)
      /\ UNCHANGED <<subscribers, used, published, manualClose, calls>>
      /\ publisher' =
           IF manualClose THEN [publisher EXCEPT !.at = "idle"]
           ELSE IF /\ \E i \in DOMAIN subscribers : subscribers[i].id = s.id
                   /\ s.legacy = publisher.legacy
                   /\ publisher.legacy \/ Bus!Accepts(s, publisher.method)
                THEN [publisher EXCEPT !.at = "call"]
                ELSE [publisher EXCEPT !.i = k + 1]
  BY DEF Bus!Check
<1>2. Bus!TypeOK'
  <2>1. publisher' \in Bus!Publication
    <3>1. publisher \in Bus!Publication
      BY DEF Bus!BusInv, Bus!TypeOK
    <3>2. k \in Nat \ {0} /\ k + 1 \in Nat \ {0} BY <3>1 DEF Bus!Publication
    <3> HIDE DEF k, s
    <3> QED BY <1>1, <3>1, <3>2, PublisherType
  <2> QED BY <1>1, <2>1 DEF Bus!BusInv, Bus!TypeOK
<1>3. /\ publisher.snapshot \in Seq(Bus!Subscription) /\ k \in Nat \ {0}
      /\ publisher.legacy \in BOOLEAN /\ publisher'.legacy = publisher.legacy
      /\ publisher'.snapshot = publisher.snapshot /\ publisher'.method = publisher.method
  BY <1>1 DEF Bus!BusInv, Bus!TypeOK, Bus!Publication
<1>4. /\ DOMAIN publisher.snapshot = 1 .. Len(publisher.snapshot) /\ Len(publisher.snapshot) \in Nat
      /\ k \in DOMAIN publisher.snapshot /\ s \in Bus!Subscription
      /\ \A i \in DOMAIN publisher.snapshot : i \in Nat
  <2>1. DOMAIN publisher.snapshot = 1 .. Len(publisher.snapshot) /\ Len(publisher.snapshot) \in Nat
    BY <1>3, LenProperties
  <2>2. k \in 1 .. Len(publisher.snapshot) BY <2>1, <1>1, <1>3
  <2> QED BY <2>1, <2>2, <1>3, ElementOfSeq
<1>5. CASE manualClose
  <2>1. publisher'.i = k /\ publisher'.at = "idle" BY <1>1, <1>5 DEF Bus!BusInv, Bus!TypeOK, Bus!Publication
  <2>2. \A i \in DOMAIN publisher.snapshot : Bus!Passed(i)' <=> Bus!Passed(i)
    BY <2>1, <1>3 DEF Bus!Passed
  <2>3. Bus!Stage' BY <2>1, <1>1, <1>5 DEF Bus!Stage
  <2> QED BY <1>1, <1>2, <1>3, <2>2, <2>3, NobodyCalled
<1>6. CASE /\ ~manualClose
           /\ \E i \in DOMAIN subscribers : subscribers[i].id = s.id
           /\ s.legacy = publisher.legacy
           /\ publisher.legacy \/ Bus!Accepts(s, publisher.method)
  <2>1. publisher'.i = k /\ publisher'.at = "call" BY <1>1, <1>6 DEF Bus!BusInv, Bus!TypeOK, Bus!Publication
  <2>2. \A i \in DOMAIN publisher.snapshot : Bus!Passed(i)' <=> Bus!Passed(i)
    BY <2>1, <1>3 DEF Bus!Passed
  <2>3. Bus!Stage' BY <2>1, <1>3, <1>4, <1>6 DEF Bus!Stage, Bus!Wanted, Bus!Accepts
  <2> QED BY <1>1, <1>2, <1>3, <2>2, <2>3, NobodyCalled
<1>7. CASE /\ ~manualClose
           /\ ~ /\ \E i \in DOMAIN subscribers : subscribers[i].id = s.id
                /\ s.legacy = publisher.legacy
                /\ publisher.legacy \/ Bus!Accepts(s, publisher.method)
  <2>1. publisher'.i = k + 1 /\ publisher'.at = "check" BY <1>1, <1>7 DEF Bus!BusInv, Bus!TypeOK, Bus!Publication
  <2>2. \A i \in DOMAIN publisher.snapshot : i < k + 1 <=> i < k \/ i = k BY <1>3, <1>4
  <2>3. \A i \in DOMAIN publisher.snapshot : Bus!Passed(i) => Bus!Passed(i)'
    BY <2>1, <2>2, <1>3 DEF Bus!Passed
  <2>4. ASSUME NEW i \in DOMAIN publisher.snapshot, Bus!Passed(i)', ~Bus!Passed(i)
        PROVE  ~Bus!Subscribed(publisher.snapshot[i]) \/ ~Bus!Wanted(publisher.snapshot[i])
    <3>1. publisher.snapshot[i].legacy \in BOOLEAN
      <4>1. publisher.snapshot[i] \in Bus!Subscription BY <1>3, <1>4, ElementOfSeq
      <4> QED BY <4>1 DEF Bus!Subscription
    <3>2. i = k /\ s.legacy = publisher.legacy BY <2>1, <2>2, <2>4, <3>1, <1>3 DEF Bus!Passed
    <3>3. CASE ~\E j \in DOMAIN subscribers : subscribers[j].id = s.id
      BY <3>2, <3>3 DEF Bus!Subscribed
    <3>4. CASE ~(publisher.legacy \/ Bus!Accepts(s, publisher.method))
      BY <3>2, <3>4 DEF Bus!Wanted
    <3> QED BY <1>7, <3>2, <3>3, <3>4
  <2>5. Bus!Stage' BY <2>1 DEF Bus!Stage
  <2> QED BY <1>1, <1>2, <1>3, <2>3, <2>4, <2>5, NobodyCalled
<1> QED BY <1>5, <1>6, <1>7

LEMMA CallHandlerInv ==
  ASSUME Bus!BusInv, Bus!Call PROVE Bus!BusInv'
<1> DEFINE k == publisher.i
           s == publisher.snapshot[k]
           n == Len(calls)
<1>1. /\ publisher.at = "call" /\ publisher' = [publisher EXCEPT !.at = "check", !.i = k + 1]
      /\ calls' = Append(calls, s)
      /\ UNCHANGED <<subscribers, used, published, manualClose>>
  BY DEF Bus!Call
<1>2. /\ publisher.snapshot \in Seq(Bus!Subscription) /\ k \in Nat \ {0} /\ calls \in Seq(Bus!Subscription)
      /\ publisher.legacy \in BOOLEAN /\ publisher'.legacy = publisher.legacy
      /\ publisher'.snapshot = publisher.snapshot /\ publisher'.method = publisher.method
      /\ publisher'.i = k + 1 /\ publisher'.at = "check"
  BY <1>1 DEF Bus!BusInv, Bus!TypeOK, Bus!Publication
<1>3. k \in DOMAIN publisher.snapshot /\ s.legacy = publisher.legacy /\ Bus!Wanted(s)
  BY <1>1 DEF Bus!BusInv, Bus!Stage
<1>4. /\ DOMAIN publisher.snapshot = 1 .. Len(publisher.snapshot) /\ Len(publisher.snapshot) \in Nat
      /\ \A i \in DOMAIN publisher.snapshot : i \in Nat /\ publisher.snapshot[i] \in Bus!Subscription
  BY <1>2, LenProperties, ElementOfSeq
<1>5. s \in Bus!Subscription BY <1>3, <1>4
<1>6. /\ calls' \in Seq(Bus!Subscription) /\ DOMAIN calls = 1 .. n /\ n \in Nat
      /\ \A j \in DOMAIN calls : calls'[j] = calls[j]
      /\ \A j \in DOMAIN calls' : j \in DOMAIN calls \/ j = n + 1
      /\ DOMAIN calls' = 1 .. n + 1 /\ calls'[n + 1] = s
  BY <1>1, <1>2, <1>5, AppendMembers
<1> HIDE DEF n
<1>7. Bus!TypeOK'
  <2>1. publisher \in Bus!Publication
    BY DEF Bus!BusInv, Bus!TypeOK
  <2>2. k + 1 \in Nat \ {0} BY <1>2
  <2>3. publisher' \in Bus!Publication
    BY <1>1, <2>1, <2>2, PublisherType
  <2> QED BY <1>1, <1>6, <2>3 DEF Bus!BusInv, Bus!TypeOK
<1>8. Bus!IdsGiven(subscribers)' /\ Bus!IdsGiven(publisher.snapshot)'
  BY <1>1, <1>2 DEF Bus!BusInv, Bus!IdsGiven, Bus!Distinct
<1>9. \A i \in DOMAIN publisher.snapshot : i < k + 1 <=> i < k \/ i = k BY <1>2, <1>4
<1>10. \A i \in DOMAIN publisher.snapshot : Bus!Passed(i)' <=> Bus!Passed(i) \/ i = k
  <2> SUFFICES ASSUME NEW i \in DOMAIN publisher.snapshot PROVE Bus!Passed(i)' <=> Bus!Passed(i) \/ i = k
    OBVIOUS
  <2>1. publisher.snapshot[i].legacy \in BOOLEAN BY <1>4 DEF Bus!Subscription
  <2>2. CASE i = k BY <2>2, <1>2, <1>3, <1>9 DEF Bus!Passed
  <2>3. CASE i # k BY <2>1, <2>3, <1>2, <1>9, <1>3 DEF Bus!Passed
  <2> QED BY <2>2, <2>3
<1>11. \A t : Bus!Wanted(t)' <=> Bus!Wanted(t) BY <1>2 DEF Bus!Wanted, Bus!Accepts
<1>12. \A t, u : Bus!Before(t, u)' <=> Bus!Before(t, u) BY <1>2 DEF Bus!Before
<1>13. Bus!CallsPassed'
  <2> SUFFICES ASSUME NEW j \in DOMAIN calls'
               PROVE  \E i \in DOMAIN publisher.snapshot : publisher.snapshot[i] = calls'[j] /\ Bus!Passed(i)'
    BY <1>2 DEF Bus!CallsPassed
  <2>1. CASE j \in DOMAIN calls BY <2>1, <1>6, <1>10 DEF Bus!BusInv, Bus!CallsPassed
  <2>2. CASE j = n + 1 BY <2>2, <1>3, <1>6, <1>10
  <2> QED BY <2>1, <2>2, <1>6
<1>14. Bus!PassedCalled'
  <2>1. \A t : (\E j \in DOMAIN calls : calls[j] = t) => \E j \in DOMAIN calls' : calls'[j] = t
    <3>1. DOMAIN calls \subseteq DOMAIN calls' BY <1>6
    <3> QED BY <3>1, <1>6
  <2>2. \E j \in DOMAIN calls' : calls'[j] = s
    <3>1. n + 1 \in DOMAIN calls' BY <1>6
    <3> QED BY <3>1, <1>6
  <2>3. \A t : Bus!Subscribed(t)' <=> Bus!Subscribed(t) BY <1>1 DEF Bus!Subscribed
  <2> SUFFICES ASSUME NEW i \in DOMAIN publisher.snapshot, Bus!Passed(i) \/ i = k,
                      Bus!Subscribed(publisher.snapshot[i]), Bus!Wanted(publisher.snapshot[i])
               PROVE  \E j \in DOMAIN calls' : calls'[j] = publisher.snapshot[i]
    BY <2>3, <1>2, <1>10, <1>11 DEF Bus!PassedCalled, Bus!Called
  <2>4. CASE Bus!Passed(i) BY <2>1, <2>4 DEF Bus!BusInv, Bus!PassedCalled, Bus!Called
  <2>5. CASE i = k BY <2>2, <2>5
  <2> QED BY <2>4, <2>5
<1>15. Bus!Stage' BY <1>2 DEF Bus!Stage
<1>16. Bus!CallsInOrder'
  <2>1. ASSUME NEW j \in DOMAIN calls' PROVE Bus!Wanted(calls'[j])
    BY <1>3, <1>6 DEF Bus!BusInv, Bus!CallsInOrder
  <2>2. ASSUME NEW j \in DOMAIN calls
        PROVE  /\ calls[j].id # s.id
               /\ ~calls[j].legacy => ~s.legacy
               /\ calls[j].legacy = s.legacy => Bus!Before(calls[j], s)
    <3>1. PICK i \in DOMAIN publisher.snapshot : publisher.snapshot[i] = calls[j] /\ Bus!Passed(i)
      BY DEF Bus!BusInv, Bus!CallsPassed
    <3>2. i # k BY <3>1, <1>2, <1>3, <1>4 DEF Bus!Passed
    <3>3. calls[j].id # s.id BY <3>1, <3>2, <1>3 DEF Bus!BusInv, Bus!IdsGiven, Bus!Distinct
    <3>4. ~calls[j].legacy => ~s.legacy BY <3>1, <1>3 DEF Bus!Passed
    <3>5. ASSUME calls[j].legacy = s.legacy PROVE Bus!Before(calls[j], s)
      <4>1. i < k BY <3>1, <3>5, <1>2, <1>3 DEF Bus!Passed
      <4> QED BY <4>1, <3>1, <1>3 DEF Bus!Before
    <3> QED BY <3>3, <3>4, <3>5
  <2>3. ASSUME NEW i \in DOMAIN calls', NEW j \in DOMAIN calls', i < j
        PROVE  /\ calls'[i].id # calls'[j].id
               /\ ~calls'[i].legacy => ~calls'[j].legacy
               /\ calls'[i].legacy = calls'[j].legacy => Bus!Before(calls'[i], calls'[j])
    <3>1. i \in DOMAIN calls BY <1>6, <2>3
    <3>2. CASE j \in DOMAIN calls BY <2>3, <3>1, <3>2, <1>6 DEF Bus!BusInv, Bus!CallsInOrder
    <3>3. CASE j = n + 1 BY <2>2, <3>1, <3>3, <1>6
    <3> QED BY <3>2, <3>3, <1>6
  <2> QED BY <2>1, <2>3, <1>11, <1>12 DEF Bus!CallsInOrder
<1> QED BY <1>7, <1>8, <1>13, <1>14, <1>15, <1>16 DEF Bus!BusInv

LEMMA BusNext == Bus!BusInv /\ [Bus!Next]_Bus!vars => Bus!BusInv'
<1> SUFFICES ASSUME Bus!BusInv, [Bus!Next]_Bus!vars PROVE Bus!BusInv' OBVIOUS
<1>1. CASE \E id \in Ids, legacy \in BOOLEAN, methods \in Bus!Filters : Bus!Subscribe(id, legacy, methods)
  BY <1>1, SubscribeInv
<1>2. CASE \E id \in Ids : Bus!Unsubscribe(id) BY <1>2, UnsubscribeInv
<1>3. CASE \E method \in Bus!Methods : Bus!Publish(method) BY <1>3, PublishInv
<1>4. CASE Bus!PassEnds BY <1>4, PassEndsInv
<1>5. CASE Bus!Check BY <1>5, CheckSubscriberInv
<1>6. CASE Bus!Call BY <1>6, CallHandlerInv
<1>7. CASE Bus!CloseListener BY <1>7, CloseListenerInv
<1>8. CASE UNCHANGED Bus!vars
  <2>1. UNCHANGED <<subscribers, used, publisher, published, manualClose, calls>> BY <1>8 DEF Bus!vars
  <2> QED BY <2>1, PublicationKept DEF Bus!BusInv, Bus!TypeOK, Bus!IdsGiven, Bus!Distinct, Bus!Subscribed
<1> QED BY <1>1, <1>2, <1>3, <1>4, <1>5, <1>6, <1>7, <1>8 DEF Bus!Next

LEMMA BusOrdered == Bus!BusInv => Bus!HandlersInOrder
<1> SUFFICES ASSUME Bus!BusInv PROVE Bus!HandlersInOrder OBVIOUS
<1> QED BY DEF Bus!BusInv, Bus!HandlersInOrder, Bus!Stage, Bus!PassedCalled


\* Whatever handlers subscribe and unsubscribe during a publication, those of
\* the copied list that stay subscribed and want the message are all called,
\* in order and once (live_message.go: publishWithLoggerUntil).
THEOREM HandlersAreOrdered == Bus!Spec => []Bus!HandlersInOrder
BY BusInit, BusNext, BusOrdered, PTL DEF Bus!Spec

-----------------------------------------------------------------------------
(* The process.                                                            *)

LEMMA ProcessInit == Process!Init => Process!AppInv
BY DEF Process!Init, Process!AppInv, Process!RoomsCloseFirst, Process!ShutdownHasCause

LEMMA ProcessNext == Process!AppInv /\ [Process!Next]_Process!vars => Process!AppInv'
<1> SUFFICES ASSUME Process!AppInv, [Process!Next]_Process!vars PROVE Process!AppInv' OBVIOUS
<1> USE DEF Process!AppInv, Process!RoomsCloseFirst, Process!ShutdownHasCause, Process!Running
<1>1. CASE Process!Signal BY <1>1 DEF Process!Signal
<1>2. CASE Process!Listen BY <1>2 DEF Process!Listen
<1>3. CASE Process!Serve BY <1>3 DEF Process!Serve
<1>4. CASE Process!Watch BY <1>4 DEF Process!Watch
<1>5. CASE Process!Shutdown BY <1>5 DEF Process!Shutdown
<1>6. CASE Process!AwaitReady BY <1>6 DEF Process!AwaitReady
<1>7. CASE Process!AwaitEnd BY <1>7 DEF Process!AwaitEnd
<1>8. CASE Process!Exit BY <1>8 DEF Process!Exit
<1>9. CASE UNCHANGED Process!vars BY <1>9 DEF Process!vars
<1> QED BY <1>1, <1>2, <1>3, <1>4, <1>5, <1>6, <1>7, <1>8, <1>9 DEF Process!Next

\* The process never ends before Shutdown has closed the rooms, whoever of the
\* main goroutine and the watcher runs it, and its status is 0 only after a
\* signal (runner.go: Run; app.go: Shutdown).
THEOREM RoomsClosedBeforeExit == Process!Spec => []Process!RoomsCloseFirst
<1>1. Process!AppInv => Process!RoomsCloseFirst BY DEF Process!AppInv
<1> QED BY <1>1, ProcessInit, ProcessNext, PTL DEF Process!Spec

-----------------------------------------------------------------------------
(***************************************************************************)
(* The local signer.  Install compares the session a goroutine worked for  *)
(* with the bound one, not the one the runtime was made for: InstallsOwn   *)
(* says that these agree, and makes RuntimeFits inductive.                 *)
(***************************************************************************)

\* The beginning of an operation.
LEMMA SignerCallInv ==
  ASSUME Local!SignerInv, NEW g \in Goroutines, NEW op \in {"prepare", "update", "activate"},
         Local!Call(g, op)
  PROVE  Local!SignerInv'
<1> USE DEF Local!SignerInv, Local!Call, Local!Go, Local!TypeOK
<1>1. Local!TypeOK' OBVIOUS
<1>2. Local!RuntimesAccounted' BY DEF Local!RuntimesAccounted
<1>3. Local!RuntimeFits' BY DEF Local!RuntimeFits
<1>4. Local!InstallsOwn' BY DEF Local!InstallsOwn
<1> QED BY <1>1, <1>2, <1>3, <1>4

\* A goroutine that takes the runtime in place out of the signer has it in its
\* own hands from then on, and nobody else has.
LEMMA RuntimeTaken ==
  ASSUME Local!SignerInv, NEW g \in Goroutines, local[g].runtime = {}, live' = live, madeFor' = madeFor,
         at'[g] \in {"replace", "discard", "closing"},
         signer'.runtime = {}, local'[g].runtime = signer.runtime,
         \A h \in Goroutines \ {g} : local'[h] = local[h] /\ at'[h] = at[h]
  PROVE  Local!RuntimesAccounted' /\ Local!RuntimeFits' /\ Local!InstallsOwn'
<1> USE DEF Local!SignerInv, Local!TypeOK
<1>1. Local!RuntimesAccounted'
  <2>1. live' = signer'.runtime \cup UNION {local'[h].runtime : h \in Goroutines}
    BY DEF Local!RuntimesAccounted
  <2>2. \A h \in Goroutines : local'[h].runtime # {} =>
           /\ at'[h] \in {"replace", "install", "discard", "closing"}
           /\ local'[h].runtime \cap signer'.runtime = {}
    BY DEF Local!RuntimesAccounted
  <2>3. \A h, k \in Goroutines : h # k => local'[h].runtime \cap local'[k].runtime = {}
    BY DEF Local!RuntimesAccounted
  <2> QED BY <2>1, <2>2, <2>3 DEF Local!RuntimesAccounted
<1>2. Local!RuntimeFits' BY DEF Local!RuntimeFits
<1>3. Local!InstallsOwn' BY DEF Local!InstallsOwn
<1> QED BY <1>1, <1>2, <1>3

\* An operation that has nothing to do ends.
LEMMA SignerBackInv ==
  ASSUME Local!SignerInv, NEW g \in Goroutines, local[g].runtime = {}, Local!Back(g),
         UNCHANGED <<signer, fallbackMu, live, madeFor>>
  PROVE  Local!SignerInv'
<1> USE DEF Local!SignerInv, Local!TypeOK, Local!Back, Local!Go
<1>1. Local!TypeOK' OBVIOUS
<1>2. Local!RuntimesAccounted' BY DEF Local!RuntimesAccounted
<1>3. Local!RuntimeFits' BY DEF Local!RuntimeFits
<1>4. Local!InstallsOwn' BY DEF Local!InstallsOwn
<1> QED BY <1>1, <1>2, <1>3, <1>4

-----------------------------------------------------------------------------
(* The operations of the signer: one lemma per step.                       *)

LEMMA PrepareInv ==
  ASSUME Local!SignerInv, NEW g \in Goroutines, Local!Prepare(g)
  PROVE  Local!SignerInv'
<1>1. local[g].runtime = {} BY DEF Local!Prepare, Local!SignerInv, Local!RuntimesAccounted
<1>2. CASE Local!Back(g) /\ UNCHANGED <<signer, fallbackMu, live, madeFor>>
  BY <1>1, <1>2, SignerBackInv
<1>3. CASE /\ signer' = [signer EXCEPT !.session = local[g].session, !.runtime = {}]
           /\ local' = [local EXCEPT ![g].runtime = signer.runtime]
           /\ \E l \in {"replace", "discard"} : Local!Go(g, l)
           /\ UNCHANGED <<fallbackMu, live, madeFor>>
  <2>1. PICK l \in {"replace", "discard"} : Local!Go(g, l) BY <1>3
  <2>2. signer' \in [session : Sessions \cup {None}, browser : Browsers \cup {None},
                    runtime : SUBSET Runtimes, fallback : BOOLEAN, closed : BOOLEAN]
    BY <1>3 DEF Local!SignerInv, Local!TypeOK
  <2>3. local' \in [Goroutines -> [session : Sessions \cup {None}, browser : Browsers \cup {None},
                                 runtime : SUBSET Runtimes]]
    BY <1>3 DEF Local!SignerInv, Local!TypeOK
  <2>4. Local!TypeOK' BY <1>3, <2>1, <2>2, <2>3 DEF Local!Go, Local!SignerInv, Local!TypeOK
  <2>5. signer'.runtime = {} /\ local'[g].runtime = signer.runtime BY <1>3 DEF Local!SignerInv, Local!TypeOK
  <2>6. /\ at'[g] = l
        /\ \A h \in Goroutines \ {g} : local'[h] = local[h] /\ at'[h] = at[h]
    BY <1>3, <2>1 DEF Local!Go, Local!SignerInv, Local!TypeOK
  <2>7. live' = live /\ madeFor' = madeFor BY <1>3
  <2> QED BY <1>1, <2>4, <2>5, <2>6, <2>7, RuntimeTaken DEF Local!SignerInv
<1> QED BY <1>2, <1>3 DEF Local!Prepare

LEMMA ReplaceInv ==
  ASSUME Local!SignerInv, NEW g \in Goroutines, Local!Replace(g)
  PROVE  Local!SignerInv'
<1> USE DEF Local!SignerInv, Local!Replace, Local!Go, Local!Back, Local!TypeOK, Local!Profile
<1>1. Local!TypeOK' BY SMTT(20)
<1>2. Local!RuntimesAccounted' BY DEF Local!RuntimesAccounted
<1>3. Local!RuntimeFits' BY DEF Local!RuntimeFits, Local!RuntimesAccounted
<1>4. Local!InstallsOwn' BY DEF Local!InstallsOwn, Local!RuntimesAccounted
<1> QED BY <1>1, <1>2, <1>3, <1>4

LEMMA ReadProfileInv ==
  ASSUME Local!SignerInv, NEW g \in Goroutines, Local!ReadProfile(g)
  PROVE  Local!SignerInv'
<1> USE DEF Local!SignerInv, Local!ReadProfile, Local!Go, Local!Back, Local!TypeOK, Local!Profile
<1>1. Local!TypeOK' OBVIOUS
<1>2. Local!RuntimesAccounted' BY DEF Local!RuntimesAccounted
<1>3. Local!RuntimeFits' BY DEF Local!RuntimeFits, Local!RuntimesAccounted
<1>4. Local!InstallsOwn' BY DEF Local!InstallsOwn, Local!RuntimesAccounted
<1> QED BY <1>1, <1>2, <1>3, <1>4

LEMMA UpdateBrowserInv ==
  ASSUME Local!SignerInv, NEW g \in Goroutines, Local!UpdateBrowser(g)
  PROVE  Local!SignerInv'
<1>1. local[g].runtime = {} BY DEF Local!UpdateBrowser, Local!SignerInv, Local!RuntimesAccounted
<1>2. CASE Local!Back(g) /\ UNCHANGED <<signer, fallbackMu, live, madeFor>>
  BY <1>1, <1>2, SignerBackInv
<1>3. CASE /\ signer' = [signer EXCEPT !.browser = local[g].browser, !.runtime = {}]
           /\ local' = [local EXCEPT ![g].runtime = signer.runtime]
           /\ \E l \in {"discard"} : Local!Go(g, l)
           /\ UNCHANGED <<fallbackMu, live, madeFor>>
  <2>1. PICK l \in {"discard"} : Local!Go(g, l) BY <1>3
  <2>2. signer' \in [session : Sessions \cup {None}, browser : Browsers \cup {None},
                    runtime : SUBSET Runtimes, fallback : BOOLEAN, closed : BOOLEAN]
    BY <1>3 DEF Local!SignerInv, Local!TypeOK
  <2>3. local' \in [Goroutines -> [session : Sessions \cup {None}, browser : Browsers \cup {None},
                                 runtime : SUBSET Runtimes]]
    BY <1>3 DEF Local!SignerInv, Local!TypeOK
  <2>4. Local!TypeOK' BY <1>3, <2>1, <2>2, <2>3 DEF Local!Go, Local!SignerInv, Local!TypeOK
  <2>5. signer'.runtime = {} /\ local'[g].runtime = signer.runtime BY <1>3 DEF Local!SignerInv, Local!TypeOK
  <2>6. /\ at'[g] = l
        /\ \A h \in Goroutines \ {g} : local'[h] = local[h] /\ at'[h] = at[h]
    BY <1>3, <2>1 DEF Local!Go, Local!SignerInv, Local!TypeOK
  <2>7. live' = live /\ madeFor' = madeFor BY <1>3
  <2> QED BY <1>1, <2>4, <2>5, <2>6, <2>7, RuntimeTaken DEF Local!SignerInv
<1> QED BY <1>2, <1>3 DEF Local!UpdateBrowser

LEMMA ActivateInv ==
  ASSUME Local!SignerInv, NEW g \in Goroutines, Local!Activate(g)
  PROVE  Local!SignerInv'
<1>1. local[g].runtime = {} BY DEF Local!Activate, Local!SignerInv, Local!RuntimesAccounted
<1>2. CASE Local!Back(g)
  BY <1>1, <1>2, SignerBackInv DEF Local!Activate
<1>3. CASE /\ local' = [local EXCEPT ![g] = [session |-> signer.session, browser |-> signer.browser,
                                            runtime |-> {}]]
           /\ Local!Go(g, "create")
  <2> USE DEF Local!SignerInv, Local!TypeOK, Local!Activate, Local!Go
  <2>1. local' \in [Goroutines -> [session : Sessions \cup {None}, browser : Browsers \cup {None},
                                 runtime : SUBSET Runtimes]]
    BY <1>3
  <2>2. Local!TypeOK' BY <1>3, <2>1
  <2>3. \A h \in Goroutines : local'[h].runtime = local[h].runtime BY <1>1, <1>3
  <2>4. Local!RuntimesAccounted' BY <1>1, <1>3, <2>3 DEF Local!RuntimesAccounted
  <2>5. Local!RuntimeFits' BY <1>3 DEF Local!RuntimeFits
  <2>6. Local!InstallsOwn' BY <1>3 DEF Local!InstallsOwn
  <2> QED BY <2>2, <2>4, <2>5, <2>6
<1> QED BY <1>2, <1>3 DEF Local!Activate

LEMMA CreateInv ==
  ASSUME Local!SignerInv, NEW g \in Goroutines, Local!Create(g)
  PROVE  Local!SignerInv'
<1>1. local[g].runtime = {} BY DEF Local!Create, Local!SignerInv, Local!RuntimesAccounted
<1>2. CASE Local!Back(g) /\ UNCHANGED <<live, madeFor>>
  BY <1>1, <1>2, SignerBackInv DEF Local!Create
<1>3. ASSUME NEW r \in Runtimes \ live,
             live' = live \cup {r},
             madeFor' = [madeFor EXCEPT ![r] =
               [session |-> local[g].session,
                browser |-> IF local[g].browser = None THEN "random" ELSE local[g].browser]],
             local' = [local EXCEPT ![g].runtime = {r}],
             Local!Go(g, "install")
      PROVE  Local!SignerInv'
  <2> USE <1>3 DEF Local!SignerInv, Local!TypeOK, Local!Profile, Local!Create, Local!Go
  <2>1. Local!TypeOK' OBVIOUS
  <2>2. Local!RuntimesAccounted' BY <1>1 DEF Local!RuntimesAccounted
  <2>3. Local!RuntimeFits' BY DEF Local!RuntimeFits, Local!RuntimesAccounted
  <2>4. \A h \in Goroutines : at'[h] = "install" =>
           \A x \in local'[h].runtime : madeFor'[x].session = local'[h].session
    <3>1. TAKE h \in Goroutines
    <3>2. CASE h = g BY <3>2
    <3>3. CASE h # g BY <3>3 DEF Local!InstallsOwn, Local!RuntimesAccounted
    <3> QED BY <3>2, <3>3
  <2>5. Local!InstallsOwn' BY <2>4 DEF Local!InstallsOwn
  <2> QED BY <2>1, <2>2, <2>3, <2>5
<1> QED BY <1>2, <1>3 DEF Local!Create

LEMMA InstallInv ==
  ASSUME Local!SignerInv, NEW g \in Goroutines, Local!Install(g)
  PROVE  Local!SignerInv'
<1>1. CASE UNCHANGED <<signer, local>>
  <2> USE <1>1 DEF Local!Install, Local!SignerInv, Local!TypeOK, Local!Go
  <2>1. Local!TypeOK' OBVIOUS
  <2>2. Local!RuntimesAccounted' BY DEF Local!RuntimesAccounted
  <2>3. Local!RuntimeFits' BY DEF Local!RuntimeFits
  <2>4. Local!InstallsOwn' BY DEF Local!InstallsOwn
  <2> QED BY <2>1, <2>2, <2>3, <2>4
<1>2. CASE /\ ~signer.closed /\ signer.session = local[g].session
           /\ \A r \in local[g].runtime :
                 signer.browser = None \/ signer.browser = madeFor[r].browser
           /\ signer' = [signer EXCEPT !.runtime = local[g].runtime, !.fallback = TRUE]
           /\ local' = [local EXCEPT ![g].runtime = signer.runtime]
  <2>1. signer' \in [session : Sessions \cup {None}, browser : Browsers \cup {None},
                    runtime : SUBSET Runtimes, fallback : BOOLEAN, closed : BOOLEAN]
    BY <1>2 DEF Local!SignerInv, Local!TypeOK
  <2>2. local' \in [Goroutines -> [session : Sessions \cup {None}, browser : Browsers \cup {None},
                                 runtime : SUBSET Runtimes]]
    BY <1>2 DEF Local!SignerInv, Local!TypeOK
  <2>3. Local!TypeOK' BY <2>1, <2>2 DEF Local!Install, Local!Go, Local!SignerInv, Local!TypeOK
  <2>4. /\ signer'.runtime = local[g].runtime /\ signer'.fallback = TRUE
        /\ signer'.closed = signer.closed
        /\ signer'.session = signer.session /\ signer'.browser = signer.browser
    BY <1>2 DEF Local!SignerInv, Local!TypeOK
  <2>5. /\ local'[g].runtime = signer.runtime /\ at'[g] = "discard"
        /\ \A h \in Goroutines \ {g} : local'[h] = local[h] /\ at'[h] = at[h]
        /\ live' = live /\ madeFor' = madeFor
    BY <1>2 DEF Local!Install, Local!Go, Local!SignerInv, Local!TypeOK
  <2>6. Local!RuntimesAccounted'
    <3>1. live' = signer'.runtime \cup UNION {local'[h].runtime : h \in Goroutines}
      BY <2>4, <2>5 DEF Local!SignerInv, Local!RuntimesAccounted
    <3>2. \A h \in Goroutines : local'[h].runtime # {} =>
             /\ at'[h] \in {"replace", "install", "discard", "closing"}
             /\ local'[h].runtime \cap signer'.runtime = {}
      BY <2>4, <2>5 DEF Local!SignerInv, Local!RuntimesAccounted
    <3>3. \A h, k \in Goroutines : h # k => local'[h].runtime \cap local'[k].runtime = {}
      BY <2>5 DEF Local!SignerInv, Local!RuntimesAccounted
    <3> QED BY <3>1, <3>2, <3>3 DEF Local!RuntimesAccounted
  <2>7. Local!RuntimeFits'
    BY <1>2, <2>4, <2>5 DEF Local!Install, Local!SignerInv, Local!InstallsOwn, Local!RuntimeFits
  <2>8. Local!InstallsOwn' BY <2>5 DEF Local!SignerInv, Local!InstallsOwn
  <2> QED BY <2>3, <2>6, <2>7, <2>8 DEF Local!SignerInv
<1> QED BY <1>1, <1>2 DEF Local!Install

LEMMA DiscardInv ==
  ASSUME Local!SignerInv, NEW g \in Goroutines, Local!Discard(g)
  PROVE  Local!SignerInv'
<1> USE DEF Local!SignerInv, Local!Discard, Local!Go, Local!Back, Local!TypeOK, Local!Profile
<1>1. Local!TypeOK' OBVIOUS
<1>2. Local!RuntimesAccounted' BY DEF Local!RuntimesAccounted
<1>3. Local!RuntimeFits' BY DEF Local!RuntimeFits, Local!RuntimesAccounted
<1>4. Local!InstallsOwn' BY DEF Local!InstallsOwn, Local!RuntimesAccounted
<1> QED BY <1>1, <1>2, <1>3, <1>4

LEMMA SignerUnlockInv ==
  ASSUME Local!SignerInv, NEW g \in Goroutines, Local!Unlock(g)
  PROVE  Local!SignerInv'
<1> USE DEF Local!SignerInv, Local!Unlock, Local!Go, Local!Back, Local!TypeOK, Local!Profile
<1>1. Local!TypeOK' OBVIOUS
<1>2. Local!RuntimesAccounted' BY DEF Local!RuntimesAccounted
<1>3. Local!RuntimeFits' BY DEF Local!RuntimeFits, Local!RuntimesAccounted
<1>4. Local!InstallsOwn' BY DEF Local!InstallsOwn, Local!RuntimesAccounted
<1> QED BY <1>1, <1>2, <1>3, <1>4

LEMMA SignerCloseInv ==
  ASSUME Local!SignerInv, NEW g \in Goroutines, Local!Close(g)
  PROVE  Local!SignerInv'
<1>1. local[g].runtime = {} BY DEF Local!Close, Local!SignerInv, Local!RuntimesAccounted
<1>3. CASE /\ signer' = [signer EXCEPT !.closed = TRUE, !.runtime = {}, !.session = None, !.browser = None]
           /\ local' = [local EXCEPT ![g].runtime = signer.runtime]
           /\ \E l \in {"closing"} : Local!Go(g, l)
           /\ UNCHANGED <<fallbackMu, live, madeFor>>
  <2>1. PICK l \in {"closing"} : Local!Go(g, l) BY <1>3
  <2>2. signer' \in [session : Sessions \cup {None}, browser : Browsers \cup {None},
                    runtime : SUBSET Runtimes, fallback : BOOLEAN, closed : BOOLEAN]
    BY <1>3 DEF Local!SignerInv, Local!TypeOK
  <2>3. local' \in [Goroutines -> [session : Sessions \cup {None}, browser : Browsers \cup {None},
                                 runtime : SUBSET Runtimes]]
    BY <1>3 DEF Local!SignerInv, Local!TypeOK
  <2>4. Local!TypeOK' BY <1>3, <2>1, <2>2, <2>3 DEF Local!Go, Local!SignerInv, Local!TypeOK
  <2>5. signer'.runtime = {} /\ local'[g].runtime = signer.runtime BY <1>3 DEF Local!SignerInv, Local!TypeOK
  <2>6. /\ at'[g] = l
        /\ \A h \in Goroutines \ {g} : local'[h] = local[h] /\ at'[h] = at[h]
    BY <1>3, <2>1 DEF Local!Go, Local!SignerInv, Local!TypeOK
  <2>7. live' = live /\ madeFor' = madeFor BY <1>3
  <2> QED BY <1>1, <2>4, <2>5, <2>6, <2>7, RuntimeTaken DEF Local!SignerInv
<1> QED BY <1>3 DEF Local!Close

-----------------------------------------------------------------------------
(* The theorems about the signer.                                          *)

LEMMA SignerInitInv == Local!Init => Local!SignerInv
BY DEF Local!Init, Local!SignerInv, Local!TypeOK, Local!Profile,
       Local!RuntimesAccounted, Local!RuntimeFits, Local!InstallsOwn

LEMMA SignerNextInv == Local!SignerInv /\ [Local!Next]_Local!vars => Local!SignerInv'
<1> SUFFICES ASSUME Local!SignerInv, [Local!Next]_Local!vars PROVE Local!SignerInv' OBVIOUS
<1>1. CASE UNCHANGED Local!vars
  BY <1>1 DEF Local!vars, Local!SignerInv, Local!TypeOK, Local!Profile,
       Local!RuntimesAccounted, Local!RuntimeFits, Local!InstallsOwn
<1>2. ASSUME NEW g \in Goroutines,
             \/ \E op \in {"prepare", "update", "activate"} : Local!Call(g, op)
             \/ Local!Prepare(g) \/ Local!Replace(g) \/ Local!ReadProfile(g) \/ Local!UpdateBrowser(g)
             \/ Local!Activate(g) \/ Local!Create(g) \/ Local!Install(g) \/ Local!Discard(g)
             \/ Local!Unlock(g) \/ Local!Close(g)
      PROVE  Local!SignerInv'
  BY <1>2, SignerCallInv, PrepareInv, ReplaceInv, ReadProfileInv, UpdateBrowserInv, ActivateInv,
     CreateInv, InstallInv, DiscardInv, SignerUnlockInv, SignerCloseInv
<1> QED BY <1>1, <1>2 DEF Local!Next

\* The inductive invariant of the local signer (websocket_signer.go).
THEOREM SignerInvariant == Local!Spec => []Local!SignerInv
BY SignerInitInv, SignerNextInv, PTL DEF Local!Spec

\* However Prepare, a change of fingerprint, ActivateFallback and Close meet,
\* no JavaScript runtime is lost: each is in place or in one goroutine's hands
\* until it is closed.
THEOREM NoRuntimeLost == Local!Spec => []Local!RuntimesAccounted
BY SignerInvariant, PTL DEF Local!SignerInv

\* A runtime never signs for another session or fingerprint than its own, and
\* a closed signer has none.
THEOREM SignsForOwnProfile == Local!Spec => []Local!RuntimeFits
BY SignerInvariant, PTL DEF Local!SignerInv

-----------------------------------------------------------------------------
(***************************************************************************)
(* The file of a cookie manager holds a whole cookie, whatever number of   *)
(* goroutines save and wherever a save fails or the process stops.         *)
(***************************************************************************)

\* The indices of a sequence.
LEMMA Domain ==
  ASSUME NEW S, NEW s \in Seq(S)
  PROVE  /\ DOMAIN s = 1 .. Len(s) /\ Len(s) \in Nat
         /\ \A i \in DOMAIN s : s[i] \in S
BY LenProperties, ElementOfSeq

\* A new file does not disturb the others, and is none of them.
LEMMA NewFile ==
  ASSUME NEW S, NEW s \in Seq(S), NEW x \in S
  PROVE  LET t == Append(s, x) n == Len(s) + 1
         IN  /\ t \in Seq(S) /\ DOMAIN t = DOMAIN s \cup {n} /\ n \notin DOMAIN s
             /\ t[n] = x /\ \A i \in DOMAIN s : t[i] = s[i]
<1>1. /\ Append(s, x) \in Seq(S) /\ Len(Append(s, x)) = Len(s) + 1
      /\ Append(s, x)[Len(s) + 1] = x
      /\ \A i \in 1 .. Len(s) : Append(s, x)[i] = s[i]
  BY AppendProperties
<1>2. DOMAIN s = 1 .. Len(s) /\ Len(s) \in Nat BY Domain
<1>3. DOMAIN Append(s, x) = 1 .. Len(s) + 1 BY <1>1, Domain
<1>4. 1 .. Len(s) + 1 = 1 .. Len(s) \cup {Len(s) + 1} /\ Len(s) + 1 \notin 1 .. Len(s)
  BY <1>2
<1> QED BY <1>1, <1>2, <1>3, <1>4

\* What is lost keeps its place.
LEMMA SameLength ==
  ASSUME NEW S, NEW s \in Seq(S), NEW t, t = [i \in DOMAIN s |-> t[i]],
         \A i \in DOMAIN s : t[i] \in S
  PROVE  t \in Seq(S)
<1>1. DOMAIN s = 1 .. Len(s) /\ Len(s) \in Nat BY Domain
<1>2. t \in [1 .. Len(s) -> S] BY <1>1
<1> QED BY <1>1, <1>2, SeqDef

-----------------------------------------------------------------------------
(* The invariant holds initially and is preserved by every step.           *)

LEMMA InitFile == File!Init => File!FileInv
<1> SUFFICES ASSUME File!Init PROVE File!FileInv OBVIOUS
<1>1. content \in Seq(Nat \cup {File!Torn}) /\ DOMAIN content = {1} /\ content[1] = 0
  BY DEF File!Init
<1>2. File!TypeOK BY <1>1 DEF File!Init, File!TypeOK, File!Idle
<1> QED BY <1>1, <1>2 DEF File!Init, File!Idle, File!Torn, File!FileInv, File!FileIsWhole,
       File!NamesAreSynced, File!SavesTheCookie, File!TempsAreInUse

LEMMA SetCookieInv ==
  ASSUME File!FileInv, File!SetCookie PROVE File!FileInv'
<1> USE DEF File!FileInv, File!SetCookie, File!files
<1>1. File!TypeOK' BY DEF File!TypeOK
<1>2. File!FileIsWhole' BY DEF File!FileIsWhole
<1>3. File!NamesAreSynced' BY DEF File!NamesAreSynced, File!TypeOK
<1>4. File!SavesTheCookie' BY DEF File!SavesTheCookie
<1>5. File!TempsAreInUse' BY DEF File!TempsAreInUse
<1> QED BY <1>1, <1>2, <1>3, <1>4, <1>5

\* What a step of one save leaves alone.
LEMMA OtherSavers ==
  ASSUME File!TypeOK, NEW p \in Savers, NEW r, saver' = [saver EXCEPT ![p] = r]
  PROVE  saver'[p] = r /\ \A q \in Savers : q # p => saver'[q] = saver[q]
BY DEF File!TypeOK

LEMMA BeginInv ==
  ASSUME File!FileInv, NEW p \in Savers, File!Begin(p) PROVE File!FileInv'
<1> DEFINE n == Len(content) + 1
<1>1. /\ content' \in Seq(Nat \cup {File!Torn}) /\ DOMAIN content' = DOMAIN content \cup {n}
      /\ n \notin DOMAIN content /\ \A f \in DOMAIN content : content'[f] = content[f]
  BY NewFile DEF File!FileInv, File!TypeOK, File!Begin
<1>2. /\ saver'[p] = [at |-> "write", data |-> cookie, file |-> n]
      /\ \A q \in Savers : q # p => saver'[q] = saver[q]
  BY OtherSavers DEF File!FileInv, File!Begin
<1>3. /\ saver[p].at = "idle" /\ temps' = temps \cup {n}
      /\ UNCHANGED <<cookie, synced, path, entries, crashed, saved>>
  BY DEF File!Begin
<1>4. /\ path \in DOMAIN content /\ entries \subseteq DOMAIN content /\ synced \subseteq DOMAIN content
      /\ \A q \in Savers : saver[q].file \in DOMAIN content
  BY DEF File!FileInv, File!TypeOK
<1>5. File!TypeOK'
  <2>1. saver' \in [Savers -> [at : {"idle", "write", "sync", "rename", "directory"},
                              data : Nat, file : DOMAIN content']]
    BY <1>1 DEF File!FileInv, File!TypeOK, File!Begin
  <2> QED BY <1>1, <1>3, <2>1 DEF File!FileInv, File!TypeOK
<1>6. File!FileIsWhole'
  <2>1. temps' \subseteq {saver'[q].file : q \in Savers} \/ crashed'
    <3>1. CASE crashed BY <1>3, <3>1
    <3>2. CASE ~crashed
      <4>1. ASSUME NEW f \in temps PROVE \E q \in Savers : saver'[q].file = f
        BY <1>2, <1>3, <3>2 DEF File!FileInv, File!TempsAreInUse
      <4>2. saver'[p].file = n BY <1>2
      <4> QED BY <1>3, <4>1, <4>2
    <3> QED BY <3>1, <3>2
  <2> QED BY <1>1, <1>3, <1>4, <2>1 DEF File!FileInv, File!FileIsWhole
<1>7. File!NamesAreSynced' BY <1>1, <1>3, <1>4 DEF File!FileInv, File!NamesAreSynced
<1>8. File!SavesTheCookie' BY <1>1, <1>2, <1>3, <1>4 DEF File!FileInv, File!SavesTheCookie
<1>9. File!TempsAreInUse'
  <2>1. ASSUME ~crashed, NEW f \in temps
        PROVE  \E q \in Savers : saver'[q].file = f /\ saver'[q].at \in {"write", "sync", "rename"}
    BY <1>2, <1>3, <2>1 DEF File!FileInv, File!TempsAreInUse
  <2>2. saver'[p].file = n /\ saver'[p].at = "write" BY <1>2
  <2> QED BY <1>3, <2>1, <2>2 DEF File!TempsAreInUse
<1> QED BY <1>5, <1>6, <1>7, <1>8, <1>9 DEF File!FileInv

LEMMA FileWriteInv ==
  ASSUME File!FileInv, NEW p \in Savers, File!Write(p) PROVE File!FileInv'
<1> DEFINE m == saver[p].file
<1>1. /\ saver[p].at = "write" /\ m \in DOMAIN content /\ saver[p].data \in Nat
      /\ saver[p].data = cookie /\ m \notin synced
      /\ content \in Seq(Nat \cup {File!Torn})
  BY DEF File!FileInv, File!TypeOK, File!SavesTheCookie, File!Write
<1>2. /\ DOMAIN content' = DOMAIN content /\ content'[m] = cookie
      /\ \A f \in DOMAIN content : f # m => content'[f] = content[f]
  BY <1>1 DEF File!Write
<1>3. content' \in Seq(Nat \cup {File!Torn}) BY <1>1, ExceptSeq DEF File!Write
<1>4. /\ saver'[p] = [saver[p] EXCEPT !.at = "sync"]
      /\ \A q \in Savers : q # p => saver'[q] = saver[q]
      /\ UNCHANGED <<cookie, synced, path, entries, temps, crashed, saved>>
  BY DEF File!FileInv, File!TypeOK, File!Write
<1>5. saver'[p].at = "sync" /\ saver'[p].file = m /\ saver'[p].data = cookie
  BY <1>1, <1>4 DEF File!FileInv, File!TypeOK
<1>6. File!TypeOK'
  <2>1. saver' \in [Savers -> [at : {"idle", "write", "sync", "rename", "directory"},
                              data : Nat, file : DOMAIN content']]
    BY <1>2 DEF File!FileInv, File!TypeOK, File!Write
  <2> QED BY <1>2, <1>3, <1>4, <2>1 DEF File!FileInv, File!TypeOK
<1>7. /\ path \in synced /\ entries \subseteq synced /\ synced \subseteq DOMAIN content
      /\ \A f \in synced : content'[f] = content[f]
  BY <1>1, <1>2 DEF File!FileInv, File!TypeOK, File!NamesAreSynced
<1>8. \A q \in Savers : saver'[q].file = saver[q].file
  BY <1>4, <1>5
<1>9. File!FileIsWhole' BY <1>4, <1>7, <1>8 DEF File!FileInv, File!FileIsWhole
<1>10. File!NamesAreSynced' BY <1>4, <1>7 DEF File!FileInv, File!NamesAreSynced
<1>11. File!SavesTheCookie'
  <2>1. ASSUME NEW q \in Savers, q # p, saver[q].at # "idle" PROVE saver[q].file # m
    BY <1>1, <2>1 DEF File!FileInv, File!SavesTheCookie
  <2>2. \A q \in Savers : saver[q].file \in DOMAIN content BY DEF File!FileInv, File!TypeOK
  <2>3. ASSUME NEW q \in Savers, q # p
        PROVE  /\ saver'[q].at # "idle" => saver'[q].data = cookie'
               /\ saver'[q].at \in {"sync", "rename"} => content'[saver'[q].file] = cookie'
               /\ saver'[q].at = "write" => saver'[q].file \notin synced'
               /\ saver'[q].at = "rename" => saver'[q].file \in synced'
               /\ saver'[q].at = "directory" => content'[path'] = cookie'
    <3>1. saver'[q] = saver[q] BY <1>4, <2>3
    <3>2. saver[q].at # "idle" => content'[saver[q].file] = content[saver[q].file]
      BY <1>2, <2>1, <2>2, <2>3
    <3> QED BY <1>4, <1>7, <3>1, <3>2 DEF File!FileInv, File!SavesTheCookie
  <2>4. ASSUME NEW q \in Savers, NEW r \in Savers \ {q}, saver'[q].at = "write", saver'[r].at # "idle"
        PROVE  saver'[q].file # saver'[r].file
    <3>1. q # p /\ saver'[q] = saver[q] BY <1>4, <1>5, <2>4
    <3>2. CASE r = p BY <1>1, <1>5, <2>1, <2>4, <3>1, <3>2
    <3>3. CASE r # p BY <1>4, <2>4, <3>1, <3>3 DEF File!FileInv, File!SavesTheCookie
    <3> QED BY <3>2, <3>3
  <2> QED BY <1>2, <1>4, <1>5, <2>3, <2>4 DEF File!SavesTheCookie
<1>12. File!TempsAreInUse'
  <2>1. ASSUME NEW q \in Savers, saver[q].at \in {"write", "sync", "rename"}
        PROVE  saver'[q].at \in {"write", "sync", "rename"} /\ saver'[q].file = saver[q].file
    BY <1>4, <1>5, <2>1
  <2> QED BY <1>4, <2>1 DEF File!FileInv, File!TempsAreInUse
<1> QED BY <1>6, <1>9, <1>10, <1>11, <1>12 DEF File!FileInv

LEMMA SyncInv ==
  ASSUME File!FileInv, NEW p \in Savers, File!Sync(p) PROVE File!FileInv'
<1> DEFINE m == saver[p].file
<1>1. /\ saver[p].at = "sync" /\ m \in DOMAIN content /\ content[m] = cookie /\ cookie \in Nat
      /\ saver[p].data = cookie /\ synced' = synced \cup {m}
  BY DEF File!FileInv, File!TypeOK, File!SavesTheCookie, File!Sync
<1>2. /\ \A q \in Savers : q # p => saver'[q] = saver[q]
      /\ UNCHANGED <<cookie, content, path, entries, temps, crashed, saved>>
  BY DEF File!FileInv, File!TypeOK, File!Sync
<1>3. saver'[p].at = "rename" /\ saver'[p].file = m /\ saver'[p].data = cookie
  BY <1>1 DEF File!FileInv, File!TypeOK, File!Sync
<1>4. File!TypeOK' BY <1>1, <1>2 DEF File!FileInv, File!TypeOK, File!Sync
<1>5. \A q \in Savers : saver'[q].file = saver[q].file BY <1>2, <1>3
<1>6. File!FileIsWhole' BY <1>2, <1>5 DEF File!FileInv, File!FileIsWhole
<1>7. File!NamesAreSynced' BY <1>1, <1>2 DEF File!FileInv, File!NamesAreSynced, File!Torn
<1>8. File!SavesTheCookie' BY <1>1, <1>2, <1>3 DEF File!FileInv, File!SavesTheCookie
<1>9. File!TempsAreInUse' BY <1>2, <1>3 DEF File!FileInv, File!TempsAreInUse
<1> QED BY <1>4, <1>6, <1>7, <1>8, <1>9 DEF File!FileInv

\* A temporary file that one saver gives up is in nobody's hands; what
\* remains is in those of the others.
LEMMA TempGone ==
  ASSUME File!FileInv, NEW p \in Savers, temps' = temps \ {saver[p].file},
         \A q \in Savers : q # p => saver'[q] = saver[q], crashed' = crashed
  PROVE  /\ File!TempsAreInUse'
         /\ ~crashed' => temps' \subseteq {saver'[q].file : q \in Savers}
<1>1. ASSUME ~crashed, NEW f \in temps'
      PROVE  \E q \in Savers : saver'[q].file = f /\ saver'[q].at \in {"write", "sync", "rename"}
  <2>1. PICK q \in Savers : saver[q].file = f /\ saver[q].at \in {"write", "sync", "rename"}
    BY <1>1 DEF File!FileInv, File!TempsAreInUse
  <2>2. q # p BY <2>1
  <2> QED BY <2>1, <2>2
<1> QED BY <1>1 DEF File!TempsAreInUse

LEMMA FailInv ==
  ASSUME File!FileInv, NEW p \in Savers, File!Fail(p) PROVE File!FileInv'
<1>1. /\ saver'[p] = File!Idle /\ \A q \in Savers : q # p => saver'[q] = saver[q]
      /\ UNCHANGED <<cookie, content, synced, path, entries, crashed, saved>>
      /\ temps' = temps \ {saver[p].file}
  BY DEF File!FileInv, File!TypeOK, File!Fail
<1>2. 1 \in DOMAIN content
  BY Domain DEF File!FileInv, File!TypeOK
<1>3. File!TypeOK' BY <1>1, <1>2 DEF File!FileInv, File!TypeOK, File!Fail, File!Idle
<1>4. File!TempsAreInUse' /\ File!FileIsWhole' BY <1>1, TempGone DEF File!FileInv, File!FileIsWhole
<1>5. File!NamesAreSynced' BY <1>1 DEF File!FileInv, File!NamesAreSynced
<1>6. File!SavesTheCookie' BY <1>1 DEF File!FileInv, File!SavesTheCookie, File!Idle
<1> QED BY <1>3, <1>4, <1>5, <1>6 DEF File!FileInv

LEMMA RenameInv ==
  ASSUME File!FileInv, NEW p \in Savers, File!Rename(p) PROVE File!FileInv'
<1> DEFINE m == saver[p].file
<1>1. /\ saver[p].at = "rename" /\ m \in DOMAIN content /\ content[m] = cookie /\ cookie \in Nat
      /\ m \in synced /\ saver[p].data = cookie
      /\ path' = m /\ entries' = entries \cup {m} /\ temps' = temps \ {m}
  BY DEF File!FileInv, File!TypeOK, File!SavesTheCookie, File!Rename
<1>2. /\ \A q \in Savers : q # p => saver'[q] = saver[q]
      /\ UNCHANGED <<cookie, content, synced, crashed, saved>>
  BY DEF File!FileInv, File!TypeOK, File!Rename
<1>3. saver'[p].at = "directory" /\ saver'[p].file = m /\ saver'[p].data = cookie
  BY <1>1 DEF File!FileInv, File!TypeOK, File!Rename
<1>4. File!TypeOK'
  <2>1. saver' \in [Savers -> [at : {"idle", "write", "sync", "rename", "directory"},
                              data : Nat, file : DOMAIN content']]
    BY SMTT(20), <1>2 DEF File!FileInv, File!TypeOK, File!Rename
  <2> QED BY <1>1, <1>2, <2>1 DEF File!FileInv, File!TypeOK
<1>5. saved.name <= cookie /\ saved.disk <= cookie /\ cookie # File!Torn
  BY DEF File!FileInv, File!TypeOK, File!NamesAreSynced, File!Torn
<1>6. File!TempsAreInUse' /\ (~crashed' => temps' \subseteq {saver'[q].file : q \in Savers})
  BY <1>1, <1>2, TempGone
<1>7. File!FileIsWhole' BY <1>1, <1>2, <1>5, <1>6 DEF File!FileInv, File!FileIsWhole, File!TypeOK
<1>8. File!NamesAreSynced' BY <1>1, <1>2 DEF File!FileInv, File!NamesAreSynced
<1>9. File!SavesTheCookie' BY <1>1, <1>2, <1>3 DEF File!FileInv, File!SavesTheCookie
<1> QED BY <1>4, <1>6, <1>7, <1>8, <1>9 DEF File!FileInv

LEMMA SyncDirectoryInv ==
  ASSUME File!FileInv, NEW p \in Savers, File!SyncDirectory(p) PROVE File!FileInv'
<1>1. /\ saver'[p] = File!Idle /\ \A q \in Savers : q # p => saver'[q] = saver[q]
      /\ UNCHANGED <<cookie, content, synced, path, temps, crashed>>
      /\ entries' = {path} \/ entries' = entries
  BY DEF File!FileInv, File!TypeOK, File!SyncDirectory
<1>2. /\ saver[p].at = "directory" /\ saver[p].data = cookie /\ content[path] = cookie
      /\ cookie \in Nat /\ saved \in [name : Nat, disk : Nat]
      /\ saved.name <= cookie /\ saved.disk <= saved.name /\ path \in entries
  BY DEF File!FileInv, File!TypeOK, File!SavesTheCookie, File!NamesAreSynced, File!SyncDirectory
<1>3. /\ File!NewerOf(saved.name, saver[p].data) = cookie
      /\ File!NewerOf(saved.disk, saver[p].data) = cookie
  BY <1>2 DEF File!NewerOf
<1>4. \/ entries' = {path} /\ saved' = [name |-> cookie, disk |-> cookie]
      \/ entries' = entries /\ saved' = [saved EXCEPT !.name = cookie]
  BY <1>3 DEF File!SyncDirectory
<1>5. /\ saved' \in [name : Nat, disk : Nat] /\ saved'.name = cookie
      /\ \/ saved'.disk = cookie /\ entries' = {path}
         \/ saved'.disk = saved.disk /\ entries' = entries
  BY <1>2, <1>4
<1>6. 1 \in DOMAIN content
  BY Domain DEF File!FileInv, File!TypeOK
<1>7. File!TypeOK'
  <2>1. saver' \in [Savers -> [at : {"idle", "write", "sync", "rename", "directory"},
                              data : Nat, file : DOMAIN content']]
    BY <1>1, <1>6 DEF File!FileInv, File!TypeOK, File!SyncDirectory, File!Idle
  <2> QED BY <1>1, <1>2, <1>5, <2>1 DEF File!FileInv, File!TypeOK
<1>8. ~crashed => \A f \in temps : \E q \in Savers :
         saver'[q].file = f /\ saver'[q].at \in {"write", "sync", "rename"}
  <2> SUFFICES ASSUME ~crashed, NEW f \in temps
               PROVE  \E q \in Savers : saver'[q].file = f /\ saver'[q].at \in {"write", "sync", "rename"}
    OBVIOUS
  <2>1. PICK q \in Savers : saver[q].file = f /\ saver[q].at \in {"write", "sync", "rename"}
    BY DEF File!FileInv, File!TempsAreInUse
  <2>2. q # p BY <1>2, <2>1
  <2> QED BY <1>1, <2>1, <2>2
<1>9. File!TempsAreInUse' /\ (~crashed' => temps' \subseteq {saver'[q].file : q \in Savers})
  BY <1>1, <1>8 DEF File!TempsAreInUse
<1>10. File!FileIsWhole' BY <1>1, <1>2, <1>5, <1>9 DEF File!FileInv, File!FileIsWhole
<1>11. File!NamesAreSynced' BY <1>1, <1>2, <1>5 DEF File!FileInv, File!NamesAreSynced
<1>12. File!SavesTheCookie' BY <1>1 DEF File!FileInv, File!SavesTheCookie, File!Idle
<1> QED BY <1>7, <1>9, <1>10, <1>11, <1>12 DEF File!FileInv

\* A process that starts again has no save going on.
LEMMA AllIdle ==
  ASSUME crashed' = TRUE, saver' = [q \in Savers |-> File!Idle]
  PROVE  File!SavesTheCookie' /\ File!TempsAreInUse' /\ \A q \in Savers : saver'[q] = File!Idle
BY DEF File!SavesTheCookie, File!TempsAreInUse, File!Idle

LEMMA KillInv ==
  ASSUME File!FileInv, File!Kill PROVE File!FileInv'
<1>1. /\ crashed' = TRUE /\ saver' = [q \in Savers |-> File!Idle] /\ cookie' = content[path]
      /\ UNCHANGED <<content, synced, path, entries, temps, saved>>
  BY DEF File!Kill, File!Load
<1>2. path \in DOMAIN content /\ 1 \in DOMAIN content /\ content[path] \in Nat
  BY Domain DEF File!FileInv, File!TypeOK, File!FileIsWhole
<1>3. File!TypeOK' BY <1>1, <1>2 DEF File!FileInv, File!TypeOK, File!Idle
<1>4. File!FileIsWhole' BY <1>1 DEF File!FileInv, File!FileIsWhole
<1>5. File!NamesAreSynced' BY <1>1 DEF File!FileInv, File!NamesAreSynced, File!FileIsWhole
<1> QED BY <1>1, <1>3, <1>4, <1>5, AllIdle DEF File!FileInv

LEMMA LosePowerInv ==
  ASSUME File!FileInv, File!LosePower PROVE File!FileInv'
<1>1. /\ crashed' = TRUE /\ saver' = [q \in Savers |-> File!Idle] /\ cookie' = content'[path']
      /\ path' \in entries /\ entries' = {path'} /\ UNCHANGED <<synced, temps>>
      /\ saved' = [saved EXCEPT !.name = saved.disk]
  BY DEF File!LosePower, File!Load
<1>2. PICK lost \in SUBSET (DOMAIN content \ synced) :
         content' = [f \in DOMAIN content |-> IF f \in lost THEN File!Torn ELSE content[f]]
  BY DEF File!LosePower
<1>3. /\ DOMAIN content' = DOMAIN content
      /\ \A f \in synced : f \in DOMAIN content /\ content'[f] = content[f]
  BY <1>2 DEF File!FileInv, File!TypeOK
<1>4. content' \in Seq(Nat \cup {File!Torn})
  <2>1. content \in Seq(Nat \cup {File!Torn}) /\ \A f \in DOMAIN content : content[f] \in Nat \cup {File!Torn}
    BY Domain DEF File!FileInv, File!TypeOK
  <2>2. \A f \in DOMAIN content : content'[f] \in Nat \cup {File!Torn} BY <1>2, <2>1
  <2>3. content' = [f \in DOMAIN content |-> content'[f]] BY <1>2
  <2> QED BY <2>1, <2>2, <2>3, SameLength
<1>5. /\ path' \in synced /\ content'[path'] = content[path']
      /\ content[path'] # File!Torn /\ content[path'] >= saved.disk
  BY <1>1, <1>3 DEF File!FileInv, File!FileIsWhole, File!NamesAreSynced
<1>6. content'[path'] \in Nat /\ 1 \in DOMAIN content'
  BY <1>3, <1>4, <1>5, Domain
<1>7. saved' \in [name : Nat, disk : Nat] /\ saved'.name = saved.disk /\ saved'.disk = saved.disk
      /\ saved.disk \in Nat
  BY <1>1 DEF File!FileInv, File!TypeOK
<1>8. File!TypeOK' BY <1>1, <1>3, <1>4, <1>5, <1>6, <1>7 DEF File!FileInv, File!TypeOK, File!Idle
<1>9. File!FileIsWhole' BY <1>1, <1>5, <1>7 DEF File!FileIsWhole
<1>10. File!NamesAreSynced' BY <1>1, <1>3, <1>5, <1>6, <1>7 DEF File!FileInv, File!NamesAreSynced
<1> QED BY <1>1, <1>8, <1>9, <1>10, AllIdle DEF File!FileInv

-----------------------------------------------------------------------------
\* The inductive invariant of the file: types, what has or may get the name
\* is whole and synced, a save writes the cookie in memory to a file of its
\* own, and temporary files are in somebody's hands while nothing stops.
THEOREM FileInvariant == File!Spec => []File!FileInv
<1>1. ASSUME File!FileInv, [File!Next]_File!vars PROVE File!FileInv'
  <2>1. CASE File!Next
    BY <1>1, <2>1, SetCookieInv, KillInv, LosePowerInv, BeginInv, FileWriteInv, SyncInv, RenameInv,
       SyncDirectoryInv, FailInv DEF File!Next
  <2>2. CASE UNCHANGED File!vars
    BY <1>1, <2>2 DEF File!vars, File!FileInv, File!TypeOK, File!FileIsWhole,
       File!NamesAreSynced, File!SavesTheCookie, File!TempsAreInUse
  <2> QED BY <1>1, <2>1, <2>2
<1> QED BY InitFile, <1>1, PTL DEF File!Spec

\* SaveConfig and LoadConfig: whatever fails or stops, the file has one whole
\* cookie, not older than one whose save succeeded, however many goroutines
\* save.
THEOREM FileStaysWhole == File!Spec => []File!FileIsWhole
BY FileInvariant, PTL DEF File!FileInv

-----------------------------------------------------------------------------
(***************************************************************************)
(* The rooms of the service by key, for any number of requests, rooms and  *)
(* live ids.  RoomsInv is preserved by every step: one lemma each, with    *)
(* one part per conjunct.  NothingOutlivesClose follows from the others.   *)
(***************************************************************************)

-----------------------------------------------------------------------------
(* Requests and the places they have in rooms.                             *)

\* RoomManager counts with the Cardinality of its own instance of FiniteSets.
LEMMA RoomsCount ==
  \A S : /\ Manager!Cardinality(S) = Cardinality(S)
         /\ Manager!IsFiniteSet(S) <=> IsFiniteSet(S)
BY DEF Manager!Cardinality, Cardinality, Manager!IsFiniteSet, IsFiniteSet

\* What a request that moves on leaves alone.
LEMMA OneMoves ==
  ASSUME Manager!TypeOK, NEW c \in Conns, NEW l, Manager!Go(c, l)
  PROVE  /\ conn'[c] = [conn[c] EXCEPT !.at = l] /\ conn'[c].at = l
         /\ conn'[c].key = conn[c].key /\ conn'[c].room = conn[c].room
         /\ \A d \in Conns : d # c => conn'[d] = conn[d]
BY DEF Manager!TypeOK, Manager!Go

\* What a change of one room leaves alone.
LEMMA OneRoom ==
  ASSUME Manager!TypeOK, NEW r \in Rooms, NEW new, room' = [room EXCEPT ![r] = new]
  PROVE  room'[r] = new /\ \A s \in Rooms : s # r => room'[s] = room[s]
BY DEF Manager!TypeOK

\* Places are finite, and nobody has one in two rooms.
LEMMA FewPlaces ==
  ASSUME Manager!ManagerAssumption, NEW r \in Rooms
  PROVE  /\ IsFiniteSet(Manager!Upgrading(r)) /\ Cardinality(Manager!Upgrading(r)) \in Nat
         /\ Manager!Cardinality(Manager!Upgrading(r)) = Cardinality(Manager!Upgrading(r))
<1>1. Manager!Upgrading(r) \subseteq Conns /\ Manager!IsFiniteSet(Conns)
  BY DEF Manager!Upgrading, Manager!ManagerAssumption
<1>2. IsFiniteSet(Conns) BY <1>1, RoomsCount
<1>3. IsFiniteSet(Manager!Upgrading(r)) BY <1>1, <1>2, FS_Subset
<1> QED BY <1>3, FS_CardinalityType, RoomsCount

\* A room whose count is 0 has promised nobody a place.
LEMMA NoPlace ==
  ASSUME Manager!ManagerAssumption, Manager!PlacesCounted, NEW r \in Rooms, room[r].pending = 0
  PROVE  Manager!Upgrading(r) = {}
<1>1. Cardinality(Manager!Upgrading(r)) = 0 BY FewPlaces DEF Manager!PlacesCounted
<1> QED BY <1>1, FewPlaces, FS_EmptySet

\* Requests that neither get nor give up a place.
LEMMA SamePlaces ==
  ASSUME \A c \in Conns : /\ conn'[c].at = "upgrade" <=> conn[c].at = "upgrade"
                          /\ conn[c].at = "upgrade" => conn'[c].room = conn[c].room
  PROVE  \A r \in Rooms : Manager!Upgrading(r)' = Manager!Upgrading(r)
BY DEF Manager!Upgrading

\* One request gets a place.
LEMMA PlaceTaken ==
  ASSUME Manager!ManagerAssumption, NEW c \in Conns, NEW r \in Rooms,
         conn[c].at # "upgrade", conn'[c].at = "upgrade", conn'[c].room = r,
         \A d \in Conns : d # c => conn'[d] = conn[d]
  PROVE  /\ Manager!Cardinality(Manager!Upgrading(r)') = Manager!Cardinality(Manager!Upgrading(r)) + 1
         /\ \A s \in Rooms : s # r => Manager!Upgrading(s)' = Manager!Upgrading(s)
<1>1. Manager!Upgrading(r)' = Manager!Upgrading(r) \cup {c} /\ c \notin Manager!Upgrading(r)
  BY DEF Manager!Upgrading
<1>2. \A s \in Rooms : s # r => Manager!Upgrading(s)' = Manager!Upgrading(s)
  BY DEF Manager!Upgrading
<1>3. Cardinality(Manager!Upgrading(r)') = Cardinality(Manager!Upgrading(r)) + 1
  BY ZenonT(60), <1>1, FewPlaces, FS_AddElement
<1> QED BY <1>2, <1>3, RoomsCount

\* One request gives its place up.
LEMMA PlaceGiven ==
  ASSUME Manager!ManagerAssumption, NEW c \in Conns, NEW r \in Rooms,
         conn[c].at = "upgrade", conn[c].room = r, conn'[c].at # "upgrade",
         \A d \in Conns : d # c => conn'[d] = conn[d]
  PROVE  /\ Manager!Cardinality(Manager!Upgrading(r)') = Manager!Cardinality(Manager!Upgrading(r)) - 1
         /\ Manager!Cardinality(Manager!Upgrading(r)) - 1 \in Nat
         /\ \A s \in Rooms : s # r => Manager!Upgrading(s)' = Manager!Upgrading(s)
<1>1. Manager!Upgrading(r)' = Manager!Upgrading(r) \ {c} /\ c \in Manager!Upgrading(r)
  BY DEF Manager!Upgrading
<1>2. \A s \in Rooms : s # r => Manager!Upgrading(s)' = Manager!Upgrading(s)
  BY DEF Manager!Upgrading
<1>3. Cardinality(Manager!Upgrading(r)') = Cardinality(Manager!Upgrading(r)) - 1
  BY ZenonT(60), <1>1, FewPlaces, FS_RemoveElement
<1>4. Cardinality(Manager!Upgrading(r)) # 0 BY <1>1, FewPlaces, FS_EmptySet
<1> QED BY <1>2, <1>3, <1>4, FewPlaces, RoomsCount

\* What Close has done when it returns follows from how far it is.
LEMMA AllClosed ==
  ASSUME Manager!TypeOK, Manager!KeysFit, Manager!CloseProgress PROVE Manager!NothingOutlivesClose
<1> SUFFICES ASSUME closer = "done", NEW r \in Rooms
             PROVE  room[r].closed /\ room[r].clients = {}
  BY DEF Manager!NothingOutlivesClose
<1>1. room[r].closed /\ room[r].end # "clients" BY DEF Manager!CloseProgress
<1>2. CASE room[r].end = "none" BY <1>1, <1>2 DEF Manager!CloseProgress, Manager!KeysFit
<1>3. CASE room[r].end # "none" BY <1>1, <1>3 DEF Manager!KeysFit, Manager!TypeOK, Manager!RoomState
<1> QED BY <1>1, <1>2, <1>3

\* The parts that are proved of each step.
RoomParts ==
    /\ Manager!TypeOK /\ Manager!OpenRoomIsFound /\ Manager!ClientKeepsRoom
    /\ Manager!KeysFit /\ Manager!PlacesCounted /\ Manager!CloseProgress

LEMMA RoomPartsSuffice ==
  ASSUME RoomParts' PROVE Manager!RoomsInv'
<1>1. Manager!NothingOutlivesClose'
  <2>1. (Manager!TypeOK /\ Manager!KeysFit /\ Manager!CloseProgress)'
        => Manager!NothingOutlivesClose'
    BY AllClosed, PTL
  <2> QED BY <2>1 DEF RoomParts
<1> QED BY <1>1 DEF RoomParts, Manager!RoomsInv, Manager!RoomsByKey

-----------------------------------------------------------------------------
(* Steps that change no room.                                              *)

\* Requests move and rooms stay as they are: only who waits for what counts.
LEMMA RoomsStay ==
  ASSUME Manager!RoomsInv, Manager!TypeOK', UNCHANGED <<rooms, room, closed, closer, left>>,
         \A c \in Conns :
            \/ conn'[c] = conn[c]
            \/ /\ conn[c].at \notin {"upgrade", "open"} /\ conn'[c].at \notin {"upgrade", "open"}
               /\ conn'[c].at # "new" => conn'[c].key \in Manager!Key
               /\ conn'[c].at \in {"reserve", "releasing"} =>
                     conn'[c].room \in Rooms /\ room[conn'[c].room].key = conn'[c].key
  PROVE  Manager!RoomsInv'
<1> USE DEF Manager!RoomsInv, Manager!RoomsByKey
<1>1. Manager!OpenRoomIsFound' BY DEF Manager!OpenRoomIsFound
<1>2. Manager!ClientKeepsRoom' BY DEF Manager!ClientKeepsRoom
<1>3. Manager!KeysFit' BY DEF Manager!KeysFit
<1>4. Manager!PlacesCounted'
  <2>1. \A r \in Rooms : Manager!Upgrading(r)' = Manager!Upgrading(r) BY SamePlaces
  <2>2. \A r \in Rooms : room'[r].pending = Manager!Cardinality(Manager!Upgrading(r)')
    BY <2>1 DEF Manager!PlacesCounted
  <2>3. \A r \in Rooms : \A c \in room[r].clients : c \in Conns
    BY DEF Manager!TypeOK, Manager!RoomState
  <2>4. \A r \in Rooms : \A c \in room'[r].clients : conn'[c].at = "open" /\ conn'[c].room = r
    BY <2>3 DEF Manager!PlacesCounted
  <2>5. \A c \in Conns : conn'[c].at = "open" => c \in room'[conn'[c].room].clients
    BY DEF Manager!PlacesCounted
  <2>6. \A c \in Conns : conn'[c].at # "new" => conn'[c].key \in Manager!Key
    BY DEF Manager!PlacesCounted
  <2>7. \A c \in Conns : conn'[c].at \in {"reserve", "upgrade", "releasing", "open"} =>
           conn'[c].room \in Rooms /\ room'[conn'[c].room].key = conn'[c].key
    BY DEF Manager!PlacesCounted
  <2> QED BY <2>2, <2>4, <2>5, <2>6, <2>7 DEF Manager!PlacesCounted
<1>5. Manager!CloseProgress' BY DEF Manager!CloseProgress
<1> QED BY <1>1, <1>2, <1>3, <1>4, <1>5, RoomPartsSuffice DEF RoomParts

LEMMA RequestRoomInv ==
  ASSUME Manager!ManagerAssumption, Manager!RoomsInv, NEW c \in Conns, Manager!Request(c)
  PROVE Manager!RoomsInv'
<1>1. PICK id \in LiveIds, override \in {"a", "b"} \cup {None} :
         conn' = [conn EXCEPT ![c] = [at |-> "acquire", key |-> <<id, Manager!CookieForRoom(id, override)>>,
                                      room |-> None]]
  BY DEF Manager!Request
<1>2. <<id, Manager!CookieForRoom(id, override)>> \in Manager!Key
  BY DEF Manager!Key, Manager!CookieForRoom, Manager!ManagerAssumption
<1>3. Manager!TypeOK'
  BY <1>1, <1>2 DEF Manager!Request, Manager!RoomsInv, Manager!TypeOK, Manager!At
<1>4. /\ conn[c].at = "new" /\ conn'[c].at = "acquire" /\ conn'[c].key \in Manager!Key
      /\ \A d \in Conns : d # c => conn'[d] = conn[d]
  BY <1>1, <1>2 DEF Manager!Request, Manager!RoomsInv, Manager!TypeOK
<1> QED BY <1>3, <1>4, RoomsStay DEF Manager!Request

LEMMA RefuseRoomInv ==
  ASSUME Manager!ManagerAssumption, Manager!RoomsInv, NEW c \in Conns, Manager!Refuse(c)
  PROVE Manager!RoomsInv'
<1>1. /\ conn[c].at = "acquire" /\ conn'[c].at = "gone" /\ conn'[c].key = conn[c].key
      /\ \A d \in Conns : d # c => conn'[d] = conn[d]
  BY OneMoves DEF Manager!Refuse, Manager!RoomsInv
<1>2. Manager!TypeOK'
  BY DEF Manager!Refuse, Manager!Go, Manager!RoomsInv, Manager!TypeOK, Manager!At
<1>3. conn[c].key \in Manager!Key BY <1>1 DEF Manager!RoomsInv, Manager!PlacesCounted
<1> QED BY <1>1, <1>2, <1>3, RoomsStay DEF Manager!Refuse

-----------------------------------------------------------------------------
(* Rooms are made, and places reserved.                                    *)

LEMMA GetOrCreateRoomInv ==
  ASSUME Manager!ManagerAssumption, Manager!RoomsInv, NEW c \in Conns, Manager!GetOrCreateRoom(c)
  PROVE Manager!RoomsInv'
<1> DEFINE k == conn[c].key
           found == rooms[k] # None /\ ~room[rooms[k]].closed
           r == IF found THEN rooms[k] ELSE CHOOSE new \in Manager!Fresh : TRUE
<1> USE DEF Manager!RoomsInv, Manager!RoomsByKey
<1>1. /\ rooms' = [rooms EXCEPT ![k] = r]
      /\ room' = IF found THEN room ELSE [room EXCEPT ![r].key = k, ![r].closed = FALSE]
      /\ conn' = [conn EXCEPT ![c].at = "reserve", ![c].room = r]
  BY DEF Manager!GetOrCreateRoom
<1>2. /\ conn[c].at = "acquire" /\ closed = FALSE /\ closer = "idle"
      /\ k \in Manager!Key /\ k \notin {None} /\ \A s \in Rooms : s # None
      /\ UNCHANGED <<closed, closer, left>>
  <2>1. conn[c].at = "acquire" /\ ~closed /\ UNCHANGED <<closed, closer, left>>
    BY DEF Manager!GetOrCreateRoom
  <2> HIDE DEF found, r
  <2>2. k \in Manager!Key BY <2>1 DEF Manager!PlacesCounted
  <2>3. closer = "idle" BY <2>1 DEF Manager!CloseProgress
  <2> QED BY <2>1, <2>2, <2>3 DEF Manager!ManagerAssumption, Manager!TypeOK
<1>3. r \in Rooms /\ (~found => room[r].key = None)
  <2>1. CASE found BY <1>2, <2>1 DEF Manager!TypeOK
  <2>2. CASE ~found
    <3>1. Manager!Fresh # {} BY <2>2 DEF Manager!GetOrCreateRoom
    <3> QED BY <2>2, <3>1 DEF Manager!Fresh
  <2> QED BY <2>1, <2>2
<1> HIDE DEF r
<1>4. /\ conn'[c].at = "reserve" /\ conn'[c].room = r /\ conn'[c].key = k
      /\ \A d \in Conns : d # c => conn'[d] = conn[d]
  BY <1>1 DEF Manager!TypeOK
<1>5. rooms'[k] = r /\ \A j \in Manager!Key : j # k => rooms'[j] = rooms[j]
  BY <1>1, <1>2 DEF Manager!TypeOK
<1>6. /\ \A s \in Rooms : s # r => room'[s] = room[s]
      /\ room'[r].key = k /\ ~room'[r].closed
      /\ room'[r].pending = room[r].pending /\ room'[r].clients = room[r].clients
      /\ room'[r].end = room[r].end /\ room[r].end = "none"
  <2>1. CASE found
    <3>1. r = rooms[k] BY <2>1 DEF r
    <3>2. room' = room /\ room[r].key = k /\ ~room[r].closed
      BY <1>1, <1>2, <2>1, <3>1 DEF Manager!KeysFit
    <3> QED BY <1>3, <3>2 DEF Manager!KeysFit
  <2>2. CASE ~found
    <3>1. room' = [room EXCEPT ![r].key = k, ![r].closed = FALSE] BY <1>1, <2>2
    <3>2. room[r].end = "none" BY <1>3, <2>2 DEF Manager!KeysFit
    <3> QED BY <1>3, <3>1, <3>2 DEF Manager!TypeOK
  <2> QED BY <2>1, <2>2
<1>7. k # None /\ \A s \in Rooms : s # None BY <1>2
<1>8. Manager!TypeOK'
  <2>1. rooms' \in [Manager!Key -> Rooms \cup {None}] BY <1>1, <1>3 DEF Manager!TypeOK
  <2>2. room' \in [Rooms -> Manager!RoomState]
    <3>1. CASE found BY <1>1, <3>1 DEF Manager!TypeOK
    <3>2. CASE ~found
      <4>1. room' = [room EXCEPT ![r].key = k, ![r].closed = FALSE] BY <1>1, <3>2
      <4>2. k \in Manager!Key BY <1>2
      <4>3. room' = [room EXCEPT ![r] = [room[r] EXCEPT !.key = k, !.closed = FALSE]]
        BY <1>3, <4>1 DEF Manager!TypeOK
      <4>4. [room[r] EXCEPT !.key = k, !.closed = FALSE] \in Manager!RoomState
        BY ZenonT(60), <1>3, <4>2 DEF Manager!TypeOK, Manager!RoomState
      <4> QED BY <1>3, <4>3, <4>4 DEF Manager!TypeOK
    <3> QED BY <3>1, <3>2
  <2>3. conn' \in [Conns -> [at : Manager!At, key : Manager!Key \cup {None}, room : Rooms \cup {None}]]
    BY ZenonT(60), <1>1, <1>3 DEF Manager!TypeOK, Manager!At
  <2> QED BY <1>2, <2>1, <2>2, <2>3 DEF Manager!TypeOK
<1>9. \A s \in Rooms : s # r /\ room[s].key = k => room[s].closed
  <2> SUFFICES ASSUME NEW s \in Rooms, s # r, room[s].key = k, ~room[s].closed PROVE FALSE
    BY DEF Manager!TypeOK
  <2>1. rooms[k] = s BY <1>7 DEF Manager!OpenRoomIsFound
  <2>2. found BY <1>7, <2>1
  <2> QED BY <2>1, <2>2 DEF r
<1>10. Manager!OpenRoomIsFound'
  <2> SUFFICES ASSUME NEW s \in Rooms, room'[s].key # None
               PROVE  /\ ~room'[s].closed => rooms'[room'[s].key] = s
                      /\ rooms'[room'[s].key] = s => room'[s].end # "done"
    BY DEF Manager!OpenRoomIsFound
  <2>1. CASE s = r BY <1>5, <1>6, <2>1
  <2>2. CASE s # r
    <3>1. room'[s] = room[s] /\ room[s].key \in Manager!Key
      BY <1>6, <2>2 DEF Manager!TypeOK, Manager!RoomState
    <3>2. CASE room[s].key = k BY <1>5, <1>9, <2>2, <3>1, <3>2
    <3>3. CASE room[s].key # k BY <1>5, <3>1, <3>3 DEF Manager!OpenRoomIsFound
    <3> QED BY <3>2, <3>3
  <2> QED BY <2>1, <2>2
<1>11. Manager!KeysFit'
  <2>1. ASSUME NEW j \in Manager!Key, rooms'[j] # None PROVE room'[rooms'[j]].key = j
    <3>1. CASE j = k BY <1>5, <1>6, <3>1
    <3>2. CASE j # k
      <4>1. rooms[j] # None /\ rooms'[j] = rooms[j] /\ room[rooms[j]].key = j /\ rooms[j] \in Rooms
        BY <1>5, <2>1, <3>2 DEF Manager!KeysFit, Manager!TypeOK
      <4>2. rooms[j] # r
        <5> SUFFICES ASSUME rooms[j] = r PROVE FALSE OBVIOUS
        <5>1. found BY <1>3, <1>7, <4>1, Manager!ManagerAssumption DEF Manager!ManagerAssumption
        <5>2. r = rooms[k] /\ room[rooms[k]].key = k BY <1>2, <5>1 DEF r, Manager!KeysFit
        <5> QED BY <3>2, <4>1, <5>2
      <4> QED BY <1>6, <4>1, <4>2
    <3> QED BY <3>1, <3>2
  <2> QED BY <1>6, <1>7, <2>1 DEF Manager!KeysFit
<1>12. Manager!PlacesCounted'
  <2>1. \A s \in Rooms : Manager!Upgrading(s)' = Manager!Upgrading(s) BY <1>2, <1>4, SamePlaces
  <2>2. \A s \in Rooms : room'[s].pending = room[s].pending /\ room'[s].clients = room[s].clients
    BY <1>6
  <2>3. \A s \in Rooms : room[s].key # None => room'[s].key = room[s].key
    <3>1. CASE found
      <4>1. room' = room BY <1>1, <3>1
      <4> QED BY <4>1
    <3>2. CASE ~found BY <1>3, <1>6, <3>2
    <3> QED BY <3>1, <3>2
  <2>4. ASSUME NEW d \in Conns, conn'[d].at \in {"reserve", "upgrade", "releasing", "open"}
        PROVE  conn'[d].room \in Rooms /\ room'[conn'[d].room].key = conn'[d].key
    <3>1. CASE d = c BY <1>3, <1>4, <1>6, <3>1
    <3>2. CASE d # c
      <4>1. /\ conn'[d] = conn[d] /\ conn[d].room \in Rooms
            /\ room[conn[d].room].key = conn[d].key /\ conn[d].key \in Manager!Key
        BY <1>4, <2>4, <3>2 DEF Manager!PlacesCounted
      <4> QED BY <2>3, <4>1 DEF Manager!ManagerAssumption
    <3> QED BY <3>1, <3>2
  <2>5. \A d \in Conns : conn'[d].at # "new" => conn'[d].key \in Manager!Key
    BY <1>2, <1>4 DEF Manager!PlacesCounted
  <2>6. ASSUME NEW s \in Rooms, NEW d \in room'[s].clients
        PROVE  conn'[d].at = "open" /\ conn'[d].room = s
    <3>1. d \in room[s].clients /\ conn[d].at = "open" /\ conn[d].room = s /\ d \in Conns
      BY <2>2 DEF Manager!PlacesCounted, Manager!TypeOK, Manager!RoomState
    <3> QED BY <1>2, <1>4, <3>1
  <2>7. \A d \in Conns : conn'[d].at = "open" => d \in room'[conn'[d].room].clients
    <3> SUFFICES ASSUME NEW d \in Conns, conn'[d].at = "open" PROVE d \in room'[conn'[d].room].clients
      OBVIOUS
    <3>1. conn'[d] = conn[d] /\ conn[d].at = "open" BY <1>4
    <3>2. conn[d].room \in Rooms /\ d \in room[conn[d].room].clients
      BY <3>1 DEF Manager!PlacesCounted
    <3> QED BY <2>2, <3>1, <3>2
  <2> QED BY <2>1, <2>2, <2>4, <2>5, <2>6, <2>7 DEF Manager!PlacesCounted
<1>13. Manager!ClientKeepsRoom'
  <2> SUFFICES ASSUME NEW d \in Conns
               PROVE  LET q == conn'[d].room
                      IN  /\ conn'[d].at \in {"upgrade", "open"} => room'[q].key = conn'[d].key
                          /\ conn'[d].at \in {"upgrade", "open"} /\ room'[q].closed => closed'
                          /\ conn'[d].at = "open" <=> \E s \in Rooms : d \in room'[s].clients
    BY DEF Manager!ClientKeepsRoom
  <2>1. conn'[d].at \in {"upgrade", "open"} => room'[conn'[d].room].key = conn'[d].key
    BY <1>12 DEF Manager!PlacesCounted
  <2>2. conn'[d].at = "open" <=> \E s \in Rooms : d \in room'[s].clients
    BY <1>12 DEF Manager!PlacesCounted
  <2>3. ASSUME conn'[d].at \in {"upgrade", "open"}, room'[conn'[d].room].closed PROVE closed'
    <3>1. d # c BY <1>4, <2>3
    <3>2. conn'[d] = conn[d] /\ conn[d].room \in Rooms BY <1>4, <2>3, <3>1 DEF Manager!PlacesCounted
    <3>3. conn[d].room # r BY <1>6, <2>3, <3>2
    <3> QED BY <1>2, <1>6, <2>3, <3>2, <3>3 DEF Manager!ClientKeepsRoom
  <2> QED BY <2>1, <2>2, <2>3
<1>14. Manager!CloseProgress'
  <2>1. \A s \in Rooms : room'[s].end = room[s].end /\ (room'[s].closed => room'[s] = room[s])
    BY <1>6
  <2> QED BY <1>2, <2>1 DEF Manager!CloseProgress
<1> QED BY <1>8, <1>10, <1>11, <1>12, <1>13, <1>14, RoomPartsSuffice DEF RoomParts

-----------------------------------------------------------------------------
(* Steps that change one room.                                             *)

\* A room keeps its key; it may close itself once it is empty, and Close may
\* begin to close it and then close its clients.
LEMMA OneRoomFits ==
  ASSUME Manager!RoomsInv, NEW r \in Rooms, UNCHANGED <<rooms, closed, closer, left>>,
         \A s \in Rooms : s # r => room'[s] = room[s],
         room'[r].key = room[r].key, room[r].key # None,
         \/ room'[r].closed = room[r].closed /\ room'[r].end = room[r].end
         \/ ~room[r].closed /\ room'[r].closed = TRUE /\ room'[r].end = "callback" /\ room'[r].clients = {}
         \/ /\ ~room[r].closed /\ room'[r].closed = TRUE /\ room'[r].end = "clients"
            /\ closer = "rooms" /\ r \in left
         \/ /\ room[r].end = "clients" /\ room'[r].closed = room[r].closed
            /\ room'[r].end = "upstream" /\ room'[r].clients = {},
         room[r].closed => room'[r].clients \subseteq room[r].clients
  PROVE  Manager!OpenRoomIsFound' /\ Manager!KeysFit' /\ Manager!CloseProgress'
<1> USE DEF Manager!RoomsInv, Manager!RoomsByKey
<1>1. \A s \in Rooms : room'[s].key = room[s].key
  OBVIOUS
<1>2. Manager!OpenRoomIsFound'
  <2> SUFFICES ASSUME NEW s \in Rooms, room'[s].key # None
               PROVE  /\ ~room'[s].closed => rooms'[room'[s].key] = s
                      /\ rooms'[room'[s].key] = s => room'[s].end # "done"
    BY DEF Manager!OpenRoomIsFound
  <2>1. /\ ~room[s].closed => rooms[room[s].key] = s
        /\ rooms[room[s].key] = s => room[s].end # "done"
    BY <1>1 DEF Manager!OpenRoomIsFound
  <2> QED BY <1>1, <2>1
<1>3. Manager!KeysFit'
  <2>1. ASSUME NEW k \in Manager!Key, rooms'[k] # None PROVE room'[rooms'[k]].key = k
    <3>1. rooms[k] \in Rooms /\ room[rooms[k]].key = k BY <2>1 DEF Manager!KeysFit, Manager!TypeOK
    <3> QED BY <1>1, <3>1
  <2>2. ASSUME NEW s \in Rooms
        PROVE  /\ room'[s].key = None => /\ room'[s].closed /\ room'[s].end = "none"
                                         /\ room'[s].clients = {} /\ ~room'[s].busy
               /\ room'[s].end # "none" => room'[s].closed
               /\ room'[s].end \in {"upstream", "callback", "done"} => room'[s].clients = {}
    <3>1. /\ room[s].key = None =>
                room[s].closed /\ room[s].end = "none" /\ room[s].clients = {} /\ ~room[s].busy
          /\ room[s].end # "none" => room[s].closed
          /\ room[s].end \in {"upstream", "callback", "done"} => room[s].clients = {}
      BY DEF Manager!KeysFit
    <3>2. CASE s = r BY <3>1, <3>2
    <3>3. CASE s # r BY <3>1, <3>3
    <3> QED BY <3>2, <3>3
  <2> QED BY <2>1, <2>2 DEF Manager!KeysFit
<1>4. Manager!CloseProgress'
  <2>1. ASSUME NEW s \in Rooms
        PROVE  /\ room'[s].end = "clients" => closer' = "rooms" /\ s \in left'
               /\ room'[s].closed /\ room'[s].end = "none" => room'[s].key = None
               /\ closer' \in {"rooms", "done"} /\ ~room'[s].closed => s \in left'
    <3>1. CASE s = r BY <3>1 DEF Manager!CloseProgress
    <3>2. CASE s # r BY <3>2 DEF Manager!CloseProgress
    <3> QED BY <3>1, <3>2
  <2> QED BY <2>1 DEF Manager!CloseProgress
<1> QED BY <1>2, <1>3, <1>4

\* Who has a place keeps the room open, if the counts are right and the room
\* was not closed under him.
LEMMA KeepsRoom ==
  ASSUME Manager!PlacesCounted',
         \A c \in Conns : conn'[c].at \in {"upgrade", "open"} /\ room'[conn'[c].room].closed => closed'
  PROVE  Manager!ClientKeepsRoom'
BY DEF Manager!PlacesCounted, Manager!ClientKeepsRoom

\* Requests that have a place, or stay, have a room of their key.
LEMMA HasRoom ==
  ASSUME Manager!ManagerAssumption, Manager!RoomsInv, NEW c \in Conns,
         conn[c].at \in {"reserve", "upgrade", "releasing", "open"}
  PROVE  /\ conn[c].key \in Manager!Key /\ conn[c].room \in Rooms /\ room[conn[c].room].key = conn[c].key
         /\ room[conn[c].room].key # None
BY DEF Manager!RoomsInv, Manager!PlacesCounted, Manager!ManagerAssumption

\* One request takes, gives up or uses the place it has in its room.
LEMMA OneRequestPlaces ==
  ASSUME Manager!ManagerAssumption, Manager!RoomsInv, NEW c \in Conns, NEW r \in Rooms,
         conn[c].room = r,
         conn[c].at \in {"reserve", "upgrade", "releasing", "open"}, conn'[c].at # "new",
         conn'[c].key = conn[c].key, conn'[c].room = r,
         \A d \in Conns : d # c => conn'[d] = conn[d],
         \A s \in Rooms : s # r => room'[s] = room[s],
         room'[r].key = room[r].key,
         room'[r].pending = Manager!Cardinality(Manager!Upgrading(r)'),
         room'[r].clients \subseteq Conns,
         conn'[c].at = "open" <=> c \in room'[r].clients,
         \A d \in Conns : d # c => (d \in room'[r].clients <=> d \in room[r].clients)
  PROVE  Manager!PlacesCounted'
<1> USE DEF Manager!RoomsInv
<1>1. room[r].key = conn[c].key /\ conn[c].key \in Manager!Key BY HasRoom
<1>2. \A s \in Rooms : room'[s].key = room[s].key
  OBVIOUS
<1>3. ASSUME NEW s \in Rooms PROVE room'[s].pending = Manager!Cardinality(Manager!Upgrading(s)')
  <2>1. CASE s = r BY <2>1
  <2>2. CASE s # r
    <3>1. Manager!Upgrading(s)' = Manager!Upgrading(s) BY <2>2 DEF Manager!Upgrading
    <3>2. room[s].pending = Manager!Cardinality(Manager!Upgrading(s)) BY DEF Manager!PlacesCounted
    <3> QED BY <2>2, <3>1, <3>2
  <2> QED BY <2>1, <2>2
<1>4. ASSUME NEW s \in Rooms, NEW d \in room'[s].clients
      PROVE  conn'[d].at = "open" /\ conn'[d].room = s
  <2>1. d \in Conns BY DEF Manager!TypeOK, Manager!RoomState
  <2>2. CASE d = c
    <3>1. s = r
      <4> SUFFICES ASSUME s # r PROVE FALSE OBVIOUS
      <4>1. conn[c].room = s BY <2>2 DEF Manager!PlacesCounted
      <4> QED BY <4>1
    <3> QED BY <2>2, <3>1
  <2>3. CASE d # c
    <3>1. d \in room[s].clients BY <2>1, <2>3
    <3>2. conn[d].at = "open" /\ conn[d].room = s BY <3>1 DEF Manager!PlacesCounted
    <3> QED BY <2>1, <2>3, <3>2
  <2> QED BY <2>2, <2>3
<1>5. ASSUME NEW d \in Conns
      PROVE  /\ conn'[d].at = "open" => d \in room'[conn'[d].room].clients
             /\ conn'[d].at # "new" => conn'[d].key \in Manager!Key
             /\ conn'[d].at \in {"reserve", "upgrade", "releasing", "open"} =>
                   conn'[d].room \in Rooms /\ room'[conn'[d].room].key = conn'[d].key
  <2>1. CASE d = c BY <1>1, <2>1
  <2>2. CASE d # c
    <3>1. /\ conn'[d] = conn[d]
          /\ conn[d].at = "open" => conn[d].room \in Rooms /\ d \in room[conn[d].room].clients
          /\ conn[d].at # "new" => conn[d].key \in Manager!Key
          /\ conn[d].at \in {"reserve", "upgrade", "releasing", "open"} =>
                conn[d].room \in Rooms /\ room[conn[d].room].key = conn[d].key
      BY <2>2 DEF Manager!PlacesCounted
    <3>2. conn[d].at = "open" => d \in room'[conn[d].room].clients BY <2>2, <3>1
    <3> QED BY <1>2, <3>1, <3>2
  <2> QED BY <2>1, <2>2
<1> QED BY <1>3, <1>4, <1>5 DEF Manager!PlacesCounted

\* Nobody loses his room if none is closed.
LEMMA NoneClosed ==
  ASSUME Manager!ManagerAssumption, Manager!RoomsInv, Manager!PlacesCounted', closed' = closed,
         \A s \in Rooms : room'[s].closed => room[s].closed,
         NEW c \in Conns, \A d \in Conns : d # c => conn'[d] = conn[d],
         conn'[c].at \in {"upgrade", "open"} => ~room'[conn'[c].room].closed
  PROVE  Manager!ClientKeepsRoom'
<1>1. ASSUME NEW d \in Conns, conn'[d].at \in {"upgrade", "open"}, room'[conn'[d].room].closed
      PROVE  closed'
  <2>1. d # c BY <1>1
  <2>2. conn'[d] = conn[d] /\ conn[d].room \in Rooms BY <1>1, <2>1, HasRoom
  <2> QED BY <1>1, <2>2 DEF Manager!RoomsInv, Manager!RoomsByKey, Manager!ClientKeepsRoom
<1> QED BY <1>1, KeepsRoom

LEMMA ReserveClientInv ==
  ASSUME Manager!ManagerAssumption, Manager!RoomsInv, NEW c \in Conns, Manager!ReserveClient(c)
  PROVE Manager!RoomsInv'
<1> DEFINE r == conn[c].room
<1> USE DEF Manager!RoomsInv
<1>1. /\ conn[c].at = "reserve" /\ conn[c].key \in Manager!Key
      /\ r \in Rooms /\ room[r].key = conn[c].key /\ room[r].key # None
  BY HasRoom DEF Manager!ReserveClient
<1>2. UNCHANGED <<rooms, closed, closer, left>> BY DEF Manager!ReserveClient
<1>3. CASE room[r].closed
  <2>1. Manager!Go(c, "acquire") /\ room' = room BY <1>3 DEF Manager!ReserveClient
  <2>2. Manager!TypeOK' BY <1>2, <2>1 DEF Manager!Go, Manager!TypeOK, Manager!At
  <2>3. /\ conn'[c].at = "acquire" /\ conn'[c].key = conn[c].key
        /\ \A d \in Conns : d # c => conn'[d] = conn[d]
    BY <2>1, OneMoves
  <2> QED BY <1>1, <1>2, <2>1, <2>2, <2>3, RoomsStay
<1>4. CASE ~room[r].closed
  <2>1. Manager!Go(c, "upgrade") /\ room' = [room EXCEPT ![r] = [room[r] EXCEPT !.pending = @ + 1]]
    BY <1>4 DEF Manager!ReserveClient
  <2>2. /\ [room[r] EXCEPT !.pending = @ + 1] \in Manager!RoomState
        /\ room'[r] = [room[r] EXCEPT !.pending = @ + 1]
    BY SMTT(20), <1>1, <2>1 DEF Manager!TypeOK, Manager!RoomState
  <2>3. Manager!TypeOK'
    <3>1. conn' \in [Conns -> [at : Manager!At, key : Manager!Key \cup {None}, room : Rooms \cup {None}]]
      BY <2>1 DEF Manager!Go, Manager!TypeOK, Manager!At
    <3> QED BY <1>2, <2>1, <2>2, <3>1 DEF Manager!TypeOK
  <2>4. /\ conn'[c].at = "upgrade" /\ conn'[c].key = conn[c].key /\ conn'[c].room = r
        /\ \A d \in Conns : d # c => conn'[d] = conn[d]
    BY <2>1, OneMoves
  <2>5. /\ room'[r].pending = room[r].pending + 1 /\ room'[r].key = room[r].key
        /\ room'[r].clients = room[r].clients /\ room'[r].end = room[r].end
        /\ room'[r].closed = room[r].closed /\ room[r].clients \subseteq Conns
        /\ \A s \in Rooms : s # r => room'[s] = room[s]
    BY <1>1, <2>1, <2>2 DEF Manager!TypeOK, Manager!RoomState
  <2>6. Manager!OpenRoomIsFound' /\ Manager!KeysFit' /\ Manager!CloseProgress'
    BY <1>1, <1>2, <2>5, OneRoomFits
  <2>7. room'[r].pending = Manager!Cardinality(Manager!Upgrading(r)')
    <3>1. Manager!Cardinality(Manager!Upgrading(r)') = Manager!Cardinality(Manager!Upgrading(r)) + 1
      BY <1>1, <2>4, PlaceTaken
    <3> QED BY <1>1, <2>5, <3>1 DEF Manager!PlacesCounted
  <2>8. c \notin room[r].clients BY <1>1 DEF Manager!PlacesCounted
  <2>9. Manager!PlacesCounted' BY <1>1, <2>4, <2>5, <2>7, <2>8, OneRequestPlaces
  <2>10. Manager!ClientKeepsRoom' BY <1>1, <1>2, <1>4, <2>4, <2>5, <2>9, NoneClosed
  <2> QED BY <2>3, <2>6, <2>9, <2>10, RoomPartsSuffice DEF RoomParts
<1> QED BY <1>3, <1>4

LEMMA JoinRoomInv ==
  ASSUME Manager!ManagerAssumption, Manager!RoomsInv, NEW c \in Conns, Manager!AddClient(c)
  PROVE Manager!RoomsInv'
<1> DEFINE r == conn[c].room
<1> USE DEF Manager!RoomsInv
<1>1. /\ conn[c].at = "upgrade" /\ conn[c].key \in Manager!Key
      /\ r \in Rooms /\ room[r].key = conn[c].key /\ room[r].key # None
  BY HasRoom DEF Manager!AddClient
<1>2. UNCHANGED <<rooms, closed, closer, left>> BY DEF Manager!AddClient
<1>3. room[r].pending = Manager!Cardinality(Manager!Upgrading(r)) /\ c \notin room[r].clients
  BY <1>1 DEF Manager!PlacesCounted
<1>4. \E l \in {"gone", "open"}, b \in BOOLEAN, C \in {room[r].clients, room[r].clients \cup {c}} :
         /\ Manager!Go(c, l) /\ (l = "open" <=> c \in C) /\ (l = "open" => ~room[r].closed)
         /\ room' = [room EXCEPT ![r] = [room[r] EXCEPT !.pending = @ - 1, !.clients = C, !.busy = b]]
  <2>1. CASE room[r].closed
    <3>1. Manager!Go(c, "gone") /\ room' = [room EXCEPT ![r] = [room[r] EXCEPT !.pending = @ - 1]]
      BY <2>1 DEF Manager!AddClient
    <3>2. [room[r] EXCEPT !.pending = @ - 1]
             = [room[r] EXCEPT !.pending = @ - 1, !.clients = room[r].clients, !.busy = room[r].busy]
      BY <1>1 DEF Manager!TypeOK, Manager!RoomState
    <3>3. room[r].busy \in BOOLEAN BY <1>1 DEF Manager!TypeOK, Manager!RoomState
    <3> QED BY <1>3, <3>1, <3>2, <3>3
  <2>2. CASE ~room[r].closed
    <3>1. /\ Manager!Go(c, "open")
          /\ room' = [room EXCEPT ![r] = [room[r] EXCEPT !.pending = @ - 1, !.clients = @ \cup {c},
                                                         !.busy = TRUE]]
      BY <2>2 DEF Manager!AddClient
    <3> QED BY <2>2, <3>1
  <2> QED BY <2>1, <2>2
<1>5. PICK l \in {"gone", "open"}, b \in BOOLEAN, C \in {room[r].clients, room[r].clients \cup {c}} :
         /\ Manager!Go(c, l) /\ (l = "open" <=> c \in C) /\ (l = "open" => ~room[r].closed)
         /\ room' = [room EXCEPT ![r] = [room[r] EXCEPT !.pending = @ - 1, !.clients = C, !.busy = b]]
  BY <1>4
<1>6. /\ conn'[c].at = l /\ conn'[c].key = conn[c].key /\ conn'[c].room = r
      /\ \A d \in Conns : d # c => conn'[d] = conn[d]
  BY <1>5, OneMoves
<1>7. /\ Manager!Cardinality(Manager!Upgrading(r)') = Manager!Cardinality(Manager!Upgrading(r)) - 1
      /\ Manager!Cardinality(Manager!Upgrading(r)) - 1 \in Nat
  BY <1>1, <1>6, PlaceGiven
<1>8. C \subseteq Conns BY <1>1, <1>5 DEF Manager!TypeOK, Manager!RoomState
<1>9. /\ [room[r] EXCEPT !.pending = @ - 1, !.clients = C, !.busy = b] \in Manager!RoomState
      /\ room'[r] = [room[r] EXCEPT !.pending = @ - 1, !.clients = C, !.busy = b]
  <2>1. room[r] \in Manager!RoomState /\ room[r].pending - 1 \in Nat /\ b \in BOOLEAN
    BY <1>1, <1>3, <1>5, <1>7 DEF Manager!TypeOK
  <2>2. [room[r] EXCEPT !.pending = @ - 1, !.clients = C, !.busy = b] \in Manager!RoomState
    BY <1>8, <2>1 DEF Manager!RoomState
  <2> QED BY <1>1, <1>5, <2>2 DEF Manager!TypeOK
<1>10. Manager!TypeOK'
  <2>1. conn' \in [Conns -> [at : Manager!At, key : Manager!Key \cup {None}, room : Rooms \cup {None}]]
    BY <1>5 DEF Manager!Go, Manager!TypeOK, Manager!At
  <2> QED BY <1>2, <1>5, <1>9, <2>1 DEF Manager!TypeOK
<1>11. /\ room'[r].pending = Manager!Cardinality(Manager!Upgrading(r)') /\ room'[r].key = room[r].key
       /\ room'[r].clients = C /\ room'[r].end = room[r].end /\ room'[r].closed = room[r].closed
       /\ \A s \in Rooms : s # r => room'[s] = room[s]
  BY <1>1, <1>3, <1>5, <1>7, <1>9 DEF Manager!TypeOK, Manager!RoomState
<1>12. room[r].closed => C = room[r].clients BY <1>5
<1>13. Manager!OpenRoomIsFound' /\ Manager!KeysFit' /\ Manager!CloseProgress'
  BY <1>1, <1>2, <1>11, <1>12, OneRoomFits
<1>14. Manager!PlacesCounted' BY SMTT(20), <1>1, <1>5, <1>6, <1>8, <1>11, OneRequestPlaces
<1>15. Manager!ClientKeepsRoom' BY <1>1, <1>2, <1>5, <1>6, <1>11, <1>14, NoneClosed
<1> QED BY <1>10, <1>13, <1>14, <1>15, RoomPartsSuffice DEF RoomParts

LEMMA ReleasePlaceInv ==
  ASSUME Manager!ManagerAssumption, Manager!RoomsInv, NEW c \in Conns, Manager!Release(c)
  PROVE Manager!RoomsInv'
<1> DEFINE r == conn[c].room
<1> USE DEF Manager!RoomsInv
<1>1. /\ conn[c].at = "upgrade" /\ conn[c].key \in Manager!Key
      /\ r \in Rooms /\ room[r].key = conn[c].key /\ room[r].key # None
  BY HasRoom DEF Manager!Release
<1>2. /\ UNCHANGED <<rooms, closed, closer, left>> /\ Manager!Go(c, "releasing")
      /\ room' = [room EXCEPT ![r] = [room[r] EXCEPT !.pending = @ - 1]]
  BY DEF Manager!Release
<1>3. room[r].pending = Manager!Cardinality(Manager!Upgrading(r)) /\ c \notin room[r].clients
  BY <1>1 DEF Manager!PlacesCounted
<1>4. /\ conn'[c].at = "releasing" /\ conn'[c].key = conn[c].key /\ conn'[c].room = r
      /\ \A d \in Conns : d # c => conn'[d] = conn[d]
  BY <1>2, OneMoves
<1>5. /\ Manager!Cardinality(Manager!Upgrading(r)') = Manager!Cardinality(Manager!Upgrading(r)) - 1
      /\ Manager!Cardinality(Manager!Upgrading(r)) - 1 \in Nat
  BY <1>1, <1>4, PlaceGiven
<1>6. /\ [room[r] EXCEPT !.pending = @ - 1] \in Manager!RoomState
      /\ room'[r] = [room[r] EXCEPT !.pending = @ - 1]
  <2>1. room[r] \in Manager!RoomState /\ room[r].pending - 1 \in Nat
    BY <1>1, <1>3, <1>5 DEF Manager!TypeOK
  <2>2. [room[r] EXCEPT !.pending = @ - 1] \in Manager!RoomState BY <2>1 DEF Manager!RoomState
  <2> QED BY <1>1, <1>2, <2>2 DEF Manager!TypeOK
<1>7. Manager!TypeOK'
  <2>1. conn' \in [Conns -> [at : Manager!At, key : Manager!Key \cup {None}, room : Rooms \cup {None}]]
    BY <1>2 DEF Manager!Go, Manager!TypeOK, Manager!At
  <2> QED BY <1>2, <1>6, <2>1 DEF Manager!TypeOK
<1>8. /\ room'[r].pending = Manager!Cardinality(Manager!Upgrading(r)') /\ room'[r].key = room[r].key
      /\ room'[r].clients = room[r].clients /\ room'[r].end = room[r].end
      /\ room'[r].closed = room[r].closed /\ room[r].clients \subseteq Conns
      /\ \A s \in Rooms : s # r => room'[s] = room[s]
  BY <1>1, <1>2, <1>3, <1>5, <1>6 DEF Manager!TypeOK, Manager!RoomState
<1>9. Manager!OpenRoomIsFound' /\ Manager!KeysFit' /\ Manager!CloseProgress'
  BY <1>1, <1>2, <1>8, OneRoomFits
<1>10. Manager!PlacesCounted' BY <1>1, <1>3, <1>4, <1>8, OneRequestPlaces
<1>11. Manager!ClientKeepsRoom' BY <1>1, <1>2, <1>4, <1>8, <1>10, NoneClosed
<1> QED BY <1>7, <1>9, <1>10, <1>11, RoomPartsSuffice DEF RoomParts

LEMMA LeaveRoomInv ==
  ASSUME Manager!ManagerAssumption, Manager!RoomsInv, NEW c \in Conns, Manager!RemoveClient(c)
  PROVE Manager!RoomsInv'
<1> DEFINE r == conn[c].room
<1> USE DEF Manager!RoomsInv
<1>1. /\ conn[c].at = "open" /\ conn[c].key \in Manager!Key
      /\ r \in Rooms /\ room[r].key = conn[c].key /\ room[r].key # None
  BY HasRoom DEF Manager!RemoveClient
<1>2. /\ UNCHANGED <<rooms, closed, closer, left>> /\ Manager!Go(c, "gone")
      /\ room' = [room EXCEPT ![r] = [room[r] EXCEPT !.clients = @ \ {c}]]
  BY DEF Manager!RemoveClient
<1>3. /\ conn'[c].at = "gone" /\ conn'[c].key = conn[c].key /\ conn'[c].room = r
      /\ \A d \in Conns : d # c => conn'[d] = conn[d]
  BY <1>2, OneMoves
<1>4. /\ [room[r] EXCEPT !.clients = @ \ {c}] \in Manager!RoomState
      /\ room'[r] = [room[r] EXCEPT !.clients = @ \ {c}]
  BY ZenonT(60), <1>1, <1>2 DEF Manager!TypeOK, Manager!RoomState
<1>5. Manager!TypeOK'
  <2>1. conn' \in [Conns -> [at : Manager!At, key : Manager!Key \cup {None}, room : Rooms \cup {None}]]
    BY <1>2 DEF Manager!Go, Manager!TypeOK, Manager!At
  <2> QED BY <1>2, <1>4, <2>1 DEF Manager!TypeOK
<1>6. /\ room'[r].pending = room[r].pending /\ room'[r].key = room[r].key
      /\ room'[r].clients = room[r].clients \ {c} /\ room'[r].end = room[r].end
      /\ room'[r].closed = room[r].closed /\ room[r].clients \subseteq Conns
      /\ \A s \in Rooms : s # r => room'[s] = room[s]
  BY <1>1, <1>2, <1>4 DEF Manager!TypeOK, Manager!RoomState
<1>7. room'[r].pending = Manager!Cardinality(Manager!Upgrading(r)')
  <2>1. Manager!Upgrading(r)' = Manager!Upgrading(r) BY <1>1, <1>3 DEF Manager!Upgrading
  <2> QED BY <1>1, <1>6, <2>1 DEF Manager!PlacesCounted
<1>8. Manager!OpenRoomIsFound' /\ Manager!KeysFit' /\ Manager!CloseProgress'
  BY <1>1, <1>2, <1>6, OneRoomFits
<1>9. Manager!PlacesCounted' BY <1>1, <1>3, <1>6, <1>7, OneRequestPlaces
<1>10. Manager!ClientKeepsRoom' BY <1>1, <1>2, <1>3, <1>6, <1>9, NoneClosed
<1> QED BY <1>5, <1>8, <1>9, <1>10, RoomPartsSuffice DEF RoomParts

-----------------------------------------------------------------------------
(* A room that is idle closes itself.                                      *)

\* A room that closes itself has promised nobody a place.
LEMMA RemoveIfIdleEffect ==
  ASSUME Manager!ManagerAssumption, Manager!RoomsInv, NEW r \in Rooms, NEW b \in BOOLEAN,
         room' = [room EXCEPT ![r] = Manager!RemoveIfIdle(r, [room[r] EXCEPT !.busy = b])]
  PROVE  /\ room'[r] \in Manager!RoomState /\ room' \in [Rooms -> Manager!RoomState]
         /\ room'[r].key = room[r].key /\ room'[r].pending = room[r].pending
         /\ room'[r].clients = room[r].clients
         /\ \A s \in Rooms : s # r => room'[s] = room[s]
         /\ \/ room'[r].closed = room[r].closed /\ room'[r].end = room[r].end
            \/ /\ ~room[r].closed /\ room'[r].closed = TRUE /\ room'[r].end = "callback"
               /\ room'[r].clients = {} /\ Manager!Upgrading(r) = {}
<1> DEFINE state == [room[r] EXCEPT !.busy = b]
<1>1. /\ state \in Manager!RoomState /\ state.key = room[r].key /\ state.pending = room[r].pending
      /\ state.clients = room[r].clients /\ state.closed = room[r].closed /\ state.end = room[r].end
  BY DEF Manager!RoomsInv, Manager!TypeOK, Manager!RoomState
<1>2. room' = [room EXCEPT ![r] = Manager!RemoveIfIdle(r, state)]
  OBVIOUS
<1> HIDE DEF state
<1>3. CASE ~state.closed /\ state.clients = {} /\ state.pending = 0 /\ ~state.busy
  <2>1. Manager!RemoveIfIdle(r, state) = [state EXCEPT !.closed = TRUE, !.end = "callback"]
    BY <1>3 DEF Manager!RemoveIfIdle
  <2>2. Manager!RemoveIfIdle(r, state) \in Manager!RoomState BY <1>1, <2>1 DEF Manager!RoomState
  <2>3. room'[r] = [state EXCEPT !.closed = TRUE, !.end = "callback"] /\ room' \in [Rooms -> Manager!RoomState]
    BY <1>2, <2>1, <2>2 DEF Manager!RoomsInv, Manager!TypeOK
  <2>4. \A s \in Rooms : s # r => room'[s] = room[s] BY <1>2 DEF Manager!RoomsInv, Manager!TypeOK
  <2>5. Manager!Upgrading(r) = {} BY <1>1, <1>3, NoPlace DEF Manager!RoomsInv
  <2> QED BY <1>1, <1>3, <2>2, <2>3, <2>4, <2>5 DEF Manager!RoomState
<1>4. CASE ~(~state.closed /\ state.clients = {} /\ state.pending = 0 /\ ~state.busy)
  <2>1. Manager!RemoveIfIdle(r, state) = state BY <1>4 DEF Manager!RemoveIfIdle
  <2>2. room'[r] = state /\ room' \in [Rooms -> Manager!RoomState]
    BY <1>1, <1>2, <2>1 DEF Manager!RoomsInv, Manager!TypeOK
  <2>3. \A s \in Rooms : s # r => room'[s] = room[s] BY <1>2 DEF Manager!RoomsInv, Manager!TypeOK
  <2> QED BY <1>1, <2>2, <2>3
<1> QED BY <1>3, <1>4

\* Requests that no longer have a place, and places nobody takes or gives up.
LEMMA PlacesStay ==
  ASSUME Manager!RoomsInv,
         \A r \in Rooms : /\ room'[r].key = room[r].key /\ room'[r].pending = room[r].pending
                          /\ room'[r].clients = room[r].clients,
         \A c \in Conns : \/ conn'[c] = conn[c]
                          \/ conn[c].at = "releasing" /\ conn'[c].at = "gone" /\ conn'[c].key = conn[c].key
  PROVE  Manager!PlacesCounted'
<1> USE DEF Manager!RoomsInv
<1>1. ASSUME NEW r \in Rooms PROVE room'[r].pending = Manager!Cardinality(Manager!Upgrading(r)')
  <2>1. Manager!Upgrading(r)' = Manager!Upgrading(r) BY DEF Manager!Upgrading
  <2> QED BY <2>1 DEF Manager!PlacesCounted
<1>2. ASSUME NEW r \in Rooms, NEW c \in room'[r].clients
      PROVE  conn'[c].at = "open" /\ conn'[c].room = r
  <2>1. c \in room[r].clients /\ c \in Conns BY DEF Manager!TypeOK, Manager!RoomState
  <2>2. conn[c].at = "open" /\ conn[c].room = r BY <2>1 DEF Manager!PlacesCounted
  <2> QED BY <2>1, <2>2
<1>3. ASSUME NEW c \in Conns
      PROVE  /\ conn'[c].at = "open" => c \in room'[conn'[c].room].clients
             /\ conn'[c].at # "new" => conn'[c].key \in Manager!Key
             /\ conn'[c].at \in {"reserve", "upgrade", "releasing", "open"} =>
                   conn'[c].room \in Rooms /\ room'[conn'[c].room].key = conn'[c].key
  BY DEF Manager!PlacesCounted
<1> QED BY <1>1, <1>2, <1>3 DEF Manager!PlacesCounted

LEMMA IdleInv ==
  ASSUME Manager!ManagerAssumption, Manager!RoomsInv, Manager!TypeOK', NEW r \in Rooms,
         room[r].key # None,
         UNCHANGED <<rooms, closed, closer, left>>,
         room'[r].key = room[r].key, room'[r].pending = room[r].pending,
         room'[r].clients = room[r].clients,
         \A s \in Rooms : s # r => room'[s] = room[s],
         \/ room'[r].closed = room[r].closed /\ room'[r].end = room[r].end
         \/ /\ ~room[r].closed /\ room'[r].closed = TRUE /\ room'[r].end = "callback"
            /\ room'[r].clients = {} /\ Manager!Upgrading(r) = {},
         \A c \in Conns : \/ conn'[c] = conn[c]
                          \/ conn[c].at = "releasing" /\ conn'[c].at = "gone" /\ conn'[c].key = conn[c].key
  PROVE  Manager!RoomsInv'
<1>1. Manager!OpenRoomIsFound' /\ Manager!KeysFit' /\ Manager!CloseProgress' BY OneRoomFits
<1>2. Manager!PlacesCounted' BY PlacesStay
<1>3. Manager!ClientKeepsRoom'
  <2>1. ASSUME NEW c \in Conns, conn'[c].at \in {"upgrade", "open"}, room'[conn'[c].room].closed
        PROVE  closed'
    <3>1. conn'[c] = conn[c] /\ conn[c].room \in Rooms BY <2>1, HasRoom
    <3>2. room[conn[c].room].closed
      <4> SUFFICES ASSUME ~room[conn[c].room].closed PROVE FALSE OBVIOUS
      <4>1. conn[c].room = r /\ Manager!Upgrading(r) = {} /\ room[r].clients = {} BY <2>1, <3>1
      <4>2. conn[c].at # "upgrade" BY <4>1 DEF Manager!Upgrading
      <4>3. conn[c].at # "open" BY <4>1 DEF Manager!RoomsInv, Manager!PlacesCounted
      <4> QED BY <2>1, <3>1, <4>2, <4>3
    <3> QED BY <2>1, <3>1, <3>2 DEF Manager!RoomsInv, Manager!RoomsByKey, Manager!ClientKeepsRoom
  <2> QED BY <1>2, <2>1, KeepsRoom
<1> QED BY <1>1, <1>2, <1>3, RoomPartsSuffice DEF RoomParts

LEMMA ReleaseCheckInv ==
  ASSUME Manager!ManagerAssumption, Manager!RoomsInv, NEW c \in Conns, Manager!ReleaseCheck(c)
  PROVE Manager!RoomsInv'
<1> DEFINE r == conn[c].room
<1> USE DEF Manager!RoomsInv
<1>1. conn[c].at = "releasing" /\ r \in Rooms /\ room[r].key # None
  BY HasRoom DEF Manager!ReleaseCheck
<1>2. /\ UNCHANGED <<rooms, closed, closer, left>> /\ Manager!Go(c, "gone")
      /\ room' = [room EXCEPT ![r] = Manager!RemoveIfIdle(r, room[r])]
  BY DEF Manager!ReleaseCheck
<1>3. room[r].busy \in BOOLEAN /\ [room[r] EXCEPT !.busy = room[r].busy] = room[r]
  BY <1>1 DEF Manager!TypeOK, Manager!RoomState
<1>4. room' = [room EXCEPT ![r] = Manager!RemoveIfIdle(r, [room[r] EXCEPT !.busy = room[r].busy])]
  BY <1>2, <1>3
<1>5. /\ conn'[c].at = "gone" /\ conn'[c].key = conn[c].key
      /\ \A d \in Conns : d # c => conn'[d] = conn[d]
  BY <1>2, OneMoves
<1>6. Manager!TypeOK'
  <2>1. conn' \in [Conns -> [at : Manager!At, key : Manager!Key \cup {None}, room : Rooms \cup {None}]]
    BY <1>2 DEF Manager!Go, Manager!TypeOK, Manager!At
  <2>2. room' \in [Rooms -> Manager!RoomState] BY <1>1, <1>3, <1>4, RemoveIfIdleEffect
  <2> QED BY <1>2, <2>1, <2>2 DEF Manager!TypeOK
<1> HIDE DEF Manager!RoomsInv
<1>7. /\ room'[r].key = room[r].key /\ room'[r].pending = room[r].pending
      /\ room'[r].clients = room[r].clients
      /\ \A s \in Rooms : s # r => room'[s] = room[s]
      /\ \/ room'[r].closed = room[r].closed /\ room'[r].end = room[r].end
         \/ /\ ~room[r].closed /\ room'[r].closed = TRUE /\ room'[r].end = "callback"
            /\ room'[r].clients = {} /\ Manager!Upgrading(r) = {}
  BY <1>1, <1>3, <1>4, RemoveIfIdleEffect
<1> QED BY <1>1, <1>2, <1>5, <1>6, <1>7, IdleInv

LEMMA EndTaskInv ==
  ASSUME Manager!ManagerAssumption, Manager!RoomsInv, NEW r \in Rooms, Manager!EndTask(r)
  PROVE Manager!RoomsInv'
<1>1. /\ UNCHANGED <<rooms, conn, closed, closer, left>>
      /\ room' = [room EXCEPT ![r] = Manager!RemoveIfIdle(r, [room[r] EXCEPT !.busy = FALSE])]
      /\ room[r].busy /\ room[r].key # None
  BY DEF Manager!EndTask, Manager!RoomsInv, Manager!KeysFit
<1>2. /\ room' \in [Rooms -> Manager!RoomState]
      /\ room'[r].key = room[r].key /\ room'[r].pending = room[r].pending
      /\ room'[r].clients = room[r].clients
      /\ \A s \in Rooms : s # r => room'[s] = room[s]
      /\ \/ room'[r].closed = room[r].closed /\ room'[r].end = room[r].end
         \/ /\ ~room[r].closed /\ room'[r].closed = TRUE /\ room'[r].end = "callback"
            /\ room'[r].clients = {} /\ Manager!Upgrading(r) = {}
  BY <1>1, RemoveIfIdleEffect
<1>3. Manager!TypeOK' BY <1>1, <1>2 DEF Manager!RoomsInv, Manager!TypeOK
<1> QED BY <1>1, <1>2, <1>3, IdleInv

-----------------------------------------------------------------------------
(* A room that has ended leaves the map, and Close.                        *)

LEMMA OnCloseInv ==
  ASSUME Manager!ManagerAssumption, Manager!RoomsInv, NEW r \in Rooms, Manager!OnClose(r)
  PROVE Manager!RoomsInv'
<1> DEFINE k == room[r].key
<1> USE DEF Manager!RoomsInv, Manager!RoomsByKey
<1>1. /\ room[r].end \in {"callback", "upstream"} /\ room[r].closed = TRUE /\ room[r].clients = {}
      /\ k \in Manager!Key /\ k # None /\ \A s \in Rooms : s # None
      /\ UNCHANGED <<conn, closed, closer, left>>
  <2>1. room[r].end \in {"callback", "upstream"} /\ UNCHANGED <<conn, closed, closer, left>>
    BY DEF Manager!OnClose
  <2>2. room[r].closed /\ room[r].clients = {} /\ k # None BY <2>1 DEF Manager!KeysFit
  <2>3. room[r] \in Manager!RoomState BY DEF Manager!TypeOK
  <2> QED BY <2>1, <2>2, <2>3 DEF Manager!ManagerAssumption, Manager!RoomState
<1>2. /\ rooms' = [rooms EXCEPT ![k] = IF rooms[k] = r THEN None ELSE rooms[k]]
      /\ room' = [room EXCEPT ![r] = [room[r] EXCEPT !.end = "done"]]
  BY DEF Manager!OnClose
<1>3. /\ [room[r] EXCEPT !.end = "done"] \in Manager!RoomState
      /\ room'[r] = [room[r] EXCEPT !.end = "done"]
  BY <1>2 DEF Manager!TypeOK, Manager!RoomState
<1>4. /\ room'[r].key = k /\ room'[r].closed = TRUE /\ room'[r].clients = {} /\ room'[r].end = "done"
      /\ room'[r].pending = room[r].pending
      /\ \A s \in Rooms : s # r => room'[s] = room[s]
  BY <1>1, <1>2, <1>3 DEF Manager!TypeOK, Manager!RoomState
<1>5. /\ rooms'[k] = IF rooms[k] = r THEN None ELSE rooms[k]
      /\ \A j \in Manager!Key : j # k => rooms'[j] = rooms[j]
  BY <1>1, <1>2 DEF Manager!TypeOK
<1>6. Manager!TypeOK'
  <2>1. rooms' \in [Manager!Key -> Rooms \cup {None}] BY <1>1, <1>2 DEF Manager!TypeOK
  <2> QED BY <1>1, <1>2, <1>3, <2>1 DEF Manager!TypeOK
<1>7. \A j \in Manager!Key : \A s \in Rooms : s # r => (rooms'[j] = s <=> rooms[j] = s)
  BY <1>1, <1>5
<1>8. \A j \in Manager!Key : rooms'[j] # r
  <2> SUFFICES ASSUME NEW j \in Manager!Key, rooms'[j] = r PROVE FALSE OBVIOUS
  <2>1. j # k BY <1>1, <1>5
  <2>2. rooms[j] = r BY <1>5, <2>1
  <2> QED BY <1>1, <2>1, <2>2 DEF Manager!KeysFit
<1>9. Manager!OpenRoomIsFound'
  <2> SUFFICES ASSUME NEW s \in Rooms, room'[s].key # None
               PROVE  /\ ~room'[s].closed => rooms'[room'[s].key] = s
                      /\ rooms'[room'[s].key] = s => room'[s].end # "done"
    BY DEF Manager!OpenRoomIsFound
  <2>1. CASE s = r BY <1>1, <1>4, <1>8, <2>1
  <2>2. CASE s # r
    <3>1. room'[s] = room[s] /\ room[s].key \in Manager!Key
      BY <1>4, <2>2 DEF Manager!TypeOK, Manager!RoomState
    <3> QED BY <1>7, <2>2, <3>1 DEF Manager!OpenRoomIsFound
  <2> QED BY <2>1, <2>2
<1>10. Manager!KeysFit'
  <2>1. ASSUME NEW j \in Manager!Key, rooms'[j] # None PROVE room'[rooms'[j]].key = j
    <3>1. rooms'[j] \in Rooms /\ rooms'[j] # r BY <1>6, <1>8, <2>1 DEF Manager!TypeOK
    <3>2. rooms[j] = rooms'[j] BY <1>7, <3>1
    <3>3. room[rooms[j]].key = j BY <2>1, <3>2 DEF Manager!KeysFit
    <3> QED BY <1>4, <3>1, <3>2, <3>3
  <2>2. ASSUME NEW s \in Rooms
        PROVE  /\ room'[s].key = None => /\ room'[s].closed /\ room'[s].end = "none"
                                         /\ room'[s].clients = {} /\ ~room'[s].busy
               /\ room'[s].end # "none" => room'[s].closed
               /\ room'[s].end \in {"upstream", "callback", "done"} => room'[s].clients = {}
    <3>1. CASE s = r BY <1>1, <1>4, <3>1
    <3>2. CASE s # r BY <1>4, <3>2 DEF Manager!KeysFit
    <3> QED BY <3>1, <3>2
  <2> QED BY <2>1, <2>2 DEF Manager!KeysFit
<1>11. Manager!PlacesCounted'
  <2>1. \A s \in Rooms : /\ room'[s].key = room[s].key /\ room'[s].pending = room[s].pending
                         /\ room'[s].clients = room[s].clients
    BY <1>1, <1>4
  <2>2. \A c \in Conns : conn'[c] = conn[c] BY <1>1
  <2> HIDE DEF Manager!RoomsInv
  <2> QED BY <2>1, <2>2, PlacesStay
<1>12. Manager!ClientKeepsRoom'
  <2>1. \A s \in Rooms : room'[s].closed = room[s].closed BY <1>1, <1>4
  <2>2. ASSUME NEW c \in Conns, conn'[c].at \in {"upgrade", "open"}, room'[conn'[c].room].closed
        PROVE  closed'
    <3>1. conn'[c] = conn[c] /\ conn[c].room \in Rooms BY <1>1, <2>2, HasRoom
    <3> QED BY <1>1, <2>1, <2>2, <3>1 DEF Manager!ClientKeepsRoom
  <2> QED BY <1>11, <2>2, KeepsRoom
<1>13. Manager!CloseProgress'
  <2>1. ASSUME NEW s \in Rooms
        PROVE  /\ room'[s].end = "clients" => closer' = "rooms" /\ s \in left'
               /\ room'[s].closed /\ room'[s].end = "none" => room'[s].key = None
               /\ closer' \in {"rooms", "done"} /\ ~room'[s].closed => s \in left'
    <3>1. CASE s = r BY <1>4, <3>1
    <3>2. CASE s # r BY <1>1, <1>4, <3>2 DEF Manager!CloseProgress
    <3> QED BY <3>1, <3>2
  <2> QED BY <1>1, <2>1 DEF Manager!CloseProgress
<1> QED BY <1>6, <1>9, <1>10, <1>11, <1>12, <1>13, RoomPartsSuffice DEF RoomParts

\* Close itself changes no room and no request in most of its steps.
LEMMA CloserMoves ==
  ASSUME Manager!ManagerAssumption, Manager!RoomsInv, UNCHANGED <<rooms, room, conn>>,
         closed => closed', Manager!TypeOK', Manager!CloseProgress'
  PROVE  Manager!RoomsInv'
<1>1. Manager!OpenRoomIsFound' BY DEF Manager!RoomsInv, Manager!RoomsByKey, Manager!OpenRoomIsFound
<1>2. Manager!ClientKeepsRoom' BY DEF Manager!RoomsInv, Manager!RoomsByKey, Manager!ClientKeepsRoom
<1>3. Manager!KeysFit' BY DEF Manager!RoomsInv, Manager!KeysFit
<1>4. Manager!PlacesCounted'
  <2>1. /\ \A r \in Rooms : /\ room'[r].key = room[r].key /\ room'[r].pending = room[r].pending
                            /\ room'[r].clients = room[r].clients
        /\ \A c \in Conns : conn'[c] = conn[c]
    OBVIOUS
  <2> QED BY <2>1, PlacesStay
<1> QED BY <1>1, <1>2, <1>3, <1>4, RoomPartsSuffice DEF RoomParts

LEMMA CloseManagerInv ==
  ASSUME Manager!ManagerAssumption, Manager!RoomsInv, Manager!Close PROVE Manager!RoomsInv'
<1>1. Manager!TypeOK' BY DEF Manager!RoomsInv, Manager!TypeOK, Manager!Close
<1>2. Manager!CloseProgress' BY DEF Manager!RoomsInv, Manager!CloseProgress, Manager!Close
<1> QED BY <1>1, <1>2, CloserMoves DEF Manager!Close

LEMMA SnapshotInv ==
  ASSUME Manager!ManagerAssumption, Manager!RoomsInv, Manager!Snapshot PROVE Manager!RoomsInv'
<1>1. Manager!TypeOK' BY DEF Manager!RoomsInv, Manager!TypeOK, Manager!Snapshot
<1>2. Manager!CloseProgress'
  <2>1. ASSUME NEW r \in Rooms, ~room[r].closed PROVE r \in left'
    <3>1. room[r].key \in Manager!Key /\ room[r].key # None
      BY <2>1 DEF Manager!RoomsInv, Manager!TypeOK, Manager!RoomState, Manager!KeysFit
    <3>2. rooms[room[r].key] = r
      BY <2>1, <3>1 DEF Manager!RoomsInv, Manager!RoomsByKey, Manager!OpenRoomIsFound
    <3>3. r # None BY DEF Manager!ManagerAssumption
    <3> QED BY <3>1, <3>2, <3>3 DEF Manager!Snapshot
  <2>2. /\ closer = "snapshot" /\ closer' = "rooms" /\ closed' = closed /\ room' = room
        /\ closed /\ \A r \in Rooms : room[r].end # "clients"
    BY DEF Manager!Snapshot, Manager!RoomsInv, Manager!CloseProgress
  <2> QED BY <2>1, <2>2 DEF Manager!RoomsInv, Manager!CloseProgress
<1> QED BY <1>1, <1>2, CloserMoves DEF Manager!Snapshot

LEMMA RoomClosedInv ==
  ASSUME Manager!ManagerAssumption, Manager!RoomsInv, NEW r \in Rooms, Manager!RoomClosed(r)
  PROVE Manager!RoomsInv'
<1>1. Manager!TypeOK' BY DEF Manager!RoomsInv, Manager!TypeOK, Manager!RoomClosed
<1>2. Manager!CloseProgress'
  BY DEF Manager!RoomsInv, Manager!CloseProgress, Manager!KeysFit, Manager!RoomClosed
<1> QED BY <1>1, <1>2, CloserMoves DEF Manager!RoomClosed

LEMMA CloseReturnsInv ==
  ASSUME Manager!ManagerAssumption, Manager!RoomsInv, Manager!CloseReturns PROVE Manager!RoomsInv'
<1>1. Manager!TypeOK' BY DEF Manager!RoomsInv, Manager!TypeOK, Manager!CloseReturns
<1>2. Manager!CloseProgress' BY DEF Manager!RoomsInv, Manager!CloseProgress, Manager!CloseReturns
<1> QED BY <1>1, <1>2, CloserMoves DEF Manager!CloseReturns

\* Close closes a room that it found, and later its clients.
LEMMA CloseRoomInv ==
  ASSUME Manager!ManagerAssumption, Manager!RoomsInv, NEW r \in Rooms, Manager!CloseRoom(r)
  PROVE Manager!RoomsInv'
<1>1. /\ UNCHANGED <<rooms, conn, closed, closer, left>>
      /\ closer = "rooms" /\ r \in left /\ ~room[r].closed
      /\ room' = [room EXCEPT ![r] = [room[r] EXCEPT !.closed = TRUE, !.end = "clients"]]
  BY DEF Manager!CloseRoom
<1>2. closed = TRUE /\ room[r].key # None
  BY <1>1 DEF Manager!RoomsInv, Manager!CloseProgress, Manager!KeysFit, Manager!TypeOK
<1>3. [room[r] EXCEPT !.closed = TRUE, !.end = "clients"] \in Manager!RoomState
  BY ZenonT(60) DEF Manager!RoomsInv, Manager!TypeOK, Manager!RoomState
<1>4. /\ room'[r].closed = TRUE /\ room'[r].end = "clients" /\ room'[r].key = room[r].key
      /\ room'[r].pending = room[r].pending /\ room'[r].clients = room[r].clients
      /\ \A s \in Rooms : s # r => room'[s] = room[s]
  BY <1>1 DEF Manager!RoomsInv, Manager!TypeOK, Manager!RoomState
<1>5. Manager!TypeOK' BY <1>1, <1>3 DEF Manager!RoomsInv, Manager!TypeOK
<1>6. Manager!OpenRoomIsFound' /\ Manager!KeysFit' /\ Manager!CloseProgress'
  BY <1>1, <1>2, <1>4, OneRoomFits
<1>7. Manager!PlacesCounted'
  <2>1. /\ \A s \in Rooms : /\ room'[s].key = room[s].key /\ room'[s].pending = room[s].pending
                            /\ room'[s].clients = room[s].clients
        /\ \A c \in Conns : conn'[c] = conn[c]
    BY <1>1, <1>4
  <2> QED BY <2>1, PlacesStay
<1>8. Manager!ClientKeepsRoom' BY <1>1, <1>2, <1>7, KeepsRoom
<1> QED BY <1>5, <1>6, <1>7, <1>8, RoomPartsSuffice DEF RoomParts

LEMMA CloseAllClientsInv ==
  ASSUME Manager!ManagerAssumption, Manager!RoomsInv, NEW r \in Rooms, Manager!CloseAllClients(r)
  PROVE Manager!RoomsInv'
<1>1. /\ UNCHANGED <<rooms, closed, closer, left>> /\ room[r].end = "clients"
      /\ room' = [room EXCEPT ![r] = [room[r] EXCEPT !.end = "upstream", !.clients = {}]]
      /\ conn' = [c \in Conns |-> IF c \in room[r].clients THEN [conn[c] EXCEPT !.at = "gone"]
                                 ELSE conn[c]]
  BY DEF Manager!CloseAllClients
<1>2. closed = TRUE /\ room[r].key # None
  BY <1>1 DEF Manager!RoomsInv, Manager!CloseProgress, Manager!KeysFit, Manager!TypeOK
<1>3. [room[r] EXCEPT !.end = "upstream", !.clients = {}] \in Manager!RoomState
  BY ZenonT(60) DEF Manager!RoomsInv, Manager!TypeOK, Manager!RoomState
<1>4. /\ room'[r].closed = room[r].closed /\ room'[r].end = "upstream" /\ room'[r].key = room[r].key
      /\ room'[r].pending = room[r].pending /\ room'[r].clients = {}
      /\ \A s \in Rooms : s # r => room'[s] = room[s]
  BY <1>1 DEF Manager!RoomsInv, Manager!TypeOK, Manager!RoomState
<1>5. \A c \in Conns :
         /\ c \in room[r].clients => /\ conn[c].at = "open" /\ conn[c].room = r
                                     /\ conn'[c].at = "gone" /\ conn'[c].key = conn[c].key
         /\ c \notin room[r].clients => conn'[c] = conn[c]
  BY <1>1 DEF Manager!RoomsInv, Manager!PlacesCounted, Manager!TypeOK
<1>6. Manager!TypeOK'
  <2>1. conn' \in [Conns -> [at : Manager!At, key : Manager!Key \cup {None}, room : Rooms \cup {None}]]
    BY <1>1 DEF Manager!RoomsInv, Manager!TypeOK, Manager!At
  <2> QED BY <1>1, <1>3, <2>1 DEF Manager!RoomsInv, Manager!TypeOK
<1>7. Manager!OpenRoomIsFound' /\ Manager!KeysFit' /\ Manager!CloseProgress'
  BY <1>1, <1>4, <1>2, OneRoomFits
<1>8. Manager!PlacesCounted'
  <2>1. ASSUME NEW s \in Rooms PROVE room'[s].pending = Manager!Cardinality(Manager!Upgrading(s)')
    <3>1. Manager!Upgrading(s)' = Manager!Upgrading(s) BY <1>5 DEF Manager!Upgrading
    <3>2. room[s].pending = Manager!Cardinality(Manager!Upgrading(s))
      BY DEF Manager!RoomsInv, Manager!PlacesCounted
    <3> QED BY <1>4, <3>1, <3>2
  <2>2. ASSUME NEW s \in Rooms, NEW c \in room'[s].clients
        PROVE  conn'[c].at = "open" /\ conn'[c].room = s
    <3>1. s # r /\ c \in room[s].clients BY <1>4, <2>2
    <3>2. c \in Conns /\ conn[c].at = "open" /\ conn[c].room = s
      BY <3>1 DEF Manager!RoomsInv, Manager!PlacesCounted, Manager!TypeOK, Manager!RoomState
    <3>3. c \notin room[r].clients BY <1>5, <3>1, <3>2
    <3> QED BY <1>5, <3>2, <3>3
  <2>3. ASSUME NEW c \in Conns
        PROVE  /\ conn'[c].at = "open" => c \in room'[conn'[c].room].clients
               /\ conn'[c].at # "new" => conn'[c].key \in Manager!Key
               /\ conn'[c].at \in {"reserve", "upgrade", "releasing", "open"} =>
                     conn'[c].room \in Rooms /\ room'[conn'[c].room].key = conn'[c].key
    <3>1. CASE c \in room[r].clients
      <4>1. conn'[c].at = "gone" /\ conn'[c].key = conn[c].key /\ conn[c].at = "open"
        BY <1>5, <3>1
      <4> QED BY <4>1 DEF Manager!RoomsInv, Manager!PlacesCounted
    <3>2. CASE c \notin room[r].clients
      <4>1. /\ conn'[c] = conn[c]
            /\ conn[c].at = "open" => conn[c].room \in Rooms /\ c \in room[conn[c].room].clients
            /\ conn[c].at # "new" => conn[c].key \in Manager!Key
            /\ conn[c].at \in {"reserve", "upgrade", "releasing", "open"} =>
                  conn[c].room \in Rooms /\ room[conn[c].room].key = conn[c].key
        BY <1>5, <3>2 DEF Manager!RoomsInv, Manager!PlacesCounted
      <4>2. \A s \in Rooms : room'[s].key = room[s].key BY <1>4
      <4>3. conn[c].at = "open" => c \in room'[conn[c].room].clients BY <1>4, <3>2, <4>1
      <4> QED BY <4>1, <4>2, <4>3
    <3> QED BY <3>1, <3>2
  <2> QED BY <2>1, <2>2, <2>3 DEF Manager!PlacesCounted
<1>9. Manager!ClientKeepsRoom' BY <1>1, <1>2, <1>8, KeepsRoom
<1> QED BY <1>6, <1>7, <1>8, <1>9, RoomPartsSuffice DEF RoomParts

-----------------------------------------------------------------------------
(* The theorems.                                                           *)

LEMMA InitRooms == ASSUME Manager!ManagerAssumption, Manager!Init PROVE Manager!RoomsInv
<1>1. Manager!TypeOK BY DEF Manager!Init, Manager!TypeOK, Manager!RoomState, Manager!At
<1>2. Manager!OpenRoomIsFound /\ Manager!ClientKeepsRoom /\ Manager!NothingOutlivesClose
  BY DEF Manager!Init, Manager!OpenRoomIsFound, Manager!ClientKeepsRoom,
     Manager!NothingOutlivesClose
<1>3. Manager!KeysFit /\ Manager!CloseProgress
  BY DEF Manager!Init, Manager!KeysFit, Manager!CloseProgress
<1>4. Manager!PlacesCounted
  <2>1. \A r \in Rooms : Manager!Upgrading(r) = {} BY DEF Manager!Init, Manager!Upgrading
  <2>3. Manager!Cardinality({}) = 0 BY FS_EmptySet, RoomsCount
  <2>2. \A r \in Rooms : room[r].pending = Manager!Cardinality(Manager!Upgrading(r))
    BY <2>1, <2>3 DEF Manager!Init
  <2> QED BY <2>2 DEF Manager!Init, Manager!PlacesCounted
<1> QED BY <1>1, <1>2, <1>3, <1>4 DEF Manager!RoomsInv, Manager!RoomsByKey

\* The inductive invariant of the rooms by key (room_manager.go): types, the
\* map and the rooms agree on keys, the places and clients of a room are the
\* requests that have one, and Close knows every room that is still open.
THEOREM RoomsInvariant ==
  ASSUME Manager!ManagerAssumption PROVE Manager!Spec => []Manager!RoomsInv
<1>1. Manager!Init => Manager!RoomsInv BY InitRooms
<1>2. Manager!RoomsInv /\ [Manager!Next]_Manager!vars => Manager!RoomsInv'
  <2> SUFFICES ASSUME Manager!RoomsInv, [Manager!Next]_Manager!vars PROVE Manager!RoomsInv' OBVIOUS
  <2>1. CASE UNCHANGED Manager!vars
    <3>1. Manager!CloseProgress' /\ Manager!TypeOK'
      BY <2>1 DEF Manager!vars, Manager!RoomsInv, Manager!CloseProgress, Manager!TypeOK
    <3> QED BY <2>1, <3>1, CloserMoves DEF Manager!vars
  <2>2. ASSUME NEW c \in Conns,
               \/ Manager!Request(c) \/ Manager!GetOrCreateRoom(c) \/ Manager!Refuse(c)
               \/ Manager!ReserveClient(c) \/ Manager!Release(c) \/ Manager!ReleaseCheck(c)
               \/ Manager!AddClient(c) \/ Manager!RemoveClient(c)
        PROVE  Manager!RoomsInv'
    BY <2>2, RequestRoomInv, GetOrCreateRoomInv, RefuseRoomInv, ReserveClientInv, ReleasePlaceInv,
       ReleaseCheckInv, JoinRoomInv, LeaveRoomInv
  <2>3. ASSUME NEW r \in Rooms,
               \/ Manager!EndTask(r) \/ Manager!OnClose(r) \/ Manager!CloseRoom(r)
               \/ Manager!CloseAllClients(r) \/ Manager!RoomClosed(r)
        PROVE  Manager!RoomsInv'
    BY <2>3, EndTaskInv, OnCloseInv, CloseRoomInv, CloseAllClientsInv, RoomClosedInv
  <2>4. CASE Manager!Close \/ Manager!Snapshot \/ Manager!CloseReturns
    BY <2>4, CloseManagerInv, SnapshotInv, CloseReturnsInv
  <2> QED BY <2>1, <2>2, <2>3, <2>4 DEF Manager!Next
<1> QED BY <1>1, <1>2, PTL DEF Manager!Spec

\* However many requests, rooms and cookies there are: an open room is the one
\* under its key, a client or a place promised keeps its room open until the
\* manager closes, and nothing is left when Close returns.
THEOREM RoomsKeptByKey ==
  ASSUME Manager!ManagerAssumption PROVE Manager!Spec => []Manager!RoomsByKey
BY RoomsInvariant, PTL DEF Manager!RoomsInv

-----------------------------------------------------------------------------
(***************************************************************************)
(* The composition.  Each step of it is one of each part, or leaves that   *)
(* part alone.                                                             *)
(***************************************************************************)
LEMMA PartsStep ==
  MCSpec => /\ Spec /\ Bus!Spec /\ Local!Spec /\ Process!Spec /\ Manager!Spec /\ File!Spec
<1> DEFINE allVars == <<part, vars, busVars, signerVars, appVars, managerVars, fileVars>>
<1>1. MCInit => Init /\ Bus!Init /\ Local!Init /\ Process!Init /\ Manager!Init /\ File!Init
  BY DEF MCInit
<1>2. [MCNext]_allVars => [Next]_vars BY DEF MCNext
<1>3. [MCNext]_allVars => [Bus!Next]_Bus!vars BY DEF MCNext, busVars, Bus!vars
<1>4. [MCNext]_allVars => [Local!Next]_Local!vars BY DEF MCNext, signerVars, Local!vars
<1>5. [MCNext]_allVars => [Process!Next]_Process!vars BY DEF MCNext, appVars, Process!vars
<1>6. [MCNext]_allVars => [Manager!Next]_Manager!vars BY DEF MCNext, managerVars, Manager!vars
<1>7. [MCNext]_allVars => [File!Next]_File!vars BY DEF MCNext, fileVars, File!vars
<1> QED BY <1>1, <1>2, <1>3, <1>4, <1>5, <1>6, <1>7, PTL
        DEF MCSpec, Spec, Bus!Spec, Local!Spec, Process!Spec, Manager!Spec, File!Spec

-----------------------------------------------------------------------------
(* What the run checks, for any constants.                                 *)

\* One message reaches the handlers of a listener in order, and none that
\* stays subscribed is left out (live_message.go).
THEOREM MessagesInOrder == MCSpec => []HandlersInOrder
<1>1. Bus!HandlersInOrder => HandlersInOrder BY DEF HandlersInOrder
<1> QED BY <1>1, PartsStep, HandlersAreOrdered, PTL

\* A close leaves no runtime behind, nor one for another profile, and the
\* process does not end before its rooms (websocket_signer.go, runner.go).
THEOREM NothingLostByClose == MCSpec => []CloseLosesNothing
<1>1. Local!SignerInv /\ Process!RoomsCloseFirst => CloseLosesNothing
  BY DEF Local!SignerInv, CloseLosesNothing
<1> QED BY <1>1, PartsStep, SignerInvariant, RoomsClosedBeforeExit, PTL

\* An open room is found under its key, a client keeps its room open unless
\* the manager closes, and none is left after that (room_manager.go).
THEOREM RoomsFoundByKey == MCSpec => []RoomsByKey
<1>1. Manager!Spec => []Manager!RoomsInv BY RoomsAssumption, RoomsInvariant
<1>2. Manager!RoomsInv => RoomsByKey BY DEF Manager!RoomsInv, RoomsByKey
<1> QED BY <1>1, <1>2, PartsStep, PTL

\* A file of cookies is never torn, and no save is undone by an older one
\* (cookie_manager.go).
THEOREM FileKeptWhole == MCSpec => []FileIsWhole
<1>1. File!FileInv => FileIsWhole BY DEF File!FileInv, FileIsWhole
<1> QED BY <1>1, FileInvariant, PartsStep, PTL

\* The downstream client of the composition: its bytes are accounted for, its
\* writes interrupted and its frames in order (room_client.go).
THEOREM ClientKept == MCSpec => [](BytesAccounted /\ InterruptHolds /\ FramesInOrder)
BY PartsStep, BytesAreAccounted, CloseIsPrompt, FramesOrdered, PTL
=============================================================================

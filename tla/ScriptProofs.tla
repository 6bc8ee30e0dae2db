---------------------------- MODULE ScriptProofs ----------------------------
(***************************************************************************)
(* What holds of the parts of the signing script that MCScript puts        *)
(* together, for any of their bounds: the helpers that iterate             *)
(* (Iteration), the drivers of asynchronous generators (AsyncQueue), the   *)
(* behaviour log (Tracker) and the digest (Digest), each with an inductive *)
(* invariant of its own; and generators and bytecode, of which             *)
(* RegeneratorProofs and ScriptVMProofs say what holds.  The theorems at   *)
(* the end are about the composition that the run explores.                *)
(***************************************************************************)
EXTENDS MCScript, FiniteSetTheorems, SequenceTheorems, WellFoundedInduction, TLAPS

-----------------------------------------------------------------------------
(* Iteration.                                                              *)

LEMMA IterationBegins == Iter!Init => Iter!IterationInv
BY BoundsAssumption DEF Iter!Init, Iter!IterationInv, Iter!IteratorClosed, Iter!Closing, Iter!Arrays

LEMMA IterationNext == Iter!IterationInv /\ [Iter!Next]_Iter!vars => Iter!IterationInv'
<1> SUFFICES ASSUME Iter!IterationInv, [Iter!Next]_Iter!vars PROVE Iter!IterationInv' OBVIOUS
<1> USE DEF Iter!IterationInv, Iter!IteratorClosed, Iter!Closing, Iter!Fixed, Iter!Leave, Iter!Arrays
<1>1. CASE Iter!BeginArray
  <2>1. /\ step = "begin" /\ helper \in Iter!Arrays
        /\ UNCHANGED <<helper, iterable, limit, taken, ended, broken, error, closes>>
    BY <1>1 DEF Iter!BeginArray
  <2>2. CASE step' = "done" /\ ~early'
    BY <2>1, <2>2
  <2>3. CASE step' = "finally" /\ early' /\ ~normal'
    BY <2>1, <2>3
  <2>4. CASE step' = "pull" /\ ~early' /\ limit # 0
    BY <2>1, <2>4
  <2>5. \/ step' = "done" /\ ~early'
        \/ step' = "finally" /\ early' /\ ~normal'
        \/ step' = "pull" /\ ~early' /\ limit # 0
    BY <1>1 DEF Iter!BeginArray
  <2> QED BY <2>2, <2>3, <2>4, <2>5
<1>2. CASE Iter!BeginLoop BY <1>2 DEF Iter!BeginLoop
<1>3. CASE Iter!PullArray
  <2>1. /\ step = "pull" /\ helper = "array" /\ closes = 0 /\ ~early /\ ~ended /\ taken < limit
        /\ UNCHANGED <<helper, iterable, limit, closes, result>>
    BY <1>3 DEF Iter!PullArray
  <2>2. CASE step' = "finally" /\ ended' /\ normal' /\ ~early' /\ UNCHANGED <<taken, error>>
    BY <2>1, <2>2
  <2>3. CASE /\ step' = "finally" /\ taken' = taken + 1 /\ early' /\ ~normal'
             /\ ~ended' /\ UNCHANGED error
    BY <2>1, <2>3
  <2>4. CASE /\ step' = "pull" /\ taken' = taken + 1 /\ taken + 1 # limit /\ ~early' /\ ~ended'
             /\ UNCHANGED error
    BY <2>1, <2>4
  <2>5. CASE step' = "finally" /\ error' = "next" /\ ~early' /\ ~ended' /\ UNCHANGED taken
    BY <2>1, <2>5
  <2>6. \/ step' = "finally" /\ ended' /\ normal' /\ ~early' /\ UNCHANGED <<taken, error>>
        \/ /\ step' = "finally" /\ taken' = taken + 1 /\ early' /\ ~normal'
           /\ ~ended' /\ UNCHANGED error
        \/ /\ step' = "pull" /\ taken' = taken + 1 /\ taken + 1 # limit /\ ~early' /\ ~ended'
           /\ UNCHANGED error
        \/ step' = "finally" /\ error' = "next" /\ ~early' /\ ~ended' /\ UNCHANGED taken
    BY <1>3, <2>1 DEF Iter!PullArray
  <2> QED BY <2>2, <2>3, <2>4, <2>5, <2>6
<1>4. CASE Iter!PullLoop
  <2>1. /\ step = "pull" /\ helper \notin Iter!Arrays /\ closes = 0 /\ ~early /\ ~ended
        /\ UNCHANGED <<helper, iterable, limit, early, closes, result>>
    BY <1>4 DEF Iter!PullLoop
  <2>2. CASE step' = "finally" /\ ended' /\ normal' /\ UNCHANGED <<taken, error>>
    BY <2>1, <2>2
  <2>3. CASE /\ step' = "body" /\ taken' = taken + 1 /\ (iterable = "iterable" => ~normal')
             /\ ~ended' /\ UNCHANGED error
    BY <2>1, <2>3
  <2>4. CASE step' = "finally" /\ error' = "next" /\ ~ended' /\ UNCHANGED taken
    BY <2>1, <2>4
  <2>5. \/ step' = "finally" /\ ended' /\ normal' /\ UNCHANGED <<taken, error>>
        \/ /\ step' = "body" /\ taken' = taken + 1 /\ (iterable = "iterable" => ~normal')
           /\ ~ended' /\ UNCHANGED error
        \/ step' = "finally" /\ error' = "next" /\ ~ended' /\ UNCHANGED taken
    BY <1>4, <2>1 DEF Iter!PullLoop
  <2> QED BY <2>2, <2>3, <2>4, <2>5
<1>5. CASE Iter!Body BY <1>5 DEF Iter!Body
<1>6. CASE Iter!Finally BY <1>6 DEF Iter!Finally
<1>7. CASE UNCHANGED Iter!vars BY <1>7 DEF Iter!vars
<1> QED BY <1>1, <1>2, <1>3, <1>4, <1>5, <1>6, <1>7 DEF Iter!Next

\* Whatever the body, next and return do, an iterator that is left early is
\* closed exactly once and one that has ended never, and the first error is
\* the one that is seen (webmssdk.js: iterableToArrayLimit,
\* createForOfIteratorHelper).
THEOREM IteratorsAreClosed == Iter!Spec => []Iter!IteratorClosed
<1>1. Iter!IterationInv => Iter!IteratorClosed BY DEF Iter!IterationInv
<1> QED BY <1>1, IterationBegins, IterationNext, PTL DEF Iter!Spec

-----------------------------------------------------------------------------
(* AsyncQueue.                                                             *)

\* AsyncQueue counts with the Cardinality of its own instance of FiniteSets.
LEMMA SameCount == \A S : Async!Cardinality(S) = Cardinality(S)
BY DEF Async!Cardinality, Cardinality

\* One resumption or callback is under way while a request is open.
LEMMA CountedNext ==
    ASSUME Async!OneUnderWay'
    PROVE  Cardinality(pending') + (IF run' # "none" THEN 1 ELSE 0)
             = IF queue' = <<>> \/ lost' THEN 0 ELSE 1
<1>1. CASE pending' = {}
  <2>1. Cardinality(pending') = 0 BY <1>1, FS_EmptySet
  <2>2. run' # "none" <=> ~(queue' = <<>> \/ lost') BY <1>1 DEF Async!OneUnderWay
  <2> QED BY <2>1, <2>2
<1>2. CASE \E c \in pending' : pending' = {c}
  <2>1. Cardinality(pending') = 1 BY <1>2, FS_Singleton
  <2>2. run' = "none" /\ ~(queue' = <<>> \/ lost') BY <1>2 DEF Async!OneUnderWay
  <2> QED BY <2>1, <2>2
<1> QED BY <1>1, <1>2 DEF Async!OneUnderWay

LEMMA FirstOf ==
    ASSUME NEW S, NEW s \in Seq(S), s # <<>>
    PROVE  s[1] \in S /\ 1 \in DOMAIN s
<1>1. Len(s) \in Nat \ {0} BY EmptySeq
<1> QED BY <1>1, ElementOfSeq, LenProperties

LEMMA AsyncBegins == Async!Init => Async!AsyncInv
<1> SUFFICES ASSUME Async!Init PROVE Async!AsyncInv OBVIOUS
<1> USE DEF Async!Init
<1>1. Async!TypeOK
  <2>1. \A S : <<>> \in Seq(S) OBVIOUS
  <2>2. resumes \in 0..(MaxResumes + 1) BY BoundsAssumption
  <2>3. /\ queue \in Seq([id : 1..MaxRequests, key : Async!Keys])
        /\ settled \in Seq([id : 1..MaxRequests, how : {"throw", "return", "normal"}])
    BY <2>1
  <2>4. \A S : pending \subseteq S OBVIOUS
  <2> QED BY <2>2, <2>3, <2>4 DEF Async!TypeOK
<1>2. Async!OneUnderWay BY DEF Async!OneUnderWay
<1>3. Async!QueueInOrder
  <2>1. Cardinality(pending) = 0 BY FS_EmptySet
  <2>2. DOMAIN settled = {} /\ DOMAIN queue = {} OBVIOUS
  <2>3. Cardinality(pending) + (IF run # "none" THEN 1 ELSE 0)
          = IF queue = <<>> \/ lost THEN 0 ELSE 1
    BY <2>1
  <2>4. waiting <=> \E c \in pending : c.what = "delegate" OBVIOUS
  <2> QED BY <2>2, <2>3, <2>4, SameCount DEF Async!QueueInOrder
<1>4. Async!Resumable BY BoundsAssumption DEF Async!Resumable, Async!Asked
<1> QED BY <1>1, <1>2, <1>3, <1>4 DEF Async!AsyncInv

\* The first request is answered when nothing else is under way.
LEMMA SettleKeeps ==
    ASSUME Async!AsyncInv, queue # <<>>, ~lost, waiting' = FALSE,
           NEW how \in {"throw", "return", "normal"}, Async!Settle(how, {})
    PROVE  Async!AsyncInv'
<1> USE BoundsAssumption
<1> DEFINE rest == Tail(queue)
<1>1. /\ impl' = impl /\ ~lost' /\ lost' \in BOOLEAN /\ queue' = rest /\ resumes' = 0
      /\ settled' = Append(settled, [id |-> queue[1].id, how |-> how])
      /\ run' = IF rest # <<>> /\ impl = "queue" THEN rest[1].key ELSE "none"
      /\ pending' = IF rest # <<>> /\ impl = "chain"
                    THEN {Async!Callback(rest[1].id, "start", rest[1].key, FALSE)} ELSE {}
  BY DEF Async!Settle, Async!AsyncInv, Async!TypeOK
<1>2. /\ queue \in Seq([id : 1..MaxRequests, key : Async!Keys])
      /\ settled \in Seq([id : 1..MaxRequests, how : {"throw", "return", "normal"}])
      /\ impl \in {"queue", "chain", "async"}
      /\ \A i \in DOMAIN settled : settled[i].id = i
      /\ \A i \in DOMAIN queue : queue[i].id = Len(settled) + i
  BY DEF Async!AsyncInv, Async!TypeOK, Async!QueueInOrder
<1>3. /\ rest \in Seq([id : 1..MaxRequests, key : Async!Keys])
      /\ Len(rest) = Len(queue) - 1 /\ Len(queue) \in Nat \ {0} /\ Len(settled) \in Nat
      /\ \A i \in 1..Len(rest) : rest[i] = queue[i + 1]
  BY <1>2, HeadTailProperties, LenProperties, EmptySeq
<1>4. queue[1].id = Len(settled) + 1 /\ queue[1].id \in 1..MaxRequests
  <2>1. 1 \in DOMAIN queue BY <1>2, FirstOf
  <2>2. queue[1] \in [id : 1..MaxRequests, key : Async!Keys] BY <1>2, FirstOf
  <2> QED BY <2>1, <2>2, <1>2, <1>3
<1> HIDE DEF rest
<1>5. /\ settled' \in Seq([id : 1..MaxRequests, how : {"throw", "return", "normal"}])
      /\ Len(settled') = Len(settled) + 1
      /\ \A i \in DOMAIN settled' : settled'[i].id = i
  <2> DEFINE Answer == [id : 1..MaxRequests, how : {"throw", "return", "normal"}]
             new == [id |-> queue[1].id, how |-> how]
  <2>1. new \in Answer /\ new.id = Len(settled) + 1 BY <1>4
  <2>2. settled' = Append(settled, new) /\ settled \in Seq(Answer) BY <1>1, <1>2
  <2> HIDE DEF Answer, new
  <2>3. /\ settled' \in Seq(Answer) /\ Len(settled') = Len(settled) + 1
        /\ \A i \in 1..Len(settled) : settled'[i] = settled[i]
        /\ settled'[Len(settled) + 1] = new
    BY <2>1, <2>2, AppendProperties
  <2>4. DOMAIN settled' = 1..(Len(settled) + 1) /\ DOMAIN settled = 1..Len(settled)
    BY <2>2, <2>3, LenProperties
  <2>5. ASSUME NEW i \in DOMAIN settled' PROVE settled'[i].id = i
    <3>1. CASE i \in 1..Len(settled) BY <3>1, <2>3, <2>4, <1>2
    <3>2. CASE i = Len(settled) + 1 BY <3>2, <2>1, <2>3
    <3> QED BY <3>1, <3>2, <2>4, <1>3
  <2> QED BY <2>3, <2>5 DEF Answer
<1>6. \A i \in DOMAIN queue' : queue'[i].id = Len(settled') + i
  <2>1. DOMAIN rest = 1..Len(rest) BY <1>3, LenProperties
  <2>2. DOMAIN queue = 1..Len(queue) BY <1>2, LenProperties
  <2>3. SUFFICES ASSUME NEW i \in 1..Len(rest) PROVE rest[i].id = Len(settled') + i
    BY <1>1, <2>1
  <2>4. i + 1 \in DOMAIN queue BY <1>3, <2>2
  <2>5. queue[i + 1].id = Len(settled) + (i + 1) BY <2>4, <1>2
  <2> QED BY <2>5, <1>3, <1>5
<1>7. rest # <<>> => /\ rest[1].key \in Async!Keys /\ rest[1].id \in 1..MaxRequests
                     /\ rest[1].key # "none"
  <2>1. rest # <<>> => rest[1] \in [id : 1..MaxRequests, key : Async!Keys]
    BY <1>3, FirstOf
  <2> QED BY <2>1 DEF Async!Keys
<1>8. Async!TypeOK'
  <2>1. resumes' \in 0..(MaxResumes + 1) BY <1>1
  <2>2. run' \in Async!Keys \cup {"none"} BY <1>1, <1>7
  <2>3. pending' \subseteq [id : 1..MaxRequests, what : {"start", "value", "await", "delegate"},
                            key : Async!Keys, done : BOOLEAN]
    <3>1. rest # <<>> => Async!Callback(rest[1].id, "start", rest[1].key, FALSE)
                          \in [id : 1..MaxRequests, what : {"start", "value", "await", "delegate"},
                              key : Async!Keys, done : BOOLEAN]
      BY <1>7 DEF Async!Callback
    <3> QED BY <3>1, <1>1
  <2>4. waiting' \in BOOLEAN OBVIOUS
  <2> QED BY <1>1, <1>2, <1>3, <1>5, <2>1, <2>2, <2>3, <2>4 DEF Async!TypeOK
<1>9. impl = "async" => rest = <<>>
  BY <1>3 DEF Async!AsyncInv, Async!Resumable, Async!Asked
<1>10. Async!OneUnderWay'
  BY <1>1, <1>2, <1>7, <1>9 DEF Async!OneUnderWay, Async!Callback
<1>11. Async!Resumable'
  <2>1. resumes' <= MaxResumes BY <1>1
  <2>2. Len(settled') + Len(queue') = Len(settled) + Len(queue) BY <1>1, <1>3, <1>5
  <2>3. \A c \in pending' : c.what # "delegate" BY <1>1 DEF Async!Callback
  <2>4. Async!Asked' <= MaxRequests /\ (impl' = "async" => Async!Asked' <= 1)
    BY <2>2, <1>1 DEF Async!AsyncInv, Async!Resumable, Async!Asked
  <2> QED BY <2>1, <2>3, <2>4 DEF Async!Resumable
<1>12. Async!QueueInOrder'
  <2>1. \A c \in pending' : c.id = queue'[1].id /\ c.what # "delegate"
    BY <1>1 DEF Async!Callback
  <2>2. Cardinality(pending') + (IF run' # "none" THEN 1 ELSE 0)
          = IF queue' = <<>> \/ lost' THEN 0 ELSE 1
    BY <1>10, CountedNext
  <2>3. waiting' <=> \E c \in pending' : c.what = "delegate" BY <2>1
  <2>4. ~lost' BY <1>1
  <2> QED BY <2>1, <2>2, <2>3, <2>4, <1>5, <1>6, SameCount DEF Async!QueueInOrder
<1> QED BY <1>8, <1>10, <1>11, <1>12 DEF Async!AsyncInv

\* The generator is resumed when nothing else is under way.
LEMMA DueKeeps ==
    ASSUME Async!AsyncInv, queue # <<>>, ~lost, waiting' = FALSE, resumes <= MaxResumes,
           NEW key \in Async!Keys, Async!Due(key, {})
    PROVE  Async!AsyncInv'
<1> USE DEF Async!Due
<1>1. key # "none" BY DEF Async!Keys
<1>2. Async!TypeOK' BY DEF Async!AsyncInv, Async!TypeOK
<1>3. Async!OneUnderWay' BY <1>1 DEF Async!OneUnderWay
<1>4. Async!Resumable' BY DEF Async!AsyncInv, Async!Resumable, Async!Asked
<1>5. Async!QueueInOrder'
  <2>1. Cardinality(pending') + (IF run' # "none" THEN 1 ELSE 0)
          = IF queue' = <<>> \/ lost' THEN 0 ELSE 1
    <3>1. queue' # <<>> /\ run' # "none" /\ pending' = {} BY <1>1
    <3>2. Cardinality(pending') = 0 BY <3>1, FS_EmptySet
    <3> QED BY <3>1, <3>2
  <2>2. waiting' <=> \E c \in pending' : c.what = "delegate" OBVIOUS
  <2>3. /\ \A i \in DOMAIN settled' : settled'[i].id = i
        /\ \A i \in DOMAIN queue' : queue'[i].id = Len(settled') + i
    BY DEF Async!AsyncInv, Async!QueueInOrder
  <2> QED BY <2>1, <2>2, <2>3, SameCount DEF Async!QueueInOrder
<1> QED BY <1>2, <1>3, <1>4, <1>5 DEF Async!AsyncInv

\* The first request waits for a promise.
LEMMA WaitKeeps ==
    ASSUME Async!AsyncInv, run # "none", resumes <= MaxResumes,
           NEW what \in {"value", "await", "delegate"}, NEW done \in BOOLEAN,
           what # "value" => resumes < MaxResumes, what = "delegate" => impl = "queue",
           waiting' = (what = "delegate"),
           pending' = pending \cup {Async!Callback(queue[1].id, what, run, done)},
           run' = "none", resumes' = resumes + 1,
           UNCHANGED <<impl, queue, lost, settled>>
    PROVE  Async!AsyncInv'
<1> USE BoundsAssumption
<1>1. Async!TypeOK /\ queue # <<>> /\ ~lost /\ pending = {}
  BY DEF Async!AsyncInv, Async!OneUnderWay
<1>2. queue[1].id \in 1..MaxRequests
  <2>1. queue[1] \in [id : 1..MaxRequests, key : Async!Keys] BY <1>1, FirstOf DEF Async!TypeOK
  <2> QED BY <2>1
<1>3. pending' = {Async!Callback(queue[1].id, what, run, done)} BY <1>1
<1>4. Async!TypeOK'
  <2>1. Async!Callback(queue[1].id, what, run, done)
            \in [id : 1..MaxRequests, what : {"start", "value", "await", "delegate"},
                key : Async!Keys, done : BOOLEAN]
    BY <1>1, <1>2 DEF Async!Callback, Async!TypeOK
  <2>2. resumes' \in 0..(MaxResumes + 1) BY <1>1 DEF Async!TypeOK
  <2> QED BY <1>1, <1>3, <2>1, <2>2 DEF Async!TypeOK
<1>5. Async!OneUnderWay' BY <1>1, <1>3 DEF Async!OneUnderWay, Async!Callback
<1>6. Async!Resumable'
  <2>1. \A c \in pending' : /\ c.what # "value" => resumes' <= MaxResumes
                            /\ c.what = "delegate" => impl' = "queue"
    BY <1>1, <1>3 DEF Async!Callback, Async!TypeOK
  <2>2. Async!Asked' <= MaxRequests /\ (impl' = "async" => Async!Asked' <= 1)
    BY DEF Async!AsyncInv, Async!Resumable, Async!Asked
  <2>3. run' = "none" OBVIOUS
  <2> QED BY <2>1, <2>2, <2>3 DEF Async!Resumable
<1>7. Async!QueueInOrder'
  <2>1. Cardinality(pending') + (IF run' # "none" THEN 1 ELSE 0)
          = IF queue' = <<>> \/ lost' THEN 0 ELSE 1
    BY <1>5, CountedNext
  <2>2. waiting' <=> \E c \in pending' : c.what = "delegate"
    <3>0. Async!Callback(queue[1].id, what, run, done).what = what BY DEF Async!Callback
    <3>1. pending' # {} /\ \A c \in pending' : c.what = what BY <1>3, <3>0
    <3>2. CASE what = "delegate" BY <3>1, <3>2
    <3>3. CASE what # "delegate" BY <3>1, <3>3
    <3> QED BY <3>2, <3>3
  <2>3. \A c \in pending' : c.id = queue'[1].id BY <1>3 DEF Async!Callback
  <2>4. /\ \A i \in DOMAIN settled' : settled'[i].id = i
        /\ \A i \in DOMAIN queue' : queue'[i].id = Len(settled') + i
    BY DEF Async!AsyncInv, Async!QueueInOrder
  <2>5. ~lost' BY <1>1
  <2> QED BY <2>1, <2>2, <2>3, <2>4, <2>5, SameCount DEF Async!QueueInOrder
<1> QED BY <1>4, <1>5, <1>6, <1>7 DEF Async!AsyncInv

\* The first request is lost: nothing is under way any more.
LEMMA LoseKeeps ==
    ASSUME Async!AsyncInv, queue # <<>>, run = "none",
           NEW c \in pending, c.what = "delegate", Async!Lose({})
    PROVE  Async!AsyncInv'
<1> USE DEF Async!Lose
<1>1. Async!TypeOK' BY DEF Async!AsyncInv, Async!TypeOK
<1>2. Async!OneUnderWay' BY DEF Async!OneUnderWay
<1>3. Async!Resumable' BY DEF Async!AsyncInv, Async!Resumable, Async!Asked
<1>4. Async!QueueInOrder'
  <2>1. Cardinality(pending') + (IF run' # "none" THEN 1 ELSE 0)
          = IF queue' = <<>> \/ lost' THEN 0 ELSE 1
    BY <1>2, CountedNext
  <2>2. lost' /\ impl' = "queue" /\ queue' # <<>> BY DEF Async!AsyncInv, Async!Resumable
  <2>3. /\ \A i \in DOMAIN settled' : settled'[i].id = i
        /\ \A i \in DOMAIN queue' : queue'[i].id = Len(settled') + i
    BY DEF Async!AsyncInv, Async!QueueInOrder
  <2> QED BY <2>1, <2>2, <2>3, SameCount DEF Async!QueueInOrder
<1> QED BY <1>1, <1>2, <1>3, <1>4 DEF Async!AsyncInv

\* A request is made: the first one is under way at once.
LEMMA AskKeeps ==
    ASSUME Async!AsyncInv, NEW key \in Async!Keys, Async!Ask(key)
    PROVE  Async!AsyncInv'
<1> USE BoundsAssumption
<1> DEFINE id == Len(settled) + Len(queue) + 1
           late == impl = "chain" /\ Async!Asked > 0
<1>1. /\ queue \in Seq([id : 1..MaxRequests, key : Async!Keys])
      /\ settled \in Seq([id : 1..MaxRequests, how : {"throw", "return", "normal"}])
      /\ Len(queue) \in Nat /\ Len(settled) \in Nat /\ id \in 1..MaxRequests
      /\ impl = "async" => id = 1
  BY LenProperties DEF Async!AsyncInv, Async!TypeOK, Async!Ask, Async!Asked
<1>2. /\ queue' = Append(queue, [id |-> id, key |-> key])
      /\ UNCHANGED <<impl, waiting, lost, settled>>
  BY DEF Async!Ask, Async!Asked
<1>3. /\ queue' \in Seq([id : 1..MaxRequests, key : Async!Keys])
      /\ Len(queue') = Len(queue) + 1 /\ DOMAIN queue' = 1..(Len(queue) + 1)
      /\ \A i \in 1..Len(queue) : queue'[i] = queue[i]
      /\ queue'[Len(queue) + 1] = [id |-> id, key |-> key]
      /\ queue' # <<>>
  BY <1>1, <1>2
<1>4. CASE queue = <<>>
  <2>1. /\ run = "none" /\ pending = {} /\ ~lost /\ ~waiting /\ queue'[1].id = id
    BY <1>4, <1>3 DEF Async!AsyncInv, Async!OneUnderWay, Async!QueueInOrder
  <2>2. /\ run' = IF late THEN "none" ELSE key
        /\ pending' = IF late THEN {Async!Callback(id, "start", key, FALSE)} ELSE {}
        /\ resumes' = 0
    BY <1>4, <2>1 DEF Async!Ask, Async!Asked
  <2>3. Async!TypeOK'
    <3>1. Async!Callback(id, "start", key, FALSE)
              \in [id : 1..MaxRequests, what : {"start", "value", "await", "delegate"},
                  key : Async!Keys, done : BOOLEAN]
      BY <1>1 DEF Async!Callback
    <3>2. resumes' \in 0..(MaxResumes + 1) BY <2>2
    <3>3. pending' \subseteq [id : 1..MaxRequests, key : Async!Keys, done : BOOLEAN,
                              what : {"start", "value", "await", "delegate"}]
      BY <2>2, <3>1
    <3>4. run' \in Async!Keys \cup {"none"} BY <2>2
    <3> QED BY <1>2, <1>3, <3>2, <3>3, <3>4 DEF Async!TypeOK, Async!AsyncInv
  <2>4. Async!OneUnderWay'
    <3>1. key # "none" BY DEF Async!Keys
    <3>2. ~lost' BY <1>2, <2>1
    <3> QED BY <1>3, <2>1, <2>2, <3>1, <3>2 DEF Async!OneUnderWay, Async!Callback
  <2>5. Async!Resumable'
    <3>1. resumes' <= MaxResumes BY <2>2
    <3>2. Len(settled') + Len(queue') = id BY <1>1, <1>2, <1>3
    <3>3. impl' = impl /\ id <= MaxRequests BY <1>1, <1>2
    <3>4. \A c \in pending' : c.what # "delegate" BY <2>2 DEF Async!Callback
    <3> HIDE DEF id
    <3>5. Async!Asked' <= MaxRequests /\ (impl' = "async" => Async!Asked' <= 1)
      BY <3>2, <3>3, <1>1 DEF Async!Asked
    <3> QED BY <3>1, <3>4, <3>5 DEF Async!Resumable
  <2>6. Async!QueueInOrder'
    <3>1. Cardinality(pending') + (IF run' # "none" THEN 1 ELSE 0)
          = IF queue' = <<>> \/ lost' THEN 0 ELSE 1
      BY <2>4, CountedNext
    <3>2. \A c \in pending' : c.id = queue'[1].id /\ c.what # "delegate"
      BY <2>1, <2>2 DEF Async!Callback
    <3>3. waiting' <=> \E c \in pending' : c.what = "delegate" BY <3>2, <1>2, <2>1
    <3>4. \A i \in DOMAIN queue' : queue'[i].id = Len(settled') + i BY <1>1, <1>2, <1>3, <1>4
    <3>5. \A i \in DOMAIN settled' : settled'[i].id = i
      BY <1>2 DEF Async!AsyncInv, Async!QueueInOrder
    <3>6. ~lost' BY <1>2, <2>1
    <3> QED BY <3>1, <3>2, <3>3, <3>4, <3>5, <3>6, SameCount DEF Async!QueueInOrder
  <2> QED BY <2>3, <2>4, <2>5, <2>6 DEF Async!AsyncInv
<1>5. CASE queue # <<>>
  <2>1. UNCHANGED <<run, resumes, pending>> BY <1>5 DEF Async!Ask
  <2>2. 1 \in 1..Len(queue) /\ queue'[1] = queue[1]
    <3>1. 1 \in DOMAIN queue BY <1>1, <1>5, FirstOf
    <3> QED BY <3>1, <1>1, <1>3, LenProperties
  <2>3. Async!TypeOK' BY <1>2, <1>3, <2>1 DEF Async!AsyncInv, Async!TypeOK
  <2>4. Async!OneUnderWay'
    <3>1. queue' # <<>> /\ queue'[1] = queue[1] /\ UNCHANGED <<run, pending, lost>>
      BY <1>2, <1>3, <2>1, <2>2
    <3>2. Async!OneUnderWay BY DEF Async!AsyncInv
    <3> HIDE DEF id, late
    <3> QED BY <3>1, <3>2, <1>5 DEF Async!OneUnderWay
  <2>5. Async!Resumable'
    BY <1>1, <1>2, <1>3, <2>1 DEF Async!AsyncInv, Async!Resumable, Async!Asked
  <2>6. Async!QueueInOrder'
    <3>1. Cardinality(pending') + (IF run' # "none" THEN 1 ELSE 0)
          = IF queue' = <<>> \/ lost' THEN 0 ELSE 1
      BY <2>4, CountedNext
    <3>2. /\ \A c \in pending' : c.id = queue'[1].id
          /\ ~lost' => (waiting' <=> \E c \in pending' : c.what = "delegate")
          /\ lost' => impl' = "queue" /\ queue # <<>>
          /\ \A i \in DOMAIN settled' : settled'[i].id = i
      BY <1>2, <2>1, <2>2 DEF Async!AsyncInv, Async!QueueInOrder
    <3>3. \A i \in DOMAIN queue' : queue'[i].id = Len(settled') + i
      <4>1. SUFFICES ASSUME NEW i \in 1..(Len(queue) + 1) PROVE queue'[i].id = Len(settled) + i
        BY <1>2, <1>3
      <4>2. CASE i \in 1..Len(queue)
        <5>1. DOMAIN queue = 1..Len(queue) BY <1>1, LenProperties
        <5> QED BY <4>2, <5>1, <1>3 DEF Async!AsyncInv, Async!QueueInOrder
      <4>3. CASE i = Len(queue) + 1 BY <4>3, <1>1, <1>3
      <4>4. Len(queue) \in Nat BY <1>1, LenProperties
      <4>5. i \in 1..Len(queue) \/ i = Len(queue) + 1
        <5> HIDE DEF late, id
        <5> QED BY <4>1, <4>4
      <4> QED BY <4>2, <4>3, <4>5
    <3>4. queue' # <<>> BY <1>3
    <3> HIDE DEF id, late
    <3> QED BY <3>1, <3>2, <3>3, <3>4, SameCount DEF Async!QueueInOrder
  <2> QED BY <2>3, <2>4, <2>5, <2>6 DEF Async!AsyncInv
<1> QED BY <1>4, <1>5

LEMMA AsyncNext == Async!AsyncInv /\ [Async!Next]_Async!vars => Async!AsyncInv'
<1> SUFFICES ASSUME Async!AsyncInv, [Async!Next]_Async!vars PROVE Async!AsyncInv' OBVIOUS
<1>1. ASSUME NEW key \in Async!Keys, Async!Ask(key) PROVE Async!AsyncInv'
  BY <1>1, AskKeeps
<1>2. CASE Async!Resume
  <2>1. /\ run # "none" /\ queue # <<>> /\ ~lost /\ pending = {} /\ waiting = FALSE
        /\ resumes <= MaxResumes
    BY <1>2 DEF Async!Resume, Async!AsyncInv, Async!OneUnderWay, Async!QueueInOrder,
                Async!Resumable, Async!TypeOK
  <2>2. ASSUME NEW how \in {"throw", "return", "normal"}, Async!Settle(how, pending), UNCHANGED waiting
        PROVE  Async!AsyncInv'
    BY <2>1, <2>2, SettleKeeps
  <2>3. ASSUME NEW what \in {"value", "await", "delegate"}, NEW done \in BOOLEAN,
               what # "value" => resumes < MaxResumes, what = "delegate" => impl = "queue",
               waiting' = (what = "delegate"),
               pending' = pending \cup {Async!Callback(queue[1].id, what, run, done)},
               run' = "none", resumes' = resumes + 1,
               UNCHANGED <<impl, queue, lost, settled>>
        PROVE  Async!AsyncInv'
    BY <2>1, <2>3, WaitKeeps
  <2> QED BY <1>2, <2>1, <2>2, <2>3 DEF Async!Resume
<1>3. ASSUME NEW c \in pending, Async!Fulfilled(c) \/ Async!Rejected(c) PROVE Async!AsyncInv'
  <2>1. /\ queue # <<>> /\ ~lost /\ pending \ {c} = {} /\ c.key \in Async!Keys
        /\ c.what # "delegate" => waiting = FALSE
        /\ c.what # "value" => resumes <= MaxResumes
    BY <1>3 DEF Async!AsyncInv, Async!TypeOK, Async!OneUnderWay, Async!QueueInOrder,
                Async!Resumable
  <2>2. Async!NextKey(c) \in Async!Keys BY DEF Async!NextKey, Async!Keys
  <2>3. CASE Async!Fulfilled(c)
    <3>1. CASE c.what = "start" /\ Async!Due(c.key, pending \ {c}) /\ UNCHANGED waiting
      BY <3>1, <2>1, DueKeeps
    <3>2. CASE /\ c.what = "value" /\ UNCHANGED waiting
               /\ Async!Settle(IF c.done THEN "return" ELSE "normal", pending \ {c})
      BY <3>2, <2>1, SettleKeeps
    <3>3. CASE c.what = "await" /\ Async!Due(Async!NextKey(c), pending \ {c}) /\ UNCHANGED waiting
      BY <3>3, <2>1, <2>2, DueKeeps
    <3>4. CASE /\ c.what = "delegate" /\ waiting' = FALSE
               /\ Async!Due(Async!NextKey(c), pending \ {c})
      BY <3>4, <2>1, <2>2, DueKeeps
    <3>5. CASE /\ c.what = "delegate" /\ waiting' = FALSE
               /\ Async!Settle("normal", pending \ {c})
      BY <3>5, <2>1, SettleKeeps
    <3>6. CASE c.what = "delegate" /\ Async!Lose(pending \ {c})
      BY <3>6, <2>1, <2>3, LoseKeeps DEF Async!Fulfilled
    <3> QED BY <2>3, <3>1, <3>2, <3>3, <3>4, <3>5, <3>6 DEF Async!Fulfilled
  <2>4. CASE Async!Rejected(c)
    <3>1. /\ Async!Due("throw", pending \ {c}) /\ waiting' = FALSE /\ resumes <= MaxResumes
      BY <2>4 DEF Async!Rejected
    <3> QED BY <3>1, <2>1, DueKeeps DEF Async!Keys
  <2> QED BY <1>3, <2>3, <2>4
<1>4. CASE UNCHANGED Async!vars
  BY <1>4 DEF Async!vars, Async!AsyncInv, Async!TypeOK, Async!QueueInOrder, Async!OneUnderWay,
              Async!Resumable, Async!Asked
<1> QED BY <1>1, <1>2, <1>3, <1>4 DEF Async!Next

\* Asynchronous requests are answered one by one and in their order, and
\* exactly one resumption or callback is under way while any is open
\* (webmssdk.js: the wrapper of async generators, AsyncIterator,
\* asyncToGenerator).
THEOREM RequestsInOrder == Async!Spec => [](Async!TypeOK /\ Async!QueueInOrder)
<1>1. Async!AsyncInv => Async!TypeOK /\ Async!QueueInOrder BY DEF Async!AsyncInv
<1> QED BY <1>1, AsyncBegins, AsyncNext, PTL DEF Async!Spec

-----------------------------------------------------------------------------
(* Tracker.                                                                *)

LEMMA LogLimits == Log!TrackerAssumption
BY LimitsAssumption

\* What a report does to the account: it began within the quota, or began a
\* new unit of time, and storage has it afterwards.
TrackRecord ==
    [lists : [Log!Lists -> Nat], stat : Log!Stat, saved : SUBSET Log!Stat, accepted : Nat,
     batch : Nat]
Account(t) ==
    /\ storage /\ loads > 0 => t.stat.acc = t.accepted
    /\ storage => t.accepted - t.batch < UnitAmount
    /\ storage => \/ t.saved = {} /\ t.accepted = 0 /\ t.stat.acc = 0
                  \/ t.saved = {t.stat}
    /\ loads = 0 => t.accepted = 0 /\ t.stat.acc = 0
Kept(t) == \A k \in Log!Kinds : t.lists[k] <= (IF k = "keyboard" THEN ListLimit + 1 ELSE ListLimit)

LEMMA NothingInAll ==
    \A w, x, y, z \in Nat : w + x + y + z = 0 => w = 0 /\ x = 0 /\ y = 0 /\ z = 0
OBVIOUS

LEMMA FlushKeeps ==
    ASSUME now \in Nat, loads \in Nat \ {0}, storage \in BOOLEAN,
           NEW t \in TrackRecord, Account(t), Kept(t)
    PROVE  /\ Log!Flush(t) \in TrackRecord /\ Account(Log!Flush(t)) /\ Kept(Log!Flush(t))
           /\ \A k \in Log!Lists : Log!Flush(t).lists[k] = 0
<1> DEFINE size == t.lists.move + t.lists.click + t.lists.keyboard + t.lists.windows
           same == now < t.stat.sTm + UnitTime
           stat == IF same THEN [t.stat EXCEPT !.acc = @ + size] ELSE [sTm |-> now, acc |-> size]
           saved == IF storage THEN {stat} ELSE t.saved
           accepted == IF same THEN t.accepted + size ELSE size
<1> USE LogLimits DEF Log!TrackerAssumption
<1>1. /\ t.lists \in [Log!Lists -> Nat] /\ t.stat \in Log!Stat /\ t.saved \subseteq Log!Stat
      /\ t.accepted \in Nat /\ t.batch \in Nat /\ t.stat.acc \in Nat /\ t.stat.sTm \in Nat
      /\ t = [lists |-> t.lists, stat |-> t.stat, saved |-> t.saved, accepted |-> t.accepted,
              batch |-> t.batch]
  BY DEF TrackRecord, Log!Stat
<1>2. /\ {"move", "click", "keyboard", "windows"} = Log!Lists /\ Log!Kinds \subseteq Log!Lists
      /\ Log!Empty \in [Log!Lists -> Nat] /\ \A k \in Log!Lists : Log!Empty[k] = 0
  BY DEF Log!Lists, Log!Kinds, Log!Empty
<1>3. size \in Nat /\ (size = 0 => \A k \in Log!Lists : t.lists[k] = 0)
  <2>1. \A k \in Log!Lists : t.lists[k] \in Nat BY <1>1
  <2>2. /\ t.lists.move \in Nat /\ t.lists.click \in Nat
        /\ t.lists.keyboard \in Nat /\ t.lists.windows \in Nat
    BY <2>1, <1>2
  <2>3. \A k \in Log!Lists : k \in {"move", "click", "keyboard", "windows"} BY <1>2
  <2>4. size \in Nat BY <2>2
  <2>5. ASSUME size = 0
        PROVE  /\ t.lists.move = 0 /\ t.lists.click = 0
               /\ t.lists.keyboard = 0 /\ t.lists.windows = 0
    BY <2>2, <2>5, NothingInAll
  <2> HIDE DEF size
  <2> QED BY <2>3, <2>4, <2>5
<1>4. stat \in Log!Stat /\ accepted \in Nat /\ stat.acc = IF same THEN t.stat.acc + size ELSE size
  BY <1>1, <1>3 DEF Log!Stat
<1>5. CASE size = 0
  BY <1>5, <1>3 DEF Log!Flush
<1>6. CASE size # 0 /\ same /\ t.stat.acc >= UnitAmount
  <2>1. Log!Flush(t) = [t EXCEPT !.lists = Log!Empty] BY <1>6 DEF Log!Flush
  <2>2. Log!Flush(t) = [lists |-> Log!Empty, stat |-> t.stat, saved |-> t.saved,
                        accepted |-> t.accepted, batch |-> t.batch]
    BY <2>1, <1>1
  <2> QED BY <2>2, <1>1, <1>2 DEF TrackRecord, Account, Kept
<1>7. CASE size # 0 /\ ~(same /\ t.stat.acc >= UnitAmount)
  <2>1. Log!Flush(t) = [t EXCEPT !.lists = Log!Empty, !.stat = stat, !.saved = saved,
                                 !.accepted = accepted, !.batch = size]
    BY <1>7 DEF Log!Flush
  <2>2. Log!Flush(t) = [lists |-> Log!Empty, stat |-> stat, saved |-> saved,
                        accepted |-> accepted, batch |-> size]
    BY <2>1, <1>1
  <2>3. Log!Flush(t) \in TrackRecord BY <2>2, <1>1, <1>2, <1>3, <1>4 DEF TrackRecord
  <2>4. storage => stat.acc = accepted BY <1>4, <1>1 DEF Account
  <2>5. storage => accepted - size < UnitAmount BY <1>7, <1>4, <1>1, <1>3 DEF Account
  <2>6. Account(Log!Flush(t)) BY <2>2, <2>4, <2>5 DEF Account
  <2>7. Kept(Log!Flush(t)) BY <2>2, <1>2 DEF Kept
  <2> QED BY <2>2, <2>3, <2>6, <2>7, <1>2
<1> QED BY <1>5, <1>6, <1>7

\* The first n entries are dropped.
LEMMA DropFirst ==
    ASSUME NEW S, NEW s \in Seq(S), NEW n \in Nat
    PROVE  LET rest == SubSeq(s, n + 1, Len(s))
           IN  /\ rest \in Seq(S)
               /\ Len(rest) = IF n + 1 <= Len(s) THEN Len(s) - n ELSE 0
               /\ \A i \in 1..Len(rest) : n + i \in 1..Len(s) /\ rest[i] = s[n + i]
<1> DEFINE rest == SubSeq(s, n + 1, Len(s))
<1>1. Len(s) \in Nat /\ n + 1 \in Int /\ Len(s) \in Int BY LenProperties
<1>2. \A i \in (n + 1)..Len(s) : s[i] \in S BY <1>1, ElementOfSeq
<1>3. /\ rest \in Seq(S)
      /\ Len(rest) = IF n + 1 <= Len(s) THEN Len(s) - (n + 1) + 1 ELSE 0
      /\ \A i \in 1..(Len(s) - (n + 1) + 1) : rest[i] = s[(n + 1) + i - 1]
  BY <1>1, <1>2, SubSeqProperties
<1> HIDE DEF rest
<1>4. Len(rest) = IF n + 1 <= Len(s) THEN Len(s) - n ELSE 0 BY <1>1, <1>3
<1>5. ASSUME NEW i \in 1..Len(rest) PROVE n + i \in 1..Len(s) /\ rest[i] = s[n + i]
  <2>1. n + 1 <= Len(s) /\ i \in 1..(Len(s) - n) BY <1>1, <1>4
  <2>2. Len(s) - (n + 1) + 1 = Len(s) - n /\ (n + 1) + i - 1 = n + i BY <1>1, <2>1
  <2> QED BY <2>1, <2>2, <1>1, <1>3
<1> QED BY <1>3, <1>4, <1>5 DEF rest

\* A log of recent events stays short and in the order of time.
Noted == [d : Nat, at : Spots]
Orderly(log) ==
    /\ Len(log) <= RecentLimit + 1
    /\ \A i, j \in DOMAIN log : i < j => log[i].d < log[j].d
    /\ \A i \in DOMAIN log : log[i].d <= now

LEMMA RecentKeeps ==
    ASSUME now \in Nat, NEW log \in Seq(Noted), Orderly(log), NEW kind, NEW at \in Spots
    PROVE  Log!Recent(log, kind, at) \in Seq(Noted) /\ Orderly(Log!Recent(log, kind, at))
<1> DEFINE rest == IF Len(log) > RecentLimit THEN SubSeq(log, Dropped + 1, Len(log)) ELSE log
           new == [d |-> now, at |-> at]
<1> USE LogLimits DEF Log!TrackerAssumption
<1>0. /\ \A e \in Noted : e.d \in Nat
      /\ new \in Noted /\ new.d = now
  BY DEF Noted
<1>1. /\ Len(log) \in Nat /\ DOMAIN log = 1..Len(log)
      /\ \A i \in 1..Len(log) : log[i] \in Noted
  BY LenProperties, ElementOfSeq
<1>2. rest \in Seq(Noted) /\ Len(rest) <= RecentLimit /\ Len(rest) \in Nat
  <2>1. Len(log) <= RecentLimit + 1 BY DEF Orderly
  <2>2. CASE Len(log) > RecentLimit
    <3> DEFINE cut == SubSeq(log, Dropped + 1, Len(log))
    <3>1. /\ cut \in Seq(Noted)
          /\ Len(cut) = IF Dropped + 1 <= Len(log) THEN Len(log) - Dropped ELSE 0
      BY DropFirst
    <3>2. rest = cut BY <2>2
    <3> HIDE DEF cut, rest
    <3>3. Len(cut) <= RecentLimit /\ Len(cut) \in Nat BY <3>1, <2>1, <1>1
    <3> QED BY <3>1, <3>2, <3>3
  <2>3. CASE ~(Len(log) > RecentLimit)
    <3>1. rest = log BY <2>3
    <3> HIDE DEF rest
    <3> QED BY <3>1, <2>3, <1>1
  <2> QED BY <2>2, <2>3
<1>3. /\ \A i, j \in 1..Len(rest) : i < j => rest[i].d < rest[j].d
      /\ \A i \in 1..Len(rest) : rest[i].d <= now /\ rest[i].d \in Nat
  <2>1. CASE Len(log) <= RecentLimit
    <3>1. rest = log BY <2>1, <1>1
    <3> HIDE DEF rest
    <3> QED BY <3>1, <1>0, <1>1 DEF Orderly
  <2>2. CASE Len(log) > RecentLimit
    <3>1. \A i \in 1..Len(rest) : Dropped + i \in 1..Len(log) /\ rest[i] = log[Dropped + i]
      BY <2>2, DropFirst
    <3> HIDE DEF rest
    <3>2. ASSUME NEW i \in 1..Len(rest), NEW j \in 1..Len(rest), i < j PROVE rest[i].d < rest[j].d
      <4>1. Dropped + i < Dropped + j BY <3>2, <1>2
      <4> QED BY <4>1, <3>1, <1>1 DEF Orderly
    <3>3. ASSUME NEW i \in 1..Len(rest) PROVE rest[i].d <= now /\ rest[i].d \in Nat
      BY <3>1, <1>0, <1>1 DEF Orderly
    <3> QED BY <3>2, <3>3
  <2>3. Len(log) <= RecentLimit \/ Len(log) > RecentLimit BY <1>1
  <2> HIDE DEF rest
  <2> QED BY <2>1, <2>2, <2>3
<1>4. Log!Recent(log, kind, at) = IF /\ rest # <<>>
                                     /\ \/ now <= rest[Len(rest)].d
                                        \/ kind # "keyboard" /\ at = rest[Len(rest)].at
                                  THEN rest ELSE Append(rest, new)
  BY DEF Log!Recent, Log!Last
<1> HIDE DEF rest, new
<1>5. DOMAIN rest = 1..Len(rest) /\ (rest # <<>> => Len(rest) \in 1..Len(rest))
  BY <1>2, EmptySeq, LenProperties
<1>6. CASE Log!Recent(log, kind, at) = rest
  <2>1. Len(rest) <= RecentLimit + 1 BY <1>2
  <2>2. \A i, j \in DOMAIN rest : i < j => rest[i].d < rest[j].d BY <1>3, <1>5
  <2>3. \A i \in DOMAIN rest : rest[i].d <= now BY <1>3, <1>5
  <2>4. Orderly(rest) BY <2>1, <2>2, <2>3 DEF Orderly
  <2> QED BY <2>4, <1>2, <1>6
<1>7. CASE /\ Log!Recent(log, kind, at) = Append(rest, new)
           /\ rest # <<>> => rest[Len(rest)].d < now
  <2> DEFINE longer == Append(rest, new)
  <2>1. /\ longer \in Seq(Noted) /\ Len(longer) = Len(rest) + 1
        /\ DOMAIN longer = 1..(Len(rest) + 1)
        /\ \A i \in 1..Len(rest) : longer[i] = rest[i]
        /\ longer[Len(rest) + 1] = new
    BY <1>0, <1>2, AppendProperties, LenProperties
  <2>2. ASSUME NEW i \in 1..Len(rest) PROVE rest[i].d < now
    <3>1. rest # <<>> BY <1>2, EmptySeq
    <3>2. CASE i = Len(rest) BY <3>1, <3>2, <1>7
    <3>3. CASE i < Len(rest)
      <4>1. rest[i].d < rest[Len(rest)].d BY <3>1, <3>3, <1>3, <1>5
      <4>2. rest[i].d \in Nat /\ rest[Len(rest)].d \in Nat BY <3>1, <1>3, <1>5
      <4>3. rest[Len(rest)].d < now BY <3>1, <1>7
      <4>4. \A x, y, z \in Nat : x < y /\ y < z => x < z OBVIOUS
      <4> QED BY <4>1, <4>2, <4>3, <4>4
    <3> QED BY <3>2, <3>3, <1>2
  <2> HIDE DEF longer
  <2>3. ASSUME NEW i \in DOMAIN longer, NEW j \in DOMAIN longer, i < j
        PROVE  longer[i].d < longer[j].d
    <3>1. i \in 1..Len(rest) /\ longer[i] = rest[i] BY <2>1, <2>3, <1>2
    <3>2. CASE j \in 1..Len(rest) BY <3>1, <3>2, <2>1, <2>3, <1>3
    <3>3. CASE j = Len(rest) + 1 BY <3>1, <3>3, <2>1, <2>2, <1>0
    <3> QED BY <3>2, <3>3, <2>1, <1>2
  <2>4. ASSUME NEW i \in DOMAIN longer PROVE longer[i].d <= now
    <3>1. CASE i \in 1..Len(rest) BY <3>1, <2>1, <1>3
    <3>2. CASE i = Len(rest) + 1 BY <3>2, <2>1, <1>0
    <3> QED BY <3>1, <3>2, <2>1, <1>2
  <2>5. longer \in Seq(Noted) /\ Orderly(longer) BY <1>2, <2>1, <2>3, <2>4 DEF Orderly
  <2> QED BY <2>5, <1>7 DEF longer
<1>8. CASE rest # <<>> /\ now <= rest[Len(rest)].d
  BY <1>4, <1>6, <1>8
<1>9. CASE rest # <<>> => rest[Len(rest)].d < now
  BY <1>4, <1>6, <1>7, <1>9
<1> QED
  <2>1. rest # <<>> => rest[Len(rest)].d \in Nat BY <1>3, <1>5
  <2> QED BY <2>1, <1>8, <1>9


\* TrackerInv, in the terms of these lemmas.
LogInv ==
    /\ now \in Nat /\ loads \in Nat /\ storage \in BOOLEAN /\ enabled \in BOOLEAN
    /\ recent \in [Log!Kinds -> Seq(Noted)]
    /\ last \subseteq [ts : Nat, at : Spots]
    /\ track \in TrackRecord /\ Account(track) /\ Kept(track)
    /\ \A k \in Log!Kinds : Orderly(recent[k])
    /\ loads = 0 => ~installed

LEMMA TrackerParts == (Log!TrackerInv <=> LogInv) /\ (Log!TrackerInv' <=> LogInv')
<1> USE DEF Log!TrackerInv, Log!TypeOK, Log!QuotaKept, Log!AccountSaved, LogInv, TrackRecord,
            Account, Kept, Orderly, Noted
<1>1. Log!TrackerInv <=> LogInv OBVIOUS
<1>2. Log!TrackerInv' <=> LogInv' OBVIOUS
<1> QED BY <1>1, <1>2

LEMMA TrackerBegins == Log!Init => Log!TrackerInv
<1> SUFFICES ASSUME Log!Init PROVE Log!TrackerInv OBVIOUS
<1> USE LogLimits DEF Log!TrackerAssumption, Log!Init
<1>1. track \in TrackRecord
  BY DEF TrackRecord, Log!Empty, Log!NoStat, Log!Stat
<1>2. Account(track) BY DEF Account, Log!NoStat
<1>3. Kept(track) BY DEF Kept, Log!Empty, Log!Kinds, Log!Lists
<1>4. recent \in [Log!Kinds -> Seq(Noted)] /\ \A k \in Log!Kinds : Orderly(recent[k])
  BY DEF Orderly
<1> QED BY <1>1, <1>2, <1>3, <1>4, TrackerParts DEF LogInv

LEMMA TrackerNext == Log!TrackerInv /\ [Log!Next]_Log!vars => Log!TrackerInv'
<1> SUFFICES ASSUME Log!TrackerInv, [Log!Next]_Log!vars PROVE Log!TrackerInv' OBVIOUS
<1> USE LogLimits DEF Log!TrackerAssumption
<1>1. /\ now \in Nat /\ loads \in Nat /\ storage \in BOOLEAN /\ enabled \in BOOLEAN
      /\ recent \in [Log!Kinds -> Seq(Noted)]
      /\ last \subseteq [ts : Nat, at : Spots]
      /\ track \in TrackRecord /\ Account(track) /\ Kept(track)
      /\ \A k \in Log!Kinds : Orderly(recent[k])
      /\ loads = 0 => ~installed
  BY TrackerParts DEF LogInv
<1>2. /\ track.lists \in [Log!Lists -> Nat] /\ track.stat \in Log!Stat
      /\ track.saved \subseteq Log!Stat /\ track.accepted \in Nat /\ track.batch \in Nat
      /\ Log!Kinds \subseteq Log!Lists /\ "windows" \in Log!Lists /\ "windows" \notin Log!Kinds
  BY <1>1 DEF TrackRecord, Log!Kinds, Log!Lists
<1>3. CASE Log!Tick
  <2>1. /\ now' = now + 1
        /\ UNCHANGED <<loads, storage, enabled, installed, recent, last, track>>
    BY <1>3 DEF Log!Tick
  <2>2. \A k \in Log!Kinds : Orderly(recent[k])'
    <3>1. \A e \in Noted : e.d \in Nat BY DEF Noted
    <3>2. \A k \in Log!Kinds : \A i \in DOMAIN recent[k] : recent[k][i] \in Noted
      BY <1>1
    <3> QED BY <1>1, <2>1, <3>1, <3>2 DEF Orderly
  <2>3. Account(track)' /\ Kept(track)' BY <1>1, <2>1 DEF Account, Kept
  <2> QED BY <1>1, <2>1, <2>2, <2>3, TrackerParts DEF LogInv
<1>4. CASE Log!Load
  <2> DEFINE stat == IF track.saved = {} THEN [sTm |-> now, acc |-> 0]
                     ELSE CHOOSE x \in track.saved : TRUE
  <2>1. /\ loads' = loads + 1 /\ last' = {} /\ recent' = [k \in Log!Kinds |-> <<>>]
        /\ track' = [track EXCEPT !.lists = Log!Empty, !.stat = stat]
        /\ UNCHANGED <<now, storage, enabled>>
    BY <1>4 DEF Log!Load
  <2>2. track' = [lists |-> Log!Empty, stat |-> stat, saved |-> track.saved,
                  accepted |-> track.accepted, batch |-> track.batch]
    BY <2>1, <1>1 DEF TrackRecord
  <2>3. stat \in Log!Stat
    <3>1. [sTm |-> now, acc |-> 0] \in Log!Stat BY <1>1 DEF Log!Stat
    <3>2. track.saved # {} => (CHOOSE x \in track.saved : TRUE) \in track.saved OBVIOUS
    <3> QED BY <3>1, <3>2, <1>2
  <2>4. storage => /\ stat.acc = track.accepted
                   /\ \/ track.saved = {} /\ track.accepted = 0 /\ stat.acc = 0
                      \/ track.saved = {stat}
    <3>1. CASE track.saved = {} BY <3>1, <1>1 DEF Account
    <3>2. CASE track.saved # {}
      <4>1. storage => track.saved = {track.stat} /\ track.stat.acc = track.accepted
        BY <3>2, <1>1 DEF Account
      <4>2. storage => stat = track.stat BY <4>1
      <4> QED BY <4>1, <4>2
    <3> QED BY <3>1, <3>2
  <2> HIDE DEF stat
  <2>5. track' \in TrackRecord BY <2>2, <2>3, <1>2 DEF TrackRecord, Log!Empty
  <2>6. Account(track)' BY <1>1, <2>1, <2>2, <2>4 DEF Account
  <2>7. Kept(track)' BY <2>2, <1>2 DEF Kept, Log!Empty
  <2>8. recent' \in [Log!Kinds -> Seq(Noted)] /\ \A k \in Log!Kinds : Orderly(recent[k])'
    BY <2>1 DEF Orderly
  <2> QED BY <1>1, <2>1, <2>5, <2>6, <2>7, <2>8, TrackerParts DEF LogInv
<1>5. CASE Log!Install
  <2>1. /\ UNCHANGED <<now, loads, storage, enabled, recent, last, track>> /\ loads > 0
    BY <1>5 DEF Log!Install
  <2> QED BY <1>1, <2>1, TrackerParts DEF LogInv, Account, Kept, Orderly
<1>6. CASE Log!Visibility
  <2>1. /\ track' = [track EXCEPT !.lists.windows = @ + 1]
        /\ UNCHANGED <<now, loads, storage, enabled, installed, recent, last>>
    BY <1>6 DEF Log!Visibility
  <2>2. track' = [lists |-> [track.lists EXCEPT !["windows"] = @ + 1], stat |-> track.stat,
                  saved |-> track.saved, accepted |-> track.accepted, batch |-> track.batch]
    BY <2>1, <1>1 DEF TrackRecord
  <2>3. track' \in TrackRecord BY <2>2, <1>2 DEF TrackRecord
  <2>4. Account(track)' BY <1>1, <2>1, <2>2 DEF Account
  <2>5. Kept(track)' BY <1>1, <1>2, <2>2 DEF Kept
  <2> QED BY <1>1, <2>1, <2>3, <2>4, <2>5, TrackerParts DEF LogInv, Orderly
<1>7. CASE Log!Unload \/ Log!Report
  <2>1. /\ loads \in Nat \ {0} /\ track' = (IF enabled THEN Log!Flush(track) ELSE track)
        /\ last' = (IF enabled THEN {} ELSE last)
        /\ UNCHANGED <<now, loads, storage, enabled, installed, recent>>
    BY <1>1, <1>7 DEF Log!Unload, Log!Report
  <2>2. track' \in TrackRecord /\ Account(track') /\ Kept(track')
    BY <1>1, <2>1, FlushKeeps
  <2>3. Account(track)' /\ Kept(track)' BY <2>1, <2>2 DEF Account, Kept
  <2> QED BY <1>1, <2>1, <2>2, <2>3, TrackerParts DEF LogInv, Orderly
<1>8. ASSUME NEW kind \in Log!Kinds, NEW at \in Spots, Log!Event(kind, at)
      PROVE  Log!TrackerInv'
  <2> DEFINE flush == enabled /\ Log!Full(kind)
             t == IF flush THEN Log!Flush(track) ELSE track
             before == IF flush THEN {} ELSE last
             skip == \/ ~enabled
                     \/ kind = "move" /\ \E x \in before : x.at = at \/ now - x.ts < MoveGap
  <2>1. /\ recent' = [recent EXCEPT ![kind] = Log!Recent(@, kind, at)]
        /\ track' = IF skip THEN t ELSE [t EXCEPT !.lists[kind] = @ + 1]
        /\ last' = IF kind = "move" /\ ~skip THEN {[ts |-> now, at |-> at]} ELSE before
        /\ UNCHANGED <<now, loads, storage, enabled, installed>>
        /\ loads \in Nat \ {0}
    BY <1>1, <1>8 DEF Log!Event, Log!Push
  <2>2. recent' \in [Log!Kinds -> Seq(Noted)] /\ \A k \in Log!Kinds : Orderly(recent'[k])
    <3>1. recent[kind] \in Seq(Noted) /\ Orderly(recent[kind]) BY <1>1
    <3>2. /\ Log!Recent(recent[kind], kind, at) \in Seq(Noted)
          /\ Orderly(Log!Recent(recent[kind], kind, at))
      BY <1>1, <3>1, RecentKeeps
    <3> QED BY <2>1, <3>2, <1>1
  <2>3. \A k \in Log!Kinds : Orderly(recent[k])'
    BY <2>1, <2>2 DEF Orderly
  <2>4. /\ t \in TrackRecord /\ Account(t) /\ Kept(t)
        /\ flush => t.lists[kind] = 0
        /\ ~flush => t = track
    <3>1. CASE flush
      <4>1. t = Log!Flush(track) BY <3>1
      <4> HIDE DEF t
      <4> QED BY <3>1, <4>1, <1>1, <1>2, <2>1, FlushKeeps
    <3>2. CASE ~flush BY <3>2, <1>1
    <3> QED BY <3>1, <3>2
  <2>5. ~skip => t.lists[kind] <= IF kind = "keyboard" THEN ListLimit ELSE ListLimit - 1
    <3>1. track.lists[kind] \in Nat BY <1>2
    <3>2. CASE flush BY <3>2, <2>4
    <3>3. CASE ~flush BY <3>1, <3>3, <2>4 DEF Log!Full
    <3> QED BY <3>2, <3>3
  <2>6. before \subseteq [ts : Nat, at : Spots] BY <1>1
  <2> HIDE DEF t, before, skip
  <2>7. /\ t.lists \in [Log!Lists -> Nat] /\ t.stat \in Log!Stat /\ t.saved \subseteq Log!Stat
        /\ t.accepted \in Nat /\ t.batch \in Nat
        /\ [t EXCEPT !.lists[kind] = @ + 1]
           = [lists |-> [t.lists EXCEPT ![kind] = @ + 1], stat |-> t.stat, saved |-> t.saved,
              accepted |-> t.accepted, batch |-> t.batch]
    BY <2>4 DEF TrackRecord
  <2>8. CASE skip
    <3>1. track' = t /\ last' = before BY <2>1, <2>8
    <3>2. track' \in TrackRecord BY <3>1, <2>4
    <3>3. Account(track)' /\ Kept(track)' BY <3>1, <2>1, <2>4 DEF Account, Kept
    <3> QED BY <1>1, <2>1, <2>2, <2>3, <2>6, <3>1, <3>2, <3>3, TrackerParts DEF LogInv
  <2>9. CASE ~skip
    <3>1. track' = [lists |-> [t.lists EXCEPT ![kind] = @ + 1], stat |-> t.stat, saved |-> t.saved,
                    accepted |-> t.accepted, batch |-> t.batch]
      BY <2>1, <2>7, <2>9
    <3>2. track' \in TrackRecord BY <3>1, <2>7, <1>2 DEF TrackRecord
    <3>3. Account(track)' BY <3>1, <2>1, <2>4 DEF Account
    <3>4. Kept(track)'
      <4>1. SUFFICES ASSUME NEW k \in Log!Kinds
                     PROVE  track'.lists[k] <= (IF k = "keyboard" THEN ListLimit + 1 ELSE ListLimit)
        BY DEF Kept
      <4>2. CASE k = kind BY <4>2, <3>1, <2>5, <2>7, <2>9, <1>2
      <4>3. CASE k # kind BY <4>3, <3>1, <2>4, <2>7, <1>2 DEF Kept
      <4> QED BY <4>2, <4>3
    <3>5. last' \subseteq [ts : Nat, at : Spots] BY <2>1, <2>6, <1>1
    <3> QED BY <1>1, <2>1, <2>2, <2>3, <3>2, <3>3, <3>4, <3>5, TrackerParts DEF LogInv
  <2> QED BY <2>8, <2>9
<1>9. CASE UNCHANGED Log!vars
  <2>1. UNCHANGED <<now, loads, storage, enabled, installed, recent, last, track>>
    BY <1>9 DEF Log!vars
  <2> QED BY <1>1, <2>1, TrackerParts DEF LogInv, Account, Kept, Orderly
<1> QED BY <1>3, <1>4, <1>5, <1>6, <1>7, <1>8, <1>9 DEF Log!Next

\* Lists keep within their limits, and where storage works the account
\* survives reloads and reports stay within the quota of a unit of time
\* (webmssdk.js: the handlers of the behaviour log and its report).
THEOREM ReportsAreLimited == Log!Spec => []Log!QuotaKept
<1>1. Log!TrackerInv => Log!QuotaKept BY DEF Log!TrackerInv
<1> QED BY <1>1, TrackerBegins, TrackerNext, PTL DEF Log!Spec

-----------------------------------------------------------------------------
(* Digest.                                                                 *)

\* Quotient and remainder are determined by their equation.
LEMMA Divided ==
    ASSUME NEW x \in Nat, NEW r \in Nat \ {0}
    PROVE  x \div r \in Nat /\ x % r \in 0..(r - 1) /\ x = (x \div r) * r + (x % r)
<1>1. x \div r \in Int /\ x % r \in 0..(r - 1) /\ x = r * (x \div r) + (x % r) OBVIOUS
<1> DEFINE quot == x \div r
           rem == x % r
<1> HIDE DEF quot, rem
<1>2. quot \in Int /\ rem \in 0..(r - 1) /\ x = r * quot + rem BY <1>1 DEF quot, rem
<1>3. quot >= 0
  <2>1. SUFFICES ASSUME quot <= -1 PROVE FALSE BY <1>2
  <2>2. r * quot <= -r BY <1>2, <2>1
  <2> QED BY <1>2, <2>2
<1>4. r * quot = quot * r BY <1>2
<1> QED BY <1>2, <1>3, <1>4 DEF quot, rem

LEMMA Division ==
    ASSUME NEW r \in Nat \ {0}, NEW q \in Nat, NEW u \in 0..(r - 1), NEW x, x = q * r + u
    PROVE  x \div r = q /\ x % r = u
<1> DEFINE quot == x \div r
           rem == x % r
<1>1. q * r \in Nat OBVIOUS
<1>2. x \in Nat BY <1>1
<1>3. quot \in Nat /\ rem \in 0..(r - 1) /\ x = quot * r + rem BY <1>2, Divided
<1> HIDE DEF quot, rem
<1>4. (q - quot) * r = rem - u BY <1>3
<1>5. ~(q - quot >= 1)
  <2>1. SUFFICES ASSUME q - quot >= 1 PROVE FALSE OBVIOUS
  <2>2. (q - quot) * r >= r BY <1>3, <2>1
  <2> QED BY <1>3, <1>4, <2>2
<1>6. ~(quot - q >= 1)
  <2>1. SUFFICES ASSUME quot - q >= 1 PROVE FALSE OBVIOUS
  <2>2. (quot - q) * r >= r BY <1>3, <2>1
  <2>3. (quot - q) * r = u - rem BY <1>3
  <2> QED BY <1>3, <2>2, <2>3
<1>7. q = quot BY <1>3, <1>5, <1>6
<1>8. rem = u BY <1>3, <1>7
<1> QED BY <1>7, <1>8 DEF quot, rem

\* Whole units more change the quotient alone.
LEMMA MoreWholes ==
    ASSUME NEW r \in Nat \ {0}, NEW a \in Nat, NEW b \in Nat
    PROVE  (a * r + b) % r = b % r /\ (a * r + b) \div r = a + (b \div r)
<1> DEFINE q == b \div r
           u == b % r
           x == a * r + b
           t == a + q
<1>1. q \in Nat /\ u \in 0..(r - 1) /\ b = q * r + u BY Divided
<1> HIDE DEF q, u
<1>2. x = t * r + u /\ t \in Nat BY <1>1
<1> HIDE DEF x, t
<1>3. x \div r = t /\ x % r = u BY <1>1, <1>2, Division
<1> QED BY <1>3 DEF q, u, x, t


\* A digest object in use: the buffer has the bytes since the last block that
\* was cleared, in order and nothing else, and every block compressed was
\* whole; the counts agree.
FullBlock(j) == [data |-> [i \in 0..(Block - 1) |-> (j - 1) * Block + i + 1], length |-> <<>>]
FullBlocks == {FullBlock(j) : j \in Nat}
Buffer == 0..(Block + Word - 1)
Shape ==
    [blocks : [Buffer -> Int], start : Nat, lastByteIndex : Nat, bytes : Nat, hBytes : Nat,
     finalized : {FALSE}, hashed : BOOLEAN, absorbed : Seq(FullBlocks), given : Nat]
Holds(s) ==
    /\ s.lastByteIndex = IF s.hashed THEN s.start + Block ELSE s.start
    /\ s.start < (IF s.hashed THEN Word ELSE Block)
    /\ \A i \in Buffer :
          s.blocks[i] = IF i < s.lastByteIndex THEN s.given - s.lastByteIndex + i + 1 ELSE 0
    /\ s.given = Len(s.absorbed) * Block + s.start
    /\ \A j \in 1..Len(s.absorbed) : s.absorbed[j] = FullBlock(j)
    /\ s.given = s.hBytes * Radix + s.bytes
Good == {s \in Shape : Holds(s)}

LEMMA Sizes ==
    Word \in Nat \ {0} /\ Radix \in Nat \ {0} /\ Block \in Nat \ {0} /\ 3 * Word <= Block
BY LimitsAssumption DEF Md5!DigestAssumption

LEMMA ShapeOf ==
    ASSUME NEW b \in [Buffer -> Int], NEW start \in Nat, NEW last1 \in Nat, NEW bytes \in Nat,
           NEW hBytes \in Nat, NEW fin \in {FALSE}, NEW hashed \in BOOLEAN,
           NEW absorbed \in Seq(FullBlocks), NEW given \in Nat
    PROVE  [blocks |-> b, start |-> start, lastByteIndex |-> last1, bytes |-> bytes,
            hBytes |-> hBytes, finalized |-> fin, hashed |-> hashed, absorbed |-> absorbed,
            given |-> given] \in Shape
BY DEF Shape

LEMMA FreshIsGood == Md5!Fresh \in Good
<1> USE Sizes
<1>1. Md5!Zeros \in [Buffer -> Int] /\ \A i \in Buffer : Md5!Zeros[i] = 0
  BY DEF Md5!Zeros, Buffer
<1>2. <<>> \in Seq(FullBlocks) /\ Len(<<>>) = 0 OBVIOUS
<1>3. Md5!Fresh \in Shape BY <1>1, <1>2 DEF Md5!Fresh, Shape
<1>4. Holds(Md5!Fresh)
  <2>1. \A j \in 1..0 : FALSE OBVIOUS
  <2> QED BY <1>1, <1>2, <2>1 DEF Md5!Fresh, Holds, Buffer
<1> QED BY <1>3, <1>4 DEF Good

\* One character more.
LEMMA CharIsGood ==
    ASSUME NEW s \in Good, NEW w \in 1..Word
    PROVE  Md5!Char(s, w) \in Good
<1> DEFINE b == IF s.hashed THEN Md5!NextBlock(s.blocks) ELSE s.blocks
           end == s.start + w
           c == [i \in DOMAIN b |-> IF s.start <= i /\ i < end
                                    THEN Md5!Put(b[i], s.given + 1 + i - s.start) ELSE b[i]]
           full == end >= Block
           absorbed == IF full THEN Append(s.absorbed, Md5!Whole(c)) ELSE s.absorbed
           start == IF full THEN end - Block ELSE end
           base == s.given - s.start
<1> USE Sizes
<1>1. /\ s.start \in Nat /\ s.lastByteIndex \in Nat /\ s.given \in Nat
      /\ s.bytes \in Nat /\ s.hBytes \in Nat
  BY DEF Good, Shape
<1>fields. /\ s.blocks \in [Buffer -> Int] /\ s.finalized = FALSE /\ s.hashed \in BOOLEAN
      /\ s.absorbed \in Seq(FullBlocks)
  BY DEF Good, Shape
<1>record. s = [blocks |-> s.blocks, start |-> s.start, lastByteIndex |-> s.lastByteIndex,
           bytes |-> s.bytes, hBytes |-> s.hBytes, finalized |-> s.finalized,
           hashed |-> s.hashed, absorbed |-> s.absorbed, given |-> s.given]
  BY DEF Good, Shape
<1>2. Holds(s) BY DEF Good
<1>3. s.start < Block /\ w \in Nat /\ w <= Word /\ end \in Nat /\ end < Block + Word
  <2>1. s.start < (IF s.hashed THEN Word ELSE Block) BY <1>2 DEF Holds
  <2>2. s.start < Block BY <2>1, <1>1
  <2> QED BY <2>2, <1>1
<1>4. Len(s.absorbed) \in Nat BY <1>fields, LenProperties
<1>5. /\ b \in [Buffer -> Int] /\ DOMAIN b = Buffer
      /\ \A i \in Buffer : b[i] = IF i < s.start THEN base + i + 1 ELSE 0
  <2>1. CASE ~s.hashed
    <3>1. b = s.blocks /\ s.lastByteIndex = s.start BY <2>1, <1>2 DEF Holds
    <3> HIDE DEF b
    <3> QED BY <3>1, <1>fields, <1>2 DEF Holds
  <2>2. CASE s.hashed
    <3>1. b = [i \in Buffer |-> IF i < Word THEN s.blocks[Block + i] ELSE 0]
      BY <2>2, <1>fields DEF Md5!NextBlock
    <3>2. s.lastByteIndex = s.start + Block /\ s.start < Word BY <2>2, <1>2 DEF Holds
    <3> HIDE DEF b
    <3>3. ASSUME NEW i \in Buffer PROVE b[i] \in Int /\ b[i] = IF i < s.start THEN base + i + 1 ELSE 0
      <4>1. CASE i < Word
        <5>1. Block + i \in Buffer BY <4>1 DEF Buffer
        <5>2. s.blocks[Block + i] = IF Block + i < s.lastByteIndex
                                    THEN s.given - s.lastByteIndex + (Block + i) + 1 ELSE 0
          BY <5>1, <1>2 DEF Holds
        <5>3. i \in Nat BY DEF Buffer
        <5>4. b[i] = s.blocks[Block + i] /\ b[i] \in Int BY <3>1, <4>1, <5>1, <1>fields
        <5> QED BY <3>2, <5>2, <5>3, <5>4, <1>1
      <4>2. CASE ~(i < Word)
        <5>1. i \in Nat BY DEF Buffer
        <5> QED BY <3>1, <3>2, <4>2, <5>1, <1>1
      <4> QED BY <4>1, <4>2
    <3> QED BY <3>1, <3>3
  <2> QED BY <2>1, <2>2
<1> HIDE DEF b
<1>6. /\ c \in [Buffer -> Int]
      /\ \A i \in Buffer : c[i] = IF i < end THEN base + i + 1 ELSE 0
  <2>1. c = [i \in Buffer |-> IF s.start <= i /\ i < end
                              THEN Md5!Put(b[i], s.given + 1 + i - s.start) ELSE b[i]]
    BY <1>5
  <2> HIDE DEF c
  <2>2. ASSUME NEW i \in Buffer PROVE c[i] \in Int /\ c[i] = IF i < end THEN base + i + 1 ELSE 0
    <3>0. i \in Nat BY DEF Buffer
    <3>1. CASE i < s.start
      <4>1. c[i] = b[i] BY <2>1, <3>0, <3>1, <1>1
      <4> QED BY <4>1, <3>0, <3>1, <1>1, <1>3, <1>5
    <3>2. CASE s.start <= i /\ i < end
      <4>1. b[i] = 0 BY <3>0, <3>2, <1>1, <1>5
      <4>2. c[i] = s.given + 1 + i - s.start BY <2>1, <3>2, <4>1 DEF Md5!Put, Md5!Or
      <4> QED BY <4>2, <3>0, <3>2, <1>1
    <3>3. CASE s.start <= i /\ ~(i < end)
      <4>1. b[i] = 0 BY <3>0, <3>3, <1>1, <1>5
      <4>2. c[i] = b[i] BY <2>1, <3>3
      <4> QED BY <4>1, <4>2, <3>3
    <3> QED BY <3>0, <3>1, <3>2, <3>3, <1>1
  <2> QED BY <2>1, <2>2
<1>7. Md5!Char(s, w)
      = [blocks |-> c, start |-> start, lastByteIndex |-> end, bytes |-> s.bytes + w,
         hBytes |-> s.hBytes, finalized |-> s.finalized, hashed |-> full, absorbed |-> absorbed,
         given |-> s.given + w]
  <2>1. Md5!Char(s, w)
        = [s EXCEPT !.blocks = c, !.lastByteIndex = end, !.bytes = s.bytes + w,
                    !.given = s.given + w, !.hashed = full, !.start = start, !.absorbed = absorbed]
    BY DEF Md5!Char, b, c
  <2> HIDE DEF c, end, full, start, absorbed
  <2> QED BY <2>1, <1>record
<1> HIDE DEF c
<1>8. full => Md5!Whole(c) = FullBlock(Len(s.absorbed) + 1)
  <2>1. SUFFICES ASSUME full PROVE Md5!Whole(c) = FullBlock(Len(s.absorbed) + 1) OBVIOUS
  <2>given. s.given = Len(s.absorbed) * Block + s.start BY <1>2 DEF Holds
  <2>size. Len(s.absorbed) * Block \in Nat BY <1>4
  <2>2. base = Len(s.absorbed) * Block BY <2>given, <2>size, <1>1
  <2>3. \A i \in 0..(Block - 1) : c[i] = (Len(s.absorbed) + 1 - 1) * Block + i + 1
    <3>1. SUFFICES ASSUME NEW i \in 0..(Block - 1)
                   PROVE  c[i] = (Len(s.absorbed) + 1 - 1) * Block + i + 1
      OBVIOUS
    <3>2. i \in Buffer /\ i < end /\ i \in Nat BY <2>1, <1>3 DEF Buffer
    <3>3. c[i] = base + i + 1 BY <3>2, <1>6
    <3>4. Len(s.absorbed) + 1 - 1 = Len(s.absorbed) BY <1>4
    <3> QED BY <2>2, <3>3, <3>4
  <2> QED BY <2>3 DEF Md5!Whole, FullBlock
<1>9. /\ absorbed \in Seq(FullBlocks)
      /\ Len(absorbed) = IF full THEN Len(s.absorbed) + 1 ELSE Len(s.absorbed)
      /\ \A j \in 1..Len(absorbed) : absorbed[j] = FullBlock(j)
  <2>1. CASE ~full BY <2>1, <1>fields, <1>2 DEF Holds
  <2>2. CASE full
    <3> DEFINE last1 == FullBlock(Len(s.absorbed) + 1)
    <3>1. last1 \in FullBlocks BY <1>4 DEF FullBlocks
    <3>2. absorbed = Append(s.absorbed, last1) BY <2>2, <1>8
    <3> HIDE DEF absorbed
    <3>3. /\ absorbed \in Seq(FullBlocks) /\ Len(absorbed) = Len(s.absorbed) + 1
          /\ \A j \in 1..Len(s.absorbed) : absorbed[j] = s.absorbed[j]
          /\ absorbed[Len(s.absorbed) + 1] = last1
      BY <3>1, <3>2, <1>fields, AppendProperties
    <3>4. ASSUME NEW j \in 1..Len(absorbed) PROVE absorbed[j] = FullBlock(j)
      <4>1. CASE j \in 1..Len(s.absorbed) BY <4>1, <3>3, <1>2 DEF Holds
      <4>2. CASE j = Len(s.absorbed) + 1 BY <4>2, <3>3
      <4> QED BY <4>1, <4>2, <3>3, <1>4
    <3> QED BY <2>2, <3>3, <3>4
  <2> QED BY <2>1, <2>2
<1> HIDE DEF absorbed
<1>10. Md5!Char(s, w) \in Shape
  <2>1. start \in Nat /\ s.bytes + w \in Nat /\ s.given + w \in Nat BY <1>1, <1>3
  <2>2. full \in BOOLEAN OBVIOUS
  <2> HIDE DEF start, full
  <2>3. s.finalized \in {FALSE} BY DEF Good, Shape
  <2>4. end \in Nat /\ c \in [Buffer -> Int] /\ absorbed \in Seq(FullBlocks) BY <1>3, <1>6, <1>9
  <2> HIDE DEF end
  <2>5. [blocks |-> c, start |-> start, lastByteIndex |-> end, bytes |-> s.bytes + w,
         hBytes |-> s.hBytes, finalized |-> s.finalized, hashed |-> full, absorbed |-> absorbed,
         given |-> s.given + w] \in Shape
    BY <1>1, <2>1, <2>2, <2>3, <2>4, ShapeOf
  <2> QED BY <1>7, <2>5
<1>11. Holds(Md5!Char(s, w))
  <2>1. /\ end = IF full THEN start + Block ELSE start
        /\ start < (IF full THEN Word ELSE Block)
    BY <1>1, <1>3
  <2>2. \A i \in Buffer : c[i] = IF i < end THEN (s.given + w) - end + i + 1 ELSE 0
    <3>1. (s.given + w) - end = base BY <1>1, <1>3
    <3> QED BY <3>1, <1>6
  <2>3. s.given + w = Len(absorbed) * Block + start
    <3>1. s.given = Len(s.absorbed) * Block + s.start BY <1>2 DEF Holds
    <3>2. (Len(s.absorbed) + 1) * Block = Len(s.absorbed) * Block + Block BY <1>4
    <3>3. Len(s.absorbed) * Block \in Nat BY <1>4
    <3>4. CASE full
      <4>1. Len(absorbed) * Block = Len(s.absorbed) * Block + Block BY <3>2, <3>4, <1>9
      <4>2. start + Block = s.start + w BY <3>4, <1>1, <1>3
      <4>3. start \in Nat BY <3>4, <1>1, <1>3
      <4> DEFINE p == Len(s.absorbed) * Block
      <4>4. p \in Nat /\ s.given = p + s.start BY <3>1, <3>3
      <4>5. Len(absorbed) * Block = p + Block BY <4>1
      <4>6. w \in Nat BY <1>3
      <4> HIDE DEF start, p
      <4>7. s.given + w = (p + Block) + start BY <4>2, <4>3, <4>4, <4>6, <1>1
      <4> QED BY <4>5, <4>7
    <3>5. CASE ~full
      <4>1. Len(absorbed) * Block = Len(s.absorbed) * Block BY <3>5, <1>9
      <4> QED BY <3>1, <3>3, <3>5, <4>1, <1>1, <1>3
    <3> QED BY <3>4, <3>5
  <2>4. s.given + w = s.hBytes * Radix + (s.bytes + w)
    <3>1. s.given = s.hBytes * Radix + s.bytes BY <1>2 DEF Holds
    <3>2. s.hBytes * Radix \in Nat BY <1>1
    <3> QED BY <3>1, <3>2, <1>1, <1>3
  <2> DEFINE t == Md5!Char(s, w)
  <2> HIDE DEF end, start, full
  <2>5. /\ t.blocks = c /\ t.start = start /\ t.lastByteIndex = end /\ t.bytes = s.bytes + w
        /\ t.hBytes = s.hBytes /\ t.hashed = full /\ t.absorbed = absorbed
        /\ t.given = s.given + w
    BY <1>7
  <2> HIDE DEF t
  <2>6. Holds(t) BY <1>9, <2>1, <2>2, <2>3, <2>4, <2>5 DEF Holds
  <2> QED BY <2>6 DEF t
<1> QED BY <1>10, <1>11 DEF Good

\* Induction on numbers, from the fact that their order is well founded.
LEMMA Induction ==
    ASSUME NEW S, 0 \in S, \A n \in Nat : n \in S => n + 1 \in S
    PROVE  Nat \subseteq S
<1> DEFINE R == OpToRel(<, Nat)
<1> SUFFICES ASSUME Nat \ S # {} PROVE FALSE OBVIOUS
<1>1. IsWellFoundedOn(R, Nat) BY NatLessThanWellFounded
<1>2. \A x, y \in Nat : x < y => <<x, y>> \in R BY DEF OpToRel
<1> HIDE DEF R
<1>3. PICK x \in Nat \ S : \A y \in Nat \ S : ~(<<y, x>> \in R) BY <1>1, WFMin
<1>4. x # 0 /\ x - 1 \in Nat /\ x - 1 < x BY <1>3
<1>5. x - 1 \in S BY <1>2, <1>3, <1>4
<1>6. (x - 1) + 1 = x BY <1>3
<1> QED BY <1>3, <1>4, <1>5, <1>6

\* The function that Fed defines by recursion: what there is after each character.
Turns(s, chunk, f) == f = [i \in 0..Len(chunk) |-> IF i = 0 THEN s ELSE Md5!Char(f[i - 1], chunk[i])]

LEMMA TurnsPointwise ==
    ASSUME NEW s, NEW chunk, Len(chunk) \in Nat, NEW f
    PROVE  Turns(s, chunk, f) <=>
              /\ f = [i \in 0..Len(chunk) |-> f[i]]
              /\ f[0] = s
              /\ \A i \in 1..Len(chunk) : f[i] = Md5!Char(f[i - 1], chunk[i])
<1> DEFINE n == Len(chunk)
           g == [i \in 0..n |-> IF i = 0 THEN s ELSE Md5!Char(f[i - 1], chunk[i])]
<1>1. 0 \in 0..n /\ (\A i \in 1..n : i \in 0..n /\ i # 0) OBVIOUS
<1>2. \A i \in 0..n : i = 0 \/ i \in 1..n OBVIOUS
<1>3. /\ \A i \in 0..n : g[i] = IF i = 0 THEN s ELSE Md5!Char(f[i - 1], chunk[i])
      /\ g = [i \in 0..n |-> g[i]]
  OBVIOUS
<1>4. ASSUME f = g
      PROVE  /\ f = [i \in 0..n |-> f[i]] /\ f[0] = s
             /\ \A i \in 1..n : f[i] = Md5!Char(f[i - 1], chunk[i])
  <2> HIDE DEF g
  <2> QED BY <1>1, <1>3, <1>4
<1>5. ASSUME f = [i \in 0..n |-> f[i]], f[0] = s,
             \A i \in 1..n : f[i] = Md5!Char(f[i - 1], chunk[i])
      PROVE  f = g
  <2>1. \A i \in 0..n : f[i] = IF i = 0 THEN s ELSE Md5!Char(f[i - 1], chunk[i]) BY <1>2, <1>5
  <2>2. [i \in 0..n |-> f[i]] = g BY <2>1
  <2> QED BY <2>2, <1>5
<1> QED BY <1>4, <1>5 DEF Turns

\* There is such a function.
LEMMA TurnsExist ==
    ASSUME NEW s \in Good, NEW chunk \in Seq(1..Word)
    PROVE  \E f : Turns(s, chunk, f)
<1> DEFINE L == Len(chunk)
           Upto(n) == \E f : /\ f = [i \in 0..n |-> f[i]]
                             /\ f[0] = s
                             /\ \A i \in 1..n : f[i] = Md5!Char(f[i - 1], chunk[i])
           S == {n \in Nat : Upto(n)}
<1>1. L \in Nat BY LenProperties
<1>2. 0 \in S
  <2> DEFINE z == [i \in 0..0 |-> s]
  <2>1. z = [i \in 0..0 |-> z[i]] /\ z[0] = s OBVIOUS
  <2>2. \A i \in 1..0 : FALSE OBVIOUS
  <2> HIDE DEF z
  <2>3. Upto(0) BY <2>1, <2>2
  <2> QED BY <2>3
<1>3. ASSUME NEW n \in Nat, n \in S PROVE n + 1 \in S
  <2>1. PICK f : /\ f = [i \in 0..n |-> f[i]]
                 /\ f[0] = s
                 /\ \A i \in 1..n : f[i] = Md5!Char(f[i - 1], chunk[i])
    BY <1>3
  <2> DEFINE g == [i \in 0..(n + 1) |-> IF i = n + 1 THEN Md5!Char(f[n], chunk[n + 1]) ELSE f[i]]
  <2>2. g = [i \in 0..(n + 1) |-> g[i]] OBVIOUS
  <2>3. \A i \in 0..n : i # n + 1 /\ i \in 0..(n + 1) /\ g[i] = f[i] OBVIOUS
  <2>4. g[n + 1] = Md5!Char(f[n], chunk[n + 1]) OBVIOUS
  <2> HIDE DEF g
  <2>5. g[0] = s
    <3>1. 0 \in 0..n OBVIOUS
    <3> QED BY <3>1, <2>1, <2>3
  <2>6. ASSUME NEW i \in 1..(n + 1) PROVE g[i] = Md5!Char(g[i - 1], chunk[i])
    <3>1. CASE i = n + 1
      <4>1. i - 1 = n /\ n \in 0..n BY <3>1
      <4> QED BY <4>1, <3>1, <2>3, <2>4
    <3>2. CASE i # n + 1
      <4>1. i \in 1..n /\ i \in 0..n /\ i - 1 \in 0..n BY <3>2
      <4> QED BY <4>1, <2>1, <2>3
    <3> QED BY <3>1, <3>2
  <2>7. Upto(n + 1) BY <2>2, <2>5, <2>6
  <2> HIDE DEF Upto
  <2> QED BY <2>7
<1> HIDE DEF S
<1>4. Nat \subseteq S BY <1>2, <1>3, Induction
<1>5. Upto(L) BY <1>1, <1>4 DEF S
<1> QED BY <1>1, <1>5, TurnsPointwise

\* A chunk more.
LEMMA FedIsGood ==
    ASSUME NEW s \in Good, NEW chunk \in Seq(1..Word)
    PROVE  Md5!Fed(s, chunk) \in Good
<1> DEFINE L == Len(chunk)
           turn == CHOOSE f : f = [i \in 0..L |-> IF i = 0 THEN s ELSE Md5!Char(f[i - 1], chunk[i])]
           S == {n \in Nat : n <= L => turn[n] \in Good}
<1>1. L \in Nat BY LenProperties
<1>2. Md5!Fed(s, chunk) = turn[L] BY DEF Md5!Fed
<1>3. Turns(s, chunk, turn) BY TurnsExist DEF Turns
<1> HIDE DEF turn
<1>4. turn[0] = s /\ \A i \in 1..L : turn[i] = Md5!Char(turn[i - 1], chunk[i])
  BY <1>1, <1>3, TurnsPointwise
<1>5. 0 \in S BY <1>4
<1>6. ASSUME NEW n \in Nat, n \in S PROVE n + 1 \in S
  <2> SUFFICES ASSUME n + 1 <= L PROVE turn[n + 1] \in Good OBVIOUS
  <2>1. turn[n] \in Good BY <1>1, <1>6
  <2>2. n + 1 \in 1..L /\ (n + 1) - 1 = n BY <1>1
  <2>3. chunk[n + 1] \in 1..Word BY <2>2, ElementOfSeq
  <2> QED BY <2>1, <2>2, <2>3, <1>4, CharIsGood
<1> HIDE DEF S
<1>7. Nat \subseteq S BY <1>5, <1>6, Induction
<1> QED BY <1>1, <1>2, <1>7 DEF S

LEMMA UpdateIsGood ==
    ASSUME NEW s \in Good
    PROVE  [s EXCEPT !.hBytes = @ + s.bytes \div Radix, !.bytes = s.bytes % Radix] \in Good
<1> DEFINE h == s.bytes \div Radix
           l == s.bytes % Radix
           hb == s.hBytes + h
           t == [blocks |-> s.blocks, start |-> s.start, lastByteIndex |-> s.lastByteIndex,
                 bytes |-> l, hBytes |-> hb, finalized |-> s.finalized,
                 hashed |-> s.hashed, absorbed |-> s.absorbed, given |-> s.given]
<1>1. /\ s.start \in Nat /\ s.lastByteIndex \in Nat /\ s.given \in Nat
      /\ s.bytes \in Nat /\ s.hBytes \in Nat
      /\ s.blocks \in [Buffer -> Int] /\ s.finalized \in {FALSE} /\ s.hashed \in BOOLEAN
      /\ s.absorbed \in Seq(FullBlocks)
  BY DEF Good, Shape
<1>2. s = [blocks |-> s.blocks, start |-> s.start, lastByteIndex |-> s.lastByteIndex,
           bytes |-> s.bytes, hBytes |-> s.hBytes, finalized |-> s.finalized,
           hashed |-> s.hashed, absorbed |-> s.absorbed, given |-> s.given]
  BY DEF Good, Shape
<1>3. h \in Nat /\ l \in Nat /\ s.bytes = h * Radix + l
  <2>1. s.bytes \in Nat /\ Radix \in Nat \ {0} BY <1>1, Sizes
  <2>2. h \in Nat /\ l \in 0..(Radix - 1) /\ s.bytes = h * Radix + l BY <2>1, Divided
  <2> HIDE DEF h, l
  <2> QED BY <2>1, <2>2
<1> HIDE DEF h, l
<1>5. hb = s.hBytes + h /\ hb \in Nat BY <1>1, <1>3
<1> HIDE DEF hb
<1>4. [s EXCEPT !.hBytes = hb, !.bytes = l] = t
  <2> DEFINE z == [s EXCEPT !.hBytes = hb, !.bytes = l]
  <2>1. z = [s EXCEPT !.hBytes = hb, !.bytes = l] OBVIOUS
  <2> HIDE DEF z
  <2>2. z = t BY <2>1, <1>2
  <2> QED BY <2>1, <2>2
<1>6. t \in Shape BY <1>1, <1>3, <1>5, ShapeOf
<1>7. s.given = hb * Radix + l
  <2>1. s.given = s.hBytes * Radix + s.bytes BY DEF Good, Holds
  <2>2. (s.hBytes + h) * Radix = s.hBytes * Radix + h * Radix BY <1>1, <1>3, Sizes
  <2>3. s.hBytes * Radix \in Nat /\ h * Radix \in Nat BY <1>1, <1>3, Sizes
  <2> QED BY <2>1, <2>2, <2>3, <1>1, <1>3, <1>5
<1>8. Holds(t)
  <2>1. /\ t.blocks = s.blocks /\ t.start = s.start /\ t.lastByteIndex = s.lastByteIndex
        /\ t.hashed = s.hashed /\ t.absorbed = s.absorbed /\ t.given = s.given
        /\ t.bytes = l /\ t.hBytes = hb
    OBVIOUS
  <2> HIDE DEF t
  <2> QED BY <2>1, <1>7 DEF Good, Holds
<1>9. t \in Good BY <1>6, <1>8 DEF Good
<1> HIDE DEF t
<1> QED BY <1>4, <1>5, <1>9 DEF h, l

-----------------------------------------------------------------------------
\* The blocks of a padded message: how many, and what is in each.
Count(n) == (n + 1 + 2 * Word + Block - 1) \div Block
Bytes(n, o, size) ==
    [i \in 0..(size - 1) |-> IF o + i < n THEN o + i + 1 ELSE IF o + i = n THEN Md5!Pad ELSE 0]
WholeBlock(n, j) == [data |-> Bytes(n, (j - 1) * Block, Block), length |-> <<>>]
LastBlock(n, j) == [data |-> Bytes(n, (j - 1) * Block, Md5!Tail14),
                    length |-> <<(8 * n) % Radix, (8 * n) \div Radix>>]

LEMMA LastBlockOf ==
    ASSUME NEW n, NEW j, NEW data, NEW length, data = Bytes(n, (j - 1) * Block, Md5!Tail14),
           length = <<(8 * n) % Radix, (8 * n) \div Radix>>
    PROVE  [data |-> data, length |-> length] = LastBlock(n, j)
BY Zenon DEF LastBlock

LEMMA PaddedIs ==
    ASSUME NEW n
    PROVE  Md5!Padded(n) = [j \in 1..Count(n) |-> IF j < Count(n) THEN WholeBlock(n, j)
                                                                  ELSE LastBlock(n, j)]
BY DEF Md5!Padded, Count, WholeBlock, LastBlock, Bytes

LEMMA PaddedSequence ==
    ASSUME NEW n, NEW S, NEW q \in Seq(S), NEW x \in S, Count(n) = Len(q) + 1,
           \A j \in 1..Len(q) : q[j] = WholeBlock(n, j), x = LastBlock(n, Len(q) + 1)
    PROVE  q \o <<x>> = Md5!Padded(n)
<1> DEFINE p == q \o <<x>>
           L == Len(q)
           r == [j \in 1..Count(n) |-> IF j < Count(n) THEN WholeBlock(n, j) ELSE LastBlock(n, j)]
<1>1. L \in Nat BY LenProperties
<1>2. <<x>> \in Seq(S) /\ Len(<<x>>) = 1 /\ <<x>>[1] = x OBVIOUS
<1>3. /\ p \in Seq(S) /\ Len(p) = L + 1
      /\ \A i \in 1..(L + 1) : p[i] = IF i <= L THEN q[i] ELSE <<x>>[i - L]
  BY <1>1, <1>2, ConcatProperties
<1> HIDE DEF p
<1>4. ASSUME NEW i \in 1..(L + 1)
      PROVE  p[i] = IF i < Count(n) THEN WholeBlock(n, i) ELSE LastBlock(n, i)
  <2>1. CASE i <= L
    <3>1. i \in 1..L /\ i < Count(n) BY <2>1, <1>1
    <3> QED BY <3>1, <2>1, <1>3
  <2>2. CASE i = L + 1
    <3>1. ~(i <= L) /\ i - L = 1 /\ ~(i < Count(n)) BY <2>2, <1>1
    <3> QED BY <3>1, <2>2, <1>2, <1>3
  <2> QED BY <2>1, <2>2, <1>1
<1>5. p = [i \in 1..(L + 1) |-> p[i]]
  BY <1>3, LenProperties
<1>6. [i \in 1..(L + 1) |-> p[i]] = r BY <1>4
<1>7. p = r BY <1>5, <1>6
<1> QED BY <1>7, PaddedIs DEF p

\* The length, in two words.
LEMMA LengthInBits ==
    ASSUME NEW s \in Good
    PROVE  /\ (s.bytes * 8) % Radix = (8 * s.given) % Radix
           /\ s.hBytes * 8 + (s.bytes * 8) \div Radix = (8 * s.given) \div Radix
<1>1. s.bytes \in Nat /\ s.hBytes \in Nat /\ s.given \in Nat BY DEF Good, Shape
<1>2. s.given = s.hBytes * Radix + s.bytes BY DEF Good, Holds
<1> DEFINE a == s.hBytes * 8
           b == s.bytes * 8
<1>3. a \in Nat /\ b \in Nat BY <1>1
<1>4. 8 * s.given = a * Radix + b
  <2>1. a * Radix = 8 * (s.hBytes * Radix) BY <1>1, Sizes
  <2>2. s.hBytes * Radix \in Nat BY <1>1, Sizes
  <2> QED BY <2>1, <2>2, <1>1, <1>2
<1> HIDE DEF a, b
<1>5. (a * Radix + b) % Radix = b % Radix /\ (a * Radix + b) \div Radix = a + (b \div Radix)
  BY <1>3, Sizes, MoreWholes
<1> QED BY <1>4, <1>5 DEF a, b

\* How many blocks there are.
LEMMA CountIs ==
    ASSUME NEW L \in Nat, NEW start \in 0..(Block - 1), NEW n, n = L * Block + start
    PROVE  Count(n) = IF start < Md5!Tail14 THEN L + 1 ELSE L + 2
<1> USE Sizes
<1> DEFINE r == start + 2 * Word
           a == L + 1
           p == L * Block
<1>1. a \in Nat /\ r \in Nat /\ r < 2 * Block /\ p \in Nat /\ a * Block = p + Block OBVIOUS
<1>2. n + 1 + 2 * Word + Block - 1 = a * Block + r
  <2> HIDE DEF a, p
  <2>1. n = p + start BY DEF p
  <2> QED BY <2>1, <1>1
<1>3. Count(n) = (a * Block + r) \div Block BY <1>2 DEF Count
<1>4. (a * Block + r) \div Block = a + (r \div Block)
  <2> HIDE DEF a, r
  <2> QED BY <1>1, MoreWholes
<1>5. CASE start < Md5!Tail14
  <2>1. r \in 0..(Block - 1) BY <1>5, <1>1 DEF Md5!Tail14
  <2>2. r = 0 * Block + r BY <1>1
  <2> HIDE DEF r, a
  <2>3. r \div Block = 0 BY <2>1, <2>2, Division
  <2> QED BY <1>1, <1>3, <1>4, <1>5, <2>3 DEF a
<1>6. CASE ~(start < Md5!Tail14)
  <2>1. r - Block \in 0..(Block - 1) BY <1>6, <1>1 DEF Md5!Tail14
  <2>2. r = 1 * Block + (r - Block) BY <1>1
  <2> HIDE DEF r, a
  <2>3. r \div Block = 1 BY <2>1, <2>2, Division
  <2> QED BY <1>1, <1>3, <1>4, <1>6, <2>3 DEF a
<1> QED BY <1>5, <1>6

\* What was compressed before the end is the message.
LEMMA FullBlocksOf ==
    ASSUME NEW L \in Nat, NEW j \in 1..L, NEW n \in Nat, n >= L * Block
    PROVE  FullBlock(j) = WholeBlock(n, j)
<1> USE Sizes
<1> DEFINE o == (j - 1) * Block
<1>1. o + Block <= n /\ o \in Nat
  <2>1. o + Block = j * Block /\ o \in Nat OBVIOUS
  <2>2. (L - j) * Block \in Nat OBVIOUS
  <2>3. (L - j) * Block = L * Block - j * Block OBVIOUS
  <2>4. j * Block \in Nat /\ L * Block \in Nat OBVIOUS
  <2> QED BY <2>1, <2>2, <2>3, <2>4
<1> HIDE DEF o
<1>2. \A i \in 0..(Block - 1) : o + i < n BY <1>1
<1>3. [i \in 0..(Block - 1) |-> o + i + 1] = Bytes(n, o, Block) BY <1>2 DEF Bytes
<1> QED BY <1>3 DEF FullBlock, WholeBlock, o

LEMMA Shifted ==
    ASSUME NEW a \in Nat, NEW p \in Nat, NEW n, n = p + a, NEW i \in Int
    PROVE  (i < a <=> p + i < n) /\ (i = a <=> p + i = n)
<1>1. i < a <=> p + i < n OBVIOUS
<1>2. i = a <=> p + i = n OBVIOUS
<1> QED BY <1>1, <1>2

\* What finalize adds is the rest of the padded message.
LEMMA FinalizePads ==
    ASSUME md \in Good, Md5!Finalize
    PROVE  md'.finalized = TRUE /\ md'.absorbed = Md5!Padded(md'.given)
<1> USE Sizes
<1> DEFINE n == md.given
           L == Len(md.absorbed)
           p == L * Block
           at == md.lastByteIndex
           b == [md.blocks EXCEPT ![at] = Md5!Or(@, Md5!Pad)]
           more == at >= Md5!Tail14
           c == IF more THEN Md5!NextBlock(b) ELSE b
           length == <<(md.bytes * 8) % Radix, md.hBytes * 8 + (md.bytes * 8) \div Radix>>
           x == [data |-> [i \in 0..(Md5!Tail14 - 1) |-> c[i]], length |-> length]
           q == IF more /\ ~md.hashed THEN Append(md.absorbed, Md5!Whole(b)) ELSE md.absorbed
<1>1. /\ md.start \in Nat /\ at \in Nat /\ n \in Nat /\ md.hashed \in BOOLEAN
      /\ md.blocks \in [Buffer -> Int] /\ md.absorbed \in Seq(FullBlocks)
  BY DEF Good, Shape
<1>2. Holds(md) BY DEF Good
<1>3. L \in Nat /\ p \in Nat /\ n = p + md.start
  <2>1. L \in Nat BY <1>1, LenProperties
  <2>2. n = p + md.start BY <1>2 DEF Holds
  <2> QED BY <2>1, <2>2
<1>4. md'.finalized = TRUE /\ md'.absorbed = q \o <<x>> /\ md'.given = n
  <2>1. md' = [md EXCEPT !.finalized = TRUE, !.blocks = c, !.absorbed = q \o <<x>>]
    BY DEF Md5!Finalize
  <2>2. md = [blocks |-> md.blocks, start |-> md.start, lastByteIndex |-> md.lastByteIndex,
              bytes |-> md.bytes, hBytes |-> md.hBytes, finalized |-> md.finalized,
              hashed |-> md.hashed, absorbed |-> md.absorbed, given |-> md.given]
    BY DEF Good, Shape
  <2> HIDE DEF c, q, x
  <2> QED BY <2>1, <2>2
<1>5. md.start < Block /\ at = (IF md.hashed THEN md.start + Block ELSE md.start) /\ at \in Buffer
      /\ (md.hashed => md.start < Word)
  <2>1. /\ at = IF md.hashed THEN md.start + Block ELSE md.start
        /\ md.start < (IF md.hashed THEN Word ELSE Block)
    BY <1>2 DEF Holds
  <2> QED BY <2>1, <1>1 DEF Buffer
<1>6. /\ DOMAIN b = Buffer
      /\ \A i \in Buffer : b[i] = IF i < at THEN n - at + i + 1 ELSE IF i = at THEN Md5!Pad ELSE 0
  <2>1. \A i \in Buffer : md.blocks[i] = IF i < at THEN n - at + i + 1 ELSE 0
    BY <1>2 DEF Holds
  <2>2. md.blocks[at] = 0 BY <2>1, <1>1, <1>5
  <2>3. b = [i \in Buffer |-> IF i = at THEN Md5!Pad ELSE md.blocks[i]]
    BY <2>2, <1>1, <1>5 DEF Md5!Or
  <2> HIDE DEF b
  <2> QED BY <2>1, <2>3, <1>1
<1> HIDE DEF b
<1>7. more => /\ \A i \in 0..(Word - 1) : c[i] = b[Block + i]
              /\ \A i \in Buffer : i >= Word => c[i] = 0
  <2>1. SUFFICES ASSUME more PROVE /\ \A i \in 0..(Word - 1) : c[i] = b[Block + i]
                                   /\ \A i \in Buffer : i >= Word => c[i] = 0
    OBVIOUS
  <2>2. c = [i \in Buffer |-> IF i < Word THEN b[Block + i] ELSE 0]
    BY <2>1, <1>6 DEF Md5!NextBlock
  <2> HIDE DEF c
  <2> QED BY <2>2 DEF Buffer
<1>8. Count(n) = IF md.start < Md5!Tail14 THEN L + 1 ELSE L + 2
  <2>1. md.start \in 0..(Block - 1) BY <1>1, <1>5
  <2> HIDE DEF n, L
  <2> QED BY <2>1, <1>3, CountIs DEF p
<1>product. p = L * Block OBVIOUS
<1> HIDE DEF p
<1>9. length = <<(8 * n) % Radix, (8 * n) \div Radix>> BY LengthInBits
<1> HIDE DEF c, length
<1>10. \A j \in 1..L : md.absorbed[j] = WholeBlock(n, j)
  <2> SUFFICES ASSUME NEW j \in 1..L PROVE md.absorbed[j] = WholeBlock(n, j) OBVIOUS
  <2>1. md.absorbed[j] = FullBlock(j) BY <1>2 DEF Holds
  <2>2. n >= L * Block BY <1>1, <1>3, <1>product
  <2> HIDE DEF n, L
  <2>3. FullBlock(j) = WholeBlock(n, j) BY <2>2, <1>1, <1>3, FullBlocksOf
  <2> QED BY <2>1, <2>3
<1>11. q \o <<x>> = Md5!Padded(n)
  <2>1. CASE md.start < Md5!Tail14
    <3>1. q = md.absorbed BY <2>1, <1>1, <1>5 DEF Md5!Tail14
    <3>2. Count(n) = L + 1 BY <2>1, <1>8
    <3>3. ASSUME NEW i \in 0..(Md5!Tail14 - 1)
          PROVE  c[i] = IF p + i < n THEN p + i + 1 ELSE IF p + i = n THEN Md5!Pad ELSE 0
      <4>0. i \in Nat /\ i \in Buffer /\ i < Md5!Tail14 BY DEF Md5!Tail14, Buffer
      <4>1. CASE ~md.hashed
        <5>1. c = b BY <4>1, <2>1, <1>1, <1>5 DEF c, Md5!Tail14
        <5>2. n - at = p BY <4>1, <1>1, <1>3, <1>5
        <5> HIDE DEF n, at
        <5>3. (i < at <=> p + i < n) /\ (i = at <=> p + i = n)
          BY <4>0, <4>1, <1>1, <1>3, <1>5, Shifted
        <5> QED BY <5>1, <5>2, <5>3, <4>0, <1>6
      <4>2. CASE md.hashed
        <5>1. more BY <4>2, <1>1, <1>5 DEF Md5!Tail14
        <5>2. at = md.start + Block /\ md.start < Word BY <4>2, <1>5
        <5>3. CASE i < Word
          <6>1. c[i] = b[Block + i] /\ Block + i \in Buffer BY <5>1, <5>3, <4>0, <1>7 DEF Buffer
          <6>2. n - at + (Block + i) + 1 = p + i + 1 BY <5>2, <4>0, <1>1, <1>3
          <6>3. (Block + i < at <=> p + i < n) /\ (Block + i = at <=> p + i = n)
            <7>1. (Block + i < at <=> i < md.start) /\ (Block + i = at <=> i = md.start)
              <8>1. Block + i < at <=> i < md.start BY <5>2, <4>0, <1>1
              <8>2. Block + i = at <=> i = md.start BY <5>2, <4>0, <1>1
              <8> QED BY <8>1, <8>2
            <7> HIDE DEF n, at
            <7>2. (i < md.start <=> p + i < n) /\ (i = md.start <=> p + i = n)
              BY <4>0, <1>1, <1>3, Shifted
            <7> QED BY <7>1, <7>2
          <6>4. b[Block + i] = IF Block + i < at THEN n - at + (Block + i) + 1
                               ELSE IF Block + i = at THEN Md5!Pad ELSE 0
            BY <6>1, <1>6
          <6> HIDE DEF n, at
          <6> QED BY <6>1, <6>2, <6>3, <6>4
        <5>4. CASE ~(i < Word)
          <6>1. c[i] = 0 BY <5>1, <5>4, <4>0, <1>7
          <6>2. ~(p + i < n) /\ p + i # n BY <5>2, <5>4, <4>0, <1>1, <1>3
          <6> QED BY <6>1, <6>2
        <5> QED BY <5>3, <5>4
      <4> QED BY <4>1, <4>2
    <3>4. (L + 1 - 1) * Block = p BY <1>3, <1>product
    <3>5. [i \in 0..(Md5!Tail14 - 1) |-> c[i]] = Bytes(n, p, Md5!Tail14)
      <4> HIDE DEF n
      <4> QED BY <3>3 DEF Bytes
    <3>6. x = LastBlock(n, L + 1)
      <4> DEFINE data == [i \in 0..(Md5!Tail14 - 1) |-> c[i]]
                 j == L + 1
                 o == (j - 1) * Block
      <4>1. data = Bytes(n, o, Md5!Tail14)
        <5>1. o = p BY <3>4
        <5> HIDE DEF o
        <5> QED BY <3>5, <5>1
      <4>2. x = [data |-> data, length |-> length] OBVIOUS
      <4> HIDE DEF data, x, n, j
      <4>3. [data |-> data, length |-> length] = LastBlock(n, j) BY <4>1, <1>9, LastBlockOf
      <4> QED BY <4>2, <4>3 DEF j
    <3> DEFINE S == FullBlocks \cup {x}
    <3>7. md.absorbed \in Seq(S) /\ x \in S BY <1>1
    <3> HIDE DEF x, S, n
    <3>8. md.absorbed \o <<x>> = Md5!Padded(n)
      BY <3>2, <3>6, <3>7, <1>10, PaddedSequence
    <3> QED BY <3>1, <3>8
  <2>2. CASE ~(md.start < Md5!Tail14)
    <3>0. ~md.hashed
      <4> SUFFICES ASSUME md.hashed PROVE FALSE OBVIOUS
      <4>1. md.start < Word BY <1>5
      <4> QED BY <4>1, <2>2, <1>1 DEF Md5!Tail14
    <3>1. more /\ at = md.start /\ n - at = p
      BY <2>2, <3>0, <1>1, <1>3, <1>5 DEF Md5!Tail14
    <3>2. Count(n) = L + 2 BY <2>2, <1>8
    <3> DEFINE y == Md5!Whole(b)
    <3>3. ASSUME NEW i \in 0..(Block - 1)
          PROVE  b[i] = IF p + i < n THEN p + i + 1 ELSE IF p + i = n THEN Md5!Pad ELSE 0
      <4>1. i \in Nat /\ i \in Buffer BY DEF Buffer
      <4> HIDE DEF n, at
      <4>2. (i < at <=> p + i < n) /\ (i = at <=> p + i = n) BY <4>1, <3>1, <1>1, <1>3, Shifted
      <4> QED BY <4>1, <4>2, <3>1, <1>6
    <3>4. (L + 1 - 1) * Block = p BY <1>3, <1>product
    <3>5. y = WholeBlock(n, L + 1)
      <4>1. [i \in 0..(Block - 1) |-> b[i]] = Bytes(n, p, Block)
        <5> HIDE DEF n
        <5> QED BY <3>3 DEF Bytes
      <4> QED BY <3>4, <4>1 DEF Md5!Whole, WholeBlock
    <3>6. ASSUME NEW i \in 0..(Md5!Tail14 - 1) PROVE c[i] = 0
      <4>1. i \in Nat /\ i \in Buffer BY DEF Md5!Tail14, Buffer
      <4>2. CASE i < Word
        <5>1. c[i] = b[Block + i] /\ Block + i \in Buffer BY <3>1, <4>1, <4>2, <1>7 DEF Buffer
        <5>2. ~(Block + i < at) /\ Block + i # at BY <3>1, <4>1, <1>1, <1>5
        <5> QED BY <5>1, <5>2, <1>6
      <4>3. CASE ~(i < Word) BY <4>1, <4>3, <3>1, <1>7
      <4> QED BY <4>2, <4>3
    <3>7. (L + 2 - 1) * Block = p + Block
      <4>1. L + 2 - 1 = L + 1 /\ (L + 1) * Block = p + Block BY <1>3, <1>product
      <4> QED BY <4>1
    <3>8. ASSUME NEW i \in 0..(Md5!Tail14 - 1)
          PROVE  ~((p + Block) + i < n) /\ (p + Block) + i # n
      <4>1. i \in Nat BY DEF Md5!Tail14
      <4> QED BY <4>1, <1>1, <1>3, <1>5
    <3>9. [i \in 0..(Md5!Tail14 - 1) |-> c[i]] = Bytes(n, p + Block, Md5!Tail14)
      <4> HIDE DEF n
      <4> QED BY <3>6, <3>8 DEF Bytes
    <3>10. x = LastBlock(n, L + 2)
      <4> DEFINE data == [i \in 0..(Md5!Tail14 - 1) |-> c[i]]
                 j == L + 2
                 o == (j - 1) * Block
      <4>1. data = Bytes(n, o, Md5!Tail14)
        <5>1. o = p + Block BY <3>7
        <5> HIDE DEF o
        <5> QED BY <3>9, <5>1
      <4>2. x = [data |-> data, length |-> length] OBVIOUS
      <4> HIDE DEF data, x, n, j
      <4>3. [data |-> data, length |-> length] = LastBlock(n, j) BY <4>1, <1>9, LastBlockOf
      <4> QED BY <4>2, <4>3 DEF j
    <3> DEFINE S == FullBlocks \cup {x, y}
    <3>11. md.absorbed \in Seq(S) /\ x \in S /\ y \in S BY <1>1
    <3>12. q = Append(md.absorbed, y) BY <3>0, <3>1
    <3> HIDE DEF x, y, S, n, q
    <3>13. /\ q \in Seq(S) /\ Len(q) = L + 1
           /\ \A j \in 1..L : q[j] = md.absorbed[j]
           /\ q[L + 1] = y
      BY <3>11, <3>12, AppendProperties
    <3>14. \A j \in 1..Len(q) : q[j] = WholeBlock(n, j)
      <4> SUFFICES ASSUME NEW j \in 1..Len(q) PROVE q[j] = WholeBlock(n, j) OBVIOUS
      <4>1. CASE j \in 1..L BY <4>1, <3>13, <1>10
      <4>2. CASE j = L + 1 BY <4>2, <3>5, <3>13
      <4> QED BY <4>1, <4>2, <3>13, <1>3
    <3>15. Count(n) = Len(q) + 1 /\ x = LastBlock(n, Len(q) + 1)
      <4>1. Len(q) + 1 = L + 2 BY <3>13, <1>3
      <4> QED BY <4>1, <3>2, <3>10
    <3> QED BY <3>11, <3>13, <3>14, <3>15, PaddedSequence
  <2> QED BY <2>1, <2>2
<1> HIDE DEF n, q, x
<1> QED BY <1>4, <1>11

-----------------------------------------------------------------------------
DigestInv ==
    /\ md.finalized \in BOOLEAN
    /\ ~md.finalized => md \in Good
    /\ DigestIsPadded

LEMMA DigestBegins == Md5!Init => DigestInv
<1>1. Md5!Fresh.finalized = FALSE BY DEF Md5!Fresh
<1> QED BY <1>1, FreshIsGood DEF Md5!Init, DigestInv, DigestIsPadded, Md5!DigestIsPadded

LEMMA GoodInUse == ASSUME NEW s \in Good PROVE s.finalized = FALSE
BY DEF Good, Shape

LEMMA DigestNext == DigestInv /\ [Md5!Next]_Md5!vars => DigestInv'
<1> SUFFICES ASSUME DigestInv, [Md5!Next]_Md5!vars PROVE DigestInv' OBVIOUS
<1>1. CASE Md5!Begin
  <2>1. md' \in Good BY <1>1, FreshIsGood DEF Md5!Begin
  <2> QED BY <2>1, GoodInUse DEF DigestInv, DigestIsPadded, Md5!DigestIsPadded
<1>2. ASSUME NEW chunk \in Chunks, Md5!Update(chunk) PROVE DigestInv'
  <2>1. md \in Good BY <1>2 DEF DigestInv, Md5!Update
  <2>2. chunk \in Seq(1..Word) BY LimitsAssumption DEF Md5!DigestAssumption
  <2>3. Md5!Fed(md, chunk) \in Good BY <2>1, <2>2, FedIsGood
  <2>4. md' \in Good BY <2>3, <1>2, UpdateIsGood DEF Md5!Update
  <2> QED BY <2>4, GoodInUse DEF DigestInv, DigestIsPadded, Md5!DigestIsPadded
<1>3. CASE Md5!Finalize
  <2>1. md \in Good BY <1>3 DEF DigestInv, Md5!Finalize
  <2>2. md'.finalized = TRUE /\ md'.absorbed = Md5!Padded(md'.given) BY <2>1, <1>3, FinalizePads
  <2> QED BY <2>2 DEF DigestInv, DigestIsPadded, Md5!DigestIsPadded
<1>4. CASE UNCHANGED Md5!vars
  <2>1. md' = md BY <1>4 DEF Md5!vars
  <2> QED BY <2>1 DEF DigestInv, DigestIsPadded, Md5!DigestIsPadded
<1> QED BY <1>1, <1>2, <1>3, <1>4 DEF Md5!Next

\* However a message is cut up, what is digested is the message, padded.
THEOREM MessagesArePadded == Md5!Spec => []DigestIsPadded
<1>1. DigestInv => DigestIsPadded BY DEF DigestInv
<1> QED BY <1>1, DigestBegins, DigestNext, PTL DEF Md5!Spec

-----------------------------------------------------------------------------
(***************************************************************************)
(* Generators.  RegeneratorProofs is instantiated as Regenerator is; that  *)
(* both instances say the same follows definition by definition, first of  *)
(* the runtime, then of structured control flow.                           *)
(***************************************************************************)
GenProofs == INSTANCE RegeneratorProofs WITH out <- answer

LEMMA BodiesAgree == GenProofs!GeneratorAssumption
BY GeneratorsAssumption DEF Gen!GeneratorAssumption, GenProofs!GeneratorAssumption,
       Gen!WellFormed, GenProofs!WellFormed, Gen!Followed, GenProofs!Followed, Gen!Crosses,
       GenProofs!Crosses, Gen!Jumps, GenProofs!Jumps, Gen!Instruction, GenProofs!Instruction,
       Gen!Statement, GenProofs!Statement, Gen!Blocks, GenProofs!Blocks, Gen!Borders,
       GenProofs!Borders, Gen!Region, GenProofs!Region, Gen!BodyEnd, GenProofs!BodyEnd,
       Gen!CatchEnd, GenProofs!CatchEnd, Gen!Ops, GenProofs!Ops, Gen!Start, GenProofs!Start

LEMMA RuntimesAgree ==
  /\ Gen!Init => GenProofs!Init
  /\ [Gen!Next]_Gen!vars => [GenProofs!Next]_GenProofs!vars
  /\ GenProofs!TypeOK => Gen!TypeOK
<1>1. Gen!Init => GenProofs!Init
  BY DEF Gen!Init, GenProofs!Init, Gen!Start, GenProofs!Start, Gen!Normal, GenProofs!Normal,
         Gen!None, GenProofs!None
<1>2. /\ Gen!Start = GenProofs!Start /\ Gen!End = GenProofs!End /\ Gen!None = GenProofs!None
      /\ Gen!Given = GenProofs!Given /\ Gen!Inner = GenProofs!Inner
      /\ Gen!Normal = GenProofs!Normal /\ Gen!Instr = GenProofs!Instr
      /\ Gen!InnerAnswers = GenProofs!InnerAnswers
  BY DEF Gen!Start, GenProofs!Start, Gen!Normal, GenProofs!Normal, Gen!None, GenProofs!None,
         Gen!Given, GenProofs!Given, Gen!Inner, GenProofs!Inner, Gen!End, GenProofs!End,
         Gen!Instr, GenProofs!Instr, Gen!InnerAnswers, GenProofs!InnerAnswers
<1>3. ASSUME NEW c, NEW e
      PROVE  Gen!DispatchException(c, e) = GenProofs!DispatchException(c, e)
  BY DEF Gen!DispatchException, GenProofs!DispatchException, Gen!Max, GenProofs!Max, Gen!End,
         GenProofs!End, Gen!None, GenProofs!None
<1>4. \A c, r, l : Gen!Complete(c, r, l) = GenProofs!Complete(c, r, l)
  BY <1>2 DEF Gen!Complete, GenProofs!Complete
<1>5. ASSUME NEW c, NEW r, NEW l
      PROVE  Gen!Abrupt(c, r, l) = GenProofs!Abrupt(c, r, l)
  BY DEF Gen!Abrupt, GenProofs!Abrupt, Gen!Complete, GenProofs!Complete, Gen!Max, GenProofs!Max,
         Gen!End, GenProofs!End, Gen!None, GenProofs!None
<1>6. \A c, q : Gen!MoveTo(c, q) <=> GenProofs!MoveTo(c, q)
  BY DEF Gen!MoveTo, GenProofs!MoveTo
<1>7. \A c : Gen!Loop(c) <=> GenProofs!Loop(c)
  BY <1>2, <1>3, <1>5, <1>6 DEF Gen!Loop, GenProofs!Loop, Gen!Answer, GenProofs!Answer
<1>8. \A c, k : Gen!Delegate(c, k) <=> GenProofs!Delegate(c, k)
  BY <1>2, <1>7 DEF Gen!Delegate, GenProofs!Delegate, Gen!Answer, GenProofs!Answer
<1>9. \A x : Gen!Invoke(x) <=> GenProofs!Invoke(x)
  BY <1>2, <1>7, <1>8 DEF Gen!Invoke, GenProofs!Invoke, Gen!Answer, GenProofs!Answer
<1>10. Gen!Next => GenProofs!Next
  BY <1>2, <1>3, <1>4, <1>5, <1>6, <1>7, <1>8, <1>9 DEF Gen!Next, GenProofs!Next, Gen!Answer,
         GenProofs!Answer, Gen!BodyThrew, GenProofs!BodyThrew, Gen!Op, GenProofs!Op, Gen!Plain,
         GenProofs!Plain, Gen!Try, GenProofs!Try, Gen!Throw, GenProofs!Throw, Gen!Return,
         GenProofs!Return, Gen!Jump, GenProofs!Jump, Gen!Catch, GenProofs!Catch, Gen!EndBlock,
         GenProofs!EndBlock, Gen!Yield, GenProofs!Yield, Gen!DelegateYield,
         GenProofs!DelegateYield
<1>11. GenProofs!TypeOK => Gen!TypeOK
  BY DEF Gen!TypeOK, GenProofs!TypeOK, Gen!Contexts, GenProofs!Contexts, Gen!Record,
         GenProofs!Record, Gen!Normal, GenProofs!Normal, Gen!End, GenProofs!End
<1>12. Gen!vars = GenProofs!vars /\ Gen!vars' = GenProofs!vars' BY DEF Gen!vars, GenProofs!vars
<1> QED BY <1>1, <1>10, <1>11, <1>12

LEMMA TextsAgree ==
  /\ GenProofs!Lexical!Init => Gen!Lexical!Init
  /\ [GenProofs!Lexical!Next]_GenProofs!Lexical!vars => [Gen!Lexical!Next]_Gen!Lexical!vars
<1>1. Gen!Text = GenProofs!Text /\ Gen!Text' = GenProofs!Text'
  BY DEF Gen!Text, GenProofs!Text, Gen!Region, GenProofs!Region, Gen!BodyEnd, GenProofs!BodyEnd,
         Gen!CatchEnd, GenProofs!CatchEnd, Gen!Start, GenProofs!Start
<1>2. Gen!Place = GenProofs!Place /\ Gen!Place' = GenProofs!Place'
  BY DEF Gen!Place, GenProofs!Place, Gen!Live, GenProofs!Live
<1>3. Gen!Mode = GenProofs!Mode /\ Gen!Mode' = GenProofs!Mode'
  BY DEF Gen!Mode, GenProofs!Mode
<1>4. Gen!Normal = GenProofs!Normal
  BY DEF Gen!Normal, GenProofs!Normal
<1>5. Gen!Pending = GenProofs!Pending /\ Gen!Pending' = GenProofs!Pending'
  BY DEF Gen!Pending, GenProofs!Pending, Gen!Text, GenProofs!Text, Gen!Region, GenProofs!Region,
         Gen!BodyEnd, GenProofs!BodyEnd, Gen!CatchEnd, GenProofs!CatchEnd, Gen!Start,
         GenProofs!Start, Gen!Live, GenProofs!Live, Gen!EntryOf, GenProofs!EntryOf, Gen!Normal,
         GenProofs!Normal
<1>6. Gen!Lexical!vars = GenProofs!Lexical!vars /\ Gen!Lexical!vars' = GenProofs!Lexical!vars'
  BY <1>1, <1>2, <1>3, <1>5 DEF Gen!Lexical!vars, GenProofs!Lexical!vars
<1>7. /\ Gen!Lexical!None = GenProofs!Lexical!None /\ Gen!Lexical!Given = GenProofs!Lexical!Given
      /\ Gen!Lexical!Inner = GenProofs!Lexical!Inner
      /\ Gen!Lexical!Normal = GenProofs!Lexical!Normal
      /\ Gen!Lexical!Nothing = GenProofs!Lexical!Nothing
  BY DEF Gen!Lexical!None, GenProofs!Lexical!None, Gen!Lexical!Given, GenProofs!Lexical!Given,
         Gen!Lexical!Inner, GenProofs!Lexical!Inner, Gen!Lexical!Normal, GenProofs!Lexical!Normal,
         Gen!Lexical!Nothing, GenProofs!Lexical!Nothing
<1>8. Gen!Lexical!Instr = GenProofs!Lexical!Instr
  BY <1>1, <1>2 DEF Gen!Lexical!Instr, GenProofs!Lexical!Instr
<1>9. Gen!Lexical!Idle = GenProofs!Lexical!Idle /\ Gen!Lexical!Idle' = GenProofs!Lexical!Idle'
  BY <1>1, <1>7 DEF Gen!Lexical!Idle, GenProofs!Lexical!Idle
<1>10. \A x : Gen!Lexical!Guards(x) = GenProofs!Lexical!Guards(x)
  BY <1>1 DEF Gen!Lexical!Guards, GenProofs!Lexical!Guards
<1>11. \A x : Gen!Lexical!Finals(x) = GenProofs!Lexical!Finals(x)
  BY <1>1 DEF Gen!Lexical!Finals, GenProofs!Lexical!Finals
<1>12. \A x : Gen!Lexical!Around(x) = GenProofs!Lexical!Around(x)
  BY <1>1 DEF Gen!Lexical!Around, GenProofs!Lexical!Around
<1>13. \A x : Gen!Lexical!Innermost(x) = GenProofs!Lexical!Innermost(x)
  BY DEF Gen!Lexical!Innermost, GenProofs!Lexical!Innermost
<1>14. \A x : Gen!Lexical!Max(x) = GenProofs!Lexical!Max(x)
  BY DEF Gen!Lexical!Max, GenProofs!Lexical!Max
<1>15. \A x, y : Gen!Lexical!At(x, y) <=> GenProofs!Lexical!At(x, y)
  BY <1>1, <1>2, <1>5, <1>7 DEF Gen!Lexical!At, GenProofs!Lexical!At
<1>16. \A x : Gen!Lexical!Stop(x) <=> GenProofs!Lexical!Stop(x)
  BY <1>1, <1>2, <1>3, <1>5, <1>9 DEF Gen!Lexical!Stop, GenProofs!Lexical!Stop
<1>17. Gen!Lexical!Keep <=> GenProofs!Lexical!Keep
  BY <1>3 DEF Gen!Lexical!Keep, GenProofs!Lexical!Keep
<1>18. \A x : Gen!Lexical!Raise(x) <=> GenProofs!Lexical!Raise(x)
  BY <1>2, <1>5, <1>10, <1>13, <1>14, <1>15, <1>16, <1>17 DEF Gen!Lexical!Raise,
         GenProofs!Lexical!Raise
<1>19. \A x, y : Gen!Lexical!Through(x, y) <=> GenProofs!Lexical!Through(x, y)
  BY <1>5, <1>13, <1>15, <1>17 DEF Gen!Lexical!Through, GenProofs!Lexical!Through
<1>20. \A x : Gen!Lexical!Return(x) <=> GenProofs!Lexical!Return(x)
  BY <1>2, <1>5, <1>11, <1>19, <1>16, <1>17 DEF Gen!Lexical!Return, GenProofs!Lexical!Return
<1>21. \A x : Gen!Lexical!Go(x) <=> GenProofs!Lexical!Go(x)
  BY <1>17, <1>15, <1>5 DEF Gen!Lexical!Go, GenProofs!Lexical!Go
<1>22. \A x : Gen!Lexical!Jump(x) <=> GenProofs!Lexical!Jump(x)
  BY <1>11, <1>2, <1>19, <1>17, <1>15, <1>5 DEF Gen!Lexical!Jump, GenProofs!Lexical!Jump
<1>23. Gen!Lexical!EndBlock <=> GenProofs!Lexical!EndBlock
  BY <1>2, <1>5, <1>12, <1>13, <1>21, <1>18, <1>20, <1>22 DEF Gen!Lexical!EndBlock,
         GenProofs!Lexical!EndBlock
<1>24. Gen!Lexical!Suspend <=> GenProofs!Lexical!Suspend
  BY <1>3, <1>2, <1>5 DEF Gen!Lexical!Suspend, GenProofs!Lexical!Suspend
<1>25. Gen!Lexical!Step <=> GenProofs!Lexical!Step
  BY <1>3, <1>8, <1>21, <1>18, <1>22, <1>20, <1>23, <1>17, <1>5, <1>2, <1>9, <1>1, <1>24, <1>7 DEF
         Gen!Lexical!Step, GenProofs!Lexical!Step
<1>26. \A x : Gen!Lexical!Resume(x) <=> GenProofs!Lexical!Resume(x)
  BY <1>3, <1>8, <1>21, <1>18, <1>20, <1>24, <1>1, <1>2, <1>7 DEF Gen!Lexical!Resume,
         GenProofs!Lexical!Resume
<1>27. Gen!Lexical!Start <=> GenProofs!Lexical!Start
  BY <1>3, <1>21, <1>16, <1>1, <1>7 DEF Gen!Lexical!Start, GenProofs!Lexical!Start
<1>28. \A x : Gen!Lexical!Ask(x) <=> GenProofs!Lexical!Ask(x)
  BY <1>3, <1>1, <1>2, <1>5, <1>7 DEF Gen!Lexical!Ask, GenProofs!Lexical!Ask
<1>29. Gen!Lexical!Next <=> GenProofs!Lexical!Next
  BY <1>27, <1>25, <1>26, <1>28 DEF Gen!Lexical!Next, GenProofs!Lexical!Next
<1>30. Gen!Lexical!Init <=> GenProofs!Lexical!Init
  BY <1>2, <1>5, <1>9, <1>3, <1>7 DEF Gen!Lexical!Init, GenProofs!Lexical!Init
<1> QED BY <1>6, <1>29, <1>30

LEMMA GeneratorsBegin == Gen!Init => Gen!Lexical!Init /\ GenProofs!GeneratorInv
<1>1. GenProofs!Init => GenProofs!Lexical!Init /\ GenProofs!GeneratorInv
  BY BodiesAgree, GenProofs!InitImplements
<1> QED BY <1>1, RuntimesAgree, TextsAgree

LEMMA GeneratorsStep ==
    GenProofs!GeneratorInv /\ [Gen!Next]_Gen!vars =>
      [Gen!Lexical!Next]_Gen!Lexical!vars /\ GenProofs!GeneratorInv'
<1>1. GenProofs!GeneratorInv /\ [GenProofs!Next]_GenProofs!vars =>
        [GenProofs!Lexical!Next]_GenProofs!Lexical!vars /\ GenProofs!GeneratorInv'
  BY BodiesAgree, GenProofs!StepImplements
<1> QED BY <1>1, RuntimesAgree, TextsAgree

-----------------------------------------------------------------------------
(***************************************************************************)
(* The bytecode machine, in the same way: ScriptVMProofs is instantiated   *)
(* as ScriptVM is.                                                         *)
(***************************************************************************)
VMProofs == INSTANCE ScriptVMProofs

LEMMA ProgramsAgree == VMProofs!VMAssumption
BY ProgramsAssumption DEF VM!VMAssumption, VMProofs!VMAssumption, VM!WellFormed,
       VMProofs!WellFormed, VM!Followed, VMProofs!Followed, VM!Instruction, VMProofs!Instruction,
       VM!Statement, VMProofs!Statement, VM!Extent, VMProofs!Extent, VM!Blocks, VMProofs!Blocks,
       VM!Borders, VMProofs!Borders, VM!Region, VMProofs!Region, VM!EndOf, VMProofs!EndOf,
       VM!BoundOf, VMProofs!BoundOf, VM!Second, VMProofs!Second, VM!Statements,
       VMProofs!Statements, VM!Opens, VMProofs!Opens, VM!Ops, VMProofs!Ops

LEMMA MachinesAgree ==
  /\ VM!Init => VMProofs!Init
  /\ [VM!Next]_VM!vars => [VMProofs!Next]_VMProofs!vars
  /\ VMProofs!TypeOK => VM!TypeOK
<1>1. VM!Init => VMProofs!Init
  BY DEF VM!Init, VMProofs!Init, VM!Normal, VMProofs!Normal
<1>2. \A o : VM!Stop(o) <=> VMProofs!Stop(o)
  BY DEF VM!Stop, VMProofs!Stop, VM!Normal, VMProofs!Normal
<1>3. VM!Given = VMProofs!Given /\ (VM!Running <=> VMProofs!Running)
  BY DEF VM!Running, VMProofs!Running, VM!Given, VMProofs!Given
<1>4. \A o : VM!Op(o) <=> VMProofs!Op(o)
  BY DEF VM!Op, VMProofs!Op
<1>5. ASSUME NEW v, NEW ts PROVE VM!Unwind(v, ts) <=> VMProofs!Unwind(v, ts)
  BY <1>2, <1>3 DEF VM!Unwind, VMProofs!Unwind, VM!Max, VMProofs!Max, VM!Normal, VMProofs!Normal
<1>6. \A v : VM!LeaveFunction(v) <=> VMProofs!LeaveFunction(v)
  BY <1>2, <1>3 DEF VM!LeaveFunction, VMProofs!LeaveFunction, VM!Normal, VMProofs!Normal
<1>7. \A q : VM!Go(q) <=> VMProofs!Go(q)
  BY <1>3 DEF VM!Go, VMProofs!Go
<1>8. VM!Next => VMProofs!Next
  BY <1>2, <1>3, <1>4, <1>5, <1>6, <1>7 DEF VM!Next, VMProofs!Next, VM!Load, VMProofs!Load,
         VM!Plain, VMProofs!Plain, VM!Branch, VMProofs!Branch, VM!Try, VMProofs!Try, VM!Bound,
         VMProofs!Bound, VM!Throw, VMProofs!Throw, VM!EndBlock, VMProofs!EndBlock, VM!Return,
         VMProofs!Return, VM!Call, VMProofs!Call, VM!Max, VMProofs!Max
<1>9. VMProofs!TypeOK => VM!TypeOK
  BY DEF VM!TypeOK, VMProofs!TypeOK, VM!Entry, VMProofs!Entry, VM!Normal, VMProofs!Normal
<1>10. VM!vars = VMProofs!vars /\ VM!vars' = VMProofs!vars'
  BY DEF VM!vars, VMProofs!vars
<1> QED BY <1>1, <1>8, <1>9, <1>10

LEMMA ProgramTextsAgree ==
  /\ VMProofs!Lexical!Init => VM!Lexical!Init
  /\ [VMProofs!Lexical!Next]_VMProofs!Lexical!vars => [VM!Lexical!Next]_VM!Lexical!vars
<1>1. VM!Regions = VMProofs!Regions /\ VM!Regions' = VMProofs!Regions'
  BY DEF VM!Regions, VMProofs!Regions, VM!Region, VMProofs!Region, VM!EndOf, VMProofs!EndOf,
         VM!BoundOf, VMProofs!BoundOf, VM!Second, VMProofs!Second, VM!Statements,
         VMProofs!Statements, VM!Opens, VMProofs!Opens
<1>2. VM!Text = VMProofs!Text /\ VM!Text' = VMProofs!Text'
  BY <1>1 DEF VM!Text, VMProofs!Text
<1>3. VM!Normal = VMProofs!Normal
  BY DEF VM!Normal, VMProofs!Normal
<1>4. VM!Pending = VMProofs!Pending /\ VM!Pending' = VMProofs!Pending'
  BY <1>1, <1>3 DEF VM!Pending, VMProofs!Pending
<1>5. VM!IdlePend = VMProofs!IdlePend /\ VM!IdlePend' = VMProofs!IdlePend'
  BY <1>1, <1>3 DEF VM!IdlePend, VMProofs!IdlePend
<1>6. VM!Callers = VMProofs!Callers /\ VM!Callers' = VMProofs!Callers'
  BY <1>5 DEF VM!Callers, VMProofs!Callers
<1>7. VM!Lexical!vars = VMProofs!Lexical!vars /\ VM!Lexical!vars' = VMProofs!Lexical!vars'
  BY <1>2, <1>4, <1>6 DEF VM!Lexical!vars, VMProofs!Lexical!vars
<1>8. /\ VM!Lexical!None = VMProofs!Lexical!None /\ VM!Lexical!Given = VMProofs!Lexical!Given
      /\ VM!Lexical!Inner = VMProofs!Lexical!Inner /\ VM!Lexical!Normal = VMProofs!Lexical!Normal
      /\ VM!Lexical!Nothing = VMProofs!Lexical!Nothing
  BY DEF VM!Lexical!None, VMProofs!Lexical!None, VM!Lexical!Given, VMProofs!Lexical!Given,
         VM!Lexical!Inner, VMProofs!Lexical!Inner, VM!Lexical!Normal, VMProofs!Lexical!Normal,
         VM!Lexical!Nothing, VMProofs!Lexical!Nothing
<1>9. VM!Lexical!Instr = VMProofs!Lexical!Instr
  BY <1>2 DEF VM!Lexical!Instr, VMProofs!Lexical!Instr
<1>10. VM!Lexical!Idle = VMProofs!Lexical!Idle /\ VM!Lexical!Idle' = VMProofs!Lexical!Idle'
  BY <1>2, <1>8 DEF VM!Lexical!Idle, VMProofs!Lexical!Idle
<1>11. \A x : VM!Lexical!Guards(x) = VMProofs!Lexical!Guards(x)
  BY <1>2 DEF VM!Lexical!Guards, VMProofs!Lexical!Guards
<1>12. \A x : VM!Lexical!Finals(x) = VMProofs!Lexical!Finals(x)
  BY <1>2 DEF VM!Lexical!Finals, VMProofs!Lexical!Finals
<1>13. \A x : VM!Lexical!Around(x) = VMProofs!Lexical!Around(x)
  BY <1>2 DEF VM!Lexical!Around, VMProofs!Lexical!Around
<1>14. \A x : VM!Lexical!Innermost(x) = VMProofs!Lexical!Innermost(x)
  BY DEF VM!Lexical!Innermost, VMProofs!Lexical!Innermost
<1>15. \A x : VM!Lexical!Max(x) = VMProofs!Lexical!Max(x)
  BY DEF VM!Lexical!Max, VMProofs!Lexical!Max
<1>16. \A x, y : VM!Lexical!At(x, y) <=> VMProofs!Lexical!At(x, y)
  BY <1>2, <1>4, <1>8 DEF VM!Lexical!At, VMProofs!Lexical!At
<1>17. \A x : VM!Lexical!Stop(x) <=> VMProofs!Lexical!Stop(x)
  BY <1>4, <1>6, <1>10 DEF VM!Lexical!Stop, VMProofs!Lexical!Stop
<1>18. VM!Lexical!Keep <=> VMProofs!Lexical!Keep
  BY DEF VM!Lexical!Keep, VMProofs!Lexical!Keep
<1>19. \A x : VM!Lexical!Raise(x) <=> VMProofs!Lexical!Raise(x)
  BY <1>4, <1>6, <1>11, <1>14, <1>15, <1>16, <1>17, <1>18 DEF VM!Lexical!Raise,
         VMProofs!Lexical!Raise
<1>20. \A x, y : VM!Lexical!Through(x, y) <=> VMProofs!Lexical!Through(x, y)
  BY <1>4, <1>6, <1>14, <1>16, <1>18 DEF VM!Lexical!Through, VMProofs!Lexical!Through
<1>21. \A x : VM!Lexical!Return(x) <=> VMProofs!Lexical!Return(x)
  BY <1>4, <1>6, <1>12, <1>20, <1>17, <1>18 DEF VM!Lexical!Return, VMProofs!Lexical!Return
<1>22. \A x : VM!Lexical!Go(x) <=> VMProofs!Lexical!Go(x)
  BY <1>18, <1>16, <1>4, <1>6 DEF VM!Lexical!Go, VMProofs!Lexical!Go
<1>23. \A x : VM!Lexical!Jump(x) <=> VMProofs!Lexical!Jump(x)
  BY <1>12, <1>20, <1>18, <1>16, <1>4, <1>6 DEF VM!Lexical!Jump, VMProofs!Lexical!Jump
<1>24. VM!Lexical!EndBlock <=> VMProofs!Lexical!EndBlock
  BY <1>4, <1>13, <1>14, <1>22, <1>19, <1>21, <1>23 DEF VM!Lexical!EndBlock,
         VMProofs!Lexical!EndBlock
<1>25. VM!Lexical!Suspend <=> VMProofs!Lexical!Suspend
  BY <1>4, <1>6 DEF VM!Lexical!Suspend, VMProofs!Lexical!Suspend
<1>26. VM!Lexical!Step <=> VMProofs!Lexical!Step
  BY <1>9, <1>22, <1>19, <1>23, <1>21, <1>24, <1>18, <1>4, <1>6, <1>10, <1>2, <1>25, <1>8 DEF
         VM!Lexical!Step, VMProofs!Lexical!Step
<1>27. \A x : VM!Lexical!Resume(x) <=> VMProofs!Lexical!Resume(x)
  BY <1>9, <1>22, <1>19, <1>21, <1>25, <1>2, <1>8 DEF VM!Lexical!Resume, VMProofs!Lexical!Resume
<1>28. VM!Lexical!Start <=> VMProofs!Lexical!Start
  BY <1>22, <1>17, <1>2, <1>8 DEF VM!Lexical!Start, VMProofs!Lexical!Start
<1>29. \A x : VM!Lexical!Ask(x) <=> VMProofs!Lexical!Ask(x)
  BY <1>2, <1>4, <1>6, <1>8 DEF VM!Lexical!Ask, VMProofs!Lexical!Ask
<1>30. VM!Lexical!Next <=> VMProofs!Lexical!Next
  BY <1>28, <1>26, <1>27, <1>29 DEF VM!Lexical!Next, VMProofs!Lexical!Next
<1>31. VM!Lexical!Init <=> VMProofs!Lexical!Init
  BY <1>4, <1>6, <1>10, <1>8 DEF VM!Lexical!Init, VMProofs!Lexical!Init
<1> QED BY <1>7, <1>30, <1>31

LEMMA ProgramsBegin == VM!Init => VM!Lexical!Init /\ VMProofs!VMInv
<1>1. VMProofs!Init => VMProofs!Lexical!Init /\ VMProofs!VMInv
  BY ProgramsAgree, VMProofs!InitShown
<1> QED BY <1>1, MachinesAgree, ProgramTextsAgree

LEMMA ProgramsStep ==
    VMProofs!VMInv /\ [VM!Next]_VM!vars =>
      [VM!Lexical!Next]_VM!Lexical!vars /\ VMProofs!VMInv'
<1>1. VMProofs!VMInv /\ [VMProofs!Next]_VMProofs!vars =>
        [VMProofs!Lexical!Next]_VMProofs!Lexical!vars /\ VMProofs!VMInv'
  BY ProgramsAgree, VMProofs!NextShown
<1> QED BY <1>1, MachinesAgree, ProgramTextsAgree

-----------------------------------------------------------------------------
(* The composition: a part moves by its own steps or stays.                *)

LEMMA PartsBegin ==
    Init => Async!Init /\ Iter!Init /\ Log!Init /\ Md5!Init /\ Gen!Init /\ VM!Init
BY DEF Init

LEMMA PartsStep ==
    [Next]_vars => /\ [Async!Next]_Async!vars /\ [Iter!Next]_Iter!vars
                   /\ [Log!Next]_Log!vars /\ [Md5!Next]_Md5!vars
                   /\ [Gen!Next]_Gen!vars /\ [VM!Next]_VM!vars
<1> SUFFICES ASSUME [Next]_vars
             PROVE  /\ [Async!Next]_Async!vars /\ [Iter!Next]_Iter!vars
                    /\ [Log!Next]_Log!vars /\ [Md5!Next]_Md5!vars
                    /\ [Gen!Next]_Gen!vars /\ [VM!Next]_VM!vars
  OBVIOUS
<1>1. CASE UNCHANGED vars
  BY <1>1 DEF vars, asyncVars, iterVars, logVars, md5Vars, genVars, vmVars,
               Async!vars, Iter!vars, Log!vars, Md5!vars, Gen!vars, VM!vars
<1>2. CASE Next
  <2>1. part # "async" => UNCHANGED Async!vars BY <1>2 DEF Next, Rest, asyncVars, Async!vars
  <2>2. part # "iter" => UNCHANGED Iter!vars BY <1>2 DEF Next, Rest, iterVars, Iter!vars
  <2>3. part # "log" => UNCHANGED Log!vars BY <1>2 DEF Next, Rest, logVars, Log!vars
  <2>4. part # "md5" => UNCHANGED Md5!vars BY <1>2 DEF Next, Rest, md5Vars, Md5!vars
  <2>5. part # "gen" => UNCHANGED Gen!vars BY <1>2 DEF Next, Rest, genVars, Gen!vars
  <2>6. part # "vm" => UNCHANGED VM!vars BY <1>2 DEF Next, Rest, vmVars, VM!vars
  <2>7. /\ part = "async" => Async!Next
        /\ part = "iter" => Iter!Next
        /\ part = "log" => Log!Next
        /\ part = "md5" => Md5!Next
        /\ part = "gen" => Gen!Next
        /\ part = "vm" => VM!Next
    BY <1>2 DEF Next
  <2> QED BY <2>1, <2>2, <2>3, <2>4, <2>5, <2>6, <2>7
<1> QED BY <1>1, <1>2

\* In the script as a whole, iterators are closed.
THEOREM IteratorsClosed == Spec => []IteratorClosed
<1>1. Iter!IterationInv => IteratorClosed BY DEF IteratorClosed, Iter!IterationInv
<1> QED BY <1>1, PartsBegin, PartsStep, IterationBegins, IterationNext, PTL DEF Spec

\* In the script as a whole, asynchronous requests are answered in order.
THEOREM QueueKeepsOrder == Spec => []QueueInOrder
<1>1. Async!AsyncInv => QueueInOrder BY DEF QueueInOrder, Async!AsyncInv
<1> QED BY <1>1, PartsBegin, PartsStep, AsyncBegins, AsyncNext, PTL DEF Spec

\* In the script as a whole, the log keeps its limits and its quota.
THEOREM QuotaIsKept == Spec => []QuotaKept
<1>1. Log!TrackerInv => QuotaKept BY DEF QuotaKept, Log!TrackerInv
<1> QED BY <1>1, PartsBegin, PartsStep, TrackerBegins, TrackerNext, PTL DEF Spec

\* In the script as a whole, what is digested is the message, padded.
THEOREM DigestsArePadded == Spec => []DigestIsPadded
<1>1. DigestInv => DigestIsPadded BY DEF DigestInv
<1> QED BY <1>1, PartsBegin, PartsStep, DigestBegins, DigestNext, PTL DEF Spec

\* In the script as a whole, generators obey the text of their bodies.
THEOREM GeneratorsFollowText == Spec => GeneratorIsLexical
BY PartsBegin, PartsStep, GeneratorsBegin, GeneratorsStep, PTL
   DEF Spec, GeneratorIsLexical, Gen!GeneratorIsLexical, Gen!Lexical!Spec

\* In the script as a whole, bytecode obeys the text of its program.
THEOREM ProgramsFollowText == Spec => HandlersAreLexical
BY PartsBegin, PartsStep, ProgramsBegin, ProgramsStep, PTL
   DEF Spec, HandlersAreLexical, VM!HandlersAreLexical, VM!Lexical!Spec

\* In the script as a whole, the registers of the machine, the context of a
\* generator and the requests of a driver keep their types.
THEOREM ScriptTypes == Spec => []TypeOK
<1>1. VMProofs!VMInv => VM!TypeOK BY MachinesAgree DEF VMProofs!VMInv
<1>2. GenProofs!GeneratorInv => Gen!TypeOK BY RuntimesAgree DEF GenProofs!GeneratorInv
<1>3. Async!AsyncInv => Async!TypeOK BY DEF Async!AsyncInv
<1>4. VM!TypeOK /\ Gen!TypeOK /\ Async!TypeOK => TypeOK BY DEF TypeOK
<1> QED BY <1>1, <1>2, <1>3, <1>4, PartsBegin, PartsStep, ProgramsBegin, ProgramsStep,
           GeneratorsBegin, GeneratorsStep, AsyncBegins, AsyncNext, PTL DEF Spec

=============================================================================

----------------------------- MODULE AsyncQueue -----------------------------
(***************************************************************************)
(* The three drivers of generators in jsScript/webmssdk.js that turn a     *)
(* synchronous generator into something asynchronous:                      *)
(*   "queue"  the async generator wrapper (Dt): a linked list of requests, *)
(*            whose first one is being worked on;                          *)
(*   "chain"  the regenerator's AsyncIterator (Bgk): each request is       *)
(*            chained behind the promise of the one before;                *)
(*   "async"  asyncToGenerator (Bns): one request, the call.               *)
(* The generator itself answers each resumption as it likes.  Promise      *)
(* callbacks are the members of `pending`, run one at a time when nothing  *)
(* else runs; a promise may settle either way.                             *)
(***************************************************************************)
EXTENDS Integers, Sequences, FiniteSets

CONSTANTS
    MaxRequests,   \* how many requests the callers make
    MaxResumes     \* how often one request may resume the generator

VARIABLES
    impl,      \* which driver
    queue,     \* the unanswered requests, in the order they were made: [id, key]
    run,       \* the resumption that is due now on the stack: a key, or "none"
    resumes,   \* how often the first request has resumed the generator
    pending,   \* promise callbacks that wait: [id, what, key, done]
    waiting,   \* the flag of a delegated async iterator (Bat)
    lost,      \* the callback of a delegate threw: nobody goes on with the first request
    settled    \* the answers, in order: [id, how]

vars == <<impl, queue, run, resumes, pending, waiting, lost, settled>>

Keys == {"next", "throw", "return"}
Asked == Len(settled) + Len(queue)

TypeOK ==
    /\ impl \in {"queue", "chain", "async"}
    /\ queue \in Seq([id : 1..MaxRequests, key : Keys])
    /\ run \in Keys \cup {"none"}
    /\ resumes \in 0..(MaxResumes + 1)
    /\ pending \subseteq [id : 1..MaxRequests, what : {"start", "value", "await", "delegate"},
                          key : Keys, done : BOOLEAN]
    /\ waiting \in BOOLEAN /\ lost \in BOOLEAN
    /\ settled \in Seq([id : 1..MaxRequests, how : {"throw", "return", "normal"}])

Init ==
    /\ impl \in {"queue", "chain", "async"}
    /\ queue = <<>> /\ run = "none" /\ resumes = 0
    /\ pending = {} /\ waiting = FALSE /\ lost = FALSE /\ settled = <<>>

Callback(id, what, key, done) == [id |-> id, what |-> what, key |-> key, done |-> done]

\* A request is made: next, throw or return of an async generator, also from
\* within its own body; or the call of an async function.  It starts at once
\* if nothing is ahead of it; a chained one that is not the very first starts
\* in a callback.  (The chain does not exist yet while its first request runs
\* for the first time: a request made by the body just then is refused at
\* once, "already running", and is left out.)
AskResumesAlways(key) ==
    /\ Asked < MaxRequests
    /\ impl = "async" => Asked = 0 /\ key = "next"
    /\ queue' = Append(queue, [id |-> Asked + 1, key |-> key])
    /\ run' = key /\ resumes' = 0
    /\ UNCHANGED <<impl, pending, waiting, lost, settled>>
Ask(key) ==
    LET idle == queue = <<>>
        late == impl = "chain" /\ Asked > 0
    IN  /\ Asked < MaxRequests
        /\ impl = "async" => Asked = 0 /\ key = "next"
        /\ impl = "chain" => ~(Asked = 1 /\ run # "none" /\ resumes = 0)
        /\ queue' = Append(queue, [id |-> Asked + 1, key |-> key])
        /\ run' = IF idle /\ ~late THEN key ELSE run
        /\ resumes' = IF idle THEN 0 ELSE resumes
        /\ pending' = IF idle /\ late
                      THEN pending \cup {Callback(Asked + 1, "start", key, FALSE)} ELSE pending
        /\ UNCHANGED <<impl, waiting, lost, settled>>

\* The first request is answered, and the next one is started: on the stack,
\* or by a callback of the chain.  q are the callbacks left.
SettleAndStop(how, q) ==
    /\ settled' = Append(settled, [id |-> queue[1].id, how |-> how])
    /\ queue' = Tail(queue) /\ resumes' = 0 /\ run' = "none" /\ pending' = q
    /\ UNCHANGED <<impl, lost>>
Settle(how, q) ==
    LET rest == Tail(queue)
    IN  /\ settled' = Append(settled, [id |-> queue[1].id, how |-> how])
        /\ queue' = rest /\ resumes' = 0
        /\ run' = IF rest # <<>> /\ impl = "queue" THEN rest[1].key ELSE "none"
        /\ pending' = IF rest # <<>> /\ impl = "chain"
                      THEN q \cup {Callback(rest[1].id, "start", rest[1].key, FALSE)} ELSE q
        /\ UNCHANGED <<impl, lost>>

Due(key, q) ==
    /\ run' = key /\ pending' = q
    /\ UNCHANGED <<impl, queue, resumes, lost, settled>>

\* The generator is resumed with the key that is due.  It throws, awaits,
\* delegates to an async iterator, yields or ends; what it yields is a
\* promise to wait for.  An async function only awaits, and its end settles
\* it at once.
Resume ==
    LET wait(what, done) ==
          /\ pending' = pending \cup {Callback(queue[1].id, what, run, done)}
          /\ run' = "none" /\ resumes' = resumes + 1
          /\ UNCHANGED <<impl, queue, lost, settled>>
    IN  /\ run # "none"
        /\ \/ Settle("throw", pending) /\ UNCHANGED waiting
           \/ /\ resumes < MaxResumes
              /\ wait("await", FALSE) /\ UNCHANGED waiting
           \/ /\ impl = "queue" /\ resumes < MaxResumes
              /\ wait("delegate", FALSE) /\ waiting' = TRUE
           \/ /\ impl # "async"
              /\ \E done \in BOOLEAN : wait("value", done)
              /\ UNCHANGED waiting
           \/ impl = "async" /\ Settle("return", pending) /\ UNCHANGED waiting

\* How an await is answered: a wrapper that was resumed by return goes on
\* with return.
NextKey(c) == IF impl = "queue" /\ c.key = "return" THEN "return" ELSE "next"

\* The inner iterator has given its delegate no object: reading `done`, or
\* the call of the generator with it, throws in the callback, and nobody
\* catches that.  The delegate has its result or still waits for it.
Lose(q) ==
    /\ lost' = TRUE /\ pending' = q /\ waiting' \in {waiting, FALSE}
    /\ UNCHANGED <<impl, queue, run, resumes, settled>>

\* A promise is fulfilled.  A value answers the request; an awaited one goes
\* back into the generator; that of a delegate ends the delegation or is
\* handed on as the answer, through one more call of the generator, unless it
\* is no object.
Fulfilled(c) ==
    LET q == pending \ {c}
    IN  /\ run = "none" /\ c \in pending
        /\ \/ c.what = "start" /\ Due(c.key, q) /\ UNCHANGED waiting
           \/ /\ c.what = "value"
              /\ Settle(IF c.done THEN "return" ELSE "normal", q)
              /\ UNCHANGED waiting
           \/ c.what = "await" /\ Due(NextKey(c), q) /\ UNCHANGED waiting
           \/ c.what = "delegate" /\ waiting' = FALSE
              /\ (Due(NextKey(c), q) \/ Settle("normal", q))
           \/ c.what = "delegate" /\ Lose(q)

\* A promise is rejected: its reason is thrown into the generator.  (A link
\* of the chain starts however the one before it ended.)
Rejected(c) ==
    /\ run = "none" /\ c \in pending /\ c.what # "start"
    /\ resumes <= MaxResumes
    /\ c.what = "value" => resumes < MaxResumes
    /\ Due("throw", pending \ {c})
    /\ waiting' = FALSE

Next ==
    \/ \E key \in Keys : Ask(key)
    \/ Resume
    \/ \E c \in pending : Fulfilled(c) \/ Rejected(c)

Spec == Init /\ [][Next]_vars
-----------------------------------------------------------------------------
\* Requests are answered one by one and in their order; exactly one
\* resumption or callback, that of the first request, is under way while any
\* request is open (two would run the generator inside itself, none would
\* leave all of them waiting for ever), and a delegate waits exactly for its
\* own callback.  The one exception is the driver of a queue whose first
\* request was lost: nothing is under way, and nothing is answered any more.
QueueInOrder ==
    /\ \A i \in DOMAIN settled : settled[i].id = i
    /\ \A i \in DOMAIN queue : queue[i].id = Len(settled) + i
    /\ Cardinality(pending) + (IF run # "none" THEN 1 ELSE 0)
         = IF queue = <<>> \/ lost THEN 0 ELSE 1
    /\ \A c \in pending : c.id = queue[1].id
    /\ ~lost => (waiting <=> \E c \in pending : c.what = "delegate")
    /\ lost => impl = "queue" /\ queue # <<>>

\* The strengthening that makes it inductive: who is under way, and that the
\* first request may go on for as long as its resumptions are not used up;
\* only a queue has delegates.
OneUnderWay ==
    /\ queue = <<>> \/ lost => run = "none" /\ pending = {}
    /\ queue # <<>> /\ ~lost =>
          \/ run # "none" /\ pending = {}
          \/ run = "none" /\ \E c \in pending : pending = {c} /\ c.id = queue[1].id
Resumable ==
    /\ run # "none" => resumes <= MaxResumes
    /\ \A c \in pending : /\ c.what # "value" => resumes <= MaxResumes
                          /\ c.what = "delegate" => impl = "queue"
    /\ Asked <= MaxRequests /\ (impl = "async" => Asked <= 1)
AsyncInv == TypeOK /\ QueueInOrder /\ OneUnderWay /\ Resumable

\* Every request is answered, provided that promises settle and the body does
\* not resume itself for ever, unless the first one was lost: an inner
\* iterator gave its delegate no object.
Progress == Resume \/ \E c \in pending : Fulfilled(c) \/ Rejected(c)
Fairness == WF_vars(Progress)
EveryRequestAnswered ==
    \A id \in 1..MaxRequests : Asked >= id ~> Len(settled) >= id \/ lost
=============================================================================

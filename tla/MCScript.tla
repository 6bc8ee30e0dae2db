------------------------------ MODULE MCScript ------------------------------
(***************************************************************************)
(* The runtimes of jsScript/webmssdk.js, for TLC.  They share no state     *)
(* and none waits for another, so that each is explored on its own: `part` *)
(* says which one runs, and the others stay where they begin.              *)
(***************************************************************************)
EXTENDS Integers, Sequences

CONSTANTS
    VMPrograms,                                                 \* ScriptVM
    Generators,                                                 \* Regenerator
    MaxRequests, MaxResumes,                                    \* AsyncQueue
    Classes, MaxInitializers,                                   \* Decorators
    Sources, Moves, MaxElements,                                \* LegacyDecorators
    MaxTaken,                                                   \* Iteration
    Block, Word, Radix, Chunks, MaxBytes,                       \* Digest
    ListLimit, RecentLimit, Dropped, MoveGap, UnitTime,         \* Tracker
    UnitAmount, Spots, MaxTime, MaxEvents, MaxLoads

ASSUME BoundsAssumption == {MaxRequests, MaxResumes, MaxTaken} \subseteq Nat

VARIABLES
    part,
    code, pc, tries, frames, res, mode, out,                            \* ScriptVM
    gen, context, state, answer,                                        \* Regenerator
    impl, queue, run, resumes, pending, waiting, lost, settled,         \* AsyncQueue
    version, class, phase, m, d, seen, finished, kept,                  \* Decorators
    lists, made, inits, ret, meta, attached,
    stage, source, todo, decs, placements, elements, extras,            \* LegacyDecorators
    finishers, ran, defined,
    helper, iterable, step, limit, taken, ended, broken, normal,        \* Iteration
    error, early, closes, result,
    typed, md,                                                          \* Digest
    now, events, loads, storage, enabled, installed, unloading,         \* Tracker
    recent, last, track
-----------------------------------------------------------------------------
\* Bytecode: nested try statements, one in a handler, calls, a loop; try with
\* catch and finally; and one such in the body of a try with catch.  The slots
\* a, b and c hold different instructions.
I(o) == [op |-> o, to |-> 0, end |-> 0]
To(o, t) == [op |-> o, to |-> t, end |-> 0]
Bound(n, e) == [op |-> "bound", to |-> n, end |-> e]
Nested(a, b) ==
    <<To("try", 9), To("try", 5), I(a), I("endblock"), Bound(6, 8), I(b), I("endblock"),
      I("endblock"), Bound(10, 18), To("call", 19), To("try", 14), I("throw"), I("endblock"),
      Bound(15, 17), I("plain"), I("endblock"), I("endblock"), I("return"),
      To("try", 22), I("plain"), I("endblock"), Bound(23, 26), To("jump", 25), I("return"),
      I("endblock"), To("jump", 19), I("return")>>
Finally(a, b) ==
    <<To("call", 3), I("return"), To("try", 6), I(a), I("endblock"), To("try", 9), I(b),
      I("endblock"), Bound(10, 13), To("jump", 12), I("return"), I("endblock"), I("throw")>>
Enclosed(a, b, c) ==
    <<To("try", 4), I("plain"), I("endblock"), Bound(5, 17), To("try", 8), I(a), I("endblock"),
      To("try", 11), I(b), I("endblock"), Bound(12, 15), I(c), To("call", 18), I("endblock"),
      I("plain"), I("endblock"), I("return"), I("throw")>>
Ends == {"plain", "throw", "return"}
Bytecode == {Nested(a, b) : a \in Ends, b \in Ends} \cup {Finally(a, b) : a \in Ends, b \in Ends}
            \cup {Enclosed(a, b, c) : a \in Ends, b \in Ends, c \in Ends}

\* Generators: a try with catch and finally around one with finally, then
\* yield*, a jump leaves one of them; a loop around a try with catch; and one
\* with catch in a finally block.
J(o, t, n) == [op |-> o, to |-> t, try |-> n]
G(o) == J(o, 0, 0)
Entry(t, c, f, a) == [tryLoc |-> t, catchLoc |-> c, finallyLoc |-> f, afterLoc |-> a]
Body(a, b, c, e) ==
    [code |-> <<G("plain"), J("try", 3, 0), G("yield"), J("try", 5, 0), a, J("endblock", 0, 2),
                b, J("endblock", 0, 2), J("endblock", 0, 1), J("catch", 11, 1), c,
                J("endblock", 0, 1), e, J("endblock", 0, 1), G("delegate"), G("return")>>,
     tries |-> <<Entry(2, 10, 13, 15), Entry(4, 0, 7, 9)>>]
Loop(a, c) ==
    [code |-> <<J("try", 2, 0), J("try", 3, 0), a, J("endblock", 0, 2), J("catch", 6, 2), c,
                J("endblock", 0, 2), J("jump", 2, 0), J("endblock", 0, 1), J("catch", 11, 1),
                G("plain"), J("endblock", 0, 1), G("return")>>,
     tries |-> <<Entry(1, 10, 0, 13), Entry(2, 5, 0, 8)>>]
Inner(a, b, c) ==
    [code |-> <<G("plain"), J("try", 3, 0), a, J("endblock", 0, 1), J("try", 6, 0), b,
                J("endblock", 0, 2), J("catch", 9, 2), c, J("endblock", 0, 2),
                J("endblock", 0, 1), G("return")>>,
     tries |-> <<Entry(2, 0, 5, 12), Entry(5, 8, 0, 11)>>]
Leaves == {G("yield"), G("throw"), G("return"), J("jump", 13, 0)}
Bodies == {Body(a, b, c, e) : a \in {G("yield"), G("throw"), G("return"), J("jump", 9, 0)},
                              b \in {G("plain"), G("throw")},
                              c \in {G("yield"), G("return"), J("jump", 15, 0)},
                              e \in {G("plain"), G("return")}}
          \cup {Loop(a, c) : a \in Leaves, c \in Leaves}
          \cup {Inner(a, b, c) : a \in {G("throw"), G("return"), J("jump", 12, 0)},
                                 b \in {G("plain"), G("throw")}, c \in {G("yield"), G("throw")}}

\* Classes to decorate: two elements of every kind and placement, and a
\* setter and a getter beside a method that may have their name.
X(k, s, p, n, c) == [kind |-> k, static |-> s, private |-> p, name |-> n, decs |-> c]
Shapes ==
    {[members |-> <<X(k, FALSE, p, "x", 1), X(l, s, FALSE, "x", 2)>>, decs |-> 1] :
        k \in 0..4, p \in BOOLEAN, l \in {0, 2, 4}, s \in BOOLEAN}
    \cup {[members |-> <<X(3, TRUE, FALSE, "x", 1), X(4, TRUE, FALSE, "x", 1),
                         X(2, TRUE, FALSE, n, 1)>>, decs |-> 0] : n \in {"x", "y"}}

\* Classes for the old decorators.
El(f, k, s, c) == [form |-> f, key |-> k, static |-> s, decs |-> c]
Texts == {[elements |-> <<El(f, "a", FALSE, 1), El(g, k, s, c)>>, decs |-> 1] :
             f \in {"method", "get", "field"}, g \in {"set", "field"},
             k \in {"a", "b"}, s \in BOOLEAN, c \in 0..1}
         \cup {[elements |-> <<>>, decs |-> 1]}
Targets == {[key |-> "b", placement |-> "own"], [key |-> "b", placement |-> "static"]}

\* Chunks of a message: empty, one character of each width, long ones that
\* end just before a block does, and mixed widths.
Pieces == {<<>>, <<3, 1, 4>>} \cup {<<w>> : w \in 1..4}
          \cup {[i \in 1..k |-> w] : k \in {31, 63}, w \in {1, 2}}
-----------------------------------------------------------------------------
VM == INSTANCE ScriptVM
Gen == INSTANCE Regenerator WITH out <- answer
Async == INSTANCE AsyncQueue
Dec == INSTANCE Decorators
Legacy == INSTANCE LegacyDecorators WITH phase <- stage
Iter == INSTANCE Iteration WITH
    Limit <- MaxTaken, source <- iterable, phase <- step, out <- result
Md5 == INSTANCE Digest
Log == INSTANCE Tracker WITH Limit <- ListLimit

ASSUME LimitsAssumption == Log!TrackerAssumption /\ Md5!DigestAssumption
ASSUME GeneratorsAssumption == Gen!GeneratorAssumption
ASSUME ProgramsAssumption == VM!VMAssumption
ASSUME ClassesAssumption == Dec!DecoratorAssumption /\ Legacy!LegacyAssumption

vmVars == <<code, pc, tries, frames, res, mode, out>>
genVars == <<gen, context, state, answer>>
asyncVars == <<impl, queue, run, resumes, pending, waiting, lost, settled>>
decVars == <<version, class, phase, m, d, seen, finished, kept,
            lists, made, inits, ret, meta, attached>>
legacyVars == <<stage, source, todo, decs, placements, elements, extras,
               finishers, ran, defined>>
iterVars == <<helper, iterable, step, limit, taken, ended, broken, normal,
             error, early, closes, result>>
md5Vars == <<typed, md>>
logVars == <<now, events, loads, storage, enabled, installed, unloading,
            recent, last, track>>

Parts == {"vm", "gen", "async", "dec", "legacy", "iter", "md5", "log"}
One(S) == {CHOOSE x \in S : TRUE}
Choice(p, S) == IF part = p THEN S ELSE One(S)

Init ==
    /\ part \in Parts
    /\ code \in Choice("vm", VMPrograms) /\ VM!Init
    /\ gen \in Choice("gen", Generators) /\ Gen!Init
    /\ impl \in Choice("async", {"queue", "chain", "async"}) /\ Async!Init
    /\ version \in Choice("dec", Dec!Versions) /\ class \in Choice("dec", Classes) /\ Dec!Init
    /\ source \in Choice("legacy", Sources) /\ Legacy!Init
    /\ helper \in Choice("iter", {"array", "arrayLoose", "loop", "loopLoose"})
    /\ iterable \in Choice("iter", {"array", "iterable", "other"})
    /\ limit \in Choice("iter", 0..MaxTaken) /\ Iter!Init
    /\ typed \in Choice("md5", BOOLEAN) /\ Md5!Init
    /\ storage \in Choice("log", BOOLEAN) /\ enabled \in Choice("log", BOOLEAN) /\ Log!Init

Rest(p) ==
    /\ IF p = "vm" THEN TRUE ELSE UNCHANGED vmVars
    /\ IF p = "gen" THEN TRUE ELSE UNCHANGED genVars
    /\ IF p = "async" THEN TRUE ELSE UNCHANGED asyncVars
    /\ IF p = "dec" THEN TRUE ELSE UNCHANGED decVars
    /\ IF p = "legacy" THEN TRUE ELSE UNCHANGED legacyVars
    /\ IF p = "iter" THEN TRUE ELSE UNCHANGED iterVars
    /\ IF p = "md5" THEN TRUE ELSE UNCHANGED md5Vars
    /\ IF p = "log" THEN TRUE ELSE UNCHANGED logVars

Next ==
    /\ UNCHANGED part
    /\ \/ part = "vm" /\ VM!Next
       \/ part = "gen" /\ Gen!Next
       \/ part = "async" /\ Async!Next
       \/ part = "dec" /\ Dec!Next
       \/ part = "legacy" /\ Legacy!Next
       \/ part = "iter" /\ Iter!Next
       \/ part = "md5" /\ Md5!Next
       \/ part = "log" /\ Log!Next
    /\ Rest(part)

vars == <<part, vmVars, genVars, asyncVars, decVars, legacyVars, iterVars, md5Vars, logVars>>
Spec == Init /\ [][Next]_vars /\ Async!Fairness
-----------------------------------------------------------------------------
\* The registers of the machine, the context of a generator and the requests
\* of a driver keep their types, in the part that is explored.
TypeOK ==
    /\ part = "vm" => VM!TypeOK
    /\ part = "gen" => Gen!TypeOK
    /\ part = "async" => Async!TypeOK

\* Exceptions and returns of bytecode go where the program text says: the
\* machine implements Completions.
HandlersAreLexical == VM!HandlersAreLexical

\* So do those of generators, however callers and inner iterators intervene:
\* the generator runtime implements Completions.
GeneratorIsLexical == Gen!GeneratorIsLexical

\* Asynchronous requests are answered in their order, and exactly one of them
\* is being worked on while any is open, unless that one was lost.
QueueInOrder == Async!QueueInOrder

\* Every asynchronous request is answered if promises settle, unless an inner
\* iterator has given a delegate no object.
EveryRequestAnswered == Async!EveryRequestAnswered

\* What a decorated class gets back depends on its text alone, and a
\* decorator adds initializers only while it runs; the old decorators never
\* leave a class with two elements of one key and placement.
DecoratorContract == Dec!DecoratorContract /\ Legacy!NoDuplicateElement

\* An iterator left early is closed once, one that has ended never, and the
\* first error is the one that is seen.
IteratorClosed == Iter!IteratorClosed

\* The blocks that are compressed are those of the message and its padding,
\* however it is cut into chunks.
DigestIsPadded == Md5!DigestIsPadded

\* Lists keep within their limits, and the account of what was reported
\* survives reloads.
QuotaKept == Log!QuotaKept
=============================================================================

----------------------------- MODULE Decorators -----------------------------
(***************************************************************************)
(* Class decorators of jsScript/webmssdk.js.  The script holds four        *)
(* runtimes for four stages of the decorator proposal:                     *)
(*   "2112"   applyDecs (Ld), with metadata                                *)
(*   "2203"   the factory Ll: members and class at once                    *)
(*   "2203R"  the factory Qf: the class part is the getter c               *)
(*   "2301"   Bak: the same with brand checks of private members           *)
(* They share one algorithm, written out four times: members are decorated *)
(* in order, the decorators of one member from the last to the first, and  *)
(* what each one leaves is pushed to an array that the compiled class      *)
(* takes apart by position.  Below, each action that all four have is      *)
(* stated once and made an action of each runtime after it.                *)
(*                                                                         *)
(* A decorator is user code: while it runs it may register initializers,   *)
(* set metadata, keep its context for later, and return nothing, a         *)
(* replacement or something invalid, or throw.                             *)
(***************************************************************************)
EXTENDS Integers, SequencesExt, FiniteSets

CONSTANTS
    Classes,          \* what may be decorated: [members, decs]; a member is
                      \* [kind, static, private, name, decs], decs being counts
    MaxInitializers   \* how many initializers are added to one list

Versions == {"2112", "2203", "2203R", "2301"}
field == 0
accessor == 1
method == 2
getter == 3
setter == 4

\* What classes are: members in an order, each with a count of decorators.
DecoratorAssumption ==
    \A c \in Classes :
      /\ c.members \in Seq(ToSet(c.members)) /\ c.decs \in Nat
      /\ \A x \in ToSet(c.members) : /\ x.kind \in field..setter /\ x.decs \in Nat
                                     /\ {x.static, x.private} \subseteq BOOLEAN

VARIABLES
    version, class,
    phase,      \* "visit", "decorate", "call", "class", "classcall", "ready", "done", "threw"
    m, d,       \* the member and its decorator that are worked on, counting d down
    seen,       \* (static, name) of public members -> 0, 3, 4 or 1 (true)
    finished,   \* the decorator calls whose context is finished (v)
    kept,       \* the addInitializer functions handed out: [by, list]
    lists,      \* the initializers of "proto", "static" and "class": [by, during]
    made,       \* which of those lists exist
    inits,      \* the decorators that gave the current field or accessor an initializer
    ret,        \* the array
    meta,       \* metadata: [list, private, name, by], "2112" only
    attached    \* the metadata objects that were attached to the class

vars == <<version, class, phase, m, d, seen, finished, kept, lists, made, inits, ret, meta, attached>>

Lists == {"proto", "static", "class"}
Member == class.members[m]
InClass == phase \in {"class", "classcall"}
ListOf(x) == IF x.static THEN "static" ELSE "proto"
Target == IF InClass THEN "class" ELSE ListOf(Member)
Call == <<IF InClass THEN 0 ELSE m, d>>      \* the decorator call being made
Running == IF phase \in {"call", "classcall"} THEN Call ELSE <<>>

Init ==
    /\ version \in Versions /\ class \in Classes
    /\ phase = "visit" /\ m = 1 /\ d = 0
    /\ seen = [p \in BOOLEAN \X {x.name : x \in ToSet(class.members)} |-> 0]
    /\ finished = {} /\ kept = {}
    /\ lists = [l \in Lists |-> <<>>] /\ made = {}
    /\ inits = <<>> /\ ret = <<>>
    /\ meta = {} /\ attached = {}

Fixed == UNCHANGED <<version, class>>

\* applyMemberDecs: the list of initializers of its placement is made for any
\* member but a field, and a public one must not be decorated twice, except
\* as a getter and a setter.
Clash(old, kind) ==
    old = 1 \/ (old = getter /\ kind # setter) \/ (old = setter /\ kind # getter)
VisitMember ==
    LET x == Member
        old == seen[<<x.static, x.name>>]
        public == x.kind # field /\ ~x.private
    IN  /\ phase = "visit" /\ m <= Len(class.members)
        /\ made' = IF x.kind # field THEN made \cup {ListOf(x)} ELSE made
        /\ IF public /\ Clash(old, x.kind)
           THEN phase' = "threw" /\ UNCHANGED <<d, seen>>
           ELSE /\ phase' = "decorate" /\ d' = x.decs
                /\ seen' = IF ~public THEN seen
                           ELSE [seen EXCEPT ![<<x.static, x.name>>] =
                                    IF old = 0 /\ x.kind > method THEN x.kind ELSE 1]
        /\ inits' = <<>>
        /\ Fixed /\ UNCHANGED <<m, finished, kept, lists, ret, meta, attached>>

\* memberDec and the loop of applyClassDecs: a context is made and the
\* decorator called; a field's has no addInitializer.
CallDecorator ==
    /\ phase \in {"decorate", "class"} /\ d > 0
    /\ phase' = IF InClass THEN "classcall" ELSE "call"
    /\ kept' = IF ~InClass /\ Member.kind = field THEN kept
               ELSE kept \cup {[by |-> Call, list |-> Target]}
    /\ Fixed /\ UNCHANGED <<m, d, seen, finished, lists, made, inits, ret, meta, attached>>

\* addInitializer of a context that is not finished; it throws in the others,
\* and for what is not a function.  Whoever holds the function may call it.
AddInitializer(k) ==
    /\ k.by \notin finished /\ Len(lists[k.list]) < MaxInitializers
    /\ lists' = [lists EXCEPT ![k.list] = Append(@, [by |-> k.by, during |-> Running])]
    /\ Fixed /\ UNCHANGED <<phase, m, d, seen, finished, kept, made, inits, ret, meta, attached>>

\* setMetadata of a running decorator.  That of a private member replaces the
\* map of private metadata, which is stored under another name than it is
\* looked up by.
SetMetadata ==
    LET private == ~InClass /\ Member.private
        name == IF InClass THEN "constructor" ELSE Member.name
        list == IF Target = "proto" THEN "proto" ELSE "static"
        new == [list |-> list, private |-> private, name |-> name, by |-> Call]
    IN  /\ version = "2112" /\ Running # <<>>
        /\ meta' = {new} \cup {x \in meta : x.list # list \/ x.private # private
                                            \/ (~private /\ x.name # name)}
        /\ Fixed /\ UNCHANGED <<phase, m, d, seen, finished, kept, lists, made, inits, ret, attached>>

\* The decorator returns or throws.  Either way its context is finished.  A
\* replacement is checked; the initializer of a field or an accessor is
\* remembered.  Anything invalid, and any exception, ends everything.
EndDecorator(result) ==
    LET good == result \in {"none", "value"}
        stays == ~InClass /\ Member.kind \in {field, accessor}
    IN  /\ Running # <<>>
        /\ finished' = finished \cup {Call}
        /\ phase' = IF ~good THEN "threw" ELSE IF InClass THEN "class" ELSE "decorate"
        /\ d' = IF good THEN d - 1 ELSE d
        /\ inits' = IF result = "value" /\ stays THEN Append(inits, d) ELSE inits
        /\ Fixed /\ UNCHANGED <<m, seen, kept, lists, made, ret, meta, attached>>
Results == {"none", "value", "invalid", "throw"}

\* applyMemberDec, when all decorators of the member have run: a field or an
\* accessor pushes its initializers, composed or a function that returns its
\* argument; a private element what replaces it; a public one is defined.
Slots(x, i) ==
    (IF x.kind \in {field, accessor} THEN <<<<"init", i>>>> ELSE <<>>)
    \o (IF ~x.private \/ x.kind = field THEN <<>>
        ELSE IF x.kind = accessor THEN <<<<"get", i>>, <<"set", i>>>>
        ELSE <<<<"call", i>>>>)
FinishMember ==
    /\ phase = "decorate" /\ d = 0
    /\ ret' = ret \o Slots(Member, m)
    /\ phase' = "visit" /\ m' = m + 1
    /\ Fixed /\ UNCHANGED <<d, seen, finished, kept, lists, made, inits, meta, attached>>

\* pushInitializers, for each of the two lists that exists.
PushInitializersUsed ==
    /\ phase = "visit" /\ m > Len(class.members)
    /\ ret' = ret \o (IF lists["proto"] # <<>> THEN <<<<"run", "proto">>>> ELSE <<>>)
                  \o (IF lists["static"] # <<>> THEN <<<<"run", "static">>>> ELSE <<>>)
    /\ phase' = "ready"
    /\ Fixed /\ UNCHANGED <<m, d, seen, finished, kept, lists, made, inits, meta, attached>>
PushInitializers ==
    /\ phase = "visit" /\ m > Len(class.members)
    /\ ret' = ret \o (IF "proto" \in made THEN <<<<"run", "proto">>>> ELSE <<>>)
                  \o (IF "static" \in made THEN <<<<"run", "static">>>> ELSE <<>>)
    /\ phase' = "ready"
    /\ Fixed /\ UNCHANGED <<m, d, seen, finished, kept, lists, made, inits, meta, attached>>

\* The class part begins: next, or when the getter c is read.  Without class
\* decorators nothing is pushed.
BeginClass ==
    /\ phase = "ready"
    /\ phase' = IF class.decs > 0 THEN "class" ELSE "done"
    /\ d' = class.decs
    /\ Fixed /\ UNCHANGED <<m, seen, finished, kept, lists, made, inits, ret, meta, attached>>

\* The class, maybe replaced, and a function that runs its initializers.
FinishClass ==
    /\ phase = "class" /\ d = 0
    /\ ret' = ret \o <<<<"class", "class">>, <<"run", "class">>>>
    /\ phase' = "done"
    /\ Fixed /\ UNCHANGED <<m, d, seen, finished, kept, lists, made, inits, meta, attached>>

\* defineMetadata: the metadata of the prototype is attached before the class
\* decorators run, that of the class after them; an empty one is not.
Attach(list) ==
    /\ version = "2112" /\ \E x \in meta : x.list = list
    /\ list \notin attached /\ attached' = attached \cup {list}
    /\ phase = IF list = "proto" THEN "ready" ELSE "done"
    /\ Fixed /\ UNCHANGED <<phase, m, d, seen, finished, kept, lists, made, inits, ret, meta>>

In(v) == version = v

\* The runtime of 2021-12.
addInitializer2112 == In("2112") /\ \E k \in kept : AddInitializer(k)
metadata2112 == In("2112") /\ SetMetadata
memberDec2112 == In("2112") /\ ~InClass /\ (CallDecorator \/ \E r \in Results : EndDecorator(r))
applyMemberDec2112 == In("2112") /\ FinishMember
applyMemberDecs2112 == In("2112") /\ VisitMember
pushInitializers2112 == In("2112") /\ PushInitializers
applyClassDecs2112 ==
    /\ In("2112") /\ (InClass \/ phase = "ready")
    /\ \/ ((\E x \in meta : x.list = "proto") => "proto" \in attached) /\ BeginClass
       \/ CallDecorator \/ FinishClass
       \/ \E r \in Results : EndDecorator(r)
defineMetadata2112 == In("2112") /\ \E list \in {"proto", "static"} : Attach(list)

\* The factory of 2022-03.
addInitializer2203 == In("2203") /\ \E k \in kept : AddInitializer(k)
memberDec2203 == In("2203") /\ ~InClass /\ (CallDecorator \/ \E r \in Results : EndDecorator(r))
applyMemberDec2203 == In("2203") /\ FinishMember
pushInitializers2203 == In("2203") /\ PushInitializers
applyDecs2203 ==
    /\ In("2203")
    /\ \/ VisitMember \/ BeginClass \/ FinishClass
       \/ InClass /\ (CallDecorator \/ \E r \in Results : EndDecorator(r))

\* The factory of 2022-03 whose class part is read as c.
addInitializer2203R == In("2203R") /\ \E k \in kept : AddInitializer(k)
memberDec2203R == In("2203R") /\ ~InClass /\ (CallDecorator \/ \E r \in Results : EndDecorator(r))
applyMemberDec2203R == In("2203R") /\ FinishMember
applyMemberDecs2203R == In("2203R") /\ VisitMember
pushInitializers2203R == In("2203R") /\ PushInitializers
applyClassDecs2203R ==
    /\ In("2203R")
    /\ \/ BeginClass \/ FinishClass
       \/ InClass /\ (CallDecorator \/ \E r \in Results : EndDecorator(r))

\* The runtime of 2023-01.
addInitializer2301 == In("2301") /\ \E k \in kept : AddInitializer(k)
memberDec2301 == In("2301") /\ ~InClass /\ (CallDecorator \/ \E r \in Results : EndDecorator(r))
applyMemberDec2301 == In("2301") /\ FinishMember
applyMemberDecs2301 == In("2301") /\ VisitMember
pushInitializers2301 == In("2301") /\ PushInitializers
applyClassDecs2301 ==
    /\ In("2301")
    /\ \/ BeginClass \/ FinishClass
       \/ InClass /\ (CallDecorator \/ \E r \in Results : EndDecorator(r))

Next ==
    \/ addInitializer2112 \/ metadata2112 \/ memberDec2112 \/ applyMemberDec2112
    \/ applyMemberDecs2112 \/ pushInitializers2112 \/ applyClassDecs2112 \/ defineMetadata2112
    \/ addInitializer2203 \/ memberDec2203 \/ applyMemberDec2203
    \/ pushInitializers2203 \/ applyDecs2203
    \/ addInitializer2203R \/ memberDec2203R \/ applyMemberDec2203R
    \/ applyMemberDecs2203R \/ pushInitializers2203R \/ applyClassDecs2203R
    \/ addInitializer2301 \/ memberDec2301 \/ applyMemberDec2301
    \/ applyMemberDecs2301 \/ pushInitializers2301 \/ applyClassDecs2301

Spec == Init /\ [][Next]_vars
-----------------------------------------------------------------------------
\* Where the compiled class looks for what: the slots of its members, the
\* functions that run the initializers of the prototype and of the class if
\* there are methods or accessors of that placement, then the class.
Layout ==
    LET x == class.members
        any(static) == \E i \in DOMAIN x : x[i].static = static /\ x[i].kind # field
    IN  FlattenSeq([i \in DOMAIN x |-> Slots(x[i], i)])
        \o (IF any(FALSE) THEN <<<<"run", "proto">>>> ELSE <<>>)
        \o (IF any(TRUE) THEN <<<<"run", "static">>>> ELSE <<>>)
        \o (IF class.decs > 0 THEN <<<<"class", "class">>, <<"run", "class">>>> ELSE <<>>)

\* A decorator adds initializers only while it runs, although it may keep the
\* function; the initializers of an element are those of its decorators, the
\* inner ones first; what a decorated class gets back depends on its text
\* alone, never on what its decorators did; each of them was called once; and
\* no public method was decorated twice, but for a getter and its setter.
DecoratorContract ==
    /\ \A l \in Lists : \A i \in DOMAIN lists[l] : lists[l][i].by = lists[l][i].during
    /\ \A i, j \in DOMAIN inits : i < j => inits[i] > inits[j]
    /\ phase = "done" =>
         LET x == class.members
             public == {i \in DOMAIN x : x[i].kind # field /\ ~x[i].private}
         IN  /\ ret = Layout
             /\ finished = {<<0, k>> : k \in 1..class.decs}
                           \cup UNION {{<<i, k>> : k \in 1..x[i].decs} : i \in DOMAIN x}
             /\ \A i, j \in public :
                  i # j /\ x[i].name = x[j].name /\ x[i].static = x[j].static
                    => {x[i].kind, x[j].kind} = {getter, setter}
-----------------------------------------------------------------------------
\* What the contract needs to be inductive.  Where the runtime is in the
\* text, as long as nothing was refused:
Visited == 1..(IF phase \in {"decorate", "call"} THEN m ELSE m - 1)
Position ==
    LET n == Len(class.members)
    IN  /\ phase \in {"visit", "decorate", "call", "ready", "class", "classcall", "done"}
        /\ m \in 1..(n + 1)
        /\ phase \in {"decorate", "call"} => m <= n /\ d \in 0..Member.decs
        /\ phase \notin {"visit", "decorate", "call"} => m = n + 1
        /\ InClass => d \in 0..class.decs /\ class.decs > 0
        /\ phase \in {"call", "classcall"} => d > 0

\* the calls that are over: those of the members before, and of the one that
\* is worked on the ones after d;
CallsEnded ==
    finished = (UNION {{<<i, k>> : k \in 1..class.members[i].decs} : i \in 1..(m - 1)})
               \cup (IF phase \in {"decorate", "call"} THEN {<<m, k>> : k \in (d + 1)..Member.decs}
                     ELSE {})
               \cup (IF InClass THEN {<<0, k>> : k \in (d + 1)..class.decs}
                     ELSE IF phase = "done" THEN {<<0, k>> : k \in 1..class.decs} ELSE {})

\* what is known of the members visited: the lists they made, and the kinds
\* under which their names were seen;
MembersSeen ==
    LET x == class.members
        public(q) == {i \in Visited : /\ x[i].kind # field /\ ~x[i].private
                                      /\ <<x[i].static, x[i].name>> = q}
    IN  /\ made = {ListOf(x[i]) : i \in {j \in Visited : x[j].kind # field}}
        /\ DOMAIN seen = BOOLEAN \X {y.name : y \in ToSet(x)}
        /\ \A q \in DOMAIN seen :
             /\ seen[q] \in {0, 1, getter, setter}
             /\ seen[q] = 0 => public(q) = {}
             /\ seen[q] \in {getter, setter} => \A i \in public(q) : x[i].kind = seen[q]
             /\ \A i, j \in public(q) : i # j => {x[i].kind, x[j].kind} = {getter, setter}

\* and the array so far.
Pushed ==
    LET x == class.members
        slots(n) == FlattenSeq([i \in 1..n |-> Slots(x[i], i)])
        run(l) == IF l \in made THEN <<<<"run", l>>>> ELSE <<>>
    IN  ret = IF phase \in {"visit", "decorate", "call"} THEN slots(m - 1)
              ELSE slots(Len(x)) \o run("proto") \o run("static")
                   \o (IF phase = "done" /\ class.decs > 0
                       THEN <<<<"class", "class">>, <<"run", "class">>>> ELSE <<>>)

\* A function that was handed out is that of the call being made or of one
\* that is over, for good or with an exception.
DecoratorInv ==
    /\ class \in Classes
    /\ kept \subseteq [by : Nat \X Nat, list : Lists]
    /\ \A k \in kept : k.by \in finished \/ k.by = Running
    /\ lists \in [Lists -> Seq([by : Nat \X Nat, during : Nat \X Nat])]
    /\ inits \in Seq(Nat)
    /\ phase \in {"decorate", "call"} => \A i \in DOMAIN inits : inits[i] > d
    /\ phase # "threw" => Position /\ CallsEnded /\ MembersSeen /\ Pushed
    /\ DecoratorContract
=============================================================================

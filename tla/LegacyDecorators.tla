-------------------------- MODULE LegacyDecorators --------------------------
(***************************************************************************)
(* The decorator runtime of 2018-09 in jsScript/webmssdk.js (_decorate):   *)
(* elements are descriptors that decorators may move to another key or     *)
(* placement and may add to.  The runtime keeps, beside the elements, the  *)
(* list of keys taken in each placement, and both change element by        *)
(* element.  The descriptors' attributes are data and left out; that a     *)
(* decorator returned something that is not a descriptor is "invalid".     *)
(***************************************************************************)
EXTENDS Integers, SequencesExt, FiniteSets

CONSTANTS
    Sources,      \* what may be decorated: [elements, decs]; an element of the text is
                  \* [form, key, static, decs], form being "method", "get", "set" or "field"
    Moves,        \* the [key, placement] a decorator may give an element
    MaxElements   \* decorators add no more elements than that

Forms == {"method", "get", "set", "field"}
Placement == {"static", "prototype", "own"}

\* What classes, and the moves of decorators, are.
LegacyAssumption ==
    /\ \A s \in Sources : /\ s.elements \in Seq(ToSet(s.elements)) /\ s.decs \in Nat
                           /\ \A e \in ToSet(s.elements) : e.form \in Forms /\ e.decs \in Nat
    /\ \A x \in Moves : x.placement \in Placement

VARIABLES
    phase,        \* "text", "place", "decorate", "class", "define", "finish", "done", "threw"
    source,
    todo,         \* the elements to place or decorate
    decs,         \* the decorators of the first of them that are left
    placements,   \* placement -> the keys that are taken, in order
    elements,     \* what decorateClass has collected, and the extras of the current element
    extras,
    finishers,    \* the decorators that left a finisher
    ran,          \* the finishers that ran
    defined       \* what was defined on the class and on its prototype

vars == <<phase, source, todo, decs, placements, elements, extras, finishers, ran, defined>>

Descriptor(e) == [kind |-> e.kind, key |-> e.key, placement |-> e.placement]

\* createElementDescriptor.
Create(e) == [kind |-> IF e.form = "field" THEN "field" ELSE "method",
              parts |-> {e.form},
              key |-> e.key,
              placement |-> IF e.static THEN "static"
                            ELSE IF e.form = "field" THEN "own" ELSE "prototype",
              decs |-> e.decs]

\* coalesceClassElements: an accessor joins the other half of its pair, a
\* method replaces an earlier one of its key; decorators stay on one of the
\* halves, and a replaced method cannot have any.  What there is after an
\* element is the only member of the result, which is empty for an error.
Coalesce(done, e) ==
    LET same == {i \in DOMAIN done : done[i].kind = "method" /\ done[i].key = e.key
                                     /\ done[i].placement = e.placement}
        i == Min(same)
        o == done[i]
        data == "method" \in e.parts \cup o.parts
    IN  IF e.kind # "method" \/ same = {} THEN {Append(done, e)}
        ELSE IF data THEN IF e.decs + o.decs > 0 THEN {} ELSE {[done EXCEPT ![i].parts = e.parts]}
        ELSE IF e.decs > 0 /\ o.decs > 0 THEN {}
        ELSE {[done EXCEPT ![i].parts = o.parts \cup e.parts, ![i].decs = o.decs + e.decs]}
CoalesceAll(text) ==
    LET collected[n \in 0..Len(text)] ==
            IF n = 0 THEN {<<>>}
            ELSE UNION {Coalesce(done, Create(text[n])) : done \in collected[n - 1]}
    IN  collected[Len(text)]

\* addElementPlacement and its undoing before a decorator is called.
Taken(p, e) == e.key \in ToSet(p[e.placement])
AddPlacement(p, e) == [p EXCEPT ![e.placement] = Append(@, e.key)]
DropPlacementLast(p, e) == [p EXCEPT ![e.placement] = Front(@)]
DropPlacement(p, e) ==
    LET keys == p[e.placement]
        i == Min({k \in DOMAIN keys : keys[k] = e.key})
    IN  [p EXCEPT ![e.placement] = RemoveAt(keys, i)]

Init ==
    /\ source \in Sources /\ phase = "text"
    /\ todo = <<>> /\ decs = 0
    /\ placements = [p \in Placement |-> <<>>]
    /\ elements = <<>> /\ extras = <<>>
    /\ finishers = <<>> /\ ran = 0 /\ defined = <<>>

Collect ==
    LET collected == CoalesceAll(source.elements)
    IN  /\ phase = "text"
        /\ \/ collected = {} /\ phase' = "threw" /\ UNCHANGED todo
           \/ phase' = "place" /\ todo' \in collected
        /\ UNCHANGED <<source, decs, placements, elements, extras, finishers, ran, defined>>

\* The next element is taken up; the class itself comes last.
TakeUp(rest) ==
    /\ todo' = rest
    /\ IF rest # <<>> THEN phase' = "decorate" /\ decs' = Head(rest).decs
       ELSE phase' = "class" /\ decs' = source.decs

\* decorateClass: every element is placed first, and a key that is taken is
\* refused.  Then the elements are taken up in order.
Placed ==
    LET after[n \in 0..Len(todo)] ==
            IF n = 0 THEN [p \in Placement |-> <<>>] ELSE AddPlacement(after[n - 1], todo[n])
    IN  after[Len(todo)]
PlaceAll ==
    /\ phase = "place"
    /\ IF \E i, j \in DOMAIN todo : i # j /\ todo[i].key = todo[j].key
                                        /\ todo[i].placement = todo[j].placement
       THEN phase' = "threw" /\ UNCHANGED <<todo, decs, placements>>
       ELSE placements' = Placed /\ TakeUp(todo)
    /\ UNCHANGED <<source, elements, extras, finishers, ran, defined>>

\* What a decorator makes of an element: one of another key or placement.
Moved(e, at) == [e EXCEPT !.key = at.key, !.placement = at.placement]

\* decorateElement, one decorator: the element gives up its place, the
\* decorator returns what it becomes, maybe with another element and a
\* finisher, and these are placed.
Decorate(e, moved, extra, finish) ==
    LET p == DropPlacement(placements, e)
        q == AddPlacement(p, moved)
    IN  IF Taken(p, moved) \/ \E x \in ToSet(extra) : Taken(q, x)
        THEN phase' = "threw"
             /\ UNCHANGED <<source, todo, decs, placements, elements, extras, finishers, ran, defined>>
        ELSE /\ placements' = IF extra = <<>> THEN q ELSE AddPlacement(q, extra[1])
             /\ decs' = decs - 1
             /\ todo' = [todo EXCEPT ![1] = moved]
             /\ extras' = extras \o extra
             /\ finishers' = IF finish THEN Append(finishers, "element") ELSE finishers
             /\ UNCHANGED <<phase, source, elements, ran, defined>>

DecorateElement ==
    LET e == Head(todo)
    IN  /\ phase = "decorate" /\ todo # <<>> /\ decs > 0
        /\ \E at \in Moves \cup {[key |-> e.key, placement |-> e.placement]},
              more \in {<<>>} \cup {<<x>> : x \in Moves}, finish \in BOOLEAN :
             /\ more # <<>> => Len(elements) + Len(extras) + Len(todo) < MaxElements
             /\ Decorate(e, Moved(e, at), [i \in DOMAIN more |-> Moved(e, more[i])], finish)

\* A decorator throws, or returns what is no descriptor.
Refuse ==
    /\ phase \in {"decorate", "class"} /\ decs > 0
    /\ phase' = "threw"
    /\ UNCHANGED <<source, todo, decs, placements, elements, extras, finishers, ran, defined>>

NextElement ==
    /\ phase = "decorate" /\ todo # <<>> /\ decs = 0
    /\ elements' = elements \o <<Descriptor(Head(todo))>>
                            \o [i \in DOMAIN extras |-> Descriptor(extras[i])]
    /\ extras' = <<>> /\ TakeUp(Tail(todo))
    /\ UNCHANGED <<source, placements, finishers, ran, defined>>

\* decorateConstructor, one decorator: it may replace the elements (drop one,
\* or move one), which are then compared pairwise.
DecorateConstructor ==
    /\ phase = "class" /\ decs > 0
    /\ \E new \in {elements} \cup {RemoveAt(elements, i) : i \in DOMAIN elements}
                \cup {[elements EXCEPT ![i] = Moved(@, at)] : i \in DOMAIN elements, at \in Moves},
          finish \in BOOLEAN :
         LET twice == \E i, j \in DOMAIN new : i # j /\ new[i].key = new[j].key
                                                     /\ new[i].placement = new[j].placement
         IN  /\ phase' = IF twice THEN "threw" ELSE "class"
             /\ elements' = new /\ decs' = decs - 1
             /\ finishers' = IF finish THEN Append(finishers, "class") ELSE finishers
    /\ UNCHANGED <<source, todo, placements, extras, ran, defined>>

\* initializeClassElements: methods before fields; what is placed on
\* instances is left to their construction.
OnClass(k) ==
    LET found[n \in 0..Len(elements)] ==
            IF n = 0 THEN <<>>
            ELSE IF elements[n].kind = k /\ elements[n].placement # "own"
            THEN Append(found[n - 1], elements[n]) ELSE found[n - 1]
    IN  found[Len(elements)]
DefineElements ==
    /\ phase = "class" /\ decs = 0
    /\ defined' = OnClass("method") \o OnClass("field")
    /\ phase' = "finish"
    /\ UNCHANGED <<source, todo, decs, placements, elements, extras, finishers, ran>>

\* runClassFinishers: each may replace the class; a result that is no
\* constructor is refused.
RunFinisher ==
    /\ phase = "finish"
    /\ IF ran = Len(finishers) THEN phase' = "done" /\ UNCHANGED ran
       ELSE \/ ran' = ran + 1 /\ UNCHANGED phase
            \/ phase' = "threw" /\ UNCHANGED ran
    /\ UNCHANGED <<source, todo, decs, placements, elements, extras, finishers, defined>>

Next ==
    \/ Collect \/ PlaceAll \/ DecorateElement \/ Refuse \/ NextElement
    \/ DecorateConstructor \/ DefineElements \/ RunFinisher

Spec == Init /\ [][Next]_vars
-----------------------------------------------------------------------------
\* While elements are decorated, the keys taken are exactly those of the
\* elements, collected, added or still to come, each once: the two records
\* never drift apart.  So the class never gets two elements of one key and
\* placement, and it has defined each of its own elements once.
Places(s) == [i \in DOMAIN s |-> <<s[i].key, s[i].placement>>]
NoDuplicateElement ==
    LET all == Places(elements) \o Places(extras) \o Places(todo)
        taken == UNION {{<<k, p>> : k \in ToSet(placements[p])} : p \in Placement}
    IN  /\ phase = "decorate" => /\ ToSet(all) = taken
                                 /\ \A p \in Placement : IsInjective(placements[p])
        /\ phase \notin {"text", "place", "threw"} => IsInjective(all)
        /\ phase \in {"finish", "done"} =>
             /\ IsInjective(Places(defined))
             /\ ToSet(defined) = {e \in ToSet(elements) : e.placement # "own"}
        /\ phase = "done" => ran = Len(finishers)

\* What it needs to be inductive: what elements are, and what there is when.
Keys == {x.key : x \in Moves} \cup UNION {{e.key : e \in ToSet(s.elements)} : s \in Sources}
Element == [kind : {"method", "field"}, parts : SUBSET Forms,
            key : Keys, placement : Placement, decs : Nat]
Description == [kind : {"method", "field"}, key : Keys, placement : Placement]
LegacyInv ==
    /\ source \in Sources
    /\ {todo, extras} \subseteq Seq(Element) /\ elements \in Seq(Description)
    /\ placements \in [Placement -> Seq(Keys)]
    /\ phase \in {"text", "place"} => elements = <<>> /\ extras = <<>>
    /\ phase \in {"class", "finish", "done"} => todo = <<>> /\ extras = <<>>
    /\ NoDuplicateElement
=============================================================================

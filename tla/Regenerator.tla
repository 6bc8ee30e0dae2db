----------------------------- MODULE Regenerator -----------------------------
(***************************************************************************)
(* The generator runtime of jsScript/webmssdk.js.                          *)
(*                                                                         *)
(* A generator function is compiled to a switch over locations, run once   *)
(* per resumption: context.prev is where it is, context.next where it goes *)
(* on.  A try statement is an entry of four locations (try, catch,         *)
(* finally, after; 0 for none here) with one completion record.  The       *)
(* runtime decides by comparing prev with these locations, and a body that *)
(* has called one of its functions returns to the loop of _invoke, which   *)
(* acts on context.method again.                                           *)
(*                                                                         *)
(* An instruction is [op, to, try]: "yield", "delegate" (yield* ), "throw",*)
(* "return", "jump" (break or continue), "try" (where a try statement      *)
(* begins), "catch" (the first of a catch block), "endblock" (the last of  *)
(* a block of entry try) or "plain", which may throw, also because it      *)
(* calls the running generator again.                                      *)
(***************************************************************************)
EXTENDS Integers, Sequences, FiniteSetsExt

CONSTANT Generators   \* the compiled bodies: [code, tries]

VARIABLES
    gen,       \* the body
    context,   \* the Context object
    state,     \* the state kept by makeInvokeMethod
    out        \* the last answer: a value, a result or an exception

vars == <<gen, context, state, out>>

\* Values that come from no place of the program: nothing, what the caller
\* gave, and what an inner iterator threw.
None == 0
Given == -1
Inner == -2

Normal == <<"normal", 0>>
Start == 1                        \* the location 0 of the source
End == Len(gen.code) + 1          \* the location "end"

Record == {Normal} \cup ({"throw", "return", "jump"} \X Int)
Contexts == [prev : 1..End, next : 1..End, method : {"next", "throw", "return"},
             arg : Int, rval : Int, delegate : BOOLEAN,
             root : Record, completion : [DOMAIN gen.tries -> Record]]
TypeOK ==
    /\ gen \in Generators
    /\ state \in {"suspendedStart", "suspendedYield", "executing", "completed"}
    /\ context \in Contexts

Init ==
    /\ gen \in Generators
    /\ context = [prev |-> Start, next |-> Start, method |-> "next", arg |-> None,
                  rval |-> None, delegate |-> FALSE, root |-> Normal,
                  completion |-> [i \in DOMAIN gen.tries |-> Normal]]
    /\ state = "suspendedStart" /\ out = <<"nothing", 0>>

\* Exception e: the innermost entry around prev sends it to its catch or its
\* finally block, and the root entry to the end.  Only a catch block ends the
\* caller's throw.
DispatchPastCatch(c, e) ==
    LET finals == {i \in DOMAIN gen.tries : gen.tries[i].tryLoc <= c.prev
                                             /\ c.prev < gen.tries[i].finallyLoc}
        i == Max(finals)
    IN  IF finals = {} THEN [c EXCEPT !.root = <<"throw", e>>, !.next = End]
        ELSE [c EXCEPT !.completion[i] = <<"throw", e>>, !.next = gen.tries[i].finallyLoc]
DispatchException(c, e) ==
    LET catches(t) == t.tryLoc <= c.prev /\ t.catchLoc # 0 /\ c.prev < t.catchLoc
        runs(t)    == t.tryLoc <= c.prev /\ t.finallyLoc # 0 /\ c.prev < t.finallyLoc
        hit == {i \in DOMAIN gen.tries : catches(gen.tries[i]) \/ runs(gen.tries[i])}
        i == Max(hit)
        t == gen.tries[i]
    IN  IF hit = {} THEN [c EXCEPT !.root = <<"throw", e>>, !.next = End]
        ELSE IF catches(t)
        THEN [c EXCEPT !.completion[i] = <<"throw", e>>, !.next = t.catchLoc,
                       !.method = "next", !.arg = None]
        ELSE [c EXCEPT !.completion[i] = <<"throw", e>>, !.next = t.finallyLoc]

\* What a completion other than an exception does to the context.
CompleteSetsMethod(c, r, afterLoc) ==
    CASE r[1] = "jump"   -> [c EXCEPT !.method = "jump", !.next = r[2]]
      [] r[1] = "return" -> [c EXCEPT !.rval = r[2], !.arg = r[2],
                                      !.method = "return", !.next = End]
      [] OTHER           -> [c EXCEPT !.next = IF afterLoc # 0 THEN afterLoc ELSE @]
Complete(c, r, afterLoc) ==
    CASE r[1] = "jump"   -> [c EXCEPT !.next = r[2]]
      [] r[1] = "return" -> [c EXCEPT !.rval = r[2], !.arg = r[2],
                                      !.method = "return", !.next = End]
      [] OTHER           -> [c EXCEPT !.next = IF afterLoc # 0 THEN afterLoc ELSE @]

\* return, break or continue: through the innermost finally block around
\* prev, unless a jump stays inside that try statement.
Abrupt(c, type, v) ==
    LET finals == {i \in DOMAIN gen.tries : /\ gen.tries[i].tryLoc <= c.prev
                                            /\ gen.tries[i].finallyLoc # 0
                                            /\ c.prev < gen.tries[i].finallyLoc}
        i == Max(finals)
        t == gen.tries[i]
    IN  IF finals = {} \/ (type = "jump" /\ t.tryLoc <= v /\ v <= t.finallyLoc)
        THEN Complete(c, <<type, v>>, 0)
        ELSE [c EXCEPT !.completion[i] = <<type, v>>, !.method = "next", !.next = t.finallyLoc]

Answer(s, o) == state' = s /\ out' = o /\ UNCHANGED gen
MoveTo(c, q) == /\ context' = [c EXCEPT !.prev = q, !.next = q]
                /\ state' = "executing" /\ UNCHANGED <<gen, out>>

\* The loop of _invoke without a delegate: act on the method, then run the
\* body at next.  At the location "end" the body is stopped: done, with the
\* exception of the root entry or with rval.
Loop(c) ==
    LET d == CASE c.method = "throw"  -> DispatchException(c, c.arg)
               [] c.method = "return" -> Abrupt(c, "return", c.arg)
               [] OTHER -> c
    IN  IF d.next # End THEN MoveTo(d, d.next)
        ELSE /\ context' = [d EXCEPT !.prev = End]
             /\ Answer("completed", IF d.root[1] = "throw"
                                    THEN <<"threw", d.root[2]>> ELSE <<"returned", d.rval>>)

\* The body threw v: dispatched by the same loop.
BodyThrew(v) == Loop([context EXCEPT !.method = "throw", !.arg = v])

\* While an inner iterator is delegated to, every resumption is forwarded.
\* k is what the iterator does: yield again, finish, throw (or answer with
\* something that is not an object), or have no such method.  One without
\* `throw` is closed first, and the outcome of that is an exception too.
Delegate(c, k) ==
    LET alone  == [c EXCEPT !.delegate = FALSE]
        threw  == [alone EXCEPT !.method = "throw", !.arg = Inner]
        after  == [alone EXCEPT !.next = c.prev + 1]
    IN  CASE k = "yields" -> context' = c /\ Answer("suspendedYield", <<"yielded", c.prev>>)
          [] k = "throws" -> Loop(threw)
          [] k = "lacks"  -> Loop(IF c.method = "return" THEN alone ELSE threw)
          [] k = "done"   -> Loop(IF c.method = "return" THEN after
                                  ELSE [after EXCEPT !.method = "next", !.arg = None])
InnerAnswers == {"yields", "throws", "lacks", "done"}

\* next, throw and return.
Invoke(m) ==
    LET c == [context EXCEPT !.method = m, !.arg = IF m = "next" THEN None ELSE Given]
    IN  \/ /\ state = "completed" \/ (state = "suspendedStart" /\ m = "throw")
           /\ context' = IF state = "completed" THEN context ELSE c
           /\ Answer("completed", IF m = "throw" THEN <<"threw", Given>>
                                  ELSE <<"returned", None>>)
        \/ state = "suspendedStart" /\ m # "throw" /\ Loop(c)
        \/ state = "suspendedYield" /\ ~context.delegate /\ Loop(c)
        \/ state = "suspendedYield" /\ context.delegate /\ \E k \in InnerAnswers : Delegate(c, k)

Instr == gen.code[context.prev]
Op(o) == state = "executing" /\ Instr.op = o

Plain == Op("plain") /\ (MoveTo(context, context.prev + 1) \/ BodyThrew(context.prev))
Try == Op("try") /\ MoveTo(context, Instr.to)
Throw == Op("throw") /\ BodyThrew(context.prev)
Return == Op("return") /\ Loop(Abrupt(context, "return", context.prev))

Jump ==
    /\ Op("jump")
    /\ \/ MoveTo(context, context.prev + 1)
       \/ Loop(Abrupt(context, "jump", Instr.to))

\* context.catch: the exception is taken and the record of the entry reset.
Catch ==
    /\ Op("catch")
    /\ MoveTo([context EXCEPT !.completion[Instr.try] = Normal], context.prev + 1)

\* A block ends: a body or catch block goes to its finally block or past the
\* statement; a finally block calls context.finish, which throws or completes
\* and resets the record.
EndBlock ==
    LET i == Instr.try
        t == gen.tries[i]
        r == context.completion[i]
    IN  /\ Op("endblock")
        /\ \/ /\ t.finallyLoc = 0 \/ context.prev < t.finallyLoc
              /\ MoveTo(context, IF t.finallyLoc # 0 THEN t.finallyLoc ELSE t.afterLoc)
           \/ /\ t.finallyLoc # 0 /\ context.prev >= t.finallyLoc
              /\ IF r[1] = "throw" THEN BodyThrew(r[2])
                 ELSE Loop([Complete(context, r, t.afterLoc) EXCEPT !.completion[i] = Normal])

Yield ==
    /\ Op("yield")
    /\ context' = [context EXCEPT !.next = @ + 1]
    /\ Answer("suspendedYield", <<"yielded", context.prev>>)

\* delegateYield, and the first call of the inner iterator by the loop.
DelegateYield ==
    /\ Op("delegate")
    /\ \E k \in InnerAnswers : Delegate([context EXCEPT !.delegate = TRUE], k)

Next ==
    \/ \E m \in {"next", "throw", "return"} : Invoke(m)
    \/ Plain \/ Throw \/ Return \/ Jump
    \/ Try \/ Catch \/ EndBlock \/ Yield \/ DelegateYield

Spec == Init /\ [][Next]_vars
-----------------------------------------------------------------------------
BodyEnd(t)  == IF t.catchLoc # 0 THEN t.catchLoc
               ELSE IF t.finallyLoc # 0 THEN t.finallyLoc ELSE t.afterLoc
CatchEnd(t) == IF t.finallyLoc # 0 THEN t.finallyLoc ELSE t.afterLoc
Region(t) ==
    [body |-> t.tryLoc..(BodyEnd(t) - 1),
     catch |-> BodyEnd(t)..(CatchEnd(t) - 1), catchAt |-> t.catchLoc,
     finally |-> IF t.finallyLoc # 0 THEN t.finallyLoc..(t.afterLoc - 1) ELSE {},
     finallyAt |-> t.finallyLoc,
     end |-> t.afterLoc]
Text == [code |-> gen.code, start |-> Start,
         regions |-> {Region(gen.tries[i]) : i \in DOMAIN gen.tries}]
Live == state \in {"executing", "suspendedYield"}
Place == IF Live THEN context.prev ELSE 0
EntryOf(r) == CHOOSE i \in DOMAIN gen.tries : Region(gen.tries[i]) = r
Pending == [r \in Text.regions |-> IF Live /\ context.prev \in r.finally
                                   THEN context.completion[EntryOf(r)] ELSE Normal]
Mode == CASE state = "suspendedStart" -> "fresh"
          [] state = "executing"      -> "running"
          [] state = "suspendedYield" -> "suspended"
          [] state = "completed"      -> "done"

Lexical == INSTANCE Completions WITH
    prog <- Text, pc <- Place, pend <- Pending, callers <- <<>>, mode <- Mode

\* A generator obeys the text of its body: each exception, whether thrown in
\* the body, by the caller or by an inner iterator, reaches the innermost
\* catch or finally block; a return runs every finally block on its way; what
\* was pending is resumed; and what has ended stays so.
GeneratorIsLexical == Lexical!Spec
-----------------------------------------------------------------------------
(***************************************************************************)
(* Which bodies the runtime is promised to follow.                         *)
(***************************************************************************)

\* What the compiler makes of a body: every block of a try statement ends
\* with an endblock, entries are in the order of the text, and what begins
\* within a block ends within it.
Borders(t) == {BodyEnd(t), CatchEnd(t), t.afterLoc}
Blocks(t) == {Region(t).body, Region(t).catch, Region(t).finally}
Statement(g, i) ==
    LET t == g.tries[i]
    IN  /\ t.catchLoc # 0 \/ t.finallyLoc # 0
        /\ 0 < t.tryLoc /\ t.tryLoc < BodyEnd(t)
        /\ t.catchLoc # 0 => t.catchLoc < CatchEnd(t)
        /\ CatchEnd(t) <= t.afterLoc /\ t.afterLoc <= Len(g.code)
        /\ t.finallyLoc # 0 => t.finallyLoc < t.afterLoc
        /\ t.catchLoc # 0 => g.code[t.catchLoc].op = "catch"
        /\ \A b \in Borders(t) : g.code[b - 1].op = "endblock"
        /\ \A j \in DOMAIN g.tries : i < j =>
             /\ t.tryLoc < g.tries[j].tryLoc
             /\ \A b \in Borders(t) : g.tries[j].tryLoc < b => g.tries[j].afterLoc < b
Instruction(g, q) ==
    LET c == g.code[q]
        entry(j) == j \in DOMAIN g.tries
    IN  /\ c.op \notin {"throw", "return", "endblock"} => q < Len(g.code)
        /\ c.op \in {"try", "catch"} => c.to = q + 1
        /\ c.op = "catch" => entry(c.try) /\ g.tries[c.try].catchLoc = q
        /\ c.op = "endblock" => entry(c.try) /\ g.tries[c.try].tryLoc < q
                                             /\ q + 1 \in Borders(g.tries[c.try])
        /\ c.op = "jump" =>
             /\ c.to \in DOMAIN g.code
             /\ \A j \in DOMAIN g.tries : \A B \in Blocks(g.tries[j]) :
                  c.to \in B => q \in B \/ c.to = g.tries[j].tryLoc

\* Where the runtime parts from the text: in a try statement with a finally
\* block that the body begins with (a return before the start runs it), that
\* is within a finally block (its end throws what is pending outside of it),
\* or that a loop repeats (a record that was left behind is acted on); in a
\* jump out of a finally block (it throws what was pending instead) or through two.
Jumps(g) == {q \in DOMAIN g.code : g.code[q].op = "jump"}
Crosses(g, q, i) == LET r == Region(g.tries[i])
                    IN  /\ r.finally # {} /\ q \in r.body \cup r.catch
                        /\ g.code[q].to \notin r.body \cup r.catch
Followed(g) ==
    /\ \A i \in DOMAIN g.tries : g.tries[i].finallyLoc # 0 =>
         /\ Start < g.tries[i].tryLoc
         /\ \A j \in DOMAIN g.tries : g.tries[i].tryLoc \notin Region(g.tries[j]).finally
         /\ \A q \in Jumps(g) : g.code[q].to <= g.tries[i].tryLoc => q < g.tries[i].tryLoc
    /\ \A q \in Jumps(g) : \A i \in DOMAIN g.tries :
         /\ q \notin Region(g.tries[i]).finally
         /\ \A j \in DOMAIN g.tries : Crosses(g, q, i) /\ Crosses(g, q, j) => i = j

Ops == {"plain", "yield", "delegate", "throw", "return", "jump", "try", "catch", "endblock"}
WellFormed(g) ==
    /\ g \in [code : Seq([op : Ops, to : Nat, try : Nat]) \ {<<>>},
              tries : Seq([tryLoc : Nat, catchLoc : Nat, finallyLoc : Nat, afterLoc : Nat])]
    /\ \A i \in DOMAIN g.tries : Statement(g, i)
    /\ \A q \in DOMAIN g.code : Instruction(g, q)
    /\ Followed(g)
GeneratorAssumption == \A g \in Generators : WellFormed(g)

-----------------------------------------------------------------------------
(* The inductive invariant of the refinement.                              *)

Finally(i) == Region(gen.tries[i]).finally
Guarded(i) == Region(gen.tries[i]).body \cup Region(gen.tries[i]).catch

\* Where a generator stands when its state is what it is.
Placed ==
    /\ state = "suspendedStart" =>
         /\ context.prev = Start /\ context.next = Start /\ ~context.delegate
         /\ \A i \in DOMAIN gen.tries : context.completion[i] = Normal
    /\ state = "executing" =>
         /\ context.prev # End /\ context.next = context.prev
         /\ context.method \in {"next", "throw"} /\ ~context.delegate
    /\ state = "suspendedYield" =>
         /\ context.prev # End
         /\ Instr.op = IF context.delegate THEN "delegate" ELSE "yield"
         /\ ~context.delegate => context.next = context.prev + 1
    /\ state # "completed" => context.root = Normal

\* The method is left at "throw" only in the finally block that is to throw.
ThrowsOn ==
    state = "executing" /\ context.method = "throw" =>
      \E i \in DOMAIN gen.tries : context.prev \in Finally(i) /\ context.completion[i][1] = "throw"

\* A record that is set belongs to the handler that runs, or to a finally
\* block behind that is never reached again.
Settled ==
    Live => \A i \in DOMAIN gen.tries : context.completion[i] # Normal =>
      \/ context.prev = gen.tries[i].catchLoc
      \/ gen.tries[i].finallyLoc # 0 /\ gen.tries[i].finallyLoc <= context.prev

\* A jump that is pending was made in the statement and goes out of it.
JumpsPending ==
    Live => \A i \in DOMAIN gen.tries : context.completion[i][1] = "jump" =>
      \E q \in Jumps(gen) : gen.code[q].to = context.completion[i][2] /\ Crosses(gen, q, i)

GeneratorInv == TypeOK /\ Placed /\ ThrowsOn /\ Settled /\ JumpsPending
=============================================================================

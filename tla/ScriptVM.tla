------------------------------ MODULE ScriptVM ------------------------------
(***************************************************************************)
(* The bytecode machine of jsScript/webmssdk.js: the part of the signing   *)
(* script that the service runs was compiled to bytecode, and this         *)
(* function decodes and interprets it.                                     *)
(*                                                                         *)
(* The machine has one instruction pointer, an operand stack, a stack of   *)
(* open try statements, a linked list of frames of callers and one         *)
(* register for the completion a finally block has to resume.  Operands,   *)
(* scopes and `this` are data and left out: an instruction that only       *)
(* computes completes or throws.  A native function, which may run         *)
(* another activation of the machine, is such an instruction too.          *)
(*                                                                         *)
(* An instruction is [op, to, end]: "try" (opcodes 62 and 63), "bound"     *)
(* (61), "throw" (64), "endblock" (65), "return" (66), "call" of a         *)
(* bytecode function (67), "jump" (51, 52 and 70 to 72) and "plain" (all   *)
(* others).                                                                *)
(***************************************************************************)
EXTENDS Integers, Sequences, FiniteSetsExt

CONSTANT VMPrograms   \* the instruction sequences that may be loaded

VARIABLES
    code,     \* the bytecode (Cb)
    pc,       \* Co
    tries,    \* De: the open try statements of the running function
    frames,   \* Dc: the callers
    res,      \* Db: the completion pending for a finally block
    mode, out

vars == <<code, pc, tries, frames, res, mode, out>>

Normal == <<"normal", 0>>
Given == -1   \* what the caller did wrong

Entry == [kind : 0..3, end : Nat, at : Nat, catch : Nat]
TypeOK ==
    /\ code \in VMPrograms
    /\ pc \in Nat /\ mode \in {"fresh", "running", "done"}
    /\ tries \in Seq(Entry) /\ frames \in Seq([pc : Nat, tries : Seq(Entry)])
    /\ \A k \in DOMAIN frames : frames[k].pc \in DOMAIN code
    /\ res \in {Normal} \cup ({"return", "throw"} \X Int)

Init ==
    /\ code \in VMPrograms
    /\ pc = 0 /\ tries = <<>> /\ frames = <<>> /\ res = Normal
    /\ mode = "fresh" /\ out = <<"nothing", 0>>

Stop(o) ==
    /\ mode' = "done" /\ out' = o
    /\ pc' = 0 /\ tries' = <<>> /\ frames' = <<>> /\ res' = Normal

\* The header is checked, the strings and the code are decoded, and the main
\* function is entered; a wrong magic number or version is refused.
Load ==
    /\ mode = "fresh"
    /\ \E header \in {"good", "mhe", "ve"} :
          \/ /\ header = "good"
             /\ mode' = "running" /\ pc' = 1
             /\ UNCHANGED <<tries, frames, res, out>>
          \/ header # "good" /\ Stop(<<"threw", Given>>)
    /\ UNCHANGED code

Running == mode = "running" /\ UNCHANGED <<code, mode, out>>
Op(o) == mode = "running" /\ code[pc].op = o

\* The catch clause around the interpreter: exception v in a function whose
\* open try statements are ts.  The innermost one whose handler does not run
\* yet takes it, in this function or in the nearest caller that has one.
UnwindForgetsRunning(v, ts) ==
    LET stacks  == Append([k \in DOMAIN frames |-> frames[k].tries], ts)
        live(k) == DOMAIN stacks[k]
        hit     == {k \in DOMAIN stacks : live(k) # {}}
    IN  IF hit = {} THEN Stop(<<"threw", v>>) /\ UNCHANGED code
        ELSE LET k == Max(hit)
                 j == Max(live(k))
                 e == stacks[k][j]
             IN  /\ Running
                 /\ frames' = SubSeq(frames, 1, k - 1)
                 /\ pc' = e.at /\ res' = Normal
                 /\ tries' = SubSeq(stacks[k], 1, j - 1) \o <<[e EXCEPT !.kind = 0]>>
Unwind(v, ts) ==
    LET stacks  == Append([k \in DOMAIN frames |-> frames[k].tries], ts)
        live(k) == {j \in DOMAIN stacks[k] : stacks[k][j].kind # 0}
        hit     == {k \in DOMAIN stacks : live(k) # {}}
    IN  IF hit = {} THEN Stop(<<"threw", v>>) /\ UNCHANGED code
        ELSE LET k == Max(hit)
                 j == Max(live(k))
                 e == stacks[k][j]
             IN  /\ Running
                 /\ frames' = SubSeq(frames, 1, k - 1)
                 /\ pc' = IF e.kind = 3 THEN e.catch ELSE e.at
                 /\ tries' = SubSeq(stacks[k], 1, j - 1)
                                \o <<[e EXCEPT !.kind = IF e.kind = 3 THEN 2 ELSE 0]>>
                 /\ res' = IF e.kind = 2 THEN <<"throw", v>> ELSE Normal

\* Back to the caller, with the result on the operand stack, or out of the
\* machine.
LeaveFunction(v) ==
    IF frames = <<>> THEN Stop(<<"returned", v>>) /\ UNCHANGED code
    ELSE LET f == frames[Len(frames)]
         IN  /\ Running
             /\ pc' = f.pc /\ tries' = f.tries /\ res' = Normal
             /\ frames' = SubSeq(frames, 1, Len(frames) - 1)

Go(q) == Running /\ pc' = q /\ UNCHANGED <<tries, frames, res>>

\* Operands, properties, scopes, arithmetic, comparisons, closures and
\* constructors: everything that may throw but moves no control.
Plain == Op("plain") /\ (Go(pc + 1) \/ Unwind(pc, tries))

Branch == Op("jump") /\ (Go(pc + 1) \/ Go(code[pc].to))

\* A try instruction that meets an entry whose end is not known yet adds a
\* catch block to it; every other one opens an entry.  Its handler is the
\* code that follows.
Try ==
    LET n == Len(tries)
        second == n > 0 /\ tries[n].end = 0
    IN  /\ Op("try") /\ Running
        /\ tries' = IF second
                    THEN [tries EXCEPT ![n].kind = 3, ![n].catch = pc + 1]
                    ELSE Append(tries, [kind |-> 1, end |-> 0, at |-> pc + 1, catch |-> 0])
        /\ pc' = code[pc].to
        /\ UNCHANGED <<frames, res>>

Bound ==
    /\ Op("bound") /\ Running
    /\ tries' = [tries EXCEPT ![Len(tries)].end = code[pc].end]
    /\ pc' = pc + 1
    /\ UNCHANGED <<frames, res>>

Throw == Op("throw") /\ Unwind(pc, tries)

\* The end of a block pops its entry.  A handler that ends resumes what is
\* pending; a body or a catch block that has a finally block runs it.
EndBlock ==
    LET e    == tries[Len(tries)]
        rest == SubSeq(tries, 1, Len(tries) - 1)
    IN  /\ Op("endblock")
        /\ \/ /\ e.kind = 1 \/ (e.kind = 0 /\ res[1] = "normal")
              /\ Running
              /\ pc' = e.end /\ tries' = rest
              /\ UNCHANGED <<frames, res>>
           \/ e.kind = 0 /\ res[1] = "throw" /\ Unwind(res[2], rest)
           \/ e.kind = 0 /\ res[1] = "return" /\ LeaveFunction(res[2])
           \/ /\ e.kind \in {2, 3}
              /\ Running
              /\ pc' = e.at /\ tries' = Append(rest, [e EXCEPT !.kind = 0])
              /\ UNCHANGED <<frames, res>>

\* A return drops the open try statements up to the innermost one with a
\* finally block, which it runs first.
Return ==
    LET finals == {j \in DOMAIN tries : tries[j].kind \in {2, 3}}
        j == Max(finals)
    IN  /\ Op("return")
        /\ IF finals = {} THEN LeaveFunction(pc)
           ELSE /\ Running
                /\ res' = <<"return", pc>>
                /\ pc' = tries[j].at
                /\ tries' = SubSeq(tries, 1, j - 1) \o <<[tries[j] EXCEPT !.kind = 0]>>
                /\ UNCHANGED frames

Call ==
    /\ Op("call") /\ Running
    /\ frames' = Append(frames, [pc |-> pc + 1, tries |-> tries])
    /\ pc' = code[pc].to /\ tries' = <<>>
    /\ UNCHANGED res

Next ==
    \/ Load \/ Plain \/ Branch \/ Try \/ Bound
    \/ Throw \/ EndBlock \/ Return \/ Call

Spec == Init /\ [][Next]_vars
-----------------------------------------------------------------------------
(***************************************************************************)
(* The try statements of a program c, read off its layout: try, finally    *)
(* block and second try (if there is one), catch block, bound, body.       *)
(***************************************************************************)
Opens(c) == {i \in DOMAIN c : c[i].op = "try"}
Statements(c) == Opens(c) \ {c[i].to : i \in Opens(c)}
Second(c, i) == IF c[i].to \in Opens(c) THEN c[i].to ELSE i
BoundOf(c, i) == c[Second(c, i)].to
EndOf(c, i) == c[BoundOf(c, i)].end
Region(c, i) ==
    LET t == Second(c, i)
    IN  [body |-> BoundOf(c, i)..(EndOf(c, i) - 1),
         catch |-> (t + 1)..(BoundOf(c, i) - 1), catchAt |-> t + 1,
         finally |-> (i + 1)..(t - 1), finallyAt |-> i + 1,
         end |-> EndOf(c, i)]
Regions == {Region(code, i) : i \in Statements(code)}

Text == [code |-> code, regions |-> Regions, start |-> 1]
IdlePend == [r \in Regions |-> Normal]
Pending == [r \in Regions |-> IF pc \in r.finally THEN res ELSE Normal]
Callers == [k \in DOMAIN frames |-> [pc |-> frames[k].pc, pend |-> IdlePend]]

Lexical == INSTANCE Completions WITH prog <- Text, pend <- Pending, callers <- Callers

\* Every exception reaches the handler that the program text gives it, in the
\* function that opened the try statement, and every return runs the finally
\* blocks around it: the stack of open try statements, which calls save and
\* exceptions unwind, is as good as the text.
HandlersAreLexical == Lexical!Spec
-----------------------------------------------------------------------------
(***************************************************************************)
(* Which programs the machine is promised to follow.                       *)
(***************************************************************************)

\* What the compiler makes of a program: the parts of a try statement are in
\* their order, each block ends with an endblock, and what begins within a
\* block ends within it.
Borders(c, i) == {Second(c, i), BoundOf(c, i), EndOf(c, i)} \ {i}
Blocks(c, i) == {Region(c, i).body, Region(c, i).catch, Region(c, i).finally}
Extent(c, i) == (i + 1)..(EndOf(c, i) - 1)
Statement(c, i) ==
    LET t == Second(c, i)
        b == BoundOf(c, i)
        e == EndOf(c, i)
    IN  /\ i = t \/ i + 1 < t
        /\ t + 1 < b /\ b \in DOMAIN c /\ b + 1 < e /\ e <= Len(c)
        /\ c[b].op = "bound" /\ c[b].to = b + 1
        /\ \A d \in Borders(c, i) : c[d - 1].op = "endblock"
        /\ \A j \in Statements(c), d \in Borders(c, i) : i < j /\ j < d => EndOf(c, j) < d
Instruction(c, q) ==
    LET k == c[q]
    IN  /\ k.op \in {"plain", "jump", "call"} => q < Len(c)
        /\ k.op = "try" => q \in Statements(c) \/ \E i \in Statements(c) : q = Second(c, i)
        /\ k.op = "bound" => \E i \in Statements(c) : q = BoundOf(c, i)
        /\ k.op = "endblock" => \E i \in Statements(c) : q + 1 \in Borders(c, i)
        /\ k.op = "jump" =>
             /\ k.to \in DOMAIN c /\ c[k.to].op # "bound"
             /\ k.to \in Opens(c) => k.to \in Statements(c)
             /\ \A i \in Statements(c) : \A B \in Blocks(c, i) : q \in B <=> k.to \in B
        /\ k.op = "call" =>
             /\ k.to \in DOMAIN c
             /\ \A i \in Statements(c) : k.to \notin Extent(c, i)

\* Where the machine parts from the text: in a finally block that holds a try
\* statement or a call, which use the one register for what is pending, and
\* in one within another statement with a finally block, which a return
\* that is resumed skips.
Followed(c) ==
    \A i \in Statements(c) : Second(c, i) # i =>
        /\ \A j \in Statements(c) : j \in Extent(c, i) =>
              Second(c, j) = j /\ j \notin Region(c, i).finally
        /\ \A q \in Region(c, i).finally : c[q].op # "call"

Ops == {"plain", "jump", "call", "throw", "return", "try", "bound", "endblock"}
WellFormed(c) ==
    /\ c \in Seq([op : Ops, to : Nat, end : Nat]) \ {<<>>}
    /\ \A i \in Statements(c) : Statement(c, i)
    /\ \A q \in DOMAIN c : Instruction(c, q)
    /\ Followed(c)
VMAssumption == \A c \in VMPrograms : WellFormed(c)
-----------------------------------------------------------------------------
(* The inductive invariant of the refinement.                              *)

\* The entry that a statement has on the stack while control is at q: its end
\* is not known before the body, nor its catch block at the second try.
EntryAt(c, i, q) ==
    LET t == Second(c, i)
        b == BoundOf(c, i)
    IN  [kind  |-> IF q < t THEN 0
                   ELSE IF q = t THEN 1
                   ELSE IF q < b THEN (IF t = i THEN 0 ELSE 2)
                   ELSE IF t = i THEN 1 ELSE 3,
         end   |-> IF q \in {t, b} THEN 0 ELSE EndOf(c, i),
         at    |-> i + 1,
         catch |-> IF t = i \/ q = t THEN 0 ELSE t + 1]

\* The stack at q holds the statements around q, the innermost last.
StackFits(c, ts, q) ==
    /\ \A k \in DOMAIN ts : \E i \in Statements(c) :
         q \in Extent(c, i) /\ ts[k] = EntryAt(c, i, q)
    /\ \A k, l \in DOMAIN ts : k < l => ts[k].at < ts[l].at
    /\ \A i \in Statements(c) : q \in Extent(c, i) => \E k \in DOMAIN ts : ts[k].at = i + 1

\* A caller goes on behind its call, outside of finally blocks; what is
\* pending is so in a finally block.
Resumable(c, f) ==
    /\ f.pc \in DOMAIN c /\ f.pc - 1 \in DOMAIN c /\ c[f.pc - 1].op = "call"
    /\ f.tries \in Seq(Entry) /\ StackFits(c, f.tries, f.pc)
Placed ==
    IF mode = "running"
    THEN /\ pc \in DOMAIN code /\ StackFits(code, tries, pc)
         /\ \A k \in DOMAIN frames : Resumable(code, frames[k])
         /\ res # Normal => \E i \in Statements(code) : pc \in Region(code, i).finally
    ELSE pc = 0 /\ tries = <<>> /\ frames = <<>> /\ res = Normal

VMInv == TypeOK /\ Placed
=============================================================================

---------------------------- MODULE Completions ----------------------------
(***************************************************************************)
(* What structured control flow promises, whoever implements it: the       *)
(* abstract specification of the two interpreters of                       *)
(* jsScript/webmssdk.js, the bytecode machine (ScriptVM) and the generator *)
(* runtime (Regenerator).                                                  *)
(*                                                                         *)
(* A program is a sequence of instructions and a set of regions, one for   *)
(* each try statement.  Which handler an exception reaches, and which      *)
(* finally blocks a return or a jump runs on its way, is read off the      *)
(* program text alone: the innermost region around the instruction, then   *)
(* around the call that led to it.  There is no stack of handlers, which   *)
(* is what both implementations have and may get wrong.                    *)
(*                                                                         *)
(* The value of an exception, of a result or of a yield is the place it    *)
(* came from.                                                              *)
(***************************************************************************)
EXTENDS Integers, Sequences, FiniteSetsExt

VARIABLES
    prog,     \* [code, start, regions]; a region is [body, catch, finally: sets of pcs,
              \* catchAt, finallyAt, end: pcs]
    pc,
    pend,     \* for each region in whose finally block pc is: what to resume after it
    callers,  \* the suspended callers, innermost last: [pc, pend]
    mode,     \* "fresh", "running", "suspended" or "done"
    out       \* what was last handed to whoever runs the program

vars == <<prog, pc, pend, callers, mode, out>>

\* Values that come from no place of the program: nothing, what the caller
\* gave, and what an inner iterator threw.
None == 0
Given == -1
Inner == -2

Normal == <<"normal", 0>>
Nothing == <<"nothing", 0>>

Instr == prog.code[pc]
Idle == [r \in prog.regions |-> Normal]

\* The regions that take an exception raised at q, those whose finally block
\* an exit from q must run, and all those around q.
Guards(q) == {r \in prog.regions : q \in r.body \/ (q \in r.catch /\ r.finally # {})}
Finals(q) == {r \in prog.regions : r.finally # {} /\ q \in r.body \cup r.catch}
Around(q) == {r \in prog.regions : q \in r.body \cup r.catch \cup r.finally}
Innermost(S) == CHOOSE r \in S : \A s \in S : r.body \cup r.catch \cup r.finally
                                     \subseteq s.body \cup s.catch \cup s.finally

\* Control moves to q of a frame whose pending completions are p.
At(q, p) ==
    /\ pc' = q
    /\ pend' = [r \in prog.regions |-> IF q \in r.finally THEN p[r] ELSE Normal]

Stop(o) ==
    /\ mode' = "done" /\ out' = o
    /\ pc' = 0 /\ pend' = Idle /\ callers' = <<>>

Keep == mode' = "running" /\ UNCHANGED out

Raise(v) ==
    LET frames  == Append(callers, [pc |-> pc, pend |-> pend])
        guarded == {k \in DOMAIN frames : Guards(frames[k].pc) # {}}
    IN  IF guarded = {}
        THEN Stop(<<"threw", v>>)
        ELSE LET k == Max(guarded)
                 f == frames[k]
                 r == Innermost(Guards(f.pc))
             IN  /\ Keep
                 /\ callers' = SubSeq(callers, 1, k - 1)
                 /\ IF f.pc \in r.body /\ r.catch # {}
                    THEN At(r.catchAt, f.pend)
                    ELSE At(r.finallyAt, [f.pend EXCEPT ![r] = <<"throw", v>>])

\* Run the innermost finally block of S with completion c pending.
Through(S, c) ==
    LET r == Innermost(S)
    IN  /\ Keep
        /\ At(r.finallyAt, [pend EXCEPT ![r] = c])
        /\ UNCHANGED callers

Return(v) ==
    IF Finals(pc) # {} THEN Through(Finals(pc), <<"return", v>>)
    ELSE IF callers = <<>> THEN Stop(<<"returned", v>>)
    ELSE LET c == callers[Len(callers)]
         IN  /\ Keep
             /\ pc' = c.pc /\ pend' = c.pend
             /\ callers' = SubSeq(callers, 1, Len(callers) - 1)

Jump(q) ==
    LET crossed == {r \in Finals(pc) : q \notin r.body \cup r.catch}
    IN  IF crossed # {} THEN Through(crossed, <<"jump", q>>)
        ELSE Keep /\ At(q, pend) /\ UNCHANGED callers

Go(q) == Keep /\ At(q, pend) /\ UNCHANGED callers

\* The end of a block: of a body or a catch block, or of a finally block,
\* which resumes what was pending.
EndBlock ==
    LET r == Innermost(Around(pc))
    IN  IF pc \notin r.finally
        THEN Go(IF r.finally # {} THEN r.finallyAt ELSE r.end)
        ELSE CASE pend[r][1] = "normal" -> Go(r.end)
               [] pend[r][1] = "throw"  -> Raise(pend[r][2])
               [] pend[r][1] = "return" -> Return(pend[r][2])
               [] pend[r][1] = "jump"   -> Jump(pend[r][2])

Suspend == mode' = "suspended" /\ out' = <<"yielded", pc>> /\ UNCHANGED <<pc, pend, callers>>

Step ==
    /\ mode = "running"
    /\ \/ Instr.op \in {"try", "bound", "catch"} /\ Go(Instr.to)
       \/ Instr.op = "plain" /\ (Go(pc + 1) \/ Raise(pc))
       \/ Instr.op = "jump" /\ (Go(pc + 1) \/ Jump(Instr.to))
       \/ Instr.op = "throw" /\ Raise(pc)
       \/ Instr.op = "return" /\ Return(pc)
       \/ Instr.op = "endblock" /\ EndBlock
       \/ /\ Instr.op = "call"
          /\ Keep
          /\ callers' = Append(callers, [pc |-> pc + 1, pend |-> pend])
          /\ pc' = Instr.to /\ pend' = Idle
       \/ Instr.op = "yield" /\ Suspend
       \/ Instr.op = "delegate" /\ (Suspend \/ Go(pc + 1) \/ Raise(Inner))
    /\ UNCHANGED prog

\* The caller resumes a suspended program with method m: the instruction it
\* is suspended at completes, raises or returns.  An inner iterator
\* ("delegate") may yield again or raise instead.
Resume(m) ==
    /\ mode = "suspended"
    /\ \/ m = "next" /\ Go(pc + 1)
       \/ m = "throw" /\ Instr.op = "yield" /\ Raise(Given)
       \/ m = "return" /\ Return(Given)
       \/ Instr.op = "delegate" /\ (Suspend \/ Raise(Inner) \/ (m = "throw" /\ Go(pc + 1)))
    /\ UNCHANGED prog

\* A program is started, or refused or ended before its first instruction.
Start ==
    /\ mode = "fresh"
    /\ \/ Go(prog.start)
       \/ \E o \in {<<"threw", Given>>, <<"returned", Given>>} : Stop(o)
    /\ UNCHANGED prog

\* What is done stays done: a generator may be asked again.
Ask(m) ==
    /\ mode = "done"
    /\ out' = IF m = "throw" THEN <<"threw", Given>> ELSE <<"returned", None>>
    /\ UNCHANGED <<prog, pc, pend, callers, mode>>

Init == pc = 0 /\ pend = Idle /\ callers = <<>> /\ mode = "fresh" /\ out = Nothing

Next ==
    \/ Start
    \/ Step
    \/ \E m \in {"next", "throw", "return"} : Resume(m) \/ Ask(m)

Spec == Init /\ [][Next]_vars
=============================================================================

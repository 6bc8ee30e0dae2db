---------------------------- MODULE ScriptVMProofs ----------------------------
(***************************************************************************)
(* The bytecode machine implements structured control flow, for every set  *)
(* of well-formed programs: first what the layout of a program says, then  *)
(* what the stack of open try statements says at a place, then one lemma   *)
(* per kind of move.                                                       *)
(***************************************************************************)
EXTENDS ScriptVM, SequenceTheorems, WellFoundedInduction, TLAPS

S == Statements(code)
T(i) == Second(code, i)
B(i) == BoundOf(code, i)
Z(i) == EndOf(code, i)
R(i) == Region(code, i)
Size == Len(code)

-----------------------------------------------------------------------------
(* The layout of a program.                                                *)

Instr == [op : Ops, to : Nat, end : Nat]

\* The instructions of a program.
LEMMA Codes ==
  ASSUME VMAssumption, code \in VMPrograms
  PROVE  /\ WellFormed(code)
         /\ Size \in Nat /\ 0 < Size /\ DOMAIN code = 1..Size
         /\ \A q \in DOMAIN code : code[q].op \in Ops /\ code[q].to \in Nat /\ code[q].end \in Nat
         /\ S \subseteq 1..Size
<1>1. WellFormed(code) BY DEF VMAssumption
<1>2. code \in Seq(Instr) /\ code # <<>> BY <1>1 DEF WellFormed, Instr
<1>3. Size \in Nat /\ Size # 0 /\ DOMAIN code = 1..Size BY <1>2, EmptySeq DEF Size
<1>4. \A q \in DOMAIN code : code[q] \in Instr BY <1>2
<1>5. S \subseteq DOMAIN code BY DEF S, Statements, Opens
<1> QED BY <1>1, <1>3, <1>4, <1>5 DEF Instr

\* The parts of a statement, in their order.
LEMMA Layout ==
  ASSUME VMAssumption, code \in VMPrograms, NEW i \in S
  PROVE  /\ i \in Nat /\ T(i) \in Nat /\ B(i) \in Nat /\ Z(i) \in Nat
         /\ 0 < i /\ Z(i) <= Size
         /\ T(i) = i \/ i + 1 < T(i)
         /\ T(i) + 1 < B(i) /\ B(i) + 1 < Z(i)
         /\ code[i].op = "try" /\ code[T(i)].op = "try" /\ code[B(i)].op = "bound"
         /\ code[i].to = (IF T(i) = i THEN B(i) ELSE T(i)) /\ code[T(i)].to = B(i)
         /\ code[B(i)].to = B(i) + 1 /\ code[B(i)].end = Z(i)
         /\ T(i) # i => T(i) \notin S /\ code[T(i) - 1].op = "endblock"
         /\ code[B(i) - 1].op = "endblock" /\ code[Z(i) - 1].op = "endblock"
<1>1. Statement(code, i) BY Codes DEF WellFormed, S
<1>2. i \in Opens(code) /\ T(i) \in Opens(code) BY DEF S, Statements, T, Second
<1>3. T(i) # i => T(i) \notin S /\ T(i) = code[i].to
  BY <1>2 DEF S, Statements, T, Second
<1>4. B(i) = code[T(i)].to /\ Z(i) = code[B(i)].end BY DEF B, BoundOf, T, Z, EndOf
<1>5. i \in 1..Size /\ T(i) \in 1..Size /\ code[i].op = "try" /\ code[T(i)].op = "try"
  BY <1>2, Codes DEF Opens
<1>6. /\ i = T(i) \/ i + 1 < T(i)
      /\ T(i) + 1 < B(i) /\ B(i) \in DOMAIN code /\ B(i) + 1 < Z(i) /\ Z(i) <= Size
      /\ code[B(i)].op = "bound" /\ code[B(i)].to = B(i) + 1
      /\ \A d \in {T(i), B(i), Z(i)} \ {i} : code[d - 1].op = "endblock"
  BY <1>1 DEF Statement, T, B, Z, Borders, Size
<1>7. B(i) \in Nat /\ Z(i) \in Nat BY <1>4, <1>5, <1>6, Codes
<1>8. T(i) \in {T(i), B(i), Z(i)} /\ B(i) \in {T(i), B(i), Z(i)} \ {i}
      /\ Z(i) \in {T(i), B(i), Z(i)} \ {i}
  BY <1>5, <1>6, <1>7
<1> QED BY <1>3, <1>4, <1>5, <1>6, <1>7, <1>8, Codes

\* Of two statements, the later one is within a block of the other or behind it.
LEMMA Nesting ==
  ASSUME VMAssumption, code \in VMPrograms, NEW i \in S, NEW j \in S, i < j
  PROVE  /\ j # T(i) /\ j # B(i)
         /\ j < T(i) => Z(j) < T(i)
         /\ j < B(i) => Z(j) < B(i)
         /\ j < Z(i) => Z(j) < Z(i)
<1>1. Statement(code, i) BY Codes DEF WellFormed, S
<1>2. \A d \in {T(i), B(i), Z(i)} \ {i} : j < d => Z(j) < d
  BY <1>1 DEF Statement, T, B, Z, Borders, S
<1>3. j # T(i) /\ j # B(i) BY Layout
<1>4. B(i) # i /\ Z(i) # i BY Layout
<1>5. j < T(i) => T(i) # i BY Layout
<1> QED BY <1>2, <1>3, <1>4, <1>5

\* The blocks of a statement, as intervals.
LEMMA Blocked ==
  ASSUME VMAssumption, code \in VMPrograms, NEW i \in S
  PROVE  /\ R(i).body \subseteq Int /\ R(i).catch \subseteq Int /\ R(i).finally \subseteq Int
         /\ \A q \in Int : q \in R(i).body <=> B(i) <= q /\ q < Z(i)
         /\ \A q \in Int : q \in R(i).catch <=> T(i) < q /\ q < B(i)
         /\ \A q \in Int : q \in R(i).finally <=> i < q /\ q < T(i)
         /\ R(i).catch # {} /\ (R(i).finally = {} <=> T(i) = i)
         /\ R(i).catchAt = T(i) + 1 /\ R(i).finallyAt = i + 1 /\ R(i).end = Z(i)
<1>1. /\ R(i).body = B(i)..(Z(i) - 1) /\ R(i).catch = (T(i) + 1)..(B(i) - 1)
      /\ R(i).finally = (i + 1)..(T(i) - 1)
      /\ R(i).catchAt = T(i) + 1 /\ R(i).finallyAt = i + 1 /\ R(i).end = Z(i)
  BY DEF R, T, B, Z, Region
<1>2. T(i) + 1 \in R(i).catch BY <1>1, Layout
<1>3. T(i) # i => i + 1 \in R(i).finally BY <1>1, Layout
<1>4. /\ \A q \in Int : q \in R(i).body <=> B(i) <= q /\ q < Z(i)
      /\ \A q \in Int : q \in R(i).catch <=> T(i) < q /\ q < B(i)
      /\ \A q \in Int : q \in R(i).finally <=> i < q /\ q < T(i)
  BY <1>1, Layout
<1>5. R(i).body \subseteq Int /\ R(i).catch \subseteq Int /\ R(i).finally \subseteq Int
  BY <1>1, Layout
<1>6. T(i) = i => R(i).finally = {} BY <1>1, Layout
<1> QED BY <1>1, <1>2, <1>3, <1>4, <1>5, <1>6

\* Statement i is around q, with r in the same block as q.
In(i, q) == i < q /\ q < Z(i)
Same(i, q, r) ==
  /\ In(i, q) <=> In(i, r)
  /\ In(i, q) => /\ q < T(i) <=> r < T(i)
                 /\ q = T(i) <=> r = T(i)
                 /\ q < B(i) <=> r < B(i)
                 /\ q = B(i) <=> r = B(i)

\* Places in the same blocks have the same entries.
LEMMA SameIs ==
  ASSUME VMAssumption, code \in VMPrograms, NEW i \in S, NEW q \in Int, NEW r \in Int, Same(i, q, r)
  PROVE  /\ In(i, q) => EntryAt(code, i, q) = EntryAt(code, i, r)
         /\ q \in R(i).finally <=> r \in R(i).finally
         /\ q \in R(i).body \cup R(i).catch <=> r \in R(i).body \cup R(i).catch
<1>1. In(i, q) => EntryAt(code, i, q) = EntryAt(code, i, r)
  BY Layout DEF Same, EntryAt, T, B, Z
<1> QED BY <1>1, Layout, Blocked DEF Same, In

\* The whole of a statement is in the same blocks of the statements around it.
LEMMA Outer ==
  ASSUME VMAssumption, code \in VMPrograms, NEW i \in S, NEW j \in S, j < i,
         NEW q \in Int, i <= q, q <= Z(i)
  PROVE  Same(j, i, q)
BY Layout, Nesting DEF Same, In

\* No statement that begins within i is around q.
Bare(i, q) == i <= q /\ q <= Z(i) /\ \A j \in S : i < j => ~In(j, q)

\* The borders of a statement, and what is beside them.
LEMMA Bares ==
  ASSUME VMAssumption, code \in VMPrograms, NEW i \in S
  PROVE  /\ Bare(i, i) /\ Bare(i, i + 1) /\ Bare(i, T(i)) /\ Bare(i, T(i) + 1)
         /\ Bare(i, B(i)) /\ Bare(i, B(i) + 1) /\ Bare(i, Z(i))
         /\ T(i) # i => Bare(i, T(i) - 1)
         /\ Bare(i, B(i) - 1) /\ Bare(i, Z(i) - 1)
<1> SUFFICES ASSUME NEW j \in S, i < j
             PROVE  /\ ~In(j, i) /\ ~In(j, i + 1) /\ ~In(j, T(i)) /\ ~In(j, T(i) + 1)
                    /\ ~In(j, B(i)) /\ ~In(j, B(i) + 1) /\ ~In(j, Z(i))
                    /\ T(i) # i => ~In(j, T(i) - 1)
                    /\ ~In(j, B(i) - 1) /\ ~In(j, Z(i) - 1)
  BY Layout DEF Bare
<1> QED BY Layout, Nesting DEF In

\* What the machine is promised to follow: no statement is within a finally
\* block, and none with a finally block is within another such one.
LEMMA Alone ==
  ASSUME VMAssumption, code \in VMPrograms, NEW i \in S, NEW j \in S, NEW q \in Int,
         q \in R(j).finally
  PROVE  /\ i <= q => i <= j
         /\ Bare(i, q) => i = j
         /\ i < j /\ q < Z(i) => T(i) = i
         /\ q \in DOMAIN code => code[q].op # "call"
<1>0. Followed(code) BY Codes DEF WellFormed
<1>1. T(j) # j /\ j < q /\ q < T(j) /\ q < Z(j) BY Blocked, Layout
<1>2. \A k \in S : k \in Extent(code, j) => T(k) = k /\ k \notin R(j).finally
  BY <1>0, <1>1 DEF Followed, S, T, R
<1>3. \A k \in S : T(k) # k => \A l \in S : l \in Extent(code, k) => T(l) = l
  BY <1>0 DEF Followed, S, T
<1> i \in Nat /\ j \in Nat BY Codes
<1>4. i <= q => i <= j
  <2> SUFFICES ASSUME i <= q, j < i PROVE FALSE OBVIOUS
  <2>1. i \in R(j).finally BY <1>1, Blocked, Layout
  <2>2. i \in Extent(code, j) BY <1>1, Layout DEF Extent, Z
  <2> QED BY <1>2, <2>1, <2>2
<1>5. Bare(i, q) => i = j BY <1>1, <1>4, Layout DEF Bare, In
<1>6. i < j /\ q < Z(i) => T(i) = i
  <2> SUFFICES ASSUME i < j, q < Z(i), T(i) # i PROVE FALSE OBVIOUS
  <2>1. j \in Extent(code, i) BY <1>1, Layout DEF Extent, Z
  <2> QED BY <1>1, <1>3, <2>1
<1>7. q \in DOMAIN code => code[q].op # "call" BY <1>0, <1>1 DEF Followed, S, T, R
<1> QED BY <1>4, <1>5, <1>6, <1>7

\* What the compiler promises of an instruction.
LEMMA InstructionIs ==
  ASSUME VMAssumption, code \in VMPrograms, NEW q \in DOMAIN code
  PROVE  /\ code[q].op \in {"plain", "jump", "call"} => q + 1 \in DOMAIN code
         /\ code[q].op = "try" => \E i \in S : q = i \/ q = T(i)
         /\ code[q].op = "bound" => \E i \in S : q = B(i)
         /\ code[q].op = "endblock" =>
              \E i \in S : q = B(i) - 1 \/ q = Z(i) - 1 \/ (q = T(i) - 1 /\ T(i) # i)
         /\ code[q].op = "jump" =>
              /\ code[q].to \in DOMAIN code
              /\ \A i \in S : Same(i, q, code[q].to)
         /\ code[q].op = "call" =>
              /\ code[q].to \in DOMAIN code
              /\ \A i \in S : ~In(i, code[q].to)
<1>1. Instruction(code, q) BY Codes DEF WellFormed
<1>2. q \in Nat /\ code[q].to \in Nat BY Codes
<1>3. code[q].op \in {"plain", "jump", "call"} => q + 1 \in DOMAIN code
  BY <1>1, <1>2, Codes DEF Instruction, Size
<1>4. code[q].op = "try" => \E i \in S : q = i \/ q = T(i) BY <1>1 DEF Instruction, S, T
<1>5. code[q].op = "bound" => \E i \in S : q = B(i) BY <1>1 DEF Instruction, S, B
<1>6. code[q].op = "endblock" =>
        \E i \in S : q = B(i) - 1 \/ q = Z(i) - 1 \/ (q = T(i) - 1 /\ T(i) # i)
  <2> SUFFICES ASSUME code[q].op = "endblock"
               PROVE  \E i \in S : q = B(i) - 1 \/ q = Z(i) - 1 \/ (q = T(i) - 1 /\ T(i) # i)
    OBVIOUS
  <2>1. PICK i \in S : q + 1 \in Borders(code, i) BY <1>1 DEF Instruction, S
  <2>2. q + 1 \in {T(i), B(i), Z(i)} \ {i} BY <2>1 DEF Borders, T, B, Z
  <2> QED BY <1>2, <2>2, Layout
<1>7. ASSUME code[q].op = "jump", NEW i \in S
      PROVE  code[q].to \in DOMAIN code /\ Same(i, q, code[q].to)
  <2>1. /\ code[q].to \in DOMAIN code /\ code[code[q].to].op # "bound"
        /\ code[q].to \in Opens(code) => code[q].to \in S
        /\ \A X \in Blocks(code, i) : q \in X <=> code[q].to \in X
    BY <1>1, <1>7 DEF Instruction, S
  <2>2. R(i).body \in Blocks(code, i) /\ R(i).catch \in Blocks(code, i) /\ R(i).finally \in Blocks(code, i)
    BY DEF Blocks, R
  <2>3. q # T(i) /\ q # B(i) /\ q # i BY <1>7, Layout
  <2>4. code[q].to # B(i) BY <2>1, Layout
  <2>5. T(i) \in Opens(code) BY DEF S, Statements, T, Second
  <2>6. T(i) # i => code[q].to # T(i) BY <2>1, <2>5, Layout
  <2> DEFINE r == code[q].to
  <2>7. /\ B(i) <= q /\ q < Z(i) <=> B(i) <= r /\ r < Z(i)
        /\ T(i) < q /\ q < B(i) <=> T(i) < r /\ r < B(i)
        /\ i < q /\ q < T(i) <=> i < r /\ r < T(i)
    BY <1>2, <2>1, <2>2, Blocked
  <2>8. i \in Nat /\ T(i) \in Nat /\ B(i) \in Nat /\ Z(i) \in Nat /\ r \in Nat
        /\ i <= T(i) /\ T(i) < B(i) /\ B(i) < Z(i)
    BY <1>2, Layout
  <2>9. r # B(i) /\ (T(i) # i => r # T(i)) BY <2>4, <2>6
  <2> HIDE DEF r
  <2>10. Same(i, q, r) BY <1>2, <2>3, <2>7, <2>8, <2>9 DEF Same, In
  <2> QED BY <2>1, <2>10 DEF r
<1>8. ASSUME code[q].op = "call", NEW i \in S
      PROVE  code[q].to \in DOMAIN code /\ ~In(i, code[q].to)
  <2>1. code[q].to \in DOMAIN code /\ code[q].to \notin Extent(code, i)
    BY <1>1, <1>8 DEF Instruction, S
  <2> QED BY <1>2, <2>1, Layout DEF Extent, In, Z
<1>9. code[q].op \in {"jump", "call"} => code[q].to \in DOMAIN code BY <1>1 DEF Instruction
<1> QED BY <1>3, <1>4, <1>5, <1>6, <1>7, <1>8, <1>9

\* The next place is in the same blocks.
LEMMA Onward ==
  ASSUME VMAssumption, code \in VMPrograms, NEW q \in DOMAIN code, NEW i \in S,
         code[q].op \notin {"try", "bound", "endblock"}
  PROVE  Same(i, q, q + 1)
<1>0. q \in Nat BY Codes
<1>1. q # i /\ q # T(i) /\ q # B(i) BY Layout
<1>2. (T(i) # i => q # T(i) - 1) /\ q # B(i) - 1 /\ q # Z(i) - 1 BY Layout
<1>3. i \in Nat /\ T(i) \in Nat /\ B(i) \in Nat /\ Z(i) \in Nat
      /\ i <= T(i) /\ T(i) < B(i) /\ B(i) < Z(i)
  BY Layout
<1> QED BY <1>0, <1>1, <1>2, <1>3 DEF Same, In

\* A place where every entry is complete.
Firm(q) == \A i \in S : In(i, q) => q # T(i) /\ q # B(i)

LEMMA FirmIs ==
  ASSUME VMAssumption, code \in VMPrograms, NEW q \in DOMAIN code
  PROVE  /\ code[q].op \notin {"try", "bound"} => Firm(q)
         /\ code[q].op = "call" => Firm(q + 1)
<1>1. code[q].op \notin {"try", "bound"} => Firm(q) BY Layout DEF Firm
<1>2. ASSUME code[q].op = "call", NEW i \in S, In(i, q + 1) PROVE q + 1 # T(i) /\ q + 1 # B(i)
  <2>1. q \in Nat /\ i < q + 1 BY <1>2, Codes DEF In
  <2> QED BY <1>2, <2>1, Layout
<1> QED BY <1>1, <1>2 DEF Firm

\* The greatest number of a set of positions.
LEMMA MaxIs ==
  ASSUME NEW n \in Nat, NEW H \in SUBSET (1..n), H # {}
  PROVE  Max(H) \in H /\ \A j \in H : j <= Max(H)
<1> DEFINE Less == OpToRel(<, Nat)
           N == {n - j : j \in H}
<1>1. IsWellFoundedOn(Less, Nat) BY NatLessThanWellFounded, Zenon
<1>2. \A x, y \in Nat : x < y => <<x, y>> \in Less BY Zenon DEF OpToRel
<1>3. N \subseteq Nat /\ N # {}
  <2>1. \A j \in H : j \in Nat /\ n - j \in Nat OBVIOUS
  <2>2. PICK j \in H : TRUE OBVIOUS
  <2>3. n - j \in N BY <2>2
  <2> QED BY <2>1, <2>3
<1> HIDE DEF Less
<1>4. PICK x \in N : \A y \in N : ~(<<y, x>> \in Less) BY <1>1, <1>3, WFMin
<1>5. PICK j \in H : x = n - j OBVIOUS
<1>6. ASSUME NEW k \in H PROVE k \in Nat /\ ~(n - k < n - j)
  <2>1. n - k \in N /\ n - k \in Nat /\ n - j \in Nat BY <1>3
  <2>2. ~(<<n - k, x>> \in Less) BY <1>4, <2>1
  <2> QED BY <1>2, <1>5, <2>1, <2>2
<1>7. \A k \in H : j >= k BY <1>5, <1>6
<1>8. Max(H) \in H /\ \A k \in H : Max(H) >= k BY <1>7 DEF Max
<1> QED BY <1>8

LEMMA MaxSame == \A H : Lexical!Max(H) = Max(H)
BY DEF Lexical!Max, Max

-----------------------------------------------------------------------------
(* The stack of open try statements at a place.                            *)

\* The entry of a statement.
LEMMA EntryIs ==
  ASSUME VMAssumption, code \in VMPrograms, NEW i \in S, NEW q \in Nat
  PROVE  /\ EntryAt(code, i, q) \in Entry
         /\ EntryAt(code, i, q).at = i + 1
         /\ EntryAt(code, i, q).end = IF q = T(i) \/ q = B(i) THEN 0 ELSE Z(i)
         /\ EntryAt(code, i, q).catch = IF T(i) = i \/ q = T(i) THEN 0 ELSE T(i) + 1
         /\ EntryAt(code, i, q).kind = IF q < T(i) THEN 0
                                 ELSE IF q = T(i) THEN 1
                                 ELSE IF q < B(i) THEN (IF T(i) = i THEN 0 ELSE 2)
                                 ELSE IF T(i) = i THEN 1 ELSE 3
         /\ EntryAt(code, i, q) = [kind |-> EntryAt(code, i, q).kind, end |-> EntryAt(code, i, q).end,
                             at |-> EntryAt(code, i, q).at, catch |-> EntryAt(code, i, q).catch]
BY Layout DEF EntryAt, Entry, T, B, Z

\* The same as StackFits.
Fits(ts, q) ==
  /\ \A k \in DOMAIN ts : \E i \in S : In(i, q) /\ ts[k] = EntryAt(code, i, q)
  /\ \A k, l \in DOMAIN ts : k < l => ts[k].at < ts[l].at
  /\ \A i \in S : In(i, q) => \E k \in DOMAIN ts : ts[k].at = i + 1

LEMMA FitsIs ==
  ASSUME VMAssumption, code \in VMPrograms, NEW ts, NEW q \in Int
  PROVE  StackFits(code, ts, q) <=> Fits(ts, q)
<1>1. \A i \in S : q \in Extent(code, i) <=> In(i, q) BY Layout DEF Extent, In, Z
<1> QED BY <1>1 DEF StackFits, Fits, S

\* A stack that may be without the innermost statements that run a handler.
Tracks(ts, q) ==
  /\ \A k \in DOMAIN ts : \E i \in S : In(i, q) /\ ts[k] = EntryAt(code, i, q)
  /\ \A k, l \in DOMAIN ts : k < l => ts[k].at < ts[l].at
  /\ \A i \in S : In(i, q) => \/ \E k \in DOMAIN ts : ts[k].at = i + 1
                              \/ /\ EntryAt(code, i, q).kind = 0
                                 /\ \A k \in DOMAIN ts : ts[k].at < i + 1

\* An entry of the stack belongs to a statement.
LEMMA Pointed ==
  ASSUME VMAssumption, code \in VMPrograms, NEW ts, NEW q \in Nat, Tracks(ts, q), NEW k \in DOMAIN ts
  PROVE  \E i \in S : In(i, q) /\ ts[k] = EntryAt(code, i, q) /\ ts[k].at = i + 1
BY EntryIs DEF Tracks

\* The stack is cut back to the entry of i, or to those below it.
LEMMA Cut ==
  ASSUME VMAssumption, code \in VMPrograms, NEW i \in S, NEW q \in Nat, NEW r \in Nat,
         NEW ts \in Seq(Entry), Tracks(ts, q), In(i, q), NEW j \in DOMAIN ts, ts[j].at = i + 1,
         Bare(i, r), NEW n \in {j, j - 1}, NEW u, DOMAIN u = 1..n,
         \A l \in 1..(j - 1) : u[l] = ts[l],
         IF n = j THEN In(i, r) /\ u[j] = EntryAt(code, i, r) ELSE ~In(i, r)
  PROVE  Fits(u, r)
<1>0. DOMAIN ts = 1..Len(ts) /\ Len(ts) \in Nat /\ j \in Nat /\ 1 <= j OBVIOUS
<1>1. \A m \in S : m \in Nat BY Codes
<1>2. i <= q /\ q <= Z(i) /\ i <= r /\ r <= Z(i) BY <1>1, Layout DEF Bare, In
<1>3. ASSUME NEW m \in S, m < i
      PROVE  (In(m, q) <=> In(m, r)) /\ (In(m, q) => EntryAt(code, m, q) = EntryAt(code, m, r))
  <2>1. Same(m, i, q) /\ Same(m, i, r) BY <1>2, <1>3, Outer
  <2>2. In(m, i) => EntryAt(code, m, i) = EntryAt(code, m, q) /\ EntryAt(code, m, i) = EntryAt(code, m, r)
    BY <1>1, <2>1, SameIs
  <2> QED BY <2>1, <2>2 DEF Same
<1>4. \A l \in 1..(j - 1) : \E m \in S : m < i /\ In(m, q) /\ ts[l] = EntryAt(code, m, q) /\ ts[l].at = m + 1
  <2> SUFFICES ASSUME NEW l \in 1..(j - 1)
               PROVE  \E m \in S : m < i /\ In(m, q) /\ ts[l] = EntryAt(code, m, q) /\ ts[l].at = m + 1
    OBVIOUS
  <2>1. l \in DOMAIN ts /\ l < j BY <1>0
  <2>2. PICK m \in S : In(m, q) /\ ts[l] = EntryAt(code, m, q) /\ ts[l].at = m + 1 BY <2>1, Pointed
  <2>3. ts[l].at < ts[j].at BY <2>1 DEF Tracks
  <2> QED BY <1>1, <2>2, <2>3
<1>5. \A l \in 1..(j - 1) : \E m \in S : In(m, r) /\ u[l] = EntryAt(code, m, r)
  BY <1>3, <1>4
<1>6. \A k \in DOMAIN u : k \in 1..(j - 1) \/ (k = j /\ n = j) BY <1>0
<1>7. \A k \in DOMAIN u : \E m \in S : In(m, r) /\ u[k] = EntryAt(code, m, r)
  BY <1>5, <1>6
<1>8. \A k \in 1..(j - 1) : u[k].at < i + 1 BY <1>1, <1>4
<1>9. n = j => u[j].at = i + 1 BY EntryIs
<1>10. ASSUME NEW k \in DOMAIN u, NEW l \in DOMAIN u, k < l PROVE u[k].at < u[l].at
  <2>1. k \in 1..(j - 1) BY <1>0, <1>6, <1>10
  <2>2. CASE l \in 1..(j - 1)
    <3>1. k \in DOMAIN ts /\ l \in DOMAIN ts BY <1>0, <2>1, <2>2
    <3> QED BY <1>10, <2>1, <2>2, <3>1 DEF Tracks
  <2>3. CASE l = j /\ n = j BY <1>8, <1>9, <2>1, <2>3
  <2> QED BY <1>6, <2>2, <2>3
<1>11. ASSUME NEW m \in S, In(m, r) PROVE \E k \in DOMAIN u : u[k].at = m + 1
  <2>1. ~(i < m) BY <1>11 DEF Bare
  <2>2. CASE m = i
    <3>1. n = j /\ j \in DOMAIN u BY <1>0, <1>11, <2>2
    <3> QED BY <1>9, <2>2, <3>1
  <2>3. CASE m < i
    <3>1. In(m, q) BY <1>3, <1>11, <2>3
    <3>2. ~(ts[j].at < m + 1) BY <1>1, <2>3
    <3>3. PICK k \in DOMAIN ts : ts[k].at = m + 1 BY <3>1, <3>2 DEF Tracks
    <3>4. ~(j < k) /\ j # k
      <4>1. j < k => ts[j].at < ts[k].at BY DEF Tracks
      <4> QED BY <1>1, <2>3, <3>3, <4>1
    <3>5. k \in 1..(j - 1) /\ k \in DOMAIN u BY <1>0, <3>4
    <3> QED BY <3>3, <3>5
  <2> QED BY <1>1, <2>1, <2>2, <2>3
<1> QED BY <1>7, <1>10, <1>11 DEF Fits

\* Statement i is opened.
LEMMA Push ==
  ASSUME VMAssumption, code \in VMPrograms, NEW i \in S, NEW r \in Nat,
         NEW ts \in Seq(Entry), Fits(ts, i), Bare(i, r), In(i, r),
         NEW u, DOMAIN u = 1..(Len(ts) + 1),
         \A l \in 1..Len(ts) : u[l] = ts[l],
         u[Len(ts) + 1] = EntryAt(code, i, r)
  PROVE  Fits(u, r)
<1>0. DOMAIN ts = 1..Len(ts) /\ Len(ts) \in Nat OBVIOUS
<1>1. \A m \in S : m \in Nat BY Codes
<1>2. i <= i /\ i <= Z(i) /\ i <= r /\ r <= Z(i) BY <1>1, Layout DEF Bare
<1>3. ASSUME NEW m \in S, m < i
      PROVE  (In(m, i) <=> In(m, r)) /\ (In(m, i) => EntryAt(code, m, i) = EntryAt(code, m, r))
  <2>1. Same(m, i, r) BY <1>2, <1>3, Outer
  <2> QED BY <1>1, <2>1, SameIs DEF Same
<1>4. \A l \in 1..Len(ts) : \E m \in S : m < i /\ In(m, i) /\ ts[l] = EntryAt(code, m, i) /\ ts[l].at = m + 1
  BY <1>0, <1>1, EntryIs DEF Fits, In
<1>5. \A l \in 1..Len(ts) : \E m \in S : In(m, r) /\ u[l] = EntryAt(code, m, r)
  BY <1>3, <1>4
<1>6. \A k \in DOMAIN u : k \in 1..Len(ts) \/ k = Len(ts) + 1 BY <1>0
<1>7. \A k \in DOMAIN u : \E m \in S : In(m, r) /\ u[k] = EntryAt(code, m, r)
  BY <1>5, <1>6
<1>8. \A k \in 1..Len(ts) : u[k].at < i + 1 BY <1>1, <1>4
<1>9. u[Len(ts) + 1].at = i + 1 BY EntryIs
<1>10. ASSUME NEW k \in DOMAIN u, NEW l \in DOMAIN u, k < l PROVE u[k].at < u[l].at
  <2>1. k \in 1..Len(ts) BY <1>0, <1>6, <1>10
  <2>2. CASE l \in 1..Len(ts)
    <3>1. k \in DOMAIN ts /\ l \in DOMAIN ts BY <1>0, <2>1, <2>2
    <3> QED BY <1>10, <2>1, <2>2, <3>1 DEF Fits
  <2>3. CASE l = Len(ts) + 1 BY <1>8, <1>9, <2>1, <2>3
  <2> QED BY <1>6, <2>2, <2>3
<1>11. ASSUME NEW m \in S, In(m, r) PROVE \E k \in DOMAIN u : u[k].at = m + 1
  <2>1. ~(i < m) BY <1>11 DEF Bare
  <2>2. CASE m = i
    <3>1. Len(ts) + 1 \in DOMAIN u BY <1>0
    <3> QED BY <1>9, <2>2, <3>1
  <2>3. CASE m < i
    <3>1. In(m, i) BY <1>3, <1>11, <2>3
    <3>2. PICK k \in DOMAIN ts : ts[k].at = m + 1 BY <3>1 DEF Fits
    <3>3. k \in 1..Len(ts) /\ k \in DOMAIN u BY <1>0
    <3> QED BY <3>2, <3>3
  <2> QED BY <1>1, <2>1, <2>2, <2>3
<1> QED BY <1>7, <1>10, <1>11 DEF Fits

\* Within the same blocks, the stack stays as it is.
LEMMA Shift ==
  ASSUME VMAssumption, code \in VMPrograms, NEW q \in Int, NEW r \in Int, NEW ts, Fits(ts, q),
         \A i \in S : Same(i, q, r)
  PROVE  Fits(ts, r)
<1>1. \A i \in S : (In(i, q) <=> In(i, r)) /\ (In(i, q) => EntryAt(code, i, q) = EntryAt(code, i, r))
  BY SameIs DEF Same
<1> QED BY <1>1 DEF Fits

\* The innermost statement is on top.
LEMMA Top ==
  ASSUME VMAssumption, code \in VMPrograms, NEW i \in S, NEW q \in Nat, NEW ts \in Seq(Entry),
         Fits(ts, q), In(i, q), Bare(i, q)
  PROVE  /\ Len(ts) \in Nat /\ 0 < Len(ts) /\ DOMAIN ts = 1..Len(ts) /\ Len(ts) \in DOMAIN ts
         /\ ts[Len(ts)] = EntryAt(code, i, q) /\ ts[Len(ts)].at = i + 1
         /\ Tracks(ts, q)
         /\ EntryAt(code, i, q).kind = 0 => Tracks(SubSeq(ts, 1, Len(ts) - 1), q)
<1>0. DOMAIN ts = 1..Len(ts) /\ Len(ts) \in Nat OBVIOUS
<1>1. \A m \in S : m \in Nat BY Codes
<1>2. Tracks(ts, q) BY DEF Fits, Tracks
<1>3. PICK k \in DOMAIN ts : ts[k].at = i + 1 BY DEF Fits
<1>4. Len(ts) \in DOMAIN ts /\ 0 < Len(ts) BY <1>0
<1>5. PICK m \in S : In(m, q) /\ ts[Len(ts)] = EntryAt(code, m, q) /\ ts[Len(ts)].at = m + 1
  BY <1>2, <1>4, Pointed
<1>6. ~(i < m) BY <1>5 DEF Bare
<1>7. k = Len(ts)
  <2>1. k < Len(ts) => ts[k].at < ts[Len(ts)].at BY <1>4 DEF Fits
  <2> QED BY <1>0, <1>1, <1>3, <1>5, <1>6, <2>1
<1>8. m = i BY <1>1, <1>3, <1>5, <1>7
<1>9. ASSUME EntryAt(code, i, q).kind = 0 PROVE Tracks(SubSeq(ts, 1, Len(ts) - 1), q)
  <2> DEFINE u == SubSeq(ts, 1, Len(ts) - 1)
  <2>1. DOMAIN u = 1..(Len(ts) - 1) /\ \A l \in 1..(Len(ts) - 1) : u[l] = ts[l]
    BY <1>0, <1>4
  <2> HIDE DEF u
  <2>2. \A l \in DOMAIN u : l \in DOMAIN ts /\ l < Len(ts) BY <1>0, <2>1
  <2>3. \A l \in DOMAIN u : u[l].at < i + 1
    <3>1. \A l \in DOMAIN u : ts[l].at < ts[Len(ts)].at BY <1>4, <2>2 DEF Fits
    <3> QED BY <1>5, <1>8, <2>1, <3>1
  <2>4. \A l \in DOMAIN ts : l \in DOMAIN u \/ l = Len(ts) BY <1>0, <2>1
  <2>5. \A a \in S : In(a, q) => \/ \E l \in DOMAIN u : u[l].at = a + 1
                                 \/ EntryAt(code, a, q).kind = 0 /\ \A l \in DOMAIN u : u[l].at < a + 1
    <3> SUFFICES ASSUME NEW a \in S, In(a, q), a # i PROVE \E l \in DOMAIN u : u[l].at = a + 1
      BY <1>9, <2>3
    <3>1. PICK l \in DOMAIN ts : ts[l].at = a + 1 BY DEF Fits
    <3>2. l # Len(ts) BY <1>1, <1>5, <1>8, <3>1
    <3> QED BY <2>1, <2>4, <3>1, <3>2
  <2>6. \A l \in DOMAIN u : \E a \in S : In(a, q) /\ u[l] = EntryAt(code, a, q)
    BY <1>2, <2>1, <2>2 DEF Tracks
  <2>7. \A k1, l \in DOMAIN u : k1 < l => u[k1].at < u[l].at
    BY <1>2, <2>1, <2>2 DEF Tracks
  <2>8. Tracks(u, q) BY <2>5, <2>6, <2>7 DEF Tracks
  <2> QED BY <2>8 DEF u
<1> QED BY <1>0, <1>2, <1>4, <1>5, <1>8, <1>9

\* Of statements around one place, the last is the innermost.
LEMMA InnermostIs ==
  ASSUME VMAssumption, code \in VMPrograms, NEW G \in SUBSET S, NEW k \in G, NEW q \in Int,
         \A i \in G : i <= k /\ In(i, q)
  PROVE  Lexical!Innermost({R(i) : i \in G}) = R(k)
<1> DEFINE All(r) == r.body \cup r.catch \cup r.finally
           Good(r) == \A s \in {R(i) : i \in G} : All(r) \subseteq All(s)
<1>0. \A i \in G : i \in Nat BY Codes
<1>1. \A i \in G : All(R(i)) = {x \in Int : In(i, x) /\ x # T(i)}
  BY Blocked, Layout DEF In
<1>2. ASSUME NEW i \in G, i # k PROVE All(R(k)) \subseteq All(R(i))
  <2>1. i < k /\ In(i, q) /\ In(k, q) BY <1>0, <1>2
  <2>2. Same(i, k, q)
    <3>1. k <= q /\ q <= Z(k) BY <1>0, <2>1, Layout DEF In
    <3> QED BY <2>1, <3>1, Outer
  <2> SUFFICES ASSUME NEW x \in Int, In(k, x) PROVE In(i, x) /\ x # T(i) BY <1>1
  <2>3. Same(i, k, x)
    <3>1. k <= x /\ x <= Z(k) BY <1>0, Layout DEF In
    <3> QED BY <2>1, <3>1, Outer
  <2>4. k # T(i) BY <2>1, Nesting
  <2> QED BY <2>1, <2>2, <2>3, <2>4 DEF Same
<1>3. ASSUME NEW i \in G, i # k PROVE ~(All(R(i)) \subseteq All(R(k)))
  <2>1. i < k BY <1>0, <1>3
  <2>2. B(i) \in All(R(i)) /\ Z(i) - 1 \in All(R(i)) BY <1>1, Layout DEF In
  <2>3. k < Z(i) BY <1>0, <1>3, Layout DEF In
  <2>4. Z(k) < Z(i) BY <2>1, <2>3, Nesting
  <2>5. Z(i) - 1 \notin All(R(k)) BY <1>1, <2>4, Layout DEF In
  <2> QED BY <2>2, <2>5
<1> HIDE DEF All
<1>4. Good(R(k)) BY <1>2
<1>5. \A i \in G : Good(R(i)) => i = k BY <1>3
<1>6. Lexical!Innermost({R(i) : i \in G}) = CHOOSE r \in {R(i) : i \in G} : Good(r)
  BY DEF Lexical!Innermost, All
<1> HIDE DEF Good
<1> QED BY <1>4, <1>5, <1>6

\* The last entry of a kind is that of the innermost statement of that kind.
Kinds(K, q) == {i \in S : In(i, q) /\ EntryAt(code, i, q).kind \in K}
Having(K, ts) == {j \in DOMAIN ts : ts[j].kind \in K}
LEMMA Found ==
  ASSUME VMAssumption, code \in VMPrograms, NEW q \in Nat, NEW ts \in Seq(Entry), Tracks(ts, q),
         NEW K \in SUBSET (1..3)
  PROVE  /\ Having(K, ts) = {} <=> Kinds(K, q) = {}
         /\ Having(K, ts) # {} =>
              /\ Max(Having(K, ts)) \in Having(K, ts)
              /\ \E i \in Kinds(K, q) :
                   /\ ts[Max(Having(K, ts))] = EntryAt(code, i, q)
                   /\ ts[Max(Having(K, ts))].at = i + 1
                   /\ Lexical!Innermost({R(m) : m \in Kinds(K, q)}) = R(i)
<1> DEFINE H == Having(K, ts)
<1> USE DEF Having
<1>0. DOMAIN ts = 1..Len(ts) /\ Len(ts) \in Nat OBVIOUS
<1>1. \A m \in S : m \in Nat BY Codes
<1>2. ASSUME NEW j \in H
      PROVE  \E i \in Kinds(K, q) : ts[j] = EntryAt(code, i, q) /\ ts[j].at = i + 1
  BY Pointed DEF Kinds
<1>3. ASSUME NEW i \in Kinds(K, q) PROVE \E j \in H : ts[j].at = i + 1
  <2>1. i \in S /\ In(i, q) /\ EntryAt(code, i, q).kind \in K /\ EntryAt(code, i, q).kind # 0 BY DEF Kinds
  <2>2. PICK j \in DOMAIN ts : ts[j].at = i + 1 BY <2>1 DEF Tracks
  <2>3. PICK m \in S : In(m, q) /\ ts[j] = EntryAt(code, m, q) /\ ts[j].at = m + 1 BY Pointed
  <2>4. m = i BY <1>1, <2>1, <2>2, <2>3
  <2> QED BY <2>1, <2>2, <2>3, <2>4
<1>4. ASSUME H # {}
      PROVE  /\ Max(H) \in H
             /\ \E i \in Kinds(K, q) :
                  /\ ts[Max(H)] = EntryAt(code, i, q) /\ ts[Max(H)].at = i + 1
                  /\ Lexical!Innermost({R(m) : m \in Kinds(K, q)}) = R(i)
  <2>1. Max(H) \in H /\ \A j \in H : j <= Max(H) BY <1>0, <1>4, MaxIs
  <2>2. PICK i \in Kinds(K, q) : ts[Max(H)] = EntryAt(code, i, q) /\ ts[Max(H)].at = i + 1
    BY <1>2, <2>1
  <2>3. ASSUME NEW m \in Kinds(K, q) PROVE m <= i /\ In(m, q)
    <3>1. PICK j \in H : ts[j].at = m + 1 BY <1>3
    <3>2. j <= Max(H) /\ j \in DOMAIN ts /\ Max(H) \in DOMAIN ts BY <2>1
    <3>3. j < Max(H) => ts[j].at < ts[Max(H)].at BY <3>2 DEF Tracks
    <3>4. m \in Nat /\ i \in Nat /\ In(m, q) BY <1>1 DEF Kinds
    <3>5. m + 1 <= i + 1 BY <1>0, <2>2, <3>1, <3>2, <3>3, <3>4
    <3> QED BY <3>4, <3>5
  <2>4. Kinds(K, q) \in SUBSET S BY DEF Kinds
  <2>5. Lexical!Innermost({R(m) : m \in Kinds(K, q)}) = R(i) BY <2>3, <2>4, InnermostIs
  <2> QED BY <2>1, <2>2, <2>5
<1> QED BY <1>2, <1>3, <1>4

-----------------------------------------------------------------------------
(* The machine seen as a program text that is followed.                    *)

Frame == [pc : Nat, tries : Seq(Entry)]
Caller == [pc : Nat, pend : {IdlePend}]
Completion == {Normal} \cup ({"return", "throw"} \X Int)

LEMMA Regional == Text.regions = {R(i) : i \in S} /\ Text.code = code /\ Text.start = 1
BY DEF Text, Regions, R, S

\* What takes an exception, what a return must run, and what is around a place.
LEMMA GuardsAre ==
  ASSUME VMAssumption, code \in VMPrograms, NEW q \in Nat, Firm(q)
  PROVE  /\ Lexical!Guards(q) = {R(m) : m \in Kinds(1..3, q)}
         /\ Lexical!Finals(q) = {R(m) : m \in Kinds({2, 3}, q)}
         /\ Lexical!Around(q) = {R(m) : m \in {i \in S : In(i, q)}}
<1>1. ASSUME NEW m \in S
      PROVE  /\ q \in R(m).body \/ (q \in R(m).catch /\ R(m).finally # {}) <=> m \in Kinds(1..3, q)
             /\ R(m).finally # {} /\ q \in R(m).body \cup R(m).catch <=> m \in Kinds({2, 3}, q)
             /\ q \in R(m).body \cup R(m).catch \cup R(m).finally <=> In(m, q)
  <2>1. In(m, q) => q # T(m) /\ q # B(m) BY DEF Firm
  <2>2. CASE ~In(m, q) BY <2>2, Blocked, Layout DEF In, Kinds
  <2>3. CASE In(m, q)
    <3>1. /\ m \in Kinds(1..3, q) <=> EntryAt(code, m, q).kind \in 1..3
          /\ m \in Kinds({2, 3}, q) <=> EntryAt(code, m, q).kind \in {2, 3}
      BY <2>3 DEF Kinds
    <3> QED BY <2>1, <2>3, <3>1, EntryIs, Blocked, Layout DEF In
  <2> QED BY <2>2, <2>3
<1> QED BY <1>1, Regional DEF Lexical!Guards, Lexical!Finals, Lexical!Around, Kinds

\* What is pending for a statement.
LEMMA PendingIs ==
  ASSUME NEW i \in S
  PROVE  /\ Pending[R(i)] = IF pc \in R(i).finally THEN res ELSE Normal
         /\ IdlePend[R(i)] = Normal
         /\ R(i) \in DOMAIN Pending /\ R(i) \in DOMAIN IdlePend
BY DEF Pending, IdlePend, Regions, R, S

LEMMA IdleIs == res = Normal => Pending = IdlePend
BY DEF Pending, IdlePend

\* Control moves to where it is, with the register as pending completion.
LEMMA AtIs ==
  ASSUME code' = code, NEW p, \A i \in S : pc' \in R(i).finally => p[R(i)] = res'
  PROVE  Lexical!At(pc', p)
<1>1. Regions' = Regions /\ Normal' = Normal BY DEF Regions, Normal
<1>2. Pending' = [r \in Regions |-> IF pc' \in r.finally THEN res' ELSE Normal]
  BY <1>1 DEF Pending
<1>3. \A r \in Regions : \E i \in S : r = R(i) BY DEF Regions, R, S
<1>4. \A r \in Regions : pc' \in r.finally => p[r] = res' BY <1>3
<1>5. Pending' = [r \in Regions |-> IF pc' \in r.finally THEN p[r] ELSE Normal]
  BY <1>2, <1>4
<1> QED BY <1>5 DEF Lexical!At, Lexical!Normal, Normal, Text

\* A sequence with one more element.
LEMMA Appended ==
  ASSUME NEW A, NEW F \in Seq(A), NEW x
  PROVE  /\ DOMAIN Append(F, x) = 1..(Len(F) + 1) /\ Append(F, x)[Len(F) + 1] = x
         /\ \A k \in 1..Len(F) : Append(F, x)[k] = F[k]
<1> DEFINE D == A \cup {x}
<1>1. Len(F) \in Nat /\ F \in [1..Len(F) -> D] /\ x \in D OBVIOUS
<1>2. F \in Seq(D) BY <1>1, SeqDef
<1> HIDE DEF D
<1> QED BY <1>1, <1>2, AppendProperties

\* The callers are the frames.
LEMMA CallersAre ==
  ASSUME frames \in Seq(Frame)
  PROVE  /\ Len(frames) \in Nat /\ DOMAIN frames = 1..Len(frames)
         /\ Callers \in Seq(Caller) /\ Len(Callers) = Len(frames)
         /\ \A k \in 1..Len(frames) : Callers[k] = [pc |-> frames[k].pc, pend |-> IdlePend]
         /\ frames = <<>> <=> Callers = <<>>
<1> DEFINE n == Len(frames)
<1>1. n \in Nat /\ DOMAIN frames = 1..n /\ \A k \in 1..n : frames[k] \in Frame OBVIOUS
<1>2. Callers = [k \in 1..n |-> [pc |-> frames[k].pc, pend |-> IdlePend]]
  BY <1>1 DEF Callers
<1>3. \A k \in 1..n : frames[k].pc \in Nat BY <1>1 DEF Frame
<1> HIDE DEF n
<1>4. Callers \in [1..n -> Caller] BY <1>2, <1>3 DEF Caller
<1>5. Callers \in Seq(Caller) /\ Len(Callers) = n
  BY <1>1, <1>2, <1>4, SeqDef, LenProperties
<1>6. frames = <<>> <=> n = 0 BY EmptySeq DEF n
<1>7. Callers = <<>> <=> Len(Callers) = 0 BY <1>5, EmptySeq
<1> QED BY <1>1, <1>2, <1>5, <1>6, <1>7 DEF n

\* What becomes of them when frames are dropped or one is added.
LEMMA CallersMove ==
  ASSUME code' = code, frames \in Seq(Frame)
  PROVE  /\ frames' = frames => Callers' = Callers
         /\ frames' = <<>> => Callers' = <<>>
         /\ \A n \in 0..Len(frames) : frames' = SubSeq(frames, 1, n) =>
              frames' \in Seq(Frame) /\ Callers' = SubSeq(Callers, 1, n)
                /\ DOMAIN frames' = 1..n /\ \A k \in 1..n : frames'[k] = frames[k]
         /\ \A f \in Frame : frames' = Append(frames, f) =>
              frames' \in Seq(Frame) /\ Callers' = Append(Callers, [pc |-> f.pc, pend |-> IdlePend])
<1>0. IdlePend' = IdlePend BY DEF IdlePend, Regions, Normal
<1>1. Callers' = [k \in DOMAIN frames' |-> [pc |-> frames'[k].pc, pend |-> IdlePend]]
  BY <1>0 DEF Callers
<1>2. frames' = frames => Callers' = Callers BY <1>1 DEF Callers
<1>3. ASSUME frames' = <<>> PROVE Callers' = <<>>
  <2>1. DOMAIN frames' = {} BY <1>3
  <2> QED BY <1>1, <2>1
<1>4. ASSUME NEW n \in 0..Len(frames), frames' = SubSeq(frames, 1, n)
      PROVE  frames' \in Seq(Frame) /\ Callers' = SubSeq(Callers, 1, n)
             /\ DOMAIN frames' = 1..n /\ \A k \in 1..n : frames'[k] = frames[k]
  <2>1. frames' \in Seq(Frame) /\ Len(frames') = n /\ DOMAIN frames' = 1..n
        /\ \A k \in 1..n : frames'[k] = frames[k]
    BY <1>4
  <2> DEFINE C == SubSeq(Callers, 1, n)
  <2>0. Callers \in Seq(Caller) /\ n \in Nat /\ n <= Len(Callers) /\ Len(frames) \in Nat /\ n <= Len(frames)
    BY CallersAre
  <2>2. C \in Seq(Caller) /\ Len(C) = n
        /\ \A k \in 1..n : C[k] = Callers[k]
    BY <2>0
  <2>3. C = [k \in 1..n |-> C[k]] BY <2>2
  <2> HIDE DEF C
  <2>4. ASSUME NEW k \in 1..n PROVE C[k] = [pc |-> frames[k].pc, pend |-> IdlePend]
    <3>1. k \in 1..Len(frames) BY <2>0
    <3> QED BY <2>2, <3>1, CallersAre
  <2>5. Callers' = C BY <1>1, <2>1, <2>3, <2>4
  <2> QED BY <2>1, <2>5 DEF C
<1>5. ASSUME NEW f \in Frame, frames' = Append(frames, f)
      PROVE  frames' \in Seq(Frame) /\ Callers' = Append(Callers, [pc |-> f.pc, pend |-> IdlePend])
  <2> DEFINE c == [pc |-> f.pc, pend |-> IdlePend]
             n == Len(frames)
             C == Append(Callers, c)
  <2>0. n \in Nat BY CallersAre
  <2>1. frames' \in Seq(Frame) /\ DOMAIN frames' = 1..(n + 1) /\ frames'[n + 1] = f
        /\ \A k \in 1..n : frames'[k] = frames[k]
    BY <1>5
  <2>2. c \in Caller BY DEF Frame, Caller
  <2> HIDE DEF c
  <2>3. C \in Seq(Caller) /\ Len(C) = n + 1 /\ C[n + 1] = c
        /\ \A k \in 1..n : C[k] = Callers[k]
    BY <2>2, CallersAre
  <2> HIDE DEF C, n
  <2>4. C = [k \in 1..(n + 1) |-> C[k]] BY <2>0, <2>3
  <2>5. \A k \in 1..(n + 1) : C[k] = [pc |-> frames'[k].pc, pend |-> IdlePend]
    <3>1. \A k \in 1..n : C[k] = [pc |-> frames'[k].pc, pend |-> IdlePend]
      BY <2>1, <2>3, CallersAre DEF n
    <3>2. C[n + 1] = [pc |-> frames'[n + 1].pc, pend |-> IdlePend] BY <2>1, <2>3 DEF c
    <3> QED BY <2>0, <3>1, <3>2
  <2>6. Callers' = C BY <1>1, <2>1, <2>4, <2>5
  <2> QED BY <2>1, <2>6 DEF C, c
<1> QED BY <1>2, <1>3, <1>4, <1>5

-----------------------------------------------------------------------------
(* Moves.                                                                  *)

\* The machine runs on: what there is to show.
LEMMA Settles ==
  ASSUME VMAssumption, code \in VMPrograms, code' = code, mode' = "running", out' = out,
         pc' \in DOMAIN code, tries' \in Seq(Entry), Fits(tries', pc'),
         frames' \in Seq(Frame), \A k \in DOMAIN frames' : Resumable(code, frames'[k]),
         res' \in Completion, res' # Normal => \E i \in S : pc' \in R(i).finally
  PROVE  VMInv' /\ Lexical!Keep /\ UNCHANGED Text
<1>0. pc' \in Nat BY Codes
<1>1. TypeOK'
  <2>1. \A k \in DOMAIN frames' : frames'[k].pc \in DOMAIN code BY DEF Resumable
  <2>2. Completion' = Completion BY DEF Completion, Normal
  <2> QED BY <1>0, <2>1 DEF TypeOK, Frame, Completion, Normal, Entry
<1>3. StackFits(code', tries', pc') BY <1>0, FitsIs
<1>4. \A k \in DOMAIN frames' : Resumable(code', frames'[k]) OBVIOUS
<1>5. Normal' = Normal BY DEF Normal
<1>6. Placed'
  <2>1. mode' = "running" /\ pc' \in DOMAIN code' OBVIOUS
  <2>2. S' = S /\ \A i : R(i)' = R(i) BY DEF S, R
  <2>3. (res # Normal => \E i \in S : pc \in R(i).finally)' BY <1>5, <2>2
  <2>4. (res # Normal => \E i \in Statements(code) : pc \in Region(code, i).finally)'
    BY <2>3 DEF S, R
  <2> QED BY <1>3, <1>4, <2>1, <2>4 DEF Placed
<1> QED BY <1>1, <1>6 DEF VMInv, Lexical!Keep, Text, Regions

\* What the invariant says of a running machine.
LEMMA Runs ==
  ASSUME VMAssumption, VMInv, mode = "running"
  PROVE  /\ code \in VMPrograms /\ pc \in DOMAIN code /\ pc \in Nat
         /\ tries \in Seq(Entry) /\ Fits(tries, pc) /\ Tracks(tries, pc)
         /\ frames \in Seq(Frame) /\ \A k \in DOMAIN frames : Resumable(code, frames[k])
         /\ res \in Completion /\ (res # Normal => \E i \in S : pc \in R(i).finally)
<1>1. TypeOK /\ Placed BY DEF VMInv
<1>2. code \in VMPrograms /\ tries \in Seq(Entry) /\ frames \in Seq(Frame) /\ res \in Completion
  BY <1>1 DEF TypeOK, Frame, Completion
<1>3. /\ pc \in DOMAIN code /\ StackFits(code, tries, pc) /\ \A k \in DOMAIN frames : Resumable(code, frames[k])
      /\ res # Normal => \E i \in S : pc \in R(i).finally
  BY <1>1 DEF Placed, S, R
<1>4. pc \in Nat BY <1>2, <1>3, Codes
<1>5. Fits(tries, pc) BY <1>2, <1>3, <1>4, FitsIs
<1> QED BY <1>2, <1>3, <1>4, <1>5 DEF Fits, Tracks

\* The machine stops.
LEMMA Ends ==
  ASSUME VMAssumption, VMInv, NEW o, Stop(o), code' = code
  PROVE  VMInv' /\ Lexical!Stop(o) /\ UNCHANGED Text
<1> USE DEF Stop
<1>1. TypeOK' BY DEF VMInv, TypeOK, Normal
<1>2. Placed' BY DEF Placed, Normal
<1>3. UNCHANGED Text BY DEF Text, Regions
<1>4. Pending' = Lexical!Idle
  BY DEF Pending, Lexical!Idle, Lexical!Normal, Normal, Regions, Text
<1>5. frames \in Seq(Frame) BY DEF VMInv, TypeOK, Frame
<1>6. Callers' = <<>> BY <1>5, CallersMove
<1> QED BY <1>1, <1>2, <1>3, <1>4, <1>6 DEF VMInv, Lexical!Stop

\* Control moves within the same blocks.
LEMMA Goes ==
  ASSUME VMAssumption, VMInv, mode = "running", NEW q \in DOMAIN code, Go(q),
         \A i \in S : Same(i, pc, q)
  PROVE  VMInv' /\ Lexical!Go(q) /\ UNCHANGED Text
<1> USE DEF Go
<1>0. code' = code /\ mode' = "running" /\ out' = out BY DEF Running
<1>1. q \in Nat BY Runs, Codes
<1>2. \A i \in S : pc \in R(i).finally <=> q \in R(i).finally BY <1>1, Runs, SameIs
<1>3. Fits(tries', pc') BY <1>1, Runs, Shift
<1>4. VMInv' /\ Lexical!Keep /\ UNCHANGED Text BY <1>0, <1>2, <1>3, Runs, Settles
<1>5. Lexical!At(pc', Pending) BY <1>0, <1>2, PendingIs, AtIs
<1>6. Callers' = Callers BY <1>0, Runs, CallersMove
<1> QED BY <1>4, <1>5, <1>6 DEF Lexical!Go

\* An exception that is taken.
LEMMA RaiseIs ==
  ASSUME NEW fl, fl = Append(Callers, [pc |-> pc, pend |-> Pending]),
         NEW hit, hit = {k \in DOMAIN fl : Lexical!Guards(fl[k].pc) # {}}, hit # {},
         NEW k, k = Max(hit), NEW f, f = fl[k], NEW r, r = Lexical!Innermost(Lexical!Guards(f.pc)),
         NEW v, Lexical!Keep, Callers' = SubSeq(Callers, 1, k - 1),
         IF f.pc \in r.body /\ r.catch # {}
         THEN Lexical!At(r.catchAt, f.pend)
         ELSE Lexical!At(r.finallyAt, [f.pend EXCEPT ![r] = <<"throw", v>>])
  PROVE  Lexical!Raise(v)
BY MaxSame DEF Lexical!Raise

\* An exception finds the handler of the text, and the stack with it.
LEMMA Unwinds ==
  ASSUME VMAssumption, VMInv, mode = "running", Firm(pc),
         NEW ts \in Seq(Entry), Tracks(ts, pc), NEW v \in Int, Unwind(v, ts)
  PROVE  VMInv' /\ Lexical!Raise(v) /\ UNCHANGED Text
<1> DEFINE n == Len(frames)
           saved == [k \in DOMAIN frames |-> frames[k].tries]
           stacks == Append(saved, ts)
           live(k) == {j \in DOMAIN stacks[k] : stacks[k][j].kind # 0}
           hit == {k \in DOMAIN stacks : live(k) # {}}
           c == [pc |-> pc, pend |-> Pending]
           fl == Append(Callers, c)
           Place(k) == IF k = n + 1 THEN pc ELSE frames[k].pc
<1>0. code \in VMPrograms /\ pc \in Nat /\ frames \in Seq(Frame) BY Runs
<1>1. n \in Nat /\ DOMAIN frames = 1..n /\ \A k \in 1..n : frames[k] \in Frame
  BY <1>0
<1>2. /\ DOMAIN stacks = 1..(n + 1) /\ stacks[n + 1] = ts
      /\ \A k \in 1..n : stacks[k] = frames[k].tries
  <2>1. saved \in Seq(Seq(Entry)) /\ Len(saved) = n
    <3>1. saved \in [1..n -> Seq(Entry)] BY <1>1 DEF Frame
    <3> HIDE DEF saved, n
    <3> QED BY <1>1, <3>1, SeqDef, LenProperties
  <2>2. \A k \in 1..n : saved[k] = frames[k].tries BY <1>1
  <2> HIDE DEF saved
  <2> QED BY <1>1, <2>1, <2>2
<1>3. /\ DOMAIN fl = 1..(n + 1) /\ fl[n + 1] = c /\ \A k \in 1..n : fl[k] = Callers[k]
  <2> HIDE DEF c
  <2>1. Callers \in Seq(Caller) /\ Len(Callers) = n BY <1>0, CallersAre
  <2> HIDE DEF n
  <2> QED BY <1>1, <2>1, Appended
<1>4. /\ \A k \in 1..(n + 1) : fl[k].pc = Place(k)
      /\ \A k \in 1..n : fl[k].pend = IdlePend
      /\ fl[n + 1].pend = Pending
  <2>1. \A k \in 1..n : k # n + 1 /\ fl[k] = [pc |-> frames[k].pc, pend |-> IdlePend]
    BY <1>0, <1>1, <1>3, CallersAre
  <2>2. c.pc = pc /\ c.pend = Pending OBVIOUS
  <2> HIDE DEF fl, c, n
  <2>3. ASSUME NEW k \in 1..n PROVE fl[k].pc = frames[k].pc /\ fl[k].pend = IdlePend
    <3>1. fl[k] = [pc |-> frames[k].pc, pend |-> IdlePend] BY <2>1
    <3> QED BY <3>1
  <2>4. \A k \in 1..(n + 1) : k \in 1..n \/ k = n + 1 BY <1>1
  <2> QED BY <1>1, <1>3, <2>1, <2>2, <2>3, <2>4
<1>5. \A k \in 1..(n + 1) : /\ Place(k) \in Nat /\ Firm(Place(k)) /\ Place(k) \in DOMAIN code
                            /\ stacks[k] \in Seq(Entry) /\ Tracks(stacks[k], Place(k))
  <2> HIDE DEF stacks
  <2> SUFFICES ASSUME NEW k \in 1..n
               PROVE  /\ frames[k].pc \in Nat /\ Firm(frames[k].pc) /\ frames[k].pc \in DOMAIN code
                      /\ frames[k].tries \in Seq(Entry) /\ Tracks(frames[k].tries, frames[k].pc)
    <3>1. pc \in Nat /\ Firm(pc) /\ pc \in DOMAIN code BY Runs
    <3> HIDE DEF n
    <3>2. \A k \in 1..(n + 1) : (k \in 1..n /\ k # n + 1) \/ k = n + 1 BY <1>1
    <3> QED BY <1>2, <3>1, <3>2
  <2>1. Resumable(code, frames[k]) BY <1>1, Runs
  <2>2. /\ frames[k].pc \in DOMAIN code /\ frames[k].pc - 1 \in DOMAIN code
        /\ code[frames[k].pc - 1].op = "call" /\ frames[k].tries \in Seq(Entry)
        /\ StackFits(code, frames[k].tries, frames[k].pc)
    BY <2>1 DEF Resumable
  <2>3. frames[k].pc \in Nat BY <1>0, <2>2, Codes
  <2>4. Firm((frames[k].pc - 1) + 1) BY <1>0, <2>2, FirmIs
  <2>5. (frames[k].pc - 1) + 1 = frames[k].pc BY <2>3
  <2>6. Fits(frames[k].tries, frames[k].pc) BY <1>0, <2>2, <2>3, FitsIs
  <2> QED BY <2>2, <2>3, <2>4, <2>5, <2>6 DEF Fits, Tracks
<1>6. \A k \in 1..(n + 1) : live(k) = {j \in DOMAIN stacks[k] : stacks[k][j].kind \in 1..3}
  <2> HIDE DEF stacks
  <2> SUFFICES ASSUME NEW k \in 1..(n + 1), NEW j \in DOMAIN stacks[k]
               PROVE  stacks[k][j].kind # 0 <=> stacks[k][j].kind \in 1..3
    OBVIOUS
  <2>1. stacks[k][j] \in Entry BY <1>5
  <2> QED BY <2>1 DEF Entry
<1>7. \A k \in 1..(n + 1) :
        /\ live(k) = {} <=> Lexical!Guards(Place(k)) = {}
        /\ live(k) # {} =>
             /\ Max(live(k)) \in live(k)
             /\ \E i \in Kinds(1..3, Place(k)) :
                  /\ stacks[k][Max(live(k))] = EntryAt(code, i, Place(k))
                  /\ stacks[k][Max(live(k))].at = i + 1
                  /\ Lexical!Innermost(Lexical!Guards(Place(k))) = R(i)
  <2> SUFFICES ASSUME NEW k \in 1..(n + 1)
               PROVE  /\ live(k) = {} <=> Lexical!Guards(Place(k)) = {}
                      /\ live(k) # {} =>
                         /\ Max(live(k)) \in live(k)
                         /\ \E i \in Kinds(1..3, Place(k)) :
                              /\ stacks[k][Max(live(k))] = EntryAt(code, i, Place(k))
                              /\ stacks[k][Max(live(k))].at = i + 1
                              /\ Lexical!Innermost(Lexical!Guards(Place(k))) = R(i)
    OBVIOUS
  <2> DEFINE H == live(k)
             q == Place(k)
             st == stacks[k]
             G == Lexical!Guards(q)
  <2>1. /\ H = {j \in DOMAIN st : st[j].kind \in 1..3} /\ q \in Nat /\ Firm(q)
        /\ st \in Seq(Entry) /\ Tracks(st, q)
    BY <1>5, <1>6
  <2> HIDE DEF H, q, st
  <2>2. G = {R(m) : m \in Kinds(1..3, q)} BY <1>0, <2>1, GuardsAre
  <2>3. /\ H = {} <=> Kinds(1..3, q) = {}
        /\ H # {} => /\ Max(H) \in H
                     /\ \E i \in Kinds(1..3, q) :
                          /\ st[Max(H)] = EntryAt(code, i, q) /\ st[Max(H)].at = i + 1
                          /\ Lexical!Innermost({R(m) : m \in Kinds(1..3, q)}) = R(i)
    <3> DEFINE K == 1..3
    <3>1. K \in SUBSET (1..3) /\ H = Having(K, st) BY <2>1 DEF Having
    <3> HIDE DEF K
    <3>2. /\ H = {} <=> Kinds(K, q) = {}
          /\ H # {} => /\ Max(H) \in H
                       /\ \E i \in Kinds(K, q) :
                            /\ st[Max(H)] = EntryAt(code, i, q) /\ st[Max(H)].at = i + 1
                            /\ Lexical!Innermost({R(m) : m \in Kinds(K, q)}) = R(i)
      BY <1>0, <2>1, <3>1, Found
    <3> QED BY <3>2 DEF K
  <2>4. H = {} <=> G = {} BY <2>2, <2>3
  <2> HIDE DEF G
  <2>5. H # {} => /\ Max(H) \in H
                  /\ \E i \in Kinds(1..3, q) :
                       /\ st[Max(H)] = EntryAt(code, i, q) /\ st[Max(H)].at = i + 1
                       /\ Lexical!Innermost(G) = R(i)
    BY <2>2, <2>3
  <2> QED BY <2>4, <2>5 DEF H, q, st, G
<1> DEFINE guarded == {k \in DOMAIN fl : Lexical!Guards(fl[k].pc) # {}}
<1>8. guarded = hit
  <2> HIDE DEF fl, stacks, live, Place
  <2> QED BY <1>2, <1>3, <1>4, <1>7
<1>9. CASE hit = {}
  <2>1. Stop(<<"threw", v>>) /\ code' = code BY <1>9 DEF Unwind
  <2>2. VMInv' /\ Lexical!Stop(<<"threw", v>>) /\ UNCHANGED Text BY <2>1, Ends
  <2>3. guarded = {} BY <1>8, <1>9
  <2> QED BY <2>2, <2>3 DEF Lexical!Raise
<1>10. CASE hit # {}
  <2> DEFINE k == Max(hit)
             st == stacks[k]
             j == Max(live(k))
             e == st[j]
             q == Place(k)
             f == fl[k]
             en == [e EXCEPT !.kind = IF e.kind = 3 THEN 2 ELSE 0]
  <2>1. /\ Running /\ frames' = SubSeq(frames, 1, k - 1)
        /\ pc' = IF e.kind = 3 THEN e.catch ELSE e.at
        /\ tries' = SubSeq(st, 1, j - 1) \o <<en>>
        /\ res' = IF e.kind = 2 THEN <<"throw", v>> ELSE Normal
    BY <1>10 DEF Unwind
  <2> HIDE DEF stacks, fl
  <2>2. k \in hit /\ k \in 1..(n + 1) /\ live(k) # {}
    <3>1. hit \subseteq 1..(n + 1) BY <1>2
    <3>2. n + 1 \in Nat BY <1>1
    <3> HIDE DEF hit, n
    <3>3. k \in hit BY <1>10, <3>1, <3>2, MaxIs
    <3>4. k \in 1..(n + 1) BY <3>1, <3>3
    <3> HIDE DEF k
    <3>5. live(k) # {} BY <3>3 DEF hit
    <3> QED BY <3>3, <3>4, <3>5
  <2> HIDE DEF hit, k
  <2>3. /\ q \in Nat /\ Firm(q) /\ q \in DOMAIN code /\ st \in Seq(Entry) /\ Tracks(st, q)
    BY <1>5, <2>2
  <2>4. PICK i \in Kinds(1..3, q) : /\ e = EntryAt(code, i, q) /\ e.at = i + 1
                                    /\ Lexical!Innermost(Lexical!Guards(q)) = R(i)
    BY <1>7, <2>2
  <2>5. j \in DOMAIN st /\ j \in Nat /\ 1 <= j
    <3>1. j \in live(k) BY <1>7, <2>2
    <3>2. j \in DOMAIN st BY <3>1
    <3> HIDE DEF j, st
    <3> QED BY <2>3, <3>2
  <2>6. f.pc = q /\ (f.pend = IdlePend \/ f.pend = Pending) BY <1>1, <1>4, <2>2
  <2>7. code' = code /\ mode' = "running" /\ out' = out BY <2>1 DEF Running
  <2> HIDE DEF st, j, q, f, live, Place, n
  <2>8. i \in S /\ In(i, q) /\ EntryAt(code, i, q).kind \in 1..3 BY <2>4 DEF Kinds
  <2>9. i \in Nat /\ q # T(i) /\ q # B(i) BY <1>0, <2>3, <2>8, Codes DEF Firm
  <2>10. /\ e.end = Z(i) /\ e.catch = IF T(i) = i THEN 0 ELSE T(i) + 1
         /\ e.kind = IF q < B(i) THEN 2 ELSE IF T(i) = i THEN 1 ELSE 3
         /\ q < B(i) => T(i) # i /\ T(i) < q
         /\ e = [kind |-> e.kind, end |-> e.end, at |-> e.at, catch |-> e.catch]
    <3>1. /\ EntryAt(code, i, q).end = IF q = T(i) \/ q = B(i) THEN 0 ELSE Z(i)
          /\ EntryAt(code, i, q).catch = IF T(i) = i \/ q = T(i) THEN 0 ELSE T(i) + 1
          /\ EntryAt(code, i, q).kind = IF q < T(i) THEN 0
                                  ELSE IF q = T(i) THEN 1
                                  ELSE IF q < B(i) THEN (IF T(i) = i THEN 0 ELSE 2)
                                  ELSE IF T(i) = i THEN 1 ELSE 3
          /\ EntryAt(code, i, q) = [kind |-> EntryAt(code, i, q).kind, end |-> EntryAt(code, i, q).end,
                              at |-> EntryAt(code, i, q).at, catch |-> EntryAt(code, i, q).catch]
      BY <1>0, <2>3, <2>8, EntryIs
    <3>2. /\ T(i) \in Nat /\ B(i) \in Nat /\ T(i) < B(i) BY <1>0, <2>8, Layout
    <3>3. EntryAt(code, i, q).kind # 0 BY <2>8
    <3> QED BY <2>3, <2>4, <2>9, <3>1, <3>2, <3>3
  <2> HIDE DEF e
  <2> DEFINE b == IF q < B(i) THEN i + 1 ELSE T(i) + 1
  <2>11. pc' = b BY <2>1, <2>4, <2>10
  <2>12. b \in Nat /\ In(i, b) /\ Bare(i, b) /\ b # T(i) /\ b < B(i) /\ (q < B(i) <=> b < T(i))
    <3>1. /\ T(i) \in Nat /\ B(i) \in Nat /\ Z(i) \in Nat /\ (T(i) = i \/ i + 1 < T(i))
          /\ T(i) + 1 < B(i) /\ B(i) < Z(i)
      BY <1>0, <2>8, Layout
    <3>2. Bare(i, i + 1) /\ Bare(i, T(i) + 1) BY <1>0, <2>8, Bares
    <3> QED BY <2>9, <2>10, <3>1, <3>2 DEF In
  <2>13. b \in DOMAIN code BY <1>0, <2>8, <2>12, Layout, Codes DEF In
  <2> HIDE DEF b
  <2>14. en = [kind |-> IF e.kind = 3 THEN 2 ELSE 0, end |-> e.end, at |-> e.at, catch |-> e.catch]
    BY <2>10
  <2>15. en = EntryAt(code, i, b)
    <3>1. /\ EntryAt(code, i, b).at = i + 1 /\ EntryAt(code, i, b).end = Z(i)
          /\ EntryAt(code, i, b).catch = IF T(i) = i THEN 0 ELSE T(i) + 1
          /\ EntryAt(code, i, b).kind = IF b < T(i) THEN 0 ELSE IF T(i) = i THEN 0 ELSE 2
          /\ EntryAt(code, i, b) = [kind |-> EntryAt(code, i, b).kind, end |-> EntryAt(code, i, b).end,
                              at |-> EntryAt(code, i, b).at, catch |-> EntryAt(code, i, b).catch]
      BY <1>0, <2>8, <2>9, <2>12, EntryIs, Layout
    <3> QED BY <2>4, <2>10, <2>12, <2>14, <3>1
  <2>16. en \in Entry BY <1>0, <2>8, <2>12, <2>15, EntryIs
  <2> HIDE DEF en
  <2>17. /\ tries' \in Seq(Entry) /\ DOMAIN tries' = 1..j
         /\ tries'[j] = en /\ \A l \in 1..(j - 1) : tries'[l] = st[l]
    <3>1. SubSeq(st, 1, j - 1) \in Seq(Entry) /\ Len(SubSeq(st, 1, j - 1)) = j - 1
          /\ \A l \in 1..(j - 1) : SubSeq(st, 1, j - 1)[l] = st[l]
      BY <2>3, <2>5
    <3> DEFINE a == SubSeq(st, 1, j - 1)
    <3> HIDE DEF a
    <3>2. a \in Seq(Entry) /\ Len(a) = j - 1 /\ \A l \in 1..(j - 1) : a[l] = st[l] BY <3>1 DEF a
    <3>3. tries' = a \o <<en>> BY <2>1 DEF a
    <3> QED BY <2>5, <2>16, <3>2, <3>3
  <2>18. Fits(tries', b)
    <3>1. st[j].at = i + 1 BY <2>4 DEF e
    <3> QED BY <1>0, <2>3, <2>5, <2>8, <2>12, <2>15, <2>17, <3>1, Cut
  <2>19. frames' \in Seq(Frame) /\ Callers' = SubSeq(Callers, 1, k - 1)
         /\ \A l \in DOMAIN frames' : Resumable(code, frames'[l])
    <3>1. k - 1 \in 0..Len(frames) BY <1>1, <2>2 DEF n
    <3>2. /\ frames' \in Seq(Frame) /\ Callers' = SubSeq(Callers, 1, k - 1)
          /\ DOMAIN frames' = 1..(k - 1) /\ \A l \in 1..(k - 1) : frames'[l] = frames[l]
      BY <1>0, <2>1, <2>7, <3>1, CallersMove
    <3> QED BY <1>0, <3>1, <3>2, Runs
  <2>20. res' \in Completion BY <2>1 DEF Completion
  <2>21. e.kind = 2 => b \in R(i).finally BY <1>0, <2>8, <2>10, <2>12, Blocked DEF In
  <2>22. VMInv' /\ Lexical!Keep /\ UNCHANGED Text
    <3>1. res' # Normal => \E m \in S : pc' \in R(m).finally BY <2>1, <2>8, <2>11, <2>21
    <3> QED BY <1>0, <2>7, <2>11, <2>13, <2>17, <2>18, <2>19, <2>20, <3>1, Settles
  <2>23. \A m \in S : b \in R(m).finally => m = i BY <1>0, <2>8, <2>12, Alone
  <2>24. q \in R(i).body <=> e.kind # 2 
    <3>1. B(i) \in Nat /\ q < Z(i) BY <1>0, <2>8, Layout DEF In
    <3>2. q \in R(i).body <=> B(i) <= q BY <1>0, <2>3, <2>8, <3>1, Blocked
    <3> QED BY <2>3, <2>9, <2>10, <3>1, <3>2
  <2>25. R(i).catch # {} /\ R(i).catchAt = T(i) + 1 /\ R(i).finallyAt = i + 1
    BY <1>0, <2>8, Blocked
  <2>26. CASE e.kind # 2
    <3>1. b = T(i) + 1 /\ b \notin R(i).finally BY <1>0, <2>8, <2>9, <2>10, <2>12, <2>26, Blocked, Layout DEF b
    <3>2. Lexical!At(pc', f.pend) BY <2>7, <2>11, <2>23, <3>1, AtIs
    <3>3. Lexical!At(R(i).catchAt, f.pend) BY <2>11, <2>25, <3>1, <3>2
    <3> QED BY <1>8, <1>10, <2>4, <2>6, <2>19, <2>22, <2>24, <2>25, <2>26, <3>3, RaiseIs DEF f, fl, k
  <2>27. CASE e.kind = 2
    <3> DEFINE p == [f.pend EXCEPT ![R(i)] = <<"throw", v>>]
    <3>1. b = i + 1 BY <2>10, <2>27 DEF b
    <3>2. R(i) \in DOMAIN f.pend BY <2>6, <2>8, PendingIs
    <3>3. p[R(i)] = res' BY <2>1, <2>27, <3>2
    <3> HIDE DEF p
    <3>4. Lexical!At(pc', p) BY <2>7, <2>11, <2>23, <3>3, AtIs
    <3>5. Lexical!At(R(i).finallyAt, p) BY <2>11, <2>25, <3>1, <3>4
    <3> QED BY <1>8, <1>10, <2>4, <2>6, <2>19, <2>22, <2>24, <2>25, <2>27, <3>5, RaiseIs DEF f, fl, k, p
  <2> QED BY <2>26, <2>27
<1> QED BY <1>9, <1>10

\* Where a return drops out of a function, no finally block is around it.
LEMMA Leaves ==
  ASSUME VMAssumption, VMInv, mode = "running", NEW v \in Int, LeaveFunction(v),
         Lexical!Finals(pc) = {}
  PROVE  VMInv' /\ Lexical!Return(v) /\ UNCHANGED Text
<1> DEFINE n == Len(frames)
           f == frames[n]
<1>0. code \in VMPrograms /\ frames \in Seq(Frame) BY Runs
<1>1. CASE frames = <<>>
  <2>1. Stop(<<"returned", v>>) /\ code' = code BY <1>1 DEF LeaveFunction
  <2>2. VMInv' /\ Lexical!Stop(<<"returned", v>>) /\ UNCHANGED Text BY <2>1, Ends
  <2>3. Callers = <<>> BY <1>0, <1>1, CallersAre
  <2> QED BY <2>2, <2>3 DEF Lexical!Return
<1>2. CASE frames # <<>>
  <2>1. /\ code' = code /\ mode' = "running" /\ out' = out
        /\ pc' = f.pc /\ tries' = f.tries /\ res' = Normal /\ frames' = SubSeq(frames, 1, n - 1)
    BY <1>2 DEF LeaveFunction, Running
  <2>2. n \in Nat /\ n # 0 /\ DOMAIN frames = 1..n BY <1>0, <1>2, EmptySeq
  <2>3. n \in DOMAIN frames /\ n - 1 \in 0..n BY <2>2
  <2>4. f \in Frame /\ Resumable(code, f) BY <1>0, <2>3, Runs
  <2>5. /\ Callers # <<>> /\ Len(Callers) = n
        /\ Callers[n] = [pc |-> f.pc, pend |-> IdlePend]
    BY <1>0, <1>2, <2>2, CallersAre
  <2>6. /\ frames' \in Seq(Frame) /\ Callers' = SubSeq(Callers, 1, n - 1)
        /\ \A k \in DOMAIN frames' : Resumable(code, frames'[k])
    <3>1. /\ frames' \in Seq(Frame) /\ Callers' = SubSeq(Callers, 1, n - 1)
          /\ DOMAIN frames' = 1..(n - 1) /\ \A k \in 1..(n - 1) : frames'[k] = frames[k]
      BY <1>0, <2>1, <2>3, CallersMove
    <3> HIDE DEF n
    <3> QED BY <2>2, <3>1, Runs
  <2> HIDE DEF n, f
  <2>7. f.pc \in DOMAIN code /\ f.tries \in Seq(Entry) /\ StackFits(code, f.tries, f.pc)
    BY <2>4 DEF Resumable
  <2>8. f.pc \in Nat BY <1>0, <2>7, Codes
  <2>9. Fits(tries', pc') BY <1>0, <2>1, <2>7, <2>8, FitsIs
  <2>10. res' \in Completion BY <2>1 DEF Completion
  <2>11. VMInv' /\ Lexical!Keep /\ UNCHANGED Text
    BY <1>0, <2>1, <2>6, <2>7, <2>9, <2>10, Settles
  <2>12. Pending' = IdlePend BY <2>1 DEF Pending, IdlePend, Regions, Normal
  <2>13. Callers[Len(Callers)].pc = pc' /\ Callers[Len(Callers)].pend = Pending'
    BY <2>1, <2>5, <2>12
  <2> QED BY <2>5, <2>6, <2>11, <2>13 DEF Lexical!Return
<1> QED BY <1>1, <1>2

\* The innermost statement around the end of one of its blocks.
LEMMA Closing ==
  ASSUME VMAssumption, code \in VMPrograms, NEW i \in S, NEW q \in Nat, In(i, q), Bare(i, q), Firm(q)
  PROVE  Lexical!Innermost(Lexical!Around(q)) = R(i)
<1> DEFINE G == {m \in S : In(m, q)}
<1>1. \A m \in G : m <= i /\ In(m, q) BY Codes DEF Bare
<1>2. i \in G /\ G \in SUBSET S OBVIOUS
<1>3. Lexical!Around(q) = {R(m) : m \in G} BY GuardsAre
<1> HIDE DEF G
<1> QED BY <1>1, <1>2, <1>3, InnermostIs

\* A block ends: its entry is popped, or the finally block comes next.
LEMMA Ended ==
  ASSUME VMAssumption, VMInv, mode = "running", NEW i \in S, In(i, pc), Bare(i, pc), Firm(pc),
         T(i) < pc, code[pc].op = "endblock", EndBlock
  PROVE  VMInv' /\ Lexical!EndBlock /\ UNCHANGED Text
<1> DEFINE n == Len(tries)
           e == tries[n]
           rest == SubSeq(tries, 1, n - 1)
           b == IF T(i) = i THEN Z(i) ELSE i + 1
           en == [e EXCEPT !.kind = 0]
<1>0. /\ code \in VMPrograms /\ pc \in Nat /\ tries \in Seq(Entry) /\ frames \in Seq(Frame)
      /\ Fits(tries, pc) /\ Tracks(tries, pc)
  BY Runs
<1>1. /\ n \in Nat /\ 0 < n /\ DOMAIN tries = 1..n /\ n \in DOMAIN tries
      /\ e = EntryAt(code, i, pc) /\ e.at = i + 1
  BY <1>0, Top
<1>2. /\ i \in Nat /\ T(i) \in Nat /\ B(i) \in Nat /\ Z(i) \in Nat /\ (T(i) = i \/ i + 1 < T(i))
      /\ T(i) + 1 < B(i) /\ B(i) < Z(i) /\ Z(i) <= Size /\ pc # B(i)
  BY <1>0, Layout DEF Firm
<1>3. pc \notin R(i).finally BY <1>0, <1>2, Blocked
<1>4. \A m \in S : pc \notin R(m).finally BY <1>0, <1>3, Alone
<1>5. res = Normal BY <1>4, Runs
<1>6. /\ e.kind = IF T(i) # i THEN (IF pc < B(i) THEN 2 ELSE 3) ELSE IF pc < B(i) THEN 0 ELSE 1
      /\ e.end = Z(i) /\ e.catch = IF T(i) = i THEN 0 ELSE T(i) + 1
      /\ e = [kind |-> e.kind, end |-> e.end, at |-> e.at, catch |-> e.catch]
  BY <1>0, <1>1, <1>2, EntryIs
<1>7. rest \in Seq(Entry) /\ Len(rest) = n - 1 /\ DOMAIN rest = 1..(n - 1)
      /\ \A l \in 1..(n - 1) : rest[l] = tries[l]
  BY <1>0, <1>1
<1> HIDE DEF n, e, rest
<1>8. /\ code' = code /\ mode' = "running" /\ out' = out /\ frames' = frames /\ res' = res /\ pc' = b
      /\ T(i) = i => tries' = rest
      /\ T(i) # i => tries' = Append(rest, en)
  <2>1. res[1] = "normal" BY <1>5 DEF Normal
  <2>2. CASE T(i) = i BY <1>6, <2>1, <2>2 DEF EndBlock, Running, n, e, rest
  <2>3. CASE T(i) # i
    <3>1. e.kind \in {2, 3} BY <1>6, <2>3
    <3>2. Running /\ pc' = e.at /\ tries' = Append(rest, en) /\ UNCHANGED <<frames, res>>
      BY <3>1 DEF EndBlock, n, e, rest
    <3> QED BY <1>1, <2>3, <3>2 DEF Running
  <2> QED BY <2>2, <2>3
<1>9. b \in Nat /\ Bare(i, b) /\ (In(i, b) <=> T(i) # i)
  BY <1>0, <1>2, Bares DEF In
<1>10. b \in DOMAIN code BY <1>0, <1>2, Codes
<1> HIDE DEF b
<1>11. T(i) # i => en = EntryAt(code, i, b) /\ en \in Entry
  <2> SUFFICES ASSUME T(i) # i PROVE en = EntryAt(code, i, b) /\ en \in Entry OBVIOUS
  <2>1. b = i + 1 BY DEF b
  <2>2. /\ EntryAt(code, i, b).at = i + 1 /\ EntryAt(code, i, b).end = Z(i)
        /\ EntryAt(code, i, b).catch = T(i) + 1 /\ EntryAt(code, i, b).kind = 0
        /\ EntryAt(code, i, b) = [kind |-> EntryAt(code, i, b).kind, end |-> EntryAt(code, i, b).end,
                                  at |-> EntryAt(code, i, b).at, catch |-> EntryAt(code, i, b).catch]
        /\ EntryAt(code, i, b) \in Entry
    BY <1>0, <1>2, <1>9, <2>1, EntryIs
  <2>3. en = [kind |-> 0, end |-> e.end, at |-> e.at, catch |-> e.catch] BY <1>6
  <2> QED BY <1>1, <1>6, <2>2, <2>3
<1> HIDE DEF en
<1>12. tries' \in Seq(Entry) /\ Fits(tries', b)
  <2>1. CASE T(i) = i
    <3>1. tries' \in Seq(Entry) /\ DOMAIN tries' = 1..(n - 1) /\ \A l \in 1..(n - 1) : tries'[l] = tries[l]
      BY <1>7, <1>8, <2>1
    <3>2. n - 1 \in {n, n - 1} /\ n - 1 # n /\ ~In(i, b) BY <1>1, <1>9, <2>1
    <3>3. tries[n].at = i + 1 BY <1>1 DEF e
    <3> QED BY <1>0, <1>1, <1>9, <3>1, <3>2, <3>3, Cut
  <2>2. CASE T(i) # i
    <3>1. en \in Entry /\ tries' = Append(rest, en) BY <1>8, <1>11, <2>2
    <3>2. /\ tries' \in Seq(Entry) /\ DOMAIN tries' = 1..n /\ tries'[n] = en
          /\ \A l \in 1..(n - 1) : tries'[l] = tries[l]
      BY <1>1, <1>7, <3>1
    <3>3. tries[n].at = i + 1 BY <1>1 DEF e
    <3> QED BY <1>0, <1>1, <1>9, <1>11, <2>2, <3>2, <3>3, Cut
  <2> QED BY <2>1, <2>2
<1>13. VMInv' /\ Lexical!Keep /\ UNCHANGED Text
  <2>1. res' \in Completion /\ res' = Normal BY <1>5, <1>8 DEF Completion
  <2> QED BY <1>0, <1>8, <1>10, <1>12, <2>1, Runs, Settles
<1>14. Lexical!At(b, Pending)
  <2>1. \A m \in S : Pending[R(m)] = Normal BY <1>5, PendingIs
  <2>2. Lexical!At(pc', Pending) BY <1>5, <1>8, <2>1, AtIs
  <2> QED BY <1>8, <2>2
<1>15. Callers' = Callers BY <1>0, <1>8, CallersMove
<1>16. Lexical!Go(b) BY <1>13, <1>14, <1>15 DEF Lexical!Go
<1>17. Lexical!Innermost(Lexical!Around(pc)) = R(i) BY <1>0, Closing
<1>18. b = IF R(i).finally # {} THEN R(i).finallyAt ELSE R(i).end BY <1>0, Blocked DEF b
<1> QED BY <1>3, <1>13, <1>16, <1>17, <1>18 DEF Lexical!EndBlock

\* A finally block ends: what is pending is resumed.
LEMMA Resumed ==
  ASSUME VMAssumption, VMInv, mode = "running", NEW i \in S, In(i, pc), Bare(i, pc), Firm(pc),
         pc < T(i), code[pc].op = "endblock", EndBlock
  PROVE  VMInv' /\ Lexical!EndBlock /\ UNCHANGED Text
<1> DEFINE n == Len(tries)
           e == tries[n]
           rest == SubSeq(tries, 1, n - 1)
<1>0. /\ code \in VMPrograms /\ pc \in Nat /\ tries \in Seq(Entry) /\ frames \in Seq(Frame)
      /\ Fits(tries, pc) /\ Tracks(tries, pc) /\ res \in Completion
  BY Runs
<1>1. /\ n \in Nat /\ 0 < n /\ DOMAIN tries = 1..n /\ n \in DOMAIN tries
      /\ e = EntryAt(code, i, pc) /\ e.at = i + 1
  BY <1>0, Top
<1>2. /\ i \in Nat /\ T(i) \in Nat /\ B(i) \in Nat /\ Z(i) \in Nat
      /\ T(i) < B(i) /\ B(i) < Z(i) /\ Z(i) <= Size
  BY <1>0, Layout
<1>3. pc \in R(i).finally BY <1>0, <1>2, Blocked DEF In
<1>4. e.kind = 0 /\ e.end = Z(i) BY <1>0, <1>1, <1>2, EntryIs
<1>5. /\ rest \in Seq(Entry) /\ Len(rest) = n - 1 /\ DOMAIN rest = 1..(n - 1)
      /\ \A l \in 1..(n - 1) : rest[l] = tries[l]
  BY <1>0, <1>1
<1>6. Tracks(rest, pc) BY <1>0, <1>1, <1>4, Top
<1>7. Lexical!Innermost(Lexical!Around(pc)) = R(i) BY <1>0, Closing
<1>8. Pending[R(i)] = res BY <1>3, PendingIs
<1> HIDE DEF n, e, rest
<1>9. \/ /\ res[1] = "normal" /\ Running
         /\ pc' = e.end /\ tries' = rest /\ UNCHANGED <<frames, res>>
      \/ res[1] = "throw" /\ Unwind(res[2], rest)
      \/ res[1] = "return" /\ LeaveFunction(res[2])
  <2>1. \/ /\ e.kind = 1 \/ (e.kind = 0 /\ res[1] = "normal")
           /\ Running /\ pc' = e.end /\ tries' = rest /\ UNCHANGED <<frames, res>>
        \/ e.kind = 0 /\ res[1] = "throw" /\ Unwind(res[2], rest)
        \/ e.kind = 0 /\ res[1] = "return" /\ LeaveFunction(res[2])
        \/ e.kind \in {2, 3}
    BY DEF EndBlock, n, e, rest
  <2>2. e.kind # 1 /\ e.kind \notin {2, 3} BY <1>4
  <2> QED BY <2>1, <2>2, Zenon
<1>10. res = Normal \/ (res[1] \in {"return", "throw"} /\ res[2] \in Int)
  BY <1>0 DEF Completion
<1>11. CASE res[1] = "normal"
  <2>1. res = Normal BY <1>10, <1>11
  <2>2. /\ code' = code /\ mode' = "running" /\ out' = out /\ pc' = Z(i) /\ tries' = rest
        /\ frames' = frames /\ res' = Normal
    BY <1>4, <1>9, <1>11, <2>1 DEF Running
  <2>3. Bare(i, Z(i)) /\ ~In(i, Z(i)) BY <1>0, <1>2, Bares DEF In
  <2>4. Fits(tries', pc')
    <3>1. n - 1 \in {n, n - 1} /\ n - 1 # n BY <1>1
    <3>2. tries[n].at = i + 1 BY <1>1 DEF e
    <3>3. Fits(rest, Z(i)) BY <1>0, <1>1, <1>2, <1>5, <2>3, <3>1, <3>2, Cut
    <3> QED BY <2>2, <3>3
  <2>5. Z(i) \in DOMAIN code BY <1>0, <1>2, Codes
  <2>6. res' \in Completion BY <2>2 DEF Completion
  <2>7. VMInv' /\ Lexical!Keep /\ UNCHANGED Text
    BY <1>0, <1>5, <2>2, <2>4, <2>5, <2>6, Runs, Settles
  <2>8. Lexical!At(Z(i), Pending)
    <3>1. \A m \in S : Pending[R(m)] = Normal BY <2>1, PendingIs
    <3>2. Lexical!At(pc', Pending) BY <2>2, <3>1, AtIs
    <3> QED BY <2>2, <3>2
  <2>9. Callers' = Callers BY <1>0, <2>2, CallersMove
  <2>10. Lexical!Go(Z(i)) BY <2>7, <2>8, <2>9 DEF Lexical!Go
  <2>11. R(i).end = Z(i) BY <1>0, Blocked
  <2> QED BY <1>3, <1>7, <1>8, <1>11, <2>7, <2>10, <2>11 DEF Lexical!EndBlock
<1>12. CASE res[1] = "throw"
  <2>1. Unwind(res[2], rest) /\ res[2] \in Int BY <1>9, <1>10, <1>12 DEF Normal
  <2>2. VMInv' /\ Lexical!Raise(res[2]) /\ UNCHANGED Text BY <1>5, <1>6, <2>1, Unwinds
  <2> QED BY <1>3, <1>7, <1>8, <1>12, <2>2 DEF Lexical!EndBlock
<1>13. CASE res[1] = "return"
  <2>1. LeaveFunction(res[2]) /\ res[2] \in Int BY <1>9, <1>10, <1>13 DEF Normal
  <2>2. Kinds({2, 3}, pc) = {}
    <3> SUFFICES ASSUME NEW m \in S, In(m, pc), EntryAt(code, m, pc).kind \in {2, 3} PROVE FALSE
      BY DEF Kinds
    <3>1. m \in Nat /\ T(m) \in Nat /\ B(m) \in Nat BY <1>0, Layout
    <3>2. ~(i < m) BY DEF Bare
    <3>3. m # i BY <1>1, <1>4
    <3>4. m < i BY <1>2, <3>1, <3>2, <3>3
    <3>5. T(m) = m BY <1>0, <1>3, <3>4, Alone DEF In
    <3> QED BY <1>0, <3>1, <3>5, EntryIs
  <2>3. Lexical!Finals(pc) = {} BY <1>0, <2>2, GuardsAre
  <2>4. VMInv' /\ Lexical!Return(res[2]) /\ UNCHANGED Text BY <2>1, <2>3, Leaves
  <2> QED BY <1>3, <1>7, <1>8, <1>13, <2>4 DEF Lexical!EndBlock
<1> QED BY <1>9, <1>11, <1>12, <1>13

-----------------------------------------------------------------------------
(* The actions.                                                            *)

\* What a step shows.
Shown == VMInv' /\ Lexical!Next

\* A step of the program text.
LEMMA StepIs ==
  ASSUME mode = "running", VMInv', UNCHANGED Text,
         \/ code[pc].op \in {"try", "bound"} /\ Lexical!Go(code[pc].to)
         \/ code[pc].op = "plain" /\ (Lexical!Go(pc + 1) \/ Lexical!Raise(pc))
         \/ code[pc].op = "jump" /\ (Lexical!Go(pc + 1) \/ Lexical!Jump(code[pc].to))
         \/ code[pc].op = "throw" /\ Lexical!Raise(pc)
         \/ code[pc].op = "return" /\ Lexical!Return(pc)
         \/ code[pc].op = "endblock" /\ Lexical!EndBlock
  PROVE  Shown
<1>1. Lexical!Instr = code[pc] BY DEF Lexical!Instr, Text
<1> QED BY <1>1 DEF Shown, Lexical!Next, Lexical!Step

LEMMA LoadShown == ASSUME VMAssumption, VMInv, Load PROVE Shown
<1>1. mode = "fresh" /\ code' = code BY DEF Load
<1>2. /\ code \in VMPrograms /\ pc = 0 /\ tries = <<>> /\ frames = <<>> /\ res = Normal
  BY <1>1 DEF VMInv, TypeOK, Placed
<1>3. ASSUME Stop(<<"threw", Given>>) PROVE Shown
  <2>1. VMInv' /\ Lexical!Stop(<<"threw", Given>>) /\ UNCHANGED Text BY <1>1, <1>3, Ends
  <2> QED BY <1>1, <2>1
    DEF Shown, Lexical!Next, Lexical!Start, Given, Lexical!Given
<1>4. ASSUME mode' = "running", pc' = 1, UNCHANGED <<tries, frames, res, out>> PROVE Shown
  <2>1. 1 \in DOMAIN code BY <1>2, Codes
  <2>2. Fits(tries', 1)
    <3>1. \A i \in S : ~In(i, 1) BY <1>2, Layout DEF In
    <3> QED BY <1>2, <1>4, <3>1 DEF Fits
  <2>3. frames' \in Seq(Frame) /\ DOMAIN frames' = {} /\ tries' \in Seq(Entry)
    BY <1>2, <1>4
  <2>4. res' \in Completion /\ res' = Normal BY <1>2, <1>4 DEF Completion
  <2>5. VMInv' /\ Lexical!Keep /\ UNCHANGED Text
    BY <1>1, <1>2, <1>4, <2>1, <2>2, <2>3, <2>4, Settles
  <2>6. \A m \in S : Pending[R(m)] = Normal BY <1>2, PendingIs
  <2>7. Lexical!At(pc', Pending) BY <1>1, <2>4, <2>6, AtIs
  <2>8. Callers' = Callers BY <1>1, <1>2, <1>4, CallersMove
  <2>9. Lexical!Go(1) BY <1>4, <2>5, <2>7, <2>8 DEF Lexical!Go
  <2> QED BY <1>1, <2>5, <2>9, Regional DEF Shown, Lexical!Next, Lexical!Start
<1> QED BY <1>3, <1>4 DEF Load

LEMMA PlainShown == ASSUME VMAssumption, VMInv, Plain PROVE Shown
<1>1. mode = "running" /\ code[pc].op = "plain" BY DEF Plain, Op
<1>2. /\ code \in VMPrograms /\ pc \in DOMAIN code /\ pc \in Nat /\ tries \in Seq(Entry)
      /\ Tracks(tries, pc)
  BY <1>1, Runs
<1>3. CASE Go(pc + 1)
  <2>1. pc + 1 \in DOMAIN code BY <1>1, <1>2, InstructionIs
  <2>2. \A i \in S : Same(i, pc, pc + 1) BY <1>1, <1>2, Onward
  <2>3. VMInv' /\ Lexical!Go(pc + 1) /\ UNCHANGED Text BY <1>1, <1>3, <2>1, <2>2, Goes
  <2> QED BY <1>1, <2>3, StepIs
<1>4. CASE Unwind(pc, tries)
  <2>1. Firm(pc) BY <1>1, <1>2, FirmIs
  <2>2. VMInv' /\ Lexical!Raise(pc) /\ UNCHANGED Text BY <1>1, <1>2, <1>4, <2>1, Unwinds
  <2> QED BY <1>1, <2>2, StepIs
<1> QED BY <1>3, <1>4 DEF Plain

LEMMA ThrowShown == ASSUME VMAssumption, VMInv, Throw PROVE Shown
<1>1. mode = "running" /\ code[pc].op = "throw" /\ Unwind(pc, tries) BY DEF Throw, Op
<1>2. /\ code \in VMPrograms /\ pc \in DOMAIN code /\ pc \in Nat /\ tries \in Seq(Entry)
      /\ Tracks(tries, pc)
  BY <1>1, Runs
<1>3. Firm(pc) BY <1>1, <1>2, FirmIs
<1>4. VMInv' /\ Lexical!Raise(pc) /\ UNCHANGED Text BY <1>1, <1>2, <1>3, Unwinds
<1> QED BY <1>1, <1>4, StepIs

LEMMA BranchShown == ASSUME VMAssumption, VMInv, Branch PROVE Shown
<1>1. mode = "running" /\ code[pc].op = "jump" BY DEF Branch, Op
<1>2. code \in VMPrograms /\ pc \in DOMAIN code /\ pc \in Nat BY <1>1, Runs
<1>3. CASE Go(pc + 1)
  <2>1. pc + 1 \in DOMAIN code BY <1>1, <1>2, InstructionIs
  <2>2. \A i \in S : Same(i, pc, pc + 1) BY <1>1, <1>2, Onward
  <2>3. VMInv' /\ Lexical!Go(pc + 1) /\ UNCHANGED Text BY <1>1, <1>3, <2>1, <2>2, Goes
  <2> QED BY <1>1, <2>3, StepIs
<1>4. CASE Go(code[pc].to)
  <2> DEFINE q == code[pc].to
  <2>1. q \in DOMAIN code /\ q \in Nat /\ \A i \in S : Same(i, pc, q)
    BY <1>1, <1>2, InstructionIs, Codes
  <2>2. VMInv' /\ Lexical!Go(q) /\ UNCHANGED Text BY <1>1, <1>4, <2>1, Goes
  <2>3. {r \in Lexical!Finals(pc) : q \notin r.body \cup r.catch} = {}
    <3>1. \A i \in S : pc \in R(i).body \cup R(i).catch <=> q \in R(i).body \cup R(i).catch
      BY <1>2, <2>1, SameIs
    <3> QED BY <3>1, Regional DEF Lexical!Finals
  <2>4. Lexical!Jump(q) BY <2>2, <2>3 DEF Lexical!Jump, Lexical!Go
  <2> QED BY <1>1, <2>2, <2>4, StepIs
<1> QED BY <1>3, <1>4 DEF Branch

\* At the instructions of a statement nothing is pending.
LEMMA Quiet ==
  ASSUME VMAssumption, VMInv, mode = "running", NEW i \in S, Bare(i, pc), pc \notin R(i).finally
  PROVE  res = Normal /\ \A m \in S : Pending[R(m)] = Normal
<1>1. code \in VMPrograms /\ pc \in Nat BY Runs
<1>2. \A m \in S : pc \notin R(m).finally BY <1>1, Alone
<1>3. res = Normal BY <1>2, Runs
<1> QED BY <1>3, PendingIs

\* The stack changes, and nothing is pending.
LEMMA Stacked ==
  ASSUME VMAssumption, VMInv, mode = "running", Running, UNCHANGED <<frames, res>>,
         res = Normal, pc' \in DOMAIN code, tries' \in Seq(Entry), Fits(tries', pc')
  PROVE  VMInv' /\ Lexical!Go(pc') /\ UNCHANGED Text
<1>1. /\ code' = code /\ mode' = "running" /\ out' = out /\ frames' = frames /\ res' = Normal
      /\ code \in VMPrograms
  BY Runs DEF Running
<1>2. res' \in Completion BY <1>1 DEF Completion
<1>3. VMInv' /\ Lexical!Keep /\ UNCHANGED Text BY <1>1, <1>2, Runs, Settles
<1>4. \A m \in S : Pending[R(m)] = Normal BY PendingIs
<1>5. Lexical!At(pc', Pending) BY <1>1, <1>4, AtIs
<1>6. Callers' = Callers BY <1>1, Runs, CallersMove
<1> QED BY <1>3, <1>5, <1>6 DEF Lexical!Go

LEMMA TryShown == ASSUME VMAssumption, VMInv, Try PROVE Shown
<1> DEFINE n == Len(tries)
           second == n > 0 /\ tries[n].end = 0
<1>1. /\ mode = "running" /\ code[pc].op = "try" /\ Running /\ UNCHANGED <<frames, res>>
      /\ pc' = code[pc].to
      /\ tries' = IF second
                  THEN [tries EXCEPT ![n].kind = 3, ![n].catch = pc + 1]
                  ELSE Append(tries, [kind |-> 1, end |-> 0, at |-> pc + 1, catch |-> 0])
  BY DEF Try, Op
<1>2. /\ code \in VMPrograms /\ pc \in DOMAIN code /\ pc \in Nat /\ tries \in Seq(Entry)
      /\ Fits(tries, pc)
  BY <1>1, Runs
<1>3. n \in Nat /\ DOMAIN tries = 1..n BY <1>2
<1>4. PICK i \in S : pc = i \/ pc = T(i) BY <1>1, <1>2, InstructionIs
<1>5. /\ i \in Nat /\ T(i) \in Nat /\ B(i) \in Nat /\ Z(i) \in Nat /\ (T(i) = i \/ i + 1 < T(i))
      /\ T(i) + 1 < B(i) /\ B(i) < Z(i) /\ Z(i) <= Size
      /\ code[i].to = (IF T(i) = i THEN B(i) ELSE T(i)) /\ code[T(i)].to = B(i)
  BY <1>2, Layout
<1>6. /\ Bare(i, i) /\ Bare(i, T(i)) /\ Bare(i, B(i)) BY <1>2, Bares
<1>7. pc \notin R(i).finally BY <1>2, <1>4, <1>5, Blocked
<1>8. res = Normal BY <1>1, <1>4, <1>6, <1>7, Quiet
<1> DEFINE b == code[pc].to
<1>9. /\ b \in Nat /\ b \in DOMAIN code /\ Bare(i, b) /\ In(i, b)
      /\ b = IF pc = i /\ T(i) # i THEN T(i) ELSE B(i)
  BY <1>2, <1>4, <1>5, <1>6, Codes DEF In
<1> HIDE DEF b
<1>10. EntryAt(code, i, b) =
         [kind |-> IF T(i) # i /\ b = B(i) THEN 3 ELSE 1, end |-> 0, at |-> i + 1,
          catch |-> IF T(i) # i /\ b = B(i) THEN T(i) + 1 ELSE 0]
      /\ EntryAt(code, i, b) \in Entry
  BY <1>2, <1>5, <1>9, EntryIs
<1>11. CASE pc = i
  <2>1. ~second
    <3> SUFFICES ASSUME n > 0, tries[n].end = 0 PROVE FALSE OBVIOUS
    <3>1. n \in DOMAIN tries BY <1>3
    <3>2. PICK m \in S : In(m, pc) /\ tries[n] = EntryAt(code, m, pc) BY <1>2, <3>1 DEF Fits
    <3>3. m \in Nat /\ m < i BY <1>2, <1>11, <3>2, Codes DEF In
    <3>4. i # T(m) /\ i # B(m) BY <1>2, <3>3, Nesting
    <3>5. tries[n].end = Z(m) BY <1>2, <1>11, <3>2, <3>4, EntryIs
    <3>6. Z(m) \in Nat /\ m < Z(m) BY <1>2, <3>2, Layout DEF In
    <3> QED BY <3>3, <3>5, <3>6
  <2>2. tries' = Append(tries, EntryAt(code, i, b))
    <3>1. T(i) = i \/ b # B(i) BY <1>5, <1>9, <1>11
    <3>2. EntryAt(code, i, b) = [kind |-> 1, end |-> 0, at |-> pc + 1, catch |-> 0]
      BY <1>10, <1>11, <3>1
    <3> HIDE DEF second
    <3> QED BY <1>1, <2>1, <3>2
  <2>3. /\ tries' \in Seq(Entry) /\ DOMAIN tries' = 1..(n + 1) /\ tries'[n + 1] = EntryAt(code, i, b)
        /\ \A l \in 1..n : tries'[l] = tries[l]
    BY <1>2, <1>10, <2>2
  <2>4. Fits(tries', b) BY <1>2, <1>9, <1>11, <2>3, Push
  <2>5. VMInv' /\ Lexical!Go(pc') /\ UNCHANGED Text
    BY <1>1, <1>8, <1>9, <2>3, <2>4, Stacked DEF b
  <2> QED BY <1>1, <2>5, StepIs
<1>12. CASE pc # i
  <2>1. pc = T(i) /\ T(i) # i /\ b = B(i) /\ In(i, pc) /\ Bare(i, pc)
    BY <1>4, <1>5, <1>6, <1>9, <1>12 DEF In
  <2>2. 0 < n /\ n \in DOMAIN tries /\ tries[n] = EntryAt(code, i, pc) /\ tries[n].at = i + 1
        /\ Tracks(tries, pc)
    BY <1>2, <2>1, Top
  <2>3. tries[n].end = 0 /\ tries[n].kind = 1 /\ tries[n].catch = 0
        /\ tries[n] = [kind |-> tries[n].kind, end |-> tries[n].end,
                       at |-> tries[n].at, catch |-> tries[n].catch]
    <3>1. /\ EntryAt(code, i, pc).end = 0 /\ EntryAt(code, i, pc).kind = 1 /\ EntryAt(code, i, pc).catch = 0
          /\ EntryAt(code, i, pc) =
               [kind |-> EntryAt(code, i, pc).kind, end |-> EntryAt(code, i, pc).end,
                at |-> EntryAt(code, i, pc).at, catch |-> EntryAt(code, i, pc).catch]
      BY <1>2, <1>5, <2>1, EntryIs
    <3> QED BY <2>2, <3>1
  <2>4. tries' = [tries EXCEPT ![n].kind = 3, ![n].catch = pc + 1] BY <1>1, <1>3, <2>2, <2>3
  <2>5. [kind |-> 3, end |-> 0, at |-> i + 1, catch |-> pc + 1] = EntryAt(code, i, b)
    BY <1>10, <2>1
  <2>6. tries' = [tries EXCEPT ![n] = EntryAt(code, i, b)]
    <3>1. [[tries[n] EXCEPT !.kind = 3] EXCEPT !.catch = pc + 1]
            = [kind |-> 3, end |-> 0, at |-> i + 1, catch |-> pc + 1]
      <4>1. tries[n] = [kind |-> 1, end |-> 0, at |-> i + 1, catch |-> 0] BY <2>2, <2>3
      <4> DEFINE e == tries[n]
      <4> HIDE DEF e
      <4>2. e = [kind |-> 1, end |-> 0, at |-> i + 1, catch |-> 0] BY <4>1 DEF e
      <4>3. [e EXCEPT !.kind = 3] = [kind |-> 3, end |-> 0, at |-> i + 1, catch |-> 0] BY <4>2
      <4> DEFINE k == [e EXCEPT !.kind = 3]
      <4> HIDE DEF k
      <4>4. k = [kind |-> 3, end |-> 0, at |-> i + 1, catch |-> 0] BY <4>3 DEF k
      <4>5. [k EXCEPT !.catch = pc + 1] = [kind |-> 3, end |-> 0, at |-> i + 1, catch |-> pc + 1]
        BY <4>4
      <4> QED BY <4>5 DEF e, k
    <3> QED BY <2>2, <2>4, <2>5, <3>1
  <2>7. /\ tries' \in Seq(Entry) /\ DOMAIN tries' = 1..n /\ tries'[n] = EntryAt(code, i, b)
        /\ \A l \in 1..(n - 1) : tries'[l] = tries[l]
    <3> HIDE DEF n
    <3> QED BY <1>2, <1>3, <1>10, <2>2, <2>6
  <2>8. Fits(tries', b) BY <1>2, <1>9, <2>1, <2>2, <2>7, Cut
  <2>9. VMInv' /\ Lexical!Go(pc') /\ UNCHANGED Text
    BY <1>1, <1>8, <1>9, <2>7, <2>8, Stacked DEF b
  <2> QED BY <1>1, <2>9, StepIs
<1> QED BY <1>11, <1>12

LEMMA BoundShown == ASSUME VMAssumption, VMInv, Bound PROVE Shown
<1> DEFINE n == Len(tries)
<1>1. /\ mode = "running" /\ code[pc].op = "bound" /\ Running /\ UNCHANGED <<frames, res>>
      /\ pc' = pc + 1 /\ tries' = [tries EXCEPT ![n].end = code[pc].end]
  BY DEF Bound, Op
<1>2. /\ code \in VMPrograms /\ pc \in DOMAIN code /\ pc \in Nat /\ tries \in Seq(Entry)
      /\ Fits(tries, pc)
  BY <1>1, Runs
<1>3. n \in Nat /\ DOMAIN tries = 1..n BY <1>2
<1>4. PICK i \in S : pc = B(i) BY <1>1, <1>2, InstructionIs
<1>5. /\ i \in Nat /\ T(i) \in Nat /\ B(i) \in Nat /\ Z(i) \in Nat /\ i <= T(i)
      /\ T(i) + 1 < B(i) /\ B(i) + 1 < Z(i) /\ Z(i) <= Size
      /\ code[B(i)].to = B(i) + 1 /\ code[B(i)].end = Z(i)
  BY <1>2, Layout
<1>6. Bare(i, B(i)) /\ Bare(i, B(i) + 1) BY <1>2, Bares
<1>7. pc \notin R(i).finally BY <1>2, <1>4, <1>5, Blocked
<1>8. res = Normal BY <1>1, <1>4, <1>6, <1>7, Quiet
<1> DEFINE b == B(i) + 1
<1>9. b \in Nat /\ b \in DOMAIN code /\ In(i, b) /\ In(i, pc) BY <1>2, <1>4, <1>5, Codes DEF In
<1>10. /\ 0 < n /\ n \in DOMAIN tries /\ tries[n] = EntryAt(code, i, pc) /\ tries[n].at = i + 1
       /\ Tracks(tries, pc)
  BY <1>2, <1>4, <1>6, <1>9, Top
<1>11. [tries[n] EXCEPT !.end = Z(i)] = EntryAt(code, i, b) /\ EntryAt(code, i, b) \in Entry
  <2>1. EntryAt(code, i, pc) = [kind |-> IF T(i) = i THEN 1 ELSE 3, end |-> 0, at |-> i + 1,
                                catch |-> IF T(i) = i THEN 0 ELSE T(i) + 1]
    BY <1>2, <1>4, <1>5, EntryIs
  <2>2. EntryAt(code, i, b) = [kind |-> IF T(i) = i THEN 1 ELSE 3, end |-> Z(i), at |-> i + 1,
                               catch |-> IF T(i) = i THEN 0 ELSE T(i) + 1]
        /\ EntryAt(code, i, b) \in Entry
    BY <1>2, <1>5, <1>9, EntryIs
  <2> QED BY <1>10, <2>1, <2>2
<1>12. tries' = [tries EXCEPT ![n] = EntryAt(code, i, b)]
  BY <1>1, <1>4, <1>5, <1>10, <1>11
<1> HIDE DEF b
<1>13. /\ tries' \in Seq(Entry) /\ DOMAIN tries' = 1..n /\ tries'[n] = EntryAt(code, i, b)
       /\ \A l \in 1..(n - 1) : tries'[l] = tries[l]
  <2> HIDE DEF n
  <2> QED BY <1>2, <1>3, <1>10, <1>11, <1>12
<1>14. pc' = b /\ Bare(i, b) /\ code[pc].to = b BY <1>1, <1>4, <1>5, <1>6 DEF b
<1>15. Fits(tries', b) BY <1>2, <1>9, <1>10, <1>13, <1>14, Cut
<1>16. VMInv' /\ Lexical!Go(pc') /\ UNCHANGED Text
  BY <1>1, <1>8, <1>9, <1>13, <1>14, <1>15, Stacked
<1> QED BY <1>1, <1>14, <1>16, StepIs

LEMMA EndBlockShown == ASSUME VMAssumption, VMInv, EndBlock PROVE Shown
<1>1. mode = "running" /\ code[pc].op = "endblock" BY DEF EndBlock, Op
<1>2. code \in VMPrograms /\ pc \in DOMAIN code /\ pc \in Nat BY <1>1, Runs
<1>3. PICK i \in S : pc = B(i) - 1 \/ pc = Z(i) - 1 \/ (pc = T(i) - 1 /\ T(i) # i)
  BY <1>1, <1>2, InstructionIs
<1>4. /\ i \in Nat /\ T(i) \in Nat /\ B(i) \in Nat /\ Z(i) \in Nat /\ (T(i) = i \/ i + 1 < T(i))
      /\ T(i) + 1 < B(i) /\ B(i) + 1 < Z(i)
  BY <1>2, Layout
<1>5. Bare(i, pc) BY <1>2, <1>3, Bares
<1>6. In(i, pc) /\ (T(i) < pc \/ pc < T(i)) BY <1>3, <1>4 DEF In
<1>7. Firm(pc) BY <1>1, <1>2, FirmIs
<1>8. VMInv' /\ Lexical!EndBlock /\ UNCHANGED Text
  BY <1>1, <1>5, <1>6, <1>7, Ended, Resumed
<1> QED BY <1>1, <1>8, StepIs

LEMMA ReturnShown == ASSUME VMAssumption, VMInv, Return PROVE Shown
<1> DEFINE finals == {j \in DOMAIN tries : tries[j].kind \in {2, 3}}
           j == Max(finals)
           en == [tries[j] EXCEPT !.kind = 0]
<1>1. mode = "running" /\ code[pc].op = "return" BY DEF Return, Op
<1>2. /\ code \in VMPrograms /\ pc \in DOMAIN code /\ pc \in Nat /\ tries \in Seq(Entry)
      /\ Tracks(tries, pc) /\ frames \in Seq(Frame)
  BY <1>1, Runs
<1>3. Firm(pc) BY <1>1, <1>2, FirmIs
<1> DEFINE K == {2, 3}
           F == Lexical!Finals(pc)
<1>4. K \in SUBSET (1..3) /\ finals = Having(K, tries) BY DEF Having
<1>5. F = {R(m) : m \in Kinds(K, pc)} BY <1>2, <1>3, GuardsAre
<1> HIDE DEF K
<1>6. /\ finals = {} <=> Kinds(K, pc) = {}
      /\ finals # {} => /\ j \in finals
                        /\ \E i \in Kinds(K, pc) :
                             /\ tries[j] = EntryAt(code, i, pc) /\ tries[j].at = i + 1
                             /\ Lexical!Innermost({R(m) : m \in Kinds(K, pc)}) = R(i)
  BY <1>2, <1>4, Found
<1>7. CASE finals = {}
  <2>1. LeaveFunction(pc) BY <1>7 DEF Return
  <2>2. Lexical!Finals(pc) = {} BY <1>5, <1>6, <1>7
  <2>3. VMInv' /\ Lexical!Return(pc) /\ UNCHANGED Text BY <1>1, <1>2, <2>1, <2>2, Leaves
  <2> QED BY <1>1, <2>3, StepIs
<1>8. CASE finals # {}
  <2>1. /\ Running /\ res' = <<"return", pc>> /\ pc' = tries[j].at /\ frames' = frames
        /\ tries' = SubSeq(tries, 1, j - 1) \o <<en>>
    BY <1>8 DEF Return
  <2>2. PICK i \in Kinds(K, pc) : /\ tries[j] = EntryAt(code, i, pc) /\ tries[j].at = i + 1
                                  /\ Lexical!Innermost(F) = R(i)
    BY <1>5, <1>6, <1>8
  <2>3. j \in DOMAIN tries /\ j \in Nat /\ 1 <= j
    <3>1. j \in finals BY <1>6, <1>8
    <3>2. j \in DOMAIN tries BY <3>1
    <3> HIDE DEF j
    <3> QED BY <1>2, <3>2
  <2>4. F # {} BY <1>5, <2>2
  <2>5. i \in S /\ In(i, pc) /\ EntryAt(code, i, pc).kind \in {2, 3} BY <2>2 DEF Kinds, K
  <2> HIDE DEF j, F
  <2>6. /\ i \in Nat /\ T(i) \in Nat /\ B(i) \in Nat /\ Z(i) \in Nat /\ (T(i) = i \/ i + 1 < T(i))
        /\ T(i) + 1 < B(i) /\ B(i) < Z(i) /\ Z(i) <= Size
    BY <1>2, <2>5, Layout
  <2>7. pc # T(i) /\ pc # B(i) BY <1>3, <2>5 DEF Firm
  <2>8. T(i) # i BY <1>2, <2>5, <2>6, <2>7, EntryIs
  <2> DEFINE b == i + 1
  <2>9. pc' = b /\ b \in Nat /\ b \in DOMAIN code /\ Bare(i, b) /\ In(i, b) /\ b < T(i)
    <3>1. b \in Nat /\ b < T(i) /\ In(i, b) /\ b <= Size BY <1>2, <2>6, <2>8, Codes DEF In
    <3>2. Bare(i, b) BY <1>2, <2>5, Bares
    <3>3. b \in DOMAIN code BY <1>2, <2>6, <3>1, Codes
    <3> QED BY <2>1, <2>2, <3>1, <3>2, <3>3
  <2>10. en = EntryAt(code, i, b) /\ en \in Entry
    <3>1. EntryAt(code, i, pc) = [kind |-> EntryAt(code, i, pc).kind, end |-> Z(i), at |-> i + 1,
                                  catch |-> T(i) + 1]
      BY <1>2, <2>5, <2>7, <2>8, EntryIs
    <3>2. EntryAt(code, i, b) = [kind |-> 0, end |-> Z(i), at |-> i + 1, catch |-> T(i) + 1]
          /\ EntryAt(code, i, b) \in Entry
      BY <1>2, <2>5, <2>6, <2>8, <2>9, EntryIs
    <3> QED BY <2>2, <3>1, <3>2
  <2> HIDE DEF b, en
  <2>11. /\ tries' \in Seq(Entry) /\ DOMAIN tries' = 1..j
         /\ tries'[j] = en /\ \A l \in 1..(j - 1) : tries'[l] = tries[l]
    <3> DEFINE a == SubSeq(tries, 1, j - 1)
    <3>1. a \in Seq(Entry) /\ Len(a) = j - 1 /\ \A l \in 1..(j - 1) : a[l] = tries[l]
      BY <1>2, <2>3
    <3>2. tries' = a \o <<en>> BY <2>1
    <3> HIDE DEF a
    <3> QED BY <2>3, <2>10, <3>1, <3>2
  <2>12. Fits(tries', b)
    <3>1. tries[j].at = i + 1 /\ tries'[j] = EntryAt(code, i, b) BY <2>2, <2>10, <2>11
    <3> QED BY <1>2, <2>3, <2>5, <2>9, <2>11, <3>1, Cut
  <2>13. /\ code' = code /\ mode' = "running" /\ out' = out BY <1>1, <2>1 DEF Running
  <2>14. res' \in Completion BY <1>2, <2>1 DEF Completion
  <2>15. b \in R(i).finally BY <1>2, <2>5, <2>9, Blocked DEF In
  <2>16. VMInv' /\ Lexical!Keep /\ UNCHANGED Text
    BY <1>1, <1>2, <2>1, <2>5, <2>9, <2>11, <2>12, <2>13, <2>14, <2>15, Runs, Settles
  <2>17. \A m \in S : b \in R(m).finally => m = i BY <1>2, <2>5, <2>9, Alone
  <2> DEFINE p == [Pending EXCEPT ![R(i)] = <<"return", pc>>]
  <2>18. p[R(i)] = res' BY <2>1, <2>5, PendingIs
  <2> HIDE DEF p
  <2>19. Lexical!At(pc', p) BY <2>9, <2>13, <2>17, <2>18, AtIs
  <2>20. R(i).finallyAt = pc' BY <1>2, <2>5, <2>9, Blocked DEF b
  <2>21. Callers' = Callers BY <1>2, <2>1, <2>13, CallersMove
  <2>22. Lexical!Through(F, <<"return", pc>>)
    BY <2>2, <2>16, <2>19, <2>20, <2>21 DEF Lexical!Through, p
  <2>23. Lexical!Return(pc) BY <2>4, <2>22 DEF Lexical!Return, F
  <2> QED BY <1>1, <2>16, <2>23, StepIs
<1> QED BY <1>7, <1>8

LEMMA CallShown == ASSUME VMAssumption, VMInv, Call PROVE Shown
<1> DEFINE f == [pc |-> pc + 1, tries |-> tries]
           b == code[pc].to
<1>1. /\ mode = "running" /\ code[pc].op = "call" /\ Running
      /\ frames' = Append(frames, f) /\ pc' = b /\ tries' = <<>> /\ res' = res
  BY DEF Call, Op
<1>2. /\ code \in VMPrograms /\ pc \in DOMAIN code /\ pc \in Nat /\ tries \in Seq(Entry)
      /\ Fits(tries, pc) /\ frames \in Seq(Frame)
  BY <1>1, Runs
<1>3. /\ pc + 1 \in DOMAIN code /\ b \in DOMAIN code /\ b \in Nat /\ \A i \in S : ~In(i, b)
  BY <1>1, <1>2, InstructionIs, Codes
<1>4. \A i \in S : pc \notin R(i).finally BY <1>1, <1>2, Alone
<1>5. res = Normal BY <1>1, <1>4, Runs
<1>6. code' = code /\ mode' = "running" /\ out' = out BY <1>1 DEF Running
<1>7. Fits(tries', b) BY <1>1, <1>3 DEF Fits
<1>8. f \in Frame /\ Resumable(code, f)
  <2>1. \A i \in S : Same(i, pc, pc + 1) BY <1>1, <1>2, Onward
  <2>2. Fits(tries, pc + 1) BY <1>2, <2>1, Shift
  <2>3. StackFits(code, tries, pc + 1) BY <1>2, <2>2, FitsIs
  <2>4. (pc + 1) - 1 = pc BY <1>2
  <2> QED BY <1>1, <1>2, <1>3, <2>3, <2>4 DEF Resumable, Frame
<1> HIDE DEF f
<1>9. /\ frames' \in Seq(Frame)
      /\ Callers' = Append(Callers, [pc |-> f.pc, pend |-> IdlePend])
  BY <1>1, <1>2, <1>6, <1>8, CallersMove
<1>10. \A k \in DOMAIN frames' : Resumable(code, frames'[k])
  <2>1. /\ Len(frames) \in Nat /\ DOMAIN frames = 1..Len(frames)
        /\ DOMAIN frames' = 1..(Len(frames) + 1) /\ frames'[Len(frames) + 1] = f
        /\ \A k \in 1..Len(frames) : frames'[k] = frames[k]
    BY <1>1, <1>2, <1>8
  <2>2. \A k \in DOMAIN frames' : k \in 1..Len(frames) \/ k = Len(frames) + 1 BY <2>1
  <2>3. \A k \in 1..Len(frames) : Resumable(code, frames[k]) BY <1>1, <2>1, Runs
  <2> QED BY <1>8, <2>1, <2>2, <2>3
<1>11. tries' \in Seq(Entry) BY <1>1
<1>12. res' \in Completion /\ res' = Normal BY <1>1, <1>5 DEF Completion
<1>13. VMInv' /\ Lexical!Keep /\ UNCHANGED Text
  BY <1>1, <1>2, <1>3, <1>6, <1>7, <1>9, <1>10, <1>11, <1>12, Settles
<1>14. Pending = IdlePend BY <1>5, IdleIs
<1>15. Callers' = Append(Callers, [pc |-> pc + 1, pend |-> Pending]) BY <1>9, <1>14 DEF f
<1>16. Pending' = Lexical!Idle
  BY <1>6, <1>12 DEF Pending, Lexical!Idle, Lexical!Normal, Normal, Regions, Text
<1>17. Lexical!Instr = code[pc] BY DEF Lexical!Instr, Text
<1>18. Lexical!Step BY <1>1, <1>13, <1>15, <1>16, <1>17 DEF Lexical!Step
<1> QED BY <1>13, <1>18 DEF Shown, Lexical!Next

-----------------------------------------------------------------------------
(* The theorems.                                                           *)

LEMMA InitShown == ASSUME VMAssumption, Init PROVE VMInv /\ Lexical!Init
<1> USE DEF Init
<1>1. TypeOK BY DEF TypeOK
<1>2. Placed BY DEF Placed
<1>3. Pending = Lexical!Idle BY DEF Pending, Lexical!Idle, Lexical!Normal, Normal, Text
<1>4. frames \in Seq(Frame) OBVIOUS
<1>5. Callers = <<>> BY <1>4, CallersAre
<1> QED BY <1>1, <1>2, <1>3, <1>5 DEF VMInv, Lexical!Init, Lexical!Nothing

LEMMA NextShown == ASSUME VMAssumption, VMInv, [Next]_vars PROVE VMInv' /\ [Lexical!Next]_(Lexical!vars)
<1>1. CASE Next
  <2>1. Shown
    BY <1>1, LoadShown, PlainShown, BranchShown, TryShown, BoundShown, ThrowShown, EndBlockShown,
       ReturnShown, CallShown DEF Next
  <2> QED BY <2>1 DEF Shown
<1>2. CASE UNCHANGED vars
  <2>1. VMInv' BY <1>2 DEF vars, VMInv, TypeOK, Placed, Normal, Entry
  <2>2. UNCHANGED Lexical!vars
    BY <1>2 DEF vars, Lexical!vars, Text, Pending, Callers, IdlePend, Regions, Normal
  <2> QED BY <2>1, <2>2
<1> QED BY <1>1, <1>2

\* The stack of open try statements is that of the text: at every place it
\* holds the statements around it, the innermost last, in the state the place
\* says, and a saved one those around the call.
THEOREM VMInvariant == ASSUME VMAssumption PROVE Spec => []VMInv
<1>1. Init => VMInv BY InitShown
<1>2. VMInv /\ [Next]_vars => VMInv' BY NextShown
<1> QED BY <1>1, <1>2, PTL DEF Spec

\* The stack has entries, the frames return addresses of the program, and the
\* register completions.
THEOREM VMTypes == ASSUME VMAssumption PROVE Spec => []TypeOK
<1>1. VMInv => TypeOK BY DEF VMInv
<1> QED BY <1>1, VMInvariant, PTL

\* Every exception reaches the handler of the program text and every return
\* runs the finally blocks around it, through calls and unwinding.
THEOREM VMImplements == ASSUME VMAssumption PROVE Spec => HandlersAreLexical
<1>1. Init => Lexical!Init BY InitShown
<1>2. VMInv /\ [Next]_vars => [Lexical!Next]_(Lexical!vars) BY NextShown
<1> QED BY <1>1, <1>2, VMInvariant, PTL DEF Spec, HandlersAreLexical, Lexical!Spec
=============================================================================

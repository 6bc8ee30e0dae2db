------------------------- MODULE RegeneratorProofs -------------------------
(***************************************************************************)
(* The generator runtime implements structured control flow, for every set *)
(* of well-formed bodies: first what the layout of a body says, then what  *)
(* the runtime's searches find, then one lemma per kind of move.           *)
(***************************************************************************)
EXTENDS Regenerator, SequenceTheorems, WellFoundedInduction, TLAPS

E == DOMAIN gen.tries
T(i) == gen.tries[i]
R(i) == Region(gen.tries[i])
Size == Len(gen.code)

-----------------------------------------------------------------------------
(* The layout of a body.                                                   *)

\* The locations of an entry, in their order.
LEMMA Entries ==
  ASSUME GeneratorAssumption, gen \in Generators, NEW i \in E
  PROVE  /\ T(i).tryLoc \in Nat /\ T(i).catchLoc \in Nat /\ T(i).finallyLoc \in Nat
         /\ T(i).afterLoc \in Nat /\ Size \in Nat
         /\ BodyEnd(T(i)) \in Nat /\ CatchEnd(T(i)) \in Nat
         /\ 0 < T(i).tryLoc /\ T(i).tryLoc < BodyEnd(T(i)) /\ BodyEnd(T(i)) <= CatchEnd(T(i))
         /\ CatchEnd(T(i)) <= T(i).afterLoc /\ T(i).afterLoc <= Size
         /\ T(i).catchLoc # 0 => BodyEnd(T(i)) = T(i).catchLoc /\ T(i).catchLoc < CatchEnd(T(i))
         /\ T(i).catchLoc = 0 => BodyEnd(T(i)) = CatchEnd(T(i)) /\ T(i).finallyLoc # 0
         /\ T(i).finallyLoc # 0 => CatchEnd(T(i)) = T(i).finallyLoc /\ T(i).finallyLoc < T(i).afterLoc
         /\ T(i).finallyLoc = 0 => CatchEnd(T(i)) = T(i).afterLoc
<1>1. WellFormed(gen) BY DEF GeneratorAssumption
<1>2. /\ T(i) \in [tryLoc : Nat, catchLoc : Nat, finallyLoc : Nat, afterLoc : Nat]
      /\ Size \in Nat
  <2> DEFINE C == [op : Ops, to : Nat, try : Nat]
             F == [tryLoc : Nat, catchLoc : Nat, finallyLoc : Nat, afterLoc : Nat]
  <2>1. gen.code \in Seq(C) /\ gen.tries \in Seq(F) BY <1>1 DEF WellFormed
  <2> HIDE DEF C, F
  <2>2. Size \in Nat /\ T(i) \in F BY <2>1 DEF Size, T, E
  <2> QED BY <2>2 DEF F
<1>3. Statement(gen, i) BY <1>1 DEF WellFormed, E
<1> QED BY <1>2, <1>3 DEF Statement, BodyEnd, CatchEnd, T, Size

\* The blocks of an entry, as intervals.
LEMMA BlocksAre ==
  ASSUME GeneratorAssumption, gen \in Generators, NEW i \in E
  PROVE  /\ \A q \in Int : q \in R(i).body <=> T(i).tryLoc <= q /\ q < BodyEnd(T(i))
         /\ \A q \in Int : q \in R(i).catch <=> BodyEnd(T(i)) <= q /\ q < CatchEnd(T(i))
         /\ \A q \in Int : q \in R(i).finally <=>
              T(i).finallyLoc # 0 /\ T(i).finallyLoc <= q /\ q < T(i).afterLoc
         /\ R(i).body \cup R(i).catch = T(i).tryLoc..(CatchEnd(T(i)) - 1)
         /\ R(i).body \cup R(i).catch \cup R(i).finally = T(i).tryLoc..(T(i).afterLoc - 1)
         /\ R(i).body \subseteq Int /\ R(i).catch \subseteq Int /\ R(i).finally \subseteq Int
         /\ R(i).catch = {} <=> T(i).catchLoc = 0
         /\ R(i).finally = {} <=> T(i).finallyLoc = 0
         /\ R(i).catchAt = T(i).catchLoc /\ R(i).finallyAt = T(i).finallyLoc /\ R(i).end = T(i).afterLoc
<1>1. /\ R(i).body = T(i).tryLoc..(BodyEnd(T(i)) - 1)
      /\ R(i).catch = BodyEnd(T(i))..(CatchEnd(T(i)) - 1)
      /\ R(i).finally = IF T(i).finallyLoc # 0 THEN T(i).finallyLoc..(T(i).afterLoc - 1) ELSE {}
      /\ R(i).catchAt = T(i).catchLoc /\ R(i).finallyAt = T(i).finallyLoc /\ R(i).end = T(i).afterLoc
  BY DEF R, T, Region
<1>2. /\ \A q \in Int : q \in R(i).body <=> T(i).tryLoc <= q /\ q < BodyEnd(T(i))
      /\ \A q \in Int : q \in R(i).catch <=> BodyEnd(T(i)) <= q /\ q < CatchEnd(T(i))
      /\ \A q \in Int : q \in R(i).finally <=>
              T(i).finallyLoc # 0 /\ T(i).finallyLoc <= q /\ q < T(i).afterLoc
  BY <1>1, Entries
<1>3. R(i).body \subseteq Int /\ R(i).catch \subseteq Int /\ R(i).finally \subseteq Int
  BY <1>1, Entries
<1>4. R(i).body \cup R(i).catch = T(i).tryLoc..(CatchEnd(T(i)) - 1)
  BY <1>1, Entries
<1>5. R(i).body \cup R(i).catch \cup R(i).finally = T(i).tryLoc..(T(i).afterLoc - 1)
  <2>1. CASE T(i).finallyLoc = 0 BY <1>1, <1>4, <2>1, Entries
  <2>2. CASE T(i).finallyLoc # 0 BY <1>1, <1>4, <2>2, Entries
  <2> QED BY <2>1, <2>2
<1>6. R(i).catch = {} <=> T(i).catchLoc = 0 BY <1>1, Entries
<1>7. R(i).finally = {} <=> T(i).finallyLoc = 0
  <2>1. T(i).finallyLoc # 0 => T(i).finallyLoc \in R(i).finally BY <1>1, Entries
  <2> QED BY <1>1, <2>1
<1> QED BY <1>1, <1>2, <1>3, <1>4, <1>5, <1>6, <1>7

\* Of two entries, the later one is within a block of the other or behind it.
LEMMA Nesting ==
  ASSUME GeneratorAssumption, gen \in Generators, NEW i \in E, NEW j \in E, i < j
  PROVE  /\ T(i).tryLoc < T(j).tryLoc
         /\ T(j).tryLoc < BodyEnd(T(i)) => T(j).afterLoc < BodyEnd(T(i))
         /\ T(j).tryLoc < CatchEnd(T(i)) => T(j).afterLoc < CatchEnd(T(i))
         /\ T(j).tryLoc < T(i).afterLoc => T(j).afterLoc < T(i).afterLoc
<1>1. Statement(gen, i) BY DEF GeneratorAssumption, WellFormed, E
<1> QED BY <1>1 DEF Statement, Borders, E, T

\* Entries are numbered, and told apart by their regions.
LEMMA Numbered ==
  ASSUME GeneratorAssumption, gen \in Generators
  PROVE  /\ E \subseteq Nat /\ Size \in Nat /\ 0 < Size /\ End = Size + 1 /\ DOMAIN gen.code = 1..Size
         /\ E = 1..Len(gen.tries) /\ Len(gen.tries) \in Nat
         /\ \A i, j \in E : R(i) = R(j) => i = j
<1>1. WellFormed(gen) BY DEF GeneratorAssumption
<1>2. /\ E \subseteq Nat /\ Size \in Nat /\ 0 < Size /\ End = Size + 1 /\ DOMAIN gen.code = 1..Size
      /\ E = 1..Len(gen.tries) /\ Len(gen.tries) \in Nat
  <2> DEFINE C == [op : Ops, to : Nat, try : Nat]
             F == [tryLoc : Nat, catchLoc : Nat, finallyLoc : Nat, afterLoc : Nat]
  <2>1. gen.code \in Seq(C) /\ gen.code # <<>> /\ gen.tries \in Seq(F) BY <1>1 DEF WellFormed
  <2> HIDE DEF C, F
  <2>2. Size \in Nat /\ Size # 0 /\ DOMAIN gen.code = 1..Size BY <2>1, EmptySeq DEF Size
  <2>3. Len(gen.tries) \in Nat /\ E = 1..Len(gen.tries) BY <2>1 DEF E
  <2> QED BY <2>2, <2>3 DEF End, Size
<1>3. ASSUME NEW i \in E, NEW j \in E, i < j PROVE R(i) # R(j)
  <2>1. T(i).tryLoc \in R(i).body BY BlocksAre, Entries
  <2>2. T(i).tryLoc \notin R(j).body BY BlocksAre, Entries, Nesting, <1>3
  <2> QED BY <2>1, <2>2
<1>4. ASSUME NEW i \in E, NEW j \in E, R(i) = R(j) PROVE i = j
  <2>1. i < j \/ j < i \/ i = j BY <1>2
  <2> QED BY <1>3, <1>4, <2>1
<1> QED BY <1>2, <1>4

LEMMA EntryIs ==
  ASSUME GeneratorAssumption, gen \in Generators, NEW i \in E
  PROVE  EntryOf(R(i)) = i /\ R(i) \in Text.regions
<1>1. \A j \in E : R(j) = R(i) => j = i BY Numbered
<1> QED BY <1>1 DEF EntryOf, E, R, Text

\* Induction on numbers, from the fact that their order is well founded.
LEMMA Induction ==
  ASSUME NEW S, 0 \in S, \A n \in Nat : n \in S => n + 1 \in S
  PROVE  Nat \subseteq S
<1> DEFINE Less == OpToRel(<, Nat)
<1> SUFFICES ASSUME Nat \ S # {} PROVE FALSE OBVIOUS
<1>1. IsWellFoundedOn(Less, Nat) BY NatLessThanWellFounded, Zenon
<1>2. \A x, y \in Nat : x < y => <<x, y>> \in Less BY Zenon DEF OpToRel
<1> HIDE DEF Less
<1>3. PICK x \in Nat \ S : \A y \in Nat \ S : ~(<<y, x>> \in Less) BY <1>1, WFMin
<1>4. x # 0 /\ x - 1 \in Nat /\ x - 1 < x BY <1>3
<1>5. x - 1 \in S BY <1>2, <1>3, <1>4
<1>6. (x - 1) + 1 = x BY <1>3
<1> QED BY <1>3, <1>4, <1>5, <1>6

\* The greatest number of a set of entries.
LEMMA MaxIs ==
  ASSUME NEW n \in Nat, NEW S \in SUBSET (1..n), S # {}
  PROVE  Max(S) \in S /\ \A j \in S : j <= Max(S)
<1> DEFINE Bounds == {m \in Nat : \A j \in S : j <= m}
<1>1. n \in Bounds OBVIOUS
<1>2. \A m \in Bounds : m \notin S => m - 1 \in Bounds \/ m = 0
  <2> SUFFICES ASSUME NEW m \in Bounds, m \notin S, m # 0 PROVE m - 1 \in Bounds OBVIOUS
  <2>1. m \in Nat /\ m - 1 \in Nat OBVIOUS
  <2>2. \A j \in S : j \in Nat /\ j <= m /\ j # m OBVIOUS
  <2> QED BY <2>1, <2>2
<1>3. \E m \in S : \A j \in S : j <= m
  <2> SUFFICES ASSUME \A m \in S : \E j \in S : ~(j <= m) PROVE FALSE OBVIOUS
  <2> DEFINE P == {k \in Nat : k <= n => n - k \in Bounds}
  <2>1. 0 \in P BY <1>1
  <2>2. \A k \in Nat : k \in P => k + 1 \in P
    <3> SUFFICES ASSUME NEW k \in P, k + 1 <= n PROVE n - (k + 1) \in Bounds OBVIOUS
    <3>1. n - k \in Bounds /\ n - k # 0 OBVIOUS
    <3>2. n - k \notin S BY <3>1
    <3>3. (n - k) - 1 \in Bounds BY <1>2, <3>1, <3>2
    <3> QED BY <3>3
  <2> HIDE DEF P
  <2>3. n \in P BY <2>1, <2>2, Induction
  <2>4. 0 \in Bounds BY <2>3 DEF P
  <2>5. \A j \in S : j <= 0 /\ 1 <= j BY <2>4
  <2>6. PICK j \in S : TRUE OBVIOUS
  <2>7. j \in Nat /\ j <= 0 /\ 1 <= j BY <2>5, <2>6
  <2> QED BY <2>7
<1>4. \A a, b \in S : a <= b <=> b >= a OBVIOUS
<1> HIDE DEF Bounds
<1>5. PICK m \in S : \A j \in S : m >= j BY <1>3, <1>4
<1>6. Max(S) \in S /\ \A j \in S : Max(S) >= j BY <1>5 DEF Max
<1> QED BY <1>4, <1>6

\* Of regions around one place, the innermost is that of the last entry.
LEMMA InnermostIs ==
  ASSUME GeneratorAssumption, gen \in Generators, NEW S \in SUBSET E, NEW k \in S, NEW q \in Int,
         \A i \in S : i <= k /\ T(i).tryLoc <= q /\ q < T(i).afterLoc
  PROVE  Lexical!Innermost({R(i) : i \in S}) = R(k)
<1> DEFINE All(r) == r.body \cup r.catch \cup r.finally
           Good(r) == \A s \in {R(i) : i \in S} : All(r) \subseteq All(s)
<1>1. \A i \in S : All(R(i)) = T(i).tryLoc..(T(i).afterLoc - 1) BY BlocksAre
<1>2. \A i \in S : T(i).tryLoc \in Nat /\ T(i).afterLoc \in Nat BY Entries
<1>3. ASSUME NEW i \in S, i # k PROVE T(i).tryLoc < T(k).tryLoc /\ T(k).afterLoc < T(i).afterLoc
  <2>1. i < k BY <1>3, Numbered
  <2> QED BY <1>2, <2>1, Nesting
<1>4. \A i \in S : All(R(k)) \subseteq All(R(i)) BY <1>1, <1>2, <1>3
<1>5. \A i \in S : i # k => ~(All(R(i)) \subseteq All(R(k)))
  <2> SUFFICES ASSUME NEW i \in S, i # k PROVE ~(All(R(i)) \subseteq All(R(k))) OBVIOUS
  <2>1. T(i).tryLoc \in All(R(i)) BY <1>1, <1>2
  <2>2. T(i).tryLoc \notin All(R(k)) BY <1>1, <1>2, <1>3
  <2> QED BY <2>1, <2>2
<1> HIDE DEF All
<1>6. Good(R(k)) BY <1>4
<1>7. \A i \in S : Good(R(i)) => i = k BY <1>5
<1>8. Lexical!Innermost({R(i) : i \in S}) = CHOOSE r \in {R(i) : i \in S} : Good(r)
  BY DEF Lexical!Innermost, All
<1> HIDE DEF Good
<1> QED BY <1>6, <1>7, <1>8

-----------------------------------------------------------------------------
(* Where control can come from.                                            *)

\* The instruction of a place.
LEMMA InstructionIs ==
  ASSUME GeneratorAssumption, gen \in Generators, NEW q \in DOMAIN gen.code
  PROVE  /\ gen.code[q] \in [op : Ops, to : Nat, try : Nat] /\ Instruction(gen, q)
<1>1. WellFormed(gen) BY DEF GeneratorAssumption
<1> DEFINE C == [op : Ops, to : Nat, try : Nat]
           F == [tryLoc : Nat, catchLoc : Nat, finallyLoc : Nat, afterLoc : Nat]
<1>2. gen.code \in Seq(C) /\ gen.tries \in Seq(F) BY <1>1 DEF WellFormed
<1> HIDE DEF C, F
<1>3. gen.code[q] \in C BY <1>2
<1>4. Instruction(gen, q) BY <1>1 DEF WellFormed
<1> QED BY <1>3, <1>4 DEF C

\* A block ends with an endblock, and a catch block begins with a catch.
LEMMA Edges ==
  ASSUME GeneratorAssumption, gen \in Generators, NEW i \in E
  PROVE  /\ \A b \in Borders(T(i)) : gen.code[b - 1].op = "endblock"
         /\ T(i).catchLoc # 0 => gen.code[T(i).catchLoc].op = "catch"
         /\ T(i).finallyLoc # 0 => T(i).finallyLoc \in Borders(T(i)) /\ T(i).finallyLoc \in Finally(i)
         /\ T(i).catchLoc # 0 => T(i).catchLoc \in Borders(T(i))
<1>1. Statement(gen, i) BY DEF GeneratorAssumption, WellFormed, E
<1>2. T(i).finallyLoc # 0 => T(i).finallyLoc \in Borders(T(i)) BY Entries DEF Borders
<1>3. T(i).finallyLoc # 0 => T(i).finallyLoc \in Finally(i)
  BY Entries, BlocksAre DEF Finally, R, T
<1>4. T(i).catchLoc # 0 => T(i).catchLoc \in Borders(T(i)) BY Entries DEF Borders
<1> QED BY <1>1, <1>2, <1>3, <1>4 DEF Statement, T

\* Whoever goes to a border of a statement from within it is in the finally
\* blocks of the border already, but for that of the statement.
LEMMA Forward ==
  ASSUME GeneratorAssumption, gen \in Generators, NEW k \in E, NEW i \in E,
         NEW b \in Borders(T(k)), NEW q \in Int, T(k).tryLoc <= q, q <= b, b \in Finally(i),
         i # k \/ b = T(k).afterLoc
  PROVE  q \in Finally(i)
<1>1. /\ T(i).finallyLoc # 0 /\ T(i).finallyLoc <= b /\ b < T(i).afterLoc
      /\ T(i).finallyLoc = CatchEnd(T(i))
      /\ b \in Nat /\ BodyEnd(T(k)) <= CatchEnd(T(k)) /\ CatchEnd(T(k)) <= T(k).afterLoc
  BY BlocksAre, Entries DEF Finally, Borders, R, T
<1>2. i # k BY <1>1, Entries
<1>3. CASE i < k
  <2>1. ~(T(k).tryLoc < CatchEnd(T(i))) BY <1>1, <1>3, Nesting, Entries DEF Borders
  <2> QED BY <1>1, <2>1, BlocksAre, Entries DEF Finally, R, T
<1>4. CASE k < i
  <2>1. T(i).tryLoc < b BY <1>1, Entries
  <2>2. T(i).afterLoc < b BY <1>4, <2>1, Nesting DEF Borders
  <2> QED BY <1>1, <2>2, Entries
<1> QED BY <1>2, <1>3, <1>4, Numbered

\* The next place is in no other finally block, unless a block ends.
LEMMA Onward ==
  ASSUME GeneratorAssumption, gen \in Generators, NEW q \in DOMAIN gen.code,
         gen.code[q].op # "endblock", NEW i \in E
  PROVE  q + 1 \in Finally(i) <=> q \in Finally(i)
<1>1. q \in Nat BY Numbered
<1>2. T(i).finallyLoc \in Nat /\ T(i).afterLoc \in Nat BY Entries
<1>3. T(i).finallyLoc # 0 => q + 1 # T(i).finallyLoc
  BY <1>1, <1>2, Edges
<1>4. q + 1 # T(i).afterLoc BY <1>1, <1>2, Edges DEF Borders
<1>5. \A p \in Int : p \in Finally(i) <=>
         T(i).finallyLoc # 0 /\ T(i).finallyLoc <= p /\ p < T(i).afterLoc
  BY BlocksAre DEF Finally, R, T
<1> QED BY <1>1, <1>2, <1>3, <1>4, <1>5

\* A jump leads out of no finally block and into none.
LEMMA Landing ==
  ASSUME GeneratorAssumption, gen \in Generators, NEW q \in Jumps(gen), NEW i \in E
  PROVE  /\ q \in DOMAIN gen.code /\ gen.code[q].to \in DOMAIN gen.code
         /\ q \notin Finally(i) /\ gen.code[q].to \notin Finally(i)
         /\ T(i).finallyLoc # 0 /\ gen.code[q].to <= T(i).tryLoc => q < T(i).tryLoc
         /\ \A j \in E : Crosses(gen, q, i) /\ Crosses(gen, q, j) => i = j
         /\ \A B \in Blocks(T(i)) : gen.code[q].to \in B => q \in B \/ gen.code[q].to = T(i).tryLoc
<1>1. Followed(gen) BY DEF GeneratorAssumption, WellFormed
<1>2. q \in DOMAIN gen.code /\ gen.code[q].op = "jump" BY DEF Jumps
<1>3. /\ gen.code[q].to \in DOMAIN gen.code
      /\ \A B \in Blocks(T(i)) : gen.code[q].to \in B => q \in B \/ gen.code[q].to = T(i).tryLoc
  BY <1>2, InstructionIs DEF Instruction, E, T
<1>4. q \notin Finally(i) BY <1>1 DEF Followed, Finally, E
<1>5. gen.code[q].to \notin Finally(i)
  <2> SUFFICES ASSUME gen.code[q].to \in Finally(i) PROVE FALSE OBVIOUS
  <2>1. gen.code[q].to = T(i).tryLoc BY <1>3, <1>4 DEF Blocks, Finally, T
  <2> QED BY <2>1, BlocksAre, Entries DEF Finally, R, T
<1>6. T(i).finallyLoc # 0 /\ gen.code[q].to <= T(i).tryLoc => q < T(i).tryLoc
  BY <1>1 DEF Followed, E, T
<1>7. \A j \in E : Crosses(gen, q, i) /\ Crosses(gen, q, j) => i = j BY <1>1 DEF Followed, E
<1> QED BY <1>2, <1>3, <1>4, <1>5, <1>6, <1>7

\* Finally blocks are not within one another.
LEMMA OneFinally ==
  ASSUME GeneratorAssumption, gen \in Generators, NEW i \in E, NEW j \in E, NEW q \in Int,
         q \in Finally(i), q \in Finally(j)
  PROVE  i = j
<1>0. Followed(gen) BY DEF GeneratorAssumption, WellFormed
<1> SUFFICES ASSUME NEW a \in E, NEW b \in E, q \in Finally(a), q \in Finally(b), a < b PROVE FALSE
  BY Numbered
<1>1. /\ T(a).finallyLoc # 0 /\ T(a).finallyLoc <= q /\ q < T(a).afterLoc
      /\ T(b).finallyLoc # 0 /\ T(b).finallyLoc <= q /\ q < T(b).afterLoc
  BY BlocksAre DEF Finally, R, T
<1>2. T(b).tryLoc \notin Finally(a) BY <1>0, <1>1 DEF Followed, Finally, E, T
<1>3. ~(T(b).tryLoc < CatchEnd(T(a))) BY <1>1, Nesting, Entries
<1> QED BY <1>1, <1>2, <1>3, BlocksAre, Entries DEF Finally, R, T

-----------------------------------------------------------------------------
(* Moves.                                                                  *)

\* The values of a record, and the parts of a context.
LEMMA Parts ==
  ASSUME NEW c \in Contexts
  PROVE  /\ c.prev \in 1..End /\ c.next \in 1..End /\ c.method \in {"next", "throw", "return"}
         /\ c.arg \in Int /\ c.rval \in Int /\ c.delegate \in BOOLEAN
         /\ c.root \in Record /\ c.completion \in [E -> Record]
BY DEF Contexts, E

\* The body goes on at b.
Arrives(b) ==
  /\ gen' = gen /\ out' = out /\ state' = "executing" /\ context' \in Contexts
  /\ context'.prev = b /\ context'.next = b /\ context'.method \in {"next", "throw"}
  /\ context'.delegate = FALSE /\ context'.root = Normal

\* What that looks like from outside.
LEMMA Moved ==
  ASSUME GeneratorAssumption, gen \in Generators, NEW b \in DOMAIN gen.code, NEW p,
         Arrives(b),
         \A i \in E : b \in Finally(i) => context'.completion[i] = p[R(i)]
  PROVE  /\ TypeOK' /\ Placed'
         /\ Lexical!Keep /\ Lexical!At(b, p) /\ UNCHANGED Text
<1> USE DEF Arrives
<1>1. TypeOK'
  <2>1. (Contexts)' = Contexts BY DEF Contexts, End, Start
  <2> QED BY <2>1 DEF TypeOK
<1>2. Placed' BY Numbered DEF Placed, End, Size
<1>3. UNCHANGED Text BY DEF Text
<1>4. Lexical!Keep BY DEF Lexical!Keep, Mode
<1>5. Place' = b BY DEF Place, Live
<1>6. Pending' = [r \in Text.regions |-> IF b \in r.finally THEN p[r] ELSE Normal]
  <2>2. \A r \in Text.regions : \E i \in E : r = R(i) BY DEF Text, E, R
  <2>3. Text' = Text BY <1>3
  <2>4. \A r \in Text.regions : EntryOf(r)' = EntryOf(r) BY DEF EntryOf
  <2>5. Pending' = [r \in Text.regions |->
                      IF b \in r.finally THEN context'.completion[EntryOf(r)] ELSE Normal]
    BY <2>3, <2>4 DEF Pending, Live
  <2>6. ASSUME NEW i \in E, b \in R(i).finally PROVE context'.completion[EntryOf(R(i))] = p[R(i)]
    <3>1. EntryOf(R(i)) = i BY EntryIs
    <3> QED BY <2>6, <3>1 DEF Finally, R, T
  <2> QED BY <2>2, <2>5, <2>6
<1> QED BY <1>1, <1>2, <1>3, <1>4, <1>5, <1>6 DEF Lexical!At, Lexical!Normal, Normal

\* What is pending for an entry.
LEMMA PendingIs ==
  ASSUME GeneratorAssumption, gen \in Generators, NEW i \in E
  PROVE  /\ Pending[R(i)] = IF Live /\ context.prev \in Finally(i) THEN context.completion[i] ELSE Normal
         /\ DOMAIN Pending = Text.regions
<1>1. EntryOf(R(i)) = i /\ R(i) \in Text.regions BY EntryIs
<1> QED BY <1>1 DEF Pending, Finally, R, T

\* The records of a step: as they are, but for one whose finally block ends.
Kept(cp) == /\ cp \in [E -> Record]
            /\ \A i \in E : \/ cp[i] = context.completion[i]
                            \/ cp[i] = Normal /\ context.prev + 1 = T(i).afterLoc

\* A record for entry k.
For(k, rec) ==
  /\ rec \in Record
  /\ rec[1] = "jump" => \E q \in Jumps(gen) : gen.code[q].to = rec[2] /\ Crosses(gen, q, k)

\* A handler of entry k is entered with record rec.
LEMMA Enters ==
  ASSUME GeneratorAssumption, GeneratorInv, Live, gen.code[context.prev].op # "catch",
         NEW k \in E, NEW b, b # 0, T(k).tryLoc <= context.prev, context.prev < b,
         b = T(k).catchLoc \/ b = T(k).finallyLoc,
         NEW rec, For(k, rec), b = T(k).catchLoc => rec[1] = "throw",
         NEW cp, Kept(cp),
         Arrives(b),
         context'.method = "throw" => b = T(k).finallyLoc /\ rec[1] = "throw",
         context'.completion = [cp EXCEPT ![k] = rec]
  PROVE  /\ GeneratorInv' /\ Lexical!Keep /\ UNCHANGED Text
         /\ b = T(k).finallyLoc => Lexical!At(b, [Pending EXCEPT ![R(k)] = rec])
         /\ b = T(k).catchLoc => Lexical!At(b, Pending)
<1> DEFINE q == context.prev
           p == IF b = T(k).finallyLoc THEN [Pending EXCEPT ![R(k)] = rec] ELSE Pending
<1> USE DEF Kept, For
<1>1. gen \in Generators /\ context \in Contexts BY DEF GeneratorInv, TypeOK
<1>2. q \in Nat /\ b \in Nat /\ b \in DOMAIN gen.code /\ b \in Borders(T(k))
  <2>1. b \in Borders(T(k)) BY <1>1, Edges
  <2>2. b \in Nat /\ b <= Size BY <1>1, Entries
  <2>3. q \in Nat BY <1>1, Parts, Numbered
  <2> QED BY <1>1, <2>1, <2>2, <2>3, Numbered
<1>3. context'.completion \in [E -> Record] /\ context'.completion[k] = rec
      /\ \A i \in E : i # k => context'.completion[i] = cp[i]
  OBVIOUS
<1>4. \A i \in E : b \in Finally(i) /\ i # k => q \in Finally(i) /\ cp[i] = context.completion[i]
  <2> SUFFICES ASSUME NEW i \in E, b \in Finally(i), i # k
               PROVE  q \in Finally(i) /\ cp[i] = context.completion[i]
    OBVIOUS
  <2>1. q \in Finally(i) BY <1>1, <1>2, Forward
  <2>2. b < T(i).afterLoc BY <1>1, <1>2, BlocksAre DEF Finally, R, T
  <2>3. T(i).afterLoc \in Nat BY <1>1, Entries
  <2> QED BY <1>2, <2>1, <2>2, <2>3
<1>5. \A i \in E : b \in Finally(i) => context'.completion[i] = p[R(i)]
  <2> SUFFICES ASSUME NEW i \in E, b \in Finally(i) PROVE context'.completion[i] = p[R(i)] OBVIOUS
  <2>1. CASE i = k
    <3>1. b = T(k).finallyLoc BY <1>1, <1>2, <2>1, BlocksAre, Entries DEF Finally, R, T
    <3>2. R(k) \in DOMAIN Pending BY <1>1, PendingIs, EntryIs
    <3> QED BY <1>3, <2>1, <3>1, <3>2
  <2>2. CASE i # k
    <3>1. R(i) # R(k) BY <1>1, <2>2, Numbered
    <3>2. Pending[R(i)] = context.completion[i] BY <1>1, <1>4, <2>2, PendingIs
    <3>3. R(i) \in DOMAIN Pending /\ R(k) \in DOMAIN Pending BY <1>1, PendingIs, EntryIs
    <3>4. p[R(i)] = Pending[R(i)] BY <3>1, <3>3
    <3> QED BY <1>3, <1>4, <2>2, <3>2, <3>4
  <2> QED BY <2>1, <2>2
<1> HIDE DEF q
<1>6. /\ TypeOK' /\ Placed' /\ Lexical!Keep /\ Lexical!At(b, p) /\ UNCHANGED Text
  <2> HIDE DEF p
  <2> QED BY <1>1, <1>2, <1>5, Moved
<1>7. ThrowsOn'
  BY <1>1, <1>3, Edges DEF ThrowsOn, E, Finally, T, Arrives
<1>8. Settled'
  <2> SUFFICES ASSUME NEW i \in E, context'.completion[i] # Normal
               PROVE  b = T(i).catchLoc \/ (T(i).finallyLoc # 0 /\ T(i).finallyLoc <= b)
    BY DEF Settled, E, T, Arrives
  <2>1. CASE i = k BY <1>2, <2>1
  <2>2. CASE i # k
    <3>1. context.completion[i] # Normal BY <1>3, <2>2
    <3>2. q = T(i).catchLoc \/ (T(i).finallyLoc # 0 /\ T(i).finallyLoc <= q)
      BY <3>1 DEF GeneratorInv, Settled, E, T, q
    <3>3. T(i).catchLoc # 0 => gen.code[T(i).catchLoc].op = "catch" BY <1>1, Edges
    <3>4. T(i).finallyLoc \in Nat BY <1>1, Entries
    <3>5. q # 0 BY <1>1, Parts, Numbered DEF q
    <3> QED BY <1>2, <3>2, <3>3, <3>4, <3>5 DEF q
  <2> QED BY <2>1, <2>2
<1>9. JumpsPending'
  <2> SUFFICES ASSUME NEW i \in E, context'.completion[i][1] = "jump"
               PROVE  \E j \in Jumps(gen) : /\ gen.code[j].to = context'.completion[i][2]
                                             /\ Crosses(gen, j, i)
    BY DEF JumpsPending, E, Arrives
  <2>1. CASE i = k BY <1>3, <2>1
  <2>2. CASE i # k
    <3>1. context'.completion[i] = context.completion[i] BY <1>3, <2>2 DEF Normal
    <3> QED BY <3>1 DEF GeneratorInv, JumpsPending, E
  <2> QED BY <2>1, <2>2
<1> QED BY <1>2, <1>6, <1>7, <1>8, <1>9, <1>1, Entries DEF GeneratorInv

\* Control goes on elsewhere than at a handler.
LEMMA Goes ==
  ASSUME GeneratorAssumption, GeneratorInv, NEW b \in DOMAIN gen.code, NEW cp \in [E -> Record],
         \A i \in E : cp[i] = context.completion[i] \/ cp[i] = Normal,
         Live \/ \A i \in E : cp[i] = Normal,
         \A i \in E : b \in Finally(i) => cp[i] = Pending[R(i)],
         \A i \in E : cp[i] # Normal => \/ b = T(i).catchLoc
                                        \/ T(i).finallyLoc # 0 /\ T(i).finallyLoc <= b,
         Arrives(b), context'.completion = cp,
         context'.method = "throw" => \E i \in E : b \in Finally(i) /\ cp[i][1] = "throw"
  PROVE  GeneratorInv' /\ Lexical!Go(b) /\ UNCHANGED Text
<1>1. gen \in Generators BY DEF GeneratorInv, TypeOK
<1>2. TypeOK' /\ Placed' /\ Lexical!Keep /\ Lexical!At(b, Pending) /\ UNCHANGED Text
  <2> DEFINE p == Pending
  <2>1. \A i \in E : b \in Finally(i) => context'.completion[i] = p[R(i)] OBVIOUS
  <2> HIDE DEF p
  <2>2. TypeOK' /\ Placed' /\ Lexical!Keep /\ Lexical!At(b, p) /\ UNCHANGED Text
    BY <1>1, <2>1, Moved
  <2>3. p = Pending BY DEF p
  <2> QED BY <2>2, <2>3
<1>3. ThrowsOn' BY DEF ThrowsOn, E, Finally, Arrives
<1>4. Settled' BY DEF Settled, E, T, Arrives
<1>5. JumpsPending'
  <2> SUFFICES ASSUME NEW i \in E, cp[i][1] = "jump"
               PROVE  \E j \in Jumps(gen) : gen.code[j].to = cp[i][2] /\ Crosses(gen, j, i)
    BY DEF JumpsPending, E, Arrives
  <2>1. cp[i] = context.completion[i] /\ Live BY DEF Normal
  <2> QED BY <2>1 DEF GeneratorInv, JumpsPending, E
<1> QED BY <1>2, <1>3, <1>4, <1>5 DEF GeneratorInv, Lexical!Go

\* The body is ended with answer o.
LEMMA Stops ==
  ASSUME GeneratorInv, NEW o, gen' = gen, context' \in Contexts, state' = "completed", out' = o
  PROVE  GeneratorInv' /\ Lexical!Stop(o) /\ UNCHANGED Text
<1>1. (Contexts)' = Contexts BY DEF Contexts, End, Start
<1>2. GeneratorInv' BY <1>1 DEF GeneratorInv, TypeOK, Placed, ThrowsOn, Settled, JumpsPending, Live
<1>3. UNCHANGED Text BY DEF Text
<1>4. Place' = 0 /\ Mode' = "done" BY DEF Place, Mode, Live
<1>5. Pending' = [r \in Text.regions |-> Normal] BY <1>3 DEF Pending, Live
<1> QED BY <1>2, <1>3, <1>4, <1>5 DEF Lexical!Stop, Lexical!Idle, Lexical!Normal, Normal

\* The body is suspended where it is.
LEMMA Suspends ==
  ASSUME GeneratorInv, Live, gen' = gen, context' \in Contexts, state' = "suspendedYield",
         context'.prev = context.prev, context'.completion = context.completion,
         context'.root = Normal, context.prev # End, out' = <<"yielded", context.prev>>,
         Instr.op = IF context'.delegate THEN "delegate" ELSE "yield",
         ~context'.delegate => context'.next = context.prev + 1
  PROVE  GeneratorInv' /\ Lexical!Suspend /\ UNCHANGED Text
<1>1. (Contexts)' = Contexts BY DEF Contexts, End, Start
<1>2. TypeOK' BY <1>1 DEF TypeOK, GeneratorInv
<1>3. Placed' BY DEF Placed, Instr, End
<1>4. ThrowsOn' /\ Settled' /\ JumpsPending' /\ Live'
  BY DEF GeneratorInv, ThrowsOn, Settled, JumpsPending, Live
<1>5. UNCHANGED Text BY DEF Text
<1>6. UNCHANGED Place /\ Mode' = "suspended" BY <1>4 DEF Place, Mode
<1>7. UNCHANGED Pending
  <2>1. \A r \in Text.regions : EntryOf(r)' = EntryOf(r) BY DEF EntryOf
  <2>2. Pending' = [r \in Text.regions |-> IF Live' /\ context.prev \in r.finally
                                           THEN context.completion[EntryOf(r)] ELSE Normal]
    BY <1>5, <2>1 DEF Pending
  <2> QED BY <1>4, <2>2 DEF Pending
<1>8. Place = context.prev BY DEF Place
<1> QED BY <1>2, <1>3, <1>4, <1>5, <1>6, <1>7, <1>8 DEF GeneratorInv, Lexical!Suspend

-----------------------------------------------------------------------------
(* What the searches of the runtime find, and what the text says.          *)

Catches(i, q) == T(i).tryLoc <= q /\ T(i).catchLoc # 0 /\ q < T(i).catchLoc
Runs(i, q)    == T(i).tryLoc <= q /\ T(i).finallyLoc # 0 /\ q < T(i).finallyLoc
Hit(q)   == {i \in E : Catches(i, q) \/ Runs(i, q)}
Outer(q) == {i \in E : Runs(i, q)}

\* The last of the entries around a place is the innermost region.
LEMMA LastIs ==
  ASSUME GeneratorAssumption, gen \in Generators, NEW q \in Int, NEW S \in SUBSET E, S # {},
         \A i \in S : T(i).tryLoc <= q /\ q < T(i).afterLoc
  PROVE  /\ Max(S) \in S /\ \A i \in S : i <= Max(S)
         /\ Lexical!Innermost({R(i) : i \in S}) = R(Max(S))
<1>1. Len(gen.tries) \in Nat /\ S \in SUBSET (1..Len(gen.tries)) BY Numbered
<1>2. Max(S) \in S /\ \A i \in S : i <= Max(S) BY <1>1, MaxIs
<1> DEFINE k == Max(S)
<1>3. k \in S /\ \A i \in S : i <= k /\ T(i).tryLoc <= q /\ q < T(i).afterLoc BY <1>2
<1> HIDE DEF k
<1>4. Lexical!Innermost({R(i) : i \in S}) = R(k) BY <1>3, InnermostIs
<1> QED BY <1>2, <1>4 DEF k

LEMMA SearchesAre ==
  ASSUME GeneratorAssumption, gen \in Generators, NEW q \in Int
  PROVE  /\ Lexical!Guards(q) = {R(i) : i \in Hit(q)}
         /\ Lexical!Finals(q) = {R(i) : i \in Outer(q)}
         /\ \A i \in E : Catches(i, q) \/ Runs(i, q) => T(i).tryLoc <= q /\ q < T(i).afterLoc
         /\ \A i \in E : Catches(i, q) <=> q \in R(i).body /\ R(i).catch # {}
<1>1. \A i \in E : Catches(i, q) \/ Runs(i, q) <=>
                     q \in R(i).body \/ (q \in R(i).catch /\ R(i).finally # {})
  BY BlocksAre, Entries DEF Catches, Runs
<1>2. \A i \in E : Runs(i, q) <=> R(i).finally # {} /\ q \in R(i).body \cup R(i).catch
  BY BlocksAre, Entries DEF Runs
<1>3. \A i \in E : Catches(i, q) \/ Runs(i, q) => T(i).tryLoc <= q /\ q < T(i).afterLoc
  BY Entries DEF Catches, Runs
<1>4. \A i \in E : Catches(i, q) <=> q \in R(i).body /\ R(i).catch # {}
  BY BlocksAre, Entries DEF Catches
<1>5. Text.regions = {R(i) : i \in E} BY DEF Text, E, R, T
<1>6. Lexical!Guards(q) = {R(i) : i \in Hit(q)} BY <1>1, <1>5 DEF Lexical!Guards, Hit
<1>7. Lexical!Finals(q) = {R(i) : i \in Outer(q)} BY <1>2, <1>5 DEF Lexical!Finals, Outer
<1> QED BY <1>3, <1>4, <1>6, <1>7

\* An exception, where nobody has been called.
LEMMA RaiseIs ==
  ASSUME GeneratorAssumption, gen \in Generators, Live, NEW q \in Int, context.prev = q, NEW v,
         \/ Hit(q) = {} /\ Lexical!Stop(<<"threw", v>>)
         \/ /\ Hit(q) # {} /\ Lexical!Keep
            /\ IF Catches(Max(Hit(q)), q)
               THEN Lexical!At(T(Max(Hit(q))).catchLoc, Pending)
               ELSE Lexical!At(T(Max(Hit(q))).finallyLoc,
                               [Pending EXCEPT ![R(Max(Hit(q)))] = <<"throw", v>>])
  PROVE  Lexical!Raise(v)
<1> DEFINE f == [pc |-> Place, pend |-> Pending]
           frames == Append(<<>>, f)
           guarded == {k \in DOMAIN frames : Lexical!Guards(frames[k].pc) # {}}
<1>1. frames = <<f>> /\ DOMAIN frames = {1} /\ frames[1] = f OBVIOUS
<1>2. f.pc = q /\ f.pend = Pending BY DEF Place
<1> HIDE DEF f
<1>3. guarded = IF Lexical!Guards(q) = {} THEN {} ELSE {1} BY <1>1, <1>2
<1>4. Lexical!Max({1}) = 1 BY DEF Lexical!Max
<1>5. SubSeq(<<>>, 1, 0) = <<>> OBVIOUS
<1> HIDE DEF frames, guarded
<1>6. CASE Hit(q) = {}
  <2>1. guarded = {} BY <1>3, <1>6, SearchesAre
  <2> QED BY <1>6, <2>1 DEF Lexical!Raise, guarded, frames, f
<1>7. CASE Hit(q) # {}
  <2> DEFINE k == Max(Hit(q))
  <2>1. Hit(q) \in SUBSET E /\ \A i \in Hit(q) : T(i).tryLoc <= q /\ q < T(i).afterLoc
    BY SearchesAre DEF Hit
  <2>2. k \in Hit(q) /\ Lexical!Innermost(Lexical!Guards(q)) = R(k)
    BY <1>7, <2>1, LastIs, SearchesAre
  <2>3. guarded = {1} /\ Lexical!Max(guarded) = 1 BY <1>3, <1>4, <1>7, SearchesAre
  <2>4. k \in E BY <2>1, <2>2
  <2>5. Catches(k, q) <=> q \in R(k).body /\ R(k).catch # {} BY <2>4, SearchesAre
  <2>6. R(k).catchAt = T(k).catchLoc /\ R(k).finallyAt = T(k).finallyLoc BY <2>4, BlocksAre
  <2>7. /\ Lexical!Keep
        /\ IF q \in R(k).body /\ R(k).catch # {}
           THEN Lexical!At(R(k).catchAt, Pending)
           ELSE Lexical!At(R(k).finallyAt, [Pending EXCEPT ![R(k)] = <<"throw", v>>])
    BY <1>7, <2>5, <2>6
  <2> HIDE DEF k
  <2> DEFINE g == frames[Lexical!Max(guarded)]
             r == Lexical!Innermost(Lexical!Guards(g.pc))
  <2>8. Lexical!Raise(v) <=>
          IF guarded = {} THEN Lexical!Stop(<<"threw", v>>)
          ELSE /\ Lexical!Keep
               /\ <<>>' = SubSeq(<<>>, 1, Lexical!Max(guarded) - 1)
               /\ IF g.pc \in r.body /\ r.catch # {}
                  THEN Lexical!At(r.catchAt, g.pend)
                  ELSE Lexical!At(r.finallyAt, [g.pend EXCEPT ![r] = <<"throw", v>>])
    BY DEF Lexical!Raise, guarded, frames, f
  <2>9. g = f /\ r = R(k) BY <1>1, <1>2, <2>2, <2>3
  <2> HIDE DEF g, r
  <2> QED BY <1>2, <1>5, <2>3, <2>7, <2>8, <2>9
<1> QED BY <1>6, <1>7

\* A return, and a jump.
LEMMA ReturnIs ==
  ASSUME GeneratorAssumption, gen \in Generators, Live, NEW q \in Int, context.prev = q, NEW v,
         \/ Outer(q) = {} /\ Lexical!Stop(<<"returned", v>>)
         \/ /\ Outer(q) # {} /\ Lexical!Keep
            /\ Lexical!At(T(Max(Outer(q))).finallyLoc,
                          [Pending EXCEPT ![R(Max(Outer(q)))] = <<"return", v>>])
  PROVE  Lexical!Return(v)
<1>1. Place = q BY DEF Place
<1>2. CASE Outer(q) = {}
  <2>1. Lexical!Finals(q) = {} BY <1>2, SearchesAre
  <2> QED BY <1>1, <1>2, <2>1 DEF Lexical!Return
<1>3. CASE Outer(q) # {}
  <2> DEFINE k == Max(Outer(q))
  <2>1. Outer(q) \in SUBSET E /\ \A i \in Outer(q) : T(i).tryLoc <= q /\ q < T(i).afterLoc
    BY SearchesAre DEF Outer
  <2>2. k \in Outer(q) /\ Lexical!Innermost(Lexical!Finals(q)) = R(k) /\ Lexical!Finals(q) # {}
    BY <1>3, <2>1, LastIs, SearchesAre
  <2>3. R(k).finallyAt = T(k).finallyLoc BY <2>1, <2>2, BlocksAre
  <2> QED BY <1>1, <1>3, <2>2, <2>3 DEF Lexical!Return, Lexical!Through
<1> QED BY <1>2, <1>3

Crossed(q, v) == {i \in Outer(q) : v \notin Guarded(i)}
LEMMA JumpIs ==
  ASSUME GeneratorAssumption, gen \in Generators, Live, NEW q \in Int, context.prev = q, NEW v,
         \/ Crossed(q, v) = {} /\ Lexical!Go(v)
         \/ /\ Crossed(q, v) # {} /\ Lexical!Keep
            /\ Lexical!At(T(Max(Crossed(q, v))).finallyLoc,
                          [Pending EXCEPT ![R(Max(Crossed(q, v)))] = <<"jump", v>>])
  PROVE  Lexical!Jump(v)
<1> DEFINE crossed == {r \in Lexical!Finals(Place) : v \notin r.body \cup r.catch}
<1>1. Place = q BY DEF Place
<1>2. crossed = {R(i) : i \in Crossed(q, v)}
  BY <1>1, SearchesAre DEF Crossed, Guarded, R, T
<1>3. Lexical!Jump(v) <=> IF crossed # {} THEN Lexical!Through(crossed, <<"jump", v>>)
                          ELSE Lexical!Go(v)
  BY DEF Lexical!Jump, Lexical!Go
<1> HIDE DEF crossed
<1>4. CASE Crossed(q, v) = {} BY <1>2, <1>3, <1>4
<1>5. CASE Crossed(q, v) # {}
  <2> DEFINE k == Max(Crossed(q, v))
  <2>1. Crossed(q, v) \in SUBSET E /\ \A i \in Crossed(q, v) : T(i).tryLoc <= q /\ q < T(i).afterLoc
    BY SearchesAre DEF Crossed, Outer
  <2>2. k \in Crossed(q, v) /\ Lexical!Innermost(crossed) = R(k) /\ crossed # {}
    BY <1>2, <1>5, <2>1, LastIs
  <2>3. R(k).finallyAt = T(k).finallyLoc BY <2>1, <2>2, BlocksAre
  <2> QED BY <1>3, <1>5, <2>2, <2>3 DEF Lexical!Through
<1> QED BY <1>4, <1>5

-----------------------------------------------------------------------------
(* What the runtime's functions do to a context.                           *)

Set(c, i, r) == [c.completion EXCEPT ![i] = r]

Dispatched(c, e, d) ==
  LET k == Max(Hit(c.prev))
  IN  /\ d \in Contexts /\ d.prev = c.prev /\ d.delegate = c.delegate
      /\ Hit(c.prev) = {} => d.next = End /\ d.root = <<"throw", e>>
      /\ Hit(c.prev) # {} => /\ k \in Hit(c.prev) /\ d.root = c.root
                             /\ d.completion = Set(c, k, <<"throw", e>>)
                             /\ IF Catches(k, c.prev)
                                THEN d.next = T(k).catchLoc /\ d.method = "next"
                                ELSE d.next = T(k).finallyLoc /\ d.method = c.method
LEMMA DispatchIs ==
  ASSUME GeneratorAssumption, gen \in Generators, NEW c \in Contexts, c.prev \in DOMAIN gen.code,
         NEW e \in Int
  PROVE  Dispatched(c, e, DispatchException(c, e))
<1> DEFINE q == c.prev
           k == Max(Hit(q))
           d == DispatchException(c, e)
           C1 == [c EXCEPT !.root = <<"throw", e>>, !.next = End]
           C2 == [c EXCEPT !.completion[k] = <<"throw", e>>, !.next = T(k).catchLoc,
                           !.method = "next", !.arg = None]
           C3 == [c EXCEPT !.completion[k] = <<"throw", e>>, !.next = T(k).finallyLoc]
<1>1. d = IF Hit(q) = {} THEN C1 ELSE IF Catches(k, q) THEN C2 ELSE C3
  BY DEF DispatchException, Hit, Catches, Runs, E, T
<1> SUFFICES Dispatched(c, e, d) OBVIOUS
<1> HIDE DEF d
<1>2. q \in Int /\ <<"throw", e>> \in Record /\ End \in 1..End /\ None \in Int
  BY Numbered DEF Record, None
<1>3. c \in [prev : 1..End, next : 1..End, method : {"next", "throw", "return"},
            arg : Int, rval : Int, delegate : BOOLEAN,
            root : Record, completion : [DOMAIN gen.tries -> Record]]
  BY DEF Contexts
<1>4. CASE Hit(q) = {}
  <2>1. d = C1 BY <1>1, <1>4
  <2>2. d \in Contexts BY <1>2, <2>1 DEF Contexts
  <2> QED BY <1>3, <1>4, <2>1, <2>2 DEF Dispatched
<1>5. CASE Hit(q) # {}
  <2>1. Hit(q) \in SUBSET E /\ \A i \in Hit(q) : T(i).tryLoc <= q /\ q < T(i).afterLoc
    BY <1>2, SearchesAre DEF Hit
  <2>2. k \in Hit(q) /\ k \in E BY <1>2, <1>5, <2>1, LastIs
  <2>3. Catches(k, q) \/ Runs(k, q) BY <2>2 DEF Hit
  <2>4. /\ T(k).catchLoc # 0 => T(k).catchLoc \in 1..End
        /\ T(k).finallyLoc # 0 => T(k).finallyLoc \in 1..End
    BY <2>2, Entries, Numbered
  <2> DEFINE cp == [c.completion EXCEPT ![k] = <<"throw", e>>]
  <2>5. cp \in [DOMAIN gen.tries -> Record] BY <1>3, <1>2, <2>2 DEF E
  <2>6. CASE Catches(k, q)
    <3>1. d = C2 BY <1>1, <1>5, <2>6
    <3>2. T(k).catchLoc \in 1..End BY <2>4, <2>6 DEF Catches
    <3>3. d = [c EXCEPT !.completion = cp, !.next = T(k).catchLoc, !.method = "next", !.arg = None]
      BY <3>1
    <3>4. d \in Contexts
      <4> HIDE DEF cp
      <4> QED BY <1>3, <1>2, <2>5, <3>2, <3>3 DEF Contexts
    <3>5. /\ d.prev = q /\ d.delegate = c.delegate /\ d.root = c.root /\ d.next = T(k).catchLoc
          /\ d.method = "next" /\ d.completion = Set(c, k, <<"throw", e>>)
      BY <1>3, <3>1 DEF Set
    <3> QED BY <1>5, <2>2, <2>6, <3>4, <3>5 DEF Dispatched
  <2>7. CASE ~Catches(k, q)
    <3>1. d = C3 BY <1>1, <1>5, <2>7
    <3>2. T(k).finallyLoc \in 1..End BY <2>3, <2>4, <2>7 DEF Runs
    <3>3. d = [c EXCEPT !.completion = cp, !.next = T(k).finallyLoc] BY <3>1
    <3>4. d \in Contexts
      <4> HIDE DEF cp
      <4> QED BY <1>3, <1>2, <2>5, <3>2, <3>3 DEF Contexts
    <3>5. /\ d.prev = q /\ d.delegate = c.delegate /\ d.root = c.root /\ d.next = T(k).finallyLoc
          /\ d.method = c.method /\ d.completion = Set(c, k, <<"throw", e>>)
      BY <1>3, <3>1 DEF Set
    <3> QED BY <1>5, <2>2, <2>7, <3>4, <3>5 DEF Dispatched
  <2> QED BY <2>6, <2>7
<1> QED BY <1>4, <1>5

Abrupted(c, type, v, d) ==
  LET k == Max(Outer(c.prev))
  IN  /\ d \in Contexts /\ d.prev = c.prev /\ d.delegate = c.delegate /\ d.root = c.root
      /\ IF Outer(c.prev) = {} \/ (type = "jump" /\ T(k).tryLoc <= v /\ v <= T(k).finallyLoc)
         THEN /\ d.completion = c.completion
              /\ IF type = "jump" THEN d.next = v /\ d.method = c.method
                 ELSE d.next = End /\ d.method = "return" /\ d.arg = v /\ d.rval = v
         ELSE /\ k \in Outer(c.prev) /\ d.completion = Set(c, k, <<type, v>>)
              /\ d.next = T(k).finallyLoc /\ d.method = "next"
LEMMA AbruptIs ==
  ASSUME GeneratorAssumption, gen \in Generators, NEW c \in Contexts, c.prev \in DOMAIN gen.code,
         NEW type \in {"return", "jump"}, NEW v \in Int, type = "jump" => v \in 1..End
  PROVE  Abrupted(c, type, v, Abrupt(c, type, v))
<1> DEFINE q == c.prev
           k == Max(Outer(q))
           d == Abrupt(c, type, v)
           stays == Outer(q) = {} \/ (type = "jump" /\ T(k).tryLoc <= v /\ v <= T(k).finallyLoc)
           C1 == [c EXCEPT !.next = v]
           C2 == [c EXCEPT !.rval = v, !.arg = v, !.method = "return", !.next = End]
           C3 == [c EXCEPT !.completion[k] = <<type, v>>, !.method = "next",
                           !.next = T(k).finallyLoc]
<1>0. c \in [prev : 1..End, next : 1..End, method : {"next", "throw", "return"},
            arg : Int, rval : Int, delegate : BOOLEAN,
            root : Record, completion : [DOMAIN gen.tries -> Record]]
  BY DEF Contexts
<1>1. d = IF stays THEN Complete(c, <<type, v>>, 0) ELSE C3
  BY DEF Abrupt, Outer, Runs, E, T
<1> SUFFICES Abrupted(c, type, v, d) OBVIOUS
<1> HIDE DEF d
<1>2. Complete(c, <<type, v>>, 0) = IF type = "jump" THEN C1 ELSE C2 BY DEF Complete
<1>3. q \in Int /\ <<type, v>> \in Record /\ End \in 1..End BY Numbered DEF Record
<1>4. CASE stays
  <2>1. CASE type = "jump"
    <3>1. d = C1 BY <1>1, <1>2, <1>4, <2>1
    <3>2. d \in Contexts BY <1>0, <2>1, <3>1 DEF Contexts
    <3> QED BY <1>0, <1>4, <2>1, <3>1, <3>2 DEF Abrupted
  <2>2. CASE type = "return"
    <3>1. d = C2 BY <1>1, <1>2, <1>4, <2>2
    <3>2. d \in Contexts BY <1>0, <1>3, <3>1 DEF Contexts
    <3> QED BY <1>0, <1>4, <2>2, <3>1, <3>2 DEF Abrupted
  <2> QED BY <2>1, <2>2
<1>5. CASE ~stays
  <2>1. Outer(q) \in SUBSET E /\ \A i \in Outer(q) : T(i).tryLoc <= q /\ q < T(i).afterLoc
    BY <1>3, SearchesAre DEF Outer
  <2>2. k \in Outer(q) /\ k \in E BY <1>3, <1>5, <2>1, LastIs
  <2>3. T(k).finallyLoc \in 1..End BY <2>2, Entries, Numbered DEF Outer, Runs
  <2> DEFINE cp == [c.completion EXCEPT ![k] = <<type, v>>]
  <2>4. cp \in [DOMAIN gen.tries -> Record] BY <1>0, <1>3, <2>2 DEF E
  <2>5. d = [c EXCEPT !.completion = cp, !.method = "next", !.next = T(k).finallyLoc]
    BY <1>1, <1>5
  <2>6. cp = Set(c, k, <<type, v>>) BY DEF Set
  <2> HIDE DEF cp
  <2>7. d \in Contexts BY <1>0, <1>3, <2>3, <2>4, <2>5 DEF Contexts
  <2>8. /\ d.prev = q /\ d.delegate = c.delegate /\ d.root = c.root /\ d.method = "next"
        /\ d.completion = cp /\ d.next = T(k).finallyLoc
    BY <1>0, <2>5
  <2> QED BY <1>5, <2>2, <2>6, <2>7, <2>8 DEF Abrupted
<1> QED BY <1>4, <1>5

\* The loop runs the body at b.
LEMMA RunsTo ==
  ASSUME GeneratorAssumption, gen \in Generators, NEW d \in Contexts, NEW b \in DOMAIN gen.code,
         d.method \in {"next", "throw"}, d.delegate = FALSE, d.root = Normal, MoveTo(d, b)
  PROVE  Arrives(b) /\ context'.completion = d.completion /\ context'.method = d.method
<1>1. d \in [prev : 1..End, next : 1..End, method : {"next", "throw", "return"},
             arg : Int, rval : Int, delegate : BOOLEAN,
             root : Record, completion : [DOMAIN gen.tries -> Record]]
  BY DEF Contexts
<1>2. b \in 1..End BY Numbered
<1>3. context' = [d EXCEPT !.prev = b, !.next = b] BY DEF MoveTo
<1>4. context' \in Contexts BY <1>1, <1>2, <1>3 DEF Contexts
<1>5. /\ context'.prev = b /\ context'.next = b /\ context'.method = d.method
      /\ context'.delegate = FALSE /\ context'.root = Normal /\ context'.completion = d.completion
  BY <1>1, <1>3
<1> QED BY <1>4, <1>5 DEF Arrives, MoveTo

LEMMA EndIs ==
  ASSUME GeneratorAssumption, gen \in Generators, NEW d \in Contexts
  PROVE  [d EXCEPT !.prev = End] \in Contexts
<1>1. End \in 1..End BY Numbered
<1> QED BY <1>1 DEF Contexts

\* The loop, with an exception.
LEMMA ThrowStep ==
  ASSUME GeneratorAssumption, GeneratorInv, Live, context.prev # End,
         gen.code[context.prev].op # "catch",
         NEW c \in Contexts, c.prev = context.prev, c.completion = context.completion,
         c.root = Normal, c.delegate = FALSE, c.method = "throw", Loop(c)
  PROVE  GeneratorInv' /\ Lexical!Raise(c.arg) /\ UNCHANGED Text
<1> DEFINE q == context.prev
           e == c.arg
           d == DispatchException(c, e)
           k == Max(Hit(q))
<1>1. gen \in Generators /\ context \in Contexts BY DEF GeneratorInv, TypeOK
<1>2. q \in DOMAIN gen.code /\ q \in Int /\ e \in Int BY <1>1, Numbered, Parts
<1>3. IF d.next # End THEN MoveTo(d, d.next)
      ELSE /\ context' = [d EXCEPT !.prev = End]
           /\ Answer("completed", IF d.root[1] = "throw" THEN <<"threw", d.root[2]>>
                                  ELSE <<"returned", d.rval>>)
  BY DEF Loop
<1>4. /\ d \in Contexts /\ d.prev = q /\ d.delegate = FALSE
      /\ Hit(q) = {} => d.next = End /\ d.root = <<"throw", e>>
      /\ Hit(q) # {} => /\ k \in Hit(q) /\ d.root = Normal
                        /\ d.completion = Set(context, k, <<"throw", e>>)
                        /\ IF Catches(k, q) THEN d.next = T(k).catchLoc /\ d.method = "next"
                           ELSE d.next = T(k).finallyLoc /\ d.method = "throw"
  <2> HIDE DEF d
  <2>1. d = DispatchException(c, e) BY DEF d
  <2>2. c.prev = q /\ c.prev \in DOMAIN gen.code BY <1>2
  <2>3. Dispatched(c, e, d)
    <3> HIDE DEF e
    <3>1. e \in Int BY <1>2 DEF e
    <3> QED BY <1>1, <2>1, <2>2, <3>1, DispatchIs
  <2>4. Set(c, k, <<"throw", e>>) = Set(context, k, <<"throw", e>>) BY DEF Set
  <2> HIDE DEF q
  <2> QED BY <2>2, <2>3, <2>4 DEF Dispatched
<1> HIDE DEF d, e
<1>5. CASE Hit(q) = {}
  <2>1. context' = [d EXCEPT !.prev = End] /\ Answer("completed", <<"threw", e>>)
    BY <1>3, <1>4, <1>5
  <2>2. context' \in Contexts BY <1>1, <1>4, <2>1, EndIs
  <2>3. GeneratorInv' /\ Lexical!Stop(<<"threw", e>>) /\ UNCHANGED Text
    BY <2>1, <2>2, Stops DEF Answer
  <2> QED BY <1>1, <1>2, <1>5, <2>3, RaiseIs DEF e
<1>6. CASE Hit(q) # {}
  <2> DEFINE b == d.next
             rec == <<"throw", e>>
  <2>1. k \in E /\ (Catches(k, q) \/ Runs(k, q)) BY <1>4, <1>6 DEF Hit
  <2> HIDE DEF k
  <2>2. /\ T(k).tryLoc <= q /\ q < b /\ b # 0
        /\ Catches(k, q) => b = T(k).catchLoc
        /\ ~Catches(k, q) => b = T(k).finallyLoc
    BY <1>4, <1>6, <2>1 DEF Catches, Runs
  <2>3. b \in DOMAIN gen.code /\ b # End /\ (T(k).catchLoc # 0 => T(k).catchLoc # T(k).finallyLoc)
    BY <1>1, <1>2, <2>1, <2>2, Entries, Numbered
  <2>4. Arrives(b) /\ context'.completion = d.completion /\ context'.method = d.method
    BY <1>1, <1>3, <1>4, <1>6, <2>3, RunsTo
  <2>5. rec \in Record /\ context.completion \in [E -> Record] BY <1>1, <1>2, Parts DEF Record
  <2>6. For(k, rec) /\ Kept(context.completion) BY <2>5 DEF For, Kept
  <2>7. context'.completion = [context.completion EXCEPT ![k] = rec]
    BY <1>4, <1>6, <2>4 DEF Set
  <2>8. context'.method = "throw" => b = T(k).finallyLoc BY <1>4, <1>6, <2>2, <2>4
  <2>9. rec[1] = "throw" OBVIOUS
  <2> HIDE DEF b, rec
  <2>10. /\ GeneratorInv' /\ Lexical!Keep /\ UNCHANGED Text
         /\ b = T(k).finallyLoc => Lexical!At(b, [Pending EXCEPT ![R(k)] = rec])
         /\ b = T(k).catchLoc => Lexical!At(b, Pending)
    BY <1>1, <2>1, <2>2, <2>3, <2>4, <2>5, <2>7, <2>8, <2>9, <2>6, Enters
  <2>11. /\ Catches(k, q) => Lexical!At(T(k).catchLoc, Pending)
         /\ ~Catches(k, q) => Lexical!At(T(k).finallyLoc, [Pending EXCEPT ![R(k)] = rec])
    BY <2>2, <2>10
  <2>12. Lexical!Raise(e) BY <1>1, <1>2, <1>6, <2>10, <2>11, RaiseIs DEF k, rec
  <2> QED BY <2>10, <2>12 DEF e
<1> QED BY <1>5, <1>6

\* The loop, with a finally block to run on the way out.
LEMMA FinalStep ==
  ASSUME GeneratorAssumption, GeneratorInv, Live, context.prev # End,
         gen.code[context.prev].op # "catch",
         NEW k \in E, Runs(k, context.prev), NEW rec, For(k, rec),
         NEW cp, Kept(cp), NEW d \in Contexts, d.method = "next", d.root = Normal,
         d.delegate = FALSE, d.next = T(k).finallyLoc, d.completion = [cp EXCEPT ![k] = rec],
         Loop(d)
  PROVE  /\ GeneratorInv' /\ Lexical!Keep /\ UNCHANGED Text
         /\ Lexical!At(T(k).finallyLoc, [Pending EXCEPT ![R(k)] = rec])
<1> DEFINE b == T(k).finallyLoc
<1>1. gen \in Generators /\ context \in Contexts BY DEF GeneratorInv, TypeOK
<1>2. T(k).tryLoc <= context.prev /\ context.prev < b /\ b # 0 BY DEF Runs
<1>3. b \in DOMAIN gen.code /\ b # End /\ (T(k).catchLoc # 0 => b # T(k).catchLoc)
  BY <1>1, <1>2, Entries, Numbered
<1>4. MoveTo(d, b) BY <1>3 DEF Loop
<1>5. Arrives(b) /\ context'.completion = [cp EXCEPT ![k] = rec] /\ context'.method = "next"
  BY <1>1, <1>3, <1>4, RunsTo
<1> HIDE DEF b
<1>6. b = T(k).finallyLoc BY DEF b
<1>7. b # T(k).catchLoc BY <1>2, <1>3
<1>8. /\ GeneratorInv' /\ Lexical!Keep /\ UNCHANGED Text
      /\ Lexical!At(b, [Pending EXCEPT ![R(k)] = rec])
  BY <1>1, <1>2, <1>3, <1>5, <1>6, <1>7, Enters
<1> QED BY <1>6, <1>8

\* The loop, with a return.
LEMMA ReturnStep ==
  ASSUME GeneratorAssumption, GeneratorInv, Live, context.prev # End,
         gen.code[context.prev].op # "catch",
         NEW c \in Contexts, c.prev = context.prev, Kept(c.completion),
         c.root = Normal, c.delegate = FALSE, c.method = "return", Loop(c)
  PROVE  GeneratorInv' /\ Lexical!Return(c.arg) /\ UNCHANGED Text
<1> DEFINE q == context.prev
           v == c.arg
           d == Abrupt(c, "return", v)
           k == Max(Outer(q))
           rec == <<"return", v>>
<1>1. gen \in Generators /\ context \in Contexts BY DEF GeneratorInv, TypeOK
<1>2. q \in DOMAIN gen.code /\ q \in Int /\ v \in Int BY <1>1, Numbered, Parts
<1>3. IF d.next # End THEN MoveTo(d, d.next)
      ELSE /\ context' = [d EXCEPT !.prev = End]
           /\ Answer("completed", IF d.root[1] = "throw" THEN <<"threw", d.root[2]>>
                                  ELSE <<"returned", d.rval>>)
  BY DEF Loop
<1>4. Abrupted(c, "return", v, d)
  <2> HIDE DEF v
  <2>1. v \in Int BY <1>2 DEF v
  <2> QED BY <1>1, <1>2, <2>1, AbruptIs
<1> HIDE DEF d, v
<1>5. CASE Outer(q) = {}
  <2>1. d \in Contexts /\ d.next = End /\ d.rval = v /\ d.root = Normal
    BY <1>4, <1>5 DEF Abrupted
  <2>2. context' = [d EXCEPT !.prev = End] /\ Answer("completed", <<"returned", v>>)
    BY <1>3, <2>1 DEF Normal
  <2>3. context' \in Contexts BY <1>1, <2>1, <2>2, EndIs
  <2>4. GeneratorInv' /\ Lexical!Stop(<<"returned", v>>) /\ UNCHANGED Text
    BY <2>2, <2>3, Stops DEF Answer
  <2> QED BY <1>1, <1>2, <1>5, <2>4, ReturnIs DEF v
<1>6. CASE Outer(q) # {}
  <2>1. /\ d \in Contexts /\ d.delegate = FALSE /\ d.root = Normal /\ k \in Outer(q)
        /\ d.completion = [c.completion EXCEPT ![k] = rec]
        /\ d.next = T(k).finallyLoc /\ d.method = "next"
    BY <1>4, <1>6 DEF Abrupted, Set
  <2>2. k \in E /\ Runs(k, q) BY <2>1 DEF Outer
  <2> HIDE DEF k
  <2>3. rec \in Record /\ For(k, rec) BY <1>1, <1>2, Parts DEF Record, For, v
  <2>4. d.next # End BY <1>1, <2>1, <2>2, Entries, Numbered
  <2>5. Loop(d) BY <1>3, <2>1, <2>4 DEF Loop
  <2> HIDE DEF rec
  <2>6. /\ GeneratorInv' /\ Lexical!Keep /\ UNCHANGED Text
        /\ Lexical!At(T(k).finallyLoc, [Pending EXCEPT ![R(k)] = rec])
    BY <2>1, <2>2, <2>3, <2>5, FinalStep
  <2> QED BY <1>1, <1>2, <1>6, <2>6, ReturnIs DEF k, rec, v
<1> QED BY <1>5, <1>6

-----------------------------------------------------------------------------
(* The steps of a body.                                                    *)

\* Where a live body is.
LEMMA Located ==
  ASSUME GeneratorAssumption, GeneratorInv, Live
  PROVE  /\ gen \in Generators /\ context \in Contexts /\ context.prev \in DOMAIN gen.code
         /\ context.prev \in Nat \ {0} /\ context.prev # End /\ context.root = Normal
         /\ context.completion \in [E -> Record] /\ context.arg \in Int
         /\ Instruction(gen, context.prev) /\ Instr \in [op : Ops, to : Nat, try : Nat]
<1>1. gen \in Generators /\ context \in Contexts /\ context.prev # End /\ context.root = Normal
  BY DEF GeneratorInv, TypeOK, Placed, Live
<1>2. context.prev \in DOMAIN gen.code /\ context.prev \in Nat \ {0} BY <1>1, Parts, Numbered
<1> QED BY <1>1, <1>2, Parts, InstructionIs DEF Instr

\* To the next instruction; a catch resets the record of its entry.
LEMMA StepOn ==
  ASSUME GeneratorAssumption, GeneratorInv, Live,
         Instr.op \notin {"throw", "return", "endblock"},
         NEW c \in Contexts, c.root = Normal, c.delegate = FALSE, c.method \in {"next", "throw"},
         c.method = "throw" => state = "executing" /\ context.method = "throw",
         c.completion \in [E -> Record],
         \A i \in E : \/ c.completion[i] = context.completion[i]
                      \/ c.completion[i] = Normal /\ context.prev = T(i).catchLoc,
         Instr.op = "catch" => \A i \in E : context.prev = T(i).catchLoc => c.completion[i] = Normal,
         MoveTo(c, context.prev + 1)
  PROVE  GeneratorInv' /\ Lexical!Go(context.prev + 1) /\ UNCHANGED Text
<1> DEFINE q == context.prev
           b == q + 1
           cp == c.completion
<1>1. gen \in Generators /\ q \in DOMAIN gen.code /\ q \in Nat \ {0} /\ Instruction(gen, q)
      /\ context \in Contexts /\ context.completion \in [E -> Record]
  BY Located
<1>2. b \in DOMAIN gen.code /\ gen.code[q].op # "endblock"
  BY <1>1, Numbered DEF Instruction, Instr, Size
<1>3. \A i \in E : b \in Finally(i) <=> q \in Finally(i) BY <1>1, <1>2, Onward
<1>4. \A i \in E : q \in Finally(i) => q # T(i).catchLoc
  BY <1>1, BlocksAre, Entries DEF Finally, R, T
<1>5. Arrives(b) /\ context'.completion = cp /\ context'.method = c.method
  BY <1>1, <1>2, RunsTo
<1>6. \A i \in E : b \in Finally(i) => cp[i] = Pending[R(i)]
  BY <1>1, <1>3, <1>4, PendingIs
<1>7. \A i \in E : cp[i] # Normal => \/ b = T(i).catchLoc
                                     \/ T(i).finallyLoc # 0 /\ T(i).finallyLoc <= b
  <2> SUFFICES ASSUME NEW i \in E, cp[i] # Normal
               PROVE  T(i).finallyLoc # 0 /\ T(i).finallyLoc <= b
    OBVIOUS
  <2>1. context.completion[i] # Normal OBVIOUS
  <2>2. q = T(i).catchLoc \/ (T(i).finallyLoc # 0 /\ T(i).finallyLoc <= q)
    BY <2>1 DEF GeneratorInv, Settled, E, T
  <2>3. q # T(i).catchLoc BY <1>1, Edges DEF Instr
  <2>4. T(i).finallyLoc \in Nat BY <1>1, Entries
  <2> QED BY <1>1, <2>2, <2>3, <2>4
<1>8. c.method = "throw" => \E i \in E : b \in Finally(i) /\ cp[i][1] = "throw"
  <2> SUFFICES ASSUME c.method = "throw"
               PROVE  \E i \in E : b \in Finally(i) /\ cp[i][1] = "throw"
    OBVIOUS
  <2>1. PICK i \in E : q \in Finally(i) /\ context.completion[i][1] = "throw"
    BY DEF GeneratorInv, ThrowsOn, E
  <2>2. cp[i] = context.completion[i] BY <1>4, <2>1
  <2> QED BY <1>3, <2>1, <2>2
<1>9. \A i \in E : cp[i] = context.completion[i] \/ cp[i] = Normal OBVIOUS
<1> HIDE DEF b, cp
<1>10. cp \in [E -> Record] BY DEF cp
<1>11. GeneratorInv' /\ Lexical!Go(b) /\ UNCHANGED Text
  BY <1>1, <1>2, <1>5, <1>6, <1>7, <1>8, <1>9, <1>10, Goes
<1> QED BY <1>11 DEF b

\* The method is "next", unless a finally block is to throw.
LEMMA MethodIs ==
  ASSUME GeneratorInv, state = "executing",
         \A i \in E : context.prev \in Finally(i) => context.completion[i][1] # "throw"
  PROVE  context.method = "next" /\ context.delegate = FALSE /\ context.next = context.prev
BY Parts DEF GeneratorInv, ThrowsOn, Placed, TypeOK, E

\* The innermost of some statements that are left.
LEMMA OuterIs ==
  ASSUME GeneratorAssumption, gen \in Generators, NEW q \in Int, NEW S \in SUBSET Outer(q), S # {}
  PROVE  Max(S) \in S /\ \A i \in S : i <= Max(S)
<1>1. S \in SUBSET E /\ \A i \in S : T(i).tryLoc <= q /\ q < T(i).afterLoc
  BY SearchesAre DEF Outer
<1> QED BY <1>1, LastIs

\* break and continue.
LEMMA JumpStep ==
  ASSUME GeneratorAssumption, GeneratorInv, state = "executing", Instr.op = "jump",
         Loop(Abrupt(context, "jump", Instr.to))
  PROVE  GeneratorInv' /\ Lexical!Jump(Instr.to) /\ UNCHANGED Text
<1> DEFINE q == context.prev
           v == Instr.to
           d == Abrupt(context, "jump", v)
           k == Max(Outer(q))
<1>0. Live BY DEF Live
<1>1. gen \in Generators /\ q \in DOMAIN gen.code /\ q \in Nat \ {0} /\ q # End
      /\ context \in Contexts /\ context.completion \in [E -> Record] /\ context.root = Normal
  BY <1>0, Located
<1>2. q \in Jumps(gen) BY <1>1 DEF Jumps, Instr
<1>3. /\ v \in DOMAIN gen.code /\ v \in Int /\ v \in 1..End /\ v # End
      /\ \A i \in E : q \notin Finally(i) /\ v \notin Finally(i)
  <2>1. v \in DOMAIN gen.code BY <1>1, <1>2, InstructionIs DEF Instruction, Instr
  <2>2. \A i \in E : q \notin Finally(i) /\ v \notin Finally(i)
    BY <1>1, <1>2, Landing DEF Instr
  <2> QED BY <1>1, <2>1, <2>2, Numbered
<1>4. context.method = "next" /\ context.delegate = FALSE BY <1>3, MethodIs
<1>5. Abrupted(context, "jump", v, d)
  <2> HIDE DEF v
  <2> QED BY <1>1, <1>3, AbruptIs
<1>6. Loop(d) OBVIOUS
<1> HIDE DEF d, v
<1>7. \A i \in E : Runs(i, q) <=> T(i).finallyLoc # 0 /\ q \in Guarded(i)
  BY <1>1, SearchesAre, BlocksAre, Entries DEF Runs, Guarded, R, T
<1>8. \A i \in E : /\ Guarded(i) = T(i).tryLoc..(CatchEnd(T(i)) - 1)
                   /\ T(i).finallyLoc # 0 => CatchEnd(T(i)) = T(i).finallyLoc
                   /\ T(i).tryLoc \in Nat /\ CatchEnd(T(i)) \in Nat
                   /\ T(i).finallyLoc # 0 => T(i).finallyLoc \in Finally(i)
  BY <1>1, BlocksAre, Entries, Edges DEF Guarded, R, T
<1>9. Outer(q) # {} => k \in Outer(q) /\ \A i \in Outer(q) : i <= k
  <2>1. q \in Int BY <1>1
  <2> HIDE DEF q
  <2> QED BY <1>1, <2>1, OuterIs
<1>10. Outer(q) \subseteq E /\ \A i \in Outer(q) : q \in Guarded(i) /\ T(i).finallyLoc # 0
  BY <1>7 DEF Outer
<1>11. CASE Outer(q) = {} \/ (T(k).tryLoc <= v /\ v <= T(k).finallyLoc)
  <2>1. d \in Contexts /\ d.root = Normal /\ d.delegate = FALSE /\ d.completion = context.completion
        /\ d.next = v /\ d.method = "next"
    BY <1>1, <1>4, <1>5, <1>11 DEF Abrupted
  <2>2. MoveTo(d, v) BY <1>3, <1>6, <2>1 DEF Loop
  <2>3. Arrives(v) /\ context'.completion = context.completion /\ context'.method = "next"
    BY <1>1, <1>3, <2>1, <2>2, RunsTo
  <2>4. \A i \in E : context.completion[i] # Normal => \/ v = T(i).catchLoc
                                                       \/ T(i).finallyLoc # 0 /\ T(i).finallyLoc <= v
    <3> SUFFICES ASSUME NEW i \in E, context.completion[i] # Normal
                 PROVE  T(i).finallyLoc # 0 /\ T(i).finallyLoc <= v
      OBVIOUS
    <3>1. q = T(i).catchLoc \/ (T(i).finallyLoc # 0 /\ T(i).finallyLoc <= q)
      BY <1>0 DEF GeneratorInv, Settled, E, T
    <3>2. T(i).finallyLoc # 0 /\ T(i).finallyLoc <= q BY <1>1, <3>1, Edges DEF Instr
    <3>3. /\ v <= T(i).tryLoc => q < T(i).tryLoc
          /\ \A B \in Blocks(T(i)) : v \in B => q \in B \/ v = T(i).tryLoc
      BY <1>1, <1>2, <3>2, Landing DEF v, Instr
    <3>4. T(i).tryLoc < T(i).finallyLoc /\ T(i).finallyLoc \in Nat /\ T(i).tryLoc \in Nat
      BY <1>1, <3>2, Entries
    <3>5. T(i).tryLoc < v BY <1>1, <1>3, <3>2, <3>3, <3>4
    <3>6. v < T(i).finallyLoc => v \in R(i).body \/ v \in R(i).catch
      BY <1>1, <1>3, <3>2, <3>5, BlocksAre, Entries
    <3>7. q \notin R(i).body /\ q \notin R(i).catch BY <1>1, <3>2, BlocksAre, Entries
    <3>8. ~(v < T(i).finallyLoc) BY <3>3, <3>5, <3>6, <3>7, <3>4 DEF Blocks, R, T
    <3> QED BY <1>3, <3>2, <3>4, <3>8
  <2>5. GeneratorInv' /\ Lexical!Go(v) /\ UNCHANGED Text
    <3>1. \A i \in E : v \in Finally(i) => context.completion[i] = Pending[R(i)] BY <1>3
    <3> QED BY <1>0, <1>1, <1>3, <2>3, <2>4, <3>1, Goes
  <2>6. Crossed(q, v) = {}
    <3> SUFFICES ASSUME NEW i \in Outer(q), v \notin Guarded(i) PROVE FALSE BY DEF Crossed
    <3>1. k \in E /\ k \in Outer(q) /\ i <= k /\ T(k).tryLoc <= v /\ v <= T(k).finallyLoc
      BY <1>9, <1>10, <1>11
    <3>2. T(k).finallyLoc # 0 /\ q \in Guarded(k) /\ q \in Guarded(i) /\ i \in E BY <1>10, <3>1
    <3> HIDE DEF k
    <3>3. v # T(k).finallyLoc BY <1>3, <1>8, <3>1, <3>2
    <3>4. v \in Guarded(k) BY <1>3, <1>8, <3>1, <3>2, <3>3
    <3>5. i < k BY <1>1, <3>1, <3>2, <3>4, Numbered
    <3>6. T(k).afterLoc < CatchEnd(T(i)) /\ T(i).tryLoc < T(k).tryLoc
      BY <1>1, <1>8, <3>1, <3>2, <3>5, Nesting
    <3>7. CatchEnd(T(k)) <= T(k).afterLoc /\ T(k).afterLoc \in Nat BY <1>1, <3>1, Entries
    <3>8. v \in Guarded(i) BY <1>3, <1>8, <3>1, <3>2, <3>4, <3>6, <3>7
    <3> QED BY <3>8
  <2>7. Lexical!Jump(v)
    <3>1. context.prev = q /\ q \in Int BY <1>1
    <3> HIDE DEF q
    <3> QED BY <1>0, <1>1, <2>5, <2>6, <3>1, JumpIs
  <2> QED BY <2>5, <2>7 DEF v
<1>12. CASE Outer(q) # {} /\ ~(T(k).tryLoc <= v /\ v <= T(k).finallyLoc)
  <2>1. k \in E /\ k \in Outer(q) /\ q \in Guarded(k) /\ T(k).finallyLoc # 0 /\ Runs(k, q)
    BY <1>9, <1>10, <1>12 DEF Outer
  <2>2. d \in Contexts /\ d.root = Normal /\ d.delegate = FALSE /\ d.next = T(k).finallyLoc
        /\ d.completion = [context.completion EXCEPT ![k] = <<"jump", v>>] /\ d.method = "next"
    BY <1>1, <1>4, <1>5, <1>12 DEF Abrupted, Set
  <2>3. v \notin Guarded(k)
    <3> HIDE DEF k
    <3> QED BY <1>3, <1>8, <1>12, <2>1
  <2>4. k = Max(Crossed(q, v)) /\ Crossed(q, v) # {}
    <3>1. k \in Crossed(q, v) /\ \A i \in Crossed(q, v) : i <= k /\ i \in E
      BY <1>9, <1>10, <1>12, <2>1, <2>3 DEF Crossed
    <3>2. Crossed(q, v) \in SUBSET Outer(q) /\ q \in Int BY <1>1 DEF Crossed
    <3>3. Max(Crossed(q, v)) \in Crossed(q, v) /\ k <= Max(Crossed(q, v))
      <4> HIDE DEF q, k
      <4> QED BY <1>1, <3>1, <3>2, OuterIs
    <3> HIDE DEF k
    <3> QED BY <1>1, <2>1, <3>1, <3>3, Numbered
  <2>5. For(k, <<"jump", v>>)
    <3>1. Crosses(gen, q, k) /\ gen.code[q].to = v
      BY <1>1, <1>8, <2>1, <2>3 DEF Crosses, Guarded, Finally, v, Instr, T
    <3> QED BY <1>2, <1>3, <3>1 DEF For, Record
  <2>6. Kept(context.completion) BY <1>1 DEF Kept
  <2>7. gen.code[q].op # "catch" BY DEF Instr
  <2> DEFINE rec == <<"jump", v>>
  <2> HIDE DEF k, rec
  <2>8. For(k, rec) /\ d.completion = [context.completion EXCEPT ![k] = rec] BY <2>2, <2>5 DEF rec
  <2>9. /\ GeneratorInv' /\ Lexical!Keep /\ UNCHANGED Text
        /\ Lexical!At(T(k).finallyLoc, [Pending EXCEPT ![R(k)] = rec])
    BY <1>0, <1>1, <1>6, <2>1, <2>2, <2>6, <2>7, <2>8, FinalStep
  <2>10. Lexical!Jump(v) BY <1>0, <1>1, <2>4, <2>9, JumpIs DEF rec
  <2> QED BY <2>9, <2>10 DEF v
<1> QED BY <1>11, <1>12

\* The statement whose block ends is the innermost one.
LEMMA BlockIs ==
  ASSUME GeneratorAssumption, GeneratorInv, Live, Instr.op = "endblock", NEW i, i = Instr.try
  PROVE  /\ i \in E /\ context.prev + 1 \in Borders(T(i))
         /\ T(i).tryLoc < context.prev /\ context.prev < T(i).afterLoc
         /\ Lexical!Innermost(Lexical!Around(context.prev)) = R(i)
         /\ \A j \in E : T(j).tryLoc <= context.prev /\ context.prev < T(j).afterLoc => j <= i
         /\ context.prev \in R(i).finally => context.prev + 1 = T(i).afterLoc
         /\ context.prev \in R(i).finally <=> T(i).finallyLoc # 0 /\ T(i).finallyLoc <= context.prev
<1> DEFINE q == context.prev
           S == {j \in E : T(j).tryLoc <= q /\ q < T(j).afterLoc}
<1>1. gen \in Generators /\ q \in DOMAIN gen.code /\ q \in Nat \ {0} /\ Instruction(gen, q)
  BY Located
<1>2. i \in E /\ T(i).tryLoc < q /\ q + 1 \in Borders(T(i))
  BY <1>1 DEF Instruction, Instr, E, T
<1>3. /\ q + 1 = BodyEnd(T(i)) \/ q + 1 = CatchEnd(T(i)) \/ q + 1 = T(i).afterLoc
      /\ BodyEnd(T(i)) <= CatchEnd(T(i)) /\ CatchEnd(T(i)) <= T(i).afterLoc
      /\ T(i).afterLoc \in Nat /\ T(i).finallyLoc \in Nat /\ CatchEnd(T(i)) \in Nat
      /\ BodyEnd(T(i)) \in Nat /\ T(i).tryLoc \in Nat
      /\ T(i).finallyLoc # 0 => CatchEnd(T(i)) = T(i).finallyLoc
  BY <1>1, <1>2, Entries DEF Borders
<1>4. q < T(i).afterLoc /\ T(i).tryLoc <= q BY <1>1, <1>2, <1>3
<1>5. ASSUME NEW j \in E, T(j).tryLoc <= q, q < T(j).afterLoc PROVE j <= i
  <2> SUFFICES ASSUME i < j PROVE FALSE BY <1>1, <1>2, Numbered
  <2>1. T(j).tryLoc \in Nat /\ T(j).afterLoc \in Nat BY <1>1, Entries
  <2>2. T(j).tryLoc < q + 1 BY <1>1, <1>5, <2>1
  <2>3. T(j).afterLoc < q + 1 BY <1>1, <1>2, <1>3, <2>2, Nesting
  <2> QED BY <1>1, <1>5, <2>1, <2>3
<1>6. Lexical!Around(q) = {R(j) : j \in S}
  <2>1. \A j \in E : q \in R(j).body \cup R(j).catch \cup R(j).finally <=>
                       T(j).tryLoc <= q /\ q < T(j).afterLoc
    BY <1>1, BlocksAre, Entries
  <2>2. Text.regions = {R(j) : j \in E} BY DEF Text, E, R, T
  <2> QED BY <2>1, <2>2 DEF Lexical!Around
<1>7. Lexical!Innermost(Lexical!Around(q)) = R(i)
  <2>1. i \in S /\ S \in SUBSET E /\ \A j \in S : j <= i /\ T(j).tryLoc <= q /\ q < T(j).afterLoc
    BY <1>2, <1>4, <1>5
  <2> HIDE DEF S
  <2> QED BY <1>1, <1>6, <2>1, InnermostIs
<1>8. q \in R(i).finally <=> T(i).finallyLoc # 0 /\ T(i).finallyLoc <= q
  BY <1>1, <1>2, <1>4, BlocksAre
<1>9. q \in R(i).finally => q + 1 = T(i).afterLoc BY <1>1, <1>3, <1>8
<1> QED BY <1>2, <1>4, <1>5, <1>7, <1>8, <1>9

\* The end of a body or of a catch block.
LEMMA BlockStep ==
  ASSUME GeneratorAssumption, GeneratorInv, state = "executing", Instr.op = "endblock",
         NEW i, i = Instr.try, T(i).finallyLoc = 0 \/ context.prev < T(i).finallyLoc,
         MoveTo(context, IF T(i).finallyLoc # 0 THEN T(i).finallyLoc ELSE T(i).afterLoc)
  PROVE  GeneratorInv' /\ Lexical!EndBlock /\ UNCHANGED Text
<1> DEFINE q == context.prev
           b == IF T(i).finallyLoc # 0 THEN T(i).finallyLoc ELSE T(i).afterLoc
           cp == context.completion
<1>0. Live BY DEF Live
<1>1. gen \in Generators /\ q \in DOMAIN gen.code /\ q \in Nat \ {0} /\ context \in Contexts
      /\ cp \in [E -> Record] /\ context.root = Normal /\ gen.code[q].op = "endblock"
  BY <1>0, Located DEF Instr
<1>2. /\ i \in E /\ T(i).tryLoc < q /\ q < T(i).afterLoc /\ q \notin R(i).finally
      /\ Lexical!Innermost(Lexical!Around(q)) = R(i)
      /\ \A j \in E : T(j).tryLoc <= q /\ q < T(j).afterLoc => j <= i
  BY <1>0, <1>1, BlockIs, Entries
<1>3. /\ b = CatchEnd(T(i)) /\ q < b /\ b \in Nat /\ b \in DOMAIN gen.code /\ b \in Borders(T(i))
      /\ b <= T(i).afterLoc /\ T(i).afterLoc \in Nat /\ T(i).finallyLoc \in Nat
      /\ T(i).tryLoc \in Nat
      /\ T(i).finallyLoc # 0 => T(i).finallyLoc < T(i).afterLoc
  BY <1>1, <1>2, Entries, Numbered DEF Borders
<1>4. context.method \in {"next", "throw"} /\ context.delegate = FALSE
  BY DEF GeneratorInv, Placed
<1> HIDE DEF b
<1>5. Arrives(b) /\ context'.completion = cp /\ context'.method = context.method
  <2>1. MoveTo(context, b) BY DEF b
  <2> QED BY <1>1, <1>3, <1>4, <2>1, RunsTo
<1>6. \A j \in E : cp[j] # Normal => T(j).finallyLoc # 0 /\ T(j).finallyLoc <= q
  BY <1>0, <1>1, Edges DEF GeneratorInv, Settled, E, T
<1>7. \A j \in E : cp[j] # Normal => \/ b = T(j).catchLoc
                                     \/ T(j).finallyLoc # 0 /\ T(j).finallyLoc <= b
  BY <1>1, <1>3, <1>6, Entries
<1>8. ASSUME NEW j \in E, b \in Finally(j) PROVE cp[j] = Pending[R(j)]
  <2>1. CASE j = i
    <3>1. T(i).finallyLoc # 0 BY <1>1, <1>8, <2>1, BlocksAre DEF Finally, R, T
    <3>2. ~(T(i).finallyLoc <= q) BY <1>1, <1>2, <1>3, <3>1
    <3>3. cp[i] = Normal BY <1>2, <1>6, <3>2
    <3> QED BY <1>1, <1>2, <2>1, <3>3, PendingIs DEF Finally, R, T
  <2>2. CASE j # i
    <3>1. q \in Finally(j)
      <4>1. q \in Int /\ T(i).tryLoc <= q /\ q <= b BY <1>1, <1>2, <1>3
      <4> HIDE DEF q
      <4> QED BY <1>1, <1>2, <1>3, <1>8, <2>2, <4>1, Forward
    <3> QED BY <1>0, <1>1, <3>1, PendingIs
  <2> QED BY <2>1, <2>2
<1>9. context.method = "throw" => \E j \in E : b \in Finally(j) /\ cp[j][1] = "throw"
  <2> SUFFICES ASSUME context.method = "throw"
               PROVE  \E j \in E : b \in Finally(j) /\ cp[j][1] = "throw"
    OBVIOUS
  <2>1. PICK j \in E : q \in Finally(j) /\ cp[j][1] = "throw"
    BY DEF GeneratorInv, ThrowsOn, E
  <2>2. /\ T(j).finallyLoc # 0 /\ T(j).finallyLoc <= q /\ q < T(j).afterLoc
        /\ T(j).tryLoc <= q /\ T(j).afterLoc \in Nat /\ T(j).finallyLoc \in Nat
    BY <1>1, <2>1, BlocksAre, Entries DEF Finally, R, T
  <2>3. j # i BY <1>2, <2>1 DEF Finally, R, T
  <2>4. j < i BY <1>1, <1>2, <2>2, <2>3, Numbered
  <2>5. T(i).afterLoc < T(j).afterLoc
    <3>1. T(i).tryLoc < T(j).afterLoc BY <1>1, <1>2, <1>3, <2>2
    <3> QED BY <1>1, <1>2, <2>4, <3>1, Nesting
  <2>6. b \in Finally(j) BY <1>1, <1>3, <2>2, <2>5, BlocksAre DEF Finally, R, T
  <2> QED BY <2>1, <2>6
<1>10. GeneratorInv' /\ Lexical!Go(b) /\ UNCHANGED Text
  <2> HIDE DEF cp
  <2>1. \A j \in E : cp[j] = context.completion[j] BY DEF cp
  <2>2. cp \in [E -> Record] BY <1>1
  <2> QED BY <1>0, <1>1, <1>3, <1>5, <1>7, <1>8, <1>9, <2>1, <2>2, Goes
<1>11. b = IF R(i).finally # {} THEN R(i).finallyAt ELSE R(i).end
  BY <1>1, <1>2, BlocksAre DEF b
<1>12. Place = q BY <1>0 DEF Place
<1> QED BY <1>2, <1>10, <1>11, <1>12 DEF Lexical!EndBlock, Lexical!Go

\* A finally block ends, and control goes on behind the statement.
LEMMA FinallyGoes ==
  ASSUME GeneratorAssumption, GeneratorInv, state = "executing", Instr.op = "endblock",
         NEW i, i = Instr.try, T(i).finallyLoc # 0, T(i).finallyLoc <= context.prev,
         context.completion[i][1] # "throw",
         NEW b \in DOMAIN gen.code, context.prev < b, \A j \in E : b \notin Finally(j),
         Loop([context EXCEPT !.next = b, !.completion[i] = Normal])
  PROVE  GeneratorInv' /\ Lexical!Go(b) /\ UNCHANGED Text
<1> DEFINE q == context.prev
           c == [context EXCEPT !.next = b, !.completion[i] = Normal]
           cp == [context.completion EXCEPT ![i] = Normal]
<1>0. Live BY DEF Live
<1>1. gen \in Generators /\ q \in DOMAIN gen.code /\ q \in Nat \ {0} /\ context \in Contexts
      /\ context.completion \in [E -> Record] /\ context.root = Normal
      /\ gen.code[q].op = "endblock"
  BY <1>0, Located DEF Instr
<1>2. i \in E /\ q \in R(i).finally BY <1>0, BlockIs
<1>3. context.method = "next" /\ context.delegate = FALSE
  <2>1. \A j \in E : q \in Finally(j) => j = i
    BY <1>1, <1>2, OneFinally DEF Finally, R, T
  <2> QED BY <2>1, MethodIs
<1>4. b \in 1..End /\ b # End /\ Normal \in Record BY <1>1, Numbered DEF Record
<1>5. cp \in [E -> Record] BY <1>1, <1>4
<1>6. /\ c \in Contexts /\ c.next = b /\ c.completion = cp
      /\ c.method = "next" /\ c.delegate = FALSE /\ c.root = Normal
  <2>1. c = [context EXCEPT !.next = b, !.completion = cp] OBVIOUS
  <2>2. context \in [prev : 1..End, next : 1..End, method : {"next", "throw", "return"},
                     arg : Int, rval : Int, delegate : BOOLEAN,
                     root : Record, completion : [DOMAIN gen.tries -> Record]]
    BY <1>1 DEF Contexts
  <2>3. cp \in [DOMAIN gen.tries -> Record] BY <1>5 DEF E
  <2> HIDE DEF cp, c
  <2>4. c \in Contexts BY <1>4, <2>1, <2>2, <2>3 DEF Contexts
  <2> QED BY <1>1, <1>3, <2>1, <2>2, <2>4
<1>7. Loop(c) OBVIOUS
<1> HIDE DEF c
<1>8. Arrives(b) /\ context'.completion = cp /\ context'.method = "next"
  <2>1. MoveTo(c, b) BY <1>4, <1>6, <1>7 DEF Loop
  <2> QED BY <1>1, <1>6, <2>1, RunsTo
<1>9. \A j \in E : cp[j] # Normal => \/ b = T(j).catchLoc
                                     \/ T(j).finallyLoc # 0 /\ T(j).finallyLoc <= b
  <2> SUFFICES ASSUME NEW j \in E, cp[j] # Normal
               PROVE  T(j).finallyLoc # 0 /\ T(j).finallyLoc <= b
    OBVIOUS
  <2>1. context.completion[j] # Normal BY <1>1
  <2>2. q = T(j).catchLoc \/ (T(j).finallyLoc # 0 /\ T(j).finallyLoc <= q)
    BY <1>0, <2>1 DEF GeneratorInv, Settled, E, T
  <2>3. q # T(j).catchLoc BY <1>1, Edges
  <2>4. T(j).finallyLoc \in Nat BY <1>1, Entries
  <2>5. b \in Nat BY <1>4
  <2> QED BY <1>1, <2>2, <2>3, <2>4, <2>5
<1>10. \A j \in E : cp[j] = context.completion[j] \/ cp[j] = Normal BY <1>1, <1>2
<1> HIDE DEF cp
<1> QED BY <1>0, <1>5, <1>8, <1>9, <1>10, Goes

\* The end of a finally block.
LEMMA FinallyStep ==
  ASSUME GeneratorAssumption, GeneratorInv, state = "executing", Instr.op = "endblock",
         NEW i, i = Instr.try, T(i).finallyLoc # 0, T(i).finallyLoc <= context.prev,
         NEW r, r = context.completion[i],
         IF r[1] = "throw" THEN BodyThrew(r[2])
         ELSE Loop([Complete(context, r, T(i).afterLoc) EXCEPT !.completion[i] = Normal])
  PROVE  GeneratorInv' /\ Lexical!EndBlock /\ UNCHANGED Text
<1> DEFINE q == context.prev
<1>0. Live BY DEF Live
<1>1. gen \in Generators /\ q \in DOMAIN gen.code /\ q \in Nat \ {0} /\ context \in Contexts
      /\ context.completion \in [E -> Record] /\ context.root = Normal /\ q # End
      /\ gen.code[q].op = "endblock"
  BY <1>0, Located DEF Instr
<1>2. /\ i \in E /\ q \in R(i).finally /\ q + 1 = T(i).afterLoc /\ T(i).tryLoc < q
      /\ Lexical!Innermost(Lexical!Around(q)) = R(i)
  BY <1>0, BlockIs
<1>3. r \in Record /\ Pending[R(i)] = r
  BY <1>0, <1>1, <1>2, PendingIs DEF Finally, R, T
<1>4. Place = q /\ R(i).end = T(i).afterLoc BY <1>0, <1>1, <1>2, BlocksAre DEF Place
<1>5. context.delegate = FALSE BY DEF GeneratorInv, Placed
<1>6. context \in [prev : 1..End, next : 1..End, method : {"next", "throw", "return"},
                   arg : Int, rval : Int, delegate : BOOLEAN,
                   root : Record, completion : [DOMAIN gen.tries -> Record]]
  BY <1>1 DEF Contexts
<1>7. CASE r[1] = "throw"
  <2> DEFINE c == [context EXCEPT !.method = "throw", !.arg = r[2]]
  <2>1. r[2] \in Int BY <1>3, <1>7 DEF Record, Normal
  <2>2. /\ c \in Contexts /\ c.prev = context.prev /\ c.completion = context.completion
        /\ c.root = Normal /\ c.delegate = FALSE /\ c.method = "throw" /\ c.arg = r[2]
    BY <1>1, <1>5, <1>6, <2>1 DEF Contexts
  <2>3. Loop(c) BY <1>7 DEF BodyThrew
  <2> HIDE DEF c
  <2>4. GeneratorInv' /\ Lexical!Raise(r[2]) /\ UNCHANGED Text
    BY <1>0, <1>1, <2>2, <2>3, ThrowStep
  <2> QED BY <1>2, <1>3, <1>4, <1>7, <2>4 DEF Lexical!EndBlock
<1>8. CASE r[1] = "return"
  <2> DEFINE c == [context EXCEPT !.rval = r[2], !.arg = r[2], !.method = "return", !.next = End,
                                  !.completion[i] = Normal]
             cp == [context.completion EXCEPT ![i] = Normal]
  <2>1. r[2] \in Int /\ Normal \in Record /\ End \in 1..End
    BY <1>1, <1>3, <1>8, Numbered DEF Record, Normal
  <2>2. cp \in [DOMAIN gen.tries -> Record] BY <1>6, <2>1
  <2>3. c = [context EXCEPT !.rval = r[2], !.arg = r[2], !.method = "return", !.next = End,
                            !.completion = cp]
    OBVIOUS
  <2>4. Loop(c) BY <1>8 DEF Complete
  <2>5. Kept(cp)
    <3>1. cp \in [E -> Record] BY <2>2 DEF E
    <3>2. \A j \in E : j # i => cp[j] = context.completion[j] BY <1>1
    <3>3. cp[i] = Normal BY <1>1, <1>2
    <3> HIDE DEF cp
    <3> QED BY <1>2, <3>1, <3>2, <3>3 DEF Kept
  <2> HIDE DEF c, cp
  <2>6. /\ c \in Contexts /\ c.prev = context.prev /\ c.completion = cp
        /\ c.root = Normal /\ c.delegate = FALSE /\ c.method = "return" /\ c.arg = r[2]
    BY <1>1, <1>5, <1>6, <2>1, <2>2, <2>3 DEF Contexts
  <2>7. GeneratorInv' /\ Lexical!Return(r[2]) /\ UNCHANGED Text
    BY <1>0, <1>1, <2>4, <2>5, <2>6, ReturnStep
  <2> QED BY <1>2, <1>3, <1>4, <1>8, <2>7 DEF Lexical!EndBlock
<1>9. CASE r[1] = "normal"
  <2> DEFINE b == T(i).afterLoc
  <2>1. T(i).afterLoc # 0 /\ b \in Nat /\ b \in DOMAIN gen.code /\ q < b /\ b \in Borders(T(i))
    BY <1>1, <1>2, Entries, Numbered DEF Borders
  <2>2. Loop([context EXCEPT !.next = b, !.completion[i] = Normal])
    BY <1>9, <2>1 DEF Complete
  <2>3. \A j \in E : b \notin Finally(j)
    <3> SUFFICES ASSUME NEW j \in E, b \in Finally(j) PROVE FALSE OBVIOUS
    <3>1. b \notin Finally(i) BY <1>1, <1>2, BlocksAre, Entries DEF Finally, R, T
    <3>2. q \in Int /\ T(i).tryLoc <= q /\ q <= b BY <1>1, <1>2, <2>1, Entries
    <3>3. q \in Finally(j)
      <4> HIDE DEF q
      <4> QED BY <1>1, <1>2, <2>1, <3>2, Forward
    <3>4. j = i BY <1>1, <1>2, <3>3, OneFinally DEF Finally, R, T
    <3> QED BY <3>1, <3>4
  <2>4. r[1] # "throw" BY <1>9
  <2> HIDE DEF b
  <2>5. GeneratorInv' /\ Lexical!Go(b) /\ UNCHANGED Text BY <2>1, <2>2, <2>3, <2>4, FinallyGoes
  <2> QED BY <1>2, <1>3, <1>4, <1>9, <2>5 DEF Lexical!EndBlock, b
<1>10. CASE r[1] = "jump"
  <2> DEFINE v == r[2]
  <2>1. PICK p \in Jumps(gen) : gen.code[p].to = v /\ Crosses(gen, p, i)
    BY <1>0, <1>2, <1>10 DEF GeneratorInv, JumpsPending, E
  <2>2. /\ p \in DOMAIN gen.code /\ v \in DOMAIN gen.code /\ v \in Int
        /\ \A j \in E : v \notin Finally(j)
        /\ \A j \in E : Crosses(gen, p, i) /\ Crosses(gen, p, j) => i = j
        /\ v <= T(i).tryLoc => p < T(i).tryLoc
    <3> HIDE DEF v
    <3>1. \A j \in E : /\ p \in DOMAIN gen.code /\ v \in DOMAIN gen.code /\ v \notin Finally(j)
                       /\ T(j).finallyLoc # 0 /\ v <= T(j).tryLoc => p < T(j).tryLoc
                       /\ \A h \in E : Crosses(gen, p, j) /\ Crosses(gen, p, h) => j = h
      BY <1>1, <2>1, Landing
    <3>2. v \in DOMAIN gen.code => v \in Int BY <1>1, Numbered
    <3> QED BY <1>2, <3>1, <3>2
  <2>3. p \in Guarded(i) /\ v \notin Guarded(i) BY <2>1 DEF Crosses, Guarded
  <2>4. /\ Guarded(i) = T(i).tryLoc..(T(i).finallyLoc - 1)
        /\ T(i).tryLoc \in Nat /\ T(i).finallyLoc \in Nat /\ T(i).afterLoc \in Nat
    BY <1>1, <1>2, BlocksAre, Entries DEF Guarded, R, T
  <2>5. T(i).finallyLoc <= v
    <3>1. p \in Nat /\ v \in Nat BY <1>1, <2>2, Numbered
    <3> HIDE DEF v
    <3> QED BY <2>2, <2>3, <2>4, <3>1
  <2>6. q < v
    <3>1. ~(v < T(i).afterLoc)
      BY <1>1, <1>2, <2>2, <2>5, BlocksAre DEF Finally, R, T
    <3> HIDE DEF v
    <3> QED BY <1>1, <1>2, <2>2, <2>4, <3>1
  <2>7. Loop([context EXCEPT !.next = v, !.completion[i] = Normal])
    BY <1>10 DEF Complete
  <2>8. r[1] # "throw" BY <1>10
  <2>9. Crossed(q, v) = {}
    <3> SUFFICES ASSUME NEW j \in E, Runs(j, q), v \notin Guarded(j) PROVE FALSE
      BY DEF Crossed, Outer
    <3>1. /\ T(j).tryLoc <= q /\ T(j).finallyLoc # 0 /\ q < T(j).finallyLoc
          /\ CatchEnd(T(j)) = T(j).finallyLoc /\ Guarded(j) = T(j).tryLoc..(T(j).finallyLoc - 1)
          /\ T(j).tryLoc \in Nat /\ T(j).finallyLoc \in Nat /\ T(j).finallyLoc < T(j).afterLoc
          /\ T(j).afterLoc \in Nat
      BY <1>1, BlocksAre, Entries DEF Runs, Guarded, R, T
    <3>2. j # i BY <1>1, <1>2, <2>4, <3>1
    <3>3. j < i
      <4>1. q < T(j).afterLoc BY <1>1, <3>1
      <4>2. j <= i BY <1>0, <3>1, <4>1, BlockIs
      <4> QED BY <1>1, <1>2, <3>2, <4>2, Numbered
    <3>4. T(j).tryLoc < T(i).tryLoc /\ T(i).afterLoc < T(j).finallyLoc
      <4>1. T(i).tryLoc < CatchEnd(T(j)) BY <1>1, <1>2, <2>4, <3>1
      <4> QED BY <1>1, <1>2, <3>1, <3>3, <4>1, Nesting
    <3>5. T(i).finallyLoc < T(i).afterLoc BY <1>1, <1>2, Entries
    <3>6. p \in Guarded(j) BY <2>3, <2>4, <3>1, <3>4, <3>5
    <3>7. Crosses(gen, p, j)
      <4>1. T(j).finallyLoc \in Finally(j) BY <1>1, <3>1, Edges
      <4> QED BY <2>1, <3>6, <4>1 DEF Crosses, Guarded, Finally
    <3> QED BY <2>1, <2>2, <3>2, <3>7
  <2> HIDE DEF v
  <2>10. GeneratorInv' /\ Lexical!Go(v) /\ UNCHANGED Text
    BY <2>2, <2>6, <2>7, <2>8, FinallyGoes
  <2>11. Lexical!Jump(v)
    <3>1. context.prev = q /\ q \in Int BY <1>1
    <3> HIDE DEF q
    <3> QED BY <1>0, <1>1, <2>9, <2>10, <3>1, JumpIs
  <2> QED BY <1>2, <1>3, <1>4, <1>10, <2>10, <2>11 DEF Lexical!EndBlock, v
<1>11. r[1] \in {"normal", "throw", "return", "jump"} BY <1>3 DEF Record, Normal
<1> QED BY <1>7, <1>8, <1>9, <1>10, <1>11

\* The parts of a context, for the steps that change it.
LEMMA ContextIs ==
  ASSUME NEW c \in Contexts
  PROVE  c \in [prev : 1..End, next : 1..End, method : {"next", "throw", "return"},
                arg : Int, rval : Int, delegate : BOOLEAN,
                root : Record, completion : [DOMAIN gen.tries -> Record]]
BY DEF Contexts

\* The body throws.
LEMMA ThrewStep ==
  ASSUME GeneratorAssumption, GeneratorInv, state = "executing", Instr.op # "catch",
         NEW v \in Int, BodyThrew(v)
  PROVE  GeneratorInv' /\ Lexical!Raise(v) /\ UNCHANGED Text
<1> DEFINE c == [context EXCEPT !.method = "throw", !.arg = v]
<1>0. Live BY DEF Live
<1>1. context \in Contexts /\ context.prev # End /\ context.root = Normal BY <1>0, Located
<1>2. context.delegate = FALSE BY DEF GeneratorInv, Placed
<1>3. /\ c \in Contexts /\ c.prev = context.prev /\ c.completion = context.completion
      /\ c.root = Normal /\ c.delegate = FALSE /\ c.method = "throw" /\ c.arg = v
  BY <1>1, <1>2, ContextIs DEF Contexts
<1>4. Loop(c) BY DEF BodyThrew
<1> HIDE DEF c
<1> QED BY <1>0, <1>1, <1>3, <1>4, ThrowStep DEF Instr

\* The body returns.
LEMMA ReturnsStep ==
  ASSUME GeneratorAssumption, GeneratorInv, state = "executing", Instr.op = "return",
         Loop(Abrupt(context, "return", context.prev))
  PROVE  GeneratorInv' /\ Lexical!Return(context.prev) /\ UNCHANGED Text
<1> DEFINE q == context.prev
           d == Abrupt(context, "return", q)
           k == Max(Outer(q))
           rec == <<"return", q>>
<1>0. Live BY DEF Live
<1>1. gen \in Generators /\ q \in DOMAIN gen.code /\ q \in Nat \ {0} /\ q # End
      /\ context \in Contexts /\ context.completion \in [E -> Record] /\ context.root = Normal
      /\ gen.code[q].op # "catch"
  BY <1>0, Located DEF Instr
<1>2. context.delegate = FALSE BY DEF GeneratorInv, Placed
<1>3. Abrupted(context, "return", q, d)
  <2>1. q \in Int BY <1>1
  <2> QED BY <1>1, <2>1, AbruptIs
<1>4. Loop(d) OBVIOUS
<1>5. Kept(context.completion) BY <1>1 DEF Kept
<1> HIDE DEF d
<1>6. CASE Outer(q) = {}
  <2>1. /\ d \in Contexts /\ d.prev = context.prev /\ d.completion = context.completion
        /\ d.root = Normal /\ d.delegate = FALSE /\ d.method = "return" /\ d.arg = q
    BY <1>1, <1>2, <1>3, <1>6 DEF Abrupted
  <2> QED BY <1>0, <1>1, <1>4, <1>5, <2>1, ReturnStep
<1>7. CASE Outer(q) # {}
  <2>1. /\ d \in Contexts /\ d.delegate = FALSE /\ d.root = Normal /\ k \in Outer(q)
        /\ d.completion = [context.completion EXCEPT ![k] = rec]
        /\ d.next = T(k).finallyLoc /\ d.method = "next"
    BY <1>1, <1>2, <1>3, <1>7 DEF Abrupted, Set
  <2>2. k \in E /\ Runs(k, q) BY <2>1 DEF Outer
  <2>3. For(k, rec) BY <1>1 DEF For, Record
  <2> HIDE DEF k, rec
  <2>4. /\ GeneratorInv' /\ Lexical!Keep /\ UNCHANGED Text
        /\ Lexical!At(T(k).finallyLoc, [Pending EXCEPT ![R(k)] = rec])
    BY <1>0, <1>1, <1>4, <1>5, <2>1, <2>2, <2>3, FinalStep
  <2>5. Lexical!Return(q)
    <3>1. context.prev = q /\ q \in Int BY <1>1
    <3> HIDE DEF q
    <3> QED BY <1>0, <1>1, <1>7, <2>4, <3>1, ReturnIs DEF k, rec
  <2> QED BY <2>4, <2>5
<1> QED BY <1>6, <1>7

\* What an inner iterator does.
LEMMA DelegateStep ==
  ASSUME GeneratorAssumption, GeneratorInv, Live, Instr.op = "delegate",
         NEW c \in Contexts, c.prev = context.prev, c.completion = context.completion,
         c.root = Normal, c.delegate = TRUE, c.method = "return" => c.arg = Given,
         NEW k \in InnerAnswers, Delegate(c, k)
  PROVE  /\ GeneratorInv' /\ UNCHANGED Text
         /\ \/ Lexical!Suspend \/ Lexical!Raise(Inner)
            \/ c.method = "return" /\ Lexical!Return(Given)
            \/ c.method # "return" /\ Lexical!Go(context.prev + 1)
<1> DEFINE q == context.prev
           alone == [c EXCEPT !.delegate = FALSE]
           threw == [alone EXCEPT !.method = "throw", !.arg = Inner]
           after == [alone EXCEPT !.next = c.prev + 1]
           next  == [after EXCEPT !.method = "next", !.arg = None]
<1>1. gen \in Generators /\ q \in DOMAIN gen.code /\ q \in Nat \ {0} /\ q # End
      /\ context.completion \in [E -> Record] /\ gen.code[q].op = "delegate"
      /\ Instruction(gen, q) /\ context \in Contexts
  BY Located DEF Instr
<1>2. q + 1 \in 1..End /\ q + 1 # End /\ q + 1 \in DOMAIN gen.code
  BY <1>1, Numbered DEF Instruction, Size
<1>3. Kept(context.completion) BY <1>1 DEF Kept
<1>4. Inner \in Int /\ None \in Int BY DEF Inner, None
<1>5. CASE k = "yields"
  <2>1. context' = c /\ Answer("suspendedYield", <<"yielded", q>>) BY <1>5 DEF Delegate
  <2>2. GeneratorInv' /\ Lexical!Suspend /\ UNCHANGED Text
    BY <1>1, <2>1, Suspends DEF Answer
  <2> QED BY <2>2
<1>6. CASE Loop(threw)
  <2>1. /\ threw \in Contexts /\ threw.prev = q /\ threw.completion = context.completion
        /\ threw.root = Normal /\ threw.delegate = FALSE /\ threw.method = "throw"
        /\ threw.arg = Inner
    BY <1>4, ContextIs DEF Contexts
  <2> HIDE DEF threw
  <2>2. GeneratorInv' /\ Lexical!Raise(Inner) /\ UNCHANGED Text
    BY <1>1, <1>6, <2>1, ThrowStep
  <2> QED BY <2>2
<1>7. CASE c.method = "return" /\ (Loop(alone) \/ Loop(after))
  <2>1. PICK d \in {alone, after} : Loop(d) BY <1>7
  <2>2. /\ d \in Contexts /\ d.prev = q /\ d.completion = context.completion
        /\ d.root = Normal /\ d.delegate = FALSE /\ d.method = "return" /\ d.arg = Given
    <3>1. alone \in Contexts /\ after \in Contexts BY <1>2, ContextIs DEF Contexts
    <3>2. /\ alone.prev = q /\ alone.completion = context.completion
          /\ alone.root = Normal /\ alone.delegate = FALSE /\ alone.method = "return" /\ alone.arg = Given
      BY <1>7, ContextIs
    <3>3. /\ after.prev = q /\ after.completion = context.completion
          /\ after.root = Normal /\ after.delegate = FALSE /\ after.method = "return" /\ after.arg = Given
      BY <1>7, ContextIs
    <3> HIDE DEF alone, after
    <3> QED BY <3>1, <3>2, <3>3
  <2> HIDE DEF alone, after
  <2>3. GeneratorInv' /\ Lexical!Return(Given) /\ UNCHANGED Text
    BY <1>1, <1>3, <2>1, <2>2, ReturnStep
  <2> QED BY <1>7, <2>3
<1>8. CASE c.method # "return" /\ Loop(next)
  <2>1. /\ next \in Contexts /\ next.completion = context.completion /\ next.next = q + 1
        /\ next.root = Normal /\ next.delegate = FALSE /\ next.method = "next"
    BY <1>2, <1>4, ContextIs DEF Contexts
  <2> HIDE DEF next
  <2>2. MoveTo(next, q + 1) BY <1>2, <1>8, <2>1 DEF Loop
  <2>3. GeneratorInv' /\ Lexical!Go(q + 1) /\ UNCHANGED Text
    BY <1>1, <2>1, <2>2, StepOn
  <2> QED BY <1>8, <2>3
<1> HIDE DEF alone, threw, after, next
<1>9. k = "throws" => Loop(threw) BY DEF Delegate, alone, threw
<1>10. k = "lacks" => Loop(IF c.method = "return" THEN alone ELSE threw)
  BY DEF Delegate, alone, threw
<1>11. k = "done" => Loop(IF c.method = "return" THEN after ELSE next)
  BY DEF Delegate, alone, after, next
<1> QED BY <1>5, <1>6, <1>7, <1>8, <1>9, <1>10, <1>11 DEF InnerAnswers

\* Each step of the body is one of structured control flow.
LEMMA BodyStep ==
  ASSUME GeneratorAssumption, GeneratorInv,
         Plain \/ Throw \/ Return \/ Jump \/ Try \/ Catch \/ EndBlock \/ Yield \/ DelegateYield
  PROVE  GeneratorInv' /\ Lexical!Step
<1> DEFINE q == context.prev
<1>0. state = "executing" /\ Live
  BY DEF Plain, Throw, Return, Jump, Try, Catch, EndBlock, Yield, DelegateYield, Op, Live
<1>1. gen \in Generators /\ q \in DOMAIN gen.code /\ q \in Nat \ {0} /\ q # End /\ q \in Int
      /\ context \in Contexts /\ context.completion \in [E -> Record] /\ context.root = Normal
      /\ Instruction(gen, q)
  BY <1>0, Located
<1>2. context.method \in {"next", "throw"} /\ context.delegate = FALSE /\ context.next = q
  BY <1>0 DEF GeneratorInv, Placed
<1>3. Mode = "running" /\ Place = q /\ Text.code[q] = Instr
  BY <1>0 DEF Mode, Place, Text, Instr
<1>4. CASE Plain
  <2>1. Instr.op = "plain" BY <1>4 DEF Plain, Op
  <2>2. CASE MoveTo(context, q + 1)
    <3>1. GeneratorInv' /\ Lexical!Go(q + 1) /\ UNCHANGED Text
      BY <1>0, <1>1, <1>2, <2>1, <2>2, StepOn
    <3> QED BY <1>3, <2>1, <3>1 DEF Lexical!Step, Lexical!Instr
  <2>3. CASE BodyThrew(q)
    <3>1. GeneratorInv' /\ Lexical!Raise(q) /\ UNCHANGED Text
      BY <1>0, <1>1, <2>1, <2>3, ThrewStep
    <3> QED BY <1>3, <2>1, <3>1 DEF Lexical!Step, Lexical!Instr
  <2> QED BY <1>4, <2>2, <2>3 DEF Plain
<1>5. CASE Throw
  <2>1. Instr.op = "throw" /\ BodyThrew(q) BY <1>5 DEF Throw, Op
  <2>2. GeneratorInv' /\ Lexical!Raise(q) /\ UNCHANGED Text
    BY <1>0, <1>1, <2>1, ThrewStep
  <2> QED BY <1>3, <2>1, <2>2 DEF Lexical!Step, Lexical!Instr
<1>6. CASE Return
  <2>1. Instr.op = "return" /\ Loop(Abrupt(context, "return", q)) BY <1>6 DEF Return, Op
  <2>2. GeneratorInv' /\ Lexical!Return(q) /\ UNCHANGED Text
    BY <1>0, <2>1, ReturnsStep
  <2> QED BY <1>3, <2>1, <2>2 DEF Lexical!Step, Lexical!Instr
<1>7. CASE Jump
  <2>1. Instr.op = "jump" BY <1>7 DEF Jump, Op
  <2>2. CASE MoveTo(context, q + 1)
    <3>1. GeneratorInv' /\ Lexical!Go(q + 1) /\ UNCHANGED Text
      BY <1>0, <1>1, <1>2, <2>1, <2>2, StepOn
    <3> QED BY <1>3, <2>1, <3>1 DEF Lexical!Step, Lexical!Instr
  <2>3. CASE Loop(Abrupt(context, "jump", Instr.to))
    <3>1. GeneratorInv' /\ Lexical!Jump(Instr.to) /\ UNCHANGED Text
      BY <1>0, <2>1, <2>3, JumpStep
    <3> QED BY <1>3, <2>1, <3>1 DEF Lexical!Step, Lexical!Instr
  <2> QED BY <1>7, <2>2, <2>3 DEF Jump
<1>8. CASE Try
  <2>1. Instr.op = "try" /\ MoveTo(context, Instr.to) BY <1>8 DEF Try, Op
  <2>2. Instr.to = q + 1 BY <1>1, <2>1 DEF Instruction, Instr
  <2>3. GeneratorInv' /\ Lexical!Go(q + 1) /\ UNCHANGED Text
    BY <1>0, <1>1, <1>2, <2>1, <2>2, StepOn
  <2> QED BY <1>3, <2>1, <2>2, <2>3 DEF Lexical!Step, Lexical!Instr
<1>9. CASE Catch
  <2> DEFINE i == Instr.try
             cp == [context.completion EXCEPT ![i] = Normal]
             c == [context EXCEPT !.completion[i] = Normal]
  <2>1. Instr.op = "catch" /\ MoveTo(c, q + 1) BY <1>9 DEF Catch, Op
  <2>2. Instr.to = q + 1 /\ i \in E /\ T(i).catchLoc = q
    BY <1>1, <2>1 DEF Instruction, Instr, E, T
  <2>3. \A j \in E : T(j).catchLoc = q => j = i
    <3>1. ASSUME NEW a \in E, NEW b \in E, a < b, T(a).catchLoc = q, T(b).catchLoc = q PROVE FALSE
      <4>1. T(b).tryLoc < BodyEnd(T(a)) /\ BodyEnd(T(a)) = q /\ q <= T(b).afterLoc
        BY <1>1, <3>1, Entries
      <4>2. T(b).afterLoc < q BY <1>1, <3>1, <4>1, Nesting
      <4> QED BY <1>1, <4>1, <4>2, Entries
    <3> QED BY <1>1, <2>2, <3>1, Numbered
  <2>4. Normal \in Record BY DEF Record
  <2>5. cp \in [E -> Record] /\ cp \in [DOMAIN gen.tries -> Record] BY <1>1, <2>4 DEF E
  <2>6. \A j \in E : cp[j] = IF j = i THEN Normal ELSE context.completion[j] BY <1>1
  <2>7. c = [context EXCEPT !.completion = cp] OBVIOUS
  <2> HIDE DEF cp, c
  <2>8. /\ c \in Contexts /\ c.completion = cp /\ c.root = Normal /\ c.delegate = FALSE
        /\ c.method = context.method
    BY <1>1, <1>2, <2>5, <2>7, ContextIs DEF Contexts
  <2>9. /\ \A j \in E : \/ c.completion[j] = context.completion[j]
                        \/ c.completion[j] = Normal /\ q = T(j).catchLoc
        /\ \A j \in E : q = T(j).catchLoc => c.completion[j] = Normal
    BY <2>2, <2>3, <2>6, <2>8
  <2>10. GeneratorInv' /\ Lexical!Go(q + 1) /\ UNCHANGED Text
    BY <1>0, <1>2, <2>1, <2>5, <2>8, <2>9, StepOn
  <2> QED BY <1>3, <2>1, <2>2, <2>10 DEF Lexical!Step, Lexical!Instr
<1>10. CASE EndBlock
  <2> DEFINE i == Instr.try
             r == context.completion[i]
  <2>1. Instr.op = "endblock" BY <1>10 DEF EndBlock, Op
  <2>2. i \in E BY <1>0, <2>1, BlockIs
  <2>3. CASE /\ T(i).finallyLoc = 0 \/ q < T(i).finallyLoc
             /\ MoveTo(context, IF T(i).finallyLoc # 0 THEN T(i).finallyLoc ELSE T(i).afterLoc)
    <3>1. i = Instr.try OBVIOUS
    <3> HIDE DEF i
    <3>2. GeneratorInv' /\ Lexical!EndBlock /\ UNCHANGED Text
      BY <1>0, <2>1, <2>3, <3>1, BlockStep
    <3> QED BY <1>3, <2>1, <3>2 DEF Lexical!Step, Lexical!Instr
  <2>4. CASE /\ T(i).finallyLoc # 0 /\ q >= T(i).finallyLoc
             /\ IF r[1] = "throw" THEN BodyThrew(r[2])
                ELSE Loop([Complete(context, r, T(i).afterLoc) EXCEPT !.completion[i] = Normal])
    <3>1. T(i).finallyLoc <= q BY <1>1, <2>2, <2>4, Entries
    <3>2. i = Instr.try /\ r = context.completion[i] OBVIOUS
    <3> HIDE DEF i, r
    <3>3. GeneratorInv' /\ Lexical!EndBlock /\ UNCHANGED Text
      BY <1>0, <2>1, <2>4, <3>1, <3>2, FinallyStep
    <3> QED BY <1>3, <2>1, <3>3 DEF Lexical!Step, Lexical!Instr
  <2> QED BY <1>10, <2>3, <2>4 DEF EndBlock, T
<1>11. CASE Yield
  <2>1. Instr.op = "yield" /\ context' = [context EXCEPT !.next = @ + 1]
        /\ Answer("suspendedYield", <<"yielded", q>>)
    BY <1>11 DEF Yield, Op
  <2>2. q + 1 \in 1..End BY <1>1, Numbered
  <2>3. /\ context' \in Contexts /\ context'.prev = q /\ context'.completion = context.completion
        /\ context'.root = Normal /\ context'.delegate = FALSE /\ context'.next = q + 1
    BY <1>1, <1>2, <2>1, <2>2, ContextIs DEF Contexts
  <2>4. GeneratorInv' /\ Lexical!Suspend /\ UNCHANGED Text
    BY <1>0, <1>1, <2>1, <2>3, Suspends DEF Answer
  <2> QED BY <1>3, <2>1, <2>4 DEF Lexical!Step, Lexical!Instr
<1>12. CASE DelegateYield
  <2> DEFINE c == [context EXCEPT !.delegate = TRUE]
  <2>1. Instr.op = "delegate" /\ \E k \in InnerAnswers : Delegate(c, k)
    BY <1>12 DEF DelegateYield, Op
  <2>2. PICK k \in InnerAnswers : Delegate(c, k) BY <2>1
  <2>3. /\ c \in Contexts /\ c.prev = q /\ c.completion = context.completion
        /\ c.root = Normal /\ c.delegate = TRUE /\ c.method \in {"next", "throw"}
    BY <1>1, <1>2, ContextIs DEF Contexts
  <2> HIDE DEF c
  <2>4. /\ GeneratorInv' /\ UNCHANGED Text
        /\ Lexical!Suspend \/ Lexical!Raise(Inner) \/ Lexical!Go(q + 1)
    BY <1>0, <2>1, <2>2, <2>3, DelegateStep
  <2> QED BY <1>3, <2>1, <2>4 DEF Lexical!Step, Lexical!Instr, Lexical!Inner, Inner
<1> QED BY <1>4, <1>5, <1>6, <1>7, <1>8, <1>9, <1>10, <1>11, <1>12

\* A generator that has not begun: it is started, refused or ended.
LEMMA StartStep ==
  ASSUME GeneratorAssumption, GeneratorInv, state = "suspendedStart",
         NEW m \in {"next", "return"}, NEW c,
         c = [context EXCEPT !.method = m, !.arg = IF m = "next" THEN None ELSE Given],
         Loop(c)
  PROVE  GeneratorInv' /\ Lexical!Start
<1>1. /\ gen \in Generators /\ context \in Contexts /\ context.prev = Start
      /\ context.next = Start /\ context.delegate = FALSE /\ context.root = Normal
      /\ context.completion \in [E -> Record]
      /\ \A i \in E : context.completion[i] = Normal
  BY Parts DEF GeneratorInv, TypeOK, Placed, E
<1>2. Start \in DOMAIN gen.code /\ Start \in 1..End /\ Start # End /\ Start = 1
  BY <1>1, Numbered DEF Start
<1>3. None \in Int /\ Given \in Int BY DEF None, Given
<1>4. /\ c \in Contexts /\ c.prev = Start /\ c.next = Start /\ c.delegate = FALSE
      /\ c.root = Normal /\ c.completion = context.completion /\ c.method = m
      /\ m = "return" => c.arg = Given
  BY <1>1, <1>3, ContextIs DEF Contexts
<1>5. Mode = "fresh" /\ Text.start = Start BY DEF Mode, Text
<1>6. CASE m = "next"
  <2>1. MoveTo(c, Start) BY <1>2, <1>4, <1>6 DEF Loop
  <2>2. Arrives(Start) /\ context'.completion = context.completion /\ context'.method = "next"
    BY <1>1, <1>2, <1>4, <1>6, <2>1, RunsTo
  <2>3. \A i \in E : Pending[R(i)] = Normal BY <1>1, PendingIs
  <2> DEFINE b == Start
  <2>4. b \in DOMAIN gen.code /\ Arrives(b) BY <1>2, <2>2
  <2> HIDE DEF b
  <2>5. GeneratorInv' /\ Lexical!Go(b) /\ UNCHANGED Text
    BY <1>1, <2>2, <2>3, <2>4, Goes
  <2> QED BY <1>5, <2>5 DEF b, Lexical!Start
<1>7. CASE m = "return"
  <2> DEFINE d == Abrupt(c, "return", Given)
  <2>1. Outer(Start) = {}
    <3>1. Followed(gen) BY <1>1 DEF GeneratorAssumption, WellFormed
    <3>2. \A i \in E : T(i).finallyLoc # 0 => ~(T(i).tryLoc <= Start)
      BY <1>1, <1>2, <3>1, Entries DEF Followed, E, T
    <3> QED BY <3>2 DEF Outer, Runs
  <2>2. Abrupted(c, "return", Given, d)
    BY <1>1, <1>2, <1>3, <1>4, AbruptIs
  <2>3. d = Abrupt(c, "return", c.arg) BY <1>4, <1>7
  <2> HIDE DEF d
  <2>4. d \in Contexts /\ d.next = End /\ d.rval = Given /\ d.root = Normal
    BY <1>4, <2>1, <2>2 DEF Abrupted
  <2>5. context' = [d EXCEPT !.prev = End] /\ Answer("completed", <<"returned", Given>>)
    BY <1>4, <1>7, <2>3, <2>4 DEF Loop, Normal
  <2>6. context' \in Contexts BY <1>1, <2>4, <2>5, EndIs
  <2>7. GeneratorInv' /\ Lexical!Stop(<<"returned", Given>>) /\ UNCHANGED Text
    BY <2>5, <2>6, Stops DEF Answer
  <2> QED BY <1>5, <2>7 DEF Lexical!Start, Lexical!Given, Given
<1> QED BY <1>6, <1>7

\* Each call of the generator is one of structured control flow.
LEMMA InvokeStep ==
  ASSUME GeneratorAssumption, GeneratorInv, NEW m \in {"next", "throw", "return"}, Invoke(m)
  PROVE  GeneratorInv' /\ (Lexical!Start \/ Lexical!Resume(m) \/ Lexical!Ask(m))
<1> DEFINE q == context.prev
           c == [context EXCEPT !.method = m, !.arg = IF m = "next" THEN None ELSE Given]
<1>1. gen \in Generators /\ context \in Contexts BY DEF GeneratorInv, TypeOK
<1>2. None \in Int /\ Given \in Int BY DEF None, Given
<1>3. /\ c \in Contexts /\ c.prev = q /\ c.next = context.next /\ c.delegate = context.delegate
      /\ c.root = context.root /\ c.completion = context.completion /\ c.method = m
      /\ m # "next" => c.arg = Given
  BY <1>1, <1>2, ContextIs DEF Contexts
<1>4. CASE state = "completed"
  <2>1. UNCHANGED context /\ Answer("completed", IF m = "throw" THEN <<"threw", Given>>
                                                 ELSE <<"returned", None>>)
    BY <1>4 DEF Invoke
  <2>2. (Contexts)' = Contexts BY <2>1 DEF Contexts, End, Start, Answer
  <2>3. GeneratorInv'
    BY <1>1, <2>1, <2>2 DEF GeneratorInv, TypeOK, Placed, ThrowsOn, Settled, JumpsPending, Live, Answer
  <2>4. UNCHANGED <<Text, Place, Mode>> /\ Mode = "done"
    BY <1>4, <2>1 DEF Text, Place, Mode, Live, Answer
  <2>5. UNCHANGED Pending BY <1>4, <2>1, <2>4 DEF Pending, Live, Answer
  <2> QED BY <2>1, <2>3, <2>4, <2>5
          DEF Answer, Lexical!Ask, Lexical!Given, Lexical!None, Given, None
<1>5. CASE state = "suspendedStart" /\ m = "throw"
  <2>1. context' = c /\ Answer("completed", <<"threw", Given>>)
    <3>1. ~(state = "completed") /\ state # "suspendedYield" BY <1>5
    <3> QED BY <1>5, <3>1 DEF Invoke
  <2>2. GeneratorInv' /\ Lexical!Stop(<<"threw", Given>>) /\ UNCHANGED Text
    BY <1>3, <2>1, Stops DEF Answer
  <2>3. Mode = "fresh" BY <1>5 DEF Mode
  <2> QED BY <2>2, <2>3 DEF Lexical!Start, Lexical!Given, Given
<1>6. CASE state = "suspendedStart" /\ m # "throw"
  <2>1. Loop(c) BY <1>6 DEF Invoke
  <2>2. m \in {"next", "return"} BY <1>6
  <2>3. c = [context EXCEPT !.method = m, !.arg = IF m = "next" THEN None ELSE Given] OBVIOUS
  <2> HIDE DEF c
  <2>4. GeneratorInv' /\ Lexical!Start BY <1>6, <2>1, <2>2, <2>3, StartStep
  <2> QED BY <2>4
<1>7. CASE state = "suspendedYield"
  <2>0. Live BY <1>7 DEF Live
  <2>1. /\ q \in DOMAIN gen.code /\ q \in Nat \ {0} /\ q # End /\ context.root = Normal
        /\ context.completion \in [E -> Record]
    BY <2>0, Located
  <2>2. /\ Mode = "suspended" /\ Place = q /\ Text.code[q] = Instr
        /\ Instr.op = (IF context.delegate THEN "delegate" ELSE "yield")
    BY <1>7, <2>0 DEF Mode, Place, Text, Instr, GeneratorInv, Placed
  <2>3. CASE ~context.delegate
    <3>1. Loop(c) BY <1>7, <2>3 DEF Invoke
    <3>2. Instr.op = "yield" /\ c.delegate = FALSE /\ c.root = Normal
          /\ gen.code[context.prev].op # "catch" /\ context.next = q + 1
      BY <1>3, <1>7, <2>1, <2>2, <2>3, Parts, <1>1 DEF Instr, GeneratorInv, Placed
    <3> HIDE DEF c
    <3>3. CASE m = "next"
      <4>1. q + 1 # End
        BY <1>1, <2>0, <2>1, <3>2, Located, Numbered DEF Instruction, Instr, Size
      <4>2. MoveTo(c, q + 1) BY <1>3, <3>1, <3>2, <3>3, <4>1 DEF Loop
      <4>3. GeneratorInv' /\ Lexical!Go(q + 1) /\ UNCHANGED Text
        BY <1>3, <2>0, <2>1, <3>2, <3>3, <4>2, StepOn
      <4> QED BY <2>2, <3>3, <4>3 DEF Lexical!Resume
    <3>4. CASE m = "throw"
      <4>1. GeneratorInv' /\ Lexical!Raise(c.arg) /\ UNCHANGED Text
        BY <1>3, <2>0, <2>1, <3>1, <3>2, <3>4, ThrowStep
      <4> QED BY <1>3, <2>2, <3>2, <3>4, <4>1
              DEF Lexical!Resume, Lexical!Instr, Lexical!Given, Given
    <3>5. CASE m = "return"
      <4>1. Kept(c.completion) BY <1>3, <2>1 DEF Kept
      <4>2. GeneratorInv' /\ Lexical!Return(c.arg) /\ UNCHANGED Text
        BY <1>3, <2>0, <2>1, <3>1, <3>2, <3>5, <4>1, ReturnStep
      <4> QED BY <1>3, <2>2, <3>5, <4>2 DEF Lexical!Resume, Lexical!Given, Given
    <3> QED BY <3>3, <3>4, <3>5
  <2>4. CASE context.delegate
    <3>1. PICK k \in InnerAnswers : Delegate(c, k) BY <1>7, <2>4 DEF Invoke
    <3>2. Instr.op = "delegate" /\ c.delegate = TRUE /\ c.root = Normal
      BY <1>1, <1>3, <2>1, <2>2, <2>4, Parts
    <3> HIDE DEF c
    <3>3. /\ GeneratorInv' /\ UNCHANGED Text
          /\ \/ Lexical!Suspend \/ Lexical!Raise(Inner)
             \/ m = "return" /\ Lexical!Return(Given)
             \/ m # "return" /\ Lexical!Go(q + 1)
      BY <1>3, <2>0, <3>1, <3>2, DelegateStep
    <3> QED BY <2>2, <3>2, <3>3
            DEF Lexical!Resume, Lexical!Instr, Lexical!Given, Lexical!Inner, Given, Inner
  <2> QED BY <2>3, <2>4
<1>8. state \in {"completed", "suspendedStart", "suspendedYield"} BY DEF Invoke
<1> QED BY <1>4, <1>5, <1>6, <1>7, <1>8

-----------------------------------------------------------------------------
LEMMA InitImplements == GeneratorAssumption /\ Init => GeneratorInv /\ Lexical!Init
<1> SUFFICES ASSUME GeneratorAssumption, Init PROVE GeneratorInv /\ Lexical!Init OBVIOUS
<1>1. gen \in Generators BY DEF Init
<1>2. Start \in 1..End /\ Start # End BY <1>1, Numbered DEF Start
<1>3. Normal \in Record /\ None \in Int BY DEF Record, None
<1>4. TypeOK BY <1>1, <1>2, <1>3 DEF Init, TypeOK, Contexts
<1>5. Placed /\ ThrowsOn /\ Settled /\ JumpsPending
  BY <1>2 DEF Init, Placed, ThrowsOn, Settled, JumpsPending, Live
<1>6. Place = 0 /\ Mode = "fresh" /\ Pending = [r \in Text.regions |-> Normal]
  BY DEF Init, Place, Mode, Pending, Live
<1> QED BY <1>4, <1>5, <1>6
        DEF GeneratorInv, Lexical!Init, Lexical!Idle, Lexical!Normal, Lexical!Nothing, Normal, Init

LEMMA StepImplements ==
  GeneratorAssumption /\ GeneratorInv /\ [Next]_vars => GeneratorInv' /\ [Lexical!Next]_Lexical!vars
<1> SUFFICES ASSUME GeneratorAssumption, GeneratorInv, [Next]_vars
             PROVE  GeneratorInv' /\ [Lexical!Next]_Lexical!vars
  OBVIOUS
<1>1. CASE \E m \in {"next", "throw", "return"} : Invoke(m)
  BY <1>1, InvokeStep DEF Lexical!Next
<1>2. CASE Plain \/ Throw \/ Return \/ Jump \/ Try \/ Catch \/ EndBlock \/ Yield \/ DelegateYield
  BY <1>2, BodyStep DEF Lexical!Next
<1>3. CASE UNCHANGED vars
  <2>1. (Contexts)' = Contexts BY <1>3 DEF vars, Contexts, End, Start
  <2>2. GeneratorInv'
    <3>1. TypeOK' BY <1>3, <2>1 DEF GeneratorInv, TypeOK, vars
    <3>2. Placed' BY <1>3 DEF GeneratorInv, Placed, vars, Instr, End
    <3>3. ThrowsOn' BY <1>3 DEF GeneratorInv, ThrowsOn, vars, Finally
    <3>4. Settled' BY <1>3 DEF GeneratorInv, Settled, vars, Live
    <3>5. JumpsPending' BY <1>3 DEF GeneratorInv, JumpsPending, vars, Live
    <3> QED BY <3>1, <3>2, <3>3, <3>4, <3>5 DEF GeneratorInv
  <2>3. UNCHANGED <<Text, Place, Mode, out>> BY <1>3 DEF Text, Place, Mode, Live, vars
  <2>4. UNCHANGED Pending
    <3>1. \A r \in Text.regions : EntryOf(r)' = EntryOf(r) BY <1>3 DEF EntryOf, vars
    <3>2. Pending' = [r \in Text.regions |-> IF Live' /\ context.prev \in r.finally
                                             THEN context.completion[EntryOf(r)] ELSE Normal]
      BY <1>3, <2>3, <3>1 DEF Pending, vars
    <3>3. Live' = Live BY <1>3 DEF Live, vars
    <3> QED BY <3>2, <3>3 DEF Pending
  <2> QED BY <2>2, <2>3, <2>4 DEF Lexical!vars
<1> QED BY <1>1, <1>2, <1>3 DEF Next

\* The contexts of well-formed bodies are what they should be, and a record
\* that is set belongs to the handler that runs or to a block that is behind.
THEOREM GeneratorInvariant == ASSUME GeneratorAssumption PROVE Spec => []GeneratorInv
<1>1. Init => GeneratorInv BY InitImplements
<1>2. GeneratorInv /\ [Next]_vars => GeneratorInv' BY StepImplements
<1> QED BY <1>1, <1>2, PTL DEF Spec

\* The runtime decides by comparing locations, and is right: every exception,
\* return and jump goes where the text of the body says, through the finally
\* blocks on its way, and what was pending is resumed.
THEOREM GeneratorImplements == ASSUME GeneratorAssumption PROVE Spec => GeneratorIsLexical
<1>1. Init => GeneratorInv /\ Lexical!Init BY InitImplements
<1>2. GeneratorInv /\ [Next]_vars => GeneratorInv' /\ [Lexical!Next]_Lexical!vars
  BY StepImplements
<1> QED BY <1>1, <1>2, PTL DEF Spec, GeneratorIsLexical, Lexical!Spec

\* The type invariant.
THEOREM GeneratorTypes == ASSUME GeneratorAssumption PROVE Spec => []TypeOK
<1>1. GeneratorInv => TypeOK BY DEF GeneratorInv
<1> QED BY <1>1, GeneratorInvariant, PTL
=============================================================================

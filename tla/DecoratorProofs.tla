--------------------------- MODULE DecoratorProofs ---------------------------
(***************************************************************************)
(* What holds of the decorator runtimes of the signing script for any      *)
(* classes and any bounds: the elements of the old one (LegacyDecorators)  *)
(* stay different and in step with the keys it has noted, and the four     *)
(* newer ones (Decorators) keep their contract.  Each has an inductive     *)
(* invariant, that LegacyInv and DecoratorInv state; the theorem at the    *)
(* end is about the composition that the run of MCScript explores.         *)
(*                                                                         *)
(* Induction, Recursion and Least are what the proofs need of natural      *)
(* numbers: the models collect, place and concatenate by functions that    *)
(* are defined by recursion on the length of a sequence.                   *)
(***************************************************************************)
EXTENDS MCScript, FiniteSetTheorems, SequenceTheorems, WellFoundedInduction, TLAPS

\* Induction over the natural numbers, for a set of them.
LEMMA Induction ==
    ASSUME NEW S, 0 \in S, \A n \in Nat : n \in S => n + 1 \in S
    PROVE  Nat \subseteq S
<1> DEFINE R == OpToRel(<, Nat)
<1> SUFFICES ASSUME Nat \ S # {} PROVE FALSE OBVIOUS
<1>1. IsWellFoundedOn(R, Nat) BY NatLessThanWellFounded
<1>2. \A x, y \in Nat : x < y => <<x, y>> \in R BY DEF OpToRel
<1> HIDE DEF R
<1>3. PICK x \in Nat \ S : \A y \in Nat \ S : ~(<<y, x>> \in R) BY <1>1, WFMin
<1>4. x # 0 /\ x - 1 \in Nat /\ x - 1 < x BY <1>3
<1>5. x - 1 \in S BY <1>2, <1>3, <1>4
<1>6. (x - 1) + 1 = x BY <1>3
<1> QED BY <1>3, <1>4, <1>5, <1>6

-----------------------------------------------------------------------------
\* A function defined by recursion on 0..n exists: turn[i] maps what there is
\* after i - 1 to what there is after i.
LEMMA Recursion ==
    ASSUME NEW S, NEW a \in S, NEW n \in Nat, NEW turn \in [1..n -> [S -> S]]
    PROVE  \E f \in [0..n -> S] : f[0] = a /\ \A i \in 1..n : f[i] = turn[i][f[i - 1]]
<1> DEFINE Upto(k, f) == f \in [0..k -> S] /\ f[0] = a /\ \A i \in 1..k : f[i] = turn[i][f[i - 1]]
           Fine == {k \in Nat : k <= n => \E f : Upto(k, f)}
<1>1. 0 \in Fine
  <2>1. Upto(0, [i \in 0..0 |-> a]) OBVIOUS
  <2> QED BY <2>1
<1>2. ASSUME NEW k \in Nat, k \in Fine, k + 1 <= n PROVE \E f : Upto(k + 1, f)
  <2>1. PICK f : Upto(k, f) BY <1>2
  <2> DEFINE g == [i \in 0..(k + 1) |-> IF i = k + 1 THEN turn[k + 1][f[k]] ELSE f[i]]
  <2>2. turn[k + 1] \in [S -> S] BY <1>2
  <2>3. f[k] \in S BY <2>1
  <2>4. turn[k + 1][f[k]] \in S BY <2>2, <2>3
  <2>5. g \in [0..(k + 1) -> S] BY <2>1, <2>4
  <2>6. g[0] = a BY <2>1
  <2>7. ASSUME NEW i \in 1..(k + 1) PROVE g[i] = turn[i][g[i - 1]]
    <3>1. CASE i = k + 1 BY <3>1
    <3>2. CASE i # k + 1
      <4>1. i \in 1..k /\ i - 1 \in 0..k /\ i - 1 # k + 1 /\ i \in 0..(k+1) /\ i - 1 \in 0..(k+1) BY <3>2
      <4>2. g[i] = f[i] /\ g[i - 1] = f[i - 1] BY <4>1, <3>2
      <4> QED BY <4>1, <4>2, <2>1
    <3> QED BY <3>1, <3>2
  <2> HIDE DEF g
  <2> QED BY <2>5, <2>6, <2>7
<1> HIDE DEF Upto
<1>3. Nat \subseteq Fine
  <2>1. \A k \in Nat : k \in Fine => k + 1 \in Fine BY <1>2
  <2> HIDE DEF Fine
  <2> QED BY <1>1, <2>1, Induction
<1> QED BY <1>3 DEF Upto

\* The least member of a set of numbers.
LEMMA Least ==
    ASSUME NEW S \in SUBSET Nat, S # {}
    PROVE  Legacy!Min(S) \in S /\ \A y \in S : Legacy!Min(S) <= y
<1> DEFINE R == OpToRel(<, Nat)
<1>1. IsWellFoundedOn(R, Nat) BY NatLessThanWellFounded
<1>2. \A x, y \in Nat : x < y => <<x, y>> \in R BY DEF OpToRel
<1> HIDE DEF R
<1>3. PICK x \in S : \A y \in S : ~(<<y, x>> \in R) BY <1>1, WFMin
<1>4. ASSUME NEW y \in S PROVE x <= y
  <2>1. x \in Nat /\ y \in Nat OBVIOUS
  <2>2. ~(y < x) BY <2>1, <1>2, <1>3
  <2> QED BY <2>1, <2>2
<1> QED BY <1>4 DEF Legacy!Min

-----------------------------------------------------------------------------
(* LegacyDecorators.                                                       *)

\* What the model assumes of the classes that are decorated.
LEMMA LegacyTexts == Legacy!LegacyAssumption
BY ClassesAssumption

\* What is in a concatenation, and when all of it is different.
LEMMA Joined ==
    ASSUME NEW T, NEW s \in Seq(T), NEW t \in Seq(T)
    PROVE  /\ Legacy!ToSet(s \o t) = Legacy!ToSet(s) \cup Legacy!ToSet(t)
           /\ Legacy!IsInjective(s \o t) <=>
                /\ Legacy!IsInjective(s) /\ Legacy!IsInjective(t)
                /\ Legacy!ToSet(s) \cap Legacy!ToSet(t) = {}
<1> DEFINE u == s \o t
           h == Len(s)
           n == Len(t)
<1>1. /\ h \in Nat /\ n \in Nat /\ DOMAIN s = 1..h /\ DOMAIN t = 1..n /\ DOMAIN u = 1..(h + n)
      /\ \A i \in 1..h : u[i] = s[i]
      /\ \A i \in 1..n : u[h + i] = t[i]
  OBVIOUS
<1> HIDE DEF u, h, n
<1>2. \A i \in 1..(h + n) : i \in 1..h \/ (i - h \in 1..n /\ i = h + (i - h)) BY <1>1
<1>3. \A i \in 1..h : i \in 1..(h + n) BY <1>1
<1>4. \A i \in 1..n : h + i \in 1..(h + n) BY <1>1
<1>5. Legacy!ToSet(u) \subseteq Legacy!ToSet(s) \cup Legacy!ToSet(t)
  <2> SUFFICES ASSUME NEW i \in 1..(h + n) PROVE u[i] \in Legacy!ToSet(s) \cup Legacy!ToSet(t)
    BY <1>1 DEF Legacy!ToSet
  <2> QED BY <1>1, <1>2 DEF Legacy!ToSet
<1>6. Legacy!ToSet(s) \subseteq Legacy!ToSet(u) BY <1>1, <1>3 DEF Legacy!ToSet
<1>7. Legacy!ToSet(t) \subseteq Legacy!ToSet(u) BY <1>1, <1>4 DEF Legacy!ToSet
<1>8. ASSUME Legacy!IsInjective(u)
      PROVE  /\ Legacy!IsInjective(s) /\ Legacy!IsInjective(t)
             /\ Legacy!ToSet(s) \cap Legacy!ToSet(t) = {}
  <2>1. Legacy!IsInjective(s) BY <1>1, <1>3, <1>8 DEF Legacy!IsInjective
  <2>2. Legacy!IsInjective(t)
    <3> SUFFICES ASSUME NEW i \in 1..n, NEW j \in 1..n, t[i] = t[j] PROVE i = j
      BY <1>1 DEF Legacy!IsInjective
    <3>1. h + i = h + j BY <1>1, <1>4, <1>8 DEF Legacy!IsInjective
    <3> QED BY <3>1, <1>1
  <2>3. ASSUME NEW i \in 1..h, NEW j \in 1..n PROVE s[i] # t[j]
    <3>1. i # h + j BY <1>1
    <3> QED BY <3>1, <1>1, <1>3, <1>4, <1>8 DEF Legacy!IsInjective
  <2>4. Legacy!ToSet(s) \cap Legacy!ToSet(t) = {} BY <1>1, <2>3 DEF Legacy!ToSet
  <2> QED BY <2>1, <2>2, <2>4
<1>9. ASSUME Legacy!IsInjective(s), Legacy!IsInjective(t),
             Legacy!ToSet(s) \cap Legacy!ToSet(t) = {}
      PROVE  Legacy!IsInjective(u)
  <2> SUFFICES ASSUME NEW i \in 1..(h + n), NEW j \in 1..(h + n), u[i] = u[j] PROVE i = j
    BY <1>1 DEF Legacy!IsInjective
  <2>1. \A k \in 1..h, l \in 1..n : s[k] # t[l] BY <1>1, <1>9 DEF Legacy!ToSet
  <2>2. CASE i \in 1..h /\ j \in 1..h BY <2>2, <1>1, <1>9 DEF Legacy!IsInjective
  <2>3. CASE i \in 1..h /\ j - h \in 1..n
    <3>1. u[i] = s[i] /\ u[j] = t[j - h] BY <2>3, <1>1, <1>2
    <3> QED BY <3>1, <2>1, <2>3
  <2>4. CASE i - h \in 1..n /\ j \in 1..h
    <3>1. u[i] = t[i - h] /\ u[j] = s[j] BY <2>4, <1>1, <1>2
    <3> QED BY <3>1, <2>1, <2>4
  <2>5. CASE i - h \in 1..n /\ j - h \in 1..n
    <3>3. h + (i - h) = i /\ h + (j - h) = j BY <1>1
    <3>4. u[h + (i - h)] = t[i - h] /\ u[h + (j - h)] = t[j - h] BY <2>5, <1>1
    <3>1. u[i] = t[i - h] /\ u[j] = t[j - h] BY <3>3, <3>4
    <3>2. i - h = j - h BY <3>1, <2>5, <1>1, <1>9 DEF Legacy!IsInjective
    <3> QED BY <3>2, <1>1
  <2> QED BY <1>2, <2>2, <2>3, <2>4, <2>5
<1> QED BY <1>5, <1>6, <1>7, <1>8, <1>9 DEF u

\* A sequence without one of its elements.
LEMMA Removed ==
    ASSUME NEW T, NEW s \in Seq(T), NEW i \in 1..Len(s)
    PROVE  /\ Legacy!RemoveAt(s, i) \in Seq(T)
           /\ Legacy!IsInjective(s) =>
                /\ Legacy!IsInjective(Legacy!RemoveAt(s, i))
                /\ Legacy!ToSet(Legacy!RemoveAt(s, i)) = Legacy!ToSet(s) \ {s[i]}
<1> DEFINE a == SubSeq(s, 1, i - 1)
           b == SubSeq(s, i + 1, Len(s))
           h == Len(s)
<1>1. /\ h \in Nat /\ i \in 1..h /\ DOMAIN s = 1..h /\ \A k \in 1..h : s[k] \in T
      /\ a \in Seq(T) /\ b \in Seq(T) /\ DOMAIN a = 1..(i - 1) /\ DOMAIN b = 1..(h - i)
      /\ \A k \in 1..(i - 1) : a[k] = s[k]
      /\ \A k \in 1..(h - i) : b[k] = s[i + k]
  OBVIOUS
<1>2. Legacy!RemoveAt(s, i) = a \o b BY DEF Legacy!RemoveAt
<1> HIDE DEF a, b, h
<1>3. a \o b \in Seq(T) BY <1>1
<1>4. ASSUME Legacy!IsInjective(s)
      PROVE  Legacy!IsInjective(a \o b) /\ Legacy!ToSet(a \o b) = Legacy!ToSet(s) \ {s[i]}
  <2>1. Legacy!IsInjective(a) BY <1>1, <1>4 DEF Legacy!IsInjective
  <2>2. Legacy!IsInjective(b)
    <3> SUFFICES ASSUME NEW k \in 1..(h - i), NEW l \in 1..(h - i), b[k] = b[l] PROVE k = l
      BY <1>1 DEF Legacy!IsInjective
    <3>1. i + k \in 1..h /\ i + l \in 1..h /\ s[i + k] = s[i + l] BY <1>1
    <3>2. i + k = i + l BY <3>1, <1>1, <1>4 DEF Legacy!IsInjective
    <3> QED BY <3>2, <1>1
  <2>3. ASSUME NEW k \in 1..(i - 1), NEW l \in 1..(h - i) PROVE a[k] # b[l]
    <3>1. k \in 1..h /\ i + l \in 1..h /\ k # i + l BY <1>1
    <3> QED BY <3>1, <1>1, <1>4 DEF Legacy!IsInjective
  <2>4. Legacy!ToSet(a) \cap Legacy!ToSet(b) = {} BY <2>3, <1>1 DEF Legacy!ToSet
  <2>5. Legacy!ToSet(a) \cup Legacy!ToSet(b) \subseteq Legacy!ToSet(s) \ {s[i]}
    <3>1. ASSUME NEW k \in 1..(i - 1) PROVE a[k] \in Legacy!ToSet(s) \ {s[i]}
      <4>1. k \in 1..h /\ k # i BY <1>1
      <4> QED BY <4>1, <1>1, <1>4 DEF Legacy!IsInjective, Legacy!ToSet
    <3>2. ASSUME NEW k \in 1..(h - i) PROVE b[k] \in Legacy!ToSet(s) \ {s[i]}
      <4>1. i + k \in 1..h /\ i + k # i BY <1>1
      <4> QED BY <4>1, <1>1, <1>4 DEF Legacy!IsInjective, Legacy!ToSet
    <3> QED BY <3>1, <3>2, <1>1 DEF Legacy!ToSet
  <2>6. Legacy!ToSet(s) \ {s[i]} \subseteq Legacy!ToSet(a) \cup Legacy!ToSet(b)
    <3> SUFFICES ASSUME NEW k \in 1..h, k # i
                 PROVE  s[k] \in Legacy!ToSet(a) \cup Legacy!ToSet(b)
      BY <1>1 DEF Legacy!ToSet
    <3>1. CASE k < i
      <4>1. k \in 1..(i - 1) BY <3>1, <1>1
      <4> QED BY <4>1, <1>1 DEF Legacy!ToSet
    <3>2. CASE i < k
      <4>1. k - i \in 1..(h - i) /\ i + (k - i) = k BY <3>2, <1>1
      <4>2. b[k - i] = s[k] BY <4>1, <1>1
      <4> QED BY <4>1, <4>2, <1>1 DEF Legacy!ToSet
    <3> QED BY <3>1, <3>2, <1>1
  <2> QED BY <2>1, <2>2, <2>4, <2>5, <2>6, <1>1, Joined
<1> QED BY <1>2, <1>3, <1>4

\* Keys and placements: of an element, of a sequence of them, and those that
\* are taken.
Pairs == Legacy!Keys \X Legacy!Placement
PairOf(e) == <<e.key, e.placement>>
TakenBy(pl) == {q \in Pairs : q[1] \in Legacy!ToSet(pl[q[2]])}
Records(pl) ==
    /\ pl \in [Legacy!Placement -> Seq(Legacy!Keys)]
    /\ \A p \in Legacy!Placement : Legacy!IsInjective(pl[p])

\* An element has a key and a placement.
LEMMA PairsOf ==
    ASSUME NEW R \in {Legacy!Element, Legacy!Description}
    PROVE  \A e \in R : PairOf(e) \in Pairs
<1>1. \A e \in Legacy!Element : PairOf(e) \in Pairs BY DEF PairOf, Pairs, Legacy!Element
<1>2. \A e \in Legacy!Description : PairOf(e) \in Pairs BY DEF PairOf, Pairs, Legacy!Description
<1> QED BY <1>1, <1>2

\* The keys and placements of a sequence: one each, in order.
LEMMA PlacesOf ==
    ASSUME NEW R \in {Legacy!Element, Legacy!Description}, NEW s \in Seq(R)
    PROVE  /\ Legacy!Places(s) \in Seq(Pairs) /\ Len(Legacy!Places(s)) = Len(s)
           /\ \A i \in 1..Len(s) : Legacy!Places(s)[i] = PairOf(s[i])
           /\ s # <<>> => /\ Tail(s) \in Seq(R) /\ s[1] \in R
                          /\ Legacy!Places(s) = <<PairOf(s[1])>> \o Legacy!Places(Tail(s))
<1>1. Legacy!Places(s) = [i \in 1..Len(s) |-> PairOf(s[i])] BY DEF Legacy!Places, PairOf
<1>2. \A i \in 1..Len(s) : PairOf(s[i]) \in Pairs BY PairsOf
<1>3. /\ Legacy!Places(s) \in Seq(Pairs) /\ Len(Legacy!Places(s)) = Len(s)
      /\ \A i \in 1..Len(s) : Legacy!Places(s)[i] = PairOf(s[i])
  BY <1>1, <1>2
<1>4. ASSUME s # <<>>
      PROVE  /\ Tail(s) \in Seq(R) /\ s[1] \in R
             /\ Legacy!Places(s) = <<PairOf(s[1])>> \o Legacy!Places(Tail(s))
  <2>1. /\ Tail(s) \in Seq(R) /\ s[1] \in R /\ Len(s) \in Nat /\ Len(Tail(s)) = Len(s) - 1
        /\ \A i \in 1..(Len(s) - 1) : Tail(s)[i] = s[i + 1]
    BY <1>4
  <2> DEFINE t == Legacy!Places(Tail(s))
  <2>2. t = [i \in 1..Len(Tail(s)) |-> PairOf(Tail(s)[i])]
    BY <2>1 DEF Legacy!Places, PairOf
  <2>3. t \in Seq(Pairs) /\ Len(t) = Len(s) - 1 /\ \A i \in 1..(Len(s) - 1) : t[i] = PairOf(s[i + 1])
    <3>1. \A i \in 1..Len(Tail(s)) : PairOf(Tail(s)[i]) \in Pairs BY PairsOf, <2>1
    <3>4. Len(Tail(s)) \in Nat BY <2>1
    <3> HIDE DEF t
    <3>5. t \in [1..Len(Tail(s)) -> Pairs] BY <2>2, <3>1
    <3>6. t \in Seq(Pairs) /\ Len(t) = Len(Tail(s)) BY <3>4, <3>5
    <3>2. t \in Seq(Pairs) /\ Len(t) = Len(s) - 1 BY <2>1, <3>6
    <3>3. ASSUME NEW i \in 1..(Len(s) - 1) PROVE t[i] = PairOf(s[i + 1])
      <4>1. i \in 1..Len(Tail(s)) BY <2>1
      <4> QED BY <2>1, <2>2, <4>1
    <3> QED BY <3>2, <3>3
  <2>4. PairOf(s[1]) \in Pairs BY <2>1, PairsOf
  <2> HIDE DEF t
  <2> DEFINE u == <<PairOf(s[1])>> \o t
             v == Legacy!Places(s)
  <2>5. /\ u \in Seq(Pairs) /\ Len(u) = Len(s) /\ u[1] = PairOf(s[1])
        /\ \A i \in 1..(Len(s) - 1) : u[i + 1] = PairOf(s[i + 1])
    <3>1. /\ <<PairOf(s[1])>> \in Seq(Pairs) /\ Len(<<PairOf(s[1])>>) = 1
          /\ <<PairOf(s[1])>>[1] = PairOf(s[1])
      BY <2>4
    <3>2. /\ u \in Seq(Pairs) /\ Len(u) = 1 + Len(t)
          /\ \A i \in 1..(1 + Len(t)) : u[i] = IF i <= 1 THEN <<PairOf(s[1])>>[i] ELSE t[i - 1]
      BY <2>3, <3>1, ConcatProperties
    <3> HIDE DEF u
    <3>3. u[1] = PairOf(s[1]) BY <3>1, <3>2, <2>1, <2>3
    <3>4. ASSUME NEW i \in 1..(Len(s) - 1) PROVE u[i + 1] = PairOf(s[i + 1])
      <4>1. i + 1 \in 1..(1 + Len(t)) /\ ~(i + 1 <= 1) /\ (i + 1) - 1 = i BY <2>1, <2>3
      <4> QED BY <4>1, <3>2, <2>3
    <3> QED BY <2>1, <2>3, <3>2, <3>3, <3>4
  <2>6. v \in Seq(Pairs) /\ Len(v) = Len(s) /\ \A i \in 1..Len(s) : v[i] = PairOf(s[i]) BY <1>3
  <2> HIDE DEF u, v
  <2>7. ASSUME NEW i \in 1..Len(s) PROVE u[i] = v[i]
    <3>1. CASE i = 1 BY <3>1, <2>5, <2>6
    <3>2. CASE i # 1
      <4>1. i - 1 \in 1..(Len(s) - 1) /\ (i - 1) + 1 = i BY <3>2, <2>1
      <4> QED BY <4>1, <2>5, <2>6
    <3> QED BY <3>1, <3>2
  <2>8. u = v BY <2>5, <2>6, <2>7, SeqEqual
  <2> QED BY <2>1, <2>8 DEF u, v, t
<1> QED BY <1>3, <1>4

\* Those of a concatenation.
LEMMA PlacesJoined ==
    ASSUME NEW R \in {Legacy!Element, Legacy!Description}, NEW s \in Seq(R), NEW t \in Seq(R)
    PROVE  Legacy!Places(s \o t) = Legacy!Places(s) \o Legacy!Places(t)
<1> DEFINE a == Legacy!Places(s)
           b == Legacy!Places(t)
           c == Legacy!Places(s \o t)
           h == Len(s)
           n == Len(t)
<1>1. s \o t \in Seq(R) OBVIOUS
<1>2. /\ h \in Nat /\ n \in Nat /\ Len(s \o t) = h + n
      /\ \A i \in 1..h : (s \o t)[i] = s[i]
      /\ \A i \in 1..n : (s \o t)[h + i] = t[i]
  OBVIOUS
<1>3. /\ a \in Seq(Pairs) /\ Len(a) = h /\ \A i \in 1..h : a[i] = PairOf(s[i])
      /\ b \in Seq(Pairs) /\ Len(b) = n /\ \A i \in 1..n : b[i] = PairOf(t[i])
      /\ c \in Seq(Pairs) /\ Len(c) = h + n /\ \A i \in 1..(h + n) : c[i] = PairOf((s \o t)[i])
  BY <1>1, <1>2, PlacesOf
<1> HIDE DEF a, b, c, h, n
<1>4. /\ a \o b \in Seq(Pairs) /\ Len(a \o b) = h + n
      /\ \A i \in 1..(h + n) : (a \o b)[i] = IF i <= h THEN a[i] ELSE b[i - h]
  BY <1>3, ConcatProperties
<1>5. ASSUME NEW i \in 1..(h + n) PROVE (a \o b)[i] = c[i]
  <2>1. CASE i \in 1..h
    <3>1. i <= h /\ (s \o t)[i] = s[i] BY <2>1, <1>2
    <3> QED BY <2>1, <3>1, <1>3, <1>4
  <2>2. CASE i \notin 1..h
    <3>1. i - h \in 1..n /\ h + (i - h) = i /\ ~(i <= h) BY <2>2, <1>2
    <3>2. (s \o t)[h + (i - h)] = t[i - h] BY <3>1, <1>2
    <3>3. (a \o b)[i] = b[i - h] BY <3>1, <1>4
    <3> QED BY <3>1, <3>2, <3>3, <1>3
  <2> QED BY <2>1, <2>2
<1>6. a \o b = c BY <1>3, <1>4, <1>5, SeqEqual
<1> QED BY <1>6 DEF a, b, c

\* An element takes its place, or gives it up.
LEMMA Added ==
    ASSUME NEW pl, Records(pl), NEW e \in Legacy!Element
    PROVE  /\ Legacy!Taken(pl, e) <=> PairOf(e) \in TakenBy(pl)
           /\ Legacy!AddPlacement(pl, e) \in [Legacy!Placement -> Seq(Legacy!Keys)]
           /\ TakenBy(Legacy!AddPlacement(pl, e)) = TakenBy(pl) \cup {PairOf(e)}
           /\ ~Legacy!Taken(pl, e) => Records(Legacy!AddPlacement(pl, e))
<1> DEFINE k == e.key
           p == e.placement
           s == pl[p]
           new == Legacy!AddPlacement(pl, e)
<1>1. /\ k \in Legacy!Keys /\ p \in Legacy!Placement /\ s \in Seq(Legacy!Keys)
      /\ Legacy!IsInjective(s) /\ pl \in [Legacy!Placement -> Seq(Legacy!Keys)]
  BY DEF Records, Legacy!Element
<1>2. PairOf(e) = <<k, p>> BY DEF PairOf
<1>3. Legacy!Taken(pl, e) <=> k \in Legacy!ToSet(s) BY DEF Legacy!Taken
<1>4. new = [pl EXCEPT ![p] = Append(s, k)] BY DEF Legacy!AddPlacement
<1> HIDE DEF k, p, s, new
<1>5. Append(s, k) \in Seq(Legacy!Keys) /\ Append(s, k) = s \o <<k>> /\ <<k>> \in Seq(Legacy!Keys)
  BY <1>1
<1>6. Legacy!ToSet(<<k>>) = {k} BY DEF Legacy!ToSet
<1>7. Legacy!IsInjective(<<k>>) BY DEF Legacy!IsInjective
<1>8. Legacy!ToSet(Append(s, k)) = Legacy!ToSet(s) \cup {k} BY <1>1, <1>5, <1>6, Joined
<1>9. k \notin Legacy!ToSet(s) => Legacy!IsInjective(Append(s, k))
  <2>1. Legacy!IsInjective(s \o <<k>>) <=>
          /\ Legacy!IsInjective(s) /\ Legacy!IsInjective(<<k>>)
          /\ Legacy!ToSet(s) \cap Legacy!ToSet(<<k>>) = {}
    BY <1>1, <1>5, Joined
  <2> QED BY <2>1, <1>1, <1>5, <1>6, <1>7
<1>10. new \in [Legacy!Placement -> Seq(Legacy!Keys)] BY <1>1, <1>4, <1>5
<1>11. /\ new[p] = Append(s, k) /\ pl[p] = s
       /\ \A r \in Legacy!Placement : r # p => new[r] = pl[r]
  BY <1>1, <1>4 DEF s
<1>12. PairOf(e) \in TakenBy(pl) <=> k \in Legacy!ToSet(s) BY <1>1, <1>2, <1>11 DEF TakenBy, Pairs
<1>13. TakenBy(new) = TakenBy(pl) \cup {PairOf(e)}
  <2>1. ASSUME NEW key \in Legacy!Keys, NEW r \in Legacy!Placement
        PROVE  key \in Legacy!ToSet(new[r]) <=> key \in Legacy!ToSet(pl[r]) \/ (key = k /\ r = p)
    <3>1. CASE r = p BY <3>1, <1>8, <1>11
    <3>2. CASE r # p BY <3>2, <1>11
    <3> QED BY <3>1, <3>2
  <2>2. \A q : q \in Pairs => q = <<q[1], q[2]>> /\ q[1] \in Legacy!Keys /\ q[2] \in Legacy!Placement
    BY DEF Pairs
  <2>3. \A q \in Pairs : q \in TakenBy(new) <=> q \in TakenBy(pl) \/ q = PairOf(e)
    BY <2>1, <2>2, <1>2 DEF TakenBy
  <2>4. PairOf(e) \in Pairs BY <1>1, <1>2 DEF Pairs
  <2> QED BY <2>3, <2>4 DEF TakenBy
<1>14. k \notin Legacy!ToSet(s) => Records(new) BY <1>9, <1>10, <1>11 DEF Records
<1> QED BY <1>3, <1>10, <1>12, <1>13, <1>14 DEF new

\* The place of an element is given up by removing its key, wherever it is
\* in the list.
LEMMA GivenUp ==
    ASSUME NEW pl, Records(pl), NEW e \in Legacy!Element, PairOf(e) \in TakenBy(pl)
    PROVE  /\ Records(Legacy!DropPlacement(pl, e))
           /\ TakenBy(Legacy!DropPlacement(pl, e)) = TakenBy(pl) \ {PairOf(e)}
<1> DEFINE k == e.key
           p == e.placement
           s == pl[p]
           S == {n \in DOMAIN s : s[n] = k}
           i == Legacy!Min(S)
           new == Legacy!DropPlacement(pl, e)
<1>1. /\ k \in Legacy!Keys /\ p \in Legacy!Placement /\ s \in Seq(Legacy!Keys)
      /\ Legacy!IsInjective(s) /\ pl \in [Legacy!Placement -> Seq(Legacy!Keys)]
  BY DEF Records, Legacy!Element
<1>2. PairOf(e) = <<k, p>> BY DEF PairOf
<1>3. k \in Legacy!ToSet(s) BY <1>2 DEF TakenBy
<1>4. i \in 1..Len(s) /\ s[i] = k
  <2>1. S \subseteq Nat /\ S # {} BY <1>1, <1>3 DEF Legacy!ToSet
  <2> HIDE DEF S
  <2>2. i \in S BY <2>1, Least
  <2> QED BY <2>2, <1>1 DEF S
<1>5. new = [pl EXCEPT ![p] = Legacy!RemoveAt(s, i)] BY DEF Legacy!DropPlacement
<1> HIDE DEF i, new, S
<1>6. /\ Legacy!RemoveAt(s, i) \in Seq(Legacy!Keys)
      /\ Legacy!IsInjective(Legacy!RemoveAt(s, i))
      /\ Legacy!ToSet(Legacy!RemoveAt(s, i)) = Legacy!ToSet(s) \ {k}
  BY <1>1, <1>4, Removed
<1> HIDE DEF k, p, s
<1>7. new \in [Legacy!Placement -> Seq(Legacy!Keys)] BY <1>1, <1>5, <1>6
<1>8. /\ new[p] = Legacy!RemoveAt(s, i) /\ pl[p] = s
      /\ \A r \in Legacy!Placement : r # p => new[r] = pl[r]
  BY <1>1, <1>5 DEF s
<1>9. Records(new) BY <1>6, <1>7, <1>8 DEF Records
<1>10. TakenBy(new) = TakenBy(pl) \ {PairOf(e)}
  <2>1. ASSUME NEW key \in Legacy!Keys, NEW r \in Legacy!Placement
        PROVE  key \in Legacy!ToSet(new[r]) <=> key \in Legacy!ToSet(pl[r]) /\ ~(key = k /\ r = p)
    BY <1>6, <1>8
  <2>2. \A q : q \in Pairs => q = <<q[1], q[2]>> /\ q[1] \in Legacy!Keys /\ q[2] \in Legacy!Placement
    BY DEF Pairs
  <2>3. \A q \in Pairs : q \in TakenBy(new) <=> q \in TakenBy(pl) /\ q # PairOf(e)
    BY <2>1, <2>2, <1>2 DEF TakenBy
  <2> QED BY <2>3 DEF TakenBy
<1> QED BY <1>9, <1>10 DEF new

\* What is collected from the text of a class is a sequence of elements.
LEMMA CreatedTyped ==
    ASSUME NEW s \in Sources, NEW e \in Legacy!ToSet(s.elements)
    PROVE  Legacy!Create(e) \in Legacy!Element
<1>1. e.form \in Legacy!Forms /\ e.decs \in Nat BY LegacyTexts DEF Legacy!LegacyAssumption
<1>2. e.key \in Legacy!Keys BY DEF Legacy!Keys
<1> QED BY <1>1, <1>2 DEF Legacy!Create, Legacy!Element, Legacy!Placement

\* One more element of the text: there may be as many as before.
LEMMA CoalescedTyped ==
    ASSUME NEW s \in Seq(Legacy!Element), NEW e \in Legacy!Element
    PROVE  Legacy!Coalesce(s, e) \subseteq Seq(Legacy!Element)
<1> DEFINE same == {i \in DOMAIN s : s[i].kind = "method" /\ s[i].key = e.key
                                     /\ s[i].placement = e.placement}
           i == Legacy!Min(same)
           o == s[i]
           joined == [s EXCEPT ![i].parts = o.parts \cup e.parts, ![i].decs = o.decs + e.decs]
           replaced == [s EXCEPT ![i].parts = e.parts]
<1>1. CASE e.kind # "method" \/ same = {}
  <2>1. Legacy!Coalesce(s, e) = {Append(s, e)} BY <1>1 DEF Legacy!Coalesce
  <2> QED BY <2>1, AppendProperties
<1>2. CASE e.kind = "method" /\ same # {}
  <2>1. Legacy!Coalesce(s, e) \subseteq {replaced, joined} BY <1>2 DEF Legacy!Coalesce
  <2>2. i \in 1..Len(s)
    <3>1. same \subseteq 1..Len(s) /\ same \subseteq Nat OBVIOUS
    <3> HIDE DEF same
    <3> QED BY <3>1, <1>2, Least
  <2> HIDE DEF i
  <2>3. o \in Legacy!Element BY <2>2, ElementOfSeq
  <2> HIDE DEF o
  <2> DEFINE x == [o EXCEPT !.parts = e.parts]
             y == [o EXCEPT !.parts = o.parts \cup e.parts, !.decs = o.decs + e.decs]
  <2>7. /\ o.parts \cup e.parts \in SUBSET Legacy!Forms /\ e.parts \in SUBSET Legacy!Forms
        /\ o.decs + e.decs \in Nat
    BY <2>3 DEF Legacy!Element
  <2>8. \A P \in SUBSET Legacy!Forms : [o EXCEPT !.parts = P] \in Legacy!Element
    BY <2>3 DEF Legacy!Element
  <2>9. \A P \in SUBSET Legacy!Forms, c \in Nat : [o EXCEPT !.parts = P, !.decs = c] \in Legacy!Element
    BY <2>3 DEF Legacy!Element
  <2>4. x \in Legacy!Element /\ y \in Legacy!Element BY <2>7, <2>8, <2>9
  <2>5. replaced = [s EXCEPT ![i] = x] /\ joined = [s EXCEPT ![i] = y] BY <2>2 DEF o
  <2> HIDE DEF x, y, replaced, joined
  <2>6. replaced \in Seq(Legacy!Element) /\ joined \in Seq(Legacy!Element) BY <2>2, <2>4, <2>5
  <2> QED BY <2>1, <2>6
<1> QED BY <1>1, <1>2

\* All of the text, by induction on how many were collected.
LEMMA CollectedTyped ==
    ASSUME NEW s \in Sources
    PROVE  Legacy!CoalesceAll(s.elements) \subseteq Seq(Legacy!Element)
<1> DEFINE text == s.elements
           L == Len(text)
           T == SUBSET Seq(Legacy!Element)
           Then(D, n) == UNION {Legacy!Coalesce(done, Legacy!Create(text[n])) : done \in D}
           C == CHOOSE f : f = [n \in 0..L |-> IF n = 0 THEN {<<>>} ELSE Then(f[n - 1], n)]
           turn == [n \in 1..L |-> [D \in T |-> Then(D, n)]]
<1>1. text \in Seq(Legacy!ToSet(text)) BY LegacyTexts DEF Legacy!LegacyAssumption
<1>2. L \in Nat /\ \A n \in 1..L : text[n] \in Legacy!ToSet(text) BY <1>1, LenProperties, ElementOfSeq
<1>3. \A n \in 1..L : Legacy!Create(text[n]) \in Legacy!Element BY <1>2, CreatedTyped
<1>4. Legacy!CoalesceAll(text) = C[L] BY DEF Legacy!CoalesceAll
<1>5. \A n \in 1..L : \A D \in T : Then(D, n) \in T BY <1>3, CoalescedTyped
<1> HIDE DEF text, L, C, T, Then, turn
<1>6. turn \in [1..L -> [T -> T]] BY <1>5 DEF turn
<1>7. {<<>>} \in T BY EmptySeq DEF T
<1>8. PICK f \in [0..L -> T] : f[0] = {<<>>} /\ \A n \in 1..L : f[n] = turn[n][f[n - 1]]
  BY <1>2, <1>6, <1>7, Recursion
<1>9. f = [n \in 0..L |-> IF n = 0 THEN {<<>>} ELSE Then(f[n - 1], n)]
  <2>1. ASSUME NEW n \in 0..L PROVE f[n] = IF n = 0 THEN {<<>>} ELSE Then(f[n - 1], n)
    <3>1. CASE n = 0 BY <3>1, <1>8
    <3>2. CASE n # 0
      <4>1. n \in 1..L /\ n - 1 \in 0..L BY <3>2, <1>2
      <4>2. f[n - 1] \in T BY <4>1, <1>8
      <4> QED BY <3>2, <4>1, <4>2, <1>8 DEF turn
    <3> QED BY <3>1, <3>2
  <2> QED BY <2>1, <1>8
<1>10. C = [n \in 0..L |-> IF n = 0 THEN {<<>>} ELSE Then(C[n - 1], n)] BY <1>9 DEF C
<1> DEFINE S == {n \in Nat : n <= L => C[n] \in T}
<1>11. 0 \in S BY <1>2, <1>7, <1>10
<1>12. ASSUME NEW n \in Nat, n \in S PROVE n + 1 \in S
  <2> SUFFICES ASSUME n + 1 <= L PROVE C[n + 1] \in T OBVIOUS
  <2>1. n + 1 \in 0..L /\ n + 1 \in 1..L /\ n + 1 # 0 /\ (n + 1) - 1 = n /\ n <= L BY <1>2
  <2>2. C[n + 1] = Then(C[n], n + 1) BY <2>1, <1>10
  <2> QED BY <2>1, <2>2, <1>5, <1>12
<1> HIDE DEF S
<1>13. L \in S BY <1>2, <1>11, <1>12, Induction
<1> QED BY <1>2, <1>4, <1>13 DEF S, T, text

\* Once every element is placed, the keys taken are those of the elements.
Differ(s) == \A i, j \in DOMAIN s : ~(i # j /\ s[i].key = s[j].key /\ s[i].placement = s[j].placement)

\* Comparing pairwise finds exactly the repeated keys and placements.
LEMMA DifferIs ==
    ASSUME NEW R \in {Legacy!Element, Legacy!Description}, NEW s \in Seq(R)
    PROVE  Differ(s) <=> Legacy!IsInjective(Legacy!Places(s))
<1>1. DOMAIN s = DOMAIN Legacy!Places(s) BY PlacesOf, LenProperties
<1>2. \A i \in DOMAIN s : Legacy!Places(s)[i] = <<s[i].key, s[i].placement>>
  BY <1>1 DEF Legacy!Places
<1>3. \A i, j \in DOMAIN s : Legacy!Places(s)[i] = Legacy!Places(s)[j] <=>
                              s[i].key = s[j].key /\ s[i].placement = s[j].placement
  BY <1>2
<1> QED BY <1>1, <1>3 DEF Differ, Legacy!IsInjective

\* When no two are the same, placing all of them takes each key once.
LEMMA AllPlaced ==
    ASSUME todo \in Seq(Legacy!Element), Differ(todo)
    PROVE  Records(Legacy!Placed) /\ TakenBy(Legacy!Placed) = Legacy!ToSet(Legacy!Places(todo))
<1> DEFINE L == Len(todo)
           T == [Legacy!Placement -> Seq(Legacy!Keys)]
           none == [p \in Legacy!Placement |-> <<>>]
           P == CHOOSE f : f = [n \in 0..L |-> IF n = 0 THEN none ELSE Legacy!AddPlacement(f[n - 1], todo[n])]
           turn == [n \in 1..L |-> [pl \in T |-> Legacy!AddPlacement(pl, todo[n])]]
<1>1. L \in Nat /\ \A n \in 1..L : todo[n] \in Legacy!Element BY LenProperties, ElementOfSeq
<1>2. Legacy!Placed = P[L] BY DEF Legacy!Placed
<1>3. \A pl \in T : \A n \in 1..L : Legacy!AddPlacement(pl, todo[n]) \in T
  <2> SUFFICES ASSUME NEW pl \in T, NEW n \in 1..L PROVE Legacy!AddPlacement(pl, todo[n]) \in T OBVIOUS
  <2>1. todo[n].placement \in Legacy!Placement /\ todo[n].key \in Legacy!Keys BY <1>1 DEF Legacy!Element
  <2>2. Append(pl[todo[n].placement], todo[n].key) \in Seq(Legacy!Keys) BY <2>1, AppendProperties
  <2> QED BY <2>1, <2>2 DEF Legacy!AddPlacement
<1>4. none \in T BY EmptySeq
<1>5. Records(none)
  <2>1. Legacy!IsInjective(<<>>) BY DEF Legacy!IsInjective
  <2> QED BY <1>4, <2>1 DEF Records
<1>6. TakenBy(none) = {}
  <2>1. Legacy!ToSet(<<>>) = {} BY DEF Legacy!ToSet
  <2>2. \A q \in Pairs : q[2] \in Legacy!Placement BY DEF Pairs
  <2> QED BY <2>1, <2>2 DEF TakenBy
<1> HIDE DEF L, P, T, none, turn
<1>7. turn \in [1..L -> [T -> T]] BY <1>3 DEF turn
<1>8. PICK f \in [0..L -> T] : f[0] = none /\ \A n \in 1..L : f[n] = turn[n][f[n - 1]]
  <2>1. L \in Nat BY <1>1
  <2>2. \A A : \A a \in A : \A n \in Nat : \A g \in [1..n -> [A -> A]] :
           \E f \in [0..n -> A] : f[0] = a /\ \A i \in 1..n : f[i] = g[i][f[i - 1]]
    BY Recursion
  <2>3. \A a \in T : \A n \in Nat : \A g \in [1..n -> [T -> T]] :
           \E f \in [0..n -> T] : f[0] = a /\ \A i \in 1..n : f[i] = g[i][f[i - 1]]
    BY <2>2
  <2>4. \A n \in Nat : \A g \in [1..n -> [T -> T]] :
           \E f \in [0..n -> T] : f[0] = none /\ \A i \in 1..n : f[i] = g[i][f[i - 1]]
    BY <2>3, <1>4
  <2>5. \A g \in [1..L -> [T -> T]] :
           \E f \in [0..L -> T] : f[0] = none /\ \A i \in 1..L : f[i] = g[i][f[i - 1]]
    BY <2>4, <2>1
  <2> QED BY <2>5, <1>7
<1>9. f = [n \in 0..L |-> IF n = 0 THEN none ELSE Legacy!AddPlacement(f[n - 1], todo[n])]
  <2>1. ASSUME NEW n \in 0..L PROVE f[n] = IF n = 0 THEN none ELSE Legacy!AddPlacement(f[n - 1], todo[n])
    <3>1. CASE n = 0 BY <3>1, <1>8
    <3>2. CASE n # 0
      <4>1. n \in 1..L /\ n - 1 \in 0..L BY <3>2, <1>1
      <4>2. f[n - 1] \in T BY <4>1, <1>8
      <4> QED BY <3>2, <4>1, <4>2, <1>8 DEF turn
    <3> QED BY <3>1, <3>2
  <2> QED BY <2>1, <1>8
<1>10. P = [n \in 0..L |-> IF n = 0 THEN none ELSE Legacy!AddPlacement(P[n - 1], todo[n])] BY <1>9 DEF P
<1> DEFINE Upto(n) == Records(P[n]) /\ TakenBy(P[n]) = {PairOf(todo[i]) : i \in 1..n}
           S == {n \in Nat : n <= L => Upto(n)}
<1>11. 0 \in S
  <2>1. P[0] = none BY <1>1, <1>10
  <2>2. {PairOf(todo[i]) : i \in 1..0} = {} OBVIOUS
  <2> QED BY <2>1, <2>2, <1>5, <1>6
<1>12. ASSUME NEW n \in Nat, n \in S PROVE n + 1 \in S
  <2> SUFFICES ASSUME n + 1 <= L PROVE Upto(n + 1) OBVIOUS
  <2>1. n + 1 \in 0..L /\ n + 1 \in 1..L /\ n + 1 # 0 /\ (n + 1) - 1 = n /\ n <= L BY <1>1
  <2>2. P[n + 1] = Legacy!AddPlacement(P[n], todo[n + 1]) BY <2>1, <1>10
  <2>3. todo[n + 1] \in Legacy!Element BY <2>1, <1>1
  <2>4. Upto(n) BY <1>12, <2>1
  <2>5. \A i \in 1..n : PairOf(todo[i]) # PairOf(todo[n + 1])
    <3> SUFFICES ASSUME NEW i \in 1..n PROVE PairOf(todo[i]) # PairOf(todo[n + 1]) OBVIOUS
    <3>1. i \in DOMAIN todo /\ n + 1 \in DOMAIN todo /\ i # n + 1 BY <2>1, <1>1 DEF L
    <3> QED BY <3>1 DEF Differ, PairOf
  <2>6. ~Legacy!Taken(P[n], todo[n + 1]) BY <2>3, <2>4, <2>5, Added
  <2>7. Records(P[n + 1]) /\ TakenBy(P[n + 1]) = TakenBy(P[n]) \cup {PairOf(todo[n + 1])}
    BY <2>2, <2>3, <2>4, <2>6, Added
  <2>8. {PairOf(todo[i]) : i \in 1..(n + 1)} = {PairOf(todo[i]) : i \in 1..n} \cup {PairOf(todo[n + 1])}
    <3>1. 1..(n + 1) = 1..n \cup {n + 1} OBVIOUS
    <3> QED BY <3>1
  <2> QED BY <2>4, <2>7, <2>8
<1> HIDE DEF S
<1>13. L \in S BY <1>1, <1>11, <1>12, Induction
<1>14. Upto(L) BY <1>1, <1>13 DEF S
<1>15. Legacy!ToSet(Legacy!Places(todo)) = {PairOf(todo[i]) : i \in 1..L}
  BY LenProperties DEF Legacy!ToSet, Legacy!Places, PairOf, L
<1> QED BY <1>2, <1>14, <1>15

\* The keys and placements of the elements of a sequence, as a set.
LEMMA PlacesSet ==
    ASSUME NEW R \in {Legacy!Element, Legacy!Description}, NEW s \in Seq(R)
    PROVE  Legacy!ToSet(Legacy!Places(s)) = {PairOf(x) : x \in Legacy!ToSet(s)}
BY DEF Legacy!ToSet, Legacy!Places, PairOf

\* One more element of another key or placement.
LEMMA AppendPlaced ==
    ASSUME NEW R \in {Legacy!Element, Legacy!Description}, NEW s \in Seq(R), NEW e \in R,
           Legacy!IsInjective(Legacy!Places(s)),
           \A x \in Legacy!ToSet(s) : PairOf(x) # PairOf(e)
    PROVE  /\ Append(s, e) \in Seq(R) /\ Legacy!ToSet(Append(s, e)) = Legacy!ToSet(s) \cup {e}
           /\ Legacy!IsInjective(Legacy!Places(Append(s, e)))
<1>1. Append(s, e) = s \o <<e>> /\ <<e>> \in Seq(R) /\ Append(s, e) \in Seq(R)
  BY AppendIsConcat, AppendProperties
<1>2. Legacy!ToSet(<<e>>) = {e} BY DEF Legacy!ToSet
<1>3. Legacy!ToSet(Append(s, e)) = Legacy!ToSet(s) \cup {e}
  <2>2. \A t \in Seq(R) : Legacy!ToSet(s \o t) = Legacy!ToSet(s) \cup Legacy!ToSet(t) BY Joined
  <2>1. Legacy!ToSet(s \o <<e>>) = Legacy!ToSet(s) \cup Legacy!ToSet(<<e>>) BY <1>1, <2>2
  <2> QED BY <2>1, <1>1, <1>2
<1>4. Legacy!Places(Append(s, e)) = Legacy!Places(s) \o Legacy!Places(<<e>>) BY <1>1, PlacesJoined
<1>5. Legacy!Places(s) \in Seq(Pairs) /\ Legacy!Places(<<e>>) \in Seq(Pairs)
  <2>1. \A t \in Seq(R) : Legacy!Places(t) \in Seq(Pairs) BY PlacesOf
  <2> QED BY <2>1, <1>1
<1>6. Legacy!ToSet(Legacy!Places(s)) \cap Legacy!ToSet(Legacy!Places(<<e>>)) = {}
  <2>1. Legacy!ToSet(Legacy!Places(s)) = {PairOf(x) : x \in Legacy!ToSet(s)} BY PlacesSet
  <2>2. Legacy!ToSet(Legacy!Places(<<e>>)) = {PairOf(x) : x \in {e}} BY <1>1, <1>2, PlacesSet
  <2> QED BY <2>1, <2>2
<1>7. Legacy!IsInjective(Legacy!Places(<<e>>))
  BY DEF Legacy!IsInjective, Legacy!Places
<1>8. Legacy!IsInjective(Legacy!Places(s) \o Legacy!Places(<<e>>)) <=>
        /\ Legacy!IsInjective(Legacy!Places(s)) /\ Legacy!IsInjective(Legacy!Places(<<e>>))
        /\ Legacy!ToSet(Legacy!Places(s)) \cap Legacy!ToSet(Legacy!Places(<<e>>)) = {}
  BY <1>5, Joined
<1> QED BY <1>1, <1>3, <1>4, <1>6, <1>7, <1>8

\* What is defined on the class: its own elements of a kind, each once.
LEMMA Found ==
    ASSUME elements \in Seq(Legacy!Description), Legacy!IsInjective(Legacy!Places(elements)), NEW k
    PROVE  /\ Legacy!OnClass(k) \in Seq(Legacy!Description)
           /\ Legacy!IsInjective(Legacy!Places(Legacy!OnClass(k)))
           /\ Legacy!ToSet(Legacy!OnClass(k)) =
                {e \in Legacy!ToSet(elements) : e.kind = k /\ e.placement # "own"}
<1> DEFINE L == Len(elements)
           T == Seq(Legacy!Description)
           Own(n) == elements[n].kind = k /\ elements[n].placement # "own"
           Then(s, n) == IF Own(n) THEN Append(s, elements[n]) ELSE s
           F == CHOOSE f : f = [n \in 0..L |->
                                  IF n = 0 THEN <<>>
                                  ELSE IF elements[n].kind = k /\ elements[n].placement # "own"
                                  THEN Append(f[n - 1], elements[n]) ELSE f[n - 1]]
           turn == [n \in 1..L |-> [s \in T |-> Then(s, n)]]
<1>1. L \in Nat /\ DOMAIN elements = 1..L /\ \A n \in 1..L : elements[n] \in Legacy!Description
  BY LenProperties, ElementOfSeq
<1>2. Legacy!OnClass(k) = F[L] BY DEF Legacy!OnClass
<1>3. F = CHOOSE f : f = [n \in 0..L |-> IF n = 0 THEN <<>> ELSE Then(f[n - 1], n)] OBVIOUS
<1>4. \A s \in T : \A n \in 1..L : Then(s, n) \in T BY <1>1, AppendProperties
<1>5. <<>> \in T BY EmptySeq
<1>6. Differ(elements) BY DifferIs
<1> HIDE DEF L, F, T, Then, turn
<1>7. turn \in [1..L -> [T -> T]] BY <1>4 DEF turn
<1>8. PICK f \in [0..L -> T] : f[0] = <<>> /\ \A n \in 1..L : f[n] = turn[n][f[n - 1]]
  <2>1. \A A : \A a \in A : \A n \in Nat : \A g \in [1..n -> [A -> A]] :
           \E f \in [0..n -> A] : f[0] = a /\ \A i \in 1..n : f[i] = g[i][f[i - 1]]
    BY Recursion
  <2>3. \A a \in T : \A n \in Nat : \A g \in [1..n -> [T -> T]] :
           \E f \in [0..n -> T] : f[0] = a /\ \A i \in 1..n : f[i] = g[i][f[i - 1]]
    BY <2>1
  <2>2. \A n \in Nat : \A g \in [1..n -> [T -> T]] :
           \E f \in [0..n -> T] : f[0] = <<>> /\ \A i \in 1..n : f[i] = g[i][f[i - 1]]
    BY <2>3, <1>5
  <2> QED BY <2>2, <1>1, <1>7
<1>9. f = [n \in 0..L |-> IF n = 0 THEN <<>> ELSE Then(f[n - 1], n)]
  <2>1. ASSUME NEW n \in 0..L PROVE f[n] = IF n = 0 THEN <<>> ELSE Then(f[n - 1], n)
    <3>1. CASE n = 0 BY <3>1, <1>8
    <3>2. CASE n # 0
      <4>1. n \in 1..L /\ n - 1 \in 0..L BY <3>2, <1>1
      <4>2. f[n - 1] \in T BY <4>1, <1>8
      <4> QED BY <3>2, <4>1, <4>2, <1>8 DEF turn
    <3> QED BY <3>1, <3>2
  <2> QED BY <2>1, <1>8
<1>10. F = [n \in 0..L |-> IF n = 0 THEN <<>> ELSE Then(F[n - 1], n)] BY <1>3, <1>9
<1> DEFINE Upto(n) == /\ F[n] \in T /\ Legacy!IsInjective(Legacy!Places(F[n]))
                      /\ Legacy!ToSet(F[n]) = {elements[i] : i \in {j \in 1..n : Own(j)}}
           S == {n \in Nat : n <= L => Upto(n)}
<1> HIDE DEF Own
<1>11. 0 \in S
  <2>1. F[0] = <<>> BY <1>1, <1>10
  <2>2. Legacy!IsInjective(Legacy!Places(<<>>)) /\ Legacy!ToSet(<<>>) = {}
    BY DEF Legacy!IsInjective, Legacy!Places, Legacy!ToSet
  <2>3. {elements[i] : i \in {j \in 1..0 : Own(j)}} = {} OBVIOUS
  <2> QED BY <2>1, <2>2, <2>3, <1>5
<1>12. ASSUME NEW n \in Nat, n \in S PROVE n + 1 \in S
  <2> SUFFICES ASSUME n + 1 <= L PROVE Upto(n + 1) OBVIOUS
  <2>1. n + 1 \in 0..L /\ n + 1 \in 1..L /\ n + 1 # 0 /\ (n + 1) - 1 = n /\ n <= L BY <1>1
  <2>2. F[n + 1] = Then(F[n], n + 1) BY <2>1, <1>10
  <2>3. elements[n + 1] \in Legacy!Description BY <2>1, <1>1
  <2>4. Upto(n) BY <1>12, <2>1
  <2>5. 1..(n + 1) = 1..n \cup {n + 1} OBVIOUS
  <2>6. CASE ~Own(n + 1)
    <3>1. {j \in 1..(n + 1) : Own(j)} = {j \in 1..n : Own(j)} BY <2>5, <2>6
    <3>2. F[n + 1] = F[n] BY <2>2, <2>6 DEF Then
    <3> QED BY <2>4, <3>1, <3>2
  <2>7. CASE Own(n + 1)
    <3>1. F[n + 1] = Append(F[n], elements[n + 1]) BY <2>2, <2>7 DEF Then
    <3>2. {j \in 1..(n + 1) : Own(j)} = {j \in 1..n : Own(j)} \cup {n + 1} BY <2>5, <2>7
    <3>3. {elements[i] : i \in {j \in 1..(n + 1) : Own(j)}} =
            {elements[i] : i \in {j \in 1..n : Own(j)}} \cup {elements[n + 1]}
      BY <3>2
    <3>4. ASSUME NEW i \in 1..n PROVE PairOf(elements[i]) # PairOf(elements[n + 1])
      <4>1. i \in DOMAIN elements /\ n + 1 \in DOMAIN elements /\ i # n + 1 BY <2>1, <1>1
      <4> QED BY <4>1, <1>6 DEF Differ, PairOf
    <3>5. \A x \in Legacy!ToSet(F[n]) : PairOf(x) # PairOf(elements[n + 1]) BY <2>4, <3>4
    <3>6. F[n] \in Seq(Legacy!Description) BY <2>4 DEF T
    <3>7. /\ Append(F[n], elements[n + 1]) \in Seq(Legacy!Description)
          /\ Legacy!ToSet(Append(F[n], elements[n + 1])) = Legacy!ToSet(F[n]) \cup {elements[n + 1]}
          /\ Legacy!IsInjective(Legacy!Places(Append(F[n], elements[n + 1])))
      BY <2>3, <2>4, <3>5, <3>6, AppendPlaced
    <3> QED BY <2>4, <3>1, <3>3, <3>7 DEF T
  <2> QED BY <2>6, <2>7
<1> HIDE DEF S
<1>13. L \in S BY <1>1, <1>11, <1>12, Induction
<1>14. Upto(L) BY <1>1, <1>13 DEF S
<1>15. {elements[i] : i \in {j \in 1..L : Own(j)}} =
         {e \in Legacy!ToSet(elements) : e.kind = k /\ e.placement # "own"}
  BY <1>1 DEF Own, Legacy!ToSet
<1> QED BY <1>2, <1>14, <1>15 DEF T

\* Methods and then fields: each own element of the class, once.
LEMMA AllDefined ==
    ASSUME elements \in Seq(Legacy!Description), Legacy!IsInjective(Legacy!Places(elements)),
           NEW s, s = Legacy!OnClass("method") \o Legacy!OnClass("field")
    PROVE  /\ Legacy!IsInjective(Legacy!Places(s))
           /\ Legacy!ToSet(s) = {e \in Legacy!ToSet(elements) : e.placement # "own"}
<1> DEFINE a == Legacy!OnClass("method")
           b == Legacy!OnClass("field")
<1>1. /\ a \in Seq(Legacy!Description) /\ b \in Seq(Legacy!Description)
      /\ Legacy!IsInjective(Legacy!Places(a)) /\ Legacy!IsInjective(Legacy!Places(b))
      /\ Legacy!ToSet(a) = {e \in Legacy!ToSet(elements) : e.kind = "method" /\ e.placement # "own"}
      /\ Legacy!ToSet(b) = {e \in Legacy!ToSet(elements) : e.kind = "field" /\ e.placement # "own"}
  BY Found
<1> HIDE DEF a, b
<1>2. s = a \o b BY DEF a, b
<1>3. Legacy!ToSet(s) = Legacy!ToSet(a) \cup Legacy!ToSet(b) BY <1>1, <1>2, Joined
<1>4. \A e \in Legacy!ToSet(elements) : e.kind \in {"method", "field"}
  <2>1. \A i \in 1..Len(elements) : elements[i] \in Legacy!Description BY ElementOfSeq
  <2>2. DOMAIN elements = 1..Len(elements) BY LenProperties
  <2> QED BY <2>1, <2>2 DEF Legacy!ToSet, Legacy!Description
<1>5. Legacy!Places(s) = Legacy!Places(a) \o Legacy!Places(b) BY <1>1, <1>2, PlacesJoined
<1>6. Legacy!Places(a) \in Seq(Pairs) /\ Legacy!Places(b) \in Seq(Pairs) BY <1>1, PlacesOf
<1>7. Legacy!ToSet(Legacy!Places(a)) \cap Legacy!ToSet(Legacy!Places(b)) = {}
  <2>1. Legacy!ToSet(Legacy!Places(a)) = {PairOf(x) : x \in Legacy!ToSet(a)} BY <1>1, PlacesSet
  <2>2. Legacy!ToSet(Legacy!Places(b)) = {PairOf(x) : x \in Legacy!ToSet(b)} BY <1>1, PlacesSet
  <2>3. ASSUME NEW x \in Legacy!ToSet(a), NEW y \in Legacy!ToSet(b) PROVE PairOf(x) # PairOf(y)
    <3>1. PICK i \in DOMAIN elements : x = elements[i] BY <1>1 DEF Legacy!ToSet
    <3>2. PICK j \in DOMAIN elements : y = elements[j] BY <1>1 DEF Legacy!ToSet
    <3>3. i # j BY <3>1, <3>2, <1>1
    <3>4. Differ(elements) BY DifferIs
    <3> QED BY <3>1, <3>2, <3>3, <3>4 DEF Differ, PairOf
  <2> QED BY <2>1, <2>2, <2>3
<1>8. Legacy!IsInjective(Legacy!Places(a) \o Legacy!Places(b)) BY <1>1, <1>6, <1>7, Joined
<1> QED BY <1>1, <1>3, <1>4, <1>5, <1>8

\* The invariant of LegacyDecorators, in terms of keys and placements.
SetOf(s) == Legacy!ToSet(Legacy!Places(s))
Single(s) == Legacy!IsInjective(Legacy!Places(s))
Once(es, xs, ts) ==
    /\ Single(es) /\ Single(xs) /\ Single(ts)
    /\ SetOf(es) \cap SetOf(xs) = {}
    /\ (SetOf(es) \cup SetOf(xs)) \cap SetOf(ts) = {}
OwnOnes(s) == {e \in Legacy!ToSet(s) : e.placement # "own"}
LegacyTypes ==
    /\ source \in Sources
    /\ todo \in Seq(Legacy!Element) /\ extras \in Seq(Legacy!Element)
    /\ elements \in Seq(Legacy!Description)
    /\ placements \in [Legacy!Placement -> Seq(Legacy!Keys)]
LegacyPlain ==
    /\ LegacyTypes
    /\ stage \in {"text", "place"} => elements = <<>> /\ extras = <<>>
    /\ stage \in {"class", "finish", "done"} => todo = <<>> /\ extras = <<>>
    /\ stage = "decorate" => /\ SetOf(elements) \cup SetOf(extras) \cup SetOf(todo) = TakenBy(placements)
                             /\ Records(placements)
    /\ stage \notin {"text", "place", "threw"} => Once(elements, extras, todo)
    /\ stage \in {"finish", "done"} => Single(defined) /\ Legacy!ToSet(defined) = OwnOnes(elements)
    /\ stage = "done" => ran = Len(finishers)

\* Collected, added and still to come: all of them are different when each
\* kind is and no two kinds meet.
LEMMA AllOf ==
    ASSUME NEW es \in Seq(Legacy!Description), NEW xs \in Seq(Legacy!Element),
           NEW ts \in Seq(Legacy!Element),
           NEW all, all = Legacy!Places(es) \o Legacy!Places(xs) \o Legacy!Places(ts)
    PROVE  /\ Legacy!ToSet(all) = SetOf(es) \cup SetOf(xs) \cup SetOf(ts)
           /\ Legacy!IsInjective(all) <=> Once(es, xs, ts)
<1> DEFINE a == Legacy!Places(es)
           b == Legacy!Places(xs)
           c == Legacy!Places(ts)
<1>1. a \in Seq(Pairs) /\ b \in Seq(Pairs) /\ c \in Seq(Pairs)
  <2>1. \A R \in {Legacy!Element, Legacy!Description} : \A t \in Seq(R) : Legacy!Places(t) \in Seq(Pairs)
    BY PlacesOf
  <2> QED BY <2>1
<1>2. SetOf(es) = Legacy!ToSet(a) /\ SetOf(xs) = Legacy!ToSet(b) /\ SetOf(ts) = Legacy!ToSet(c)
  BY DEF SetOf
<1>3. Single(es) = Legacy!IsInjective(a) /\ Single(xs) = Legacy!IsInjective(b)
      /\ Single(ts) = Legacy!IsInjective(c)
  BY DEF Single
<1> HIDE DEF a, b, c
<1>4. all = (a \o b) \o c /\ a \o b \in Seq(Pairs)
  BY <1>1, ConcatProperties DEF a, b, c
<1>5. Legacy!ToSet(a \o b) = Legacy!ToSet(a) \cup Legacy!ToSet(b) BY <1>1, Joined
<1>6. Legacy!ToSet(all) = Legacy!ToSet(a \o b) \cup Legacy!ToSet(c)
  <2>1. \A s \in Seq(Pairs) : Legacy!ToSet(s \o c) = Legacy!ToSet(s) \cup Legacy!ToSet(c) BY <1>1, Joined
  <2> QED BY <2>1, <1>4
<1>7. Legacy!IsInjective(a \o b) <=> /\ Legacy!IsInjective(a) /\ Legacy!IsInjective(b)
                                     /\ Legacy!ToSet(a) \cap Legacy!ToSet(b) = {}
  BY <1>1, Joined
<1>8. Legacy!IsInjective(all) <=> /\ Legacy!IsInjective(a \o b) /\ Legacy!IsInjective(c)
                                  /\ Legacy!ToSet(a \o b) \cap Legacy!ToSet(c) = {}
  <2>1. \A s \in Seq(Pairs) :
          Legacy!IsInjective(s \o c) <=> /\ Legacy!IsInjective(s) /\ Legacy!IsInjective(c)
                                         /\ Legacy!ToSet(s) \cap Legacy!ToSet(c) = {}
    BY <1>1, Joined
  <2> QED BY <2>1, <1>4
<1>9. Legacy!ToSet(all) = SetOf(es) \cup SetOf(xs) \cup SetOf(ts) BY <1>2, <1>5, <1>6
<1>10. Legacy!IsInjective(all) <=> Once(es, xs, ts)
  BY <1>2, <1>3, <1>5, <1>7, <1>8 DEF Once
<1> QED BY <1>9, <1>10

\* This is the invariant that LegacyDecorators states.
LEMMA LegacyParts == Legacy!LegacyInv <=> LegacyPlain
<1> DEFINE all == Legacy!Places(elements) \o Legacy!Places(extras) \o Legacy!Places(todo)
           used == UNION {{<<k, p>> : k \in Legacy!ToSet(placements[p])} : p \in Legacy!Placement}
<1>1. Legacy!LegacyInv =>  LegacyTypes BY DEF Legacy!LegacyInv, LegacyTypes
<1>2. LegacyPlain => LegacyTypes BY DEF LegacyPlain
<1>3. ASSUME LegacyTypes PROVE Legacy!LegacyInv <=> LegacyPlain
  <2>1. /\ Legacy!ToSet(all) = SetOf(elements) \cup SetOf(extras) \cup SetOf(todo)
        /\ Legacy!IsInjective(all) <=> Once(elements, extras, todo)
    BY <1>3, AllOf DEF LegacyTypes
  <2>2. used = TakenBy(placements)
    <3>1. \A p \in Legacy!Placement : placements[p] \in Seq(Legacy!Keys) BY <1>3 DEF LegacyTypes
    <3>2. \A p \in Legacy!Placement : Legacy!ToSet(placements[p]) \subseteq Legacy!Keys
      <4> SUFFICES ASSUME NEW p \in Legacy!Placement PROVE Legacy!ToSet(placements[p]) \subseteq Legacy!Keys
        OBVIOUS
      <4>1. placements[p] \in Seq(Legacy!Keys) BY <3>1
      <4>2. \A i \in 1..Len(placements[p]) : placements[p][i] \in Legacy!Keys BY <4>1, ElementOfSeq
      <4>3. DOMAIN placements[p] = 1..Len(placements[p]) BY <4>1, LenProperties
      <4> QED BY <4>2, <4>3 DEF Legacy!ToSet
    <3> QED BY <3>2 DEF TakenBy, Pairs
  <2>3. (\A p \in Legacy!Placement : Legacy!IsInjective(placements[p])) <=> Records(placements)
    BY <1>3 DEF LegacyTypes, Records
  <2>4. Legacy!NoDuplicateElement <=>
          /\ stage = "decorate" => Legacy!ToSet(all) = used
                                   /\ \A p \in Legacy!Placement : Legacy!IsInjective(placements[p])
          /\ stage \notin {"text", "place", "threw"} => Legacy!IsInjective(all)
          /\ stage \in {"finish", "done"} => Single(defined) /\ Legacy!ToSet(defined) = OwnOnes(elements)
          /\ stage = "done" => ran = Len(finishers)
    BY DEF Legacy!NoDuplicateElement, Single, OwnOnes
  <2> HIDE DEF all, used
  <2>5. Legacy!LegacyInv <=>
          /\ LegacyTypes
          /\ stage \in {"text", "place"} => elements = <<>> /\ extras = <<>>
          /\ stage \in {"class", "finish", "done"} => todo = <<>> /\ extras = <<>>
          /\ Legacy!NoDuplicateElement
    BY DEF Legacy!LegacyInv, LegacyTypes
  <2> QED BY <2>1, <2>2, <2>3, <2>4, <2>5 DEF LegacyPlain
<1> QED BY <1>1, <1>2, <1>3

\* Nothing has no keys, and they are different.
LEMMA NothingPlaced == SetOf(<<>>) = {} /\ Single(<<>>)
BY DEF SetOf, Single, Legacy!ToSet, Legacy!Places, Legacy!IsInjective

\* It holds at the beginning.
LEMMA LegacyBegins == Legacy!Init => LegacyPlain
<1> SUFFICES ASSUME Legacy!Init PROVE LegacyPlain OBVIOUS
<1>1. /\ source \in Sources /\ stage = "text" /\ todo = <<>> /\ elements = <<>> /\ extras = <<>>
      /\ placements = [p \in Legacy!Placement |-> <<>>]
  BY DEF Legacy!Init
<1>2. <<>> \in Seq(Legacy!Element) /\ <<>> \in Seq(Legacy!Description) /\ <<>> \in Seq(Legacy!Keys)
  BY EmptySeq
<1> QED BY <1>1, <1>2 DEF LegacyPlain, LegacyTypes

\* Element by element.
LEMMA CollectKeeps == LegacyPlain /\ Legacy!Collect => LegacyPlain'
<1> SUFFICES ASSUME LegacyPlain, Legacy!Collect PROVE LegacyPlain' OBVIOUS
<1>1. /\ stage = "text" /\ UNCHANGED <<source, placements, elements, extras>>
      /\ \/ stage' = "threw" /\ UNCHANGED todo
         \/ stage' = "place" /\ todo' \in Legacy!CoalesceAll(source.elements)
  BY DEF Legacy!Collect
<1>2. Legacy!CoalesceAll(source.elements) \subseteq Seq(Legacy!Element)
  BY CollectedTyped DEF LegacyPlain, LegacyTypes
<1>3. LegacyTypes' BY <1>1, <1>2 DEF LegacyPlain, LegacyTypes
<1> QED BY <1>1, <1>3 DEF LegacyPlain

\* decorateClass refuses a key that is taken, and else has taken all keys.
LEMMA PlaceKeeps == LegacyPlain /\ Legacy!PlaceAll => LegacyPlain'
<1> SUFFICES ASSUME LegacyPlain, Legacy!PlaceAll PROVE LegacyPlain' OBVIOUS
<1>1. /\ stage = "place" /\ elements = <<>> /\ extras = <<>>
      /\ UNCHANGED <<source, elements, extras, todo>> /\ LegacyTypes
      /\ \/ stage' = "threw" /\ UNCHANGED placements
         \/ /\ Differ(todo) /\ placements' = Legacy!Placed
            /\ stage' = "decorate" \/ (stage' = "class" /\ todo = <<>>)
  BY DEF Legacy!PlaceAll, Legacy!TakeUp, LegacyPlain, Differ
<1>2. CASE stage' = "threw" /\ UNCHANGED placements
  <2>1. LegacyTypes' BY <1>1, <1>2 DEF LegacyTypes
  <2> QED BY <1>1, <1>2, <2>1 DEF LegacyPlain
<1>3. CASE /\ Differ(todo) /\ placements' = Legacy!Placed
           /\ stage' = "decorate" \/ (stage' = "class" /\ todo = <<>>)
  <2>1. todo \in Seq(Legacy!Element) BY <1>1 DEF LegacyTypes
  <2>2. Records(Legacy!Placed) /\ TakenBy(Legacy!Placed) = SetOf(todo)
    BY <2>1, <1>3, AllPlaced DEF SetOf
  <2>3. Single(todo) BY <2>1, <1>3, DifferIs DEF Single
  <2>4. LegacyTypes' BY <1>1, <1>3, <2>2 DEF LegacyTypes, Records
  <2>5. Once(elements, extras, todo) BY <1>1, <2>3, NothingPlaced DEF Once
  <2>6. Once(elements, extras, todo)' BY <1>1, <2>5
  <2>7. SetOf(elements)' \cup SetOf(extras)' \cup SetOf(todo)' = TakenBy(placements')
    BY <1>1, <1>3, <2>2, NothingPlaced
  <2> QED BY <1>1, <1>3, <2>2, <2>4, <2>6, <2>7 DEF LegacyPlain
<1> QED BY <1>1, <1>2, <1>3

\* The first element and the others.
LEMMA HeadOf ==
    ASSUME NEW R \in {Legacy!Element, Legacy!Description}, NEW s \in Seq(R), s # <<>>
    PROVE  /\ Tail(s) \in Seq(R) /\ s[1] \in R
           /\ SetOf(s) = {PairOf(s[1])} \cup SetOf(Tail(s))
           /\ Single(s) <=> Single(Tail(s)) /\ PairOf(s[1]) \notin SetOf(Tail(s))
<1>1. /\ Tail(s) \in Seq(R) /\ s[1] \in R
      /\ Legacy!Places(s) = <<PairOf(s[1])>> \o Legacy!Places(Tail(s))
  BY PlacesOf
<1> DEFINE h == <<PairOf(s[1])>>
           t == Legacy!Places(Tail(s))
<1>2. t \in Seq(Pairs)
  <2>1. \A r \in Seq(R) : Legacy!Places(r) \in Seq(Pairs) BY PlacesOf
  <2> QED BY <2>1, <1>1
<1>3. h \in Seq(Pairs) BY <1>1, PairsOf
<1>4. Legacy!ToSet(h) = {PairOf(s[1])} BY DEF Legacy!ToSet
<1>5. Legacy!IsInjective(h) BY DEF Legacy!IsInjective
<1> HIDE DEF h, t
<1>6. /\ Legacy!ToSet(h \o t) = Legacy!ToSet(h) \cup Legacy!ToSet(t)
      /\ Legacy!IsInjective(h \o t) <=> /\ Legacy!IsInjective(h) /\ Legacy!IsInjective(t)
                                        /\ Legacy!ToSet(h) \cap Legacy!ToSet(t) = {}
  BY <1>2, <1>3, Joined
<1>7. Legacy!Places(s) = h \o t BY <1>1 DEF h, t
<1>8. SetOf(s) = Legacy!ToSet(h \o t) /\ (Single(s) <=> Legacy!IsInjective(h \o t)) BY <1>7 DEF SetOf, Single
<1>9. SetOf(Tail(s)) = Legacy!ToSet(t) /\ (Single(Tail(s)) <=> Legacy!IsInjective(t)) BY DEF SetOf, Single, t
<1> QED BY <1>1, <1>4, <1>5, <1>6, <1>8, <1>9

\* The keys and placements of a concatenation, and when they are different.
LEMMA SetsJoined ==
    ASSUME NEW R \in {Legacy!Element, Legacy!Description}, NEW s \in Seq(R), NEW t \in Seq(R)
    PROVE  /\ s \o t \in Seq(R) /\ SetOf(s \o t) = SetOf(s) \cup SetOf(t)
           /\ Single(s \o t) <=> Single(s) /\ Single(t) /\ SetOf(s) \cap SetOf(t) = {}
<1>1. \A r \in Seq(R) : Legacy!Places(r) \in Seq(Pairs) BY PlacesOf
<1>2. Legacy!Places(s \o t) = Legacy!Places(s) \o Legacy!Places(t) BY PlacesJoined
<1> DEFINE a == Legacy!Places(s)
           b == Legacy!Places(t)
<1>3. a \in Seq(Pairs) /\ b \in Seq(Pairs) BY <1>1
<1> HIDE DEF a, b
<1>4. /\ Legacy!ToSet(a \o b) = Legacy!ToSet(a) \cup Legacy!ToSet(b)
      /\ Legacy!IsInjective(a \o b) <=> /\ Legacy!IsInjective(a) /\ Legacy!IsInjective(b)
                                        /\ Legacy!ToSet(a) \cap Legacy!ToSet(b) = {}
  BY <1>3, Joined
<1>5. s \o t \in Seq(R) BY ConcatProperties
<1> QED BY <1>2, <1>4, <1>5 DEF SetOf, Single, a, b

\* One decorator: where an element was, there is another one, and maybe one
\* more, and so are the keys taken.
LEMMA DecorateKeeps ==
    ASSUME LegacyPlain, stage = "decorate", todo # <<>>,
           NEW moved \in Legacy!Element, NEW extra \in Seq(Legacy!Element), Len(extra) <= 1,
           NEW finish, Legacy!Decorate(todo[1], moved, extra, finish)
    PROVE  LegacyPlain'
<1> DEFINE e == todo[1]
           p == Legacy!DropPlacement(placements, e)
           q == Legacy!AddPlacement(p, moved)
<1>1. /\ LegacyTypes /\ Records(placements) /\ Once(elements, extras, todo)
      /\ SetOf(elements) \cup SetOf(extras) \cup SetOf(todo) = TakenBy(placements)
  BY DEF LegacyPlain
<1>2. /\ todo \in Seq(Legacy!Element) /\ extras \in Seq(Legacy!Element)
      /\ elements \in Seq(Legacy!Description)
  BY <1>1 DEF LegacyTypes
<1>3. /\ Tail(todo) \in Seq(Legacy!Element) /\ e \in Legacy!Element
      /\ SetOf(todo) = {PairOf(e)} \cup SetOf(Tail(todo))
      /\ Single(todo) <=> Single(Tail(todo)) /\ PairOf(e) \notin SetOf(Tail(todo))
  BY <1>2, HeadOf
<1>4. CASE /\ stage' = "threw" /\ UNCHANGED <<source, todo, placements, elements, extras>>
  <2>1. LegacyTypes' BY <1>1, <1>4 DEF LegacyTypes
  <2> QED BY <1>4, <2>1 DEF LegacyPlain
<1>5. CASE /\ ~Legacy!Taken(p, moved) /\ \A x \in Legacy!ToSet(extra) : ~Legacy!Taken(q, x)
           /\ placements' = IF extra = <<>> THEN q ELSE Legacy!AddPlacement(q, extra[1])
           /\ todo' = [todo EXCEPT ![1] = moved]
           /\ extras' = extras \o extra
           /\ UNCHANGED <<stage, source, elements>>
  <2> DEFINE rest == Tail(todo)
  <2>1. Records(p) /\ TakenBy(p) = TakenBy(placements) \ {PairOf(e)} BY <1>1, <1>3, GivenUp
  <2>2. /\ Records(q) /\ TakenBy(q) = TakenBy(p) \cup {PairOf(moved)}
        /\ PairOf(moved) \notin TakenBy(p)
    BY <2>1, <1>5, Added
  <2> HIDE DEF p, q
  <2>3. /\ todo' \in Seq(Legacy!Element) /\ todo' # <<>> /\ Tail(todo') = rest /\ todo'[1] = moved
    <3>1. /\ todo' \in Seq(Legacy!Element) /\ Len(todo') = Len(todo) /\ Len(todo) \in Nat \ {0}
          /\ \A j \in 1..Len(todo) : todo'[j] = IF j = 1 THEN moved ELSE todo[j]
      <4>1. Len(todo) \in Nat \ {0} BY <1>2, EmptySeq
      <4>2. 1 \in 1..Len(todo) BY <4>1
      <4> QED BY <4>1, <4>2, <1>2, <1>5, ExceptSeq
    <3>2. todo' # <<>> BY <3>1, EmptySeq
    <3>3. 1 \in 1..Len(todo) BY <3>1
    <3>4. todo'[1] = moved BY <3>1, <3>3
    <3>5. /\ Tail(todo') \in Seq(Legacy!Element) /\ Len(Tail(todo')) = Len(todo) - 1
          /\ \A i \in 1..(Len(todo) - 1) : Tail(todo')[i] = todo'[i + 1]
      BY <3>1, <3>2, HeadTailProperties
    <3>6. /\ rest \in Seq(Legacy!Element) /\ Len(rest) = Len(todo) - 1
          /\ \A i \in 1..(Len(todo) - 1) : rest[i] = todo[i + 1]
      BY <1>2, HeadTailProperties
    <3>7. ASSUME NEW i \in 1..(Len(todo) - 1) PROVE todo'[i + 1] = todo[i + 1]
      <4>1. i + 1 \in 1..Len(todo) /\ i + 1 # 1 BY <3>1
      <4> QED BY <4>1, <3>1
    <3> HIDE DEF rest
    <3>8. Tail(todo') = rest BY <3>5, <3>6, <3>7, SeqEqual
    <3> QED BY <3>1, <3>2, <3>4, <3>8
  <2>4. /\ SetOf(todo') = {PairOf(moved)} \cup SetOf(rest)
        /\ Single(todo') <=> Single(rest) /\ PairOf(moved) \notin SetOf(rest)
    BY <2>3, HeadOf
  <2>5. /\ extras' \in Seq(Legacy!Element) /\ SetOf(extras') = SetOf(extras) \cup SetOf(extra)
        /\ Single(extras') <=> /\ Single(extras) /\ Single(extra)
                               /\ SetOf(extras) \cap SetOf(extra) = {}
    BY <1>2, <1>5, SetsJoined
  <2> HIDE DEF rest
  <2>6. /\ TakenBy(q) = SetOf(elements) \cup SetOf(extras) \cup {PairOf(moved)} \cup SetOf(rest)
        /\ PairOf(moved) \notin SetOf(elements) \cup SetOf(extras) \cup SetOf(rest)
    <3>1. PairOf(e) \notin SetOf(elements) \cup SetOf(extras) \cup SetOf(rest)
      BY <1>1, <1>3 DEF Once, rest
    <3>2. TakenBy(p) = SetOf(elements) \cup SetOf(extras) \cup SetOf(rest)
      BY <1>1, <1>3, <2>1, <3>1 DEF rest
    <3> QED BY <2>2, <3>2
  <2>7. /\ Records(placements') /\ TakenBy(placements') = TakenBy(q) \cup SetOf(extra)
        /\ SetOf(extra) \cap TakenBy(q) = {} /\ Single(extra)
    <3>1. CASE extra = <<>> BY <3>1, <1>5, <2>2, NothingPlaced
    <3>2. CASE extra # <<>>
      <4> DEFINE x == extra[1]
      <4>1. Len(extra) = 1 /\ DOMAIN extra = 1..1 /\ Tail(extra) = <<>>
        <5>1. Len(extra) \in Nat \ {0} BY <3>2, EmptySeq
        <5>4. \A n \in Nat \ {0} : n <= 1 => n = 1 OBVIOUS
        <5>2. Len(extra) = 1 BY <5>1, <5>4
        <5>3. Tail(extra) \in Seq(Legacy!Element) /\ Len(Tail(extra)) = 0
          BY <5>2, <3>2, HeadTailProperties
        <5> QED BY <5>2, <5>3, LenProperties, EmptySeq
      <4>2. x \in Legacy!Element /\ SetOf(extra) = {PairOf(x)} /\ Single(extra)
        <5>1. /\ extra[1] \in Legacy!Element
              /\ SetOf(extra) = {PairOf(extra[1])} \cup SetOf(Tail(extra))
              /\ Single(extra) <=> Single(Tail(extra)) /\ PairOf(extra[1]) \notin SetOf(Tail(extra))
          BY <3>2, HeadOf
        <5> QED BY <4>1, <5>1, NothingPlaced
      <4>3. x \in Legacy!ToSet(extra) BY <4>1 DEF Legacy!ToSet
      <4>4. ~Legacy!Taken(q, x) BY <4>3, <1>5
      <4>5. placements' = Legacy!AddPlacement(q, x) BY <3>2, <1>5
      <4> HIDE DEF x
      <4>6. /\ Records(placements') /\ TakenBy(placements') = TakenBy(q) \cup {PairOf(x)}
            /\ PairOf(x) \notin TakenBy(q)
        <5>1. x \in Legacy!Element /\ Records(q) BY <4>2, <2>2
        <5>2. /\ Legacy!Taken(q, x) <=> PairOf(x) \in TakenBy(q)
              /\ TakenBy(Legacy!AddPlacement(q, x)) = TakenBy(q) \cup {PairOf(x)}
              /\ ~Legacy!Taken(q, x) => Records(Legacy!AddPlacement(q, x))
          BY <5>1, Added
        <5> QED BY <4>4, <4>5, <5>2
      <4> QED BY <4>2, <4>6
    <3> QED BY <3>1, <3>2
  <2>8. Once(elements, extras, todo)'
    <3>1. elements' = elements BY <1>5
    <3>2. Once(elements, extras', todo')
      BY <1>1, <1>3, <2>4, <2>5, <2>6, <2>7 DEF Once, rest
    <3> QED BY <3>1, <3>2
  <2>9. SetOf(elements)' \cup SetOf(extras)' \cup SetOf(todo)' = TakenBy(placements')
    BY <1>5, <2>4, <2>5, <2>6, <2>7
  <2>10. LegacyTypes' BY <1>1, <1>5, <2>3, <2>5, <2>7 DEF LegacyTypes, Records
  <2> QED BY <1>5, <2>7, <2>8, <2>9, <2>10 DEF LegacyPlain
<1> QED BY <1>4, <1>5 DEF Legacy!Decorate

\* Any decorator of an element, wherever it moves it and whatever it adds.
LEMMA DecorateElementKeeps == LegacyPlain /\ Legacy!DecorateElement => LegacyPlain'
<1> SUFFICES ASSUME LegacyPlain, Legacy!DecorateElement PROVE LegacyPlain' OBVIOUS
<1> DEFINE e == Head(todo)
           moved(x) == Legacy!Moved(e, x)
<1>1. stage = "decorate" /\ todo # <<>> /\ todo \in Seq(Legacy!Element)
  BY DEF Legacy!DecorateElement, LegacyPlain, LegacyTypes
<1>2. e = todo[1] OBVIOUS
<1>3. e \in Legacy!Element BY <1>1, HeadTailProperties
<1>4. PICK at \in Moves \cup {[key |-> e.key, placement |-> e.placement]},
           more \in {<<>>} \cup {<<x>> : x \in Moves}, finish \in BOOLEAN :
             Legacy!Decorate(e, moved(at), [i \in DOMAIN more |-> moved(more[i])], finish)
  BY DEF Legacy!DecorateElement
<1>5. \A x \in Moves : x.key \in Legacy!Keys /\ x.placement \in Legacy!Placement
  BY LegacyTexts DEF Legacy!LegacyAssumption, Legacy!Keys
<1>6. at.key \in Legacy!Keys /\ at.placement \in Legacy!Placement
  BY <1>3, <1>5 DEF Legacy!Element
<1>7. \A x : x.key \in Legacy!Keys /\ x.placement \in Legacy!Placement => moved(x) \in Legacy!Element
  BY <1>3 DEF Legacy!Element, Legacy!Moved
<1> DEFINE extra == [i \in DOMAIN more |-> moved(more[i])]
<1> HIDE DEF e
<1>8. extra \in Seq(Legacy!Element) /\ Len(extra) <= 1
  <2>1. CASE more = <<>>
    <3>1. extra = <<>> BY <2>1
    <3> QED BY <3>1, EmptySeq
  <2>2. ASSUME NEW x \in Moves, more = <<x>> PROVE extra \in Seq(Legacy!Element) /\ Len(extra) <= 1
    <3>1. DOMAIN more = 1..1 /\ more[1] = x BY <2>2
    <3>2. moved(x) \in Legacy!Element BY <1>5, <1>7
    <3> HIDE DEF moved
    <3>3. extra = [i \in 1..1 |-> moved(x)] BY <3>1
    <3> HIDE DEF extra
    <3>4. extra \in [1..1 -> Legacy!Element] BY <3>2, <3>3
    <3>6. \A n \in Nat : \A f \in [1..n -> Legacy!Element] : f \in Seq(Legacy!Element) /\ Len(f) = n
      OBVIOUS
    <3>5. extra \in Seq(Legacy!Element) /\ Len(extra) = 1 BY <3>4, <3>6
    <3> QED BY <3>5
  <2> QED BY <2>1, <2>2
<1>9. moved(at) \in Legacy!Element BY <1>6, <1>7
<1>10. Legacy!Decorate(todo[1], moved(at), extra, finish) BY <1>2, <1>4
<1> HIDE DEF moved, extra
<1> QED BY <1>1, <1>8, <1>9, <1>10, DecorateKeeps

\* An element is described under its own key and placement.
LEMMA Described ==
    ASSUME NEW s \in Seq(Legacy!Element)
    PROVE  /\ [i \in DOMAIN s |-> Legacy!Descriptor(s[i])] \in Seq(Legacy!Description)
           /\ Legacy!Places([i \in DOMAIN s |-> Legacy!Descriptor(s[i])]) = Legacy!Places(s)
<1>1. \A e \in Legacy!Element : /\ Legacy!Descriptor(e) \in Legacy!Description
                                /\ PairOf(Legacy!Descriptor(e)) = PairOf(e)
  BY DEF Legacy!Element, Legacy!Description, Legacy!Descriptor, PairOf
<1>2. /\ Len(s) \in Nat /\ DOMAIN s = 1..Len(s) /\ \A i \in 1..Len(s) : s[i] \in Legacy!Element
  BY LenProperties, ElementOfSeq
<1> DEFINE t == [i \in DOMAIN s |-> Legacy!Descriptor(s[i])]
<1>3. t \in [1..Len(s) -> Legacy!Description] BY <1>1, <1>2
<1>4. \A n \in Nat : \A f \in [1..n -> Legacy!Description] : f \in Seq(Legacy!Description)
  OBVIOUS
<1>5. t \in Seq(Legacy!Description) BY <1>2, <1>3, <1>4
<1>6. Legacy!Places(t) = [i \in 1..Len(s) |-> PairOf(t[i])] BY <1>2 DEF Legacy!Places, PairOf
<1>7. Legacy!Places(s) = [i \in 1..Len(s) |-> PairOf(s[i])] BY <1>2 DEF Legacy!Places, PairOf
<1>8. \A i \in 1..Len(s) : PairOf(t[i]) = PairOf(s[i]) BY <1>1, <1>2
<1> QED BY <1>5, <1>6, <1>7, <1>8

\* The current element and what was added to it are collected.
LEMMA NextElementKeeps == LegacyPlain /\ Legacy!NextElement => LegacyPlain'
<1> SUFFICES ASSUME LegacyPlain, Legacy!NextElement PROVE LegacyPlain' OBVIOUS
<1> DEFINE one == <<Legacy!Descriptor(Head(todo))>>
           more == [i \in DOMAIN extras |-> Legacy!Descriptor(extras[i])]
           rest == Tail(todo)
<1>1. /\ stage = "decorate" /\ todo # <<>> /\ elements' = elements \o one \o more
      /\ extras' = <<>> /\ todo' = rest /\ UNCHANGED <<source, placements>>
      /\ stage' = "decorate" \/ (stage' = "class" /\ rest = <<>>)
  BY DEF Legacy!NextElement, Legacy!TakeUp
<1>2. /\ LegacyTypes /\ Records(placements) /\ Once(elements, extras, todo)
      /\ SetOf(elements) \cup SetOf(extras) \cup SetOf(todo) = TakenBy(placements)
  BY <1>1 DEF LegacyPlain
<1>3. /\ todo \in Seq(Legacy!Element) /\ extras \in Seq(Legacy!Element)
      /\ elements \in Seq(Legacy!Description)
  BY <1>2 DEF LegacyTypes
<1>4. /\ rest \in Seq(Legacy!Element) /\ todo[1] \in Legacy!Element
      /\ SetOf(todo) = {PairOf(todo[1])} \cup SetOf(rest)
      /\ Single(todo) <=> Single(rest) /\ PairOf(todo[1]) \notin SetOf(rest)
  BY <1>1, <1>3, HeadOf
<1>5. one \in Seq(Legacy!Description) /\ SetOf(one) = {PairOf(todo[1])} /\ Single(one)
  <2> DEFINE c == Legacy!Descriptor(todo[1])
  <2>1. c \in Legacy!Description /\ PairOf(c) = PairOf(todo[1])
    BY <1>4 DEF Legacy!Element, Legacy!Description, Legacy!Descriptor, PairOf
  <2>2. one = <<c>> OBVIOUS
  <2> HIDE DEF c
  <2>3. one \in Seq(Legacy!Description) BY <2>1, <2>2
  <2>4. Legacy!Places(<<c>>) = <<PairOf(c)>> BY DEF Legacy!Places, PairOf
  <2> QED BY <2>1, <2>2, <2>3, <2>4 DEF SetOf, Single, Legacy!ToSet, Legacy!IsInjective
<1>6. more \in Seq(Legacy!Description) /\ SetOf(more) = SetOf(extras) /\ (Single(more) <=> Single(extras))
  BY <1>3, Described DEF SetOf, Single
<1> HIDE DEF one, more, rest
<1>7. /\ elements \o one \in Seq(Legacy!Description)
      /\ SetOf(elements \o one) = SetOf(elements) \cup SetOf(one)
      /\ Single(elements \o one) <=> /\ Single(elements) /\ Single(one)
                                     /\ SetOf(elements) \cap SetOf(one) = {}
  BY <1>3, <1>5, SetsJoined
<1> DEFINE both == elements \o one
<1>8. elements' = both \o more BY <1>1
<1>9. both \in Seq(Legacy!Description) BY <1>7
<1> HIDE DEF both
<1>10. /\ elements' \in Seq(Legacy!Description)
       /\ SetOf(elements') = SetOf(both) \cup SetOf(more)
       /\ Single(elements') <=> Single(both) /\ Single(more) /\ SetOf(both) \cap SetOf(more) = {}
  BY <1>6, <1>8, <1>9, SetsJoined
<1>11. Once(elements', <<>>, rest)
  BY <1>2, <1>4, <1>5, <1>6, <1>7, <1>10, NothingPlaced DEF Once, both
<1>12. Once(elements, extras, todo)' BY <1>1, <1>11
<1>13. SetOf(elements') \cup SetOf(<<>>) \cup SetOf(rest) = TakenBy(placements)
  BY <1>2, <1>4, <1>5, <1>6, <1>7, <1>10, NothingPlaced DEF both
<1>14. SetOf(elements)' \cup SetOf(extras)' \cup SetOf(todo)' = TakenBy(placements')
  BY <1>1, <1>13
<1>15. LegacyTypes' BY <1>1, <1>2, <1>4, <1>10, EmptySeq DEF LegacyTypes
<1> QED BY <1>1, <1>2, <1>12, <1>14, <1>15 DEF LegacyPlain

\* An element that was moved is one.
LEMMA MovedTyped ==
    ASSUME NEW o \in Legacy!Description, NEW at,
           at.key \in Legacy!Keys, at.placement \in Legacy!Placement
    PROVE  Legacy!Moved(o, at) \in Legacy!Description
<1>1. \A k \in Legacy!Keys, p \in Legacy!Placement :
        [o EXCEPT !.key = k, !.placement = p] \in [kind : {"method", "field"},
                                  key : Legacy!Keys, placement : Legacy!Placement]
  BY DEF Legacy!Description
<1> QED BY <1>1 DEF Legacy!Moved, Legacy!Description

\* Decorators of the class may drop and move elements; these are compared.
LEMMA DecorateConstructorKeeps == LegacyPlain /\ Legacy!DecorateConstructor => LegacyPlain'
<1> SUFFICES ASSUME LegacyPlain, Legacy!DecorateConstructor PROVE LegacyPlain' OBVIOUS
<1>1. PICK new \in {elements} \cup {Legacy!RemoveAt(elements, i) : i \in DOMAIN elements}
                   \cup {[elements EXCEPT ![i] = Legacy!Moved(@, at)] : i \in DOMAIN elements, at \in Moves} :
        /\ stage' = "threw" \/ (stage' = "class" /\ Differ(new))
        /\ elements' = new
  BY DEF Legacy!DecorateConstructor, Differ
<1>2. /\ stage = "class" /\ UNCHANGED <<source, todo, placements, extras>>
      /\ LegacyTypes /\ todo = <<>> /\ extras = <<>>
  BY DEF Legacy!DecorateConstructor, LegacyPlain
<1>3. elements \in Seq(Legacy!Description) /\ DOMAIN elements = 1..Len(elements)
  BY <1>2, LenProperties DEF LegacyTypes
<1>4. new \in Seq(Legacy!Description)
  <2>1. CASE new = elements BY <2>1, <1>3
  <2>2. ASSUME NEW i \in DOMAIN elements, new = Legacy!RemoveAt(elements, i)
        PROVE  new \in Seq(Legacy!Description)
    BY <2>2, <1>3, Removed
  <2>3. ASSUME NEW i \in DOMAIN elements, NEW at \in Moves,
               new = [elements EXCEPT ![i] = Legacy!Moved(@, at)]
        PROVE  new \in Seq(Legacy!Description)
    <3>1. at.key \in Legacy!Keys /\ at.placement \in Legacy!Placement
      BY LegacyTexts DEF Legacy!LegacyAssumption, Legacy!Keys
    <3>2. elements[i] \in Legacy!Description BY <1>3, ElementOfSeq
    <3> DEFINE c == Legacy!Moved(elements[i], at)
    <3>3. c \in Legacy!Description BY <3>1, <3>2, MovedTyped
    <3>4. new = [elements EXCEPT ![i] = c] BY <2>3, <1>3
    <3> HIDE DEF c
    <3> QED BY <3>3, <3>4, <1>3, ExceptSeq
  <2> QED BY <1>1, <2>1, <2>2, <2>3
<1>5. LegacyTypes' BY <1>1, <1>2, <1>4 DEF LegacyTypes
<1>6. CASE stage' = "threw" BY <1>5, <1>6 DEF LegacyPlain
<1>7. CASE stage' = "class" /\ Differ(new)
  <2>1. Single(new) BY <1>4, <1>7, DifferIs DEF Single
  <2>2. Once(new, <<>>, <<>>) BY <2>1, NothingPlaced DEF Once
  <2>3. Once(elements, extras, todo)' BY <1>1, <1>2, <2>2
  <2> QED BY <1>2, <1>5, <1>7, <2>3 DEF LegacyPlain
<1> QED BY <1>1, <1>6, <1>7

\* Defining the elements changes none of them.
LEMMA DefineKeeps == LegacyPlain /\ Legacy!DefineElements => LegacyPlain'
<1> SUFFICES ASSUME LegacyPlain, Legacy!DefineElements PROVE LegacyPlain' OBVIOUS
<1>1. /\ stage = "class" /\ stage' = "finish"
      /\ defined' = Legacy!OnClass("method") \o Legacy!OnClass("field")
      /\ UNCHANGED <<source, todo, placements, elements, extras>>
      /\ LegacyTypes /\ todo = <<>> /\ extras = <<>> /\ Once(elements, extras, todo)
  BY DEF Legacy!DefineElements, LegacyPlain
<1>2. elements \in Seq(Legacy!Description) /\ Legacy!IsInjective(Legacy!Places(elements))
  BY <1>1 DEF LegacyTypes, Once, Single
<1>3. Single(defined') /\ Legacy!ToSet(defined') = OwnOnes(elements)
  BY <1>1, <1>2, AllDefined DEF Single, OwnOnes
<1>4. Single(defined)' /\ Legacy!ToSet(defined)' = OwnOnes(elements)' BY <1>1, <1>3
<1>5. LegacyTypes' BY <1>1 DEF LegacyTypes
<1>6. Once(elements, extras, todo)' BY <1>1
<1> QED BY <1>1, <1>4, <1>5, <1>6 DEF LegacyPlain

\* Every step keeps the invariant.
LEMMA LegacyKeeps == LegacyPlain /\ [Legacy!Next]_Legacy!vars => LegacyPlain'
<1> SUFFICES ASSUME LegacyPlain, [Legacy!Next]_Legacy!vars PROVE LegacyPlain' OBVIOUS
<1>1. ASSUME UNCHANGED <<source, todo, placements, elements, extras, defined>>
      PROVE  /\ LegacyTypes' /\ Once(elements, extras, todo)' = Once(elements, extras, todo)
             /\ (Single(defined) /\ Legacy!ToSet(defined) = OwnOnes(elements))'
                = (Single(defined) /\ Legacy!ToSet(defined) = OwnOnes(elements))
  <2>1. LegacyTypes' BY <1>1 DEF LegacyPlain, LegacyTypes
  <2> QED BY <1>1, <2>1
<1>2. CASE Legacy!Collect BY <1>2, CollectKeeps
<1>3. CASE Legacy!PlaceAll BY <1>3, PlaceKeeps
<1>4. CASE Legacy!DecorateElement BY <1>4, DecorateElementKeeps
<1>5. CASE Legacy!Refuse
  <2>1. /\ stage' = "threw" /\ UNCHANGED <<source, todo, placements, elements, extras, defined>>
    BY <1>5 DEF Legacy!Refuse
  <2> QED BY <1>1, <2>1 DEF LegacyPlain
<1>6. CASE Legacy!NextElement BY <1>6, NextElementKeeps
<1>7. CASE Legacy!DecorateConstructor BY <1>7, DecorateConstructorKeeps
<1>8. CASE Legacy!DefineElements BY <1>8, DefineKeeps
<1>9. CASE Legacy!RunFinisher
  <2>1. /\ stage = "finish" /\ UNCHANGED <<source, todo, placements, elements, extras, defined, finishers>>
        /\ \/ stage' \in {"finish", "threw"}
           \/ stage' = "done" /\ ran' = Len(finishers)
    BY <1>9 DEF Legacy!RunFinisher
  <2> QED BY <1>1, <2>1 DEF LegacyPlain
<1>10. CASE UNCHANGED Legacy!vars
  <2>1. UNCHANGED <<stage, source, todo, placements, elements, extras, finishers, ran, defined>>
    BY <1>10 DEF Legacy!vars
  <2> QED BY <1>1, <2>1 DEF LegacyPlain
<1> QED BY <1>2, <1>3, <1>4, <1>5, <1>6, <1>7, <1>8, <1>9, <1>10 DEF Legacy!Next

-----------------------------------------------------------------------------
(* Decorators.                                                             *)

\* The same as Recursion, as one formula.
LEMMA RecursionOn ==
    \A A : \A a \in A : \A n \in Nat : \A h \in [1..n -> [A -> A]] :
      \E f \in [0..n -> A] : f[0] = a /\ \A i \in 1..n : f[i] = h[i][f[i - 1]]
BY Recursion

\* The concatenation of sequences, one after the other.
LEMMA FlatIs ==
    ASSUME NEW T, NEW s \in Seq(Seq(T))
    PROVE  \E g \in [0..Len(s) -> Seq(T)] :
             /\ g[0] = <<>> /\ \A i \in 1..Len(s) : g[i] = g[i - 1] \o s[i]
             /\ Dec!FlattenSeq(s) = g[Len(s)]
<1> DEFINE L == Len(s)
           turn == [i \in 1..L |-> [t \in Seq(T) |-> t \o s[i]]]
           F == CHOOSE f : f = [i \in 1..L |-> IF i = 1 THEN s[i] ELSE f[i - 1] \o s[i]]
<1>1. L \in Nat /\ \A i \in 1..L : s[i] \in Seq(T) BY LenProperties, ElementOfSeq
<1>2. Dec!FlattenSeq(s) = IF L = 0 THEN s ELSE F[L] BY DEF Dec!FlattenSeq
<1> HIDE DEF L, F, turn
<1>3. turn \in [1..L -> [Seq(T) -> Seq(T)]] BY <1>1, ConcatProperties DEF turn
<1>4. PICK g \in [0..L -> Seq(T)] : g[0] = <<>> /\ \A i \in 1..L : g[i] = turn[i][g[i - 1]]
  <2>1. <<>> \in Seq(T) BY EmptySeq
  <2> DEFINE Z == Seq(T)
           none == <<>>
  <2>6. none \in Z BY <2>1
  <2> HIDE DEF Z, none
  <2>2. turn \in [1..L -> [Z -> Z]] BY <1>3 DEF Z
  <2>3. L \in Nat BY <1>1
  <2>4. \E f \in [0..L -> Z] : f[0] = none /\ \A i \in 1..L : f[i] = turn[i][f[i - 1]]
    BY <2>2, <2>3, <2>6, RecursionOn
  <2> QED BY <2>4 DEF Z, none
<1>5. ASSUME NEW i \in 1..L PROVE g[i] = g[i - 1] \o s[i]
  <2>1. i - 1 \in 0..L BY <1>1
  <2>2. g[i - 1] \in Seq(T) BY <2>1, <1>4
  <2> QED BY <2>2, <1>4 DEF turn
<1>6. CASE L = 0
  <2>1. s = <<>> BY <1>6, EmptySeq DEF L
  <2> QED BY <2>1, <1>2, <1>4, <1>5, <1>6 DEF L
<1>7. CASE L # 0
  <2> DEFINE f == [i \in 1..L |-> g[i]]
  <2>1. ASSUME NEW i \in 1..L PROVE f[i] = IF i = 1 THEN s[i] ELSE f[i - 1] \o s[i]
    <3>1. CASE i = 1
      <4>1. g[i - 1] = <<>> BY <3>1, <1>4
      <4>2. <<>> \o s[i] = s[i] BY <1>1, ConcatEmptySeq
      <4> QED BY <3>1, <4>1, <4>2, <1>5
    <3>2. CASE i # 1
      <4>1. i - 1 \in 1..L BY <3>2, <1>1
      <4> QED BY <3>2, <4>1, <1>5
    <3> QED BY <3>1, <3>2
  <2>2. f = [i \in 1..L |-> IF i = 1 THEN s[i] ELSE f[i - 1] \o s[i]] BY <2>1
  <2> HIDE DEF f
  <2>3. F = [i \in 1..L |-> IF i = 1 THEN s[i] ELSE F[i - 1] \o s[i]] BY <2>2 DEF F
  <2>8. \A i \in 1..L : F[i] = IF i = 1 THEN s[i] ELSE F[i - 1] \o s[i] BY <2>3
  <2> DEFINE S == {n \in Nat : n \in 1..L => F[n] = g[n]}
  <2>4. 0 \in S OBVIOUS
  <2>5. ASSUME NEW n \in Nat, n \in S PROVE n + 1 \in S
    <3> SUFFICES ASSUME n + 1 \in 1..L PROVE F[n + 1] = g[n + 1] OBVIOUS
    <3>1. (n + 1) - 1 = n OBVIOUS
    <3>2. CASE n = 0
      <4>0. 1 \in 1..L BY <3>2
      <4>1. <<>> \o s[1] = s[1] BY <4>0, <1>1, ConcatEmptySeq
      <4>2. n + 1 = 1 /\ 1 - 1 = 0 BY <3>2
      <4>3. g[1] = g[0] \o s[1] BY <4>0, <4>2, <1>5
      <4>4. g[0] = <<>> /\ F[1] = s[1] BY <4>0, <1>4, <2>8
      <4> QED BY <3>1, <3>2, <4>1, <4>2, <4>3, <4>4, <2>8
    <3>3. CASE n # 0
      <4>1. n \in 1..L /\ n + 1 # 1 BY <3>3, <1>1
      <4>2. F[n] = g[n] BY <4>1, <2>5
      <4>3. g[n + 1] = g[n] \o s[n + 1] BY <3>1, <1>5
      <4>4. F[n + 1] = F[n] \o s[n + 1] BY <3>1, <4>1, <2>8
      <4> QED BY <4>2, <4>3, <4>4
    <3> QED BY <3>2, <3>3
  <2> HIDE DEF S
  <2>6. L \in S BY <1>1, <2>4, <2>5, Induction
  <2>7. F[L] = g[L]
    <3>1. L \in 1..L BY <1>1, <1>7
    <3> QED BY <3>1, <2>6 DEF S
  <2> QED BY <2>7, <1>2, <1>4, <1>5, <1>7 DEF L
<1> QED BY <1>6, <1>7

\* One more sequence comes last.
LEMMA FlatGrows ==
    ASSUME NEW T, NEW s \in Seq(Seq(T)), NEW n \in Nat, Len(s) = n + 1,
           NEW t \in Seq(Seq(T)), Len(t) = n, \A i \in 1..n : t[i] = s[i]
    PROVE  /\ Dec!FlattenSeq(t) \in Seq(T) /\ s[n + 1] \in Seq(T)
           /\ Dec!FlattenSeq(s) = Dec!FlattenSeq(t) \o s[n + 1]
<1>1. PICK g \in [0..(n + 1) -> Seq(T)] :
             /\ g[0] = <<>> /\ \A i \in 1..(n + 1) : g[i] = g[i - 1] \o s[i]
             /\ Dec!FlattenSeq(s) = g[n + 1]
  <2>1. \E g \in [0..Len(s) -> Seq(T)] :
             /\ g[0] = <<>> /\ \A i \in 1..Len(s) : g[i] = g[i - 1] \o s[i]
             /\ Dec!FlattenSeq(s) = g[Len(s)]
    BY FlatIs
  <2> QED BY <2>1
<1>2. PICK h \in [0..n -> Seq(T)] :
             /\ h[0] = <<>> /\ \A i \in 1..n : h[i] = h[i - 1] \o t[i]
             /\ Dec!FlattenSeq(t) = h[n]
  <2>1. \E f \in [0..Len(t) -> Seq(T)] :
             /\ f[0] = <<>> /\ \A i \in 1..Len(t) : f[i] = f[i - 1] \o t[i]
             /\ Dec!FlattenSeq(t) = f[Len(t)]
    BY FlatIs
  <2> QED BY <2>1
<1> DEFINE S == {k \in Nat : k <= n => h[k] = g[k]}
<1>3. 0 \in S BY <1>1, <1>2
<1>4. ASSUME NEW k \in Nat, k \in S PROVE k + 1 \in S
  <2> SUFFICES ASSUME k + 1 <= n PROVE h[k + 1] = g[k + 1] OBVIOUS
  <2>1. k + 1 \in 1..n /\ k + 1 \in 1..(n + 1) /\ (k + 1) - 1 = k /\ k <= n OBVIOUS
  <2>2. h[k] = g[k] BY <2>1, <1>4
  <2> QED BY <2>1, <2>2, <1>1, <1>2
<1> HIDE DEF S
<1>5. n \in S BY <1>3, <1>4, Induction
<1>6. h[n] = g[n] BY <1>5 DEF S
<1>7. n + 1 \in 1..(n + 1) /\ (n + 1) - 1 = n /\ n \in 0..n OBVIOUS
<1>8. s[n + 1] \in Seq(T) BY <1>7, ElementOfSeq
<1> QED BY <1>1, <1>2, <1>6, <1>7, <1>8

\* What the model assumes of a class.
LEMMA DecClass ==
    ASSUME class \in Classes
    PROVE  /\ Len(class.members) \in Nat /\ DOMAIN class.members = 1..Len(class.members)
           /\ class.decs \in Nat
           /\ \A i \in 1..Len(class.members) :
                /\ class.members[i].kind \in 0..4 /\ class.members[i].decs \in Nat
                /\ class.members[i].static \in BOOLEAN /\ class.members[i].private \in BOOLEAN
<1>1. Dec!DecoratorAssumption BY ClassesAssumption
<1>2. /\ class.members \in Seq(Dec!ToSet(class.members)) /\ class.decs \in Nat
      /\ \A x \in Dec!ToSet(class.members) :
           x.kind \in 0..4 /\ x.decs \in Nat /\ {x.static, x.private} \subseteq BOOLEAN
  BY <1>1 DEF Dec!DecoratorAssumption, Dec!field, Dec!setter
<1>3. Len(class.members) \in Nat /\ DOMAIN class.members = 1..Len(class.members)
  BY <1>2, LenProperties
<1>4. \A i \in 1..Len(class.members) : class.members[i] \in Dec!ToSet(class.members)
  BY <1>2, ElementOfSeq
<1> QED BY <1>2, <1>3, <1>4

-----------------------------------------------------------------------------
\* The four runtimes take the same steps.
LEMMA DecActions ==
    ASSUME Dec!Next
    PROVE  \/ Dec!VisitMember \/ Dec!CallDecorator \/ Dec!SetMetadata
           \/ \E k \in kept : Dec!AddInitializer(k)
           \/ \E r \in Dec!Results : Dec!EndDecorator(r)
           \/ Dec!FinishMember \/ Dec!PushInitializers \/ Dec!BeginClass \/ Dec!FinishClass
           \/ \E l \in {"proto", "static"} : Dec!Attach(l)
BY DEF Dec!Next, Dec!addInitializer2112, Dec!metadata2112, Dec!memberDec2112,
       Dec!applyMemberDec2112, Dec!applyMemberDecs2112, Dec!pushInitializers2112,
       Dec!applyClassDecs2112, Dec!defineMetadata2112, Dec!addInitializer2203,
       Dec!memberDec2203, Dec!applyMemberDec2203, Dec!pushInitializers2203, Dec!applyDecs2203,
       Dec!addInitializer2203R, Dec!memberDec2203R, Dec!applyMemberDec2203R,
       Dec!applyMemberDecs2203R, Dec!pushInitializers2203R, Dec!applyClassDecs2203R,
       Dec!addInitializer2301, Dec!memberDec2301, Dec!applyMemberDec2301,
       Dec!applyMemberDecs2301, Dec!pushInitializers2301, Dec!applyClassDecs2301

-----------------------------------------------------------------------------
\* The decorator calls of the first n members.
CallsOf(n) == UNION {{<<i, k>> : k \in 1..class.members[i].decs} : i \in 1..n}

\* One more member: the calls of its decorators.
LEMMA CallsOfMore ==
    ASSUME NEW n \in Nat
    PROVE  CallsOf(n + 1) = CallsOf(n) \cup {<<n + 1, k>> : k \in 1..class.members[n + 1].decs}
<1>1. ASSUME NEW c PROVE c \in CallsOf(n + 1) <=> \E i \in 1..(n + 1) : \E k \in 1..class.members[i].decs : c = <<i, k>>
  BY DEF CallsOf
<1>2. ASSUME NEW c PROVE c \in CallsOf(n) <=> \E i \in 1..n : \E k \in 1..class.members[i].decs : c = <<i, k>>
  BY DEF CallsOf
<1>3. \A i : i \in 1..(n + 1) <=> i \in 1..n \/ i = n + 1 OBVIOUS
<1>4. ASSUME NEW c
      PROVE  c \in CallsOf(n + 1) <=> c \in CallsOf(n) \/ \E k \in 1..class.members[n + 1].decs : c = <<n + 1, k>>
  BY <1>1, <1>2, <1>3, Zenon
<1> QED BY <1>4, Zenon

\* Without members there is no call.
LEMMA CallsNone == CallsOf(0) = {}
<1>1. 1..0 = {} OBVIOUS
<1> QED BY <1>1 DEF CallsOf

\* The parts of the invariant: the functions that were handed out, the
\* initializers of the current member, and what is known of the text.
DecKept ==
    /\ kept \subseteq [by : Nat \X Nat, list : Dec!Lists]
    /\ \A k \in kept : k.by \in finished \/ k.by = Dec!Running
    /\ lists \in [Dec!Lists -> Seq([by : Nat \X Nat, during : Nat \X Nat])]
    /\ \A l \in Dec!Lists : \A i \in DOMAIN lists[l] : lists[l][i].by = lists[l][i].during

DecInits ==
    /\ inits \in Seq(Nat)
    /\ phase \in {"decorate", "call"} => \A i \in DOMAIN inits : inits[i] > d
    /\ \A i, j \in DOMAIN inits : i < j => inits[i] > inits[j]

DecText == phase # "threw" => Dec!Position /\ Dec!CallsEnded /\ Dec!MembersSeen /\ Dec!Pushed

DecPlain == class \in Classes /\ DecKept /\ DecInits /\ DecText

\* The call that is made is one of the text.
LEMMA DecCall ==
    ASSUME DecPlain, phase # "threw", phase # "visit", phase # "ready", phase # "done"
    PROVE  /\ Dec!Call \in Nat \X Nat /\ m \in Nat /\ d \in Nat /\ Dec!Target \in Dec!Lists
<1>1. Dec!Position BY DEF DecPlain, DecText
<1>2. m \in Nat /\ d \in Nat
  BY <1>1, DecClass DEF DecPlain, Dec!Position, Dec!Member, Dec!InClass
<1> QED BY <1>2 DEF Dec!Call, Dec!Target, Dec!Lists, Dec!ListOf

\* Who keeps the function can only use it while the decorator runs.
LEMMA DecKeptStep ==
    ASSUME DecPlain, Dec!Next
    PROVE  DecKept'
<1> USE DEF DecKept
<1>0. DecKept BY DEF DecPlain
<1>1. \A c \in Nat \X Nat : c # <<>> OBVIOUS
<1>2. Dec!Running = <<>> => \A k \in kept : k.by \in finished
  <2> SUFFICES ASSUME Dec!Running = <<>>, NEW k \in kept PROVE k.by \in finished OBVIOUS
  <2>1. k.by \in Nat \X Nat BY <1>0
  <2> QED BY <2>1, <1>0, <1>1
<1>3. ASSUME UNCHANGED <<kept, finished, lists>>, Dec!Running = <<>>, Dec!Running' = <<>> PROVE DecKept'
  BY <1>0, <1>3
<1>4. CASE Dec!VisitMember
  <2>1. phase = "visit" /\ phase' \in {"threw", "decorate"} /\ UNCHANGED <<kept, finished, lists>>
    BY <1>4 DEF Dec!VisitMember, Dec!Fixed
  <2> QED BY <2>1, <1>3 DEF Dec!Running
<1>5. CASE Dec!CallDecorator
  <2>1. /\ phase \in {"decorate", "class"} /\ phase' \in {"call", "classcall"}
        /\ Dec!InClass' = Dec!InClass /\ UNCHANGED <<m, d, finished, lists>>
        /\ kept' = kept \/ kept' = kept \cup {[by |-> Dec!Call, list |-> Dec!Target]}
    BY <1>5 DEF Dec!CallDecorator, Dec!InClass, Dec!Fixed
  <2>2. Dec!Running = <<>> /\ Dec!Running' = Dec!Call BY <2>1 DEF Dec!Running, Dec!Call
  <2>3. Dec!Call \in Nat \X Nat /\ Dec!Target \in Dec!Lists BY <2>1, DecCall
  <2>4. kept' \subseteq [by : Nat \X Nat, list : Dec!Lists] BY <2>1, <2>3, <1>0
  <2>5. ASSUME NEW k \in kept' PROVE k.by \in finished' \/ k.by = Dec!Running'
    <3>1. CASE k \in kept BY <3>1, <2>1, <2>2, <1>2
    <3>2. CASE k \notin kept BY <3>2, <2>1, <2>2
    <3> QED BY <3>1, <3>2
  <2> QED BY <2>1, <2>4, <2>5, <1>0
<1>6. ASSUME UNCHANGED <<kept, finished, lists>>, Dec!Running' = Dec!Running PROVE DecKept'
  BY <1>0, <1>6
<1>7. CASE Dec!SetMetadata
  BY <1>7, <1>6 DEF Dec!SetMetadata, Dec!Fixed, Dec!Running, Dec!Call, Dec!InClass
<1>8. ASSUME NEW k \in kept, Dec!AddInitializer(k) PROVE DecKept'
  <2> DEFINE a == [by |-> k.by, during |-> Dec!Running]
             T == [by : Nat \X Nat, during : Nat \X Nat]
  <2>1. /\ k.by \notin finished /\ lists' = [lists EXCEPT ![k.list] = Append(@, a)]
        /\ UNCHANGED <<phase, m, d, finished, kept>>
    BY <1>8 DEF Dec!AddInitializer, Dec!Fixed
  <2>2. k.by = Dec!Running /\ k.by \in Nat \X Nat /\ k.list \in Dec!Lists BY <2>1, <1>0
  <2>3. a \in T /\ a.by = a.during BY <2>2
  <2> HIDE DEF a
  <2>4. ASSUME NEW l \in Dec!Lists
        PROVE  lists'[l] \in Seq(T) /\ \A i \in DOMAIN lists'[l] : lists'[l][i].by = lists'[l][i].during
    <3>1. lists[l] \in Seq(T) BY <1>0
    <3>2. CASE l # k.list BY <3>1, <3>2, <2>1, <1>0
    <3>3. CASE l = k.list
      <4>1. lists'[l] = Append(lists[l], a) BY <3>3, <2>1, <2>2, <1>0
      <4> HIDE DEF T
      <4>2. /\ Append(lists[l], a) \in Seq(T) /\ Len(Append(lists[l], a)) = Len(lists[l]) + 1
            /\ \A i \in 1..Len(lists[l]) : Append(lists[l], a)[i] = lists[l][i]
            /\ Append(lists[l], a)[Len(lists[l]) + 1] = a
        BY <3>1, <2>3, AppendProperties
      <4>3. /\ Len(lists[l]) \in Nat /\ DOMAIN lists[l] = 1..Len(lists[l])
            /\ DOMAIN Append(lists[l], a) = 1..(Len(lists[l]) + 1)
        BY <3>1, <4>2, LenProperties
      <4>4. ASSUME NEW i \in DOMAIN Append(lists[l], a)
            PROVE  Append(lists[l], a)[i].by = Append(lists[l], a)[i].during
        <5>1. CASE i = Len(lists[l]) + 1 BY <5>1, <4>2, <2>3
        <5>2. CASE i # Len(lists[l]) + 1
          <6>1. i \in 1..Len(lists[l]) BY <5>2, <4>3, <4>4
          <6> QED BY <6>1, <4>2, <4>3, <1>0
        <5> QED BY <5>1, <5>2
      <4> QED BY <4>1, <4>2, <4>4
    <3> QED BY <3>2, <3>3
  <2>5. lists' = [l \in Dec!Lists |-> lists'[l]] BY <2>1, <1>0
  <2>6. lists' \in [Dec!Lists -> Seq(T)] BY <2>4, <2>5
  <2>7. Dec!Running' = Dec!Running BY <2>1 DEF Dec!Running, Dec!Call, Dec!InClass
  <2> QED BY <2>1, <2>4, <2>6, <2>7, <1>0
<1>9. ASSUME NEW r \in Dec!Results, Dec!EndDecorator(r) PROVE DecKept'
  <2>1. /\ Dec!Running # <<>> /\ finished' = finished \cup {Dec!Call} /\ UNCHANGED <<kept, lists>>
    BY <1>9 DEF Dec!EndDecorator, Dec!Fixed
  <2>2. Dec!Running = Dec!Call BY <2>1 DEF Dec!Running
  <2> QED BY <2>1, <2>2, <1>0
<1>10. CASE Dec!FinishMember BY <1>10, <1>3 DEF Dec!FinishMember, Dec!Fixed, Dec!Running
<1>11. CASE Dec!PushInitializers BY <1>11, <1>3 DEF Dec!PushInitializers, Dec!Fixed, Dec!Running
<1>12. CASE Dec!BeginClass BY <1>12, <1>3 DEF Dec!BeginClass, Dec!Fixed, Dec!Running
<1>13. CASE Dec!FinishClass BY <1>13, <1>3 DEF Dec!FinishClass, Dec!Fixed, Dec!Running
<1>14. ASSUME NEW l, Dec!Attach(l) PROVE DecKept'
  BY <1>14, <1>6 DEF Dec!Attach, Dec!Fixed, Dec!Running, Dec!Call, Dec!InClass
<1> HIDE DEF DecKept
<1> QED BY <1>4, <1>5, <1>7, <1>8, <1>9, <1>10, <1>11, <1>12, <1>13, <1>14, DecActions

\* Decorators run from the last to the first, and so do their initializers.
LEMMA DecInitsStep ==
    ASSUME DecPlain, Dec!Next
    PROVE  DecInits'
<1>0. DecInits BY DEF DecPlain
<1>1. ASSUME UNCHANGED <<inits, d>>, phase' \in {"decorate", "call"} => phase \in {"decorate", "call"}
      PROVE  DecInits'
  BY <1>0, <1>1 DEF DecInits
<1>2. CASE Dec!VisitMember
  <2>1. inits' = <<>> BY <1>2 DEF Dec!VisitMember
  <2>2. <<>> \in Seq(Nat) /\ DOMAIN <<>> = {} BY EmptySeq
  <2> QED BY <2>1, <2>2 DEF DecInits
<1>3. CASE Dec!CallDecorator
  BY <1>3, <1>1 DEF Dec!CallDecorator, Dec!InClass, Dec!Fixed
<1>4. CASE Dec!SetMetadata BY <1>4, <1>1 DEF Dec!SetMetadata, Dec!Fixed
<1>5. ASSUME NEW k, Dec!AddInitializer(k) PROVE DecInits' BY <1>5, <1>1 DEF Dec!AddInitializer, Dec!Fixed
<1>6. ASSUME NEW r \in Dec!Results, Dec!EndDecorator(r) PROVE DecInits'
  <2>1. /\ phase \in {"call", "classcall"} /\ phase' \in {"threw", "class", "decorate"}
        /\ phase = "classcall" => phase' # "decorate"
        /\ phase' # "threw" => d' = d - 1
        /\ inits' = inits \/ (inits' = Append(inits, d) /\ phase = "call")
    BY <1>6 DEF Dec!EndDecorator, Dec!Running, Dec!InClass
  <2>2. d \in Nat BY <2>1, DecCall
  <2>3. /\ inits \in Seq(Nat) /\ Len(inits) \in Nat /\ DOMAIN inits = 1..Len(inits)
        /\ \A i \in 1..Len(inits) : inits[i] \in Nat
    BY <1>0, LenProperties, ElementOfSeq DEF DecInits
  <2>4. CASE inits' = inits
    <3>1. ASSUME phase' \in {"decorate", "call"}, NEW i \in DOMAIN inits PROVE inits[i] > d'
      <4>1. phase = "call" /\ d' = d - 1 BY <3>1, <2>1
      <4>2. inits[i] > d /\ inits[i] \in Nat BY <4>1, <3>1, <2>3, <1>0 DEF DecInits
      <4> QED BY <4>1, <4>2, <2>2
    <3> QED BY <2>4, <3>1, <1>0 DEF DecInits
  <2>5. CASE inits' = Append(inits, d) /\ phase = "call"
    <3>1. /\ inits' \in Seq(Nat) /\ Len(inits') = Len(inits) + 1
          /\ \A i \in 1..Len(inits) : inits'[i] = inits[i]
          /\ inits'[Len(inits) + 1] = d
      BY <2>5, <2>2, <2>3, AppendProperties
    <3>2. DOMAIN inits' = 1..(Len(inits) + 1) BY <3>1, LenProperties
    <3>3. ASSUME NEW i \in 1..Len(inits) PROVE inits[i] > d BY <2>5, <2>3, <1>0 DEF DecInits
    <3>4. ASSUME phase' \in {"decorate", "call"}, NEW i \in DOMAIN inits' PROVE inits'[i] > d'
      <4>1. d' = d - 1 BY <3>4, <2>1
      <4>2. CASE i = Len(inits) + 1 BY <4>1, <4>2, <3>1, <2>2
      <4>3. CASE i # Len(inits) + 1
        <5>1. i \in 1..Len(inits) BY <4>3, <3>2, <2>3
        <5>2. inits'[i] = inits[i] /\ inits[i] > d /\ inits[i] \in Nat BY <5>1, <3>1, <3>3, <2>3
        <5> QED BY <5>2, <4>1, <2>2
      <4> QED BY <4>2, <4>3
    <3>5. ASSUME NEW i \in DOMAIN inits', NEW j \in DOMAIN inits', i < j PROVE inits'[i] > inits'[j]
      <4>1. i \in 1..Len(inits) /\ inits'[i] = inits[i] BY <3>5, <3>1, <3>2, <2>3
      <4>2. CASE j = Len(inits) + 1 BY <4>1, <4>2, <3>1, <3>3
      <4>3. CASE j # Len(inits) + 1
        <5>1. j \in 1..Len(inits) /\ inits'[j] = inits[j] BY <4>3, <3>1, <3>2, <2>3
        <5> QED BY <4>1, <5>1, <3>5, <2>3, <1>0 DEF DecInits
      <4> QED BY <4>2, <4>3
    <3> QED BY <3>1, <3>4, <3>5 DEF DecInits
  <2> QED BY <2>1, <2>4, <2>5
<1>7. CASE Dec!FinishMember BY <1>7, <1>1 DEF Dec!FinishMember, Dec!Fixed
<1>8. CASE Dec!PushInitializers BY <1>8, <1>1 DEF Dec!PushInitializers, Dec!Fixed
<1>9. CASE Dec!BeginClass
  <2>1. inits' = inits /\ phase' \in {"class", "done"} BY <1>9 DEF Dec!BeginClass
  <2> QED BY <2>1, <1>0 DEF DecInits
<1>10. CASE Dec!FinishClass BY <1>10, <1>1 DEF Dec!FinishClass, Dec!Fixed
<1>11. ASSUME NEW l, Dec!Attach(l) PROVE DecInits' BY <1>11, <1>1 DEF Dec!Attach, Dec!Fixed
<1> QED BY <1>2, <1>3, <1>4, <1>5, <1>6, <1>7, <1>8, <1>9, <1>10, <1>11, DecActions

-----------------------------------------------------------------------------
\* What a step that leaves a member, or the class, where it is keeps.
LEMMA DecStays ==
    ASSUME DecText, phase # "threw", UNCHANGED <<class, m, finished, made, seen, ret>>,
           Dec!Visited' = Dec!Visited, phase' \notin {"done", "threw"},
           phase \notin {"done"},
           phase' \in {"visit", "decorate", "call"} <=> phase \in {"visit", "decorate", "call"},
           phase' \in {"decorate", "call"} <=> phase \in {"decorate", "call"},
           Dec!InClass' = Dec!InClass, d' = d, Dec!Position'
    PROVE  DecText'
<1>1. Dec!CallsEnded' BY DEF DecText, Dec!CallsEnded, Dec!Member
<1>2. Dec!MembersSeen' BY DEF DecText, Dec!MembersSeen, Dec!ListOf
<1>3. Dec!Pushed' BY DEF DecText, Dec!Pushed, Dec!Slots
<1> QED BY <1>1, <1>2, <1>3 DEF DecText

\* What the first n members push.
SlotsOf(n) == Dec!FlattenSeq([i \in 1..n |-> Dec!Slots(class.members[i], i)])
SlotNames == {"init", "get", "set", "call", "run", "class"} \X (Nat \cup Dec!Lists)

\* The slots of a member are a sequence.
LEMMA SlotsTyped ==
    ASSUME NEW x, NEW i \in Nat
    PROVE  Dec!Slots(x, i) \in Seq(SlotNames)
<1>1. \A w \in {"init", "get", "set", "call", "run", "class"} : <<w, i>> \in SlotNames BY DEF SlotNames
<1> HIDE DEF SlotNames
<1>2. <<>> \in Seq(SlotNames) /\ <<<<"init", i>>>> \in Seq(SlotNames)
      /\ <<<<"get", i>>, <<"set", i>>>> \in Seq(SlotNames) /\ <<<<"call", i>>>> \in Seq(SlotNames)
  BY <1>1
<1> DEFINE a == IF x.kind \in {Dec!field, Dec!accessor} THEN <<<<"init", i>>>> ELSE <<>>
           b == IF ~x.private \/ x.kind = Dec!field THEN <<>>
                ELSE IF x.kind = Dec!accessor THEN <<<<"get", i>>, <<"set", i>>>>
                ELSE <<<<"call", i>>>>
<1>3. a \in Seq(SlotNames) /\ b \in Seq(SlotNames) BY <1>2
<1>4. Dec!Slots(x, i) = a \o b BY DEF Dec!Slots
<1> HIDE DEF a, b
<1> QED BY <1>3, <1>4, ConcatProperties

\* One more member: its slots come last.
LEMMA SlotsMore ==
    ASSUME NEW n \in Nat
    PROVE  /\ SlotsOf(n) \in Seq(SlotNames)
           /\ Dec!Slots(class.members[n + 1], n + 1) \in Seq(SlotNames)
           /\ SlotsOf(n + 1) = SlotsOf(n) \o Dec!Slots(class.members[n + 1], n + 1)
<1> DEFINE s == [i \in 1..(n + 1) |-> Dec!Slots(class.members[i], i)]
           t == [i \in 1..n |-> Dec!Slots(class.members[i], i)]
<1>1. \A i \in Nat : Dec!Slots(class.members[i], i) \in Seq(SlotNames) BY SlotsTyped
<1>2. \A Z : \A k \in Nat : \A f \in [1..k -> Z] : f \in Seq(Z) /\ Len(f) = k OBVIOUS
<1>3. s \in [1..(n + 1) -> Seq(SlotNames)] /\ t \in [1..n -> Seq(SlotNames)] BY <1>1
<1>4. \A i \in 1..n : t[i] = s[i] OBVIOUS
<1>5. s[n + 1] = Dec!Slots(class.members[n + 1], n + 1) OBVIOUS
<1>6. SlotsOf(n + 1) = Dec!FlattenSeq(s) /\ SlotsOf(n) = Dec!FlattenSeq(t) BY DEF SlotsOf
<1> HIDE DEF s, t, SlotNames
<1>7. /\ s \in Seq(Seq(SlotNames)) /\ Len(s) = n + 1 /\ t \in Seq(Seq(SlotNames)) /\ Len(t) = n
  BY <1>2, <1>3
<1>8. /\ Dec!FlattenSeq(t) \in Seq(SlotNames) /\ s[n + 1] \in Seq(SlotNames)
      /\ Dec!FlattenSeq(s) = Dec!FlattenSeq(t) \o s[n + 1]
  BY <1>4, <1>7, FlatGrows
<1> QED BY <1>5, <1>6, <1>8

-----------------------------------------------------------------------------
\* The parts of the invariant in terms of these.
LEMMA DecEndedIs ==
    /\ Dec!CallsEnded <=> finished = CallsOf(m - 1)
               \cup (IF phase \in {"decorate", "call"}
                     THEN {<<m, k>> : k \in (d + 1)..class.members[m].decs} ELSE {})
               \cup (IF Dec!InClass THEN {<<0, k>> : k \in (d + 1)..class.decs}
                     ELSE IF phase = "done" THEN {<<0, k>> : k \in 1..class.decs} ELSE {})
BY DEF Dec!CallsEnded, CallsOf, Dec!Member

Run(l) == IF l \in made THEN <<<<"run", l>>>> ELSE <<>>
ClassSlots == IF phase = "done" /\ class.decs > 0 THEN <<<<"class", "class">>, <<"run", "class">>>> ELSE <<>>

\* The array, in these terms.
LEMMA DecPushedIs ==
    Dec!Pushed <=>
      ret = IF phase \in {"visit", "decorate", "call"} THEN SlotsOf(m - 1)
            ELSE SlotsOf(Len(class.members)) \o Run("proto") \o Run("static") \o ClassSlots
BY DEF Dec!Pushed, SlotsOf, Run, ClassSlots

\* Its parts are sequences.
LEMMA RunTyped ==
    ASSUME NEW n \in Nat
    PROVE  /\ SlotsOf(n) \o Run("proto") \o Run("static") \in Seq(SlotNames)
           /\ SlotsOf(n) \o Run("proto") \o Run("static") \o <<>> = SlotsOf(n) \o Run("proto") \o Run("static")
<1>1. \A l \in Dec!Lists : <<"run", l>> \in SlotNames BY DEF SlotNames
<1> HIDE DEF SlotNames
<1>2. SlotsOf(n) \in Seq(SlotNames) BY SlotsMore
<1>3. Run("proto") \in Seq(SlotNames) /\ Run("static") \in Seq(SlotNames)
  BY <1>1 DEF Run, Dec!Lists
<1>4. SlotsOf(n) \o Run("proto") \in Seq(SlotNames) BY <1>2, <1>3, ConcatProperties
<1>5. SlotsOf(n) \o Run("proto") \o Run("static") \in Seq(SlotNames) BY <1>3, <1>4, ConcatProperties
<1> QED BY <1>5, ConcatEmptySeq

\* Who visits no member has seen the same ones.
LEMMA SeenStays ==
    ASSUME Dec!MembersSeen, UNCHANGED <<class, made, seen>>, Dec!Visited' = Dec!Visited
    PROVE  Dec!MembersSeen'
BY DEF Dec!MembersSeen, Dec!ListOf

\* The array after a step of the class part.
LEMMA DecPushedNow ==
    ASSUME phase' \notin {"visit", "decorate", "call"},
           ret' = SlotsOf(Len(class.members))' \o Run("proto")' \o Run("static")' \o ClassSlots'
    PROVE  Dec!Pushed'
BY DEF Dec!Pushed, SlotsOf, Run, ClassSlots

\* A step that changes none of these variables keeps what is known of them.
LEMMA DecSame ==
    ASSUME DecText, UNCHANGED <<class, phase, m, d, finished, made, seen, ret>>
    PROVE  DecText'
<1>1. Dec!Visited' = Dec!Visited /\ Dec!InClass' = Dec!InClass /\ Dec!Member' = Dec!Member
  BY DEF Dec!Visited, Dec!InClass, Dec!Member
<1>2. Dec!Position => Dec!Position' BY <1>1 DEF Dec!Position
<1>3. Dec!MembersSeen => Dec!MembersSeen' BY <1>1, SeenStays
<1>4. Dec!CallsEnded => Dec!CallsEnded' BY <1>1 DEF Dec!CallsEnded
<1>5. Dec!Pushed => Dec!Pushed' BY DEF Dec!Pushed, Dec!Slots
<1> QED BY <1>2, <1>3, <1>4, <1>5 DEF DecText

\* A decorator is called: the call is not over.
LEMMA DecCalled ==
    ASSUME DecPlain, Dec!CallDecorator
    PROVE  DecText'
<1>1. /\ phase \in {"decorate", "class"} /\ d > 0 /\ phase # "threw"
      /\ phase = "class" => phase' = "classcall"
      /\ phase = "decorate" => phase' = "call"
      /\ UNCHANGED <<class, m, d, finished, made, seen, ret>>
  BY DEF Dec!CallDecorator, Dec!InClass, Dec!Fixed
<1>2. Dec!Position BY <1>1 DEF DecPlain, DecText
<1>3. Dec!Position' BY <1>1, <1>2 DEF Dec!Position, Dec!InClass, Dec!Member
<1>4. Dec!Visited' = Dec!Visited /\ Dec!InClass' = Dec!InClass BY <1>1 DEF Dec!Visited, Dec!InClass
<1> QED BY <1>1, <1>3, <1>4, DecStays DEF DecPlain

\* A decorator ends: its call is over, and the one before it is next.
LEMMA DecEnded ==
    ASSUME DecPlain, NEW r \in Dec!Results, Dec!EndDecorator(r)
    PROVE  DecText'
<1>1. /\ phase \in {"call", "classcall"} /\ finished' = finished \cup {Dec!Call}
      /\ UNCHANGED <<class, m, made, seen, ret>>
  BY DEF Dec!EndDecorator, Dec!Running, Dec!Fixed
<1> SUFFICES ASSUME phase' # "threw"
             PROVE  Dec!Position' /\ Dec!CallsEnded' /\ Dec!MembersSeen' /\ Dec!Pushed'
  BY DEF DecText
<1>2. /\ d' = d - 1
      /\ phase = "call" => phase' = "decorate"
      /\ phase = "classcall" => phase' = "class"
  BY <1>1 DEF Dec!EndDecorator, Dec!InClass
<1>3. Dec!Position /\ Dec!CallsEnded /\ Dec!MembersSeen /\ Dec!Pushed BY <1>1 DEF DecPlain, DecText
<1>4. m \in Nat /\ d \in Nat BY <1>1, DecCall
<1>5. /\ class.decs \in Nat /\ Len(class.members) \in Nat
      /\ \A i \in 1..Len(class.members) : class.members[i].decs \in Nat
  BY DecClass DEF DecPlain
<1>6. d > 0 BY <1>1, <1>3 DEF Dec!Position
<1>7. Dec!Position' BY <1>1, <1>2, <1>3, <1>4, <1>5, <1>6 DEF Dec!Position, Dec!InClass, Dec!Member
<1>8. Dec!CallsEnded'
  <2>1. CallsOf(m - 1)' = CallsOf(m - 1) BY <1>1 DEF CallsOf
  <2>2. CASE phase = "call"
    <3>1. finished = CallsOf(m - 1) \cup {<<m, k>> : k \in (d + 1)..class.members[m].decs}
      BY <2>2, <1>3, DecEndedIs DEF Dec!InClass
    <3>2. Dec!Call = <<m, d>> BY <2>2 DEF Dec!Call, Dec!InClass
    <3>3. d \in 0..class.members[m].decs /\ class.members[m].decs \in Nat
      BY <2>2, <1>3, <1>5 DEF Dec!Position, Dec!Member
    <3>4. \A k : k \in d..class.members[m].decs <=> k = d \/ k \in (d + 1)..class.members[m].decs
      BY <3>3, <1>4
    <3>5. {<<m, k>> : k \in d..class.members[m].decs}
            = {<<m, k>> : k \in (d + 1)..class.members[m].decs} \cup {<<m, d>>}
      BY <3>4, Zenon
    <3>6. finished' = CallsOf(m - 1) \cup {<<m, k>> : k \in d..class.members[m].decs}
      BY <1>1, <3>1, <3>2, <3>5, Zenon
    <3>7. d' + 1 = d BY <1>2, <1>4
    <3>8. finished' = CallsOf(m - 1)' \cup {<<m, k>> : k \in (d' + 1)..class.members[m].decs}
      BY <3>6, <3>7, <2>1
    <3> QED BY <3>8, <2>2, <1>1, <1>2 DEF Dec!CallsEnded, CallsOf, Dec!Member, Dec!InClass
  <2>3. CASE phase = "classcall"
    <3>1. finished = CallsOf(m - 1) \cup {<<0, k>> : k \in (d + 1)..class.decs}
      BY <2>3, <1>3, DecEndedIs DEF Dec!InClass
    <3>2. Dec!Call = <<0, d>> BY <2>3 DEF Dec!Call, Dec!InClass
    <3>3. d \in 0..class.decs BY <2>3, <1>3 DEF Dec!Position, Dec!InClass
    <3>4. \A k : k \in d..class.decs <=> k = d \/ k \in (d + 1)..class.decs
      BY <3>3, <1>4, <1>5
    <3>5. {<<0, k>> : k \in d..class.decs} = {<<0, k>> : k \in (d + 1)..class.decs} \cup {<<0, d>>}
      BY <3>4, Zenon
    <3>6. finished' = CallsOf(m - 1) \cup {<<0, k>> : k \in d..class.decs}
      BY <1>1, <3>1, <3>2, <3>5, Zenon
    <3>7. d' + 1 = d BY <1>2, <1>4
    <3>8. finished' = CallsOf(m - 1)' \cup {<<0, k>> : k \in (d' + 1)..class.decs}
      BY <3>6, <3>7, <2>1
    <3> QED BY <3>8, <2>3, <1>1, <1>2 DEF Dec!CallsEnded, CallsOf, Dec!Member, Dec!InClass
  <2> QED BY <1>1, <2>2, <2>3
<1>9. Dec!MembersSeen'
  <2>1. Dec!Visited' = Dec!Visited BY <1>1, <1>2 DEF Dec!Visited
  <2> QED BY <2>1, <1>1, <1>3, SeenStays
<1>10. Dec!Pushed' BY <1>1, <1>2, <1>3 DEF Dec!Pushed, Dec!Slots
<1> QED BY <1>7, <1>8, <1>9, <1>10

\* All decorators of a member have run: its slots are pushed.
LEMMA DecFinished ==
    ASSUME DecPlain, Dec!FinishMember
    PROVE  DecText'
<1>1. /\ phase = "decorate" /\ d = 0 /\ phase' = "visit" /\ m' = m + 1
      /\ ret' = ret \o Dec!Slots(class.members[m], m)
      /\ UNCHANGED <<class, finished, made, seen>>
  BY DEF Dec!FinishMember, Dec!Fixed, Dec!Member
<1>2. Dec!Position /\ Dec!CallsEnded /\ Dec!MembersSeen /\ Dec!Pushed BY <1>1 DEF DecPlain, DecText
<1>3. m \in Nat /\ Len(class.members) \in Nat BY <1>1, DecCall, DecClass DEF DecPlain
<1>4. m \in 1..Len(class.members) BY <1>1, <1>2, <1>3 DEF Dec!Position
<1>5. (m - 1) \in Nat /\ (m - 1) + 1 = m /\ m' - 1 = m /\ d + 1 = 1 BY <1>1, <1>3, <1>4
<1>6. Dec!Position' BY <1>1, <1>3, <1>4 DEF Dec!Position, Dec!InClass
<1>7. Dec!CallsEnded'
  <2>1. finished = CallsOf(m - 1) \cup {<<m, k>> : k \in 1..class.members[m].decs}
    BY <1>1, <1>2, <1>5, DecEndedIs DEF Dec!InClass
  <2>2. CallsOf((m - 1) + 1)
          = CallsOf(m - 1) \cup {<<(m - 1) + 1, k>> : k \in 1..class.members[(m - 1) + 1].decs}
    BY <1>5, CallsOfMore
  <2>3. finished' = CallsOf(m) BY <2>1, <2>2, <1>1, <1>5
  <2> QED BY <2>3, <1>1, <1>5 DEF Dec!CallsEnded, CallsOf, Dec!InClass
<1>8. Dec!MembersSeen'
  <2>1. Dec!Visited' = Dec!Visited BY <1>1, <1>5 DEF Dec!Visited
  <2> QED BY <2>1, <1>1, <1>2, SeenStays
<1>9. Dec!Pushed'
  <2>1. ret = SlotsOf(m - 1) BY <1>1, <1>2, DecPushedIs
  <2>2. SlotsOf((m - 1) + 1) = SlotsOf(m - 1) \o Dec!Slots(class.members[(m - 1) + 1], (m - 1) + 1)
    BY <1>5, SlotsMore
  <2>3. ret' = SlotsOf(m) BY <2>1, <2>2, <1>1, <1>5
  <2> QED BY <2>3, <1>1, <1>5 DEF Dec!Pushed, SlotsOf, Dec!Slots
<1> QED BY <1>6, <1>7, <1>8, <1>9 DEF DecText

\* All members are finished: the lists that were made are pushed.
LEMMA DecReady ==
    ASSUME DecPlain, Dec!PushInitializers
    PROVE  DecText'
<1>1. /\ phase = "visit" /\ m > Len(class.members) /\ phase' = "ready"
      /\ ret' = ret \o Run("proto") \o Run("static")
      /\ UNCHANGED <<class, m, finished, made, seen>>
  BY DEF Dec!PushInitializers, Dec!Fixed, Run
<1>2. Dec!Position /\ Dec!CallsEnded /\ Dec!MembersSeen /\ Dec!Pushed BY <1>1 DEF DecPlain, DecText
<1>3. Len(class.members) \in Nat BY DecClass DEF DecPlain
<1>4. m = Len(class.members) + 1 BY <1>1, <1>2, <1>3 DEF Dec!Position
<1>5. m - 1 = Len(class.members) BY <1>3, <1>4
<1>6. Dec!Position' BY <1>1, <1>3, <1>4 DEF Dec!Position, Dec!InClass
<1>7. Dec!CallsEnded' BY <1>1, <1>2 DEF Dec!CallsEnded, Dec!InClass, Dec!Member
<1>8. Dec!MembersSeen'
  <2>1. Dec!Visited' = Dec!Visited BY <1>1 DEF Dec!Visited
  <2> QED BY <2>1, <1>1, <1>2, SeenStays
<1>9. Dec!Pushed'
  <2>1. ret' = SlotsOf(Len(class.members)) \o Run("proto") \o Run("static")
    BY <1>1, <1>2, <1>5, DecPushedIs
  <2>2. ret' = SlotsOf(Len(class.members)) \o Run("proto") \o Run("static") \o <<>>
    BY <2>1, <1>3, RunTyped
  <2>3. /\ SlotsOf(Len(class.members))' = SlotsOf(Len(class.members)) /\ ClassSlots' = <<>>
        /\ Run("proto")' = Run("proto") /\ Run("static")' = Run("static")
    BY <1>1 DEF SlotsOf, Dec!Slots, ClassSlots, Run
  <2> QED BY <2>2, <2>3, <1>1, DecPushedNow
<1> QED BY <1>6, <1>7, <1>8, <1>9 DEF DecText

\* The class part begins, or there is none.
LEMMA DecBegun ==
    ASSUME DecPlain, Dec!BeginClass
    PROVE  DecText'
<1>1. /\ phase = "ready" /\ phase' = IF class.decs > 0 THEN "class" ELSE "done"
      /\ d' = class.decs
      /\ UNCHANGED <<class, m, finished, made, seen, ret>>
  BY DEF Dec!BeginClass, Dec!Fixed
<1>2. Dec!Position /\ Dec!CallsEnded /\ Dec!MembersSeen /\ Dec!Pushed BY <1>1 DEF DecPlain, DecText
<1>3. Len(class.members) \in Nat /\ class.decs \in Nat BY DecClass DEF DecPlain
<1>4. m = Len(class.members) + 1 BY <1>1, <1>2 DEF Dec!Position
<1>5. Dec!Position' BY <1>1, <1>3, <1>4 DEF Dec!Position, Dec!InClass
<1>6. Dec!CallsEnded'
  <2>1. finished = CallsOf(m - 1) BY <1>1, <1>2, DecEndedIs DEF Dec!InClass
  <2>2. {<<0, k>> : k \in (class.decs + 1)..class.decs} = {} BY <1>3
  <2>3. CASE class.decs > 0
    BY <2>1, <2>2, <2>3, <1>1 DEF Dec!CallsEnded, CallsOf, Dec!InClass
  <2>4. CASE ~(class.decs > 0)
    <3>1. {<<0, k>> : k \in 1..class.decs} = {} BY <2>4, <1>3
    <3> QED BY <3>1, <2>1, <2>4, <1>1 DEF Dec!CallsEnded, CallsOf, Dec!InClass
  <2> QED BY <2>3, <2>4
<1>7. Dec!MembersSeen'
  <2>1. Dec!Visited' = Dec!Visited BY <1>1 DEF Dec!Visited
  <2> QED BY <2>1, <1>1, <1>2, SeenStays
<1>8. Dec!Pushed'
  <2>1. ret = SlotsOf(Len(class.members)) \o Run("proto") \o Run("static") \o <<>>
    BY <1>1, <1>2, DecPushedIs DEF ClassSlots
  <2>2. /\ SlotsOf(Len(class.members))' = SlotsOf(Len(class.members)) /\ ClassSlots' = <<>>
        /\ Run("proto")' = Run("proto") /\ Run("static")' = Run("static")
    BY <1>1 DEF SlotsOf, Dec!Slots, ClassSlots, Run
  <2> QED BY <2>1, <2>2, <1>1, DecPushedNow
<1> QED BY <1>5, <1>6, <1>7, <1>8 DEF DecText

\* The class part ends: the class and its initializers are pushed.
LEMMA DecDone ==
    ASSUME DecPlain, Dec!FinishClass
    PROVE  DecText'
<1> DEFINE classPair == <<<<"class", "class">>, <<"run", "class">>>>
<1>1. /\ phase = "class" /\ d = 0 /\ phase' = "done" /\ ret' = ret \o classPair
      /\ UNCHANGED <<class, m, d, finished, made, seen>>
  BY DEF Dec!FinishClass, Dec!Fixed
<1>2. Dec!Position /\ Dec!CallsEnded /\ Dec!MembersSeen /\ Dec!Pushed BY <1>1 DEF DecPlain, DecText
<1>3. Len(class.members) \in Nat /\ class.decs \in Nat BY DecClass DEF DecPlain
<1>4. m = Len(class.members) + 1 /\ class.decs > 0 BY <1>1, <1>2 DEF Dec!Position, Dec!InClass
<1>5. Dec!Position' BY <1>1, <1>3, <1>4 DEF Dec!Position, Dec!InClass
<1>6. Dec!CallsEnded'
  <2>1. d + 1 = 1 BY <1>1
  <2>2. finished = CallsOf(m - 1) \cup {<<0, k>> : k \in 1..class.decs}
    BY <2>1, <1>1, <1>2, DecEndedIs DEF Dec!InClass
  <2> QED BY <2>2, <1>1 DEF Dec!CallsEnded, CallsOf, Dec!InClass
<1>7. Dec!MembersSeen'
  <2>1. Dec!Visited' = Dec!Visited BY <1>1 DEF Dec!Visited
  <2> QED BY <2>1, <1>1, <1>2, SeenStays
<1>8. Dec!Pushed'
  <2>1. ret = SlotsOf(Len(class.members)) \o Run("proto") \o Run("static") \o <<>>
    BY <1>1, <1>2, DecPushedIs DEF ClassSlots
  <2>2. ret = SlotsOf(Len(class.members)) \o Run("proto") \o Run("static") BY <2>1, <1>3, RunTyped
  <2>3. /\ SlotsOf(Len(class.members))' = SlotsOf(Len(class.members)) /\ ClassSlots' = classPair
        /\ Run("proto")' = Run("proto") /\ Run("static")' = Run("static")
    BY <1>1, <1>4 DEF SlotsOf, Dec!Slots, ClassSlots, Run
  <2> HIDE DEF classPair
  <2> QED BY <2>2, <2>3, <1>1, DecPushedNow
<1> QED BY <1>5, <1>6, <1>7, <1>8 DEF DecText

-----------------------------------------------------------------------------
\* The public members of one name and placement among the first n.
PublicAs(n, q) ==
    {i \in 1..n : /\ class.members[i].kind # Dec!field /\ ~class.members[i].private
                  /\ <<class.members[i].static, class.members[i].name>> = q}

SeenUpto(n) ==
    /\ made = {Dec!ListOf(class.members[i]) : i \in {j \in 1..n : class.members[j].kind # Dec!field}}
    /\ DOMAIN seen = BOOLEAN \X {y.name : y \in Dec!ToSet(class.members)}
    /\ \A q \in DOMAIN seen :
         /\ seen[q] \in {0, 1, Dec!getter, Dec!setter}
         /\ seen[q] = 0 => PublicAs(n, q) = {}
         /\ seen[q] \in {Dec!getter, Dec!setter} => \A i \in PublicAs(n, q) : class.members[i].kind = seen[q]
         /\ \A i, j \in PublicAs(n, q) :
              i # j => {class.members[i].kind, class.members[j].kind} = {Dec!getter, Dec!setter}

\* What is known of the members visited, in these terms.
LEMMA SeenIs ==
    ASSUME phase # "threw"
    PROVE  Dec!MembersSeen <=> SeenUpto(IF phase \in {"decorate", "call"} THEN m ELSE m - 1)
BY DEF Dec!MembersSeen, SeenUpto, PublicAs, Dec!Visited

\* And after a step.
LEMMA SeenNow ==
    ASSUME NEW n, Dec!Visited' = 1..n, class' = class,
           made' = {Dec!ListOf(class.members[i]) : i \in {j \in 1..n : class.members[j].kind # Dec!field}},
           DOMAIN seen' = BOOLEAN \X {y.name : y \in Dec!ToSet(class.members)},
           \A q \in DOMAIN seen' :
             /\ seen'[q] \in {0, 1, Dec!getter, Dec!setter}
             /\ seen'[q] = 0 => PublicAs(n, q) = {}
             /\ seen'[q] \in {Dec!getter, Dec!setter} => \A i \in PublicAs(n, q) : class.members[i].kind = seen'[q]
             /\ \A i, j \in PublicAs(n, q) :
                  i # j => {class.members[i].kind, class.members[j].kind} = {Dec!getter, Dec!setter}
    PROVE  Dec!MembersSeen'
BY DEF Dec!MembersSeen, PublicAs, Dec!ListOf

\* One more member: it may be another public one of the name.
LEMMA PublicAsMore ==
    ASSUME NEW n \in Nat, NEW q,
           NEW i, i \in PublicAs(n + 1, q)
    PROVE  \/ i \in PublicAs(n, q)
           \/ /\ i = n + 1 /\ class.members[n + 1].kind # Dec!field /\ ~class.members[n + 1].private
              /\ q = <<class.members[n + 1].static, class.members[n + 1].name>>
<1>1. \A j : j \in 1..(n + 1) <=> j \in 1..n \/ j = n + 1 OBVIOUS
<1> QED BY <1>1, Zenon DEF PublicAs

\* A member is visited: its name was not seen, or that of the other half of
\* an accessor pair.
LEMMA DecVisitedSeen ==
    ASSUME DecPlain, Dec!VisitMember, phase' # "threw"
    PROVE  Dec!MembersSeen'
<1> DEFINE x == class.members[m]
           q0 == <<x.static, x.name>>
           old == seen[q0]
           public == x.kind # Dec!field /\ ~x.private
<1>1. /\ phase = "visit" /\ m <= Len(class.members) /\ phase' = "decorate"
      /\ UNCHANGED <<class, m>>
      /\ made' = IF x.kind # Dec!field THEN made \cup {Dec!ListOf(x)} ELSE made
      /\ ~(public /\ Dec!Clash(old, x.kind))
      /\ seen' = IF ~public THEN seen
                 ELSE [seen EXCEPT ![q0] = IF old = 0 /\ x.kind > Dec!method THEN x.kind ELSE 1]
  BY DEF Dec!VisitMember, Dec!Fixed, Dec!Member
<1>2. Dec!Position /\ Dec!MembersSeen BY <1>1 DEF DecPlain, DecText
<1>3. SeenUpto(m - 1) BY <1>1, <1>2, SeenIs
<1>4. /\ Len(class.members) \in Nat /\ x.kind \in 0..4 /\ x.static \in BOOLEAN
      /\ m \in 1..Len(class.members) /\ DOMAIN class.members = 1..Len(class.members)
  BY <1>1, <1>2, DecClass DEF DecPlain, Dec!Position
<1>5. m - 1 \in Nat /\ (m - 1) + 1 = m BY <1>4
<1>6. Dec!Visited' = 1..m BY <1>1 DEF Dec!Visited
<1>7. made' = {Dec!ListOf(class.members[i]) : i \in {j \in 1..m : class.members[j].kind # Dec!field}}
  <2>1. made = {Dec!ListOf(class.members[i]) : i \in {j \in 1..(m - 1) : class.members[j].kind # Dec!field}}
    BY <1>3 DEF SeenUpto
  <2>2. \A j : j \in 1..m <=> j \in 1..(m - 1) \/ j = m BY <1>4
  <2>3. ASSUME NEW l
        PROVE  l \in made' <=> \E i \in 1..m : class.members[i].kind # Dec!field /\ l = Dec!ListOf(class.members[i])
    <3>1. l \in made <=> \E i \in 1..(m - 1) : class.members[i].kind # Dec!field /\ l = Dec!ListOf(class.members[i])
      BY <2>1
    <3>2. l \in made' <=> l \in made \/ (x.kind # Dec!field /\ l = Dec!ListOf(x)) BY <1>1
    <3> HIDE DEF public, old, q0
    <3> QED BY <2>2, <3>1, <3>2, Zenon
  <2> QED BY <2>3, Zenon
<1>8. q0 \in DOMAIN seen
  <2>1. x \in Dec!ToSet(class.members) BY <1>4 DEF Dec!ToSet
  <2>2. DOMAIN seen = BOOLEAN \X {y.name : y \in Dec!ToSet(class.members)} BY <1>3 DEF SeenUpto
  <2> QED BY <1>4, <2>1, <2>2
<1>9. DOMAIN seen' = BOOLEAN \X {y.name : y \in Dec!ToSet(class.members)}
  <2>1. DOMAIN seen' = DOMAIN seen BY <1>1
  <2> QED BY <2>1, <1>3 DEF SeenUpto
<1>10. ASSUME NEW q \in DOMAIN seen
       PROVE  /\ seen[q] \in {0, 1, Dec!getter, Dec!setter}
              /\ seen[q] = 0 => PublicAs(m - 1, q) = {}
              /\ seen[q] \in {Dec!getter, Dec!setter} =>
                   \A i \in PublicAs(m - 1, q) : class.members[i].kind = seen[q]
              /\ \A i, j \in PublicAs(m - 1, q) :
                   i # j => {class.members[i].kind, class.members[j].kind} = {Dec!getter, Dec!setter}
  BY <1>3 DEF SeenUpto
<1>11. ASSUME NEW q, NEW i \in PublicAs(m, q)
       PROVE  i \in PublicAs(m - 1, q) \/ (i = m /\ public /\ q = q0)
  <2>1. i \in PublicAs((m - 1) + 1, q) BY <1>5, <1>11
  <2> QED BY <2>1, <1>5, PublicAsMore
<1>12. ASSUME NEW q \in DOMAIN seen'
       PROVE  /\ seen'[q] \in {0, 1, Dec!getter, Dec!setter}
              /\ seen'[q] = 0 => PublicAs(m, q) = {}
              /\ seen'[q] \in {Dec!getter, Dec!setter} => \A i \in PublicAs(m, q) : class.members[i].kind = seen'[q]
              /\ \A i, j \in PublicAs(m, q) :
                   i # j => {class.members[i].kind, class.members[j].kind} = {Dec!getter, Dec!setter}
  <2>1. q \in DOMAIN seen BY <1>1
  <2>2. CASE ~(public /\ q = q0)
    <3>1. seen'[q] = seen[q] BY <2>1, <2>2, <1>1
    <3>2. \A i : i \in PublicAs(m, q) => i \in PublicAs(m - 1, q) BY <2>2, <1>11
    <3> QED BY <2>1, <3>1, <3>2, <1>10
  <2>3. CASE public /\ q = q0
    <3>1. seen'[q] = (IF old = 0 /\ x.kind > Dec!method THEN x.kind ELSE 1) /\ old = seen[q]
      BY <2>1, <2>3, <1>1
    <3>2. ~Dec!Clash(old, x.kind) BY <2>3, <1>1
    <3> HIDE DEF public, old
    <3>3. old \in {0, 1, Dec!getter, Dec!setter} BY <2>1, <3>1, <1>10
    <3>4. /\ old # 1 /\ (old = Dec!getter => x.kind = Dec!setter) /\ (old = Dec!setter => x.kind = Dec!getter)
      BY <3>2 DEF Dec!Clash
    <3>5. seen'[q] \in {1, Dec!getter, Dec!setter} /\ seen'[q] # 0
      BY <3>1, <1>4 DEF Dec!getter, Dec!setter, Dec!method
    <3>6. ASSUME seen'[q] \in {Dec!getter, Dec!setter}, NEW i \in PublicAs(m, q)
          PROVE  class.members[i].kind = seen'[q]
      <4>1. old = 0 /\ seen'[q] = x.kind BY <3>1, <3>6 DEF Dec!getter, Dec!setter
      <4>2. PublicAs(m - 1, q) = {} BY <4>1, <3>1, <2>1, <1>10
      <4>3. i = m BY <4>2, <1>11
      <4> QED BY <4>1, <4>3
    <3>7. ASSUME NEW i \in PublicAs(m - 1, q)
          PROVE  {class.members[i].kind, x.kind} = {Dec!getter, Dec!setter}
      <4>1. old # 0 BY <2>1, <3>1, <3>7, <1>10
      <4>2. old \in {Dec!getter, Dec!setter} BY <4>1, <3>3, <3>4
      <4>3. class.members[i].kind = old BY <4>2, <3>1, <2>1, <3>7, <1>10
      <4> QED BY <3>4, <4>2, <4>3
    <3>8. ASSUME NEW i \in PublicAs(m, q), NEW j \in PublicAs(m, q), i # j
          PROVE  {class.members[i].kind, class.members[j].kind} = {Dec!getter, Dec!setter}
      <4>1. i \in PublicAs(m - 1, q) \/ i = m BY <1>11
      <4>2. j \in PublicAs(m - 1, q) \/ j = m BY <1>11
      <4>3. CASE i \in PublicAs(m - 1, q) /\ j \in PublicAs(m - 1, q)
        BY <4>3, <3>8, <2>1, <1>10
      <4>4. CASE i \in PublicAs(m - 1, q) /\ j = m BY <4>4, <3>7
      <4>5. CASE j \in PublicAs(m - 1, q) /\ i = m BY <4>5, <3>7
      <4> QED BY <4>1, <4>2, <4>3, <4>4, <4>5, <3>8
    <3> QED BY <3>5, <3>6, <3>8
  <2> QED BY <2>2, <2>3
<1> HIDE DEF public, old, q0
<1> QED BY <1>1, <1>6, <1>7, <1>9, <1>12, SeenNow

\* A member is visited, and none of its decorators has been called.
LEMMA DecVisited ==
    ASSUME DecPlain, Dec!VisitMember
    PROVE  DecText'
<1> SUFFICES ASSUME phase' # "threw"
             PROVE  Dec!Position' /\ Dec!CallsEnded' /\ Dec!MembersSeen' /\ Dec!Pushed'
  BY DEF DecText
<1>1. /\ phase = "visit" /\ m <= Len(class.members) /\ phase' = "decorate"
      /\ d' = class.members[m].decs /\ UNCHANGED <<class, m, finished, ret>>
  BY DEF Dec!VisitMember, Dec!Fixed, Dec!Member
<1>2. Dec!Position /\ Dec!CallsEnded /\ Dec!Pushed BY <1>1 DEF DecPlain, DecText
<1>3. /\ Len(class.members) \in Nat /\ m \in 1..Len(class.members) /\ class.members[m].decs \in Nat
  BY <1>1, <1>2, DecClass DEF DecPlain, Dec!Position
<1>4. Dec!Position' BY <1>1, <1>3 DEF Dec!Position, Dec!InClass, Dec!Member
<1>5. Dec!CallsEnded'
  <2>1. {<<m, k>> : k \in (class.members[m].decs + 1)..class.members[m].decs} = {} BY <1>3
  <2>2. finished = CallsOf(m - 1) BY <1>1, <1>2, DecEndedIs DEF Dec!InClass
  <2> QED BY <2>1, <2>2, <1>1 DEF Dec!CallsEnded, CallsOf, Dec!InClass, Dec!Member
<1>6. Dec!Pushed' BY <1>1, <1>2 DEF Dec!Pushed, Dec!Slots
<1> QED BY <1>4, <1>5, <1>6, DecVisitedSeen

\* Every step keeps the invariant.
LEMMA DecKeeps ==
    ASSUME DecPlain, Dec!Next
    PROVE  DecPlain'
<1>1. DecKept' BY DecKeptStep
<1>2. DecInits' BY DecInitsStep
<1>3. DecText BY DEF DecPlain
<1>4. ASSUME UNCHANGED <<class, phase, m, d, finished, made, seen, ret>> PROVE DecText'
  BY <1>3, <1>4, DecSame
<1>5. DecText'
  <2>1. CASE Dec!SetMetadata BY <2>1, <1>4 DEF Dec!SetMetadata, Dec!Fixed
  <2>2. ASSUME NEW k \in kept, Dec!AddInitializer(k) PROVE DecText'
    BY <2>2, <1>4 DEF Dec!AddInitializer, Dec!Fixed
  <2>3. ASSUME NEW l, Dec!Attach(l) PROVE DecText' BY <2>3, <1>4 DEF Dec!Attach, Dec!Fixed
  <2> QED BY <2>1, <2>2, <2>3, DecActions, DecVisited, DecCalled, DecEnded, DecFinished, DecReady,
             DecBegun, DecDone
<1>6. class' = class
  BY DecActions DEF Dec!VisitMember, Dec!CallDecorator, Dec!SetMetadata, Dec!AddInitializer,
     Dec!EndDecorator, Dec!FinishMember, Dec!PushInitializers, Dec!BeginClass, Dec!FinishClass,
     Dec!Attach, Dec!Fixed
<1> QED BY <1>1, <1>2, <1>5, <1>6 DEF DecPlain

\* So does a step of another part of the script.
LEMMA DecSleeps ==
    ASSUME DecPlain, UNCHANGED decVars
    PROVE  DecPlain'
<1>1. DecText' BY DecSame DEF DecPlain, decVars
<1>2. DecInits' BY DEF DecPlain, decVars, DecInits
<1>3. DecKept' BY DEF DecPlain, decVars, DecKept, Dec!Running, Dec!Call, Dec!InClass
<1> QED BY <1>1, <1>2, <1>3 DEF DecPlain, decVars

\* It holds at the beginning.
LEMMA DecBegins ==
    ASSUME class \in Classes, Dec!Init
    PROVE  DecPlain
<1>1. /\ phase = "visit" /\ m = 1 /\ d = 0 /\ finished = {} /\ kept = {} /\ made = {}
      /\ lists = [l \in Dec!Lists |-> <<>>] /\ inits = <<>> /\ ret = <<>>
      /\ seen = [p \in BOOLEAN \X {x.name : x \in Dec!ToSet(class.members)} |-> 0]
  BY DEF Dec!Init
<1>2. \A T : <<>> \in Seq(T) /\ DOMAIN <<>> = {} BY EmptySeq
<1>3. DecKept
  <2> DEFINE T == [by : Nat \X Nat, during : Nat \X Nat]
  <2>1. <<>> \in Seq(T) BY <1>2
  <2> HIDE DEF T
  <2>2. lists \in [Dec!Lists -> Seq(T)] BY <2>1, <1>1
  <2>3. \A l \in Dec!Lists : DOMAIN lists[l] = {} BY <1>1, <1>2
  <2> QED BY <2>2, <2>3, <1>1 DEF DecKept, T
<1>4. DecInits BY <1>1, <1>2 DEF DecInits
<1>5. Dec!Position BY <1>1, DecClass DEF Dec!Position, Dec!InClass
<1>6. Dec!CallsEnded BY <1>1, CallsNone, DecEndedIs DEF Dec!InClass
<1>7. Dec!MembersSeen
  <2>1. 1..0 = {} /\ m - 1 = 0 BY <1>1
  <2>2. SeenUpto(0) BY <2>1, <1>1 DEF SeenUpto, PublicAs
  <2> QED BY <2>1, <2>2, <1>1, SeenIs
<1>8. Dec!Pushed
  <2> DEFINE s == [i \in 1..0 |-> Dec!Slots(class.members[i], i)]
  <2>1. s = <<>> OBVIOUS
  <2>2. Len(<<>>) = 0 BY EmptySeq
  <2>3. SlotsOf(0) = Dec!FlattenSeq(s) BY DEF SlotsOf
  <2> HIDE DEF s
  <2>4. Dec!FlattenSeq(<<>>) = <<>> BY <2>2 DEF Dec!FlattenSeq
  <2>5. SlotsOf(0) = <<>> BY <2>1, <2>3, <2>4
  <2> QED BY <2>5, <1>1, DecPushedIs
<1> QED BY <1>3, <1>4, <1>5, <1>6, <1>7, <1>8 DEF DecPlain, DecText

\* When the class is done, all members and decorators are behind it.
LEMMA DecHolds ==
    ASSUME DecPlain
    PROVE  Dec!DecoratorContract
<1> DEFINE x == class.members
           public == {i \in DOMAIN x : x[i].kind # Dec!field /\ ~x[i].private}
<1>1. \A l \in Dec!Lists : \A i \in DOMAIN lists[l] : lists[l][i].by = lists[l][i].during
  BY DEF DecPlain, DecKept
<1>2. \A i, j \in DOMAIN inits : i < j => inits[i] > inits[j] BY DEF DecPlain, DecInits
<1>3. ASSUME phase = "done"
      PROVE  /\ ret = Dec!Layout
             /\ finished = {<<0, k>> : k \in 1..class.decs}
                           \cup UNION {{<<i, k>> : k \in 1..x[i].decs} : i \in DOMAIN x}
             /\ \A i, j \in public :
                  i # j /\ x[i].name = x[j].name /\ x[i].static = x[j].static
                    => {x[i].kind, x[j].kind} = {Dec!getter, Dec!setter}
  <2>1. Dec!Position /\ Dec!CallsEnded /\ Dec!MembersSeen /\ Dec!Pushed
    BY <1>3 DEF DecPlain, DecText
  <2>2. /\ Len(x) \in Nat /\ DOMAIN x = 1..Len(x) /\ class.decs \in Nat
        /\ \A i \in 1..Len(x) : x[i].static \in BOOLEAN
    BY DecClass DEF DecPlain
  <2>3. m = Len(x) + 1 BY <1>3, <2>1 DEF Dec!Position
  <2>4. m - 1 = Len(x) BY <2>2, <2>3
  <2>5. finished = CallsOf(Len(x)) \cup {<<0, k>> : k \in 1..class.decs}
    BY <1>3, <2>1, <2>4, DecEndedIs DEF Dec!InClass
  <2>6. SeenUpto(Len(x)) BY <1>3, <2>1, <2>4, SeenIs
  <2>7. ret = SlotsOf(Len(x)) \o Run("proto") \o Run("static") \o ClassSlots
    BY <1>3, <2>1, DecPushedIs
  <2>8. ret = Dec!Layout
    <3>1. ASSUME NEW l \in {"proto", "static"}
          PROVE  l \in made <=> \E i \in DOMAIN x : x[i].static = (l = "static") /\ x[i].kind # Dec!field
      <4>1. made = {Dec!ListOf(x[i]) : i \in {j \in 1..Len(x) : x[j].kind # Dec!field}}
        BY <2>6 DEF SeenUpto
      <4>2. \A i \in 1..Len(x) : l = Dec!ListOf(x[i]) <=> x[i].static = (l = "static")
        BY <2>2 DEF Dec!ListOf
      <4> QED BY <2>2, <4>1, <4>2
    <3>2. Run("proto") = IF \E i \in DOMAIN x : x[i].static = FALSE /\ x[i].kind # Dec!field
                         THEN <<<<"run", "proto">>>> ELSE <<>>
      BY <3>1 DEF Run
    <3>3. Run("static") = IF \E i \in DOMAIN x : x[i].static = TRUE /\ x[i].kind # Dec!field
                          THEN <<<<"run", "static">>>> ELSE <<>>
      BY <3>1 DEF Run
    <3>4. ClassSlots = IF class.decs > 0 THEN <<<<"class", "class">>, <<"run", "class">>>> ELSE <<>>
      BY <1>3 DEF ClassSlots
    <3>5. SlotsOf(Len(x)) = Dec!FlattenSeq([i \in DOMAIN x |-> Dec!Slots(x[i], i)])
      BY <2>2 DEF SlotsOf
    <3> QED BY <2>7, <3>2, <3>3, <3>4, <3>5 DEF Dec!Layout
  <2>9. finished = {<<0, k>> : k \in 1..class.decs}
                   \cup UNION {{<<i, k>> : k \in 1..x[i].decs} : i \in DOMAIN x}
    BY <2>2, <2>5 DEF CallsOf
  <2>10. ASSUME NEW i \in public, NEW j \in public,
                i # j /\ x[i].name = x[j].name /\ x[i].static = x[j].static
         PROVE  {x[i].kind, x[j].kind} = {Dec!getter, Dec!setter}
    <3> DEFINE q == <<x[i].static, x[i].name>>
    <3>1. i \in 1..Len(x) /\ j \in 1..Len(x) BY <2>2
    <3>2. i \in PublicAs(Len(x), q) /\ j \in PublicAs(Len(x), q) BY <3>1, <2>10 DEF PublicAs
    <3>3. x[i] \in Dec!ToSet(x) BY <3>1, <2>2 DEF Dec!ToSet
    <3>4. q \in DOMAIN seen BY <3>1, <3>3, <2>2, <2>6 DEF SeenUpto
    <3> QED BY <3>2, <3>4, <2>6, <2>10 DEF SeenUpto
  <2> QED BY <2>8, <2>9, <2>10
<1> QED BY <1>1, <1>2, <1>3 DEF Dec!DecoratorContract

-----------------------------------------------------------------------------
(* The composition.                                                        *)

\* This is the invariant that Decorators states.
LEMMA DecParts == Dec!DecoratorInv <=> DecPlain
<1>1. Dec!DecoratorInv => DecPlain
  BY DEF Dec!DecoratorInv, Dec!DecoratorContract, DecPlain, DecKept, DecInits, DecText
<1>2. DecPlain => Dec!DecoratorContract BY DecHolds
<1> QED BY <1>1, <1>2 DEF Dec!DecoratorInv, DecPlain, DecKept, DecInits, DecText

\* Both invariants hold all the time: a runtime that is not explored stays
\* where it begins.
DecoratorsInv == Dec!DecoratorInv /\ Legacy!LegacyInv

\* It begins like that.
LEMMA PartsBegin == Init => DecoratorsInv
<1>1. Init => Dec!Init /\ Legacy!Init BY DEF Init
<1>2. Dec!Init => class \in Classes BY DEF Dec!Init
<1> QED BY <1>1, <1>2, DecBegins, LegacyBegins, DecParts, LegacyParts DEF DecoratorsInv

\* The runtime that is explored takes its own steps, the other none.
LEMMA PartsStep ==
    ASSUME [Next]_vars
    PROVE  /\ Dec!Next \/ UNCHANGED decVars
           /\ [Legacy!Next]_Legacy!vars
<1>1. CASE Next
  <2>1. /\ Rest(part)
        /\ part = "dec" => Dec!Next
        /\ part = "legacy" => Legacy!Next
    BY <1>1 DEF Next
  <2>2. part # "dec" => UNCHANGED decVars BY <2>1 DEF Rest
  <2>3. part # "legacy" => UNCHANGED legacyVars BY <2>1 DEF Rest
  <2>4. UNCHANGED legacyVars => UNCHANGED Legacy!vars BY DEF legacyVars, Legacy!vars
  <2> QED BY <2>1, <2>2, <2>3, <2>4
<1>2. CASE UNCHANGED vars
  <2>1. UNCHANGED decVars /\ UNCHANGED legacyVars BY <1>2 DEF vars
  <2>2. UNCHANGED Legacy!vars BY <2>1 DEF legacyVars, Legacy!vars
  <2> QED BY <2>1, <2>2
<1> QED BY <1>1, <1>2

\* And it goes on like that.
LEMMA PartsGoOn == DecoratorsInv /\ [Next]_vars => DecoratorsInv'
<1> SUFFICES ASSUME DecoratorsInv, [Next]_vars PROVE DecoratorsInv' OBVIOUS
<1>1. DecPlain' BY PartsStep, DecKeeps, DecSleeps, DecParts DEF DecoratorsInv
<1>2. LegacyPlain' BY PartsStep, LegacyKeeps, LegacyParts DEF DecoratorsInv
<1>3. Dec!DecoratorInv' /\ Legacy!LegacyInv' BY <1>1, <1>2, DecParts, LegacyParts, PTL
<1> QED BY <1>3 DEF DecoratorsInv

\* The contract follows.
LEMMA PartsHold == DecoratorsInv => DecoratorContract
BY DEF DecoratorsInv, Dec!DecoratorInv, Legacy!LegacyInv, DecoratorContract

\* Decorators add initializers only while they run, what a decorated class
\* gets back is as its text says, every decorator was called once, and no
\* element is there twice: in all five runtimes, whatever decorators do.
THEOREM DecoratorsKeepContract == Spec => []DecoratorContract
<1> QED BY PartsBegin, PartsGoOn, PartsHold, PTL DEF Spec
=============================================================================

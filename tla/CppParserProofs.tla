--------------------------- MODULE CppParserProofs ---------------------------
(***************************************************************************)
(* StacksMatch, for every source tree whose conditionals are well nested,  *)
(* any include directories and any depth limit.                            *)
(*                                                                         *)
(* Optimize() takes directives away, so the lists of the headers are not   *)
(* those of the files: what the proof needs of them is that they are well  *)
(* nested again, whatever #else, #elif and empty groups are gone. Then a   *)
(* file that is popped leaves no conditional open, and each directive      *)
(* changes the stacks and the conditionals open in the inputs by the same. *)
(***************************************************************************)
EXTENDS CppParser, FiniteSetTheorems, SequenceTheorems, WellFoundedInduction, TLAPS

\* Every nonempty set of numbers has a least one.
LEMMA LeastNumber ==
  ASSUME NEW T, T \subseteq Nat, T # {}
  PROVE  \E m \in T : \A n \in T : m <= n
<1>1. PICK k \in T : TRUE
  OBVIOUS
<1> DEFINE Upto == {i \in T : i <= k}
           B == {0..i : i \in Upto}
           S == 0..k
<1>2. k \in Nat /\ IsFiniteSet(S)
  BY FS_Interval
<1>3. B \subseteq SUBSET S /\ B # {}
  BY <1>1, <1>2
<1>4. PICK U \in B : \A V \in B : V \subseteq U => V = U
  <2>1. B \subseteq FiniteSubsetsOf(S)
    BY <1>2, <1>3, FS_FiniteSubsetsOfFinite
  <2> HIDE DEF S, B
  <2>2. PICK U \in B : \A V \in B : <<V, U>> \notin StrictSubsetOrdering(S)
    BY <1>2, <1>3, <2>1, FS_StrictSubsetOrderingWellFounded, WFMin
  <2> QED BY <1>3, <2>2 DEF StrictSubsetOrdering
<1>5. PICK m \in Upto : U = 0..m
  OBVIOUS
<1>6. ASSUME NEW n \in T, ~(m <= n)  PROVE FALSE
  <2>1. m \in Nat /\ n \in Nat /\ m <= k /\ n < m
    BY <1>2, <1>6
  <2>2. 0..n \in B /\ 0..n \subseteq U
    BY <1>2, <1>5, <2>1
  <2>3. 0..n = 0..m
    BY <1>4, <1>5, <2>2
  <2>4. m \in 0..m /\ m \notin 0..n
    BY <2>1
  <2> QED BY <2>3, <2>4
<1> QED BY <1>5, <1>6

\* Min() of directories is one of them (Lookup()).
LEMMA MinInSet ==
  ASSUME NEW T, T \subseteq Nat, T # {}
  PROVE  Min(T) \in T
BY LeastNumber, Zenon DEF Min

\* Max() of positions of a list is one of them, and none is after it (DropElses()).
LEMMA MaxOfPositions ==
  ASSUME NEW n \in Nat, NEW T, T \subseteq 0..n, T # {}
  PROVE  Max(T) \in T /\ \A y \in T : y <= Max(T)
<1> DEFINE D == {n - y : y \in T}
<1>1. D \subseteq Nat /\ D # {}
  <2>1. \A y \in T : n - y \in Nat
    OBVIOUS
  <2>2. PICK y \in T : n - y \in D
    OBVIOUS
  <2> QED BY <2>1, <2>2
<1>2. PICK z \in D : \A w \in D : z <= w
  <2> HIDE DEF D
  <2> QED BY <1>1, LeastNumber
<1>3. PICK x \in T : z = n - x
  OBVIOUS
<1>4. ASSUME NEW y \in T  PROVE x >= y
  <2>1. n - y \in D /\ x \in 0..n /\ y \in 0..n
    OBVIOUS
  <2>2. n - x <= n - y
    BY <1>2, <1>3, <2>1
  <2> QED BY <2>1, <2>2
<1>5. Max(T) \in T /\ \A y \in T : Max(T) >= y
  BY <1>3, <1>4, Zenon DEF Max
<1> QED BY <1>5

-----------------------------------------------------------------------------
(***************************************************************************)
(* Conditionals open in a list.                                            *)
(***************************************************************************)
\* What a directive adds to the conditionals that are open.
Delta(d) == IF d.op \in IfOps THEN 1 ELSE IF d.op = "endif" THEN -1 ELSE 0

\* A count of positions, one further.
LEMMA CountOneMore ==
  ASSUME NEW n \in Nat, NEW T
  PROVE  LET A == {i \in 1..n : i \in T}
             B == {i \in 1..(n + 1) : i \in T}
         IN  /\ Cardinality(A) \in Nat
             /\ Cardinality(B) = Cardinality(A) + (IF n + 1 \in T THEN 1 ELSE 0)
<1> DEFINE A == {i \in 1..n : i \in T}
           B == {i \in 1..(n + 1) : i \in T}
<1>1. IsFiniteSet(A) /\ Cardinality(A) \in Nat
  <2>1. IsFiniteSet(1..n) /\ A \in SUBSET (1..n)
    BY FS_Interval
  <2> HIDE DEF A
  <2> QED BY <2>1, FS_Subset, FS_CardinalityType
<1>2. n + 1 \notin A
  OBVIOUS
<1>3. CASE n + 1 \in T
  <2>1. B = A \cup {n + 1}
    BY <1>3
  <2> HIDE DEF A, B
  <2>2. Cardinality(B) = Cardinality(A) + 1
    BY <1>1, <1>2, <2>1, FS_AddElement
  <2> QED BY <1>1, <1>3, <2>2 DEF A, B
<1>4. CASE n + 1 \notin T
  <2>1. B = A
    BY <1>4
  <2> HIDE DEF A, B
  <2> QED BY <1>1, <1>4, <2>1 DEF A, B
<1> QED BY <1>3, <1>4

\* The next directive adds its delta.
LEMMA OpenNext ==
  ASSUME NEW list, NEW n \in Nat
  PROVE  /\ Open(list, n) \in Int
         /\ Open(list, n + 1) = Open(list, n) + Delta(list[n + 1])
<1> DEFINE A(m) == {i \in 1..m : list[i].op \in IfOps}
           B(m) == {i \in 1..m : list[i].op = "endif"}
           TA == {i \in Nat : list[i].op \in IfOps}
           TB == {i \in Nat : list[i].op = "endif"}
<1>1. /\ A(n) = {i \in 1..n : i \in TA} /\ A(n + 1) = {i \in 1..(n + 1) : i \in TA}
      /\ B(n) = {i \in 1..n : i \in TB} /\ B(n + 1) = {i \in 1..(n + 1) : i \in TB}
  OBVIOUS
<1>2. /\ n + 1 \in TA <=> list[n + 1].op \in IfOps
      /\ n + 1 \in TB <=> list[n + 1].op = "endif"
  OBVIOUS
<1>3. Open(list, n) = Cardinality(A(n)) - Cardinality(B(n))
  BY Zenon DEF Open
<1>4. Open(list, n + 1) = Cardinality(A(n + 1)) - Cardinality(B(n + 1))
  BY Zenon DEF Open
<1> HIDE DEF A, B, TA, TB
<1>5. /\ Cardinality(A(n)) \in Nat
      /\ Cardinality(A(n + 1)) = Cardinality(A(n)) + (IF n + 1 \in TA THEN 1 ELSE 0)
  BY <1>1, CountOneMore
<1>6. /\ Cardinality(B(n)) \in Nat
      /\ Cardinality(B(n + 1)) = Cardinality(B(n)) + (IF n + 1 \in TB THEN 1 ELSE 0)
  BY <1>1, CountOneMore
<1> QED BY <1>2, <1>3, <1>4, <1>5, <1>6 DEF Delta, IfOps

\* Nothing is open before the first directive.
LEMMA OpenNone ==
  ASSUME NEW list
  PROVE  Open(list, 0) = 0
<1>1. 1..0 = {}
  OBVIOUS
<1>2. {i \in 1..0 : list[i].op \in IfOps} = {} /\ {i \in 1..0 : list[i].op = "endif"} = {}
  BY <1>1
<1> QED BY <1>2, FS_EmptySet DEF Open

\* Lists with the same beginning have the same conditionals open there.
LEMMA OpenSame ==
  ASSUME NEW l, NEW m, NEW n, \A i \in 1..n : l[i] = m[i]
  PROVE  Open(l, n) = Open(m, n)
<1>1. /\ {i \in 1..n : l[i].op \in IfOps} = {i \in 1..n : m[i].op \in IfOps}
      /\ {i \in 1..n : l[i].op = "endif"} = {i \in 1..n : m[i].op = "endif"}
  BY Zenon
<1> QED BY <1>1, Zenon DEF Open

\* Directives that are no #if and no #endif change nothing.
LEMMA OpenSkip ==
  ASSUME NEW l, NEW k \in Nat, NEW n \in Nat, k <= n,
         \A i \in (k + 1)..n : l[i].op \notin IfOps /\ l[i].op # "endif"
  PROVE  Open(l, n) = Open(l, k)
<1>1. \A i \in 1..n : i \in 1..k \/ i \in (k + 1)..n
  OBVIOUS
<1>2. 1..k \subseteq 1..n
  OBVIOUS
<1>3. /\ {i \in 1..n : l[i].op \in IfOps} = {i \in 1..k : l[i].op \in IfOps}
      /\ {i \in 1..n : l[i].op = "endif"} = {i \in 1..k : l[i].op = "endif"}
  BY <1>1, <1>2, Zenon
<1> QED BY <1>3, Zenon DEF Open

\* A list of directives of S, with never fewer than 0 and in the end x conditionals open.
IsNest(l, S, x) ==
  /\ l \in Seq(S)
  /\ \A m \in 0..Len(l) : Open(l, m) >= 0
  /\ Open(l, Len(l)) = x

\* A directive more.
LEMMA AppendNest ==
  ASSUME NEW S, NEW x \in Int, NEW l, IsNest(l, S, x), NEW d \in S, x + Delta(d) >= 0
  PROVE  IsNest(Append(l, d), S, x + Delta(d))
<1> DEFINE a == Append(l, d)
<1>1. /\ l \in Seq(S) /\ Len(l) \in Nat
      /\ a \in Seq(S) /\ Len(a) = Len(l) + 1 /\ a[Len(l) + 1] = d
      /\ \A i \in 1..Len(l) : a[i] = l[i]
  BY AppendProperties, LenProperties DEF IsNest
<1> HIDE DEF a
<1>2. ASSUME NEW m \in 0..Len(l)  PROVE Open(a, m) = Open(l, m)
  BY <1>1, OpenSame
<1>3. Open(a, Len(l)) = x
  BY <1>1, <1>2 DEF IsNest
<1>4. Open(a, Len(l) + 1) = x + Delta(d)
  BY <1>1, <1>3, OpenNext
<1>5. ASSUME NEW m \in 0..Len(a)  PROVE Open(a, m) >= 0
  <2>1. m \in 0..Len(l) \/ m = Len(l) + 1
    BY <1>1
  <2>2. m \in 0..Len(l) => Open(l, m) >= 0
    BY DEF IsNest
  <2> QED BY <1>2, <1>4, <2>1, <2>2
<1>6. IsNest(a, S, x + Delta(d))
  BY <1>1, <1>4, <1>5 DEF IsNest
<1> QED BY <1>6 DEF a

\* The beginning of a list.
LEMMA PrefixNest ==
  ASSUME NEW S, NEW l \in Seq(S), \A m \in 0..Len(l) : Open(l, m) >= 0,
         NEW k \in 0..Len(l)
  PROVE  /\ IsNest(SubSeq(l, 1, k), S, Open(l, k))
         /\ Len(SubSeq(l, 1, k)) = k
         /\ \A i \in 1..k : SubSeq(l, 1, k)[i] = l[i]
<1> DEFINE p == SubSeq(l, 1, k)
<1>1. Len(l) \in Nat /\ k \in Nat /\ k <= Len(l)
  OBVIOUS
<1>2. p \in Seq(S) /\ Len(p) = k /\ \A i \in 1..k : p[i] = l[i]
  BY <1>1
<1> HIDE DEF p
<1>3. ASSUME NEW m \in 0..k  PROVE Open(p, m) = Open(l, m) /\ Open(l, m) >= 0
  BY <1>1, <1>2, OpenSame
<1>4. IsNest(p, S, Open(l, k))
  BY <1>1, <1>2, <1>3 DEF IsNest
<1> QED BY <1>2, <1>4 DEF p

-----------------------------------------------------------------------------
(***************************************************************************)
(* Optimize() keeps a list well nested.                                    *)
(***************************************************************************)
\* What is dropped before an #endif is neither an #if nor an #endif.
LEMMA DropElsesNest ==
  ASSUME NEW S, NEW x \in Int, NEW l, IsNest(l, S, x)
  PROVE  /\ IsNest(DropElses(l), S, x)
         /\ DropElses(l) \in Seq(S) /\ Len(DropElses(l)) \in Nat
<1> DEFINE T == {0} \cup {i \in DOMAIN l : ~IsDroppableElse(l[i])}
           k == Max(T)
<1>1. l \in Seq(S) /\ Len(l) \in Nat /\ DOMAIN l = 1..Len(l)
  BY LenProperties DEF IsNest
<1>2. T \subseteq 0..Len(l) /\ T # {}
  BY <1>1
<1>3. k \in T /\ \A y \in T : y <= k
  <2> HIDE DEF T
  <2> QED BY <1>1, <1>2, MaxOfPositions
<1>4. k \in 0..Len(l)
  BY <1>2, <1>3
<1>5. ASSUME NEW i \in (k + 1)..Len(l)  PROVE l[i].op \notin IfOps /\ l[i].op # "endif"
  <2>1. i \in 1..Len(l) /\ ~(i <= k)
    BY <1>1, <1>4
  <2>2. i \notin T
    BY <1>3, <2>1
  <2>3. IsDroppableElse(l[i])
    BY <1>1, <2>1, <2>2
  <2>4. l[i].op = "else" \/ l[i].op = "elif"
    BY <2>3 DEF IsDroppableElse
  <2> QED BY <2>4 DEF IfOps
<1>6. DropElses(l) = SubSeq(l, 1, k)
  BY Zenon DEF DropElses
<1> HIDE DEF k
<1>7. Open(l, k) = x
  <2>1. k \in Nat /\ k <= Len(l)
    BY <1>1, <1>4
  <2> QED BY <1>1, <1>5, <2>1, OpenSkip DEF IsNest
<1>8. IsNest(SubSeq(l, 1, k), S, x) /\ Len(SubSeq(l, 1, k)) = k
  BY <1>1, <1>4, <1>7, PrefixNest DEF IsNest
<1> QED BY <1>4, <1>6, <1>8 DEF IsNest

\* The list without its last directive.
LEMMA FrontNest ==
  ASSUME NEW S, NEW x \in Int, NEW l, IsNest(l, S, x), l # <<>>
  PROVE  IsNest(Front(l), S, x - Delta(Last(l)))
<1>1. l \in Seq(S) /\ Len(l) \in Nat /\ Len(l) # 0
  BY EmptySeq, LenProperties DEF IsNest
<1>2. PICK k \in Nat : Len(l) = k + 1
  <2>1. Len(l) - 1 \in Nat /\ Len(l) = (Len(l) - 1) + 1
    BY <1>1
  <2> QED BY <2>1
<1>3. k \in 0..Len(l) /\ Len(l) - 1 = k
  BY <1>2
<1>4. Open(l, k) \in Int /\ x = Open(l, k) + Delta(l[k + 1])
  BY <1>2, OpenNext DEF IsNest
<1>5. Delta(l[k + 1]) \in Int
  BY DEF Delta
<1>6. Open(l, k) = x - Delta(l[k + 1])
  BY <1>4, <1>5
<1>7. IsNest(SubSeq(l, 1, k), S, Open(l, k))
  BY <1>1, <1>3, PrefixNest DEF IsNest
<1>8. Front(l) = SubSeq(l, 1, k) /\ Last(l) = l[k + 1]
  BY <1>2, <1>3 DEF Front, Last
<1> QED BY <1>6, <1>7, <1>8

\* The two directives that an #if of one macro may become.
AsIfdef(d) == {[op |-> o, name |-> d.cond.name] : o \in {"ifdef", "ifndef"}}

\* A pass of the loop of Optimize() adds to the open conditionals what the directive
\* does, and never ends more than are open.
LEMMA OptimizeStepNest ==
  ASSUME NEW S, NEW x \in Int, NEW l, IsNest(l, S, x), NEW d \in S,
         AsIfdef(d) \subseteq S, x + Delta(d) >= 0
  PROVE  IsNest(OptimizeStep(l, d), S, x + Delta(d))
<1> DEFINE kept == DropElses(l)
<1>1. IsNest(kept, S, x) /\ kept \in Seq(S) /\ Len(kept) \in Nat
  BY DropElsesNest
<1>2. CASE d.op = "endif"
  <2>1. Delta(d) = -1
    BY <1>2 DEF Delta, IfOps
  <2>2. CASE kept # <<>> /\ IsDroppableIf(Last(kept))
    <3>1. OptimizeStep(l, d) = Front(kept)
      BY <1>2, <2>2, Zenon DEF OptimizeStep
    <3>2. Delta(Last(kept)) = 1
      BY <2>2 DEF Delta, IsDroppableIf, IfOps
    <3> HIDE DEF kept
    <3>3. IsNest(Front(kept), S, x - 1)
      BY <1>1, <2>2, <3>2, FrontNest
    <3>4. x - 1 = x + Delta(d)
      BY <2>1
    <3> QED BY <3>1, <3>3, <3>4
  <2>3. CASE ~(kept # <<>> /\ IsDroppableIf(Last(kept)))
    <3>1. OptimizeStep(l, d) = Append(kept, d)
      BY <1>2, <2>3, Zenon DEF OptimizeStep
    <3> HIDE DEF kept
    <3> QED BY <1>1, <3>1, AppendNest
  <2> QED BY <2>2, <2>3
<1>3. CASE d.op # "endif" /\ d.op = "if" /\ d.cond.kind = "defined"
  <2> DEFINE e == [op |-> IF d.cond.neg THEN "ifndef" ELSE "ifdef", name |-> d.cond.name]
  <2>1. OptimizeStep(l, d) = Append(l, e)
    BY <1>3 DEF OptimizeStep
  <2>2. e \in AsIfdef(d)
    BY DEF AsIfdef
  <2>3. Delta(e) = Delta(d)
    BY <1>3 DEF Delta, IfOps
  <2> HIDE DEF e
  <2> QED BY <2>1, <2>2, <2>3, AppendNest
<1>4. CASE d.op # "endif" /\ ~(d.op = "if" /\ d.cond.kind = "defined")
  <2>1. OptimizeStep(l, d) = Append(l, d)
    BY <1>4, Zenon DEF OptimizeStep
  <2> QED BY <2>1, AppendNest
<1> QED BY <1>2, <1>3, <1>4

\* One value of the recursion of Optimize(), and a function that satisfies it up to m.
OptimizedAfter(f, list, n) == IF n = 0 THEN <<>> ELSE OptimizeStep(f[n - 1], list[n])
IsOptimized(f, list, m) == f = [n \in 0..m |-> OptimizedAfter(f, list, n)]

\* The recursion defines a function.
LEMMA OptimizedExists ==
  ASSUME NEW list, NEW len \in Nat
  PROVE  \E f : IsOptimized(f, list, len)
<1> SUFFICES ASSUME ~\E f : IsOptimized(f, list, len)  PROVE FALSE
  OBVIOUS
<1> DEFINE Bad == {m \in Nat : ~\E f : IsOptimized(f, list, m)}
<1>1. Bad \subseteq Nat /\ Bad # {}
  OBVIOUS
<1>2. PICK m \in Bad : \A n \in Bad : m <= n
  <2> HIDE DEF Bad
  <2> QED BY <1>1, LeastNumber
<1>3. m \in Nat /\ ~\E f : IsOptimized(f, list, m)
  OBVIOUS
<1>4. CASE m = 0
  <2> DEFINE f == [n \in 0..m |-> <<>>]
  <2>1. \A n \in 0..m : OptimizedAfter(f, list, n) = <<>>
    BY <1>4 DEF OptimizedAfter
  <2> HIDE DEF OptimizedAfter
  <2>2. IsOptimized(f, list, m)
    BY <2>1 DEF IsOptimized
  <2> QED BY <1>3, <2>2
<1>5. CASE m # 0
  <2>1. m - 1 \in Nat /\ ~(m <= m - 1)
    BY <1>3, <1>5
  <2>2. PICK f : IsOptimized(f, list, m - 1)
    BY <1>2, <2>1
  <2> DEFINE g == [n \in 0..m |-> IF n = m THEN OptimizedAfter(f, list, m) ELSE f[n]]
  <2>3. ASSUME NEW n \in 0..m  PROVE g[n] = OptimizedAfter(g, list, n)
    <3>1. CASE n = 0
      <4>1. 0 \in 0..(m - 1) /\ n # m
        BY <1>5, <2>1, <3>1
      <4>2. g[n] = f[0]
        BY <3>1, <4>1
      <4>3. f[0] = OptimizedAfter(f, list, 0)
        BY <2>2, <4>1 DEF IsOptimized
      <4> HIDE DEF g
      <4> QED BY <3>1, <4>2, <4>3 DEF OptimizedAfter
    <3>2. CASE n # 0
      <4>1. n - 1 \in 0..m /\ n - 1 # m
        BY <1>3, <3>2
      <4>2. g[n - 1] = f[n - 1]
        BY <4>1
      <4>3. OptimizedAfter(g, list, n) = OptimizedAfter(f, list, n)
        <5> HIDE DEF g
        <5> QED BY <4>2 DEF OptimizedAfter
      <4>4. CASE n = m
        <5>1. g[n] = OptimizedAfter(f, list, n)
          BY <4>4
        <5> QED BY <4>3, <5>1
      <4>5. CASE n # m
        <5>1. n \in 0..(m - 1) /\ g[n] = f[n]
          BY <1>3, <4>5
        <5>2. f[n] = OptimizedAfter(f, list, n)
          BY <2>2, <5>1 DEF IsOptimized
        <5> QED BY <4>3, <5>1, <5>2
      <4> QED BY <4>4, <4>5
    <3> QED BY <3>1, <3>2
  <2>4. g = [n \in 0..m |-> g[n]]
    OBVIOUS
  <2>5. IsOptimized(g, list, m)
    <3> HIDE DEF g
    <3> QED BY <2>3, <2>4 DEF IsOptimized
  <2> QED BY <1>3, <2>5
<1> QED BY <1>4, <1>5

\* The directives of a list, and what Optimize() may make of them.
Shapes(list) == ToSet(list) \cup UNION {AsIfdef(d) : d \in ToSet(list)}

\* A list that is well nested still is after Optimize().
LEMMA OptimizeNest ==
  ASSUME NEW list, list \in Seq(ToSet(list)), WellNested(list)
  PROVE  IsNest(Optimize(list), Shapes(list), 0)
<1> DEFINE S == Shapes(list)
<1>1. Len(list) \in Nat /\ DOMAIN list = 1..Len(list)
  BY LenProperties
<1>2. \A n \in 1..Len(list) : list[n] \in S /\ AsIfdef(list[n]) \subseteq S
  BY <1>1 DEF Shapes, ToSet
<1>3. PICK g : IsOptimized(g, list, Len(list))
  BY <1>1, OptimizedExists
<1> DEFINE f == CHOOSE f : f = [n \in 0..Len(list) |-> IF n = 0 THEN <<>>
                                  ELSE OptimizeStep(f[n - 1], list[n])]
<1>4. f = [n \in 0..Len(list) |-> IF n = 0 THEN <<>> ELSE OptimizeStep(f[n - 1], list[n])]
  BY <1>3, Zenon DEF IsOptimized, OptimizedAfter
<1>5. Optimize(list) = f[Len(list)]
  BY Zenon DEF Optimize
<1> HIDE DEF f, S
<1> DEFINE Right(n) == IsNest(f[n], S, Open(list, n))
<1>6. \A n \in 0..Len(list) : Right(n)
  <2> SUFFICES ASSUME ~\A n \in 0..Len(list) : Right(n)  PROVE FALSE
    OBVIOUS
  <2> DEFINE Bad == {n \in 0..Len(list) : ~Right(n)}
  <2> HIDE DEF Right
  <2>1. Bad \subseteq Nat /\ Bad # {}
    BY <1>1
  <2>2. PICK m \in Bad : \A n \in Bad : m <= n
    <3> HIDE DEF Bad
    <3> QED BY <2>1, LeastNumber
  <2>3. m \in 0..Len(list) /\ ~Right(m)
    OBVIOUS
  <2>4. CASE m = 0
    <3>1. f[m] = <<>>
      BY <1>4, <2>3, <2>4
    <3>2. IsNest(<<>>, S, 0)
      <4>1. <<>> \in Seq(S) /\ Len(<<>>) = 0
        OBVIOUS
      <4>2. \A k \in 0..0 : k = 0
        OBVIOUS
      <4>3. Open(<<>>, 0) = 0
        BY OpenNone
      <4> QED BY <4>1, <4>2, <4>3 DEF IsNest
    <3>3. Open(list, m) = 0
      BY <2>4, OpenNone
    <3> QED BY <2>3, <3>1, <3>2, <3>3 DEF Right
  <2>5. CASE m # 0
    <3> DEFINE k == m - 1
    <3>1. k \in Nat /\ k \in 0..Len(list) /\ ~(m <= k) /\ m \in 1..Len(list) /\ m = k + 1
      BY <1>1, <2>3, <2>5
    <3>2. Right(k)
      BY <2>2, <3>1
    <3>3. f[m] = OptimizeStep(f[k], list[m])
      BY <1>4, <2>3, <2>5
    <3> HIDE DEF k
    <3>4. Open(list, k) \in Int /\ Open(list, m) = Open(list, k) + Delta(list[m])
      BY <3>1, OpenNext
    <3>5. Open(list, m) >= 0
      BY <2>3 DEF WellNested
    <3>6. IsNest(OptimizeStep(f[k], list[m]), S, Open(list, k) + Delta(list[m]))
      BY <1>2, <3>1, <3>2, <3>4, <3>5, OptimizeStepNest DEF Right
    <3> QED BY <2>3, <3>3, <3>4, <3>6 DEF Right
  <2> QED BY <2>4, <2>5
<1>7. Right(Len(list)) /\ Open(list, Len(list)) = 0
  BY <1>1, <1>6 DEF WellNested
<1> QED BY <1>5, <1>7 DEF S

-----------------------------------------------------------------------------
(***************************************************************************)
(* Conditionals open in all the inputs.                                    *)
(***************************************************************************)
\* A function that adds the first m weights of w up.
IsSum(f, w, m) == f = [n \in 0..m |-> IF n = 0 THEN 0 ELSE f[n - 1] + w[n]]

\* There is one: the one up to m - 1 and the next sum make it.
LEMMA SumExists ==
  ASSUME NEW w, NEW len \in Nat
  PROVE  \E f : IsSum(f, w, len)
<1> SUFFICES ASSUME ~\E f : IsSum(f, w, len)  PROVE FALSE
  OBVIOUS
<1> DEFINE Bad == {m \in Nat : ~\E f : IsSum(f, w, m)}
<1>1. Bad \subseteq Nat /\ Bad # {}
  OBVIOUS
<1>2. PICK m \in Bad : \A n \in Bad : m <= n
  <2> HIDE DEF Bad
  <2> QED BY <1>1, LeastNumber
<1>3. m \in Nat /\ ~\E f : IsSum(f, w, m)
  OBVIOUS
<1>4. CASE m = 0
  <2> DEFINE f == [n \in 0..m |-> 0]
  <2>1. f = [n \in 0..m |-> IF n = 0 THEN 0 ELSE f[n - 1] + w[n]]
    BY <1>4
  <2> HIDE DEF f
  <2> QED BY <1>3, <2>1 DEF IsSum
<1>5. CASE m # 0
  <2>1. m - 1 \in Nat /\ ~(m <= m - 1)
    BY <1>3, <1>5
  <2>2. PICK f : IsSum(f, w, m - 1)
    BY <1>2, <2>1
  <2> DEFINE g == [n \in 0..m |-> IF n = m THEN f[m - 1] + w[m] ELSE f[n]]
  <2>3. ASSUME NEW n \in 0..m  PROVE g[n] = IF n = 0 THEN 0 ELSE g[n - 1] + w[n]
    <3>1. CASE n = 0
      <4>1. 0 \in 0..(m - 1) /\ n # m
        BY <1>5, <2>1, <3>1
      <4>2. g[n] = f[0]
        BY <3>1, <4>1
      <4>3. f[0] = 0
        BY <2>2, <4>1 DEF IsSum
      <4> HIDE DEF g
      <4> QED BY <3>1, <4>2, <4>3
    <3>2. CASE n # 0
      <4>1. n - 1 \in 0..m /\ n - 1 # m
        BY <1>3, <3>2
      <4>2. g[n - 1] = f[n - 1]
        BY <4>1
      <4>3. CASE n = m
        <5>1. g[n] = f[n - 1] + w[n]
          BY <4>3
        <5> HIDE DEF g
        <5> QED BY <3>2, <4>2, <5>1
      <4>4. CASE n # m
        <5>1. n \in 0..(m - 1) /\ g[n] = f[n]
          BY <1>3, <4>4
        <5>2. f[n] = f[n - 1] + w[n]
          BY <2>2, <3>2, <5>1 DEF IsSum
        <5> HIDE DEF g
        <5> QED BY <3>2, <4>2, <5>1, <5>2
      <4> QED BY <4>3, <4>4
    <3> QED BY <3>1, <3>2
  <2>4. g = [n \in 0..m |-> g[n]]
    OBVIOUS
  <2>5. IsSum(g, w, m)
    <3> HIDE DEF g
    <3> QED BY <2>3, <2>4 DEF IsSum
  <2> QED BY <1>3, <2>5
<1> QED BY <1>4, <1>5

\* The sum of numbers is a number, and that of the same weights is the same.
LEMMA SumSame ==
  ASSUME NEW m \in Nat, NEW k \in Nat, k <= m, NEW v, NEW w, NEW f, NEW g,
         IsSum(f, v, m), IsSum(g, w, k), \A n \in 1..k : v[n] \in Nat /\ v[n] = w[n]
  PROVE  \A n \in 0..k : f[n] \in Nat /\ f[n] = g[n]
<1> DEFINE Same(n) == f[n] \in Nat /\ f[n] = g[n]
<1> SUFFICES ASSUME ~\A n \in 0..k : Same(n)  PROVE FALSE
  OBVIOUS
<1> DEFINE Bad == {n \in 0..k : ~Same(n)}
<1> HIDE DEF Same
<1>1. Bad \subseteq Nat /\ Bad # {}
  OBVIOUS
<1>2. PICK n \in Bad : \A p \in Bad : n <= p
  <2> HIDE DEF Bad
  <2> QED BY <1>1, LeastNumber
<1>3. n \in 0..k /\ n \in 0..m /\ ~Same(n)
  OBVIOUS
<1>4. CASE n = 0
  <2>1. f[n] = 0 /\ g[n] = 0
    BY <1>3, <1>4 DEF IsSum
  <2> QED BY <1>3, <2>1 DEF Same
<1>5. CASE n # 0
  <2>1. n - 1 \in 0..k /\ ~(n <= n - 1) /\ n \in 1..k
    BY <1>3, <1>5
  <2>2. Same(n - 1)
    BY <1>2, <2>1
  <2>3. f[n] = f[n - 1] + v[n] /\ g[n] = g[n - 1] + w[n]
    BY <1>3, <1>5 DEF IsSum
  <2>4. v[n] \in Nat /\ v[n] = w[n]
    BY <2>1
  <2> QED BY <1>3, <2>2, <2>3, <2>4 DEF Same
<1> QED BY <1>4, <1>5

\* Directives() of an input, and the conditionals open in it.
List(t, i, in) == IF in.root THEN t[in.file] ELSE i[in.file].directives
Weight(t, i, in) == Open(List(t, i, in), in.pos - 1)

\* OpenInInputs, of any stack of inputs.
SumOf(t, i, ins) ==
  LET open[n \in 0..Len(ins)] ==
        IF n = 0 THEN 0 ELSE open[n - 1] + Open(List(t, i, ins[n]), ins[n].pos - 1)
  IN  open[Len(ins)]

\* The recursion adds the weights of the inputs up.
LEMMA SumOfIsSum ==
  ASSUME NEW t, NEW i, NEW S, NEW q \in Seq(S)
  PROVE  \E f : /\ IsSum(f, [n \in 1..Len(q) |-> Weight(t, i, q[n])], Len(q))
                /\ SumOf(t, i, q) = f[Len(q)]
<1> DEFINE w == [n \in 1..Len(q) |-> Weight(t, i, q[n])]
           F(f) == [n \in 0..Len(q) |-> IF n = 0 THEN 0
                      ELSE f[n - 1] + Open(List(t, i, q[n]), q[n].pos - 1)]
           G(f) == [n \in 0..Len(q) |-> IF n = 0 THEN 0 ELSE f[n - 1] + w[n]]
<1>1. Len(q) \in Nat
  OBVIOUS
<1>2. ASSUME NEW f  PROVE F(f) = G(f)
  <2>1. ASSUME NEW n \in 0..Len(q), n # 0
        PROVE  w[n] = Open(List(t, i, q[n]), q[n].pos - 1)
    <3>1. n \in 1..Len(q)
      BY <1>1, <2>1
    <3> QED BY <3>1 DEF Weight
  <2> HIDE DEF w
  <2> QED BY <2>1
<1>3. PICK g : g = G(g)
  <2>1. PICK g : IsSum(g, w, Len(q))
    <3> HIDE DEF w
    <3> QED BY <1>1, SumExists
  <2> QED BY <2>1, Zenon DEF IsSum
<1> DEFINE f == CHOOSE f : f = F(f)
<1>4. g = F(g)
  BY <1>2, <1>3, Zenon
<1>5. f = F(f)
  <2> HIDE DEF F
  <2> QED BY <1>4, Zenon
<1>6. SumOf(t, i, q) = f[Len(q)]
  BY Zenon DEF SumOf
<1> HIDE DEF f
<1>7. f = G(f)
  BY <1>2, <1>5, Zenon
<1>8. IsSum(f, w, Len(q))
  BY <1>7, Zenon DEF IsSum
<1> QED BY <1>6, <1>8

\* No inputs, nothing open.
LEMMA SumOfNone ==
  ASSUME NEW t, NEW i
  PROVE  SumOf(t, i, <<>>) = 0
<1>1. <<>> \in Seq({}) /\ Len(<<>>) = 0
  OBVIOUS
<1>2. PICK f : /\ IsSum(f, [n \in 1..Len(<<>>) |-> Weight(t, i, <<>>[n])], Len(<<>>))
               /\ SumOf(t, i, <<>>) = f[Len(<<>>)]
  BY <1>1, SumOfIsSum, Zenon
<1> DEFINE w == [n \in 1..Len(<<>>) |-> Weight(t, i, <<>>[n])]
<1> HIDE DEF w
<1>3. IsSum(f, w, 0) /\ SumOf(t, i, <<>>) = f[0]
  BY <1>1, <1>2 DEF w
<1> QED BY <1>3 DEF IsSum

\* An input more adds its weight.
LEMMA SumOfAppend ==
  ASSUME NEW t, NEW i, NEW S, NEW q \in Seq(S), NEW x \in S,
         \A n \in 1..Len(q) : Weight(t, i, q[n]) \in Nat
  PROVE  /\ SumOf(t, i, q) \in Nat
         /\ SumOf(t, i, Append(q, x)) = SumOf(t, i, q) + Weight(t, i, x)
<1> DEFINE a == Append(q, x)
           v == [n \in 1..Len(a) |-> Weight(t, i, a[n])]
           w == [n \in 1..Len(q) |-> Weight(t, i, q[n])]
<1>1. /\ Len(q) \in Nat /\ a \in Seq(S) /\ Len(a) = Len(q) + 1 /\ a[Len(q) + 1] = x
      /\ \A n \in 1..Len(q) : a[n] = q[n]
  BY AppendProperties, LenProperties
<1> HIDE DEF a
<1>2. PICK g : IsSum(g, w, Len(q)) /\ SumOf(t, i, q) = g[Len(q)]
  BY SumOfIsSum, Zenon
<1>3. PICK f : IsSum(f, v, Len(a)) /\ SumOf(t, i, a) = f[Len(a)]
  BY <1>1, SumOfIsSum, Zenon
<1>4. \A n \in 1..Len(q) : v[n] \in Nat /\ v[n] = w[n]
  BY <1>1
<1>5. v[Len(q) + 1] = Weight(t, i, x)
  BY <1>1
<1> HIDE DEF v, w
<1>6. \A n \in 0..Len(q) : f[n] \in Nat /\ f[n] = g[n]
  <2>1. Len(a) \in Nat /\ Len(q) <= Len(a)
    BY <1>1
  <2> QED BY <1>1, <1>2, <1>3, <1>4, <2>1, SumSame
<1>7. f[Len(q)] \in Nat /\ f[Len(q)] = g[Len(q)]
  BY <1>1, <1>6
<1>8. f[Len(q) + 1] = f[Len(q)] + v[Len(q) + 1]
  <2>1. Len(q) + 1 \in 0..Len(a) /\ Len(q) + 1 # 0 /\ (Len(q) + 1) - 1 = Len(q)
    BY <1>1
  <2> QED BY <1>3, <2>1 DEF IsSum
<1> QED BY <1>1, <1>2, <1>3, <1>5, <1>7, <1>8 DEF a

-----------------------------------------------------------------------------
(***************************************************************************)
(* The invariant.                                                          *)
(***************************************************************************)
InputSet(t) == [file : DOMAIN t, index : 0..NDirs, pos : Nat \ {0}, root : BOOLEAN]
Within(t, i, in) == in.pos <= Len(List(t, i, in)) + 1

\* A stack of inputs, each within its directives.
Stacked(t, i, ins) ==
  /\ ins \in Seq(InputSet(t))
  /\ \A n \in 1..Len(ins) : Within(t, i, ins[n])

ConditionSet == [cond : BOOLEAN, taken : BOOLEAN]
Items(t) == [f \in DOMAIN t |-> IncludeItem(t[f])]

TreeInv == text \in Texts /\ item = Items(text) /\ todo \in Seq(DOMAIN text)
InputsInv == Stacked(text, item, inputs) /\ Len(inputs) <= DepthLimit
ConditionsInv == conditions \in Seq(ConditionSet) /\ in_false \in Nat
SeenInv ==
  /\ once \subseteq DOMAIN text /\ included \subseteq DOMAIN text
  /\ DOMAIN guard_of \subseteq DOMAIN text
  /\ disabled \in BOOLEAN /\ result \in {"running", "ok", "failed"}
OpenInv ==
  /\ Len(conditions) + in_false = SumOf(text, item, inputs)
  /\ in_false > 0 => ~CurrentCondition

ParserInv == TreeInv /\ InputsInv /\ ConditionsInv /\ SeenInv /\ OpenInv

\* The directives of an input are well nested, those of the optimized headers too.
LEMMA ListNest ==
  ASSUME NEW t \in Texts, NEW in \in InputSet(t)
  PROVE  \E S : IsNest(List(t, Items(t), in), S, 0)
<1> DEFINE f == in.file
<1>1. f \in DOMAIN t
  BY DEF InputSet
<1>2. t[f] \in Seq(ToSet(t[f])) /\ WellNested(t[f])
  BY <1>1, TextsAssumption
<1>3. IsNest(t[f], ToSet(t[f]), 0)
  BY <1>2 DEF IsNest, WellNested
<1>4. Items(t)[f].directives = Optimize(t[f])
  BY <1>1 DEF Items, IncludeItem
<1>5. IsNest(Optimize(t[f]), Shapes(t[f]), 0)
  BY <1>2, OptimizeNest
<1>6. List(t, Items(t), in) = t[f] \/ List(t, Items(t), in) = Items(t)[f].directives
  BY DEF List
<1> HIDE DEF f
<1> QED BY <1>3, <1>4, <1>5, <1>6

\* So an input within its directives has no fewer than 0 conditionals open, and none
\* at its end or its beginning.
LEMMA InputWeight ==
  ASSUME NEW t \in Texts, NEW in \in InputSet(t), Within(t, Items(t), in)
  PROVE  /\ Len(List(t, Items(t), in)) \in Nat /\ in.pos \in Nat \ {0}
         /\ Weight(t, Items(t), in) \in Nat
         /\ in.pos = 1 => Weight(t, Items(t), in) = 0
         /\ in.pos > Len(List(t, Items(t), in)) => Weight(t, Items(t), in) = 0
<1> DEFINE l == List(t, Items(t), in)
<1>1. PICK S : IsNest(l, S, 0)
  BY ListNest
<1>2. Len(l) \in Nat /\ in.pos \in Nat \ {0} /\ in.pos <= Len(l) + 1
  BY <1>1, LenProperties DEF IsNest, InputSet, Within
<1> DEFINE p == in.pos - 1
<1>3. Weight(t, Items(t), in) = Open(l, p)
  BY DEF Weight
<1> HIDE DEF l
<1>4. p \in 0..Len(l) /\ p \in Nat
  BY <1>2
<1>5. Open(l, p) \in Int /\ Open(l, p) >= 0
  BY <1>1, <1>4, OpenNext DEF IsNest
<1>6. in.pos = 1 => Open(l, p) = 0
  BY OpenNone
<1>7. in.pos > Len(l) => Open(l, p) = 0
  <2>1. in.pos > Len(l) => p = Len(l)
    BY <1>2
  <2> QED BY <1>1, <2>1 DEF IsNest
<1> QED BY <1>2, <1>3, <1>5, <1>6, <1>7 DEF l

\* The conditionals open in a stack of inputs are a number.
LEMMA StackSum ==
  ASSUME NEW t \in Texts, NEW ins, Stacked(t, Items(t), ins), NEW x \in InputSet(t)
  PROVE  /\ SumOf(t, Items(t), ins) \in Nat
         /\ SumOf(t, Items(t), Append(ins, x))
              = SumOf(t, Items(t), ins) + Weight(t, Items(t), x)
<1>1. ins \in Seq(InputSet(t))
  BY DEF Stacked
<1>2. ASSUME NEW n \in 1..Len(ins)  PROVE Weight(t, Items(t), ins[n]) \in Nat
  <2>1. ins[n] \in InputSet(t) /\ Within(t, Items(t), ins[n])
    BY <1>1 DEF Stacked
  <2> QED BY <2>1, InputWeight
<1> QED BY <1>1, <1>2, SumOfAppend

\* An input more on the stack.
LEMMA StackAppend ==
  ASSUME NEW t, NEW i, NEW ins, Stacked(t, i, ins), NEW x \in InputSet(t), Within(t, i, x)
  PROVE  Stacked(t, i, Append(ins, x)) /\ Len(Append(ins, x)) = Len(ins) + 1
<1>1. ins \in Seq(InputSet(t)) /\ Len(ins) \in Nat
  BY LenProperties DEF Stacked
<1>2. /\ Append(ins, x) \in Seq(InputSet(t)) /\ Len(Append(ins, x)) = Len(ins) + 1
      /\ Append(ins, x)[Len(ins) + 1] = x
      /\ \A n \in 1..Len(ins) : Append(ins, x)[n] = ins[n]
  BY <1>1, AppendProperties
<1>3. ASSUME NEW n \in 1..(Len(ins) + 1)  PROVE Within(t, i, Append(ins, x)[n])
  <2>1. n \in 1..Len(ins) \/ n = Len(ins) + 1
    BY <1>1
  <2> QED BY <1>2, <2>1 DEF Stacked
<1> QED BY <1>2, <1>3 DEF Stacked

\* A stack is its front and its last element; changing the last one keeps the front.
LEMMA FrontAndLast ==
  ASSUME NEW S, NEW q \in Seq(S), q # <<>>
  PROVE  /\ Len(q) \in Nat \ {0} /\ Last(q) \in S
         /\ Front(q) \in Seq(S) /\ Len(Front(q)) = Len(q) - 1
         /\ \A n \in 1..(Len(q) - 1) : Front(q)[n] = q[n]
         /\ q = Append(Front(q), Last(q))
         /\ \A y \in S : [q EXCEPT ![Len(q)] = y] = Append(Front(q), y)
<1>1. Len(q) \in Nat /\ Len(q) # 0 /\ DOMAIN q = 1..Len(q)
  BY EmptySeq, LenProperties
<1> DEFINE k == Len(q) - 1
<1>0. k \in Nat /\ Len(q) = k + 1
  BY <1>1
<1>2. Last(q) \in S
  BY <1>1 DEF Last
<1>3. /\ Front(q) \in Seq(S) /\ Len(Front(q)) = Len(q) - 1
      /\ \A n \in 1..(Len(q) - 1) : Front(q)[n] = q[n]
  <2>1. Len(q) - 1 \in Nat /\ Len(q) - 1 <= Len(q)
    BY <1>1
  <2> QED BY <1>1, <2>1 DEF Front
<1>4. ASSUME NEW y \in S, NEW r \in Seq(S), Len(r) = Len(q), r[Len(q)] = y,
             \A n \in 1..(Len(q) - 1) : r[n] = q[n]
      PROVE  r = Append(Front(q), y)
  <2> DEFINE a == Append(Front(q), y)
  <2>1. /\ a \in Seq(S) /\ Len(a) = Len(Front(q)) + 1 /\ a[Len(Front(q)) + 1] = y
        /\ \A n \in 1..Len(Front(q)) : a[n] = Front(q)[n]
    BY <1>3, AppendProperties
  <2> HIDE DEF a
  <2>2. Len(a) = Len(q) /\ a[Len(q)] = y
    BY <1>1, <1>3, <2>1
  <2>3. ASSUME NEW n \in 1..Len(q)  PROVE r[n] = a[n]
    <3>1. CASE n = Len(q)
      BY <1>4, <2>2, <3>1
    <3>2. CASE n # Len(q)
      <4>1. n \in 1..(Len(q) - 1)
        <5> HIDE DEF k
        <5>1. n \in 1..k
          BY <1>0, <3>2
        <5> QED BY <5>1 DEF k
      <4>2. n \in 1..Len(Front(q))
        BY <1>3, <4>1
      <4> QED BY <1>3, <1>4, <2>1, <4>1, <4>2
    <3> QED BY <3>1, <3>2
  <2>4. r = a
    BY <1>4, <2>1, <2>2, <2>3, SeqEqual
  <2> QED BY <2>4 DEF a
<1>5. q = Append(Front(q), Last(q))
  BY <1>2, <1>4 DEF Last
<1>6. ASSUME NEW y \in S  PROVE [q EXCEPT ![Len(q)] = y] = Append(Front(q), y)
  <2> DEFINE r == [q EXCEPT ![Len(q)] = y]
  <2>1. r \in Seq(S) /\ Len(r) = Len(q)
    <3>1. Len(q) \in 1..Len(q)
      BY <1>1
    <3> QED BY <3>1, ExceptSeq
  <2>2. r[Len(q)] = y
    BY <1>1
  <2>3. ASSUME NEW n \in 1..(Len(q) - 1)  PROVE r[n] = q[n]
    <3>1. n \in 1..k
      OBVIOUS
    <3> HIDE DEF k
    <3>2. n \in 1..Len(q) /\ n # Len(q)
      BY <1>0, <3>1
    <3> QED BY <1>1, <3>2
  <2> HIDE DEF r
  <2>4. r = Append(Front(q), y)
    BY <1>4, <2>1, <2>2, <2>3
  <2> QED BY <2>4 DEF r
<1> QED BY <1>1, <1>2, <1>3, <1>5, <1>6

\* The stack below its top.
LEMMA StackFront ==
  ASSUME NEW t, NEW i, NEW ins, Stacked(t, i, ins), ins # <<>>
  PROVE  /\ Stacked(t, i, Front(ins)) /\ Len(Front(ins)) = Len(ins) - 1 /\ Len(ins) \in Nat \ {0}
         /\ Last(ins) \in InputSet(t) /\ Within(t, i, Last(ins))
         /\ ins = Append(Front(ins), Last(ins))
<1>1. ins \in Seq(InputSet(t)) /\ \A n \in 1..Len(ins) : Within(t, i, ins[n])
  BY DEF Stacked
<1>2. /\ Len(ins) \in Nat \ {0} /\ Last(ins) \in InputSet(t)
      /\ Front(ins) \in Seq(InputSet(t)) /\ Len(Front(ins)) = Len(ins) - 1
      /\ \A n \in 1..(Len(ins) - 1) : Front(ins)[n] = ins[n]
      /\ ins = Append(Front(ins), Last(ins))
  BY <1>1, FrontAndLast
<1>3. Within(t, i, Last(ins))
  BY <1>1, <1>2 DEF Last
<1>4. ASSUME NEW n \in 1..Len(Front(ins))  PROVE Within(t, i, Front(ins)[n])
  <2>1. n \in 1..(Len(ins) - 1) /\ n \in 1..Len(ins)
    BY <1>2
  <2> QED BY <1>1, <1>2, <2>1
<1> QED BY <1>2, <1>3, <1>4 DEF Stacked

\* A directive consumed: the top moves on by one and the conditionals open change by
\* what the directive adds.
LEMMA ConsumeKeeps ==
  ASSUME ParserInv, inputs # <<>>, ~Exhausted
  PROVE  /\ Stacked(text, item, Consumed) /\ Len(Consumed) = Len(inputs)
         /\ SumOf(text, item, Consumed) = SumOf(text, item, inputs) + Delta(Directive)
         /\ SumOf(text, item, Consumed) \in Nat
         /\ Top \in InputSet(text)
<1> DEFINE l == List(text, item, Top)
           x == [Top EXCEPT !.pos = @ + 1]
<1>1. text \in Texts /\ item = Items(text) /\ Stacked(text, item, inputs)
  BY DEF ParserInv, TreeInv, InputsInv
<1>2. /\ Stacked(text, item, Front(inputs)) /\ Len(Front(inputs)) = Len(inputs) - 1
      /\ Len(inputs) \in Nat \ {0}
      /\ Top \in InputSet(text) /\ Within(text, item, Top)
      /\ inputs = Append(Front(inputs), Top)
  BY <1>1, StackFront DEF Top
<1>3. l = Directives(Top)
  BY DEF List, Directives
<1>4. Len(l) \in Nat /\ Top.pos \in Nat \ {0} /\ Top.pos <= Len(l) /\ Directive = l[Top.pos]
  BY <1>1, <1>2, <1>3, InputWeight DEF Exhausted, Directive
<1>5. /\ x \in InputSet(text) /\ x.pos = Top.pos + 1
      /\ x.file = Top.file /\ x.root = Top.root
  BY <1>2 DEF InputSet
<1>6. List(text, item, x) = l
  <2> HIDE DEF x
  <2> QED BY <1>5, Zenon DEF List
<1>7. Within(text, item, x)
  <2> HIDE DEF l, x
  <2> QED BY <1>4, <1>5, <1>6 DEF Within
<1>8. Consumed = Append(Front(inputs), x)
  <2>1. inputs \in Seq(InputSet(text))
    BY <1>1 DEF Stacked
  <2>2. Consumed = [inputs EXCEPT ![Len(inputs)] = x]
    BY Zenon DEF Consumed, Top, Last
  <2> HIDE DEF x
  <2> QED BY <1>5, <2>1, <2>2, FrontAndLast
<1>9. Weight(text, item, x) = Weight(text, item, Top) + Delta(Directive)
  <2> HIDE DEF l, x
  <2>1. PICK p \in Nat : Top.pos = p + 1
    <3>1. Top.pos - 1 \in Nat /\ Top.pos = (Top.pos - 1) + 1
      BY <1>4
    <3> QED BY <3>1
  <2>2. Top.pos - 1 = p /\ x.pos - 1 = p + 1
    BY <1>5, <2>1
  <2>3. Weight(text, item, x) = Open(l, p + 1) /\ Weight(text, item, Top) = Open(l, p)
    BY <1>6, <2>2 DEF Weight, l
  <2> QED BY <1>4, <2>1, <2>3, OpenNext
<1> HIDE DEF x, l
<1>10. /\ SumOf(text, item, Front(inputs)) \in Nat
       /\ SumOf(text, item, inputs) = SumOf(text, item, Front(inputs)) + Weight(text, item, Top)
       /\ SumOf(text, item, Consumed) = SumOf(text, item, Front(inputs)) + Weight(text, item, x)
  BY <1>1, <1>2, <1>5, <1>8, StackSum
<1>11. Weight(text, item, x) \in Nat /\ Weight(text, item, Top) \in Nat
  BY <1>1, <1>2, <1>5, <1>7, InputWeight
<1>12. Delta(Directive) \in Int
  BY DEF Delta
<1>13. Stacked(text, item, Consumed) /\ Len(Consumed) = Len(inputs)
  BY <1>2, <1>5, <1>7, <1>8, StackAppend
<1> QED BY <1>2, <1>9, <1>10, <1>11, <1>12, <1>13

\* A file that is found is a file of the tree, in a directory that there is.
LEMMA FindIsFile ==
  ASSUME NEW d, Top \in InputSet(text), NDirs \in Nat, Find(d) # NotFound
  PROVE  Find(d).file \in DOMAIN text /\ Find(d).index \in 0..NDirs
<1> DEFINE near == <<Top.file[1], d.name>>
           from == CASE d.op = "include_next" -> Top.index + 1
                     [] d.delim = "<" -> BracketDir
                     [] OTHER -> 1
           far == Lookup(d.name, from)
<1>1. CASE d.delim = "\"" /\ d.op # "include_next" /\ near \in DOMAIN text
  <2>1. Find(d) = [file |-> near, index |-> Top.index]
    BY <1>1, Zenon DEF Find
  <2>2. Top.index \in 0..NDirs
    BY DEF InputSet
  <2> HIDE DEF near, far
  <2>3. Find(d).file = near /\ Find(d).index = Top.index
    BY <2>1
  <2> QED BY <1>1, <2>2, <2>3, Zenon
<1>2. CASE ~(d.delim = "\"" /\ d.op # "include_next" /\ near \in DOMAIN text)
  <2>1. far # 0 /\ Find(d) = [file |-> <<far, d.name>>, index |-> far]
    BY <1>2, Zenon DEF Find
  <2> HIDE DEF from
  <2> DEFINE start == Max({from, Min(DirsWith(d.name))})
             hits == {x \in DirsWith(d.name) : x >= start}
  <2>2. hits # {} /\ far = Min(hits)
    BY <2>1, Zenon DEF Lookup
  <2>3. hits \subseteq DirsWith(d.name)
    OBVIOUS
  <2> HIDE DEF hits, far
  <2>4. DirsWith(d.name) \subseteq Nat
    BY DEF DirsWith
  <2>5. far \in DirsWith(d.name)
    BY <2>2, <2>3, <2>4, MinInSet
  <2>6. far \in 1..NDirs /\ <<far, d.name>> \in DOMAIN text
    BY <2>5 DEF DirsWith
  <2>7. far \in 0..NDirs
    BY <2>6
  <2>8. Find(d).file = <<far, d.name>> /\ Find(d).index = far
    BY <2>1
  <2> QED BY <2>6, <2>7, <2>8, Zenon
<1> QED BY <1>1, <1>2

\* A condition reads files of the tree only.
LEMMA ReadsAreFiles ==
  ASSUME NEW c, Top \in InputSet(text), NDirs \in Nat
  PROVE  Reads(c) \subseteq DOMAIN text
BY FindIsFile DEF Reads, Has

\* A step that consumes a directive keeps the invariant if it changes the stack of
\* conditions and the count of skipped ones by what the directive adds.
LEMMA ConsumingStep ==
  ASSUME ParserInv, inputs # <<>>, ~Exhausted, inputs' = Consumed, UNCHANGED tree,
         ConditionsInv', SeenInv',
         Len(conditions)' + in_false' = Len(conditions) + in_false + Delta(Directive),
         in_false' > 0 => ~CurrentCondition'
  PROVE  ParserInv'
<1>1. /\ Stacked(text, item, inputs') /\ Len(inputs') = Len(inputs)
      /\ SumOf(text, item, inputs') = SumOf(text, item, inputs) + Delta(Directive)
  BY ConsumeKeeps
<1>2. text' = text /\ item' = item /\ todo' = todo
  BY DEF tree
<1>3. TreeInv'
  BY <1>2 DEF ParserInv, TreeInv
<1>4. InputsInv'
  BY <1>1, <1>2 DEF ParserInv, InputsInv
<1>5. OpenInv'
  BY <1>1, <1>2 DEF ParserInv, OpenInv
<1> QED BY <1>3, <1>4, <1>5 DEF ParserInv

\* An #if pushes a condition, or counts one if it is not looked at.
LEMMA ProcessIfKeeps ==
  ASSUME ParserInv, ProcessIf
  PROVE  ParserInv'
<1>1. inputs # <<>> /\ ~Exhausted /\ Directive.op \in IfOps /\ inputs' = Consumed
  BY DEF ProcessIf, At
<1>2. Delta(Directive) = 1
  BY <1>1 DEF Delta
<1>3. UNCHANGED tree /\ UNCHANGED env /\ disabled' = disabled
  BY Zenon DEF ProcessIf
<1>4. /\ text' = text /\ result' = result /\ once' = once /\ guard_of' = guard_of
  BY <1>3 DEF tree, env
<1>5. /\ conditions \in Seq(ConditionSet) /\ in_false \in Nat /\ Len(conditions) \in Nat
      /\ in_false > 0 => ~CurrentCondition
  BY LenProperties DEF ParserInv, ConditionsInv, OpenInv
<1>6. CASE CurrentCondition
  <2> DEFINE v == CASE Directive.op = "ifdef" -> Directive.name \in macros
                    [] Directive.op = "ifndef" -> Directive.name \notin macros
                    [] Directive.op = "if" -> EvalCondition(Directive.cond)
             c == [cond |-> v, taken |-> v]
  <2>1. /\ conditions' = Append(conditions, c)
        /\ included' = included \cup (IF Directive.op = "if" THEN Reads(Directive.cond) ELSE {})
        /\ in_false' = in_false
    BY <1>6, Zenon DEF ProcessIf
  <2>2. EvalCondition(Directive.cond) \in BOOLEAN
    BY DEF EvalCondition
  <2>3. v \in BOOLEAN
    <3>1. CASE Directive.op = "ifdef"
      BY <3>1
    <3>2. CASE Directive.op = "ifndef"
      BY <3>2
    <3>3. CASE Directive.op = "if"
      BY <2>2, <3>3
    <3> QED BY <1>1, <3>1, <3>2, <3>3 DEF IfOps
  <2>4. c \in ConditionSet
    <3> HIDE DEF v
    <3> QED BY <2>3 DEF ConditionSet
  <2> HIDE DEF v, c
  <2>5. conditions' \in Seq(ConditionSet) /\ Len(conditions') = Len(conditions) + 1
    BY <1>5, <2>1, <2>4, AppendProperties
  <2>6. in_false' = 0
    BY <1>5, <1>6, <2>1
  <2>7. included' \subseteq DOMAIN text
    <3>1. Top \in InputSet(text) /\ NDirs \in Nat
      BY <1>1, ConsumeKeeps, ParserAssumption
    <3>2. Reads(Directive.cond) \subseteq DOMAIN text
      BY <3>1, ReadsAreFiles
    <3> QED BY <2>1, <3>2 DEF ParserInv, SeenInv
  <2>8. ConditionsInv'
    BY <2>5, <2>6 DEF ConditionsInv
  <2>9. SeenInv'
    BY <1>3, <1>4, <2>7 DEF ParserInv, SeenInv
  <2>10. Len(conditions)' + in_false' = Len(conditions) + in_false + Delta(Directive)
    BY <1>2, <1>5, <2>1, <2>5
  <2> QED BY <1>1, <1>3, <2>6, <2>8, <2>9, <2>10, ConsumingStep
<1>7. CASE ~CurrentCondition
  <2>1. in_false' = in_false + 1 /\ conditions' = conditions /\ included' = included
    BY <1>7, Zenon DEF ProcessIf
  <2>2. ConditionsInv' /\ SeenInv'
    BY <1>3, <1>4, <1>5, <2>1 DEF ParserInv, ConditionsInv, SeenInv
  <2>3. ~CurrentCondition'
    BY <1>7, <2>1 DEF CurrentCondition
  <2>4. Len(conditions)' + in_false' = Len(conditions) + in_false + Delta(Directive)
    BY <1>2, <1>5, <2>1
  <2> QED BY <1>1, <1>3, <2>2, <2>3, <2>4, ConsumingStep
<1> QED BY <1>6, <1>7

\* The last condition changed: as many, and of the same type.
LEMMA LastCondition ==
  ASSUME NEW q \in Seq(ConditionSet), q # <<>>, NEW v \in BOOLEAN
  PROVE  /\ Len(q) \in Nat \ {0}
         /\ [q EXCEPT ![Len(q)].cond = v] \in Seq(ConditionSet)
         /\ Len([q EXCEPT ![Len(q)].cond = v]) = Len(q)
         /\ Front(q) \in Seq(ConditionSet) /\ Len(Front(q)) = Len(q) - 1
<1> DEFINE c == [q[Len(q)] EXCEPT !.cond = v]
<1>1. /\ Len(q) \in Nat \ {0} /\ Last(q) \in ConditionSet
      /\ Front(q) \in Seq(ConditionSet) /\ Len(Front(q)) = Len(q) - 1
  BY FrontAndLast
<1>2. c \in ConditionSet
  BY <1>1 DEF Last, ConditionSet
<1>3. [q EXCEPT ![Len(q)].cond = v] = [q EXCEPT ![Len(q)] = c]
  BY Zenon
<1>4. Len(q) \in 1..Len(q)
  BY <1>1
<1> HIDE DEF c
<1>5. [q EXCEPT ![Len(q)] = c] \in Seq(ConditionSet) /\ Len([q EXCEPT ![Len(q)] = c]) = Len(q)
  BY <1>2, <1>4, ExceptSeq
<1> QED BY <1>1, <1>3, <1>5

\* An #else turns the innermost condition that was entered, if that is the one it is of.
LEMMA ProcessElseKeeps ==
  ASSUME ParserInv, ProcessElse
  PROVE  ParserInv'
<1>1. inputs # <<>> /\ ~Exhausted /\ Directive.op = "else" /\ inputs' = Consumed
  BY DEF ProcessElse, At
<1>2. Delta(Directive) = 0
  BY <1>1 DEF Delta, IfOps
<1>3. UNCHANGED tree /\ UNCHANGED env /\ disabled' = disabled /\ included' = included
      /\ in_false' = in_false
  BY Zenon DEF ProcessElse
<1>4. SeenInv'
  BY <1>3 DEF ParserInv, SeenInv, tree, env
<1>5. /\ conditions \in Seq(ConditionSet) /\ in_false \in Nat /\ Len(conditions) \in Nat
      /\ in_false > 0 => ~CurrentCondition
  BY LenProperties DEF ParserInv, ConditionsInv, OpenInv
<1>6. CASE Branch
  <2>1. conditions' = [conditions EXCEPT ![Len(conditions)].cond = Else(Last(conditions))]
    BY <1>6, Zenon DEF ProcessElse
  <2>2. Else(Last(conditions)) \in BOOLEAN /\ conditions # <<>> /\ in_false = 0
    BY <1>6 DEF Else, Branch
  <2>3. conditions' \in Seq(ConditionSet) /\ Len(conditions') = Len(conditions)
    BY <1>5, <2>1, <2>2, LastCondition
  <2>4. ConditionsInv' /\ ~(in_false' > 0)
    BY <1>3, <1>5, <2>2, <2>3 DEF ConditionsInv
  <2>5. Len(conditions)' + in_false' = Len(conditions) + in_false + Delta(Directive)
    BY <1>2, <1>3, <1>5, <2>3
  <2> QED BY <1>1, <1>3, <1>4, <2>4, <2>5, ConsumingStep
<1>7. CASE ~Branch
  <2>1. conditions' = conditions
    BY <1>7, Zenon DEF ProcessElse
  <2>2. ConditionsInv'
    BY <1>3, <1>5, <2>1 DEF ConditionsInv
  <2>3. in_false' > 0 => ~CurrentCondition'
    BY <1>3, <1>5, <2>1 DEF CurrentCondition
  <2>4. Len(conditions)' + in_false' = Len(conditions) + in_false + Delta(Directive)
    BY <1>2, <1>3, <1>5, <2>1
  <2> QED BY <1>1, <1>3, <1>4, <2>2, <2>3, <2>4, ConsumingStep
<1> QED BY <1>6, <1>7

\* So does an #elif, which looks at its own condition if no branch was taken.
LEMMA ProcessElifKeeps ==
  ASSUME ParserInv, ProcessElif
  PROVE  ParserInv'
<1>1. inputs # <<>> /\ ~Exhausted /\ Directive.op = "elif" /\ inputs' = Consumed
  BY DEF ProcessElif, At
<1>2. Delta(Directive) = 0
  BY <1>1 DEF Delta, IfOps
<1>3. UNCHANGED tree /\ UNCHANGED env /\ disabled' = disabled /\ in_false' = in_false
  BY Zenon DEF ProcessElif
<1>4. included' \subseteq DOMAIN text => SeenInv'
  BY <1>3 DEF ParserInv, SeenInv, tree, env
<1>5. /\ conditions \in Seq(ConditionSet) /\ in_false \in Nat /\ Len(conditions) \in Nat
      /\ in_false > 0 => ~CurrentCondition
      /\ included \subseteq DOMAIN text
  BY LenProperties DEF ParserInv, ConditionsInv, OpenInv, SeenInv
<1>6. CASE Branch /\ ~Last(conditions).taken
  <2> DEFINE v == EvalCondition(Directive.cond)
             c == [cond |-> v, taken |-> v]
  <2>1. /\ conditions' = Append(Front(conditions), c)
        /\ included' = included \cup Reads(Directive.cond)
    BY <1>6, Zenon DEF ProcessElif
  <2>2. v \in BOOLEAN /\ conditions # <<>> /\ in_false = 0
    BY <1>6 DEF EvalCondition, Branch
  <2>3. c \in ConditionSet
    <3> HIDE DEF v
    <3> QED BY <2>2 DEF ConditionSet
  <2> HIDE DEF v, c
  <2>4. Front(conditions) \in Seq(ConditionSet) /\ Len(Front(conditions)) = Len(conditions) - 1
    BY <1>5, <2>2, LastCondition
  <2>5. conditions' \in Seq(ConditionSet) /\ Len(conditions') = Len(Front(conditions)) + 1
    BY <2>1, <2>3, <2>4, AppendProperties
  <2>6. ConditionsInv' /\ ~(in_false' > 0)
    BY <1>3, <1>5, <2>2, <2>5 DEF ConditionsInv
  <2>7. Len(conditions)' + in_false' = Len(conditions) + in_false + Delta(Directive)
    BY <1>2, <1>3, <1>5, <2>4, <2>5
  <2>8. included' \subseteq DOMAIN text
    <3>1. Top \in InputSet(text) /\ NDirs \in Nat
      BY <1>1, ConsumeKeeps, ParserAssumption
    <3> QED BY <1>5, <2>1, <3>1, ReadsAreFiles
  <2> QED BY <1>1, <1>3, <1>4, <2>6, <2>7, <2>8, ConsumingStep
<1>7. CASE Branch /\ Last(conditions).taken
  <2>1. /\ conditions' = [conditions EXCEPT ![Len(conditions)].cond = FALSE]
        /\ included' = included
    BY <1>7, Zenon DEF ProcessElif
  <2>2. conditions # <<>> /\ in_false = 0 /\ FALSE \in BOOLEAN
    BY <1>7 DEF Branch
  <2>3. conditions' \in Seq(ConditionSet) /\ Len(conditions') = Len(conditions)
    BY <1>5, <2>1, <2>2, LastCondition
  <2>4. ConditionsInv' /\ ~(in_false' > 0)
    BY <1>3, <1>5, <2>2, <2>3 DEF ConditionsInv
  <2>5. Len(conditions)' + in_false' = Len(conditions) + in_false + Delta(Directive)
    BY <1>2, <1>3, <1>5, <2>3
  <2> QED BY <1>1, <1>3, <1>4, <1>5, <2>1, <2>4, <2>5, ConsumingStep
<1>8. CASE ~Branch
  <2>1. conditions' = conditions /\ included' = included
    BY <1>8, Zenon DEF ProcessElif
  <2>2. ConditionsInv'
    BY <1>3, <1>5, <2>1 DEF ConditionsInv
  <2>3. in_false' > 0 => ~CurrentCondition'
    BY <1>3, <1>5, <2>1 DEF CurrentCondition
  <2>4. Len(conditions)' + in_false' = Len(conditions) + in_false + Delta(Directive)
    BY <1>2, <1>3, <1>5, <2>1
  <2> QED BY <1>1, <1>3, <1>4, <1>5, <2>1, <2>2, <2>3, <2>4, ConsumingStep
<1> QED BY <1>6, <1>7, <1>8

\* An #endif ends a skipped conditional, or pops the condition that has to be there.
LEMMA ProcessEndifKeeps ==
  ASSUME ParserInv, ProcessEndif
  PROVE  ParserInv'
<1>1. inputs # <<>> /\ ~Exhausted /\ Directive.op = "endif" /\ inputs' = Consumed
  BY DEF ProcessEndif, At
<1>2. Delta(Directive) = -1
  BY <1>1 DEF Delta, IfOps
<1>3. UNCHANGED tree /\ UNCHANGED env /\ disabled' = disabled /\ included' = included
  BY Zenon DEF ProcessEndif
<1>4. SeenInv'
  BY <1>3 DEF ParserInv, SeenInv, tree, env
<1>5. /\ conditions \in Seq(ConditionSet) /\ in_false \in Nat /\ Len(conditions) \in Nat
      /\ in_false > 0 => ~CurrentCondition
      /\ Len(conditions) + in_false = SumOf(text, item, inputs)
  BY LenProperties DEF ParserInv, ConditionsInv, OpenInv
<1>6. CASE in_false > 0
  <2>1. in_false' = in_false - 1 /\ conditions' = conditions
    BY <1>6, Zenon DEF ProcessEndif
  <2>2. ConditionsInv'
    BY <1>5, <1>6, <2>1 DEF ConditionsInv
  <2>3. ~CurrentCondition'
    BY <1>5, <1>6, <2>1 DEF CurrentCondition
  <2>4. Len(conditions)' + in_false' = Len(conditions) + in_false + Delta(Directive)
    BY <1>2, <1>5, <2>1
  <2> QED BY <1>1, <1>3, <1>4, <2>2, <2>3, <2>4, ConsumingStep
<1>7. CASE ~(in_false > 0)
  <2>1. in_false' = in_false /\ in_false = 0
        /\ conditions' = IF conditions = <<>> THEN <<>> ELSE Front(conditions)
    <3>1. in_false' = in_false
          /\ conditions' = IF conditions = <<>> THEN <<>> ELSE Front(conditions)
      BY <1>7, Zenon DEF ProcessEndif
    <3> QED BY <1>5, <1>7, <3>1
  <2>2. conditions # <<>>
    <3>1. SumOf(text, item, inputs) + (-1) \in Nat
      BY <1>1, <1>2, ConsumeKeeps
    <3>2. Len(conditions) # 0
      BY <1>5, <2>1, <3>1
    <3> QED BY <3>2
  <2>3. conditions' \in Seq(ConditionSet) /\ Len(conditions') = Len(conditions) - 1
    <3>1. FALSE \in BOOLEAN
      OBVIOUS
    <3> QED BY <1>5, <2>1, <2>2, <3>1, LastCondition
  <2>4. ConditionsInv' /\ ~(in_false' > 0)
    BY <2>1, <2>3 DEF ConditionsInv
  <2>5. Len(conditions)' + in_false' = Len(conditions) + in_false + Delta(Directive)
    BY <1>2, <1>5, <2>1, <2>3
  <2> QED BY <1>1, <1>3, <1>4, <2>4, <2>5, ConsumingStep
<1> QED BY <1>6, <1>7

\* A directive that is not conditional, and what it does not touch.
LEMMA PlainStep ==
  ASSUME ParserInv, NEW ops, At(ops), inputs' = Consumed, UNCHANGED tree,
         \A o \in ops : o \notin IfOps /\ o # "endif",
         conditions' = conditions, in_false' = in_false, SeenInv'
  PROVE  ParserInv'
<1>1. inputs # <<>> /\ ~Exhausted /\ Delta(Directive) = 0
  BY DEF At, Delta
<1>2. /\ conditions \in Seq(ConditionSet) /\ in_false \in Nat /\ Len(conditions) \in Nat
      /\ in_false > 0 => ~CurrentCondition
  BY LenProperties DEF ParserInv, ConditionsInv, OpenInv
<1>3. ConditionsInv'
  BY <1>2 DEF ConditionsInv
<1>4. in_false' > 0 => ~CurrentCondition'
  BY <1>2 DEF CurrentCondition
<1>5. Len(conditions)' + in_false' = Len(conditions) + in_false + Delta(Directive)
  BY <1>1, <1>2
<1> QED BY <1>1, <1>3, <1>4, <1>5, ConsumingStep

\* Macros are not in the invariant.
LEMMA ProcessDefineKeeps ==
  ASSUME ParserInv, ProcessDefine
  PROVE  ParserInv'
<1> DEFINE ops == {"define", "undef"}
<1>1. /\ At(ops) /\ inputs' = Consumed /\ UNCHANGED tree
      /\ conditions' = conditions /\ in_false' = in_false
      /\ once' = once /\ guard_of' = guard_of /\ included' = included /\ disabled' = disabled
  BY DEF ProcessDefine
<1>2. \A o \in ops : o \notin IfOps /\ o # "endif"
  BY DEF IfOps
<1>3. SeenInv'
  BY <1>1 DEF ParserInv, SeenInv, tree
<1> HIDE DEF ops
<1> QED BY <1>1, <1>2, <1>3, PlainStep

\* #pragma once remembers the file that is read.
LEMMA ProcessPragmaKeeps ==
  ASSUME ParserInv, ProcessPragma
  PROVE  ParserInv'
<1> DEFINE ops == {"once", "other"}
<1>1. /\ At(ops) /\ inputs' = Consumed /\ UNCHANGED tree
      /\ conditions' = conditions /\ in_false' = in_false
      /\ once' = (IF Directive.op = "once" THEN once \cup {Top.file} ELSE once)
      /\ guard_of' = guard_of /\ included' = included /\ disabled' = disabled
  BY DEF ProcessPragma
<1>2. \A o \in ops : o \notin IfOps /\ o # "endif"
  BY DEF IfOps
<1> HIDE DEF ops
<1>3. Top \in InputSet(text)
  BY <1>1, ConsumeKeeps DEF At
<1>4. Top.file \in DOMAIN text
  BY <1>3 DEF InputSet
<1>5. SeenInv'
  BY <1>1, <1>4 DEF ParserInv, SeenInv, tree
<1> QED BY <1>1, <1>2, <1>5, PlainStep

\* A directive in a branch that is not taken is passed over.
LEMMA SkipDirectiveKeeps ==
  ASSUME ParserInv, SkipDirective
  PROVE  ParserInv'
<1> DEFINE ops == {"include", "include_next", "import", "define", "undef", "once", "other"}
<1>1. /\ At(ops) /\ inputs' = Consumed /\ UNCHANGED tree
      /\ conditions' = conditions /\ in_false' = in_false
      /\ UNCHANGED env /\ included' = included /\ disabled' = disabled
  BY DEF SkipDirective
<1>2. \A o \in ops : o \notin IfOps /\ o # "endif"
  BY DEF IfOps
<1> HIDE DEF ops
<1>3. SeenInv'
  BY <1>1 DEF ParserInv, SeenInv, tree, env
<1> QED BY <1>1, <1>2, <1>3, PlainStep

\* A file that is included starts with nothing open, above the directive after its
\* #include, and no deeper than the limit.
LEMMA ProcessIncludeKeeps ==
  ASSUME ParserInv, ProcessInclude
  PROVE  ParserInv'
<1> DEFINE ops == {"include", "include_next", "import"}
           f == Find(Directive)
           new == f # NotFound /\ ~IsProcessedFile(f.file)
           push == new /\ Len(inputs) < DepthLimit
           x == [file |-> f.file, index |-> f.index, pos |-> 1, root |-> FALSE]
<1>1. /\ At(ops) /\ UNCHANGED tree
      /\ inputs' = (IF push THEN Append(Consumed, x) ELSE Consumed)
      /\ included' = (IF new THEN included \cup {f.file} ELSE included)
      /\ disabled' = (disabled \/ f = NotFound \/ (new /\ ~push))
      /\ once' = (IF Directive.op = "import" /\ f # NotFound
                  THEN once \cup {Last(inputs').file} ELSE once)
      /\ conditions' = conditions /\ in_false' = in_false /\ guard_of' = guard_of
  BY Zenon DEF ProcessInclude
<1>2. \A o \in ops : o \notin IfOps /\ o # "endif"
  BY DEF IfOps
<1> HIDE DEF ops
<1>3. inputs # <<>> /\ ~Exhausted /\ Directive.op \in ops /\ Delta(Directive) = 0
  BY <1>1, <1>2 DEF At, Delta
<1>4. /\ Stacked(text, item, Consumed) /\ Len(Consumed) = Len(inputs)
      /\ SumOf(text, item, Consumed) = SumOf(text, item, inputs) + Delta(Directive)
      /\ SumOf(text, item, Consumed) \in Nat /\ Top \in InputSet(text)
  BY <1>3, ConsumeKeeps
<1>5. NDirs \in Nat /\ text \in Texts /\ item = Items(text) /\ Len(inputs) <= DepthLimit
      /\ Len(inputs) \in Nat
  BY ParserAssumption, LenProperties DEF ParserInv, TreeInv, InputsInv, Stacked
<1>6. f # NotFound => f.file \in DOMAIN text /\ f.index \in 0..NDirs
  BY <1>4, <1>5, FindIsFile
<1>7. text' = text /\ item' = item /\ result' = result /\ todo' = todo
  BY <1>1 DEF tree
<1>8. CASE push
  <2>1. x \in InputSet(text) /\ x.pos = 1
    <3>1. f.file \in DOMAIN text /\ f.index \in 0..NDirs
      BY <1>6, <1>8
    <3> HIDE DEF f
    <3> QED BY <3>1 DEF InputSet
  <2> HIDE DEF x, push
  <2>2. Within(text, item, x)
    <3>1. PICK S : IsNest(List(text, item, x), S, 0)
      BY <1>5, <2>1, ListNest
    <3>2. Len(List(text, item, x)) \in Nat
      BY <3>1, LenProperties DEF IsNest
    <3> QED BY <2>1, <3>2 DEF Within
  <2>3. Stacked(text, item, inputs') /\ Len(inputs') = Len(inputs) + 1
    BY <1>1, <1>4, <1>8, <2>1, <2>2, StackAppend
  <2>4. SumOf(text, item, inputs') = SumOf(text, item, inputs)
    <3>1. Weight(text, item, x) = 0
      BY <1>5, <2>1, <2>2, InputWeight
    <3>2. SumOf(text, item, Append(Consumed, x)) = SumOf(text, item, Consumed) + Weight(text, item, x)
      BY <1>4, <1>5, <2>1, StackSum
    <3>3. SumOf(text, item, inputs) \in Nat
      BY <1>4, <1>5, <2>1, StackSum DEF ParserInv, InputsInv
    <3> QED BY <1>1, <1>3, <1>4, <1>8, <3>1, <3>2, <3>3
  <2>5. inputs' # <<>>
    BY <1>5, <2>3
  <2>6. InputsInv'
    <3>1. Len(inputs) < DepthLimit /\ DepthLimit \in Nat
      BY <1>8, ParserAssumption DEF push
    <3> QED BY <1>5, <1>7, <2>3, <3>1 DEF InputsInv
  <2>7. Last(inputs').file \in DOMAIN text
    <3>1. Last(inputs') \in InputSet(text)
      BY <2>3, <2>5, StackFront
    <3> QED BY <3>1 DEF InputSet
  <2>8. SeenInv'
    <3>1. once' \subseteq DOMAIN text
      BY <1>1, <2>7 DEF ParserInv, SeenInv
    <3>2. included' \subseteq DOMAIN text
      <4> HIDE DEF f
      <4> QED BY <1>1, <1>6 DEF ParserInv, SeenInv
    <3>3. disabled' \in BOOLEAN
      BY <1>1
    <3> QED BY <1>1, <1>7, <3>1, <3>2, <3>3 DEF ParserInv, SeenInv
  <2>9. TreeInv' /\ ConditionsInv'
    BY <1>1, <1>7 DEF ParserInv, TreeInv, ConditionsInv
  <2>10. OpenInv'
    BY <1>1, <1>7, <2>4 DEF ParserInv, OpenInv, CurrentCondition
  <2> QED BY <2>6, <2>8, <2>9, <2>10 DEF ParserInv
<1>9. CASE ~push
  <2>1. inputs' = Consumed
    BY <1>1, <1>9
  <2> HIDE DEF push
  <2>2. Last(inputs').file \in DOMAIN text
    <3>1. inputs' # <<>> /\ Stacked(text, item, inputs')
      <4>1. Len(inputs) # 0
        BY <1>3, EmptySeq DEF ParserInv, InputsInv, Stacked
      <4>2. Len(inputs') # 0
        BY <1>4, <2>1, <4>1
      <4> QED BY <1>4, <2>1, <4>2
    <3>2. Last(inputs') \in InputSet(text)
      BY <3>1, StackFront
    <3> QED BY <3>2 DEF InputSet
  <2>3. SeenInv'
    <3>1. once' \subseteq DOMAIN text
      BY <1>1, <2>2 DEF ParserInv, SeenInv
    <3>2. included' \subseteq DOMAIN text
      <4> HIDE DEF f
      <4> QED BY <1>1, <1>6 DEF ParserInv, SeenInv
    <3>3. disabled' \in BOOLEAN
      BY <1>1
    <3> QED BY <1>1, <1>7, <3>1, <3>2, <3>3 DEF ParserInv, SeenInv
  <2> QED BY <1>1, <1>2, <2>1, <2>3, PlainStep
<1> QED BY <1>8, <1>9

\* A file that is read to its end leaves nothing open for its includer.
LEMMA PopInputKeeps ==
  ASSUME ParserInv, PopInput
  PROVE  ParserInv'
<1>1. /\ inputs # <<>> /\ Exhausted /\ inputs' = Front(inputs) /\ UNCHANGED tree
      /\ conditions' = conditions /\ in_false' = in_false
      /\ once' = once /\ included' = included /\ disabled' = disabled
      /\ Remember(item[Top.file].guard) \/ guard_of' = guard_of
  BY DEF PopInput
<1>2. text' = text /\ item' = item /\ result' = result /\ todo' = todo
  BY <1>1 DEF tree
<1>3. text \in Texts /\ item = Items(text) /\ Stacked(text, item, inputs) /\ Len(inputs) <= DepthLimit
  BY DEF ParserInv, TreeInv, InputsInv
<1>4. /\ Stacked(text, item, Front(inputs)) /\ Len(Front(inputs)) = Len(inputs) - 1
      /\ Len(inputs) \in Nat \ {0}
      /\ Top \in InputSet(text) /\ Within(text, item, Top)
      /\ inputs = Append(Front(inputs), Top)
  BY <1>1, <1>3, StackFront DEF Top
<1>5. Weight(text, item, Top) = 0
  <2>1. Top.pos > Len(List(text, item, Top))
    BY <1>1 DEF Exhausted, Directives, List
  <2> QED BY <1>3, <1>4, <2>1, InputWeight
<1>6. SumOf(text, item, Front(inputs)) = SumOf(text, item, inputs)
  <2>1. /\ SumOf(text, item, Front(inputs)) \in Nat
        /\ SumOf(text, item, inputs) = SumOf(text, item, Front(inputs)) + Weight(text, item, Top)
    BY <1>3, <1>4, StackSum
  <2> QED BY <1>5, <2>1
<1>7. InputsInv'
  <2>1. DepthLimit \in Nat
    BY ParserAssumption
  <2> QED BY <1>1, <1>2, <1>3, <1>4, <2>1 DEF InputsInv
<1>8. DOMAIN guard_of' \subseteq DOMAIN text
  <2>1. Top.file \in DOMAIN text /\ DOMAIN guard_of \subseteq DOMAIN text
    BY <1>4 DEF InputSet, ParserInv, SeenInv
  <2>2. CASE Remember(item[Top.file].guard)
    <3>1. DOMAIN guard_of' = DOMAIN guard_of \cup {Top.file}
      BY <2>2 DEF Remember
    <3> QED BY <2>1, <3>1
  <2>3. CASE guard_of' = guard_of
    BY <2>1, <2>3
  <2> QED BY <1>1, <2>2, <2>3
<1>9. SeenInv'
  BY <1>1, <1>2, <1>8 DEF ParserInv, SeenInv
<1>10. TreeInv' /\ ConditionsInv'
  BY <1>1, <1>2 DEF ParserInv, TreeInv, ConditionsInv
<1>11. OpenInv'
  BY <1>1, <1>2, <1>6 DEF ParserInv, OpenInv, CurrentCondition
<1> QED BY <1>7, <1>9, <1>10, <1>11 DEF ParserInv

\* The next root starts where the last one ended, with nothing open.
LEMMA NextRootKeeps ==
  ASSUME ParserInv, NextRoot
  PROVE  ParserInv'
<1>1. /\ inputs = <<>> /\ text' = text /\ item' = item
      /\ conditions' = conditions /\ in_false' = in_false
      /\ UNCHANGED env /\ included' = included /\ disabled' = disabled
  BY DEF NextRoot
<1>2. once' = once /\ guard_of' = guard_of
  BY <1>1 DEF env
<1>3. CASE disabled \/ todo = <<>>
  <2>1. inputs' = inputs /\ todo' = todo /\ result' = IF disabled THEN "failed" ELSE "ok"
    BY <1>3 DEF NextRoot
  <2>2. SeenInv'
    BY <1>1, <1>2, <2>1 DEF ParserInv, SeenInv
  <2>3. TreeInv' /\ InputsInv' /\ ConditionsInv'
    BY <1>1, <2>1 DEF ParserInv, TreeInv, InputsInv, ConditionsInv
  <2>4. OpenInv'
    BY <1>1, <2>1 DEF ParserInv, OpenInv, CurrentCondition
  <2> QED BY <2>2, <2>3, <2>4 DEF ParserInv
<1>4. CASE ~(disabled \/ todo = <<>>)
  <2> DEFINE x == [file |-> Head(todo), index |-> Head(todo)[1], pos |-> 1, root |-> TRUE]
  <2>1. inputs' = <<x>> /\ todo' = Tail(todo) /\ result' = result /\ todo # <<>>
    BY <1>4 DEF NextRoot
  <2>2. text \in Texts /\ item = Items(text) /\ todo \in Seq(DOMAIN text)
    BY DEF ParserInv, TreeInv
  <2>3. Head(todo) \in DOMAIN text /\ Tail(todo) \in Seq(DOMAIN text)
    BY <2>1, <2>2, HeadTailProperties
  <2>4. Head(todo)[1] \in 0..NDirs
    BY <2>2, <2>3, TextsAssumption
  <2>5. x \in InputSet(text) /\ x.pos = 1
    BY <2>3, <2>4 DEF InputSet
  <2>6. inputs' = Append(<<>>, x)
    BY <2>1
  <2> HIDE DEF x
  <2>7. Within(text, item, x)
    <3>1. PICK S : IsNest(List(text, item, x), S, 0)
      BY <2>2, <2>5, ListNest
    <3>2. Len(List(text, item, x)) \in Nat
      BY <3>1, LenProperties DEF IsNest
    <3> QED BY <2>5, <3>2 DEF Within
  <2>8. Stacked(text, item, <<>>) /\ Len(<<>>) = 0
    BY DEF Stacked
  <2>9. Stacked(text, item, inputs') /\ Len(inputs') = 1
    <3> DEFINE none == <<>>
    <3> HIDE DEF none
    <3>1. Stacked(text, item, none) /\ Len(none) = 0 /\ inputs' = Append(none, x)
      BY <2>6, <2>8 DEF none
    <3>2. Stacked(text, item, Append(none, x)) /\ Len(Append(none, x)) = Len(none) + 1
      BY <2>5, <2>7, <3>1, StackAppend
    <3> QED BY <3>1, <3>2
  <2>10. SumOf(text, item, inputs') = SumOf(text, item, inputs)
    <3>1. Weight(text, item, x) = 0
      BY <2>2, <2>5, <2>7, InputWeight
    <3>2. SumOf(text, item, Append(<<>>, x)) = SumOf(text, item, <<>>) + Weight(text, item, x)
      BY <2>2, <2>5, <2>8, StackSum
    <3>3. SumOf(text, item, <<>>) = 0
      BY SumOfNone
    <3> QED BY <1>1, <2>6, <3>1, <3>2, <3>3
  <2>11. InputsInv'
    <3>1. 1 <= DepthLimit
      BY ParserAssumption
    <3> QED BY <1>1, <2>9, <3>1 DEF InputsInv
  <2>12. SeenInv'
    BY <1>1, <1>2, <2>1 DEF ParserInv, SeenInv
  <2>13. TreeInv' /\ ConditionsInv'
    BY <1>1, <2>1, <2>2, <2>3 DEF ParserInv, TreeInv, ConditionsInv
  <2>14. OpenInv'
    BY <1>1, <2>10 DEF ParserInv, OpenInv, CurrentCondition
  <2> QED BY <2>11, <2>12, <2>13, <2>14 DEF ParserInv
<1> QED BY <1>3, <1>4

-----------------------------------------------------------------------------
\* A parser that has read nothing.
LEMMA ParserInitInv ==
  ASSUME ParserInit(Texts)
  PROVE  ParserInv
<1>1. /\ text \in Texts /\ item = Items(text) /\ todo = Roots
      /\ inputs = <<>> /\ conditions = <<>> /\ in_false = 0
      /\ once = {} /\ guard_of = <<>> /\ included = ToSet(Front(Roots))
      /\ disabled = FALSE /\ result = "running"
  BY DEF ParserInit, Items
<1>2. /\ Roots # <<>> /\ Roots \in Seq(ToSet(Roots)) /\ ToSet(Roots) \subseteq DOMAIN text
  BY <1>1, ParserAssumption
<1>3. TreeInv
  <2>1. Roots \in Seq(DOMAIN text)
    <3> DEFINE R == ToSet(Roots)
    <3> HIDE DEF R
    <3>1. Roots \in Seq(R) /\ R \subseteq DOMAIN text
      BY <1>2 DEF R
    <3> QED BY <3>1
  <2> QED BY <1>1, <2>1 DEF TreeInv
<1>4. InputsInv
  <2>1. 0 <= DepthLimit
    BY ParserAssumption
  <2> QED BY <1>1, <2>1 DEF InputsInv, Stacked
<1>5. ConditionsInv
  BY <1>1 DEF ConditionsInv
<1>6. ToSet(Front(Roots)) \subseteq DOMAIN text
  <2>1. Front(Roots) \in Seq(ToSet(Roots))
    BY <1>2, FrontAndLast
  <2> DEFINE q == Front(Roots)
  <2> HIDE DEF q
  <2>2. \A n \in DOMAIN q : q[n] \in ToSet(Roots)
    <3>1. q \in Seq(ToSet(Roots))
      BY <2>1 DEF q
    <3> DEFINE R == ToSet(Roots)
    <3> HIDE DEF R
    <3>2. q \in Seq(R)
      BY <3>1 DEF R
    <3>3. \A n \in DOMAIN q : q[n] \in R
      BY <3>2
    <3> QED BY <3>3 DEF R
  <2>3. ToSet(q) \subseteq ToSet(Roots)
    <3> DEFINE R == ToSet(Roots)
    <3> HIDE DEF R
    <3>1. \A n \in DOMAIN q : q[n] \in R
      BY <2>2 DEF R
    <3>2. ToSet(q) \subseteq R
      BY <3>1 DEF ToSet
    <3> QED BY <3>2 DEF R
  <2> QED BY <1>2, <2>3 DEF q
<1>7. SeenInv
  <2>1. DOMAIN guard_of = {}
    BY <1>1
  <2> QED BY <1>1, <1>6, <2>1 DEF SeenInv
<1>8. OpenInv
  <2>1. SumOf(text, item, inputs) = 0
    BY <1>1, SumOfNone
  <2> QED BY <1>1, <2>1 DEF OpenInv
<1> QED BY <1>3, <1>4, <1>5, <1>7, <1>8 DEF ParserInv

\* What the invariant says is that the stacks match.
LEMMA ParserInvMatches ==
  ASSUME ParserInv
  PROVE  StacksMatch
<1>1. text \in Texts /\ item = Items(text) /\ Stacked(text, item, inputs)
  BY DEF ParserInv, TreeInv, InputsInv
<1>2. DOMAIN item = DOMAIN text
  BY <1>1 DEF Items
<1>3. ASSUME NEW in \in ToSet(inputs)
      PROVE  in.file \in DOMAIN text /\ in.index \in 0..NDirs
             /\ in.pos \in 1..(Len(Directives(in)) + 1)
  <2>1. PICK n \in 1..Len(inputs) : in = inputs[n]
    BY <1>1, LenProperties DEF ToSet, Stacked
  <2>2. in \in InputSet(text) /\ Within(text, item, in)
    BY <1>1, <2>1 DEF Stacked
  <2>3. Len(List(text, item, in)) \in Nat /\ in.pos \in Nat \ {0}
    BY <1>1, <2>2, InputWeight
  <2>4. List(text, item, in) = Directives(in)
    BY DEF List, Directives
  <2>5. in.pos \in 1..(Len(Directives(in)) + 1)
    BY <2>2, <2>3, <2>4 DEF Within
  <2>6. in.file \in DOMAIN text /\ in.index \in 0..NDirs
    BY <2>2 DEF InputSet
  <2> QED BY <2>5, <2>6
<1>4. ASSUME NEW c \in ToSet(conditions)  PROVE c.cond \in BOOLEAN /\ c.taken \in BOOLEAN
  <2>1. conditions \in Seq(ConditionSet)
    BY DEF ParserInv, ConditionsInv
  <2>2. PICK n \in 1..Len(conditions) : c = conditions[n]
    BY <2>1, LenProperties DEF ToSet
  <2>3. c \in ConditionSet
    BY <2>1, <2>2
  <2> QED BY <2>3 DEF ConditionSet
<1>5. ParserTypeOK
  BY <1>2, <1>3, <1>4 DEF ParserTypeOK, ParserInv, InputsInv, ConditionsInv, SeenInv
<1>6. OpenInInputs = SumOf(text, item, inputs)
  <2> DEFINE f == CHOOSE f : f = [n \in 0..Len(inputs) |-> IF n = 0 THEN 0
                    ELSE f[n - 1] + Open(IF inputs[n].root THEN text[inputs[n].file]
                                         ELSE item[inputs[n].file].directives, inputs[n].pos - 1)]
  <2>1. OpenInInputs = f[Len(inputs)]
    BY Zenon DEF OpenInInputs, Directives
  <2>2. SumOf(text, item, inputs) = f[Len(inputs)]
    BY Zenon DEF SumOf, List
  <2> HIDE DEF f
  <2> QED BY <2>1, <2>2
<1>7. NestingMatches
  BY <1>6 DEF NestingMatches, ParserInv, OpenInv
<1> QED BY <1>5, <1>7 DEF StacksMatch

\* The stacks of the parser match what it reads, for every tree of well nested files:
\* inputs no deeper than kIncludeFileDepthLimit and within their directives, and as many
\* conditions, entered or skipped, as #if without #endif in the files being read, though
\* Optimize() took some away.
THEOREM ParserStacksMatch == ParserSpec => []StacksMatch
<1>1. ParserInit(Texts) => ParserInv
  BY ParserInitInv
<1>2. ParserInv /\ [ParserNext]_parser_vars => ParserInv'
  <2> SUFFICES ASSUME ParserInv, [ParserNext]_parser_vars  PROVE ParserInv'
    OBVIOUS
  <2>1. CASE PopInput
    BY <2>1, PopInputKeeps
  <2>2. CASE ProcessInclude
    BY <2>2, ProcessIncludeKeeps
  <2>3. CASE ProcessDefine
    BY <2>3, ProcessDefineKeeps
  <2>4. CASE ProcessPragma
    BY <2>4, ProcessPragmaKeeps
  <2>5. CASE SkipDirective
    BY <2>5, SkipDirectiveKeeps
  <2>6. CASE ProcessIf
    BY <2>6, ProcessIfKeeps
  <2>7. CASE ProcessElse
    BY <2>7, ProcessElseKeeps
  <2>8. CASE ProcessElif
    BY <2>8, ProcessElifKeeps
  <2>9. CASE ProcessEndif
    BY <2>9, ProcessEndifKeeps
  <2>10. CASE NextRoot
    BY <2>10, NextRootKeeps
  <2>11. CASE UNCHANGED parser_vars
    BY <2>11 DEF parser_vars, tree, env, ParserInv, TreeInv, InputsInv, ConditionsInv,
                 SeenInv, OpenInv, CurrentCondition
  <2> QED BY <2>1, <2>2, <2>3, <2>4, <2>5, <2>6, <2>7, <2>8, <2>9, <2>10, <2>11
          DEF ParserNext
<1>3. ParserInv => StacksMatch
  BY ParserInvMatches
<1> QED BY <1>1, <1>2, <1>3, PTL DEF ParserSpec
=============================================================================

------------------------- MODULE CompileServiceProofs -------------------------
(***************************************************************************)
(* The compile service counts right, for any set of tasks and any limits:  *)
(* nobody waits for a slot or for the link queue without need, and every   *)
(* task is deleted with its last reference.                                *)
(*                                                                         *)
(* WaitingExact and RefCountExact are inductive together with Placed: the  *)
(* service's containers and the stages of the tasks tell the same story.   *)
(* CompileTaskDone needs it most.  A task that waits means that the service*)
(* is full, so that the end of one task admits exactly the first one that  *)
(* waits (DoneAdmits); that one has no share in the throttle's count, being*)
(* neither a fallback nor canceled; and the task that ends is not in       *)
(* long_tasks_ already, so that what it adds to its count is right.        *)
(***************************************************************************)
EXTENDS CompileService, TLAPS, FiniteSetTheorems, SequenceTheorems,
        FunctionTheorems

Admit == {"posted", "running", "queued", "loading", "refused"}
Early == {"new", "pending", "posted"}

\* The stages of the tasks and the containers of the service agree.
Placed ==
  /\ active = {t \in Tasks : stage[t] \in Admit}
  /\ ToSet(pending) = {t \in Tasks : stage[t] = "pending"}
  /\ IsInjective(pending)
  /\ \A t \in long_list : stage[t] \in {"done", "freed"}
  /\ \A t \in fail_fallback \cup canceled : stage[t] \notin Early
  /\ Len(finished_list) <= MaxFinished /\ Len(failed_list) <= MaxFailed

SInv == TypeOK /\ WaitingExact /\ RefCountExact /\ Placed

-----------------------------------------------------------------------------
\* The lesser of two numbers.
LEMMA MinOfTwo ==
  ASSUME NEW m \in Nat, NEW n \in Nat
  PROVE  Min({m, n}) = IF m <= n THEN m ELSE n
BY DEF Min

\* What is in a sequence is in its range.
LEMMA SeqParts ==
  ASSUME NEW S, NEW s \in Seq(S)
  PROVE  /\ Len(s) \in Nat /\ DOMAIN s = 1..Len(s)
         /\ ToSet(s) \subseteq S
         /\ s # <<>> => /\ Head(s) = s[1] /\ Head(s) \in S /\ Tail(s) \in Seq(S)
                        /\ Len(s) >= 1 /\ Len(Tail(s)) = Len(s) - 1
                        /\ \A k \in 1..Len(s) - 1 : Tail(s)[k] = s[k + 1]
BY EmptySeq, HeadTailProperties DEF ToSet

\* The range of a sequence and of its tail.
LEMMA TailRange ==
  ASSUME NEW S, NEW s \in Seq(S), s # <<>>, IsInjective(s)
  PROVE  /\ ToSet(Tail(s)) = ToSet(s) \ {Head(s)}
         /\ Head(s) \in ToSet(s)
         /\ IsInjective(Tail(s))
<1>1. /\ Len(s) \in Nat /\ DOMAIN s = 1..Len(s) /\ Tail(s) \in Seq(S)
      /\ Head(s) = s[1] /\ Len(s) >= 1 /\ Len(Tail(s)) = Len(s) - 1
      /\ \A k \in 1..Len(s) - 1 : Tail(s)[k] = s[k + 1]
  BY SeqParts
<1>2. DOMAIN Tail(s) = 1..Len(s) - 1
  BY <1>1, SeqParts
<1>3. IsInjective(Tail(s))
  BY <1>1, <1>2 DEF IsInjective
<1>4. ASSUME NEW x \in ToSet(Tail(s))  PROVE x \in ToSet(s) \ {Head(s)}
  <2>1. PICK k \in 1..Len(s) - 1 : x = s[k + 1]
    BY <1>1, <1>2 DEF ToSet
  <2>2. k + 1 \in 1..Len(s) /\ 1 \in 1..Len(s) /\ k + 1 # 1
    BY <1>1
  <2> QED BY <1>1, <2>1, <2>2 DEF ToSet, IsInjective
<1>5. ASSUME NEW x \in ToSet(s) \ {Head(s)}  PROVE x \in ToSet(Tail(s))
  <2>1. PICK k \in 1..Len(s) : x = s[k]
    BY <1>1 DEF ToSet
  <2>2. k - 1 \in 1..Len(s) - 1 /\ Tail(s)[k - 1] = x
    BY <1>1, <2>1
  <2> QED BY <1>2, <2>2 DEF ToSet
<1>6. Head(s) \in ToSet(s)
  BY <1>1 DEF ToSet
<1> QED BY <1>3, <1>4, <1>5, <1>6

\* The range of a sequence after Append.
LEMMA AppendRange ==
  ASSUME NEW S, NEW s \in Seq(S), NEW x \in S
  PROVE  /\ Append(s, x) \in Seq(S) /\ Append(s, x) # <<>>
         /\ ToSet(Append(s, x)) = ToSet(s) \cup {x}
         /\ IsInjective(s) /\ x \notin ToSet(s) => IsInjective(Append(s, x))
         /\ s = <<>> => Head(Append(s, x)) = x /\ ToSet(Tail(Append(s, x))) = {}
         /\ s # <<>> => /\ Head(Append(s, x)) = Head(s)
                        /\ ToSet(Tail(Append(s, x))) = ToSet(Tail(s)) \cup {x}
<1> DEFINE a == Append(s, x)
<1>1. /\ a \in Seq(S) /\ Len(a) = Len(s) + 1 /\ Len(s) \in Nat /\ a # <<>>
      /\ \A k \in 1..Len(s) : a[k] = s[k]
      /\ a[Len(s) + 1] = x
      /\ DOMAIN a = 1..Len(s) + 1 /\ DOMAIN s = 1..Len(s)
  BY AppendProperties, SeqParts
<1> HIDE DEF a
<1>2. ToSet(a) = ToSet(s) \cup {x}
  BY <1>1 DEF ToSet
<1>3. IsInjective(s) /\ x \notin ToSet(s) => IsInjective(a)
  BY <1>1 DEF IsInjective, ToSet
<1>4. /\ Head(a) = a[1] /\ Tail(a) \in Seq(S) /\ DOMAIN Tail(a) = 1..Len(s)
      /\ \A k \in 1..Len(s) : Tail(a)[k] = a[k + 1]
  <2>1. /\ Head(a) = a[1] /\ Tail(a) \in Seq(S) /\ Len(Tail(a)) = Len(a) - 1
        /\ \A k \in 1..Len(a) - 1 : Tail(a)[k] = a[k + 1]
    BY <1>1, SeqParts
  <2> QED BY <1>1, <2>1, SeqParts
<1>5. s = <<>> => Head(a) = x /\ ToSet(Tail(a)) = {}
  <2> SUFFICES ASSUME s = <<>>  PROVE Head(a) = x /\ ToSet(Tail(a)) = {}
    OBVIOUS
  <2>1. Len(s) = 0
    OBVIOUS
  <2>2. a[1] = x
    BY <1>1, <2>1
  <2>3. 1..0 = {}
    OBVIOUS
  <2> QED BY <1>4, <2>1, <2>2, <2>3 DEF ToSet
<1>6. ASSUME s # <<>>
      PROVE  Head(a) = Head(s) /\ ToSet(Tail(a)) = ToSet(Tail(s)) \cup {x}
  <2>1. /\ Head(s) = s[1] /\ Len(s) >= 1 /\ DOMAIN Tail(s) = 1..Len(s) - 1
        /\ \A k \in 1..Len(s) - 1 : Tail(s)[k] = s[k + 1]
    BY <1>6, SeqParts
  <2>2. /\ \A k \in 1..Len(s) - 1 : Tail(a)[k] = Tail(s)[k]
        /\ Tail(a)[Len(s)] = x
    BY <1>1, <1>4, <2>1
  <2>3. DOMAIN Tail(a) = DOMAIN Tail(s) \cup {Len(s)}
    BY <1>1, <1>4, <2>1
  <2>4. Head(a) = Head(s)
    BY <1>1, <1>4, <2>1
  <2>5. ToSet(Tail(a)) = ToSet(Tail(s)) \cup {x}
    BY <2>1, <2>2, <2>3 DEF ToSet
  <2> QED BY <2>4, <2>5
<1> QED BY <1>1, <1>2, <1>3, <1>5, <1>6 DEF a

-----------------------------------------------------------------------------
(***************************************************************************)
(* References.                                                             *)
(***************************************************************************)
\* A list refers to a task a number of times, and at all only if it is there.
LEMMA RefsNat ==
  ASSUME NEW S, NEW s \in Seq(S), NEW t
  PROVE  /\ Refs(s, t) \in Nat
         /\ t \in ToSet(s) => Refs(s, t) > 0
         /\ IsFiniteSet({k \in DOMAIN s : s[k] = t})
<1> DEFINE R == {k \in DOMAIN s : s[k] = t}
<1>1. IsFiniteSet(1..Len(s)) /\ DOMAIN s = 1..Len(s)
  BY FS_Interval, SeqParts
<1>2. IsFiniteSet(R) /\ Cardinality(R) \in Nat
  BY <1>1, FS_Subset, FS_CardinalityType
<1>3. t \in ToSet(s) => R # {}
  BY DEF ToSet
<1>4. R # {} => Cardinality(R) > 0
  <2>1. Cardinality(R) = 0 <=> R = {}
    BY <1>2, FS_EmptySet
  <2> HIDE DEF R
  <2> QED BY <1>2, <2>1
<1> QED BY <1>2, <1>3, <1>4 DEF Refs

\* The references of two lists together.
LEMMA RefsConcat ==
  ASSUME NEW S, NEW u \in Seq(S), NEW v \in Seq(S), NEW t
  PROVE  Refs(u \o v, t) = Refs(u, t) + Refs(v, t)
<1> DEFINE U == {k \in DOMAIN u : u[k] = t}
           V == {k \in DOMAIN v : v[k] = t}
           W == {k \in DOMAIN (u \o v) : (u \o v)[k] = t}
           m == Len(u)
           n == Len(v)
           X == {k \in m+1..m+n : v[k - m] = t}
<1>1. /\ m \in Nat /\ n \in Nat /\ DOMAIN u = 1..m /\ DOMAIN v = 1..n
      /\ DOMAIN (u \o v) = 1..m+n
      /\ \A k \in 1..m : (u \o v)[k] = u[k]
      /\ \A k \in m+1..m+n : (u \o v)[k] = v[k - m]
  BY ConcatProperties, SeqParts
<1>2. W = U \cup X /\ U \cap X = {}
  BY <1>1
<1>3. IsFiniteSet(U) /\ IsFiniteSet(V)
  BY RefsNat
<1>4. IsFiniteSet(X) /\ Cardinality(X) = Cardinality(V)
  <2> DEFINE f == [k \in V |-> k + m]
  <2>1. f \in [V -> X]
    BY <1>1
  <2>2. \A k, l \in V : f[k] = f[l] => k = l
    BY <1>1
  <2>3. \A k \in X : k - m \in V /\ f[k - m] = k
    BY <1>1
  <2> HIDE DEF f, V, X
  <2>4. f \in Bijection(V, X)
    BY <2>1, <2>2, <2>3, Fun_IsBij
  <2>5. ExistsBijection(V, X)
    BY <2>4 DEF ExistsBijection
  <2> QED BY <1>3, <2>5, FS_Bijection
<1>5. Cardinality(U \cup X) = Cardinality(U) + Cardinality(X)
                              - Cardinality(U \cap X)
  BY <1>3, <1>4, FS_Union
<1>6. Cardinality(U \cap X) = 0
  BY <1>2, FS_EmptySet
<1>7. Cardinality(U) \in Nat /\ Cardinality(V) \in Nat
  BY <1>3, FS_CardinalityType
<1> HIDE DEF U, V, W, X
<1>8. Cardinality(W) = Cardinality(U) + Cardinality(V)
  BY <1>2, <1>4, <1>5, <1>6, <1>7
<1> QED BY <1>8 DEF Refs, U, V, W

\* A list of one task, and of none.
LEMMA RefsOfOne ==
  ASSUME NEW x, NEW t
  PROVE  Refs(<<x>>, t) = IF x = t THEN 1 ELSE 0
<1>1. DOMAIN <<x>> = {1} /\ <<x>>[1] = x
  OBVIOUS
<1>2. {k \in DOMAIN <<x>> : <<x>>[k] = t} = IF x = t THEN {1} ELSE {}
  BY <1>1
<1> QED BY <1>2, FS_Singleton, FS_EmptySet DEF Refs

\* The empty list refers to nobody.
LEMMA RefsOfNone ==
  ASSUME NEW t
  PROVE  Refs(<<>>, t) = 0
<1>1. {k \in DOMAIN <<>> : <<>>[k] = t} = {}
  OBVIOUS
<1> QED BY <1>1, FS_EmptySet DEF Refs

\* A list is cut to its limit by one reference, which is handed on to Deref.
LEMMA KeptAndDropped ==
  ASSUME NEW S, NEW list \in Seq(S), NEW t \in S, NEW max \in Nat,
         Len(list) <= max
  PROVE  /\ Kept(list, t, max) \in Seq(S) /\ Len(Kept(list, t, max)) <= max
         /\ Dropped(list, t, max) \in Seq(S)
         /\ \A x : Refs(Kept(list, t, max), x) + Refs(Dropped(list, t, max), x)
                     = Refs(list, x) + (IF x = t THEN 1 ELSE 0)
<1> DEFINE all == <<t>> \o list
           n == Len(list)
<1>1. /\ all \in Seq(S) /\ Len(all) = n + 1 /\ n \in Nat
      /\ <<t>> \in Seq(S)
  BY ConcatProperties, SeqParts
<1>2. \A x : Refs(all, x) = Refs(list, x) + (IF x = t THEN 1 ELSE 0)
  <2> TAKE x
  <2>1. Refs(all, x) = Refs(<<t>>, x) + Refs(list, x)
    BY <1>1, RefsConcat
  <2>2. Refs(<<t>>, x) = (IF x = t THEN 1 ELSE 0) /\ Refs(list, x) \in Nat
    BY RefsOfOne, RefsNat
  <2> HIDE DEF all
  <2> QED BY <2>1, <2>2
<1> HIDE DEF all
<1>3. CASE n + 1 <= max
  <2>1. Min({max, n + 1}) = n + 1
    BY <1>1, <1>3, MinOfTwo
  <2>2. SubSeq(all, 1, n + 1) = all
    BY <1>1, SubSeqFull
  <2>3. Kept(list, t, max) = all /\ Dropped(list, t, max) = <<>>
    <3>1. Kept(list, t, max) = SubSeq(all, 1, n + 1)
      BY <2>1, Zenon DEF Kept, all
    <3>2. ~(n + 1 > max)
      BY <1>1, <1>3
    <3>3. Dropped(list, t, max) = <<>>
      BY <3>2, Zenon DEF Dropped
    <3> QED BY <2>2, <3>1, <3>3
  <2>4. \A x : Refs(all, x) \in Nat /\ Refs(<<>>, x) = 0
    BY <1>1, RefsNat, RefsOfNone
  <2> QED BY <1>1, <1>2, <1>3, <2>3, <2>4
<1>4. CASE ~(n + 1 <= max)
  <2>1. max = n
    BY <1>1, <1>4
  <2>2. Min({max, n + 1}) = n
    BY <1>1, <2>1, MinOfTwo
  <2> DEFINE k == SubSeq(all, 1, n)
             d == <<all[n + 1]>>
  <2>3. Kept(list, t, max) = k /\ Dropped(list, t, max) = d
    <3>1. Kept(list, t, max) = k
      BY <2>2, Zenon DEF Kept, all
    <3>2. n + 1 > max
      BY <1>1, <1>4
    <3>3. Dropped(list, t, max) = <<Last(all)>>
      BY <3>2, Zenon DEF Dropped, all
    <3> QED BY <1>1, <3>1, <3>3 DEF Last
  <2>4. k \in Seq(S) /\ Len(k) = n
    BY <1>1, SubSeqProperties
  <2>5. d \in Seq(S)
    BY <1>1, ElementOfSeq
  <2>6. k \o d = all
    <3>1. 1 \in 1..Len(all) /\ n + 1 \in 1..Len(all)
      BY <1>1
    <3>2. SubSeq(all, 1, n + 1) = SubSeq(all, 1, (n + 1) - 1) \o <<all[n + 1]>>
      BY <1>1, <3>1, SubSeqRecursiveSecond, Zenon
    <3>3. (n + 1) - 1 = n
      BY <1>1
    <3> QED BY <1>1, <3>2, <3>3, SubSeqFull
  <2> HIDE DEF k, d
  <2>7. \A x : Refs(k \o d, x) = Refs(k, x) + Refs(d, x)
    BY <2>4, <2>5, RefsConcat
  <2> QED BY <1>1, <1>2, <2>1, <2>3, <2>4, <2>5, <2>6, <2>7
<1> QED BY <1>3, <1>4

\* The first reference of a list is let go.
LEMMA RefsOfTail ==
  ASSUME NEW S, NEW s \in Seq(S), s # <<>>, NEW t
  PROVE  Refs(s, t) = (IF t = Head(s) THEN 1 ELSE 0) + Refs(Tail(s), t)
<1>1. /\ Head(s) \in S /\ Tail(s) \in Seq(S) /\ s = <<Head(s)>> \o Tail(s)
      /\ <<Head(s)>> \in Seq(S)
  BY HeadTailProperties, SeqParts
<1>2. Refs(<<Head(s)>> \o Tail(s), t) = Refs(<<Head(s)>>, t) + Refs(Tail(s), t)
  BY <1>1, RefsConcat
<1> QED BY <1>1, <1>2, RefsOfOne

\* A reference is added at the end.
LEMMA RefsOfAppend ==
  ASSUME NEW S, NEW s \in Seq(S), NEW x \in S, NEW t
  PROVE  Refs(Append(s, x), t) = Refs(s, t) + (IF t = x THEN 1 ELSE 0)
<1>1. Append(s, x) = s \o <<x>> /\ <<x>> \in Seq(S)
  OBVIOUS
<1>2. Refs(s \o <<x>>, t) = Refs(s, t) + Refs(<<x>>, t)
  BY <1>1, RefsConcat
<1> QED BY <1>1, <1>2, RefsOfOne

-----------------------------------------------------------------------------
(***************************************************************************)
(* The steps.                                                              *)
(***************************************************************************)
\* What the end of a task admits: nobody, or the first that waits.
AdmitsNone(t) ==
  /\ pending = <<>> /\ pending' = <<>>
  /\ active' = active \ {t}
  /\ stage' = [stage EXCEPT ![t] = "done"]

AdmitsOne(t, h) ==
  /\ pending # <<>> /\ h = Head(pending) /\ pending' = Tail(pending)
  /\ h \in Tasks /\ stage[h] = "pending"
  /\ active' = (active \ {t}) \cup {h}
  /\ stage' = [stage EXCEPT ![t] = "done", ![h] = "posted"]

\* Sets of tasks are finite.
LEMMA TaskSets ==
  ASSUME NEW T \in SUBSET Tasks
  PROVE  IsFiniteSet(T) /\ Cardinality(T) \in Nat
BY TasksAssumption, FS_Subset, FS_CardinalityType

\* CompileTaskDone admits nobody or the first task that waits, as the service is
\* full whenever one waits.
LEMMA DoneAdmits ==
  ASSUME SInv, NEW t \in Tasks, CompileTaskDone(t)
  PROVE  AdmitsNone(t) \/ \E h \in Tasks : AdmitsOne(t, h)
<1> DEFINE others == active \ {t}
           room == MaxActive - Cardinality(others)
           start == Admitted(room)
<1>1. /\ active' = others \cup ToSet(start)
      /\ pending' = SubSeq(pending, Len(start) + 1, Len(pending))
      /\ stage' = [s \in Tasks |-> IF s = t THEN "done"
                                   ELSE IF s \in ToSet(start) THEN "posted"
                                   ELSE stage[s]]
      /\ stage[t] \in {"running", "refused"}
  BY DEF CompileTaskDone, Running
<1>2. /\ pending \in Seq(Tasks) /\ Len(pending) \in Nat
      /\ stage \in [Tasks -> Stages] /\ active \in SUBSET Tasks
      /\ DOMAIN pending = 1..Len(pending)
  BY SeqParts DEF SInv, TypeOK
<1>3. t \in active /\ Cardinality(active) \in Nat /\ MaxActive \in Nat
      /\ Cardinality(active) <= MaxActive
  BY <1>1, TaskSets, LimitsAssumption
  DEF SInv, Placed, Admit, TypeOK, WaitingExact, AdmissionExact
<1>4. Cardinality(others) = Cardinality(active) - 1
  BY <1>2, <1>3, TaskSets, FS_RemoveElement
<1>5. room \in Nat
  BY <1>3, <1>4
<1>6. CASE pending = <<>>
  <2>1. Len(pending) = 0
    BY <1>6
  <2>2. Min({room, Len(pending)}) = 0
    <3> HIDE DEF room
    <3>1. Min({room, 0}) = IF room <= 0 THEN room ELSE 0
      BY <1>5, MinOfTwo
    <3> QED BY <1>5, <2>1, <3>1
  <2>3. start = SubSeq(pending, 1, 0)
    BY <2>2, Zenon DEF Admitted
  <2>4. SubSeq(pending, 1, 0) = <<>>
    BY SubSeqEmpty
  <2>5. start = <<>> /\ Len(start) = 0 /\ ToSet(start) = {}
    <3>1. ToSet(<<>>) = {} /\ Len(<<>>) = 0
      BY DEF ToSet
    <3> QED BY <2>3, <2>4, <3>1
  <2>6. pending' = <<>>
    <3>1. pending' = SubSeq(pending, 1, 0)
      BY <1>1, <2>1, <2>5
    <3> QED BY <2>4, <3>1
  <2> HIDE DEF start
  <2>7. stage' = [stage EXCEPT ![t] = "done"]
    BY <1>1, <1>2, <2>5
  <2>8. AdmitsNone(t)
    BY <1>1, <1>6, <2>5, <2>6, <2>7 DEF AdmitsNone
  <2> QED BY <2>8
<1>7. CASE pending # <<>>
  <2>1. Len(pending) >= 1 /\ Head(pending) = pending[1] /\ Head(pending) \in Tasks
    BY <1>2, <1>7, SeqParts
  <2>2. room = 1
    <3>1. Cardinality(active) = MaxActive
      BY <1>7 DEF SInv, WaitingExact, AdmissionExact
    <3> QED BY <1>3, <1>4, <3>1
  <2>3. Min({room, Len(pending)}) = 1
    BY <1>2, <2>1, <2>2, MinOfTwo
  <2>4. start = SubSeq(pending, 1, 1)
    BY <2>3, Zenon DEF Admitted
  <2> HIDE DEF start
  <2>5. /\ start \in Seq(Tasks) /\ Len(start) = 1 /\ start[1] = pending[1]
    <3>1. \A i \in 1..1 : pending[i] \in Tasks
      BY <1>2, <2>1
    <3> QED BY <2>4, <3>1, SubSeqProperties
  <2>6. ToSet(start) = {Head(pending)}
    BY <2>1, <2>5 DEF ToSet
  <2>7. pending' = Tail(pending)
    <3>1. pending' = SubSeq(pending, 2, Len(pending))
      BY <1>1, <2>5
    <3> QED BY <1>2, <1>7, <3>1, TailIsSubSeq
  <2>8. stage[Head(pending)] = "pending"
    <3>1. Head(pending) \in ToSet(pending)
      BY <1>2, <2>1 DEF ToSet
    <3> QED BY <3>1 DEF SInv, Placed
  <2>9. stage' = [stage EXCEPT ![t] = "done", ![Head(pending)] = "posted"]
    BY <1>1, <1>2, <2>1, <2>6, <2>8
  <2>10. AdmitsOne(t, Head(pending))
    BY <1>1, <1>7, <2>1, <2>6, <2>7, <2>8, <2>9 DEF AdmitsOne
  <2> QED BY <2>1, <2>10
<1> QED BY <1>6, <1>7

\* The references the service holds to a task that is not active or pending.
InLong(t) == IF t \in long_list THEN 1 ELSE 0
Lists(t) == Refs(finished_list, t) + Refs(failed_list, t) + InLong(t)
            + Refs(derefs, t) + Refs(dumps, t)
Held(t) == IF stage[t] \in {"new", "done", "freed"} THEN 0 ELSE 1

\* The references are numbers, and there is one where a list names the task.
LEMMA ListsNat ==
  ASSUME TypeOK, NEW t \in Tasks
  PROVE  /\ Refs(finished_list, t) \in Nat /\ Refs(failed_list, t) \in Nat
         /\ InLong(t) \in Nat /\ Refs(derefs, t) \in Nat
         /\ Refs(dumps, t) \in Nat /\ Lists(t) \in Nat
         /\ t \in Listed => Lists(t) > 0
         /\ derefs # <<>> /\ t = Head(derefs) => Lists(t) > 0
         /\ dumps # <<>> /\ t = Head(dumps) => Lists(t) > 0
<1>1. /\ finished_list \in Seq(Tasks) /\ failed_list \in Seq(Tasks)
      /\ derefs \in Seq(Tasks) /\ dumps \in Seq(Tasks)
  BY DEF TypeOK
<1>2. /\ Refs(finished_list, t) \in Nat /\ Refs(failed_list, t) \in Nat
      /\ InLong(t) \in Nat /\ Refs(derefs, t) \in Nat /\ Refs(dumps, t) \in Nat
      /\ t \in ToSet(finished_list) => Refs(finished_list, t) > 0
      /\ t \in ToSet(failed_list) => Refs(failed_list, t) > 0
      /\ t \in ToSet(derefs) => Refs(derefs, t) > 0
      /\ t \in ToSet(dumps) => Refs(dumps, t) > 0
      /\ t \in long_list => InLong(t) > 0
  <2>1. \A s \in Seq(Tasks) : /\ Refs(s, t) \in Nat
                              /\ t \in ToSet(s) => Refs(s, t) > 0
    BY RefsNat
  <2>2. InLong(t) \in Nat /\ (t \in long_list => InLong(t) > 0)
    BY DEF InLong
  <2> QED BY <1>1, <2>1, <2>2, Zenon
<1>3. /\ derefs # <<>> => Head(derefs) \in ToSet(derefs)
      /\ dumps # <<>> => Head(dumps) \in ToSet(dumps)
  <2>1. \A s \in Seq(Tasks) : s # <<>> => Head(s) \in ToSet(s)
    BY SeqParts DEF ToSet
  <2> QED BY <1>1, <2>1
<1> QED BY <1>2, <1>3 DEF Lists, Listed

\* The count in terms of Lists.
LEMMA CountOfLists ==
  TypeOK => (RefCountExact <=>
               \A t \in Tasks : /\ refcnt[t] = Lists(t) + Held(t)
                                /\ refcnt[t] = 0 <=> stage[t] \in {"new", "freed"})
<1> SUFFICES ASSUME TypeOK, NEW t \in Tasks
             PROVE  Lists(t) + Held(t)
                      = Refs(finished_list, t) + Refs(failed_list, t)
                        + (IF t \in long_list THEN 1 ELSE 0)
                        + (IF stage[t] \in {"new", "done", "freed"} THEN 0 ELSE 1)
                        + Refs(derefs, t) + Refs(dumps, t)
  BY DEF RefCountExact
<1>1. /\ Refs(finished_list, t) \in Nat /\ Refs(failed_list, t) \in Nat
      /\ InLong(t) \in Nat /\ Refs(derefs, t) \in Nat /\ Refs(dumps, t) \in Nat
      /\ Held(t) \in Nat
  BY ListsNat DEF Held
<1> QED BY <1>1 DEF Lists, Held, InLong

\* The same after a step.
LEMMA CountOfListsNext ==
  ASSUME TypeOK',
         \A t \in Tasks : /\ refcnt'[t] = Lists(t)' + Held(t)'
                          /\ refcnt'[t] = 0 <=> stage'[t] \in {"new", "freed"}
  PROVE  RefCountExact'
<1>1. (TypeOK => (RefCountExact <=>
          \A t \in Tasks : /\ refcnt[t] = Lists(t) + Held(t)
                           /\ refcnt[t] = 0 <=> stage[t] \in {"new", "freed"}))'
  BY CountOfLists, PTL
<1> QED BY <1>1

\* What the end of a task does to long_tasks_.
LEMMA LongRefs ==
  ASSUME NEW t \in Tasks, t \notin long_list, long_list \subseteq Tasks,
         NEW long \in LongTasks(t)
  PROVE  /\ long.keep \subseteq long_list \cup {t} /\ long.drop \in Seq(Tasks)
         /\ \A x \in Tasks :
              (IF x \in long.keep THEN 1 ELSE 0) + Refs(long.drop, x)
                = InLong(x) + (IF x = t /\ long.keep # long_list THEN 1 ELSE 0)
<1>1. CASE long = [keep |-> long_list \cup {t}, drop |-> <<>>]
  <2>1. long.keep = long_list \cup {t} /\ long.drop = <<>>
    BY <1>1
  <2> QED BY <2>1, RefsOfNone DEF InLong
<1>2. CASE long = [keep |-> long_list, drop |-> <<>>]
  <2>1. long.keep = long_list /\ long.drop = <<>>
    BY <1>2
  <2> QED BY <2>1, RefsOfNone DEF InLong
<1>3. ASSUME NEW y \in long_list,
             long = [keep |-> (long_list \ {y}) \cup {t}, drop |-> <<y>>]
      PROVE  /\ long.keep \subseteq long_list \cup {t} /\ long.drop \in Seq(Tasks)
             /\ \A x \in Tasks :
                  (IF x \in long.keep THEN 1 ELSE 0) + Refs(long.drop, x)
                    = InLong(x) + (IF x = t /\ long.keep # long_list THEN 1 ELSE 0)
  <2>1. long.keep = (long_list \ {y}) \cup {t} /\ long.drop = <<y>>
    BY <1>3
  <2>2. \A x : Refs(long.drop, x) = IF y = x THEN 1 ELSE 0
    BY <2>1, RefsOfOne
  <2> QED BY <2>1, <2>2 DEF InLong
<1> QED BY <1>1, <1>2, <1>3 DEF LongTasks

\* What falls off the lists is found in deref_tasks.
LEMMA TransferOfRefs ==
  ASSUME NEW f \in Nat, NEW g \in Nat, NEW h \in Nat, NEW e \in Nat, NEW u \in Nat,
         NEW f2 \in Nat, NEW g2 \in Nat, NEW h2 \in Nat, NEW e2 \in Nat,
         NEW i \in Nat, NEW j \in Nat, NEW k \in Nat, NEW c \in Nat, NEW l \in Nat,
         f2 + i = f + 1, g2 + j = g + c, h2 + k = h + l, e2 = e + i + j + k
  PROVE  f2 + g2 + h2 + e2 + u = (f + g + h + e + u) + ((c + l) + 1)
OBVIOUS

\* The end of a task: its own reference goes to finished_tasks_, and each other
\* list that takes it has one of its own.
LEMMA DoneRefs ==
  ASSUME SInv, NEW t \in Tasks, CompileTaskDone(t)
  PROVE  /\ finished_list' \in Seq(Tasks) /\ Len(finished_list') <= MaxFinished
         /\ failed_list' \in Seq(Tasks) /\ Len(failed_list') <= MaxFailed
         /\ derefs' \in Seq(Tasks) /\ dumps' = dumps
         /\ long_list' \subseteq long_list \cup {t}
         /\ \E r \in Nat :
              /\ refcnt' = [refcnt EXCEPT ![t] = @ + r]
              /\ \A x \in Tasks :
                   Lists(x)' = Lists(x) + (IF x = t THEN r + 1 ELSE 0)
<1>1. /\ TypeOK /\ t \notin long_list /\ long_list \subseteq Tasks
      /\ finished_list \in Seq(Tasks) /\ Len(finished_list) <= MaxFinished
      /\ failed_list \in Seq(Tasks) /\ Len(failed_list) <= MaxFailed
      /\ derefs \in Seq(Tasks) /\ MaxFinished \in Nat /\ MaxFailed \in Nat
  BY LimitsAssumption DEF SInv, TypeOK, Placed, CompileTaskDone, Running
<1>2. PICK failed \in BOOLEAN, long \in LongTasks(t) :
        LET counted == (failed \/ t \in fail_fallback) /\ t \notin canceled
            refs == (IF counted THEN 1 ELSE 0)
                    + (IF long.keep # long_list THEN 1 ELSE 0)
        IN  /\ failed_list' = IF counted THEN Kept(failed_list, t, MaxFailed)
                                         ELSE failed_list
            /\ long_list' = long.keep
            /\ refcnt' = [refcnt EXCEPT ![t] = @ + refs]
            /\ derefs' = derefs
                 \o Dropped(finished_list, t, MaxFinished)
                 \o (IF counted THEN Dropped(failed_list, t, MaxFailed)
                                ELSE <<>>)
                 \o long.drop
  BY DEF CompileTaskDone
<1> DEFINE counted == (failed \/ t \in fail_fallback) /\ t \notin canceled
           c == IF counted THEN 1 ELSE 0
           l == IF long.keep # long_list THEN 1 ELSE 0
           d1 == Dropped(finished_list, t, MaxFinished)
           d2 == IF counted THEN Dropped(failed_list, t, MaxFailed) ELSE <<>>
           d3 == long.drop
<1>3. /\ refcnt' = [refcnt EXCEPT ![t] = @ + (c + l)] /\ long_list' = long.keep
      /\ derefs' = ((derefs \o d1) \o d2) \o d3
      /\ dumps' = dumps
  BY <1>2 DEF CompileTaskDone
<1>4. /\ finished_list' \in Seq(Tasks) /\ Len(finished_list') <= MaxFinished
      /\ d1 \in Seq(Tasks)
      /\ \A x : Refs(finished_list', x) + Refs(d1, x)
                  = Refs(finished_list, x) + (IF x = t THEN 1 ELSE 0)
  <2>1. finished_list' = Kept(finished_list, t, MaxFinished)
    BY DEF CompileTaskDone
  <2> QED BY <1>1, <2>1, KeptAndDropped
<1>5. /\ failed_list' \in Seq(Tasks) /\ Len(failed_list') <= MaxFailed
      /\ d2 \in Seq(Tasks) /\ c \in Nat
      /\ \A x : Refs(failed_list', x) + Refs(d2, x)
                  = Refs(failed_list, x) + (IF x = t THEN c ELSE 0)
  <2>1. CASE counted
    <3>1. /\ failed_list' = Kept(failed_list, t, MaxFailed) /\ c = 1
          /\ d2 = Dropped(failed_list, t, MaxFailed)
      BY <1>2, <2>1
    <3> HIDE DEF counted, c, d2
    <3> QED BY <1>1, <3>1, KeptAndDropped
  <2>2. CASE ~counted
    <3>1. failed_list' = failed_list /\ d2 = <<>> /\ c = 0
      BY <1>2, <2>2
    <3> HIDE DEF counted, c, d2
    <3>2. \A x : Refs(failed_list, x) \in Nat
      BY <1>1, RefsNat
    <3> QED BY <1>1, <3>1, <3>2, RefsOfNone
  <2> QED BY <2>1, <2>2
<1>6. /\ long_list' \subseteq long_list \cup {t} /\ d3 \in Seq(Tasks)
      /\ l \in Nat
      /\ \A x \in Tasks : InLong(x)' + Refs(d3, x)
                            = InLong(x) + (IF x = t THEN l ELSE 0)
  BY <1>1, <1>2, <1>3, LongRefs DEF InLong
<1> HIDE DEF counted, c, l, d1, d2, d3
<1>7. /\ derefs' \in Seq(Tasks)
      /\ \A x : Refs(derefs', x)
                  = Refs(derefs, x) + Refs(d1, x) + Refs(d2, x) + Refs(d3, x)
  <2> DEFINE e == derefs \o d1
             f == e \o d2
  <2>1. e \in Seq(Tasks) /\ \A x : Refs(e, x) = Refs(derefs, x) + Refs(d1, x)
    BY <1>1, <1>4, RefsConcat, ConcatProperties
  <2> HIDE DEF e
  <2>2. f \in Seq(Tasks) /\ \A x : Refs(f, x) = Refs(e, x) + Refs(d2, x)
    BY <1>5, <2>1, RefsConcat, ConcatProperties
  <2> HIDE DEF f
  <2>3. derefs' = f \o d3
    BY <1>3 DEF e, f
  <2>4. /\ derefs' \in Seq(Tasks)
        /\ \A x : Refs(derefs', x) = Refs(f, x) + Refs(d3, x)
    BY <1>6, <2>2, <2>3, RefsConcat, ConcatProperties
  <2> QED BY <2>1, <2>2, <2>4
<1>8. ASSUME NEW x \in Tasks
      PROVE  Lists(x)' = Lists(x) + (IF x = t THEN (c + l) + 1 ELSE 0)
  <2>1. /\ Refs(finished_list, x) \in Nat /\ Refs(finished_list', x) \in Nat
        /\ Refs(failed_list, x) \in Nat /\ Refs(failed_list', x) \in Nat
        /\ Refs(derefs, x) \in Nat /\ Refs(derefs', x) \in Nat
        /\ Refs(dumps, x) \in Nat /\ Refs(d1, x) \in Nat
        /\ Refs(d2, x) \in Nat /\ Refs(d3, x) \in Nat
        /\ InLong(x) \in Nat /\ InLong(x)' \in Nat /\ dumps' = dumps
    <3>1. \A s \in Seq(Tasks) : Refs(s, x) \in Nat
      BY RefsNat
    <3>2. dumps \in Seq(Tasks)
      BY DEF SInv, TypeOK
    <3>3. InLong(x) \in Nat /\ InLong(x)' \in Nat
      BY DEF InLong
    <3> QED BY <1>1, <1>3, <1>4, <1>5, <1>6, <1>7, <3>1, <3>2, <3>3
  <2>2. Lists(x)' = Refs(finished_list', x) + Refs(failed_list', x) + InLong(x)'
                    + Refs(derefs', x) + Refs(dumps, x)
    BY <1>3 DEF Lists, Refs
  <2>3. /\ Refs(finished_list', x) + Refs(d1, x)
             = Refs(finished_list, x) + (IF x = t THEN 1 ELSE 0)
        /\ Refs(failed_list', x) + Refs(d2, x)
             = Refs(failed_list, x) + (IF x = t THEN c ELSE 0)
        /\ InLong(x)' + Refs(d3, x) = InLong(x) + (IF x = t THEN l ELSE 0)
        /\ Refs(derefs', x)
             = Refs(derefs, x) + Refs(d1, x) + Refs(d2, x) + Refs(d3, x)
    BY <1>4, <1>5, <1>6, <1>7
  <2>4. CASE x = t
    <3>1. /\ Refs(finished_list', x) + Refs(d1, x) = Refs(finished_list, x) + 1
          /\ Refs(failed_list', x) + Refs(d2, x) = Refs(failed_list, x) + c
          /\ InLong(x)' + Refs(d3, x) = InLong(x) + l
      BY <2>3, <2>4, Zenon
    <3>2. Lists(x)' = Lists(x) + ((c + l) + 1)
      <4> DEFINE f == Refs(finished_list, x)   f2 == Refs(finished_list', x)
                 g == Refs(failed_list, x)     g2 == Refs(failed_list', x)
                 h == InLong(x)                h2 == InLong(x)'
                 e == Refs(derefs, x)          e2 == Refs(derefs', x)
                 i == Refs(d1, x)  j == Refs(d2, x)  k == Refs(d3, x)
                 u == Refs(dumps, x)
      <4>1. f2 + g2 + h2 + e2 + u = (f + g + h + e + u) + ((c + l) + 1)
        <5>1. /\ f \in Nat /\ g \in Nat /\ h \in Nat /\ e \in Nat /\ u \in Nat
              /\ f2 \in Nat /\ g2 \in Nat /\ h2 \in Nat /\ e2 \in Nat
              /\ i \in Nat /\ j \in Nat /\ k \in Nat /\ c \in Nat /\ l \in Nat
          BY <1>5, <1>6, <2>1
        <5>2. /\ f2 + i = f + 1 /\ g2 + j = g + c /\ h2 + k = h + l
              /\ e2 = e + i + j + k
          BY <2>3, <3>1
        <5> HIDE DEF f, f2, g, g2, h, h2, e, e2, i, j, k, u
        <5> QED BY <5>1, <5>2, TransferOfRefs
      <4> QED BY <2>2, <4>1, Zenon DEF Lists
    <3> QED BY <2>4, <3>2
  <2>5. CASE x # t
    BY <2>1, <2>2, <2>3, <2>5 DEF Lists
  <2> QED BY <2>4, <2>5
<1>9. c + l \in Nat
  BY <1>5, <1>6
<1> QED BY <1>3, <1>4, <1>5, <1>6, <1>7, <1>8, <1>9

-----------------------------------------------------------------------------
(***************************************************************************)
(* What a step leaves alone.                                               *)
(***************************************************************************)
Resting == {"new", "done", "freed"}
Gone == {"new", "freed"}

\* The counts are right after a step that lets tasks go through stages in which
\* somebody works on them.
LEMMA HistoryFrame ==
  ASSUME SInv, UNCHANGED history,
         \A t \in Tasks : stage'[t] = stage[t]
                          \/ {stage[t], stage'[t]} \cap Resting = {}
  PROVE  RefCountExact'
BY DEF SInv, history, RefCountExact, Refs, Resting

\* The link queue after a step that is not about it.
LEMMA LinkFrame ==
  ASSUME SInv, link_queue' = link_queue,
         \A t \in Tasks : stage'[t] = stage[t]
                          \/ {stage[t], stage'[t]} \cap {"loading", "queued"} = {}
  PROVE  LinkQueueExact'
<1>1. \A t \in Tasks : /\ stage'[t] = "loading" <=> stage[t] = "loading"
                       /\ stage'[t] = "queued" <=> stage[t] = "queued"
  OBVIOUS
<1> QED BY <1>1 DEF SInv, WaitingExact, LinkQueueExact, ToSet, IsInjective

\* The count of slots and of fallbacks after a step that is about neither.
LEMMA SlotsFrame ==
  ASSUME SInv, UNCHANGED <<active, pending, num_fallback, fail_fallback, canceled>>
  PROVE  AdmissionExact'
BY DEF SInv, WaitingExact, AdmissionExact

\* What a task is counted in does not change while somebody works on it.
LEMMA PlaceFrame ==
  ASSUME SInv, NEW t \in Tasks, NEW s, stage' = [stage EXCEPT ![t] = s],
         UNCHANGED <<active, pending, long_list, finished_list, failed_list>>,
         stage[t] \in Admit, s \in Admit \ {"posted"},
         fail_fallback' \cup canceled' \subseteq fail_fallback \cup canceled \cup {t}
  PROVE  Placed'
<1>1. stage \in [Tasks -> Stages]
  BY DEF SInv, TypeOK
<1>2. \A x \in Tasks : stage'[x] = IF x = t THEN s ELSE stage[x]
  BY <1>1
<1>3. s \notin {"new", "pending", "posted", "done", "freed"}
  BY DEF Admit
<1>4. stage[t] \notin {"new", "pending", "done", "freed"}
  BY DEF Admit
<1>5. active' = {x \in Tasks : stage'[x] \in Admit}
  BY <1>2 DEF SInv, Placed
<1>6. ToSet(pending') = {x \in Tasks : stage'[x] = "pending"} /\ IsInjective(pending')
  BY <1>2, <1>3, <1>4 DEF SInv, Placed
<1>7. \A x \in long_list' : stage'[x] \in {"done", "freed"}
  BY <1>2, <1>4 DEF SInv, Placed, TypeOK
<1>8. \A x \in fail_fallback' \cup canceled' : stage'[x] \notin Early
  BY <1>2, <1>3 DEF SInv, Placed, TypeOK, Early
<1>9. Len(finished_list') <= MaxFinished /\ Len(failed_list') <= MaxFailed
  BY DEF SInv, Placed
<1> QED BY <1>5, <1>6, <1>7, <1>8, <1>9 DEF Placed, ToSet, IsInjective

\* CompileTask::Deref(): the task was done when its last reference goes.
LEMMA ReleaseOK ==
  ASSUME SInv, NEW x \in Tasks, Lists(x) > 0, Release(x)
  PROVE  /\ refcnt[x] > 0 /\ refcnt' = [refcnt EXCEPT ![x] = @ - 1]
         /\ refcnt' \in [Tasks -> Nat] /\ stage' \in [Tasks -> Stages]
         /\ \/ refcnt[x] > 1 /\ stage' = stage
            \/ /\ refcnt[x] = 1 /\ stage[x] = "done" /\ Held(x) = 0
               /\ stage' = [stage EXCEPT ![x] = "freed"]
<1>1. /\ TypeOK /\ refcnt \in [Tasks -> Nat] /\ stage \in [Tasks -> Stages]
      /\ refcnt[x] = Lists(x) + Held(x)
      /\ refcnt[x] = 0 <=> stage[x] \in {"new", "freed"}
      /\ Lists(x) \in Nat
  BY CountOfLists, ListsNat DEF SInv, TypeOK
<1>2. Held(x) \in {0, 1} /\ (Held(x) = 0 <=> stage[x] \in {"new", "done", "freed"})
  BY DEF Held
<1>3. refcnt[x] > 0 /\ refcnt[x] - 1 \in Nat
  BY <1>1, <1>2
<1>4. refcnt' = [refcnt EXCEPT ![x] = @ - 1] /\ refcnt' \in [Tasks -> Nat]
  BY <1>1, <1>3 DEF Release
<1>5. CASE refcnt[x] = 1
  <2>1. Held(x) = 0 /\ stage[x] = "done"
    BY <1>1, <1>2, <1>5
  <2>2. stage' = [stage EXCEPT ![x] = "freed"] /\ stage' \in [Tasks -> Stages]
    BY <1>1, <1>5 DEF Release, Stages
  <2> QED BY <1>3, <1>4, <1>5, <2>1, <2>2
<1>6. CASE refcnt[x] # 1
  <2>1. stage' = stage
    BY <1>1, <1>6 DEF Release
  <2> QED BY <1>1, <1>3, <1>4, <1>6, <2>1
<1> QED BY <1>5, <1>6

-----------------------------------------------------------------------------
(***************************************************************************)
(* Every action keeps the invariant.                                       *)
(***************************************************************************)
\* Exec().
LEMMA ExecKeeps ==
  ASSUME SInv, NEW t \in Tasks, Exec(t)
  PROVE  SInv'
<1> DEFINE s == IF Cardinality(active) >= MaxActive THEN "pending" ELSE "posted"
<1>1. /\ stage \in [Tasks -> Stages] /\ refcnt \in [Tasks -> Nat]
      /\ pending \in Seq(Tasks) /\ active \in SUBSET Tasks /\ stage[t] = "new"
      /\ MaxActive \in Nat /\ Cardinality(active) \in Nat
  BY TaskSets, LimitsAssumption DEF SInv, TypeOK, Exec
<1>2. /\ stage' = [stage EXCEPT ![t] = s]
      /\ \A x \in Tasks : stage'[x] = IF x = t THEN s ELSE stage[x]
      /\ refcnt' = [refcnt EXCEPT ![t] = 1]
      /\ UNCHANGED <<finished_list, failed_list, long_list, derefs, dumps,
                     throttle, canceled, link_queue, loads>>
  BY <1>1 DEF Exec
<1>3. TypeOK'
  <2>1. stage' \in [Tasks -> Stages] /\ refcnt' \in [Tasks -> Nat]
    <3>1. s \in Stages
      BY DEF Stages
    <3> HIDE DEF s
    <3> QED BY <1>1, <1>2, <3>1
  <2>2. pending' \in Seq(Tasks) /\ active' \subseteq Tasks
    <3>1. Append(pending, t) \in Seq(Tasks)
      BY <1>1
    <3> QED BY <1>1, <3>1, Zenon DEF Exec
  <2> QED BY <1>2, <2>1, <2>2 DEF SInv, TypeOK, throttle
<1>4. /\ pending' = (IF s = "pending" THEN Append(pending, t) ELSE pending)
      /\ active' = (IF s = "pending" THEN active ELSE active \cup {t})
  BY DEF Exec
<1>5. t \notin fail_fallback /\ t \notin canceled /\ t \notin active
      /\ t \notin ToSet(pending) /\ t \notin long_list
  BY <1>1 DEF SInv, Placed, Early, Admit
<1>6. AdmissionExact'
  <2>1. /\ fail_fallback' \cap (active' \cup canceled')
             = fail_fallback \cap (active \cup canceled)
        /\ num_fallback' = num_fallback
    BY <1>2, <1>4, <1>5 DEF throttle
  <2>2. CASE s = "pending"
    <3>1. active' = active /\ Cardinality(active) = MaxActive
      BY <1>1, <1>4, <2>2 DEF SInv, WaitingExact, AdmissionExact
    <3> QED BY <1>1, <2>1, <3>1 DEF SInv, WaitingExact, AdmissionExact
  <2>3. CASE s # "pending"
    <3>1. active' = active \cup {t} /\ pending' = pending
      BY <1>4, <2>3
    <3>2. Cardinality(active \cup {t}) = Cardinality(active) + 1
      BY <1>1, <1>5, TaskSets, FS_AddElement
    <3>3. Cardinality(active) < MaxActive /\ pending = <<>>
      BY <1>1, <2>3 DEF SInv, WaitingExact, AdmissionExact
    <3>4. /\ Cardinality(active') <= MaxActive
          /\ pending' # <<>> => Cardinality(active') = MaxActive
      BY <1>1, <3>1, <3>2, <3>3
    <3>5. num_fallback' = Cardinality(fail_fallback' \cap (active' \cup canceled'))
      BY <2>1 DEF SInv, WaitingExact, AdmissionExact
    <3> QED BY <3>4, <3>5 DEF AdmissionExact
  <2> QED BY <2>2, <2>3
<1>7. LinkQueueExact'
  BY <1>1, <1>2, LinkFrame
<1>8. RefCountExact'
  <2>1. \A x \in Tasks : Lists(x)' = Lists(x)
    BY <1>2 DEF Lists, InLong, Refs
  <2>2. \A x \in Tasks :
          refcnt[x] = Lists(x) + Held(x) /\ Lists(x) \in Nat
          /\ (refcnt[x] = 0 <=> stage[x] \in {"new", "freed"})
    BY CountOfLists, ListsNat DEF SInv
  <2>3. ASSUME NEW x \in Tasks
        PROVE  /\ refcnt'[x] = Lists(x)' + Held(x)'
               /\ refcnt'[x] = 0 <=> stage'[x] \in {"new", "freed"}
    <3>1. CASE x = t
      <4>1. Lists(t) = 0
        BY <1>1, <2>2 DEF Held
      <4> QED BY <1>1, <1>2, <2>1, <3>1, <4>1 DEF Held
    <3>2. CASE x # t
      <4>1. refcnt'[x] = refcnt[x] /\ stage'[x] = stage[x]
        BY <1>1, <1>2, <3>2
      <4> QED BY <2>1, <2>2, <4>1 DEF Held
    <3> QED BY <3>1, <3>2
  <2> QED BY <1>3, <2>3, CountOfListsNext
<1>9. Placed'
  <2>1. active' = {x \in Tasks : stage'[x] \in Admit}
    BY <1>1, <1>2, <1>4 DEF SInv, Placed, Admit
  <2>2. ToSet(pending') = {x \in Tasks : stage'[x] = "pending"}
    <3>1. ToSet(Append(pending, t)) = ToSet(pending) \cup {t}
      BY <1>1, AppendRange
    <3> QED BY <1>1, <1>2, <1>4, <3>1 DEF SInv, Placed
  <2>3. IsInjective(pending')
    <3>1. IsInjective(pending) => IsInjective(Append(pending, t))
      BY <1>1, <1>5, AppendRange
    <3> QED BY <1>4, <3>1 DEF SInv, Placed
  <2>4. \A x \in long_list' : stage'[x] \in {"done", "freed"}
    BY <1>2, <1>5 DEF SInv, Placed, TypeOK
  <2>5. \A x \in fail_fallback' \cup canceled' : stage'[x] \notin Early
    BY <1>2, <1>5 DEF SInv, Placed, TypeOK, throttle
  <2>6. Len(finished_list') <= MaxFinished /\ Len(failed_list') <= MaxFailed
    BY <1>2 DEF SInv, Placed
  <2> QED BY <2>1, <2>2, <2>3, <2>4, <2>5, <2>6 DEF Placed, ToSet, IsInjective
<1> QED BY <1>3, <1>6, <1>7, <1>8, <1>9 DEF SInv, WaitingExact

\* Start(), GomaccClosed() and ProcessFinished(), which work on one task.
LEMMA WorkKeeps ==
  ASSUME SInv, NEW t \in Tasks,
         Start(t) \/ GomaccClosed(t) \/ IncrementActiveFailFallbackTasks(t)
  PROVE  SInv'
<1>1. /\ stage \in [Tasks -> Stages] /\ canceled \in SUBSET Tasks
      /\ fail_fallback \in SUBSET Tasks /\ active \in SUBSET Tasks
      /\ num_fallback \in Nat
  BY DEF SInv, TypeOK
<1>2. UNCHANGED <<active, pending, history, link_queue, loads>>
  BY DEF Start, GomaccClosed, IncrementActiveFailFallbackTasks
<1>3. t \in active /\ stage[t] \in Admit
  BY DEF Start, GomaccClosed, IncrementActiveFailFallbackTasks, SInv, Placed, Admit
<1>4. PICK s \in Stages : /\ stage' = [stage EXCEPT ![t] = s]
                          /\ s \in Admit \ {"posted"}
                          /\ s = stage[t] \/ {s, stage[t]} \subseteq
                                               {"posted", "running", "refused"}
  <2>1. CASE Start(t)
    BY <2>1 DEF Start, Stages, Admit
  <2>2. CASE GomaccClosed(t)
    <3>1. stage' = [stage EXCEPT ![t] = stage[t]] /\ stage[t] \in Stages
      BY <1>1, <2>2 DEF GomaccClosed
    <3> QED BY <1>3, <2>2, <3>1 DEF GomaccClosed
  <2>3. CASE IncrementActiveFailFallbackTasks(t)
    <3>1. stage' = stage \/ stage' = [stage EXCEPT ![t] = "refused"]
      BY <2>3 DEF IncrementActiveFailFallbackTasks
    <3>2. stage = [stage EXCEPT ![t] = stage[t]] /\ stage[t] = "running"
      BY <1>1, <2>3 DEF IncrementActiveFailFallbackTasks
    <3> QED BY <3>1, <3>2 DEF Stages, Admit
  <2> QED BY <2>1, <2>2, <2>3
<1>5. \A x \in Tasks : stage'[x] = IF x = t THEN s ELSE stage[x]
  BY <1>1, <1>4
<1>6. /\ fail_fallback' \subseteq Tasks /\ canceled' \subseteq Tasks
      /\ num_fallback' \in Nat /\ reached' \in BOOLEAN
      /\ fail_fallback' \cup canceled' \subseteq fail_fallback \cup canceled \cup {t}
  <2>1. CASE Start(t)
    BY <1>1, <2>1 DEF Start, throttle, SInv, TypeOK
  <2>2. CASE GomaccClosed(t)
    BY <1>1, <2>2 DEF GomaccClosed, throttle, SInv, TypeOK
  <2>3. CASE IncrementActiveFailFallbackTasks(t)
    <3>1. reached' = reached \/ reached' = TRUE
      BY <2>3 DEF IncrementActiveFailFallbackTasks
    <3>2. reached' \in BOOLEAN
      BY <3>1 DEF SInv, TypeOK
    <3> QED BY <1>1, <2>3, <3>2 DEF IncrementActiveFailFallbackTasks
  <2> QED BY <2>1, <2>2, <2>3
<1>7. TypeOK'
  <2>1. stage' \in [Tasks -> Stages]
    BY <1>1, <1>4
  <2> QED BY <1>2, <1>6, <2>1 DEF SInv, TypeOK, history
<1>8. LinkQueueExact'
  BY <1>2, <1>4, <1>5, LinkFrame
<1>9. RefCountExact'
  <2>1. stage[t] \notin Resting /\ s \notin Resting
    BY <1>3, <1>4 DEF Admit, Resting
  <2> QED BY <1>2, <1>5, <2>1, HistoryFrame
<1>10. Placed'
  BY <1>2, <1>3, <1>4, <1>6, PlaceFrame DEF history
<1>11. AdmissionExact'
  <2> DEFINE F == fail_fallback \cap (active \cup canceled)
  <2>1. CASE Start(t)
    BY <1>2, <2>1, SlotsFrame DEF Start, throttle
  <2>2. CASE GomaccClosed(t)
    <3>1. active \cup canceled' = active \cup canceled
      BY <1>3, <2>2 DEF GomaccClosed
    <3>2. UNCHANGED <<active, pending, num_fallback, fail_fallback>>
      BY <2>2 DEF GomaccClosed, throttle
    <3> QED BY <3>1, <3>2 DEF SInv, WaitingExact, AdmissionExact
  <2>3. CASE IncrementActiveFailFallbackTasks(t)
    <3>1. /\ t \notin F /\ num_fallback' = num_fallback + 1
          /\ fail_fallback' = fail_fallback \cup {t} /\ canceled' = canceled
      BY <2>3 DEF IncrementActiveFailFallbackTasks
    <3>2. fail_fallback' \cap (active' \cup canceled') = F \cup {t}
      BY <1>2, <1>3, <3>1
    <3>3. IsFiniteSet(F) /\ num_fallback = Cardinality(F)
      BY <1>1, TaskSets DEF SInv, WaitingExact, AdmissionExact
    <3>4. Cardinality(F \cup {t}) = Cardinality(F) + 1
      BY <3>1, <3>3, FS_AddElement
    <3> HIDE DEF F
    <3>5. num_fallback' = Cardinality(fail_fallback' \cap (active' \cup canceled'))
      BY <3>1, <3>2, <3>3, <3>4
    <3> QED BY <1>2, <3>5 DEF SInv, WaitingExact, AdmissionExact
  <2> QED BY <2>1, <2>2, <2>3
<1> QED BY <1>7, <1>8, <1>9, <1>10, <1>11 DEF SInv, WaitingExact

\* TryProcessFileRequest(): a linker joins the queue.
LEMMA TryProcessKeeps ==
  ASSUME SInv, NEW t \in Tasks, TryProcessFileRequest(t)
  PROVE  SInv'
<1>1. /\ stage \in [Tasks -> Stages] /\ link_queue \in Seq(Tasks)
      /\ loads \in [Tasks -> Nat] /\ stage[t] = "running"
      /\ LinkQueueExact
  BY DEF SInv, TypeOK, TryProcessFileRequest, WaitingExact
<1>2. link_queue' = Append(link_queue, t)
  BY DEF TryProcessFileRequest
<1>3. t \notin ToSet(link_queue)
  <2>1. t \in ToSet(link_queue) =>
          link_queue # <<>> /\ (t = Head(link_queue) \/ t \in ToSet(Tail(link_queue)))
    <3>1. link_queue = <<>> => ToSet(link_queue) = {}
      BY DEF ToSet
    <3>2. link_queue # <<>>
            => ToSet(Tail(link_queue)) = ToSet(link_queue) \ {Head(link_queue)}
      BY <1>1, TailRange DEF LinkQueueExact
    <3> QED BY <3>1, <3>2
  <2> QED BY <1>1, <2>1 DEF LinkQueueExact
<1>4. /\ link_queue' \in Seq(Tasks) /\ link_queue' # <<>>
      /\ IsInjective(link_queue')
      /\ link_queue = <<>> => Head(link_queue') = t /\ ToSet(Tail(link_queue')) = {}
      /\ link_queue # <<>> =>
           /\ Head(link_queue') = Head(link_queue)
           /\ ToSet(Tail(link_queue')) = ToSet(Tail(link_queue)) \cup {t}
  BY <1>1, <1>2, <1>3, AppendRange DEF LinkQueueExact
<1>5. link_queue # <<>> => Head(link_queue) # t
  BY <1>1 DEF LinkQueueExact
<1> DEFINE s == IF link_queue = <<>> THEN "loading" ELSE "queued"
<1>6. /\ stage' = [stage EXCEPT ![t] = s]
      /\ \A x \in Tasks : stage'[x] = IF x = t THEN s ELSE stage[x]
  BY <1>1, <1>4, <1>5 DEF TryProcessFileRequest
<1>7. s \in Stages /\ s \in Admit \ {"posted"} /\ s \notin Resting
  BY DEF Stages, Admit, Resting
<1>8. UNCHANGED <<active, pending, history, throttle, canceled>>
  BY DEF TryProcessFileRequest
<1>9. loads' \in [Tasks -> Nat]
  BY <1>1 DEF TryProcessFileRequest
<1>10. LinkQueueExact'
  <2> SUFFICES ASSUME NEW x \in Tasks
               PROVE  /\ stage'[x] = "loading" <=> x = Head(link_queue')
                      /\ stage'[x] = "queued" <=> x \in ToSet(Tail(link_queue'))
    BY <1>4 DEF LinkQueueExact, ToSet, IsInjective
  <2>1. CASE link_queue = <<>>
    BY <1>1, <1>4, <1>6, <2>1 DEF LinkQueueExact
  <2>2. CASE link_queue # <<>>
    BY <1>1, <1>4, <1>5, <1>6, <2>2 DEF LinkQueueExact
  <2> QED BY <2>1, <2>2
<1> HIDE DEF s
<1>11. TypeOK'
  <2>1. stage' \in [Tasks -> Stages]
    BY <1>1, <1>6, <1>7
  <2> QED BY <1>4, <1>8, <1>9, <2>1 DEF SInv, TypeOK, history, throttle
<1>12. RefCountExact'
  BY <1>1, <1>6, <1>7, <1>8, HistoryFrame DEF Resting
<1>13. Placed'
  <2>1. stage[t] \in Admit
    BY <1>1 DEF Admit
  <2> QED BY <1>6, <1>7, <1>8, <2>1, PlaceFrame DEF history, throttle
<1>14. AdmissionExact'
  BY <1>8, SlotsFrame DEF throttle
<1> QED BY <1>10, <1>11, <1>12, <1>13, <1>14 DEF SInv, WaitingExact

\* ProcessPendingFileRequest(): the front of the queue leaves, the next one loads.
LEMMA ProcessPendingKeeps ==
  ASSUME SInv, NEW t \in Tasks, ProcessPendingFileRequest(t)
  PROVE  SInv'
<1>1. /\ stage \in [Tasks -> Stages] /\ link_queue \in Seq(Tasks)
      /\ stage[t] = "loading" /\ LinkQueueExact
  BY DEF SInv, TypeOK, ProcessPendingFileRequest, WaitingExact
<1>2. link_queue # <<>> /\ t = Head(link_queue) /\ link_queue' = Tail(link_queue)
  BY <1>1 DEF LinkQueueExact, ProcessPendingFileRequest
<1>3. /\ link_queue' \in Seq(Tasks) /\ IsInjective(link_queue')
      /\ ToSet(link_queue') = ToSet(link_queue) \ {t}
  BY <1>1, <1>2, SeqParts, TailRange DEF LinkQueueExact
<1>4. link_queue' # <<>> =>
        /\ Head(link_queue') \in ToSet(link_queue')
        /\ ToSet(Tail(link_queue')) = ToSet(link_queue') \ {Head(link_queue')}
  BY <1>3, TailRange
<1>5. link_queue' = <<>> => ToSet(link_queue') = {}
  BY DEF ToSet
<1>6. \A x \in Tasks : stage[x] = "queued" <=> x \in ToSet(link_queue')
  BY <1>1, <1>2 DEF LinkQueueExact
<1>7. \A x \in Tasks : stage[x] = "loading" <=> x = t
  BY <1>1, <1>2 DEF LinkQueueExact
<1>8. \A x \in Tasks :
        stage'[x] = IF x = t THEN "running"
                    ELSE IF link_queue' # <<>> /\ x = Head(link_queue')
                    THEN "loading" ELSE stage[x]
  BY DEF ProcessPendingFileRequest
<1>9. UNCHANGED <<active, pending, history, throttle, canceled, loads>>
  BY DEF ProcessPendingFileRequest
<1>10. LinkQueueExact'
  <2> SUFFICES ASSUME NEW x \in Tasks
               PROVE  /\ stage'[x] = "loading"
                           <=> link_queue' # <<>> /\ x = Head(link_queue')
                      /\ stage'[x] = "queued"
                           <=> link_queue' # <<>> /\ x \in ToSet(Tail(link_queue'))
    BY <1>3 DEF LinkQueueExact, ToSet, IsInjective
  <2>1. CASE x = t
    BY <1>3, <1>4, <1>8, <2>1
  <2>2. CASE x # t
    BY <1>4, <1>5, <1>6, <1>7, <1>8, <2>2
  <2> QED BY <2>1, <2>2
<1>11. \A x \in Tasks : \/ stage'[x] = stage[x]
                        \/ {stage[x], stage'[x]} \subseteq Admit \ {"posted"}
  BY <1>1, <1>4, <1>6, <1>8 DEF Admit
<1>12. TypeOK'
  <2>1. stage' \in [Tasks -> Stages]
    BY <1>1 DEF ProcessPendingFileRequest, Stages
  <2> QED BY <1>3, <1>9, <2>1 DEF SInv, TypeOK, history, throttle
<1>13. RefCountExact'
  BY <1>9, <1>11, HistoryFrame DEF Admit, Resting
<1>14. Placed'
  <2>1. active' = {x \in Tasks : stage'[x] \in Admit}
    BY <1>9, <1>11 DEF SInv, Placed
  <2>2. \A x \in Tasks : /\ stage'[x] = "pending" <=> stage[x] = "pending"
                         /\ stage'[x] \in {"done", "freed"}
                              <=> stage[x] \in {"done", "freed"}
                         /\ stage'[x] \in Early <=> stage[x] \in Early
    BY <1>11 DEF Admit, Early
  <2>3. ToSet(pending') = {x \in Tasks : stage'[x] = "pending"}
    BY <1>9, <2>2 DEF SInv, Placed
  <2>4. /\ \A x \in long_list' : stage'[x] \in {"done", "freed"}
        /\ \A x \in fail_fallback' \cup canceled' : stage'[x] \notin Early
    BY <1>9, <2>2 DEF SInv, Placed, TypeOK, history, throttle
  <2> QED BY <1>9, <2>1, <2>3, <2>4
          DEF SInv, Placed, history, ToSet, IsInjective
<1>15. AdmissionExact'
  BY <1>9, SlotsFrame DEF throttle
<1> QED BY <1>10, <1>12, <1>13, <1>14, <1>15 DEF SInv, WaitingExact

\* The references a step moves are accounted for.
LEMMA DerefKeeps ==
  ASSUME SInv, Deref \/ DumpDone
  PROVE  SInv'
<1>1. /\ TypeOK /\ derefs \in Seq(Tasks) /\ dumps \in Seq(Tasks)
      /\ stage \in [Tasks -> Stages] /\ refcnt \in [Tasks -> Nat]
  BY DEF SInv, TypeOK
<1>2. UNCHANGED <<active, pending, finished_list, failed_list, long_list,
                  throttle, canceled, link_queue, loads>>
  BY DEF Deref, DumpDone
<1>3. PICK h \in Tasks :
        /\ Release(h) /\ Lists(h) > 0
        /\ derefs' \in Seq(Tasks) /\ dumps' \in Seq(Tasks)
        /\ \A x \in Tasks : Lists(x) = Lists(x)' + (IF x = h THEN 1 ELSE 0)
                            /\ Lists(x)' \in Nat
  <2>1. CASE Deref
    <3> DEFINE h == Head(derefs)
    <3>1. /\ derefs # <<>> /\ h \in Tasks /\ derefs' = Tail(derefs)
          /\ Tail(derefs) \in Seq(Tasks) /\ Release(h) /\ dumps' = dumps
      BY <1>1, <2>1, SeqParts DEF Deref
    <3>2. Lists(h) > 0
      BY <1>1, <3>1, ListsNat
    <3>3. ASSUME NEW x \in Tasks
          PROVE  /\ Lists(x) = Lists(x)' + (IF x = h THEN 1 ELSE 0)
                 /\ Lists(x)' \in Nat
      <4>1. Refs(derefs, x) = (IF x = h THEN 1 ELSE 0) + Refs(Tail(derefs), x)
        BY <1>1, <3>1, RefsOfTail
      <4>2. Lists(x)' = Refs(finished_list, x) + Refs(failed_list, x) + InLong(x)
                        + Refs(Tail(derefs), x) + Refs(dumps, x)
        BY <1>2, <3>1 DEF Lists, Refs, InLong
      <4>3. /\ Refs(finished_list, x) \in Nat /\ Refs(failed_list, x) \in Nat
            /\ InLong(x) \in Nat /\ Refs(dumps, x) \in Nat
            /\ Refs(Tail(derefs), x) \in Nat
        BY <1>1, <3>1, ListsNat, RefsNat
      <4> HIDE DEF h
      <4> QED BY <4>1, <4>2, <4>3 DEF Lists
    <3> HIDE DEF h
    <3> QED BY <1>1, <3>1, <3>2, <3>3
  <2>2. CASE DumpDone
    <3> DEFINE h == Head(dumps)
    <3>1. /\ dumps # <<>> /\ h \in Tasks /\ dumps' = Tail(dumps)
          /\ Tail(dumps) \in Seq(Tasks) /\ Release(h) /\ derefs' = derefs
      BY <1>1, <2>2, SeqParts DEF DumpDone
    <3>2. Lists(h) > 0
      BY <1>1, <3>1, ListsNat
    <3>3. ASSUME NEW x \in Tasks
          PROVE  /\ Lists(x) = Lists(x)' + (IF x = h THEN 1 ELSE 0)
                 /\ Lists(x)' \in Nat
      <4>1. Refs(dumps, x) = (IF x = h THEN 1 ELSE 0) + Refs(Tail(dumps), x)
        BY <1>1, <3>1, RefsOfTail
      <4>2. Lists(x)' = Refs(finished_list, x) + Refs(failed_list, x) + InLong(x)
                        + Refs(derefs, x) + Refs(Tail(dumps), x)
        BY <1>2, <3>1 DEF Lists, Refs, InLong
      <4>3. /\ Refs(finished_list, x) \in Nat /\ Refs(failed_list, x) \in Nat
            /\ InLong(x) \in Nat /\ Refs(derefs, x) \in Nat
            /\ Refs(Tail(dumps), x) \in Nat
        BY <1>1, <3>1, ListsNat, RefsNat
      <4> HIDE DEF h
      <4> QED BY <4>1, <4>2, <4>3 DEF Lists
    <3> HIDE DEF h
    <3> QED BY <1>1, <3>1, <3>2, <3>3
  <2> QED BY <2>1, <2>2
<1>4. /\ refcnt[h] > 0 /\ refcnt' = [refcnt EXCEPT ![h] = @ - 1]
      /\ refcnt' \in [Tasks -> Nat] /\ stage' \in [Tasks -> Stages]
      /\ \/ refcnt[h] > 1 /\ stage' = stage
         \/ /\ refcnt[h] = 1 /\ stage[h] = "done" /\ Held(h) = 0
            /\ stage' = [stage EXCEPT ![h] = "freed"]
  BY <1>3, ReleaseOK
<1>5. \A x \in Tasks : \/ stage'[x] = stage[x]
                       \/ x = h /\ stage[x] = "done" /\ stage'[x] = "freed"
  BY <1>1, <1>4
<1>6. TypeOK'
  BY <1>2, <1>3, <1>4 DEF SInv, TypeOK, throttle
<1>7. LinkQueueExact'
  BY <1>2, <1>5, LinkFrame
<1>8. AdmissionExact'
  BY <1>2, SlotsFrame DEF throttle
<1>9. Placed'
  <2>1. \A x \in Tasks : /\ stage'[x] \in Admit <=> stage[x] \in Admit
                         /\ stage'[x] = "pending" <=> stage[x] = "pending"
                         /\ stage[x] \in {"done", "freed"}
                              => stage'[x] \in {"done", "freed"}
                         /\ stage'[x] \in Early <=> stage[x] \in Early
    BY <1>5 DEF Admit, Early
  <2>2. active' = {x \in Tasks : stage'[x] \in Admit}
    BY <1>2, <2>1 DEF SInv, Placed
  <2>3. ToSet(pending') = {x \in Tasks : stage'[x] = "pending"}
    BY <1>2, <2>1 DEF SInv, Placed
  <2>4. /\ \A x \in long_list' : stage'[x] \in {"done", "freed"}
        /\ \A x \in fail_fallback' \cup canceled' : stage'[x] \notin Early
    BY <1>2, <2>1 DEF SInv, Placed, TypeOK, throttle
  <2> QED BY <1>2, <2>2, <2>3, <2>4 DEF SInv, Placed, ToSet, IsInjective
<1>10. RefCountExact'
  <2> SUFFICES ASSUME NEW x \in Tasks
               PROVE  /\ refcnt'[x] = Lists(x)' + Held(x)'
                      /\ refcnt'[x] = 0 <=> stage'[x] \in {"new", "freed"}
    BY <1>6, CountOfListsNext
  <2>1. /\ refcnt[x] = Lists(x) + Held(x) /\ Lists(x) \in Nat
        /\ refcnt[x] = 0 <=> stage[x] \in {"new", "freed"}
    BY CountOfLists, ListsNat DEF SInv
  <2>2. Held(x)' = Held(x) /\ Held(x) \in {0, 1}
    BY <1>5 DEF Held
  <2>3. CASE x # h
    <3>1. refcnt'[x] = refcnt[x] /\ stage'[x] = stage[x]
      BY <1>1, <1>4, <1>5, <2>3
    <3> QED BY <1>3, <2>1, <2>2, <2>3, <3>1
  <2>4. CASE x = h
    <3>1. refcnt'[x] = refcnt[x] - 1 /\ refcnt[x] \in Nat
      BY <1>1, <1>4, <2>4
    <3>2. refcnt'[x] = Lists(x)' + Held(x)'
      BY <1>3, <2>1, <2>2, <2>4, <3>1
    <3>3. refcnt'[x] = 0 <=> stage'[x] \in {"new", "freed"}
      BY <1>1, <1>4, <2>1, <2>4, <3>1
    <3> QED BY <3>2, <3>3
  <2> QED BY <2>3, <2>4
<1> QED BY <1>6, <1>7, <1>8, <1>9, <1>10 DEF SInv, WaitingExact

\* DumpTaskRequest(): one more reference, to a task that is not deleted.
LEMMA DumpKeeps ==
  ASSUME SInv, NEW t \in Tasks, DumpTaskRequest(t)
  PROVE  SInv'
<1>1. /\ TypeOK /\ dumps \in Seq(Tasks) /\ refcnt \in [Tasks -> Nat]
      /\ refcnt' = [refcnt EXCEPT ![t] = @ + 1] /\ dumps' = Append(dumps, t)
      /\ t \in Listed
  BY DEF SInv, TypeOK, DumpTaskRequest
<1>2. UNCHANGED <<stage, active, pending, finished_list, failed_list, long_list,
                  derefs, throttle, canceled, link_queue, loads>>
  BY DEF DumpTaskRequest
<1>3. TypeOK'
  <2>1. dumps' \in Seq(Tasks) /\ refcnt' \in [Tasks -> Nat]
    BY <1>1
  <2> QED BY <1>2, <2>1 DEF SInv, TypeOK, throttle
<1>4. LinkQueueExact'
  BY <1>2, LinkFrame
<1>5. AdmissionExact'
  BY <1>2, SlotsFrame DEF throttle
<1>6. Placed'
  BY <1>2 DEF SInv, Placed, throttle, ToSet, IsInjective
<1>7. RefCountExact'
  <2> SUFFICES ASSUME NEW x \in Tasks
               PROVE  /\ refcnt'[x] = Lists(x)' + Held(x)'
                      /\ refcnt'[x] = 0 <=> stage'[x] \in {"new", "freed"}
    BY <1>3, CountOfListsNext
  <2>1. /\ refcnt[x] = Lists(x) + Held(x) /\ Lists(x) \in Nat
        /\ refcnt[x] = 0 <=> stage[x] \in {"new", "freed"}
        /\ x = t => Lists(x) > 0
        /\ Held(x)' = Held(x) /\ Held(x) \in {0, 1}
    BY <1>1, <1>2, CountOfLists, ListsNat DEF SInv, Held
  <2>2. Lists(x)' = Lists(x) + (IF x = t THEN 1 ELSE 0)
    <3>1. Refs(Append(dumps, t), x) = Refs(dumps, x) + (IF x = t THEN 1 ELSE 0)
      BY <1>1, RefsOfAppend
    <3>2. Lists(x)' = Refs(finished_list, x) + Refs(failed_list, x) + InLong(x)
                      + Refs(derefs, x) + Refs(Append(dumps, t), x)
      BY <1>1, <1>2 DEF Lists, Refs, InLong
    <3>3. /\ Refs(finished_list, x) \in Nat /\ Refs(failed_list, x) \in Nat
          /\ InLong(x) \in Nat /\ Refs(derefs, x) \in Nat /\ Refs(dumps, x) \in Nat
      BY <1>1, ListsNat
    <3> QED BY <3>1, <3>2, <3>3 DEF Lists
  <2>3. refcnt'[x] = refcnt[x] + (IF x = t THEN 1 ELSE 0) /\ refcnt[x] \in Nat
    BY <1>1
  <2> QED BY <1>2, <2>1, <2>2, <2>3
<1> QED BY <1>3, <1>4, <1>5, <1>6, <1>7 DEF SInv, WaitingExact

\* CompileTaskDone().
LEMMA DoneKeeps ==
  ASSUME SInv, NEW t \in Tasks, CompileTaskDone(t)
  PROVE  SInv'
<1>1. /\ TypeOK /\ stage \in [Tasks -> Stages] /\ refcnt \in [Tasks -> Nat]
      /\ active \in SUBSET Tasks /\ pending \in Seq(Tasks)
      /\ fail_fallback \in SUBSET Tasks /\ canceled \in SUBSET Tasks
      /\ num_fallback \in Nat /\ long_list \in SUBSET Tasks
      /\ stage[t] \in {"running", "refused"}
  BY DEF SInv, TypeOK, CompileTaskDone, Running
<1>2. UNCHANGED <<dumps, fail_fallback, canceled, link_queue, loads>>
  BY DEF CompileTaskDone
<1>3. /\ finished_list' \in Seq(Tasks) /\ Len(finished_list') <= MaxFinished
      /\ failed_list' \in Seq(Tasks) /\ Len(failed_list') <= MaxFailed
      /\ derefs' \in Seq(Tasks) /\ long_list' \subseteq long_list \cup {t}
  BY DoneRefs
<1>4. PICK r \in Nat :
        /\ refcnt' = [refcnt EXCEPT ![t] = @ + r]
        /\ \A x \in Tasks : Lists(x)' = Lists(x) + (IF x = t THEN r + 1 ELSE 0)
  BY DoneRefs
<1>5. AdmitsNone(t) \/ \E h \in Tasks : AdmitsOne(t, h)
  BY DoneAdmits
<1> DEFINE Turn(B) ==
             /\ stage' = [x \in Tasks |-> IF x = t THEN "done"
                             ELSE IF x \in B THEN "posted" ELSE stage[x]]
             /\ \A x \in B : stage[x] = "pending"
             /\ active' = (active \ {t}) \cup B
             /\ pending' \in Seq(Tasks) /\ IsInjective(pending')
             /\ ToSet(pending') = ToSet(pending) \ B
             /\ Cardinality(active') <= MaxActive
             /\ pending' # <<>> => Cardinality(active') = MaxActive
<1>6. PICK B \in SUBSET Tasks : Turn(B)
  <2>1. /\ t \in active /\ Cardinality(active) \in Nat /\ IsFiniteSet(active)
        /\ Cardinality(active) <= MaxActive /\ MaxActive \in Nat
        /\ Cardinality(active \ {t}) = Cardinality(active) - 1
        /\ IsFiniteSet(active \ {t})
    <3>1. t \in active
      BY <1>1 DEF SInv, Placed, Admit
    <3>2. /\ Cardinality(active) \in Nat /\ IsFiniteSet(active)
          /\ Cardinality(active) <= MaxActive /\ MaxActive \in Nat
      BY <1>1, TaskSets, LimitsAssumption DEF SInv, WaitingExact, AdmissionExact
    <3> QED BY <3>1, <3>2, FS_RemoveElement
  <2>2. ASSUME AdmitsNone(t)  PROVE Turn({})
    <3>1. /\ stage' = [x \in Tasks |-> IF x = t THEN "done"
                                       ELSE IF x \in {} THEN "posted" ELSE stage[x]]
          /\ active' = (active \ {t}) \cup {}
      BY <1>1, <2>2 DEF AdmitsNone
    <3>2. pending' = pending /\ pending' = <<>>
      BY <2>2 DEF AdmitsNone
    <3>3. IsInjective(pending)
      BY DEF SInv, Placed
    <3>4. Cardinality(active') <= MaxActive
      BY <2>1, <2>2 DEF AdmitsNone
    <3>5. IsInjective(pending') /\ ToSet(pending') = ToSet(pending) \ {}
          /\ pending' \in Seq(Tasks)
      BY <1>1, <3>2, <3>3
    <3> QED BY <3>1, <3>2, <3>4, <3>5, Zenon
  <2>3. ASSUME NEW h \in Tasks, AdmitsOne(t, h)  PROVE Turn({h})
    <3>1. /\ pending # <<>> /\ h = Head(pending) /\ pending' = Tail(pending)
          /\ stage[h] = "pending" /\ active' = (active \ {t}) \cup {h}
          /\ stage' = [stage EXCEPT ![t] = "done", ![h] = "posted"]
      BY <2>3 DEF AdmitsOne
    <3>2. stage' = [x \in Tasks |-> IF x = t THEN "done"
                              ELSE IF x \in {h} THEN "posted" ELSE stage[x]]
      BY <1>1, <3>1
    <3>3. /\ pending' \in Seq(Tasks) /\ IsInjective(pending')
          /\ ToSet(pending') = ToSet(pending) \ {h}
      BY <1>1, <3>1, TailRange, SeqParts DEF SInv, Placed
    <3>4. h \notin active
      BY <3>1 DEF SInv, Placed, Admit
    <3>5. Cardinality(active) = MaxActive
      BY <3>1 DEF SInv, WaitingExact, AdmissionExact
    <3>6. Cardinality((active \ {t}) \cup {h}) = Cardinality(active \ {t}) + 1
      BY <2>1, <3>4, FS_AddElement
    <3>7. Cardinality(active') = MaxActive /\ Cardinality(active') <= MaxActive
      BY <2>1, <3>1, <3>5, <3>6
    <3>8. \A x \in {h} : stage[x] = "pending"
      BY <3>1
    <3> QED BY <3>1, <3>2, <3>3, <3>7, <3>8, Zenon
  <2> HIDE DEF Turn
  <2>4. {} \in SUBSET Tasks /\ \A h \in Tasks : {h} \in SUBSET Tasks
    OBVIOUS
  <2> QED BY <1>5, <2>2, <2>3, <2>4
<1>7. \A x \in Tasks : stage'[x] = IF x = t THEN "done"
                                   ELSE IF x \in B THEN "posted" ELSE stage[x]
  BY <1>6
<1>8. t \notin B /\ t \in active
  BY <1>1, <1>6 DEF SInv, Placed, Admit
<1>9. /\ num_fallback' = Cardinality(fail_fallback' \cap (active' \cup canceled'))
      /\ num_fallback' \in Nat /\ reached' \in BOOLEAN
  <2> DEFINE F == fail_fallback \cap (active \cup canceled)
  <2>1. /\ num_fallback = Cardinality(F) /\ IsFiniteSet(F)
        /\ reached \in BOOLEAN
    BY <1>1, TaskSets DEF SInv, WaitingExact, AdmissionExact, TypeOK
  <2>2. \A x \in B : x \notin fail_fallback
    BY <1>6 DEF SInv, Placed, Early
  <2>3. fail_fallback' \cap (active' \cup canceled')
          = IF t \in canceled THEN F ELSE F \ {t}
    BY <1>2, <1>6, <1>8, <2>2
  <2>4. Cardinality(F \ {t}) = IF t \in F THEN Cardinality(F) - 1
                                          ELSE Cardinality(F)
    BY <2>1, FS_RemoveElement
  <2>5. t \in F <=> t \in fail_fallback
    BY <1>8
  <2>6. CountFailure(t)
    BY DEF CompileTaskDone
  <2>7. num_fallback' = IF t \in fail_fallback /\ t \notin canceled
                        THEN num_fallback - 1 ELSE num_fallback
    BY <2>6 DEF CountFailure
  <2>8. reached' \in BOOLEAN
    BY <2>1, <2>6 DEF CountFailure
  <2>9. Cardinality(fail_fallback' \cap (active' \cup canceled')) \in Nat
    <3>1. fail_fallback' \cap (active' \cup canceled') \in SUBSET Tasks
      BY <1>1, <1>2
    <3> QED BY <3>1, TaskSets
  <2> HIDE DEF F
  <2>10. num_fallback' = Cardinality(fail_fallback' \cap (active' \cup canceled'))
    BY <2>1, <2>3, <2>4, <2>5, <2>7
  <2> QED BY <2>8, <2>9, <2>10
<1>10. TypeOK'
  <2>1. stage' \in [Tasks -> Stages]
    BY <1>1, <1>6 DEF Stages
  <2>2. refcnt' \in [Tasks -> Nat]
    BY <1>1, <1>4
  <2>3. active' \subseteq Tasks /\ long_list' \subseteq Tasks
    BY <1>1, <1>3, <1>6
  <2> QED BY <1>2, <1>3, <1>6, <1>9, <2>1, <2>2, <2>3 DEF SInv, TypeOK
<1>11. AdmissionExact'
  BY <1>6, <1>9 DEF AdmissionExact
<1>12. LinkQueueExact'
  BY <1>1, <1>2, <1>6, <1>7, LinkFrame
<1>13. Placed'
  <2>1. active' = {x \in Tasks : stage'[x] \in Admit}
    BY <1>6, <1>7, <1>8 DEF SInv, Placed, Admit
  <2>2. ToSet(pending') = {x \in Tasks : stage'[x] = "pending"}
    BY <1>1, <1>6, <1>7, <1>8 DEF SInv, Placed
  <2>3. \A x \in long_list' : stage'[x] \in {"done", "freed"}
    BY <1>1, <1>3, <1>6, <1>7 DEF SInv, Placed
  <2>4. \A x \in fail_fallback' \cup canceled' : stage'[x] \notin Early
    BY <1>1, <1>2, <1>6, <1>7 DEF SInv, Placed, Early
  <2> QED BY <1>3, <1>6, <2>1, <2>2, <2>3, <2>4 DEF Placed, ToSet, IsInjective
<1>14. RefCountExact'
  <2> SUFFICES ASSUME NEW x \in Tasks
               PROVE  /\ refcnt'[x] = Lists(x)' + Held(x)'
                      /\ refcnt'[x] = 0 <=> stage'[x] \in {"new", "freed"}
    BY <1>10, CountOfListsNext
  <2>1. /\ refcnt[x] = Lists(x) + Held(x) /\ Lists(x) \in Nat
        /\ refcnt[x] = 0 <=> stage[x] \in {"new", "freed"}
    BY <1>1, CountOfLists, ListsNat DEF SInv
  <2>2. /\ Lists(x)' = Lists(x) + (IF x = t THEN r + 1 ELSE 0)
        /\ refcnt'[x] = refcnt[x] + (IF x = t THEN r ELSE 0)
    BY <1>1, <1>4
  <2>3. CASE x = t
    <3>1. Held(x) = 1 /\ Held(x)' = 0 /\ stage'[x] = "done"
      BY <1>1, <1>7, <2>3 DEF Held
    <3> QED BY <2>1, <2>2, <2>3, <3>1
  <2>4. CASE x # t
    <3>1. Held(x)' = Held(x) /\ Held(x) \in {0, 1}
      BY <1>6, <1>7, <2>4 DEF Held
    <3>2. stage'[x] \in {"new", "freed"} <=> stage[x] \in {"new", "freed"}
      BY <1>6, <1>7, <2>4
    <3> QED BY <2>1, <2>2, <2>4, <3>1, <3>2
  <2> QED BY <2>3, <2>4
<1> QED BY <1>10, <1>11, <1>12, <1>13, <1>14 DEF SInv, WaitingExact

-----------------------------------------------------------------------------
\* A new service.
LEMMA InitOK == Init => SInv
<1> SUFFICES ASSUME Init  PROVE SInv
  OBVIOUS
<1>1. TypeOK
  <2>1. <<>> \in Seq(Tasks) /\ "new" \in Stages
    BY DEF Stages
  <2> QED BY <2>1 DEF Init, TypeOK
<1>2. ToSet(<<>>) = {} /\ Cardinality({}) = 0
  BY FS_EmptySet DEF ToSet
<1>3. AdmissionExact
  BY <1>2, LimitsAssumption DEF Init, AdmissionExact
<1>4. LinkQueueExact
  BY DEF Init, LinkQueueExact, IsInjective
<1>5. RefCountExact
  BY RefsOfNone DEF Init, RefCountExact
<1>6. Placed
  BY <1>2, LimitsAssumption DEF Init, Placed, Admit, Early, IsInjective
<1> QED BY <1>1, <1>3, <1>4, <1>5, <1>6 DEF SInv, WaitingExact

\* The invariant is inductive: every operation of the service keeps its
\* containers, the counts and the stages of its tasks in agreement.
THEOREM ServiceInvariant == Spec => []SInv
<1>1. SInv /\ [Next]_vars => SInv'
  <2> SUFFICES ASSUME SInv, [Next]_vars  PROVE SInv'
    OBVIOUS
  <2>1. ASSUME NEW t \in Tasks,
               \/ Exec(t) \/ TaskStep(t) \/ GomaccClosed(t) \/ TryProcessFileRequest(t)
               \/ IncrementActiveFailFallbackTasks(t) \/ DumpTaskRequest(t)
        PROVE  SInv'
    BY <2>1, ExecKeeps, WorkKeeps, TryProcessKeeps, ProcessPendingKeeps, DoneKeeps,
       DumpKeeps DEF TaskStep
  <2>2. CASE Deref \/ DumpDone
    BY <2>2, DerefKeeps
  <2>3. CASE UNCHANGED vars
    <3>1. TypeOK' /\ Placed'
      BY <2>3 DEF vars, history, throttle, SInv, TypeOK, Placed, ToSet, IsInjective
    <3>2. AdmissionExact' /\ LinkQueueExact' /\ RefCountExact'
      BY <2>3, SlotsFrame, LinkFrame, HistoryFrame DEF vars, history, throttle
    <3> QED BY <3>1, <3>2 DEF SInv, WaitingExact
  <2> QED BY <2>1, <2>2, <2>3 DEF Next
<1> QED BY <1>1, InitOK, PTL DEF Spec

\* Nobody waits for what is there: the service admits a task whenever it has room,
\* is never overfull, counts its fallbacks right, and lets the link queue through
\* one by one without forgetting anyone, for any number of tasks and any limits.
THEOREM NobodyWaitsInVain == Spec => []WaitingExact
BY ServiceInvariant, PTL DEF SInv

\* No reference to a task is lost or counted twice: the count is that of the lists,
\* Derefs and dumps that hold it, and it is deleted exactly when there are none.
THEOREM ReferencesAreExact == Spec => []RefCountExact
BY ServiceInvariant, PTL DEF SInv
===============================================================================

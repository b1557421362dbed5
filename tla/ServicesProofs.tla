--------------------------- MODULE ServicesProofs ----------------------------
(***************************************************************************)
(* The invariants of WorkerThread and of HttpClient, whose tasks run on    *)
(* worker threads. Nothing of the one is used for the other.               *)
(***************************************************************************)
EXTENDS WorkerThread, HttpClient, FiniteSetTheorems, SequenceTheorems, WellFoundedInduction,
        TLAPS

-----------------------------------------------------------------------------
(***************************************************************************)
(* RunOrCanceled of WorkerThread, for every set of jobs.                   *)
(*                                                                         *)
(* WorkerInv says where the closures are that the states of the jobs, of   *)
(* the delayed and of the periodic closure speak of: a closure that was    *)
(* posted is in its queue or runs, the periodic one is in the immediate    *)
(* queue only, and only while it is registered. Unregistered() is the loop *)
(* that takes it out: what is left of a queue is proved by the least       *)
(* number of steps after which it would be wrong.                          *)
(***************************************************************************)
Closures == {Delayed, Periodic, IoCallback, Close, Again} \cup {JobClosure(j) : j \in Jobs}

Queued(c, q) == \E n \in 1..Len(q) : q[n] = c
Running(c) == dispatch = "run" /\ current = c

WorkerTypes ==
  /\ pendings \in [Priorities -> Seq(Closures)]
  /\ job \in [Jobs -> {"unused", "new", "posted", "ran"}]
  /\ dispatch = "poll" => current = Nobody

\* A posted job waits in the queue of its priority, or runs.
PostedIsThere ==
  \A j \in Jobs : job[j] = "posted" => Queued(JobClosure(j), pendings[j.priority]) \/ Running(JobClosure(j))

\* So does the delayed closure, once the poller has queued it.
DelayedIsThere ==
  delayed = "queued" => Queued(Delayed, pendings[IMMEDIATE]) \/ Running(Delayed)

\* The periodic closure is nowhere but in the immediate queue, and only while it
\* is registered.
PeriodicIsOnlyThere ==
  /\ \A n \in Priorities \ {IMMEDIATE} : ~Queued(Periodic, pendings[n])
  /\ periodic # "registered" => ~Queued(Periodic, pendings[IMMEDIATE]) /\ ~Running(Periodic)

\* A thread that has ended had been told to, and had nothing left.
EndedIsThrough ==
  dispatch = "ended" => NoPendings(pendings) /\ Through

WorkerInv ==
  /\ WorkerTypes /\ PostedIsThere /\ DelayedIsThere /\ PeriodicIsOnlyThere
  /\ EndedIsThrough /\ NoLostWakeup /\ CanceledNeverRuns

-----------------------------------------------------------------------------
(***************************************************************************)
(* Queues.                                                                 *)
(***************************************************************************)
LEMMA AppendQueue ==
  ASSUME NEW S, NEW q \in Seq(S), NEW d \in S
  PROVE  /\ Append(q, d) \in Seq(S) /\ Append(q, d) # <<>>
         /\ \A c : Queued(c, Append(q, d)) <=> Queued(c, q) \/ c = d
<1>0. Len(q) \in Nat
  OBVIOUS
<1>1. /\ Append(q, d) \in Seq(S) /\ Len(q) \in Nat
      /\ Len(Append(q, d)) = Len(q) + 1 /\ Append(q, d)[Len(q) + 1] = d
      /\ \A n \in 1..Len(q) : Append(q, d)[n] = q[n]
  BY <1>0, AppendProperties
<1>2. \A n : n \in 1..(Len(q) + 1) <=> n \in 1..Len(q) \/ n = Len(q) + 1
  BY <1>1
<1>3. Append(q, d) # <<>>
  BY AppendProperties
<1>4. ASSUME NEW c  PROVE Queued(c, Append(q, d)) <=> Queued(c, q) \/ c = d
  BY <1>1, <1>2, Zenon DEF Queued
<1> QED BY <1>1, <1>3, <1>4

\* A closure less at its front.
LEMMA HeadOfQueue ==
  ASSUME NEW S, NEW q \in Seq(S), q # <<>>
  PROVE  /\ Head(q) \in S /\ Tail(q) \in Seq(S)
         /\ \A c : Queued(c, q) <=> c = Head(q) \/ Queued(c, Tail(q))
<1>1. /\ Head(q) \in S /\ Tail(q) \in Seq(S) /\ Len(q) \in Nat \ {0}
      /\ Len(Tail(q)) = Len(q) - 1 /\ Head(q) = q[1]
      /\ \A n \in 1..(Len(q) - 1) : Tail(q)[n] = q[n + 1]
  OBVIOUS
<1>2. ASSUME NEW c, Queued(c, q)  PROVE c = Head(q) \/ Queued(c, Tail(q))
  <2>1. PICK n \in 1..Len(q) : q[n] = c
    BY <1>2 DEF Queued
  <2>2. CASE n = 1
    BY <1>1, <2>1, <2>2
  <2>3. CASE n # 1
    <3>1. n - 1 \in 1..(Len(q) - 1) /\ (n - 1) + 1 = n
      BY <1>1, <2>3
    <3>2. Tail(q)[n - 1] = c
      BY <1>1, <2>1, <3>1
    <3> QED BY <1>1, <3>1, <3>2 DEF Queued
  <2> QED BY <2>2, <2>3
<1>3. ASSUME NEW c, c = Head(q)  PROVE Queued(c, q)
  <2>1. 1 \in 1..Len(q)
    BY <1>1
  <2> QED BY <1>1, <1>3, <2>1 DEF Queued
<1>4. ASSUME NEW c, Queued(c, Tail(q))  PROVE Queued(c, q)
  <2>1. PICK n \in 1..(Len(q) - 1) : Tail(q)[n] = c
    BY <1>1, <1>4 DEF Queued
  <2>2. n + 1 \in 1..Len(q) /\ q[n + 1] = c
    BY <1>1, <2>1
  <2> QED BY <2>2 DEF Queued
<1> QED BY <1>1, <1>2, <1>3, <1>4

\* An empty queue.
LEMMA EmptyQueue ==
  ASSUME NEW S
  PROVE  <<>> \in Seq(S) /\ \A c : ~Queued(c, <<>>)
BY DEF Queued

\* A set of numbers that has one has a least one.
LEMMA LeastNumber ==
  ASSUME NEW T, T \subseteq Nat, T # {}
  PROVE  \E m \in T : \A n \in T : m <= n
<1>1. PICK k \in T : TRUE
  OBVIOUS
<1> DEFINE Upto == {i \in T : i <= k}
           B == {0..i : i \in Upto}
           S == 0..k
<1>2. k \in Nat /\ IsFiniteSet(S)
  BY FS_Interval
<1>3. B \subseteq SUBSET S /\ B # {}
  BY <1>1, <1>2
<1>4. PICK U \in B : \A V \in B : V \subseteq U => V = U
  <2>1. B \subseteq FiniteSubsetsOf(S)
    BY <1>2, <1>3, FS_FiniteSubsetsOfFinite
  <2> HIDE DEF S, B
  <2>2. PICK U \in B : \A V \in B : <<V, U>> \notin StrictSubsetOrdering(S)
    BY <1>2, <1>3, <2>1, FS_StrictSubsetOrderingWellFounded, WFMin
  <2> QED BY <1>3, <2>2 DEF StrictSubsetOrdering
<1>5. PICK m \in Upto : U = 0..m
  OBVIOUS
<1>6. ASSUME NEW n \in T, ~(m <= n)  PROVE FALSE
  <2>1. m \in Nat /\ n \in Nat /\ m <= k /\ n < m
    BY <1>2, <1>6
  <2>2. 0..n \in B /\ 0..n \subseteq U
    BY <1>2, <1>5, <2>1
  <2>3. 0..n = 0..m
    BY <1>4, <1>5, <2>2
  <2>4. m \in 0..m /\ m \notin 0..n
    BY <2>1
  <2> QED BY <2>3, <2>4
<1> QED BY <1>5, <1>6

-----------------------------------------------------------------------------
(***************************************************************************)
(* Without().                                                              *)
(***************************************************************************)
KeptAfter(f, q, c, n) ==
  IF n = 0 THEN <<>> ELSE IF q[n] = c THEN f[n - 1] ELSE Append(f[n - 1], q[n])
IsKept(f, q, c, m) == f = [n \in 0..m |-> KeptAfter(f, q, c, n)]

\* The recursion defines a function.
LEMMA KeptExists ==
  ASSUME NEW S, NEW q \in Seq(S), NEW c
  PROVE  \E f : IsKept(f, q, c, Len(q))
<1> SUFFICES ASSUME ~\E f : IsKept(f, q, c, Len(q))  PROVE FALSE
  OBVIOUS
<1> DEFINE Bad == {m \in Nat : ~\E f : IsKept(f, q, c, m)}
<1>1. Bad \subseteq Nat /\ Bad # {}
  <2>1. Len(q) \in Nat
    OBVIOUS
  <2> QED BY <2>1
<1>2. PICK m \in Bad : \A n \in Bad : m <= n
  <2> HIDE DEF Bad
  <2> QED BY <1>1, LeastNumber
<1>3. m \in Nat /\ ~\E f : IsKept(f, q, c, m)
  OBVIOUS
<1>4. CASE m = 0
  <2> DEFINE f == [n \in 0..m |-> <<>>]
  <2>1. \A n \in 0..m : KeptAfter(f, q, c, n) = <<>>
    BY <1>4 DEF KeptAfter
  <2> HIDE DEF KeptAfter
  <2>2. IsKept(f, q, c, m)
    BY <2>1 DEF IsKept
  <2> QED BY <1>3, <2>2
<1>5. CASE m # 0
  <2>1. m - 1 \in Nat /\ ~(m <= m - 1)
    BY <1>3, <1>5
  <2>2. PICK f : IsKept(f, q, c, m - 1)
    BY <1>2, <2>1
  <2> DEFINE g == [n \in 0..m |-> IF n = m THEN KeptAfter(f, q, c, m) ELSE f[n]]
  <2>3. ASSUME NEW n \in 0..m  PROVE g[n] = KeptAfter(g, q, c, n)
    <3>1. CASE n = 0
      <4>1. 0 \in 0..(m - 1) /\ n # m
        BY <1>5, <2>1, <3>1
      <4>2. g[n] = f[0]
        BY <3>1, <4>1
      <4>3. f[0] = KeptAfter(f, q, c, 0)
        BY <2>2, <4>1 DEF IsKept
      <4> HIDE DEF g
      <4> QED BY <3>1, <4>2, <4>3 DEF KeptAfter
    <3>2. CASE n # 0
      <4>1. n - 1 \in 0..m /\ n - 1 # m
        BY <1>3, <3>2
      <4>2. g[n - 1] = f[n - 1]
        BY <4>1
      <4>3. KeptAfter(g, q, c, n) = KeptAfter(f, q, c, n)
        <5> HIDE DEF g
        <5> QED BY <4>2 DEF KeptAfter
      <4>4. CASE n = m
        <5>1. g[n] = KeptAfter(f, q, c, n)
          BY <4>4
        <5> QED BY <4>3, <5>1
      <4>5. CASE n # m
        <5>1. n \in 0..(m - 1) /\ g[n] = f[n]
          BY <1>3, <4>5
        <5>2. f[n] = KeptAfter(f, q, c, n)
          BY <2>2, <5>1 DEF IsKept
        <5> QED BY <4>3, <5>1, <5>2
      <4> QED BY <4>4, <4>5
    <3> QED BY <3>1, <3>2
  <2>4. g = [n \in 0..m |-> g[n]]
    OBVIOUS
  <2>5. IsKept(g, q, c, m)
    <3> HIDE DEF g
    <3> QED BY <2>3, <2>4 DEF IsKept
  <2> QED BY <1>3, <2>5
<1> QED BY <1>4, <1>5

\* What has been kept of the first n closures.
KeptRight(f, S, q, c, n) ==
  /\ f[n] \in Seq(S)
  /\ \A d : Queued(d, f[n]) <=> d # c /\ \E i \in 1..n : q[i] = d

\* Without() keeps every closure but the one, and no other: a least number of closures
\* after which it does not would be one larger than a number after which it does.
LEMMA WithoutKeeps ==
  ASSUME NEW S, NEW q \in Seq(S), NEW c
  PROVE  /\ Without(q, c) \in Seq(S)
         /\ \A d : Queued(d, Without(q, c)) <=> Queued(d, q) /\ d # c
<1>0. PICK g : IsKept(g, q, c, Len(q))
  BY KeptExists
<1> DEFINE f == CHOOSE f : f = [n \in 0..Len(q) |-> IF n = 0 THEN <<>>
                  ELSE IF q[n] = c THEN f[n - 1] ELSE Append(f[n - 1], q[n])]
<1>1. f = [n \in 0..Len(q) |-> IF n = 0 THEN <<>>
             ELSE IF q[n] = c THEN f[n - 1] ELSE Append(f[n - 1], q[n])]
  BY <1>0, Zenon DEF IsKept, KeptAfter
<1>2. Without(q, c) = f[Len(q)]
  BY Zenon DEF Without
<1> HIDE DEF f
<1>3. Len(q) \in Nat /\ \A n \in 1..Len(q) : q[n] \in S
  OBVIOUS
<1>4. \A n \in 0..Len(q) : KeptRight(f, S, q, c, n)
  <2> SUFFICES ASSUME ~\A n \in 0..Len(q) : KeptRight(f, S, q, c, n)  PROVE FALSE
    OBVIOUS
  <2> DEFINE Bad == {n \in 0..Len(q) : ~KeptRight(f, S, q, c, n)}
  <2>1. Bad \subseteq Nat /\ Bad # {}
    BY <1>3
  <2>2. PICK m \in Bad : \A n \in Bad : m <= n
    <3> HIDE DEF Bad
    <3> QED BY <2>1, LeastNumber
  <2>3. m \in 0..Len(q) /\ ~KeptRight(f, S, q, c, m)
    OBVIOUS
  <2>4. CASE m = 0
    <3>1. f[m] = <<>>
      BY <1>1, <2>3, <2>4
    <3>2. 1..m = {}
      BY <2>4
    <3> QED BY <2>3, <3>1, <3>2, EmptyQueue DEF KeptRight
  <2>5. CASE m # 0
    <3>1. m - 1 \in 0..Len(q) /\ ~(m <= m - 1) /\ m \in 1..Len(q)
      BY <1>3, <2>3, <2>5
    <3>2. KeptRight(f, S, q, c, m - 1)
      BY <2>2, <3>1
    <3>3. f[m - 1] \in Seq(S) /\ \A d : Queued(d, f[m - 1]) <=> d # c /\ \E i \in 1..(m - 1) : q[i] = d
      BY <3>2, Zenon DEF KeptRight
    <3>4. \A i : i \in 1..m <=> i \in 1..(m - 1) \/ i = m
      BY <3>1
    <3>5. q[m] \in S
      BY <1>3, <3>1
    <3>6. CASE q[m] = c
      <4>1. f[m] = f[m - 1]
        BY <1>1, <2>3, <2>5, <3>6
      <4>2. ASSUME NEW d  PROVE Queued(d, f[m]) <=> d # c /\ \E i \in 1..m : q[i] = d
        BY <3>3, <3>4, <3>6, <4>1, Zenon
      <4> QED BY <2>3, <3>3, <4>1, <4>2, Zenon DEF KeptRight
    <3>7. CASE q[m] # c
      <4>1. f[m] = Append(f[m - 1], q[m])
        BY <1>1, <2>3, <2>5, <3>7
      <4>2. /\ f[m] \in Seq(S)
            /\ \A d : Queued(d, f[m]) <=> Queued(d, f[m - 1]) \/ d = q[m]
        BY <3>3, <3>5, <4>1, AppendQueue
      <4>3. ASSUME NEW d  PROVE Queued(d, f[m]) <=> d # c /\ \E i \in 1..m : q[i] = d
        BY <3>3, <3>4, <3>7, <4>2, Zenon
      <4> QED BY <2>3, <4>2, <4>3, Zenon DEF KeptRight
    <3> QED BY <3>6, <3>7
  <2> QED BY <2>4, <2>5
<1>5. KeptRight(f, S, q, c, Len(q))
  BY <1>3, <1>4
<1> QED BY <1>2, <1>5, Zenon DEF KeptRight, Queued

-----------------------------------------------------------------------------
(***************************************************************************)
(* pendings_.                                                              *)
(***************************************************************************)
PendingsType == [Priorities -> Seq(Closures)]

\* A closure is known by what it does.
LEMMA ClosuresDiffer ==
  /\ Delayed # Periodic /\ IoCallback # Periodic /\ Close # Periodic /\ Again # Periodic
  /\ Delayed # IoCallback /\ Delayed # Close /\ Delayed # Again
  /\ IoCallback # Close /\ IoCallback # Again /\ Close # Again
  /\ \A j \in Jobs : JobClosure(j) # Periodic /\ JobClosure(j) # Delayed
  /\ \A j \in Jobs : j.priority \in Priorities /\ JobClosure(j) \in Closures
  /\ {Delayed, Periodic, IoCallback, Close, Again} \subseteq Closures
<1>1. /\ Delayed # Periodic /\ IoCallback # Periodic /\ Close # Periodic /\ Again # Periodic
      /\ Delayed # IoCallback /\ Delayed # Close /\ Delayed # Again
      /\ IoCallback # Close /\ IoCallback # Again /\ Close # Again
  BY DEF Delayed, Periodic, IoCallback, Close, Again
<1>2. ASSUME NEW j \in Jobs
      PROVE  /\ JobClosure(j) # Periodic /\ JobClosure(j) # Delayed
             /\ j.priority \in Priorities
  <2>1. j.does \in Effects /\ j.priority \in Priorities
    BY JobsAssumption
  <2>2. JobClosure(j).does = j.does /\ Periodic.does = "periodic" /\ Delayed.does = "delayed"
    BY DEF JobClosure, Periodic, Delayed
  <2>3. j.does # "periodic" /\ j.does # "delayed"
    BY <2>1 DEF Effects
  <2> QED BY <2>1, <2>2, <2>3
<1> QED BY <1>1, <1>2 DEF Closures

\* A closure is added to the queue of a priority.
LEMMA AddedPendings ==
  ASSUME NEW p \in PendingsType, NEW n \in Priorities, NEW c \in Closures
  PROVE  /\ Add(p, n, c) \in PendingsType /\ ~NoPendings(Add(p, n, c))
         /\ \A m \in Priorities : \A d : Queued(d, Add(p, n, c)[m]) <=> Queued(d, p[m]) \/ (m = n /\ d = c)
<1>1. p[n] \in Seq(Closures)
  BY DEF PendingsType
<1>2. /\ Append(p[n], c) \in Seq(Closures) /\ Append(p[n], c) # <<>>
      /\ \A d : Queued(d, Append(p[n], c)) <=> Queued(d, p[n]) \/ d = c
  BY <1>1, AppendQueue
<1>3. /\ Add(p, n, c) \in PendingsType /\ Add(p, n, c)[n] = Append(p[n], c)
      /\ \A m \in Priorities \ {n} : Add(p, n, c)[m] = p[m]
  BY <1>2 DEF Add, PendingsType
<1>4. ~NoPendings(Add(p, n, c))
  BY <1>2, <1>3, Zenon DEF NoPendings
<1>5. ASSUME NEW m \in Priorities, NEW d
      PROVE  Queued(d, Add(p, n, c)[m]) <=> Queued(d, p[m]) \/ (m = n /\ d = c)
  <2>1. CASE m = n
    BY <1>2, <1>3, <2>1, Zenon
  <2>2. CASE m # n
    BY <1>3, <2>2, Zenon
  <2> QED BY <2>1, <2>2
<1> QED BY <1>3, <1>4, <1>5

\* The first closure of a queue is taken.
LEMMA TakenPendings ==
  ASSUME NEW p \in PendingsType, NEW n \in Priorities, p[n] # <<>>
  PROVE  /\ [p EXCEPT ![n] = Tail(@)] \in PendingsType
         /\ \A m \in Priorities : \A d :
              Queued(d, p[m]) <=> Queued(d, [p EXCEPT ![n] = Tail(@)][m]) \/ (m = n /\ d = Head(p[n]))
<1>1. p[n] \in Seq(Closures)
  BY DEF PendingsType
<1>2. /\ Tail(p[n]) \in Seq(Closures)
      /\ \A d : Queued(d, p[n]) <=> d = Head(p[n]) \/ Queued(d, Tail(p[n]))
  BY <1>1, HeadOfQueue
<1> DEFINE r == [p EXCEPT ![n] = Tail(@)]
<1>3. /\ r \in PendingsType /\ r[n] = Tail(p[n])
      /\ \A m \in Priorities \ {n} : r[m] = p[m]
  BY <1>2 DEF PendingsType
<1> HIDE DEF r
<1>4. ASSUME NEW m \in Priorities, NEW d
      PROVE  Queued(d, p[m]) <=> Queued(d, r[m]) \/ (m = n /\ d = Head(p[n]))
  <2>1. CASE m = n
    BY <1>2, <1>3, <2>1, Zenon
  <2>2. CASE m # n
    BY <1>3, <2>2, Zenon
  <2> QED BY <2>1, <2>2
<1>5. r \in PendingsType /\ \A m \in Priorities : \A d : Queued(d, p[m]) <=> Queued(d, r[m]) \/ (m = n /\ d = Head(p[n]))
  BY <1>3, <1>4
<1> QED BY <1>5 DEF r

\* If there are closures, there are some of the highest priority.
LEMMA HighestPendings ==
  ASSUME NEW p \in PendingsType, ~NoPendings(p)
  PROVE  Highest(p) \in Priorities /\ p[Highest(p)] # <<>>
<1>1. \E n \in Priorities : p[n] # <<>> /\ \A m \in Priorities : m > n => p[m] = <<>>
  BY DEF NoPendings, Priorities, LOW, IMMEDIATE
<1> QED BY <1>1, Zenon DEF Highest

\* Unregistered() takes the periodic closure away, and nothing else.
LEMMA UnregisteredPendings ==
  ASSUME NEW p \in PendingsType
  PROVE  /\ Unregistered(p) \in PendingsType
         /\ ~Queued(Periodic, Unregistered(p)[IMMEDIATE])
         /\ \A m \in Priorities : \A d : Queued(d, Unregistered(p)[m]) => Queued(d, p[m])
         /\ \A m \in Priorities : \A d : Queued(d, p[m]) /\ d # Periodic => Queued(d, Unregistered(p)[m])
<1>1. IMMEDIATE \in Priorities
  BY DEF IMMEDIATE, Priorities, LOW
<1>2. p[IMMEDIATE] \in Seq(Closures)
  BY <1>1 DEF PendingsType
<1> DEFINE w == Without(p[IMMEDIATE], Periodic)
<1>3. w \in Seq(Closures) /\ \A d : Queued(d, w) <=> Queued(d, p[IMMEDIATE]) /\ d # Periodic
  BY <1>2, WithoutKeeps
<1> HIDE DEF w
<1>4. Unregistered(p) = [p EXCEPT ![IMMEDIATE] = w]
  BY DEF Unregistered, w
<1>5. /\ Unregistered(p) \in PendingsType /\ Unregistered(p)[IMMEDIATE] = w
      /\ \A m \in Priorities \ {IMMEDIATE} : Unregistered(p)[m] = p[m]
  BY <1>1, <1>3, <1>4 DEF PendingsType
<1>6. ASSUME NEW m \in Priorities, NEW d
      PROVE  /\ Queued(d, Unregistered(p)[m]) => Queued(d, p[m])
             /\ Queued(d, p[m]) /\ d # Periodic => Queued(d, Unregistered(p)[m])
  <2>1. CASE m = IMMEDIATE
    BY <1>3, <1>5, <2>1, Zenon
  <2>2. CASE m # IMMEDIATE
    BY <1>5, <2>2, Zenon
  <2> QED BY <2>1, <2>2
<1>7. ~Queued(Periodic, Unregistered(p)[IMMEDIATE])
  BY <1>3, <1>5, Zenon
<1> QED BY <1>5, <1>6, <1>7

-----------------------------------------------------------------------------
(***************************************************************************)
(* The steps.                                                              *)
(***************************************************************************)
LEMMA WorkerInvInit == WorkerInit => WorkerInv
<1> SUFFICES ASSUME WorkerInit  PROVE WorkerInv
  OBVIOUS
<1>1. /\ dispatch = "next" /\ delayed = "none" /\ stale = FALSE
      /\ pendings = [n \in Priorities |-> <<>>]
      /\ \E js \in JobSets : job = [j \in Jobs |-> IF j \in js THEN "new" ELSE "unused"]
  BY DEF WorkerInit
<1>2. \A n \in Priorities : pendings[n] = <<>>
  BY <1>1
<1>3. pendings \in [Priorities -> Seq(Closures)]
  BY <1>1, EmptyQueue
<1>4. \A n \in Priorities : \A c : ~Queued(c, pendings[n])
  BY <1>2, EmptyQueue
<1>5. /\ job \in [Jobs -> {"unused", "new", "posted", "ran"}]
      /\ \A j \in Jobs : job[j] # "posted"
  BY <1>1
<1>6. WorkerTypes
  BY <1>1, <1>3, <1>5 DEF WorkerTypes
<1>7. PostedIsThere /\ DelayedIsThere /\ EndedIsThrough /\ NoLostWakeup /\ CanceledNeverRuns
  BY <1>1, <1>5 DEF PostedIsThere, DelayedIsThere, EndedIsThrough, NoLostWakeup, CanceledNeverRuns
<1>8. PeriodicIsOnlyThere
  <2>1. IMMEDIATE \in Priorities
    BY DEF IMMEDIATE, Priorities, LOW
  <2> QED BY <1>1, <1>4, <2>1 DEF PeriodicIsOnlyThere, Running
<1> QED BY <1>6, <1>7, <1>8 DEF WorkerInv

\* A client posts a closure.
LEMMA RunClosureKeeps ==
  ASSUME WorkerInv, NEW j \in Jobs, RunClosure(j)
  PROVE  WorkerInv'
<1>1. /\ ~quitting /\ job' = [job EXCEPT ![j] = "posted"]
      /\ pendings' = Add(pendings, j.priority, JobClosure(j))
      /\ signaling' = IF current # Nobody THEN signaling ELSE signaling \cup {j}
      /\ dispatch' = dispatch /\ current' = current /\ signaled' = signaled
      /\ poll_zero' = poll_zero /\ delayed' = delayed /\ periodic' = periodic
      /\ stale' = stale
  BY DEF RunClosure
<1>2. /\ pendings \in PendingsType /\ job \in [Jobs -> {"unused", "new", "posted", "ran"}]
      /\ dispatch = "poll" => current = Nobody
  BY DEF WorkerInv, WorkerTypes, PendingsType
<1>3. j.priority \in Priorities /\ JobClosure(j) \in Closures /\ JobClosure(j) # Periodic
  BY ClosuresDiffer
<1>4. /\ pendings' \in PendingsType
      /\ \A m \in Priorities : \A d :
           Queued(d, pendings'[m]) <=> Queued(d, pendings[m]) \/ (m = j.priority /\ d = JobClosure(j))
  BY <1>1, <1>2, <1>3, AddedPendings
<1>5. IMMEDIATE \in Priorities
  BY DEF IMMEDIATE, Priorities, LOW
<1>6. WorkerTypes'
  BY <1>1, <1>2, <1>4 DEF WorkerTypes, PendingsType
<1>7. ASSUME NEW i \in Jobs, job'[i] = "posted"
      PROVE  Queued(JobClosure(i), pendings'[i.priority]) \/ (dispatch' = "run" /\ current' = JobClosure(i))
  <2>1. i.priority \in Priorities
    BY ClosuresDiffer
  <2>2. CASE i = j
    BY <1>4, <2>1, <2>2
  <2>3. CASE i # j
    <3>1. job[i] = "posted"
      BY <1>1, <1>2, <1>7, <2>3
    <3>2. Queued(JobClosure(i), pendings[i.priority]) \/ (dispatch = "run" /\ current = JobClosure(i))
      BY <3>1 DEF WorkerInv, PostedIsThere, Running
    <3> QED BY <1>1, <1>4, <2>1, <3>2
  <2> QED BY <2>2, <2>3
<1>8. PostedIsThere'
  BY <1>7 DEF PostedIsThere, Running
<1>9. DelayedIsThere'
  BY <1>1, <1>4, <1>5 DEF WorkerInv, DelayedIsThere, Running
<1>10. PeriodicIsOnlyThere'
  <2>1. \A m \in Priorities : Queued(Periodic, pendings'[m]) => Queued(Periodic, pendings[m])
    BY <1>3, <1>4
  <2> QED BY <1>1, <1>5, <2>1 DEF WorkerInv, PeriodicIsOnlyThere, Running
<1>11. EndedIsThrough'
  BY <1>1 DEF WorkerInv, EndedIsThrough, Through
<1>12. NoLostWakeup'
  BY <1>1, <1>2 DEF NoLostWakeup
<1>13. CanceledNeverRuns'
  BY <1>1 DEF WorkerInv, CanceledNeverRuns
<1> QED BY <1>6, <1>8, <1>9, <1>10, <1>11, <1>12, <1>13 DEF WorkerInv

\* A step that moves no closure: Signal(), Shutdown(), Quit() and none at all.
LEMMA WorkerAside ==
  ASSUME WorkerInv,
         pendings' = pendings, job' = job, dispatch' = dispatch, current' = current,
         delayed' = delayed, periodic' = periodic, socket' = socket, stale' = stale,
         poll_zero' = poll_zero, quitting => quitting',
         signaled \/ signaling # {} => signaled' \/ signaling' # {}
  PROVE  WorkerInv'
<1>1. WorkerTypes'
  BY DEF WorkerInv, WorkerTypes
<1>2. PostedIsThere' /\ DelayedIsThere'
  BY DEF WorkerInv, PostedIsThere, DelayedIsThere, Running
<1>3. PeriodicIsOnlyThere'
  BY DEF WorkerInv, PeriodicIsOnlyThere, Running
<1>4. EndedIsThrough'
  BY DEF WorkerInv, EndedIsThrough, Through, NoPendings
<1>5. NoLostWakeup'
  BY DEF WorkerInv, NoLostWakeup, NoPendings
<1>6. CanceledNeverRuns'
  BY DEF WorkerInv, CanceledNeverRuns
<1> QED BY <1>1, <1>2, <1>3, <1>4, <1>5, <1>6 DEF WorkerInv

\* The thread takes the first closure of a queue, out of what is there then.
LEMMA TakeKeeps ==
  ASSUME WorkerTypes, PostedIsThere, CanceledNeverRuns,
         dispatch # "run",
         NEW p \in PendingsType, NEW n \in Priorities, p[n] # <<>>,
         \A m \in Priorities : \A d : Queued(d, pendings[m]) => Queued(d, p[m]),
         delayed' = "queued" => Queued(Delayed, p[IMMEDIATE]),
         \A m \in Priorities \ {IMMEDIATE} : ~Queued(Periodic, p[m]),
         periodic # "registered" => ~Queued(Periodic, p[IMMEDIATE]),
         pendings' = [p EXCEPT ![n] = Tail(@)], current' = Head(p[n]),
         dispatch' = "run", job' = job, periodic' = periodic, stale' = stale
  PROVE  WorkerInv'
<1>1. /\ pendings' \in PendingsType
      /\ \A m \in Priorities : \A d : Queued(d, p[m]) <=> Queued(d, pendings'[m]) \/ (m = n /\ d = Head(p[n]))
  BY TakenPendings
<1>2. IMMEDIATE \in Priorities
  BY DEF IMMEDIATE, Priorities, LOW
<1>3. WorkerTypes'
  BY <1>1 DEF WorkerTypes, PendingsType
<1>4. ASSUME NEW j \in Jobs, job'[j] = "posted"
      PROVE  Queued(JobClosure(j), pendings'[j.priority]) \/ (dispatch' = "run" /\ current' = JobClosure(j))
  <2>1. j.priority \in Priorities
    BY ClosuresDiffer
  <2>2. Queued(JobClosure(j), pendings[j.priority])
    BY <1>4 DEF PostedIsThere, Running
  <2>3. Queued(JobClosure(j), p[j.priority])
    BY <2>1, <2>2
  <2> QED BY <1>1, <2>1, <2>3
<1>5. PostedIsThere'
  BY <1>4 DEF PostedIsThere, Running
<1>6. DelayedIsThere'
  BY <1>1, <1>2 DEF DelayedIsThere, Running
<1>7. PeriodicIsOnlyThere'
  <2>1. \A m \in Priorities : Queued(Periodic, pendings'[m]) => Queued(Periodic, p[m])
    BY <1>1
  <2>2. current' = Periodic => Queued(Periodic, p[n])
    BY <1>1
  <2>3. periodic # "registered" => current' # Periodic
    BY <2>2
  <2> QED BY <1>2, <2>1, <2>3 DEF PeriodicIsOnlyThere, Running
<1>8. EndedIsThrough' /\ NoLostWakeup' /\ CanceledNeverRuns'
  BY DEF EndedIsThrough, NoLostWakeup, CanceledNeverRuns
<1> QED BY <1>3, <1>5, <1>6, <1>7, <1>8 DEF WorkerInv

\* The thread takes an immediate closure, or polls.
LEMMA NextClosureKeeps ==
  ASSUME WorkerInv, NextClosure
  PROVE  WorkerInv'
<1>1. /\ dispatch = "next" /\ delayed' = delayed /\ periodic' = periodic /\ job' = job
      /\ stale' = stale
  BY DEF NextClosure
<1>2. /\ WorkerTypes /\ PostedIsThere /\ CanceledNeverRuns /\ DelayedIsThere /\ PeriodicIsOnlyThere
      /\ pendings \in PendingsType
  BY DEF WorkerInv, WorkerTypes, PendingsType
<1>3. IMMEDIATE \in Priorities
  BY DEF IMMEDIATE, Priorities, LOW
<1>4. CASE pendings[IMMEDIATE] # <<>>
  <2>1. /\ current' = Head(pendings[IMMEDIATE]) /\ dispatch' = "run"
        /\ pendings' = [pendings EXCEPT ![IMMEDIATE] = Tail(@)]
    BY <1>4 DEF NextClosure
  <2>2. delayed' = "queued" => Queued(Delayed, pendings[IMMEDIATE])
    BY <1>1, <1>2 DEF DelayedIsThere, Running
  <2>3. /\ \A m \in Priorities \ {IMMEDIATE} : ~Queued(Periodic, pendings[m])
        /\ periodic # "registered" => ~Queued(Periodic, pendings[IMMEDIATE])
    BY <1>2 DEF PeriodicIsOnlyThere
  <2> QED BY <1>1, <1>2, <1>3, <1>4, <2>1, <2>2, <2>3, TakeKeeps
<1>5. CASE pendings[IMMEDIATE] = <<>>
  <2>1. /\ current' = Nobody /\ dispatch' = "poll" /\ pendings' = pendings
        /\ poll_zero' = ~NoPendings(pendings)
    BY <1>5 DEF NextClosure
  <2>2. WorkerTypes'
    BY <1>1, <1>2, <2>1 DEF WorkerTypes
  <2>3. PostedIsThere' /\ DelayedIsThere' /\ PeriodicIsOnlyThere'
    BY <1>1, <1>2, <2>1 DEF PostedIsThere, DelayedIsThere, PeriodicIsOnlyThere, Running
  <2>4. EndedIsThrough' /\ NoLostWakeup' /\ CanceledNeverRuns'
    BY <1>1, <1>2, <2>1 DEF EndedIsThrough, NoLostWakeup, CanceledNeverRuns, NoPendings
  <2> QED BY <2>2, <2>3, <2>4 DEF WorkerInv
<1> QED BY <1>4, <1>5

\* What a poll adds to the queues.
LEMMA GatheredPendings ==
  ASSUME pendings \in PendingsType, NEW due, NEW tick, NEW ready
  PROVE  /\ Gathered(due, tick, ready) \in PendingsType
         /\ \A m \in Priorities : \A d :
              /\ Queued(d, pendings[m]) => Queued(d, Gathered(due, tick, ready)[m])
              /\ Queued(d, Gathered(due, tick, ready)[m])
                   => \/ Queued(d, pendings[m]) \/ d \in {Delayed, IoCallback}
                      \/ (tick /\ m = IMMEDIATE)
         /\ due => Queued(Delayed, Gathered(due, tick, ready)[IMMEDIATE])
<1>1. IMMEDIATE \in Priorities /\ MED \in Priorities
  BY DEF IMMEDIATE, Priorities, LOW, MED
<1>2. Delayed \in Closures /\ Periodic \in Closures /\ IoCallback \in Closures
  BY ClosuresDiffer
<1>3. PICK a : a = IF due THEN Add(pendings, IMMEDIATE, Delayed) ELSE pendings
  OBVIOUS
<1>4. PICK b : b = IF tick THEN Add(a, IMMEDIATE, Periodic) ELSE a
  OBVIOUS
<1>5. PICK e : e = IF ready THEN Add(b, MED, IoCallback) ELSE b
  OBVIOUS
<1>6. e = Gathered(due, tick, ready)
  BY <1>3, <1>4, <1>5, Zenon DEF Gathered
<1>7. /\ a \in PendingsType
      /\ due => Queued(Delayed, a[IMMEDIATE])
      /\ \A m \in Priorities : \A d :
           /\ Queued(d, pendings[m]) => Queued(d, a[m])
           /\ Queued(d, a[m]) => Queued(d, pendings[m]) \/ d = Delayed
  <2>1. CASE due
    <3>1. a = Add(pendings, IMMEDIATE, Delayed)
      BY <1>3, <2>1
    <3>2. /\ a \in PendingsType
          /\ \A m \in Priorities : \A d :
               Queued(d, a[m]) <=> Queued(d, pendings[m]) \/ (m = IMMEDIATE /\ d = Delayed)
      BY <1>1, <1>2, <3>1, AddedPendings
    <3> QED BY <1>1, <3>2
  <2>2. CASE ~due
    <3>1. a = pendings
      BY <1>3, <2>2
    <3> QED BY <2>2, <3>1
  <2> QED BY <2>1, <2>2
<1>8. /\ b \in PendingsType
      /\ \A m \in Priorities : \A d :
           /\ Queued(d, a[m]) => Queued(d, b[m])
           /\ Queued(d, b[m]) => Queued(d, a[m]) \/ (tick /\ m = IMMEDIATE)
  <2>1. CASE tick
    <3>1. b = Add(a, IMMEDIATE, Periodic)
      BY <1>4, <2>1
    <3> QED BY <1>1, <1>2, <1>7, <2>1, <3>1, AddedPendings
  <2>2. CASE ~tick
    <3>1. b = a
      BY <1>4, <2>2
    <3> QED BY <1>7, <3>1
  <2> QED BY <2>1, <2>2
<1>9. /\ e \in PendingsType
      /\ \A m \in Priorities : \A d :
           /\ Queued(d, b[m]) => Queued(d, e[m])
           /\ Queued(d, e[m]) => Queued(d, b[m]) \/ d = IoCallback
  <2>1. CASE ready
    <3>1. e = Add(b, MED, IoCallback)
      BY <1>5, <2>1
    <3> QED BY <1>1, <1>2, <1>8, <3>1, AddedPendings
  <2>2. CASE ~ready
    <3>1. e = b
      BY <1>5, <2>2
    <3> QED BY <1>8, <3>1
  <2> QED BY <2>1, <2>2
<1>10. ASSUME NEW m \in Priorities, NEW d
       PROVE  /\ Queued(d, pendings[m]) => Queued(d, e[m])
              /\ Queued(d, e[m]) => \/ Queued(d, pendings[m]) \/ d \in {Delayed, IoCallback}
                                    \/ (tick /\ m = IMMEDIATE)
  BY <1>7, <1>8, <1>9, Zenon
<1>11. due => Queued(Delayed, e[IMMEDIATE])
  BY <1>1, <1>7, <1>8, <1>9
<1> QED BY <1>6, <1>9, <1>10, <1>11

\* The poll is over: the thread takes a closure, or ends, or goes on.
LEMMA PollKeeps ==
  ASSUME WorkerInv, NEW due, NEW tick, NEW ready, PollEvents(due, tick, ready)
  PROVE  WorkerInv'
<1>1. /\ dispatch = "poll"
      /\ due => delayed = "waiting"
      /\ tick => periodic = "registered"
      /\ delayed' = IF due THEN "queued" ELSE delayed
      /\ periodic' = periodic /\ socket' = socket /\ job' = job /\ quitting' = quitting
      /\ stale' = stale
  BY DEF PollEvents
<1>2. /\ WorkerTypes /\ PostedIsThere /\ CanceledNeverRuns /\ DelayedIsThere /\ PeriodicIsOnlyThere
      /\ pendings \in PendingsType
  BY DEF WorkerInv, WorkerTypes, PendingsType
<1>3. IMMEDIATE \in Priorities
  BY DEF IMMEDIATE, Priorities, LOW
<1>4. PICK p : p = Gathered(due, tick, ready)
  OBVIOUS
<1>5. /\ p \in PendingsType
      /\ \A m \in Priorities : \A d : Queued(d, pendings[m]) => Queued(d, p[m])
      /\ \A m \in Priorities : \A d : Queued(d, p[m])
           => \/ Queued(d, pendings[m]) \/ d \in {Delayed, IoCallback} \/ (tick /\ m = IMMEDIATE)
      /\ due => Queued(Delayed, p[IMMEDIATE])
  BY <1>2, <1>4, GatheredPendings
<1>6. delayed' = "queued" => Queued(Delayed, p[IMMEDIATE])
  <2>1. delayed = "queued" => Queued(Delayed, pendings[IMMEDIATE])
    BY <1>1, <1>2 DEF DelayedIsThere, Running
  <2> QED BY <1>1, <1>3, <1>5, <2>1
<1>7. /\ \A m \in Priorities \ {IMMEDIATE} : ~Queued(Periodic, p[m])
      /\ periodic # "registered" => ~Queued(Periodic, p[IMMEDIATE])
  <2>1. Periodic \notin {Delayed, IoCallback}
    BY ClosuresDiffer
  <2>2. /\ \A m \in Priorities \ {IMMEDIATE} : ~Queued(Periodic, pendings[m])
        /\ periodic # "registered" => ~Queued(Periodic, pendings[IMMEDIATE])
    BY <1>2 DEF PeriodicIsOnlyThere
  <2> QED BY <1>1, <1>3, <1>5, <2>1, <2>2
<1>8. CASE NoPendings(p)
  <2>1. /\ dispatch' = IF Through THEN "ended" ELSE "next"
        /\ pendings' = p
    BY <1>4, <1>8 DEF PollEvents
  <2>2. \A m \in Priorities : \A d : ~Queued(d, p[m])
    BY <1>8, EmptyQueue DEF NoPendings
  <2>3. ~due /\ delayed' = delayed /\ delayed' # "queued"
    BY <1>1, <1>3, <1>5, <1>6, <2>2
  <2>4. \A j \in Jobs : job[j] # "posted"
    <3> SUFFICES ASSUME NEW j \in Jobs, job[j] = "posted"  PROVE FALSE
      OBVIOUS
    <3>1. Queued(JobClosure(j), pendings[j.priority])
      BY <1>1, <1>2 DEF PostedIsThere, Running
    <3> QED BY <1>5, <2>2, <3>1, ClosuresDiffer
  <2>5. WorkerTypes'
    BY <1>1, <1>2, <1>5, <2>1 DEF WorkerTypes, PendingsType
  <2>6. PostedIsThere' /\ DelayedIsThere'
    BY <1>1, <2>3, <2>4 DEF PostedIsThere, DelayedIsThere
  <2>7. PeriodicIsOnlyThere'
    BY <1>1, <1>3, <2>1, <2>2 DEF PeriodicIsOnlyThere, Running
  <2>8. EndedIsThrough'
    BY <1>1, <1>8, <2>1, <2>3 DEF EndedIsThrough, Through, NoPendings
  <2>9. NoLostWakeup' /\ CanceledNeverRuns'
    BY <1>1, <1>2, <2>1 DEF NoLostWakeup, CanceledNeverRuns
  <2> QED BY <2>5, <2>6, <2>7, <2>8, <2>9 DEF WorkerInv
<1>9. CASE ~NoPendings(p)
  <2>1. /\ dispatch' = "run" /\ current' = Head(p[Highest(p)])
        /\ pendings' = [p EXCEPT ![Highest(p)] = Tail(@)]
    BY <1>4, <1>9 DEF PollEvents
  <2>2. PICK n : n = Highest(p)
    OBVIOUS
  <2>3. n \in Priorities /\ p[n] # <<>>
    BY <1>5, <1>9, <2>2, HighestPendings
  <2>4. pendings' = [p EXCEPT ![n] = Tail(@)] /\ current' = Head(p[n]) /\ dispatch # "run"
    BY <1>1, <2>1, <2>2
  <2> QED BY <1>1, <1>2, <1>5, <1>6, <1>7, <2>1, <2>3, <2>4, TakeKeeps
<1> QED BY <1>8, <1>9

\* The thread has run a closure: it is not in the queues any more, what it has
\* added is.
LEMMA RanKeeps ==
  ASSUME WorkerInv, dispatch = "run", dispatch' = "next",
         job' = [j \in Jobs |-> IF current = JobClosure(j) THEN "ran" ELSE job[j]],
         pendings' \in PendingsType,
         \A m \in Priorities : \A d : Queued(d, pendings[m]) /\ d # Periodic => Queued(d, pendings'[m]),
         \A m \in Priorities : Queued(Periodic, pendings'[m]) => Queued(Periodic, pendings[m]),
         periodic' # "registered" => periodic # "registered" \/ ~Queued(Periodic, pendings'[IMMEDIATE]),
         delayed' = "queued" => delayed = "queued" /\ current # Delayed,
         ~stale'
  PROVE  WorkerInv'
<1>1. /\ WorkerTypes /\ PostedIsThere /\ DelayedIsThere /\ PeriodicIsOnlyThere
  BY DEF WorkerInv
<1>2. IMMEDIATE \in Priorities /\ Delayed # Periodic
  BY ClosuresDiffer DEF IMMEDIATE, Priorities, LOW
<1>3. WorkerTypes'
  BY <1>1 DEF WorkerTypes, PendingsType
<1>4. ASSUME NEW j \in Jobs, job'[j] = "posted"
      PROVE  Queued(JobClosure(j), pendings'[j.priority])
  <2>1. current # JobClosure(j) /\ job[j] = "posted"
    BY <1>4
  <2>2. Queued(JobClosure(j), pendings[j.priority])
    BY <1>1, <2>1 DEF PostedIsThere, Running
  <2> QED BY <2>2, ClosuresDiffer
<1>5. PostedIsThere'
  BY <1>4 DEF PostedIsThere
<1>6. DelayedIsThere'
  <2>1. delayed' = "queued" => Queued(Delayed, pendings[IMMEDIATE])
    BY <1>1 DEF DelayedIsThere, Running
  <2> QED BY <1>2, <2>1 DEF DelayedIsThere
<1>7. PeriodicIsOnlyThere'
  <2>1. /\ \A m \in Priorities \ {IMMEDIATE} : ~Queued(Periodic, pendings[m])
        /\ periodic # "registered" => ~Queued(Periodic, pendings[IMMEDIATE])
    BY <1>1 DEF PeriodicIsOnlyThere
  <2> QED BY <1>2, <2>1 DEF PeriodicIsOnlyThere, Running
<1>8. EndedIsThrough' /\ NoLostWakeup' /\ CanceledNeverRuns'
  BY DEF EndedIsThrough, NoLostWakeup, CanceledNeverRuns
<1> QED BY <1>3, <1>5, <1>6, <1>7, <1>8 DEF WorkerInv

\* Each closure, whatever it does.
LEMMA RunKeeps ==
  ASSUME WorkerInv, RunCurrent
  PROVE  WorkerInv'
<1>1. /\ dispatch = "run" /\ dispatch' = "next"
      /\ job' = [j \in Jobs |-> IF current = JobClosure(j) THEN "ran" ELSE job[j]]
  BY DEF RunCurrent
<1>2. pendings \in PendingsType /\ ~stale /\ PeriodicIsOnlyThere
  BY DEF WorkerInv, WorkerTypes, PendingsType, CanceledNeverRuns
<1>3. LOW \in Priorities /\ MED \in Priorities /\ IMMEDIATE \in Priorities
  BY DEF LOW, MED, IMMEDIATE, Priorities
<1>4. CASE current = Delayed
  <2>1. /\ delayed' = "gone" /\ delayed_todo' = RunDelayed(delayed_todo)
        /\ stale' = (stale \/ <<delayed_todo, delayed_todo'>> = <<"canceled", "ran">>)
        /\ pendings' = pendings /\ periodic' = periodic
    BY <1>4, ClosuresDiffer DEF RunCurrent
  <2>2. ~stale'
    BY <1>2, <2>1 DEF RunDelayed
  <2> QED BY <1>1, <1>2, <2>1, <2>2, RanKeeps
<1>5. CASE current = Periodic
  <2>1. /\ stale' = (stale \/ periodic # "registered")
        /\ pendings' = pendings /\ periodic' = periodic /\ delayed' = delayed
    BY <1>5, ClosuresDiffer DEF RunCurrent
  <2>2. ~stale'
    BY <1>1, <1>2, <1>5, <2>1 DEF PeriodicIsOnlyThere, Running
  <2>3. current # Delayed
    BY <1>5, ClosuresDiffer
  <2> QED BY <1>1, <1>2, <2>1, <2>2, <2>3, RanKeeps
<1>6. CASE current = IoCallback /\ current # Delayed /\ current # Periodic
  <2>1. RunIo
    BY <1>6, ClosuresDiffer DEF RunCurrent
  <2>2. /\ periodic' = periodic /\ delayed' = delayed /\ ~stale'
        /\ (pendings' = pendings \/ pendings' = Add(pendings, MED, Close))
    BY <1>2, <2>1 DEF RunIo
  <2>3. CASE pendings' = pendings
    BY <1>1, <1>2, <1>6, <2>2, <2>3, RanKeeps
  <2>4. CASE pendings' = Add(pendings, MED, Close)
    <3>1. /\ pendings' \in PendingsType
          /\ \A m \in Priorities : \A d : Queued(d, pendings'[m]) <=> Queued(d, pendings[m]) \/ (m = MED /\ d = Close)
      BY <1>2, <1>3, <2>4, AddedPendings, ClosuresDiffer
    <3>2. \A m \in Priorities : Queued(Periodic, pendings'[m]) => Queued(Periodic, pendings[m])
      BY <3>1, ClosuresDiffer
    <3> QED BY <1>1, <1>6, <2>2, <3>1, <3>2, RanKeeps
  <2> QED BY <2>2, <2>3, <2>4
<1>7. CASE current = Close /\ current # Delayed /\ current # Periodic /\ current # IoCallback
  <2>1. /\ pendings' = pendings /\ periodic' = periodic /\ delayed' = delayed /\ stale' = stale
    BY <1>7, ClosuresDiffer DEF RunCurrent
  <2> QED BY <1>1, <1>2, <1>7, <2>1, RanKeeps
<1>8. CASE /\ current = Again /\ current # Delayed /\ current # Periodic /\ current # IoCallback
           /\ current # Close
  <2>1. /\ pendings' = pendings /\ periodic' = periodic /\ delayed' = delayed /\ stale' = stale
    BY <1>8, ClosuresDiffer DEF RunCurrent
  <2> QED BY <1>1, <1>2, <1>8, <2>1, RanKeeps
<1>9. CASE /\ current # Delayed /\ current # Periodic /\ current # IoCallback
           /\ current # Close /\ current # Again
  <2>1. Effect(current.does)
    BY <1>9, ClosuresDiffer DEF RunCurrent
  <2>2. /\ delayed' = "queued" => delayed = "queued" /\ current # Delayed
        /\ ~stale'
    BY <1>2, <1>9, <2>1 DEF Effect
  <2>3. CASE current.does = "unregister"
    <3>1. pendings' = Unregistered(pendings)
      BY <2>1, <2>3 DEF Effect
    <3>2. /\ pendings' \in PendingsType
          /\ ~Queued(Periodic, pendings'[IMMEDIATE])
          /\ \A m \in Priorities : \A d : Queued(d, pendings'[m]) => Queued(d, pendings[m])
          /\ \A m \in Priorities : \A d : Queued(d, pendings[m]) /\ d # Periodic => Queued(d, pendings'[m])
      BY <1>2, <3>1, UnregisteredPendings
    <3> QED BY <1>1, <2>2, <3>2, RanKeeps
  <2>4. CASE current.does = "again"
    <3>1. pendings' = Add(pendings, LOW, Again) /\ periodic' = periodic
      BY <2>1, <2>4 DEF Effect
    <3>2. /\ pendings' \in PendingsType
          /\ \A m \in Priorities : \A d : Queued(d, pendings'[m]) <=> Queued(d, pendings[m]) \/ (m = LOW /\ d = Again)
      BY <1>2, <1>3, <3>1, AddedPendings, ClosuresDiffer
    <3>3. \A m \in Priorities : Queued(Periodic, pendings'[m]) => Queued(Periodic, pendings[m])
      BY <3>2, ClosuresDiffer
    <3> QED BY <1>1, <2>2, <3>1, <3>2, <3>3, RanKeeps
  <2>5. CASE current.does # "unregister" /\ current.does # "again"
    <3>1. pendings' = pendings /\ (periodic' = "registered" \/ periodic' = periodic)
      BY <2>1, <2>5 DEF Effect
    <3> QED BY <1>1, <1>2, <2>2, <3>1, RanKeeps
  <2> QED BY <2>3, <2>4, <2>5
<1> QED BY <1>4, <1>5, <1>6, <1>7, <1>8, <1>9

\* Every step.
LEMMA WorkerInvNext == WorkerInv /\ [WorkerNext]_worker_vars => WorkerInv'
<1> SUFFICES ASSUME WorkerInv, [WorkerNext]_worker_vars  PROVE WorkerInv'
  OBVIOUS
<1>1. ASSUME NEW j \in Jobs, RunClosure(j)  PROVE WorkerInv'
  BY <1>1, RunClosureKeeps
<1>2. ASSUME NEW j \in Jobs, Signal(j)  PROVE WorkerInv'
  BY <1>2, WorkerAside DEF Signal
<1>3. CASE Shutdown
  BY <1>3, WorkerAside DEF Shutdown
<1>4. CASE Quit
  BY <1>4, WorkerAside DEF Quit
<1>5. CASE NextClosure
  BY <1>5, NextClosureKeeps
<1>6. CASE RunCurrent
  BY <1>6, RunKeeps
<1>7. ASSUME NEW due \in BOOLEAN, NEW tick \in BOOLEAN, NEW ready \in BOOLEAN,
             PollEvents(due, tick, ready)
      PROVE  WorkerInv'
  BY <1>7, PollKeeps
<1>8. CASE UNCHANGED worker_vars
  BY <1>8, WorkerAside DEF worker_vars
<1> QED BY <1>1, <1>2, <1>3, <1>4, <1>5, <1>6, <1>7, <1>8 DEF WorkerNext

\* The invariant says what RunOrCanceled says.
LEMMA WorkerInvSuffices == WorkerInv => RunOrCanceled
<1> SUFFICES ASSUME WorkerInv  PROVE RunOrCanceled
  OBVIOUS
<1>1. NoLostWakeup /\ CanceledNeverRuns
  BY DEF WorkerInv
<1>2. ASSUME dispatch = "ended"
      PROVE  /\ NoPendings(pendings) /\ delayed \notin {"waiting", "queued"}
             /\ periodic # "registered" /\ socket \notin {"open", "stopped"}
             /\ \A j \in Jobs : job[j] # "posted"
  <2>1. NoPendings(pendings) /\ Through
    BY <1>2 DEF WorkerInv, EndedIsThrough
  <2>2. \A n \in Priorities : \A c : ~Queued(c, pendings[n])
    BY <2>1, EmptyQueue DEF NoPendings
  <2>3. \A j \in Jobs : job[j] # "posted"
    BY <1>2, <2>2, ClosuresDiffer DEF WorkerInv, PostedIsThere, Running
  <2>4. delayed # "queued"
    <3>1. IMMEDIATE \in Priorities
      BY DEF IMMEDIATE, Priorities, LOW
    <3> QED BY <1>2, <2>2, <3>1 DEF WorkerInv, DelayedIsThere, Running
  <2> QED BY <2>1, <2>3, <2>4 DEF Through
<1>3. EndsDrained
  BY <1>2 DEF EndsDrained
<1> QED BY <1>1, <1>3 DEF RunOrCanceled

\* RunOrCanceled holds for every set of jobs: no wakeup is lost, a closure that
\* was canceled or unregistered does not run, and the CHECKs at the end of
\* ThreadMain() hold.
THEOREM ClosuresRunOrAreCanceled == WorkerSpec => []RunOrCanceled
<1>1. WorkerInv /\ [WorkerNext]_worker_vars => WorkerInv'
  BY WorkerInvNext
<1>2. WorkerInit => WorkerInv
  BY WorkerInvInit
<1> QED BY <1>1, <1>2, WorkerInvSuffices, PTL DEF WorkerSpec

-----------------------------------------------------------------------------
(***************************************************************************)
(* RefreshExact and RequestsExact of HttpClient, for any number of         *)
(* requests, any settings, and whatever the servers answer.                *)
(*                                                                         *)
(* The refresh task is shared by all requests and kept by one invariant    *)
(* of its record, RefreshInv: each method is shown to preserve it, and     *)
(* every step of the client is one of these methods or leaves the record   *)
(* alone.  A request, with its descriptor and the queue of its thread, is  *)
(* touched by its own thread only; RequestsLife says of every request what *)
(* TaskLife says of one, and that num_pending_ is the number of those that *)
(* wait.                                                                   *)
(***************************************************************************)
-----------------------------------------------------------------------------
RefreshTask ==
  [state : {"NOT_STARTED", "RUN"}, token : Tokens,
   network_error : BOOLEAN, invalidated : BOOLEAN,
   waiting : SUBSET Requests, ready : SUBSET Requests,
   thread : Requests \cup {NoThread},
   run_refresh : BOOLEAN, refresh : BOOLEAN, refresh_now : BOOLEAN,
   cancelling : BOOLEAN, fetching : BOOLEAN, disabled : BOOLEAN,
   shutting_down : BOOLEAN, locked : BOOLEAN, abandoned : BOOLEAN]

\* At most one closure fetches the token, and only in state RUN.  Requests wait
\* only in RUN, and RUN has such a closure, unless it was canceled or dropped, or
\* the refresh thread hangs, or Done() met the shutdown: it posts the closures of
\* the requests and leaves the state as it is, and after it nobody begins to wait.
RefreshLife(o) ==
  /\ ~(o.run_refresh /\ o.refresh)
  /\ ~(o.run_refresh /\ o.fetching)
  /\ ~(o.refresh /\ o.fetching)
  /\ RefreshUnderway(o) => o.state = "RUN"
  /\ o.waiting # {} => o.state = "RUN"
  /\ o.state = "RUN" =>
       \/ RefreshUnderway(o) \/ o.abandoned \/ o.locked
       \/ o.shutting_down /\ o.waiting = {}

RefreshInv(o) == o \in RefreshTask /\ RefreshLife(o)

USE DEF RefreshTask, RefreshLife, RefreshInv, RefreshUnderway, Tokens

\* A new refresh task.
LEMMA NewRefreshTaskInv == RefreshInv(NewRefreshTask)
  BY DEF NewRefreshTask

\* Requests are posted again.
LEMMA PostStartInv ==
  ASSUME NEW o, RefreshInv(o), NEW ts \in SUBSET Requests
  PROVE  RefreshInv(PostStart(o, ts))
  BY DEF PostStart

\* RunAfterRefresh().
LEMMA RunAfterRefreshInv ==
  ASSUME NEW o, RefreshInv(o), NEW t \in Requests
  PROVE  RefreshInv(RunAfterRefresh(o, t))
<1> DEFINE p == [o EXCEPT !.waiting = @ \cup {t}]
           q == [o EXCEPT !.state = "RUN", !.waiting = @ \cup {t},
                          !.run_refresh = TRUE,
                          !.thread = IF @ = NoThread THEN t ELSE @]
<1>1. RefreshInv(PostStart(o, {t}))
  BY PostStartInv
<1>2. o.state = "RUN" /\ ~o.shutting_down => RefreshInv(p)
  <2>1. p \in RefreshTask
    OBVIOUS
  <2>2. /\ p.state = o.state /\ p.run_refresh = o.run_refresh /\ p.refresh = o.refresh
        /\ p.fetching = o.fetching /\ p.abandoned = o.abandoned /\ p.locked = o.locked
        /\ p.shutting_down = o.shutting_down
    OBVIOUS
  <2> HIDE DEF p
  <2> QED BY <2>1, <2>2
<1>3. o.state # "RUN" => RefreshInv(q)
  <2>1. q \in RefreshTask
    OBVIOUS
  <2> QED BY <2>1
<1> HIDE DEF RefreshTask, RefreshLife, RefreshInv
<1> QED BY <1>1, <1>2, <1>3 DEF RunAfterRefresh

\* Cancel(), by either way.
LEMMA CanceledInv ==
  ASSUME NEW o, RefreshInv(o)
  PROVE  RefreshInv(Canceled(o)) /\ RefreshInv(Cancel(o))
<1>1. Canceled(o) \in RefreshTask /\ Cancel(o) \in RefreshTask
  <2> DEFINE b == o.abandoned \/ o.refresh
             p == [o EXCEPT !.refresh_now = FALSE, !.refresh = FALSE,
                            !.abandoned = b]
  <2>1. b \in BOOLEAN /\ Canceled(o) = p
    BY DEF Canceled
  <2> HIDE DEF b
  <2>2. p \in RefreshTask /\ [p EXCEPT !.cancelling = FALSE] \in RefreshTask
    BY <2>1
  <2> QED BY <2>1, <2>2 DEF Cancel
<1>2. RefreshLife(Canceled(o))
  BY DEF Canceled
<1>3. RefreshLife(Cancel(o))
  BY <1>2 DEF Canceled, Cancel
<1> QED BY <1>1, <1>2, <1>3

\* DoCancel() on the refresh thread.
LEMMA DoCancelInv ==
  ASSUME NEW o, RefreshInv(o), NEW t
  PROVE  RefreshInv(DoCancel(o, t))
<1>1. RefreshInv([o EXCEPT !.cancelling = TRUE])
  <2>1. [o EXCEPT !.cancelling = TRUE] \in RefreshTask
    OBVIOUS
  <2> QED BY <2>1
<1> HIDE DEF RefreshTask, RefreshLife, RefreshInv
<1> QED BY <1>1, CanceledInv DEF DoCancel

\* Invalidate().
LEMMA InvalidateInv ==
  ASSUME NEW o, RefreshInv(o), NEW t
  PROVE  RefreshInv(Invalidate(o, t))
<1> DEFINE p == [o EXCEPT !.token = "empty", !.invalidated = TRUE]
<1>1. RefreshInv(p)
  <2>1. p \in RefreshTask
    OBVIOUS
  <2>2. /\ p.state = o.state /\ p.waiting = o.waiting /\ p.run_refresh = o.run_refresh
        /\ p.refresh = o.refresh /\ p.fetching = o.fetching /\ p.abandoned = o.abandoned
        /\ p.locked = o.locked /\ p.shutting_down = o.shutting_down
    OBVIOUS
  <2> HIDE DEF p
  <2> QED BY <2>1, <2>2
<1> HIDE DEF RefreshTask, RefreshLife, RefreshInv
<1> QED BY <1>1, DoCancelInv DEF Invalidate

\* Shutdown().
LEMMA ShutdownRefreshInv ==
  ASSUME NEW o, RefreshInv(o)
  PROVE  RefreshInv(ShutdownRefresh(o))
<1> DEFINE p == [o EXCEPT !.shutting_down = TRUE]
<1>1. RefreshInv(p)
  <2>1. p \in RefreshTask
    OBVIOUS
  <2>2. /\ p.state = o.state /\ p.waiting = o.waiting /\ p.run_refresh = o.run_refresh
        /\ p.refresh = o.refresh /\ p.fetching = o.fetching /\ p.abandoned = o.abandoned
        /\ p.locked = o.locked
        /\ p.shutting_down
    OBVIOUS
  <2> HIDE DEF p
  <2> QED BY <2>1, <2>2
<1> HIDE DEF RefreshTask, RefreshLife, RefreshInv
<1> QED BY <1>1, DoCancelInv DEF ShutdownRefresh

\* In RUN with no closure underway, each of the three ways on is accounted for.
LEMMA FetchingInv ==
  ASSUME NEW o \in RefreshTask, o.state = "RUN",
         ~o.run_refresh, ~o.refresh, ~o.fetching
  PROVE  /\ RefreshInv([o EXCEPT !.locked = TRUE])
         /\ RefreshInv([o EXCEPT !.abandoned = TRUE])
         /\ RefreshInv([o EXCEPT !.fetching = TRUE])
<1> DEFINE a == [o EXCEPT !.locked = TRUE]
           b == [o EXCEPT !.abandoned = TRUE]
           c == [o EXCEPT !.fetching = TRUE]
<1>1. a \in RefreshTask /\ b \in RefreshTask /\ c \in RefreshTask
  OBVIOUS
<1>2. /\ a.state = "RUN" /\ ~a.run_refresh /\ ~a.refresh /\ ~a.fetching
      /\ a.locked
  OBVIOUS
<1>3. /\ b.state = "RUN" /\ ~b.run_refresh /\ ~b.refresh /\ ~b.fetching
      /\ b.abandoned
  OBVIOUS
<1>4. c.state = "RUN" /\ ~c.run_refresh /\ ~c.refresh /\ c.fetching
  OBVIOUS
<1>5. RefreshInv(a) /\ RefreshInv(b) /\ RefreshInv(c)
  <2> HIDE DEF a, b, c
  <2> QED BY <1>1, <1>2, <1>3, <1>4
<1> QED BY <1>5

\* RunRefresh() takes its closure, which there must be.
LEMMA RunRefreshInv ==
  ASSUME NEW o, RefreshInv(o), o.run_refresh \/ o.refresh
  PROVE  RefreshInv(RunRefresh(o))
<1> DEFINE r == [o EXCEPT !.refresh = FALSE, !.run_refresh = FALSE]
<1>1. /\ r \in RefreshTask /\ r.state = "RUN" /\ ~r.run_refresh /\ ~r.refresh
      /\ ~r.fetching
  OBVIOUS
<1> HIDE DEF r
<1>2. /\ RefreshInv([r EXCEPT !.locked = TRUE])
      /\ RefreshInv([r EXCEPT !.abandoned = TRUE])
      /\ RefreshInv([r EXCEPT !.fetching = TRUE])
  <2> HIDE DEF RefreshTask, RefreshLife, RefreshInv
  <2> QED BY <1>1, FetchingInv
<1> HIDE DEF RefreshTask, RefreshLife, RefreshInv
<1> QED BY <1>2 DEF RunRefresh, RunRefreshUnlocked, r

\* RunRefreshUnlocked().
LEMMA RunRefreshNowInv ==
  ASSUME NEW o, RefreshInv(o)
  PROVE  RefreshInv(RunRefreshNow(o))
<1> DEFINE r == [o EXCEPT !.refresh_now = FALSE]
           s == [r EXCEPT !.state = "RUN"]
<1>1. RefreshInv(r)
  <2>1. r \in RefreshTask
    OBVIOUS
  <2>2. /\ r.state = o.state /\ r.waiting = o.waiting
        /\ r.run_refresh = o.run_refresh /\ r.refresh = o.refresh
        /\ r.fetching = o.fetching /\ r.abandoned = o.abandoned
        /\ r.locked = o.locked /\ r.shutting_down = o.shutting_down
    OBVIOUS
  <2> HIDE DEF r
  <2> QED BY <2>1, <2>2
<1>2. o.state # "RUN" => /\ s \in RefreshTask /\ s.state = "RUN"
                         /\ ~s.run_refresh /\ ~s.refresh /\ ~s.fetching
  BY <1>1
<1> HIDE DEF s
<1>3. o.state # "RUN" => /\ RefreshInv([s EXCEPT !.locked = TRUE])
                         /\ RefreshInv([s EXCEPT !.fetching = TRUE])
  <2> HIDE DEF RefreshTask, RefreshLife, RefreshInv
  <2> QED BY <1>2, FetchingInv
<1> HIDE DEF RefreshTask, RefreshLife, RefreshInv
<1> QED BY <1>1, <1>3 DEF RunRefreshNow, RunRefreshUnlocked, s

\* The fetch ends, whatever the answer is.
LEMMA DoneInv ==
  ASSUME NEW o, RefreshInv(o), o.fetching, NEW answer \in Answers,
         NEW deadline \in BOOLEAN, NEW update \in BOOLEAN
  PROVE  RefreshInv(Done(o, answer, deadline, update))
<1> DEFINE p == [o EXCEPT !.fetching = FALSE,
                          !.disabled = @ \/ answer = "blocked"]
           token == ParsedToken(o.token, answer)
           q == [p EXCEPT !.state = "NOT_STARTED", !.token = token,
                   !.network_error =
                     IF answer = "error" THEN TRUE
                     ELSE @ /\ token \in {"empty", "unparsed"},
                   !.refresh_now = @ \/ (answer = "token" /\ update)]
<1>1. token \in Tokens
  BY DEF ParsedToken, Answers
<1>2. p \in RefreshTask
  <2> DEFINE b == o.disabled \/ answer = "blocked"
  <2>1. b \in BOOLEAN /\ p = [o EXCEPT !.fetching = FALSE, !.disabled = b]
    OBVIOUS
  <2> HIDE DEF b, p
  <2> QED BY <2>1
<1>3. /\ p.state = o.state /\ p.waiting = o.waiting
      /\ p.run_refresh = o.run_refresh /\ p.refresh = o.refresh
      /\ p.abandoned = o.abandoned /\ p.locked = o.locked
      /\ p.shutting_down = o.shutting_down /\ ~p.fetching
      /\ p.network_error = o.network_error /\ p.refresh_now = o.refresh_now
  OBVIOUS
<1>4. ~o.run_refresh /\ ~o.refresh /\ o.state = "RUN"
  OBVIOUS
<1> HIDE DEF p
<1>5. o.shutting_down => RefreshInv(PostStart(p, o.waiting))
  <2>1. PostStart(p, o.waiting) \in RefreshTask
    BY <1>2 DEF PostStart
  <2>2. PostStart(p, o.waiting).waiting = {}
    BY <1>2, <1>3 DEF PostStart
  <2> QED BY <1>2, <1>3, <1>4, <2>1, <2>2 DEF PostStart
<1>6. RefreshInv([p EXCEPT !.refresh = TRUE])
  <2> DEFINE r == [p EXCEPT !.refresh = TRUE]
  <2>1. r \in RefreshTask
    BY <1>2
  <2>2. r.refresh /\ ~r.run_refresh /\ ~r.fetching /\ r.state = "RUN"
    BY <1>2, <1>3, <1>4
  <2>3. RefreshInv(r)
    <3> HIDE DEF r
    <3> QED BY <2>1, <2>2
  <2> QED BY <2>3
<1>7. RefreshInv(PostStart(q, o.waiting))
  <2> HIDE DEF token
  <2> DEFINE network == IF answer = "error" THEN TRUE
                        ELSE p.network_error /\ token \in {"empty", "unparsed"}
             now == p.refresh_now \/ (answer = "token" /\ update)
             r == [p EXCEPT !.state = "NOT_STARTED", !.token = token,
                            !.network_error = network, !.refresh_now = now]
  <2>1. network \in BOOLEAN /\ now \in BOOLEAN
    BY <1>2
  <2>2. q = r
    OBVIOUS
  <2> HIDE DEF network, now
  <2>3. r \in RefreshTask
    BY <1>1, <1>2, <2>1
  <2>4. /\ ~r.run_refresh /\ ~r.refresh /\ ~r.fetching
        /\ r.waiting = o.waiting /\ r.state = "NOT_STARTED"
    BY <1>2, <1>3, <1>4
  <2> HIDE DEF r
  <2>5. PostStart(r, o.waiting) \in RefreshTask
    BY <2>3 DEF PostStart
  <2>6. PostStart(r, o.waiting).waiting = {}
    BY <2>3, <2>4 DEF PostStart
  <2>7. RefreshLife(PostStart(r, o.waiting))
    BY <2>3, <2>4, <2>5, <2>6 DEF PostStart
  <2> QED BY <2>2, <2>5, <2>7
<1> HIDE DEF RefreshTask, RefreshLife, RefreshInv
<1> QED BY <1>5, <1>6, <1>7 DEF Done, p


\* What is not part of the protocol may change.
LEMMA SmallFieldsInv ==
  ASSUME NEW o, RefreshInv(o), NEW t
  PROVE  /\ RefreshInv([o EXCEPT !.ready = @ \ {t}])
         /\ RefreshInv(TokenExpired(o))
         /\ RefreshInv([o EXCEPT !.network_error = FALSE])
         /\ RefreshInv([o EXCEPT !.invalidated = FALSE])
         /\ RefreshInv([o EXCEPT !.disabled = FALSE])
<1>1. RefreshInv([o EXCEPT !.ready = @ \ {t}])
  OBVIOUS
<1>2. RefreshInv(TokenExpired(o))
  BY DEF TokenExpired
<1>3. RefreshInv([o EXCEPT !.network_error = FALSE])
  OBVIOUS
<1>4. RefreshInv([o EXCEPT !.invalidated = FALSE])
  OBVIOUS
<1>5. RefreshInv([o EXCEPT !.disabled = FALSE])
  OBVIOUS
<1> HIDE DEF RefreshTask, RefreshLife, RefreshInv
<1> QED BY <1>1, <1>2, <1>3, <1>4, <1>5

HIDE DEF RefreshTask, RefreshLife, RefreshInv, RefreshUnderway, Tokens

\* A request leaves the refresh task alone, takes its closure, waits for the
\* token, or invalidates it.
LEMMA RequestsKeepRefresh ==
  ASSUME RefreshInv(oauth), NEW t \in Requests, RequestThread(t)
  PROVE  RefreshInv(oauth')
<1>1. CASE DoAsync(t)
  BY <1>1 DEF DoAsync
<1>2. CASE StartTask(t) \/ RefreshTimeout(t)
  <2>1. oauth' = [oauth EXCEPT !.ready = @ \ {t}]
    BY <1>2 DEF StartTask, RefreshTimeout, Taken
  <2> QED BY <2>1, SmallFieldsInv
<1>3. CASE RunAfterOAuth2AccessTokenGetReady(t)
  BY <1>3, RunAfterRefreshInv DEF RunAfterOAuth2AccessTokenGetReady
<1>4. CASE \/ GetOAuth2Authorization(t) \/ ConnectFails(t)
           \/ \E timed_out, busy \in BOOLEAN : TryStartThrottled(t, timed_out, busy)
           \/ \E stream \in BOOLEAN : Connects(t, stream)
  BY <1>4 DEF GetOAuth2Authorization, ConnectFails, TryStartThrottled, Connects,
              same_client
<1>5. CASE PollSocket(t)
  BY <1>5 DEF PollSocket
<1>6. CASE \/ TaskDoTimeout(t) \/ TaskDoRequestDone(t)
           \/ \E end \in {"more", "sent", "error"} : TaskDoWrite(t, end)
           \/ \E end \in Ends \cup {"more"} : TaskDoRead(t, end)
  BY <1>6 DEF TaskDoTimeout, TaskDoRequestDone, TaskDoWrite, TaskDoRead,
              same_client
<1>7. CASE DoRetry(t) \/ DoCallback(t)
  BY <1>7, InvalidateInv DEF DoRetry, DoCallback, ReleaseDescriptor
<1> QED BY <1>1, <1>2, <1>3, <1>4, <1>5, <1>6, <1>7 DEF RequestThread

\* Every step of the client is one of these, or none.
LEMMA RefreshStep ==
  ASSUME RefreshInv(oauth), [HttpNext]_http_vars
  PROVE  RefreshInv(oauth')
<1>1. CASE UNCHANGED http_vars
  BY <1>1 DEF http_vars
<1>2. CASE \E t \in Requests : RequestThread(t)
  BY <1>2, RequestsKeepRefresh
<1>3. CASE RefreshThread
  BY <1>3, RunRefreshInv, RunRefreshNowInv, CanceledInv DEF RefreshThread, OAuth2
<1>4. CASE \E answer \in Answers, deadline, update \in BOOLEAN :
             TokenServer(answer, deadline, update)
  BY <1>4, DoneInv DEF TokenServer, OAuth2
<1>5. CASE ShutdownOAuth2
  BY <1>5, ShutdownRefreshInv DEF ShutdownOAuth2, OAuth2
<1>6. CASE ShutdownClient \/ Destroy \/ UpdateTrafficHistory \/ Unblocked
  BY <1>6 DEF ShutdownClient, Destroy, UpdateTrafficHistory, Unblocked
<1>7. CASE TimePasses
  BY <1>7, SmallFieldsInv DEF TimePasses, OAuth2
<1> QED BY <1>1, <1>2, <1>3, <1>4, <1>5, <1>6, <1>7 DEF HttpNext, HttpStep

\* The invariant says what RefreshExact says.
LEMMA RefreshInvIsExact ==
  ASSUME RefreshInv(oauth)
  PROVE  RefreshExact
<1> DEFINE F == {f \in {"run_refresh", "refresh", "fetching"} : oauth[f]}
<1> USE DEF RefreshInv, RefreshTask, RefreshLife, RefreshUnderway
<1>1. WaitersAreServed
  BY DEF WaitersAreServed
<1>2. RefreshUnderway(oauth) => oauth.state = "RUN"
  OBVIOUS
<1>3. Cardinality(F) <= 1
  <2>1. \A f, g \in F : f = g
    OBVIOUS
  <2>2. F = {} \/ \E f \in F : F = {f}
    BY <2>1
  <2> HIDE DEF F
  <2>3. CASE F = {}
    BY <2>3, FS_EmptySet
  <2>4. ASSUME NEW f, F = {f} PROVE Cardinality(F) = 1
    BY <2>4, FS_Singleton
  <2> QED BY <2>2, <2>3, <2>4
<1> QED BY <1>1, <1>2, <1>3 DEF RefreshExact, OneRefresh

\* One fetch of a token at a time, and nobody waits for one without it
\* (oauth2_token.cc), for any number of requests, answers and shutdowns.
THEOREM OneFetchForAll == HttpSpec => []RefreshExact
<1>1. HttpInit => RefreshInv(oauth)
  BY NewRefreshTaskInv DEF HttpInit
<1>2. RefreshInv(oauth) /\ [HttpNext]_http_vars => RefreshInv(oauth)'
  BY RefreshStep
<1>3. RefreshInv(oauth) => RefreshExact
  BY RefreshInvIsExact
<1> QED BY <1>1, <1>2, <1>3, PTL DEF HttpSpec

-----------------------------------------------------------------------------
(***************************************************************************)
(* RequestsExact: a request, its descriptor and the queue of its thread.   *)
(***************************************************************************)
Results == Responses \cup {"none", "fail", "timeout", "unauthorized"}

RequestTask ==
  [at : {"new", "start", "ask", "refresh", "authorize", "try", "io", "callback",
         "done"},
   state : {"INIT", "PENDING", "SENT"}, active : BOOLEAN, descriptor : BOOLEAN,
   need_refresh : BOOLEAN, timeouts : Int, throttled : BOOLEAN, failed : Int,
   close : {"NO_CLOSE", "NORMAL_CLOSE", "ERROR_CLOSE"}, result : Results,
   calls : {0, 1}]

DescriptorType ==
  [readable : {"none", "DoRead"}, writable : {"none", "DoWrite"},
   timeout : BOOLEAN, timeout_closure : {"none", "DoTimeout"},
   read_in_queue : {"none", "DoRead"}, write_in_queue : {"none", "DoWrite"},
   timeout_in_queue : BOOLEAN, active_read : BOOLEAN, active_write : BOOLEAN]

Queues == {<<>>, <<"DoCallback">>, <<"DoRetry">>, <<"DoRequestDone">>}

\* A descriptor has one closure, for writing and then for reading, and so at
\* most one callback in the queue, for a closure that is still there.
DescriptorLife(d) ==
  /\ d.readable = "none" \/ d.writable = "none"
  /\ d.read_in_queue # "none" =>
       /\ d.readable # "none"
       /\ d.write_in_queue = "none" /\ ~d.timeout_in_queue
  /\ d.write_in_queue # "none" => d.writable # "none" /\ ~d.timeout_in_queue

\* The task owns a descriptor while it sends and reads and until its callback
\* has run.  Its thread has one closure of its own at most, and then none of the
\* socket: DoRetry and DoRequestDone find it sending, DoCallback ending.
TaskLife(r, d, q) ==
  /\ r.calls = IF r.at = "done" THEN 1 ELSE 0
  /\ r.active <=> r.at = "io"
  /\ r.at = "io" => r.descriptor
  /\ r.descriptor => r.at \in {"io", "callback"}
  /\ r.state = "PENDING" => r.throttled
  /\ r.at = "callback" <=> q = <<"DoCallback">>
  /\ q \in {<<"DoRetry">>, <<"DoRequestDone">>} => r.at = "io"
  /\ q # <<>> \/ ~r.descriptor => NothingQueued(d)

RequestLife(r, d, q) ==
  /\ r \in RequestTask /\ d \in DescriptorType /\ q \in Queues
  /\ DescriptorLife(d) /\ TaskLife(r, d, q)

\* The request is counted in num_pending_.
Counted(r) == r.state = "PENDING" /\ r.at # "callback"
Count(r) == IF Counted(r) THEN 1 ELSE 0

RequestsLife ==
  /\ options \in HttpOptions
  /\ http = [t \in Requests |-> http[t]]
  /\ http_sd = [t \in Requests |-> http_sd[t]]
  /\ http_queue = [t \in Requests |-> http_queue[t]]
  /\ \A t \in Requests : RequestLife(http[t], http_sd[t], http_queue[t])
  /\ num_pending = Cardinality({t \in Requests : Counted(http[t])})

\* The step changed the request t and nothing of another.
Becomes(t, r, d, q) ==
  /\ http' = [http EXCEPT ![t] = r]
  /\ http_sd' = [http_sd EXCEPT ![t] = d]
  /\ http_queue' = [http_queue EXCEPT ![t] = q]
  /\ num_pending' = num_pending + Count(r) - Count(http[t])
  /\ options' = options

\* num_pending_ follows the one request that changes.
LEMMA CountStep ==
  ASSUME RequestsLife, NEW t \in Requests, NEW r,
         http' = [http EXCEPT ![t] = r],
         num_pending' = num_pending + Count(r) - Count(http[t])
  PROVE  num_pending' = Cardinality({u \in Requests : Counted(http'[u])})
<1> DEFINE P == {u \in Requests : Counted(http[u])}
           Q == {u \in Requests : Counted(http'[u])}
<1>1. IsFiniteSet(P)
  BY HttpAssumption, FS_Subset
<1>2. http'[t] = r /\ \A u \in Requests \ {t} : http'[u] = http[u]
  BY DEF RequestsLife
<1>3. Cardinality(P) \in Nat /\ num_pending = Cardinality(P)
  BY <1>1, FS_CardinalityType DEF RequestsLife
<1>4. CASE Counted(r) /\ ~Counted(http[t])
  <2>1. Q = P \cup {t} /\ t \notin P
    BY <1>2, <1>4
  <2>2. Cardinality(Q) = Cardinality(P) + 1
    BY <2>1, <1>1, FS_AddElement
  <2> QED BY <2>2, <1>3, <1>4 DEF Count
<1>5. CASE ~Counted(r) /\ Counted(http[t])
  <2>1. Q = P \ {t} /\ t \in P
    BY <1>2, <1>5
  <2>2. Cardinality(Q) = Cardinality(P) - 1
    BY <2>1, <1>1, FS_RemoveElement
  <2> QED BY <2>2, <1>3, <1>5 DEF Count
<1>6. CASE Counted(r) <=> Counted(http[t])
  <2>1. Q = P
    BY <1>2, <1>6
  <2> QED BY <2>1, <1>3, <1>6 DEF Count
<1> QED BY <1>4, <1>5, <1>6

\* One request changes, with its descriptor and its queue.
LEMMA BecomesKeeps ==
  ASSUME RequestsLife, NEW t \in Requests, NEW r, NEW d, NEW q,
         Becomes(t, r, d, q), RequestLife(r, d, q)
  PROVE  RequestsLife'
<1>1. num_pending' = Cardinality({u \in Requests : Counted(http'[u])})
  BY CountStep DEF Becomes
<1>2. \A u \in Requests : RequestLife(http'[u], http_sd'[u], http_queue'[u])
  BY DEF RequestsLife, Becomes
<1>3. /\ http' = [u \in Requests |-> http'[u]]
      /\ http_sd' = [u \in Requests |-> http_sd'[u]]
      /\ http_queue' = [u \in Requests |-> http_queue'[u]]
  BY DEF RequestsLife, Becomes
<1> QED BY <1>1, <1>2, <1>3 DEF RequestsLife, Becomes


\* num_pending_ is a number.
LEMMA NumPendingType ==
  ASSUME RequestsLife
  PROVE  num_pending \in Int
<1> DEFINE P == {u \in Requests : Counted(http[u])}
<1>1. IsFiniteSet(P)
  BY HttpAssumption, FS_Subset
<1> QED BY <1>1, FS_CardinalityType DEF RequestsLife

\* Steps that change the task only, or the descriptor only.
LEMMA TaskBecomes ==
  ASSUME RequestsLife, NEW t \in Requests, NEW r, Task(t, r),
         UNCHANGED <<http_sd, http_queue, options>>,
         num_pending' = num_pending + Count(r) - Count(http[t]),
         RequestLife(r, http_sd[t], http_queue[t])
  PROVE  RequestsLife'
<1>1. /\ http_sd = [http_sd EXCEPT ![t] = http_sd[t]]
      /\ http_queue = [http_queue EXCEPT ![t] = http_queue[t]]
  BY DEF RequestsLife
<1>2. Becomes(t, r, http_sd[t], http_queue[t])
  BY <1>1 DEF Becomes, Task
<1> QED BY <1>2, BecomesKeeps

\* Only the descriptor changes.
LEMMA SdBecomes ==
  ASSUME RequestsLife, NEW t \in Requests, NEW d, Sd(t, d),
         UNCHANGED <<http, http_queue, options, num_pending>>,
         RequestLife(http[t], d, http_queue[t])
  PROVE  RequestsLife'
<1>1. /\ http = [http EXCEPT ![t] = http[t]]
      /\ http_queue = [http_queue EXCEPT ![t] = http_queue[t]]
  BY DEF RequestsLife
<1>2. num_pending = num_pending + Count(http[t]) - Count(http[t])
  BY NumPendingType DEF Count
<1>3. Becomes(t, http[t], d, http_queue[t])
  BY <1>1, <1>2 DEF Becomes, Sd
<1> QED BY <1>3, BecomesKeeps
-----------------------------------------------------------------------------
(***************************************************************************)
(* What a request does, step by step.                                      *)
(***************************************************************************)
\* What is known of a request whose thread has nothing else queued.
LEMMA IdleThread ==
  ASSUME RequestsLife, NEW t \in Requests
  PROVE  /\ RequestLife(http[t], http_sd[t], http_queue[t])
         /\ http[t].at \notin {"io", "callback"} =>
              /\ http_queue[t] = <<>> /\ ~http[t].descriptor
              /\ NothingQueued(http_sd[t])
<1>1. RequestLife(http[t], http_sd[t], http_queue[t])
  BY DEF RequestsLife
<1>2. /\ <<"DoCallback">> # <<>> /\ <<"DoRetry">> # <<"DoCallback">>
      /\ <<"DoRequestDone">> # <<"DoCallback">>
  OBVIOUS
<1> QED BY <1>1, <1>2 DEF RequestLife, TaskLife, Queues

\* RunCallback() of a request that has not ended, with no callback of its
\* descriptor queued.
LEMMA RunCallbackKeeps ==
  ASSUME RequestsLife, NEW t \in Requests, UNCHANGED options,
         http_queue[t] = <<>>, http[t].at # "callback",
         NEW r \in RequestTask, r.calls = 0, r.state = http[t].state,
         r.state = "PENDING" => r.throttled,
         NEW d \in DescriptorType, DescriptorLife(d), NothingQueued(d),
         NEW result \in Results, RunCallback(t, r, d, result)
  PROVE  RequestsLife'
<1> DEFINE r1 == [r EXCEPT !.at = "callback", !.active = FALSE, !.result = result]
           d1 == StopRead(StopWrite(d))
           q1 == Append(<<>>, "DoCallback")
<1>1. q1 = <<"DoCallback">> /\ q1 # <<>> /\ q1 # <<"DoRetry">>
      /\ q1 # <<"DoRequestDone">>
  OBVIOUS
<1>2. /\ r1 \in RequestTask /\ r1.at = "callback" /\ ~r1.active /\ r1.calls = 0
      /\ r1.state = r.state /\ r1.throttled = r.throttled
  BY DEF RequestTask
<1>3. d1 \in DescriptorType /\ DescriptorLife(d1) /\ NothingQueued(d1)
  BY DEF DescriptorType, DescriptorLife, NothingQueued, StopRead, StopWrite
<1>4. Becomes(t, r1, d1, q1)
  <2>1. Count(r1) = 0
    BY <1>2 DEF Count, Counted
  <2>2. Count(http[t]) = IF r.state = "PENDING" THEN 1 ELSE 0
    BY DEF Count, Counted
  <2>3. num_pending' = num_pending + Count(r1) - Count(http[t])
    BY <2>1, <2>2, NumPendingType DEF RunCallback
  <2> QED BY <2>3 DEF Becomes, RunCallback, Task, Sd, Into
<1>5. RequestLife(r1, d1, q1)
  <2> HIDE DEF r1, d1, q1
  <2> QED BY <1>1, <1>2, <1>3 DEF RequestLife, TaskLife, Queues
<1> QED BY <1>4, <1>5, BecomesKeeps

\* A step before the connection that goes on to another place before it.
LEMMA MovesOn ==
  ASSUME RequestsLife, NEW t \in Requests, NEW r,
         http[t].at \notin {"io", "callback", "done"},
         r \in RequestTask, Task(t, r), UNCHANGED <<http_sd, http_queue, options>>,
         num_pending' = num_pending + Count(r) - Count(http[t]),
         r.at \notin {"io", "callback"}, ~r.active, ~r.descriptor,
         r.calls = IF r.at = "done" THEN 1 ELSE 0,
         r.state = "PENDING" => r.throttled
  PROVE  RequestsLife'
<1>1. /\ RequestLife(http[t], http_sd[t], http_queue[t])
      /\ http_queue[t] = <<>> /\ NothingQueued(http_sd[t])
  BY IdleThread
<1>2. <<"DoCallback">> # <<>> /\ <<"DoRetry">> # <<>> /\ <<"DoRequestDone">> # <<>>
  OBVIOUS
<1>3. RequestLife(r, http_sd[t], http_queue[t])
  BY <1>1, <1>2 DEF RequestLife, TaskLife
<1> QED BY <1>3, TaskBecomes

\* A request that has no descriptor yet.
LEMMA BeforeConnection ==
  ASSUME RequestsLife, NEW t \in Requests,
         http[t].at \notin {"io", "callback", "done"}
  PROVE  /\ http[t] \in RequestTask /\ http[t].calls = 0
         /\ ~http[t].active /\ ~http[t].descriptor
         /\ http[t].state = "PENDING" => http[t].throttled
         /\ http_queue[t] = <<>> /\ http_sd[t] \in DescriptorType
         /\ DescriptorLife(http_sd[t]) /\ NothingQueued(http_sd[t])
  BY IdleThread DEF RequestLife, TaskLife

\* RunCallback() before the connection.
LEMMA GivesUp ==
  ASSUME RequestsLife, NEW t \in Requests, UNCHANGED options,
         http[t].at \notin {"io", "callback", "done"},
         NEW result \in Results, RunCallback(t, http[t], http_sd[t], result)
  PROVE  RequestsLife'
  BY BeforeConnection, RunCallbackKeeps

\* A request begins.
LEMMA DoAsyncKeeps ==
  ASSUME RequestsLife, NEW t \in Requests, UNCHANGED options, DoAsync(t)
  PROVE  RequestsLife'
<1> DEFINE r == IF Failnow THEN [http[t] EXCEPT !.at = "done", !.calls = 1]
                ELSE [http[t] EXCEPT !.at = "start"]
<1>1. http[t].at = "new" /\ http[t].at \notin {"io", "callback", "done"}
  BY DEF DoAsync
<1>2. /\ r \in RequestTask /\ r.at \notin {"io", "callback"}
      /\ r.calls = IF r.at = "done" THEN 1 ELSE 0
      /\ r.state = http[t].state /\ r.throttled = http[t].throttled
      /\ r.active = http[t].active /\ r.descriptor = http[t].descriptor
  <2>1. CASE Failnow
    <3>1. r = [http[t] EXCEPT !.at = "done", !.calls = 1]
      BY <2>1
    <3> HIDE DEF r
    <3>2. http[t] \in RequestTask
      BY <1>1, BeforeConnection
    <3>3. r \in RequestTask
      BY <3>1, <3>2 DEF RequestTask
    <3> QED BY <3>1, <3>2, <3>3 DEF RequestTask
  <2>2. CASE ~Failnow
    BY <2>2, <1>1, BeforeConnection DEF RequestTask
  <2> QED BY <2>1, <2>2
<1>3. num_pending' = num_pending + Count(r) - Count(http[t])
  BY <1>1, <1>2, NumPendingType DEF Count, Counted, DoAsync
<1>4. Task(t, r) /\ UNCHANGED <<http_sd, http_queue>>
  BY DEF DoAsync
<1> HIDE DEF r
<1> QED BY <1>1, <1>2, <1>3, <1>4, BeforeConnection, MovesOn

\* It starts, or has waited too long for a token.
LEMMA StartTaskKeeps ==
  ASSUME RequestsLife, NEW t \in Requests, UNCHANGED options,
         StartTask(t) \/ RefreshTimeout(t)
  PROVE  RequestsLife'
<1>1. http[t].at \in {"start", "refresh"}
  BY DEF StartTask, RefreshTimeout, Startable
<1>2. CASE \E result \in {"fail", "timeout"} :
             RunCallback(t, http[t], http_sd[t], result)
  <2>1. http[t].at \notin {"io", "callback", "done"}
    BY <1>1
  <2>2. "fail" \in Results /\ "timeout" \in Results
    BY DEF Results
  <2> QED BY <1>2, <2>1, <2>2, GivesUp
<1>3. ASSUME NEW should,
             StartTask(t) /\ ~Failnow,
             should <=> options.oauth2 /\ ShouldRefresh(oauth)
      PROVE  RequestsLife'
  <2> DEFINE at == IF should THEN "ask" ELSE IF http[t].need_refresh THEN "authorize"
                   ELSE "try"
             need == http[t].need_refresh \/ should
             r == [http[t] EXCEPT !.at = at, !.need_refresh = need]
  <2>1. need \in BOOLEAN /\ at \in {"ask", "authorize", "try"}
    OBVIOUS
  <2>2. Task(t, r) /\ UNCHANGED <<http_sd, http_queue, num_pending>>
    BY <1>3 DEF StartTask, Task
  <2> HIDE DEF need, at
  <2>3. /\ r \in RequestTask /\ r.at = at /\ r.calls = 0
        /\ r.state = http[t].state /\ r.throttled = http[t].throttled
        /\ r.active = http[t].active /\ r.descriptor = http[t].descriptor
    BY <1>1, <2>1, BeforeConnection DEF RequestTask
  <2> HIDE DEF r
  <2>4. num_pending' = num_pending + Count(r) - Count(http[t])
    BY <1>1, <2>1, <2>2, <2>3, NumPendingType DEF Count, Counted
  <2> QED BY <1>1, <2>1, <2>2, <2>3, <2>4, BeforeConnection, MovesOn
<1> QED BY <1>2, <1>3 DEF StartTask, RefreshTimeout

\* It asks for a token.
LEMMA AskKeeps ==
  ASSUME RequestsLife, NEW t \in Requests, UNCHANGED options,
         RunAfterOAuth2AccessTokenGetReady(t)
  PROVE  RequestsLife'
<1> DEFINE r == [http[t] EXCEPT !.at = "refresh"]
<1>1. /\ http[t].at = "ask" /\ Task(t, r)
      /\ UNCHANGED <<http_sd, http_queue, num_pending>>
  BY DEF RunAfterOAuth2AccessTokenGetReady
<1>2. /\ r \in RequestTask /\ r.at = "refresh" /\ r.calls = 0
      /\ r.state = http[t].state /\ r.throttled = http[t].throttled
      /\ r.active = http[t].active /\ r.descriptor = http[t].descriptor
  BY <1>1, BeforeConnection DEF RequestTask
<1> HIDE DEF r
<1>3. num_pending' = num_pending + Count(r) - Count(http[t])
  BY <1>1, <1>2, NumPendingType DEF Count, Counted
<1> QED BY <1>1, <1>2, <1>3, BeforeConnection, MovesOn

\* It has got one.
LEMMA AuthorizeKeeps ==
  ASSUME RequestsLife, NEW t \in Requests, UNCHANGED options,
         GetOAuth2Authorization(t)
  PROVE  RequestsLife'
<1> DEFINE r == [http[t] EXCEPT !.at = "try", !.need_refresh = FALSE]
<1>1. http[t].at = "authorize"
  BY DEF GetOAuth2Authorization
<1>2. CASE RunCallback(t, http[t], http_sd[t], "unauthorized")
  <2>1. http[t].at \notin {"io", "callback", "done"}
    BY <1>1
  <2>2. "unauthorized" \in Results
    BY DEF Results
  <2> QED BY <1>2, <2>1, <2>2, GivesUp
<1>3. CASE Task(t, r) /\ UNCHANGED <<http_sd, http_queue, num_pending>>
  <2>1. /\ r \in RequestTask /\ r.at = "try" /\ r.calls = 0
        /\ r.state = http[t].state /\ r.throttled = http[t].throttled
        /\ r.active = http[t].active /\ r.descriptor = http[t].descriptor
    BY <1>1, BeforeConnection DEF RequestTask
  <2> HIDE DEF r
  <2>2. num_pending' = num_pending + Count(r) - Count(http[t])
    BY <1>1, <1>3, <2>1, NumPendingType DEF Count, Counted
  <2> QED BY <1>1, <1>3, <2>1, <2>2, BeforeConnection, MovesOn
<1> QED BY <1>2, <1>3 DEF GetOAuth2Authorization


\* It is let in, has to wait or is refused.
LEMMA ThrottledKeeps ==
  ASSUME RequestsLife, NEW t \in Requests, UNCHANGED options,
         NEW timed_out \in BOOLEAN, NEW busy \in BOOLEAN,
         TryStartThrottled(t, timed_out, busy)
  PROVE  RequestsLife'
<1> DEFINE p == Pending(http[t])
           r == [p EXCEPT !.at = "start", !.need_refresh = TRUE]
<1>1. http[t].at = "try" /\ http[t].at \notin {"io", "callback", "done"}
  BY DEF TryStartThrottled
<1>2. CASE timed_out
  <2>1. "timeout" \in Results
    BY DEF Results
  <2> DEFINE g == [http[t] EXCEPT !.throttled = TRUE]
  <2>2. RunCallback(t, g, http_sd[t], "timeout")
    BY <1>2 DEF TryStartThrottled
  <2>3. /\ g \in RequestTask /\ g.throttled
        /\ g.state = http[t].state /\ g.calls = 0
    BY <1>1, BeforeConnection DEF RequestTask
  <2> HIDE DEF g
  <2> QED BY <1>1, <2>1, <2>2, <2>3, BeforeConnection, RunCallbackKeeps
<1>3. CASE ~timed_out
  <2>1. /\ Task(t, r) /\ UNCHANGED <<http_sd, http_queue>>
        /\ num_pending' = num_pending + (IF http[t].throttled THEN 0 ELSE 1)
    BY <1>3 DEF TryStartThrottled
  <2>2. /\ p \in RequestTask /\ p.throttled
        /\ p.state = (IF http[t].throttled THEN http[t].state ELSE "PENDING")
        /\ p.active = http[t].active /\ p.descriptor = http[t].descriptor
        /\ p.calls = 0
    BY <1>1, BeforeConnection DEF RequestTask, Pending
  <2> HIDE DEF p
  <2>3. /\ r \in RequestTask /\ r.at = "start" /\ r.throttled
        /\ r.state = p.state /\ r.active = p.active
        /\ r.descriptor = p.descriptor /\ r.calls = 0
    BY <2>2 DEF RequestTask
  <2> HIDE DEF r
  <2>4. num_pending' = num_pending + Count(r) - Count(http[t])
    <3>1. CASE http[t].throttled
      BY <1>1, <2>1, <2>2, <2>3, <3>1, NumPendingType DEF Count, Counted
    <3>2. CASE ~http[t].throttled
      <4>1. http[t].state # "PENDING"
        BY <1>1, <3>2, BeforeConnection
      <4> QED BY <1>1, <2>1, <2>2, <2>3, <3>2, <4>1, NumPendingType
              DEF Count, Counted
    <3> QED BY <3>1, <3>2
  <2> QED BY <1>1, <2>1, <2>2, <2>3, <2>4, BeforeConnection, MovesOn
<1> QED BY <1>2, <1>3

\* There is no connection.
LEMMA ConnectFailsKeeps ==
  ASSUME RequestsLife, NEW t \in Requests, UNCHANGED options, ConnectFails(t)
  PROVE  RequestsLife'
<1> DEFINE p == [http[t] EXCEPT !.failed = @ + 1]
           r == [p EXCEPT !.at = "start", !.need_refresh = TRUE]
<1>1. http[t].at = "try" /\ http[t].at \notin {"io", "callback", "done"}
  BY DEF ConnectFails
<1>2. /\ p \in RequestTask /\ p.calls = 0 /\ p.at = "try"
      /\ p.state = http[t].state /\ p.throttled = http[t].throttled
      /\ p.active = http[t].active /\ p.descriptor = http[t].descriptor
  BY <1>1, BeforeConnection DEF RequestTask
<1>3. \/ RunCallback(t, p, http_sd[t], "fail")
      \/ Task(t, r) /\ UNCHANGED <<http_sd, http_queue, num_pending>>
  BY DEF ConnectFails
<1> HIDE DEF p
<1>4. CASE RunCallback(t, p, http_sd[t], "fail")
  <2>1. "fail" \in Results
    BY DEF Results
  <2> QED BY <1>1, <1>2, <1>4, <2>1, BeforeConnection, RunCallbackKeeps
<1>5. CASE Task(t, r) /\ UNCHANGED <<http_sd, http_queue, num_pending>>
  <2>1. /\ r \in RequestTask /\ r.at = "start" /\ r.calls = 0
        /\ r.state = p.state /\ r.throttled = p.throttled
        /\ r.active = p.active /\ r.descriptor = p.descriptor
    BY <1>2 DEF RequestTask
  <2> HIDE DEF r
  <2>2. num_pending' = num_pending + Count(r) - Count(http[t])
    BY <1>1, <1>2, <1>5, <2>1, NumPendingType DEF Count, Counted
  <2> QED BY <1>1, <1>2, <1>5, <2>1, <2>2, BeforeConnection, MovesOn
<1> QED BY <1>3, <1>4, <1>5

\* There is one.
LEMMA ConnectsKeeps ==
  ASSUME RequestsLife, NEW t \in Requests, UNCHANGED options,
         NEW stream \in BOOLEAN, Connects(t, stream)
  PROVE  RequestsLife'
<1> DEFINE waited == IF http[t].state = "PENDING" THEN 1 ELSE 0
           r == [http[t] EXCEPT !.at = "io", !.state = "SENT", !.active = TRUE,
                                !.descriptor = TRUE, !.timeouts = @ - 1]
           f == [r EXCEPT !.at = "callback", !.active = FALSE, !.result = "fail"]
           d == NotifyWhenTimedout(NotifyWhenWritable(NewDescriptor, "DoWrite"),
                                   "DoTimeout")
           q == Append(<<>>, "DoCallback")
<1>1. http[t].at = "try" /\ http[t].at \notin {"io", "callback", "done"}
  BY DEF Connects
<1>2. http_queue[t] = <<>> /\ waited = Count(http[t])
  BY <1>1, BeforeConnection DEF Count, Counted
<1>3. /\ r \in RequestTask /\ r.at = "io" /\ r.state = "SENT" /\ r.active
      /\ r.descriptor /\ r.calls = 0
  <2>1. http[t] \in RequestTask /\ http[t].calls = 0
    BY <1>1, BeforeConnection
  <2>2. r \in RequestTask
    <3> DEFINE left == http[t].timeouts - 1
               s == [http[t] EXCEPT !.at = "io", !.state = "SENT",
                       !.active = TRUE, !.descriptor = TRUE, !.timeouts = left]
    <3>1. left \in Int /\ r = s
      BY <2>1 DEF RequestTask
    <3> HIDE DEF left
    <3>2. s \in RequestTask
      BY <2>1, <3>1 DEF RequestTask
    <3> QED BY <3>1, <3>2
  <2> QED BY <2>1, <2>2 DEF RequestTask
<1>4. CASE stream
  <2>1. /\ Task(t, r) /\ Sd(t, d) /\ UNCHANGED http_queue
        /\ num_pending' = num_pending - waited
    BY <1>4 DEF Connects
  <2>2. /\ d \in DescriptorType /\ DescriptorLife(d) /\ NothingQueued(d)
    BY DEF DescriptorType, DescriptorLife, NothingQueued, NewDescriptor,
           NotifyWhenTimedout, NotifyWhenWritable
  <2> HIDE DEF r, d, waited
  <2>3. RequestLife(r, d, <<>>)
    <3>1. <<"DoCallback">> # <<>>
      OBVIOUS
    <3> QED BY <1>3, <2>2, <3>1 DEF RequestLife, TaskLife, Queues
  <2>4. Becomes(t, r, d, <<>>)
    <3>1. Count(r) = 0
      BY <1>3 DEF Count, Counted
    <3>2. http_queue = [http_queue EXCEPT ![t] = <<>>]
      BY <1>2 DEF RequestsLife
    <3>3. num_pending' = num_pending + Count(r) - Count(http[t])
      BY <1>2, <2>1, <3>1, NumPendingType DEF Count
    <3> QED BY <2>1, <3>2, <3>3 DEF Becomes, Task, Sd
  <2> QED BY <2>3, <2>4, BecomesKeeps
<1>5. CASE ~stream
  <2>1. /\ Task(t, f) /\ Sd(t, NewDescriptor) /\ Into(t, "DoCallback")
        /\ num_pending' = num_pending - waited
    BY <1>5 DEF Connects
  <2>2. /\ NewDescriptor \in DescriptorType /\ DescriptorLife(NewDescriptor)
        /\ NothingQueued(NewDescriptor)
    BY DEF DescriptorType, DescriptorLife, NothingQueued, NewDescriptor
  <2> HIDE DEF r, waited
  <2>3. /\ f \in RequestTask /\ f.at = "callback" /\ ~f.active /\ f.descriptor
        /\ f.state = "SENT" /\ f.calls = 0
    BY <1>3 DEF RequestTask, Results
  <2> HIDE DEF f
  <2>4. RequestLife(f, NewDescriptor, q)
    <3>1. /\ q = <<"DoCallback">> /\ q # <<"DoRetry">> /\ q # <<"DoRequestDone">>
      OBVIOUS
    <3> QED BY <2>2, <2>3, <3>1 DEF RequestLife, TaskLife, Queues
  <2>5. Becomes(t, f, NewDescriptor, q)
    <3>1. Count(f) = 0
      BY <2>3 DEF Count, Counted
    <3>2. num_pending' = num_pending + Count(f) - Count(http[t])
      BY <1>2, <2>1, <3>1, NumPendingType DEF Count
    <3> QED BY <1>2, <2>1, <3>2 DEF Becomes, Task, Sd, Into
  <2> QED BY <2>4, <2>5, BecomesKeeps
<1> QED BY <1>4, <1>5


\* The descriptor of a task that has a callback of its socket queued.
LEMMA SocketCallback ==
  ASSUME RequestsLife, NEW t \in Requests, ~NothingQueued(http_sd[t])
  PROVE  /\ http_queue[t] = <<>> /\ http[t].at = "io"
         /\ http[t] \in RequestTask /\ http[t].calls = 0
         /\ http[t].active /\ http[t].descriptor
         /\ http[t].state = "PENDING" => http[t].throttled
         /\ http_sd[t] \in DescriptorType /\ DescriptorLife(http_sd[t])
<1>1. RequestLife(http[t], http_sd[t], http_queue[t])
  BY DEF RequestsLife
<1>2. <<"DoCallback">> # <<>>
  OBVIOUS
<1> QED BY <1>1, <1>2 DEF RequestLife, TaskLife, Queues

\* The three callbacks of a socket: d is the descriptor without the mark of the
\* callback that runs.
LEMMA SocketStep ==
  ASSUME RequestsLife, NEW t \in Requests, UNCHANGED options,
         ~NothingQueued(http_sd[t]),
         NEW d \in DescriptorType, DescriptorLife(d), NothingQueued(d),
         \/ Unwanted(t, d)
         \/ \E result \in Results : RunCallback(t, http[t], d, result)
         \/ \E end \in Ends :
              RunCallback(t, [http[t] EXCEPT !.close = CloseState(end)], d, end)
         \/ /\ Sd(t, StopWrite(d)) /\ Into(t, "DoRequestDone")
            /\ UNCHANGED <<http, num_pending>>
         \/ /\ Sd(t, StopRead(StopWrite(d))) /\ Into(t, "DoRetry")
            /\ UNCHANGED <<http, num_pending>>
  PROVE  RequestsLife'
<1>1. CASE Unwanted(t, d)
  <2>1. <<"DoCallback">> # <<>>
    OBVIOUS
  <2>2. RequestLife(http[t], d, http_queue[t])
    BY <2>1, SocketCallback DEF RequestLife, TaskLife, Queues
  <2> QED BY <1>1, <2>2, SdBecomes DEF Unwanted
<1>2. ASSUME NEW result \in Results, RunCallback(t, http[t], d, result)
      PROVE  RequestsLife'
  BY <1>2, SocketCallback, RunCallbackKeeps
<1>3. ASSUME NEW end \in Ends,
             RunCallback(t, [http[t] EXCEPT !.close = CloseState(end)], d, end)
      PROVE  RequestsLife'
  <2> DEFINE r == [http[t] EXCEPT !.close = CloseState(end)]
  <2>1. end \in Results
    BY HttpAssumption DEF Results
  <2>2. CloseState(end) \in {"NO_CLOSE", "NORMAL_CLOSE", "ERROR_CLOSE"}
    BY DEF CloseState
  <2>3. /\ r \in RequestTask /\ r.calls = 0 /\ r.state = http[t].state
        /\ r.throttled = http[t].throttled
    BY <2>2, SocketCallback DEF RequestTask
  <2> HIDE DEF r
  <2>4. RunCallback(t, r, d, end)
    BY <1>3 DEF r
  <2> QED BY <2>1, <2>3, <2>4, SocketCallback, RunCallbackKeeps
<1>4. ASSUME NEW e, NEW f \in {"DoRequestDone", "DoRetry"},
             e \in {StopWrite(d), StopRead(StopWrite(d))},
             Sd(t, e), Into(t, f), UNCHANGED <<http, num_pending>>
      PROVE  RequestsLife'
  <2> DEFINE q == Append(<<>>, f)
  <2>1. e \in DescriptorType /\ DescriptorLife(e) /\ NothingQueued(e)
    BY <1>4 DEF DescriptorType, DescriptorLife, NothingQueued, StopRead, StopWrite
  <2>2. q \in Queues /\ q # <<"DoCallback">>
    BY <1>4 DEF Queues
  <2> HIDE DEF q
  <2>3. RequestLife(http[t], e, q)
    BY <2>1, <2>2, SocketCallback DEF RequestLife, TaskLife
  <2>4. Becomes(t, http[t], e, q)
    <3>1. http = [http EXCEPT ![t] = http[t]] /\ http_queue[t] = <<>>
      BY SocketCallback DEF RequestsLife
    <3>2. num_pending' = num_pending + Count(http[t]) - Count(http[t])
      BY <1>4, NumPendingType DEF Count
    <3> QED BY <1>4, <3>1, <3>2 DEF Becomes, Sd, Into, q
  <2> QED BY <2>3, <2>4, BecomesKeeps
<1>5. CASE /\ Sd(t, StopWrite(d)) /\ Into(t, "DoRequestDone")
           /\ UNCHANGED <<http, num_pending>>
  BY <1>4, <1>5
<1>6. CASE /\ Sd(t, StopRead(StopWrite(d))) /\ Into(t, "DoRetry")
           /\ UNCHANGED <<http, num_pending>>
  BY <1>4, <1>6
<1> QED BY <1>1, <1>2, <1>3, <1>5, <1>6

\* The callbacks of the descriptor: DoWrite(),
LEMMA DoWriteKeeps ==
  ASSUME RequestsLife, NEW t \in Requests, UNCHANGED options,
         NEW end \in {"more", "sent", "error"}, TaskDoWrite(t, end)
  PROVE  RequestsLife'
<1> DEFINE d == TookWritable(http_sd[t])
<1>1. http_sd[t].write_in_queue # "none" /\ ~NothingQueued(http_sd[t])
  BY DEF TaskDoWrite, NothingQueued
<1>2. d \in DescriptorType /\ DescriptorLife(d) /\ NothingQueued(d)
  BY <1>1, SocketCallback DEF DescriptorType, DescriptorLife, NothingQueued,
                              TookWritable
<1>3. \/ Unwanted(t, d)
      \/ \E result \in Results : RunCallback(t, http[t], d, result)
      \/ /\ Sd(t, StopWrite(d)) /\ Into(t, "DoRequestDone")
         /\ UNCHANGED <<http, num_pending>>
  BY DEF TaskDoWrite, Results
<1> HIDE DEF d
<1> QED BY <1>1, <1>2, <1>3, SocketStep

\* DoRead(),
LEMMA DoReadKeeps ==
  ASSUME RequestsLife, NEW t \in Requests, UNCHANGED options,
         NEW end \in Ends \cup {"more"}, TaskDoRead(t, end)
  PROVE  RequestsLife'
<1> DEFINE d == TookReadable(http_sd[t])
<1>1. http_sd[t].read_in_queue # "none" /\ ~NothingQueued(http_sd[t])
  BY DEF TaskDoRead, NothingQueued
<1>2. d \in DescriptorType /\ DescriptorLife(d) /\ NothingQueued(d)
  BY <1>1, SocketCallback DEF DescriptorType, DescriptorLife, NothingQueued,
                              TookReadable
<1>3. \/ Unwanted(t, d)
      \/ \E result \in Results : RunCallback(t, http[t], d, result)
      \/ \E e \in Ends :
           RunCallback(t, [http[t] EXCEPT !.close = CloseState(e)], d, e)
  BY DEF TaskDoRead, Results
<1> HIDE DEF d
<1> QED BY <1>1, <1>2, <1>3, SocketStep

\* and DoTimeout().
LEMMA DoTimeoutKeeps ==
  ASSUME RequestsLife, NEW t \in Requests, UNCHANGED options, TaskDoTimeout(t)
  PROVE  RequestsLife'
<1> DEFINE d == TookTimeout(http_sd[t], TimeoutWanted(http_sd[t]))
<1>1. http_sd[t].timeout_in_queue /\ ~NothingQueued(http_sd[t])
  BY DEF TaskDoTimeout, NothingQueued
<1>2. d \in DescriptorType /\ DescriptorLife(d) /\ NothingQueued(d)
  <2> DEFINE c == IF TimeoutWanted(http_sd[t]) THEN "none"
                  ELSE http_sd[t].timeout_closure
             e == [http_sd[t] EXCEPT !.timeout_in_queue = FALSE,
                                     !.timeout_closure = c]
  <2>1. http_sd[t] \in DescriptorType /\ DescriptorLife(http_sd[t])
    BY <1>1, SocketCallback
  <2>2. c \in {"none", "DoTimeout"} /\ d = e
    BY <2>1 DEF DescriptorType, TookTimeout
  <2> HIDE DEF c, d
  <2>3. e \in DescriptorType
    BY <2>1, <2>2 DEF DescriptorType
  <2>4. /\ http_sd[t].read_in_queue = "none"
        /\ http_sd[t].write_in_queue = "none"
    BY <1>1, <2>1 DEF DescriptorLife
  <2>5. DescriptorLife(e) /\ NothingQueued(e)
    BY <2>1, <2>3, <2>4 DEF DescriptorType, DescriptorLife, NothingQueued
  <2> QED BY <2>2, <2>3, <2>5
<1>3. \/ Unwanted(t, d)
      \/ \E result \in Results : RunCallback(t, http[t], d, result)
      \/ /\ Sd(t, StopRead(StopWrite(d))) /\ Into(t, "DoRetry")
         /\ UNCHANGED <<http, num_pending>>
  BY DEF TaskDoTimeout, Results
<1> HIDE DEF d
<1> QED BY <1>1, <1>2, <1>3, SocketStep


\* The thread of a task with a descriptor and an empty queue is in DoWrite() or
\* DoRead().
LEMMA PollSocketKeeps ==
  ASSUME RequestsLife, NEW t \in Requests, UNCHANGED options, PollSocket(t)
  PROVE  RequestsLife'
<1> DEFINE d == http_sd[t]
<1>1. /\ d \in DescriptorType /\ DescriptorLife(d) /\ NothingQueued(d)
      /\ http_queue[t] = <<>> /\ http[t].descriptor
      /\ RequestLife(http[t], d, http_queue[t])
  BY IdleThread DEF PollSocket, RequestLife
<1>2. PICK e : /\ Sd(t, e)
               /\ \/ e = QueueReadable(d) /\ HasReadableClosure(d)
                  \/ e = QueueWritable(d) /\ HasWritableClosure(d)
                  \/ e = QueueTimeout(d)
  <2>1. PICK event \in SUBSET {"read", "write"} :
          LET f == IF "read" \in event THEN QueueReadable(d) ELSE d
          IN  /\ "read" \in event => HasReadableClosure(d)
              /\ "write" \in event => HasWritableClosure(d)
              /\ event = {} => HasTimeoutClosure(d)
              /\ Sd(t, IF event = {} THEN QueueTimeout(d)
                       ELSE IF "write" \in event THEN QueueWritable(f) ELSE f)
    BY DEF PollSocket
  <2>2. ~("read" \in event /\ "write" \in event)
    BY <1>1, <2>1 DEF HasReadableClosure, HasWritableClosure, DescriptorLife
  <2>3. CASE event = {}
    BY <2>1, <2>3
  <2>4. CASE "read" \in event
    BY <2>1, <2>2, <2>4
  <2>5. CASE "write" \in event
    BY <2>1, <2>2, <2>5
  <2> QED BY <2>3, <2>4, <2>5
<1>3. e \in DescriptorType
  BY <1>1, <1>2 DEF DescriptorType, QueueReadable, QueueWritable, QueueTimeout
<1>4. DescriptorLife(e)
  BY <1>1, <1>2 DEF DescriptorType, DescriptorLife, NothingQueued, QueueReadable,
                    QueueWritable, QueueTimeout, HasReadableClosure,
                    HasWritableClosure
<1>5. RequestLife(http[t], e, http_queue[t])
  BY <1>1, <1>3, <1>4 DEF RequestLife, TaskLife
<1>6. UNCHANGED <<http, http_queue, num_pending>>
  BY DEF PollSocket
<1> QED BY <1>2, <1>5, <1>6, SdBecomes

\* A new task has the type of one.
LEMMA NewTaskType ==
  ASSUME options \in HttpOptions
  PROVE  NewTask \in RequestTask
<1>1. options.timeouts \in Int
  BY HttpAssumption
<1> QED BY <1>1 DEF NewTask, RequestTask, Results

\* A closure of the thread leaves its queue empty.
LEMMA NextOfQueue ==
  ASSUME RequestsLife, NEW t \in Requests,
         NEW f \in {"DoRequestDone", "DoRetry", "DoCallback"}, RunNext(t, f)
  PROVE  /\ RequestLife(http[t], http_sd[t], <<f>>)
         /\ NothingQueued(http_sd[t])
         /\ f = "DoCallback" => http[t].at = "callback"
         /\ f # "DoCallback" => http[t].at = "io" /\ http[t].active
         /\ http_queue' = [http_queue EXCEPT ![t] = <<>>]
<1>1. RequestLife(http[t], http_sd[t], http_queue[t])
  BY DEF RequestsLife
<1>2. http_queue[t] = <<f>>
  <2>1. http_queue[t] \in Queues /\ http_queue[t] # <<>> /\ Head(http_queue[t]) = f
    BY <1>1 DEF RunNext, RequestLife
  <2> QED BY <2>1 DEF Queues
<1>3. Tail(<<f>>) = <<>> /\ <<f>> # <<>>
  OBVIOUS
<1>4. f # "DoCallback" => <<f>> \in {<<"DoRetry">>, <<"DoRequestDone">>}
  OBVIOUS
<1>5. NothingQueued(http_sd[t])
  BY <1>1, <1>2, <1>3 DEF RequestLife, TaskLife
<1>6. f = "DoCallback" => http[t].at = "callback"
  BY <1>1, <1>2 DEF RequestLife, TaskLife
<1>7. f # "DoCallback" => http[t].at = "io" /\ http[t].active
  BY <1>1, <1>2, <1>4 DEF RequestLife, TaskLife
<1> QED BY <1>1, <1>2, <1>3, <1>5, <1>6, <1>7 DEF RunNext

\* A request is done with its connection,
LEMMA DoRequestDoneKeeps ==
  ASSUME RequestsLife, NEW t \in Requests, UNCHANGED options,
         TaskDoRequestDone(t)
  PROVE  RequestsLife'
<1> DEFINE d == NotifyWhenReadable(ClearWritable(http_sd[t]), "DoRead")
<1>1. RunNext(t, "DoRequestDone")
  BY DEF TaskDoRequestDone
<1>2. /\ RequestLife(http[t], http_sd[t], <<"DoRequestDone">>)
      /\ NothingQueued(http_sd[t]) /\ http[t].at = "io" /\ http[t].active
      /\ http_queue' = [http_queue EXCEPT ![t] = <<>>]
  BY <1>1, NextOfQueue
<1>3. Sd(t, d) /\ UNCHANGED <<http, num_pending>>
  BY <1>2 DEF TaskDoRequestDone
<1>4. d \in DescriptorType /\ DescriptorLife(d) /\ NothingQueued(d)
  BY <1>2 DEF RequestLife, DescriptorType, DescriptorLife, NothingQueued,
              NotifyWhenReadable, ClearWritable
<1> HIDE DEF d
<1>5. RequestLife(http[t], d, <<>>)
  <2>1. <<"DoCallback">> # <<>> /\ <<"DoRequestDone">> # <<"DoCallback">>
    OBVIOUS
  <2> QED BY <1>2, <1>4, <2>1 DEF RequestLife, TaskLife, Queues
<1>6. Becomes(t, http[t], d, <<>>)
  <2>1. http = [http EXCEPT ![t] = http[t]]
    BY DEF RequestsLife
  <2>2. num_pending' = num_pending + Count(http[t]) - Count(http[t])
    BY <1>3, NumPendingType DEF Count
  <2> QED BY <1>2, <1>3, <2>1, <2>2 DEF Becomes, Sd
<1> QED BY <1>5, <1>6, BecomesKeeps

\* The task gives its descriptor back, to start again or to end.
LEMMA Released ==
  ASSUME RequestsLife, NEW t \in Requests, UNCHANGED options,
         NEW r \in RequestTask, Task(t, r), Sd(t, NewDescriptor),
         http_queue' = [http_queue EXCEPT ![t] = <<>>],
         num_pending' = num_pending, Count(r) = Count(http[t]),
         r.at \in {"start", "done"}, ~r.active, ~r.descriptor,
         r.calls = IF r.at = "done" THEN 1 ELSE 0,
         r.state = "PENDING" => r.throttled
  PROVE  RequestsLife'
<1>1. /\ NewDescriptor \in DescriptorType /\ DescriptorLife(NewDescriptor)
      /\ NothingQueued(NewDescriptor)
  BY DEF DescriptorType, DescriptorLife, NothingQueued, NewDescriptor
<1>2. <<"DoCallback">> # <<>> /\ <<"DoRetry">> # <<>> /\ <<"DoRequestDone">> # <<>>
  OBVIOUS
<1>3. RequestLife(r, NewDescriptor, <<>>)
  BY <1>1, <1>2 DEF RequestLife, TaskLife, Queues
<1>4. num_pending' = num_pending + Count(r) - Count(http[t])
  BY NumPendingType DEF Count
<1>5. Becomes(t, r, NewDescriptor, <<>>)
  BY <1>4 DEF Becomes, Task, Sd
<1> QED BY <1>3, <1>5, BecomesKeeps

\* and begins again,
LEMMA DoRetryKeeps ==
  ASSUME RequestsLife, NEW t \in Requests, UNCHANGED options, DoRetry(t)
  PROVE  RequestsLife'
<1> DEFINE r == [http[t] EXCEPT !.at = "start", !.active = FALSE,
                                !.descriptor = FALSE]
<1>1. RunNext(t, "DoRetry")
  BY DEF DoRetry
<1>2. /\ RequestLife(http[t], http_sd[t], <<"DoRetry">>)
      /\ http[t].at = "io" /\ http[t].active
      /\ http_queue' = [http_queue EXCEPT ![t] = <<>>]
  BY <1>1, NextOfQueue
<1>3. Sd(t, NewDescriptor) /\ Task(t, r) /\ num_pending' = num_pending
  BY <1>2 DEF DoRetry, ReleaseDescriptor
<1>4. /\ http[t] \in RequestTask /\ http[t].calls = 0
      /\ http[t].state = "PENDING" => http[t].throttled
  BY <1>2 DEF RequestLife, TaskLife
<1>5. /\ r \in RequestTask /\ r.at = "start" /\ ~r.active /\ ~r.descriptor
      /\ r.state = http[t].state /\ r.throttled = http[t].throttled
      /\ r.calls = 0
  BY <1>4 DEF RequestTask
<1> HIDE DEF r
<1>6. Count(r) = Count(http[t])
  BY <1>2, <1>5 DEF Count, Counted
<1> QED BY <1>2, <1>3, <1>4, <1>5, <1>6, Released

\* or calls back.
LEMMA DoCallbackKeeps ==
  ASSUME RequestsLife, NEW t \in Requests, UNCHANGED options, DoCallback(t)
  PROVE  RequestsLife'
<1> DEFINE r == [NewTask EXCEPT !.at = "done", !.calls = http[t].calls + 1]
<1>1. RunNext(t, "DoCallback")
  BY DEF DoCallback
<1>2. /\ RequestLife(http[t], http_sd[t], <<"DoCallback">>)
      /\ http[t].at = "callback"
      /\ http_queue' = [http_queue EXCEPT ![t] = <<>>]
  BY <1>1, NextOfQueue
<1>3. Sd(t, NewDescriptor) /\ Task(t, r) /\ num_pending' = num_pending
  BY DEF DoCallback, ReleaseDescriptor
<1>4. http[t].calls = 0
  BY <1>2 DEF RequestLife, TaskLife
<1>5. /\ r \in RequestTask /\ r.at = "done" /\ ~r.active /\ ~r.descriptor
      /\ r.state = "INIT" /\ r.calls = 1
  <2>1. NewTask \in RequestTask
    BY NewTaskType DEF RequestsLife
  <2>2. r = [NewTask EXCEPT !.at = "done", !.calls = 1]
    BY <1>4
  <2>3. ~NewTask.active /\ ~NewTask.descriptor /\ NewTask.state = "INIT"
    BY DEF NewTask
  <2> HIDE DEF r
  <2> QED BY <2>1, <2>2, <2>3 DEF RequestTask
<1> HIDE DEF r
<1>6. Count(r) = Count(http[t])
  BY <1>2, <1>5 DEF Count, Counted
<1> QED BY <1>2, <1>3, <1>5, <1>6, Released
-----------------------------------------------------------------------------
\* Every step.
LEMMA RequestsStep ==
  ASSUME RequestsLife, [HttpNext]_http_vars
  PROVE  RequestsLife'
<1>1. CASE UNCHANGED <<options, http, http_sd, http_queue, num_pending>>
  BY <1>1 DEF RequestsLife
<1>2. ASSUME NEW t \in Requests, RequestThread(t), UNCHANGED options
      PROVE  RequestsLife'
  BY <1>2, DoAsyncKeeps, StartTaskKeeps, AskKeeps, AuthorizeKeeps, ThrottledKeeps,
     ConnectFailsKeeps, ConnectsKeeps, PollSocketKeeps, DoTimeoutKeeps,
     DoWriteKeeps, DoReadKeeps, DoRequestDoneKeeps, DoRetryKeeps, DoCallbackKeeps
     DEF RequestThread
<1>3. CASE HttpNext /\ ~\E t \in Requests : RequestThread(t)
  BY <1>1, <1>3 DEF HttpNext, HttpStep, RefreshThread, OAuth2, same_http,
     TokenServer, ShutdownClient, ShutdownOAuth2, Destroy, UpdateTrafficHistory,
     Unblocked, TimePasses
<1> QED BY <1>1, <1>2, <1>3 DEF HttpNext, http_vars

\* The invariant says what RequestsExact says.
LEMMA RequestsLifeIsExact ==
  ASSUME RequestsLife
  PROVE  RequestsExact
<1>1. NumPendingExact
  BY DEF RequestsLife, NumPendingExact, Counted
<1>2. RequestsEndOnce
  BY DEF RequestsLife, RequestLife, TaskLife, RequestsEndOnce, CallbacksAlive,
         DescriptorLife, DescriptorType
<1> QED BY <1>1, <1>2 DEF RequestsExact

\* The callback of a request is run once, its descriptor is given back with
\* nothing queued, and num_pending_ counts the requests that wait (http.cc), for
\* any number of requests and any settings.
THEOREM RequestsAreExact == HttpSpec => []RequestsExact
<1>1. HttpInit => RequestsLife
  <2> SUFFICES ASSUME HttpInit PROVE RequestsLife
    OBVIOUS
  <2>1. RequestLife(NewTask, NewDescriptor, <<>>) /\ ~Counted(NewTask)
    <3>1. NewTask \in RequestTask
      BY NewTaskType DEF HttpInit
    <3>2. NewDescriptor \in DescriptorType
      BY DEF DescriptorType, NewDescriptor
    <3>3. <<"DoCallback">> # <<>> /\ <<"DoRetry">> # <<>> /\ <<"DoRequestDone">> # <<>>
      OBVIOUS
    <3>4. TaskLife(NewTask, NewDescriptor, <<>>)
      BY <3>3 DEF TaskLife, NewTask, NothingQueued, NewDescriptor
    <3>5. DescriptorLife(NewDescriptor) /\ ~Counted(NewTask)
      BY DEF DescriptorLife, NewDescriptor, Counted, NewTask
    <3> QED BY <3>1, <3>2, <3>4, <3>5 DEF RequestLife, Queues
  <2>2. {t \in Requests : Counted(http[t])} = {}
    BY <2>1 DEF HttpInit
  <2> QED BY <2>1, <2>2, FS_EmptySet DEF RequestsLife, HttpInit
<1>2. RequestsLife /\ [HttpNext]_http_vars => RequestsLife'
  BY RequestsStep
<1>3. RequestsLife => RequestsExact
  BY RequestsLifeIsExact
<1> QED BY <1>1, <1>2, <1>3, PTL DEF HttpSpec
==============================================================================

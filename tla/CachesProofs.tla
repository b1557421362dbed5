---------------------------- MODULE CachesProofs -----------------------------
(***************************************************************************)
(* The invariants of the two caches: InfosExact of CompilerInfoCache and   *)
(* OutputCacheExact of LocalOutputCache. Nothing of the one is used for    *)
(* the other.                                                              *)
(***************************************************************************)
EXTENDS CompilerInfoCache, LocalOutputCache, FiniteSetTheorems, FunctionTheorems,
        SequenceTheorems, WellFoundedInduction, TLAPS

-----------------------------------------------------------------------------
(***************************************************************************)
(* InfosExact of CompilerInfoCache, for any number of tasks, directories   *)
(* and changes of the compiler.                                            *)
(*                                                                         *)
(* Counts of references and lists of waiters are proved apart from each    *)
(* other, in InfoLife and ListLife.  The counts are exact in every state;  *)
(* what makes the other parts inductive is that nobody has a pointer to a  *)
(* state before it is stored (Unborn), and that of a pointer without a     *)
(* reference, between Lookup() or Store() and Ref(), nothing is claimed    *)
(* once the state was deleted (Current).  A task that used such a pointer  *)
(* is "undefined"; the list of waiters it would have taken stays.          *)
(***************************************************************************)
Infos == Askers \cup {"loaded"}
DataType == [content : Nat, stat : Nat, error : BOOLEAN, at : Nat]

\* Where a task is that has no pointer, has one without a reference, or has one
\* with it.
Bare == {"new", "missed", "waits", "posted", "unknown", "built", "end"}
Pointing == {"hit", "stored"}
Referring == {"tell", "got", "remote", "fallback"}

InfoTypes ==
  /\ info_plan \in InfoPlans
  /\ asker \in [Askers -> [at : Bare \cup Pointing \cup Referring \cup {"undefined"},
                           info : Infos \cup {None}, data : DataType, asked : Nat,
                           waited : BOOLEAN]]
  /\ info \in [Infos -> [data : DataType, refcnt : Nat, disabled : BOOLEAN]]
  /\ compiler_info \in [InfoKeys -> Infos \cup {None}]
  /\ info_waiters \in [Cwds -> Seq(Askers) \cup {NoList}]
  /\ telling \in [Askers -> [info : Infos \cup {None}, list : Seq(Askers)]]
  /\ compiler \in [content : Nat, stat : Nat] /\ info_time \in Nat

-----------------------------------------------------------------------------
(***************************************************************************)
(* States of compilers.                                                    *)
(***************************************************************************)
\* A task has a pointer exactly where it should.
PointerOf(t) ==
  /\ At(t) \in Bare => asker[t].info = None
  /\ At(t) \in Pointing \cup Referring => asker[t].info \in Infos
Pointers == \A t \in Askers : PointerOf(t)

KeysOf(i) == {k \in InfoKeys : compiler_info[k] = i}
Tellers(i) == {t \in Askers : telling[t].info = i}

\* A task that may still store a state has not done it: nobody has seen the state.
Before == {"new", "missed", "posted", "unknown", "built"}
Unborn ==
  \A t \in Askers : At(t) \in Before =>
    /\ info[t] = NoInfo
    /\ \A u \in Askers : At(u) \in Pointing => asker[u].info # t

\* What a task that did not wait has, or is about to get, is not older than the
\* compiler was when it asked.
CurrentOf(t) ==
  /\ asker[t].asked <= compiler.stat
  /\ At(t) = "waits" => asker[t].waited
  /\ At(t) = "built" => asker[t].data.stat >= asker[t].asked
  /\ At(t) \in Pointing \cup {"tell", "got"} /\ ~asker[t].waited =>
       \/ info[asker[t].info].refcnt = 0
       \/ info[asker[t].info].data.stat >= asker[t].asked
Current == \A t \in Askers : CurrentOf(t)

InfoLife == Pointers /\ InfoRefsExact /\ Unborn /\ DisabledTogether /\ Current

-----------------------------------------------------------------------------
(***************************************************************************)
(* Lists of waiters.                                                       *)
(***************************************************************************)
Distinct(q) == \A k, l \in 1..Len(q) : q[k] = q[l] => k = l
InTable(t, cwd) == info_waiters[cwd] # NoList /\ t \in ToSet(info_waiters[cwd])
InTold(t, u) == t \in ToSet(telling[u].list)

\* Whoever waits is in one list, once: that of its directory, until that is taken
\* out of the table.
WaitersInLists ==
  /\ \A cwd \in Cwds : info_waiters[cwd] # NoList => Distinct(info_waiters[cwd])
  /\ \A u \in Askers : Distinct(telling[u].list)
  /\ \A t \in Askers :
       /\ \A cwd \in Cwds : InTable(t, cwd) => At(t) = "waits" /\ cwd = CwdOf[t]
       /\ \A u \in Askers : InTold(t, u) => At(t) = "waits" /\ ~InTable(t, CwdOf[t])
       /\ \A u, v \in Askers : InTold(t, u) /\ InTold(t, v) => u = v
       /\ At(t) = "waits" => InTable(t, CwdOf[t]) \/ \E u \in Askers : InTold(t, u)

\* A list is for the task that asks the compiler, or for one that is lost.
ListOfBuilder ==
  /\ \A t \in Askers : Building(t) => info_waiters[CwdOf[t]] # NoList
  /\ \A t, u \in Askers : Building(t) /\ Building(u) /\ CwdOf[t] = CwdOf[u] => t = u
  /\ \A cwd \in Cwds : info_waiters[cwd] # NoList =>
       \E t \in Askers : CwdOf[t] = cwd /\ (Building(t) \/ At(t) = "undefined")

\* A task tells others once.
Untold == (Bare \ {"end"}) \cup Pointing \cup {"tell"}
NotTelling ==
  \A t \in Askers :
    At(t) \in Untold => telling[t].info = None /\ telling[t].list = <<>>

ListLife == WaitersInLists /\ ListOfBuilder /\ NotTelling

InfoInv == InfoTypes /\ InfoLife /\ ListLife

-----------------------------------------------------------------------------
(***************************************************************************)
(* Counting.                                                               *)
(***************************************************************************)
\* There are finitely many keys, and sets of them and of tasks have a size.
LEMMA FiniteKeys == IsFiniteSet(InfoKeys)
<1> DEFINE f == [t \in Askers |-> CwdOf[t]]
<1>1. f \in Surjection(Askers, Cwds)
  BY DEF Surjection, Cwds
<1>2. IsFiniteSet(Cwds)
  BY <1>1, FS_Surjection, AskersAssumption
<1> QED BY <1>2, FS_AddElement DEF InfoKeys

\* Sets of tasks and of keys are finite.
LEMMA Sizes ==
  ASSUME NEW S, S \in SUBSET InfoKeys \/ S \in SUBSET Askers
  PROVE  IsFiniteSet(S) /\ Cardinality(S) \in Nat
BY FiniteKeys, AskersAssumption, FS_Subset, FS_CardinalityType

\* One element more or less counts one.
LEMMA Plus ==
  ASSUME NEW S, S \in SUBSET InfoKeys \/ S \in SUBSET Askers, NEW x, x \notin S
  PROVE  Cardinality(S \cup {x}) = Cardinality(S) + 1
BY Sizes, FS_AddElement

\* One element less.
LEMMA Minus ==
  ASSUME NEW S, S \in SUBSET InfoKeys \/ S \in SUBSET Askers, NEW x \in S
  PROVE  Cardinality(S \ {x}) = Cardinality(S) - 1
BY Sizes, FS_RemoveElement

\* The sets that are counted.
LEMMA CountedSets ==
  ASSUME NEW i
  PROVE  /\ KeysOf(i) \in SUBSET InfoKeys /\ Holding(i) \in SUBSET Askers
         /\ Tellers(i) \in SUBSET Askers
         /\ Cardinality(KeysOf(i)) \in Nat /\ Cardinality(Holding(i)) \in Nat
         /\ Cardinality(Tellers(i)) \in Nat
<1>1. /\ KeysOf(i) \in SUBSET InfoKeys /\ Holding(i) \in SUBSET Askers
      /\ Tellers(i) \in SUBSET Askers
  BY DEF KeysOf, Holding, Tellers
<1> QED BY <1>1, Sizes

\* InfoRefsExact in these terms.
References(i) == Cardinality(KeysOf(i)) + Cardinality(Holding(i)) + Cardinality(Tellers(i))

\* InfoRefsExact, told by the number of references to each state.
LEMMA RefsAreReferences ==
  ASSUME InfoTypes
  PROVE  InfoRefsExact <=> \A i \in Infos : info[i].refcnt = References(i)
BY DEF InfoTypes, InfoRefsExact, References, KeysOf, Tellers

\* What somebody refers to has not been deleted.
LEMMA Alive ==
  ASSUME InfoTypes, InfoRefsExact, NEW i \in Infos,
         KeysOf(i) # {} \/ Holding(i) # {} \/ Tellers(i) # {}
  PROVE  info[i].refcnt >= 1
<1>1. \A S : S \in SUBSET InfoKeys \/ S \in SUBSET Askers =>
        (S # {} => Cardinality(S) >= 1)
  <2> SUFFICES ASSUME NEW S, S \in SUBSET InfoKeys \/ S \in SUBSET Askers, S # {}
               PROVE  Cardinality(S) >= 1
    OBVIOUS
  <2>1. Cardinality(S) \in Nat /\ IsFiniteSet(S)
    BY Sizes
  <2>2. Cardinality(S) # 0
    BY <2>1, FS_EmptySet
  <2> QED BY <2>1, <2>2
<1>2. /\ KeysOf(i) # {} => Cardinality(KeysOf(i)) >= 1
      /\ Holding(i) # {} => Cardinality(Holding(i)) >= 1
      /\ Tellers(i) # {} => Cardinality(Tellers(i)) >= 1
  BY <1>1, CountedSets
<1>3. info[i].refcnt = Cardinality(KeysOf(i)) + Cardinality(Holding(i))
                       + Cardinality(Tellers(i))
  BY RefsAreReferences DEF References
<1> QED BY <1>2, <1>3, CountedSets

-----------------------------------------------------------------------------
(***************************************************************************)
(* The invariant implies InfosExact.                                       *)
(***************************************************************************)
LEMMA InvIsExact == InfoInv => InfosExact
<1> SUFFICES ASSUME InfoInv, \A t \in Askers : At(t) # "undefined"
             PROVE  InfoRefsExact /\ InfoWaitersExact /\ DisabledTogether /\ AskedIsCurrent
  BY DEF InfosExact
<1>1. InfoTypes /\ InfoRefsExact /\ DisabledTogether /\ Pointers /\ Current
  BY DEF InfoInv, InfoLife
<1>2. AskedIsCurrent
  <2> SUFFICES ASSUME NEW t \in Askers, At(t) = "got", ~asker[t].waited
               PROVE  info[asker[t].info].data.stat >= asker[t].asked
    BY DEF AskedIsCurrent
  <2>1. asker[t].info \in Infos
    BY <1>1 DEF Pointers, PointerOf, Referring
  <2>2. t \in Holding(asker[t].info)
    BY DEF Holding
  <2>3. info[asker[t].info].refcnt >= 1
    BY <1>1, <2>1, <2>2, Alive
  <2> QED BY <1>1, <2>3 DEF Current, CurrentOf
<1>3. ASSUME NEW cwd \in Cwds
      PROVE  Cardinality({t \in Askers : CwdOf[t] = cwd /\ Building(t)})
               = IF info_waiters[cwd] = NoList THEN 0 ELSE 1
  <2> DEFINE B == {t \in Askers : CwdOf[t] = cwd /\ Building(t)}
  <2>1. ListOfBuilder
    BY DEF InfoInv, ListLife
  <2>2. CASE info_waiters[cwd] = NoList
    <3>1. B = {}
      BY <2>1, <2>2 DEF ListOfBuilder
    <3> QED BY <2>2, <3>1, FS_EmptySet
  <2>3. CASE info_waiters[cwd] # NoList
    <3>1. PICK t \in Askers : CwdOf[t] = cwd /\ Building(t)
      BY <2>1, <2>3 DEF ListOfBuilder
    <3>2. B = {t}
      BY <2>1, <3>1 DEF ListOfBuilder
    <3> QED BY <2>3, <3>2, FS_Singleton
  <2> QED BY <2>2, <2>3
<1>4. ASSUME NEW t \in Askers
      PROVE  Cardinality(ListsOf(t)) = IF At(t) = "waits" THEN 1 ELSE 0
  <2> DEFINE tables == {d \in Cwds : InTable(t, d)}
             tellers == {u \in Askers : InTold(t, u)}
  <2>1. ListsOf(t) = {<<"table", d>> : d \in tables} \cup {<<"telling", u>> : u \in tellers}
    BY DEF ListsOf, InTable, InTold
  <2>2. WaitersInLists /\ CwdOf[t] \in Cwds
    BY DEF InfoInv, ListLife, Cwds
  <2>3. CASE At(t) # "waits"
    <3>1. tables = {} /\ tellers = {}
      BY <2>2, <2>3 DEF WaitersInLists
    <3>2. ListsOf(t) = {}
      BY <2>1, <3>1
    <3> QED BY <2>3, <3>2, FS_EmptySet
  <2>4. CASE At(t) = "waits" /\ InTable(t, CwdOf[t])
    <3>1. tables = {CwdOf[t]} /\ tellers = {}
      BY <2>2, <2>4 DEF WaitersInLists
    <3>2. ListsOf(t) = {<<"table", CwdOf[t]>>}
      BY <2>1, <3>1
    <3> QED BY <2>4, <3>2, FS_Singleton
  <2>5. CASE At(t) = "waits" /\ ~InTable(t, CwdOf[t])
    <3>1. PICK u \in Askers : InTold(t, u)
      BY <2>2, <2>5 DEF WaitersInLists
    <3>2. tables = {} /\ tellers = {u}
      BY <2>2, <2>5, <3>1 DEF WaitersInLists
    <3>3. ListsOf(t) = {<<"telling", u>>}
      BY <2>1, <3>2
    <3> QED BY <2>5, <3>3, FS_Singleton
  <2> QED BY <2>3, <2>4, <2>5
<1> QED BY <1>1, <1>2, <1>3, <1>4 DEF InfoWaitersExact

-----------------------------------------------------------------------------
(***************************************************************************)
(* Initial states.                                                         *)
(***************************************************************************)
LEMMA EmptyList == /\ <<>> \in Seq(Askers) /\ Len(<<>>) = 0 /\ ToSet(<<>>) = {}
                   /\ Distinct(<<>>)
<1>1. <<>> \in Seq(Askers) /\ Len(<<>>) = 0 /\ DOMAIN <<>> = 1..0
  BY EmptySeq, LenProperties
<1>2. ToSet(<<>>) = {}
  BY <1>1 DEF ToSet
<1> QED BY <1>1, <1>2 DEF Distinct

\* The initial states.
LEMMA InitInv == InfoInit => InfoInv
<1> SUFFICES ASSUME InfoInit  PROVE InfoInv
  OBVIOUS
<1>1. /\ NoInfo \in [data : DataType, refcnt : Nat, disabled : BOOLEAN]
      /\ NoInfo.refcnt = 0 /\ NoInfo.disabled = FALSE /\ NoInfo.data \in DataType
  BY DEF NoInfo, Data, DataType
<1>2. /\ asker = [t \in Askers |-> NewAsker]
      /\ NewAsker.at = "new" /\ NewAsker.info = None /\ NewAsker.asked = 0
      /\ NewAsker.waited = FALSE
      /\ NewAsker \in [at : Bare \cup Pointing \cup Referring \cup {"undefined"},
                       info : Infos \cup {None}, data : DataType, asked : Nat,
                       waited : BOOLEAN]
  BY <1>1 DEF InfoInit, NewAsker, Bare
<1>3. info \in [Infos -> [data : DataType, refcnt : Nat, disabled : BOOLEAN]]
  <2>1. [NoInfo EXCEPT !.refcnt = 1] \in [data : DataType, refcnt : Nat, disabled : BOOLEAN]
    BY <1>1
  <2> QED BY <1>1, <2>1 DEF InfoInit, Infos
<1>4. InfoTypes
  <2>1. asker \in [Askers -> [at : Bare \cup Pointing \cup Referring \cup {"undefined"},
                             info : Infos \cup {None}, data : DataType, asked : Nat,
                             waited : BOOLEAN]]
    BY <1>2
  <2>2. /\ info_plan \in InfoPlans
        /\ compiler_info \in [InfoKeys -> Infos \cup {None}]
        /\ compiler \in [content : Nat, stat : Nat] /\ info_time \in Nat
    BY DEF InfoInit, Infos
  <2>3. /\ info_waiters \in [Cwds -> Seq(Askers) \cup {NoList}]
        /\ telling \in [Askers -> [info : Infos \cup {None}, list : Seq(Askers)]]
    BY EmptyList DEF InfoInit
  <2> QED BY <1>3, <2>1, <2>2, <2>3 DEF InfoTypes
<1>5. \A t \in Askers : At(t) = "new"
  BY <1>2 DEF At
<1>6. Pointers /\ Current
  BY <1>2, <1>5 DEF Pointers, PointerOf, Current, CurrentOf, InfoInit, At, Bare, Pointing, Referring
<1>7. \A t \in Askers : info[t] = NoInfo
  BY AskersAssumption DEF InfoInit
<1>8. Unborn
  BY <1>5, <1>7 DEF Unborn, Pointing
<1>9. DisabledTogether
  BY <1>1 DEF DisabledTogether, InfoInit
<1>10. ASSUME NEW i \in Infos  PROVE info[i].refcnt = References(i)
  <2>1. Holding(i) = {} /\ Tellers(i) = {}
    BY <1>5, AskersAssumption DEF Holding, Tellers, InfoInit, Infos, None
  <2>2. CASE i = "loaded" /\ info_plan.loaded
    <3>1. KeysOf(i) = {AnyCwd}
      BY <2>2 DEF KeysOf, InfoInit, InfoKeys, None
    <3>2. info[i].refcnt = 1
      BY <1>1, <2>2 DEF InfoInit, Infos
    <3>3. Cardinality(KeysOf(i)) = 1
      BY <3>1, FS_Singleton
    <3> QED BY <2>1, <3>2, <3>3, FS_EmptySet DEF References
  <2>3. CASE ~(i = "loaded" /\ info_plan.loaded)
    <3>1. KeysOf(i) = {}
      BY <2>3, AskersAssumption DEF KeysOf, InfoInit, Infos, None
    <3>2. info[i].refcnt = 0
      BY <1>1, <2>3 DEF InfoInit, Infos
    <3> QED BY <2>1, <3>1, <3>2, FS_EmptySet DEF References
  <2> QED BY <2>2, <2>3
<1>11. InfoRefsExact
  BY <1>4, <1>10, RefsAreReferences
<1>12. WaitersInLists
  BY <1>5, EmptyList DEF WaitersInLists, InfoInit, InTable, InTold
<1>13. ListOfBuilder /\ NotTelling
  BY <1>5 DEF ListOfBuilder, NotTelling, InfoInit, Building
<1> QED BY <1>4, <1>6, <1>8, <1>9, <1>11, <1>12, <1>13 DEF InfoInv, InfoLife, ListLife

-----------------------------------------------------------------------------
(***************************************************************************)
(* Types.  Every action changes the record of one task, or of one state.   *)
(***************************************************************************)
AskerType ==
  [at : Bare \cup Pointing \cup Referring \cup {"undefined"}, info : Infos \cup {None},
   data : DataType, asked : Nat, waited : BOOLEAN]
InfoType == [data : DataType, refcnt : Nat, disabled : BOOLEAN]

\* What Lookup() returns is in the table and valid.
LEMMA Lookups ==
  ASSUME InfoTypes, NEW k \in InfoKeys
  PROVE  /\ LookupUnlocked(k) \in Infos \cup {None}
         /\ LookupUnlocked(k) # None =>
              /\ LookupUnlocked(k) \in Infos /\ k \in KeysOf(LookupUnlocked(k))
              /\ info[LookupUnlocked(k)].data.stat = compiler.stat
BY DEF InfoTypes, LookupUnlocked, Valid, KeysOf

\* Lookup() returns a state that some key has, with the stat of the compiler, or none.
LEMMA LookedUp ==
  ASSUME InfoTypes, NEW t \in Askers
  PROVE  /\ Lookup(t) \in Infos \cup {None}
         /\ Lookup(t) # None => /\ Lookup(t) \in Infos /\ KeysOf(Lookup(t)) # {}
                                /\ info[Lookup(t)].data.stat = compiler.stat
<1>1. AnyCwd \in InfoKeys /\ CwdOf[t] \in InfoKeys
  BY DEF InfoKeys, Cwds
<1> QED BY <1>1, Lookups DEF Lookup

\* The operators on states.
LEMMA RefType ==
  ASSUME NEW infos \in [Infos -> InfoType], NEW i \in Infos
  PROVE  /\ Ref(infos, i) \in [Infos -> InfoType]
         /\ Ref(infos, i)[i].refcnt = infos[i].refcnt + 1
         /\ Ref(infos, i)[i].data = infos[i].data
         /\ Ref(infos, i)[i].disabled = infos[i].disabled
         /\ \A j \in Infos \ {i} : Ref(infos, i)[j] = infos[j]
BY DEF Ref, InfoType

\* A state that was not stored yet.
LEMMA NoInfoType == /\ NoInfo \in InfoType /\ NoInfo.refcnt = 0
                    /\ NoInfo.disabled = FALSE /\ NoInfo.data \in DataType
BY DEF NoInfo, Data, DataType, InfoType

\* Unref() takes one reference, and leaves all else as long as another is left.
LEMMA UnrefType ==
  ASSUME NEW infos \in [Infos -> InfoType], NEW i \in Infos, infos[i].refcnt >= 1
  PROVE  /\ Unref(infos, i) \in [Infos -> InfoType]
         /\ Unref(infos, i)[i].refcnt = infos[i].refcnt - 1
         /\ infos[i].refcnt > 1 => /\ Unref(infos, i)[i].data = infos[i].data
                                   /\ Unref(infos, i)[i].disabled = infos[i].disabled
         /\ \A j \in Infos \ {i} : Unref(infos, i)[j] = infos[j]
BY NoInfoType DEF Unref, InfoType

\* A hit updates the time a state was last used, and nothing else.
LEMMA UsedType ==
  ASSUME InfoTypes, NEW i \in Infos \cup {None}
  PROVE  /\ Used(i) \in [Infos -> InfoType]
         /\ \A j \in Infos : /\ Used(i)[j].refcnt = info[j].refcnt
                             /\ Used(i)[j].disabled = info[j].disabled
                             /\ Used(i)[j].data.stat = info[j].data.stat
                             /\ Used(i)[j].data.content = info[j].data.content
                             /\ i # j => Used(i)[j] = info[j]
<1>1. CASE i # None /\ info_time > info[i].data.at
  <2> DEFINE new == [info[i] EXCEPT !.data.at = info_time]
  <2>1. Used(i) = [info EXCEPT ![i] = new] /\ i \in Infos
    BY <1>1 DEF Used
  <2>2. info \in [Infos -> InfoType] /\ info_time \in Nat
    BY DEF InfoTypes, InfoType
  <2>3. info[i] \in InfoType /\ info[i].data \in DataType
    BY <2>1, <2>2 DEF InfoType
  <2>4. new = [info[i] EXCEPT !.data = [info[i].data EXCEPT !.at = info_time]]
    OBVIOUS
  <2>5. /\ new \in InfoType /\ new.refcnt = info[i].refcnt
        /\ new.disabled = info[i].disabled /\ new.data.stat = info[i].data.stat
        /\ new.data.content = info[i].data.content
    BY <2>2, <2>3, <2>4 DEF InfoType, DataType
  <2> HIDE DEF new
  <2> QED BY <2>1, <2>2, <2>5
<1>2. CASE ~(i # None /\ info_time > info[i].data.at)
  BY <1>2 DEF Used, InfoTypes, InfoType
<1> QED BY <1>1, <1>2

-----------------------------------------------------------------------------
(***************************************************************************)
(* States: how a step that changes one task, one teller and one key at     *)
(* most counts references.                                                 *)
(***************************************************************************)
HeldBy(t, i) == IF asker[t].info = i /\ At(t) \in Referring THEN 1 ELSE 0
ToldBy(t, i) == IF telling[t].info = i THEN 1 ELSE 0
KeptBy(k, i) == IF compiler_info[k] = i THEN 1 ELSE 0

\* A set in which one element came, went or stayed.
LEMMA OneElement ==
  ASSUME NEW S, S \in SUBSET InfoKeys \/ S \in SUBSET Askers,
         NEW T, T \in SUBSET InfoKeys \/ T \in SUBSET Askers,
         NEW x, \A y : y # x => (y \in S <=> y \in T)
  PROVE  Cardinality(T) = Cardinality(S) - (IF x \in S THEN 1 ELSE 0)
                                         + (IF x \in T THEN 1 ELSE 0)
<1>1. Cardinality(S) \in Nat /\ Cardinality(T) \in Nat
  BY Sizes
<1>2. CASE x \in S <=> x \in T
  <2>1. S = T
    BY <1>2
  <2> QED BY <1>1, <2>1
<1>3. CASE x \in S /\ x \notin T
  <2>1. T = S \ {x}
    BY <1>3
  <2> QED BY <1>1, <1>3, <2>1, Minus
<1>4. CASE x \notin S /\ x \in T
  <2>1. T = S \cup {x}
    BY <1>4
  <2> QED BY <1>1, <1>4, <2>1, Plus
<1> QED BY <1>2, <1>3, <1>4

\* The number of tasks that refer to a state, when one task moves.
LEMMA HoldingMoves ==
  ASSUME NEW t \in Askers, \A u \in Askers \ {t} : asker'[u] = asker[u], NEW i
  PROVE  Cardinality(Holding(i)') = Cardinality(Holding(i)) - HeldBy(t, i) + HeldBy(t, i)'
<1> DEFINE S == Holding(i)
           T == Holding(i)'
<1>1. /\ S \in SUBSET Askers /\ T \in SUBSET Askers
      /\ \A y : y # t => (y \in S <=> y \in T)
      /\ HeldBy(t, i) = (IF t \in S THEN 1 ELSE 0)
      /\ HeldBy(t, i)' = (IF t \in T THEN 1 ELSE 0)
  BY DEF Holding, HeldBy, At, Referring
<1> HIDE DEF S, T
<1>2. Cardinality(T) = Cardinality(S) - HeldBy(t, i) + HeldBy(t, i)'
  BY <1>1, OneElement
<1> QED BY <1>2 DEF S, T

\* The number of tasks that tell waiters of a state, when one task moves.
LEMMA TellersMove ==
  ASSUME NEW t \in Askers, \A u \in Askers \ {t} : telling'[u] = telling[u], NEW i
  PROVE  Cardinality(Tellers(i)') = Cardinality(Tellers(i)) - ToldBy(t, i) + ToldBy(t, i)'
<1> DEFINE S == Tellers(i)
           T == Tellers(i)'
<1>1. /\ S \in SUBSET Askers /\ T \in SUBSET Askers
      /\ \A y : y # t => (y \in S <=> y \in T)
      /\ ToldBy(t, i) = (IF t \in S THEN 1 ELSE 0)
      /\ ToldBy(t, i)' = (IF t \in T THEN 1 ELSE 0)
  BY DEF Tellers, ToldBy
<1> HIDE DEF S, T
<1>2. Cardinality(T) = Cardinality(S) - ToldBy(t, i) + ToldBy(t, i)'
  BY <1>1, OneElement
<1> QED BY <1>2 DEF S, T

\* The number of keys that have a state, when one key is set.
LEMMA KeysMove ==
  ASSUME NEW k \in InfoKeys, \A l \in InfoKeys \ {k} : compiler_info'[l] = compiler_info[l], NEW i
  PROVE  Cardinality(KeysOf(i)') = Cardinality(KeysOf(i)) - KeptBy(k, i) + KeptBy(k, i)'
<1> DEFINE S == KeysOf(i)
           T == KeysOf(i)'
<1>1. /\ S \in SUBSET InfoKeys /\ T \in SUBSET InfoKeys
      /\ \A y : y # k => (y \in S <=> y \in T)
      /\ KeptBy(k, i) = (IF k \in S THEN 1 ELSE 0)
      /\ KeptBy(k, i)' = (IF k \in T THEN 1 ELSE 0)
  BY DEF KeysOf, KeptBy
<1> HIDE DEF S, T
<1>2. Cardinality(T) = Cardinality(S) - KeptBy(k, i) + KeptBy(k, i)'
  BY <1>1, OneElement
<1> QED BY <1>2 DEF S, T

\* The counts stay exact when they follow these changes.
LEMMA RefsMove ==
  ASSUME InfoTypes, InfoTypes', InfoRefsExact, NEW t \in Askers, NEW u \in Askers, NEW k \in InfoKeys,
         \A v \in Askers \ {t} : asker'[v] = asker[v],
         \A v \in Askers \ {u} : telling'[v] = telling[v],
         \A l \in InfoKeys \ {k} : compiler_info'[l] = compiler_info[l],
         \A i \in Infos :
           info'[i].refcnt = info[i].refcnt - HeldBy(t, i) + HeldBy(t, i)'
                             - ToldBy(u, i) + ToldBy(u, i)' - KeptBy(k, i) + KeptBy(k, i)'
  PROVE  InfoRefsExact'
<1>1. ASSUME NEW i \in Infos
      PROVE  info'[i].refcnt = Cardinality(KeysOf(i)') + Cardinality(Holding(i)')
                               + Cardinality(Tellers(i)')
  <2>1. info[i].refcnt = Cardinality(KeysOf(i)) + Cardinality(Holding(i))
                         + Cardinality(Tellers(i))
    BY RefsAreReferences DEF References
  <2>2. Cardinality(Holding(i)') = Cardinality(Holding(i)) - HeldBy(t, i) + HeldBy(t, i)'
    BY HoldingMoves
  <2>3. Cardinality(Tellers(i)') = Cardinality(Tellers(i)) - ToldBy(u, i) + ToldBy(u, i)'
    BY TellersMove
  <2>4. Cardinality(KeysOf(i)') = Cardinality(KeysOf(i)) - KeptBy(k, i) + KeptBy(k, i)'
    BY KeysMove
  <2>5. /\ {HeldBy(t, i), ToldBy(u, i), KeptBy(k, i)} \subseteq Int
        /\ {HeldBy(t, i)', ToldBy(u, i)', KeptBy(k, i)'} \subseteq Int
    BY DEF HeldBy, ToldBy, KeptBy
  <2> QED BY <2>1, <2>2, <2>3, <2>4, <2>5, CountedSets
<1>2. DOMAIN info' = Infos
  BY DEF InfoTypes
<1>3. \A i \in Infos : info'[i].refcnt = Cardinality({l \in InfoKeys : compiler_info[l] = i}')
                         + Cardinality(Holding(i)') + Cardinality({v \in Askers : telling[v].info = i}')
  BY <1>1 DEF KeysOf, Tellers
<1> QED BY <1>2, <1>3 DEF InfoRefsExact

\* What a task refers to, or whoever calls back waiters, has not been deleted; nor
\* has what the table has.
LEMMA HeldIsAlive ==
  ASSUME InfoTypes, InfoRefsExact, Pointers, NEW t \in Askers, At(t) \in Referring
  PROVE  asker[t].info \in Infos /\ info[asker[t].info].refcnt >= 1
<1>1. asker[t].info \in Infos
  BY DEF Pointers, PointerOf
<1>2. t \in Holding(asker[t].info)
  BY DEF Holding, Referring
<1> QED BY <1>1, <1>2, Alive

\* A state that waiters are told of has a reference.
LEMMA ToldIsAlive ==
  ASSUME InfoTypes, InfoRefsExact, NEW t \in Askers, telling[t].info # None
  PROVE  telling[t].info \in Infos /\ info[telling[t].info].refcnt >= 1
<1>1. telling[t].info \in Infos
  BY DEF InfoTypes
<1>2. t \in Tellers(telling[t].info)
  BY DEF Tellers
<1> QED BY <1>1, <1>2, Alive

\* A state in the table has a reference.
LEMMA KeptIsAlive ==
  ASSUME InfoTypes, InfoRefsExact, NEW k \in InfoKeys, compiler_info[k] # None
  PROVE  compiler_info[k] \in Infos /\ info[compiler_info[k]].refcnt >= 1
<1>1. compiler_info[k] \in Infos
  BY DEF InfoTypes
<1>2. k \in KeysOf(compiler_info[k])
  BY DEF KeysOf
<1> QED BY <1>1, <1>2, Alive

\* None is not a state.
LEMMA NoneIsNoInfo == None \notin Infos
BY AskersAssumption DEF Infos, None

-----------------------------------------------------------------------------
(***************************************************************************)
(* States: steps that leave the table alone.                               *)
(***************************************************************************)
LEMMA KeptIsAliveNext ==
  ASSUME InfoTypes', InfoRefsExact', NEW k \in InfoKeys, NEW i, compiler_info'[k] = i, i # None
  PROVE  i \in Infos /\ info'[i].refcnt >= 1
<1> DEFINE S == {l \in InfoKeys : compiler_info'[l] = i}
           H == Holding(i)'
           T == {v \in Askers : telling'[v].info = i}
<1>1. i \in Infos /\ DOMAIN info' = Infos
  BY DEF InfoTypes
<1>2. info'[i].refcnt = Cardinality(S) + Cardinality(H) + Cardinality(T)
  BY <1>1 DEF InfoRefsExact
<1>3. S \in SUBSET InfoKeys /\ H \in SUBSET Askers /\ T \in SUBSET Askers /\ k \in S
  BY DEF Holding
<1> HIDE DEF S, H, T
<1>4. /\ Cardinality(S) \in Nat /\ Cardinality(H) \in Nat /\ Cardinality(T) \in Nat
      /\ IsFiniteSet(S)
  BY <1>3, Sizes
<1>5. Cardinality(S) # 0
  BY <1>3, <1>4, FS_EmptySet
<1> QED BY <1>1, <1>2, <1>4, <1>5

\* A deleted state stays as it is, and what is left of the others says the same.
InfosKept ==
  \A i \in Infos :
    /\ info[i].refcnt = 0 => info'[i] = info[i]
    /\ info'[i].refcnt > 0 => /\ info'[i].data.content = info[i].data.content
                              /\ info'[i].data.stat = info[i].data.stat
                              /\ info'[i].disabled = info[i].disabled

\* A state is stored in this step.
Fresh(i) == i \in Askers /\ At(i) \in Before /\ At(i)' \notin Before
StatKept(i) ==
  /\ info[i].refcnt = 0 => info'[i] = info[i]
  /\ info'[i].refcnt > 0 => info'[i].data.stat = info[i].data.stat

\* A task moves to where it may be.
MovedWell(t) ==
  /\ PointerOf(t)' /\ CurrentOf(t)'
  /\ At(t)' \in Before => At(t) \in Before
  /\ At(t)' \in Pointing => \E i \in Infos : /\ asker'[t].info = i
                                             /\ info[i].refcnt >= 1 \/ Fresh(i)

\* What the tasks know stays right when states keep their stats or are new, and the
\* tasks that move do it well.
LEMMA LifeOfAskers ==
  ASSUME InfoTypes, InfoTypes', InfoLife, compiler'.stat >= compiler.stat,
         \A i \in Infos : StatKept(i) \/ Fresh(i),
         \A u \in Askers : asker'[u] = asker[u] \/ MovedWell(u)
  PROVE  Pointers' /\ Current' /\ Unborn'
<1>1. Pointers /\ InfoRefsExact /\ Unborn /\ Current
  BY DEF InfoLife
<1>2. Pointers'
  <2> SUFFICES ASSUME NEW u \in Askers  PROVE PointerOf(u)'
    BY DEF Pointers
  <2>1. CASE asker'[u] = asker[u]
    BY <1>1, <2>1 DEF Pointers, PointerOf, At
  <2> QED BY <2>1 DEF MovedWell
<1>3. ASSUME NEW t \in Askers, At(t) \in Before
      PROVE  info[t] = NoInfo /\ t \in Infos /\ info[t].refcnt = 0
  BY <1>1, <1>3, NoInfoType DEF Unborn, Infos
<1>4. Current'
  <2> SUFFICES ASSUME NEW u \in Askers  PROVE CurrentOf(u)'
    BY DEF Current
  <2>1. CASE asker'[u] = asker[u]
    <3>1. CurrentOf(u) /\ PointerOf(u)
      BY <1>1 DEF Current, Pointers
    <3>2. compiler.stat \in Nat /\ compiler'.stat \in Nat /\ asker[u].asked \in Nat
      BY DEF InfoTypes
    <3>3. ASSUME At(u) \in Pointing \cup {"tell", "got"}, ~asker[u].waited
          PROVE  info'[asker[u].info].refcnt = 0 \/ info'[asker[u].info].data.stat >= asker[u].asked
      <4> DEFINE i == asker[u].info
      <4>1. i \in Infos
        BY <3>1, <3>3 DEF PointerOf, Referring
      <4>2. info'[i].refcnt \in Nat /\ info[i].refcnt \in Nat
        BY <4>1 DEF InfoTypes
      <4>3. ASSUME i \in Askers, At(i) \in Before  PROVE FALSE
        <5>1. CASE At(u) \in Pointing
          BY <1>1, <4>3, <5>1 DEF Unborn
        <5>2. CASE At(u) \in Referring
          BY <1>1, <1>3, <4>3, <5>2, HeldIsAlive
        <5> QED BY <3>3, <5>1, <5>2 DEF Referring
      <4>4. StatKept(i)
        <5>1. PICK j \in Infos : j = i
          BY <4>1
        <5>2. ~Fresh(j)
          BY <4>3, <5>1 DEF Fresh
        <5> QED BY <5>1, <5>2 DEF StatKept
      <4> QED BY <3>1, <3>3, <4>1, <4>2, <4>4 DEF CurrentOf, StatKept
    <3> QED BY <2>1, <3>1, <3>2, <3>3 DEF CurrentOf, At
  <2> QED BY <2>1 DEF MovedWell
<1>5. Unborn'
  <2> SUFFICES ASSUME NEW t \in Askers, At(t)' \in Before
               PROVE  /\ info'[t] = NoInfo
                      /\ \A u \in Askers : At(u)' \in Pointing => asker'[u].info # t
    BY DEF Unborn
  <2>1. At(t) \in Before /\ ~Fresh(t)
    BY DEF MovedWell, At, Fresh
  <2>2. info[t] = NoInfo /\ t \in Infos /\ info[t].refcnt = 0
    BY <1>3, <2>1
  <2>3. info'[t] = NoInfo
    BY <2>1, <2>2 DEF StatKept
  <2>4. ASSUME NEW u \in Askers, At(u)' \in Pointing  PROVE asker'[u].info # t
    <3>1. CASE asker'[u] = asker[u]
      BY <1>1, <2>1, <2>4, <3>1 DEF Unborn, At
    <3>2. CASE MovedWell(u)
      <4>1. PICK i \in Infos : asker'[u].info = i /\ (info[i].refcnt >= 1 \/ Fresh(i))
        BY <2>4, <3>2 DEF MovedWell
      <4> QED BY <2>1, <2>2, <4>1
    <3> QED BY <3>1, <3>2
  <2> QED BY <2>3, <2>4
<1> QED BY <1>2, <1>4, <1>5

\* InfoLife survives a step that leaves the table alone.
LEMMA KeptLife ==
  ASSUME InfoTypes, InfoTypes', InfoLife, InfoRefsExact', UNCHANGED compiler_info,
         InfosKept, compiler'.stat >= compiler.stat,
         \A u \in Askers : asker'[u] = asker[u] \/ MovedWell(u)
  PROVE  InfoLife'
<1>1. Pointers' /\ Current' /\ Unborn'
  <2>1. \A i \in Infos : StatKept(i)
    BY DEF InfosKept, StatKept
  <2> QED BY <2>1, LifeOfAskers
<1>2. DisabledTogether'
  <2> SUFFICES ASSUME NEW j \in InfoKeys, NEW k \in InfoKeys,
                      compiler_info[j] # None, compiler_info[k] # None,
                      info'[compiler_info[j]].data.content = info'[compiler_info[k]].data.content
               PROVE  info'[compiler_info[j]].disabled = info'[compiler_info[k]].disabled
    BY DEF DisabledTogether
  <2>1. /\ compiler_info[j] \in Infos /\ info'[compiler_info[j]].refcnt >= 1
        /\ compiler_info[k] \in Infos /\ info'[compiler_info[k]].refcnt >= 1
    BY KeptIsAliveNext
  <2>2. /\ info'[compiler_info[j]].refcnt > 0 /\ info'[compiler_info[k]].refcnt > 0
    BY <2>1 DEF InfoTypes
  <2> QED BY <2>1, <2>2 DEF InfosKept, DisabledTogether, InfoLife
<1> QED BY <1>1, <1>2 DEF InfoLife

\* A step of one task and one teller.
LEMMA LifeOfStep ==
  ASSUME InfoTypes, InfoTypes', InfoLife, UNCHANGED compiler_info, InfosKept,
         compiler'.stat >= compiler.stat, NEW t \in Askers, NEW u \in Askers,
         \A v \in Askers \ {t} : asker'[v] = asker[v],
         \A v \in Askers \ {u} : telling'[v] = telling[v],
         asker'[t] = asker[t] \/ MovedWell(t),
         \A i \in Infos : info'[i].refcnt = info[i].refcnt - HeldBy(t, i) + HeldBy(t, i)'
                                            - ToldBy(u, i) + ToldBy(u, i)'
  PROVE  InfoLife'
<1>1. AnyCwd \in InfoKeys
  BY DEF InfoKeys
<1>2. \A i \in Infos : KeptBy(AnyCwd, i)' = KeptBy(AnyCwd, i)
  BY DEF KeptBy
<1>3. \A i \in Infos : /\ {info[i].refcnt, HeldBy(t, i), ToldBy(u, i), KeptBy(AnyCwd, i)} \subseteq Int
                       /\ {HeldBy(t, i)', ToldBy(u, i)'} \subseteq Int
  BY DEF InfoTypes, HeldBy, ToldBy, KeptBy
<1>4. \A i \in Infos :
        info'[i].refcnt = info[i].refcnt - HeldBy(t, i) + HeldBy(t, i)'
                          - ToldBy(u, i) + ToldBy(u, i)' - KeptBy(AnyCwd, i) + KeptBy(AnyCwd, i)'
  BY <1>2, <1>3
<1>5. InfoRefsExact
  BY DEF InfoLife
<1>6. InfoRefsExact'
  BY <1>1, <1>4, <1>5, RefsMove
<1> QED BY <1>6, KeptLife

\* One that counts no reference.
LEMMA LifeOfBareStep ==
  ASSUME InfoTypes, InfoTypes', InfoLife, UNCHANGED <<compiler_info, telling>>,
         InfosKept, compiler'.stat >= compiler.stat,
         \A i \in Infos : info'[i].refcnt = info[i].refcnt,
         NEW t \in Askers, \A u \in Askers \ {t} : asker'[u] = asker[u],
         \A i \in Infos : HeldBy(t, i)' = HeldBy(t, i),
         MovedWell(t)
  PROVE  InfoLife'
<1>1. \A i \in Infos : ToldBy(t, i)' = ToldBy(t, i)
  BY DEF ToldBy
<1>2. \A i \in Infos : {info[i].refcnt, HeldBy(t, i), ToldBy(t, i)} \subseteq Int
  BY DEF InfoTypes, HeldBy, ToldBy
<1>3. \A i \in Infos : info'[i].refcnt = info[i].refcnt - HeldBy(t, i) + HeldBy(t, i)'
                                         - ToldBy(t, i) + ToldBy(t, i)'
  BY <1>1, <1>2
<1> QED BY <1>3, LifeOfStep

\* Counting keeps what is said of a state.
LEMMA RefKeeps ==
  ASSUME InfoTypes, NEW i \in Infos, info[i].refcnt >= 1, info' = Ref(info, i)
  PROVE  InfosKept
<1>1. info \in [Infos -> InfoType]
  BY DEF InfoTypes, InfoType
<1>2. /\ info'[i].data = info[i].data /\ info'[i].disabled = info[i].disabled
      /\ \A j \in Infos \ {i} : info'[j] = info[j]
  BY <1>1, RefType
<1>3. info[i].refcnt # 0
  BY <1>1 DEF InfoType
<1> QED BY <1>2, <1>3 DEF InfosKept

\* Unref() leaves what InfoLife says of the states.
LEMMA UnrefKeeps ==
  ASSUME InfoTypes, NEW i \in Infos, info[i].refcnt >= 1, info' = Unref(info, i)
  PROVE  InfosKept
<1>1. info \in [Infos -> InfoType]
  BY DEF InfoTypes, InfoType
<1>2. info[i].refcnt \in Nat
  BY <1>1 DEF InfoType
<1> QED BY <1>1, <1>2, UnrefType DEF InfosKept, InfoType

\* So does a hit.
LEMMA UsedKeeps ==
  ASSUME InfoTypes, InfoRefsExact, NEW t \in Askers, info' = Used(Lookup(t))
  PROVE  /\ InfosKept /\ info' \in [Infos -> InfoType]
         /\ \A i \in Infos : info'[i].refcnt = info[i].refcnt
         /\ Lookup(t) \in Infos \cup {None}
         /\ Lookup(t) # None => /\ Lookup(t) \in Infos /\ info[Lookup(t)].refcnt >= 1
                                /\ info'[Lookup(t)].data.stat = compiler.stat
<1>1. /\ Lookup(t) \in Infos \cup {None}
      /\ Lookup(t) # None => /\ Lookup(t) \in Infos /\ KeysOf(Lookup(t)) # {}
                             /\ info[Lookup(t)].data.stat = compiler.stat
  BY LookedUp
<1>2. Lookup(t) # None => info[Lookup(t)].refcnt >= 1
  BY <1>1, Alive
<1>3. /\ info' \in [Infos -> InfoType]
      /\ \A j \in Infos : /\ info'[j].refcnt = info[j].refcnt
                          /\ info'[j].disabled = info[j].disabled
                          /\ info'[j].data.stat = info[j].data.stat
                          /\ info'[j].data.content = info[j].data.content
                          /\ Lookup(t) # j => info'[j] = info[j]
  BY <1>1, UsedType
<1>4. InfosKept
  <2> SUFFICES ASSUME NEW j \in Infos, info[j].refcnt = 0  PROVE info'[j] = info[j]
    BY <1>3 DEF InfosKept
  <2>1. Lookup(t) # j
    BY <1>1, <1>2, NoneIsNoInfo
  <2> QED BY <1>3, <2>1
<1> QED BY <1>1, <1>2, <1>3, <1>4

-----------------------------------------------------------------------------
(***************************************************************************)
(* States: the actions that leave the table alone.                         *)
(***************************************************************************)
\* InfoTypes with the types named.
LEMMA TypesNext ==
  ASSUME InfoTypes, asker' \in [Askers -> AskerType], info' \in [Infos -> InfoType],
         UNCHANGED <<compiler_info, info_waiters, telling, world_vars>>
  PROVE  InfoTypes'
BY DEF InfoTypes, AskerType, InfoType, world_vars

\* The parts of InfoTypes the steps need most.
LEMMA TypesNow ==
  ASSUME InfoTypes
  PROVE  /\ asker \in [Askers -> AskerType] /\ info \in [Infos -> InfoType]
         /\ compiler.stat \in Nat /\ compiler.content \in Nat /\ info_time \in Nat
BY DEF InfoTypes, AskerType, InfoType

\* The place of a task decides what it is.
LEMMA Places ==
  /\ {"new", "missed", "waits", "posted", "unknown", "built", "end"} = Bare
  /\ {"hit", "stored"} = Pointing /\ {"tell", "got", "remote", "fallback"} = Referring
  /\ Bare \cap Pointing = {} /\ Bare \cap Referring = {} /\ Pointing \cap Referring = {}
  /\ "undefined" \notin Bare \cup Pointing \cup Referring
  /\ Before \subseteq Bare /\ "waits" \notin Before
BY DEF Bare, Pointing, Referring, Before

\* GetCompilerInfo() keeps InfoLife.
LEMMA LifeGetCompilerInfo ==
  ASSUME InfoTypes, InfoLife, NEW t \in Askers, GetCompilerInfo(t)
  PROVE  InfoTypes' /\ InfoLife'
<1> DEFINE i == Lookup(t)
           a == [asker[t] EXCEPT !.at = IF i = None THEN "missed" ELSE "hit",
                                 !.info = i, !.asked = compiler.stat]
<1>1. /\ At(t) = "new" /\ asker' = [asker EXCEPT ![t] = a] /\ info' = Used(i)
      /\ UNCHANGED <<compiler_info, info_waiters, telling, world_vars>>
  BY DEF GetCompilerInfo, table_vars
<1>2. InfoRefsExact
  BY DEF InfoLife
<1>3. /\ InfosKept /\ info' \in [Infos -> InfoType]
      /\ \A j \in Infos : info'[j].refcnt = info[j].refcnt
      /\ i \in Infos \cup {None}
      /\ i # None => i \in Infos /\ info[i].refcnt >= 1 /\ info'[i].data.stat = compiler.stat
  BY <1>1, <1>2, UsedKeeps
<1> HIDE DEF i
<1>4. /\ a \in AskerType /\ a.at = (IF i = None THEN "missed" ELSE "hit")
      /\ a.info = i /\ a.asked = compiler.stat
  BY <1>3, TypesNow DEF AskerType, Bare, Pointing
<1> HIDE DEF a
<1>5. asker' \in [Askers -> AskerType] /\ asker'[t] = a /\ \A u \in Askers \ {t} : asker'[u] = asker[u]
  BY <1>1, <1>4, TypesNow
<1>6. InfoTypes'
  BY <1>1, <1>3, <1>5, TypesNext
<1>7. MovedWell(t)
  <2>1. At(t)' = a.at /\ At(t) \in Before
    BY <1>1, <1>5 DEF At, Before
  <2>2. PointerOf(t)'
    BY <1>3, <1>4, <1>5, <2>1 DEF PointerOf, Bare, Pointing, Referring
  <2>3. CurrentOf(t)'
    BY <1>1, <1>3, <1>4, <1>5, <2>1, TypesNow DEF CurrentOf, Pointing, world_vars
  <2> QED BY <1>3, <1>4, <1>5, <2>1, <2>2, <2>3 DEF MovedWell, Pointing
<1>8. \A j \in Infos : HeldBy(t, j)' = HeldBy(t, j)
  BY <1>1, <1>4, <1>5 DEF HeldBy, At, Referring
<1>9. compiler'.stat >= compiler.stat
  BY <1>1, TypesNow DEF world_vars
<1> QED BY <1>1, <1>3, <1>5, <1>6, <1>7, <1>8, <1>9, LifeOfBareStep

\* GetCompilerInfoInternal() keeps InfoLife.
LEMMA LifeGetCompilerInfoInternal ==
  ASSUME InfoTypes, InfoLife, NEW t \in Askers, GetCompilerInfoInternal(t)
  PROVE  InfoTypes' /\ InfoLife'
<1> DEFINE i == Lookup(t)
           a == [asker[t] EXCEPT !.at = IF i = None THEN "unknown" ELSE "stored", !.info = i]
<1>1. /\ At(t) = "posted" /\ asker' = [asker EXCEPT ![t] = a] /\ info' = Used(i)
      /\ UNCHANGED <<compiler_info, info_waiters, telling, world_vars>>
  BY DEF GetCompilerInfoInternal, table_vars
<1>2. InfoRefsExact /\ CurrentOf(t)
  BY DEF InfoLife, Current
<1>3. /\ InfosKept /\ info' \in [Infos -> InfoType]
      /\ \A j \in Infos : info'[j].refcnt = info[j].refcnt
      /\ i \in Infos \cup {None}
      /\ i # None => i \in Infos /\ info[i].refcnt >= 1 /\ info'[i].data.stat = compiler.stat
  BY <1>1, <1>2, UsedKeeps
<1> HIDE DEF i
<1>4. /\ a \in AskerType /\ a.at = (IF i = None THEN "unknown" ELSE "stored")
      /\ a.info = i /\ a.asked = asker[t].asked
  BY <1>3, TypesNow DEF AskerType, Bare, Pointing
<1> HIDE DEF a
<1>5. asker' \in [Askers -> AskerType] /\ asker'[t] = a /\ \A u \in Askers \ {t} : asker'[u] = asker[u]
  BY <1>1, <1>4, TypesNow
<1>6. InfoTypes'
  BY <1>1, <1>3, <1>5, TypesNext
<1>7. MovedWell(t)
  <2>1. At(t)' = a.at /\ At(t) \in Before
    BY <1>1, <1>5 DEF At, Before
  <2>2. PointerOf(t)'
    BY <1>3, <1>4, <1>5, <2>1 DEF PointerOf, Bare, Pointing, Referring
  <2>3. CurrentOf(t)'
    BY <1>1, <1>2, <1>3, <1>4, <1>5, <2>1, TypesNow DEF CurrentOf, Pointing, world_vars
  <2> QED BY <1>3, <1>4, <1>5, <2>1, <2>2, <2>3 DEF MovedWell, Pointing
<1>8. \A j \in Infos : HeldBy(t, j)' = HeldBy(t, j)
  BY <1>1, <1>4, <1>5 DEF HeldBy, At, Referring
<1>9. compiler'.stat >= compiler.stat
  BY <1>1, TypesNow DEF world_vars
<1> QED BY <1>1, <1>3, <1>5, <1>6, <1>7, <1>8, <1>9, LifeOfBareStep

\* Ref() after Lookup() or Store().
LEMMA LifeTake ==
  ASSUME InfoTypes, InfoLife, NEW t \in Askers, At(t) \in Pointing,
         NEW at \in {"got", "tell"}, Take(t, at),
         UNCHANGED <<compiler_info, info_waiters, telling, world_vars>>
  PROVE  InfoTypes' /\ InfoLife'
<1> DEFINE i == asker[t].info
<1>1. /\ PointerOf(t) /\ CurrentOf(t) /\ i \in Infos /\ asker \in [Askers -> AskerType]
      /\ info \in [Infos -> InfoType]
  BY TypesNow DEF InfoLife, Pointers, Current, PointerOf
<1>2. compiler'.stat >= compiler.stat /\ compiler' = compiler
  BY TypesNow DEF world_vars
<1>3. CASE info[i].refcnt = 0
  <2> DEFINE a == [asker[t] EXCEPT !.at = "undefined"]
  <2>1. asker' = [asker EXCEPT ![t] = a] /\ info' = info
    BY <1>3 DEF Take, Moves
  <2>2. a \in AskerType /\ a.at = "undefined" /\ a.asked = asker[t].asked /\ a.info = asker[t].info
    BY <1>1 DEF AskerType
  <2> HIDE DEF a
  <2>3. /\ asker' \in [Askers -> AskerType] /\ asker'[t] = a /\ At(t)' = "undefined"
        /\ \A u \in Askers \ {t} : asker'[u] = asker[u]
    BY <1>1, <2>1, <2>2 DEF At
  <2>4. InfoTypes'
    BY <1>1, <2>1, <2>3, TypesNext
  <2>5. MovedWell(t)
    BY <1>1, <1>2, <2>2, <2>3, Places DEF MovedWell, PointerOf, CurrentOf, Before, Pointing, Bare, Referring
  <2>6. \A j \in Infos : HeldBy(t, j)' = HeldBy(t, j)
    BY <2>3, Places DEF HeldBy
  <2>7. InfosKept
    BY <2>1 DEF InfosKept
  <2> QED BY <1>2, <2>1, <2>3, <2>4, <2>5, <2>6, <2>7, LifeOfBareStep
<1>4. CASE info[i].refcnt # 0
  <2> DEFINE a == [asker[t] EXCEPT !.at = at]
  <2>1. asker' = [asker EXCEPT ![t] = a] /\ info' = Ref(info, i) /\ info[i].refcnt >= 1
    BY <1>1, <1>4 DEF Take, Moves, InfoType
  <2>2. /\ a \in AskerType /\ a.at = at /\ a.asked = asker[t].asked /\ a.info = i
        /\ a.waited = asker[t].waited
    BY <1>1 DEF AskerType, Referring
  <2> HIDE DEF a
  <2>3. /\ asker' \in [Askers -> AskerType] /\ asker'[t] = a /\ At(t)' = at /\ at \in Referring
        /\ \A u \in Askers \ {t} : asker'[u] = asker[u]
    BY <1>1, <2>1, <2>2 DEF At, Referring
  <2>4. /\ info' \in [Infos -> InfoType] /\ info'[i].refcnt = info[i].refcnt + 1
        /\ info'[i].data = info[i].data /\ \A j \in Infos \ {i} : info'[j] = info[j]
    BY <1>1, <2>1, RefType
  <2>5. InfoTypes'
    BY <2>3, <2>4, TypesNext
  <2>6. MovedWell(t)
    <3>1. PointerOf(t)'
      BY <1>1, <2>2, <2>3, Places DEF PointerOf
    <3>2. CurrentOf(t)'
      BY <1>1, <1>2, <1>4, <2>2, <2>3, <2>4 DEF CurrentOf, Pointing
    <3> QED BY <2>3, <3>1, <3>2, Places DEF MovedWell
  <2>7. \A j \in Infos : /\ HeldBy(t, j) = 0 /\ HeldBy(t, j)' = (IF j = i THEN 1 ELSE 0)
                         /\ ToldBy(t, j)' = ToldBy(t, j) /\ ToldBy(t, j) \in Int
    BY <2>2, <2>3, Places DEF HeldBy, ToldBy
  <2>8. \A j \in Infos : info'[j].refcnt = info[j].refcnt - HeldBy(t, j) + HeldBy(t, j)'
                                           - ToldBy(t, j) + ToldBy(t, j)'
    BY <1>1, <2>4, <2>7 DEF InfoType
  <2>9. InfosKept
    BY <1>1, <2>1, RefKeeps
  <2> QED BY <1>2, <2>3, <2>5, <2>6, <2>8, <2>9, LifeOfStep
<1> QED BY <1>3, <1>4

\* CacheHit() keeps InfoLife.
LEMMA LifeCacheHit ==
  ASSUME InfoTypes, InfoLife, NEW t \in Askers, CacheHit(t)
  PROVE  InfoTypes' /\ InfoLife'
BY LifeTake DEF CacheHit, Pointing, table_vars

\* HoldInfo() keeps InfoLife.
LEMMA LifeHoldInfo ==
  ASSUME InfoTypes, InfoLife, NEW t \in Askers, HoldInfo(t)
  PROVE  InfoTypes' /\ InfoLife'
BY LifeTake DEF HoldInfo, Pointing, table_vars

\* JoinWaiters() keeps InfoLife.
LEMMA LifeJoinWaiters ==
  ASSUME InfoTypes, InfoLife, NEW t \in Askers, JoinWaiters(t)
  PROVE  InfoTypes' /\ InfoLife'
<1> DEFINE first == info_waiters[CwdOf[t]] = NoList
           a == [asker[t] EXCEPT !.at = IF first THEN "posted" ELSE "waits", !.waited = ~first]
<1>1. /\ At(t) = "missed" /\ asker' = [asker EXCEPT ![t] = a] /\ info' = info
      /\ info_waiters' = [info_waiters EXCEPT ![CwdOf[t]] = IF first THEN <<>> ELSE Append(@, t)]
      /\ UNCHANGED <<compiler_info, telling, world_vars>>
  BY DEF JoinWaiters, table_vars
<1>2. PointerOf(t) /\ CurrentOf(t) /\ asker \in [Askers -> AskerType]
  BY TypesNow DEF InfoLife, Pointers, Current
<1>3. /\ a \in AskerType /\ a.at \in {"posted", "waits"} /\ (a.at = "waits" => a.waited)
      /\ a.asked = asker[t].asked /\ a.info = asker[t].info
  BY <1>2 DEF AskerType, Bare
<1> HIDE DEF a, first
<1>4. /\ asker' \in [Askers -> AskerType] /\ asker'[t] = a
      /\ \A u \in Askers \ {t} : asker'[u] = asker[u]
  BY <1>1, <1>2, <1>3
<1>5. InfoTypes'
  <2>1. CwdOf[t] \in Cwds
    BY DEF Cwds
  <2>2. ~first => Append(info_waiters[CwdOf[t]], t) \in Seq(Askers)
    BY <2>1, AppendProperties DEF InfoTypes, first
  <2>3. info_waiters' \in [Cwds -> Seq(Askers) \cup {NoList}]
    BY <1>1, <2>1, <2>2, EmptyList DEF InfoTypes
  <2> QED BY <1>1, <1>4, <2>3 DEF InfoTypes, AskerType, world_vars
<1>6. MovedWell(t)
  <2>1. At(t)' = a.at /\ At(t) \in Before /\ asker[t].info = None
    BY <1>1, <1>2, <1>4 DEF At, Before, PointerOf, Bare
  <2> QED BY <1>1, <1>2, <1>3, <1>4, <2>1
          DEF MovedWell, PointerOf, CurrentOf, Bare, Pointing, Referring, world_vars
<1>7. \A j \in Infos : HeldBy(t, j)' = HeldBy(t, j)
  BY <1>1, <1>3, <1>4 DEF HeldBy, At, Referring
<1>8. compiler'.stat >= compiler.stat /\ InfosKept
  BY <1>1, TypesNow DEF world_vars, InfosKept
<1> QED BY <1>1, <1>4, <1>5, <1>6, <1>7, <1>8, LifeOfBareStep

\* BuildCompilerInfoData() keeps InfoLife.
LEMMA LifeBuildCompilerInfoData ==
  ASSUME InfoTypes, InfoLife, NEW t \in Askers, BuildCompilerInfoData(t)
  PROVE  InfoTypes' /\ InfoLife'
<1>1. PICK error \in {FALSE, info_plan.errors} :
        asker' = [asker EXCEPT ![t].at = "built",
                    ![t].data = Data(compiler.content, compiler.stat, error, info_time)]
  BY DEF BuildCompilerInfoData
<1> DEFINE data == Data(compiler.content, compiler.stat, error, info_time)
           a == [asker[t] EXCEPT !.at = "built", !.data = data]
<1>2. /\ At(t) = "unknown" /\ asker' = [asker EXCEPT ![t] = a] /\ info' = info
      /\ UNCHANGED <<compiler_info, info_waiters, telling, world_vars>>
  BY <1>1 DEF BuildCompilerInfoData, table_vars
<1>3. PointerOf(t) /\ CurrentOf(t) /\ asker \in [Askers -> AskerType] /\ info \in [Infos -> InfoType]
  BY TypesNow DEF InfoLife, Pointers, Current
<1>4. error \in BOOLEAN
  BY InfoPlansAssumption DEF InfoTypes
<1>5. data \in DataType /\ data.stat = compiler.stat
  BY <1>4, TypesNow DEF Data, DataType
<1> HIDE DEF data
<1>6. /\ a \in AskerType /\ a.at = "built" /\ a.data = data
      /\ a.asked = asker[t].asked /\ a.info = asker[t].info
  BY <1>3, <1>5 DEF AskerType, Bare
<1> HIDE DEF a
<1>7. /\ asker' \in [Askers -> AskerType] /\ asker'[t] = a
      /\ \A u \in Askers \ {t} : asker'[u] = asker[u]
  BY <1>2, <1>3, <1>6
<1>8. InfoTypes'
  BY <1>2, <1>3, <1>7, TypesNext
<1>9. MovedWell(t)
  <2>1. At(t)' = "built" /\ At(t) \in Before /\ asker[t].info = None
    BY <1>2, <1>3, <1>6, <1>7 DEF At, Before, PointerOf, Bare
  <2> QED BY <1>2, <1>3, <1>5, <1>6, <1>7, <2>1
          DEF MovedWell, PointerOf, CurrentOf, Bare, Pointing, Referring, world_vars
<1>10. \A j \in Infos : HeldBy(t, j)' = HeldBy(t, j)
  BY <1>2, <1>6, <1>7 DEF HeldBy, At, Referring
<1>11. compiler'.stat >= compiler.stat /\ InfosKept
  BY <1>2, TypesNow DEF world_vars, InfosKept
<1> QED BY <1>2, <1>7, <1>8, <1>9, <1>10, <1>11, LifeOfBareStep

\* TakeWaiters() keeps InfoLife.
LEMMA LifeTakeWaiters ==
  ASSUME InfoTypes, InfoLife, ListLife, NEW t \in Askers, TakeWaiters(t)
  PROVE  InfoTypes' /\ InfoLife'
<1> DEFINE i == asker[t].info
           a == [asker[t] EXCEPT !.at = "got"]
           list == info_waiters[CwdOf[t]]
<1>1. /\ At(t) = "tell" /\ asker' = [asker EXCEPT ![t] = a] /\ info' = Ref(info, i)
      /\ telling' = [telling EXCEPT ![t] = [info |-> i, list |-> list]]
      /\ info_waiters' = [info_waiters EXCEPT ![CwdOf[t]] = NoList]
      /\ UNCHANGED <<compiler_info, world_vars>>
  BY DEF TakeWaiters, table_vars, Taken, Moves
<1>2. /\ PointerOf(t) /\ CurrentOf(t) /\ asker \in [Askers -> AskerType]
      /\ info \in [Infos -> InfoType] /\ Pointers /\ InfoRefsExact
  BY TypesNow DEF InfoLife, Pointers, Current
<1>3. i \in Infos /\ info[i].refcnt >= 1
  BY <1>1, <1>2, HeldIsAlive DEF Referring
<1>4. /\ a \in AskerType /\ a.at = "got" /\ a.asked = asker[t].asked /\ a.info = i
      /\ a.waited = asker[t].waited
  BY <1>2 DEF AskerType, Referring
<1> HIDE DEF a
<1>5. /\ asker' \in [Askers -> AskerType] /\ asker'[t] = a /\ At(t)' = "got"
      /\ \A u \in Askers \ {t} : asker'[u] = asker[u]
  BY <1>1, <1>2, <1>4 DEF At
<1>6. /\ info' \in [Infos -> InfoType] /\ info'[i].refcnt = info[i].refcnt + 1
      /\ info'[i].data = info[i].data /\ \A j \in Infos \ {i} : info'[j] = info[j]
  BY <1>1, <1>2, <1>3, RefType
<1>7. list \in Seq(Askers) /\ telling[t].info = None /\ CwdOf[t] \in Cwds
  <2>1. CwdOf[t] \in Cwds
    BY DEF Cwds
  <2>2. list # NoList
    BY <1>1 DEF ListLife, ListOfBuilder, Building
  <2>3. telling[t].info = None
    BY <1>1 DEF ListLife, NotTelling, Untold
  <2> QED BY <2>1, <2>2, <2>3 DEF InfoTypes
<1>8. InfoTypes'
  <2>1. /\ info_waiters' \in [Cwds -> Seq(Askers) \cup {NoList}]
        /\ telling' \in [Askers -> [info : Infos \cup {None}, list : Seq(Askers)]]
    BY <1>1, <1>3, <1>7 DEF InfoTypes
  <2> QED BY <1>1, <1>5, <1>6, <2>1 DEF InfoTypes, AskerType, InfoType, world_vars
<1>9. MovedWell(t)
  <2>1. PointerOf(t)'
    BY <1>2, <1>3, <1>4, <1>5, Places DEF PointerOf
  <2>2. CurrentOf(t)'
    BY <1>1, <1>2, <1>3, <1>4, <1>5, <1>6 DEF CurrentOf, Pointing, world_vars, InfoType
  <2> QED BY <1>5, <2>1, <2>2, Places DEF MovedWell
<1>10. \A j \in Infos : /\ HeldBy(t, j)' = HeldBy(t, j) /\ HeldBy(t, j) \in Int
                        /\ ToldBy(t, j) = 0 /\ ToldBy(t, j)' = (IF j = i THEN 1 ELSE 0)
  <2>1. telling'[t].info = i
    BY <1>1 DEF InfoTypes
  <2> QED BY <1>1, <1>4, <1>5, <1>7, <2>1, NoneIsNoInfo, Places DEF HeldBy, ToldBy
<1>11. \A j \in Infos : info'[j].refcnt = info[j].refcnt - HeldBy(t, j) + HeldBy(t, j)'
                                          - ToldBy(t, j) + ToldBy(t, j)'
  BY <1>2, <1>6, <1>10 DEF InfoType
<1>12. InfosKept
  BY <1>1, <1>3, RefKeeps
<1>13. compiler'.stat >= compiler.stat /\ \A v \in Askers \ {t} : telling'[v] = telling[v]
  BY <1>1, TypesNow DEF world_vars, InfoTypes
<1> QED BY <1>1, <1>5, <1>8, <1>9, <1>11, <1>12, <1>13, LifeOfStep

\* The first of a list waits, and is nowhere else in it.
LEMMA FirstOfList ==
  ASSUME InfoTypes, WaitersInLists, NEW t \in Askers, telling[t].list # <<>>
  PROVE  /\ Head(telling[t].list) \in Askers /\ Tail(telling[t].list) \in Seq(Askers)
         /\ InTold(Head(telling[t].list), t) /\ At(Head(telling[t].list)) = "waits"
         /\ Distinct(Tail(telling[t].list))
         /\ ToSet(Tail(telling[t].list)) = ToSet(telling[t].list) \ {Head(telling[t].list)}
<1> DEFINE q == telling[t].list
           w == Head(q)
           r == Tail(q)
<1>1. q \in Seq(Askers) /\ Distinct(q)
  BY DEF InfoTypes, WaitersInLists
<1>2. /\ Len(q) \in Nat /\ Len(q) >= 1 /\ w = q[1] /\ w \in Askers /\ r \in Seq(Askers)
      /\ Len(r) = Len(q) - 1 /\ \A k \in 1 .. Len(r) : r[k] = q[k + 1]
  BY <1>1, EmptySeq, HeadTailProperties, LenProperties
<1>3. DOMAIN q = 1 .. Len(q) /\ DOMAIN r = 1 .. Len(r)
  BY <1>1, <1>2, LenProperties
<1>4. ToSet(q) = {q[k] : k \in 1 .. Len(q)} /\ ToSet(r) = {r[k] : k \in 1 .. Len(r)}
  BY <1>3 DEF ToSet
<1>5. w \in ToSet(q)
  BY <1>2, <1>4
<1> HIDE DEF q, w, r
<1>6. Distinct(r)
  BY <1>1, <1>2 DEF Distinct
<1>7. ToSet(r) = ToSet(q) \ {w}
  <2>1. ASSUME NEW x \in ToSet(r)  PROVE x \in ToSet(q) \ {w}
    <3>1. PICK k \in 1 .. Len(r) : x = r[k]
      BY <1>4
    <3>2. k + 1 \in 1 .. Len(q) /\ x = q[k + 1]
      BY <1>2, <3>1
    <3>3. q[k + 1] # q[1]
      BY <1>1, <1>2, <3>2 DEF Distinct
    <3> QED BY <1>2, <1>4, <3>2, <3>3
  <2>2. ASSUME NEW x \in ToSet(q) \ {w}  PROVE x \in ToSet(r)
    <3>1. PICK k \in 1 .. Len(q) : x = q[k]
      BY <1>4
    <3>2. k # 1
      BY <1>2, <2>2, <3>1
    <3>3. k - 1 \in 1 .. Len(r) /\ r[k - 1] = x
      BY <1>2, <3>1, <3>2
    <3> QED BY <1>4, <3>3
  <2> QED BY <2>1, <2>2
<1>8. InTold(w, t) /\ At(w) = "waits"
  BY <1>2, <1>5 DEF InTold, WaitersInLists, q
<1> QED BY <1>2, <1>6, <1>7, <1>8 DEF q, w, r

\* TellWaiter() keeps InfoLife.
LEMMA LifeTellWaiter ==
  ASSUME InfoTypes, InfoLife, ListLife, NEW t \in Askers, TellWaiter(t)
  PROVE  InfoTypes' /\ InfoLife'
<1>0. PICK w \in Askers : w = Head(telling[t].list)
  BY FirstOfList DEF ListLife, TellWaiter
<1> DEFINE i == telling[t].info
           r == Tail(telling[t].list)
           a == [asker[w] EXCEPT !.at = "got", !.info = i]
<1>1. /\ i # None /\ telling[t].list # <<>> /\ asker' = [asker EXCEPT ![w] = a]
      /\ info' = Ref(info, i) /\ telling' = [telling EXCEPT ![t].list = r]
      /\ UNCHANGED <<compiler_info, info_waiters, world_vars>>
  BY <1>0 DEF TellWaiter, table_vars
<1>2. r \in Seq(Askers) /\ At(w) = "waits"
  BY <1>0, <1>1, FirstOfList DEF ListLife
<1> HIDE DEF r
<1>3. /\ PointerOf(w) /\ CurrentOf(w) /\ asker \in [Askers -> AskerType]
      /\ info \in [Infos -> InfoType] /\ InfoRefsExact
  BY <1>2, TypesNow DEF InfoLife, Pointers, Current
<1>4. i \in Infos /\ info[i].refcnt >= 1
  BY <1>1, <1>3, ToldIsAlive
<1>5. /\ a \in AskerType /\ a.at = "got" /\ a.asked = asker[w].asked /\ a.info = i
      /\ a.waited = asker[w].waited
  BY <1>2, <1>3, <1>4 DEF AskerType, Referring
<1> HIDE DEF a
<1>6. /\ asker' \in [Askers -> AskerType] /\ asker'[w] = a /\ At(w)' = "got"
      /\ \A u \in Askers \ {w} : asker'[u] = asker[u]
  BY <1>1, <1>2, <1>3, <1>5 DEF At
<1>7. /\ info' \in [Infos -> InfoType] /\ info'[i].refcnt = info[i].refcnt + 1
      /\ info'[i].data = info[i].data /\ \A j \in Infos \ {i} : info'[j] = info[j]
  BY <1>1, <1>3, <1>4, RefType
<1>8. /\ telling' \in [Askers -> [info : Infos \cup {None}, list : Seq(Askers)]]
      /\ telling'[t].info = i /\ \A v \in Askers \ {t} : telling'[v] = telling[v]
  BY <1>1, <1>2 DEF InfoTypes
<1>9. InfoTypes'
  BY <1>1, <1>6, <1>7, <1>8 DEF InfoTypes, AskerType, InfoType, world_vars
<1>10. MovedWell(w)
  <2>1. PointerOf(w)'
    BY <1>4, <1>5, <1>6, Places DEF PointerOf
  <2>2. asker[w].waited
    BY <1>2, <1>3 DEF CurrentOf
  <2>3. CurrentOf(w)'
    BY <1>1, <1>3, <1>5, <1>6, <2>2 DEF CurrentOf, world_vars
  <2> QED BY <1>6, <2>1, <2>3, Places DEF MovedWell
<1>11. \A j \in Infos : /\ HeldBy(w, j) = 0 /\ HeldBy(w, j)' = (IF j = i THEN 1 ELSE 0)
                        /\ ToldBy(t, j)' = ToldBy(t, j) /\ ToldBy(t, j) \in Int
  BY <1>2, <1>5, <1>6, <1>8, Places DEF HeldBy, ToldBy
<1>12. \A j \in Infos : info'[j].refcnt = info[j].refcnt - HeldBy(w, j) + HeldBy(w, j)'
                                          - ToldBy(t, j) + ToldBy(t, j)'
  BY <1>3, <1>7, <1>11 DEF InfoType
<1>13. InfosKept
  BY <1>1, <1>4, RefKeeps
<1>14. compiler'.stat >= compiler.stat
  BY <1>1, TypesNow DEF world_vars
<1> QED BY <1>1, <1>2, <1>6, <1>8, <1>9, <1>10, <1>12, <1>13, <1>14, LifeOfStep

\* TellEnd() keeps InfoLife.
LEMMA LifeTellEnd ==
  ASSUME InfoTypes, InfoLife, NEW t \in Askers, TellEnd(t)
  PROVE  InfoTypes' /\ InfoLife'
<1> DEFINE i == telling[t].info
<1>1. /\ i # None /\ info' = Unref(info, i) /\ telling' = [telling EXCEPT ![t].info = None]
      /\ UNCHANGED <<asker, compiler_info, info_waiters, world_vars>>
  BY DEF TellEnd, table_vars
<1>2. info \in [Infos -> InfoType] /\ InfoRefsExact
  BY TypesNow DEF InfoLife
<1>3. i \in Infos /\ info[i].refcnt >= 1
  BY <1>1, <1>2, ToldIsAlive
<1>4. /\ info' \in [Infos -> InfoType] /\ info'[i].refcnt = info[i].refcnt - 1
      /\ \A j \in Infos \ {i} : info'[j] = info[j]
  BY <1>1, <1>2, <1>3, UnrefType
<1>5. /\ telling' \in [Askers -> [info : Infos \cup {None}, list : Seq(Askers)]]
      /\ telling'[t].info = None /\ \A v \in Askers \ {t} : telling'[v] = telling[v]
  BY <1>1 DEF InfoTypes
<1>6. InfoTypes'
  BY <1>1, <1>4, <1>5 DEF InfoTypes, InfoType, world_vars
<1>7. \A j \in Infos : /\ HeldBy(t, j)' = HeldBy(t, j) /\ HeldBy(t, j) \in Int
                       /\ ToldBy(t, j)' = 0 /\ ToldBy(t, j) = (IF j = i THEN 1 ELSE 0)
  BY <1>1, <1>5, NoneIsNoInfo DEF HeldBy, ToldBy, At
<1>8. \A j \in Infos : info'[j].refcnt = info[j].refcnt - HeldBy(t, j) + HeldBy(t, j)'
                                         - ToldBy(t, j) + ToldBy(t, j)'
  BY <1>2, <1>4, <1>7 DEF InfoType
<1>9. InfosKept
  BY <1>1, <1>3, UnrefKeeps
<1>10. compiler'.stat >= compiler.stat
  BY <1>1, TypesNow DEF world_vars
<1> QED BY <1>1, <1>5, <1>6, <1>8, <1>9, <1>10, LifeOfStep

\* FillCompilerInfoDone() keeps InfoLife.
LEMMA LifeFillCompilerInfoDone ==
  ASSUME InfoTypes, InfoLife, NEW t \in Askers, FillCompilerInfoDone(t)
  PROVE  InfoTypes' /\ InfoLife'
<1> DEFINE at == IF info[asker[t].info].data.error \/ info[asker[t].info].disabled
                 THEN "fallback" ELSE "remote"
           a == [asker[t] EXCEPT !.at = at, !.asked = 0, !.waited = FALSE]
<1>1. at \in {"fallback", "remote"}
  OBVIOUS
<1>2. /\ At(t) = "got" /\ asker' = [asker EXCEPT ![t] = a] /\ info' = info
      /\ UNCHANGED <<compiler_info, info_waiters, telling, world_vars>>
  BY DEF FillCompilerInfoDone, table_vars
<1> HIDE DEF at
<1>3. PointerOf(t) /\ asker \in [Askers -> AskerType] /\ info \in [Infos -> InfoType]
  BY TypesNow DEF InfoLife, Pointers
<1>4. a \in AskerType /\ a.at = at /\ a.asked = 0 /\ a.info = asker[t].info
  BY <1>1, <1>3 DEF AskerType, Referring
<1> HIDE DEF a
<1>5. /\ asker' \in [Askers -> AskerType] /\ asker'[t] = a /\ At(t)' = at
      /\ \A u \in Askers \ {t} : asker'[u] = asker[u]
  BY <1>2, <1>3, <1>4 DEF At
<1>6. InfoTypes'
  BY <1>2, <1>3, <1>5, TypesNext
<1>7. MovedWell(t)
  BY <1>1, <1>2, <1>3, <1>4, <1>5, TypesNow
     DEF MovedWell, PointerOf, CurrentOf, Before, Bare, Pointing, Referring, world_vars
<1>8. \A j \in Infos : HeldBy(t, j)' = HeldBy(t, j)
  BY <1>1, <1>2, <1>4, <1>5 DEF HeldBy, Referring
<1>9. compiler'.stat >= compiler.stat /\ InfosKept
  BY <1>2, TypesNow DEF world_vars, InfosKept
<1> QED BY <1>2, <1>5, <1>6, <1>7, <1>8, <1>9, LifeOfBareStep

\* ReleaseInfo() keeps InfoLife.
LEMMA LifeReleaseInfo ==
  ASSUME InfoTypes, InfoLife, NEW t \in Askers, ReleaseInfo(t)
  PROVE  InfoTypes' /\ InfoLife'
<1> DEFINE i == asker[t].info
           a == [asker[t] EXCEPT !.at = "end", !.info = None]
<1>1. /\ At(t) \in Referring /\ asker' = [asker EXCEPT ![t] = a] /\ info' = Unref(info, i)
      /\ UNCHANGED <<compiler_info, info_waiters, telling, world_vars>>
  BY DEF ReleaseInfo, table_vars, Referring
<1>2. /\ CurrentOf(t) /\ asker \in [Askers -> AskerType]
      /\ info \in [Infos -> InfoType] /\ InfoRefsExact /\ Pointers
  BY TypesNow DEF InfoLife, Current
<1>3. i \in Infos /\ info[i].refcnt >= 1
  BY <1>1, <1>2, HeldIsAlive
<1>4. a \in AskerType /\ a.at = "end" /\ a.info = None /\ a.asked = asker[t].asked
  BY <1>2 DEF AskerType, Bare
<1> HIDE DEF a
<1>5. /\ asker' \in [Askers -> AskerType] /\ asker'[t] = a /\ At(t)' = "end"
      /\ \A u \in Askers \ {t} : asker'[u] = asker[u]
  BY <1>1, <1>2, <1>4 DEF At
<1>6. /\ info' \in [Infos -> InfoType] /\ info'[i].refcnt = info[i].refcnt - 1
      /\ \A j \in Infos \ {i} : info'[j] = info[j]
  BY <1>1, <1>2, <1>3, UnrefType
<1>7. InfoTypes'
  BY <1>1, <1>5, <1>6, TypesNext
<1>8. MovedWell(t)
  BY <1>1, <1>2, <1>4, <1>5
     DEF MovedWell, PointerOf, CurrentOf, Before, Bare, Pointing, Referring, world_vars
<1>9. \A j \in Infos : /\ HeldBy(t, j)' = 0 /\ HeldBy(t, j) = (IF j = i THEN 1 ELSE 0)
                       /\ ToldBy(t, j)' = ToldBy(t, j) /\ ToldBy(t, j) \in Int
  BY <1>1, <1>5, Places DEF HeldBy, ToldBy
<1>10. \A j \in Infos : info'[j].refcnt = info[j].refcnt - HeldBy(t, j) + HeldBy(t, j)'
                                          - ToldBy(t, j) + ToldBy(t, j)'
  BY <1>2, <1>6, <1>9 DEF InfoType
<1>11. InfosKept
  BY <1>1, <1>3, UnrefKeeps
<1>12. compiler'.stat >= compiler.stat
  BY <1>1, TypesNow DEF world_vars
<1> QED BY <1>1, <1>5, <1>7, <1>8, <1>10, <1>11, <1>12, LifeOfStep

\* The compiler changes, or time passes: InfoLife.
LEMMA LifeWorld ==
  ASSUME InfoTypes, InfoLife, CompilerChanges \/ TimePasses
  PROVE  InfoTypes' /\ InfoLife'
<1>1. UNCHANGED <<asker, info, compiler_info, info_waiters, telling, info_plan>>
  BY DEF CompilerChanges, TimePasses, table_vars
<1>2. /\ compiler' \in [content : Nat, stat : Nat] /\ info_time' \in Nat
      /\ compiler'.stat >= compiler.stat
  BY DEF CompilerChanges, TimePasses, InfoTypes
<1>3. InfoTypes'
  BY <1>1, <1>2 DEF InfoTypes
<1>4. InfoRefsExact'
  BY <1>1 DEF InfoLife, InfoRefsExact, Holding, At
<1>5. InfosKept
  BY <1>1 DEF InfosKept
<1> QED BY <1>1, <1>2, <1>3, <1>4, <1>5, KeptLife

-----------------------------------------------------------------------------
(***************************************************************************)
(* States: Store() and Disable().                                          *)
(***************************************************************************)
\* What Store() does to the counts, of the new state and of the one it replaces.
LEMMA ReplacedType ==
  ASSUME NEW infos \in [Infos -> InfoType], NEW i \in Infos, NEW old \in Infos \cup {None},
         old # None => infos[old].refcnt >= 1
  PROVE  LET r == Replaced(infos, i, old)
         IN  /\ r \in [Infos -> InfoType]
             /\ \A j \in Infos : r[j].refcnt = infos[j].refcnt + (IF j = i THEN 1 ELSE 0)
                                                               - (IF j = old THEN 1 ELSE 0)
             /\ \A j \in Infos : j # i /\ j # old => r[j] = infos[j]
             /\ \A j \in Infos : j # old \/ j = i \/ infos[j].refcnt > 1 =>
                  r[j].data = infos[j].data /\ r[j].disabled = infos[j].disabled
<1> DEFINE m == Ref(infos, i)
           r == Replaced(infos, i, old)
<1>1. /\ m \in [Infos -> InfoType] /\ m[i].refcnt = infos[i].refcnt + 1
      /\ m[i].data = infos[i].data /\ m[i].disabled = infos[i].disabled
      /\ \A j \in Infos \ {i} : m[j] = infos[j]
  BY RefType
<1>2. \A j \in Infos : infos[j].refcnt \in Nat /\ m[j].refcnt \in Nat
  BY <1>1 DEF InfoType
<1>3. CASE old = None
  <2>1. r = m /\ \A j \in Infos : j # old
    BY <1>3, NoneIsNoInfo DEF Replaced
  <2> HIDE DEF m, r
  <2> QED BY <1>1, <1>2, <2>1 DEF r
<1>4. CASE old # None
  <2>1. r = Unref(m, old) /\ old \in Infos
    BY <1>4 DEF Replaced
  <2>2. m[old].refcnt >= 1
    BY <1>1, <1>2, <1>4, <2>1
  <2> HIDE DEF m, r
  <2>3. /\ r \in [Infos -> InfoType] /\ r[old].refcnt = m[old].refcnt - 1
        /\ m[old].refcnt > 1 => r[old].data = m[old].data /\ r[old].disabled = m[old].disabled
        /\ \A j \in Infos \ {old} : r[j] = m[j]
    BY <1>1, <2>1, <2>2, UnrefType
  <2>4. ASSUME NEW j \in Infos
        PROVE  r[j].refcnt = infos[j].refcnt + (IF j = i THEN 1 ELSE 0) - (IF j = old THEN 1 ELSE 0)
    BY <1>1, <1>2, <2>1, <2>3
  <2>5. ASSUME NEW j \in Infos, j # i, j # old  PROVE r[j] = infos[j]
    BY <1>1, <2>3, <2>5
  <2>6. ASSUME NEW j \in Infos, j # old \/ j = i \/ infos[j].refcnt > 1
        PROVE  r[j].data = infos[j].data /\ r[j].disabled = infos[j].disabled
    <3>1. CASE j # old
      BY <1>1, <2>3, <3>1
    <3>2. CASE j = old
      <4>1. m[old].refcnt > 1
        BY <1>1, <1>2, <1>4, <2>1, <2>6, <3>2
      <4> QED BY <1>1, <2>3, <3>2, <4>1
    <3> QED BY <3>1, <3>2
  <2> QED BY <2>3, <2>4, <2>5, <2>6 DEF r
<1> QED BY <1>3, <1>4

\* Store() keeps InfoLife.
LEMMA LifeStore ==
  ASSUME InfoTypes, InfoLife, NEW t \in Askers, Store(t)
  PROVE  InfoTypes' /\ InfoLife'
<1>1. PICK key \in InfoKeys : key = IF CwdOf[t] \in info_plan.inside THEN CwdOf[t] ELSE AnyCwd
  BY DEF InfoKeys, Cwds
<1>2. PICK data \in DataType : data = asker[t].data
  BY TypesNow DEF AskerType
<1>3. PICK old \in Infos \cup {None} : old = compiler_info[key]
  BY DEF InfoTypes
<1>4. PICK shared \in Shared(data) :
        LET i == IF shared = None THEN t ELSE shared
            made == IF shared = None THEN [info EXCEPT ![t].data = data] ELSE info
            table == [compiler_info EXCEPT ![key] = i]
        IN  /\ info' = [Replaced(made, i, old) EXCEPT
                          ![i].disabled = @ \/ SameIsDisabled(made, table, i)]
            /\ compiler_info' = table
            /\ asker' = [asker EXCEPT ![t].at = "stored", ![t].info = i, ![t].data = NoInfo.data]
  BY <1>1, <1>2, <1>3 DEF Store
<1>5. At(t) = "built" /\ UNCHANGED <<info_waiters, telling, world_vars>>
  BY DEF Store
<1>6. /\ PointerOf(t) /\ CurrentOf(t) /\ asker \in [Askers -> AskerType]
      /\ info \in [Infos -> InfoType] /\ Pointers /\ InfoRefsExact /\ Unborn
      /\ DisabledTogether
  BY TypesNow DEF InfoLife, Pointers, Current
\* the states before
<1>7. t \in Infos /\ info[t] = NoInfo /\ info[t].refcnt = 0 /\ info[t].disabled = FALSE
  BY <1>5, <1>6, NoInfoType DEF Unborn, Before, Infos
<1>8. \A k \in InfoKeys : compiler_info[k] # None =>
        /\ compiler_info[k] \in Infos /\ info[compiler_info[k]].refcnt >= 1
        /\ compiler_info[k] # t
  BY <1>6, <1>7, KeptIsAlive
<1>9. shared # None => /\ shared \in Infos /\ info[shared].refcnt >= 1 /\ shared # t
                       /\ \E k \in InfoKeys : compiler_info[k] = shared
                       /\ info[shared].data.stat = compiler.stat
  <2> SUFFICES ASSUME shared # None
               PROVE  /\ shared \in Infos /\ info[shared].refcnt >= 1 /\ shared # t
                      /\ \E k \in InfoKeys : compiler_info[k] = shared
                      /\ info[shared].data.stat = compiler.stat
    OBVIOUS
  <2>1. PICK k \in InfoKeys : shared = LookupUnlocked(k)
    BY DEF Shared
  <2>2. /\ shared \in Infos /\ k \in KeysOf(shared) /\ info[shared].data.stat = compiler.stat
    BY <2>1, Lookups
  <2>3. compiler_info[k] = shared
    BY <2>2 DEF KeysOf
  <2> QED BY <1>8, <2>2, <2>3, NoneIsNoInfo
<1>10. PICK i \in Infos : i = IF shared = None THEN t ELSE shared
  BY <1>7, <1>9
<1> DEFINE made == IF shared = None THEN [info EXCEPT ![t].data = data] ELSE info
           table == [compiler_info EXCEPT ![key] = i]
           same == SameIsDisabled(made, table, i)
           r == Replaced(made, i, old)
           a == [asker[t] EXCEPT !.at = "stored", !.info = i, !.data = NoInfo.data]
<1>11. /\ info' = [r EXCEPT ![i].disabled = @ \/ same] /\ compiler_info' = table
       /\ asker' = [asker EXCEPT ![t] = a]
  BY <1>4, <1>10
<1>12. /\ made \in [Infos -> InfoType]
       /\ \A j \in Infos : /\ made[j].refcnt = info[j].refcnt /\ made[j].disabled = info[j].disabled
                           /\ j # i \/ shared # None => made[j] = info[j]
       /\ shared = None => made[i].data = data
  <2>1. CASE shared = None
    <3>1. i = t /\ made = [info EXCEPT ![t].data = data]
      BY <1>10, <2>1
    <3> QED BY <1>2, <1>6, <1>7, <2>1, <3>1 DEF InfoType
  <2>2. CASE shared # None
    BY <1>6, <2>2
  <2> QED BY <2>1, <2>2
<1>13. old # None => made[old].refcnt >= 1 /\ old \in Infos
  BY <1>3, <1>8, <1>12
<1> HIDE DEF made, table, same, r
<1>14. /\ r \in [Infos -> InfoType]
       /\ \A j \in Infos : r[j].refcnt = made[j].refcnt + (IF j = i THEN 1 ELSE 0)
                                                        - (IF j = old THEN 1 ELSE 0)
       /\ \A j \in Infos : j # i /\ j # old => r[j] = made[j]
       /\ \A j \in Infos : j # old \/ j = i \/ made[j].refcnt > 1 =>
            r[j].data = made[j].data /\ r[j].disabled = made[j].disabled
  BY <1>12, <1>13, ReplacedType DEF r
\* the states after
<1>15. same \in BOOLEAN
  BY DEF same, SameIsDisabled
<1>16. /\ info' \in [Infos -> InfoType]
       /\ \A j \in Infos : info'[j].refcnt = info[j].refcnt + (IF j = i THEN 1 ELSE 0)
                                                            - (IF j = old THEN 1 ELSE 0)
       /\ \A j \in Infos : j # i /\ j # old => info'[j] = info[j]
       /\ \A j \in Infos : j # i /\ (j # old \/ info[j].refcnt > 1) =>
            info'[j].data = info[j].data /\ info'[j].disabled = info[j].disabled
       /\ info'[i].data = made[i].data /\ info'[i].disabled = (info[i].disabled \/ same)
  <2>1. /\ info' \in [Infos -> InfoType] /\ info'[i].refcnt = r[i].refcnt
        /\ info'[i].data = r[i].data /\ info'[i].disabled = (r[i].disabled \/ same)
        /\ \A j \in Infos \ {i} : info'[j] = r[j]
    BY <1>11, <1>14, <1>15 DEF InfoType
  <2>2. ASSUME NEW j \in Infos
        PROVE  info'[j].refcnt = info[j].refcnt + (IF j = i THEN 1 ELSE 0)
                                                - (IF j = old THEN 1 ELSE 0)
    BY <1>12, <1>14, <2>1
  <2>3. ASSUME NEW j \in Infos, j # i, j # old  PROVE info'[j] = info[j]
    BY <1>12, <1>14, <2>1, <2>3
  <2>4. ASSUME NEW j \in Infos, j # i, j # old \/ info[j].refcnt > 1
        PROVE  info'[j].data = info[j].data /\ info'[j].disabled = info[j].disabled
    BY <1>12, <1>14, <2>1, <2>4
  <2>5. info'[i].data = made[i].data /\ info'[i].disabled = (info[i].disabled \/ same)
    BY <1>12, <1>14, <2>1
  <2> QED BY <2>1, <2>2, <2>3, <2>4, <2>5
<1>17. /\ a \in AskerType /\ a.at = "stored" /\ a.info = i /\ a.asked = asker[t].asked
       /\ a.waited = asker[t].waited
  BY <1>6, NoInfoType DEF AskerType, Pointing
<1> HIDE DEF a
<1>18. /\ asker' \in [Askers -> AskerType] /\ asker'[t] = a /\ At(t)' = "stored"
       /\ \A u \in Askers \ {t} : asker'[u] = asker[u]
  BY <1>6, <1>11, <1>17 DEF At
<1>19. /\ compiler_info' \in [InfoKeys -> Infos \cup {None}] /\ compiler_info'[key] = i
       /\ \A k \in InfoKeys \ {key} : compiler_info'[k] = compiler_info[k]
  BY <1>11 DEF InfoTypes, table
<1>20. InfoTypes'
  BY <1>5, <1>16, <1>18, <1>19 DEF InfoTypes, AskerType, InfoType, world_vars
<1>21. InfoRefsExact'
  <2>1. \A j \in Infos : /\ HeldBy(t, j) = 0 /\ HeldBy(t, j)' = 0 /\ ToldBy(t, j)' = ToldBy(t, j)
                         /\ ToldBy(t, j) \in Int
                         /\ KeptBy(key, j) = (IF j = old THEN 1 ELSE 0)
                         /\ KeptBy(key, j)' = (IF j = i THEN 1 ELSE 0)
    BY <1>3, <1>5, <1>18, <1>19 DEF HeldBy, ToldBy, KeptBy, Referring
  <2>2. \A j \in Infos :
          info'[j].refcnt = info[j].refcnt - HeldBy(t, j) + HeldBy(t, j)'
                            - ToldBy(t, j) + ToldBy(t, j)' - KeptBy(key, j) + KeptBy(key, j)'
    BY <1>6, <1>16, <2>1 DEF InfoType
  <2>3. \A v \in Askers \ {t} : telling'[v] = telling[v]
    BY <1>5
  <2> QED BY <1>6, <1>18, <1>19, <1>20, <2>2, <2>3, RefsMove
<1>22. Pointers' /\ Current' /\ Unborn'
  <2>1. Fresh(t)
    BY <1>5, <1>18 DEF Fresh, Before
  <2>2. ASSUME NEW j \in Infos, j # t  PROVE StatKept(j)
    <3>1. info[j].refcnt \in Nat /\ info'[j].refcnt \in Nat
      BY <1>6, <1>16 DEF InfoType
    <3>2. ASSUME info[j].refcnt = 0  PROVE info'[j] = info[j]
      <4>1. j # old /\ j # i
        BY <1>3, <1>8, <1>9, <1>10, <2>2, <3>2, NoneIsNoInfo
      <4> QED BY <1>16, <4>1
    <3>3. ASSUME info'[j].refcnt > 0  PROVE info'[j].data.stat = info[j].data.stat
      <4>1. CASE j = i
        BY <1>10, <1>12, <1>16, <2>2, <4>1
      <4>2. CASE j # i /\ j # old
        BY <1>16, <4>2
      <4>3. CASE j # i /\ j = old
        BY <1>16, <3>1, <3>3, <4>3
      <4> QED BY <4>1, <4>2, <4>3
    <3> QED BY <3>2, <3>3 DEF StatKept
  <2>3. MovedWell(t)
    <3>1. PointerOf(t)'
      BY <1>17, <1>18 DEF PointerOf, Bare
    <3>2. info'[i].data.stat >= asker[t].asked
      <4>1. CASE shared = None
        BY <1>2, <1>5, <1>6, <1>12, <1>16, <4>1 DEF CurrentOf
      <4>2. CASE shared # None
        BY <1>6, <1>9, <1>10, <1>12, <1>16, <4>2 DEF CurrentOf
      <4> QED BY <4>1, <4>2
    <3>3. CurrentOf(t)'
      BY <1>5, <1>6, <1>17, <1>18, <3>2 DEF CurrentOf, world_vars
    <3>4. info[i].refcnt >= 1 \/ Fresh(i)
      BY <1>9, <1>10, <2>1
    <3> QED BY <1>5, <1>17, <1>18, <3>1, <3>3, <3>4 DEF MovedWell, Before
  <2>4. compiler'.stat >= compiler.stat
    BY <1>5, TypesNow DEF world_vars
  <2> QED BY <1>18, <1>20, <2>1, <2>2, <2>3, <2>4, LifeOfAskers
<1>23. DisabledTogether'
  \* what the table has afterwards
  <2>1. ASSUME NEW k \in InfoKeys, NEW x, x = compiler_info'[k], x # None
        PROVE  /\ x \in Infos /\ info'[x].data = made[x].data
               /\ x # i => /\ x = compiler_info[k] /\ made[x] = info[x]
                           /\ info'[x].disabled = info[x].disabled
    <3>1. x \in Infos /\ info'[x].refcnt >= 1
      BY <1>20, <1>21, <2>1, KeptIsAliveNext
    <3>2. CASE x = i
      BY <1>16, <3>1, <3>2
    <3>3. CASE x # i
      <4>1. k # key /\ x = compiler_info[k] /\ made[x] = info[x]
        BY <1>12, <1>19, <2>1, <3>1, <3>3
      <4>2. x # old \/ info[x].refcnt > 1
        BY <1>6, <1>16, <3>1, <3>3 DEF InfoType
      <4> QED BY <1>16, <3>1, <3>3, <4>1, <4>2
    <3> QED BY <3>2, <3>3
  <2>2. same <=> \E k \in InfoKeys : /\ compiler_info'[k] # None /\ made[compiler_info'[k]].disabled
                                     /\ made[compiler_info'[k]].data.content = made[i].data.content
    BY <1>11 DEF same, SameIsDisabled
  <2>3. info'[i].disabled = same
    <3>1. made[i].disabled => same
      BY <1>19, <2>2, NoneIsNoInfo
    <3> QED BY <1>6, <1>12, <1>15, <1>16, <3>1 DEF InfoType
  <2>4. ASSUME NEW k \in InfoKeys, NEW y, y = compiler_info'[k], y # None, y # i,
               made[y].data.content = made[i].data.content
        PROVE  same = info[y].disabled
    <3>1. y \in Infos /\ y = compiler_info[k] /\ made[y] = info[y]
      BY <2>1, <2>4
    <3>2. made[y].disabled => same
      BY <2>2, <2>4
    <3>3. ASSUME same  PROVE info[y].disabled
      <4>1. PICK l \in InfoKeys : /\ compiler_info'[l] # None /\ made[compiler_info'[l]].disabled
                                  /\ made[compiler_info'[l]].data.content = made[i].data.content
        BY <2>2, <3>3
      <4>2. PICK z : z = compiler_info'[l]
        OBVIOUS
      <4>3. CASE z = i
        <5>1. shared # None
          BY <1>7, <1>10, <1>12, <4>1, <4>2, <4>3
        <5>2. PICK m \in InfoKeys : compiler_info[m] = i
          BY <1>9, <1>10, <5>1
        <5>3. made[i] = info[i]
          BY <1>12, <5>1
        <5> QED BY <1>6, <2>4, <3>1, <4>1, <4>2, <4>3, <5>2, <5>3, NoneIsNoInfo DEF DisabledTogether
      <4>4. CASE z # i
        <5>1. z = compiler_info[l] /\ made[z] = info[z]
          BY <2>1, <4>1, <4>2, <4>4
        <5> QED BY <1>6, <2>4, <3>1, <4>1, <4>2, <5>1 DEF DisabledTogether
      <4> QED BY <4>3, <4>4
    <3> QED BY <1>6, <1>15, <3>1, <3>2, <3>3 DEF InfoType
  <2>5. ASSUME NEW j \in InfoKeys, NEW k \in InfoKeys,
               compiler_info'[j] # None, compiler_info'[k] # None,
               info'[compiler_info'[j]].data.content = info'[compiler_info'[k]].data.content
        PROVE  info'[compiler_info'[j]].disabled = info'[compiler_info'[k]].disabled
    <3>1. PICK x, y : x = compiler_info'[j] /\ y = compiler_info'[k]
      OBVIOUS
    <3>2. made[x].data.content = made[y].data.content
      BY <2>1, <2>5, <3>1
    <3>3. CASE x = i /\ y = i
      BY <3>1, <3>3
    <3>4. CASE x = i /\ y # i
      BY <2>1, <2>3, <2>4, <2>5, <3>1, <3>2, <3>4
    <3>5. CASE x # i /\ y = i
      BY <2>1, <2>3, <2>4, <2>5, <3>1, <3>2, <3>5
    <3>6. CASE x # i /\ y # i
      <4>1. /\ x = compiler_info[j] /\ made[x] = info[x] /\ info'[x].disabled = info[x].disabled
            /\ y = compiler_info[k] /\ made[y] = info[y] /\ info'[y].disabled = info[y].disabled
        BY <2>1, <2>5, <3>1, <3>6
      <4> QED BY <1>6, <2>5, <3>1, <3>2, <4>1 DEF DisabledTogether
    <3> QED BY <3>3, <3>4, <3>5, <3>6
  <2> QED BY <2>5 DEF DisabledTogether
<1> QED BY <1>20, <1>21, <1>22, <1>23 DEF InfoLife

\* Disable() keeps InfoLife.
LEMMA LifeDisable ==
  ASSUME InfoTypes, InfoLife, NEW t \in Askers, Disable(t)
  PROVE  InfoTypes' /\ InfoLife'
<1> DEFINE i == asker[t].info
           S == AlsoDisabled(i)
           a == [asker[t] EXCEPT !.at = "fallback"]
<1>1. /\ At(t) = "remote" /\ asker' = [asker EXCEPT ![t] = a]
      /\ info' = [j \in DOMAIN info |-> IF j \in S THEN [info[j] EXCEPT !.disabled = TRUE] ELSE info[j]]
      /\ UNCHANGED <<compiler_info, info_waiters, telling, world_vars>>
  BY DEF Disable, table_vars, Moves
<1>2. /\ PointerOf(t) /\ CurrentOf(t) /\ asker \in [Askers -> AskerType]
      /\ info \in [Infos -> InfoType] /\ Pointers /\ InfoRefsExact /\ DisabledTogether
  BY TypesNow DEF InfoLife, Pointers, Current
<1>3. i \in Infos /\ info[i].refcnt >= 1
  BY <1>1, <1>2, HeldIsAlive DEF Referring
<1>4. ASSUME NEW j \in S
      PROVE  j \in Infos /\ info[j].refcnt >= 1 /\ info[j].data.content = info[i].data.content
  BY <1>2, <1>3, KeptIsAlive DEF AlsoDisabled
<1>5. \A k \in InfoKeys : compiler_info[k] # None =>
        (compiler_info[k] \in S <=> info[compiler_info[k]].data.content = info[i].data.content)
  BY <1>4 DEF AlsoDisabled
<1> HIDE DEF S
<1>6. /\ info' \in [Infos -> InfoType]
      /\ \A j \in Infos : /\ info'[j].refcnt = info[j].refcnt /\ info'[j].data = info[j].data
                          /\ j \notin S => info'[j] = info[j]
                          /\ j \in S => info'[j].disabled = TRUE
                          /\ info[j].disabled \in BOOLEAN
  BY <1>1, <1>2 DEF InfoType
<1>7. a \in AskerType /\ a.at = "fallback" /\ a.info = i /\ a.asked = asker[t].asked
  BY <1>2 DEF AskerType, Referring
<1> HIDE DEF a
<1>8. /\ asker' \in [Askers -> AskerType] /\ asker'[t] = a /\ At(t)' = "fallback"
      /\ \A u \in Askers \ {t} : asker'[u] = asker[u]
  BY <1>1, <1>2, <1>7 DEF At
<1>9. InfoTypes'
  BY <1>1, <1>6, <1>8, TypesNext
<1>10. InfoRefsExact'
  <2>1. AnyCwd \in InfoKeys
    BY DEF InfoKeys
  <2>2. \A j \in Infos :
          /\ HeldBy(t, j)' = HeldBy(t, j) /\ ToldBy(t, j)' = ToldBy(t, j)
          /\ KeptBy(AnyCwd, j)' = KeptBy(AnyCwd, j)
          /\ {HeldBy(t, j), ToldBy(t, j), KeptBy(AnyCwd, j), info[j].refcnt} \subseteq Int
    BY <1>1, <1>2, <1>7, <1>8 DEF HeldBy, ToldBy, KeptBy, Referring, InfoType
  <2>3. \A j \in Infos :
          info'[j].refcnt = info[j].refcnt - HeldBy(t, j) + HeldBy(t, j)'
                            - ToldBy(t, j) + ToldBy(t, j)' - KeptBy(AnyCwd, j) + KeptBy(AnyCwd, j)'
    BY <1>6, <2>2
  <2> QED BY <1>1, <1>2, <1>8, <1>9, <2>1, <2>3, RefsMove
<1>11. Pointers' /\ Current' /\ Unborn'
  <2>1. \A j \in Infos : StatKept(j)
    <3> SUFFICES ASSUME NEW j \in Infos  PROVE StatKept(j)
      OBVIOUS
    <3>1. info[j].refcnt = 0 => j \notin S
      BY <1>4
    <3> QED BY <1>6, <3>1 DEF StatKept
  <2>2. MovedWell(t)
    BY <1>1, <1>2, <1>3, <1>7, <1>8
       DEF MovedWell, PointerOf, CurrentOf, Before, Bare, Pointing, Referring, world_vars
  <2>3. compiler'.stat >= compiler.stat
    BY <1>1, TypesNow DEF world_vars
  <2> QED BY <1>8, <1>9, <2>1, <2>2, <2>3, LifeOfAskers
<1>12. DisabledTogether'
  <2>0. compiler_info' = compiler_info
    BY <1>1
  <2> SUFFICES ASSUME NEW j \in InfoKeys, NEW k \in InfoKeys,
                      compiler_info[j] # None, compiler_info[k] # None,
                      info'[compiler_info[j]].data.content = info'[compiler_info[k]].data.content
               PROVE  info'[compiler_info[j]].disabled = info'[compiler_info[k]].disabled
    BY <2>0 DEF DisabledTogether
  <2>1. /\ compiler_info[j] \in Infos /\ compiler_info[k] \in Infos
        /\ info[compiler_info[j]].data.content = info[compiler_info[k]].data.content
    BY <1>6 DEF InfoTypes
  <2>2. compiler_info[j] \in S <=> compiler_info[k] \in S
    BY <1>5, <2>1
  <2>3. info[compiler_info[j]].disabled = info[compiler_info[k]].disabled
    BY <1>2, <2>1 DEF DisabledTogether
  <2> QED BY <1>6, <2>1, <2>2, <2>3
<1> QED BY <1>9, <1>10, <1>11, <1>12 DEF InfoLife

-----------------------------------------------------------------------------
(***************************************************************************)
(* Lists: sequences of tasks.                                              *)
(***************************************************************************)
LEMMA NoListIsNone == NoList \notin Seq(Askers)
<1> SUFFICES ASSUME NoList \in Seq(Askers)  PROVE FALSE
  OBVIOUS
<1>1. Len(NoList) = 1 /\ NoList[1] = "no list"
  BY DEF NoList
<1>2. \A n \in 1 .. Len(NoList) : NoList[n] \in Askers
  BY ElementOfSeq
<1>3. \A n \in 1 .. 1 : NoList[n] \in Askers
  BY <1>1, <1>2, Zenon
<1>4. "no list" \in Askers
  <2>1. 1 \in 1 .. 1
    OBVIOUS
  <2> QED BY <1>1, <1>3, <2>1, Zenon
<1> QED BY <1>4, AskersAssumption

\* A task that is not in a list is appended to it.
LEMMA AppendOnce ==
  ASSUME NEW q \in Seq(Askers), NEW x \in Askers, x \notin ToSet(q), Distinct(q)
  PROVE  /\ Append(q, x) \in Seq(Askers) /\ Distinct(Append(q, x))
         /\ ToSet(Append(q, x)) = ToSet(q) \cup {x}
<1> DEFINE r == Append(q, x)
<1>1. /\ r \in Seq(Askers) /\ Len(r) = Len(q) + 1 /\ Len(q) \in Nat /\ r[Len(q) + 1] = x
      /\ \A k \in 1 .. Len(q) : r[k] = q[k]
  BY AppendProperties, LenProperties
<1>2. DOMAIN q = 1 .. Len(q) /\ DOMAIN r = 1 .. Len(r)
  BY <1>1, LenProperties
<1>3. ToSet(q) = {q[k] : k \in 1 .. Len(q)} /\ ToSet(r) = {r[k] : k \in 1 .. Len(r)}
  BY <1>2 DEF ToSet
<1> HIDE DEF r
<1>4. 1 .. Len(r) = (1 .. Len(q)) \cup {Len(q) + 1}
  BY <1>1
<1>5. ToSet(r) = ToSet(q) \cup {x}
  BY <1>1, <1>3, <1>4
<1>6. \A k \in 1 .. Len(q) : q[k] # x
  BY <1>3
<1>7. Distinct(r)
  <2> SUFFICES ASSUME NEW k \in 1 .. Len(r), NEW l \in 1 .. Len(r), r[k] = r[l]
               PROVE  k = l
    BY DEF Distinct
  <2>1. CASE k \in 1 .. Len(q) /\ l \in 1 .. Len(q)
    BY <1>1, <2>1 DEF Distinct
  <2>2. CASE k = Len(q) + 1 \/ l = Len(q) + 1
    BY <1>1, <1>4, <1>6, <2>2
  <2> QED BY <1>4, <2>1, <2>2
<1> QED BY <1>1, <1>5, <1>7 DEF r

-----------------------------------------------------------------------------
(***************************************************************************)
(* Lists: actions.                                                         *)
(***************************************************************************)
\* A step of a task that does not touch a list.
LEMMA ListsAside ==
  ASSUME InfoTypes, ListLife, UNCHANGED <<info_waiters, telling>>, NEW t \in Askers,
         \A u \in Askers \ {t} : asker'[u] = asker[u],
         At(t) \notin {"waits", "undefined"}, At(t)' # "waits",
         Building(t)' => Building(t), Building(t) => Building(t)' \/ At(t)' = "undefined",
         At(t)' \in Untold => At(t) \in Untold
  PROVE  ListLife'
<1>1. WaitersInLists /\ ListOfBuilder /\ NotTelling
  BY DEF ListLife
<1>2. \A u \in Askers : u # t => At(u)' = At(u) /\ (Building(u)' <=> Building(u))
  BY DEF At, Building
<1>3. /\ \A u, v : InTold(u, v)' <=> InTold(u, v)
      /\ \A u, cwd : InTable(u, cwd)' <=> InTable(u, cwd)
  BY DEF InTold, InTable
<1>4. \A u \in Askers : At(u)' = "waits" <=> At(u) = "waits"
  BY <1>2
<1>5. info_waiters' = info_waiters /\ telling' = telling
  OBVIOUS
<1>6. WaitersInLists'
  BY <1>1, <1>3, <1>4, <1>5 DEF WaitersInLists
<1>7. ListOfBuilder'
  <2>1. \A u \in Askers : Building(u)' => Building(u)
    BY <1>2
  <2>2. \A u \in Askers : Building(u) \/ At(u) = "undefined" => Building(u)' \/ At(u)' = "undefined"
    BY <1>2
  <2> QED BY <1>1, <1>5, <2>1, <2>2 DEF ListOfBuilder
<1>8. NotTelling'
  <2>1. \A u \in Askers : At(u)' \in Untold => At(u) \in Untold
    BY <1>2
  <2> QED BY <1>1, <1>5, <2>1 DEF NotTelling
<1> QED BY <1>6, <1>7, <1>8 DEF ListLife

\* The actions that do not.
LEMMA ListsOfAside ==
  ASSUME InfoTypes, InfoTypes', ListLife, NEW t \in Askers,
         \/ GetCompilerInfo(t) \/ CacheHit(t) \/ FillCompilerInfoDone(t) \/ ReleaseInfo(t)
         \/ Disable(t) \/ GetCompilerInfoInternal(t) \/ BuildCompilerInfoData(t) \/ Store(t)
         \/ HoldInfo(t)
  PROVE  ListLife'
<1>1. asker \in [Askers -> AskerType] /\ asker' \in [Askers -> AskerType]
  BY DEF InfoTypes, AskerType
<1>2. /\ UNCHANGED <<info_waiters, telling>>
      /\ \A u \in Askers \ {t} : asker'[u] = asker[u]
      /\ \/ At(t) = "new" /\ At(t)' \in {"missed", "hit"}
         \/ At(t) = "hit" /\ At(t)' \in {"got", "undefined"}
         \/ At(t) = "got" /\ At(t)' \in {"remote", "fallback"}
         \/ At(t) \in {"remote", "fallback"} /\ At(t)' \in {"fallback", "end"}
         \/ At(t) = "posted" /\ At(t)' \in {"unknown", "stored"}
         \/ At(t) = "unknown" /\ At(t)' = "built"
         \/ At(t) = "built" /\ At(t)' = "stored"
         \/ At(t) = "stored" /\ At(t)' \in {"tell", "undefined"}
  <2>1. CASE GetCompilerInfo(t)
    BY <1>1, <2>1 DEF GetCompilerInfo, At, AskerType
  <2>2. CASE CacheHit(t)
    BY <1>1, <2>2 DEF CacheHit, Take, Moves, At, AskerType
  <2>3. CASE FillCompilerInfoDone(t)
    BY <1>1, <2>3 DEF FillCompilerInfoDone, At, AskerType
  <2>4. CASE ReleaseInfo(t)
    BY <1>1, <2>4 DEF ReleaseInfo, At, AskerType
  <2>5. CASE Disable(t)
    BY <1>1, <2>5 DEF Disable, Moves, At, AskerType
  <2>6. CASE GetCompilerInfoInternal(t)
    BY <1>1, <2>6 DEF GetCompilerInfoInternal, At, AskerType
  <2>7. CASE BuildCompilerInfoData(t)
    BY <1>1, <2>7 DEF BuildCompilerInfoData, At, AskerType
  <2>8. CASE Store(t)
    <3>1. PICK i : asker' = [asker EXCEPT ![t].at = "stored", ![t].info = i, ![t].data = NoInfo.data]
      BY <2>8, Zenon DEF Store
    <3>2. At(t) = "built" /\ UNCHANGED <<info_waiters, telling>>
      BY <2>8 DEF Store
    <3> QED BY <1>1, <3>1, <3>2 DEF At, AskerType
  <2>9. CASE HoldInfo(t)
    BY <1>1, <2>9 DEF HoldInfo, Take, Moves, At, AskerType
  <2> QED BY <2>1, <2>2, <2>3, <2>4, <2>5, <2>6, <2>7, <2>8, <2>9
<1>3. /\ At(t) \notin {"waits", "undefined"} /\ At(t)' # "waits"
      /\ Building(t)' => Building(t)
      /\ Building(t) => Building(t)' \/ At(t)' = "undefined"
      /\ At(t)' \in Untold => At(t) \in Untold
  BY <1>2 DEF Building, Untold, Bare, Pointing
<1> QED BY <1>2, <1>3, ListsAside

\* JoinWaiters() keeps ListLife.
LEMMA ListsJoinWaiters ==
  ASSUME InfoTypes, ListLife, NEW t \in Askers, JoinWaiters(t)
  PROVE  ListLife'
<1>1. PICK cwd \in Cwds : cwd = CwdOf[t]
  BY DEF Cwds
<1> DEFINE q == info_waiters[cwd]
           first == q = NoList
<1>2. /\ At(t) = "missed" /\ UNCHANGED telling
      /\ info_waiters' = [info_waiters EXCEPT ![cwd] = IF first THEN <<>> ELSE Append(q, t)]
      /\ asker' = [asker EXCEPT ![t].at = IF first THEN "posted" ELSE "waits", ![t].waited = ~first]
  BY <1>1 DEF JoinWaiters
<1>3. /\ WaitersInLists /\ ListOfBuilder /\ NotTelling /\ asker \in [Askers -> AskerType]
      /\ info_waiters \in [Cwds -> Seq(Askers) \cup {NoList}]
  BY TypesNow DEF ListLife, InfoTypes
<1>4. /\ At(t)' = (IF first THEN "posted" ELSE "waits")
      /\ \A u \in Askers : u # t => At(u)' = At(u)
  BY <1>2, <1>3 DEF At, AskerType
<1>5. /\ info_waiters'[cwd] = (IF first THEN <<>> ELSE Append(q, t))
      /\ \A d \in Cwds : d # cwd => info_waiters'[d] = info_waiters[d]
  BY <1>2, <1>3
<1>6. \A u, v : InTold(u, v)' <=> InTold(u, v)
  BY <1>2 DEF InTold
<1>7. \A u \in Askers, d \in Cwds : d # cwd => (InTable(u, d)' <=> InTable(u, d))
  BY <1>5 DEF InTable
<1>8. NotTelling'
  BY <1>2, <1>3, <1>4 DEF NotTelling, Untold, Bare
<1>9. CASE first
  <2>1. \A u \in Askers : ~InTable(u, cwd)' /\ ~InTable(u, cwd)
    BY <1>5, <1>9, EmptyList DEF InTable
  <2>2. WaitersInLists'
    <3>1. \A u \in Askers, d \in Cwds : InTable(u, d)' <=> InTable(u, d)
      BY <1>7, <2>1
    <3>2. \A u \in Askers : At(u)' = "waits" <=> At(u) = "waits"
      BY <1>2, <1>4, <1>9
    <3>3. \A d \in Cwds : info_waiters'[d] # NoList => Distinct(info_waiters'[d])
      BY <1>3, <1>5, <1>9, EmptyList DEF WaitersInLists
    <3>4. \A u \in Askers : CwdOf[u] \in Cwds
      BY DEF Cwds
    <3> QED BY <1>2, <1>3, <1>6, <3>1, <3>2, <3>3, <3>4 DEF WaitersInLists
  <2>3. ListOfBuilder'
    <3>1. Building(t)' /\ \A u \in Askers : u # t => (Building(u)' <=> Building(u))
      BY <1>4, <1>9 DEF Building
    <3>2. info_waiters'[cwd] # NoList
      BY <1>5, <1>9, EmptyList, NoListIsNone
    <3>3. \A u \in Askers : Building(u) => CwdOf[u] # cwd
      BY <1>3, <1>9 DEF ListOfBuilder
    <3>4. \A u \in Askers : CwdOf[u] \in Cwds
      BY DEF Cwds
    <3>5. \A u \in Askers : Building(u)' => info_waiters'[CwdOf[u]] # NoList
      BY <1>1, <1>3, <1>5, <3>1, <3>2, <3>4 DEF ListOfBuilder
    <3>6. \A u, v \in Askers : Building(u)' /\ Building(v)' /\ CwdOf[u] = CwdOf[v] => u = v
      BY <1>1, <1>3, <3>1, <3>3 DEF ListOfBuilder
    <3>7. ASSUME NEW d \in Cwds, info_waiters'[d] # NoList
          PROVE  \E u \in Askers : CwdOf[u] = d /\ (Building(u)' \/ At(u)' = "undefined")
      <4>1. CASE d = cwd
        BY <1>1, <3>1, <4>1
      <4>2. CASE d # cwd
        <5>1. PICK u \in Askers : CwdOf[u] = d /\ (Building(u) \/ At(u) = "undefined")
          BY <1>3, <1>5, <3>7, <4>2 DEF ListOfBuilder
        <5> QED BY <1>1, <1>4, <3>1, <4>2, <5>1
      <4> QED BY <4>1, <4>2
    <3> QED BY <3>5, <3>6, <3>7 DEF ListOfBuilder
  <2> QED BY <1>8, <2>2, <2>3 DEF ListLife
<1>10. CASE ~first
  <2>1. q \in Seq(Askers) /\ Distinct(q)
    BY <1>3, <1>10 DEF WaitersInLists
  <2>2. t \notin ToSet(q)
    BY <1>2, <1>3, <1>10 DEF WaitersInLists, InTable
  <2>3. /\ info_waiters'[cwd] \in Seq(Askers) /\ Distinct(info_waiters'[cwd])
        /\ ToSet(info_waiters'[cwd]) = ToSet(q) \cup {t}
    BY <1>5, <1>10, <2>1, <2>2, AppendOnce
  <2>4. info_waiters'[cwd] # NoList
    BY <2>3, NoListIsNone
  <2>5. \A u \in Askers : InTable(u, cwd)' <=> InTable(u, cwd) \/ u = t
    BY <1>10, <2>3, <2>4 DEF InTable
  <2>6. \A u \in Askers : CwdOf[u] \in Cwds
    BY DEF Cwds
  <2>7. WaitersInLists'
    <3>1. \A d \in Cwds : info_waiters'[d] # NoList => Distinct(info_waiters'[d])
      BY <1>3, <1>5, <2>3 DEF WaitersInLists
    <3>2. \A u \in Askers : Distinct(telling'[u].list)
      BY <1>2, <1>3 DEF WaitersInLists
    <3>3. \A u \in Askers : ~InTold(t, u) /\ \A d \in Cwds : ~InTable(t, d)
      BY <1>2, <1>3 DEF WaitersInLists
    <3>4. ASSUME NEW u \in Askers
          PROVE  /\ \A d \in Cwds : InTable(u, d)' => At(u)' = "waits" /\ d = CwdOf[u]
                 /\ \A v \in Askers : InTold(u, v)' => At(u)' = "waits" /\ ~InTable(u, CwdOf[u])'
                 /\ \A v, w \in Askers : InTold(u, v)' /\ InTold(u, w)' => v = w
                 /\ At(u)' = "waits" => InTable(u, CwdOf[u])' \/ \E v \in Askers : InTold(u, v)'
      <4>1. CASE u = t
        BY <1>1, <1>4, <1>6, <1>7, <1>10, <2>5, <3>3, <4>1
      <4>2. CASE u # t
        <5>1. \A d \in Cwds : InTable(u, d)' <=> InTable(u, d)
          BY <1>7, <2>5, <4>2
        <5> QED BY <1>3, <1>4, <1>6, <2>6, <4>2, <5>1 DEF WaitersInLists
      <4> QED BY <4>1, <4>2
    <3> QED BY <3>1, <3>2, <3>4 DEF WaitersInLists
  <2>8. ListOfBuilder'
    <3>1. \A u \in Askers : Building(u)' <=> Building(u)
      BY <1>2, <1>4, <1>10 DEF Building
    <3>2. \A u \in Askers : At(u) = "undefined" => At(u)' = "undefined"
      BY <1>2, <1>4
    <3>3. \A d \in Cwds : info_waiters'[d] # NoList <=> info_waiters[d] # NoList
      BY <1>5, <1>10, <2>4
    <3> QED BY <1>3, <2>6, <3>1, <3>2, <3>3 DEF ListOfBuilder
  <2> QED BY <1>8, <2>7, <2>8 DEF ListLife
<1> QED BY <1>9, <1>10

\* TakeWaiters() keeps ListLife.
LEMMA ListsTakeWaiters ==
  ASSUME InfoTypes, ListLife, NEW t \in Askers, TakeWaiters(t)
  PROVE  ListLife'
<1>1. PICK cwd \in Cwds : cwd = CwdOf[t]
  BY DEF Cwds
<1> DEFINE q == info_waiters[cwd]
<1>2. /\ At(t) = "tell"
      /\ telling' = [telling EXCEPT ![t] = [info |-> asker[t].info, list |-> q]]
      /\ info_waiters' = [info_waiters EXCEPT ![cwd] = NoList]
      /\ asker' = [asker EXCEPT ![t].at = "got"]
  BY <1>1 DEF TakeWaiters, Taken, Moves
<1>3. /\ WaitersInLists /\ ListOfBuilder /\ NotTelling /\ asker \in [Askers -> AskerType]
      /\ info_waiters \in [Cwds -> Seq(Askers) \cup {NoList}]
  BY TypesNow DEF ListLife, InfoTypes
<1>4. At(t)' = "got" /\ \A u \in Askers : u # t => At(u)' = At(u)
  BY <1>2, <1>3 DEF At, AskerType
<1>5. Building(t) /\ q # NoList /\ Distinct(q) /\ telling[t].list = <<>>
  <2>1. Building(t) /\ At(t) \in Untold
    BY <1>2 DEF Building, Untold
  <2>2. q # NoList
    BY <1>1, <1>3, <2>1 DEF ListOfBuilder
  <2> QED BY <1>3, <2>1, <2>2 DEF WaitersInLists, NotTelling
<1>6. /\ info_waiters'[cwd] = NoList
      /\ \A d \in Cwds : d # cwd => info_waiters'[d] = info_waiters[d]
      /\ telling'[t].list = q /\ \A u \in Askers : u # t => telling'[u] = telling[u]
  BY <1>2, <1>3 DEF InfoTypes
<1>7. /\ \A u \in Askers : ~InTable(u, cwd)' /\ (InTold(u, t)' <=> InTable(u, cwd)) /\ ~InTold(u, t)
      /\ \A u \in Askers, d \in Cwds : d # cwd => (InTable(u, d)' <=> InTable(u, d))
      /\ \A u, v \in Askers : v # t => (InTold(u, v)' <=> InTold(u, v))
  BY <1>5, <1>6, EmptyList DEF InTable, InTold
<1>8. \A u \in Askers : CwdOf[u] \in Cwds
  BY DEF Cwds
<1>9. WaitersInLists'
  <2>1. /\ \A d \in Cwds : info_waiters'[d] # NoList => Distinct(info_waiters'[d])
        /\ \A u \in Askers : Distinct(telling'[u].list)
    BY <1>3, <1>5, <1>6 DEF WaitersInLists
  <2>2. ASSUME NEW u \in Askers
        PROVE  /\ \A d \in Cwds : InTable(u, d)' => At(u)' = "waits" /\ d = CwdOf[u]
               /\ \A v \in Askers : InTold(u, v)' => At(u)' = "waits" /\ ~InTable(u, CwdOf[u])'
               /\ \A v, w \in Askers : InTold(u, v)' /\ InTold(u, w)' => v = w
               /\ At(u)' = "waits" => InTable(u, CwdOf[u])' \/ \E v \in Askers : InTold(u, v)'
    <3>1. /\ \A d \in Cwds : InTable(u, d) => At(u) = "waits" /\ d = CwdOf[u]
          /\ \A v \in Askers : InTold(u, v) => At(u) = "waits" /\ ~InTable(u, CwdOf[u])
          /\ \A v, w \in Askers : InTold(u, v) /\ InTold(u, w) => v = w
          /\ At(u) = "waits" => InTable(u, CwdOf[u]) \/ \E v \in Askers : InTold(u, v)
      BY <1>3 DEF WaitersInLists
    <3>2. At(u)' = "waits" <=> At(u) = "waits"
      BY <1>2, <1>4
    <3>3. \A d \in Cwds : InTable(u, d)' => At(u)' = "waits" /\ d = CwdOf[u]
      BY <1>7, <3>1, <3>2
    <3>4. \A v \in Askers : InTold(u, v)' => At(u)' = "waits" /\ ~InTable(u, CwdOf[u])'
      <4> SUFFICES ASSUME NEW v \in Askers, InTold(u, v)'
                   PROVE  At(u)' = "waits" /\ ~InTable(u, CwdOf[u])'
        OBVIOUS
      <4>1. CASE v = t
        <5>1. InTable(u, cwd)
          BY <1>7, <4>1
        <5>2. cwd = CwdOf[u] /\ At(u) = "waits"
          BY <3>1, <5>1
        <5> QED BY <1>7, <3>2, <5>2
      <4>2. CASE v # t
        BY <1>7, <1>8, <3>1, <3>2, <4>2
      <4> QED BY <4>1, <4>2
    <3>5. \A v, w \in Askers : InTold(u, v)' /\ InTold(u, w)' => v = w
      <4>1. \A v \in Askers : InTable(u, cwd) => ~InTold(u, v)
        BY <3>1
      <4> QED BY <1>7, <3>1, <4>1
    <3>6. At(u)' = "waits" => InTable(u, CwdOf[u])' \/ \E v \in Askers : InTold(u, v)'
      BY <1>7, <1>8, <3>1, <3>2
    <3> QED BY <3>3, <3>4, <3>5, <3>6
  <2> QED BY <2>1, <2>2 DEF WaitersInLists
<1>10. ListOfBuilder'
  <2>1. ~Building(t)' /\ \A u \in Askers : u # t => (Building(u)' <=> Building(u))
    BY <1>4 DEF Building
  <2>2. \A u \in Askers : Building(u)' => CwdOf[u] # cwd /\ Building(u)
    BY <1>1, <1>3, <1>5, <2>1 DEF ListOfBuilder
  <2>3. \A u \in Askers : Building(u)' => info_waiters'[CwdOf[u]] # NoList
    BY <1>3, <1>6, <1>8, <2>2 DEF ListOfBuilder
  <2>4. \A u, v \in Askers : Building(u)' /\ Building(v)' /\ CwdOf[u] = CwdOf[v] => u = v
    BY <1>3, <2>2 DEF ListOfBuilder
  <2>5. ASSUME NEW d \in Cwds, info_waiters'[d] # NoList
        PROVE  \E u \in Askers : CwdOf[u] = d /\ (Building(u)' \/ At(u)' = "undefined")
    <3>1. d # cwd
      BY <1>6, <2>5
    <3>2. PICK u \in Askers : CwdOf[u] = d /\ (Building(u) \/ At(u) = "undefined")
      BY <1>3, <1>6, <2>5, <3>1 DEF ListOfBuilder
    <3> QED BY <1>1, <1>4, <2>1, <3>1, <3>2
  <2> QED BY <2>3, <2>4, <2>5 DEF ListOfBuilder
<1>11. NotTelling'
  BY <1>3, <1>4, <1>6 DEF NotTelling, Untold, Bare, Pointing
<1> QED BY <1>9, <1>10, <1>11 DEF ListLife

\* TellWaiter() keeps ListLife.
LEMMA ListsTellWaiter ==
  ASSUME InfoTypes, ListLife, NEW t \in Askers, TellWaiter(t)
  PROVE  ListLife'
<1>1. telling[t].info # None /\ telling[t].list # <<>>
  BY DEF TellWaiter
<1>2. PICK w \in Askers : w = Head(telling[t].list)
  BY <1>1, FirstOfList DEF ListLife
<1> DEFINE q == telling[t].list
           r == Tail(q)
<1>3. /\ asker' = [asker EXCEPT ![w].at = "got", ![w].info = telling[t].info]
      /\ telling' = [telling EXCEPT ![t].list = r] /\ UNCHANGED info_waiters
  BY <1>2 DEF TellWaiter
<1>4. WaitersInLists /\ ListOfBuilder /\ NotTelling /\ asker \in [Askers -> AskerType]
  BY TypesNow DEF ListLife
<1>5. /\ InTold(w, t) /\ At(w) = "waits" /\ Distinct(r) /\ ToSet(r) = ToSet(q) \ {w}
  BY <1>1, <1>2, <1>4, FirstOfList
<1>6. At(w)' = "got" /\ \A u \in Askers : u # w => At(u)' = At(u)
  BY <1>3, <1>4 DEF At, AskerType
<1>7. /\ telling'[t].list = r /\ \A u \in Askers : u # t => telling'[u] = telling[u]
      /\ telling'[t].info = telling[t].info
  BY <1>3 DEF InfoTypes
<1>8. /\ \A u, d : InTable(u, d)' <=> InTable(u, d)
      /\ \A u, v \in Askers : InTold(u, v)' <=> InTold(u, v) /\ ~(u = w /\ v = t)
  BY <1>3, <1>5, <1>7 DEF InTable, InTold
<1>9. WaitersInLists'
  <2>1. /\ \A d \in Cwds : info_waiters'[d] # NoList => Distinct(info_waiters'[d])
        /\ \A u \in Askers : Distinct(telling'[u].list)
    BY <1>3, <1>4, <1>5, <1>7 DEF WaitersInLists
  <2>2. ASSUME NEW u \in Askers
        PROVE  /\ \A d \in Cwds : InTable(u, d)' => At(u)' = "waits" /\ d = CwdOf[u]
               /\ \A v \in Askers : InTold(u, v)' => At(u)' = "waits" /\ ~InTable(u, CwdOf[u])'
               /\ \A v, z \in Askers : InTold(u, v)' /\ InTold(u, z)' => v = z
               /\ At(u)' = "waits" => InTable(u, CwdOf[u])' \/ \E v \in Askers : InTold(u, v)'
    <3>1. /\ \A d \in Cwds : InTable(u, d) => At(u) = "waits" /\ d = CwdOf[u]
          /\ \A v \in Askers : InTold(u, v) => At(u) = "waits" /\ ~InTable(u, CwdOf[u])
          /\ \A v, z \in Askers : InTold(u, v) /\ InTold(u, z) => v = z
          /\ At(u) = "waits" => InTable(u, CwdOf[u]) \/ \E v \in Askers : InTold(u, v)
      BY <1>4 DEF WaitersInLists
    <3>2. CASE u = w
      <4>1. \A d \in Cwds : ~InTable(u, d)
        BY <1>5, <3>1, <3>2
      <4>2. \A v \in Askers : ~InTold(u, v)'
        BY <1>5, <1>8, <3>1, <3>2
      <4> QED BY <1>6, <1>8, <3>2, <4>1, <4>2
    <3>3. CASE u # w
      BY <1>6, <1>8, <3>1, <3>3
    <3> QED BY <3>2, <3>3
  <2> QED BY <2>1, <2>2 DEF WaitersInLists
<1>10. ListOfBuilder'
  <2>1. \A u \in Askers : Building(u)' <=> Building(u)
    BY <1>5, <1>6 DEF Building
  <2>2. \A u \in Askers : At(u) = "undefined" => At(u)' = "undefined"
    BY <1>5, <1>6
  <2> QED BY <1>3, <1>4, <2>1, <2>2 DEF ListOfBuilder
<1>11. NotTelling'
  <2>1. At(t) \notin Untold
    BY <1>1, <1>4 DEF NotTelling
  <2>2. "got" \notin Untold
    BY DEF Untold, Bare, Pointing
  <2> QED BY <1>4, <1>6, <1>7, <2>1, <2>2 DEF NotTelling
<1> QED BY <1>9, <1>10, <1>11 DEF ListLife

\* TellEnd() keeps ListLife.
LEMMA ListsTellEnd ==
  ASSUME InfoTypes, ListLife, NEW t \in Askers, TellEnd(t)
  PROVE  ListLife'
<1>1. /\ telling' = [telling EXCEPT ![t].info = None] /\ UNCHANGED <<asker, info_waiters>>
  BY DEF TellEnd
<1>2. \A u \in Askers : /\ telling'[u].list = telling[u].list
                        /\ telling[u].info = None => telling'[u].info = None
  BY <1>1 DEF InfoTypes
<1>3. asker' = asker /\ info_waiters' = info_waiters
  BY <1>1
<1>4. /\ \A u \in Askers : At(u)' = At(u) /\ (Building(u)' <=> Building(u))
      /\ \A u, d : InTable(u, d)' <=> InTable(u, d)
      /\ \A u, v \in Askers : InTold(u, v)' <=> InTold(u, v)
  BY <1>2, <1>3 DEF At, Building, InTable, InTold
<1>5. WaitersInLists /\ ListOfBuilder /\ NotTelling
  BY DEF ListLife
<1>6. WaitersInLists'
  BY <1>2, <1>3, <1>4, <1>5 DEF WaitersInLists
<1>7. ListOfBuilder'
  BY <1>3, <1>4, <1>5 DEF ListOfBuilder
<1>8. NotTelling'
  BY <1>2, <1>4, <1>5 DEF NotTelling
<1> QED BY <1>6, <1>7, <1>8 DEF ListLife

\* The compiler changes, or time passes: ListLife.
LEMMA ListsWorld ==
  ASSUME ListLife, CompilerChanges \/ TimePasses
  PROVE  ListLife'
<1>1. asker' = asker /\ info_waiters' = info_waiters /\ telling' = telling
  BY DEF CompilerChanges, TimePasses
<1> QED BY <1>1 DEF ListLife, WaitersInLists, ListOfBuilder, NotTelling, InTable, InTold, Building, At

-----------------------------------------------------------------------------
(***************************************************************************)
(* Every step.                                                             *)
(***************************************************************************)
LEMMA NextInv == InfoInv /\ [InfoNext]_info_vars => InfoInv'
<1> SUFFICES ASSUME InfoInv, [InfoNext]_info_vars  PROVE InfoInv'
  OBVIOUS
<1>1. InfoTypes /\ InfoLife /\ ListLife
  BY DEF InfoInv
<1>2. CASE UNCHANGED info_vars
  <2>1. /\ asker' = asker /\ info' = info /\ compiler_info' = compiler_info
        /\ info_waiters' = info_waiters /\ telling' = telling /\ info_plan' = info_plan
        /\ compiler' = compiler /\ info_time' = info_time
    BY <1>2 DEF info_vars
  <2>2. InfoTypes'
    BY <1>1, <2>1 DEF InfoTypes
  <2>3. ListLife'
    BY <1>1, <2>1 DEF ListLife, WaitersInLists, ListOfBuilder, NotTelling, InTable, InTold,
                      Building, At
  <2>4. InfoLife'
    BY <1>1, <2>1 DEF InfoLife, Pointers, PointerOf, InfoRefsExact, Holding, Unborn,
                      DisabledTogether, Current, CurrentOf, At
  <2> QED BY <2>2, <2>3, <2>4 DEF InfoInv
<1>3. CASE CompilerChanges \/ TimePasses
  BY <1>1, <1>3, LifeWorld, ListsWorld DEF InfoInv
<1>4. ASSUME NEW t \in Askers, AskerStep(t) \/ PoolStep(t)  PROVE InfoInv'
  <2>1. CASE GetCompilerInfo(t)
    BY <1>1, <2>1, LifeGetCompilerInfo, ListsOfAside DEF InfoInv
  <2>2. CASE CacheHit(t)
    BY <1>1, <2>2, LifeCacheHit, ListsOfAside DEF InfoInv
  <2>3. CASE JoinWaiters(t)
    BY <1>1, <2>3, LifeJoinWaiters, ListsJoinWaiters DEF InfoInv
  <2>4. CASE FillCompilerInfoDone(t)
    BY <1>1, <2>4, LifeFillCompilerInfoDone, ListsOfAside DEF InfoInv
  <2>5. CASE ReleaseInfo(t)
    BY <1>1, <2>5, LifeReleaseInfo, ListsOfAside DEF InfoInv
  <2>6. CASE Disable(t)
    BY <1>1, <2>6, LifeDisable, ListsOfAside DEF InfoInv
  <2>7. CASE GetCompilerInfoInternal(t)
    BY <1>1, <2>7, LifeGetCompilerInfoInternal, ListsOfAside DEF InfoInv
  <2>8. CASE BuildCompilerInfoData(t)
    BY <1>1, <2>8, LifeBuildCompilerInfoData, ListsOfAside DEF InfoInv
  <2>9. CASE Store(t)
    BY <1>1, <2>9, LifeStore, ListsOfAside DEF InfoInv
  <2>10. CASE HoldInfo(t)
    BY <1>1, <2>10, LifeHoldInfo, ListsOfAside DEF InfoInv
  <2>11. CASE TakeWaiters(t)
    BY <1>1, <2>11, LifeTakeWaiters, ListsTakeWaiters DEF InfoInv
  <2>12. CASE TellWaiter(t)
    BY <1>1, <2>12, LifeTellWaiter, ListsTellWaiter DEF InfoInv
  <2>13. CASE TellEnd(t)
    BY <1>1, <2>13, LifeTellEnd, ListsTellEnd DEF InfoInv
  <2> QED BY <1>4, <2>1, <2>2, <2>3, <2>4, <2>5, <2>6, <2>7, <2>8, <2>9, <2>10, <2>11, <2>12,
             <2>13 DEF AskerStep, PoolStep
<1> QED BY <1>2, <1>3, <1>4 DEF InfoNext

(***************************************************************************)
(* However tasks ask about compilers, store, share, replace, disable and   *)
(* let go of what they learn: unless one used a pointer to a deleted       *)
(* state, reference counts are exact, there is a list of waiters exactly   *)
(* while one task asks the compiler in a directory, whoever waits is in    *)
(* one list, and a compiler is disabled as a whole.                        *)
(***************************************************************************)
THEOREM InfosAreExact == InfoSpec => []InfosExact
<1>1. InfoInit => InfoInv
  BY InitInv
<1>2. InfoInv /\ [InfoNext]_info_vars => InfoInv'
  BY NextInv
<1>3. InfoInv => InfosExact
  BY InvIsExact
<1> QED BY <1>1, <1>2, <1>3, PTL DEF InfoSpec

-----------------------------------------------------------------------------
(***************************************************************************)
(* OutputCacheExact of LocalOutputCache, for any number of tasks, keys,    *)
(* limits and kills.                                                       *)
(*                                                                         *)
(* A file is followed through its names.  As long as no key was doubled, a *)
(* temporary file is open in one task at most, has no other name (Names),  *)
(* and is whole before it is renamed (Alone); a task that has not opened a *)
(* file yet gives its name to none (Names), so that nothing a new task     *)
(* writes cuts short what has its own name already.                        *)
(***************************************************************************)
Files == Savers \cup {"old"}
SaverPlaces == {"new", "read", "touch", "compile", "write", "rename", "add", "wake", "hit",
                "uncached", "unsaved", "saved", "gone"}
SaverType == [at : SaverPlaces, key : Keys, open : Files \cup {NoFile}]

Unique(q) == \A m, n \in 1..Len(q) : q[m] = q[n] => m = n

OutTypes ==
  /\ saver \in [Savers -> SaverType]
  /\ file \in [Keys -> Files \cup {NoFile}] /\ tmp \in [Keys -> Files \cup {NoFile}]
  /\ whole \subseteq Files /\ entries \in Seq(Keys) /\ Unique(entries) /\ amount \in Int
  /\ gc \in {"check", "waiting", "collect", "done", "undefined"}
  /\ ready \in BOOLEAN /\ should_done \in BOOLEAN /\ cache_quit \in {"no", "wait", "deleted"}
  /\ doubled \subseteq Keys /\ killed \in Nat
  /\ \A s \in Savers : Saving(s) => saver[s].open \in Files

\* A cache that is not loaded has nothing, and nobody uses it.
NotLoaded ==
  ~ready => /\ entries = <<>> /\ amount = 0 /\ gc = "check" /\ cache_quit = "no"
            /\ \A s \in Savers : saver[s].at \in {"new", "gone"}

Early(s) == saver[s].at \in {"new", "read", "compile"}

\* A temporary file has one name, and a file that is to come has none.
Names ==
  /\ \A k, l \in Keys : tmp[k] # NoFile /\ tmp[k] = tmp[l] => k = l
  /\ \A k, l \in Keys : tmp[k] # NoFile => file[l] # tmp[k]
  /\ \A s \in Savers : Early(s) =>
       /\ \A k \in Keys : file[k] # s /\ tmp[k] # s
       /\ \A t \in Savers : saver[t].open # s

\* A task is alone with its key and its file from the time it opens the file until
\* it has added the entry.
AloneOf(s) ==
  /\ saver[s].at \in {"write", "rename", "add"} => KeyOf(s) \notin ToSet(entries)
  /\ saver[s].at \in {"write", "rename"} => tmp[KeyOf(s)] = saver[s].open
  /\ saver[s].at = "rename" => saver[s].open \in whole
  /\ saver[s].at = "add" => file[KeyOf(s)] # NoFile
  /\ saver[s].at \in {"add", "wake"} => \A k \in Keys : tmp[k] # saver[s].open
Alone ==
  /\ \A s \in Savers : AloneOf(s)
  /\ \A s, t \in Savers : Saving(s) /\ Saving(t) /\ KeyOf(s) = KeyOf(t) => s = t

Matches ==
  /\ \A k \in ToSet(entries) : file[k] # NoFile
  /\ \A k \in Keys : file[k] # NoFile => file[k] \in whole
  /\ amount = AmountIn(ToSet(entries))

OutInv == OutTypes /\ NotLoaded /\ (doubled = {} => Names /\ Alone /\ Matches) /\ GcNotAsleep

-----------------------------------------------------------------------------
(***************************************************************************)
(* Bytes.  AmountIn() takes the keys of a set in some order; the sum does  *)
(* not depend on it.                                                       *)
(***************************************************************************)
\* Of sets of subsets of a finite set, one is a smallest.
LEMMA SmallestSubset ==
  ASSUME NEW S, IsFiniteSet(S), NEW B, B \subseteq SUBSET S, B # {}
  PROVE  \E T \in B : \A U \in B : U \subseteq T => U = T
<1>1. B \subseteq FiniteSubsetsOf(S)
  BY FS_FiniteSubsetsOfFinite
<1>2. PICK T \in B : \A U \in B : <<U, T>> \notin StrictSubsetOrdering(S)
  BY <1>1, FS_StrictSubsetOrderingWellFounded, WFMin
<1> QED BY <1>2 DEF StrictSubsetOrdering

\* The sums of the subsets of S, whatever key is taken first.
IsSum(g, S) ==
  /\ g \in [SUBSET S -> Int] /\ g[{}] = 0
  /\ \A T \in SUBSET S : \A k \in T : g[T] = g[T \ {k}] + AmountOf[k]

\* There is such a function: a smallest set without one would be one key larger than
\* a set that has it.
LEMMA SumExists ==
  ASSUME NEW S \in SUBSET Keys
  PROVE  \E g : IsSum(g, S)
<1> SUFFICES ASSUME ~\E g : IsSum(g, S)  PROVE FALSE
  OBVIOUS
<1> DEFINE B == {T \in SUBSET Keys : ~\E g : IsSum(g, T)}
<1>1. PICK T \in B : \A U \in B : U \subseteq T => U = T
  <2>1. B \subseteq SUBSET Keys /\ B # {}
    OBVIOUS
  <2> HIDE DEF B
  <2> QED BY <2>1, AmountsAssumption, SmallestSubset
<1>2. T \in SUBSET Keys /\ ~\E g : IsSum(g, T)
  OBVIOUS
<1>3. CASE T = {}
  <2> DEFINE g == [V \in SUBSET T |-> 0]
  <2>1. IsSum(g, T)
    BY <1>3 DEF IsSum
  <2> QED BY <1>2, <2>1
<1>4. CASE T # {}
  <2>1. PICK x \in T : TRUE
    BY <1>4
  <2> DEFINE U == T \ {x}
  <2>2. PICK g : IsSum(g, U)
    <3>1. U \in SUBSET Keys /\ U \subseteq T /\ U # T
      OBVIOUS
    <3>2. U \notin B
      BY <1>1, <3>1
    <3> QED BY <3>1, <3>2
  <2> DEFINE h == [V \in SUBSET T |-> IF x \in V THEN g[V \ {x}] + AmountOf[x] ELSE g[V]]
  <2>3. AmountOf[x] \in Int /\ \A k \in T : AmountOf[k] \in Int
    BY AmountsAssumption
  <2>4. /\ g \in [SUBSET U -> Int] /\ g[{}] = 0
        /\ \A V \in SUBSET U : \A k \in V : g[V] = g[V \ {k}] + AmountOf[k]
    BY <2>2 DEF IsSum
  <2>5. \A V \in SUBSET T : V \ {x} \in SUBSET U /\ (x \notin V => V \in SUBSET U)
    OBVIOUS
  <2>6. \A V \in SUBSET U : g[V] \in Int
    BY <2>4
  <2>7. h \in [SUBSET T -> Int] /\ h[{}] = 0
    BY <2>3, <2>4, <2>5, <2>6
  <2>8. ASSUME NEW V \in SUBSET T, NEW k \in V
        PROVE  h[V] = h[V \ {k}] + AmountOf[k]
    <3>1. V \ {k} \in SUBSET T
      OBVIOUS
    <3>2. CASE k = x
      <4>1. h[V] = g[V \ {x}] + AmountOf[x] /\ h[V \ {k}] = g[V \ {x}]
        BY <3>1, <3>2
      <4> QED BY <3>2, <4>1
    <3>3. CASE k # x /\ x \in V
      <4>1. /\ h[V] = g[V \ {x}] + AmountOf[x]
            /\ h[V \ {k}] = g[(V \ {k}) \ {x}] + AmountOf[x]
        BY <3>1, <3>3
      <4>2. (V \ {k}) \ {x} = (V \ {x}) \ {k} /\ k \in V \ {x} /\ V \ {x} \in SUBSET U
        BY <3>3
      <4>3. g[V \ {x}] = g[(V \ {k}) \ {x}] + AmountOf[k] /\ g[(V \ {k}) \ {x}] \in Int
        BY <2>4, <4>2
      <4> HIDE DEF h, U
      <4> QED BY <2>3, <4>1, <4>3
    <3>4. CASE k # x /\ x \notin V
      <4>1. h[V] = g[V] /\ h[V \ {k}] = g[V \ {k}] /\ V \in SUBSET U
        BY <3>1, <3>4
      <4> QED BY <2>4, <4>1
    <3> QED BY <3>2, <3>3, <3>4
  <2>9. IsSum(h, T)
    BY <2>7, <2>8 DEF IsSum
  <2> QED BY <1>2, <2>9
<1> QED BY <1>3, <1>4

\* The recursion of AmountIn().
AnyKey(keys) == CHOOSE k \in keys : TRUE
IsFold(g, S) ==
  g = [keys \in SUBSET S |-> IF keys = {} THEN 0 ELSE g[keys \ {AnyKey(keys)}] + AmountOf[AnyKey(keys)]]

\* AmountIn() is the value of a function that satisfies the recursion.
LEMMA AmountIsFold ==
  ASSUME NEW S, NEW g, IsFold(g, S)
  PROVE  \E h : IsFold(h, S) /\ AmountIn(S) = h[S]
<1> DEFINE h == CHOOSE h : h = [s \in SUBSET S |-> IF s = {} THEN 0
                  ELSE LET k == CHOOSE k \in s : TRUE IN h[s \ {k}] + AmountOf[k]]
<1>1. h = [s \in SUBSET S |-> IF s = {} THEN 0
             ELSE LET k == CHOOSE k \in s : TRUE IN h[s \ {k}] + AmountOf[k]]
  BY Zenon DEF IsFold, AnyKey
<1>2. AmountIn(S) = h[S]
  BY DEF AmountIn, FoldSet, MapThenFoldSet
<1> HIDE DEF h
<1>3. IsFold(h, S)
  BY <1>1, Zenon DEF IsFold, AnyKey
<1> QED BY <1>2, <1>3

\* So it is the sum: the smallest set for which it is not has one key too many.
LEMMA AmountIsSum ==
  ASSUME NEW S \in SUBSET Keys, NEW g, IsSum(g, S)
  PROVE  AmountIn(S) = g[S]
<1>1. \A T \in SUBSET S : T # {} => AnyKey(T) \in T
  BY DEF AnyKey
<1>2. IsFold(g, S)
  <2> DEFINE h == [keys \in SUBSET S |-> IF keys = {} THEN 0
                     ELSE g[keys \ {AnyKey(keys)}] + AmountOf[AnyKey(keys)]]
  <2>1. \A T \in SUBSET S : g[T] = h[T]
    BY <1>1 DEF IsSum
  <2>2. g = [T \in SUBSET S |-> g[T]] /\ h = [T \in SUBSET S |-> h[T]]
    BY DEF IsSum
  <2> HIDE DEF h
  <2>3. g = h
    BY <2>1, <2>2, Zenon
  <2> QED BY <2>3 DEF h, IsFold
<1>3. PICK h : IsFold(h, S) /\ AmountIn(S) = h[S]
  BY <1>2, AmountIsFold
<1>4. \A T \in SUBSET S : h[T] = IF T = {} THEN 0 ELSE h[T \ {AnyKey(T)}] + AmountOf[AnyKey(T)]
  BY <1>3, Zenon DEF IsFold
<1>5. ASSUME h[S] # g[S]  PROVE FALSE
  <2> DEFINE B == {T \in SUBSET S : h[T] # g[T]}
  <2>1. PICK T \in B : \A U \in B : U \subseteq T => U = T
    <3>1. B \subseteq SUBSET S /\ B # {} /\ IsFiniteSet(S)
      BY <1>5, AmountsAssumption, FS_Subset
    <3> HIDE DEF B
    <3> QED BY <3>1, SmallestSubset
  <2>2. T \in SUBSET S /\ h[T] # g[T]
    OBVIOUS
  <2>3. T # {}
    BY <1>4, <2>2 DEF IsSum
  <2>4. PICK x \in T : x = AnyKey(T)
    BY <1>1, <2>2, <2>3
  <2>5. T \ {x} \in SUBSET S /\ T \ {x} # T /\ T \ {x} \subseteq T
    BY <2>2
  <2>6. h[T \ {x}] = g[T \ {x}]
    BY <2>1, <2>5
  <2>7. h[T] = h[T \ {x}] + AmountOf[x] /\ g[T] = g[T \ {x}] + AmountOf[x]
    BY <1>4, <2>2, <2>3, <2>4 DEF IsSum
  <2> QED BY <2>2, <2>6, <2>7
<1> QED BY <1>3, <1>5

\* One key more counts its bytes.
LEMMA AmountOfNone == AmountIn({}) = 0
<1>1. {} \in SUBSET Keys
  OBVIOUS
<1>2. PICK g : IsSum(g, {})
  BY <1>1, SumExists
<1> QED BY <1>1, <1>2, AmountIsSum DEF IsSum

\* One key more.
LEMMA AmountOfOneMore ==
  ASSUME NEW S \in SUBSET Keys, NEW x \in Keys \ S
  PROVE  /\ AmountIn(S \cup {x}) = AmountIn(S) + AmountOf[x]
         /\ AmountIn(S) \in Int /\ AmountOf[x] \in Nat \ {0}
<1> DEFINE R == S \cup {x}
<1>1. R \in SUBSET Keys /\ S \in SUBSET R
  OBVIOUS
<1>2. PICK g : IsSum(g, R)
  BY <1>1, SumExists
<1> DEFINE f == [T \in SUBSET S |-> g[T]]
<1>3. IsSum(f, S)
  <2>1. \A T \in SUBSET S : T \in SUBSET R /\ \A k \in T : T \ {k} \in SUBSET S
    BY <1>1
  <2>2. \A T \in SUBSET S : f[T] = g[T] /\ g[T] \in Int
    BY <1>2, <2>1 DEF IsSum
  <2> QED BY <1>2, <2>1, <2>2 DEF IsSum
<1>4. AmountIn(S) = f[S] /\ AmountIn(R) = g[R]
  BY <1>1, <1>2, <1>3, AmountIsSum
<1>5. f[S] = g[S] /\ g[S] \in Int
  BY <1>1, <1>2 DEF IsSum
<1>6. R \ {x} = S /\ x \in R /\ R \in SUBSET R
  OBVIOUS
<1> HIDE DEF f, R
<1>7. g[R] = g[S] + AmountOf[x]
  BY <1>2, <1>6 DEF IsSum
<1> QED BY <1>4, <1>5, <1>7, AmountsAssumption DEF R

-----------------------------------------------------------------------------
(***************************************************************************)
(* entries_: a sequence in which a key is once at most.                    *)
(***************************************************************************)
LEMMA ElementsOf ==
  ASSUME NEW q \in Seq(Keys)
  PROVE  ToSet(q) = {q[n] : n \in 1 .. Len(q)} /\ ToSet(q) \in SUBSET Keys
<1>1. DOMAIN q = 1 .. Len(q) /\ \A n \in 1 .. Len(q) : q[n] \in Keys
  BY LenProperties, ElementOfSeq
<1> QED BY <1>1 DEF ToSet

\* A new key is the youngest of the list.
LEMMA AppendKey ==
  ASSUME NEW q \in Seq(Keys), Unique(q), NEW k \in Keys, k \notin ToSet(q)
  PROVE  /\ Append(q, k) \in Seq(Keys) /\ Unique(Append(q, k))
         /\ ToSet(Append(q, k)) = ToSet(q) \cup {k} /\ Len(Append(q, k)) = Len(q) + 1
<1> DEFINE r == Append(q, k)
<1>1. /\ r \in Seq(Keys) /\ Len(r) = Len(q) + 1 /\ Len(q) \in Nat /\ r[Len(q) + 1] = k
      /\ \A n \in 1 .. Len(q) : r[n] = q[n]
  BY AppendProperties, LenProperties
<1>2. ToSet(q) = {q[n] : n \in 1 .. Len(q)} /\ ToSet(r) = {r[n] : n \in 1 .. Len(r)}
  BY <1>1, ElementsOf
<1> HIDE DEF r
<1>3. 1 .. Len(r) = (1 .. Len(q)) \cup {Len(q) + 1}
  BY <1>1
<1>4. ToSet(r) = ToSet(q) \cup {k}
  BY <1>1, <1>2, <1>3
<1>5. \A n \in 1 .. Len(q) : q[n] # k
  BY <1>2
<1>6. Unique(r)
  <2> SUFFICES ASSUME NEW m \in 1 .. Len(r), NEW n \in 1 .. Len(r), r[m] = r[n]
               PROVE  m = n
    BY DEF Unique
  <2>1. CASE m \in 1 .. Len(q) /\ n \in 1 .. Len(q)
    BY <1>1, <2>1 DEF Unique
  <2>2. CASE m = Len(q) + 1 \/ n = Len(q) + 1
    BY <1>1, <1>3, <1>5, <2>2
  <2> QED BY <1>3, <2>1, <2>2
<1> QED BY <1>1, <1>4, <1>6 DEF r

\* RemoveFirst() takes the key out.
LEMMA RemoveKey ==
  ASSUME NEW q \in Seq(Keys), Unique(q), NEW k \in ToSet(q)
  PROVE  /\ RemoveFirst(q, k) \in Seq(Keys) /\ Unique(RemoveFirst(q, k))
         /\ ToSet(RemoveFirst(q, k)) = ToSet(q) \ {k} /\ Len(RemoveFirst(q, k)) + 1 = Len(q)
<1>1. ToSet(q) = {q[n] : n \in 1 .. Len(q)} /\ Len(q) \in Nat /\ \A n \in 1 .. Len(q) : q[n] \in Keys
  BY ElementsOf, LenProperties, ElementOfSeq
<1>2. PICK i \in 1 .. Len(q) : q[i] = k
  BY <1>1
<1>3. {n \in 1 .. Len(q) : q[n] = k} = {i}
  BY <1>2 DEF Unique
<1>4. Min({i}) = i
  BY DEF Min
<1>5. SelectInSeq(q, LAMBDA v : v = k) = i
  BY <1>3, <1>4 DEF SelectInSeq
<1>6. RemoveFirst(q, k) = SubSeq(q, 1, i - 1) \o SubSeq(q, i + 1, Len(q))
  BY <1>2, <1>5 DEF RemoveFirst, RemoveAt
<1> DEFINE a == SubSeq(q, 1, i - 1)
           b == SubSeq(q, i + 1, Len(q))
           r == a \o b
<1>7. a \in Seq(Keys) /\ Len(a) = i - 1 /\ \A n \in 1 .. i - 1 : a[n] = q[n]
  <2>1. \A n \in 1 .. i - 1 : q[n] \in Keys
    BY <1>1
  <2> QED BY <1>1, <2>1, SubSeqProperties
<1>8. /\ b \in Seq(Keys) /\ Len(b) = Len(q) - i
      /\ \A n \in 1 .. Len(q) - i : b[n] = q[i + n]
  <2>1. \A n \in i + 1 .. Len(q) : q[n] \in Keys
    BY <1>1
  <2>2. b \in Seq(Keys) /\ Len(b) = IF i + 1 <= Len(q) THEN Len(q) - (i + 1) + 1 ELSE 0
    BY <1>1, <2>1, SubSeqProperties
  <2>3. \A n \in 1 .. Len(q) - (i + 1) + 1 : b[n] = q[(i + 1) + n - 1]
    BY <1>1, <2>1, SubSeqProperties
  <2> HIDE DEF b
  <2> QED BY <1>1, <2>2, <2>3
<1> HIDE DEF a, b
<1>9. /\ r \in Seq(Keys) /\ Len(r) = Len(q) - 1
      /\ \A n \in 1 .. Len(q) - 1 : r[n] = IF n < i THEN q[n] ELSE q[n + 1]
  <2>1. /\ r \in Seq(Keys) /\ Len(r) = Len(a) + Len(b)
        /\ \A n \in 1 .. Len(a) + Len(b) : r[n] = IF n <= Len(a) THEN a[n] ELSE b[n - Len(a)]
    BY <1>7, <1>8, ConcatProperties
  <2> HIDE DEF r
  <2>2. Len(a) + Len(b) = Len(q) - 1
    BY <1>1, <1>7, <1>8
  <2> SUFFICES ASSUME NEW n \in 1 .. Len(q) - 1
               PROVE  r[n] = IF n < i THEN q[n] ELSE q[n + 1]
    BY <2>1, <2>2
  <2>3. CASE n < i
    BY <1>1, <1>7, <2>1, <2>2, <2>3
  <2>4. CASE ~(n < i)
    <3>1. n - (i - 1) \in 1 .. Len(q) - i
      BY <1>1, <2>4
    <3>2. i + (n - (i - 1)) = n + 1 /\ ~(n <= i - 1)
      BY <1>1, <2>4
    <3> QED BY <1>7, <1>8, <2>1, <2>2, <2>4, <3>1, <3>2
  <2> QED BY <2>3, <2>4
<1>10. ToSet(r) = {r[n] : n \in 1 .. Len(q) - 1}
  BY <1>9, ElementsOf
<1> HIDE DEF r
<1> DEFINE Old(n) == IF n < i THEN n ELSE n + 1
<1>11. \A n \in 1 .. Len(q) - 1 : r[n] = q[Old(n)] /\ Old(n) \in 1 .. Len(q) /\ Old(n) # i
  BY <1>1, <1>9
<1>12. \A m, n \in 1 .. Len(q) - 1 : Old(m) = Old(n) => m = n
  BY <1>1
<1>13. \A m \in 1 .. Len(q) : m # i => \E n \in 1 .. Len(q) - 1 : m = Old(n)
  <2> SUFFICES ASSUME NEW m \in 1 .. Len(q), m # i
               PROVE  \E n \in 1 .. Len(q) - 1 : m = Old(n)
    OBVIOUS
  <2>1. CASE m < i
    <3>1. m \in 1 .. Len(q) - 1 /\ Old(m) = m
      BY <1>1, <2>1
    <3> QED BY <3>1
  <2>2. CASE i < m
    <3>1. m - 1 \in 1 .. Len(q) - 1 /\ Old(m - 1) = m
      BY <1>1, <2>2
    <3> QED BY <3>1
  <2> QED BY <1>1, <2>1, <2>2
<1> HIDE DEF Old
<1>14. Unique(r)
  <2> SUFFICES ASSUME NEW m \in 1 .. Len(q) - 1, NEW n \in 1 .. Len(q) - 1, r[m] = r[n]
               PROVE  m = n
    BY <1>9 DEF Unique
  <2> QED BY <1>11, <1>12 DEF Unique
<1>15. ToSet(r) = ToSet(q) \ {k}
  <2>1. \A n \in 1 .. Len(q) - 1 : r[n] \in ToSet(q) /\ r[n] # k
    BY <1>1, <1>2, <1>11 DEF Unique
  <2>2. \A x \in ToSet(q) \ {k} : x \in ToSet(r)
    BY <1>1, <1>2, <1>10, <1>11, <1>13
  <2> QED BY <1>10, <2>1, <2>2
<1>16. Len(r) + 1 = Len(q)
  BY <1>1, <1>9
<1> QED BY <1>6, <1>9, <1>14, <1>15, <1>16 DEF a, b, r

\* A key that is not listed is removed from no list.
LEMMA RemoveNoKey ==
  ASSUME NEW q \in Seq(Keys), NEW k, k \notin ToSet(q)
  PROVE  RemoveFirst(q, k) = q
BY ElementsOf DEF RemoveFirst

\* The oldest key is taken off.
LEMMA OldestKey ==
  ASSUME NEW q \in Seq(Keys), Unique(q), q # <<>>
  PROVE  /\ Tail(q) \in Seq(Keys) /\ Unique(Tail(q)) /\ Head(q) \in Keys
         /\ Head(q) \in ToSet(q) /\ ToSet(Tail(q)) = ToSet(q) \ {Head(q)}
<1> DEFINE r == Tail(q)
           h == Head(q)
<1>1. /\ r \in Seq(Keys) /\ Len(r) = Len(q) - 1 /\ Len(q) \in Nat /\ Len(q) >= 1 /\ h = q[1]
      /\ \A n \in 1 .. Len(q) - 1 : r[n] = q[n + 1]
  <2>1. Len(q) \in Nat /\ Len(q) >= 1
    BY LenProperties, EmptySeq
  <2>2. r \in Seq(Keys) /\ Len(r) = Len(q) - 1 /\ h = q[1]
    BY HeadTailProperties
  <2>3. \A n \in 1 .. Len(r) : r[n] = q[n + 1]
    BY HeadTailProperties
  <2> QED BY <2>1, <2>2, <2>3
<1> HIDE DEF r, h
<1>2. /\ ToSet(q) = {q[n] : n \in 1 .. Len(q)} /\ ToSet(r) = {r[n] : n \in 1 .. Len(q) - 1}
      /\ ToSet(q) \in SUBSET Keys
  BY <1>1, ElementsOf
<1>3. h \in ToSet(q) /\ h \in Keys
  BY <1>1, <1>2
<1>4. \A n \in 1 .. Len(q) - 1 : n + 1 \in 1 .. Len(q) /\ n + 1 # 1
  BY <1>1
<1>5. Unique(r)
  <2> SUFFICES ASSUME NEW m \in 1 .. Len(q) - 1, NEW n \in 1 .. Len(q) - 1, r[m] = r[n]
               PROVE  m = n
    BY <1>1 DEF Unique
  <2>1. m + 1 = n + 1
    BY <1>1, <1>4 DEF Unique
  <2> QED BY <2>1
<1>6. ToSet(r) = ToSet(q) \ {h}
  <2>1. 1 \in 1 .. Len(q)
    BY <1>1
  <2>2. \A n \in 1 .. Len(q) - 1 : r[n] \in ToSet(q) /\ r[n] # h
    BY <1>1, <1>2, <1>4, <2>1 DEF Unique
  <2>3. \A n \in 1 .. Len(q) : n # 1 => n - 1 \in 1 .. Len(q) - 1 /\ r[n - 1] = q[n]
    BY <1>1
  <2>4. ASSUME NEW x \in ToSet(q), x # h  PROVE x \in ToSet(r)
    <3>1. PICK n \in 1 .. Len(q) : q[n] = x
      BY <1>2
    <3>2. PICK m \in 1 .. Len(q) - 1 : m = n - 1 /\ r[m] = x
      BY <1>1, <2>3, <2>4, <3>1
    <3> QED BY <1>2, <3>2
  <2> QED BY <1>2, <2>2, <2>4
<1> QED BY <1>1, <1>3, <1>5, <1>6 DEF r, h

\* LoadCacheEntries() lists every key it has found once.
LEMMA ListedKeys ==
  ASSUME NEW S \in SUBSET Keys, NEW q \in SetToSeqs(S)
  PROVE  q \in Seq(Keys) /\ Unique(q) /\ ToSet(q) = S
<1>1. IsFiniteSet(S)
  BY AmountsAssumption, FS_Subset
<1>2. PICK n \in Nat : n = Cardinality(S)
  BY <1>1, FS_CardinalityType
<1>3. q \in [1 .. n -> S] /\ \A i, j \in 1 .. n : i # j => q[i] # q[j]
  BY <1>2 DEF SetToSeqs
<1>4. q \in Seq(Keys) /\ Len(q) = n
  <2>1. q \in [1 .. n -> Keys]
    BY <1>3
  <2> QED BY <2>1, SeqDef, LenProperties
<1>5. q \in Injection(1 .. n, S)
  BY <1>3 DEF Injection, IsInjective
<1>6. Cardinality(1 .. n) = n
  BY <1>2, FS_Interval
<1>7. q \in Surjection(1 .. n, S)
  BY <1>1, <1>2, <1>5, <1>6, FS_Injection
<1>8. ToSet(q) = S
  <2>1. \A x \in S : \E i \in 1 .. n : q[i] = x
    BY <1>7 DEF Surjection
  <2>2. ToSet(q) = {q[i] : i \in 1 .. n}
    BY <1>4, ElementsOf
  <2>3. \A i \in 1 .. n : q[i] \in S
    BY <1>3
  <2> QED BY <2>1, <2>2, <2>3
<1> QED BY <1>3, <1>4, <1>8 DEF Unique

\* The empty list.
LEMMA NoKeys == <<>> \in Seq(Keys) /\ Unique(<<>>) /\ ToSet(<<>>) = {}
<1>1. <<>> \in Seq(Keys) /\ Len(<<>>) = 0
  BY EmptySeq
<1>2. DOMAIN <<>> = {}
  BY <1>1
<1> QED BY <1>1, <1>2 DEF Unique, ToSet

-----------------------------------------------------------------------------
(***************************************************************************)
(* Steps that move a task and leave the disk and the list of the keys.     *)
(***************************************************************************)
LEMMA Distinction == "old" \notin Savers /\ NoFile \notin Files /\ Savers \subseteq Files
BY SaversAssumption DEF NoFile, Files

\* A task goes on, and the others stay where they are.
LEMMA GoesTo ==
  ASSUME saver \in [Savers -> SaverType], NEW s \in Savers, NEW a \in SaverPlaces, Goes(s, a)
  PROVE  /\ saver' \in [Savers -> SaverType]
         /\ saver'[s].at = a /\ saver'[s].key = saver[s].key /\ saver'[s].open = saver[s].open
         /\ \A t \in Savers : t # s => saver'[t] = saver[t]
BY DEF Goes, SaverType

\* A task goes where it has nothing of its own.
LEMMA DiskAside ==
  ASSUME OutTypes, Names, Alone, Matches,
         NEW s \in Savers, NEW a \in SaverPlaces, Goes(s, a),
         a \notin {"write", "rename", "add", "wake"},
         a \in {"new", "read", "compile"} => Early(s),
         UNCHANGED disk_vars, ToSet(entries') = ToSet(entries), amount' = amount
  PROVE  Names' /\ Alone' /\ Matches'
<1>1. file' = file /\ tmp' = tmp /\ whole' = whole
  BY DEF disk_vars
<1>2. /\ saver'[s].at = a /\ saver'[s].key = saver[s].key /\ saver'[s].open = saver[s].open
      /\ \A t \in Savers : t # s => saver'[t] = saver[t]
  BY GoesTo DEF OutTypes
<1>3. \A t \in Savers : saver'[t].key = saver[t].key /\ saver'[t].open = saver[t].open
  BY <1>2
<1>4. \A t \in Savers : saver'[t].at \in {"new", "read", "compile"} => Early(t)
  BY <1>2 DEF Early
<1>5. \A t \in Savers : saver'[t].at \in {"write", "rename", "add", "wake"} => saver'[t] = saver[t]
  BY <1>2
<1>6. Names'
  BY <1>1, <1>3, <1>4 DEF Names, Early
<1>7. Alone'
  <2>1. ASSUME NEW t \in Savers  PROVE AloneOf(t)'
    <3>1. AloneOf(t)
      BY DEF Alone
    <3> QED BY <1>1, <1>5, <3>1 DEF AloneOf, KeyOf
  <2>2. ASSUME NEW t \in Savers, NEW u \in Savers, Saving(t)', Saving(u)', KeyOf(t)' = KeyOf(u)'
        PROVE  t = u
    <3>1. saver'[t] = saver[t] /\ saver'[u] = saver[u]
      BY <1>5, <2>2 DEF Saving
    <3> QED BY <2>2, <3>1 DEF Alone, Saving, KeyOf
  <2> QED BY <2>1, <2>2 DEF Alone
<1>8. Matches'
  BY <1>1 DEF Matches
<1> QED BY <1>6, <1>7, <1>8

\* Nor does the thread sleep too long when the number of entries stays.
LEMMA AwakeAside ==
  ASSUME OutTypes, GcNotAsleep, NEW s \in Savers, NEW a \in SaverPlaces, Goes(s, a),
         saver[s].at # "wake", gc' = gc, should_done' = should_done,
         Len(entries') = Len(entries), amount' = amount
  PROVE  GcNotAsleep'
<1>1. \A t \in Savers : t # s => saver'[t] = saver[t]
  BY GoesTo DEF OutTypes
<1>2. \A t \in Savers : saver[t].at = "wake" => saver'[t].at = "wake"
  BY <1>1
<1> QED BY <1>2 DEF GcNotAsleep, ShouldInvoke, Is

\* Types survive a step of one task that leaves the disk and the table alone.
LEMMA TypesAside ==
  ASSUME OutTypes, NEW s \in Savers, NEW a \in SaverPlaces, Goes(s, a),
         a \in {"write", "rename", "add", "wake"} => Saving(s),
         UNCHANGED <<disk_vars, entries, amount, ready, should_done, cache_quit, doubled, killed>>,
         gc' \in {"check", "waiting", "collect", "done", "undefined"}
  PROVE  OutTypes'
<1>1. /\ file' = file /\ tmp' = tmp /\ whole' = whole /\ entries' = entries /\ amount' = amount
      /\ ready' = ready /\ should_done' = should_done /\ cache_quit' = cache_quit
      /\ doubled' = doubled /\ killed' = killed
  BY DEF disk_vars
<1>2. /\ saver' \in [Savers -> SaverType] /\ saver'[s].at = a /\ saver'[s].open = saver[s].open
      /\ \A t \in Savers : t # s => saver'[t] = saver[t]
  BY GoesTo DEF OutTypes
<1>3. \A t \in Savers : Saving(t)' => saver'[t].open \in Files
  BY <1>2 DEF Saving, OutTypes
<1> QED BY <1>1, <1>2, <1>3 DEF OutTypes

\* Once loaded, loaded.
LEMMA ReadyStays ==
  ASSUME ready, ready' = ready
  PROVE  NotLoaded'
BY DEF NotLoaded

\* The lookups, the ends of a save, and the call that wakes the thread.
LEMMA MovesKeep ==
  ASSUME OutInv, NEW s \in Savers,
         LookupEntry(s) \/ LookupRead(s) \/ Uncached(s) \/ SaveNothing(s) \/ WakeGCThread(s)
  PROVE  OutInv'
<1>1. OutTypes /\ NotLoaded /\ GcNotAsleep
  BY DEF OutInv
<1>2. PICK a \in {"read", "compile", "touch", "uncached", "unsaved", "saved"} :
        /\ Goes(s, a) /\ (a \in {"read", "compile"} => Early(s))
        /\ \/ saver[s].at # "wake" /\ gc' = gc
           \/ gc' = Awake
        /\ ready /\ UNCHANGED <<disk_vars, entries, amount, ready, should_done, cache_quit, doubled, killed>>
  <2>1. CASE LookupEntry(s)
    BY <2>1 DEF LookupEntry, Usable, Early, Is, gc_vars
  <2>2. CASE LookupRead(s)
    <3>1. PICK good \in BOOLEAN : Goes(s, IF good THEN "touch" ELSE "compile")
      BY <2>2 DEF LookupRead
    <3> QED BY <2>2, <3>1 DEF LookupRead, Usable, Early, Is, gc_vars
  <2>3. CASE Uncached(s)
    <3>1. ready
      BY <1>1, <2>3 DEF Uncached, NotLoaded, OutTypes
    <3> QED BY <2>3, <3>1 DEF Uncached, gc_vars
  <2>4. CASE SaveNothing(s)
    BY <2>4 DEF SaveNothing, Usable, Is, gc_vars
  <2>5. CASE WakeGCThread(s)
    BY <2>5 DEF WakeGCThread, Usable, Is
  <2> QED BY <2>1, <2>2, <2>3, <2>4, <2>5
<1>3. a \in SaverPlaces
  BY DEF SaverPlaces
<1>4. /\ entries' = entries /\ amount' = amount /\ ready' = ready /\ should_done' = should_done
      /\ doubled' = doubled
  BY <1>2
<1>5. gc' = gc \/ gc' = Awake
  BY <1>2
<1>6. OutTypes'
  <2>1. gc' \in {"check", "waiting", "collect", "done", "undefined"}
    BY <1>1, <1>5 DEF OutTypes, Awake
  <2> QED BY <1>1, <1>2, <1>3, <2>1, TypesAside
<1>7. NotLoaded'
  BY <1>2, <1>4, ReadyStays
<1>8. GcNotAsleep'
  <2>1. CASE gc' = Awake /\ gc' # gc
    BY <2>1 DEF Awake, GcNotAsleep
  <2>2. CASE gc' = Awake /\ gc' = gc
    BY <2>2 DEF Awake, GcNotAsleep
  <2>3. CASE saver[s].at # "wake" /\ gc' = gc
    BY <1>1, <1>2, <1>3, <1>4, <2>3, AwakeAside
  <2> QED BY <1>2, <2>1, <2>2, <2>3
<1>9. ASSUME doubled' = {}  PROVE Names' /\ Alone' /\ Matches'
  <2>1. Names /\ Alone /\ Matches
    BY <1>4, <1>9 DEF OutInv
  <2> QED BY <1>1, <1>2, <1>3, <1>4, <2>1, DiskAside
<1> QED BY <1>6, <1>7, <1>8, <1>9 DEF OutInv

\* UpdateCacheEntry() moves a key to the end.
LEMMA UpdateKeeps ==
  ASSUME OutInv, NEW s \in Savers, UpdateCacheEntry(s)
  PROVE  OutInv'
<1>1. OutTypes /\ NotLoaded /\ GcNotAsleep
  BY DEF OutInv
<1>2. /\ Goes(s, "hit") /\ saver[s].at = "touch" /\ ready
      /\ UNCHANGED <<disk_vars, amount, ready, gc, should_done, cache_quit, doubled, killed>>
      /\ entries' = IF KeyOf(s) \in ToSet(entries)
                    THEN Append(RemoveFirst(entries, KeyOf(s)), KeyOf(s)) ELSE entries
  BY DEF UpdateCacheEntry, Usable, Is, gc_vars
<1>3. /\ file' = file /\ tmp' = tmp /\ whole' = whole /\ amount' = amount
      /\ ready' = ready /\ should_done' = should_done /\ cache_quit' = cache_quit
      /\ doubled' = doubled /\ killed' = killed /\ gc' = gc
  BY <1>2 DEF disk_vars
<1>4. /\ entries' \in Seq(Keys) /\ Unique(entries') /\ ToSet(entries') = ToSet(entries)
      /\ Len(entries') = Len(entries)
  <2>1. entries \in Seq(Keys) /\ Unique(entries) /\ Len(entries) \in Nat
    BY <1>1, LenProperties DEF OutTypes
  <2>2. CASE KeyOf(s) \notin ToSet(entries)
    BY <1>2, <2>1, <2>2
  <2>3. CASE KeyOf(s) \in ToSet(entries)
    <3>1. PICK k \in ToSet(entries) : k = KeyOf(s)
      BY <2>3
    <3>2. PICK r \in Seq(Keys) : /\ r = RemoveFirst(entries, k) /\ Unique(r) /\ ToSet(r) = ToSet(entries) \ {k}
                                 /\ Len(r) + 1 = Len(entries)
      BY <2>1, RemoveKey
    <3>3. entries' = Append(r, k) /\ k \in Keys
      BY <1>2, <2>1, <2>3, <3>1, <3>2, ElementsOf
    <3>4. k \notin ToSet(r)
      BY <3>2
    <3>5. /\ Append(r, k) \in Seq(Keys) /\ Unique(Append(r, k))
          /\ ToSet(Append(r, k)) = ToSet(r) \cup {k} /\ Len(Append(r, k)) = Len(r) + 1
      BY <3>2, <3>3, <3>4, AppendKey
    <3> QED BY <3>2, <3>3, <3>5
  <2> QED BY <2>2, <2>3
<1>5. "hit" \in SaverPlaces
  BY DEF SaverPlaces
<1>6. OutTypes'
  <2>1. /\ saver' \in [Savers -> SaverType] /\ saver'[s].at = "hit"
        /\ \A t \in Savers : t # s => saver'[t] = saver[t]
    BY <1>1, <1>2, <1>5, GoesTo DEF OutTypes
  <2>2. \A t \in Savers : Saving(t)' => saver'[t].open \in Files
    BY <1>1, <2>1 DEF Saving, OutTypes
  <2> QED BY <1>1, <1>3, <1>4, <2>1, <2>2 DEF OutTypes
<1>7. NotLoaded'
  BY <1>2, <1>3, ReadyStays
<1>8. GcNotAsleep'
  BY <1>1, <1>2, <1>3, <1>4, <1>5, AwakeAside
<1>9. ASSUME doubled' = {}  PROVE Names' /\ Alone' /\ Matches'
  <2>1. Names /\ Alone /\ Matches
    BY <1>3, <1>9 DEF OutInv
  <2> QED BY <1>1, <1>2, <1>3, <1>4, <1>5, <2>1, DiskAside
<1> QED BY <1>6, <1>7, <1>8, <1>9 DEF OutInv

-----------------------------------------------------------------------------
(***************************************************************************)
(* SaveOutput().                                                           *)
(***************************************************************************)
\* Opening a file whose name nobody else has, and which is not an entry yet.
LEMMA OpenKeeps ==
  ASSUME OutInv, NEW s \in Savers, SaveOpen(s)
  PROVE  OutInv'
<1>1. OutTypes /\ NotLoaded /\ GcNotAsleep
  BY DEF OutInv
<1>2. saver \in [Savers -> SaverType] /\ tmp \in [Keys -> Files \cup {NoFile}]
  BY <1>1 DEF OutTypes
<1>3. PICK k \in Keys : k = saver[s].key
  BY <1>2 DEF SaverType
<1>4. PICK f \in Files : f = IF tmp[k] = NoFile THEN s ELSE tmp[k]
  BY <1>2, Distinction
<1>5. /\ saver[s].at = "compile" /\ ready
      /\ saver' = [saver EXCEPT ![s] = Saver("write", k, f)]
      /\ tmp' = [tmp EXCEPT ![k] = f] /\ whole' = whole \ {f}
      /\ doubled' = IF k \in ToSet(entries) \/ \E t \in Savers \ {s} : KeyOf(t) = k /\ Saving(t)
                    THEN doubled \cup {k} ELSE doubled
      /\ UNCHANGED <<file, entries, amount, ready, gc, should_done, cache_quit, killed>>
  BY <1>3, <1>4 DEF SaveOpen, Usable, Is, KeyOf, gc_vars
<1>6. /\ file' = file /\ entries' = entries /\ amount' = amount /\ ready' = ready /\ gc' = gc
      /\ should_done' = should_done /\ cache_quit' = cache_quit /\ killed' = killed
  BY <1>5
<1>7. /\ saver' \in [Savers -> SaverType]
      /\ saver'[s].at = "write" /\ saver'[s].key = k /\ saver'[s].open = f
      /\ \A t \in Savers : t # s => saver'[t] = saver[t]
  BY <1>2, <1>3, <1>5 DEF SaverType, Saver, SaverPlaces
<1>8. tmp' \in [Keys -> Files \cup {NoFile}] /\ tmp'[k] = f /\ \A l \in Keys : l # k => tmp'[l] = tmp[l]
  BY <1>2, <1>5
<1>9. OutTypes'
  <2>1. \A t \in Savers : Saving(t)' => saver'[t].open \in Files
    BY <1>1, <1>7 DEF Saving, OutTypes
  <2>2. doubled' \subseteq Keys /\ whole' \subseteq Files
    BY <1>1, <1>5 DEF OutTypes
  <2> QED BY <1>1, <1>6, <1>7, <1>8, <2>1, <2>2 DEF OutTypes
<1>10. NotLoaded'
  BY <1>5, <1>6, ReadyStays
<1>11. GcNotAsleep'
  <2>1. \A t \in Savers : saver[t].at = "wake" => saver'[t].at = "wake"
    BY <1>5, <1>7
  <2> QED BY <1>1, <1>6, <2>1 DEF GcNotAsleep, ShouldInvoke, Is
<1>12. ASSUME doubled' = {}  PROVE Names' /\ Alone' /\ Matches'
  <2>1. /\ doubled = {} /\ k \notin ToSet(entries)
        /\ \A t \in Savers : t # s /\ Saving(t) => saver[t].key # k
    BY <1>5, <1>12 DEF KeyOf
  <2>2. Names /\ Alone /\ Matches
    BY <2>1 DEF OutInv
  <2>3. /\ \A l \in Keys : file[l] # s /\ tmp[l] # s
        /\ \A t \in Savers : saver[t].open # s
    BY <1>5, <2>2 DEF Names, Early
  <2>4. \A l \in Keys : file[l] # f /\ (l # k => tmp[l] # f)
    BY <1>4, <2>2, <2>3 DEF Names
  <2>5. \A t \in Savers : t # s /\ Early(t) =>
          /\ f # t /\ \A l \in Keys : file[l] # t /\ tmp[l] # t
          /\ \A u \in Savers : saver[u].open # t
    BY <1>4, <2>2 DEF Names
  <2>6. Names'
    <3>1. \A l, m \in Keys : tmp'[l] # NoFile /\ tmp'[l] = tmp'[m] => l = m
      BY <1>8, <2>2, <2>4 DEF Names
    <3>2. \A l, m \in Keys : tmp'[l] # NoFile => file'[m] # tmp'[l]
      BY <1>6, <1>8, <2>2, <2>4 DEF Names
    <3>3. ASSUME NEW t \in Savers, Early(t)'
          PROVE  /\ \A l \in Keys : file'[l] # t /\ tmp'[l] # t
                 /\ \A u \in Savers : saver'[u].open # t
      <4>1. t # s /\ Early(t)
        BY <1>7, <3>3 DEF Early
      <4> QED BY <1>6, <1>7, <1>8, <2>5, <4>1
    <3> QED BY <3>1, <3>2, <3>3 DEF Names
  <2>7. AloneOf(s)'
    BY <1>6, <1>7, <1>8, <2>1 DEF AloneOf, KeyOf
  <2>8. ASSUME NEW t \in Savers, t # s  PROVE AloneOf(t)'
    <3>1. AloneOf(t) /\ saver'[t] = saver[t] /\ saver[t].key \in Keys
      BY <1>2, <1>7, <2>2, <2>8 DEF Alone, SaverType
    <3>2. saver[t].at \in {"write", "rename"} => saver[t].key # k
      BY <2>1, <2>8 DEF Saving
    <3>3. saver[t].at \in {"write", "rename"} => tmp'[saver[t].key] = saver[t].open
      BY <1>8, <3>1, <3>2 DEF AloneOf, KeyOf
    <3>4. saver[t].at = "rename" => saver[t].open \in whole'
      BY <1>5, <2>4, <3>1, <3>2 DEF AloneOf, KeyOf
    <3>5. saver[t].at \in {"add", "wake"} => saver[t].open # f
      BY <1>4, <2>3, <3>1 DEF AloneOf
    <3>6. saver[t].at \in {"add", "wake"} => \A l \in Keys : tmp'[l] # saver[t].open
      BY <1>8, <3>1, <3>5 DEF AloneOf
    <3> QED BY <1>6, <3>1, <3>3, <3>4, <3>6 DEF AloneOf, KeyOf
  <2>9. ASSUME NEW t \in Savers, NEW u \in Savers, Saving(t)', Saving(u)', KeyOf(t)' = KeyOf(u)'
        PROVE  t = u
    <3>1. \A v \in Savers : v # s /\ Saving(v)' => Saving(v) /\ saver'[v].key = saver[v].key /\ saver[v].key # k
      BY <1>7, <2>1 DEF Saving
    <3>2. CASE t = s \/ u = s
      BY <1>7, <2>9, <3>1, <3>2 DEF KeyOf
    <3>3. CASE t # s /\ u # s
      BY <2>2, <2>9, <3>1, <3>3 DEF Alone, KeyOf
    <3> QED BY <3>2, <3>3
  <2>10. Alone'
    BY <2>7, <2>8, <2>9 DEF Alone
  <2>11. Matches'
    BY <1>5, <1>6, <2>2, <2>4 DEF Matches
  <2> QED BY <2>6, <2>10, <2>11
<1> QED BY <1>9, <1>10, <1>11, <1>12 DEF OutInv

\* Of two tasks that save, one has the file of the other open only if they have
\* its key in common.
LEMMA NotShared ==
  ASSUME OutTypes, Names, Alone, NEW s \in Savers, saver[s].at = "write"
  PROVE  ~\E t \in Savers \ {s} : Saving(t) /\ saver[t].open = saver[s].open
<1> SUFFICES ASSUME NEW t \in Savers, t # s, Saving(t), saver[t].open = saver[s].open
             PROVE  FALSE
  OBVIOUS
<1>1. AloneOf(s) /\ AloneOf(t) /\ Saving(s)
  BY DEF Alone, Saving
<1>2. saver[s].key \in Keys /\ saver[t].key \in Keys /\ saver[s].open # NoFile
  BY <1>1, Distinction DEF OutTypes, SaverType
<1>3. tmp[saver[s].key] = saver[s].open
  BY <1>1 DEF AloneOf, KeyOf
<1>4. saver[t].at \in {"write", "rename"}
  BY <1>1, <1>2, <1>3 DEF AloneOf, Saving
<1>5. tmp[saver[t].key] = saver[t].open
  BY <1>1, <1>4 DEF AloneOf, KeyOf
<1>6. saver[s].key = saver[t].key
  BY <1>2, <1>3, <1>5 DEF Names
<1> QED BY <1>1, <1>6 DEF Alone, KeyOf

\* A task writes the temporary file.
LEMMA WriteKeeps ==
  ASSUME OutInv, NEW s \in Savers, SaveWrite(s)
  PROVE  OutInv'
<1>1. OutTypes /\ NotLoaded /\ GcNotAsleep
  BY DEF OutInv
<1>2. PICK f \in Files : f = saver[s].open
  BY <1>1 DEF OutTypes, SaveWrite, Is, Saving
<1>3. /\ saver[s].at = "write" /\ ready
      /\ UNCHANGED <<file, tmp, entries, amount, ready, gc, should_done, cache_quit, doubled, killed>>
  BY DEF SaveWrite, Is, Usable, gc_vars
<1>4. /\ file' = file /\ tmp' = tmp /\ entries' = entries /\ amount' = amount /\ ready' = ready
      /\ gc' = gc /\ should_done' = should_done /\ cache_quit' = cache_quit
      /\ doubled' = doubled /\ killed' = killed
  BY <1>3
<1>5. PICK a \in {"rename", "unsaved"} :
        /\ Goes(s, a)
        /\ \/ a = "unsaved" /\ whole' = whole
           \/ a = "rename" /\ whole' = whole \cup {f}
           \/ /\ a = "rename" /\ whole' = whole \ {f}
              /\ \E t \in Savers \ {s} : Saving(t) /\ saver[t].open = f
  BY <1>2 DEF SaveWrite
<1>6. a \in SaverPlaces
  BY DEF SaverPlaces
<1>7. /\ saver' \in [Savers -> SaverType]
      /\ saver'[s].at = a /\ saver'[s].key = saver[s].key /\ saver'[s].open = saver[s].open
      /\ \A t \in Savers : t # s => saver'[t] = saver[t]
  BY <1>1, <1>5, <1>6, GoesTo DEF OutTypes
<1>8. OutTypes'
  <2>1. \A t \in Savers : Saving(t)' => saver'[t].open \in Files
    BY <1>1, <1>2, <1>7 DEF Saving, OutTypes
  <2>2. whole' \subseteq Files
    BY <1>1, <1>5 DEF OutTypes
  <2> QED BY <1>1, <1>4, <1>7, <2>1, <2>2 DEF OutTypes
<1>9. NotLoaded'
  BY <1>3, <1>4, ReadyStays
<1>10. GcNotAsleep'
  BY <1>1, <1>3, <1>4, <1>5, <1>6, AwakeAside
<1>11. ASSUME doubled' = {}  PROVE Names' /\ Alone' /\ Matches'
  <2>1. Names /\ Alone /\ Matches
    BY <1>4, <1>11 DEF OutInv
  <2>2. CASE a = "unsaved"
    <3>1. UNCHANGED disk_vars
      BY <1>4, <1>5, <2>2 DEF disk_vars
    <3> QED BY <1>1, <1>4, <1>5, <1>6, <2>1, <2>2, <3>1, DiskAside
  <2>3. CASE a = "rename"
    <3>1. whole' = whole \cup {f}
      BY <1>1, <1>2, <1>3, <1>5, <2>1, <2>3, NotShared
    <3>2. \A t \in Savers : /\ saver'[t].key = saver[t].key /\ saver'[t].open = saver[t].open
                            /\ Early(t)' => Early(t)
                            /\ Saving(t)' => Saving(t)
      BY <1>3, <1>7, <2>3 DEF Early, Saving
    <3>3. Names'
      BY <1>4, <2>1, <3>2 DEF Names
    <3>4. ASSUME NEW t \in Savers  PROVE AloneOf(t)'
      <4>1. AloneOf(t)
        BY <2>1 DEF Alone
      <4>2. CASE t = s
        BY <1>2, <1>3, <1>4, <1>7, <2>3, <3>1, <4>1, <4>2 DEF AloneOf, KeyOf
      <4>3. CASE t # s
        BY <1>4, <1>7, <3>1, <4>1, <4>3 DEF AloneOf, KeyOf
      <4> QED BY <4>2, <4>3
    <3>5. \A t, u \in Savers : Saving(t)' /\ Saving(u)' /\ KeyOf(t)' = KeyOf(u)' => t = u
      BY <2>1, <3>2 DEF Alone, KeyOf
    <3>6. Alone'
      BY <3>4, <3>5 DEF Alone
    <3>7. Matches'
      BY <1>4, <2>1, <3>1 DEF Matches
    <3> QED BY <3>3, <3>6, <3>7
  <2> QED BY <2>2, <2>3
<1> QED BY <1>8, <1>9, <1>10, <1>11 DEF OutInv

\* It renames it, to the name of its key.
LEMMA RenameKeeps ==
  ASSUME OutInv, NEW s \in Savers, SaveRename(s)
  PROVE  OutInv'
<1>1. OutTypes /\ NotLoaded /\ GcNotAsleep
  BY DEF OutInv
<1>2. PICK k \in Keys : k = saver[s].key
  BY <1>1 DEF OutTypes, SaverType
<1>3. /\ saver[s].at = "rename" /\ ready
      /\ file' = [file EXCEPT ![k] = tmp[k]] /\ tmp' = [tmp EXCEPT ![k] = NoFile]
      /\ UNCHANGED <<whole, entries, amount, ready, gc, should_done, cache_quit, doubled, killed>>
  BY <1>2 DEF SaveRename, Is, Usable, KeyOf, gc_vars
<1>4. /\ whole' = whole /\ entries' = entries /\ amount' = amount /\ ready' = ready
      /\ gc' = gc /\ should_done' = should_done /\ cache_quit' = cache_quit
      /\ doubled' = doubled /\ killed' = killed
  BY <1>3
<1>5. PICK a \in SaverPlaces : a = (IF tmp[k] = NoFile THEN "unsaved" ELSE "add") /\ Goes(s, a)
  BY <1>2 DEF SaveRename, KeyOf, SaverPlaces
<1>6. /\ saver' \in [Savers -> SaverType]
      /\ saver'[s].at = a /\ saver'[s].key = saver[s].key /\ saver'[s].open = saver[s].open
      /\ \A t \in Savers : t # s => saver'[t] = saver[t]
  BY <1>1, <1>5, GoesTo DEF OutTypes
<1>7. /\ file' \in [Keys -> Files \cup {NoFile}] /\ tmp' \in [Keys -> Files \cup {NoFile}]
      /\ file'[k] = tmp[k] /\ tmp'[k] = NoFile
      /\ \A l \in Keys : l # k => file'[l] = file[l] /\ tmp'[l] = tmp[l]
  BY <1>1, <1>3 DEF OutTypes
<1>8. OutTypes'
  <2>1. \A t \in Savers : Saving(t)' => saver'[t].open \in Files
    BY <1>1, <1>3, <1>6 DEF Saving, OutTypes
  <2> QED BY <1>1, <1>4, <1>6, <1>7, <2>1 DEF OutTypes
<1>9. NotLoaded'
  BY <1>3, <1>4, ReadyStays
<1>10. GcNotAsleep'
  BY <1>1, <1>3, <1>4, <1>5, AwakeAside
<1>11. ASSUME doubled' = {}  PROVE Names' /\ Alone' /\ Matches'
  <2>1. Names /\ Alone /\ Matches
    BY <1>4, <1>11 DEF OutInv
  <2>2. AloneOf(s) /\ Saving(s)
    BY <1>3, <2>1 DEF Alone, Saving
  <2>3. PICK f \in Files : f = saver[s].open /\ f = tmp[k] /\ f \in whole /\ k \notin ToSet(entries)
    BY <1>1, <1>2, <1>3, <2>2 DEF AloneOf, KeyOf, OutTypes
  <2>4. f # NoFile /\ a = "add"
    BY <1>5, <2>3, Distinction
  <2>5. \A l \in Keys : l # k => tmp[l] # f
    BY <2>1, <2>3, <2>4 DEF Names
  <2>6. \A t \in Savers : t # s /\ Saving(t) => saver[t].key # k
    BY <1>2, <2>1, <2>2 DEF Alone, KeyOf
  <2>7. \A t \in Savers : /\ saver'[t].key = saver[t].key /\ saver'[t].open = saver[t].open
                          /\ Early(t)' => Early(t)
                          /\ Saving(t)' => Saving(t)
    BY <1>3, <1>6, <2>2, <2>4 DEF Early, Saving
  <2>8. Names'
    <3>1. \A l, m \in Keys : tmp'[l] # NoFile /\ tmp'[l] = tmp'[m] => l = m
      BY <1>7, <2>1 DEF Names
    <3>2. \A l, m \in Keys : tmp'[l] # NoFile => file'[m] # tmp'[l]
      BY <1>7, <2>1, <2>3, <2>5 DEF Names
    <3>3. ASSUME NEW t \in Savers, Early(t)'
          PROVE  /\ \A l \in Keys : file'[l] # t /\ tmp'[l] # t
                 /\ \A u \in Savers : saver'[u].open # t
      <4>1. /\ \A l \in Keys : file[l] # t /\ tmp[l] # t
            /\ \A u \in Savers : saver[u].open # t
        BY <2>1, <2>7, <3>3 DEF Names
      <4>2. NoFile # t
        BY Distinction
      <4> QED BY <1>7, <2>7, <4>1, <4>2
    <3> QED BY <3>1, <3>2, <3>3 DEF Names
  <2>9. AloneOf(s)'
    <3>1. \A l \in Keys : tmp'[l] # f
      BY <1>7, <2>4, <2>5
    <3> QED BY <1>2, <1>4, <1>6, <1>7, <2>3, <2>4, <3>1 DEF AloneOf, KeyOf
  <2>10. ASSUME NEW t \in Savers, t # s  PROVE AloneOf(t)'
    <3>1. AloneOf(t) /\ saver'[t] = saver[t] /\ saver[t].key \in Keys
      BY <1>1, <1>6, <2>1, <2>10 DEF Alone, OutTypes, SaverType
    <3>2. Saving(t) => saver[t].key # k /\ saver[t].open # NoFile
      BY <1>1, <2>6, <2>10, Distinction DEF OutTypes
    <3>3. saver[t].at \in {"write", "rename"} => tmp'[saver[t].key] = saver[t].open
      BY <1>7, <3>1, <3>2 DEF AloneOf, KeyOf, Saving
    <3>4. saver[t].at = "add" => file'[saver[t].key] # NoFile
      BY <1>7, <3>1, <3>2 DEF AloneOf, KeyOf, Saving
    <3>5. saver[t].at \in {"add", "wake"} => \A l \in Keys : tmp'[l] # saver[t].open
      BY <1>7, <3>1, <3>2 DEF AloneOf, Saving
    <3> QED BY <1>4, <3>1, <3>3, <3>4, <3>5 DEF AloneOf, KeyOf
  <2>11. \A t, u \in Savers : Saving(t)' /\ Saving(u)' /\ KeyOf(t)' = KeyOf(u)' => t = u
    BY <2>1, <2>7 DEF Alone, KeyOf
  <2>12. Alone'
    BY <2>9, <2>10, <2>11 DEF Alone
  <2>13. Matches'
    <3>1. ToSet(entries) \subseteq Keys
      BY <1>1, ElementsOf DEF OutTypes
    <3>2. \A l \in Keys : file'[l] # NoFile => file'[l] \in whole'
      BY <1>4, <1>7, <2>1, <2>3 DEF Matches
    <3>3. \A l \in ToSet(entries') : file'[l] # NoFile
      BY <1>4, <1>7, <2>1, <2>3, <2>4, <3>1 DEF Matches
    <3> QED BY <1>4, <2>1, <3>2, <3>3 DEF Matches
  <2> QED BY <2>8, <2>12, <2>13
<1> QED BY <1>8, <1>9, <1>10, <1>11 DEF OutInv

\* AddCacheEntry(): the entry of a key that had none.
LEMMA AddKeeps ==
  ASSUME OutInv, NEW s \in Savers, AddCacheEntry(s)
  PROVE  OutInv'
<1>1. OutTypes /\ NotLoaded /\ GcNotAsleep
  BY DEF OutInv
<1>2. PICK k \in Keys : k = saver[s].key
  BY <1>1 DEF OutTypes, SaverType
<1>3. /\ saver[s].at = "add" /\ ready
      /\ entries' = Append(RemoveFirst(entries, k), k) /\ amount' = amount + AmountOf[k]
      /\ UNCHANGED <<disk_vars, ready, gc, should_done, cache_quit, doubled, killed>>
  BY <1>2 DEF AddCacheEntry, Is, Usable, KeyOf, gc_vars
<1>4. /\ file' = file /\ tmp' = tmp /\ whole' = whole /\ ready' = ready
      /\ gc' = gc /\ should_done' = should_done /\ cache_quit' = cache_quit
      /\ doubled' = doubled /\ killed' = killed
  BY <1>3 DEF disk_vars
<1>5. PICK a \in SaverPlaces :
        a = (IF ShouldInvoke(entries', amount') THEN "wake" ELSE "saved") /\ Goes(s, a)
  BY DEF AddCacheEntry, SaverPlaces
<1>6. /\ saver' \in [Savers -> SaverType]
      /\ saver'[s].at = a /\ saver'[s].key = saver[s].key /\ saver'[s].open = saver[s].open
      /\ \A t \in Savers : t # s => saver'[t] = saver[t]
  BY <1>1, <1>5, GoesTo DEF OutTypes
<1>7. /\ entries' \in Seq(Keys) /\ Unique(entries')
      /\ k \notin ToSet(entries) => ToSet(entries') = ToSet(entries) \cup {k}
  <2>1. entries \in Seq(Keys) /\ Unique(entries) /\ Len(entries) \in Nat
    BY <1>1, LenProperties DEF OutTypes
  <2>2. PICK r \in Seq(Keys) : /\ r = RemoveFirst(entries, k) /\ Unique(r)
                               /\ ToSet(r) = ToSet(entries) \ {k}
    <3>1. CASE k \in ToSet(entries)
      BY <2>1, <3>1, RemoveKey
    <3>2. CASE k \notin ToSet(entries)
      BY <2>1, <3>2, RemoveNoKey
    <3> QED BY <3>1, <3>2
  <2>3. k \notin ToSet(r) /\ entries' = Append(r, k)
    BY <1>3, <2>2
  <2>4. /\ Append(r, k) \in Seq(Keys) /\ Unique(Append(r, k))
        /\ ToSet(Append(r, k)) = ToSet(r) \cup {k}
    BY <2>2, <2>3, AppendKey
  <2> QED BY <2>2, <2>3, <2>4
<1>8. OutTypes'
  <2>1. \A t \in Savers : Saving(t)' => saver'[t].open \in Files
    BY <1>1, <1>3, <1>6 DEF Saving, OutTypes
  <2>2. amount' \in Int
    BY <1>1, <1>3, AmountsAssumption DEF OutTypes
  <2> QED BY <1>1, <1>4, <1>6, <1>7, <2>1, <2>2 DEF OutTypes
<1>9. NotLoaded'
  BY <1>3, <1>4, ReadyStays
<1>10. GcNotAsleep'
  <2>1. ShouldInvoke(entries', amount') => saver'[s].at = "wake"
    BY <1>5, <1>6
  <2>2. gc' = "waiting" => ~should_done'
    BY <1>1, <1>4 DEF GcNotAsleep
  <2> QED BY <2>1, <2>2 DEF GcNotAsleep, Is, ShouldInvoke
<1>11. ASSUME doubled' = {}  PROVE Names' /\ Alone' /\ Matches'
  <2>1. Names /\ Alone /\ Matches
    BY <1>4, <1>11 DEF OutInv
  <2>2. AloneOf(s) /\ Saving(s)
    BY <1>3, <2>1 DEF Alone, Saving
  <2>3. k \notin ToSet(entries) /\ file[k] # NoFile /\ \A l \in Keys : tmp[l] # saver[s].open
    BY <1>2, <1>3, <2>2 DEF AloneOf, KeyOf
  <2>4. ToSet(entries') = ToSet(entries) \cup {k}
    BY <1>7, <2>3
  <2>5. \A t \in Savers : t # s /\ Saving(t) => saver[t].key # k
    BY <1>2, <2>1, <2>2 DEF Alone, KeyOf
  <2>6. \A t \in Savers : /\ saver'[t].key = saver[t].key /\ saver'[t].open = saver[t].open
                          /\ Early(t)' => Early(t)
                          /\ Saving(t)' => Saving(t)
    BY <1>5, <1>6, <2>2 DEF Early, Saving
  <2>7. Names'
    BY <1>4, <2>1, <2>6 DEF Names
  <2>8. AloneOf(s)'
    BY <1>4, <1>5, <1>6, <2>3 DEF AloneOf
  <2>9. ASSUME NEW t \in Savers, t # s  PROVE AloneOf(t)'
    <3>1. AloneOf(t) /\ saver'[t] = saver[t]
      BY <1>6, <2>1, <2>9 DEF Alone
    <3>2. saver[t].at \in {"write", "rename", "add"} => saver[t].key # k
      BY <2>5, <2>9 DEF Saving
    <3> QED BY <1>4, <2>4, <3>1, <3>2 DEF AloneOf, KeyOf
  <2>10. \A t, u \in Savers : Saving(t)' /\ Saving(u)' /\ KeyOf(t)' = KeyOf(u)' => t = u
    BY <2>1, <2>6 DEF Alone, KeyOf
  <2>11. Alone'
    BY <2>8, <2>9, <2>10 DEF Alone
  <2>12. Matches'
    <3>1. PICK S \in SUBSET Keys : S = ToSet(entries)
      BY <1>1, ElementsOf DEF OutTypes
    <3>2. AmountIn(S \cup {k}) = AmountIn(S) + AmountOf[k]
      BY <2>3, <3>1, AmountOfOneMore
    <3>3. amount' = AmountIn(ToSet(entries'))
      BY <1>3, <2>1, <2>4, <3>1, <3>2 DEF Matches
    <3>4. \A l \in ToSet(entries') : file'[l] # NoFile
      BY <1>4, <2>1, <2>3, <2>4 DEF Matches
    <3>5. \A l \in Keys : file'[l] # NoFile => file'[l] \in whole'
      BY <1>4, <2>1 DEF Matches
    <3> QED BY <3>3, <3>4, <3>5 DEF Matches
  <2> QED BY <2>7, <2>11, <2>12
<1> QED BY <1>8, <1>9, <1>10, <1>11 DEF OutInv

-----------------------------------------------------------------------------
(***************************************************************************)
(* The GC thread, Quit(), and a start with what is on the disk.            *)
(***************************************************************************)
\* A step of the thread or of Quit() that leaves the cache alone.
LEMMA ThreadKeeps ==
  ASSUME OutInv, GcCheck \/ QuitStop \/ QuitDelete
  PROVE  OutInv'
<1>1. OutTypes /\ NotLoaded /\ GcNotAsleep
  BY DEF OutInv
<1>2. /\ UNCHANGED <<saver, disk_vars, entries, amount, ready, doubled, killed>> /\ ready
      /\ gc' \in {"check", "waiting", "collect", "done", gc} /\ should_done' \in BOOLEAN
      /\ cache_quit' \in {"no", "wait", "deleted"}
      /\ gc' = "waiting" => ~should_done' /\ (ShouldInvoke(entries, amount) => gc = "waiting")
  <2>1. CASE GcCheck
    BY <1>1, <2>1 DEF GcCheck, OutTypes
  <2>2. CASE QuitStop
    BY <1>1, <2>2 DEF QuitStop, Awake, OutTypes
  <2>3. CASE QuitDelete
    BY <1>1, <2>3 DEF QuitDelete, OutTypes, NotLoaded
  <2> QED BY <2>1, <2>2, <2>3
<1>3. /\ saver' = saver /\ file' = file /\ tmp' = tmp /\ whole' = whole /\ entries' = entries
      /\ amount' = amount /\ ready' = ready /\ doubled' = doubled /\ killed' = killed
  BY <1>2 DEF disk_vars
<1>4. OutTypes'
  <2>1. gc' \in {"check", "waiting", "collect", "done", "undefined"}
    BY <1>1, <1>2 DEF OutTypes
  <2> QED BY <1>1, <1>2, <1>3, <2>1 DEF OutTypes, Saving
<1>5. NotLoaded'
  BY <1>2, <1>3, ReadyStays
<1>6. GcNotAsleep'
  BY <1>1, <1>2, <1>3 DEF GcNotAsleep, ShouldInvoke, Is
<1>7. doubled' = {} => Names' /\ Alone' /\ Matches'
  BY <1>3 DEF OutInv, Names, Early, Alone, AloneOf, Saving, KeyOf, Matches
<1> QED BY <1>4, <1>5, <1>6, <1>7 DEF OutInv

\* The garbage collector removes what is oldest.
LEMMA CollectKeeps ==
  ASSUME OutInv, RunGarbageCollection
  PROVE  OutInv'
<1>1. OutTypes /\ NotLoaded /\ GcNotAsleep
  BY DEF OutInv
<1>2. gc = "collect" /\ UNCHANGED <<saver, tmp, whole, ready, should_done, cache_quit, killed, doubled>>
  BY DEF RunGarbageCollection
<1>3. /\ saver' = saver /\ tmp' = tmp /\ whole' = whole /\ ready' = ready
      /\ should_done' = should_done /\ cache_quit' = cache_quit /\ doubled' = doubled
      /\ killed' = killed
  BY <1>2
<1>4. NotLoaded'
  <2>1. ready
    BY <1>1, <1>2 DEF NotLoaded, OutTypes
  <2> QED BY <1>3, <2>1, ReadyStays
<1>5. CASE gc' \in {"check", "undefined"} /\ UNCHANGED <<file, entries, amount>>
  <2>1. file' = file /\ entries' = entries /\ amount' = amount
    BY <1>5
  <2>2. OutTypes'
    BY <1>1, <1>3, <1>5, <2>1 DEF OutTypes, Saving
  <2>3. GcNotAsleep'
    BY <1>5 DEF GcNotAsleep
  <2>4. doubled' = {} => Names' /\ Alone' /\ Matches'
    BY <1>3, <2>1 DEF OutInv, Names, Early, Alone, AloneOf, Saving, KeyOf, Matches
  <2> QED BY <1>4, <2>2, <2>3, <2>4 DEF OutInv
<1>6. CASE /\ entries # <<>> /\ file[Head(entries)] # NoFile
           /\ file' = [file EXCEPT ![Head(entries)] = NoFile]
           /\ entries' = Tail(entries)
           /\ amount' = amount - AmountOf[Head(entries)]
           /\ UNCHANGED gc
  <2>1. PICK k \in Keys : /\ k = Head(entries) /\ k \in ToSet(entries)
                          /\ ToSet(Tail(entries)) = ToSet(entries) \ {k}
                          /\ Tail(entries) \in Seq(Keys) /\ Unique(Tail(entries))
    BY <1>1, <1>6, OldestKey DEF OutTypes
  <2>2. /\ entries' \in Seq(Keys) /\ Unique(entries') /\ ToSet(entries') = ToSet(entries) \ {k}
        /\ amount' = amount - AmountOf[k] /\ gc' = "collect"
    BY <1>2, <1>6, <2>1
  <2>3. /\ file' \in [Keys -> Files \cup {NoFile}] /\ file'[k] = NoFile
        /\ \A l \in Keys : l # k => file'[l] = file[l]
    BY <1>1, <1>6, <2>1 DEF OutTypes
  <2>4. OutTypes'
    <3>1. amount' \in Int
      BY <1>1, <2>2, AmountsAssumption DEF OutTypes
    <3> QED BY <1>1, <1>3, <2>2, <2>3, <3>1 DEF OutTypes, Saving
  <2>5. GcNotAsleep'
    BY <2>2 DEF GcNotAsleep
  <2>6. ASSUME doubled' = {}  PROVE Names' /\ Alone' /\ Matches'
    <3>1. Names /\ Alone /\ Matches
      BY <1>3, <2>6 DEF OutInv
    <3>2. Names'
      <4>1. \A l, m \in Keys : tmp[l] # NoFile => file'[m] # tmp[l]
        BY <2>3, <3>1 DEF Names
      <4>2. \A t \in Savers : (\A l \in Keys : file[l] # t) => \A l \in Keys : file'[l] # t
        BY <2>3, Distinction
      <4> QED BY <1>3, <3>1, <4>1, <4>2 DEF Names, Early
    <3>3. Alone'
      <4>1. ASSUME NEW t \in Savers  PROVE AloneOf(t)'
        <5>1. AloneOf(t) /\ saver[t].key \in Keys
          BY <1>1, <3>1 DEF Alone, OutTypes, SaverType
        <5>2. saver[t].at = "add" => saver[t].key # k
          BY <2>1, <5>1 DEF AloneOf, KeyOf
        <5> QED BY <1>3, <2>2, <2>3, <5>1, <5>2 DEF AloneOf, KeyOf
      <4> QED BY <1>3, <3>1, <4>1 DEF Alone, Saving, KeyOf
    <3>4. Matches'
      <4>1. PICK S \in SUBSET Keys : S = ToSet(entries')
        BY <2>2, ElementsOf
      <4>2. k \notin S /\ S \cup {k} = ToSet(entries)
        BY <2>1, <2>2, <4>1
      <4>3. /\ AmountIn(S \cup {k}) = AmountIn(S) + AmountOf[k] /\ AmountIn(S) \in Int
            /\ AmountOf[k] \in Nat
        BY <4>2, AmountOfOneMore
      <4>4. amount' = AmountIn(S)
        <5>1. amount = AmountIn(S \cup {k})
          BY <3>1, <4>2 DEF Matches
        <5>2. amount = AmountIn(S) + AmountOf[k]
          BY <4>3, <5>1
        <5> QED BY <2>2, <4>3, <5>2
      <4>5. \A l \in ToSet(entries') : file'[l] # NoFile
        BY <2>2, <2>3, <3>1, <4>1 DEF Matches
      <4>6. \A l \in Keys : file'[l] # NoFile => file'[l] \in whole'
        BY <1>3, <2>3, <3>1 DEF Matches
      <4> QED BY <4>1, <4>4, <4>5, <4>6 DEF Matches
    <3> QED BY <3>2, <3>3, <3>4
  <2> QED BY <1>4, <2>4, <2>5, <2>6 DEF OutInv
<1> QED BY <1>5, <1>6 DEF RunGarbageCollection

\* LoadCacheEntries() lists the files there are.
LEMMA LoadKeeps ==
  ASSUME OutInv, LoadCacheEntries
  PROVE  OutInv'
<1>1. OutTypes /\ NotLoaded /\ GcNotAsleep
  BY DEF OutInv
<1>2. PICK listed \in SUBSET Keys :
        /\ entries' \in SetToSeqs({k \in listed : file[k] # NoFile})
        /\ amount' = AmountIn({k \in listed : file[k] # NoFile})
        /\ tmp' = [k \in Keys |-> IF k \in listed THEN NoFile ELSE tmp[k]]
  BY DEF LoadCacheEntries
<1>3. PICK S \in SUBSET Keys : S = {k \in listed : file[k] # NoFile}
  OBVIOUS
<1>4. /\ ~ready /\ ready' = TRUE /\ saver' = saver /\ file' = file /\ whole' = whole /\ gc' = gc
      /\ should_done' = should_done /\ cache_quit' = cache_quit /\ killed' = killed
      /\ doubled' = doubled
  BY DEF LoadCacheEntries, gc_vars
<1>5. entries' \in Seq(Keys) /\ Unique(entries') /\ ToSet(entries') = S
  BY <1>2, <1>3, ListedKeys
<1>6. amount' = AmountIn(S) /\ AmountIn(S) \in Int
  <2>1. PICK g : IsSum(g, S)
    BY SumExists
  <2>2. AmountIn(S) = g[S] /\ g[S] \in Int
    BY <2>1, AmountIsSum DEF IsSum
  <2> QED BY <1>2, <1>3, <2>2
<1>7. tmp' \in [Keys -> Files \cup {NoFile}] /\ \A l \in Keys : tmp'[l] \in {tmp[l], NoFile}
  BY <1>1, <1>2 DEF OutTypes
<1>8. OutTypes'
  BY <1>1, <1>4, <1>5, <1>6, <1>7 DEF OutTypes, Saving
<1>9. NotLoaded'
  BY <1>4 DEF NotLoaded
<1>10. GcNotAsleep'
  BY <1>1, <1>4 DEF GcNotAsleep, NotLoaded
<1>11. ASSUME doubled' = {}  PROVE Names' /\ Alone' /\ Matches'
  <2>1. Names /\ Alone /\ Matches
    BY <1>4, <1>11 DEF OutInv
  <2>2. \A t \in Savers : saver'[t].at \in {"new", "gone"}
    BY <1>1, <1>4 DEF NotLoaded
  <2>3. Names'
    <3>1. \A l, m \in Keys : tmp'[l] # NoFile /\ tmp'[l] = tmp'[m] => l = m
      BY <1>7, <2>1 DEF Names
    <3>2. \A l, m \in Keys : tmp'[l] # NoFile => file[m] # tmp'[l]
      BY <1>7, <2>1 DEF Names
    <3>3. \A t \in Savers : (\A l \in Keys : tmp[l] # t) => \A l \in Keys : tmp'[l] # t
      BY <1>7, Distinction
    <3> QED BY <1>4, <2>1, <3>1, <3>2, <3>3 DEF Names, Early
  <2>4. Alone'
    BY <2>2 DEF Alone, AloneOf, Saving
  <2>5. Matches'
    BY <1>3, <1>4, <1>5, <1>6, <2>1 DEF Matches
  <2> QED BY <2>3, <2>4, <2>5
<1> QED BY <1>8, <1>9, <1>10, <1>11 DEF OutInv

\* The tasks that had begun are gone with the process, and what they had written
\* of a file stays.
LEMMA KillKeeps ==
  ASSUME OutInv, Killed
  PROVE  OutInv'
<1>1. OutTypes
  BY DEF OutInv
<1>2. /\ file' = file /\ tmp' = tmp /\ whole' = whole /\ doubled' = doubled
      /\ entries' = <<>> /\ amount' = 0 /\ ready' = FALSE
      /\ gc' = "check" /\ should_done' = FALSE /\ cache_quit' = "no" /\ killed' = killed + 1
      /\ saver' = [s \in Savers |->
           IF Is(s, "new") THEN saver[s] ELSE Saver("gone", KeyOf(s), NoFile)]
  BY DEF Killed, disk_vars
<1>3. \A t \in Savers : saver[t] \in SaverType /\ saver[t].key \in Keys
  BY <1>1 DEF OutTypes, SaverType
<1>4. /\ saver' \in [Savers -> SaverType]
      /\ \A t \in Savers : \/ saver'[t] = saver[t] /\ saver[t].at = "new"
                           \/ saver'[t].at = "gone" /\ saver'[t].open = NoFile
  <2>1. \A t \in Savers : Saver("gone", KeyOf(t), NoFile) \in SaverType
    BY <1>3 DEF Saver, KeyOf, SaverType, SaverPlaces
  <2>2. \A t \in Savers : /\ Saver("gone", KeyOf(t), NoFile).at = "gone"
                          /\ Saver("gone", KeyOf(t), NoFile).open = NoFile
    BY DEF Saver
  <2>3. \A t \in Savers : saver'[t] = IF Is(t, "new") THEN saver[t] ELSE Saver("gone", KeyOf(t), NoFile)
    BY <1>2
  <2>4. saver' \in [Savers -> SaverType]
    BY <1>2, <1>3, <2>1
  <2> QED BY <2>2, <2>3, <2>4 DEF Is
<1>5. \A t \in Savers : saver'[t].at \in {"new", "gone"}
  BY <1>4
<1>6. OutTypes'
  <2>1. entries' \in Seq(Keys) /\ Unique(entries')
    BY <1>2, NoKeys
  <2>2. killed' \in Nat /\ amount' \in Int
    BY <1>1, <1>2 DEF OutTypes
  <2>3. \A t \in Savers : ~Saving(t)'
    BY <1>5 DEF Saving
  <2> QED BY <1>1, <1>2, <1>4, <2>1, <2>2, <2>3 DEF OutTypes
<1>7. NotLoaded'
  BY <1>2, <1>5 DEF NotLoaded
<1>8. GcNotAsleep'
  BY <1>2 DEF GcNotAsleep
<1>9. ASSUME doubled' = {}  PROVE Names' /\ Alone' /\ Matches'
  <2>1. Names /\ Alone /\ Matches
    BY <1>2, <1>9 DEF OutInv
  <2>2. Names'
    <3>1. \A t \in Savers : saver'[t].at \in {"new", "read", "compile"} => Early(t)
      BY <1>4 DEF Early
    <3>2. \A t, u \in Savers : saver[u].open # t => saver'[u].open # t
      BY <1>4, Distinction
    <3> QED BY <1>2, <2>1, <3>1, <3>2 DEF Names, Early
  <2>3. Alone'
    BY <1>5 DEF Alone, AloneOf, Saving
  <2>4. Matches'
    BY <1>2, <2>1, NoKeys, AmountOfNone DEF Matches
  <2> QED BY <2>2, <2>3, <2>4
<1> QED BY <1>6, <1>7, <1>8, <1>9 DEF OutInv

\* The initial states.
LEMMA OutInvInit == OutputInit => OutInv
<1> SUFFICES ASSUME OutputInit  PROVE OutInv
  OBVIOUS
<1>1. /\ file \in [Keys -> {NoFile, "old"}] /\ tmp = [k \in Keys |-> NoFile] /\ whole = {"old"}
      /\ entries = <<>> /\ amount = 0 /\ ready = FALSE
      /\ gc = "check" /\ should_done = FALSE /\ cache_quit = "no"
      /\ doubled = {} /\ killed = 0
  BY DEF OutputInit
<1>2. PICK f \in SaverKeys : saver = [s \in Savers |-> Saver("new", f[s], NoFile)]
  BY DEF OutputInit
<1>3. \A s \in Savers : f[s] \in Keys
  BY AmountsAssumption
<1>4. saver \in [Savers -> SaverType] /\ \A s \in Savers : saver[s].at = "new" /\ saver[s].open = NoFile
  BY <1>2, <1>3 DEF Saver, SaverType, SaverPlaces
<1>5. OutTypes
  <2>1. entries \in Seq(Keys) /\ Unique(entries)
    BY <1>1, NoKeys
  <2>2. \A t \in Savers : ~Saving(t)
    BY <1>4 DEF Saving
  <2>3. /\ file \in [Keys -> Files \cup {NoFile}] /\ tmp \in [Keys -> Files \cup {NoFile}]
        /\ whole \subseteq Files
    BY <1>1 DEF Files
  <2>4. ready \in BOOLEAN /\ should_done \in BOOLEAN
    BY <1>1
  <2>5. amount \in Int /\ killed \in Nat /\ doubled \subseteq Keys
    BY <1>1
  <2>6. /\ gc \in {"check", "waiting", "collect", "done", "undefined"}
        /\ cache_quit \in {"no", "wait", "deleted"}
    BY <1>1
  <2> QED BY <1>4, <2>1, <2>2, <2>3, <2>4, <2>5, <2>6, Zenon DEF OutTypes
<1>6. NotLoaded /\ GcNotAsleep
  BY <1>1, <1>4 DEF NotLoaded, GcNotAsleep
<1>7. Names
  BY <1>1, <1>4, Distinction DEF Names
<1>8. Alone
  BY <1>4 DEF Alone, AloneOf, Saving
<1>9. Matches
  BY <1>1, NoKeys, AmountOfNone DEF Matches
<1> QED BY <1>5, <1>6, <1>7, <1>8, <1>9 DEF OutInv

\* Every step.
LEMMA OutInvNext == OutInv /\ [OutputNext]_output_vars => OutInv'
<1> SUFFICES ASSUME OutInv, [OutputNext]_output_vars  PROVE OutInv'
  OBVIOUS
<1>1. ASSUME NEW s \in Savers, SaverStep(s)  PROVE OutInv'
  BY <1>1, MovesKeep, UpdateKeeps, OpenKeeps, WriteKeeps, RenameKeeps, AddKeeps DEF SaverStep
<1>2. CASE GcStep \/ QuitStop \/ QuitDelete
  BY <1>2, ThreadKeeps, CollectKeeps DEF GcStep
<1>3. CASE LoadCacheEntries
  BY <1>3, LoadKeeps
<1>4. CASE Killed
  BY <1>4, KillKeeps
<1>5. CASE UNCHANGED output_vars
  <2>1. /\ saver' = saver /\ file' = file /\ tmp' = tmp /\ whole' = whole /\ entries' = entries
        /\ amount' = amount /\ ready' = ready /\ gc' = gc /\ should_done' = should_done
        /\ cache_quit' = cache_quit /\ doubled' = doubled /\ killed' = killed
    BY <1>5 DEF output_vars
  <2> QED BY <2>1 DEF OutInv, OutTypes, NotLoaded, Names, Alone, AloneOf, Matches, GcNotAsleep,
                      Early, Saving, KeyOf, Is, ShouldInvoke
<1> QED BY <1>1, <1>2, <1>3, <1>4, <1>5 DEF OutputNext

\* As long as no key is saved twice, what is in memory and what is on the disk agree,
\* whenever the process was killed and whatever the thread has collected: every entry
\* has its file, no file with the name of an entry is cut short, and
\* entries_total_cache_amount_ is the sum of the entries.  The thread never sleeps
\* over something it has to collect, or over the end, unless a task is about to wake
\* it (AddCacheEntry() and WakeGCThread() take different locks).
THEOREM OutputCacheIsExact == OutputSpec => []OutputCacheExact
<1>1. OutInv => OutputCacheExact
  BY DEF OutInv, Matches, OutputCacheExact, CacheMatchesDisk
<1> QED BY <1>1, OutInvInit, OutInvNext, PTL DEF OutputSpec
==============================================================================

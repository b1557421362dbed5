-------------------------- MODULE CompilerInfoCache --------------------------
(***************************************************************************)
(* CompilerInfoCache (client/compiler_info_cache.cc) and the tasks that    *)
(* ask CompileService::GetCompilerInfo() about a compiler.  One task runs  *)
(* the compiler for all that ask in the same directory meanwhile, the      *)
(* information is shared by reference counts, and a compiler the server    *)
(* does not have is disabled.                                              *)
(*                                                                         *)
(* Tasks ask about one compiler, from several directories, and the file of *)
(* it may change.  An action is a critical section of mu_ or               *)
(* compiler_info_mu_, or code of one thread.  Information is named after   *)
(* the task that stored it, or "loaded" if it came from the cache file.    *)
(***************************************************************************)
EXTENDS Integers, FiniteSets, Sequences, SequencesExt, FiniteSetsExt

CONSTANTS
  Askers,        \* compile tasks
  CwdOf,         \* the current directory of each
  InfoPlans      \* what may happen: see InfoPlan

ASSUME AskersAssumption ==
  IsFiniteSet(Askers) /\ Askers \cap {"loaded", "none", "no list"} = {}

\* A plan: the directories the compiler is in, whether it was in the cache file, how
\* often it changes, how far the time goes, and whether running it may fail.  Time
\* is in units of more than kNegativeCacheDuration and kUpdateLastUsedAtDuration.
InfoPlan(inside, loaded, changes, times, errors) ==
  [inside |-> inside, loaded |-> loaded, changes |-> changes, times |-> times,
   errors |-> errors]

ASSUME InfoPlansAssumption ==
  \A p \in InfoPlans : {p.changes, p.times} \subseteq Nat /\ {p.loaded, p.errors} \subseteq BOOLEAN

VARIABLES
  asker,         \* each task: where it is, the state it has, whether it waited
  info,          \* each CompilerInfoState: its data, refcnt_ and disabled_
  compiler_info, \* compiler_info_
  keys_by_hash,  \* keys_by_hash_, as a set of pairs
  info_waiters,  \* compiler_info_waiters_
  telling,       \* GetCompilerInfoInternal() after it took a list of waiters
  info_plan,     \* the plan of this behaviour
  compiler,      \* the compiler: its contents, and its stat
  info_time      \* absl::Now()

info_vars == <<asker, info, compiler_info, keys_by_hash, info_waiters, telling, info_plan,
               compiler, info_time>>
world_vars == <<info_plan, compiler, info_time>>
table_vars == <<compiler_info, keys_by_hash>>

None == "none"
NoList == <<"no list">>
Cwds == {CwdOf[t] : t \in Askers}
AnyCwd == "any"
InfoKeys == Cwds \cup {AnyCwd}

\* CompilerInfoData: the time is last_used_at, and failed_at of an error.
Data(content, stat, error, at) ==
  [content |-> content, stat |-> stat, error |-> error, at |-> at]
NoInfo == [data |-> Data(0, 0, FALSE, 0), refcnt |-> 0, disabled |-> FALSE]

At(t) == asker[t].at
Moves(t, at) == asker' = [asker EXCEPT ![t].at = at]

-----------------------------------------------------------------------------
(***************************************************************************)
(* CompilerInfoState.                                                      *)
(***************************************************************************)
Ref(infos, i) == [infos EXCEPT ![i].refcnt = @ + 1]
Unref(infos, i) ==
  IF infos[i].refcnt = 1 THEN [infos EXCEPT ![i] = NoInfo] ELSE [infos EXCEPT ![i].refcnt = @ - 1]

\* Mutant: the task has the pointer, and no reference.
TakeNoRef(t, at) == Moves(t, at) /\ UNCHANGED info

\* reset() of the pointer that Lookup() or Store() returned.  What was deleted
\* meanwhile is used after that.
Take(t, at) ==
  LET i == asker[t].info
  IN  IF info[i].refcnt = 0
      THEN Moves(t, "undefined") /\ UNCHANGED info
      ELSE Moves(t, at) /\ info' = Ref(info, i)

-----------------------------------------------------------------------------
(***************************************************************************)
(* CompilerInfoCache.                                                      *)
(***************************************************************************)
\* Validate(), and a negative entry has not expired.
Valid(i) ==
  /\ info[i].data.stat = compiler.stat
  /\ info[i].data.error => info_time = info[i].data.at

LookupUnlocked(key) ==
  LET i == compiler_info[key] IN IF i # None /\ Valid(i) THEN i ELSE None

\* Lookup(): a key without the directory first.
Lookup(t) ==
  IF LookupUnlocked(AnyCwd) # None THEN LookupUnlocked(AnyCwd) ELSE LookupUnlocked(CwdOf[t])

\* UpdateLastUsedAt(), which changes the hash.
Used(i) ==
  IF i # None /\ info_time > info[i].data.at
  THEN [info EXCEPT ![i].data.at = info_time] ELSE info

\* Mutant: the state that is replaced is not let go of.
ReplacedKept(infos, new, old) == Ref(infos, new)

\* In Store(), the reference of the cache, and the one to what it had.
Replaced(infos, new, old) ==
  IF old = None THEN Ref(infos, new) ELSE Unref(Ref(infos, new), old)

\* A state with the hash of the data, by the first of its keys.
Shared(data) ==
  LET keys == {k \in InfoKeys : <<data, k>> \in keys_by_hash}
  IN  IF keys = {} THEN {None} ELSE {LookupUnlocked(k) : k \in keys}

\* Mutant: a new state is not compared with the others.
SameIsDisabledNever(infos, table, i) == infos[i].disabled

\* "Check if the same local compiler was already disabled", after the replacement.
SameIsDisabled(infos, table, i) ==
  \E k \in InfoKeys : /\ table[k] # None /\ infos[table[k]].disabled
                      /\ infos[table[k]].data.content = infos[i].data.content

Store(t) ==
  LET data == asker[t].data
      key == IF CwdOf[t] \in info_plan.inside THEN CwdOf[t] ELSE AnyCwd
      old == compiler_info[key]
  IN  /\ At(t) = "built"
      /\ \E shared \in Shared(data) :
           LET i == IF shared = None THEN t ELSE shared
               made == IF shared = None THEN [info EXCEPT ![t].data = data] ELSE info
               table == [compiler_info EXCEPT ![key] = i]
           IN  /\ info' = [Replaced(made, i, old) EXCEPT
                             ![i].disabled = @ \/ SameIsDisabled(made, table, i)]
               /\ compiler_info' = table
               /\ keys_by_hash' = (keys_by_hash \cup {<<data, key>>})
                    \ (IF old = None THEN {} ELSE {<<info[old].data, key>>})
               /\ asker' = [asker EXCEPT ![t].at = "stored", ![t].info = i,
                                         ![t].data = NoInfo.data]
      /\ UNCHANGED <<info_waiters, telling, world_vars>>

\* Mutant: only the state of the task.
AlsoDisabledNone(i) == {i}

\* Disable(): the state of the task and what the cache has of the same compiler.
AlsoDisabled(i) ==
  {i} \cup {compiler_info[k] : k \in
              {k \in InfoKeys : /\ compiler_info[k] # None
                                /\ info[compiler_info[k]].data.content = info[i].data.content}}

Disable(t) ==
  /\ At(t) = "remote"
  /\ info' = [i \in DOMAIN info |->
       IF i \in AlsoDisabled(asker[t].info) THEN [info[i] EXCEPT !.disabled = TRUE] ELSE info[i]]
  /\ Moves(t, "fallback")
  /\ UNCHANGED <<table_vars, info_waiters, telling, world_vars>>

-----------------------------------------------------------------------------
(***************************************************************************)
(* CompileService::GetCompilerInfo().                                      *)
(***************************************************************************)
GetCompilerInfo(t) ==
  LET i == Lookup(t)
  IN  /\ At(t) = "new"
      /\ info' = Used(i)
      /\ asker' = [asker EXCEPT ![t].at = IF i = None THEN "missed" ELSE "hit",
                                ![t].info = i, ![t].asked = compiler.stat]
      /\ UNCHANGED <<table_vars, info_waiters, telling, world_vars>>

CacheHit(t) ==
  /\ At(t) = "hit"
  /\ Take(t, "got")
  /\ UNCHANGED <<table_vars, info_waiters, telling, world_vars>>

\* The first one for a directory asks the compiler, the others wait for it.
JoinWaiters(t) ==
  LET cwd == CwdOf[t]
      first == info_waiters[cwd] = NoList
  IN  /\ At(t) = "missed"
      /\ info_waiters' = [info_waiters EXCEPT ![cwd] = IF first THEN <<>> ELSE Append(@, t)]
      /\ asker' = [asker EXCEPT ![t].at = IF first THEN "posted" ELSE "waits",
                                ![t].waited = ~first]
      /\ UNCHANGED <<info, table_vars, telling, world_vars>>

\* GetCompilerInfoInternal() in the pool.
GetCompilerInfoInternal(t) ==
  LET i == Lookup(t)
  IN  /\ At(t) = "posted"
      /\ info' = Used(i)
      /\ asker' = [asker EXCEPT ![t].at = IF i = None THEN "unknown" ELSE "stored",
                                ![t].info = i]
      /\ UNCHANGED <<table_vars, info_waiters, telling, world_vars>>

\* BuildCompilerInfoData() runs the compiler, which may go wrong.
BuildCompilerInfoData(t) ==
  /\ At(t) = "unknown"
  /\ \E error \in {FALSE, info_plan.errors} :
       asker' = [asker EXCEPT ![t].at = "built",
                   ![t].data = Data(compiler.content, compiler.stat, error, info_time)]
  /\ UNCHANGED <<info, table_vars, info_waiters, telling, world_vars>>

\* Lookup() or Store() has returned.
HoldInfo(t) ==
  /\ At(t) = "stored"
  /\ Take(t, "tell")
  /\ UNCHANGED <<table_vars, info_waiters, telling, world_vars>>

\* Mutant: the list stays, so that tasks join it after it was read.
TakenNever(cwd) == info_waiters

\* The list of waiters is taken out of the table.
Taken(cwd) == [info_waiters EXCEPT ![cwd] = NoList]

\* Mutant: those who joined the list meanwhile are forgotten.
TakeWaitersSilent(t) ==
  /\ At(t) = "tell"
  /\ telling' = [telling EXCEPT ![t].info = asker[t].info]
  /\ info_waiters' = Taken(CwdOf[t])
  /\ info' = Ref(info, asker[t].info)
  /\ Moves(t, "got")
  /\ UNCHANGED <<table_vars, world_vars>>

\* The state is kept alive, as the task may go on and let go of it.
TakeWaiters(t) ==
  /\ At(t) = "tell"
  /\ telling' = [telling EXCEPT ![t] = [info |-> asker[t].info, list |-> info_waiters[CwdOf[t]]]]
  /\ info_waiters' = Taken(CwdOf[t])
  /\ info' = Ref(info, asker[t].info)
  /\ Moves(t, "got")
  /\ UNCHANGED <<table_vars, world_vars>>

\* One of the waiters is given the state and called back.
TellWaiter(t) ==
  LET i == telling[t].info
      w == Head(telling[t].list)
  IN  /\ telling[t].info # None /\ telling[t].list # <<>>
      /\ asker' = [asker EXCEPT ![w].at = "got", ![w].info = i]
      /\ info' = Ref(info, i)
      /\ telling' = [telling EXCEPT ![t].list = Tail(@)]
      /\ UNCHANGED <<table_vars, info_waiters, world_vars>>

TellEnd(t) ==
  /\ telling[t].info # None /\ telling[t].list = <<>>
  /\ info' = Unref(info, telling[t].info)
  /\ telling' = [telling EXCEPT ![t].info = None]
  /\ UNCHANGED <<asker, table_vars, info_waiters, world_vars>>

-----------------------------------------------------------------------------
\* CompileTask::FillCompilerInfoDone().
FillCompilerInfoDone(t) ==
  LET i == info[asker[t].info]
  IN  /\ At(t) = "got"
      /\ asker' = [asker EXCEPT
           ![t].at = IF i.data.error \/ i.disabled THEN "fallback" ELSE "remote",
           ![t].asked = 0, ![t].waited = FALSE]
      /\ UNCHANGED <<info, table_vars, info_waiters, telling, world_vars>>

\* The compile task is deleted.
ReleaseInfo(t) ==
  /\ At(t) \in {"remote", "fallback"}
  /\ info' = Unref(info, asker[t].info)
  /\ asker' = [asker EXCEPT ![t].at = "end", ![t].info = None]
  /\ UNCHANGED <<table_vars, info_waiters, telling, world_vars>>

\* Another compiler is installed, or the file is touched.
CompilerChanges ==
  /\ compiler.stat < info_plan.changes
  /\ \E other \in {0, 1} :
       compiler' = [content |-> compiler.content + other, stat |-> compiler.stat + 1]
  /\ UNCHANGED <<asker, info, table_vars, info_waiters, telling, info_plan, info_time>>

TimePasses ==
  /\ info_time < info_plan.times
  /\ info_time' = info_time + 1
  /\ UNCHANGED <<asker, info, table_vars, info_waiters, telling, info_plan, compiler>>

-----------------------------------------------------------------------------
NewAsker == [at |-> "new", info |-> None, data |-> NoInfo.data, asked |-> 0, waited |-> FALSE]

\* Load() may have found information in the cache file.
InfoInit ==
  /\ info_plan \in InfoPlans
  /\ asker = [t \in Askers |-> NewAsker]
  /\ info = [i \in Askers \cup {"loaded"} |->
       IF i = "loaded" /\ info_plan.loaded THEN [NoInfo EXCEPT !.refcnt = 1] ELSE NoInfo]
  /\ compiler_info = [k \in InfoKeys |->
                        IF k = AnyCwd /\ info_plan.loaded THEN "loaded" ELSE None]
  /\ keys_by_hash = IF info_plan.loaded THEN {<<NoInfo.data, AnyCwd>>} ELSE {}
  /\ info_waiters = [cwd \in Cwds |-> NoList]
  /\ telling = [t \in Askers |-> [info |-> None, list |-> <<>>]]
  /\ compiler = [content |-> 0, stat |-> 0] /\ info_time = 0

AskerStep(t) ==
  \/ GetCompilerInfo(t) \/ CacheHit(t) \/ JoinWaiters(t) \/ FillCompilerInfoDone(t)
  \/ ReleaseInfo(t) \/ Disable(t)

PoolStep(t) ==
  \/ GetCompilerInfoInternal(t) \/ BuildCompilerInfoData(t) \/ Store(t)
  \/ HoldInfo(t) \/ TakeWaiters(t) \/ TellWaiter(t) \/ TellEnd(t)

InfoNext ==
  \/ \E t \in Askers : AskerStep(t) \/ PoolStep(t)
  \/ CompilerChanges \/ TimePasses

InfoSpec == InfoInit /\ [][InfoNext]_info_vars

\* Threads go on; nothing is done for ever.
InfoFairness == WF_info_vars(\E t \in Askers : AskerStep(t) \/ PoolStep(t))

-----------------------------------------------------------------------------
(***************************************************************************)
(* Properties.                                                             *)
(***************************************************************************)
\* The type invariant of the cache and of those who ask it.
InfoTypeOK ==
  /\ \A t \in Askers : asker[t].info \in DOMAIN info \cup {None}
  /\ \A i \in DOMAIN info : info[i].refcnt \in Nat
  /\ compiler_info \in [InfoKeys -> DOMAIN info \cup {None}]
  /\ \A cwd \in Cwds : info_waiters[cwd] = NoList \/ ToSet(info_waiters[cwd]) \subseteq Askers

Holding(i) ==
  {t \in Askers : asker[t].info = i /\ At(t) \in {"tell", "got", "remote", "fallback"}}

\* References are those of the cache, of tasks and of whoever calls back waiters:
\* a state is deleted when the last of them goes.
InfoRefsExact ==
  \A i \in DOMAIN info :
    info[i].refcnt = Cardinality({k \in InfoKeys : compiler_info[k] = i})
                     + Cardinality(Holding(i))
                     + Cardinality({t \in Askers : telling[t].info = i})

Building(t) == At(t) \in {"posted", "unknown", "built", "stored", "tell"}
ListsOf(t) ==
  {<<"table", cwd>> : cwd \in {d \in Cwds : info_waiters[d] # NoList /\ t \in ToSet(info_waiters[d])}}
    \cup {<<"telling", u>> : u \in {v \in Askers : t \in ToSet(telling[v].list)}}

\* There is a list of waiters for a directory exactly while one task, and only one,
\* asks the compiler there, and whoever waits is in one list.
InfoWaitersExact ==
  /\ \A cwd \in Cwds :
       Cardinality({t \in Askers : CwdOf[t] = cwd /\ Building(t)})
         = IF info_waiters[cwd] = NoList THEN 0 ELSE 1
  /\ \A t \in Askers : Cardinality(ListsOf(t)) = IF At(t) = "waits" THEN 1 ELSE 0

\* What the cache has of one compiler is all disabled or not at all.
DisabledTogether ==
  \A j, k \in InfoKeys :
    LET x == compiler_info[j] y == compiler_info[k]
    IN  x # None /\ y # None /\ info[x].data.content = info[y].data.content
          => info[x].disabled = info[y].disabled

\* A task that did not wait for another one has nothing that was out of date when
\* it asked.
AskedIsCurrent ==
  \A t \in Askers :
    At(t) = "got" /\ ~asker[t].waited => info[asker[t].info].data.stat >= asker[t].asked

\* Information about compilers is shared right, as long as no task has used a
\* pointer to what was deleted, between the end of Lookup() or Store() and Ref().
InfosExact ==
  (\A t \in Askers : At(t) # "undefined") =>
    InfoRefsExact /\ InfoWaitersExact /\ DisabledTogether /\ AskedIsCurrent

\* Whoever asked was answered.
InfosCame ==
  \/ \E t \in Askers : At(t) = "undefined"
  \/ \A t \in Askers : At(t) \in {"new", "end"}
===============================================================================

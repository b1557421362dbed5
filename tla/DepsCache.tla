------------------------------ MODULE DepsCache ------------------------------
(***************************************************************************)
(* DepsCache (client/deps_cache.cc): the files an earlier run of the       *)
(* include processor has found for a compile, which are used again as long *)
(* as their directives are the same, over restarts of compiler_proxy too.  *)
(* It works with the FileStatCache of a task, which keeps the first stat   *)
(* of a file, and with IncludeCache, which keeps the directives of a file  *)
(* for the stat it was asked for.  Files change meanwhile.                 *)
(*                                                                         *)
(* The directives stand for their hash, as no two lists of them are taken  *)
(* to have one hash.  A change of a file changes its stat, and later stats *)
(* are larger.                                                             *)
(***************************************************************************)
EXTENDS Integers, FiniteSets, Sequences, SequencesExt, FiniteSetsExt, Functions

CONSTANTS
  DepsTasks,      \* compile tasks
  DepsPlans,      \* [ident, absent, edits, restarts, again]: MakeDepsIdentifier() of each
                  \* task, files that are not there at first, how often files change, how
                  \* often compiler_proxy ends or is killed, the tasks it has when it runs
                  \* again
  Sources,        \* the files
  MainFile,       \* the input file of all of them
  Candidates,     \* where the include processor looks for a header, in order
  Versions,       \* the directives each file may have: sets of headers
  IncludeEntries, \* max_cache_entries_ of IncludeCache
  TableThreshold  \* deps_table_size_threshold_

ASSUME SourcesAssumption ==
  /\ IsFiniteSet(Sources) /\ MainFile \in Sources
  /\ DOMAIN Versions = Sources /\ \A f \in Sources : Versions[f] # {}
ASSUME DepsBoundsAssumption ==
  /\ {IncludeEntries, TableThreshold} \subseteq Nat
  /\ \A p \in DepsPlans : /\ DOMAIN p.ident = DepsTasks /\ {p.edits, p.restarts} \subseteq Nat
                          /\ p.absent \subseteq Sources \ {MainFile} /\ p.again \subseteq DepsTasks

VARIABLES
  deps_plan,     \* the plan
  deps,          \* each task
  source,        \* each file: its stat, or 0, and its directives
  include_cache, \* cache_items_ of IncludeCache, oldest first
  deps_table,    \* deps_table_
  name_id,       \* filename_id_table_, 0 for no id
  loaded,        \* loaded_, which the constructor does not set
  load,          \* LoadGomaDeps(): before, names, done, stuck, undefined
  saved,         \* the cache file, and whether its hash is right
  saving,        \* SaveGomaDeps() has written the file, not yet its hash
  edits,         \* how often files have changed
  restarts       \* how often compiler_proxy has been started again

memory_vars == <<include_cache, deps_table, name_id, loaded, load>>
outside_vars == <<deps_plan, source, saved, saving, edits, restarts>>
deps_vars == <<deps, memory_vars, outside_vars>>

Unknown == -1
Idents == Range(deps_plan.ident)
NoEntry == [of |-> <<>>, stale |-> FALSE]
NoTable == [i \in Idents |-> NoEntry]
NoNames == [f \in Sources |-> 0]

\* A task: what it does, in which step; the files or headers to do and the file it is
\* at; the stats it knows; what it has found, and read; the entry it checks or makes.
\* It is stale when a file has changed since it began, and an entry is when its task
\* was, or when a file has been created since.
NewDeps ==
  [phase |-> "new", step |-> "stat", todo |-> <<>>, file |-> MainFile,
   stats |-> [f \in Sources |-> Unknown], found |-> {}, read |-> {}, entry |-> NoEntry,
   ident |-> FALSE, stale |-> FALSE]
EndDeps == [NewDeps EXCEPT !.phase = "end"]

In(t, phase, step) == deps[t].phase = phase /\ deps[t].step = step
Begins(rec, phase, todo) == [rec EXCEPT !.phase = phase, !.step = "stat", !.todo = todo, !.read = {}]
NextFile(rec) == [rec EXCEPT !.step = "stat", !.todo = Tail(@), !.read = {}]

-----------------------------------------------------------------------------
(***************************************************************************)
(* What the files say.                                                     *)
(***************************************************************************)
\* The candidates for a header up to the first that is there, in a view of stats, and
\* that one.
Tried(view, n) ==
  {Candidates[n][i] : i \in {j \in DOMAIN Candidates[n] :
                               \A k \in 1..(j - 1) : view[Candidates[n][k]] = 0}}
Found(view, n) == {f \in Tried(view, n) : view[f] # 0}

\* The files the include processor would find now.
Closure ==
  LET now == [f \in Sources |-> source[f].stat]
      More(S, f) == S \cup UNION {Found(now, n) : n \in UNION {source[g].dirs : g \in S}}
  IN  FoldLeft(More, {MainFile}, SetToSeq(Sources))

\* FileStatCache::Get().
Get(rec, f) == IF rec.stats[f] = Unknown THEN source[f].stat ELSE rec.stats[f]
View(rec) == [f \in Sources |-> Get(rec, f)]

-----------------------------------------------------------------------------
(***************************************************************************)
(* What a task does with a file.                                           *)
(***************************************************************************)
\* GetDependencies() returns false: the include processor runs.
Missed(rec) ==
  [Begins(rec, "include", <<>>) EXCEPT !.step = "root", !.found = {}, !.entry = NoEntry]

\* Mutant: a file that is gone has not been modified.
NotThereKept(rec) ==
  CASE rec.phase = "get" -> NextFile(rec)
    [] rec.phase = "include" -> Begins(rec, "compile", <<>>)
    [] rec.phase = "set" -> [rec EXCEPT !.step = "failed"]

\* There is no such file: the entry is of no use, the include processor fails, or
\* SetDependencies() does.
NotThere(rec) ==
  CASE rec.phase = "get" -> Missed(rec)
    [] rec.phase = "include" -> Begins(rec, "compile", <<>>)
    [] rec.phase = "set" -> [rec EXCEPT !.step = "failed"]

\* Its directives are known: they are compared, followed, or recorded.
Used(rec, dirs) ==
  CASE rec.phase = "get" -> IF rec.entry.of[rec.file].dirs = dirs THEN NextFile(rec) ELSE Missed(rec)
    [] rec.phase = "include" ->
         [NextFile(rec) EXCEPT !.found = @ \cup {rec.file}, !.todo = @ \o SetToSeq(dirs)]
    [] rec.phase = "set" ->
         [NextFile(rec) EXCEPT
            !.entry.of = (rec.file :> [stat |-> rec.stats[rec.file], dirs |-> dirs]) @@ @]

\* InsertFilename().
InsertFilename(f) ==
  IF name_id[f] # 0 THEN name_id ELSE [name_id EXCEPT ![f] = 1 + Max(Range(name_id))]

\* The stat of a file in GetDependencies() or SetDependencies(); IsDirectiveModified()
\* is content with one that has not changed.
StatFile(t) ==
  LET rec == deps[t]
      f == Head(rec.todo)
      knows == [rec EXCEPT !.stats[f] = Get(rec, f), !.file = f]
  IN  /\ rec.phase \in {"get", "set"} /\ rec.step = "stat" /\ rec.todo # <<>>
      /\ deps' = [deps EXCEPT ![t] =
           IF Get(rec, f) = 0 THEN NotThere(knows)
           ELSE IF rec.phase = "get" /\ rec.entry.of[f].stat = Get(rec, f) THEN NextFile(knows)
           ELSE [knows EXCEPT !.step = "look"]]
      /\ name_id' = IF rec.phase = "set" THEN InsertFilename(f) ELSE name_id
      /\ UNCHANGED <<include_cache, deps_table, loaded, load, outside_vars>>

\* HandleInclude(): the first candidate that is there.
HandleInclude(t) ==
  LET rec == deps[t]
      n == Head(rec.todo)
      files == Found(View(rec), n)
      knows == [rec EXCEPT !.stats = [f \in Sources |->
                  IF f \in Tried(View(rec), n) THEN Get(rec, f) ELSE @[f]]]
  IN  /\ In(t, "include", "stat") /\ rec.todo # <<>>
      /\ deps' = [deps EXCEPT ![t] =
           IF files = {} THEN NotThere(knows)
           ELSE IF files \subseteq rec.found THEN NextFile(knows)
           ELSE [knows EXCEPT !.step = "look", !.file = CHOOSE f \in files : TRUE]]
      /\ UNCHANGED <<memory_vars, outside_vars>>

\* Mutant: an item of the file, whatever its stat was.
SameFileItemsNotModified(f, stat) == {i \in DOMAIN include_cache : include_cache[i].file = f}

\* GetItemIfNotModifiedUnlocked().
ItemsNotModified(f, stat) == {i \in DOMAIN include_cache :
                     include_cache[i].file = f /\ include_cache[i].stat = stat}

\* GetIncludeItem() or GetDirectiveHash(): an item of the same stat, or the file is read.
LookUpItem(t) ==
  LET rec == deps[t]
      items == ItemsNotModified(rec.file, rec.stats[rec.file])
  IN  /\ rec.step = "look"
      /\ deps' = [deps EXCEPT ![t] =
           IF items # {} THEN Used(rec, include_cache[CHOOSE i \in items : TRUE].dirs)
           ELSE IF source[rec.file].stat = 0 THEN NotThere(rec)
           ELSE [rec EXCEPT !.step = "insert", !.read = source[rec.file].dirs]]
      /\ UNCHANGED <<memory_vars, outside_vars>>

\* InsertUnlocked() and EvictCacheUnlocked().
Inserted(item) ==
  LET same == {i \in DOMAIN include_cache : include_cache[i].file = item.file}
      all == IF same = {} THEN Append(include_cache, item)
             ELSE [i \in DOMAIN include_cache |-> IF i \in same THEN item ELSE include_cache[i]]
      evicted == Max({0, Len(all) - IncludeEntries})
  IN  SubSeq(all, evicted + 1, Len(all))

InsertItem(t) ==
  LET rec == deps[t]
  IN  /\ rec.step = "insert"
      /\ include_cache' =
           Inserted([file |-> rec.file, stat |-> rec.stats[rec.file], dirs |-> rec.read])
      /\ deps' = [deps EXCEPT ![t] = Used(rec, rec.read)]
      /\ UNCHANGED <<deps_table, name_id, loaded, load, outside_vars>>

-----------------------------------------------------------------------------
(***************************************************************************)
(* CompileTask and the table.  Once LoadGomaDeps() has locked itself out,  *)
(* nobody gets mu_.                                                        *)
(***************************************************************************)
\* StartIncludeProcessor(): GetDependencies() copies the entry under mu_.
StartIncludeProcessor(t) ==
  LET entry == deps_table[deps_plan.ident[t]]
      rec == [NewDeps EXCEPT !.ident = loaded]
  IN  /\ deps[t].phase = "new" /\ ~saving /\ load # "stuck"
      /\ deps' = [deps EXCEPT ![t] =
           IF loaded /\ entry # NoEntry
           THEN Begins([rec EXCEPT !.entry = entry], "get", SetToSeq(DOMAIN entry.of))
           ELSE Missed(rec)]
      /\ UNCHANGED <<memory_vars, outside_vars>>

\* GetDependencies() returns true: no file of the entry has changed.
GetDependencies(t) ==
  /\ In(t, "get", "stat") /\ deps[t].todo = <<>>
  /\ deps' = [deps EXCEPT ![t] = [Begins(@, "compile", <<>>) EXCEPT
                                     !.step = "hit", !.found = DOMAIN deps[t].entry.of]]
  /\ UNCHANGED <<memory_vars, outside_vars>>

\* GetIncludeFiles() reads the input file itself.
ReadRoot(t) ==
  /\ In(t, "include", "root")
  /\ deps' = [deps EXCEPT ![t] =
       IF source[MainFile].stat = 0 THEN NotThere(@)
       ELSE [@ EXCEPT !.step = "stat", !.found = {MainFile},
                      !.todo = SetToSeq(source[MainFile].dirs)]]
  /\ UNCHANGED <<memory_vars, outside_vars>>

\* RunIncludeProcessorDone(): the result is recorded, if the task has an identifier.
RunIncludeProcessorDone(t) ==
  /\ In(t, "include", "stat") /\ deps[t].todo = <<>>
  /\ deps' = [deps EXCEPT ![t] =
       IF loaded /\ @.ident THEN Begins(@, "set", SetToSeq(@.found)) ELSE Begins(@, "compile", <<>>)]
  /\ UNCHANGED <<memory_vars, outside_vars>>

\* Mutant: the input file is not one of them.
RecordedNoInput(rec) ==
  IF rec.step = "failed" THEN NoEntry
  ELSE [of |-> Restrict(rec.entry.of, rec.found \ {MainFile}), stale |-> rec.stale]

\* What SetDependencies() leaves of an entry.
Recorded(rec) ==
  IF rec.step = "failed" THEN NoEntry ELSE [of |-> rec.entry.of, stale |-> rec.stale]

\* The end of SetDependencies().
SetDependencies(t) ==
  /\ \/ In(t, "set", "failed")
     \/ In(t, "set", "stat") /\ deps[t].todo = <<>>
  /\ load # "stuck"
  /\ deps_table' = [deps_table EXCEPT ![deps_plan.ident[t]] = Recorded(deps[t])]
  /\ deps' = [deps EXCEPT ![t] = Begins(@, "compile", <<>>)]
  /\ UNCHANGED <<include_cache, name_id, loaded, load, outside_vars>>

\* The rest of the compile, and RemoveDependency() if it fails.
Compile(t) ==
  /\ deps[t].phase = "compile"
  /\ \/ UNCHANGED deps_table
     \/ /\ loaded /\ deps[t].ident /\ load # "stuck"
        /\ deps_table' = [deps_table EXCEPT ![deps_plan.ident[t]] = NoEntry]
  /\ deps' = [deps EXCEPT ![t] = EndDeps]
  /\ UNCHANGED <<include_cache, name_id, loaded, load, outside_vars>>

-----------------------------------------------------------------------------
(***************************************************************************)
(* The cache file.                                                         *)
(***************************************************************************)
\* Tasks that have ids of the tables with them.
Holders == {t \in DepsTasks : deps[t].phase \in {"get", "set"}}

\* LoadGomaDeps() fails: Clear().  Whoever has ids then looks them up in vain.
LoadFails ==
  /\ deps_table' = NoTable /\ name_id' = NoNames /\ loaded' = TRUE
  /\ load' = IF Holders = {} THEN "done" ELSE "undefined"

\* InsertEntryUnlocked() meets another name with the id, or another id of the name.
IdConflict ==
  \E f \in Sources : /\ saved.names[f] # 0
                     /\ \/ name_id[f] \notin {0, saved.names[f]}
                        \/ \E g \in Sources \ {f} : name_id[g] = saved.names[f]

\* LoadGomaDeps() until it has the names.
LoadNames ==
  /\ load = "before"
  /\ IF ~saved.ok \/ IdConflict
     THEN LoadFails
     ELSE /\ name_id' = [f \in Sources |-> IF saved.names[f] # 0 THEN saved.names[f] ELSE name_id[f]]
          /\ load' = "names" /\ UNCHANGED <<deps_table, loaded>>
  /\ UNCHANGED <<deps, include_cache, outside_vars>>

\* The rest of it, with mu_, for the identifiers that are not too old.  One that is in
\* the table makes it call Clear(), which waits for mu_.
LoadTable(young) ==
  /\ load = "names"
  /\ IF \E i \in young : saved.table[i] # NoEntry /\ deps_table[i] # NoEntry
     THEN load' = "stuck" /\ UNCHANGED <<deps_table, loaded>>
     ELSE /\ deps_table' = [i \in Idents |-> IF i \in young /\ saved.table[i] # NoEntry
                                             THEN saved.table[i] ELSE deps_table[i]]
          /\ load' = "done" /\ loaded' = TRUE
  /\ UNCHANGED <<deps, include_cache, name_id, outside_vars>>

\* Mutant: entries with other directives are saved too.
SavedEntryAll(entry, latest) == [entry EXCEPT !.of = [f \in DOMAIN @ |-> latest[f]]]

\* An entry as it is saved: with the stat that is saved for each file, if all its
\* directives are the ones that are saved.
SavedEntry(entry, latest) ==
  IF \A f \in DOMAIN entry.of : entry.of[f].dirs = latest[f].dirs
  THEN [entry EXCEPT !.of = [f \in DOMAIN @ |-> latest[f]]] ELSE NoEntry

\* SaveGomaDeps() in Quit(), after the tasks: the identifiers that are young, and not
\* too many; of every file the latest stat.  The hash that is there is right only if
\* this is what was saved before, and all of it is written.
SaveGomaDeps(young) ==
  LET all == [f \in UNION {DOMAIN deps_table[i].of : i \in young} |->
                {deps_table[i].of[f] : i \in {j \in young : f \in DOMAIN deps_table[j].of}}]
      last == [f \in DOMAIN all |-> {r \in all[f] : \A q \in all[f] : q.stat <= r.stat}]
  IN  /\ load = "done" /\ ~saving /\ restarts < deps_plan.restarts
      /\ \A t \in DepsTasks : deps[t].phase \in {"new", "end"}
      /\ young = {i \in Idents : deps_table[i] # NoEntry} \/ Cardinality(young) <= TableThreshold
      /\ \E latest \in [DOMAIN all -> UNION Range(all)] :
           /\ \A f \in DOMAIN all : latest[f] \in last[f]
           /\ LET table == [i \in Idents |-> IF i \in young THEN SavedEntry(deps_table[i], latest)
                                             ELSE NoEntry]
                  used == UNION {DOMAIN table[i].of : i \in Idents}
                  names == [f \in Sources |-> IF f \in used THEN name_id[f] ELSE 0]
              IN  \E right \in {FALSE, saved.ok /\ saved.table = table /\ saved.names = names} :
                    saved' = [ok |-> right, table |-> table, names |-> names]
      /\ saving' = TRUE
      /\ UNCHANGED <<deps, memory_vars, deps_plan, source, edits, restarts>>

\* A new process, with new tasks and nothing in memory; loaded_ is what it is.
Restarted ==
  /\ restarts < deps_plan.restarts /\ restarts' = restarts + 1
  /\ deps' = [t \in DepsTasks |-> IF t \in deps_plan.again THEN NewDeps ELSE EndDeps]
  /\ include_cache' = <<>> /\ deps_table' = NoTable /\ name_id' = NoNames
  /\ loaded' \in BOOLEAN /\ load' = "before" /\ saving' = FALSE
  /\ UNCHANGED <<deps_plan, source, edits>>

\* The hash is written, and the next process starts.
SaveHash == saving /\ Restarted /\ saved' = [saved EXCEPT !.ok = TRUE]

\* It is killed instead.
DepsKilled == Restarted /\ UNCHANGED saved

-----------------------------------------------------------------------------
(***************************************************************************)
(* The files change (external).                                            *)
(***************************************************************************)
Staled(entry) == [entry EXCEPT !.stale = entry # NoEntry]

Changed(f, stat, dirs) ==
  /\ edits < deps_plan.edits /\ edits' = edits + 1
  /\ source' = [source EXCEPT ![f] = [stat |-> stat, dirs |-> dirs]]
  /\ deps' = [t \in DepsTasks |-> [deps[t] EXCEPT !.stale = deps[t].phase \notin {"new", "end"}]]
  /\ UNCHANGED <<deps_plan, include_cache, name_id, loaded, load, saving, restarts>>

Edit(f) ==
  /\ source[f].stat # 0
  /\ \E dirs \in Versions[f] : Changed(f, edits + 2, dirs)
  /\ UNCHANGED <<deps_table, saved>>

Delete(f) ==
  /\ source[f].stat # 0 /\ Changed(f, 0, {})
  /\ UNCHANGED <<deps_table, saved>>

Create(f) ==
  /\ source[f].stat = 0
  /\ \E dirs \in Versions[f] : Changed(f, edits + 2, dirs)
  /\ deps_table' = [i \in Idents |-> Staled(deps_table[i])]
  /\ saved' = [saved EXCEPT !.table = [i \in Idents |-> Staled(@[i])]]

-----------------------------------------------------------------------------
DepsInit ==
  /\ deps_plan \in DepsPlans
  /\ deps = [t \in DepsTasks |-> NewDeps]
  /\ \E version \in [Sources -> UNION Range(Versions)] :
       /\ \A f \in Sources : version[f] \in Versions[f]
       /\ source = [f \in Sources |-> IF f \in deps_plan.absent THEN [stat |-> 0, dirs |-> {}]
                                      ELSE [stat |-> 1, dirs |-> version[f]]]
  /\ include_cache = <<>> /\ deps_table = NoTable /\ name_id = NoNames
  /\ loaded \in BOOLEAN /\ load = "before"
  /\ saved = [ok |-> FALSE, table |-> NoTable, names |-> NoNames]
  /\ saving = FALSE /\ edits = 0 /\ restarts = 0

DepsTaskNext(t) ==
  \/ StartIncludeProcessor(t) \/ StatFile(t) \/ HandleInclude(t) \/ LookUpItem(t)
  \/ InsertItem(t) \/ GetDependencies(t) \/ ReadRoot(t) \/ RunIncludeProcessorDone(t)
  \/ SetDependencies(t) \/ Compile(t)

DepsNext ==
  /\ load # "undefined"
  /\ \/ \E t \in DepsTasks : DepsTaskNext(t)
     \/ LoadNames
     \/ \E young \in SUBSET Idents : LoadTable(young) \/ SaveGomaDeps(young)
     \/ SaveHash \/ DepsKilled
     \/ \E f \in Sources : Edit(f) \/ Delete(f) \/ Create(f)

-----------------------------------------------------------------------------
(***************************************************************************)
(* Properties.                                                             *)
(***************************************************************************)
\* No file of an entry would be found modified.
Unmodified(entry) ==
  /\ entry # NoEntry
  /\ \A f \in DOMAIN entry.of :
       source[f].stat # 0 /\ (entry.of[f].stat = source[f].stat \/ entry.of[f].dirs = source[f].dirs)

\* An entry tells the files the include processor would find as long as GetDependencies()
\* finds nothing modified, in memory, in the file and over a restart, and so does a hit:
\* unless a file changed while the entry was made, or was created since.  What the include
\* processor finds is right too, unless a file changed meanwhile: no item of IncludeCache
\* is used for a file that is not the one that was read.
DepsExact ==
  /\ \A i \in Idents : \A entry \in {deps_table[i], saved.table[i]} :
       Unmodified(entry) /\ ~entry.stale => DOMAIN entry.of = Closure
  /\ \A t \in DepsTasks :
       /\ In(t, "compile", "hit") /\ ~deps[t].stale /\ ~deps[t].entry.stale =>
            deps[t].found = Closure
       /\ deps[t].phase = "set" /\ ~deps[t].stale => deps[t].found = Closure
===============================================================================

--------------------------- MODULE LocalOutputCache ---------------------------
(***************************************************************************)
(* LocalOutputCache (client/local_output_cache.cc): outputs of compile     *)
(* tasks on the disk, by the hash of the request, and the thread that      *)
(* collects the oldest of them.  compiler_proxy may be killed at any time  *)
(* and start again with the files it left.                                 *)
(*                                                                         *)
(* A file is named after the task that created it (its inode): a file that *)
(* is open is not the one its name leads to once that was renamed.         *)
(***************************************************************************)
EXTENDS Integers, FiniteSets, Sequences, SequencesExt, FiniteSetsExt

CONSTANTS
  Savers,          \* compile tasks
  Keys,            \* what MakeCacheKey() tells apart
  SaverKeys,       \* the keys the tasks may have
  AmountOf,        \* the bytes of the entry of a key
  MaxAmount,       \* max_cache_amount_byte_
  ThresholdAmount, \* threshold_cache_amount_byte_
  MaxItems,        \* max_cache_items_
  ThresholdItems,  \* threshold_cache_items_
  MaxKills         \* how often compiler_proxy is killed

ASSUME SaversAssumption == IsFiniteSet(Savers) /\ Savers \cap {"old", "none"} = {}
ASSUME AmountsAssumption ==
  IsFiniteSet(Keys) /\ AmountOf \in [Keys -> Nat \ {0}] /\ SaverKeys \subseteq [Savers -> Keys]
ASSUME CacheLimitsAssumption ==
  /\ {MaxAmount, ThresholdAmount, MaxItems, ThresholdItems, MaxKills} \subseteq Nat
  /\ ThresholdAmount <= MaxAmount /\ ThresholdItems <= MaxItems

VARIABLES
  saver,       \* each task: where it is, its key, the file it has open
  file,        \* CacheFilePath(key): the file of that name
  tmp,         \* likewise with the suffix .tmp
  whole,       \* files with all of an entry in them
  entries,     \* entries_, the keys in their order
  amount,      \* entries_total_cache_amount_
  ready,       \* ready_
  gc,          \* the GC thread
  should_done, \* gc_should_done_
  cache_quit,  \* Quit(): no, wait, deleted
  doubled,     \* keys that were saved twice at a time, or again
  killed       \* how often it was

output_vars == <<saver, file, tmp, whole, entries, amount, ready, gc, should_done,
                 cache_quit, doubled, killed>>
disk_vars == <<file, tmp, whole>>
gc_vars == <<gc, should_done, cache_quit, killed>>

NoFile == "none"
Saver(at, key, open) == [at |-> at, key |-> key, open |-> open]
Is(s, at) == saver[s].at = at
KeyOf(s) == saver[s].key
Goes(s, at) == saver' = [saver EXCEPT ![s].at = at]

\* A call of the cache: the object is there and has been loaded.
Usable == ready /\ cache_quit # "deleted"

-----------------------------------------------------------------------------
(***************************************************************************)
(* Loading.                                                                *)
(***************************************************************************)
AmountIn(keys) == FoldSet(LAMBDA k, sum : sum + AmountOf[k], 0, keys)

\* LoadCacheEntries(): the directories that can be listed, oldest files first.
\* What is left of a file that was being written has no valid name and goes.
LoadCacheEntries ==
  /\ ~ready
  /\ \E listed \in SUBSET Keys :
       LET loaded == {k \in listed : file[k] # NoFile}
       IN  /\ entries' \in SetToSeqs(loaded)
           /\ amount' = AmountIn(loaded)
           /\ tmp' = [k \in Keys |-> IF k \in listed THEN NoFile ELSE tmp[k]]
  /\ ready' = TRUE
  /\ UNCHANGED <<saver, file, whole, gc_vars, doubled>>

-----------------------------------------------------------------------------
(***************************************************************************)
(* Lookup().                                                               *)
(***************************************************************************)
LookupEntry(s) ==
  /\ Is(s, "new") /\ Usable
  /\ Goes(s, IF KeyOf(s) \in ToSet(entries) THEN "read" ELSE "compile")
  /\ UNCHANGED <<disk_vars, entries, amount, ready, gc_vars, doubled>>

\* The file may have been collected meanwhile, and one that is not whole may look
\* as if it were.
LookupRead(s) ==
  /\ Is(s, "read") /\ Usable
  /\ \E good \in IF file[KeyOf(s)] \in {NoFile} \cup whole
                 THEN {file[KeyOf(s)] # NoFile} ELSE BOOLEAN :
       Goes(s, IF good THEN "touch" ELSE "compile")
  /\ UNCHANGED <<disk_vars, entries, amount, ready, gc_vars, doubled>>

\* UpdateCacheEntry().
UpdateCacheEntry(s) ==
  /\ Is(s, "touch") /\ Usable
  /\ entries' = IF KeyOf(s) \in ToSet(entries)
                THEN Append(RemoveFirst(entries, KeyOf(s)), KeyOf(s)) ELSE entries
  /\ Goes(s, "hit")
  /\ UNCHANGED <<disk_vars, amount, ready, gc_vars, doubled>>

\* A task that begins after Quit() finds the cache disabled.
Uncached(s) ==
  /\ saver[s].at \in {"new", "compile"} /\ cache_quit = "deleted"
  /\ Goes(s, "uncached")
  /\ UNCHANGED <<disk_vars, entries, amount, ready, gc_vars, doubled>>

-----------------------------------------------------------------------------
(***************************************************************************)
(* SaveOutput().                                                           *)
(***************************************************************************)
\* The compile task has failed, or SaveOutput() before it writes anything.
SaveNothing(s) ==
  /\ Is(s, "compile") /\ Usable
  /\ Goes(s, "unsaved")
  /\ UNCHANGED <<disk_vars, entries, amount, ready, gc_vars, doubled>>

Saving(s) == saver[s].at \in {"write", "rename", "add", "wake"}

\* Mutant: the entry is written under its own name.
SaveOpenInPlace(s) ==
  LET k == KeyOf(s)
  IN  /\ Is(s, "compile") /\ Usable
      /\ saver' = [saver EXCEPT ![s] = Saver("write", k, s)]
      /\ file' = [file EXCEPT ![k] = s] /\ tmp' = [tmp EXCEPT ![k] = s]
      /\ UNCHANGED <<whole, entries, amount, ready, gc_vars, doubled>>

\* WriteStringToFile() opens the temporary file, which is new or emptied.
SaveOpen(s) ==
  LET k == KeyOf(s)
      f == IF tmp[k] = NoFile THEN s ELSE tmp[k]
      again == \/ k \in ToSet(entries)
               \/ \E t \in Savers \ {s} : KeyOf(t) = k /\ Saving(t)
  IN  /\ Is(s, "compile") /\ Usable
      /\ saver' = [saver EXCEPT ![s] = Saver("write", k, f)]
      /\ tmp' = [tmp EXCEPT ![k] = f]
      /\ whole' = whole \ {f}
      /\ doubled' = IF again THEN doubled \cup {k} ELSE doubled
      /\ UNCHANGED <<file, entries, amount, ready, gc_vars>>

\* It writes all, or fails.  Two tasks that write one file may mix it up.
SaveWrite(s) ==
  LET f == saver[s].open
      shared == \E t \in Savers \ {s} : Saving(t) /\ saver[t].open = f
  IN  /\ Is(s, "write") /\ Usable
      /\ \/ /\ whole' \in {whole \cup {f}} \cup (IF shared THEN {whole \ {f}} ELSE {})
            /\ Goes(s, "rename")
         \/ Goes(s, "unsaved") /\ UNCHANGED whole
      /\ UNCHANGED <<file, tmp, entries, amount, ready, gc_vars, doubled>>

\* rename(); if there is nothing to rename, the entry itself is deleted.
SaveRename(s) ==
  LET k == KeyOf(s)
  IN  /\ Is(s, "rename") /\ Usable
      /\ file' = [file EXCEPT ![k] = tmp[k]]
      /\ tmp' = [tmp EXCEPT ![k] = NoFile]
      /\ Goes(s, IF tmp[k] = NoFile THEN "unsaved" ELSE "add")
      /\ UNCHANGED <<whole, entries, amount, ready, gc_vars, doubled>>

\* ShouldInvokeGarbageCollectionUnlocked() and
\* ShouldContinueGarbageCollectionUnlocked().
ShouldInvoke(e, total) == MaxAmount < total \/ MaxItems < Len(e)
ShouldContinue(e, total) ==
  ShouldInvoke(e, total) \/ ThresholdAmount < total \/ ThresholdItems < Len(e)

\* Mutant: the thread is woken when it has more than it had room for before.
AddCacheEntryLate(s) ==
  LET k == KeyOf(s)
  IN  /\ Is(s, "add") /\ Usable
      /\ entries' = Append(RemoveFirst(entries, k), k)
      /\ amount' = amount + AmountOf[k]
      /\ Goes(s, IF ShouldInvoke(entries, amount) THEN "wake" ELSE "saved")
      /\ UNCHANGED <<disk_vars, ready, gc_vars, doubled>>

\* AddCacheEntry() under entries_mu_: an entry of the key is replaced.
AddCacheEntry(s) ==
  LET k == KeyOf(s)
  IN  /\ Is(s, "add") /\ Usable
      /\ entries' = Append(RemoveFirst(entries, k), k)
      /\ amount' = amount + AmountOf[k]
      /\ Goes(s, IF ShouldInvoke(entries', amount') THEN "wake" ELSE "saved")
      /\ UNCHANGED <<disk_vars, ready, gc_vars, doubled>>

Awake == IF gc = "waiting" THEN "check" ELSE gc

\* WakeGCThread(), under gc_mu_.
WakeGCThread(s) ==
  /\ Is(s, "wake") /\ Usable
  /\ gc' = Awake
  /\ Goes(s, "saved")
  /\ UNCHANGED <<disk_vars, entries, amount, ready, should_done, cache_quit,
                 killed, doubled>>

-----------------------------------------------------------------------------
(***************************************************************************)
(* GarbageCollectionThread().                                              *)
(***************************************************************************)
\* One turn of the inner loop, under gc_mu_, which Wait() gives up.
GcCheck ==
  /\ gc = "check" /\ ready
  /\ gc' = IF should_done THEN "done"
           ELSE IF ShouldInvoke(entries, amount) THEN "collect" ELSE "waiting"
  /\ UNCHANGED <<saver, disk_vars, entries, amount, ready, should_done, cache_quit,
                 killed, doubled>>

\* One turn of RunGarbageCollection(), under entries_mu_.  It looks at the front
\* of the list whether there is one or not, which is undefined if not.
RunGarbageCollection ==
  /\ gc = "collect"
  /\ \/ /\ ~ShouldContinue(entries, amount)
        /\ gc' = "check"
        /\ UNCHANGED <<file, entries, amount>>
     \/ /\ ShouldContinue(entries, amount) /\ entries = <<>>
        /\ gc' = "undefined"
        /\ UNCHANGED <<file, entries, amount>>
     \/ /\ ShouldContinue(entries, amount) /\ entries # <<>>
        /\ file[Head(entries)] = NoFile
        /\ gc' = "check"
        /\ UNCHANGED <<file, entries, amount>>
     \/ /\ ShouldContinue(entries, amount) /\ entries # <<>>
        /\ file[Head(entries)] # NoFile
        /\ file' = [file EXCEPT ![Head(entries)] = NoFile]
        /\ entries' = Tail(entries)
        /\ amount' = amount - AmountOf[Head(entries)]
        /\ UNCHANGED gc
  /\ UNCHANGED <<saver, tmp, whole, ready, should_done, cache_quit, killed, doubled>>

\* Quit() on the main thread, before the compile tasks have ended.
QuitStop ==
  /\ cache_quit = "no" /\ ready
  /\ cache_quit' = "wait" /\ should_done' = TRUE /\ gc' = Awake
  /\ UNCHANGED <<saver, disk_vars, entries, amount, ready, killed, doubled>>

QuitDelete ==
  /\ cache_quit = "wait" /\ gc = "done"
  /\ cache_quit' = "deleted"
  /\ UNCHANGED <<saver, disk_vars, entries, amount, ready, gc, should_done, killed,
                 doubled>>

\* compiler_proxy is killed and starts again; its tasks are gone.
Killed ==
  /\ killed < MaxKills /\ cache_quit # "deleted"
  /\ killed' = killed + 1
  /\ saver' = [s \in Savers |->
       IF Is(s, "new") THEN saver[s] ELSE Saver("gone", KeyOf(s), NoFile)]
  /\ entries' = <<>> /\ amount' = 0 /\ ready' = FALSE
  /\ gc' = "check" /\ should_done' = FALSE /\ cache_quit' = "no"
  /\ UNCHANGED <<disk_vars, doubled>>

-----------------------------------------------------------------------------
\* Some keys have a file from an earlier run.
OutputInit ==
  /\ saver \in {[s \in Savers |-> Saver("new", f[s], NoFile)] : f \in SaverKeys}
  /\ file \in [Keys -> {NoFile, "old"}] /\ tmp = [k \in Keys |-> NoFile]
  /\ whole = {"old"}
  /\ entries = <<>> /\ amount = 0 /\ ready = FALSE
  /\ gc = "check" /\ should_done = FALSE /\ cache_quit = "no"
  /\ doubled = {} /\ killed = 0

SaverStep(s) ==
  \/ LookupEntry(s) \/ LookupRead(s) \/ UpdateCacheEntry(s) \/ Uncached(s)
  \/ SaveNothing(s) \/ SaveOpen(s) \/ SaveWrite(s) \/ SaveRename(s)
  \/ AddCacheEntry(s) \/ WakeGCThread(s)

GcStep == GcCheck \/ RunGarbageCollection

OutputNext ==
  \/ \E s \in Savers : SaverStep(s)
  \/ LoadCacheEntries \/ GcStep \/ QuitStop \/ QuitDelete \/ Killed

OutputSpec == OutputInit /\ [][OutputNext]_output_vars

\* Threads go on; nobody has to call Quit().
OutputFairness ==
  /\ \A s \in Savers : WF_output_vars(SaverStep(s))
  /\ WF_output_vars(LoadCacheEntries) /\ WF_output_vars(GcStep)
  /\ WF_output_vars(QuitDelete)

-----------------------------------------------------------------------------
(***************************************************************************)
(* Properties.                                                             *)
(***************************************************************************)
\* The type invariant of the cache.
OutputTypeOK ==
  /\ \A s \in Savers : KeyOf(s) \in Keys
  /\ file \in [Keys -> Savers \cup {"old", NoFile}]
  /\ tmp \in [Keys -> Savers \cup {"old", NoFile}]
  /\ whole \subseteq Savers \cup {"old"} /\ ToSet(entries) \subseteq Keys
  /\ Len(entries) = Cardinality(ToSet(entries)) /\ amount \in Nat
  /\ gc \in {"check", "waiting", "collect", "done", "undefined"}
  /\ {ready, should_done} \subseteq BOOLEAN
  /\ cache_quit \in {"no", "wait", "deleted"}

\* The cache on the disk and the one in memory agree, however often the process
\* was killed in between, as long as no two tasks save the same key: an entry has
\* its file, no file that has its own name was cut short, and the bytes are those
\* of the entries.
CacheMatchesDisk ==
  doubled = {} =>
    /\ \A k \in ToSet(entries) : file[k] # NoFile
    /\ \A k \in Keys : file[k] # NoFile => file[k] \in whole
    /\ amount = AmountIn(ToSet(entries))

\* The GC thread does not sleep when it has to collect or to end, unless somebody
\* is about to wake it.
GcNotAsleep ==
  gc = "waiting" =>
    /\ ~should_done
    /\ ShouldInvoke(entries, amount) => \E s \in Savers : Is(s, "wake")

\* What is on the disk, what is in memory and what the thread does about it.
OutputCacheExact == CacheMatchesDisk /\ GcNotAsleep

\* Tasks are through with the cache, Quit() has returned, and there is no more in
\* the cache than allowed, unless a key was saved twice: then a file may be missing
\* and the thread tries to collect it for ever.
OutputsKept ==
  \/ gc = "undefined"
  \/ /\ cache_quit = "deleted" \/ \A s \in Savers : ~Saving(s)
     /\ cache_quit \in {"no", "deleted"}
     /\ \/ doubled # {} \/ cache_quit = "deleted"
        \/ ~ShouldInvoke(entries, amount)
===============================================================================

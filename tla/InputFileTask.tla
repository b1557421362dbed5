---------------------------- MODULE InputFileTask -----------------------------
(***************************************************************************)
(* InputFileTask (client/task/input_file_task.cc): the input files of      *)
(* compile tasks.  Tasks that need the same file at the same time share    *)
(* one InputFileTask, which computes its hash key and uploads or embeds    *)
(* it; FileHashCache (client/file_hash_cache.cc) remembers for later tasks *)
(* which keys are known and when their content was uploaded.               *)
(*                                                                         *)
(* Of CompileTask the module has ProcessFileRequest, InputFileTaskFinished *)
(* and what the server answers about missing inputs.  A compile task runs  *)
(* on a thread of its own; Run() of an InputFileTask on any thread.        *)
(***************************************************************************)
EXTENDS Integers, FiniteSets, Sequences

CONSTANTS
  Users,      \* compile tasks
  Links,      \* those with flags_->is_linking()
  InputPlans  \* what they compile: records of files, sizes and rounds

Sizes == {"absent", "tiny", "mid", "large"}
ASSUME UsersAssumption == IsFiniteSet(Users) /\ Links \subseteq Users
\* size has the sizes of required_files_, in their order; a plan's rounds bound the
\* requests of a task, the first one and its retries.
ASSUME PlansAssumption ==
  \A p \in InputPlans : /\ p.rounds \in Nat \ {0}
                        /\ p.size \in Seq(Sizes)
                        /\ p.rsp \subseteq DOMAIN p.size

VARIABLES
  plan,        \* the plan of this behaviour
  by_filename, \* task_by_filename_
  file_task,   \* the InputFileTasks that were made
  compile,     \* the compile tasks
  file_cache,  \* file_cache_ of FileHashCache
  known_keys,  \* known_cache_keys_ of FileHashCache, by file
  clock        \* number of requests made: absl::Now(), as far as it matters

input_vars == <<plan, by_filename, file_task, compile, file_cache, known_keys,
                clock>>
cache_vars == <<file_cache, known_keys>>

Files == DOMAIN plan.size
InOrder == [f \in Files |-> f]
Size(f) == plan.size[f]
NoTask == <<>>

\* An InputFileTask is named after the task, round and file it was made for.
Named(u, f) == <<u, compile[u].round, f>>
FileTasks == Users \X (1..plan.rounds) \X Files
FileOf(o) == o[3]

Unmade == [state |-> "none", at |-> "idle", tasks |-> {}, callbacks |-> {},
           posts |-> {}, missed |-> FALSE, hash_only |-> FALSE, is_new |-> FALSE,
           old_key |-> FALSE, key |-> FALSE, blob |-> FALSE, success |-> FALSE,
           new_key |-> FALSE, side |-> FALSE]

-----------------------------------------------------------------------------
(***************************************************************************)
(* FileHashCache.  An entry has the time of its last upload, 0 for none.   *)
(* The stat of a file is invalid if it is absent; otherwise files do not   *)
(* change.                                                                 *)
(***************************************************************************)
Entry(uploaded) == [in |-> TRUE, uploaded |-> uploaded]
NoEntry == [in |-> FALSE, uploaded |-> 0]

\* GetFileCacheKey(): an entry is good for a file that was missed at a time
\* only if it was uploaded since.  last_checked may be too close to mtime.
GetFileCacheKey(f, missed_timestamp, checked) ==
  /\ Size(f) # "absent" /\ file_cache[f].in /\ checked
  /\ missed_timestamp # 0 => missed_timestamp <= file_cache[f].uploaded

\* StoreFileCacheKey(): without a time the entry keeps the one it has.
StoreFileCacheKey(cache, f, uploaded) ==
  [cache EXCEPT ![f] =
     IF Size(f) = "absent" THEN NoEntry
     ELSE Entry(IF uploaded = 0 THEN @.uploaded ELSE uploaded)]

-----------------------------------------------------------------------------
(***************************************************************************)
(* CompileTask::ProcessFileRequest().                                      *)
(***************************************************************************)
NewInputFileTask(u, f, is_new, old_key) ==
  LET made == by_filename[f] = NoTask
      o == IF made THEN Named(u, f) ELSE by_filename[f]
  IN  /\ by_filename' = [by_filename EXCEPT ![f] = o]
      /\ file_task' = [file_task EXCEPT ![o] =
           IF made
           THEN [Unmade EXCEPT !.state = "INIT", !.tasks = {u},
                               !.missed = f \in compile[u].missing,
                               !.hash_only = u \in Links, !.is_new = is_new,
                               !.old_key = old_key]
           ELSE [file_task[o] EXCEPT !.tasks = @ \cup {u}]]
      /\ compile' = [compile EXCEPT ![u].todo = Tail(@), ![u].of[f] = o,
                                    ![u].num = @ + 1]

\* One file of the loop: a key that can be trusted is used as it is.  A file is
\* new if it was modified lately or if need_to_send_content is on, which makes no
\* difference to an absent one.
AddInput(u, f) ==
  /\ compile[u].at = "build" /\ compile[u].todo # <<>> /\ f = Head(compile[u].todo)
  /\ \E checked \in BOOLEAN,
        is_new \in IF Size(f) = "absent" THEN {FALSE} ELSE BOOLEAN :
       LET missed == f \in compile[u].missing
           stamp == IF missed THEN compile[u].last_req ELSE 0
       IN  IF GetFileCacheKey(f, stamp, checked)
           THEN /\ compile' = [compile EXCEPT ![u].todo = Tail(@),
                     ![u].interleaved = IF missed THEN @ \cup {f} ELSE @]
                /\ UNCHANGED <<by_filename, file_task, file_cache>>
           ELSE /\ NewInputFileTask(u, f, is_new, file_cache[f].in)
                /\ file_cache' = IF Size(f) = "absent"
                                 THEN [file_cache EXCEPT ![f] = NoEntry]
                                 ELSE file_cache
  /\ UNCHANGED <<plan, known_keys, clock>>

\* The end of the loop: Run() of every InputFileTask is posted, or there is none
\* and the callback runs at once.
PostRuns(u) ==
  /\ compile[u].at = "build" /\ compile[u].todo = <<>>
  /\ compile' = [compile EXCEPT
       ![u].at = IF compile[u].num = 0 THEN "built" ELSE "wait",
       ![u].calls = IF compile[u].num = 0 THEN @ + 1 ELSE @,
       ![u].runs = {f \in Files : compile[u].of[f] # NoTask}]
  /\ UNCHANGED <<plan, by_filename, file_task, cache_vars, clock>>

-----------------------------------------------------------------------------
(***************************************************************************)
(* InputFileTask::Run().                                                   *)
(***************************************************************************)
Set(o, task) == file_task' = [file_task EXCEPT ![o] = task]
Post(u, f) == compile' = [compile EXCEPT ![u].finished = @ \cup {f}]

\* The first task runs it, those that come meanwhile wait for it, and those that
\* come later are through.
Run(u, f) ==
  LET o == compile[u].of[f]
      t == file_task[o]
      started == [compile EXCEPT ![u].runs = @ \ {f}]
  IN  /\ f \in compile[u].runs
      /\ \/ /\ t.state = "INIT"
            /\ Set(o, [t EXCEPT !.state = "RUN", !.at = "compute",
                                !.posts = {u}])
            /\ compile' = started
         \/ /\ t.state = "RUN"
            /\ Set(o, [t EXCEPT !.callbacks = @ \cup {u}])
            /\ compile' = started
         \/ /\ t.state = "DONE"
            /\ compile' = [started EXCEPT ![u].finished = @ \cup {f}]
            /\ UNCHANGED file_task
      /\ UNCHANGED <<plan, by_filename, cache_vars, clock>>

\* Mutant: content the server has missed is sent as a key.
need_to_upload_contentUnlessKnown(t, f, changed) ==
  f \in plan.rsp \/ (t.is_new /\ t.new_key) \/ (t.old_key /\ changed)

\* need_to_upload_content(): changed says that the key is not the old one.
need_to_upload_content(t, f, changed) ==
  \/ t.missed
  \/ f \in plan.rsp
  \/ t.is_new /\ t.new_key
  \/ t.old_key /\ changed

\* ComputeKey(), unless the file is to be uploaded anyway or is tiny.  (The size of
\* an absent one is -1, which is large where it is compared with a size_t.)
ComputeKey(o) ==
  LET t == file_task[o]
      f == FileOf(o)
  IN  /\ t.at = "compute"
      /\ IF need_to_upload_content(t, f, FALSE) \/ Size(f) = "tiny"
         THEN Set(o, [t EXCEPT !.at = "upload"])
         ELSE \E ok \in IF Size(f) = "absent" THEN {FALSE} ELSE BOOLEAN :
                Set(o, [t EXCEPT !.at = "upload", !.success = ok, !.key = ok,
                                 !.new_key = IF ok THEN f \notin known_keys
                                                   ELSE @])
      /\ UNCHANGED <<plan, by_filename, compile, cache_vars, clock>>

\* Upload() and Embed() of FileServiceBlobUploader: what they do for t, if ok.
\* Upload() stores the chunks of a large file; a smaller one it only reads, and
\* the content goes into the request all the same.
Uploaded(t, ok) == [t EXCEPT !.success = ok, !.blob = ok, !.side = ok]
Embedded(t, ok) == [t EXCEPT !.success = ok, !.blob = ok]

\* The file is uploaded beside the request, embedded into it, or known to the
\* server by its key.  A file that ComputeKey() has read is embedded without
\* reading it again.
Loaded(t, f, changed, ok, read) ==
  IF need_to_upload_content(t, f, changed)
  THEN IF t.hash_only \/ (t.missed /\ Size(f) \in {"large", "absent"})
       THEN Uploaded(t, ok) ELSE Embedded(t, read)
  ELSE IF Size(f) = "tiny"
  THEN Embedded([t EXCEPT !.hash_only = FALSE], read)
  ELSE t

\* The key is stored, unless it is embedded.
StoresKey(r) == r.success /\ (r.side \/ ~r.is_new)

\* What is needed no more is reset.
Reset(t, r) ==
  [Unmade EXCEPT !.at = "erase", !.state = t.state, !.tasks = t.tasks,
                 !.callbacks = t.callbacks, !.posts = t.posts, !.missed = t.missed,
                 !.success = r.success, !.blob = r.blob]

Upload(o) ==
  LET t == file_task[o]
      f == FileOf(o)
      outcome == IF Size(f) = "absent" THEN {FALSE} ELSE BOOLEAN
  IN  /\ t.at = "upload"
      /\ \E changed \in IF t.key THEN BOOLEAN ELSE {FALSE},
            ok \in outcome, read \in IF t.key THEN {TRUE} ELSE outcome :
           LET r == Loaded(t, f, changed, ok, read)
           IN  /\ Set(o, Reset(t, r))
               /\ file_cache' =
                    IF StoresKey(r)
                    THEN StoreFileCacheKey(file_cache, f,
                                           IF r.side THEN clock ELSE 0)
                    ELSE file_cache
               /\ known_keys' = IF StoresKey(r) THEN known_keys \cup {f}
                                ELSE known_keys
      /\ UNCHANGED <<plan, by_filename, compile, clock>>

\* Mutant: the task can still be found when it is DONE.
EraseLate(o) ==
  /\ file_task[o].at = "erase"
  /\ Set(o, [file_task[o] EXCEPT !.at = "finish"])
  /\ UNCHANGED <<plan, by_filename, compile, cache_vars, clock>>

\* The task is taken out of task_by_filename_, under global_mu_.
Erase(o) ==
  /\ file_task[o].at = "erase"
  /\ by_filename' = [by_filename EXCEPT ![FileOf(o)] = NoTask]
  /\ Set(o, [file_task[o] EXCEPT !.at = "finish"])
  /\ UNCHANGED <<plan, compile, cache_vars, clock>>

\* Mutant: a task that comes between the two critical sections is forgotten.
FinishForgets(o) ==
  /\ file_task[o].at = "finish"
  /\ Set(o, [file_task[o] EXCEPT !.state = "DONE", !.at = "post"])
  /\ UNCHANGED <<plan, by_filename, compile, cache_vars, clock>>

\* The task is DONE and takes over its callbacks, under mu_.
Finish(o) ==
  LET t == file_task[o]
  IN  /\ t.at = "finish"
      /\ Set(o, [t EXCEPT !.state = "DONE", !.at = "post", !.callbacks = {},
                          !.posts = @ \cup t.callbacks])
      /\ UNCHANGED <<plan, by_filename, compile, cache_vars, clock>>

\* The callbacks are posted one by one to the threads of their tasks, by means
\* of wm_ of this object.
PostCallback(o, u) ==
  LET t == file_task[o]
      posts == t.posts \ {u}
  IN  /\ t.at = "post" /\ u \in t.posts
      /\ Set(o, [t EXCEPT !.posts = posts,
                          !.at = IF posts = {} THEN "idle" ELSE "post"])
      /\ Post(u, FileOf(o))
      /\ UNCHANGED <<plan, by_filename, cache_vars, clock>>

-----------------------------------------------------------------------------
(***************************************************************************)
(* The compile task again.                                                 *)
(***************************************************************************)
\* Mutant: the object is deleted by the task it was made for.
DoneByMaker(o, u, left) == o[1] = u

\* Done(): the last task to leave deletes the object.
LastDone(o, u, left) == left = {}

\* What a task takes over from the object t of the file f: UpdateInputInTask()
\* copies key and content, unless the task was aborted or the file failed.  The
\* last file runs the callback.
Take(comp, f, t) ==
  LET good == ~comp.abort /\ t.success
  IN  [comp EXCEPT
         !.finished = @ \ {f}, !.of = [@ EXCEPT ![f] = NoTask],
         !.ok = @ /\ good, !.num = @ - 1,
         !.content = IF good /\ t.blob THEN @ \cup {f} ELSE @,
         !.shared = IF good /\ ~t.missed THEN @ \cup {f} ELSE @,
         !.at = IF comp.num = 1 THEN "built" ELSE @,
         !.calls = IF comp.num = 1 THEN @ + 1 ELSE @]

\* InputFileTaskFinished(): the task takes over what it needs; then Done().
InputFileTaskFinished(u, f) ==
  LET o == compile[u].of[f]
      t == file_task[o]
      left == t.tasks \ {u}
  IN  /\ f \in compile[u].finished
      /\ compile' = [compile EXCEPT ![u] = Take(compile[u], f, t)]
      /\ Set(o, IF LastDone(o, u, left)
                THEN [Unmade EXCEPT !.state = "deleted"]
                ELSE [t EXCEPT !.tasks = left])
      /\ UNCHANGED <<plan, by_filename, cache_vars, clock>>

\* The local side has won the race (module CompileTask).
Abort(u) ==
  /\ compile[u].at \in {"build", "wait"} /\ ~compile[u].abort
  /\ compile' = [compile EXCEPT ![u].abort = TRUE]
  /\ UNCHANGED <<plan, by_filename, file_task, cache_vars, clock>>

\* ProcessFileRequest() begins; the InputFileTasks of an earlier round are done.
Begin(comp, round) ==
  [comp EXCEPT !.at = "build", !.round = round, !.todo = InOrder, !.ok = TRUE,
            !.content = {}, !.shared = {}, !.dropped = {}, !.interleaved = {}, !.calls = 0,
            !.num = 0]

\* The end of the request, as far as its inputs are concerned.
Ended(comp) == [Begin(comp, comp.round) EXCEPT !.at = "end", !.todo = <<>>, !.calls = 1,
               !.missing = {}, !.last_req = 0, !.abort = FALSE]

\* A task tries again as often as its plan allows.
Retry(comp) == IF comp.round < plan.rounds THEN Begin(comp, comp.round + 1) ELSE Ended(comp)

\* ProcessFileRequestDone(): it gives up if aborted, tries again if an input
\* failed, or makes the request.  ShrinkExecReq() drops contents at random once
\* others, also of files that are not in the plan, add up to 1 MiB; the content of
\* a large file is a list of its chunks, which is not dropped.
CallExec(u) ==
  LET comp == compile[u]
  IN  /\ comp.at = "built"
      /\ \/ /\ ~comp.abort /\ comp.ok
            /\ \E dropped \in SUBSET {f \in comp.content : Size(f) # "large"} :
                 compile' = [compile EXCEPT ![u].at = "exec",
                               ![u].content = @ \ dropped,
                               ![u].dropped = dropped,
                               ![u].last_req = clock + 1]
            /\ clock' = clock + 1
         \/ /\ comp.abort \/ ~comp.ok
            /\ compile' = [compile EXCEPT ![u] =
                             IF comp.abort THEN Ended(comp) ELSE Retry(comp)]
            /\ UNCHANGED clock
      /\ UNCHANGED <<plan, by_filename, file_task, cache_vars>>

\* StoreEmbeddedUploadInformationIfNeeded().
StoreEmbedded(cache, content) ==
  [f \in Files |-> IF f \in content
                   THEN StoreFileCacheKey(cache, f, clock)[f] ELSE cache[f]]

\* ProcessCallExecDone() and ProcessFileResponse(): the server has all inputs, or
\* names missing ones among those whose content it was not sent (or was sent in
\* part only), and the task tries again.
ExecDone(u) ==
  LET comp == compile[u]
      whole == {f \in comp.content : Size(f) # "large"}
  IN  /\ comp.at = "exec"
      /\ \E missing \in SUBSET (Files \ whole) :
           /\ compile' = [compile EXCEPT ![u] =
                IF missing = {} THEN Ended(comp)
                ELSE Retry([comp EXCEPT !.missing = missing])]
           /\ file_cache' = IF missing = {} THEN StoreEmbedded(file_cache, comp.content)
                            ELSE file_cache
           /\ known_keys' = IF missing = {} THEN known_keys \cup comp.content
                            ELSE known_keys
      /\ UNCHANGED <<plan, by_filename, file_task, clock>>

-----------------------------------------------------------------------------
NewCompile == [at |-> "build", round |-> 1, todo |-> InOrder,
               of |-> [f \in Files |-> NoTask],
               num |-> 0, runs |-> {}, finished |-> {}, ok |-> TRUE,
               content |-> {}, shared |-> {}, dropped |-> {}, interleaved |-> {}, missing |-> {},
               last_req |-> 0, abort |-> FALSE, calls |-> 0]

InputInit ==
  /\ plan \in InputPlans
  /\ by_filename = [f \in Files |-> NoTask]
  /\ file_task = [o \in FileTasks |-> Unmade]
  /\ compile = [u \in Users |-> NewCompile]
  /\ file_cache = [f \in Files |-> NoEntry] /\ known_keys = {}
  /\ clock = 0

RunStep(o) ==
  \/ ComputeKey(o) \/ Upload(o) \/ Erase(o) \/ Finish(o)
  \/ \E u \in Users : PostCallback(o, u)

CompileStep(u) ==
  \/ \E f \in Files : AddInput(u, f) \/ Run(u, f) \/ InputFileTaskFinished(u, f)
  \/ PostRuns(u)

InputNext ==
  \/ \E u \in Users : CompileStep(u) \/ Abort(u) \/ CallExec(u) \/ ExecDone(u)
  \/ \E o \in FileTasks : RunStep(o)

\* Threads run what is posted to them; reading a file and an upload end.
InputFairness ==
  WF_input_vars((\E u \in Users : CompileStep(u))
                \/ (\E o \in FileTasks : RunStep(o)))

InputSpec == InputInit /\ [][InputNext]_input_vars /\ InputFairness

-----------------------------------------------------------------------------
(***************************************************************************)
(* Properties.                                                             *)
(***************************************************************************)
\* The type invariant of the input files.
InputTypeOK ==
  /\ \A f \in Files : by_filename[f] \in FileTasks \cup {NoTask}
  /\ \A o \in FileTasks :
       /\ file_task[o].state \in {"none", "INIT", "RUN", "DONE", "deleted"}
       /\ file_task[o].at \in {"idle", "compute", "upload", "erase", "finish",
                               "post"}
       /\ file_task[o].tasks \cup file_task[o].callbacks \cup file_task[o].posts
            \subseteq Users
  /\ \A u \in Users :
       /\ compile[u].at \in {"build", "wait", "built", "exec", "end"}
       /\ compile[u].round \in 1..plan.rounds
       /\ compile[u].calls \in 0..1 /\ compile[u].num \in 0..Cardinality(Files)
  /\ clock \in 0..(plan.rounds * Cardinality(Users))

\* An InputFileTask lives exactly as long as a compile task refers to it: tasks_
\* are those that will call Done(), whether their Run() or callback is queued,
\* parked or yet to come, and nobody finds or runs a deleted one.  The thread in
\* Run() uses the object until it has posted the last callback.
SharedTaskAlive ==
  /\ \A o \in FileTasks :
       /\ file_task[o].tasks = {u \in Users : compile[u].of[FileOf(o)] = o}
       /\ file_task[o].tasks = {} <=> file_task[o].state \in {"none", "deleted"}
       /\ file_task[o].posts \cup file_task[o].callbacks \subseteq file_task[o].tasks
       /\ file_task[o].at # "idle" => file_task[o].state \in {"RUN", "DONE"}
  /\ \A f \in Files : by_filename[f] # NoTask =>
       file_task[by_filename[f]].state \in {"INIT", "RUN"}

\* num_input_file_task_ counts the files that are still to come, each of which is
\* in one place, and the callback runs once, when there is none.
Places(u, f) ==
  LET t == file_task[compile[u].of[f]]
  IN  <<f \in compile[u].runs, f \in compile[u].finished,
        u \in t.callbacks, u \in t.posts>>
InputCountExact ==
  \A u \in Users :
    /\ compile[u].num = Cardinality({f \in Files : compile[u].of[f] # NoTask})
    /\ compile[u].calls = (IF compile[u].at \in {"build", "wait"} THEN 0 ELSE 1)
    /\ compile[u].calls = 1 => compile[u].num = 0
    /\ compile[u].at = "wait" =>
         \A f \in Files : compile[u].of[f] # NoTask =>
           Cardinality({i \in 1..4 : Places(u, f)[i]}) = 1

\* "If the file was reported as missing, we need to send the file content"
\* (compile_task.cc): it is in the new request, unless it was uploaded since the
\* last one, was dropped to keep the request small, or came from an
\* InputFileTask that was made for another task, which had not missed it.
MissedIsSent ==
  \A u \in Users : compile[u].at = "exec" =>
    \A f \in compile[u].missing :
      \/ f \in compile[u].content \cup compile[u].dropped \cup compile[u].shared
      \/ f \in compile[u].interleaved

\* Files that several compile tasks load at once are exact on both sides: what the
\* shared object knows of its tasks, what each task knows of its files, and what it
\* sends of them.
InputsExact == SharedTaskAlive /\ InputCountExact /\ MissedIsSent

\* No compile task waits for its inputs, whoever loads them.
InputsCame == \A u \in Users : compile[u].at \notin {"build", "wait"}
===============================================================================

---------------------------- MODULE CompileService ----------------------------
(***************************************************************************)
(* CompileService (client/compile_service.cc): admission of compile tasks, *)
(* their history and its reference counts, the throttle on local fallbacks *)
(* after remote failures, and the queue in which linkers wait to load      *)
(* their input files (CompileTask::link_file_req_tasks_).                  *)
(*                                                                         *)
(* A task is reduced to what the service sees of it; module CompileTask    *)
(* has the rest.  Tasks run on several worker threads: every action is one *)
(* critical section of mu_ or global_mu_, or code of a single thread.      *)
(***************************************************************************)
EXTENDS Integers, FiniteSets, Sequences, SequencesExt, FiniteSetsExt

CONSTANTS
  Tasks,           \* requests gomacc may make
  Linkers,         \* those with flags_->is_linking()
  MaxActive, MaxFinished, MaxFailed, MaxLong,
                   \* max_active_tasks_ ... max_long_tasks_
  MaxFailFallback, \* max_active_fail_fallback_tasks_; negative: no limit
  MaxLoads,        \* how often a linker loads its files (first try, retries)
  MaxDumps,        \* bound on the requests of the dashboard being served
  MayCancel        \* whether gomacc may go away

ASSUME TasksAssumption == IsFiniteSet(Tasks) /\ Linkers \subseteq Tasks
ASSUME LimitsAssumption ==
  /\ MaxActive \in Nat \ {0}
  /\ {MaxFinished, MaxFailed, MaxLong, MaxLoads, MaxDumps} \subseteq Nat
  /\ MaxFailFallback \in Int
  /\ MayCancel \in BOOLEAN

VARIABLES
  stage,         \* where each task is
  active,        \* active_tasks_
  pending,       \* pending_tasks_
  finished_list, \* finished_tasks_
  failed_list,   \* failed_tasks_
  long_list,     \* long_tasks_
  derefs,        \* deref_tasks of CompileTaskDone, once it left mu_
  dumps,         \* DumpTaskRequest calls that hold a reference
  refcnt,        \* refcnt_ of each task
  fail_fallback, \* tasks with fail_fallback_
  canceled,      \* tasks with canceled_
  num_fallback,  \* num_active_fail_fallback_tasks_
  reached,       \* reached_max_active_fail_fallback_time_ has a value
  link_queue,    \* link_file_req_tasks_
  loads          \* number of times each task called TryProcessFileRequest

history == <<finished_list, failed_list, long_list, derefs, dumps, refcnt>>
throttle == <<fail_fallback, num_fallback, reached>>
vars == <<stage, active, pending, history, throttle, canceled, link_queue,
          loads>>

Stages == {"new", "pending", "posted", "running", "queued", "loading",
           "refused", "done", "freed"}
Running(t) == stage[t] \in {"running", "refused"}

-----------------------------------------------------------------------------
\* Exec(): a task is made, with one reference, and its Start() is posted unless
\* too many are active.
Exec(t) ==
  /\ stage[t] = "new"
  /\ refcnt' = [refcnt EXCEPT ![t] = 1]
  /\ IF Cardinality(active) >= MaxActive
     THEN /\ pending' = Append(pending, t)
          /\ stage' = [stage EXCEPT ![t] = "pending"]
          /\ UNCHANGED active
     ELSE /\ active' = active \cup {t}
          /\ stage' = [stage EXCEPT ![t] = "posted"]
          /\ UNCHANGED pending
  /\ UNCHANGED <<finished_list, failed_list, long_list, derefs, dumps, throttle,
                 canceled, link_queue, loads>>

\* CompileTask::Start() on a worker thread.
Start(t) ==
  /\ stage[t] = "posted"
  /\ stage' = [stage EXCEPT ![t] = "running"]
  /\ UNCHANGED <<active, pending, history, throttle, canceled, link_queue,
                 loads>>

\* CompileTask::GomaccClosed().
GomaccClosed(t) ==
  /\ MayCancel
  /\ t \in active /\ stage[t] # "posted"
  /\ canceled' = canceled \cup {t}
  /\ UNCHANGED <<stage, active, pending, history, throttle, link_queue, loads>>

-----------------------------------------------------------------------------
(***************************************************************************)
(* The link queue.                                                         *)
(***************************************************************************)
\* TryProcessFileRequest(): only the front of the queue goes on.
TryProcessFileRequest(t) ==
  /\ t \in Linkers /\ stage[t] = "running" /\ t \notin fail_fallback
  /\ loads[t] < MaxLoads
  /\ loads' = [loads EXCEPT ![t] = @ + 1]
  /\ link_queue' = Append(link_queue, t)
  /\ stage' = [stage EXCEPT ![t] =
                 IF Head(link_queue') = t THEN "loading" ELSE "queued"]
  /\ UNCHANGED <<active, pending, history, throttle, canceled>>

\* Mutant: the next task is not told that it is its turn.
ProcessPendingFileRequestSilent(t) ==
  /\ stage[t] = "loading"
  /\ link_queue' = Tail(link_queue)
  /\ stage' = [stage EXCEPT ![t] = "running"]
  /\ UNCHANGED <<active, pending, history, throttle, canceled, loads>>

\* ProcessPendingFileRequest(): the file request of t is through, with or
\* without success; ProcessFileRequest of the next task is posted.
ProcessPendingFileRequest(t) ==
  /\ stage[t] = "loading"
  /\ link_queue' = Tail(link_queue)
  /\ stage' = [s \in Tasks |->
                 IF s = t THEN "running"
                 ELSE IF link_queue' # <<>> /\ s = Head(link_queue')
                 THEN "loading" ELSE stage[s]]
  /\ UNCHANGED <<active, pending, history, throttle, canceled, loads>>

-----------------------------------------------------------------------------
(***************************************************************************)
(* The fallback throttle.                                                  *)
(***************************************************************************)
\* ProcessFinished() sets fail_fallback_ and asks the service.  Beyond the
\* limit the fallback is refused once the allowed duration is over.
IncrementActiveFailFallbackTasks(t) ==
  /\ stage[t] = "running" /\ t \notin fail_fallback /\ t \notin canceled
  /\ fail_fallback' = fail_fallback \cup {t}
  /\ num_fallback' = num_fallback + 1
  /\ \/ /\ MaxFailFallback < 0 \/ num_fallback' <= MaxFailFallback
        /\ UNCHANGED <<reached, stage>>
     \/ /\ MaxFailFallback >= 0 /\ num_fallback' > MaxFailFallback
        /\ reached' = TRUE
        /\ stage' \in {stage, [stage EXCEPT ![t] = "refused"]}
  /\ UNCHANGED <<active, pending, history, canceled, link_queue, loads>>

\* Mutant: every task that is done is taken off the count.
CountFailureAlways(t) == num_fallback' = num_fallback - 1 /\ UNCHANGED reached

\* Mutant: none is.
CountFailureNever(t) == UNCHANGED <<num_fallback, reached>>

\* The part of CompileTaskDone() that counts failures.
CountFailure(t) ==
  IF t \in fail_fallback /\ t \notin canceled
  THEN /\ num_fallback' = num_fallback - 1
       /\ reached' = (reached /\ num_fallback' > MaxFailFallback)
  ELSE UNCHANGED <<num_fallback, reached>>

-----------------------------------------------------------------------------
(***************************************************************************)
(* CompileTaskDone().                                                      *)
(***************************************************************************)
\* Mutant: the pending tasks wait for the next Exec().
AdmittedNone(room) == <<>>

\* As many pending tasks as there is room for are started.
Admitted(room) == SubSeq(pending, 1, Min({room, Len(pending)}))

\* Pushes t to the front of a list of at most max tasks; what falls off is
\* dereferenced later.
Kept(list, t, max) == SubSeq(<<t>> \o list, 1, Min({max, Len(list) + 1}))

Dropped(list, t, max) ==
  IF Len(list) + 1 > max THEN <<Last(<<t>> \o list)>> ELSE <<>>

\* long_tasks_ is a heap of the longest handler times: a task enters if there
\* is room or in place of the shortest one there.
LongTasks(t) ==
  IF Cardinality(long_list) < MaxLong
  THEN {[keep |-> long_list \cup {t}, drop |-> <<>>]}
  ELSE {[keep |-> long_list, drop |-> <<>>]}
       \cup {[keep |-> (long_list \ {x}) \cup {t}, drop |-> <<x>>] :
                x \in long_list}

CompileTaskDone(t) ==
  /\ Running(t)
  /\ LET others == active \ {t}
         start  == Admitted(MaxActive - Cardinality(others))
     IN  /\ active' = others \cup ToSet(start)
         /\ pending' = SubSeq(pending, Len(start) + 1, Len(pending))
         /\ stage' = [s \in Tasks |-> IF s = t THEN "done"
                                      ELSE IF s \in ToSet(start) THEN "posted"
                                      ELSE stage[s]]
  /\ finished_list' = Kept(finished_list, t, MaxFinished)
  /\ \E failed \in BOOLEAN, long \in LongTasks(t) :
       LET counted == (failed \/ t \in fail_fallback) /\ t \notin canceled
           refs == (IF counted THEN 1 ELSE 0)
                   + (IF long.keep # long_list THEN 1 ELSE 0)
       IN  /\ failed_list' = IF counted THEN Kept(failed_list, t, MaxFailed)
                                        ELSE failed_list
           /\ long_list' = long.keep
           /\ refcnt' = [refcnt EXCEPT ![t] = @ + refs]
           /\ derefs' = derefs
                \o Dropped(finished_list, t, MaxFinished)
                \o (IF counted THEN Dropped(failed_list, t, MaxFailed)
                               ELSE <<>>)
                \o long.drop
           /\ CountFailure(t)
  /\ UNCHANGED <<dumps, fail_fallback, canceled, link_queue, loads>>

\* CompileTask::Deref(): the last reference deletes the task.
Release(t) ==
  /\ refcnt' = [refcnt EXCEPT ![t] = @ - 1]
  /\ stage' = [stage EXCEPT ![t] = IF refcnt[t] = 1 THEN "freed" ELSE @]

Deref ==
  /\ derefs # <<>>
  /\ derefs' = Tail(derefs)
  /\ Release(Head(derefs))
  /\ UNCHANGED <<active, pending, finished_list, failed_list, long_list, dumps,
                 throttle, canceled, link_queue, loads>>

\* DumpTaskRequest(): finds a task that is not active under mu_ and keeps it
\* while its request is dumped outside of mu_.
Listed == ToSet(finished_list) \cup ToSet(failed_list) \cup long_list

\* Mutant: the task is dumped without a reference.
DumpTaskRequestNoRef(t) ==
  /\ Len(dumps) < MaxDumps
  /\ t \in Listed
  /\ dumps' = Append(dumps, t)
  /\ UNCHANGED <<stage, active, pending, finished_list, failed_list, long_list,
                 derefs, refcnt, throttle, canceled, link_queue, loads>>

DumpTaskRequest(t) ==
  /\ Len(dumps) < MaxDumps
  /\ t \in Listed
  /\ refcnt' = [refcnt EXCEPT ![t] = @ + 1]
  /\ dumps' = Append(dumps, t)
  /\ UNCHANGED <<stage, active, pending, finished_list, failed_list, long_list,
                 derefs, throttle, canceled, link_queue, loads>>

DumpDone ==
  /\ dumps # <<>>
  /\ dumps' = Tail(dumps)
  /\ Release(Head(dumps))
  /\ UNCHANGED <<active, pending, finished_list, failed_list, long_list, derefs,
                 throttle, canceled, link_queue, loads>>

-----------------------------------------------------------------------------
Init ==
  /\ stage = [t \in Tasks |-> "new"]
  /\ active = {} /\ pending = <<>>
  /\ finished_list = <<>> /\ failed_list = <<>> /\ long_list = {}
  /\ derefs = <<>> /\ dumps = <<>>
  /\ refcnt = [t \in Tasks |-> 0]
  /\ fail_fallback = {} /\ canceled = {}
  /\ num_fallback = 0 /\ reached = FALSE
  /\ link_queue = <<>>
  /\ loads = [t \in Tasks |-> 0]

TaskStep(t) ==
  Start(t) \/ ProcessPendingFileRequest(t) \/ CompileTaskDone(t)

Next ==
  \/ \E t \in Tasks :
       \/ Exec(t) \/ TaskStep(t) \/ GomaccClosed(t) \/ TryProcessFileRequest(t)
       \/ IncrementActiveFailFallbackTasks(t) \/ DumpTaskRequest(t)
  \/ Deref \/ DumpDone

\* Worker threads run what is posted to them, and a task ends (EveryTaskIsDone
\* of CompileTask).
Fairness == WF_vars(\E t \in Tasks : TaskStep(t))

Spec == Init /\ [][Next]_vars /\ Fairness

-----------------------------------------------------------------------------
(***************************************************************************)
(* Properties.                                                             *)
(***************************************************************************)
\* The type invariant of the service.
TypeOK ==
  /\ stage \in [Tasks -> Stages]
  /\ active \subseteq Tasks /\ long_list \subseteq Tasks
  /\ {pending, finished_list, failed_list, derefs, dumps, link_queue}
       \subseteq Seq(Tasks)
  /\ refcnt \in [Tasks -> Nat]
  /\ fail_fallback \subseteq Tasks /\ canceled \subseteq Tasks
  /\ num_fallback \in Nat
  /\ reached \in BOOLEAN
  /\ loads \in [Tasks -> Nat]

\* What lets tasks in counts right.  No wakeup is lost: a task waits in
\* pending_tasks_ only while the service is full, and the service is never
\* overfull.  num_active_fail_fallback_tasks_ is the number of active tasks that
\* fall back, and of canceled ones, which CompileTaskDone never takes off.
AdmissionExact ==
  /\ Cardinality(active) <= MaxActive
  /\ pending # <<>> => Cardinality(active) = MaxActive
  /\ num_fallback = Cardinality(fail_fallback \cap (active \cup canceled))

\* How often a list refers to a task.
Refs(list, t) == Cardinality({k \in DOMAIN list : list[k] = t})

\* Every reference is accounted for: a task is deleted when the last list,
\* pending Deref or dump lets go of it, and neither before nor never.
RefCountExact ==
  \A t \in Tasks :
    /\ refcnt[t] = Refs(finished_list, t) + Refs(failed_list, t)
                   + (IF t \in long_list THEN 1 ELSE 0)
                   + (IF stage[t] \in {"new", "done", "freed"} THEN 0 ELSE 1)
                   + Refs(derefs, t) + Refs(dumps, t)
    /\ refcnt[t] = 0 <=> stage[t] \in {"new", "freed"}

\* Exactly the front of the link queue loads its files, nobody is in the queue
\* twice, and nobody is forgotten in it.
LinkQueueExact ==
  /\ IsInjective(link_queue)
  /\ \A t \in Tasks :
       /\ stage[t] = "loading" <=> link_queue # <<>> /\ t = Head(link_queue)
       /\ stage[t] = "queued"
            <=> link_queue # <<>> /\ t \in ToSet(Tail(link_queue))

\* Whoever waits, for a slot or for the turn of its linker, waits for something
\* that is not there.
WaitingExact == AdmissionExact /\ LinkQueueExact

\* Every request that came was taken up and handed back.
RequestsServed == \A t \in Tasks : stage[t] \in {"new", "done", "freed"}
===============================================================================

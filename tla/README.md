# A TLA+ verification of the Goma client

The repository is the Goma client: `compiler_proxy`, a daemon that takes compile
requests from `gomacc`, runs them on a remote service, locally, or on both, and
puts the outputs where the build expects them. This directory models the parts
of it that decide what runs where, who may touch what, and which files a compile
needs: the compile task and the compile service around it, the subprocess
controller below it, the services all of them use (worker threads, HTTP server
and client, token refresh), the caches they share, and the include processor.

## 1. Inventory

### Components with their state and operations

| component | source | state | operations | talks to |
|---|---|---|---|---|
| subprocess controller server | `client/subprocess_controller_server.cc`, `subprocess_impl.cc`, `spawner_posix.cc` | `subprocs_` by id, options, `shutdowned_`, `pending_write_`, signal pipe, children | Register, RequestRun, Kill, SetOption, SHUTDOWN, CLOSED, DoWrite, DoSignal, DoTimeout | client, over a socket pair, from a process of its own |
| subprocess controller client | `client/subprocess_controller_client.cc`, `subprocess_task.cc`, `subprocess_option_setter.cc` | `subproc_tasks_`, `quit_`, `periodic_closure_id_`, `closed_`; state of each task | RegisterTask, Register, RequestRun, Kill, Started, Terminated, Done, CheckSignaled, SetOption, Quit, Shutdown | server (messages), tasks (closures on their threads) |
| compile task | `client/compile_task.cc` | `state_`, `abort_`, `canceled_`, `finished_`, fallback flags, `subproc_`, delayed setup, response, output infos | Start, the stages SETUP, FILE_REQ, CALL_EXEC, FILE_RESP, their Done closures, ProcessFinished, ProcessReply, ReplyResponse, Done, FinishSubProcess, GomaccClosed | service, subprocess task, HTTP RPC, gomacc |
| compile service | `client/compile_service.cc` | active, pending, finished, failed and long tasks, reference counts, fail-fallback throttle, link queue | Exec, CompileTaskDone, DumpTaskRequest, IncrementActiveFailFallbackTasks, ClearTasks, Quit, Wait | tasks on several worker threads, dashboard |
| input files | `client/task/input_file_task.cc`, `file_hash_cache.cc`, `blob` | `task_by_filename_`, tasks and callbacks of each InputFileTask, known keys with upload times | NewInputFileTask, Run, Done, GetFileCacheKey, StoreFileCacheKey | compile tasks, blob upload |
| worker threads | `client/worker_thread.cc`, `worker_thread_manager.cc` | closure queues by priority, delayed and periodic closures, descriptors, `shutting_down_`, `quit_` | RunClosure, RunDelayedClosure, NextClosure, Unregister..., Shutdown, Quit | everything |
| HTTP client and RPC | `client/http.cc`, `multi_http_rpc.cc`, `socket_descriptor.cc` | active tasks, `num_pending_`, `enabled_from_`, a descriptor per request; pending and running batches | DoAsync, Start, DoWrite, DoRead, DoTimeout, DoCallback, Shutdown; Call, CheckPending, JobDone, Wait | compile task, blob upload |
| token refresh | `client/oauth2_token.cc` | token, expiration, state, pending tasks | GetAuthorization, RunAfterRefresh, RunRefresh, Done, Cancel, Shutdown | HTTP client |
| HTTP server | `client/threadpool_http_server.cc` | accept counts, requests, close notifications | AddAccept, DoReadRequest, SendReply, NotifyWhenClosed, DoClosed, Finish | compile task |
| caches | `client/compiler_info_cache.cc`, `deps_cache.cc`, `local_output_cache.cc` | entries, references, time stamps, files on the disk | Lookup, Store, Disable; Get-, Set-, RemoveDependencies, load, save; SaveOutput, Lookup, GC | compile task |
| include processor | `client/cxx/include_processor` | inputs, condition stack, macro table, include guards, caches of directives | ProcessDirectives, HandleInclude, Expand, Evaluate | compile task |

The other parts (linker input processor, clang modules, languages, flag parsers,
TLS, statistics, Windows, tools) are listed with their reasons in `PROJECT.json`.

### What is hard

* **Concurrency.** The client methods of the subprocess controller check a flag
  under a lock and post after releasing it; closures of three threads meet in
  one task. A compile task races with its own subprocess, with a delayed setup
  of that subprocess and with gomacc closing the connection. Services release
  references, run callbacks and delete objects outside of their locks. Several
  compile tasks share one upload, one compiler run, one token fetch, one batch.
* **Failure.** Spawn fails, SIGCHLD is lost, compiler_proxy dies at any point and
  starts again with the files it left, every stage of a remote compile fails and
  is retried, downloads fail half way, the token server refuses.
* **Ordering.** KILL before REGISTER, STARTED after TERMINATED, a reply before
  the upload of local output has ended, a file that changes between two stats, a
  timeout that races with the answer.
* **Waiting.** No timer looks at the queue of the server, the pending tasks of
  the service, the link queue or those who wait for a shared InputFileTask: a
  missed hand-over is final.
* **Pure algorithms with corner cases.** Include guards and the directive
  optimizer, two macro expanders that must agree, `#if` arithmetic.

`PROJECT.json` lists these as hazards, each at its line, with the properties
that cover it.

### What makes each component correct

* Subprocess server: limits are kept, queued work is never stranded, it never
  blocks on a live child, and it leaves no process behind.
* Subprocess client and tasks: a callback runs once, after the process is dead;
  Shutdown returns and loses no notice.
* Compile task: gomacc gets one reply; a reported success has a complete output
  file nobody writes any more; Done leaves nothing behind; every task ends.
* Service: slots, references, the link queue and the fallback count are exact.
* Shared work (input files, batches, compiler information, tokens): everyone who
  joins is told once, and the shared object lives exactly as long as it is used.
* HTTP and worker threads: nothing is used after it was deleted, canceled closures
  do not run and the others do, accept slots and counts are given back.
* Caches: memory and disk agree, entries are current, over kills and restarts.
* Include processor: it reads the files the preprocessor reads.

## 2. Modules

| module | contents |
|---|---|
| `SubProcessServer` | the server's loop, its entries and the processes |
| `SubProcessController` | extends it with tasks, client threads, Quit and the channels |
| `CompileRequest` | abstract: what gomacc and the build may rely on for one request |
| `CompileTask` | one compile request; implements `CompileRequest` |
| `CompileService` | admission, history, throttle, link queue |
| `InputFileTask` | input files shared by compile tasks, with FileHashCache |
| `MultiHttpRPC` | calls that store a blob, joined into batches |
| `SocketDescriptor`, `ThreadpoolHttpServer` | callbacks of a socket; connections from accept to deletion |
| `WorkerThread` | closures by priority, delayed, periodic, sockets, shutdown |
| `OAuth2Token`, `HttpClient` | the shared token; requests from DoAsync to the callback |
| `LocalOutputCache`, `CompilerInfoCache`, `DepsCache` | the caches |
| `CppParser`, `CppReference` | the include processor, and by recursion what a preprocessor reads |
| `CppMacroExpander`, `CppIntegerConstantEvaluator` | both expanders; the value of `#if` |
| `MC...` | instances for TLC |
| `...Proofs` | theorems, section 4 |

Modules that extend others: `SubProcessController` extends `SubProcessServer`,
`ThreadpoolHttpServer` and `HttpClient` use the records and methods of
`SocketDescriptor`, `HttpClient` those of `OAuth2Token`, `CompileTask`
instantiates `CompileRequest`. `MCCompileService`, `MCCaches`, `MCServices` and
`MCInclude` put parts that share no state side by side: a behaviour is one of the
part in focus, chosen in the initial state, and the others stay as they are.

Operators that model a plausible bug ("Mutant:" in their comment) stand before
the definition they would replace. They are used in no specification; each shows
that a property can fail.

### SubProcessServer and SubProcessController

A server action is one pass of `Loop()` that serves one event; what an earlier
pass left in `pending_write_` is written first, as select reports the socket
writable at once. Serving a write, a read and a signal in one pass is the same as
doing so in passes of their own. `TrySpawnSubProcess` is split into `Candidate`
(the scan, with its early return at `max_subprocs`), `HeldBack` (heavy and low
limits) and `TrySpawn`. A failed Spawn calls Terminated and so TrySpawnSubProcess
again; the flag `respawn` keeps the loop inside that nested call. `in_timeout`
does the same for the loop of `DoTimeout`.

`c2s` is the closure queue of the client thread, its write buffer and the socket
in one sequence, since each only appends to the next. Register, RequestRun and
Kill are two steps (`Check`, `Post`) because the code releases `mu_` between
them. `QuitStart`, `QuitKill`, `QuitShutdown`, `QuitUnregister` and
`ClientShutdown` follow Quit and Shutdown statement by statement. `Crash` loses
any suffix of the unwritten requests. `WriteFails` is DoWrite on a socket whose
other end the server has closed, which is fatal to compiler_proxy. A task is numbered by its entry into
RegisterTask, which is also the id it is given. Two values of
`TerminateStatus` and "ran" are all that is kept of an exit status.

### CompileTask and CompileRequest

All code of a task runs on one thread. `call` is the function the thread is about
to enter, `wait` the closure that resumes the remote side; actions are whole
functions, and a function that calls another leaves its name in `call`. Between
two of them, other processes move: `Spawn`, `Started`, `Exit`, `GomaccDies`. The
closures `FinishSubProcess`, `GomaccClosed`, `DelayedSetup` and
`ProcessLocalFileOutputDone` need an idle thread. `Stage` is the test that opens
each stage: prefer the local run, or go on.

Data is reduced to what the branches look at. `resp` is success, failure, or
missing inputs; `dl` says where downloaded output goes; `outfile` who wrote the
output file last and whether completely. Answers of other components are
nondeterministic: ShouldFallback, the include processor, uploads, the RPC, the
downloads, VerifyOutput, the throttle of the service, the number of pending
subprocesses and ramp up in ShouldStopGoma. A server error message is taken to
come with a non-zero exit status. "lost" is a negative status of a process that
was started. A subprocess that cannot be spawned writes its error and exit status
into `resp_` while the remote side goes on; `FinishLocal` keeps that, so a remote
success may end as a fallback.

`CompileRequest` has four variables: the answer, who wrote the output file,
whether gomacc is still there, and whether the service may forget the request. It
says: one answer; success only with the complete output of one side, which nobody
writes afterwards; and the release only after the answer. Its parameter `lenient`
is the one exception: with dont_kill_subprocess, which is off by default, the
answer may be given without output.

### CompileService, InputFileTask, MultiHttpRPC

Every action of `CompileService` is one critical section of `mu_` or of the lock
of the link queue, or code of one thread. A task is reduced to a stage.
`CompileTaskDone` does all of its bookkeeping in one step, as the code holds
`mu_`; `Deref` of evicted tasks comes later, task by task, as the code has
released `mu_` by then. Which task is the shortest of `long_tasks_` is left open.

`InputFileTask` has ProcessFileRequest file by file, Run() in the critical
sections it really has (compute, upload, erase from the table, finish, post), and
the retry after the server reported missing inputs. An object is named after the
task, round and file it was made for, so that a deleted one can be told from its
successor. Files have four sizes, which is what the code distinguishes; their
content does not change, but a stat may be too fresh to be trusted.

`MultiHttpRPC` has Call, the periodic CheckPending with the alarm thread that runs
it, the answer to a job, unavailability, and Wait.

### Services

`SocketDescriptor` and `OAuth2Token` are libraries: a record and one operator per
method. `ThreadpoolHttpServer` has one worker thread with its queues and every
event of the peer; the close callback is a step of the task's own thread
(`ClosedCallback`). `WorkerThread` runs lists of jobs given by client threads; a
job may itself register, unregister, delay or close. `HttpClient` gives each
request a thread; an action is a closure up to the next lock it takes. Where a
callback is queued the record of the descriptor remembers for which closure, so
that a use after deletion shows.

### Caches

`LocalOutputCache` names a file by the task that created it (its inode), so that
two tasks that write one temporary name are seen to share it. A kill leaves the
disk as it is. `CompilerInfoCache` follows one compiler asked for from several
directories while its file changes. `DepsCache` works with the stat cache of each
task and with IncludeCache while files change; load and save of the cache file
are split where they can be interrupted.

### Include processor

`CppParser` runs optimized lists of directives with the stacks of the code, over
every small source tree `MCInclude` generates, and is compared with
`CppReference`, a recursive definition of what a preprocessor reads.
`CppMacroExpander` has both expanders over tokens; the fast one must give up or
agree. `CppIntegerConstantEvaluator` is precedence climbing with the operator functions of
CppToken over words of `Width` bits. It is compared with a reference of its own,
which splits an expression by the grammar of C and computes with integers
(`IsoOperator`): overflow, conversion, truncation and bits are defined a second
time, and what C leaves undefined is marked so.

## 3. Runs

| run | states | checks |
|---|---|---|
| `SubProcessSchedule` | 1.9 M | three ids, one failing, one blocking, two heavy, burst mode switched at any time: `NoStall`, `LimitsKept` |
| `SubProcessRun` | 2.8 M | two tasks with kills, lost SIGCHLDs, CheckSignaled, Quit and Shutdown, and compiler_proxy dying: types, one callback after the death of the process, no orphan, no notice lost |
| `SubProcessLive` | 344 k | one Spawn that fails, kills and Quit: Done runs the callback of a killed task though its process would not exit, and of every task with an id when processes exit; Shutdown returns |
| `CompileTaskRace` | 510 k | the combinations of settings but those named below: the code's CHECKs, leftovers, the two writers of the output file, refinement of `CompileRequest`, every task ends |
| `CompileServiceTasks` | 739 k | the service with three tasks; input files shared by two tasks; three calls in batches: `WaitingExact`, `RefCountExact`, `InputsExact`, `BatchesExact`, everybody is served |
| `Caches` | 832 k | outputs on the disk over kills and restarts; one compiler asked for from two directories: `OutputCacheExact`, `InfosExact`, everybody is served |
| `Services` | 107 k | HTTP server, worker thread, HTTP client with token: `AcceptExact`, `NoUseAfterFree`, `RunOrCanceled`, `RequestsExact`, `RefreshExact`, everything ends |
| `IncludeProcessor` | 933 k | all small source trees, macro tables, calls and expressions, and the deps cache: `ReadsTheSameFiles`, `StacksMatch`, `ExpansionIsRight`, `SameAsGrammar`, `DepsExact` |

### Where the code disagrees with itself

Four runs expect a violation; `PROJECT.json` quotes the lines in "findings".

* `CompileTaskHeavyNoFallback` (`compile_task.cc:1077`): GOMA_FALLBACK=false
  starts a subprocess for a heavy task and fails a CHECK.
* `IncludeImport` (`cpp_parser.cc:574`): an `#import` of a file that was already
  processed marks the importing file as one that is never included again.
* `HttpServerClose` (`threadpool_http_server.cc:710`): a client that goes away
  between SendReply and the write of the response leaves its request and an
  accept slot behind.
* `OAuth2Blocked` (`oauth2_token.cc:435`): after a 302, 401 or 403 of the token
  server the next refresh runs Done() under the lock Done() takes.

Other things met while modelling are exceptions the properties name, each where
the property states it:

* *Subprocess controller.* A task started after Quit is marked FINISHED and never
  called back (`subprocess_controller_client.cc:230`); the liveness properties are
  about the tasks that got an id (`Waits`), and say that their callback has run. A
  Register, RequestRun or Kill that passed its check before Quit may post its
  request after the server has ended; DoWrite then fails with LOG(FATAL)
  (`subprocess_controller_client.cc:487`), and `ShutdownReturns` says: Shutdown
  returns, or compiler_proxy has ended so. Quit's KILL may overtake a REGISTER, so that the
  process is spawned after the callback; `DoneMeansDead` exempts a client that
  quits. DoTimeout starves under an unbroken stream of requests (`QuietRecurs`).
* *Compile task.* Heavy tasks with verify_output start a second local run even
  with fallback, the cause of the first finding. With the gch hack a task may be
  in LOCAL_RUN when its subprocess ends, and the CHECK_LT at `compile_task.cc:4452`
  fails, as LOCAL_RUN is after FINISHED in the enum (`SubprocChecks` says that it
  holds in every other state); one that must fall back is not answered, and
  `ReplyChecks` exempts it.
* *Compile service.* A canceled fallback stays in the count of fail fallbacks for
  ever (`compile_service.cc:415`); `AdmissionExact` states the count the code
  keeps, canceled tasks included.
* *Input files.* A task whose input was reported missing may join an object made
  for another task and send the key only, again (`shared`); one that is dropped to
  keep the request small is not sent either. `MissedIsSent` names both. A file of at most 2 MB "uploaded"
  by FileServiceBlobUploader is only read, yet gets an upload time
  (`input_file_task.cc:118`, `172`); an entry keeps its old upload time when its
  key changes (`file_hash_cache.cc:119`).
* *MultiHttpRPC.* Wait holds `mu_` while it waits for the alarm thread, which may
  be waiting for `mu_` in CheckPending (`Hung`). CheckPending takes jobs without
  counting them, JobDone always decrements (`multi_http_rpc.cc:386`), so that Wait
  may return with jobs under way; a Wait that waits is never signaled.
* *Local output cache.* Two tasks that save one key share one temporary file; the
  bytes of a replaced entry are never subtracted (`local_output_cache.cc:316`),
  until garbage collection looks at the front of an empty list (`457`); Quit
  deletes the cache before compile tasks have ended.
* *Compiler info cache.* The pointer Lookup and Store return may be deleted by
  another Store before it is referenced ("undefined" in the model; the header says
  the class is thread-safe). A disabled entry that is replaced under its own key
  is enabled again. A waiter may get information older than its request.
* *Deps cache.* A file edited between the include processor's read and
  SetDependencies gives an entry with new directives and old files; a new header
  earlier in the include path goes unnoticed; `loaded_` is not initialised
  (`deps_cache.cc:67`), so that the cache may be used while it is loaded: then a
  failing load takes ids away from tasks, or calls Clear() under its own lock.
* *HTTP.* An abandoned refresh leaves requests waiting (contrary to
  `http.h:459`). Without OAuth2 a retry after throttling fails. A token reply that
  cannot be parsed, with an unexpired old token, is retried until the time limit.
  A Cancel posted by Shutdown may run after Wait returned.
* *Worker threads.* RunDelayedClosure from another thread does not wake the
  thread (up to 500 ms late); UnregisterIdleClosure deletes a closure that may be
  queued; Finish holds `mu_` while joining. The model states the first as it is.
* *HTTP server.* DoClosed posts the close callback to the thread of the task
  (`threadpool_http_server.cc:721`), so that a task may hear of a client that left
  before the reply after having replied; only the tasks of stranded requests always
  do.
* *Expressions.* `%` of unsigned operands divides and `>>` of them copies the sign;
  shifts take the type of the count; parentheses, `?:` and `~` lose unsignedness; a
  sign before `!` or `~` is dropped. `SameAsGrammar` compares the others
  (`TypeLost`). Division by zero, which a compiler refuses, gives 0. The fast expander keeps trailing spaces and expands a whole argument
  that contains a parameter; a `#if` of a macro that expands to `__has_include`
  and `__COUNTER__` in a dropped `#if` are lost by the optimizer.

### Bounds

* Ids: two for the protocol (two tasks already give overtaking, a queue behind a
  running process, and a kill of either), three for the scheduler (one running,
  a candidate that is held back, one behind it). Limits of 1 and 2, so that each
  of the limits is reached.
* `MaxQueue` bounds only requests that may be repeated for ever (RequestRun,
  CheckSignaled, SetOption). It never blocks a thread's next step.
* `MaxExecRetry` is 2 (`kMaxExecRetry` is 4): one retry visits each stage again,
  the second repeats it after a repetition. The theorems hold for any value.
* Tasks of the service: one more than the two slots, and lists of length one, so
  that a task is always pending and every list evicts. `MaxLoads = 2` is a first
  load and one retry, behind the other linker.
* Input files: two tasks, one or two files, two rounds, plans with every size;
  three store calls with at most two in one request, so that one batch fills and
  one waits for the alarm.
* Caches: three tasks, two keys, one kill (its restart meets the files of the
  first life; another repeats that); three askers in two directories, so that two
  share a run of the compiler and one does not.
* Services: two connections with `max_sockets_` of 1 and 2, so that the accept loop
  waits behind one and does not behind two; four job sets; three client settings
  with one or two requests.
* Include processor: trees of three files (a source, a header and one that either
  may include), at most `DepthLimit` nested inputs, short lists of directives;
  integers of 8 bits, which has all the wrap-arounds of 64; two compiles of the
  deps cache.
* Deadlock is not checked: all these systems may come to rest, and the liveness
  properties say that they do so only when they are done.

### Fairness

`SubProcessController!Fairness`: threads run the closures posted to them, the
server reads what is there, and a process that was sent SIGINT or SIGTERM exits. DoTimeout
runs only in a quiet spell of 500 ms, or 5 ms with a SIGNALED child; requests are
far rarer (CheckSignaled every 10 s), hence strong fairness of the server's own
steps and the premise `QuietRecurs` of two properties. `FiniteJobs` adds that
compilers exit. Nobody is assumed to make a request, to kill or to quit.

`CompileTask!Fairness`: the task's thread goes on, RPCs and transfers end (they
have timeouts), and the subprocess controller does what the runs of
SubProcessController show: a queued process is spawned, or terminated when
killed. `CompileService!Fairness`, `InputFairness`, `InfoFairness`,
`OutputFairness`: worker threads run what is posted, tasks, reads and uploads end.
`StoreFairness` adds that the alarm thread finds its period over again and again.
`ServerFairness`: the worker thread goes on, compile tasks end, and an answered
client closes its socket; a client need not send its request. `WorkerFairness`:
select() ends by its timeout, and as periodic closures are shorter than their
periods and sockets are not always ready, again and again a poll finds neither
(strong fairness). `HttpFairness`: strong fairness only for the ends of loops that
retry (a timeout, the throttle, writing and reading piece by piece), which real
peers and deadlines end. Nobody is assumed to call StoreFile, Quit or Shutdown.

## 4. Proofs

The theorems hold for any sets of tasks, ids, files and requests, any limits and
options, within the ASSUMEs of the modules: finite sets, positive limits, records
with the fields the code reads. Every property they state is also checked by a
run; `PROJECT.json` lists which.

| module | theorem | states |
|---|---|---|
| `SubProcessProofs` | `TypeCorrect`, `NeverStalls`, `IdsAreRegisteredOnce`, `NeverWaitsForTheLiving`, `LeavesNoOrphan`, `EntriesMatchProcesses`, `NoticesComeInOrder`, `CalledBackMeansDead`, `ClosesAfterTheLastNotice`, `LimitsAreKept` | `TypeOK`, `NoStall`, `RegisteredOnce`, `SignaledIsDead`, `NoOrphanProcess`, `ToldInOrder`, `DoneMeansDead`, `CleanClose`, `LimitsKept` |
| `CompileServiceProofs` | `NobodyWaitsInVain`, `ReferencesAreExact` | `WaitingExact`, `RefCountExact` |
| `CompileTaskProofs` | `TaskTypeCorrect`, `AllChecksHold`, `DoneLeavesNothing`, `OneWriter`, `ImplementsCompileRequest` | `TypeOK`, `ChecksHold`, `NothingOutstanding`, `NoSharedOutput`, `ImplementsRequest` |
| `InputFileTaskProofs` | `InputsAreExact`, `BatchesAreExact` | `InputsExact` of InputFileTask, `BatchesExact` of MultiHttpRPC |
| `CachesProofs` | `InfosAreExact`, `OutputCacheIsExact` | `InfosExact` of CompilerInfoCache, `OutputCacheExact` of LocalOutputCache |
| `ServicesProofs` | `ClosuresRunOrAreCanceled`, `OneFetchForAll`, `RequestsAreExact` | `RunOrCanceled` of WorkerThread, `RefreshExact` and `RequestsExact` of HttpClient |
| `ThreadpoolHttpServerProofs` | `RequestsAreNotUsedAfterFree`, `AcceptsAreExact` | `NoUseAfterFree`, `AcceptExact` |
| `CppParserProofs` | `ParserStacksMatch` | `StacksMatch` |

`InputFileTaskProofs`, `CachesProofs` and `ServicesProofs` hold the proofs of
modules that share no state, one after the other; no fact of the one is used for
the other.

Some operators are recursive: `AmountIn` (a fold), `Without`, `Optimize` and
`OpenInInputs` (recursive functions). The library's induction theorems take an operator as a parameter and
cannot be used, so what these compute is proved by a smallest counterexample
instead: sets of subsets of a finite set have a smallest member, so a set of
numbers has a least one, and one step less would be right.

### Subprocess controller

`IInv == ServerTypeOK /\ NoStall /\ TaskTypeOK /\ ClientInv`. `NoStall` needs the
types of the option records and the nested call: with `respawn` set an entry may
be pending with nothing running, and the argument is that `TrySpawn`, whenever
something is pending and nothing runs, has a candidate (`SpawnSomething`: all
limits are positive, and the scan can only return early at a running entry) and
does not hold it back. `ClientInv` adds to the types that the client thread is
between check and post only while a KILL is due: `Least` of the empty set would
have no type.

`LInv == RegisteredOnce /\ EntryOfProcess`, relative to `IInv`. `RegisteredOnce`
follows an id from RegisterTask to the server; it is what makes Register find
neither an entry nor a process, so that a PENDING entry never has a process.
`EntryOfProcess` strengthens `SignaledIsDead` by what a SIGCHLD in the pipe means,
and `NoOrphanProcess` by the entries that own the live processes.

The notices need more. `TaskLife`: a task is called back once, and
`subproc_tasks_` holds tasks that were started, are not finished and whose Done()
is not posted. `StartedLife`: STARTED is on its way at most once, to a task that
is not RUN, and never for an entry that waits or is unknown. `QuitLife`: SHUTDOWN
comes after the KILLs of Quit, and only a dead client closes the socket.
`EndLife`: until Quit begins the server hears of a task from its REGISTER first,
so that TERMINATED is the last thing that happens to it. `SocketLife`: the socket
is closed once, at the end, by a server that was told to. `CloseLife`: in quit
every task of `subproc_tasks_` was told, has an entry the loop waits for, or will
be killed before the loop is told to end. None of the three properties is
inductive without them: a STARTED in the channel is harmless only because of what
the task was when it was sent.

`LimitLife` says that HIGHEST belongs to the tasks of ReadCommandOutput, which
nobody runs again; without it RequestRun would lower the priority of a running
entry to HIGH and count it. `Bounded` is the limit in the form TrySpawn keeps.

### Compile service

`SInv == TypeOK /\ WaitingExact /\ RefCountExact /\ Placed`. `Placed` says that
containers and stages of tasks tell the same story. It is needed in
CompileTaskDone: that a task waits means that the service is full, so that the
end of one admits exactly the first; and the task that ends is in no list yet, so
that what it adds to its count is right. The counts are cardinalities, proved
with the facts of FiniteSetTheorems.

### Compile task

The theorems have the hypothesis `LocalConfigs`: heavy tasks that use local runs
have fallback and are not verified. Without it `AllChecksHold` is false, as the
run `CompileTaskHeavyNoFallback` shows. The CHECK_LT of the gch hack is in
`AllChecksHold` with its one exception, LOCAL_RUN; that no other state fails it
needs that a task with the gch hack never sets fail_fallback_. The invariant `IInv` is `TypeOK` with six
lives: `RemotePlace` and `RemoteLife` (where the remote side is, against `call`,
`wait` and `state`), `LocalLife` (what the subprocess is run for), `AbortLife`
(an aborted remote side does not go on to reply), `EndLife` (who has answered,
and that the end comes after it) and `OutputLife` (who wrote the output file
last). Each CHECK follows from the place the remote side must be in for the
function to run; the refinement follows from `OutputLife` at the answer and from
`EndLife` after it. The refinement is proved as initial states and steps; liveness
of the abstract specification is not part of it.

### HTTP client and token

`RefreshInv` is an invariant of the one record of the refresh task: each of its
methods preserves it, and every step of the client is such a method or leaves the
record alone. `RequestsLife` says of every request where its callbacks, its
descriptor and the queue of its thread are (`TaskLife`, `DescriptorLife`), and
that `num_pending_` is the number of requests that wait. The first is needed
because a descriptor may be given back only when no callback is queued, which
depends on where the request is.

### Input files

`InputInv` consists of types, `Objects`, `Owners`, `Fresh` and `TasksLife`.
`ObjectLife` says that a thread in Run() owes a callback: the task it belongs to
has not called Done(), so the object outlives Run(). `Findable` is why a task can
only join an object that will still call it back. `Placed` is why every file is
counted down once. `MissedLife` follows the missing files through the loop, the
objects and the callbacks into the request. Three lemmas (`Step`, `TaskStep`,
`ObjectStep`) reduce every action to the one task and the one object it changes.

### Batches

`BatchInv` says without counting what `BatchesExact` counts: `Partition` (batches
have the right size and share no call, the answered ones included, so that a job
is one element of `multi_jobs` from Call() to JobDone()) and `CallLife` (a call is
"batched" exactly while it is gathered or in a job without an answer, and a blob
that was moved away is in a job that was sent). `num_multi_job_` is at most the
number of jobs, and not equal to it: CheckPending starts jobs it does not count.

### Compiler infos

`InfoInv` has two halves that do not depend on each other. `InfoLife` is about
references: every count is exact in every state (`InfoRefsExact`), nobody has a
pointer to a state before it is stored (`Unborn`), a pointer without a reference,
between Lookup() or Store() and Ref(), promises nothing once the state was deleted
(`Pointers`, `Current`). `ListLife` is about those who wait: a task that waits is
in one list (`WaitersInLists`), a list belongs to the task that runs the compiler
(`ListOfBuilder`), and a task tells others once (`NotTelling`). The counts are sums
over keys, tasks and tellers; a step moves one of each, so three lemmas
(`HoldingMoves`, `TellersMove`, `KeysMove`) say by how much each sum moves.

### Local output cache

`OutInv` follows a file through its names, as long as no key was doubled. `Names`: a
temporary file has no other name, and a task that has not created its file yet has
given it to no name. `Alone`: from the time it opens the file until it has added the
entry a task is alone with its key and its file, which is whole before it is renamed.
Without it the invariant is not inductive: a late write would cut a file that
already has the name of its key. `Matches` is `CacheMatchesDisk` itself; the sum of
bytes needs that a list of entries names a key once.

### HTTP server

`ServerInv` says of every connection which of eleven phases its request is in, from
accept() to its destruction. A phase fixes the closures in the queues, the callbacks
of the descriptor and the flags together, because none of these is right without the
others: Finish() may be posted only when no callback is queued, and that depends on
which callback was taken away when. An action takes one closure from a queue and
moves one connection from a phase to a next (`LifeAfter...`); `LivesOn` carries the
others over. `Queues` says that an entry is queued once and that of a socket the
callback to read comes before the one to write: the race of DoClosed() with a
response not yet written is the only way into the phase `Lost`. The close callback
is posted in the phases `Told` and `Lost`; that it has run in time keeps a request
out of `Lost`, which is the last part of `AcceptExact`.

### Worker thread

`WorkerInv`: a posted job is in the queue of its priority or runs
(`PostedIsThere`), so is a delayed closure that is due (`DelayedIsThere`), and the
periodic one is in the immediate queue only, and nowhere once it was unregistered
(`PeriodicIsOnlyThere`). A thread that ends has seen empty queues under the lock
(`EndedIsThrough`); with the first two, no job is left "posted".

### Include processor

The source trees are any whose files are well nested (`TextsAssumption`: every
`#endif` has its `#if` in the same file and the other way round; a compiler refuses
the others, and their `#if` would reach into the includer). The roots are read as
they are, but headers go through `Optimize`, so the first half of the proof is about
lists: `OptimizeStepNest` says that one pass of its loop changes the number of open
conditionals as the directive does and never makes it negative, whatever `#else`,
`#elif` and empty groups it drops, and `OptimizeNest` that the result is well nested
again. The second half is about the stacks. `ParserInv` has the types, that each
input is within its directives, and `OpenInv`, which is `NestingMatches` over any
stack of inputs (`SumOf`): a directive adds the same to both sides
(`ConsumingStep`), an included file starts with nothing open, and one that is popped
leaves nothing open. That a count is never negative is why `#endif` always finds a
condition or a skipped group; that nothing is skipped while the condition is true is
why `#if` may leave the count of skipped ones alone.

### Only model-checked

* All liveness properties: fairness and ENABLED are out of the prover's reach.
* `ReadsTheSameFiles`, `ExpansionIsRight`, `SameAsGrammar`: they compare with
  RECURSIVE operators, which the prover cannot use.
* `DepsExact`: it equates the results of two traversals of the include relation, one
  by the include processor and one by `Closure`, over files that change.
* `ServiceTypeOK`, `CachesTypeOK`, `ServicesTypeOK` as wholes: they put the types of
  modules that share no state side by side. Each of the inductive invariants above
  begins with the types its proof needs.

## 5. Not modelled

Detached subprocesses, the Windows spawner, a pid that is used again while its
SIGCHLD is still in the pipe, verify_command requests (they end before any race),
ClearTasks, Quit and Wait of the compile service, the output buffer pool, ramp up
and the health status of the HTTP client, named pipes, the choice of a worker
thread in a pool, the tokenizer and the directive filter, frameworks and header
maps, and what the Visual C++ mode changes (`#import` disables the parser,
`defined(X)` is not read by the naive expander). The close notification of a request
is assumed not to run after Done. DCHECKs are left out, as in release builds: those
of HttpClient on the state of a request (`http.cc:346`, `429`) fail for every one
that is retried, as DoRetry does not reset the state; the one at `cpp_parser.cc:528`
is about `#include_next` in a file that was found before the bracket directories. A file that
exists and cannot be deleted by the garbage collection of the local output cache
(`local_output_cache.cc:462`) ends its loop as a missing one does; only the latter is
modelled.

Some components are left out altogether, each with its reason in `PROJECT.json`:
parsers of flags, archives, linker scripts and module maps, language plug-ins and
formats of credentials are sequential code from text to text, for which a model
would be a transliteration. A large part of the repository's lines are unit tests,
generated tables of compiler features, Python tools and the Windows build.

## 6. Plan

Next theorem: `DepsExact`. It needs that `Closure` is the least set of files that holds
the input file and what the directives of its members find, and that the include
processor, which goes through a list of headers, ends with that set.

Next modules: SocketPool, the retries of gomacc's IPC, LogServiceClient, Quit,
Wait and ClearTasks of the compile service.

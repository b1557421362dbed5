------------------------- MODULE SubProcessController -------------------------
(***************************************************************************)
(* The subprocess subsystem of compiler_proxy: SubProcessTask objects and  *)
(* SubProcessControllerClient (client/subprocess_task.cc,                  *)
(* client/subprocess_controller_client.cc) talking over a socket pair to   *)
(* the server of module SubProcessServer.                                  *)
(*                                                                         *)
(* Threads: a task lives on the worker thread that created it; the client  *)
(* has a thread of its own, which runs the closures posted to it in order  *)
(* (all of PRIORITY_MED); Quit() and Shutdown() run on the main thread.    *)
(* RegisterTask, RequestRun and Kill take mu_, look at quit_ or at the     *)
(* periodic closure id, release mu_ and only then post the request, so the *)
(* check and the post are two steps.                                       *)
(*                                                                         *)
(* c2s is the client's closure queue, its pending_write_ and the socket in *)
(* one: a posted SendRequest closure only appends to the next of the three.*)
(* s2c likewise ends in the queue of Started and Terminated closures.      *)
(***************************************************************************)
EXTENDS SubProcessServer

CONSTANTS
  Blockers, Heavies, Runners, Killers, \* the ids that may be blocking, heavy,
               \* asked to run at HIGH priority, or killed by their owner
  MayQuit,     \* whether compiler_proxy may call Quit()
  MayCrash,    \* whether compiler_proxy may die
  MayBurst,    \* whether SubProcessOptionSetter may be called
  MaxQueue     \* bound on the messages in flight when a request that may be
               \* repeated for ever is made once more

ASSUME FlagsAssumption == {MayQuit, MayCrash, MayBurst} \subseteq BOOLEAN
ASSUME UsersAssumption ==
  {Blockers, Heavies, Runners, Killers} \subseteq SUBSET Ids
ASSUME MaxQueueAssumption == MaxQueue \in Nat

VARIABLES
  created,     \* number of tasks started so far; next_id_ until quit
  tstate,      \* SubProcessTask::state_
  blocking,    \* tasks of ReadCommandOutput, which have no callback_
  call,        \* the client method the task's thread is inside of
  calls_back,  \* how often Done() ran callback_ (async) or the waiting thread
               \* returned (blocking)
  done,        \* tasks whose Done closure is posted
  late,        \* tasks started in quit: without an id, not in subproc_tasks_
  subproc_tasks, \* subproc_tasks_
  quit, periodic, closed, \* quit_, periodic_closure_id_ is valid, closed_
  quit_pc,     \* where Quit() and Shutdown() are
  kills,       \* KILLs Quit() has still to send
  ckills,      \* KILLs the client thread has still to send
  cchecked,    \* the client thread is between check and post of the next one
  c2s,         \* requests on their way to the server
  up           \* compiler_proxy is alive

taskVars   == <<created, tstate, blocking, call, calls_back, done, late>>
clientVars == <<subproc_tasks, quit, periodic, closed, quit_pc, kills, ckills,
                cchecked>>
vars == <<serverVars, s2c, taskVars, clientVars, c2s, up>>

TaskState == {"SETUP", "PENDING", "RUN", "SIGNALED", "FINISHED"}
NoCall == [op |-> "none", checked |-> FALSE]
Call   == {NoCall} \cup [op : {"REGISTER", "REQUEST_RUN", "KILL"},
                         checked : BOOLEAN]
Request == [op : {"REGISTER"}, id : Ids, priority : Priority, weight : Weight]
           \cup [op : {"REQUEST_RUN", "KILL"}, id : Ids]
           \cup [op : {"SET_OPTION"}, option : {Normal, Burst}]
           \cup [op : {"SHUTDOWN", "CLOSED"}]

Room == Len(c2s) + Len(out) + Len(s2c) < MaxQueue

KillMsg(i) == [op |-> "KILL", id |-> i]

-----------------------------------------------------------------------------
(***************************************************************************)
(* SubProcessTask, on the thread that owns it.  Task t is the t-th object  *)
(* to enter RegisterTask, so that t is also its id if it is given one.     *)
(***************************************************************************)
Alive(t) == t <= created /\ calls_back[t] = 0
Idle(t)  == Alive(t) /\ call[t] = NoCall

\* Start() and StartInternal(): state PENDING, then RegisterTask's critical
\* section.  Priority is LOW, or HIGHEST for ReadCommandOutput; the weight of
\* the request is drawn when the request is sent.  In quit the task is not
\* inserted: only its Terminated is posted to the client thread.
Start(t) ==
  /\ t = created + 1
  /\ created' = t
  /\ tstate' = [tstate EXCEPT ![t] = "PENDING"]
  /\ blocking' \in {blocking, blocking \cup ({t} \cap Blockers)}
  /\ IF quit
     THEN /\ late' = late \cup {t}
          /\ UNCHANGED <<call, subproc_tasks>>
     ELSE /\ subproc_tasks' = subproc_tasks \cup {t}
          /\ call' = [call EXCEPT ![t] = [op |-> "REGISTER", checked |-> FALSE]]
          /\ UNCHANGED late
  /\ UNCHANGED <<serverVars, s2c, calls_back, done, quit, periodic, closed,
                 quit_pc, kills, ckills, cchecked, c2s, up>>

\* The check of quit_ (Register, RequestRun) or of the periodic closure id
\* (Kill) under mu_: the call goes on, or returns without a word.
Check(t) ==
  /\ call[t].op # "none" /\ ~call[t].checked
  /\ call' = [call EXCEPT ![t] =
                IF (IF call[t].op = "KILL" THEN periodic ELSE ~quit)
                THEN [@ EXCEPT !.checked = TRUE] ELSE NoCall]
  /\ UNCHANGED <<serverVars, s2c, created, tstate, blocking, calls_back, done,
                 late, clientVars, c2s, up>>

\* Mutant: set_priority is forgotten.
RequestOfNoPriority(t, w) ==
  IF call[t].op = "REGISTER"
  THEN [op |-> "REGISTER", id |-> t, weight |-> w]
  ELSE [op |-> call[t].op, id |-> t]

RequestOf(t, w) ==
  IF call[t].op = "REGISTER"
  THEN [op |-> "REGISTER", id |-> t, weight |-> w,
        priority |-> IF t \in blocking THEN "HIGHEST" ELSE "LOW"]
  ELSE [op |-> call[t].op, id |-> t]

\* Mutant: the request stays with the task and is posted again.
PostAgain(t) ==
  /\ call[t].checked
  /\ c2s' = Append(c2s, RequestOf(t, "LIGHT"))
  /\ UNCHANGED <<serverVars, s2c, taskVars, clientVars, up>>

\* RunClosureInThread(SendRequest).  ReadCommandOutput asks for LIGHT_WEIGHT.
Post(t) ==
  /\ call[t].checked
  /\ \E w \in Weight :
       /\ w = "HEAVY" => /\ call[t].op = "REGISTER"
                          /\ t \in Heavies \ blocking
       /\ c2s' = Append(c2s, RequestOf(t, w))
  /\ call' = [call EXCEPT ![t] = NoCall]
  /\ UNCHANGED <<serverVars, s2c, created, tstate, blocking, calls_back, done,
                 late, clientVars, up>>

\* RequestRun(): nothing unless PENDING.
TaskRequestRun(t) ==
  /\ Idle(t) /\ t \in Runners \ blocking
  /\ tstate[t] = "PENDING"
  /\ Room
  /\ call' = [call EXCEPT ![t] = [op |-> "REQUEST_RUN", checked |-> FALSE]]
  /\ UNCHANGED <<serverVars, s2c, created, tstate, blocking, calls_back, done,
                 late, clientVars, c2s, up>>

\* Mutant: a killed task counts as finished before its TERMINATED arrives.
TaskKillFinishes(t) ==
  /\ Idle(t) /\ t \in Killers \ blocking
  /\ tstate[t] \in {"PENDING", "RUN"}
  /\ tstate' = [tstate EXCEPT ![t] = "FINISHED"]
  /\ call' = [call EXCEPT ![t] = [op |-> "KILL", checked |-> FALSE]]
  /\ UNCHANGED <<serverVars, s2c, created, blocking, calls_back, done, late,
                 clientVars, c2s, up>>

\* Kill(): PENDING or RUN becomes SIGNALED and KILL is sent.
TaskKill(t) ==
  /\ Idle(t) /\ t \in Killers \ blocking
  /\ tstate[t] \in {"PENDING", "RUN"}
  /\ tstate' = [tstate EXCEPT ![t] = "SIGNALED"]
  /\ call' = [call EXCEPT ![t] = [op |-> "KILL", checked |-> FALSE]]
  /\ UNCHANGED <<serverVars, s2c, created, blocking, calls_back, done, late,
                 clientVars, c2s, up>>

\* Done(): runs callback_ on the task's thread and deletes the task.  A
\* blocking task is deleted by the thread that waits for FINISHED.
Done(t) ==
  /\ Idle(t)
  /\ IF t \in blocking THEN tstate[t] = "FINISHED" ELSE t \in done
  /\ done' = done \ {t}
  /\ calls_back' = [calls_back EXCEPT ![t] = @ + 1]
  /\ UNCHANGED <<serverVars, s2c, created, tstate, blocking, call, late,
                 clientVars, c2s, up>>

-----------------------------------------------------------------------------
(***************************************************************************)
(* SubProcessControllerClient, on its thread.                              *)
(***************************************************************************)
ClientIdle == ckills = {}
NextNotice(op) == s2c # <<>> /\ Head(s2c).op = op

\* Started(): PENDING becomes RUN, SIGNALED stays.  A process nobody waits
\* for any more is killed.
ClientStarted ==
  /\ ClientIdle /\ NextNotice("STARTED")
  /\ LET t == Head(s2c).id
     IN  IF t \in subproc_tasks
         THEN /\ tstate' = [tstate EXCEPT ![t] =
                              IF @ = "PENDING" THEN "RUN" ELSE @]
              /\ UNCHANGED ckills
         ELSE ckills' = {t} /\ UNCHANGED tstate
  /\ s2c' = Tail(s2c)
  /\ UNCHANGED <<serverVars, created, blocking, call, calls_back, done, late,
                 subproc_tasks, quit, periodic, closed, quit_pc,
                 kills, cchecked, c2s, up>>

\* Mutant: the task is not erased from subproc_tasks_.
ClientTerminatedNoErase ==
  /\ ClientIdle /\ NextNotice("TERMINATED")
  /\ LET t == Head(s2c).id
     IN  /\ tstate' = [tstate EXCEPT ![t] = "FINISHED"]
         /\ done' = IF t \in blocking THEN done ELSE done \cup {t}
  /\ s2c' = Tail(s2c)
  /\ UNCHANGED <<serverVars, created, blocking, call, calls_back, late,
                 clientVars, c2s, up>>

\* Mutant: the Done closure is not posted to the task's thread.
ClientTerminatedNoDone ==
  /\ ClientIdle /\ NextNotice("TERMINATED")
  /\ LET t == Head(s2c).id
     IN  IF t \in subproc_tasks
         THEN /\ subproc_tasks' = subproc_tasks \ {t}
              /\ tstate' = [tstate EXCEPT ![t] = "FINISHED"]
         ELSE UNCHANGED <<subproc_tasks, tstate>>
  /\ s2c' = Tail(s2c)
  /\ UNCHANGED <<serverVars, created, blocking, call, calls_back, done, late,
                 quit, periodic, closed, quit_pc, kills, ckills,
                 cchecked, c2s, up>>

\* Terminated(): the task leaves subproc_tasks_ and is FINISHED; the Done of
\* an asynchronous one is posted to its thread.  Unknown ids are logged.
ClientTerminated ==
  /\ ClientIdle /\ NextNotice("TERMINATED")
  /\ LET t == Head(s2c).id
     IN  IF t \in subproc_tasks
         THEN /\ subproc_tasks' = subproc_tasks \ {t}
              /\ tstate' = [tstate EXCEPT ![t] = "FINISHED"]
              /\ done' = IF t \in blocking THEN done ELSE done \cup {t}
         ELSE UNCHANGED <<subproc_tasks, tstate, done>>
  /\ s2c' = Tail(s2c)
  /\ UNCHANGED <<serverVars, created, blocking, call, calls_back, late,
                 quit, periodic, closed, quit_pc, kills, ckills,
                 cchecked, c2s, up>>

\* DoRead of CLOSED, in quit, and OnClosed().  Not in quit it is fatal.
ClientClosed ==
  /\ ClientIdle /\ NextNotice("CLOSED")
  /\ quit
  /\ closed' = TRUE
  /\ s2c' = Tail(s2c)
  /\ UNCHANGED <<serverVars, taskVars, subproc_tasks, quit, periodic,
                 quit_pc, kills, ckills, cchecked, c2s, up>>

\* The Terminated closure RegisterTask posts in quit: FINISHED, and no Done.
LateTerminated(t) ==
  /\ ClientIdle
  /\ t \in late /\ tstate[t] # "FINISHED"
  /\ tstate' = [tstate EXCEPT ![t] = "FINISHED"]
  /\ UNCHANGED <<serverVars, s2c, created, blocking, call, calls_back, done,
                 late, clientVars, c2s, up>>

\* CheckSignaled(), every 10 seconds: KILL again for every SIGNALED task.
CheckSignaled ==
  /\ ClientIdle
  /\ periodic
  /\ Room
  /\ ckills' = {t \in subproc_tasks : tstate[t] = "SIGNALED"}
  /\ ckills' # {}
  /\ UNCHANGED <<serverVars, s2c, taskVars, subproc_tasks, quit,
                 periodic, closed, quit_pc, kills, cchecked, c2s, up>>

\* Kill() called on the client thread: check, then post.
ClientKillCheck ==
  /\ ckills # {} /\ ~cchecked
  /\ cchecked' = periodic
  /\ ckills' = IF periodic THEN ckills ELSE ckills \ {Least(ckills)}
  /\ UNCHANGED <<serverVars, s2c, taskVars, subproc_tasks, quit,
                 periodic, closed, quit_pc, kills, c2s, up>>

ClientKillPost ==
  /\ cchecked
  /\ c2s' = Append(c2s, KillMsg(Least(ckills)))
  /\ ckills' = ckills \ {Least(ckills)}
  /\ cchecked' = FALSE
  /\ UNCHANGED <<serverVars, s2c, taskVars, subproc_tasks, quit,
                 periodic, closed, quit_pc, kills, up>>

-----------------------------------------------------------------------------
(***************************************************************************)
(* Quit() and Shutdown(), on the main thread.                              *)
(***************************************************************************)
QuitStart ==
  /\ MayQuit
  /\ quit_pc = "running"
  /\ quit' = TRUE
  /\ kills' = subproc_tasks
  /\ quit_pc' = "kills"
  /\ UNCHANGED <<serverVars, s2c, taskVars, subproc_tasks, periodic,
                 closed, ckills, cchecked, c2s, up>>

QuitKill ==
  /\ quit_pc = "kills" /\ kills # {}
  /\ c2s' = IF periodic THEN Append(c2s, KillMsg(Least(kills))) ELSE c2s
  /\ kills' = kills \ {Least(kills)}
  /\ UNCHANGED <<serverVars, s2c, taskVars, subproc_tasks, quit,
                 periodic, closed, quit_pc, ckills, cchecked, up>>

\* Mutant: no SHUTDOWN is sent.
QuitShutdownSilent ==
  /\ quit_pc = "kills" /\ kills = {}
  /\ quit_pc' = "unregister"
  /\ UNCHANGED <<serverVars, s2c, taskVars, subproc_tasks, quit,
                 periodic, closed, kills, ckills, cchecked, c2s, up>>

QuitShutdown ==
  /\ quit_pc = "kills" /\ kills = {}
  /\ c2s' = Append(c2s, [op |-> "SHUTDOWN"])
  /\ quit_pc' = "unregister"
  /\ UNCHANGED <<serverVars, s2c, taskVars, subproc_tasks, quit,
                 periodic, closed, kills, ckills, cchecked, up>>

QuitUnregister ==
  /\ quit_pc = "unregister"
  /\ periodic' = FALSE
  /\ quit_pc' = "shutdown"
  /\ UNCHANGED <<serverVars, s2c, taskVars, subproc_tasks, quit,
                 closed, kills, ckills, cchecked, c2s, up>>

\* Shutdown(): waits until subproc_tasks_ is empty and the peer has closed.
ClientShutdown ==
  /\ quit_pc = "shutdown"
  /\ subproc_tasks = {} /\ closed
  /\ quit_pc' = "deleted"
  /\ UNCHANGED <<serverVars, s2c, taskVars, subproc_tasks, quit,
                 periodic, closed, kills, ckills, cchecked, c2s, up>>

\* SetOption(), called by SubProcessOptionSetter to turn burst mode on or off.
ClientSetOption(o) ==
  /\ MayBurst
  /\ periodic
  /\ Room
  /\ c2s' = Append(c2s, [op |-> "SET_OPTION", option |-> o])
  /\ UNCHANGED <<serverVars, s2c, taskVars, clientVars, up>>

\* compiler_proxy dies: what it had not written to the socket is lost.
Crash ==
  /\ MayCrash
  /\ up' = FALSE
  /\ \E n \in 0..Len(c2s) : c2s' = Append(SubSeq(c2s, 1, n), [op |-> "CLOSED"])
  /\ UNCHANGED <<serverVars, s2c, taskVars, clientVars>>

\* DoWrite() of a request to a server that has closed its end: the write fails
\* (EPIPE) and LOG(FATAL) ends compiler_proxy.  It may happen to what is left in
\* c2s and need not: a request may have been in the socket before, and OnClosed
\* clears the writable event.
WriteFails ==
  /\ ClientIdle
  /\ ~serving /\ c2s # <<>>
  /\ up' = FALSE
  /\ UNCHANGED <<serverVars, s2c, taskVars, clientVars, c2s>>

-----------------------------------------------------------------------------
\* DoRead(): the server takes the next request.
Serve(m) ==
  \/ m.op = "REGISTER"    /\ Register(m.id, m.priority, m.weight)
  \/ m.op = "REQUEST_RUN" /\ RequestRun(m.id)
  \/ m.op = "KILL"        /\ Kill(m.id)
  \/ m.op = "SET_OPTION"  /\ SetOption(m.option)
  \/ m.op = "SHUTDOWN"    /\ Shutdown
  \/ m.op = "CLOSED"      /\ PeerClosed

ServerRead ==
  /\ c2s # <<>>
  /\ Serve(Head(c2s))
  /\ c2s' = Tail(c2s)
  /\ UNCHANGED <<taskVars, clientVars, up>>

Server == ServerStep(c2s = <<>>) /\ UNCHANGED <<taskVars, clientVars, c2s, up>>

Exit(i) == ProcExit(i) /\ UNCHANGED <<taskVars, clientVars, c2s, up>>

TaskThread(t) == Check(t) \/ Post(t) \/ Done(t)
ClientThread ==
  \/ ClientStarted \/ ClientTerminated \/ ClientClosed
  \/ ClientKillCheck \/ ClientKillPost
  \/ \E t \in Ids : LateTerminated(t)
MainThread == QuitKill \/ QuitShutdown \/ QuitUnregister \/ ClientShutdown

\* Steps taken only because somebody asks for them, and failures.
Demand ==
  \/ \E t \in Ids : Start(t) \/ TaskRequestRun(t) \/ TaskKill(t)
  \/ CheckSignaled \/ QuitStart \/ Crash \/ WriteFails
  \/ \E o \in {Normal, Burst} : ClientSetOption(o)

Init ==
  /\ ServerInit
  /\ created = 0
  /\ tstate = [t \in Ids |-> "SETUP"]
  /\ blocking = {}
  /\ call = [t \in Ids |-> NoCall]
  /\ calls_back = [t \in Ids |-> 0]
  /\ done = {}
  /\ late = {}
  /\ subproc_tasks = {}
  /\ quit = FALSE /\ periodic = TRUE /\ closed = FALSE
  /\ quit_pc = "running"
  /\ kills = {}
  /\ ckills = {}
  /\ cchecked = FALSE
  /\ c2s = <<>>
  /\ up = TRUE

Next ==
  \/ up /\ (Demand \/ ClientThread \/ MainThread \/ \E t \in Ids : TaskThread(t))
  \/ ServerRead \/ Server
  \/ \E i \in Ids : Exit(i)

\* The threads and the server's loop keep running; a process that was sent a
\* signal exits, nothing is assumed of the others.  DoTimeout runs only after
\* 500 ms (5 ms while a child is SIGNALED) without a request: that quiet spells
\* which recur are sometimes long enough is the strong fairness of Server.
Fairness ==
  /\ WF_vars(up /\ ClientThread) /\ WF_vars(up /\ MainThread)
  /\ \A t \in Ids : WF_vars(up /\ TaskThread(t))
  /\ WF_vars(ServerRead) /\ SF_vars(Server)
  /\ \A i \in Ids : WF_vars(proc[i] = "killed" /\ Exit(i))

Spec == Init /\ [][Next]_vars /\ Fairness

\* Every process exits by itself sooner or later: a compiler does.
FiniteJobs == \A i \in Ids : WF_vars(Exit(i))

-----------------------------------------------------------------------------
(***************************************************************************)
(* Properties.                                                             *)
(***************************************************************************)
TaskTypeOK ==
  /\ created \in Nat
  /\ tstate \in [Ids -> TaskState]
  /\ call \in [Ids -> Call]
  /\ calls_back \in [Ids -> Nat]
  /\ blocking \in SUBSET Ids /\ done \in SUBSET Ids /\ late \in SUBSET Ids

ClientTypeOK ==
  /\ subproc_tasks \in SUBSET Ids
  /\ kills \in SUBSET Ids /\ ckills \in SUBSET Ids
  /\ quit \in BOOLEAN /\ periodic \in BOOLEAN /\ closed \in BOOLEAN
  /\ cchecked \in BOOLEAN /\ up \in BOOLEAN
  /\ quit_pc \in {"running", "kills", "unregister", "shutdown", "deleted"}
  /\ c2s \in Seq(Request)

\* The type invariant of the subprocess subsystem: client, server and what is
\* on the way between them.
TypeOK == ServerTypeOK /\ TaskTypeOK /\ ClientTypeOK

\* The server never sits on queued work: while an entry is PENDING some entry
\* is spawned, so that a later DoTimeout will call TrySpawnSubProcess again.
\* Nothing else would: SetOption does not, and no timer does.
NoStall ==
  serving /\ ~respawn /\ Pending(sstate) # {}
    => \E i \in Ids : sstate[i] \in {"RUN", "SIGNALED"}

\* The limit TrySpawnSubProcess enforces on everything but ReadCommandOutput,
\* when burst mode may have been turned off in the meantime.
RunningBound ==
  LET counted == {i \in Running(sstate) : priority[i] # "HIGHEST"}
  IN  \/ Cardinality(counted) <= Normal.max
      \/ Cardinality(counted) <= Burst.max

\* The limit on heavy subprocesses (linkers, javac) likewise.
HeavyBound ==
  LET heavy == {i \in Running(sstate) : weight[i] = "HEAVY"}
  IN  \/ Cardinality(heavy) <= Normal.heavy
      \/ Cardinality(heavy) <= Burst.heavy

\* The limits of SubProcessControllerServer::Options hold together, whatever was
\* spawned under the options of before or by the nested call.
LimitsKept == RunningBound /\ HeavyBound

\* DoTimeout waits for a SIGNALED child with a blocking waitpid: it must have
\* exited, or the whole server hangs and a healthy process is killed.
SignaledIsDead == \A i \in Ids : sstate[i] = "SIGNALED" => proc[i] = "exited"

\* No process outlives the server, whether it was shut down or lost its client.
NoOrphanProcess == ~serving => \A i \in Ids : proc[i] \in {"none", "exited"}

\* An id is registered once: from RegisterTask until the server reads the
\* REGISTER, at most one is under way and the server knows nothing of the id.
RegisterAt(i, k) == c2s[k].op = "REGISTER" /\ c2s[k].id = i
InFlight(i) == \E k \in 1..Len(c2s) : RegisterAt(i, k)

RegisteredOnce ==
  \A i \in Ids :
    /\ i > created => call[i] = NoCall
    /\ i > created \/ call[i].op = "REGISTER" => ~InFlight(i)
    /\ \A k, l \in 1..Len(c2s) : RegisterAt(i, k) /\ RegisterAt(i, l) => k = l
    /\ i > created \/ call[i].op = "REGISTER" \/ InFlight(i)
         => sstate[i] = "NONE" /\ proc[i] = "none"

\* subprocs_ and the processes agree: an entry that waits has no process yet, a
\* live process has an entry in RUN, a SIGCHLD is that of the entry's own child
\* (which may be alive no more), and nothing is left when Loop() has returned.
EntryOfProcess ==
  \A i \in Ids :
    /\ sstate[i] = "PENDING" => proc[i] = "none"
    /\ proc[i] \in {"alive", "killed"} => sstate[i] = "RUN"
    /\ sstate[i] = "SIGNALED" \/ i \in sigs => proc[i] = "exited"
    /\ ~serving => sstate[i] = "NONE"

\* The CHECK in SubProcessTask::Started: STARTED reaches a task that is PENDING
\* or SIGNALED, never one that is RUN, FINISHED or deleted.
StartedInOrder ==
  NextNotice("STARTED") /\ Head(s2c).id \in subproc_tasks
    => /\ tstate[Head(s2c).id] \in {"PENDING", "SIGNALED"}
       /\ calls_back[Head(s2c).id] = 0

\* The CHECKs of DoRead and OnClosed: the peer closes in quit only, and every
\* task was told before.  No TERMINATED is lost in the server's last pass.
CleanClose == NextNotice("CLOSED") /\ up => quit /\ subproc_tasks = {}

\* A callback runs once, and subproc_tasks_ points to no deleted task.
CalledBackOnce ==
  /\ \A t \in Ids : calls_back[t] <= 1
  /\ \A t \in subproc_tasks : calls_back[t] = 0

\* The notices of the server reach a task in an order its CHECKs expect, and its
\* callback is posted once, whatever threads call Kill(), Quit() and Done().
ToldInOrder == StartedInOrder /\ CalledBackOnce

\* "Once callback is called, the subprocess is terminated" (subprocess_task.h):
\* no process of a task is alive after its callback, as that comes from the
\* server's TERMINATED, which is sent after waitpid.  It is so until Quit() has
\* begun, whose KILL may overtake the REGISTER of the task.
DoneMeansDead ==
  ~quit => \A t \in Ids : calls_back[t] > 0 => proc[t] \in {"none", "exited"}

\* Requests do not come without a pause: a task asks to run a few times, and
\* CheckSignaled has a period of 10 s, many times the server's select timeout.
QuietRecurs == []<>(c2s = <<>>)

\* A task that has an id and no callback so far, in a compiler_proxy that was not
\* ended by a write to the server after its close.
Waits(t) == t <= created /\ t \notin late /\ calls_back[t] = 0 /\ up

\* Done() runs the callback of every task that is killed or has finished, even if
\* no process ever exits by itself.  (A task is started, killed and called back
\* once: it is called back if again and again none waits.)
KilledIsDone ==
  QuietRecurs =>
    []<>(\A t \in Ids : Waits(t) => tstate[t] \notin {"SIGNALED", "FINISHED"})

\* With finite jobs Done() runs the callback of every task that has an id: none is
\* stuck behind the limits, and none is lost in Quit().
StartedIsDone ==
  QuietRecurs /\ FiniteJobs => []<>(\A t \in Ids : ~Waits(t))

\* Shutdown() returns: after Quit() the server exits and all tasks finish, those
\* that are not killed because their jobs end.  A call that passed its check
\* before Quit() and posts its request after the server's close may instead end
\* compiler_proxy, in DoWrite.
ShutdownReturns == FiniteJobs => []<>(quit => quit_pc = "deleted" \/ ~up)
===============================================================================

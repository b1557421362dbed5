---------------------------- MODULE WorkerThread -----------------------------
(***************************************************************************)
(* WorkerThread (client/worker_thread.cc) with its DescriptorPoller: a     *)
(* thread that runs closures by priority, and waits in select() when it    *)
(* has none.  Other threads add closures under mu_ and wake it up through  *)
(* a pipe.  WorkerThreadManager makes such threads and ends them.          *)
(*                                                                         *)
(* Every action is what one thread does in one critical section of mu_, or *)
(* one closure.  The closures here are those of a list of jobs, each given *)
(* to RunClosure() by a client thread of its own, one delayed and one      *)
(* periodic closure, and the callbacks of one socket.                      *)
(***************************************************************************)
EXTENDS Integers, Sequences, SequencesExt, FiniteSets

CONSTANTS
  JobSets   \* sets of jobs: [name |-> ..., priority |-> ..., does |-> ...]

Jobs == UNION JobSets

\* PRIORITY_LOW, PRIORITY_MED, PRIORITY_HIGH, PRIORITY_IMMEDIATE.
LOW == 0
MED == 1
HIGH == 2
IMMEDIATE == 3
Priorities == LOW..IMMEDIATE

\* What the closure of a job does: nothing, add another closure to its own
\* thread, start or cancel the delayed closure, register or unregister the
\* periodic one, open the socket.
Effects == {"plain", "again", "delay", "cancel", "register", "unregister",
            "open"}

ASSUME JobsAssumption ==
  \A j \in Jobs : j.priority \in Priorities /\ j.does \in Effects

VARIABLES
  dispatch,     \* where the thread is: next, poll, run, ended
  current,      \* current_closure_data_
  pendings,     \* pendings_
  signaled,     \* there is something to read from the pipe of the poller
  signaling,    \* client threads between RunClosure()'s mu_ and Signal()
  poll_zero,    \* poll_interval_ is zero
  poll_prio,    \* priority given to PollEvents()
  delayed,      \* the DelayedClosureImpl: none, waiting, queued, gone
  delayed_todo, \* its closure_: none, set, canceled, ran
  periodic,     \* the periodic closure: none, registered, unregistered
  socket,       \* the descriptor: none, open, stopped, closed
  io_in_queue,  \* whether its callback is in pendings_
  job,          \* state of each job: unused, new, posted, ran
  again,        \* closures the jobs have added themselves: none, posted, ran
  shutting_down, quitting, \* shutting_down_ and quit_
  stale         \* the periodic closure has run after it was unregistered, or
                \* the delayed one after it was canceled

worker_vars == <<dispatch, current, pendings, signaled, signaling, poll_zero,
                 poll_prio, delayed, delayed_todo, periodic, socket,
                 io_in_queue, job, again, shutting_down, quitting, stale>>

Nobody == [name |-> "none", does |-> "none"]
Delayed == [name |-> "delayed", does |-> "delayed"]
Periodic == [name |-> "periodic", does |-> "periodic"]
IoCallback == [name |-> "io", does |-> "io"]
Close == [name |-> "close", does |-> "close"]
Again == [name |-> "again", does |-> "plain"]
JobClosure(j) == [name |-> j.name, does |-> j.does]
Add(p, priority, c) == [p EXCEPT ![priority] = Append(@, c)]
NoPendings(p) == \A n \in Priorities : p[n] = <<>>
Highest(p) == CHOOSE n \in Priorities :
                p[n] # <<>> /\ \A m \in Priorities : m > n => p[m] = <<>>

-----------------------------------------------------------------------------
(***************************************************************************)
(* Clients.                                                                *)
(***************************************************************************)
\* A closure is unregistered by who registered it.
MayPost(j) ==
  /\ j.does = "unregister" =>
       \E r \in Jobs : r.does = "register" /\ job[r] \in {"posted", "ran"}
  /\ j.does = "cancel" => delayed # "none"

\* Mutant: the thread is not woken up.
RunClosureSilent(j) ==
  /\ job[j] = "new" /\ ~quitting /\ MayPost(j)
  /\ job' = [job EXCEPT ![j] = "posted"]
  /\ pendings' = Add(pendings, j.priority, JobClosure(j))
  /\ UNCHANGED <<dispatch, current, signaled, signaling, poll_zero, poll_prio,
                 delayed, delayed_todo, periodic, socket, io_in_queue, again,
                 shutting_down, quitting, stale>>

\* RunClosure(), from another thread.  A thread that runs a closure need not be
\* woken up.
RunClosure(j) ==
  /\ job[j] = "new" /\ ~quitting /\ MayPost(j)
  /\ job' = [job EXCEPT ![j] = "posted"]
  /\ pendings' = Add(pendings, j.priority, JobClosure(j))
  /\ signaling' = IF current # Nobody THEN signaling ELSE signaling \cup {j}
  /\ UNCHANGED <<dispatch, current, signaled, poll_zero, poll_prio, delayed,
                 delayed_todo, periodic, socket, io_in_queue, again,
                 shutting_down, quitting, stale>>

\* DescriptorPoller::Signal(), after mu_ was released.
Signal(j) ==
  /\ j \in signaling
  /\ signaling' = signaling \ {j} /\ signaled' = TRUE
  /\ UNCHANGED <<dispatch, current, pendings, poll_zero, poll_prio, delayed,
                 delayed_todo, periodic, socket, io_in_queue, job, again,
                 shutting_down, quitting, stale>>

\* WorkerThreadManager::Shutdown().
Shutdown ==
  /\ ~shutting_down /\ shutting_down' = TRUE
  /\ UNCHANGED <<dispatch, current, pendings, signaled, signaling, poll_zero,
                 poll_prio, delayed, delayed_todo, periodic, socket, io_in_queue,
                 job, again, quitting, stale>>

\* WorkerThreadManager::Finish() calls Quit().  It holds the lock of the
\* manager, which every RunClosure() of the manager takes, until it has joined
\* the thread: it is called once the clients are through and have unregistered
\* what they registered.
Quit ==
  /\ ~quitting /\ signaling = {}
  /\ (\E j \in Jobs : j.does = "register" /\ job[j] \in {"posted", "ran"})
       => \E j \in Jobs : j.does = "unregister" /\ job[j] = "ran"
  /\ quitting' = TRUE /\ shutting_down' = TRUE /\ signaled' = TRUE
  /\ UNCHANGED <<dispatch, current, pendings, signaling, poll_zero, poll_prio,
                 delayed, delayed_todo, periodic, socket, io_in_queue, job,
                 again, stale>>

-----------------------------------------------------------------------------
(***************************************************************************)
(* The dispatch loop.                                                      *)
(***************************************************************************)
\* Mutant: current_closure_data_ is only reset with a new one.
NextClosureKeepsCurrent ==
  /\ dispatch = "next"
  /\ IF pendings[IMMEDIATE] # <<>>
     THEN /\ current' = Head(pendings[IMMEDIATE])
          /\ pendings' = [pendings EXCEPT ![IMMEDIATE] = Tail(@)]
          /\ dispatch' = "run"
          /\ UNCHANGED <<poll_zero, poll_prio>>
     ELSE /\ dispatch' = "poll" /\ UNCHANGED <<current, pendings>>
          /\ poll_zero' = ~NoPendings(pendings)
          /\ poll_prio' = IF NoPendings(pendings) THEN LOW - 1 ELSE Highest(pendings)
  /\ UNCHANGED <<signaled, signaling, delayed, delayed_todo, periodic, socket,
                 io_in_queue, job, again, shutting_down, quitting, stale>>

\* NextClosure() up to PollEvents(), which releases mu_ while it waits.
\* Immediate closures are run without a look at the descriptors.
NextClosure ==
  /\ dispatch = "next"
  /\ IF pendings[IMMEDIATE] # <<>>
     THEN /\ current' = Head(pendings[IMMEDIATE])
          /\ pendings' = [pendings EXCEPT ![IMMEDIATE] = Tail(@)]
          /\ dispatch' = "run"
          /\ UNCHANGED <<poll_zero, poll_prio>>
     ELSE /\ dispatch' = "poll" /\ current' = Nobody
          /\ poll_zero' = ~NoPendings(pendings)
          /\ poll_prio' = IF NoPendings(pendings) THEN LOW - 1 ELSE Highest(pendings)
          /\ UNCHANGED pendings
  /\ UNCHANGED <<signaled, signaling, delayed, delayed_todo, periodic, socket,
                 io_in_queue, job, again, shutting_down, quitting, stale>>

\* What is added to pendings_ when the poll is over: the delayed closure if it
\* is due, or in a hurry; the periodic one, once for every period; the callback
\* of a socket of a priority above what was pending.
Gathered(due, tick, ready) ==
  LET a == IF due THEN Add(pendings, IMMEDIATE, Delayed) ELSE pendings
      b == IF tick THEN Add(a, IMMEDIATE, Periodic) ELSE a
  IN  IF ready THEN Add(b, MED, IoCallback) ELSE b

\* The condition to end the thread.
Through ==
  /\ quitting /\ delayed # "waiting" /\ periodic # "registered"
  /\ socket \in {"none", "closed"}

\* The rest of NextClosure().  due, tick and ready: what the clock and select()
\* say; the poll ends with an event or by its timeout.
PollEvents(due, tick, ready) ==
  /\ dispatch = "poll"
  /\ due => delayed = "waiting"
  /\ shutting_down /\ delayed = "waiting" => due  \* in a hurry
  /\ tick => periodic = "registered"
  /\ ready => socket = "open" /\ ~io_in_queue /\ MED > poll_prio
  /\ delayed' = IF due THEN "queued" ELSE delayed
  /\ io_in_queue' = (io_in_queue \/ ready)
  /\ LET p == Gathered(due, tick, ready) IN
     IF NoPendings(p)
     THEN /\ dispatch' = IF Through THEN "ended" ELSE "next"
          /\ pendings' = p /\ signaled' = FALSE /\ UNCHANGED current
     ELSE /\ dispatch' = "run" /\ current' = Head(p[Highest(p)])
          /\ pendings' = [p EXCEPT ![Highest(p)] = Tail(@)]
          /\ signaled' = quitting  \* wake up soon
  /\ UNCHANGED <<signaling, poll_zero, poll_prio, delayed_todo, periodic, socket,
                 job, again, shutting_down, quitting, stale>>

-----------------------------------------------------------------------------
(***************************************************************************)
(* Closures, on the thread.                                                *)
(***************************************************************************)
\* Mutant: everything immediate is thrown away with it.
UnregisteredDropsAll(p) == [p EXCEPT ![IMMEDIATE] = <<>>]

\* The closures of q that are not c, taken one by one.
Without(q, c) ==
  LET kept[n \in 0..Len(q)] ==
        IF n = 0 THEN <<>>
        ELSE IF q[n] = c THEN kept[n - 1] ELSE Append(kept[n - 1], q[n])
  IN  kept[Len(q)]

\* UnregisterPeriodicClosure() also takes the closure out of the queue.
Unregistered(p) == [p EXCEPT ![IMMEDIATE] = Without(@, Periodic)]

\* RegisterPeriodicClosure(), UnregisterPeriodicClosure(), RunDelayedClosure(),
\* Cancel(), RegisterSocketDescriptor() and DeleteSocketDescriptor().  A delayed
\* closure that has run is not canceled any more.
Effect(does) ==
  /\ pendings' = IF does = "unregister" THEN Unregistered(pendings)
                 ELSE IF does = "again" THEN Add(pendings, LOW, Again)
                 ELSE pendings
  /\ again' = IF does = "again" THEN "posted" ELSE again
  /\ periodic' = IF does = "register" THEN "registered"
                 ELSE IF does = "unregister" THEN "unregistered" ELSE periodic
  /\ delayed' = IF does = "delay" THEN "waiting" ELSE delayed
  /\ delayed_todo' = IF does = "delay" THEN "set"
                     ELSE IF does = "cancel" /\ delayed_todo = "set"
                     THEN "canceled" ELSE delayed_todo
  /\ socket' = IF does = "open" THEN "open" ELSE socket
  /\ UNCHANGED stale

\* Mutant: a canceled closure is run.
RunDelayedAnyway(todo) == "ran"

\* DelayedClosureImpl::Run(): what is left of a closure after it.
RunDelayed(todo) == IF todo = "set" THEN "ran" ELSE todo

\* The callback of the socket may be the last one: it calls StopRead() and posts
\* a closure, with the priority of the socket, to delete the descriptor.
RunIo ==
  /\ io_in_queue' = FALSE
  /\ \/ UNCHANGED <<socket, pendings>>
     \/ /\ socket = "open" /\ socket' = "stopped"
        /\ pendings' = Add(pendings, MED, Close)
  /\ UNCHANGED <<again, periodic, delayed, delayed_todo, stale>>

RunCurrent ==
  /\ dispatch = "run" /\ dispatch' = "next"
  /\ job' = [j \in Jobs |-> IF current = JobClosure(j) THEN "ran" ELSE job[j]]
  /\ CASE current = Delayed ->
           /\ delayed' = "gone" /\ delayed_todo' = RunDelayed(delayed_todo)
           /\ stale' = (stale \/ <<delayed_todo, delayed_todo'>> = <<"canceled", "ran">>)
           /\ UNCHANGED <<pendings, again, periodic, socket, io_in_queue>>
       [] current = Periodic ->
           /\ stale' = (stale \/ periodic # "registered")
           /\ UNCHANGED <<pendings, again, periodic, socket, delayed,
                          delayed_todo, io_in_queue>>
       [] current = IoCallback -> RunIo
       [] current = Close ->
           /\ socket' = "closed"
           /\ UNCHANGED <<pendings, again, periodic, delayed, delayed_todo,
                          io_in_queue, stale>>
       [] current = Again ->
           /\ again' = "ran"
           /\ UNCHANGED <<pendings, periodic, socket, delayed, delayed_todo,
                          io_in_queue, stale>>
       [] OTHER -> Effect(current.does) /\ UNCHANGED io_in_queue
  /\ UNCHANGED <<current, signaled, signaling, poll_zero, poll_prio,
                 shutting_down, quitting>>

-----------------------------------------------------------------------------
WorkerInit ==
  /\ dispatch = "next" /\ current = Nobody
  /\ pendings = [n \in Priorities |-> <<>>]
  /\ signaled = FALSE /\ signaling = {}
  /\ poll_zero = FALSE /\ poll_prio = LOW - 1
  /\ delayed = "none" /\ delayed_todo = "none"
  /\ periodic = "none" /\ socket = "none" /\ io_in_queue = FALSE
  /\ \E js \in JobSets :
       job = [j \in Jobs |-> IF j \in js THEN "new" ELSE "unused"]
  /\ again = "none"
  /\ shutting_down = FALSE /\ quitting = FALSE /\ stale = FALSE

WorkerNext ==
  \/ \E j \in Jobs : RunClosure(j) \/ Signal(j)
  \/ Shutdown \/ Quit
  \/ NextClosure \/ RunCurrent
  \/ \E due, tick, ready \in BOOLEAN : PollEvents(due, tick, ready)

WorkerSpec == WorkerInit /\ [][WorkerNext]_worker_vars

\* Clients finish a call they have begun and unregister what they registered;
\* the thread goes on; select() ends at the latest by its timeout.  The periods
\* of periodic closures are longer than the closures take and sockets are not
\* always ready, so again and again a poll finds neither.  Time passes: what
\* is delayed becomes due.  The users of a socket close it.
WorkerFairness ==
  /\ \A j \in Jobs :
       /\ WF_worker_vars(Signal(j))
       /\ WF_worker_vars(RunClosure(j) /\ j.does = "unregister")
  /\ WF_worker_vars(NextClosure) /\ WF_worker_vars(RunCurrent)
  /\ SF_worker_vars(\E due \in BOOLEAN : PollEvents(due, FALSE, FALSE))
  /\ SF_worker_vars(PollEvents(TRUE, FALSE, FALSE))

-----------------------------------------------------------------------------
(***************************************************************************)
(* Properties.                                                             *)
(***************************************************************************)
\* The type invariant of a worker thread.
WorkerTypeOK ==
  /\ dispatch \in {"next", "poll", "run", "ended"}
  /\ DOMAIN pendings = Priorities
  /\ dispatch = "poll" => current = Nobody
  /\ {signaled, poll_zero, io_in_queue, shutting_down, quitting, stale}
       \subseteq BOOLEAN
  /\ signaling \subseteq Jobs
  /\ poll_prio \in Priorities \cup {LOW - 1}
  /\ delayed \in {"none", "waiting", "queued", "gone"}
  /\ delayed_todo \in {"none", "set", "canceled", "ran"}
  /\ periodic \in {"none", "registered", "unregistered"}
  /\ socket \in {"none", "open", "stopped", "closed"}
  /\ job \in [Jobs -> {"unused", "new", "posted", "ran"}]
  /\ again \in {"none", "posted", "ran"}

\* No wakeup is lost: a thread that waits in select() though a closure is there
\* for it has been or is about to be woken up.
NoLostWakeup ==
  dispatch = "poll" /\ ~poll_zero /\ ~NoPendings(pendings)
    => signaled \/ signaling # {}

\* A periodic closure that is unregistered, and a delayed closure that was
\* canceled, are deleted: neither is run afterwards, though it was queued.
CanceledNeverRuns == ~stale

\* The CHECKs at the end of ThreadMain(): a thread that ends has run all it was
\* given, delayed closures included.
EndsDrained ==
  dispatch = "ended" =>
    /\ NoPendings(pendings) /\ delayed \notin {"waiting", "queued"}
    /\ periodic # "registered" /\ socket \notin {"open", "stopped"}
    /\ \A j \in Jobs : job[j] # "posted"

\* A closure that was posted is seen by its thread and runs before that ends, and
\* one that was canceled or unregistered does not run at all.
RunOrCanceled == NoLostWakeup /\ CanceledNeverRuns /\ EndsDrained

\* What was posted was run, also by a thread that is about to end, and a thread
\* that was told to quit has ended, once its socket is closed.
ClosuresRan ==
  /\ \A j \in Jobs : job[j] # "posted"
  /\ delayed \notin {"waiting", "queued"}
  /\ quitting => dispatch = "ended" \/ socket = "open"
==============================================================================

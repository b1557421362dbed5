------------------------------ MODULE MCServices ------------------------------
(***************************************************************************)
(* Small instances of the services of compiler_proxy for TLC.  Each of     *)
(* them is checked by itself: a behaviour is one of the service in focus,  *)
(* and the others, which share no state with it, stay as they are.         *)
(***************************************************************************)
EXTENDS ThreadpoolHttpServer, WorkerThread, HttpClient

CONSTANTS
  Parts     \* the services to check

VARIABLE focus

Services == {"server", "worker", "http"}
ASSUME PartsAssumption == Parts \subseteq Services

all_vars == <<focus, server_vars, worker_vars, http_vars>>

\* What the closures of a worker thread do: a periodic closure comes and goes, a
\* closure adds another one, a delayed closure is canceled behind it or behind a
\* socket, a socket is used.
Job(name, priority, does) ==
  [name |-> name, priority |-> priority, does |-> does]
Delay == Job("delay", LOW, "delay")
Plain == Job("plain", IMMEDIATE, "plain")
Open == Job("open", MED, "open")
SomeJobs ==
  {{Job("register", IMMEDIATE, "register"),
    Job("unregister", IMMEDIATE, "unregister"), Plain},
   {Job("again", LOW, "again"), Delay, Job("cancel", HIGH, "cancel")},
   {Open, Delay, Job("cancel now", IMMEDIATE, "cancel")},
   {Open, Plain}}

\* Clients: one request with or without OAuth2 that may be throttled, retried
\* and shut down; two requests that share a token.
Client(requests, oauth2, throttle_ok, timeouts, connects, shutdown) ==
  [requests |-> requests, oauth2 |-> oauth2, allow_throttle |-> throttle_ok,
   timeouts |-> timeouts, connects |-> connects, shutdown |-> shutdown]
SomeClients == {Client({"r1"}, TRUE, TRUE, 2, 1, TRUE),
                Client({"r1"}, FALSE, TRUE, 2, 1, TRUE),
                Client({"r1", "r2"}, TRUE, FALSE, 1, 0, FALSE)}
SomeEnds == {"ok", "fail", "http_blocked"}
AnyAnswer == Answers

\* A worker thread that is not in focus has ended.
NoWorker ==
  /\ dispatch = "ended" /\ current = Nobody
  /\ pendings = [n \in Priorities |-> <<>>]
  /\ signaled = FALSE /\ signaling = {}
  /\ poll_zero = FALSE /\ poll_prio = LOW - 1
  /\ delayed = "none" /\ delayed_todo = "none"
  /\ periodic = "none" /\ socket = "none" /\ io_in_queue = FALSE
  /\ job = [j \in Jobs |-> "unused"] /\ again = "none"
  /\ shutting_down = TRUE /\ quitting = TRUE /\ stale = FALSE

Init ==
  /\ focus \in Parts
  /\ ServerInit /\ HttpInit
  /\ IF focus = "worker" THEN WorkerInit ELSE NoWorker
  /\ focus # "server" => max_sockets = MaxSockets
  /\ focus # "http" => options = CHOOSE o \in HttpOptions : TRUE

Next ==
  /\ UNCHANGED focus
  /\ \/ /\ focus = "server" /\ ServerNext
        /\ UNCHANGED <<worker_vars, http_vars>>
     \/ /\ focus = "worker" /\ WorkerNext
        /\ UNCHANGED <<server_vars, http_vars>>
     \/ /\ focus = "http" /\ HttpNext
        /\ UNCHANGED <<server_vars, worker_vars>>

\* A service that is not in focus has nothing to do.
Spec ==
  /\ Init /\ [][Next]_all_vars
  /\ ServerFairness /\ WorkerFairness /\ HttpFairness

\* The type invariants of the three services.
ServicesTypeOK == ServerTypeOK /\ WorkerTypeOK /\ HttpTypeOK

\* Connections, closures and calls all end: again and again, every connection is
\* deleted, what was posted is run, and callers of DoAsync() are called back, but for
\* the races the three definitions name.
EverythingEnds == []<>(ConnectionsEnded /\ ClosuresRan /\ CallsAreBack)
===============================================================================

----------------------------- MODULE MultiHttpRPC -----------------------------
(***************************************************************************)
(* MultiHttpRPC and MultiFileStore (client/multi_http_rpc.cc): calls that  *)
(* store a blob are gathered and sent as one HTTP request when there are   *)
(* enough of them or they are large, and by a periodic closure otherwise.  *)
(*                                                                         *)
(* The caller of StoreFile() waits on its thread until its status is       *)
(* finished.  An action is a critical section of mu_ or code of one        *)
(* thread.  There is one pending MultiJob, as MultiFileStore keeps the     *)
(* default MultiJobKey().  HttpRPC is external: a request is answered.     *)
(***************************************************************************)
EXTENDS Integers, FiniteSets, Sequences, SequencesExt

CONSTANTS
  Stores,       \* calls of StoreFile()
  BigStores,    \* those that reach req_size_threshold_in_call by themselves
  MaxReqInCall  \* max_req_in_call

ASSUME StoresAssumption == IsFiniteSet(Stores) /\ BigStores \subseteq Stores
ASSUME MaxReqAssumption == MaxReqInCall \in Nat \ {0}

VARIABLES
  store,         \* each call: new, unlocked, direct, batched, ok, failed
  blob_of,       \* whose request has the blob of a call: own, multi
  gathering,     \* pending_multi_jobs_[""], the calls of it
  multi_jobs,    \* MultiJobs that left it
  num_multi_job, \* num_multi_job_
  available,     \* available_
  periodic_id,   \* periodic_callback_id_ is valid
  unregistering, \* UnregisterCheckPending closures that were posted
  checking,      \* the alarm thread is in CheckPending() before mu_
  rpc_down,      \* shutting_down() of the HttpClient
  wait_at        \* Wait(): no, unregister (mu_ is held), blocked, returned

store_vars == <<store, blob_of, gathering, multi_jobs, num_multi_job, available,
                periodic_id, unregistering, checking, rpc_down, wait_at>>

MuFree == wait_at # "unregister"
Job(calls, at) == [calls |-> calls, at |-> at]
JobsOf(s) == {j \in multi_jobs : s \in ToSet(j.calls)}

-----------------------------------------------------------------------------
\* Call() reads available_ without mu_.  A call that is not batched is one of
\* HttpRPC.
Call(s) ==
  /\ store[s] = "new"
  /\ store' = [store EXCEPT ![s] =
                 IF ~available \/ MaxReqInCall = 1 THEN "direct" ELSE "unlocked"]
  /\ UNCHANGED <<blob_of, gathering, multi_jobs, num_multi_job, available,
                 periodic_id, unregistering, checking, rpc_down, wait_at>>

\* The answer to such a call.
DirectDone(s) ==
  /\ store[s] = "direct"
  /\ \E end \in {"ok", "failed"} : store' = [store EXCEPT ![s] = end]
  /\ UNCHANGED <<blob_of, gathering, multi_jobs, num_multi_job, available,
                 periodic_id, unregistering, checking, rpc_down, wait_at>>

\* Mutant: a call made in shutdown is left to the periodic closure.
CallNowWhenFull(calls) ==
  Len(calls) = MaxReqInCall \/ ToSet(calls) \cap BigStores # {}

\* call_now of Call().
CallNow(calls) ==
  \/ rpc_down
  \/ Len(calls) = MaxReqInCall
  \/ ToSet(calls) \cap BigStores # {}

\* Call() under mu_: the first call registers the periodic closure.
AddCall(s) ==
  LET calls == Append(gathering, s)
      now == CallNow(calls)
  IN  /\ store[s] = "unlocked" /\ MuFree
      /\ store' = [store EXCEPT ![s] = "batched"]
      /\ periodic_id' = (periodic_id \/ ~rpc_down)
      /\ gathering' = IF now THEN <<>> ELSE calls
      /\ multi_jobs' = IF now THEN multi_jobs \cup {Job(calls, "made")}
                       ELSE multi_jobs
      /\ num_multi_job' = IF now THEN num_multi_job + 1 ELSE num_multi_job
      /\ UNCHANGED <<blob_of, available, unregistering, checking, rpc_down,
                     wait_at>>

\* The period of the closure is over: the alarm thread enters CheckPending().
Alarm ==
  /\ (periodic_id \/ unregistering > 0) /\ ~checking
  /\ checking' = TRUE
  /\ UNCHANGED <<store, blob_of, gathering, multi_jobs, num_multi_job, available,
                 periodic_id, unregistering, rpc_down, wait_at>>

\* Mutant: the closure goes before it has looked at what is pending.
CheckPendingUnregistersFirst ==
  /\ checking /\ MuFree
  /\ checking' = FALSE
  /\ gathering' = IF available THEN <<>> ELSE gathering
  /\ multi_jobs' = IF gathering # <<>> /\ available
                   THEN multi_jobs \cup {Job(gathering, "made")} ELSE multi_jobs
  /\ periodic_id' = (periodic_id /\ available)
  /\ unregistering' = IF periodic_id /\ ~available THEN unregistering + 1
                      ELSE unregistering
  /\ UNCHANGED <<store, blob_of, num_multi_job, available, rpc_down, wait_at>>

\* CheckPending() under mu_: what is pending is sent by another thread.  When
\* batches are not available the closure is given up.
CheckPending ==
  /\ checking /\ MuFree
  /\ checking' = FALSE
  /\ gathering' = <<>>
  /\ multi_jobs' = IF gathering = <<>> THEN multi_jobs
                   ELSE multi_jobs \cup {Job(gathering, "made")}
  /\ periodic_id' = (periodic_id /\ available)
  /\ unregistering' = IF periodic_id /\ ~available THEN unregistering + 1
                      ELSE unregistering
  /\ UNCHANGED <<store, blob_of, num_multi_job, available, rpc_down, wait_at>>

\* UnregisterPeriodicClosure() waits until the alarm thread is not in the closure.
UnregisterCheckPending ==
  /\ unregistering > 0 /\ ~checking
  /\ unregistering' = unregistering - 1
  /\ UNCHANGED <<store, blob_of, gathering, multi_jobs, num_multi_job, available,
                 periodic_id, checking, rpc_down, wait_at>>

-----------------------------------------------------------------------------
(***************************************************************************)
(* A MultiJob.                                                             *)
(***************************************************************************)
To(j, at) == multi_jobs' = (multi_jobs \ {j}) \cup {Job(j.calls, at)}

\* MultiJob::Call(): one call goes as it is; Setup() moves the blobs of several
\* into one request.
JobCall(j) ==
  /\ j.at = "made"
  /\ To(j, "sent")
  /\ blob_of' = [s \in Stores |->
       IF s \in ToSet(j.calls) /\ Len(j.calls) > 1 THEN "multi" ELSE blob_of[s]]
  /\ UNCHANGED <<store, gathering, num_multi_job, available, periodic_id,
                 unregistering, checking, rpc_down, wait_at>>

\* How a call of job j ends: a response may have fewer keys than blobs were sent.
EndOf(j, err, keys, s) ==
  IF err # "none" \/ (Len(j.calls) > 1 /\ \A i \in 1..keys : j.calls[i] # s)
  THEN "failed" ELSE "ok"

\* Done() or SingleDone(): the blobs go back, and the callers wake up before the
\* job is counted out.  404 says that the server has no such service; mu_ is
\* taken to disable it.
JobReply(j) ==
  /\ j.at = "sent"
  /\ \E err \in {"none", "404", "error"}, keys \in 0..Len(j.calls) :
       /\ err = "404" /\ Len(j.calls) > 1 => MuFree
       /\ store' = [s \in Stores |-> IF s \in ToSet(j.calls)
                                     THEN EndOf(j, err, keys, s) ELSE store[s]]
       /\ available' = (available /\ ~(err = "404" /\ Len(j.calls) > 1))
  /\ blob_of' = [s \in Stores |->
                   IF s \in ToSet(j.calls) THEN "own" ELSE blob_of[s]]
  /\ To(j, "replied")
  /\ UNCHANGED <<gathering, num_multi_job, periodic_id, unregistering, checking,
                 rpc_down, wait_at>>

\* JobDone(), which signals nobody; the job is deleted.
JobDone(j) ==
  /\ j.at = "replied" /\ MuFree
  /\ num_multi_job' = num_multi_job - 1
  /\ multi_jobs' = multi_jobs \ {j}
  /\ UNCHANGED <<store, blob_of, gathering, available, periodic_id,
                 unregistering, checking, rpc_down, wait_at>>

-----------------------------------------------------------------------------
\* HttpClient::Shutdown().
RpcShutdown ==
  /\ ~rpc_down /\ rpc_down' = TRUE
  /\ UNCHANGED <<store, blob_of, gathering, multi_jobs, num_multi_job, available,
                 periodic_id, unregistering, checking, wait_at>>

\* Wait() takes mu_ and unregisters the closure with it.
Wait ==
  /\ rpc_down /\ wait_at = "no"
  /\ wait_at' = "unregister"
  /\ UNCHANGED <<store, blob_of, gathering, multi_jobs, num_multi_job, available,
                 periodic_id, unregistering, checking, rpc_down>>

\* Mutant: what is pending is dropped, not canceled.
WaitUnregisteredDrops ==
  /\ wait_at = "unregister"
  /\ periodic_id => ~checking
  /\ periodic_id' = FALSE
  /\ gathering' = <<>>
  /\ wait_at' = IF num_multi_job > 0 THEN "blocked" ELSE "returned"
  /\ UNCHANGED <<store, blob_of, multi_jobs, num_multi_job, available,
                 unregistering, checking, rpc_down>>

\* The closure is gone; what is pending is canceled, and Wait() returns or
\* waits for num_multi_job_ on cond_, which nobody signals.
WaitUnregistered ==
  /\ wait_at = "unregister"
  /\ periodic_id => ~checking
  /\ periodic_id' = FALSE
  /\ store' = [s \in Stores |->
                 IF s \in ToSet(gathering) THEN "failed" ELSE store[s]]
  /\ gathering' = <<>>
  /\ wait_at' = IF num_multi_job > 0 THEN "blocked" ELSE "returned"
  /\ UNCHANGED <<blob_of, multi_jobs, num_multi_job, available, unregistering,
                 checking, rpc_down>>

-----------------------------------------------------------------------------
StoreInit ==
  /\ store = [s \in Stores |-> "new"] /\ blob_of = [s \in Stores |-> "own"]
  /\ gathering = <<>> /\ multi_jobs = {} /\ num_multi_job = 0
  /\ available = TRUE /\ periodic_id = FALSE /\ unregistering = 0
  /\ checking = FALSE /\ rpc_down = FALSE /\ wait_at = "no"

JobStep(j) == JobCall(j) \/ JobReply(j) \/ JobDone(j)

StoreNext ==
  \/ \E s \in Stores : Call(s) \/ DirectDone(s) \/ AddCall(s)
  \/ \E j \in multi_jobs : JobStep(j)
  \/ Alarm \/ CheckPending \/ UnregisterCheckPending
  \/ RpcShutdown \/ Wait \/ WaitUnregistered

StoreSpec == StoreInit /\ [][StoreNext]_store_vars

\* Threads go on, HTTP requests are answered, and the alarm thread finds the
\* period over again and again.  Nobody has to call StoreFile() or Shutdown().
StoreFairness ==
  /\ \A s \in Stores :
       WF_store_vars(DirectDone(s) \/ AddCall(s) \/ \E j \in JobsOf(s) : JobStep(j))
  /\ WF_store_vars(CheckPending) /\ WF_store_vars(Alarm)
  /\ WF_store_vars(UnregisterCheckPending) /\ WF_store_vars(WaitUnregistered)

-----------------------------------------------------------------------------
(***************************************************************************)
(* Properties.                                                             *)
(***************************************************************************)
\* Wait() holds mu_ until the alarm thread leaves CheckPending(), which waits
\* for mu_.
Hung == wait_at = "unregister" /\ periodic_id /\ checking

\* The type invariant of the store.
StoreTypeOK ==
  /\ store \in [Stores -> {"new", "unlocked", "direct", "batched", "ok",
                           "failed"}]
  /\ blob_of \in [Stores -> {"own", "multi"}]
  /\ ToSet(gathering) \subseteq Stores
  /\ num_multi_job \in Int /\ unregistering \in Nat
  /\ {available, periodic_id, checking, rpc_down} \subseteq BOOLEAN
  /\ wait_at \in {"no", "unregister", "blocked", "returned"}

\* A call that waits is in one batch, a batch is no larger than allowed, and its
\* blob is back in its own request, unlost and unswapped, when the caller goes
\* on.  A batch that is gathered has somebody to send it.
BatchesExact ==
  /\ \A s \in Stores :
       LET open == {j \in JobsOf(s) : j.at # "replied"}
           places == Cardinality(open)
                     + Cardinality({k \in DOMAIN gathering : gathering[k] = s})
       IN  /\ places = (IF store[s] = "batched" THEN 1 ELSE 0)
           /\ blob_of[s] = "multi" => store[s] = "batched"
  /\ \A j \in multi_jobs : Len(j.calls) \in 1..MaxReqInCall
  /\ Len(gathering) < MaxReqInCall
  /\ gathering # <<>> => periodic_id
  /\ num_multi_job <= Cardinality(multi_jobs)

\* Every call that was made has ended, in shutdown too, unless Wait() hangs.
StoresEnded ==
  Hung \/ \A s \in Stores : store[s] \notin {"unlocked", "direct", "batched"}
===============================================================================

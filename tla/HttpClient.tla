------------------------------ MODULE HttpClient ------------------------------
(***************************************************************************)
(* HttpClient (client/http.cc) with the OAuth2 refresh task it shares      *)
(* between its requests.  A request is an HttpClient::Task on the worker   *)
(* thread that called DoAsync(); here each has a thread of its own.  It    *)
(* waits for a token, for the throttle and for a connection, sends, reads, *)
(* retries on timeout, and ends in DoCallback(), which deletes it.         *)
(*                                                                         *)
(* Every action is a closure, or what a closure does up to the next lock   *)
(* it takes.  How long something takes is left open.                       *)
(***************************************************************************)
EXTENDS OAuth2Token, SocketDescriptor, Sequences, SequencesExt

CONSTANTS
  HttpOptions,        \* settings of a client and its requests
  TokenAnswers,       \* what the token server may answer
  Ends                \* what a response may be

Requests == UNION {o.requests : o \in HttpOptions}

\* What a complete response may be: 200, with or without Connection: close; 204;
\* an error, or one of 302, 401 and 403; none at all, or an error of the
\* socket; 200 with a body that is cut or does not parse.
Responses == {"ok", "close", "204", "http_error", "http_blocked", "fail", "cut"}

ASSUME HttpAssumption ==
  /\ IsFiniteSet(Requests) /\ "main" \notin Requests /\ NoThread \notin Requests
  /\ \A o \in HttpOptions :
       /\ {o.oauth2, o.allow_throttle, o.shutdown} \subseteq BOOLEAN
       /\ o.timeouts \in Nat \ {0} /\ o.connects \in Nat
  /\ TokenAnswers \subseteq Answers /\ Ends \subseteq Responses

VARIABLES
  options,      \* requests: calls of DoAsync(); oauth2: it has a refresh task;
                \* allow_throttle; timeouts: how many a status has;
                \* connects: kMaxConnectionFailure; shutdown: it is shut down
  oauth,        \* oauth_refresh_task_
  http,         \* the tasks, with their status_
  http_sd,      \* descriptor_ of each
  http_queue,   \* closures posted to the thread of each, by priority
  num_pending,  \* num_pending_
  http_err,     \* traffic_history_.back().http_err > 0
  blocked,      \* enabled_from_ is in the future
  http_down,    \* shutting_down_
  dtor          \* where ~HttpClient() is

http_vars == <<options, oauth, http, http_sd, http_queue, num_pending, http_err,
               blocked, http_down, dtor>>

NewTask ==
  [at |-> "new",          \* where it is
   state |-> "INIT",      \* status_->state: INIT, PENDING, or later
   active |-> FALSE,      \* active_
   descriptor |-> FALSE,  \* descriptor_ is there
   need_refresh |-> FALSE,  \* auth_status_
   timeouts |-> options.timeouts, \* status_->timeouts
   throttled |-> FALSE,   \* status_->num_throttled > 0
   failed |-> 0,          \* status_->num_connect_failed
   close |-> "ERROR_CLOSE",  \* close_state_
   result |-> "none",     \* status_->err and http_return_code
   calls |-> 0]           \* how often the callback was run

Failnow == http_down \/ blocked
ActiveTasks == {t \in Requests : http[t].at \notin {"new", "done"}}

\* The thread of t is not stuck, and mu_ of the refresh task can be had.
Alive(t) == ~(oauth.locked /\ t = oauth.thread)
MayLock(t) == ~oauth.locked

same_client == <<oauth, http_err, blocked, http_down, dtor>>
Task(t, r) == http' = [http EXCEPT ![t] = r]
Sd(t, d) == http_sd' = [http_sd EXCEPT ![t] = d]
Into(t, f) == http_queue' = [http_queue EXCEPT ![t] = Append(@, f)]

\* Mutant: a request that gives up is still counted as pending.
RunCallbackStillPending(t, r, d, result) ==
  /\ Task(t, [r EXCEPT !.at = "callback", !.active = FALSE, !.result = result])
  /\ Sd(t, StopRead(StopWrite(d)))
  /\ Into(t, "DoCallback")
  /\ UNCHANGED num_pending

\* RunCallback(): r and d are the task and its descriptor at the call.
RunCallback(t, r, d, result) ==
  /\ Task(t, [r EXCEPT !.at = "callback", !.active = FALSE, !.result = result])
  /\ Sd(t, StopRead(StopWrite(d)))
  /\ Into(t, "DoCallback")
  /\ num_pending' = num_pending - (IF r.state = "PENDING" THEN 1 ELSE 0)

-----------------------------------------------------------------------------
(***************************************************************************)
(* Start().                                                                *)
(***************************************************************************)
DoAsync(t) ==
  /\ t \in options.requests /\ http[t].at = "new" /\ dtor = "none" /\ Alive(t)
  /\ Task(t, IF Failnow
             THEN [http[t] EXCEPT !.at = "done", !.calls = 1]
             ELSE [http[t] EXCEPT !.at = "start"])
  /\ UNCHANGED <<oauth, http_sd, http_queue, num_pending, http_err, blocked,
                 http_down, dtor>>

\* Start(), called by DoAsync() and DoRetry(), after a delay, or after the
\* refresh of the token.
Startable(t) ==
  /\ \/ http[t].at = "start"
     \/ http[t].at = "refresh" /\ t \in oauth.ready
  /\ Alive(t)

Taken(t) == oauth' = [oauth EXCEPT !.ready = @ \ {t}]

StartTask(t) ==
  /\ Startable(t) /\ Taken(t)
  /\ IF Failnow THEN RunCallback(t, http[t], http_sd[t], "fail")
     ELSE LET should == options.oauth2 /\ ShouldRefresh(oauth) IN
          /\ options.oauth2 => MayLock(t)
          /\ Task(t, [http[t] EXCEPT
                        !.at = IF should THEN "ask"
                               ELSE IF http[t].need_refresh THEN "authorize"
                               ELSE "try",
                        !.need_refresh = @ \/ should])
          /\ UNCHANGED <<http_sd, http_queue, num_pending>>
  /\ UNCHANGED <<http_err, blocked, http_down, dtor>>

\* Requests wait for five minutes at most for a token.
RefreshTimeout(t) ==
  /\ Startable(t) /\ Taken(t) /\ ~Failnow /\ http[t].need_refresh
  /\ options.oauth2 => MayLock(t)
  /\ RunCallback(t, http[t], http_sd[t], "timeout")
  /\ UNCHANGED <<http_err, blocked, http_down, dtor>>

RunAfterOAuth2AccessTokenGetReady(t) ==
  /\ http[t].at = "ask" /\ Alive(t) /\ MayLock(t)
  /\ oauth' = RunAfterRefresh(oauth, t)
  /\ Task(t, [http[t] EXCEPT !.at = "refresh"])
  /\ UNCHANGED <<http_sd, http_queue, num_pending, http_err, blocked, http_down,
                 dtor>>

\* The request is given the token.  Without a refresh task there is none.
GetOAuth2Authorization(t) ==
  /\ http[t].at = "authorize" /\ Alive(t)
  /\ options.oauth2 => MayLock(t)
  /\ IF options.oauth2 /\ GetAuthorization(oauth)
     THEN /\ Task(t, [http[t] EXCEPT !.at = "try", !.need_refresh = FALSE])
          /\ UNCHANGED <<http_sd, http_queue, num_pending>>
     ELSE RunCallback(t, http[t], http_sd[t], "unauthorized")
  /\ UNCHANGED same_client

\* TryStart(): a request waits for the backoff if another failed in the current
\* second, or if there were too many in it.  It gives up when it has waited for ten
\* minutes, which may be over when it is throttled for the first time, as the waits
\* of earlier tries count too; num_pending_ then goes up and down in one call.
MayThrottle(busy) == options.allow_throttle /\ (http_err \/ busy)

Pending(r) == IF r.throttled THEN r
              ELSE [r EXCEPT !.state = "PENDING", !.throttled = TRUE]

TryStartThrottled(t, timed_out, busy) ==
  /\ http[t].at = "try" /\ Alive(t) /\ MayThrottle(busy)
  /\ LET pending == num_pending + (IF http[t].throttled THEN 0 ELSE 1) IN
     IF timed_out
     THEN RunCallback(t, [http[t] EXCEPT !.throttled = TRUE], http_sd[t], "timeout")
     ELSE /\ Task(t, [Pending(http[t]) EXCEPT !.at = "start",
                                              !.need_refresh = TRUE])
          /\ num_pending' = pending
          /\ UNCHANGED <<http_sd, http_queue>>
  /\ UNCHANGED same_client

\* NewDescriptor() found no address: the request is tried again later, a few
\* times.
ConnectFails(t) ==
  /\ http[t].at = "try" /\ Alive(t) /\ ~MayThrottle(FALSE)
  /\ LET r == [http[t] EXCEPT !.failed = @ + 1] IN
     IF r.failed > options.connects
     THEN RunCallback(t, r, http_sd[t], "fail")
     ELSE /\ Task(t, [r EXCEPT !.at = "start", !.need_refresh = TRUE])
          /\ UNCHANGED <<http_sd, http_queue, num_pending>>
  /\ UNCHANGED same_client

\* NewDescriptor() has a connection.  The stream of the request may fail, as
\* when the file to upload cannot be opened; then nothing is sent.
Connects(t, stream) ==
  /\ http[t].at = "try" /\ Alive(t) /\ ~MayThrottle(FALSE)
  /\ LET waited == IF http[t].state = "PENDING" THEN 1 ELSE 0
         r == [http[t] EXCEPT !.at = "io", !.state = "SENT",
                              !.active = TRUE, !.descriptor = TRUE,
                              !.timeouts = @ - 1]
     IN  IF stream
         THEN /\ Task(t, r) /\ num_pending' = num_pending - waited
              /\ Sd(t, NotifyWhenTimedout(NotifyWhenWritable(NewDescriptor,
                                            "DoWrite"), "DoTimeout"))
              /\ UNCHANGED http_queue
         ELSE /\ Task(t, [r EXCEPT !.at = "callback", !.active = FALSE,
                                   !.result = "fail"])
              /\ num_pending' = num_pending - waited
              /\ Sd(t, NewDescriptor) /\ Into(t, "DoCallback")
  /\ UNCHANGED same_client

-----------------------------------------------------------------------------
(***************************************************************************)
(* The connection.                                                         *)
(***************************************************************************)
\* The thread looks at the socket only if it has nothing else to run of its
\* priority.
PollSocket(t) ==
  /\ http[t].descriptor /\ Alive(t) /\ http_queue[t] = <<>>
  /\ NothingQueued(http_sd[t])
  /\ \E event \in SUBSET {"read", "write"} :
       LET d == http_sd[t]
           e == IF "read" \in event THEN QueueReadable(d) ELSE d
       IN  /\ "read" \in event => HasReadableClosure(d)
           /\ "write" \in event => HasWritableClosure(d)
           /\ event = {} => HasTimeoutClosure(d)
           /\ Sd(t, IF event = {} THEN QueueTimeout(d)
                    ELSE IF "write" \in event THEN QueueWritable(e) ELSE e)
  /\ UNCHANGED <<oauth, http, http_queue, num_pending, http_err, blocked,
                 http_down, dtor>>

\* A callback that is not wanted any more only leaves the queue.
Unwanted(t, d) == Sd(t, d) /\ UNCHANGED <<http, http_queue, num_pending>>

\* DoWrite(): end is what the write comes to: more to write, all is sent, or an
\* error.
TaskDoWrite(t, end) ==
  /\ Alive(t) /\ http_sd[t].write_in_queue # "none"
  /\ LET d == TookWritable(http_sd[t]) IN
     IF ~d.active_write THEN Unwanted(t, d)
     ELSE IF ~http[t].active \/ Failnow \/ end = "error"
     THEN RunCallback(t, http[t], d, "fail")
     ELSE IF end = "more" THEN Unwanted(t, d)
     ELSE /\ Sd(t, StopWrite(d)) /\ Into(t, "DoRequestDone")
          /\ UNCHANGED <<http, num_pending>>
  /\ UNCHANGED same_client

CloseState(end) == IF end = "ok" THEN "NO_CLOSE"
                   ELSE IF end = "close" THEN "NORMAL_CLOSE" ELSE "ERROR_CLOSE"

\* DoRead(): the read comes to nothing or a part, or it makes the response
\* complete.
TaskDoRead(t, end) ==
  /\ Alive(t) /\ http_sd[t].read_in_queue # "none"
  /\ LET d == TookReadable(http_sd[t]) IN
     IF ~d.active_read THEN Unwanted(t, d)
     ELSE IF ~http[t].active \/ Failnow THEN RunCallback(t, http[t], d, "fail")
     ELSE IF end = "more" THEN Unwanted(t, d)
     ELSE RunCallback(t, [http[t] EXCEPT !.close = CloseState(end)], d, end)
  /\ UNCHANGED same_client

\* Mutant: one retry too many.
TaskDoTimeoutOnceMore(t) ==
  /\ Alive(t) /\ http_sd[t].timeout_in_queue
  /\ LET d == TookTimeout(http_sd[t], TimeoutWanted(http_sd[t])) IN
     IF ~TimeoutWanted(http_sd[t]) \/ ~http[t].active THEN Unwanted(t, d)
     ELSE IF Failnow THEN RunCallback(t, http[t], d, "fail")
     ELSE /\ Sd(t, StopRead(StopWrite(d))) /\ Into(t, "DoRetry")
          /\ UNCHANGED <<http, num_pending>>
  /\ UNCHANGED same_client

\* DoTimeout(): with a timeout left, the request is tried once more.
TaskDoTimeout(t) ==
  /\ Alive(t) /\ http_sd[t].timeout_in_queue
  /\ LET d == TookTimeout(http_sd[t], TimeoutWanted(http_sd[t])) IN
     IF ~TimeoutWanted(http_sd[t]) \/ ~http[t].active THEN Unwanted(t, d)
     ELSE IF Failnow THEN RunCallback(t, http[t], d, "fail")
     ELSE IF http[t].timeouts = 0 THEN RunCallback(t, http[t], d, "timeout")
     ELSE /\ Sd(t, StopRead(StopWrite(d))) /\ Into(t, "DoRetry")
          /\ UNCHANGED <<http, num_pending>>
  /\ UNCHANGED same_client

RunNext(t, f) ==
  /\ Alive(t) /\ http_queue[t] # <<>> /\ Head(http_queue[t]) = f
  /\ http_queue' = [http_queue EXCEPT ![t] = Tail(@)]

\* Mutant: the callback for writing stays.
TaskDoRequestDoneStillWrites(t) ==
  /\ RunNext(t, "DoRequestDone")
  /\ IF http[t].active
     THEN Sd(t, RestartWrite(NotifyWhenReadable(http_sd[t], "DoRead")))
     ELSE UNCHANGED http_sd
  /\ UNCHANGED <<http, num_pending, same_client>>

TaskDoRequestDone(t) ==
  /\ RunNext(t, "DoRequestDone")
  /\ IF http[t].active
     THEN Sd(t, NotifyWhenReadable(ClearWritable(http_sd[t]), "DoRead"))
     ELSE UNCHANGED http_sd
  /\ UNCHANGED <<http, num_pending, same_client>>

\* ReleaseDescriptor(): an error is taken for a token that is not good any more.
ReleaseDescriptor(t, close) ==
  /\ Sd(t, NewDescriptor)
  /\ IF options.oauth2 /\ http[t].descriptor /\ close = "ERROR_CLOSE"
     THEN MayLock(t) /\ oauth' = Invalidate(oauth, t)
     ELSE UNCHANGED oauth

DoRetry(t) ==
  /\ RunNext(t, "DoRetry")
  /\ IF http[t].active
     THEN /\ ReleaseDescriptor(t, "ERROR_CLOSE")
          /\ Task(t, [http[t] EXCEPT !.at = "start", !.active = FALSE,
                                     !.descriptor = FALSE])
     ELSE UNCHANGED <<http, http_sd, oauth>>
  /\ UNCHANGED <<num_pending, http_err, blocked, http_down, dtor>>

\* UpdateStats(): an error makes the following requests wait; some responses
\* disable the client, and a good one enables it again.
UpdateStats(result) ==
  LET good == {"ok", "close", "204"} IN
  /\ http_err' = (http_err \/ result \notin good)
  /\ blocked' = IF result = "http_blocked" THEN TRUE
                ELSE blocked /\ result \notin good \cup {"cut"}

\* DoCallback() deletes the task.
DoCallback(t) ==
  /\ RunNext(t, "DoCallback")
  /\ UpdateStats(http[t].result)
  /\ ReleaseDescriptor(t, http[t].close)
  /\ Task(t, [NewTask EXCEPT !.at = "done", !.calls = http[t].calls + 1])
  /\ UNCHANGED <<num_pending, http_down, dtor>>
-----------------------------------------------------------------------------
(***************************************************************************)
(* The refresh thread, the end of the client, and time.                    *)
(***************************************************************************)
same_http == <<http, http_sd, http_queue, num_pending, http_err, blocked>>
OAuth2(o) == oauth' = o /\ UNCHANGED <<same_http, http_down, dtor>>

RefreshThread ==
  /\ ~oauth.locked /\ dtor # "deleted"
  /\ \/ (oauth.run_refresh \/ oauth.refresh) /\ OAuth2(RunRefresh(oauth))
     \/ oauth.refresh_now /\ OAuth2(RunRefreshNow(oauth))
     \/ oauth.cancelling /\ OAuth2(Cancel(oauth))

TokenServer(answer, deadline, update) ==
  /\ oauth.fetching /\ ~oauth.locked
  /\ answer \in TokenAnswers
  /\ OAuth2(Done(oauth, answer, deadline, update))

\* Shutdown() of the client, then of the refresh task.
ShutdownClient ==
  /\ options.shutdown /\ ~http_down /\ http_down' = TRUE
  /\ UNCHANGED <<oauth, same_http, dtor>>
ShutdownOAuth2 ==
  /\ options.oauth2 /\ http_down /\ ~oauth.shutting_down /\ ~oauth.locked
  /\ OAuth2(ShutdownRefresh(oauth))

\* ~HttpClient(): waits for the requests, then for the refresh task, which is
\* deleted with the client.
Destroy ==
  /\ http_down /\ (options.oauth2 => oauth.shutting_down)
  /\ \/ dtor = "none" /\ ActiveTasks = {} /\ dtor' = "waiting"
     \/ /\ dtor = "waiting" /\ WaitOver(oauth) /\ ~oauth.locked
        /\ dtor' = "deleted"
  /\ UNCHANGED <<oauth, same_http, http_down>>

UpdateTrafficHistory ==
  /\ http_err /\ dtor # "deleted"
  /\ http_err' = FALSE
  /\ UNCHANGED <<oauth, http, http_sd, http_queue, num_pending, blocked,
                 http_down, dtor>>

Unblocked ==
  /\ blocked /\ blocked' = FALSE
  /\ UNCHANGED <<oauth, http, http_sd, http_queue, num_pending, http_err,
                 http_down, dtor>>

TimePasses ==
  \/ oauth.token \in {"valid", "unparsed"} /\ OAuth2(TokenExpired(oauth))
  \/ oauth.network_error /\ OAuth2([oauth EXCEPT !.network_error = FALSE])
  \/ oauth.invalidated /\ OAuth2([oauth EXCEPT !.invalidated = FALSE])
  \/ oauth.disabled /\ OAuth2([oauth EXCEPT !.disabled = FALSE])

-----------------------------------------------------------------------------
HttpInit ==
  /\ options \in HttpOptions
  /\ oauth = NewRefreshTask
  /\ http = [t \in Requests |-> NewTask]
  /\ http_sd = [t \in Requests |-> NewDescriptor]
  /\ http_queue = [t \in Requests |-> <<>>]
  /\ num_pending = 0 /\ http_err = FALSE
  /\ blocked = FALSE /\ http_down = FALSE /\ dtor = "none"

RequestThread(t) ==
  \/ DoAsync(t) \/ StartTask(t) \/ RefreshTimeout(t)
  \/ RunAfterOAuth2AccessTokenGetReady(t) \/ GetOAuth2Authorization(t)
  \/ \E timed_out, busy \in BOOLEAN : TryStartThrottled(t, timed_out, busy)
  \/ ConnectFails(t) \/ \E stream \in BOOLEAN : Connects(t, stream)
  \/ PollSocket(t) \/ TaskDoTimeout(t)
  \/ \E end \in {"more", "sent", "error"} : TaskDoWrite(t, end)
  \/ \E end \in Ends \cup {"more"} : TaskDoRead(t, end)
  \/ TaskDoRequestDone(t) \/ DoRetry(t) \/ DoCallback(t)

HttpStep ==
  \/ \E t \in Requests : RequestThread(t)
  \/ RefreshThread
  \/ \E answer \in Answers, deadline, update \in BOOLEAN :
       TokenServer(answer, deadline, update)
  \/ ShutdownClient \/ ShutdownOAuth2 \/ Destroy
  \/ UpdateTrafficHistory \/ Unblocked \/ TimePasses
HttpNext == HttpStep /\ UNCHANGED options
\* What a request does next, and how its loops end: the deadlines for a token
\* and for the throttle pass, sooner or later all is sent and all received.
GoesOn(t) ==
  \/ StartTask(t) \/ RunAfterOAuth2AccessTokenGetReady(t)
  \/ GetOAuth2Authorization(t) \/ TryStartThrottled(t, FALSE, FALSE)
  \/ ConnectFails(t) \/ Connects(t, TRUE)
  \/ PollSocket(t) \/ TaskDoTimeout(t)
  \/ TaskDoRequestDone(t) \/ DoRetry(t) \/ DoCallback(t)
LoopEnds(t) ==
  \/ RefreshTimeout(t) \/ TryStartThrottled(t, TRUE, FALSE)
  \/ TaskDoWrite(t, "sent") \/ \E end \in Ends : TaskDoRead(t, end)

\* Threads run what is posted to them; the token server answers, and not always
\* before the deadline.
HttpFairness ==
  /\ \A t \in Requests : /\ WF_http_vars(UNCHANGED options /\ GoesOn(t))
                         /\ SF_http_vars(UNCHANGED options /\ LoopEnds(t))
  /\ WF_http_vars(UNCHANGED options /\ RefreshThread)
  /\ SF_http_vars(UNCHANGED options /\ \E answer \in Answers, update \in BOOLEAN :
                                         TokenServer(answer, TRUE, update))

HttpSpec == HttpInit /\ [][HttpNext]_http_vars /\ HttpFairness

-----------------------------------------------------------------------------
(***************************************************************************)
(* Properties.                                                             *)
(***************************************************************************)
\* The type invariant of the client.
HttpTypeOK ==
  /\ options \in HttpOptions
  /\ oauth.token \in Tokens /\ oauth.state \in {"NOT_STARTED", "RUN"}
  /\ oauth.waiting \subseteq Requests /\ oauth.ready \subseteq Requests
  /\ oauth.thread \in Requests \cup {NoThread}
  /\ \A t \in Requests :
       /\ http[t].at \in {"new", "start", "ask", "refresh", "authorize", "try",
                          "io", "callback", "done"}
       /\ http[t].state \in {"INIT", "PENDING", "SENT"}
       /\ http[t].timeouts \in 0..options.timeouts
       /\ http[t].failed \in 0..options.connects + 1
       /\ Len(http_queue[t]) <= 1
  /\ num_pending \in Int
  /\ {http_err, blocked, http_down} \subseteq BOOLEAN
  /\ dtor \in {"none", "waiting", "deleted"}

\* num_pending_ is the number of requests that wait for the throttle or for a
\* connection after it, through retries, timeouts and shutdown.
NumPendingExact ==
  num_pending = Cardinality({t \in Requests : /\ http[t].state = "PENDING"
                                              /\ http[t].at # "callback"})

\* The callback of a request is run once, and its descriptor is given back with
\* none of its callbacks in the queue of the thread (~SocketDescriptor()) or
\* bound to a closure that is gone; an active request has its descriptor.
RequestsEndOnce ==
  \A t \in Requests :
    /\ http[t].calls = (IF http[t].at = "done" THEN 1 ELSE 0)
    /\ ~http[t].descriptor => NothingQueued(http_sd[t])
    /\ CallbacksAlive(http_sd[t])
    /\ http[t].active => http[t].descriptor /\ http[t].at = "io"
    /\ http_queue[t] # <<>> => NothingQueued(http_sd[t])

\* What HttpClient keeps for a request, its descriptor, its callback and its
\* share of num_pending_, is exact through retries, timeouts and shutdown.
RequestsExact == NumPendingExact /\ RequestsEndOnce

\* A request waits for a token only while somebody fetches one.  The exceptions
\* are a fetch that was canceled, or dropped at shutdown, and a refresh thread
\* that waits for its own lock.
WaitersAreServed ==
  oauth.waiting # {} =>
    RefreshUnderway(oauth) \/ oauth.abandoned \/ oauth.locked

\* At most one closure fetches a token (CHECK(cancel_refresh_ == nullptr)), and
\* it does so in state RUN.
OneRefresh ==
  /\ Cardinality({f \in {"run_refresh", "refresh", "fetching"} : oauth[f]}) <= 1
  /\ RefreshUnderway(oauth) => oauth.state = "RUN"

\* One fetch of a token at a time, and nobody waits for one without it.
RefreshExact == WaitersAreServed /\ OneRefresh

\* "Caller have ownership of req, resp and status, until callback is called"
\* (http.h): it was, unless the refresh was abandoned or hangs.
CallsAreBack == ActiveTasks = {} \/ oauth.abandoned \/ oauth.locked

\* "void Done() ABSL_LOCKS_EXCLUDED(mu_)": Done() is not called by a thread that
\* holds mu_.
DoneWithoutLock == ~oauth.locked
===============================================================================

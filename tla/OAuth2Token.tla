----------------------------- MODULE OAuth2Token ------------------------------
(***************************************************************************)
(* GoogleOAuth2AccessTokenRefreshTask (client/oauth2_token.cc): one access *)
(* token shared by all requests of an HttpClient, fetched by one request   *)
(* of a second HttpClient on the refresh thread, while requests that need  *)
(* it wait in pending_tasks_.                                              *)
(*                                                                         *)
(* The task is a record and each of its methods an operator on it, run in  *)
(* one critical section of mu_.  Times are reduced to what is compared     *)
(* with now.                                                               *)
(***************************************************************************)
EXTENDS Integers, FiniteSets

NoThread == "none"

\* access_token_ and token_expiration_time_: empty and in the past, set and in
\* the future, set and in the past, or empty and in the future.
Tokens == {"empty", "valid", "expired", "unparsed"}

NewRefreshTask ==
  [state |-> "NOT_STARTED",   \* state_
   token |-> "empty",
   network_error |-> FALSE,   \* less than kErrorRefreshPendingTimeout ago
   invalidated |-> FALSE,     \* less than kInvalidateTimeout ago
   waiting |-> {},            \* pending_tasks_
   ready |-> {},              \* requests whose closure was posted
   thread |-> NoThread,       \* refresh_task_thread_id_
   run_refresh |-> FALSE,     \* RunRefresh was posted by RunAfterRefresh
   refresh |-> FALSE,         \* cancel_refresh_
   refresh_now |-> FALSE,     \* cancel_refresh_now_
   cancelling |-> FALSE,      \* cancelling_: Cancel was posted
   fetching |-> FALSE,        \* client_ has the request for a token
   disabled |-> FALSE,        \* enabled_from_ of client_ is in the future
   shutting_down |-> FALSE,   \* shutting_down_
   locked |-> FALSE,          \* mu_ is held by a thread that waits for mu_
   abandoned |-> FALSE]       \* state_ is RUN and nothing will end it

GetAuthorization(o) == o.token = "valid"
ShouldRefresh(o) == ~o.network_error /\ o.token # "valid"

\* Posts the closures of the requests ts.
PostStart(o, ts) == [o EXCEPT !.ready = @ \cup ts, !.waiting = @ \ ts]

\* Mutant: the closure is not kept for a refresh that has begun.
RunAfterRefreshForgets(o, t) ==
  IF o.token \in {"valid", "unparsed"} \/ o.shutting_down \/ o.network_error
  THEN PostStart(o, {t})
  ELSE IF o.state = "RUN" THEN o
  ELSE [o EXCEPT !.state = "RUN", !.waiting = @ \cup {t}, !.run_refresh = TRUE,
                 !.thread = IF @ = NoThread THEN t ELSE @]

\* RunAfterRefresh(), by the thread of t.
RunAfterRefresh(o, t) ==
  IF o.token \in {"valid", "unparsed"} \/ o.shutting_down \/ o.network_error
  THEN PostStart(o, {t})
  ELSE IF o.state = "RUN" THEN [o EXCEPT !.waiting = @ \cup {t}]
  ELSE [o EXCEPT !.state = "RUN", !.waiting = @ \cup {t}, !.run_refresh = TRUE,
                 !.thread = IF @ = NoThread THEN t ELSE @]

\* Both delayed closures are canceled; state_ stays what it is.
Canceled(o) == [o EXCEPT !.refresh_now = FALSE, !.refresh = FALSE,
                         !.abandoned = @ \/ o.refresh]

\* DoCancel(), by the thread t.
DoCancel(o, t) ==
  IF o.cancelling \/ ~(o.refresh_now \/ o.refresh) THEN o
  ELSE IF t = o.thread THEN Canceled(o)
  ELSE [o EXCEPT !.cancelling = TRUE]

\* Cancel(), posted by DoCancel().
Cancel(o) == [Canceled(o) EXCEPT !.cancelling = FALSE]

\* Invalidate(), by the thread t, after a connection was closed on error.
Invalidate(o, t) ==
  IF o.token \in {"empty", "unparsed"} \/ o.invalidated THEN o
  ELSE DoCancel([o EXCEPT !.token = "empty", !.invalidated = TRUE], t)

\* Shutdown(), by a thread that runs no request.
ShutdownRefresh(o) ==
  IF o.shutting_down THEN o
  ELSE DoCancel([o EXCEPT !.shutting_down = TRUE], "main")

\* RunRefreshUnlocked(), under mu_.  DoAsync() of a client that fails now runs
\* the callback, which is Done(), at once, and Done() takes mu_.
RunRefreshUnlocked(o) ==
  IF o.disabled THEN [o EXCEPT !.locked = TRUE] ELSE [o EXCEPT !.fetching = TRUE]

\* RunRefresh(), posted by RunAfterRefresh() or delayed by Done().
RunRefresh(o) ==
  LET r == [o EXCEPT !.refresh = FALSE, !.run_refresh = FALSE] IN
  IF o.shutting_down THEN [r EXCEPT !.abandoned = TRUE]
  ELSE RunRefreshUnlocked(r)

\* Mutant: though another refresh has begun.
RunRefreshNowAnyway(o) ==
  LET r == [o EXCEPT !.refresh_now = FALSE] IN
  IF o.shutting_down THEN r ELSE RunRefreshUnlocked([r EXCEPT !.state = "RUN"])

\* RunRefreshNow(), delayed until the token is about to expire.
RunRefreshNow(o) ==
  LET r == [o EXCEPT !.refresh_now = FALSE] IN
  IF o.shutting_down \/ o.state = "RUN" THEN r
  ELSE RunRefreshUnlocked([r EXCEPT !.state = "RUN"])

\* What the token server may answer: a token; a body that does not parse; an
\* error of the network or of the server; 4xx, or one of 302, 401 and 403, which
\* disable the client for ten minutes and more.
Answers == {"token", "garbage", "error", "refused", "blocked"}

\* ParseOAuth2AccessTokenUnlocked().  token_expiration_time_ stays if the body
\* does not parse.
ParsedToken(token, answer) ==
  CASE answer = "token" -> "valid"
    [] answer = "garbage" -> IF token \in {"valid", "unparsed"} THEN "unparsed"
                             ELSE "empty"
    [] OTHER -> token

\* Mutant: a request in RUN stays in RUN.
DoneStaysRun(o, answer, deadline, update) ==
  LET p == [o EXCEPT !.fetching = FALSE,
                     !.disabled = @ \/ answer = "blocked"]
      token == ParsedToken(o.token, answer)
  IN  IF o.shutting_down THEN PostStart(p, o.waiting)
      ELSE IF answer = "error" /\ ~deadline THEN [p EXCEPT !.refresh = TRUE]
      ELSE PostStart([p EXCEPT !.token = token,
                        !.refresh_now = @ \/ (answer = "token" /\ update)],
                     o.waiting)

\* Done(), the callback of client_, which has updated its own statistics before.
\* deadline: refresh_deadline_ is over; update: the token is valid for long
\* enough to be renewed ahead of time.
Done(o, answer, deadline, update) ==
  LET p == [o EXCEPT !.fetching = FALSE,
                     !.disabled = @ \/ answer = "blocked"]
      token == ParsedToken(o.token, answer)
  IN  IF o.shutting_down THEN PostStart(p, o.waiting)
      ELSE IF answer = "error" /\ ~deadline THEN [p EXCEPT !.refresh = TRUE]
      ELSE PostStart([p EXCEPT !.state = "NOT_STARTED", !.token = token,
                        !.network_error =
                          IF answer = "error" THEN TRUE
                          ELSE @ /\ token \in {"empty", "unparsed"},
                        !.refresh_now = @ \/ (answer = "token" /\ update)],
                     o.waiting)

\* Time passes: the token expires, the waits after an error, an invalidation and
\* a refusal are over.
TokenExpired(o) == [o EXCEPT !.token = IF @ = "valid" THEN "expired" ELSE "empty"]

\* The condition Wait() waits for, with WaitNoActive() of client_.
WaitOver(o) == ~o.refresh_now /\ ~o.refresh /\ ~o.fetching

\* Somebody will end the refresh the waiting requests wait for.
RefreshUnderway(o) == o.run_refresh \/ o.refresh \/ o.fetching
===============================================================================

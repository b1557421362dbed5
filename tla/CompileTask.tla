----------------------------- MODULE CompileTask ------------------------------
(***************************************************************************)
(* CompileTask (client/compile_task.cc): one compile request of gomacc.    *)
(* The remote side of the task (set up, upload, Exec call, download) races *)
(* with a local subprocess and with gomacc going away.                     *)
(*                                                                         *)
(* All of the task's code runs on one worker thread.  call is the function *)
(* the thread is about to enter, "none" when it is back in its loop; wait  *)
(* is the closure that will resume the remote side once the include        *)
(* processor, the uploads, the RPC or the downloads are through.  Other    *)
(* threads and processes move between any two function calls.              *)
(***************************************************************************)
EXTENDS Integers, Sequences

CONSTANTS
  Configs,     \* requester_env_, flags_ and service settings of the task
  MaxExecRetry \* kMaxExecRetry

Setting == {"fallback",      \* requester_env_.fallback()
            "use_local",     \* requester_env_.use_local()
            "verify_output", \* requester_env_.verify_output()
            "heavy",         \* GetTaskWeight() is HEAVY_WEIGHT
            "linking",       \* flags_->is_linking()
            "precompiling",  \* flags_->is_precompiling_header()
            "gch",           \* service_->enable_gch_hack()
            "dont_kill",     \* service_->dont_kill_subprocess()
            "store_local",   \* service_->store_local_run_output()
            "fail_fast"}     \* service_->fail_fast()

ASSUME ConfigsAssumption == Configs \subseteq SUBSET Setting /\ Configs # {}
ASSUME MaxExecRetryAssumption == MaxExecRetry \in Nat

VARIABLES
  env,         \* the settings that are on; never changes
  state,       \* state_
  call, wait,  \* see above
  abort, canceled, finished, \* abort_, canceled_, finished_
  should_fallback, fail_fallback, want_fallback,
  subproc,     \* state of subproc_, "null" when there is none
  pid,         \* subproc_->started().pid() is valid
  delayed,     \* delayed_setup_subproc_ is set
  local_run, local_killed,
  proc,        \* what became of the subprocess: its request or its process
  resp,        \* exit status in resp_; "missing": missing_input_size() > 0
  retry,       \* exec_request_retry
  dl,          \* where output_file_infos_ puts the remote output
  got,         \* the remote output is downloaded completely
  outfile,     \* who wrote the output file of the compile
  local_output,\* local_output_file_callback_ is set
  reply,       \* what was sent to gomacc, "none" before
  done,        \* Done() was called
  gomacc       \* gomacc is there

flow    == <<call, wait>>
flags   == <<abort, canceled, finished, should_fallback, fail_fallback,
             want_fallback>>
sub     == <<subproc, pid, delayed, local_run, local_killed, proc>>
output  == <<dl, got, outfile>>
result  == <<local_output, reply, done>>
vars == <<env, state, flow, flags, sub, resp, retry, output, result, gomacc>>

\* CompileTask::State in the order of the enum.
States == <<"INIT", "SETUP", "FILE_REQ", "CALL_EXEC", "LOCAL_OUTPUT",
            "FILE_RESP", "FINISHED", "LOCAL_RUN", "LOCAL_FINISHED">>
StateNames == {States[n] : n \in 1..Len(States)}
Rank(s) == CHOOSE n \in 1..Len(States) : States[n] = s
Before(s, t) == Rank(s) < Rank(t)

\* GOMA_LOCAL_RUN_PREFERENCE is 3 by default: CALL_EXEC.
LocalRunPreference == "CALL_EXEC"

Closures == {"none", "Start", "ProcessSetup", "FillCompilerInfoDone",
             "RunIncludeProcessorDone", "SetupOk", "SetupFailed",
             "TryProcessFileRequest", "ProcessFileRequest",
             "ProcessFileRequestDone", "ProcessCallExec",
             "ProcessCallExecDone", "ProcessFileResponse",
             "ProcessFileResponseDone", "ProcessFinished", "ProcessReply",
             "ReplyResponse", "Done"}

Verify  == "verify_output" \in env
GchHack == {"precompiling", "gch"} \subseteq env

\* The thread enters f, called by another function or as a closure.
Enter(f) == \/ call = f
            \/ call = "none" /\ wait = f
Return   == call' = "none" /\ wait' = "none"
Call(f)  == call' = f /\ wait' = "none"
Await(f) == call' = "none" /\ wait' = f
ThreadIdle == call = "none" /\ ~done

-----------------------------------------------------------------------------
(***************************************************************************)
(* The local subprocess.                                                   *)
(***************************************************************************)
IsSubprocRunning == subproc # "null" /\ pid

\* Mutant: the delayed setup stays registered.
SetupSubProcessTwice ==
  /\ subproc' = "PENDING" /\ pid' = FALSE /\ proc' = "queued"
  /\ UNCHANGED <<delayed, local_run, local_killed>>

\* SetupSubProcess() starts a SubProcessTask and drops the delayed setup.
SetupSubProcess ==
  /\ subproc' = "PENDING" /\ pid' = FALSE /\ proc' = "queued"
  /\ delayed' = FALSE
  /\ UNCHANGED <<local_run, local_killed>>

\* KillSubProcess(): SubProcessTask::Kill() returns whether it was running.
KillSubProcess ==
  /\ local_killed' = (subproc = "RUN")
  /\ subproc' = "SIGNALED"
  /\ UNCHANGED <<pid, local_run, proc>>

\* ShouldStopGoma() in state s.  FALSE \in ... stands for the comparison of the
\* pending subprocesses with max_subprocs_pending() once there were retries,
\* and for http ramp_up().
ShouldStopGoma(s) ==
  IF Verify \/ GchHack \/ subproc = "null" THEN {FALSE}
  ELSE IF pid /\ ("dont_kill" \in env \/ ~Before(LocalRunPreference, s))
  THEN {TRUE}
  ELSE BOOLEAN

\* Mutant: the return after state_ = LOCAL_RUN is missing.
StageNoReturn(s, go) ==
  \E stop \in ShouldStopGoma(s) :
    state' = (IF stop THEN "LOCAL_RUN" ELSE s) /\ go

\* A stage of the remote side begins in state s unless the local run is to be
\* preferred, in which case nothing of the remote side goes on.
Stage(s, go) ==
  \E stop \in ShouldStopGoma(s) :
    IF stop THEN /\ state' = "LOCAL_RUN" /\ Return
                 /\ UNCHANGED <<sub, resp, output>>
            ELSE state' = s /\ go

-----------------------------------------------------------------------------
(***************************************************************************)
(* INIT and SETUP.                                                         *)
(***************************************************************************)
\* Start() of a request it cannot handle, or that has no local compiler.
StartInvalid ==
  /\ Enter("Start")
  /\ resp' = "bad"
  /\ Call("ProcessFinished")
  /\ UNCHANGED <<env, state, flags, sub, retry, output, result, gomacc>>

\* ShouldFallback(): flags that cannot be parsed, no input file, an input that
\* is not a regular file, a compile the server does not support, or an input
\* the user wants to be compiled locally.
ShouldFallback == BOOLEAN

\* Start() when the request is verified, falls back, or runs on both sides.
\* The copy of a header to be precompiled sets exit status 0.
StartLocal ==
  /\ Enter("Start")
  /\ \E fallback \in ShouldFallback :
       /\ Verify \/ fallback \/ GchHack
       /\ should_fallback' = fallback
       /\ IF Verify \/ fallback THEN Return ELSE Call("ProcessSetup")
  /\ SetupSubProcess
  /\ resp' \in IF "precompiling" \in env THEN {"ok", "bad"} ELSE {"bad"}
  /\ UNCHANGED <<env, state, abort, canceled, finished, fail_fallback,
                 want_fallback, retry, output, result, gomacc>>

\* Start() otherwise: the subprocess is set up now, later or not at all, and
\* the remote side begins unless ramp_up dropped to 0 in the meantime.
StartRemote ==
  /\ Enter("Start")
  /\ ~Verify /\ ~GchHack
  /\ resp' \in IF "precompiling" \in env THEN {"ok", "bad"} ELSE {"bad"}
  /\ \/ /\ {"fallback", "use_local"} \subseteq env /\ "heavy" \notin env
        /\ SetupSubProcess
        /\ \/ state' = "LOCAL_RUN" /\ Return
           \/ UNCHANGED state /\ Call("ProcessSetup")
     \/ /\ delayed' = ({"fallback", "use_local"} \subseteq env
                       /\ "heavy" \notin env)
        /\ Call("ProcessSetup")
        /\ UNCHANGED <<state, subproc, pid, local_run, local_killed, proc>>
  /\ UNCHANGED <<env, flags, retry, output, result, gomacc>>

ProcessSetup ==
  /\ Enter("ProcessSetup")
  /\ Stage("SETUP", Await("FillCompilerInfoDone")
                    /\ UNCHANGED <<sub, resp, output>>)
  /\ UNCHANGED <<env, flags, retry, result, gomacc>>

\* GetCompilerInfo() calls back with no state, with an error or a compiler
\* that is disabled, or with the compiler's info.
FillCompilerInfoDone ==
  /\ Enter("FillCompilerInfoDone")
  /\ \/ /\ Call("SetupFailed")
        /\ resp' = "bad"
        /\ should_fallback' \in {should_fallback,
             should_fallback \/ ("fail_fast" \notin env /\ want_fallback)}
     \/ /\ Await("RunIncludeProcessorDone")
        /\ UNCHANGED <<resp, should_fallback>>
  /\ UNCHANGED <<env, state, abort, canceled, finished, fail_fallback,
                 want_fallback, sub, retry, output, result, gomacc>>

\* RunIncludeProcessorDone() and UpdateRequiredFilesDone().
RunIncludeProcessorDone ==
  /\ Enter("RunIncludeProcessorDone")
  /\ \/ Call("SetupOk") /\ UNCHANGED <<resp, should_fallback>>
     \/ /\ Call("SetupFailed")
        /\ resp' \in {resp, "bad"}
        /\ should_fallback' = (should_fallback \/ (~canceled /\ ~abort))
  /\ UNCHANGED <<env, state, abort, canceled, finished, fail_fallback,
                 want_fallback, sub, retry, output, result, gomacc>>

\* SetupRequestDone(ok).
SetupRequestDone(ok) ==
  /\ Enter(IF ok THEN "SetupOk" ELSE "SetupFailed")
  /\ \/ /\ abort \/ canceled
        /\ Call("ProcessFinished")
        /\ UNCHANGED <<state, sub, resp>>
     \/ /\ ~abort /\ ~canceled /\ ok
        /\ Call("TryProcessFileRequest")
        /\ UNCHANGED <<state, sub, resp>>
     \/ /\ ~abort /\ ~canceled /\ ~ok /\ should_fallback
        /\ state' = "INIT"
        /\ IF subproc = "null" THEN SetupSubProcess ELSE UNCHANGED sub
        /\ Return
        /\ UNCHANGED resp
     \/ /\ ~abort /\ ~canceled /\ ~ok /\ ~should_fallback
        /\ resp' = "bad"
        /\ Call("ProcessFinished")
        /\ UNCHANGED <<state, sub>>
  /\ UNCHANGED <<env, flags, retry, output, result, gomacc>>

-----------------------------------------------------------------------------
(***************************************************************************)
(* FILE_REQ and CALL_EXEC.                                                 *)
(***************************************************************************)
\* Linkers load their files one at a time: a task that is not at the front of
\* link_file_req_tasks_ waits until the one before it is through.
TryProcessFileRequest ==
  /\ Enter("TryProcessFileRequest")
  /\ \/ Call("ProcessFileRequest")
     \/ "linking" \in env /\ Await("ProcessFileRequest")
  /\ UNCHANGED <<env, state, flags, sub, resp, retry, output, result, gomacc>>

ProcessFileRequest ==
  /\ Enter("ProcessFileRequest")
  /\ \/ /\ abort \/ canceled
        /\ Call("ProcessFinished")
        /\ UNCHANGED <<state, sub, resp, output>>
     \/ /\ ~abort /\ ~canceled
        /\ Stage("FILE_REQ", Await("ProcessFileRequestDone")
                             /\ UNCHANGED <<sub, resp, output>>)
  /\ UNCHANGED <<env, flags, retry, result, gomacc>>

\* Mutant: the retries are not counted against kMaxExecRetry.
RetryForEver(again) == retry' = retry + 1 /\ again

\* The request is tried again, unless http is unhealthy or the retries are
\* used up.
RetryOrFinish(again) ==
  \/ /\ retry < MaxExecRetry
     /\ retry' = retry + 1
     /\ again
  \/ /\ retry' \in {retry, IF retry < MaxExecRetry THEN retry ELSE retry + 1}
     /\ Call("ProcessFinished")
     /\ UNCHANGED state

\* All InputFileTasks are through.  On success the local output cache may
\* already hold the result.
ProcessFileRequestDone ==
  /\ Enter("ProcessFileRequestDone")
  /\ \/ /\ abort \/ canceled
        /\ Call("ProcessFinished")
        /\ UNCHANGED <<state, resp, retry>>
     \/ /\ ~abort /\ ~canceled /\ IsSubprocRunning
        /\ state' = "LOCAL_RUN"
        /\ Return
        /\ UNCHANGED <<resp, retry>>
     \/ /\ ~abort /\ ~canceled /\ ~IsSubprocRunning
        /\ resp' = "bad"
        /\ RetryOrFinish(Await("TryProcessFileRequest") /\ UNCHANGED state)
     \/ /\ ~abort /\ ~canceled
        /\ \/ state' = "LOCAL_OUTPUT" /\ resp' = "ok"
              /\ Call("ProcessFileResponse")
           \/ UNCHANGED <<state, resp>> /\ Call("ProcessCallExec")
        /\ UNCHANGED retry
  /\ UNCHANGED <<env, flags, sub, output, result, gomacc>>

\* Calls ExecAsync.  A heavy subprocess was not set up by Start().
ProcessCallExec ==
  /\ Enter("ProcessCallExec")
  /\ \/ /\ abort \/ canceled
        /\ Call("ProcessFinished")
        /\ UNCHANGED <<state, sub, resp, output>>
     \/ /\ ~abort /\ ~canceled
        /\ Stage("CALL_EXEC",
             /\ Await("ProcessCallExecDone")
             /\ IF {"use_local", "heavy"} \subseteq env /\ subproc = "null"
                THEN SetupSubProcess ELSE UNCHANGED sub
             /\ UNCHANGED <<resp, output>>)
  /\ UNCHANGED <<env, flags, retry, result, gomacc>>

\* The RPC failed (and not while the response was being received), and the
\* subprocess runs: leave it to the subprocess.
ExecFailedLocalRun ==
  /\ IsSubprocRunning
  /\ resp' = "bad"
  /\ state' = "LOCAL_RUN"
  /\ Return
  /\ UNCHANGED <<retry, want_fallback>>

\* CheckNoMatchingCommandSpec(): a hermetic build may forbid the fallback when
\* the server does not have the compiler.
CheckNoMatchingCommandSpec == want_fallback' \in {want_fallback, FALSE}

\* The RPC failed or the server sent an error.
ExecFailed ==
  /\ resp' = "bad"
  /\ RetryOrFinish(state' = "FILE_REQ" /\ Await("ProcessCallExec"))
  /\ IF call' = "ProcessFinished" THEN CheckNoMatchingCommandSpec
                                  ELSE UNCHANGED want_fallback

\* CheckCommandSpec() of the response: that the server used another compiler is
\* an error, and may forbid the fallback of a hermetic build.
CheckCommandSpec ==
  \/ resp' \in {"ok", "bad"} /\ UNCHANGED want_fallback
  \/ resp' = "bad" /\ want_fallback' = FALSE

\* The server executed the compile, or lacks some inputs.
ExecSucceeded ==
  /\ \/ resp' = "missing" /\ UNCHANGED want_fallback
     \/ CheckCommandSpec
  /\ Call("ProcessFileResponse")
  /\ UNCHANGED <<state, retry>>

ProcessCallExecDone ==
  /\ Enter("ProcessCallExecDone")
  /\ \/ /\ abort \/ canceled
        /\ resp' \in {"ok", "bad"}
        /\ Call("ProcessFinished")
        /\ UNCHANGED <<state, retry, want_fallback>>
     \/ /\ ~abort /\ ~canceled
        /\ ExecFailedLocalRun \/ ExecFailed \/ ExecSucceeded
  /\ UNCHANGED <<env, abort, canceled, finished, should_fallback,
                 fail_fallback, sub, output, result, gomacc>>

-----------------------------------------------------------------------------
(***************************************************************************)
(* FILE_RESP.                                                              *)
(***************************************************************************)
\* Mutant: does not ask whether there is a subprocess.
DestinationUnguarded ==
  IF Verify \/ resp = "bad" THEN {"tmp"} ELSE {"buffer", "direct"}

\* Where the remote output goes: to a temporary file if it may not be used, to
\* memory if there is room, else to a temporary file when a subprocess may be
\* writing the output file, and to the output file itself when there is none.
Destination ==
  IF Verify \/ resp = "bad" THEN {"tmp"}
  ELSE IF subproc # "null" THEN {"buffer", "tmp"}
  ELSE {"buffer", "direct"}

StartDownload ==
  /\ gomacc
  /\ dl' \in Destination
  /\ got' = FALSE
  /\ outfile' = IF dl' = "direct" THEN "partial" ELSE outfile
  /\ delayed' = (delayed /\ (Verify \/ resp = "bad"))
  /\ Await("ProcessFileResponseDone")
  /\ UNCHANGED <<resp, subproc, pid, local_run, local_killed, proc>>

ProcessFileResponse ==
  /\ Enter("ProcessFileResponse")
  /\ \/ /\ abort \/ canceled
        /\ Call("ProcessFinished")
        /\ UNCHANGED <<state, sub, resp, output>>
     \/ /\ ~abort /\ ~canceled
        /\ Stage("FILE_RESP",
             \/ /\ resp = "missing"
                /\ resp' = "bad"
                /\ got' = FALSE
                /\ Call("ProcessFileResponseDone")
                /\ UNCHANGED <<sub, dl, outfile>>
             \/ /\ resp # "missing" /\ ~gomacc
                /\ resp' = "bad"
                /\ Call("ProcessFinished")
                /\ UNCHANGED <<sub, output>>
             \/ resp # "missing" /\ StartDownload)
  /\ UNCHANGED <<env, flags, retry, result, gomacc>>

\* The OutputFileTasks are through (called: there were none, inputs missing).
\* An aborted task counts its downloads as failed.
Downloaded(ok) ==
  /\ ok => call = "none" /\ ~abort
  /\ got' = ok
  /\ outfile' = IF ok /\ dl = "direct" THEN "remote" ELSE outfile

\* VerifyOutput() of each file compares the two outputs; without a local one
\* it fails.
VerifyOutput == resp' \in IF outfile = "local" THEN {resp, "bad"} ELSE {"bad"}

ProcessFileResponseDone ==
  /\ Enter("ProcessFileResponseDone")
  /\ \E ok \in BOOLEAN :
       /\ Downloaded(ok)
       /\ \/ /\ abort \/ canceled
             /\ Call("ProcessFinished")
             /\ UNCHANGED <<state, resp, retry, dl>>
          \/ /\ ~abort /\ ~canceled /\ ~ok
             /\ UNCHANGED dl
             /\ IF ~GchHack /\ IsSubprocRunning
                THEN state' = "LOCAL_RUN" /\ Return /\ UNCHANGED <<resp, retry>>
                ELSE /\ resp' = "bad"
                     /\ RetryOrFinish(Call("TryProcessFileRequest")
                                      /\ UNCHANGED state)
          \/ /\ ~abort /\ ~canceled /\ ok
             /\ IF Verify THEN VerifyOutput ELSE UNCHANGED resp
             /\ dl' = IF Verify \/ resp = "bad" THEN "none" ELSE dl
             /\ Call("ProcessFinished")
             /\ UNCHANGED <<state, retry>>
  /\ UNCHANGED <<env, flags, sub, result, gomacc>>

-----------------------------------------------------------------------------
(***************************************************************************)
(* FINISHED.                                                               *)
(***************************************************************************)
\* Mutant: the delayed setup is not dropped.
KillOrReplyKeepsDelayed ==
  IF subproc # "null"
  THEN KillSubProcess /\ Return /\ UNCHANGED delayed
  ELSE Call("ProcessReply") /\ UNCHANGED sub

\* Mutant: replies without waiting for the subprocess it kills.
KillOrReplyAtOnce ==
  /\ delayed' = FALSE
  /\ Call("ProcessReply")
  /\ IF subproc # "null" THEN KillSubProcess
     ELSE UNCHANGED <<subproc, pid, local_run, local_killed, proc>>

\* The delayed setup is dropped; a subprocess is killed, and FinishSubProcess
\* will reply.
KillOrReply ==
  /\ delayed' = FALSE
  /\ IF subproc # "null"
     THEN KillSubProcess /\ Return
     ELSE /\ Call("ProcessReply")
          /\ UNCHANGED <<subproc, pid, local_run, local_killed, proc>>

\* IncrementActiveFailFallbackTasks() may refuse the fallback.
FailFallback ==
  /\ fail_fallback' = TRUE
  /\ \/ KillOrReply
     \/ /\ IF subproc = "null" THEN SetupSubProcess ELSE UNCHANGED sub
        /\ Return

ProcessFinished ==
  /\ Enter("ProcessFinished")
  /\ finished' = TRUE
  /\ state' = IF abort /\ state # "INIT" THEN state ELSE "FINISHED"
  /\ \/ /\ state = "INIT" \/ Verify
        /\ Call("ReplyResponse")
        /\ UNCHANGED <<fail_fallback, sub>>
     \/ /\ state # "INIT" /\ ~Verify /\ GchHack
        /\ IF subproc # "null" THEN Return ELSE Call("ProcessReply")
        /\ UNCHANGED <<fail_fallback, sub>>
     \/ /\ state # "INIT" /\ ~Verify /\ ~GchHack
        /\ \/ /\ "fallback" \notin env
              /\ Call("ProcessReply")
              /\ UNCHANGED <<fail_fallback, sub>>
           \/ /\ "fallback" \in env /\ abort
              /\ IF local_output THEN Return ELSE Call("Done")
              /\ UNCHANGED <<fail_fallback, sub>>
           \/ /\ "fallback" \in env /\ ~abort
              /\ resp = "ok" \/ ~gomacc \/ ~want_fallback
              /\ KillOrReply
              /\ UNCHANGED fail_fallback
           \/ /\ "fallback" \in env /\ ~abort
              /\ resp # "ok" /\ gomacc /\ want_fallback
              /\ FailFallback
  /\ UNCHANGED <<env, abort, canceled, should_fallback, want_fallback, resp,
                 retry, output, result, gomacc>>

\* Mutant: what was downloaded is thrown away.
CommitNothing == UNCHANGED <<outfile, resp>>

\* CommitOutput(true): writes or renames what was downloaded; DoOutput may
\* fail.
CommitRemoteOutput ==
  \/ /\ dl \in {"none", "direct"}
     /\ UNCHANGED <<outfile, resp>>
  \/ /\ dl \in {"buffer", "tmp"}
     /\ outfile' = IF got THEN "remote" ELSE "partial"
     /\ UNCHANGED <<resp>>
  \/ /\ dl \in {"buffer", "tmp"}
     /\ outfile' = "partial" /\ resp' = "bad"

\* The output is committed only for a gomacc that is there.  With
\* dont_kill_subprocess the output of a local run is used.
ProcessReply ==
  /\ Enter("ProcessReply")
  /\ \/ /\ gomacc /\ local_run /\ "dont_kill" \in env
        /\ dl' = "none"
        /\ UNCHANGED <<outfile, resp>>
     \/ /\ gomacc /\ ~(local_run /\ "dont_kill" \in env)
        /\ CommitRemoteOutput
        /\ dl' = "none"
     \/ ~gomacc /\ UNCHANGED <<dl, outfile, resp>>
  /\ call' = "ReplyResponse"
  /\ UNCHANGED <<env, state, wait, flags, sub, retry, got, result, gomacc>>

\* Mutant: does not ask whether the remote side is through.
ReplyResponseIsDone ==
  /\ Enter("ReplyResponse")
  /\ reply' = IF resp = "ok" THEN "ok" ELSE "bad"
  /\ call' = IF local_output THEN "none" ELSE "Done"
  /\ UNCHANGED <<env, state, wait, flags, sub, resp, retry, output,
                 local_output, done, gomacc>>

\* The response goes to the thread of the rpc.  The remote side, or the upload
\* of the local output, may still be on the fly.
ReplyResponse ==
  /\ Enter("ReplyResponse")
  /\ reply' = IF resp = "ok" THEN "ok" ELSE "bad"
  /\ call' = IF finished /\ ~local_output THEN "Done" ELSE "none"
  /\ UNCHANGED <<env, state, wait, flags, sub, resp, retry, output,
                 local_output, done, gomacc>>

\* Done(): drops output_file_infos_ and hands the task back to the service.
Done ==
  /\ Enter("Done")
  /\ done' = TRUE
  /\ dl' = "none"
  /\ call' = "none"
  /\ UNCHANGED <<env, state, wait, flags, sub, resp, retry, got, outfile, local_output, reply, gomacc>>

\* Mutant: leaves Done() to the remote side, which may be through already.
ProcessLocalFileOutputDoneQuiet ==
  /\ ThreadIdle /\ local_output
  /\ local_output' = FALSE
  /\ UNCHANGED <<env, state, flow, flags, sub, resp, retry, output, reply,
                 done, gomacc>>

\* ProcessLocalFileOutputDone(): the upload of the local output is through.
ProcessLocalFileOutputDone ==
  /\ ThreadIdle /\ local_output
  /\ local_output' = FALSE
  /\ call' = IF finished THEN "Done" ELSE "none"
  /\ UNCHANGED <<env, state, wait, flags, sub, resp, retry, output, reply,
                 done, gomacc>>

-----------------------------------------------------------------------------
(***************************************************************************)
(* Closures that come from elsewhere.                                      *)
(***************************************************************************)
\* The delay of an idle fallback is over.
DelayedSetup ==
  /\ ThreadIdle /\ delayed
  /\ SetupSubProcess
  /\ UNCHANGED <<env, state, flow, flags, resp, retry, output, result, gomacc>>

\* The socket to gomacc was closed.
GomaccClosed ==
  /\ ThreadIdle /\ ~gomacc /\ ~canceled
  /\ canceled' = TRUE
  /\ IF subproc # "null" THEN KillSubProcess /\ UNCHANGED delayed
                         ELSE UNCHANGED sub
  /\ UNCHANGED <<env, state, flow, abort, finished, should_fallback,
                 fail_fallback, want_fallback, resp, retry, output, result,
                 gomacc>>

\* What subproc_->terminated() says.  lost: the status is negative though the
\* process was started.
Terminations ==
  IF proc \in {"ok", "failed", "lost"} /\ pid THEN {proc}
  ELSE IF proc = "queued" /\ subproc = "SIGNALED"
  THEN {"NotStarted", "InternalError"}
  ELSE IF proc = "queued" THEN {"InternalError"}
  ELSE {}

\* The subprocess was killed by a remote side that is through.
FinishKilled(how) ==
  /\ state = "FINISHED" /\ ~fail_fallback
  /\ resp' = IF how = "InternalError" THEN "bad" ELSE resp
  /\ call' = "ProcessReply"
  /\ UNCHANGED <<state, abort, finished, local_output>>

\* local_run_goma_failure and local_run_failed.
GomaFailure(how) == how = "InternalError" \/ (how = "lost" /\ ~local_killed)
RunFailed(how) ==
  how = "InternalError" \/ (how \in {"lost", "failed"} /\ ~local_killed)

\* The local result becomes the response; what is done with it depends on why
\* the subprocess was run.
FinishLocal(how) ==
  /\ state # "FINISHED" \/ fail_fallback
  /\ resp' = IF how = "ok" THEN "ok" ELSE "bad"
  /\ \/ /\ Verify /\ ~should_fallback
        /\ call' = "ProcessSetup"
        /\ UNCHANGED <<state, abort, finished, local_output>>
     \/ /\ ~(Verify /\ ~should_fallback) /\ GchHack
        /\ UNCHANGED <<state, call, abort, finished, local_output>>
     \/ /\ ~(Verify /\ ~should_fallback) /\ ~GchHack
        /\ local_output' = ("store_local" \in env /\ ~RunFailed(how))
        /\ IF should_fallback \/ (~fail_fallback /\ state = "LOCAL_RUN")
           THEN /\ state' = "LOCAL_FINISHED" /\ finished' = TRUE
                /\ call' = "ReplyResponse"
                /\ UNCHANGED abort
           ELSE IF fail_fallback
           THEN call' = "ReplyResponse" /\ UNCHANGED <<state, abort, finished>>
           ELSE /\ abort' = ~GomaFailure(how)
                /\ call' = IF GomaFailure(how) THEN "none" ELSE "ReplyResponse"
                /\ UNCHANGED <<state, finished>>

FinishSubProcess ==
  /\ ThreadIdle /\ subproc # "null"
  /\ \E how \in Terminations : FinishKilled(how) \/ FinishLocal(how)
  /\ local_run' = (local_run \/ pid)
  /\ subproc' = "null" /\ pid' = FALSE /\ proc' = "none"
  /\ UNCHANGED <<env, wait, canceled, should_fallback, fail_fallback,
                 want_fallback, delayed, local_killed, retry, output, reply,
                 done, gomacc>>

-----------------------------------------------------------------------------
(***************************************************************************)
(* The subprocess and gomacc.                                              *)
(***************************************************************************)
others == <<env, state, flow, flags, delayed, local_run, local_killed, resp,
            retry, dl, got, result>>

\* The server spawns the process, which may begin to write its output.
Spawn ==
  /\ proc = "queued"
  /\ proc' = "alive"
  /\ outfile' \in {outfile, "partial"}
  /\ UNCHANGED <<others, subproc, pid, gomacc>>

\* SubProcessTask::Started() on the thread of the subprocess controller.
Started ==
  /\ proc \in {"alive", "ok", "failed", "lost"} /\ ~pid
  /\ pid' = TRUE
  /\ subproc' = IF subproc = "PENDING" THEN "RUN" ELSE subproc
  /\ UNCHANGED <<others, proc, outfile, gomacc>>

Exit ==
  /\ proc = "alive"
  /\ \/ proc' = "ok" /\ outfile' = "local"
     \/ proc' \in {"failed", "lost"} /\ outfile' \in {outfile, "partial"}
  /\ UNCHANGED <<others, subproc, pid, gomacc>>

GomaccDies ==
  /\ gomacc /\ gomacc' = FALSE
  /\ UNCHANGED <<others, subproc, pid, proc, outfile>>

Init ==
  /\ env \in Configs
  /\ state = "INIT" /\ call = "Start" /\ wait = "none"
  /\ abort = FALSE /\ canceled = FALSE /\ finished = FALSE
  /\ should_fallback = FALSE /\ fail_fallback = FALSE
  /\ want_fallback = ("fallback" \in env)
  /\ subproc = "null" /\ pid = FALSE /\ delayed = FALSE
  /\ local_run = FALSE /\ local_killed = FALSE /\ proc = "none"
  /\ resp = "bad" /\ retry = 0
  /\ dl = "none" /\ got = FALSE /\ outfile = "none"
  /\ local_output = FALSE /\ reply = "none" /\ done = FALSE
  /\ gomacc = TRUE

\* The steps of the task's thread and of what it waits for.
RemoteSide ==
  \/ StartInvalid \/ StartLocal \/ StartRemote \/ ProcessSetup
  \/ FillCompilerInfoDone \/ RunIncludeProcessorDone
  \/ SetupRequestDone(TRUE) \/ SetupRequestDone(FALSE)
  \/ TryProcessFileRequest \/ ProcessFileRequest \/ ProcessFileRequestDone
  \/ ProcessCallExec \/ ProcessCallExecDone
  \/ ProcessFileResponse \/ ProcessFileResponseDone
  \/ ProcessFinished \/ ProcessReply \/ ReplyResponse \/ Done

Next ==
  \/ RemoteSide
  \/ ProcessLocalFileOutputDone \/ DelayedSetup \/ GomaccClosed
  \/ FinishSubProcess
  \/ Spawn \/ Started \/ Exit \/ GomaccDies

\* RPCs time out and uploads and downloads end, the subprocess controller
\* spawns what is queued and reports it (properties of SubProcessController),
\* compilers exit.  gomacc need not die.
Fairness ==
  /\ WF_vars(RemoteSide) /\ WF_vars(ProcessLocalFileOutputDone)
  /\ WF_vars(FinishSubProcess /\ proc # "queued")
  /\ WF_vars(FinishSubProcess /\ subproc = "SIGNALED")
  /\ WF_vars(Spawn) /\ WF_vars(Started) /\ WF_vars(Exit)

Spec == Init /\ [][Next]_vars /\ Fairness

-----------------------------------------------------------------------------
(***************************************************************************)
(* Properties.                                                             *)
(***************************************************************************)
\* The type invariant of a compile task.
FlowTypeOK ==
  /\ env \in SUBSET Setting
  /\ state \in StateNames
  /\ call \in Closures /\ wait \in Closures
  /\ retry \in 0..MaxExecRetry + 1
FlagsTypeOK ==
  /\ abort \in BOOLEAN /\ canceled \in BOOLEAN /\ finished \in BOOLEAN
  /\ should_fallback \in BOOLEAN /\ fail_fallback \in BOOLEAN
  /\ want_fallback \in BOOLEAN
SubTypeOK ==
  /\ subproc \in {"null", "PENDING", "RUN", "SIGNALED"}
  /\ proc \in {"none", "queued", "alive", "ok", "failed", "lost"}
  /\ pid \in BOOLEAN /\ delayed \in BOOLEAN
  /\ local_run \in BOOLEAN /\ local_killed \in BOOLEAN
ResultTypeOK ==
  /\ resp \in {"ok", "bad", "missing"}
  /\ dl \in {"none", "buffer", "tmp", "direct"} /\ got \in BOOLEAN
  /\ outfile \in {"none", "partial", "local", "remote"}
  /\ reply \in {"none", "ok", "bad"}
  /\ local_output \in BOOLEAN /\ done \in BOOLEAN /\ gomacc \in BOOLEAN
TypeOK == FlowTypeOK /\ FlagsTypeOK /\ SubTypeOK /\ ResultTypeOK

\* The CHECKs on state_ at the head of every function of the remote side: no
\* closure of the remote side runs in a state the local side has changed.
StageChecks ==
  /\ Enter("ProcessSetup") => state = "INIT" /\ ~abort /\ ~should_fallback
  /\ \A f \in {"FillCompilerInfoDone", "RunIncludeProcessorDone", "SetupOk",
               "SetupFailed"} : Enter(f) => state = "SETUP"
  /\ Enter("ProcessFileRequest") => state \in {"SETUP", "FILE_REQ", "FILE_RESP"}
  /\ Enter("ProcessFileRequestDone") => state = "FILE_REQ"
  /\ Enter("ProcessCallExec") => state = "FILE_REQ"
  /\ Enter("ProcessCallExecDone") => state = "CALL_EXEC"
  /\ Enter("ProcessFileResponse") => state \in {"CALL_EXEC", "LOCAL_OUTPUT"}
  /\ Enter("ProcessFileResponseDone") => state = "FILE_RESP"
  /\ Enter("ProcessFinished") => Before(state, "FINISHED") /\ ~finished

\* The CHECKs of FinishSubProcess and SetupSubProcess: a subprocess ends while
\* the task is in the state it was run for, and there is only one of it.  (The
\* CHECK_LT for the gch hack fails in LOCAL_RUN, which is after FINISHED in the
\* enum; that is the only state in which it does.)
SubprocChecks ==
  /\ delayed => subproc = "null"
  /\ abort => subproc = "null"
  /\ subproc # "null" /\ ThreadIdle /\ ~(state = "FINISHED" /\ ~fail_fallback) =>
       /\ Verify /\ ~should_fallback => state = "INIT"
       /\ ~GchHack /\ should_fallback => state = "INIT"
       /\ GchHack /\ ~(Verify /\ ~should_fallback)
            => Before(state, "FINISHED") \/ state = "LOCAL_RUN"
       /\ fail_fallback => state = "FINISHED"

\* The CHECKs of ProcessFinished, ProcessReply, ReplyResponse and Done: gomacc
\* is answered once, with no subprocess left or still to be set up, and not
\* before it is clear which side won.
ReplyChecks ==
  /\ (state = "INIT" \/ Verify \/ (~GchHack /\ "fallback" \notin env))
     /\ Enter("ProcessFinished") => subproc = "null" /\ ~delayed
  /\ Enter("ProcessReply")
       => state = "FINISHED" /\ ~abort /\ subproc = "null" /\ ~delayed
  /\ Enter("ReplyResponse")
       => /\ reply = "none"
          /\ IF abort THEN ~finished
                      ELSE finished /\ state \in {"FINISHED", "LOCAL_FINISHED"}
          /\ subproc = "null" /\ ~delayed
  /\ Enter("Done") => /\ reply # "none"
                      /\ abort \/ ~Before(state, "FINISHED")
                      /\ subproc = "null" /\ ~delayed /\ ~local_output

\* The CHECKs of compile_task.cc hold in every interleaving of the remote side,
\* the subprocess, the delayed setup and gomacc, but for the one of the gch hack
\* in LOCAL_RUN (see SubprocChecks).
ChecksHold == StageChecks /\ SubprocChecks /\ ReplyChecks

\* Done() gives the task up: no closure, subprocess or upload still refers to
\* it.  (The CHECKs of Done cover only a part of what may be outstanding.)
NothingOutstanding ==
  done => wait = "none" /\ subproc = "null" /\ ~delayed /\ ~local_output

\* The remote side never writes the output file itself while a local process
\* may be writing it.
NoSharedOutput ==
  wait = "ProcessFileResponseDone" /\ dl = "direct"
    => subproc = "null" /\ proc = "none" /\ ~delayed

Request == INSTANCE CompileRequest WITH
  answer <- reply, output <- outfile, present <- gomacc, released <- done,
  lenient <- "dont_kill" \in env

\* The task implements the abstract request: one answer, success only with a
\* complete output in place, and no change of the output file after the answer,
\* though the remote side and the upload of local output may still be busy.
\* (With dont_kill_subprocess CommitOutput(false) takes whatever the local run
\* has left, also that of a failed one.)
ImplementsRequest == Request!RequestSpec

\* The gch hack returns early from FinishSubProcess, for a task that only has
\* its local run left too (in LOCAL_RUN it even fails the CHECK_LT there).
LeftByGchHack == GchHack /\ (should_fallback \/ state = "LOCAL_RUN")

\* Every request is answered, and every task is given back to the service,
\* but for the ones the gch hack leaves.
EveryTaskIsDone ==
  <>(reply # "none" \/ LeftByGchHack) /\ <>(done \/ LeftByGchHack)
===============================================================================

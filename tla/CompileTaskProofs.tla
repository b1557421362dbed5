-------------------------- MODULE CompileTaskProofs ---------------------------
(***************************************************************************)
(* Proofs about one compile task: the CHECKs of compile_task.cc hold, a    *)
(* task that is done leaves nothing behind, the two sides never write the  *)
(* output file together, and a task implements CompileRequest.             *)
(*                                                                         *)
(* They are for the tasks LocalConfigs describes.  For a heavy task with   *)
(* use_local and no fallback a CHECK does fail (ProcessCallExec sets up a  *)
(* subprocess that ProcessFinished does not expect), and likewise with     *)
(* verify_output.                                                          *)
(***************************************************************************)
EXTENDS CompileTask, TLAPS

\* The functions of the remote side, from Start() to ProcessFinished().
RemoteFns ==
  {"Start", "ProcessSetup", "FillCompilerInfoDone", "RunIncludeProcessorDone",
   "SetupOk", "SetupFailed", "TryProcessFileRequest", "ProcessFileRequest",
   "ProcessFileRequestDone", "ProcessCallExec", "ProcessCallExecDone",
   "ProcessFileResponse", "ProcessFileResponseDone", "ProcessFinished"}
\* The closures it may be waiting for.
Waits ==
  {"none", "FillCompilerInfoDone", "RunIncludeProcessorDone",
   "TryProcessFileRequest", "ProcessFileRequest", "ProcessFileRequestDone",
   "ProcessCallExec", "ProcessCallExecDone", "ProcessFileResponseDone"}
\* The states it goes through, and the ones that end the task.
RemoteStates == {"SETUP", "FILE_REQ", "CALL_EXEC", "LOCAL_OUTPUT", "FILE_RESP"}
Over == {"FINISHED", "LOCAL_FINISHED"}

\* The remote side is on its way; it is at f.
OnTheFly == call \in RemoteFns \/ wait # "none"
At(f) == call = f \/ wait = f

\* The remote side is in one place, and state_ is the one it left there.
RemotePlace ==
  /\ wait \in Waits
  /\ call \in RemoteFns \cup {"ProcessReply"} => wait = "none"
  /\ At("Start") => state = "INIT" /\ ~canceled
  /\ At("ProcessSetup") => state = "INIT"
  /\ \A f \in {"FillCompilerInfoDone", "RunIncludeProcessorDone", "SetupOk",
               "SetupFailed"} : At(f) => state = "SETUP"
  /\ \A f \in {"TryProcessFileRequest", "ProcessFileRequest"} :
       At(f) => state \in {"SETUP", "FILE_REQ", "FILE_RESP"}
  /\ \A f \in {"ProcessFileRequestDone", "ProcessCallExec"} :
       At(f) => state = "FILE_REQ"
  /\ At("ProcessCallExecDone") => state = "CALL_EXEC"
  /\ At("ProcessFileResponse") => state \in {"CALL_EXEC", "LOCAL_OUTPUT"}
  /\ At("ProcessFileResponseDone") => state = "FILE_RESP"
  /\ call = "ProcessFinished" => state \in RemoteStates \cup {"INIT"}
  /\ state \in {"INIT", "SETUP"} => retry = 0
  /\ OnTheFly /\ call # "ProcessFinished" => retry <= MaxExecRetry

\* While it is on its way nothing has ended but, with abort_, the local side.
RemoteLife ==
  /\ OnTheFly => ~finished /\ ~fail_fallback /\ ~done
  /\ OnTheFly /\ ~abort => reply = "none" /\ call \in RemoteFns \cup {"none"}
  /\ OnTheFly /\ should_fallback =>
       /\ wait = "none" /\ call \in {"SetupFailed", "ProcessFinished"}
       /\ call = "ProcessFinished" => abort \/ canceled
  /\ canceled => ~gomacc
  /\ call = "none" /\ state = "INIT" => should_fallback \/ Verify
  /\ call = "none" /\ state \in RemoteStates => wait # "none" \/ abort
  /\ call = "ProcessFinished" /\ state = "INIT"
       => resp = "bad" /\ subproc = "null" /\ ~delayed
  /\ state \in Over => finished
  /\ finished => (abort \/ state \in Over) /\ ~delayed
  /\ fail_fallback => state = "FINISHED" /\ ~should_fallback /\ ~GchHack

\* The local side won, and has answered.
AbortLife ==
  abort => /\ ~Verify /\ ~GchHack /\ "fallback" \in env
           /\ subproc = "null" /\ ~delayed /\ ~fail_fallback
           /\ state \in RemoteStates
           /\ call # "ProcessReply"
           /\ IF call = "ReplyResponse" THEN ~finished ELSE reply # "none"

\* The end of the task.
EndLife ==
  /\ call = "ProcessReply" => finished /\ state = "FINISHED"
                              /\ subproc = "null" /\ ~abort /\ reply = "none"
                              /\ ~Verify /\ (fail_fallback => resp # "ok")
  /\ call = "ReplyResponse" => reply = "none" /\ subproc = "null" /\ ~delayed
                               /\ (~abort => finished)
  /\ call = "Done" => reply # "none" /\ finished /\ ~local_output /\ ~done
  /\ reply # "none" => (abort \/ finished) /\ subproc = "null" /\ ~delayed
  /\ done => call = "none" /\ wait = "none" /\ reply # "none" /\ finished
             /\ ~local_output
  /\ local_output => reply # "none" \/ call = "ReplyResponse"

\* The subprocess and what it is run for.
LocalLife ==
  /\ {"use_local", "heavy"} \subseteq env => "fallback" \in env /\ ~Verify
  /\ subproc = "null" <=> proc = "none"
  /\ pid => proc \in {"alive", "ok", "failed", "lost"}
  /\ delayed => subproc = "null" /\ ~Verify /\ ~GchHack /\ "fallback" \in env
  /\ delayed /\ call = "none" => wait # "none"
  /\ call = "Start" => subproc = "null" /\ ~delayed
  /\ OnTheFly /\ (Verify \/ (~GchHack /\ "fallback" \notin env))
       => subproc = "null"
  /\ Verify /\ subproc # "null" => state = "INIT" /\ wait = "none"
  /\ subproc # "null" /\ call = "none" /\ should_fallback
       => state \in {"INIT", "FINISHED"}
  /\ state = "LOCAL_FINISHED" => subproc = "null"

\* What is downloaded, compiled and committed.
OutputLife ==
  /\ proc = "ok" => outfile = "local"
  /\ NoSharedOutput
  /\ wait = "ProcessFileResponseDone" => dl # "none" /\ (Verify => dl = "tmp")
  /\ /\ gomacc /\ resp = "ok" /\ ~abort /\ ~fail_fallback /\ reply = "none"
     /\ call = "ProcessFinished"
        \/ (state = "FINISHED" /\ call \in {"none", "ProcessReply"})
     => IF Verify THEN outfile = "local"
        ELSE /\ got /\ dl # "none"
             /\ dl = "direct"
                  => outfile = "remote" /\ subproc = "null" /\ ~delayed
  /\ call = "ReplyResponse" /\ resp = "ok" /\ gomacc /\ "dont_kill" \notin env
       => outfile \in {"local", "remote"}

\* A heavy task that may run locally may fall back, and is not verified.
LocalConfigs ==
  \A c \in Configs : {"use_local", "heavy"} \subseteq c
                      => "fallback" \in c /\ "verify_output" \notin c

\* The inductive invariant.
IInv == TypeOK /\ RemotePlace /\ RemoteLife /\ AbortLife /\ EndLife
        /\ LocalLife /\ OutputLife

-----------------------------------------------------------------------------
USE DEF Enter, Return, Call, Await, ThreadIdle, IsSubprocRunning, Verify,
        GchHack, flow, flags, sub, output, result, others

\* The names of the states in the order of the enum.
LEMMA StateSet ==
  StateNames = {"INIT", "SETUP", "FILE_REQ", "CALL_EXEC", "LOCAL_OUTPUT",
                "FILE_RESP", "FINISHED", "LOCAL_RUN", "LOCAL_FINISHED"}
  <1>1. Len(States) = 9
    BY DEF States
  <1>2. 1..9 = {1, 2, 3, 4, 5, 6, 7, 8, 9}
    OBVIOUS
  <1> QED BY <1>1, <1>2 DEF StateNames, States

\* Nothing has been answered while there is a subprocess.
LEMMA Spawn_Step == ASSUME IInv, Spawn PROVE IInv'
  <1> USE DEF Spawn
  <1>1. FlowTypeOK'
    BY StateSet DEF IInv, TypeOK, FlowTypeOK, Closures
  <1>2. FlagsTypeOK'
    BY DEF IInv, TypeOK, FlagsTypeOK
  <1>3. SubTypeOK'
    BY DEF IInv, TypeOK, SubTypeOK
  <1>4. ResultTypeOK'
    BY DEF IInv, TypeOK, ResultTypeOK
  <1>5. RemotePlace'
    BY DEF IInv, RemotePlace, At, OnTheFly, RemoteFns
  <1>6. RemoteLife'
    BY DEF IInv, RemoteLife, OnTheFly, RemoteFns
  <1>7. AbortLife'
    BY DEF IInv, AbortLife
  <1>8. EndLife'
    BY DEF IInv, EndLife
  <1>9. LocalLife'
    BY DEF IInv, LocalLife, OnTheFly, RemoteFns
  <1>10. OutputLife'
    BY DEF IInv, OnTheFly, RemoteFns, RemotePlace, RemoteLife, AbortLife,
           EndLife, LocalLife, OutputLife, NoSharedOutput
  <1> QED BY <1>1, <1>2, <1>3, <1>4, <1>5, <1>6, <1>7, <1>8, <1>9, <1>10
      DEF IInv, TypeOK

\* Only pid changes.
LEMMA Started_Step == ASSUME IInv, Started PROVE IInv'
  <1> USE DEF Started
  <1>1. FlowTypeOK'
    BY StateSet DEF IInv, TypeOK, FlowTypeOK, Closures
  <1>2. FlagsTypeOK'
    BY DEF IInv, TypeOK, FlagsTypeOK
  <1>3. SubTypeOK'
    BY DEF IInv, TypeOK, SubTypeOK
  <1>4. ResultTypeOK'
    BY DEF IInv, TypeOK, ResultTypeOK
  <1>5. RemotePlace'
    BY DEF IInv, RemotePlace, At, OnTheFly, RemoteFns
  <1>6. RemoteLife'
    BY DEF IInv, RemoteLife, OnTheFly, RemoteFns
  <1>7. AbortLife'
    BY DEF IInv, AbortLife
  <1>8. EndLife'
    BY DEF IInv, EndLife
  <1>9. LocalLife'
    BY DEF IInv, LocalLife, OnTheFly, RemoteFns
  <1>10. OutputLife'
    BY DEF IInv, OutputLife, NoSharedOutput
  <1> QED BY <1>1, <1>2, <1>3, <1>4, <1>5, <1>6, <1>7, <1>8, <1>9, <1>10
      DEF IInv, TypeOK

\* The process leaves its output; nothing has been answered yet.
LEMMA Exit_Step == ASSUME IInv, Exit PROVE IInv'
  <1> USE DEF Exit
  <1>1. FlowTypeOK'
    BY StateSet DEF IInv, TypeOK, FlowTypeOK, Closures
  <1>2. FlagsTypeOK'
    BY DEF IInv, TypeOK, FlagsTypeOK
  <1>3. SubTypeOK'
    BY DEF IInv, TypeOK, SubTypeOK
  <1>4. ResultTypeOK'
    BY DEF IInv, TypeOK, ResultTypeOK
  <1>5. RemotePlace'
    BY DEF IInv, RemotePlace, At, OnTheFly, RemoteFns
  <1>6. RemoteLife'
    BY DEF IInv, RemoteLife, OnTheFly, RemoteFns
  <1>7. AbortLife'
    BY DEF IInv, AbortLife
  <1>8. EndLife'
    BY DEF IInv, EndLife
  <1>9. LocalLife'
    BY DEF IInv, LocalLife, OnTheFly, RemoteFns
  <1>10. OutputLife'
    BY DEF IInv, OnTheFly, RemoteFns, RemotePlace, RemoteLife, AbortLife,
           EndLife, LocalLife, OutputLife, NoSharedOutput
  <1> QED BY <1>1, <1>2, <1>3, <1>4, <1>5, <1>6, <1>7, <1>8, <1>9, <1>10
      DEF IInv, TypeOK

\* What holds for a gomacc that is there is no longer asked for.
LEMMA GomaccDies_Step == ASSUME IInv, GomaccDies PROVE IInv'
  <1> USE DEF GomaccDies
  <1>1. FlowTypeOK'
    BY StateSet DEF IInv, TypeOK, FlowTypeOK, Closures
  <1>2. FlagsTypeOK'
    BY DEF IInv, TypeOK, FlagsTypeOK
  <1>3. SubTypeOK'
    BY DEF IInv, TypeOK, SubTypeOK
  <1>4. ResultTypeOK'
    BY DEF IInv, TypeOK, ResultTypeOK
  <1>5. RemotePlace'
    BY DEF IInv, RemotePlace, At, OnTheFly, RemoteFns
  <1>6. RemoteLife'
    BY DEF IInv, RemoteLife, OnTheFly, RemoteFns
  <1>7. AbortLife'
    BY DEF IInv, AbortLife
  <1>8. EndLife'
    BY DEF IInv, EndLife
  <1>9. LocalLife'
    BY DEF IInv, LocalLife, OnTheFly, RemoteFns
  <1>10. OutputLife'
    BY DEF IInv, OutputLife, NoSharedOutput
  <1> QED BY <1>1, <1>2, <1>3, <1>4, <1>5, <1>6, <1>7, <1>8, <1>9, <1>10
      DEF IInv, TypeOK

\* The task ends in INIT, with no subprocess.
LEMMA StartInvalid_Step == ASSUME IInv, StartInvalid PROVE IInv'
  <1> USE DEF StartInvalid
  <1>1. FlowTypeOK'
    BY StateSet DEF IInv, TypeOK, FlowTypeOK, Closures
  <1>2. FlagsTypeOK'
    BY DEF IInv, TypeOK, FlagsTypeOK
  <1>3. SubTypeOK'
    BY DEF IInv, TypeOK, SubTypeOK
  <1>4. ResultTypeOK'
    BY DEF IInv, TypeOK, ResultTypeOK
  <1>5. RemotePlace'
    BY MaxExecRetryAssumption
      DEF IInv, TypeOK, FlowTypeOK, At, OnTheFly, RemoteFns, RemotePlace,
          Waits, RemoteStates, RemoteLife, LocalLife
  <1>6. RemoteLife'
    BY DEF IInv, At, OnTheFly, RemoteFns, RemotePlace, RemoteLife,
           RemoteStates, Over, AbortLife, EndLife, LocalLife
  <1>7. AbortLife'
    BY DEF IInv, AbortLife
  <1>8. EndLife'
    BY DEF IInv, EndLife
  <1>9. LocalLife'
    BY DEF IInv, LocalLife, OnTheFly, RemoteFns
  <1>10. OutputLife'
    BY DEF IInv, OutputLife, NoSharedOutput
  <1> QED BY <1>1, <1>2, <1>3, <1>4, <1>5, <1>6, <1>7, <1>8, <1>9, <1>10
      DEF IInv, TypeOK

\* The subprocess is the only side, or (gch hack) the other one.
LEMMA StartLocal_Step == ASSUME IInv, StartLocal PROVE IInv'
  <1> USE DEF StartLocal, SetupSubProcess, ShouldFallback
  <1>1. FlowTypeOK'
    BY StateSet DEF IInv, TypeOK, FlowTypeOK, Closures
  <1>2. FlagsTypeOK'
    BY DEF IInv, TypeOK, FlagsTypeOK
  <1>3. SubTypeOK'
    BY DEF IInv, TypeOK, SubTypeOK
  <1>4. ResultTypeOK'
    BY DEF IInv, TypeOK, ResultTypeOK
  <1>5. RemotePlace'
    BY MaxExecRetryAssumption
      DEF IInv, TypeOK, FlowTypeOK, At, OnTheFly, RemoteFns, RemotePlace,
          Waits, RemoteStates, RemoteLife, LocalLife
  <1>6. RemoteLife'
    BY DEF IInv, At, OnTheFly, RemoteFns, RemotePlace, RemoteLife,
           RemoteStates, Over, AbortLife, EndLife, LocalLife
  <1>7. AbortLife'
    BY DEF IInv, At, OnTheFly, RemoteFns, RemotePlace, RemoteLife,
           RemoteStates, Over, AbortLife, EndLife, LocalLife
  <1>8. EndLife'
    BY DEF IInv, At, OnTheFly, RemoteFns, Waits, RemoteStates, Over,
           RemotePlace, RemoteLife, AbortLife, EndLife, LocalLife
  <1>9. LocalLife'
    BY DEF IInv, At, OnTheFly, RemoteFns, RemotePlace, RemoteLife, EndLife,
           LocalLife, AbortLife
  <1>10. OutputLife'
    BY DEF IInv, At, OnTheFly, RemoteFns, Waits, RemoteStates, Over,
           RemotePlace, RemoteLife, AbortLife, EndLife, LocalLife, OutputLife,
           NoSharedOutput
  <1> QED BY <1>1, <1>2, <1>3, <1>4, <1>5, <1>6, <1>7, <1>8, <1>9, <1>10
      DEF IInv, TypeOK

\* Start() is entered with no subprocess, so there is only one.
LEMMA StartRemote_Step == ASSUME IInv, StartRemote PROVE IInv'
  <1> USE DEF StartRemote, SetupSubProcess
  <1>1. FlowTypeOK'
    BY StateSet DEF IInv, TypeOK, FlowTypeOK, Closures
  <1>2. FlagsTypeOK'
    BY DEF IInv, TypeOK, FlagsTypeOK
  <1>3. SubTypeOK'
    BY DEF IInv, TypeOK, SubTypeOK
  <1>4. ResultTypeOK'
    BY DEF IInv, TypeOK, ResultTypeOK
  <1>5. RemotePlace'
    BY MaxExecRetryAssumption
      DEF IInv, TypeOK, FlowTypeOK, At, OnTheFly, RemoteFns, RemotePlace,
          Waits, RemoteStates, RemoteLife, LocalLife
  <1>6. RemoteLife'
    BY DEF IInv, At, OnTheFly, RemoteFns, RemotePlace, RemoteLife,
           RemoteStates, Over, AbortLife, EndLife, LocalLife
  <1>7. AbortLife'
    BY DEF IInv, At, OnTheFly, RemoteFns, RemotePlace, RemoteLife,
           RemoteStates, Over, AbortLife, EndLife, LocalLife
  <1>8. EndLife'
    BY DEF IInv, At, OnTheFly, RemoteFns, Waits, RemoteStates, Over,
           RemotePlace, RemoteLife, AbortLife, EndLife, LocalLife
  <1>9. LocalLife'
    <2>1. delayed' => {"fallback", "use_local"} \subseteq env
      OBVIOUS
    <2> QED BY <2>1
      DEF IInv, At, OnTheFly, RemoteFns, RemotePlace, RemoteLife, EndLife,
          LocalLife, AbortLife
  <1>10. OutputLife'
    BY DEF IInv, OutputLife, NoSharedOutput
  <1> QED BY <1>1, <1>2, <1>3, <1>4, <1>5, <1>6, <1>7, <1>8, <1>9, <1>10
      DEF IInv, TypeOK

\* INIT is left for SETUP or, with a subprocess, LOCAL_RUN.
LEMMA ProcessSetup_Step == ASSUME IInv, ProcessSetup PROVE IInv'
  <1> USE DEF ProcessSetup, Stage
  <1>1. FlowTypeOK'
    BY StateSet DEF IInv, TypeOK, FlowTypeOK, Closures
  <1>2. FlagsTypeOK'
    BY DEF IInv, TypeOK, FlagsTypeOK
  <1>3. SubTypeOK'
    BY DEF IInv, TypeOK, SubTypeOK
  <1>4. ResultTypeOK'
    BY DEF IInv, TypeOK, ResultTypeOK
  <1>5. RemotePlace'
    BY MaxExecRetryAssumption
      DEF IInv, TypeOK, FlowTypeOK, At, OnTheFly, RemoteFns, RemotePlace,
          Waits, RemoteStates, RemoteLife, LocalLife
  <1>6. RemoteLife'
    BY DEF IInv, At, OnTheFly, RemoteFns, RemotePlace, RemoteLife,
           RemoteStates, Over, AbortLife, EndLife, LocalLife
  <1>7. AbortLife'
    BY DEF IInv, At, OnTheFly, RemoteFns, RemotePlace, RemoteLife,
           RemoteStates, Over, AbortLife, EndLife, LocalLife
  <1>8. EndLife'
    BY DEF IInv, EndLife
  <1>9. LocalLife'
    BY DEF IInv, At, OnTheFly, RemoteFns, RemotePlace, RemoteLife, EndLife,
           LocalLife, AbortLife, ShouldStopGoma
  <1>10. OutputLife'
    BY DEF IInv, OutputLife, NoSharedOutput
  <1> QED BY <1>1, <1>2, <1>3, <1>4, <1>5, <1>6, <1>7, <1>8, <1>9, <1>10
      DEF IInv, TypeOK

\* should_fallback_ may be set, and SetupFailed is next.
LEMMA FillCompilerInfoDone_Step == ASSUME IInv, FillCompilerInfoDone PROVE
    IInv'
  <1> USE DEF FillCompilerInfoDone
  <1>1. FlowTypeOK'
    BY StateSet DEF IInv, TypeOK, FlowTypeOK, Closures
  <1>2. FlagsTypeOK'
    BY DEF IInv, TypeOK, FlagsTypeOK
  <1>3. SubTypeOK'
    BY DEF IInv, TypeOK, SubTypeOK
  <1>4. ResultTypeOK'
    BY DEF IInv, TypeOK, ResultTypeOK
  <1>5. RemotePlace'
    BY MaxExecRetryAssumption
      DEF IInv, TypeOK, FlowTypeOK, At, OnTheFly, RemoteFns, RemotePlace,
          Waits, RemoteStates, RemoteLife, LocalLife
  <1>6. RemoteLife'
    BY DEF IInv, At, OnTheFly, RemoteFns, RemotePlace, RemoteLife,
           RemoteStates, Over, AbortLife, EndLife, LocalLife
  <1>7. AbortLife'
    BY DEF IInv, AbortLife
  <1>8. EndLife'
    BY DEF IInv, EndLife
  <1>9. LocalLife'
    BY DEF IInv, At, OnTheFly, RemoteFns, RemotePlace, RemoteLife, EndLife,
           LocalLife, AbortLife
  <1>10. OutputLife'
    BY DEF IInv, At, OnTheFly, RemoteFns, Waits, RemoteStates, Over,
           RemotePlace, RemoteLife, AbortLife, EndLife, LocalLife, OutputLife,
           NoSharedOutput
  <1> QED BY <1>1, <1>2, <1>3, <1>4, <1>5, <1>6, <1>7, <1>8, <1>9, <1>10
      DEF IInv, TypeOK

\* should_fallback_ is set only with SetupFailed next.
LEMMA RunIncludeProcessorDone_Step == ASSUME IInv, RunIncludeProcessorDone
    PROVE IInv'
  <1> USE DEF RunIncludeProcessorDone
  <1>1. FlowTypeOK'
    BY StateSet DEF IInv, TypeOK, FlowTypeOK, Closures
  <1>2. FlagsTypeOK'
    BY DEF IInv, TypeOK, FlagsTypeOK
  <1>3. SubTypeOK'
    BY DEF IInv, TypeOK, SubTypeOK
  <1>4. ResultTypeOK'
    BY DEF IInv, TypeOK, ResultTypeOK
  <1>5. RemotePlace'
    BY MaxExecRetryAssumption
      DEF IInv, TypeOK, FlowTypeOK, At, OnTheFly, RemoteFns, RemotePlace,
          Waits, RemoteStates, RemoteLife, LocalLife
  <1>6. RemoteLife'
    BY DEF IInv, RemoteLife, OnTheFly, RemoteFns
  <1>7. AbortLife'
    BY DEF IInv, AbortLife
  <1>8. EndLife'
    BY DEF IInv, EndLife
  <1>9. LocalLife'
    BY DEF IInv, LocalLife, OnTheFly, RemoteFns
  <1>10. OutputLife'
    BY DEF IInv, OutputLife, NoSharedOutput
  <1> QED BY <1>1, <1>2, <1>3, <1>4, <1>5, <1>6, <1>7, <1>8, <1>9, <1>10
      DEF IInv, TypeOK

\* The request is ready.
LEMMA SetupRequestDone_TRUE_Step == ASSUME IInv, SetupRequestDone(TRUE) PROVE
    IInv'
  <1> USE DEF SetupRequestDone, SetupSubProcess
  <1>1. FlowTypeOK'
    BY StateSet DEF IInv, TypeOK, FlowTypeOK, Closures
  <1>2. FlagsTypeOK'
    BY DEF IInv, TypeOK, FlagsTypeOK
  <1>3. SubTypeOK'
    BY DEF IInv, TypeOK, SubTypeOK
  <1>4. ResultTypeOK'
    BY DEF IInv, TypeOK, ResultTypeOK
  <1>5. RemotePlace'
    BY MaxExecRetryAssumption
      DEF IInv, TypeOK, FlowTypeOK, At, OnTheFly, RemoteFns, RemotePlace,
          Waits, RemoteStates, RemoteLife, LocalLife
  <1>6. RemoteLife'
    BY DEF IInv, At, OnTheFly, RemoteFns, RemotePlace, RemoteLife,
           RemoteStates, Over, AbortLife, EndLife, LocalLife
  <1>7. AbortLife'
    BY DEF IInv, AbortLife
  <1>8. EndLife'
    BY DEF IInv, EndLife
  <1>9. LocalLife'
    BY DEF IInv, LocalLife, OnTheFly, RemoteFns
  <1>10. OutputLife'
    BY DEF IInv, OnTheFly, RemoteFns, RemotePlace, RemoteLife, AbortLife,
           EndLife, LocalLife, OutputLife, NoSharedOutput
  <1> QED BY <1>1, <1>2, <1>3, <1>4, <1>5, <1>6, <1>7, <1>8, <1>9, <1>10
      DEF IInv, TypeOK

\* The request falls back (state_ is INIT again) or ends.
LEMMA SetupRequestDone_FALSE_Step == ASSUME IInv, SetupRequestDone(FALSE) PROVE
    IInv'
  <1> USE DEF SetupRequestDone, SetupSubProcess
  <1>1. FlowTypeOK'
    BY StateSet DEF IInv, TypeOK, FlowTypeOK, Closures
  <1>2. FlagsTypeOK'
    BY DEF IInv, TypeOK, FlagsTypeOK
  <1>3. SubTypeOK'
    BY DEF IInv, TypeOK, SubTypeOK
  <1>4. ResultTypeOK'
    BY DEF IInv, TypeOK, ResultTypeOK
  <1>5. RemotePlace'
    BY MaxExecRetryAssumption
      DEF IInv, TypeOK, FlowTypeOK, At, OnTheFly, RemoteFns, RemotePlace,
          Waits, RemoteStates, RemoteLife, LocalLife
  <1>6. RemoteLife'
    BY DEF IInv, At, OnTheFly, RemoteFns, RemotePlace, RemoteLife,
           RemoteStates, Over, AbortLife, EndLife, LocalLife
  <1>7. AbortLife'
    BY DEF IInv, AbortLife
  <1>8. EndLife'
    BY DEF IInv, OnTheFly, RemoteFns, RemotePlace, RemoteLife, AbortLife,
           EndLife, LocalLife, Over
  <1>9. LocalLife'
    BY DEF IInv, LocalLife, OnTheFly, RemoteFns
  <1>10. OutputLife'
    BY DEF IInv, OnTheFly, RemoteFns, RemotePlace, RemoteLife, AbortLife,
           EndLife, LocalLife, OutputLife, NoSharedOutput
  <1> QED BY <1>1, <1>2, <1>3, <1>4, <1>5, <1>6, <1>7, <1>8, <1>9, <1>10
      DEF IInv, TypeOK

\* A linker waits for its turn.
LEMMA TryProcessFileRequest_Step == ASSUME IInv, TryProcessFileRequest PROVE
    IInv'
  <1> USE DEF TryProcessFileRequest
  <1>1. FlowTypeOK'
    BY StateSet DEF IInv, TypeOK, FlowTypeOK, Closures
  <1>2. FlagsTypeOK'
    BY DEF IInv, TypeOK, FlagsTypeOK
  <1>3. SubTypeOK'
    BY DEF IInv, TypeOK, SubTypeOK
  <1>4. ResultTypeOK'
    BY DEF IInv, TypeOK, ResultTypeOK
  <1>5. RemotePlace'
    BY MaxExecRetryAssumption
      DEF IInv, TypeOK, FlowTypeOK, At, OnTheFly, RemoteFns, RemotePlace,
          Waits, RemoteStates, RemoteLife, LocalLife
  <1>6. RemoteLife'
    BY DEF IInv, At, OnTheFly, RemoteFns, RemotePlace, RemoteLife,
           RemoteStates, Over, AbortLife, EndLife, LocalLife
  <1>7. AbortLife'
    BY DEF IInv, AbortLife
  <1>8. EndLife'
    BY DEF IInv, EndLife
  <1>9. LocalLife'
    BY DEF IInv, At, OnTheFly, RemoteFns, RemotePlace, RemoteLife, EndLife,
           LocalLife, AbortLife
  <1>10. OutputLife'
    BY DEF IInv, At, OnTheFly, RemoteFns, Waits, RemoteStates, Over,
           RemotePlace, RemoteLife, AbortLife, EndLife, LocalLife, OutputLife,
           NoSharedOutput
  <1> QED BY <1>1, <1>2, <1>3, <1>4, <1>5, <1>6, <1>7, <1>8, <1>9, <1>10
      DEF IInv, TypeOK

\* FILE_REQ begins, unless the task ends or runs locally.
LEMMA ProcessFileRequest_Step == ASSUME IInv, ProcessFileRequest PROVE IInv'
  <1> USE DEF ProcessFileRequest, Stage
  <1>1. FlowTypeOK'
    BY StateSet DEF IInv, TypeOK, FlowTypeOK, Closures
  <1>2. FlagsTypeOK'
    BY DEF IInv, TypeOK, FlagsTypeOK
  <1>3. SubTypeOK'
    BY DEF IInv, TypeOK, SubTypeOK
  <1>4. ResultTypeOK'
    BY DEF IInv, TypeOK, ResultTypeOK
  <1>5. RemotePlace'
    BY MaxExecRetryAssumption
      DEF IInv, TypeOK, FlowTypeOK, At, OnTheFly, RemoteFns, RemotePlace,
          Waits, RemoteStates, RemoteLife, LocalLife
  <1>6. RemoteLife'
    BY DEF IInv, At, OnTheFly, RemoteFns, RemotePlace, RemoteLife,
           RemoteStates, Over, AbortLife, EndLife, LocalLife
  <1>7. AbortLife'
    BY DEF IInv, AbortLife
  <1>8. EndLife'
    BY DEF IInv, EndLife
  <1>9. LocalLife'
    BY DEF IInv, At, OnTheFly, RemoteFns, RemotePlace, RemoteLife, EndLife,
           LocalLife, AbortLife, ShouldStopGoma
  <1>10. OutputLife'
    BY DEF IInv, OnTheFly, RemoteFns, RemotePlace, RemoteLife, AbortLife,
           EndLife, LocalLife, OutputLife, NoSharedOutput
  <1> QED BY <1>1, <1>2, <1>3, <1>4, <1>5, <1>6, <1>7, <1>8, <1>9, <1>10
      DEF IInv, TypeOK

\* Retries are counted while the remote side is on its way.
LEMMA ProcessFileRequestDone_Step == ASSUME IInv, ProcessFileRequestDone PROVE
    IInv'
  <1> USE DEF ProcessFileRequestDone, RetryOrFinish
  <1>1. FlowTypeOK'
    BY MaxExecRetryAssumption, StateSet
      DEF IInv, TypeOK, FlowTypeOK, Closures, RemotePlace, At, OnTheFly,
          RemoteFns
  <1>2. FlagsTypeOK'
    BY DEF IInv, TypeOK, FlagsTypeOK
  <1>3. SubTypeOK'
    BY DEF IInv, TypeOK, SubTypeOK
  <1>4. ResultTypeOK'
    BY DEF IInv, TypeOK, ResultTypeOK
  <1>5. RemotePlace'
    BY MaxExecRetryAssumption
      DEF IInv, TypeOK, FlowTypeOK, At, OnTheFly, RemoteFns, RemotePlace,
          Waits, RemoteStates, RemoteLife, LocalLife
  <1>6. RemoteLife'
    BY DEF IInv, At, OnTheFly, RemoteFns, RemotePlace, RemoteLife,
           RemoteStates, Over, AbortLife, EndLife, LocalLife
  <1>7. AbortLife'
    BY DEF IInv, AbortLife
  <1>8. EndLife'
    BY DEF IInv, EndLife
  <1>9. LocalLife'
    BY DEF IInv, At, OnTheFly, RemoteFns, RemotePlace, RemoteLife, EndLife,
           LocalLife, AbortLife
  <1>10. OutputLife'
    BY DEF IInv, OnTheFly, RemoteFns, RemotePlace, RemoteLife, AbortLife,
           EndLife, LocalLife, OutputLife, NoSharedOutput
  <1> QED BY <1>1, <1>2, <1>3, <1>4, <1>5, <1>6, <1>7, <1>8, <1>9, <1>10
      DEF IInv, TypeOK

\* The heavy subprocess needs LocalConfigs: it is allowed here only
\* because a fallback is.
LEMMA ProcessCallExec_Step == ASSUME IInv, ProcessCallExec PROVE IInv'
  <1> USE DEF ProcessCallExec, Stage, SetupSubProcess
  <1>1. FlowTypeOK'
    BY StateSet DEF IInv, TypeOK, FlowTypeOK, Closures
  <1>2. FlagsTypeOK'
    BY DEF IInv, TypeOK, FlagsTypeOK
  <1>3. SubTypeOK'
    BY DEF IInv, TypeOK, SubTypeOK
  <1>4. ResultTypeOK'
    BY DEF IInv, TypeOK, ResultTypeOK
  <1>5. RemotePlace'
    BY MaxExecRetryAssumption
      DEF IInv, TypeOK, FlowTypeOK, At, OnTheFly, RemoteFns, RemotePlace,
          Waits, RemoteStates, RemoteLife, LocalLife
  <1>6. RemoteLife'
    BY DEF IInv, At, OnTheFly, RemoteFns, RemotePlace, RemoteLife,
           RemoteStates, Over, AbortLife, EndLife, LocalLife
  <1>7. AbortLife'
    BY DEF IInv, AbortLife
  <1>8. EndLife'
    BY DEF IInv, OnTheFly, RemoteFns, RemotePlace, RemoteLife, AbortLife,
           EndLife, LocalLife, Over
  <1>9. LocalLife'
    BY DEF IInv, At, OnTheFly, RemoteFns, RemotePlace, RemoteLife, EndLife,
           LocalLife, AbortLife, ShouldStopGoma
  <1>10. OutputLife'
    BY DEF IInv, OnTheFly, RemoteFns, RemotePlace, RemoteLife, AbortLife,
           EndLife, LocalLife, OutputLife, NoSharedOutput
  <1> QED BY <1>1, <1>2, <1>3, <1>4, <1>5, <1>6, <1>7, <1>8, <1>9, <1>10
      DEF IInv, TypeOK

\* One case for each outcome of the RPC.
LEMMA ProcessCallExecDone_Step == ASSUME IInv, ProcessCallExecDone PROVE IInv'
  <1> USE DEF ProcessCallExecDone, ExecFailedLocalRun, ExecFailed,
              ExecSucceeded, RetryOrFinish, CheckCommandSpec,
              CheckNoMatchingCommandSpec
  <1>1. FlowTypeOK'
    <2>1. CASE abort \/ canceled
      BY <2>1, MaxExecRetryAssumption, StateSet
        DEF IInv, TypeOK, FlowTypeOK, Closures, RemotePlace, At, OnTheFly,
            RemoteFns
    <2>2. CASE ExecFailedLocalRun
      BY <2>2, MaxExecRetryAssumption, StateSet
        DEF IInv, TypeOK, FlowTypeOK, Closures, RemotePlace, At, OnTheFly,
            RemoteFns
    <2>3. CASE ExecFailed /\ ~abort /\ ~canceled
      BY <2>3, MaxExecRetryAssumption, StateSet
        DEF IInv, TypeOK, FlowTypeOK, Closures, RemotePlace, At, OnTheFly,
            RemoteFns
    <2>4. CASE ExecSucceeded
      BY <2>4, MaxExecRetryAssumption, StateSet
        DEF IInv, TypeOK, FlowTypeOK, Closures, RemotePlace, At, OnTheFly,
            RemoteFns
    <2> QED BY <2>1, <2>2, <2>3, <2>4
  <1>2. FlagsTypeOK'
    BY DEF IInv, TypeOK, FlagsTypeOK
  <1>3. SubTypeOK'
    BY DEF IInv, TypeOK, SubTypeOK
  <1>4. ResultTypeOK'
    BY DEF IInv, TypeOK, ResultTypeOK
  <1>5. RemotePlace'
    <2>1. CASE abort \/ canceled
      BY <2>1, MaxExecRetryAssumption
        DEF IInv, TypeOK, FlowTypeOK, At, OnTheFly, RemoteFns, RemotePlace,
            Waits, RemoteStates, RemoteLife, LocalLife
    <2>2. CASE ExecFailedLocalRun
      BY <2>2, MaxExecRetryAssumption
        DEF IInv, TypeOK, FlowTypeOK, At, OnTheFly, RemoteFns, RemotePlace,
            Waits, RemoteStates, RemoteLife, LocalLife
    <2>3. CASE ExecFailed /\ ~abort /\ ~canceled
      BY <2>3, MaxExecRetryAssumption
        DEF IInv, TypeOK, FlowTypeOK, At, OnTheFly, RemoteFns, RemotePlace,
            Waits, RemoteStates, RemoteLife, LocalLife
    <2>4. CASE ExecSucceeded
      BY <2>4, MaxExecRetryAssumption
        DEF IInv, TypeOK, FlowTypeOK, At, OnTheFly, RemoteFns, RemotePlace,
            Waits, RemoteStates, RemoteLife, LocalLife
    <2> QED BY <2>1, <2>2, <2>3, <2>4
  <1>6. RemoteLife'
    BY DEF IInv, At, OnTheFly, RemoteFns, RemotePlace, RemoteLife,
           RemoteStates, Over, AbortLife, EndLife, LocalLife
  <1>7. AbortLife'
    BY DEF IInv, AbortLife
  <1>8. EndLife'
    BY DEF IInv, EndLife
  <1>9. LocalLife'
    BY DEF IInv, At, OnTheFly, RemoteFns, RemotePlace, RemoteLife, EndLife,
           LocalLife, AbortLife
  <1>10. OutputLife'
    BY DEF IInv, OnTheFly, RemoteFns, RemotePlace, RemoteLife, AbortLife,
           EndLife, LocalLife, OutputLife, NoSharedOutput
  <1> QED BY <1>1, <1>2, <1>3, <1>4, <1>5, <1>6, <1>7, <1>8, <1>9, <1>10
      DEF IInv, TypeOK

\* The download goes to the output file only without a subprocess
\* and with the delayed setup dropped.
LEMMA ProcessFileResponse_Step == ASSUME IInv, ProcessFileResponse PROVE IInv'
  <1> USE DEF ProcessFileResponse, Stage, StartDownload, Destination
  <1>1. FlowTypeOK'
    BY StateSet DEF IInv, TypeOK, FlowTypeOK, Closures
  <1>2. FlagsTypeOK'
    BY DEF IInv, TypeOK, FlagsTypeOK
  <1>3. SubTypeOK'
    BY DEF IInv, TypeOK, SubTypeOK
  <1>4. ResultTypeOK'
    BY DEF IInv, TypeOK, ResultTypeOK
  <1>5. RemotePlace'
    BY MaxExecRetryAssumption
      DEF IInv, TypeOK, FlowTypeOK, At, OnTheFly, RemoteFns, RemotePlace,
          Waits, RemoteStates, RemoteLife, LocalLife
  <1>6. RemoteLife'
    BY DEF IInv, At, OnTheFly, RemoteFns, RemotePlace, RemoteLife,
           RemoteStates, Over, AbortLife, EndLife, LocalLife
  <1>7. AbortLife'
    BY DEF IInv, AbortLife
  <1>8. EndLife'
    BY DEF IInv, EndLife
  <1>9. LocalLife'
    BY DEF IInv, At, OnTheFly, RemoteFns, RemotePlace, RemoteLife, EndLife,
           LocalLife, AbortLife, ShouldStopGoma
  <1>10. OutputLife'
    BY DEF IInv, OnTheFly, RemoteFns, RemotePlace, RemoteLife, AbortLife,
           EndLife, LocalLife, OutputLife, NoSharedOutput
  <1> QED BY <1>1, <1>2, <1>3, <1>4, <1>5, <1>6, <1>7, <1>8, <1>9, <1>10
      DEF IInv, TypeOK

\* A complete download is what ProcessFinished will find.
LEMMA ProcessFileResponseDone_Step == ASSUME IInv, ProcessFileResponseDone
    PROVE IInv'
  <1> USE DEF ProcessFileResponseDone, Downloaded, VerifyOutput, RetryOrFinish
  <1>1. FlowTypeOK'
    BY MaxExecRetryAssumption, StateSet
      DEF IInv, TypeOK, FlowTypeOK, Closures, RemotePlace, At, OnTheFly,
          RemoteFns
  <1>2. FlagsTypeOK'
    BY DEF IInv, TypeOK, FlagsTypeOK
  <1>3. SubTypeOK'
    BY DEF IInv, TypeOK, SubTypeOK
  <1>4. ResultTypeOK'
    BY DEF IInv, TypeOK, ResultTypeOK
  <1>5. RemotePlace'
    BY MaxExecRetryAssumption
      DEF IInv, TypeOK, FlowTypeOK, At, OnTheFly, RemoteFns, RemotePlace,
          Waits, RemoteStates, RemoteLife, LocalLife
  <1>6. RemoteLife'
    BY DEF IInv, At, OnTheFly, RemoteFns, RemotePlace, RemoteLife,
           RemoteStates, Over, AbortLife, EndLife, LocalLife
  <1>7. AbortLife'
    BY DEF IInv, AbortLife
  <1>8. EndLife'
    BY DEF IInv, EndLife
  <1>9. LocalLife'
    BY DEF IInv, At, OnTheFly, RemoteFns, RemotePlace, RemoteLife, EndLife,
           LocalLife, AbortLife
  <1>10. OutputLife'
    BY DEF IInv, OnTheFly, RemoteFns, RemotePlace, RemoteLife, AbortLife,
           EndLife, LocalLife, OutputLife, NoSharedOutput
  <1> QED BY <1>1, <1>2, <1>3, <1>4, <1>5, <1>6, <1>7, <1>8, <1>9, <1>10
      DEF IInv, TypeOK

\* The end of the remote side, in all its variants.
LEMMA ProcessFinished_Step == ASSUME IInv, ProcessFinished PROVE IInv'
  <1> USE DEF ProcessFinished, KillOrReply, FailFallback, KillSubProcess,
              SetupSubProcess
  <1>1. FlowTypeOK'
    BY StateSet DEF IInv, TypeOK, FlowTypeOK, Closures
  <1>2. FlagsTypeOK'
    BY DEF IInv, TypeOK, FlagsTypeOK
  <1>3. SubTypeOK'
    BY DEF IInv, TypeOK, SubTypeOK
  <1>4. ResultTypeOK'
    BY DEF IInv, TypeOK, ResultTypeOK
  <1>5. RemotePlace'
    BY MaxExecRetryAssumption
      DEF IInv, TypeOK, FlowTypeOK, At, OnTheFly, RemoteFns, RemotePlace,
          Waits, RemoteStates, RemoteLife, LocalLife
  <1>6. RemoteLife'
    BY DEF IInv, At, OnTheFly, RemoteFns, RemotePlace, RemoteLife,
           RemoteStates, Over, AbortLife, EndLife, LocalLife
  <1>7. AbortLife'
    BY DEF IInv, At, OnTheFly, RemoteFns, RemotePlace, RemoteLife,
           RemoteStates, Over, AbortLife, EndLife, LocalLife
  <1>8. EndLife'
    BY DEF IInv, At, OnTheFly, RemoteFns, Waits, RemoteStates, Over,
           RemotePlace, RemoteLife, AbortLife, EndLife, LocalLife
  <1>9. LocalLife'
    BY DEF IInv, At, OnTheFly, RemoteFns, RemotePlace, RemoteLife, EndLife,
           LocalLife, AbortLife
  <1>10. OutputLife'
    BY DEF IInv, At, OnTheFly, RemoteFns, Waits, RemoteStates, Over,
           RemotePlace, RemoteLife, AbortLife, EndLife, LocalLife, OutputLife,
           NoSharedOutput
  <1> QED BY <1>1, <1>2, <1>3, <1>4, <1>5, <1>6, <1>7, <1>8, <1>9, <1>10
      DEF IInv, TypeOK

\* The output is committed before the answer.
LEMMA ProcessReply_Step == ASSUME IInv, ProcessReply PROVE IInv'
  <1> USE DEF ProcessReply, CommitRemoteOutput
  <1>1. FlowTypeOK'
    BY StateSet DEF IInv, TypeOK, FlowTypeOK, Closures
  <1>2. FlagsTypeOK'
    BY DEF IInv, TypeOK, FlagsTypeOK
  <1>3. SubTypeOK'
    BY DEF IInv, TypeOK, SubTypeOK
  <1>4. ResultTypeOK'
    BY DEF IInv, TypeOK, ResultTypeOK
  <1>5. RemotePlace'
    BY DEF IInv, RemotePlace, At, OnTheFly, RemoteFns
  <1>6. RemoteLife'
    BY DEF IInv, At, OnTheFly, RemoteFns, Waits, RemoteStates, Over,
           RemotePlace, RemoteLife, AbortLife, EndLife, LocalLife
  <1>7. AbortLife'
    BY DEF IInv, At, OnTheFly, RemoteFns, RemotePlace, RemoteLife,
           RemoteStates, Over, AbortLife, EndLife, LocalLife
  <1>8. EndLife'
    BY DEF IInv, At, OnTheFly, RemoteFns, Waits, RemoteStates, Over,
           RemotePlace, RemoteLife, AbortLife, EndLife, LocalLife
  <1>9. LocalLife'
    BY DEF IInv, LocalLife, OnTheFly, RemoteFns
  <1>10. OutputLife'
    BY DEF IInv, At, OnTheFly, RemoteFns, Waits, RemoteStates, Over,
           RemotePlace, RemoteLife, AbortLife, EndLife, LocalLife, OutputLife,
           NoSharedOutput
  <1> QED BY <1>1, <1>2, <1>3, <1>4, <1>5, <1>6, <1>7, <1>8, <1>9, <1>10
      DEF IInv, TypeOK

\* The answer.
LEMMA ReplyResponse_Step == ASSUME IInv, ReplyResponse PROVE IInv'
  <1> USE DEF ReplyResponse
  <1>1. FlowTypeOK'
    BY StateSet DEF IInv, TypeOK, FlowTypeOK, Closures
  <1>2. FlagsTypeOK'
    BY DEF IInv, TypeOK, FlagsTypeOK
  <1>3. SubTypeOK'
    BY DEF IInv, TypeOK, SubTypeOK
  <1>4. ResultTypeOK'
    BY DEF IInv, TypeOK, ResultTypeOK
  <1>5. RemotePlace'
    BY DEF IInv, RemotePlace, At, OnTheFly, RemoteFns
  <1>6. RemoteLife'
    BY DEF IInv, At, OnTheFly, RemoteFns, Waits, RemoteStates, Over,
           RemotePlace, RemoteLife, AbortLife, EndLife, LocalLife
  <1>7. AbortLife'
    BY DEF IInv, AbortLife
  <1>8. EndLife'
    BY DEF IInv, At, OnTheFly, RemoteFns, Waits, RemoteStates, Over,
           RemotePlace, RemoteLife, AbortLife, EndLife, LocalLife
  <1>9. LocalLife'
    BY DEF IInv, At, OnTheFly, RemoteFns, RemotePlace, RemoteLife, EndLife,
           LocalLife, AbortLife
  <1>10. OutputLife'
    BY DEF IInv, OutputLife, NoSharedOutput
  <1> QED BY <1>1, <1>2, <1>3, <1>4, <1>5, <1>6, <1>7, <1>8, <1>9, <1>10
      DEF IInv, TypeOK

\* Nothing but the end remains.
LEMMA Done_Step == ASSUME IInv, Done PROVE IInv'
  <1> USE DEF Done
  <1>1. FlowTypeOK'
    BY StateSet DEF IInv, TypeOK, FlowTypeOK, Closures
  <1>2. FlagsTypeOK'
    BY DEF IInv, TypeOK, FlagsTypeOK
  <1>3. SubTypeOK'
    BY DEF IInv, TypeOK, SubTypeOK
  <1>4. ResultTypeOK'
    BY DEF IInv, TypeOK, ResultTypeOK
  <1>5. RemotePlace'
    BY DEF IInv, RemotePlace, At, OnTheFly, RemoteFns
  <1>6. RemoteLife'
    BY DEF IInv, At, OnTheFly, RemoteFns, Waits, RemoteStates, Over,
           RemotePlace, RemoteLife, AbortLife, EndLife, LocalLife
  <1>7. AbortLife'
    BY DEF IInv, AbortLife
  <1>8. EndLife'
    BY DEF IInv, At, OnTheFly, RemoteFns, Waits, RemoteStates, Over,
           RemotePlace, RemoteLife, AbortLife, EndLife, LocalLife
  <1>9. LocalLife'
    BY DEF IInv, At, OnTheFly, RemoteFns, RemotePlace, RemoteLife, EndLife,
           LocalLife, AbortLife
  <1>10. OutputLife'
    BY DEF IInv, At, OnTheFly, RemoteFns, Waits, RemoteStates, Over,
           RemotePlace, RemoteLife, AbortLife, EndLife, LocalLife, OutputLife,
           NoSharedOutput
  <1> QED BY <1>1, <1>2, <1>3, <1>4, <1>5, <1>6, <1>7, <1>8, <1>9, <1>10
      DEF IInv, TypeOK

\* The upload was the last or the remote side still is on its way.
LEMMA ProcessLocalFileOutputDone_Step == ASSUME IInv,
    ProcessLocalFileOutputDone PROVE IInv'
  <1> USE DEF ProcessLocalFileOutputDone
  <1>1. FlowTypeOK'
    BY StateSet DEF IInv, TypeOK, FlowTypeOK, Closures
  <1>2. FlagsTypeOK'
    BY DEF IInv, TypeOK, FlagsTypeOK
  <1>3. SubTypeOK'
    BY DEF IInv, TypeOK, SubTypeOK
  <1>4. ResultTypeOK'
    BY DEF IInv, TypeOK, ResultTypeOK
  <1>5. RemotePlace'
    BY DEF IInv, RemotePlace, At, OnTheFly, RemoteFns
  <1>6. RemoteLife'
    BY DEF IInv, RemoteLife, OnTheFly, RemoteFns
  <1>7. AbortLife'
    BY DEF IInv, AbortLife
  <1>8. EndLife'
    BY DEF IInv, EndLife
  <1>9. LocalLife'
    BY DEF IInv, LocalLife, OnTheFly, RemoteFns
  <1>10. OutputLife'
    BY DEF IInv, OutputLife, NoSharedOutput
  <1> QED BY <1>1, <1>2, <1>3, <1>4, <1>5, <1>6, <1>7, <1>8, <1>9, <1>10
      DEF IInv, TypeOK

\* The remote side is still on its way, so the subprocess has its rival.
LEMMA DelayedSetup_Step == ASSUME IInv, DelayedSetup PROVE IInv'
  <1> USE DEF DelayedSetup, SetupSubProcess
  <1>1. FlowTypeOK'
    BY StateSet DEF IInv, TypeOK, FlowTypeOK, Closures
  <1>2. FlagsTypeOK'
    BY DEF IInv, TypeOK, FlagsTypeOK
  <1>3. SubTypeOK'
    BY DEF IInv, TypeOK, SubTypeOK
  <1>4. ResultTypeOK'
    BY DEF IInv, TypeOK, ResultTypeOK
  <1>5. RemotePlace'
    BY DEF IInv, RemotePlace, At, OnTheFly, RemoteFns
  <1>6. RemoteLife'
    BY DEF IInv, RemoteLife, OnTheFly, RemoteFns
  <1>7. AbortLife'
    BY DEF IInv, AbortLife
  <1>8. EndLife'
    BY DEF IInv, EndLife
  <1>9. LocalLife'
    BY DEF IInv, At, OnTheFly, RemoteFns, Waits, RemoteStates, Over,
           RemotePlace, RemoteLife, AbortLife, EndLife, LocalLife
  <1>10. OutputLife'
    BY DEF IInv, OutputLife, NoSharedOutput
  <1> QED BY <1>1, <1>2, <1>3, <1>4, <1>5, <1>6, <1>7, <1>8, <1>9, <1>10
      DEF IInv, TypeOK

\* canceled_ is set when gomacc is gone.
LEMMA GomaccClosed_Step == ASSUME IInv, GomaccClosed PROVE IInv'
  <1> USE DEF GomaccClosed, KillSubProcess
  <1>1. FlowTypeOK'
    BY StateSet DEF IInv, TypeOK, FlowTypeOK, Closures
  <1>2. FlagsTypeOK'
    BY DEF IInv, TypeOK, FlagsTypeOK
  <1>3. SubTypeOK'
    BY DEF IInv, TypeOK, SubTypeOK
  <1>4. ResultTypeOK'
    BY DEF IInv, TypeOK, ResultTypeOK
  <1>5. RemotePlace'
    BY MaxExecRetryAssumption
      DEF IInv, TypeOK, FlowTypeOK, At, OnTheFly, RemoteFns, RemotePlace,
          Waits, RemoteStates, RemoteLife, LocalLife
  <1>6. RemoteLife'
    BY DEF IInv, RemoteLife, OnTheFly, RemoteFns
  <1>7. AbortLife'
    BY DEF IInv, AbortLife
  <1>8. EndLife'
    BY DEF IInv, EndLife
  <1>9. LocalLife'
    BY DEF IInv, LocalLife, OnTheFly, RemoteFns
  <1>10. OutputLife'
    BY DEF IInv, OutputLife, NoSharedOutput
  <1> QED BY <1>1, <1>2, <1>3, <1>4, <1>5, <1>6, <1>7, <1>8, <1>9, <1>10
      DEF IInv, TypeOK

\* The local side ends: it is killed, is the answer, or wins (abort_).
LEMMA FinishSubProcess_Step == ASSUME IInv, FinishSubProcess PROVE IInv'
  <1> USE DEF FinishSubProcess, Terminations, FinishKilled, FinishLocal,
              GomaFailure, RunFailed
  <1>1. FlowTypeOK'
    BY StateSet DEF IInv, TypeOK, FlowTypeOK, Closures
  <1>2. FlagsTypeOK'
    BY DEF IInv, TypeOK, FlagsTypeOK
  <1>3. SubTypeOK'
    BY DEF IInv, TypeOK, SubTypeOK
  <1>4. ResultTypeOK'
    BY DEF IInv, TypeOK, ResultTypeOK
  <1>5. RemotePlace'
    BY MaxExecRetryAssumption
      DEF IInv, TypeOK, FlowTypeOK, At, OnTheFly, RemoteFns, RemotePlace,
          Waits, RemoteStates, RemoteLife, LocalLife
  <1>6. RemoteLife'
    <2>1. PICK how \in Terminations : FinishKilled(how) \/ FinishLocal(how)
      OBVIOUS
    <2>2. CASE FinishKilled(how)
      BY <2>2
        DEF IInv, At, OnTheFly, RemoteFns, Waits, RemoteStates, Over,
            RemotePlace, RemoteLife, AbortLife, EndLife, LocalLife
    <2>3. CASE FinishLocal(how)
      BY <2>3
        DEF IInv, At, OnTheFly, RemoteFns, Waits, RemoteStates, Over,
            RemotePlace, RemoteLife, AbortLife, EndLife, LocalLife
    <2> QED BY <2>1, <2>2, <2>3
  <1>7. AbortLife'
    BY StateSet
      DEF IInv, TypeOK, FlowTypeOK, At, OnTheFly, RemoteFns, RemotePlace,
          RemoteLife, RemoteStates, Over, AbortLife, EndLife, LocalLife
  <1>8. EndLife'
    BY DEF IInv, OnTheFly, RemoteFns, RemotePlace, RemoteLife, AbortLife,
           EndLife, LocalLife, Over
  <1>9. LocalLife'
    BY DEF IInv, LocalLife, OnTheFly, RemoteFns
  <1>10. OutputLife'
    BY DEF IInv, OutputLife, NoSharedOutput
  <1> QED BY <1>1, <1>2, <1>3, <1>4, <1>5, <1>6, <1>7, <1>8, <1>9, <1>10
      DEF IInv, TypeOK
-----------------------------------------------------------------------------
\* Rank numbers the states as the enum does.
LEMMA Ranks ==
  \A n \in 1..9 : Rank(States[n]) = n
  <1>1. Len(States) = 9
    BY DEF States
  <1>2. 1..9 = {1, 2, 3, 4, 5, 6, 7, 8, 9}
    OBVIOUS
  <1>3. \A m, n \in 1..9 : States[m] = States[n] => m = n
    BY <1>2 DEF States
  <1>4. ASSUME NEW n \in 1..9 PROVE Rank(States[n]) = n
    <2>1. Rank(States[n]) \in 1..9 /\ States[Rank(States[n])] = States[n]
      BY <1>1 DEF Rank
    <2> QED BY <2>1, <1>3
  <1> QED BY <1>4

\* The states the enum has before FINISHED.
LEMMA BeforeFinished ==
  /\ \A s \in RemoteStates \cup {"INIT"} : Before(s, "FINISHED")
  /\ \A s \in Over : ~Before(s, "FINISHED")
  <1>1. /\ States[1] = "INIT" /\ States[2] = "SETUP" /\ States[3] = "FILE_REQ"
        /\ States[4] = "CALL_EXEC" /\ States[5] = "LOCAL_OUTPUT"
        /\ States[6] = "FILE_RESP" /\ States[7] = "FINISHED"
        /\ States[9] = "LOCAL_FINISHED"
    BY DEF States
  <1>2. /\ Rank("INIT") = 1 /\ Rank("SETUP") = 2 /\ Rank("FILE_REQ") = 3
        /\ Rank("CALL_EXEC") = 4 /\ Rank("LOCAL_OUTPUT") = 5
        /\ Rank("FILE_RESP") = 6 /\ Rank("FINISHED") = 7
        /\ Rank("LOCAL_FINISHED") = 9
    BY <1>1, Ranks
  <1> QED BY <1>2 DEF Before, RemoteStates, Over

\* A task begins with the invariant, if LocalConfigs covers its settings.
LEMMA InitLife == ASSUME LocalConfigs, Init PROVE IInv
  <1> USE DEF Init
  <1>1. TypeOK
    <2>1. FlowTypeOK
      BY ConfigsAssumption, MaxExecRetryAssumption, StateSet
      DEF FlowTypeOK, Closures
    <2>2. want_fallback \in BOOLEAN
      OBVIOUS
    <2>3. FlagsTypeOK
      BY <2>2 DEF FlagsTypeOK
    <2>4. SubTypeOK /\ ResultTypeOK
      BY DEF SubTypeOK, ResultTypeOK
    <2> QED BY <2>1, <2>3, <2>4 DEF TypeOK
  <1>2. RemotePlace /\ RemoteLife
    BY MaxExecRetryAssumption
    DEF RemotePlace, RemoteLife, At, OnTheFly, RemoteFns, Waits, RemoteStates,
        Over
  <1>3. AbortLife /\ EndLife
    BY DEF AbortLife, EndLife
  <1>4. LocalLife
    BY DEF LocalLife, LocalConfigs, OnTheFly, RemoteFns
  <1>5. OutputLife
    BY DEF OutputLife, NoSharedOutput
  <1> QED BY <1>1, <1>2, <1>3, <1>4, <1>5 DEF IInv

\* Every step keeps it.
LEMMA NextLife == ASSUME IInv, [Next]_vars PROVE IInv'
  <1>1. CASE RemoteSide
    BY <1>1, StartInvalid_Step, StartLocal_Step, StartRemote_Step,
        ProcessSetup_Step,
       FillCompilerInfoDone_Step, RunIncludeProcessorDone_Step,
       SetupRequestDone_TRUE_Step, SetupRequestDone_FALSE_Step,
       TryProcessFileRequest_Step, ProcessFileRequest_Step,
       ProcessFileRequestDone_Step, ProcessCallExec_Step,
       ProcessCallExecDone_Step, ProcessFileResponse_Step,
       ProcessFileResponseDone_Step, ProcessFinished_Step, ProcessReply_Step,
       ReplyResponse_Step, Done_Step
    DEF RemoteSide
  <1>2. CASE UNCHANGED vars
    BY <1>2
    DEF vars, IInv, TypeOK, FlowTypeOK, FlagsTypeOK, SubTypeOK, ResultTypeOK,
        RemotePlace, RemoteLife, AbortLife, EndLife, LocalLife, OutputLife, At,
        OnTheFly, NoSharedOutput
  <1> QED
    BY <1>1, <1>2, ProcessLocalFileOutputDone_Step, DelayedSetup_Step,
       GomaccClosed_Step, FinishSubProcess_Step, Spawn_Step, Started_Step,
       Exit_Step, GomaccDies_Step
    DEF Next

\* The inductive invariant holds in every state of a task (CompileTask::Start
\* to CompileTask::Done).
THEOREM TaskInvariant == LocalConfigs /\ Spec => []IInv
  <1>1. LocalConfigs /\ Init => IInv
    BY InitLife
  <1>2. IInv /\ [Next]_vars => IInv'
    BY NextLife
  <1> QED BY <1>1, <1>2, PTL DEF Spec

\* The CHECKs follow from where the remote side and the subprocess are.
LEMMA ChecksFollow == ASSUME IInv PROVE ChecksHold
  <1>1. StageChecks
    BY BeforeFinished
    DEF IInv, StageChecks, RemotePlace, RemoteLife, AbortLife, At, OnTheFly,
        RemoteFns, Waits,
        RemoteStates, Over
  <1>2. SubprocChecks
    <2>1. /\ \A s \in RemoteStates \cup {"INIT"} : Before(s, "FINISHED")
          /\ state \in RemoteStates \cup {"INIT", "FINISHED", "LOCAL_RUN", "LOCAL_FINISHED"}
      BY BeforeFinished DEF IInv, TypeOK, FlowTypeOK, StateNames, States, RemoteStates
    <2> QED BY <2>1 DEF IInv, SubprocChecks, LocalLife, AbortLife, RemoteLife
  <1>3. ReplyChecks
    BY BeforeFinished
    DEF IInv, ReplyChecks, RemotePlace, RemoteLife, AbortLife, EndLife,
        LocalLife, OnTheFly,
        RemoteFns, Waits, Over
  <1> QED BY <1>1, <1>2, <1>3 DEF ChecksHold

\* Every variable of a task keeps its type; the retries stay within
\* kMaxExecRetry + 1.
THEOREM TaskTypeCorrect == LocalConfigs /\ Spec => []TypeOK
  <1>1. IInv => TypeOK
    BY DEF IInv
  <1> QED BY <1>1, TaskInvariant, PTL

\* No CHECK on state_, abort_, finished_, subproc_ and delayed_setup_subproc_
\* fails, whatever the remote side, the subprocess, the delayed setup and
\* gomacc do in between, with two exceptions: the one after a heavy task without
\* fallback, which LocalConfigs leaves out, and the CHECK_LT of FinishSubProcess
\* for the gch hack, which fails in LOCAL_RUN and, by this, in no other state.
THEOREM AllChecksHold == LocalConfigs /\ Spec => []ChecksHold
  <1>1. IInv => ChecksHold
    BY ChecksFollow
  <1> QED BY <1>1, TaskInvariant, PTL

\* After Done() no closure, subprocess, delayed setup or upload is outstanding.
THEOREM DoneLeavesNothing == LocalConfigs /\ Spec => []NothingOutstanding
  <1>1. IInv => NothingOutstanding
    BY DEF IInv, NothingOutstanding, EndLife
  <1> QED BY <1>1, TaskInvariant, PTL

\* While OutputFileTask writes the output file itself there is no subprocess
\* that could write it, nor will there be one.
THEOREM OneWriter == LocalConfigs /\ Spec => []NoSharedOutput
  <1>1. IInv => NoSharedOutput
    BY DEF IInv, OutputLife
  <1> QED BY <1>1, TaskInvariant, PTL

-----------------------------------------------------------------------------
\* The steps of the abstract request.
RequestNext ==
  Request!Compile \/ Request!Answer \/ Request!Release \/ Request!Leave

\* What the abstract request shows of a task.
Shown == <<reply, outfile, gomacc, done>>

\* Whatever changes the output file comes before the answer.
LEMMA CompileSteps ==
  ASSUME IInv, IInv',
         Spawn \/ Exit \/ ProcessFileResponse \/ ProcessFileResponseDone
           \/ ProcessReply
  PROVE  Request!Compile \/ UNCHANGED Shown
  <1>1. outfile' \in {"none", "partial", "local", "remote"}
    BY DEF IInv, TypeOK, ResultTypeOK
  <1>2. UNCHANGED <<reply, gomacc, done>>
    BY DEF Spawn, Exit, ProcessFileResponse, ProcessFileResponseDone,
           ProcessReply
  <1>3. CASE Spawn \/ Exit
    <2>1. reply = "none"
      BY <1>3 DEF IInv, Spawn, Exit, LocalLife, EndLife
    <2> QED BY <1>1, <1>2, <2>1 DEF Request!Compile
  <1>4. CASE ProcessFileResponse
    <2>1. CASE abort \/ canceled
      BY <1>2, <1>4, <2>1 DEF ProcessFileResponse, Shown
    <2>2. CASE ~abort /\ ~canceled
      <3>1. reply = "none"
        BY <1>4, <2>2
          DEF IInv, ProcessFileResponse, RemoteLife, OnTheFly, RemoteFns
      <3> QED BY <1>1, <1>2, <3>1 DEF Request!Compile
    <2> QED BY <2>1, <2>2
  <1>5. CASE ProcessFileResponseDone
    <2>1. CASE abort
      BY <1>2, <1>5, <2>1 DEF ProcessFileResponseDone, Downloaded, Shown
    <2>2. CASE ~abort
      <3>1. reply = "none"
        BY <1>5, <2>2
          DEF IInv, ProcessFileResponseDone, RemoteLife, OnTheFly, RemoteFns
      <3> QED BY <1>1, <1>2, <3>1 DEF Request!Compile
    <2> QED BY <2>1, <2>2
  <1>6. CASE ProcessReply
    <2>1. reply = "none"
      BY <1>6 DEF IInv, ProcessReply, EndLife, RemotePlace, Waits
    <2> QED BY <1>1, <1>2, <2>1 DEF Request!Compile
  <1> QED BY <1>3, <1>4, <1>5, <1>6

\* ReplyResponse() is the only answer, and tells success only with a complete
\* output in place.
LEMMA AnswerStep ==
  ASSUME IInv, ReplyResponse
  PROVE  Request!Answer
  <1>1. call = "ReplyResponse"
    BY DEF IInv, ReplyResponse, RemotePlace, Waits
  <1>2. reply = "none"
    BY <1>1 DEF IInv, EndLife
  <1>3. resp = "ok" /\ gomacc /\ "dont_kill" \notin env
          => outfile \in {"local", "remote"}
    BY <1>1 DEF IInv, OutputLife
  <1> QED BY <1>2, <1>3 DEF ReplyResponse, Request!Answer

\* Done() comes once, after the answer.
LEMMA ReleaseStep ==
  ASSUME IInv, Done
  PROVE  Request!Release
  <1>1. call = "Done"
    BY DEF IInv, Done, RemotePlace, Waits
  <1> QED BY <1>1 DEF IInv, EndLife, Done, Request!Release

\* The rest of a task cannot be seen by gomacc.
LEMMA HiddenSteps ==
  ASSUME \/ StartInvalid \/ StartLocal \/ StartRemote \/ ProcessSetup
         \/ FillCompilerInfoDone \/ RunIncludeProcessorDone
         \/ SetupRequestDone(TRUE) \/ SetupRequestDone(FALSE)
         \/ TryProcessFileRequest \/ ProcessFileRequest
         \/ ProcessFileRequestDone \/ ProcessCallExec \/ ProcessCallExecDone
         \/ ProcessFinished \/ ProcessLocalFileOutputDone \/ DelayedSetup
         \/ GomaccClosed \/ FinishSubProcess \/ Started \/ UNCHANGED vars
  PROVE  UNCHANGED Shown
  BY DEF Shown, vars, StartInvalid, StartLocal, StartRemote, ProcessSetup,
         FillCompilerInfoDone, RunIncludeProcessorDone, SetupRequestDone,
         TryProcessFileRequest, ProcessFileRequest, ProcessFileRequestDone,
         ProcessCallExec, ProcessCallExecDone, ProcessFinished,
         ProcessLocalFileOutputDone, DelayedSetup, GomaccClosed,
         FinishSubProcess, Started, Stage

\* Each step of the task is a step of the request, or none.
LEMMA RequestStep ==
  ASSUME IInv, IInv', [Next]_vars PROVE [RequestNext]_(Request!request)
  <1>1. UNCHANGED Shown => UNCHANGED Request!request
    BY DEF Shown, Request!request
  <1>2. CASE GomaccDies
    BY <1>2 DEF GomaccDies, RequestNext, Request!Leave
  <1> QED
    BY <1>1, <1>2, CompileSteps, AnswerStep, ReleaseStep, HiddenSteps
    DEF Next, RemoteSide, RequestNext

\* A compile task implements CompileRequest: one answer, success only with the
\* complete output of one side in place, no change of the output file after it,
\* and release only when answered (ReplyResponse, CommitOutput, Done).
THEOREM ImplementsCompileRequest == LocalConfigs /\ Spec => ImplementsRequest
  <1>1. Init => Request!RequestInit
    BY DEF Init, Request!RequestInit
  <1>2. IInv /\ IInv' /\ [Next]_vars => [RequestNext]_(Request!request)
    BY RequestStep
  <1> QED
    BY <1>1, <1>2, TaskInvariant, PTL
    DEF Spec, ImplementsRequest, Request!RequestSpec, RequestNext
===============================================================================

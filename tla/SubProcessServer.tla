--------------------------- MODULE SubProcessServer ---------------------------
(***************************************************************************)
(* SubProcessControllerServer (client/subprocess_controller_server.cc): a  *)
(* single-threaded select loop, in a process of its own, that queues the   *)
(* subprocess requests of compiler_proxy, spawns them under the limits of  *)
(* SubProcessController::Options and reports STARTED and TERMINATED.  Its  *)
(* SubProcessImpl objects and the processes they own are modelled here     *)
(* too.  A module that extends this one supplies the peer: it decides      *)
(* which request the loop reads next and consumes s2c.                     *)
(*                                                                         *)
(* An id is the number the client gave the request: subprocs_ is a map     *)
(* ordered by id, which is the order TrySpawnSubProcess scans it in.       *)
(***************************************************************************)
EXTENDS Integers, FiniteSets, Sequences

CONSTANTS
  Ids,         \* ids a client may hand out, positive numbers
  Normal,      \* SubProcessController::Options the server is started with
  Burst,       \* the options of SubProcessOptionSetter's burst mode
  Failing,     \* ids whose Spawn may fail
  DontKill     \* options_.dont_kill_subprocess

OptionRecord == [max : Nat \ {0}, low : Nat \ {0}, heavy : Nat \ {0}]

ASSUME IdsAssumption == Ids \subseteq Nat \ {0} /\ IsFiniteSet(Ids)
ASSUME OptionsAssumption == Normal \in OptionRecord /\ Burst \in OptionRecord
ASSUME DontKillAssumption == DontKill \in BOOLEAN
ASSUME FailingAssumption == Failing \subseteq Ids

VARIABLES
  sstate,      \* SubProcessImpl::state_ of each id; NONE: not in subprocs_
  priority,    \* req_.priority() as the server holds it
  weight,      \* req_.weight()
  options,     \* options_ without dont_kill_subprocess
  shutdowned,  \* shutdowned_
  out,         \* pending_write_: notices not yet written to the socket
  respawn,     \* inside TrySpawnSubProcess, called again after a failed Spawn
  in_timeout,  \* inside the while loop of DoTimeout
  serving,     \* Loop() has not returned
  proc,        \* the process of each id
  sigs,        \* SIGCHLDs written to the signal pipe and not yet read
  s2c          \* socket towards the client, CLOSED at its end after Loop()

serverVars == <<sstate, priority, weight, options, shutdowned, out, respawn,
                in_timeout, serving, proc, sigs>>

State    == {"NONE", "PENDING", "RUN", "SIGNALED"}
Priority == {"LOW", "HIGH", "HIGHEST"}
Weight   == {"LIGHT", "HEAVY"}
\* killed: a signal was sent to a process that has not exited yet
Process  == {"none", "alive", "killed", "exited"}
\* What a SubProcessTerminated says: a child's status, or one of the two
\* values of TerminateStatus.
Status   == {"ran", "NotStarted", "InternalError"}
Notice   == [op : {"STARTED"}, id : Ids]
            \cup [op : {"TERMINATED"}, id : Ids, status : Status]
            \cup [op : {"CLOSED"}]

Started(i)            == [op |-> "STARTED", id |-> i]
TerminatedMsg(i, how) == [op |-> "TERMINATED", id |-> i, status |-> how]
Closed                == [op |-> "CLOSED"]

Least(S) == CHOOSE i \in S : \A j \in S : i <= j

-----------------------------------------------------------------------------
(***************************************************************************)
(* TrySpawnSubProcess.  s is the state map the call finds, p and w the     *)
(* priorities and weights.                                                 *)
(***************************************************************************)
Pending(s) == {i \in Ids : s[i] = "PENDING"}
Running(s) == {i \in Ids : s[i] = "RUN"}

\* The scan returns as soon as it has met options_.max_subprocs running
\* entries, so an entry is looked at only if fewer of them precede it.
Scanned(s, i) == Cardinality({r \in Running(s) : r < i}) < options.max

\* Mutant: the oldest entry, whatever is running.
CandidateNoLimit(s, p) ==
  IF Pending(s) = {} THEN {} ELSE {Least(Pending(s))}

\* The candidate: the first HIGHEST entry the scan reaches, else (when the
\* scan gets to the end) the oldest HIGH entry, else the oldest entry.
Candidate(s, p) ==
  LET highest == {i \in Pending(s) : p[i] = "HIGHEST" /\ Scanned(s, i)}
      high    == {i \in Pending(s) : p[i] = "HIGH"}
  IN  IF highest # {} THEN {Least(highest)}
      ELSE IF Cardinality(Running(s)) >= options.max THEN {}
      ELSE IF high # {} THEN {Least(high)}
      ELSE IF Pending(s) # {} THEN {Least(Pending(s))}
      ELSE {}

\* Mutant: the weight of the candidate is not looked at.
HeldBackByPriority(s, p, w, i) ==
  p[i] = "LOW" /\ Cardinality(Running(s)) >= options.low

\* Once a candidate is selected, the heavy and the low limits are checked:
\* a blocked candidate blocks whatever is queued behind it.
HeldBack(s, p, w, i) ==
  \/ /\ w[i] = "HEAVY"
     /\ Cardinality({r \in Running(s) : w[r] = "HEAVY"}) >= options.heavy
  \/ p[i] = "LOW" /\ Cardinality(Running(s)) >= options.low

ToSpawn(s, p, w) == {i \in Candidate(s, p) : ~HeldBack(s, p, w, i)}

\* candidate->Spawn(): forks the process and notifies STARTED, or fails and
\* is error-terminated, in which case Terminated calls TrySpawn again.
TrySpawn(s, p, w, pr, o) ==
  \/ /\ ToSpawn(s, p, w) = {}
     /\ sstate' = s /\ proc' = pr /\ out' = o
     /\ respawn' = FALSE
  \/ \E c \in ToSpawn(s, p, w) :
       /\ sstate' = [s EXCEPT ![c] = "RUN"]
       /\ proc' = [pr EXCEPT ![c] = "alive"]
       /\ out' = Append(o, Started(c))
       /\ respawn' = FALSE
  \/ \E c \in ToSpawn(s, p, w) \cap Failing :
       /\ sstate' = [s EXCEPT ![c] = "NONE"]
       /\ proc' = pr
       /\ out' = Append(o, TerminatedMsg(c, "InternalError"))
       /\ respawn' = TRUE

\* Mutant: erases and notifies, and leaves the queue alone.
TerminatedNoSpawn(i, how, pr, o) ==
  /\ sstate' = [sstate EXCEPT ![i] = "NONE"]
  /\ proc' = pr
  /\ out' = Append(o, TerminatedMsg(i, how))
  /\ respawn' = FALSE

\* Terminated(): erase, notify, TrySpawnSubProcess.  Erasing an id that is
\* not in subprocs_ is a no-op.
Terminated(i, how, pr, o) ==
  TrySpawn([sstate EXCEPT ![i] = "NONE"], priority, weight, pr,
           Append(o, TerminatedMsg(i, how)))

-----------------------------------------------------------------------------
(***************************************************************************)
(* One pass of Loop().  select() reports the socket writable whenever      *)
(* something is pending, so a pass first writes out what earlier passes    *)
(* left (DoWrite) and then serves the event; the notices of the event      *)
(* itself wait for the next pass.                                          *)
(***************************************************************************)
AtSelect == serving /\ ~respawn /\ ~in_timeout

\* Mutant: breaks as soon as SHUTDOWN was read.
EndOfPassEager(written) ==
  IF shutdowned' /\ ~respawn'
  THEN serving' = FALSE /\ s2c' = Append(written, Closed)
  ELSE serving' = serving /\ s2c' = written

\* The test at the end of a pass; a break drops pending_write_ and closes
\* the socket.  A pass inside a nested TrySpawnSubProcess has not ended.
EndOfPass(written) ==
  IF shutdowned' /\ ~respawn' /\ \A i \in Ids : sstate'[i] = "NONE"
  THEN serving' = FALSE /\ s2c' = Append(written, Closed)
  ELSE serving' = serving /\ s2c' = written

Flushed == s2c \o out

\* Register(): refused once shutdown was requested.
Register(i, p, w) ==
  /\ AtSelect
  /\ IF shutdowned
     THEN /\ out' = <<TerminatedMsg(i, "NotStarted")>>
          /\ UNCHANGED <<sstate, priority, weight, proc, respawn>>
     ELSE /\ priority' = [priority EXCEPT ![i] = p]
          /\ weight' = [weight EXCEPT ![i] = w]
          /\ TrySpawn([sstate EXCEPT ![i] = "PENDING"], priority', weight',
                      proc, <<>>)
  /\ UNCHANGED <<options, shutdowned, in_timeout, sigs>>
  /\ EndOfPass(Flushed)

\* LookupSubProcess() of an id that is not there answers with TERMINATED
\* (kFailedToLookup) in case the client leaked the id.
RequestRun(i) ==
  /\ AtSelect
  /\ IF shutdowned
     THEN out' = <<>> /\ UNCHANGED <<sstate, priority, proc, respawn>>
     ELSE IF sstate[i] = "NONE"
     THEN Terminated(i, "InternalError", proc, <<>>) /\ UNCHANGED priority
     ELSE /\ priority' = [priority EXCEPT ![i] = "HIGH"]
          /\ TrySpawn(sstate, priority', weight, proc, <<>>)
  /\ UNCHANGED <<weight, options, shutdowned, in_timeout, sigs>>
  /\ EndOfPass(Flushed)

\* Mutant: a running entry is erased at once, before its process has exited.
KillForgets(i) ==
  /\ AtSelect
  /\ Terminated(i, "NotStarted", proc, <<>>)
  /\ UNCHANGED <<priority, weight, options, shutdowned, in_timeout, sigs>>
  /\ EndOfPass(Flushed)

\* Mutant: only a process is killed; an entry that waits is left in the queue.
KillIgnoresPending(i) ==
  /\ AtSelect
  /\ proc' = IF proc[i] = "alive" THEN [proc EXCEPT ![i] = "killed"] ELSE proc
  /\ out' = <<>>
  /\ UNCHANGED <<sstate, priority, weight, options, shutdowned, respawn,
                 in_timeout, sigs>>
  /\ EndOfPass(Flushed)

\* Kill(): SubProcessImpl::Kill fails for a process that was never spawned,
\* and Wait then finds no child, so the entry is terminated at once.  A
\* spawned one is signalled unless dont_kill_subprocess is set, and its entry
\* stays until DoTimeout reaps it.
Kill(i) ==
  /\ AtSelect
  /\ \/ /\ sstate[i] = "NONE"
        /\ Terminated(i, "InternalError", proc, <<>>)
     \/ /\ sstate[i] = "PENDING"
        /\ Terminated(i, "NotStarted", proc, <<>>)
     \/ /\ sstate[i] \in {"RUN", "SIGNALED"}
        /\ proc' = IF proc[i] = "alive" /\ ~DontKill
                   THEN [proc EXCEPT ![i] = "killed"] ELSE proc
        /\ out' = <<>>
        /\ UNCHANGED <<sstate, respawn>>
  /\ UNCHANGED <<priority, weight, options, shutdowned, in_timeout, sigs>>
  /\ EndOfPass(Flushed)

\* SetOption(): ignored during shutdown; takes only positive limits (all of
\* OptionRecord) and does not look for something to spawn.
SetOption(o) ==
  /\ AtSelect
  /\ options' = IF shutdowned THEN options ELSE o
  /\ out' = <<>>
  /\ UNCHANGED <<sstate, priority, weight, shutdowned, respawn, in_timeout,
                 proc, sigs>>
  /\ EndOfPass(Flushed)

\* DoRead of SHUTDOWN.
Shutdown ==
  /\ AtSelect
  /\ shutdowned' = TRUE
  /\ out' = <<>>
  /\ UNCHANGED <<sstate, priority, weight, options, respawn, in_timeout,
                 proc, sigs>>
  /\ EndOfPass(Flushed)

\* Mutant: the loop ends and the subprocesses are left to themselves.
PeerClosedNoKill ==
  /\ AtSelect
  /\ serving' = FALSE
  /\ sstate' = [i \in Ids |-> "NONE"]
  /\ s2c' = Append(Flushed, Closed)
  /\ out' = <<>>
  /\ UNCHANGED <<priority, weight, options, shutdowned, respawn, in_timeout,
                 proc, sigs>>

\* DoRead of CLOSED: the client is gone.  Loop() ends; every subprocess left
\* is killed and waited for.
PeerClosed ==
  /\ AtSelect
  /\ serving' = FALSE
  /\ sstate' = [i \in Ids |-> "NONE"]
  /\ proc' = [i \in Ids |->
                IF sstate[i] \in {"RUN", "SIGNALED"} THEN "exited" ELSE proc[i]]
  /\ s2c' = Append(Flushed, Closed)
  /\ out' = <<>>
  /\ UNCHANGED <<priority, weight, options, shutdowned, respawn, in_timeout,
                 sigs>>

\* A pass in which only the socket is writable.
DoWrite ==
  /\ AtSelect
  /\ out # <<>>
  /\ out' = <<>>
  /\ UNCHANGED <<sstate, priority, weight, options, shutdowned, respawn,
                 in_timeout, proc, sigs>>
  /\ EndOfPass(Flushed)

\* Mutant: the entry is not looked up by the pid that was signalled.
DoSignalAnyPid(i) ==
  /\ AtSelect
  /\ sigs # {}
  /\ sigs' = {}
  /\ sstate' = IF sstate[i] \in {"RUN", "SIGNALED"}
               THEN [sstate EXCEPT ![i] = "SIGNALED"] ELSE sstate
  /\ out' = <<>>
  /\ UNCHANGED <<priority, weight, options, shutdowned, respawn, in_timeout,
                 proc>>
  /\ EndOfPass(Flushed)

\* DoSignal: the entry of the child becomes SIGNALED; a child whose entry is
\* gone is ignored.
DoSignal(i) ==
  /\ AtSelect
  /\ i \in sigs
  /\ sigs' = sigs \ {i}
  /\ sstate' = IF sstate[i] \in {"RUN", "SIGNALED"}
               THEN [sstate EXCEPT ![i] = "SIGNALED"] ELSE sstate
  /\ out' = <<>>
  /\ UNCHANGED <<priority, weight, options, shutdowned, respawn, in_timeout,
                 proc>>
  /\ EndOfPass(Flushed)

-----------------------------------------------------------------------------
(***************************************************************************)
(* DoTimeout runs when select() finds nothing ready.  SubProcessImpl::Wait *)
(* reaps a child that has exited, and kills and reaps one that is          *)
(* SIGNALED; the loop goes on until no entry is terminated.                *)
(***************************************************************************)
Reapable == {i \in Ids : \/ sstate[i] = "RUN" /\ proc[i] = "exited"
                         \/ sstate[i] = "SIGNALED"}

DoTimeout(quiet) ==
  /\ serving /\ ~respawn
  /\ in_timeout \/ (quiet /\ out = <<>> /\ sigs = {})
  /\ Reapable # {}
  /\ LET i == Least(Reapable)
     IN  Terminated(i, "ran", [proc EXCEPT ![i] = "exited"], out)
  /\ in_timeout' = TRUE
  /\ UNCHANGED <<priority, weight, options, shutdowned, serving, sigs, s2c>>

DoTimeoutEnd ==
  /\ serving /\ ~respawn /\ in_timeout
  /\ Reapable = {}
  /\ in_timeout' = FALSE
  /\ UNCHANGED <<sstate, priority, weight, options, shutdowned, out, respawn,
                 serving, proc, sigs, s2c>>

\* The nested TrySpawnSubProcess after a failed Spawn.  The pass it belongs
\* to ends with it, unless it was called from DoTimeout.
Respawn ==
  /\ serving /\ respawn
  /\ TrySpawn(sstate, priority, weight, proc, out)
  /\ UNCHANGED <<priority, weight, options, shutdowned, in_timeout, sigs>>
  /\ IF in_timeout THEN UNCHANGED <<serving, s2c>> ELSE EndOfPass(s2c)

\* A process exits.  SIGCHLD does not queue: the handler may run once for two
\* children that exit together, so the signal of one of them may be lost.
ProcExit(i) ==
  /\ proc[i] \in {"alive", "killed"}
  /\ proc' = [proc EXCEPT ![i] = "exited"]
  /\ sigs' \in {sigs, IF serving THEN sigs \cup {i} ELSE sigs}
  /\ UNCHANGED <<sstate, priority, weight, options, shutdowned, out, respawn,
                 in_timeout, serving, s2c>>

ServerInit ==
  /\ sstate = [i \in Ids |-> "NONE"]
  /\ priority = [i \in Ids |-> "LOW"]
  /\ weight = [i \in Ids |-> "LIGHT"]
  /\ options = Normal
  /\ shutdowned = FALSE
  /\ out = <<>>
  /\ respawn = FALSE
  /\ in_timeout = FALSE
  /\ serving = TRUE
  /\ proc = [i \in Ids |-> "none"]
  /\ sigs = {}
  /\ s2c = <<>>

ServerTypeOK ==
  /\ sstate \in [Ids -> State]
  /\ priority \in [Ids -> Priority]
  /\ weight \in [Ids -> Weight]
  /\ options \in {Normal, Burst}
  /\ shutdowned \in BOOLEAN /\ respawn \in BOOLEAN
  /\ in_timeout \in BOOLEAN /\ serving \in BOOLEAN
  /\ proc \in [Ids -> Process]
  /\ sigs \in SUBSET Ids
  /\ out \in Seq(Notice) /\ s2c \in Seq(Notice)

\* What the server does on its own, whatever the client sends; quiet says
\* that the socket holds no request.
ServerStep(quiet) ==
  \/ DoWrite \/ Respawn \/ DoTimeout(quiet) \/ DoTimeoutEnd
  \/ \E i \in Ids : DoSignal(i)
===============================================================================

--------------------------- MODULE SubProcessProofs ---------------------------
(***************************************************************************)
(* Type correctness of the subprocess subsystem, that its server never     *)
(* stalls, and that it neither waits for a living process nor leaves one   *)
(* behind, for every set of ids, any options and any number of messages.   *)
(*                                                                         *)
(* NoStall is inductive once types are known, since TrySpawnSubProcess     *)
(* itself establishes it whatever state it finds: with nothing running the *)
(* limits, all at least 1, cannot hold back the candidate.  The rest of    *)
(* IInv is TypeOK and that the client thread, past the check of a Kill(),  *)
(* has an id to send it for.                                               *)
(***************************************************************************)
EXTENDS SubProcessController, TLAPS, FiniteSetTheorems, SequenceTheorems,
        WellFoundedInduction

\* A finite nonempty set of numbers has a least one (the order of subprocs_).
LEMMA LeastInSet ==
  ASSUME NEW S, S \subseteq Nat, IsFiniteSet(S), S # {}
  PROVE  Least(S) \in S
<1> DEFINE Below(x) == {y \in S : y < x}
           T == {Below(x) : x \in S}
<1>1. T \subseteq FiniteSubsetsOf(S) /\ T # {}
  <2>1. FiniteSubsetsOf(S) = SUBSET S
    BY FS_FiniteSubsetsOfFinite
  <2>2. \A x \in S : Below(x) \in SUBSET S
    OBVIOUS
  <2> HIDE DEF Below
  <2>3. PICK x \in S : Below(x) \in T
    OBVIOUS
  <2> QED BY <2>1, <2>2, <2>3
<1>2. PICK B \in T : \A C \in T : <<C, B>> \notin StrictSubsetOrdering(S)
  <2> HIDE DEF T
  <2> QED BY <1>1, FS_StrictSubsetOrderingWellFounded, WFMin
<1>3. PICK x \in S : B = Below(x)
  OBVIOUS
<1>4. \A y \in S : x <= y
  <2> SUFFICES ASSUME NEW y \in S, y < x  PROVE FALSE
    OBVIOUS
  <2>1. Below(y) \subseteq Below(x) /\ Below(y) # Below(x)
    <3>1. y \in Below(x) /\ y \notin Below(y)
      OBVIOUS
    <3>2. \A z \in Below(y) : z \in Below(x)
      <4> SUFFICES ASSUME NEW z \in S, z < y  PROVE z < x
        OBVIOUS
      <4>1. z \in Nat /\ y \in Nat /\ x \in Nat
        OBVIOUS
      <4> QED BY <4>1
    <3> QED BY <3>1, <3>2
  <2>2. <<Below(y), B>> \in StrictSubsetOrdering(S)
    BY <1>3, <2>1 DEF StrictSubsetOrdering
  <2> QED BY <1>2, <2>2
<1> QED BY <1>4 DEF Least

\* With nothing running, TrySpawnSubProcess finds something to spawn: neither the
\* heavy nor the low-priority limit holds back its candidate.
LEMMA SpawnSomething ==
  ASSUME NEW s \in [Ids -> State], NEW p \in [Ids -> Priority],
         NEW w \in [Ids -> Weight], options \in OptionRecord,
         Pending(s) # {}, Running(s) = {}
  PROVE  ToSpawn(s, p, w) # {}
<1>1. Ids \subseteq Nat
  BY IdsAssumption
<1>2. Cardinality(Running(s)) = 0
  BY FS_EmptySet
<1>3. options.max > 0 /\ options.low > 0 /\ options.heavy > 0
  BY DEF OptionRecord
<1>4. \A i \in Ids : ~HeldBack(s, p, w, i)
  <2>1. {r \in Running(s) : w[r] = "HEAVY"} = {}
    OBVIOUS
  <2> QED BY <2>1, <1>2, <1>3, FS_EmptySet DEF HeldBack, OptionRecord
<1>5. \E i \in Ids : i \in Candidate(s, p)
  <2>1. \A S \in SUBSET Ids : S # {} => Least(S) \in Ids
    BY <1>1, LeastInSet, FS_Subset, IdsAssumption
  <2>2. \A S : S \subseteq Pending(s) => S \in SUBSET Ids
    BY DEF Pending
  <2>3. ~(Cardinality(Running(s)) >= options.max)
    BY <1>2, <1>3 DEF OptionRecord
  <2> QED BY <2>1, <2>2, <2>3 DEF Candidate
<1> QED BY <1>4, <1>5 DEF ToSpawn

\* The options in force have positive limits, in burst mode or not.
LEMMA OptionsType == ServerTypeOK => options \in OptionRecord
BY OptionsAssumption DEF ServerTypeOK

\* TrySpawnSubProcess spawns PENDING entries only.
LEMMA ToSpawnPending ==
  ASSUME NEW s, NEW p, NEW w
  PROVE  ToSpawn(s, p, w) \subseteq Pending(s)
<1>1. \A S \in SUBSET Pending(s) : S # {} => Least(S) \in Pending(s)
  <2> SUFFICES ASSUME NEW S \in SUBSET Pending(s), S # {}
               PROVE  Least(S) \in Pending(s)
    OBVIOUS
  <2>1. S \in SUBSET Ids
    BY DEF Pending
  <2>2. IsFiniteSet(S) /\ S \subseteq Nat
    BY <2>1, FS_Subset, IdsAssumption
  <2> QED BY <2>2, LeastInSet
<1>2. Candidate(s, p) \subseteq Pending(s)
  BY <1>1 DEF Candidate
<1> QED BY <1>2 DEF ToSpawn

\* NoStall of a map of states s.
NotStalled(s) == Pending(s) # {} => \E i \in Ids : s[i] \in {"RUN", "SIGNALED"}

\* What a call of TrySpawnSubProcess leaves behind.
SpawnEffect ==
  /\ sstate' \in [Ids -> State]
  /\ proc' \in [Ids -> Process]
  /\ out' \in Seq(Notice)
  /\ respawn' \in BOOLEAN
  /\ ~respawn' => NotStalled(sstate')

\* TrySpawnSubProcess has the effect above, called in whatever state.
LEMMA TrySpawnOK ==
  ASSUME NEW s \in [Ids -> State], NEW p \in [Ids -> Priority],
         NEW w \in [Ids -> Weight], NEW pr \in [Ids -> Process],
         NEW o \in Seq(Notice), options \in OptionRecord,
         TrySpawn(s, p, w, pr, o)
  PROVE  SpawnEffect
<1>1. CASE /\ ToSpawn(s, p, w) = {}
           /\ sstate' = s /\ proc' = pr /\ out' = o
           /\ respawn' = FALSE
  <2>1. Pending(s) # {} => Running(s) # {}
    BY <1>1, SpawnSomething
  <2> QED BY <1>1, <2>1 DEF NotStalled, Running, SpawnEffect
<1>2. CASE \E c \in ToSpawn(s, p, w) :
             /\ sstate' = [s EXCEPT ![c] = "RUN"]
             /\ proc' = [pr EXCEPT ![c] = "alive"]
             /\ out' = Append(o, Started(c))
             /\ respawn' = FALSE
  <2>1. PICK c \in ToSpawn(s, p, w) :
             /\ sstate' = [s EXCEPT ![c] = "RUN"]
             /\ proc' = [pr EXCEPT ![c] = "alive"]
             /\ out' = Append(o, Started(c))
             /\ respawn' = FALSE
    BY <1>2
  <2>2. c \in Ids
    BY ToSpawnPending DEF Pending
  <2>3. Started(c) \in Notice
    BY <2>2 DEF Started, Notice
  <2>4. sstate' \in [Ids -> State] /\ proc' \in [Ids -> Process]
    BY <2>1, <2>2 DEF State, Process
  <2>5. out' \in Seq(Notice)
    BY <2>1, <2>3
  <2>6. sstate'[c] = "RUN"
    BY <2>1, <2>2
  <2> QED BY <2>1, <2>2, <2>4, <2>5, <2>6 DEF NotStalled, SpawnEffect
<1>3. CASE \E c \in ToSpawn(s, p, w) \cap Failing :
             /\ sstate' = [s EXCEPT ![c] = "NONE"]
             /\ proc' = pr
             /\ out' = Append(o, TerminatedMsg(c, "InternalError"))
             /\ respawn' = TRUE
  <2>1. PICK c \in ToSpawn(s, p, w) :
             /\ sstate' = [s EXCEPT ![c] = "NONE"]
             /\ proc' = pr
             /\ out' = Append(o, TerminatedMsg(c, "InternalError"))
             /\ respawn' = TRUE
    BY <1>3
  <2>2. c \in Ids
    BY ToSpawnPending DEF Pending
  <2>3. TerminatedMsg(c, "InternalError") \in Notice
    BY <2>2 DEF TerminatedMsg, Notice, Status
  <2> QED BY <2>1, <2>2, <2>3 DEF State, SpawnEffect
<1> QED BY <1>1, <1>2, <1>3 DEF TrySpawn

\* The end of a pass of Loop() leaves a well-formed socket.
LEMMA EndOfPassOK ==
  ASSUME serving \in BOOLEAN, NEW written \in Seq(Notice), EndOfPass(written)
  PROVE  serving' \in BOOLEAN /\ s2c' \in Seq(Notice)
<1>1. Closed \in Notice
  BY DEF Closed, Notice
<1>2. Append(written, Closed) \in Seq(Notice)
  BY <1>1
<1> QED BY <1>2 DEF EndOfPass

\* So does writing out pending_write_.
LEMMA FlushedOK ==
  ServerTypeOK => Flushed \in Seq(Notice)
BY ConcatProperties DEF ServerTypeOK, Flushed

\* Terminated() has the effect of the TrySpawnSubProcess it ends with.
LEMMA TerminatedOK ==
  ASSUME ServerTypeOK, NEW i \in Ids, NEW how \in Status,
         NEW pr \in [Ids -> Process], NEW o \in Seq(Notice),
         Terminated(i, how, pr, o)
  PROVE  SpawnEffect
<1>1. [sstate EXCEPT ![i] = "NONE"] \in [Ids -> State]
  BY DEF ServerTypeOK, State
<1>2. Append(o, TerminatedMsg(i, how)) \in Seq(Notice)
  BY DEF TerminatedMsg, Notice
<1>3. priority \in [Ids -> Priority] /\ weight \in [Ids -> Weight]
  BY DEF ServerTypeOK
<1>4. TrySpawn([sstate EXCEPT ![i] = "NONE"], priority, weight, pr,
               Append(o, TerminatedMsg(i, how)))
  BY DEF Terminated
<1> QED BY <1>1, <1>2, <1>3, <1>4, OptionsType, TrySpawnOK

\* A pass that leaves subprocs_ alone does not make the server stall.
LEMMA UnchangedOK ==
  ASSUME ServerTypeOK, NoStall, serving, sstate' = sstate, respawn' = respawn,
         proc' \in [Ids -> Process], out' \in Seq(Notice)
  PROVE  SpawnEffect
BY DEF ServerTypeOK, NoStall, SpawnEffect, NotStalled, Pending

\* The effect of TrySpawnSubProcess, and typed values elsewhere, are the invariant.
LEMMA SpawnInv ==
  ASSUME SpawnEffect,
         priority' \in [Ids -> Priority], weight' \in [Ids -> Weight],
         options' \in {Normal, Burst}, shutdowned' \in BOOLEAN,
         in_timeout' \in BOOLEAN, serving' \in BOOLEAN, sigs' \in SUBSET Ids,
         s2c' \in Seq(Notice)
  PROVE  ServerTypeOK' /\ NoStall'
BY DEF SpawnEffect, ServerTypeOK, NoStall, NotStalled, Pending

\* Register() preserves it.
LEMMA RegisterInv ==
  ASSUME ServerTypeOK, NoStall, NEW i \in Ids, NEW p \in Priority,
         NEW w \in Weight, Register(i, p, w)
  PROVE  ServerTypeOK' /\ NoStall'
<1> USE DEF Register
<1>1. serving /\ serving' \in BOOLEAN /\ s2c' \in Seq(Notice)
  BY EndOfPassOK, FlushedOK DEF AtSelect, ServerTypeOK
<1>2. priority' \in [Ids -> Priority] /\ weight' \in [Ids -> Weight]
  BY DEF ServerTypeOK
<1>3. SpawnEffect
  <2>1. CASE shutdowned
    <3>1. <<TerminatedMsg(i, "NotStarted")>> \in Seq(Notice)
      BY DEF TerminatedMsg, Notice, Status
    <3> QED BY <1>1, <2>1, <3>1, UnchangedOK DEF ServerTypeOK
  <2>2. CASE ~shutdowned
    <3>1. [sstate EXCEPT ![i] = "PENDING"] \in [Ids -> State]
      BY DEF ServerTypeOK, State
    <3>2. proc \in [Ids -> Process] /\ <<>> \in Seq(Notice)
      BY DEF ServerTypeOK
    <3> QED BY <1>2, <2>2, <3>1, <3>2, OptionsType, TrySpawnOK
  <2> QED BY <2>1, <2>2
<1> QED BY <1>1, <1>2, <1>3, SpawnInv DEF ServerTypeOK

\* RequestRun() preserves it.
LEMMA RequestRunInv ==
  ASSUME ServerTypeOK, NoStall, NEW i \in Ids, RequestRun(i)
  PROVE  ServerTypeOK' /\ NoStall'
<1> USE DEF RequestRun
<1>1. serving /\ serving' \in BOOLEAN /\ s2c' \in Seq(Notice)
  BY EndOfPassOK, FlushedOK DEF AtSelect, ServerTypeOK
<1>2. priority' \in [Ids -> Priority]
  BY DEF ServerTypeOK, Priority
<1>3. proc \in [Ids -> Process] /\ <<>> \in Seq(Notice)
  BY DEF ServerTypeOK
<1>4. SpawnEffect
  <2>1. CASE shutdowned
    BY <1>1, <1>3, <2>1, UnchangedOK
  <2>2. CASE ~shutdowned /\ sstate[i] = "NONE"
    BY <1>3, <2>2, TerminatedOK DEF Status
  <2>3. CASE ~shutdowned /\ sstate[i] # "NONE"
    BY <1>2, <1>3, <2>3, OptionsType, TrySpawnOK DEF ServerTypeOK
  <2> QED BY <2>1, <2>2, <2>3
<1> QED BY <1>1, <1>2, <1>4, SpawnInv DEF ServerTypeOK

\* Kill() preserves it: when the entry killed is PENDING, the next one is tried.
LEMMA KillInv ==
  ASSUME ServerTypeOK, NoStall, NEW i \in Ids, Kill(i)
  PROVE  ServerTypeOK' /\ NoStall'
<1> USE DEF Kill
<1>1. serving /\ serving' \in BOOLEAN /\ s2c' \in Seq(Notice)
  BY EndOfPassOK, FlushedOK DEF AtSelect, ServerTypeOK
<1>2. proc \in [Ids -> Process] /\ <<>> \in Seq(Notice)
  BY DEF ServerTypeOK
<1>3. SpawnEffect
  <2>1. CASE sstate[i] = "NONE"
    BY <1>2, <2>1, TerminatedOK DEF Status
  <2>2. CASE sstate[i] = "PENDING"
    BY <1>2, <2>2, TerminatedOK DEF Status
  <2>3. CASE sstate[i] \in {"RUN", "SIGNALED"}
    <3>1. sstate' = sstate /\ respawn' = respawn /\ out' = <<>>
          /\ proc' \in [Ids -> Process]
      BY <1>2, <2>3 DEF Process
    <3> QED BY <1>1, <1>2, <3>1, UnchangedOK
  <2> QED BY <2>1, <2>2, <2>3
<1> QED BY <1>1, <1>3, SpawnInv DEF ServerTypeOK

\* SetOption() preserves it, though it spawns nothing.
LEMMA SetOptionInv ==
  ASSUME ServerTypeOK, NoStall, NEW o \in {Normal, Burst}, SetOption(o)
  PROVE  ServerTypeOK' /\ NoStall'
<1> USE DEF SetOption
<1>1. serving /\ serving' \in BOOLEAN /\ s2c' \in Seq(Notice)
  BY EndOfPassOK, FlushedOK DEF AtSelect, ServerTypeOK
<1>2. SpawnEffect
  BY <1>1, UnchangedOK DEF ServerTypeOK
<1> QED BY <1>1, <1>2, SpawnInv DEF ServerTypeOK

\* Reading SHUTDOWN preserves it.
LEMMA ShutdownInv ==
  ASSUME ServerTypeOK, NoStall, Shutdown
  PROVE  ServerTypeOK' /\ NoStall'
<1> USE DEF Shutdown
<1>1. serving /\ serving' \in BOOLEAN /\ s2c' \in Seq(Notice)
  BY EndOfPassOK, FlushedOK DEF AtSelect, ServerTypeOK
<1>2. SpawnEffect
  BY <1>1, UnchangedOK DEF ServerTypeOK
<1> QED BY <1>1, <1>2, SpawnInv DEF ServerTypeOK

\* So does the end of the peer.
LEMMA PeerClosedInv ==
  ASSUME ServerTypeOK, NoStall, PeerClosed
  PROVE  ServerTypeOK' /\ NoStall'
<1> USE DEF PeerClosed
<1>1. s2c' \in Seq(Notice)
  <2>1. Closed \in Notice
    BY DEF Closed, Notice
  <2> QED BY <2>1, FlushedOK
<1>2. sstate' \in [Ids -> State] /\ proc' \in [Ids -> Process]
  BY DEF ServerTypeOK, State, Process
<1>3. SpawnEffect
  BY <1>2 DEF SpawnEffect, NotStalled, Pending, ServerTypeOK
<1> QED BY <1>1, <1>3, SpawnInv DEF ServerTypeOK

\* A pass that only writes preserves it.
LEMMA DoWriteInv ==
  ASSUME ServerTypeOK, NoStall, DoWrite
  PROVE  ServerTypeOK' /\ NoStall'
<1> USE DEF DoWrite
<1>1. serving /\ serving' \in BOOLEAN /\ s2c' \in Seq(Notice)
  BY EndOfPassOK, FlushedOK DEF AtSelect, ServerTypeOK
<1>2. SpawnEffect
  BY <1>1, UnchangedOK DEF ServerTypeOK
<1> QED BY <1>1, <1>2, SpawnInv DEF ServerTypeOK

\* DoSignal() preserves it: a SIGNALED entry will be reaped.
LEMMA DoSignalInv ==
  ASSUME ServerTypeOK, NoStall, NEW i \in Ids, DoSignal(i)
  PROVE  ServerTypeOK' /\ NoStall'
<1> USE DEF DoSignal
<1>1. serving /\ ~respawn /\ serving' \in BOOLEAN /\ s2c' \in Seq(Notice)
  BY EndOfPassOK, FlushedOK DEF AtSelect, ServerTypeOK
<1>2. sstate' \in [Ids -> State]
  BY DEF ServerTypeOK, State
<1>3. \A j \in Ids : sstate[j] \in {"RUN", "SIGNALED"}
                       => sstate'[j] \in {"RUN", "SIGNALED"}
  BY DEF ServerTypeOK
<1>4. \A j \in Ids : sstate'[j] = "PENDING" => sstate[j] = "PENDING"
  BY DEF ServerTypeOK
<1>5. NotStalled(sstate')
  BY <1>1, <1>3, <1>4 DEF NoStall, NotStalled, Pending
<1>6. SpawnEffect
  BY <1>2, <1>5 DEF SpawnEffect, ServerTypeOK
<1>7. sigs' \in SUBSET Ids
  BY DEF ServerTypeOK
<1> QED BY <1>1, <1>6, <1>7, SpawnInv DEF ServerTypeOK

\* DoTimeout() preserves it: whoever is reaped, the next one is tried.
LEMMA DoTimeoutInv ==
  ASSUME ServerTypeOK, NoStall, NEW quiet, DoTimeout(quiet)
  PROVE  ServerTypeOK' /\ NoStall'
<1> USE DEF DoTimeout
<1>1. Least(Reapable) \in Ids
  <2>1. Reapable \in SUBSET Ids
    BY DEF Reapable
  <2>2. IsFiniteSet(Reapable) /\ Reapable \subseteq Nat
    BY <2>1, FS_Subset, IdsAssumption
  <2> QED BY <2>1, <2>2, LeastInSet
<1>2. [proc EXCEPT ![Least(Reapable)] = "exited"] \in [Ids -> Process]
  BY <1>1 DEF ServerTypeOK, Process
<1>3. SpawnEffect
  BY <1>1, <1>2, TerminatedOK DEF ServerTypeOK, Status
<1> QED BY <1>3, SpawnInv DEF ServerTypeOK

\* The TrySpawnSubProcess after a failed Spawn() preserves it.
LEMMA RespawnInv ==
  ASSUME ServerTypeOK, NoStall, Respawn
  PROVE  ServerTypeOK' /\ NoStall'
<1> USE DEF Respawn
<1>1. SpawnEffect
  BY OptionsType, TrySpawnOK DEF ServerTypeOK
<1>2. serving' \in BOOLEAN /\ s2c' \in Seq(Notice)
  BY EndOfPassOK DEF ServerTypeOK
<1> QED BY <1>1, <1>2, SpawnInv DEF ServerTypeOK

\* The exit of a process preserves it.
LEMMA ProcExitInv ==
  ASSUME ServerTypeOK, NoStall, NEW i \in Ids, ProcExit(i)
  PROVE  ServerTypeOK' /\ NoStall'
<1>1. proc' \in [Ids -> Process] /\ sigs' \in SUBSET Ids
  BY DEF ProcExit, ServerTypeOK, Process
<1> QED BY <1>1 DEF ProcExit, ServerTypeOK, NoStall, Pending

\* What the server does on its own preserves it.
LEMMA ServerStepInv ==
  ASSUME ServerTypeOK, NoStall, NEW quiet, ServerStep(quiet)
  PROVE  ServerTypeOK' /\ NoStall'
<1>1. CASE DoTimeoutEnd
  BY <1>1 DEF DoTimeoutEnd, ServerTypeOK, NoStall, Pending
<1> QED
  BY <1>1, DoWriteInv, RespawnInv, DoTimeoutInv, DoSignalInv DEF ServerStep

\* Every request preserves it.
LEMMA ServeInv ==
  ASSUME ServerTypeOK, NoStall, NEW m \in Request, Serve(m)
  PROVE  ServerTypeOK' /\ NoStall'
<1>1. CASE m.op = "REGISTER" /\ Register(m.id, m.priority, m.weight)
  <2>1. m.id \in Ids /\ m.priority \in Priority /\ m.weight \in Weight
    BY <1>1 DEF Request
  <2> QED BY <1>1, <2>1, RegisterInv
<1>2. CASE m.op = "REQUEST_RUN" /\ RequestRun(m.id)
  BY <1>2, RequestRunInv DEF Request
<1>3. CASE m.op = "KILL" /\ Kill(m.id)
  BY <1>3, KillInv DEF Request
<1>4. CASE m.op = "SET_OPTION" /\ SetOption(m.option)
  BY <1>4, SetOptionInv DEF Request
<1> QED
  BY <1>1, <1>2, <1>3, <1>4, ShutdownInv, PeerClosedInv DEF Serve

-----------------------------------------------------------------------------
\* Steps of compiler_proxy leave the server as it is.
LEMMA IdleServer ==
  ASSUME ServerTypeOK, NoStall, UNCHANGED serverVars, s2c' \in Seq(Notice)
  PROVE  ServerTypeOK' /\ NoStall'
BY DEF ServerTypeOK, NoStall, Pending, serverVars

\* A thread outside of the client is in a well-formed call.
LEMMA NoCallType == NoCall \in Call
BY DEF NoCall, Call

\* KILL is a request.
LEMMA KillMsgType ==
  ASSUME NEW i \in Ids
  PROVE  KillMsg(i) \in Request
BY DEF KillMsg, Request

\* The client reads well-formed notices.
LEMMA NoticeType ==
  ASSUME ServerTypeOK, NEW op, NextNotice(op)
  PROVE  /\ Tail(s2c) \in Seq(Notice)
         /\ op \in {"STARTED", "TERMINATED"} => Head(s2c).id \in Ids
<1>1. s2c \in Seq(Notice) /\ s2c # <<>> /\ Head(s2c).op = op
  BY DEF ServerTypeOK, NextNotice
<1>2. Head(s2c) \in Notice /\ Tail(s2c) \in Seq(Notice)
  BY <1>1, HeadTailProperties
<1> QED BY <1>1, <1>2 DEF Notice

\* The inductive invariant.
ClientInv == ClientTypeOK /\ (cchecked => ckills # {})

IInv == ServerTypeOK /\ NoStall /\ TaskTypeOK /\ ClientInv

\* RegisterTask() preserves the invariant.
LEMMA StartInv ==
  ASSUME IInv, NEW t \in Ids, Start(t)
  PROVE  IInv'
<1> USE DEF Start
<1>1. ServerTypeOK' /\ NoStall'
  BY IdleServer DEF IInv, ServerTypeOK
<1>2. TaskTypeOK'
  <2>1. [op |-> "REGISTER", checked |-> FALSE] \in Call
    BY DEF Call
  <2>2. created' \in Nat /\ tstate' \in [Ids -> TaskState]
    BY IdsAssumption DEF IInv, TaskTypeOK, TaskState
  <2>3. call' \in [Ids -> Call]
    BY <2>1 DEF IInv, TaskTypeOK
  <2>4. blocking' \in SUBSET Ids /\ late' \in SUBSET Ids
    BY DEF IInv, TaskTypeOK
  <2> QED BY <2>2, <2>3, <2>4 DEF IInv, TaskTypeOK
<1>3. ClientInv'
  BY DEF IInv, ClientInv, ClientTypeOK
<1> QED BY <1>1, <1>2, <1>3 DEF IInv

\* The check under mu_ preserves it.
LEMMA CheckInv ==
  ASSUME IInv, NEW t \in Ids, Check(t)
  PROVE  IInv'
<1> USE DEF Check
<1>1. ServerTypeOK' /\ NoStall'
  BY IdleServer DEF IInv, ServerTypeOK
<1>2. TaskTypeOK'
  <2>1. call[t] \in Call
    BY DEF IInv, TaskTypeOK
  <2>2. [call[t] EXCEPT !.checked = TRUE] \in Call
    <3>1. call[t] \in [op : {"REGISTER", "REQUEST_RUN", "KILL"},
                       checked : BOOLEAN]
      BY <2>1 DEF Call, NoCall
    <3> QED BY <3>1 DEF Call
  <2>3. call' \in [Ids -> Call]
    BY <2>2, NoCallType DEF IInv, TaskTypeOK
  <2> QED BY <2>3 DEF IInv, TaskTypeOK
<1>3. ClientInv'
  BY DEF IInv, ClientInv, ClientTypeOK, clientVars
<1> QED BY <1>1, <1>2, <1>3 DEF IInv

\* Posting the request preserves it.
LEMMA PostInv ==
  ASSUME IInv, NEW t \in Ids, Post(t)
  PROVE  IInv'
<1> USE DEF Post
<1>1. ServerTypeOK' /\ NoStall'
  BY IdleServer DEF IInv, ServerTypeOK
<1>2. TaskTypeOK'
  BY NoCallType DEF IInv, TaskTypeOK
<1>3. ClientInv'
  <2>1. call[t].op \in {"REGISTER", "REQUEST_RUN", "KILL"}
    BY DEF IInv, TaskTypeOK, Call, NoCall
  <2>2. \A w \in Weight : RequestOf(t, w) \in Request
    BY <2>1 DEF RequestOf, Request, Priority
  <2>3. c2s' \in Seq(Request)
    BY <2>2 DEF IInv, ClientInv, ClientTypeOK
  <2> QED BY <2>3 DEF IInv, ClientInv, ClientTypeOK, clientVars
<1> QED BY <1>1, <1>2, <1>3 DEF IInv

\* SubProcessTask::RequestRun() preserves it.
LEMMA TaskRequestRunInv ==
  ASSUME IInv, NEW t \in Ids, TaskRequestRun(t)
  PROVE  IInv'
<1> USE DEF TaskRequestRun
<1>1. ServerTypeOK' /\ NoStall'
  BY IdleServer DEF IInv, ServerTypeOK
<1>2. TaskTypeOK'
  <2>1. [op |-> "REQUEST_RUN", checked |-> FALSE] \in Call
    BY DEF Call
  <2> QED BY <2>1 DEF IInv, TaskTypeOK
<1>3. ClientInv'
  BY DEF IInv, ClientInv, ClientTypeOK, clientVars
<1> QED BY <1>1, <1>2, <1>3 DEF IInv

\* SubProcessTask::Kill() preserves it.
LEMMA TaskKillInv ==
  ASSUME IInv, NEW t \in Ids, TaskKill(t)
  PROVE  IInv'
<1> USE DEF TaskKill
<1>1. ServerTypeOK' /\ NoStall'
  BY IdleServer DEF IInv, ServerTypeOK
<1>2. TaskTypeOK'
  <2>1. [op |-> "KILL", checked |-> FALSE] \in Call
    BY DEF Call
  <2>2. tstate' \in [Ids -> TaskState]
    BY DEF IInv, TaskTypeOK, TaskState
  <2> QED BY <2>1, <2>2 DEF IInv, TaskTypeOK
<1>3. ClientInv'
  BY DEF IInv, ClientInv, ClientTypeOK, clientVars
<1> QED BY <1>1, <1>2, <1>3 DEF IInv

\* SubProcessTask::Done() preserves it.
LEMMA DoneInv ==
  ASSUME IInv, NEW t \in Ids, Done(t)
  PROVE  IInv'
<1> USE DEF Done
<1>1. ServerTypeOK' /\ NoStall'
  BY IdleServer DEF IInv, ServerTypeOK
<1>2. TaskTypeOK'
  BY DEF IInv, TaskTypeOK
<1>3. ClientInv'
  BY DEF IInv, ClientInv, ClientTypeOK, clientVars
<1> QED BY <1>1, <1>2, <1>3 DEF IInv

\* The closures of the client thread preserve it.
LEMMA ClientThreadInv ==
  ASSUME IInv, ClientThread
  PROVE  IInv'
<1> USE DEF IInv
<1>1. ASSUME ckills # {}  PROVE Least(ckills) \in Ids
  <2>1. IsFiniteSet(ckills) /\ ckills \subseteq Nat
    BY FS_Subset, IdsAssumption DEF ClientInv, ClientTypeOK
  <2> QED BY <1>1, <2>1, LeastInSet DEF ClientInv, ClientTypeOK
<1>2. CASE ClientStarted
  <2>1. Tail(s2c) \in Seq(Notice) /\ Head(s2c).id \in Ids
    BY <1>2, NoticeType DEF ClientStarted
  <2>2. ServerTypeOK' /\ NoStall'
    BY <1>2, <2>1, IdleServer DEF ClientStarted
  <2>3. TaskTypeOK'
    BY <1>2, <2>1 DEF ClientStarted, TaskTypeOK, TaskState
  <2>4. ClientInv'
    BY <1>2, <2>1 DEF ClientStarted, ClientInv, ClientTypeOK
  <2> QED BY <2>2, <2>3, <2>4
<1>3. CASE ClientTerminated
  <2>1. Tail(s2c) \in Seq(Notice) /\ Head(s2c).id \in Ids
    BY <1>3, NoticeType DEF ClientTerminated
  <2>2. ServerTypeOK' /\ NoStall'
    BY <1>3, <2>1, IdleServer DEF ClientTerminated
  <2>3. TaskTypeOK'
    BY <1>3, <2>1 DEF ClientTerminated, TaskTypeOK, TaskState
  <2>4. ClientInv'
    BY <1>3, <2>1 DEF ClientTerminated, ClientInv, ClientTypeOK
  <2> QED BY <2>2, <2>3, <2>4
<1>4. CASE ClientClosed
  <2>1. Tail(s2c) \in Seq(Notice)
    BY <1>4, NoticeType DEF ClientClosed
  <2>2. ServerTypeOK' /\ NoStall'
    BY <1>4, <2>1, IdleServer DEF ClientClosed
  <2> QED BY <1>4, <2>2 DEF ClientClosed, TaskTypeOK, ClientInv, ClientTypeOK, taskVars
<1>5. CASE ClientKillCheck
  <2>1. ServerTypeOK' /\ NoStall'
    BY <1>5, IdleServer DEF ClientKillCheck, ServerTypeOK
  <2>2. TaskTypeOK'
    BY <1>5 DEF ClientKillCheck, TaskTypeOK, taskVars
  <2>3. ClientInv'
    BY <1>5 DEF ClientKillCheck, ClientInv, ClientTypeOK
  <2> QED BY <2>1, <2>2, <2>3
<1>6. CASE ClientKillPost
  <2>1. ServerTypeOK' /\ NoStall'
    BY <1>6, IdleServer DEF ClientKillPost, ServerTypeOK
  <2>2. ckills # {}
    BY <1>6 DEF ClientKillPost, ClientInv
  <2>3. c2s' \in Seq(Request)
    BY <1>1, <1>6, <2>2, KillMsgType DEF ClientKillPost, ClientInv, ClientTypeOK
  <2> QED BY <1>6, <2>1, <2>3 DEF ClientKillPost, TaskTypeOK, ClientInv, ClientTypeOK,
                                  taskVars
<1>7. ASSUME NEW t \in Ids, LateTerminated(t)  PROVE IInv'
  <2>1. ServerTypeOK' /\ NoStall'
    BY <1>7, IdleServer DEF LateTerminated, ServerTypeOK
  <2>2. TaskTypeOK'
    BY <1>7 DEF LateTerminated, TaskTypeOK, TaskState
  <2>3. ClientInv'
    BY <1>7 DEF LateTerminated, ClientInv, ClientTypeOK, clientVars
  <2> QED BY <2>1, <2>2, <2>3
<1> QED BY <1>2, <1>3, <1>4, <1>5, <1>6, <1>7 DEF ClientThread

\* Quit() and Shutdown() preserve it.
LEMMA MainThreadInv ==
  ASSUME IInv, MainThread
  PROVE  IInv'
<1>1. UNCHANGED serverVars /\ s2c' = s2c /\ UNCHANGED taskVars
  BY DEF MainThread, QuitKill, QuitShutdown, QuitUnregister, ClientShutdown
<1>2. ServerTypeOK' /\ NoStall'
  BY <1>1, IdleServer DEF IInv, ServerTypeOK
<1>3. TaskTypeOK'
  BY <1>1 DEF IInv, TaskTypeOK, taskVars
<1>4. ClientInv'
  <2>1. CASE QuitKill
    <3>1. Least(kills) \in Ids
      <4>1. IsFiniteSet(kills) /\ kills \subseteq Nat
        BY FS_Subset, IdsAssumption DEF IInv, ClientInv, ClientTypeOK
      <4> QED BY <2>1, <4>1, LeastInSet DEF QuitKill, IInv, ClientInv,
                                             ClientTypeOK
    <3>2. c2s' \in Seq(Request)
      BY <2>1, <3>1, KillMsgType DEF QuitKill, IInv, ClientInv, ClientTypeOK
    <3> QED BY <2>1, <3>2 DEF QuitKill, IInv, ClientInv, ClientTypeOK
  <2>2. CASE QuitShutdown
    <3>1. [op |-> "SHUTDOWN"] \in Request
      BY DEF Request
    <3>2. c2s' \in Seq(Request)
      BY <2>2, <3>1 DEF QuitShutdown, IInv, ClientInv, ClientTypeOK
    <3> QED BY <2>2, <3>2 DEF QuitShutdown, IInv, ClientInv, ClientTypeOK
  <2>3. CASE QuitUnregister
    BY <2>3 DEF QuitUnregister, IInv, ClientInv, ClientTypeOK
  <2>4. CASE ClientShutdown
    BY <2>4 DEF ClientShutdown, IInv, ClientInv, ClientTypeOK
  <2> QED BY <2>1, <2>2, <2>3, <2>4 DEF MainThread
<1> QED BY <1>2, <1>3, <1>4 DEF IInv

\* What is asked of the subsystem, and a crash, preserve it.
LEMMA DemandInv ==
  ASSUME IInv, Demand
  PROVE  IInv'
<1>1. CASE CheckSignaled \/ QuitStart \/ Crash \/ WriteFails
           \/ \E o \in {Normal, Burst} : ClientSetOption(o)
  <2>1. UNCHANGED serverVars /\ s2c' = s2c /\ UNCHANGED taskVars
    BY <1>1 DEF CheckSignaled, QuitStart, Crash, WriteFails, ClientSetOption
  <2>2. ServerTypeOK' /\ NoStall'
    BY <2>1, IdleServer DEF IInv, ServerTypeOK
  <2>3. TaskTypeOK'
    BY <2>1 DEF IInv, TaskTypeOK, taskVars
  <2>4. ClientInv'
    <3> USE DEF IInv, ClientInv, ClientTypeOK
    <3>1. CASE CheckSignaled
      BY <3>1 DEF CheckSignaled
    <3>2. CASE QuitStart
      BY <3>2 DEF QuitStart
    <3>3. CASE Crash
      <4>1. PICK n \in 0..Len(c2s) :
              c2s' = Append(SubSeq(c2s, 1, n), [op |-> "CLOSED"])
        BY <3>3 DEF Crash
      <4>2. SubSeq(c2s, 1, n) \in Seq(Request)
        <5>1. n \in Int /\ \A k \in 1..n : c2s[k] \in Request
          BY LenProperties, ElementOfSeq
        <5> QED BY <5>1, SubSeqProperties
      <4>3. [op |-> "CLOSED"] \in Request
        BY DEF Request
      <4>4. c2s' \in Seq(Request)
        BY <4>1, <4>2, <4>3
      <4> QED BY <3>3, <4>4 DEF Crash, clientVars
    <3>4. ASSUME NEW o \in {Normal, Burst}, ClientSetOption(o)
          PROVE  ClientInv'
      <4>1. [op |-> "SET_OPTION", option |-> o] \in Request
        BY DEF Request
      <4> QED BY <3>4, <4>1 DEF ClientSetOption, clientVars
    <3>5. CASE WriteFails
      BY <3>5 DEF WriteFails, clientVars
    <3> QED BY <1>1, <3>1, <3>2, <3>3, <3>4, <3>5
  <2> QED BY <2>2, <2>3, <2>4 DEF IInv
<1> QED BY <1>1, StartInv, TaskRequestRunInv, TaskKillInv DEF Demand

\* The server process and its children preserve it.
LEMMA ServerSideInv ==
  ASSUME IInv, ServerRead \/ Server \/ \E i \in Ids : Exit(i)
  PROVE  IInv'
<1>1. UNCHANGED <<taskVars, clientVars, up>>
  BY DEF ServerRead, Server, Exit
<1>2. TaskTypeOK'
  BY <1>1 DEF IInv, TaskTypeOK, taskVars
<1>3. ServerTypeOK' /\ NoStall' /\ c2s' \in Seq(Request)
  <2>1. CASE ServerRead
    <3>1. Head(c2s) \in Request /\ Tail(c2s) \in Seq(Request)
      BY <2>1, HeadTailProperties DEF ServerRead, IInv, ClientInv, ClientTypeOK
    <3> QED BY <2>1, <3>1, ServeInv DEF ServerRead, IInv
  <2>2. CASE Server
    BY <2>2, ServerStepInv DEF Server, IInv, ClientInv, ClientTypeOK
  <2>3. ASSUME NEW i \in Ids, Exit(i)
        PROVE  ServerTypeOK' /\ NoStall' /\ c2s' \in Seq(Request)
    BY <2>3, ProcExitInv DEF Exit, IInv, ClientInv, ClientTypeOK
  <2> QED BY <2>1, <2>2, <2>3
<1>4. ClientInv'
  BY <1>1, <1>3 DEF IInv, ClientInv, ClientTypeOK, clientVars
<1> QED BY <1>2, <1>3, <1>4 DEF IInv

\* The invariant holds initially.
LEMMA InitInv == Init => IInv
<1> SUFFICES ASSUME Init  PROVE IInv
  OBVIOUS
<1> USE DEF Init
<1>1. ServerTypeOK /\ NoStall
  <2> USE DEF ServerInit
  <2>1. out \in Seq(Notice) /\ s2c \in Seq(Notice)
    BY EmptySeq
  <2>2. /\ sstate \in [Ids -> State] /\ proc \in [Ids -> Process]
        /\ priority \in [Ids -> Priority] /\ weight \in [Ids -> Weight]
    BY DEF State, Process, Priority, Weight
  <2>3. NoStall
    BY DEF NoStall, Pending
  <2> QED BY <2>1, <2>2, <2>3 DEF ServerTypeOK
<1>2. TaskTypeOK
  BY NoCallType DEF TaskTypeOK, TaskState
<1>3. ClientInv
  BY EmptySeq DEF ClientInv, ClientTypeOK
<1> QED BY <1>1, <1>2, <1>3 DEF IInv

\* Every step preserves the invariant.
LEMMA NextInv == IInv /\ [Next]_vars => IInv'
<1> SUFFICES ASSUME IInv, [Next]_vars  PROVE IInv'
  OBVIOUS
<1>1. CASE UNCHANGED vars
  BY <1>1 DEF vars, serverVars, taskVars, clientVars, IInv, ServerTypeOK,
              NoStall, Pending, TaskTypeOK, ClientInv, ClientTypeOK
<1>2. ASSUME NEW t \in Ids, TaskThread(t)  PROVE IInv'
  BY <1>2, CheckInv, PostInv, DoneInv DEF TaskThread
<1> QED
  BY <1>1, <1>2, DemandInv, ClientThreadInv, MainThreadInv, ServerSideInv
     DEF Next

\* The inductive invariant holds in every reachable state.
THEOREM InductiveInvariant == Spec => []IInv
BY InitInv, NextInv, PTL DEF Spec

\* Every variable of client and server, and every message, has its type.
THEOREM TypeCorrect == Spec => []TypeOK
<1>1. IInv => TypeOK
  BY DEF IInv, TypeOK, ClientInv
<1> QED BY <1>1, InductiveInvariant, PTL

\* The server never sits on a queued subprocess with nothing spawned: there is
\* always an exit to wait for that will make it call TrySpawnSubProcess again.
THEOREM NeverStalls == Spec => []NoStall
<1>1. IInv => NoStall
  BY DEF IInv
<1> QED BY <1>1, InductiveInvariant, PTL

-----------------------------------------------------------------------------
(***************************************************************************)
(* The life of a process: the server never waits for one that is alive,    *)
(* and none outlives it, whatever the client, Quit() or a crash of         *)
(* compiler_proxy do.                                                      *)
(*                                                                         *)
(* EntryOfProcess alone is not inductive: a second REGISTER of an id would *)
(* make an entry PENDING whose process is alive, or whose old SIGCHLD is   *)
(* still unread.  RegisteredOnce excludes it; it ties together the task,   *)
(* the thread between check and post, the messages and the server.         *)
(***************************************************************************)
\* What TrySpawnSubProcess may do to an entry in state s with process pr.
Spawned(s, pr) ==
  \A j \in Ids :
    \/ sstate'[j] = s[j] /\ proc'[j] = pr[j]
    \/ s[j] = "PENDING" /\ sstate'[j] = "RUN" /\ proc'[j] = "alive"
    \/ s[j] = "PENDING" /\ sstate'[j] = "NONE" /\ proc'[j] = pr[j]

\* TrySpawnSubProcess changes PENDING entries only.
LEMMA TrySpawnFrame ==
  ASSUME NEW s \in [Ids -> State], NEW p, NEW w,
         NEW pr \in [Ids -> Process], NEW o, TrySpawn(s, p, w, pr, o)
  PROVE  Spawned(s, pr)
<1>1. ToSpawn(s, p, w) \subseteq {i \in Ids : s[i] = "PENDING"}
  BY ToSpawnPending DEF Pending
<1>2. CASE sstate' = s /\ proc' = pr
  BY <1>2 DEF Spawned
<1>3. CASE \E c \in ToSpawn(s, p, w) :
             /\ sstate' = [s EXCEPT ![c] = "RUN"]
             /\ proc' = [pr EXCEPT ![c] = "alive"]
  BY <1>1, <1>3 DEF Spawned
<1>4. CASE \E c \in ToSpawn(s, p, w) :
             /\ sstate' = [s EXCEPT ![c] = "NONE"]
             /\ proc' = pr
  BY <1>1, <1>4 DEF Spawned
<1> QED BY <1>2, <1>3, <1>4 DEF TrySpawn

\* The part of EntryOfProcess that TrySpawnSubProcess relies on.
Agree(s, pr, sg) ==
  \A i \in Ids :
    /\ s[i] = "PENDING" => pr[i] = "none"
    /\ pr[i] \in {"alive", "killed"} => s[i] = "RUN"
    /\ s[i] = "SIGNALED" \/ i \in sg => pr[i] = "exited"

\* TrySpawnSubProcess keeps entries and processes in agreement.
LEMMA SpawnAgrees ==
  ASSUME NEW s, NEW pr, Agree(s, pr, sigs), Spawned(s, pr), sigs' = sigs
  PROVE  Agree(sstate', proc', sigs')
BY DEF Agree, Spawned

\* Loop() returns at the end of a pass only with no entry left.
LEMMA EndOfPassLeavesNothing ==
  ASSUME NEW written, EndOfPass(written), serving, serving \in BOOLEAN
  PROVE  ~serving' => \A i \in Ids : sstate'[i] = "NONE"
BY DEF EndOfPass

\* Agree is EntryOfProcess while the server is serving.
LEMMA AgreeMeans ==
  /\ EntryOfProcess => Agree(sstate, proc, sigs)
  /\ Agree(sstate', proc', sigs') /\ (~serving' => \A i \in Ids : sstate'[i] = "NONE")
       => EntryOfProcess'
BY DEF EntryOfProcess, Agree

\* A step of the server that spawns: it leaves alone every id that had no entry.
Untouched == \A j \in Ids : sstate[j] = "NONE" /\ proc[j] = "none"
                             => sstate'[j] = "NONE" /\ proc'[j] = "none"

\* Terminated() of an entry whose process, if any, is gone keeps the agreement.
LEMMA TerminatedAgrees ==
  ASSUME ServerTypeOK, EntryOfProcess, NEW i \in Ids, NEW how, NEW o,
         NEW pr \in [Ids -> Process],
         \A j \in Ids : j # i => pr[j] = proc[j],
         pr[i] \in {"none", "exited"}, i \in sigs => pr[i] = "exited",
         proc[i] = "none" => pr[i] = "none" \/ sstate[i] # "NONE",
         Terminated(i, how, pr, o), sigs' = sigs
  PROVE  Agree(sstate', proc', sigs') /\ Untouched
<1> DEFINE s == [sstate EXCEPT ![i] = "NONE"]
<1>1. s \in [Ids -> State]
  BY DEF ServerTypeOK, State
<1>2. Spawned(s, pr)
  BY <1>1, TrySpawnFrame DEF Terminated
<1>3. Agree(s, pr, sigs)
  BY DEF ServerTypeOK, EntryOfProcess, Agree
<1>4. Untouched
  BY <1>2 DEF Spawned, Untouched, ServerTypeOK
<1> QED BY <1>2, <1>3, <1>4, SpawnAgrees

\* Register() of an id the server does not know keeps EntryOfProcess.
LEMMA RegisterLife ==
  ASSUME ServerTypeOK, EntryOfProcess, NEW i \in Ids, NEW p, NEW w,
         Register(i, p, w), sstate[i] = "NONE", proc[i] = "none"
  PROVE  /\ EntryOfProcess'
         /\ \A j \in Ids \ {i} : sstate[j] = "NONE" /\ proc[j] = "none"
              => sstate'[j] = "NONE" /\ proc'[j] = "none"
<1> USE DEF Register
<1>1. serving /\ serving \in BOOLEAN /\ sigs' = sigs
  BY DEF AtSelect, ServerTypeOK
<1>2. CASE shutdowned
  BY <1>1, <1>2, EndOfPassLeavesNothing, AgreeMeans DEF Agree
<1>3. CASE ~shutdowned
  <2> DEFINE s == [sstate EXCEPT ![i] = "PENDING"]
  <2>1. s \in [Ids -> State] /\ proc \in [Ids -> Process]
    BY DEF ServerTypeOK, State
  <2>2. Spawned(s, proc)
    BY <1>3, <2>1, TrySpawnFrame
  <2>3. Agree(s, proc, sigs)
    BY DEF Agree, EntryOfProcess, ServerTypeOK
  <2>4. EntryOfProcess'
    BY <1>1, <2>2, <2>3, SpawnAgrees, EndOfPassLeavesNothing, AgreeMeans
  <2> QED BY <2>2, <2>4 DEF Spawned, ServerTypeOK
<1> QED BY <1>2, <1>3

\* RequestRun() keeps EntryOfProcess.
LEMMA RequestRunLife ==
  ASSUME ServerTypeOK, EntryOfProcess, NEW i \in Ids, RequestRun(i)
  PROVE  EntryOfProcess' /\ Untouched
<1> USE DEF RequestRun
<1>1. serving /\ serving \in BOOLEAN /\ sigs' = sigs
  BY DEF AtSelect, ServerTypeOK
<1>2. Agree(sstate', proc', sigs') /\ Untouched
  <2>1. CASE shutdowned
    BY <1>1, <2>1, AgreeMeans DEF Untouched
  <2>2. CASE ~shutdowned /\ sstate[i] = "NONE"
    <3>1. proc[i] \in {"none", "exited"} /\ (i \in sigs => proc[i] = "exited")
      BY <2>2 DEF EntryOfProcess, ServerTypeOK, Process
    <3> QED BY <1>1, <2>2, <3>1, TerminatedAgrees DEF ServerTypeOK
  <2>3. CASE ~shutdowned /\ sstate[i] # "NONE"
    <3>1. Spawned(sstate, proc)
      BY <2>3, TrySpawnFrame DEF ServerTypeOK
    <3> QED BY <1>1, <3>1, SpawnAgrees, AgreeMeans DEF Spawned, Untouched
  <2> QED BY <2>1, <2>2, <2>3
<1> QED BY <1>1, <1>2, EndOfPassLeavesNothing, AgreeMeans

\* Kill() keeps it: an entry is dropped only if it has no live process.
LEMMA KillLife ==
  ASSUME ServerTypeOK, EntryOfProcess, NEW i \in Ids, Kill(i)
  PROVE  EntryOfProcess' /\ Untouched
<1> USE DEF Kill
<1>1. serving /\ serving \in BOOLEAN /\ sigs' = sigs
  BY DEF AtSelect, ServerTypeOK
<1>2. Agree(sstate', proc', sigs') /\ Untouched
  <2>1. CASE sstate[i] \in {"NONE", "PENDING"}
    <3>1. proc[i] \in {"none", "exited"} /\ (i \in sigs => proc[i] = "exited")
      BY <2>1 DEF EntryOfProcess, ServerTypeOK, Process
    <3> QED BY <1>1, <2>1, <3>1, TerminatedAgrees DEF ServerTypeOK
  <2>2. CASE sstate[i] \in {"RUN", "SIGNALED"}
    <3>1. /\ sstate' = sstate
          /\ \/ proc' = proc
             \/ proc[i] = "alive" /\ proc' = [proc EXCEPT ![i] = "killed"]
      BY <2>2
    <3> QED BY <1>1, <3>1 DEF EntryOfProcess, Agree, Untouched, ServerTypeOK
  <2> QED BY <2>1, <2>2
<1> QED BY <1>1, <1>2, EndOfPassLeavesNothing, AgreeMeans

\* A pass that leaves subprocs_ and the processes alone keeps it.
LEMMA QuietPassLife ==
  ASSUME ServerTypeOK, EntryOfProcess, AtSelect, EndOfPass(Flushed),
         UNCHANGED <<sstate, proc, sigs>>
  PROVE  EntryOfProcess' /\ Untouched
<1>1. Agree(sstate', proc', sigs')
  BY AgreeMeans
<1> QED BY <1>1, EndOfPassLeavesNothing, AgreeMeans
        DEF AtSelect, ServerTypeOK, Untouched

\* The end of the peer keeps it: every process is killed and waited for.
LEMMA PeerClosedLife ==
  ASSUME ServerTypeOK, EntryOfProcess, PeerClosed
  PROVE  EntryOfProcess' /\ Untouched
<1>1. \A i \in Ids : sstate'[i] = "NONE"
  BY DEF PeerClosed
<1>2. \A i \in Ids : /\ proc'[i] = IF sstate[i] \in {"RUN", "SIGNALED"}
                                   THEN "exited" ELSE proc[i]
                     /\ i \in sigs' => i \in sigs
  BY DEF PeerClosed
<1> QED BY <1>1, <1>2 DEF EntryOfProcess, Untouched

\* DoSignal() keeps it: the child that becomes SIGNALED has exited.
LEMMA DoSignalLife ==
  ASSUME ServerTypeOK, EntryOfProcess, NEW i \in Ids, DoSignal(i)
  PROVE  EntryOfProcess' /\ Untouched
<1> USE DEF DoSignal
<1>1. serving /\ serving \in BOOLEAN
  BY DEF AtSelect, ServerTypeOK
<1>2. \A j \in Ids : \/ sstate'[j] = sstate[j]
                     \/ /\ j = i /\ sstate[j] = "RUN"
                        /\ sstate'[j] = "SIGNALED" /\ proc[j] = "exited"
  BY DEF ServerTypeOK, EntryOfProcess
<1>3. Agree(sstate', proc', sigs') /\ Untouched
  BY <1>2 DEF Agree, EntryOfProcess, Untouched
<1> QED BY <1>1, <1>3, EndOfPassLeavesNothing, AgreeMeans

\* DoTimeout() keeps it: what it erases has been reaped.
LEMMA DoTimeoutLife ==
  ASSUME ServerTypeOK, EntryOfProcess, NEW quiet, DoTimeout(quiet)
  PROVE  EntryOfProcess' /\ Untouched
<1> USE DEF DoTimeout
<1> DEFINE i == Least(Reapable)
           pr == [proc EXCEPT ![i] = "exited"]
<1>1. i \in Ids /\ sstate[i] \in {"RUN", "SIGNALED"}
  <2>1. Reapable \in SUBSET Ids
    BY DEF Reapable
  <2>2. IsFiniteSet(Reapable) /\ Reapable \subseteq Nat
    BY <2>1, FS_Subset, IdsAssumption
  <2> QED BY <2>1, <2>2, LeastInSet DEF Reapable
<1>2. /\ pr \in [Ids -> Process] /\ pr[i] = "exited"
      /\ \A j \in Ids : j # i => pr[j] = proc[j]
  BY <1>1 DEF ServerTypeOK, Process
<1>3. Terminated(i, "ran", pr, out) /\ sigs' = sigs /\ serving' = serving
      /\ serving
  OBVIOUS
<1> HIDE DEF i, pr
<1>4. Agree(sstate', proc', sigs') /\ Untouched
  BY <1>1, <1>2, <1>3, TerminatedAgrees
<1> QED BY <1>3, <1>4, AgreeMeans

\* The TrySpawnSubProcess after a failed Spawn() keeps it.
LEMMA RespawnLife ==
  ASSUME ServerTypeOK, EntryOfProcess, Respawn
  PROVE  EntryOfProcess' /\ Untouched
<1> USE DEF Respawn
<1>1. Spawned(sstate, proc)
  BY TrySpawnFrame DEF ServerTypeOK
<1>2. Agree(sstate', proc', sigs') /\ Untouched
  BY <1>1, SpawnAgrees, AgreeMeans DEF Spawned, Untouched
<1>3. ~serving' => \A i \in Ids : sstate'[i] = "NONE"
  BY EndOfPassLeavesNothing DEF ServerTypeOK
<1> QED BY <1>2, <1>3, AgreeMeans

\* The exit of a process keeps it.
LEMMA ProcExitLife ==
  ASSUME ServerTypeOK, EntryOfProcess, NEW i \in Ids, ProcExit(i)
  PROVE  EntryOfProcess' /\ Untouched
<1>1. \A j \in Ids : proc'[j] = IF j = i THEN "exited" ELSE proc[j]
  BY DEF ProcExit, ServerTypeOK
<1>2. /\ sstate' = sstate /\ serving' = serving
      /\ proc[i] \in {"alive", "killed"}
      /\ sigs' \subseteq sigs \cup {i}
  BY DEF ProcExit
<1> QED BY <1>1, <1>2 DEF EntryOfProcess, Untouched

\* What the server does on its own keeps it.
LEMMA ServerStepLife ==
  ASSUME ServerTypeOK, EntryOfProcess, NEW quiet, ServerStep(quiet)
  PROVE  EntryOfProcess' /\ Untouched
<1>1. CASE DoTimeoutEnd
  BY <1>1 DEF DoTimeoutEnd, EntryOfProcess, Untouched
<1>2. CASE DoWrite
  BY <1>2, QuietPassLife DEF DoWrite
<1> QED BY <1>1, <1>2, RespawnLife, DoTimeoutLife, DoSignalLife DEF ServerStep

-----------------------------------------------------------------------------
\* The inductive invariant, relative to IInv.
LInv == RegisteredOnce /\ EntryOfProcess

\* No REGISTER is added to c2s, where it has shrunk only at its end.
NoNewRegister ==
  \A i \in Ids : \A k \in 1..Len(c2s') :
    c2s'[k].op = "REGISTER" /\ c2s'[k].id = i
      => k \in 1..Len(c2s) /\ RegisterAt(i, k)

\* Sending something else than REGISTER registers nothing.
LEMMA AppendOther ==
  ASSUME c2s \in Seq(Request), NEW m \in Request, m.op # "REGISTER",
         c2s' = Append(c2s, m)
  PROVE  NoNewRegister
<1>1. /\ Len(c2s') = Len(c2s) + 1
      /\ \A k \in 1..Len(c2s) : c2s'[k] = c2s[k]
      /\ c2s'[Len(c2s) + 1] = m
  BY AppendProperties
<1>2. Len(c2s) \in Nat
  BY LenProperties
<1> QED BY <1>1, <1>2 DEF NoNewRegister, RegisterAt

\* Neither does sending nothing.
LEMMA SameQueue ==
  ASSUME c2s' = c2s
  PROVE  NoNewRegister
BY DEF NoNewRegister, RegisterAt

\* RegisteredOnce is kept while nothing is registered and unknown ids stay unknown.
LEMMA OnceKept ==
  ASSUME RegisteredOnce, NoNewRegister, Untouched, created' = created,
         \A i \in Ids : /\ call'[i].op = "REGISTER" => call[i].op = "REGISTER"
                        /\ i > created => call'[i] = call[i]
  PROVE  RegisteredOnce'
<1> SUFFICES ASSUME NEW i \in Ids
             PROVE  /\ i > created' => call'[i] = NoCall
                    /\ i > created' \/ call'[i].op = "REGISTER"
                         => ~InFlight(i)'
                    /\ \A k, l \in 1..Len(c2s') :
                         RegisterAt(i, k)' /\ RegisterAt(i, l)' => k = l
                    /\ i > created' \/ call'[i].op = "REGISTER" \/ InFlight(i)'
                         => sstate'[i] = "NONE" /\ proc'[i] = "none"
  BY DEF RegisteredOnce
<1>1. InFlight(i)' => InFlight(i)
  BY DEF NoNewRegister, InFlight, RegisterAt
<1>2. \A k, l \in 1..Len(c2s') : RegisterAt(i, k)' /\ RegisterAt(i, l)' => k = l
  <2> SUFFICES ASSUME NEW k \in 1..Len(c2s'), NEW l \in 1..Len(c2s'),
                      RegisterAt(i, k)', RegisterAt(i, l)'
               PROVE  k = l
    OBVIOUS
  <2>1. /\ k \in 1..Len(c2s) /\ RegisterAt(i, k)
        /\ l \in 1..Len(c2s) /\ RegisterAt(i, l)
    BY DEF NoNewRegister, RegisterAt
  <2> QED BY <2>1 DEF RegisteredOnce
<1> QED BY <1>1, <1>2 DEF RegisteredOnce, Untouched

\* Steps elsewhere keep the invariant.
LEMMA ElsewhereOnce ==
  ASSUME LInv, NoNewRegister, UNCHANGED <<sstate, proc, sigs, serving>>,
         UNCHANGED <<created, call>>
  PROVE  LInv'
<1>1. Untouched
  BY DEF Untouched
<1>2. RegisteredOnce'
  BY <1>1, OnceKept DEF LInv
<1> QED BY <1>2 DEF LInv, EntryOfProcess

\* RegisterTask() keeps it: the new id was never used.
LEMMA StartOnce ==
  ASSUME IInv, LInv, NEW t \in Ids, Start(t)
  PROVE  LInv'
<1> USE DEF Start
<1>1. EntryOfProcess'
  BY DEF LInv, EntryOfProcess, serverVars
<1>2. RegisteredOnce'
  <2> SUFFICES ASSUME NEW i \in Ids
             PROVE  /\ i > created' => call'[i] = NoCall
                    /\ i > created' \/ call'[i].op = "REGISTER"
                         => ~InFlight(i)'
                    /\ \A k, l \in 1..Len(c2s') :
                         RegisterAt(i, k)' /\ RegisterAt(i, l)' => k = l
                    /\ i > created' \/ call'[i].op = "REGISTER" \/ InFlight(i)'
                         => sstate'[i] = "NONE" /\ proc'[i] = "none"
    BY DEF RegisteredOnce
  <2>1. /\ i > created' => i > created /\ i # t
        /\ t > created
    BY IdsAssumption DEF IInv, TaskTypeOK
  <2>2. call'[i] = call[i] \/ i = t
    BY DEF IInv, TaskTypeOK
  <2>3. InFlight(i)' = InFlight(i) /\ sstate' = sstate /\ proc' = proc
    BY DEF InFlight, RegisterAt, serverVars
  <2>4. \A k, l \in 1..Len(c2s') : RegisterAt(i, k)' /\ RegisterAt(i, l)' => k = l
    BY DEF LInv, RegisteredOnce, RegisterAt
  <2> QED BY <2>1, <2>2, <2>3, <2>4 DEF LInv, RegisteredOnce
<1> QED BY <1>1, <1>2 DEF LInv

\* The check under mu_ keeps it.
LEMMA CheckOnce ==
  ASSUME IInv, LInv, NEW t \in Ids, Check(t)
  PROVE  LInv'
<1> USE DEF Check
<1>1. EntryOfProcess' /\ Untouched
  BY DEF LInv, EntryOfProcess, serverVars, Untouched
<1>2. \A i \in Ids : /\ call'[i].op = "REGISTER" => call[i].op = "REGISTER"
                     /\ i > created => call'[i] = call[i]
  <2>1. call[t] \in Call /\ call[t] # NoCall
    BY DEF IInv, TaskTypeOK, NoCall
  <2>2. call'[t].op \in {"none", call[t].op}
    BY <2>1 DEF Call, NoCall, IInv, TaskTypeOK
  <2>3. ~(t > created)
    BY <2>1 DEF LInv, RegisteredOnce
  <2>4. \A i \in Ids : i # t => call'[i] = call[i]
    BY DEF IInv, TaskTypeOK
  <2> QED BY <2>2, <2>3, <2>4
<1> QED BY <1>1, <1>2, SameQueue, OnceKept DEF LInv

\* Posting the request keeps it: a REGISTER is the first and only one of its id.
LEMMA PostOnce ==
  ASSUME IInv, LInv, NEW t \in Ids, Post(t)
  PROVE  LInv'
<1> USE DEF Post
<1>1. EntryOfProcess' /\ Untouched
  BY DEF LInv, EntryOfProcess, serverVars, Untouched
<1>2. PICK w \in Weight : c2s' = Append(c2s, RequestOf(t, w))
  OBVIOUS
<1>3. call[t].op \in {"REGISTER", "REQUEST_RUN", "KILL"}
  BY DEF IInv, TaskTypeOK, Call, NoCall
<1>4. /\ RequestOf(t, w) \in Request
      /\ RequestOf(t, w).op = call[t].op /\ RequestOf(t, w).id = t
  BY <1>3 DEF RequestOf, Request, Priority
<1>5. c2s \in Seq(Request) /\ Len(c2s) \in Nat
  BY LenProperties DEF IInv, ClientInv, ClientTypeOK
<1>6. /\ Len(c2s') = Len(c2s) + 1
      /\ \A k \in 1..Len(c2s) : c2s'[k] = c2s[k]
      /\ c2s'[Len(c2s) + 1] = RequestOf(t, w)
  BY <1>2, <1>4, <1>5, AppendProperties
<1>7. /\ ~(t > created)
      /\ call'[t] = NoCall
      /\ \A i \in Ids : i # t => call'[i] = call[i]
  BY <1>3 DEF LInv, RegisteredOnce, NoCall, IInv, TaskTypeOK
<1>8. RegisteredOnce'
  <2>1. CASE call[t].op # "REGISTER"
    <3>1. NoNewRegister
      BY <1>2, <1>4, <1>5, <2>1, AppendOther
    <3> QED BY <1>1, <1>7, <3>1, OnceKept DEF LInv, NoCall
  <2>2. CASE call[t].op = "REGISTER"
    <3> SUFFICES ASSUME NEW i \in Ids
             PROVE  /\ i > created' => call'[i] = NoCall
                    /\ i > created' \/ call'[i].op = "REGISTER"
                         => ~InFlight(i)'
                    /\ \A k, l \in 1..Len(c2s') :
                         RegisterAt(i, k)' /\ RegisterAt(i, l)' => k = l
                    /\ i > created' \/ call'[i].op = "REGISTER" \/ InFlight(i)'
                         => sstate'[i] = "NONE" /\ proc'[i] = "none"
      BY DEF RegisteredOnce
    <3>1. ~InFlight(t) /\ sstate[t] = "NONE" /\ proc[t] = "none"
      BY <2>2 DEF LInv, RegisteredOnce
    <3>2. \A k \in 1..Len(c2s') :
            RegisterAt(i, k)' => \/ k \in 1..Len(c2s) /\ RegisterAt(i, k)
                                 \/ k = Len(c2s) + 1 /\ i = t
      BY <1>4, <1>5, <1>6 DEF RegisterAt
    <3>3. InFlight(i)' => InFlight(i) \/ i = t
      BY <3>2 DEF InFlight
    <3>4. \A k, l \in 1..Len(c2s') : RegisterAt(i, k)' /\ RegisterAt(i, l)' => k = l
      BY <3>1, <3>2 DEF LInv, RegisteredOnce, InFlight
    <3>5. created' = created /\ sstate' = sstate /\ proc' = proc
      BY DEF serverVars
    <3> QED BY <1>7, <3>1, <3>3, <3>4, <3>5 DEF LInv, RegisteredOnce, NoCall
  <2> QED BY <2>1, <2>2
<1> QED BY <1>1, <1>8 DEF LInv

\* The other methods of a task keep it.
LEMMA OwnerOnce ==
  ASSUME IInv, LInv, NEW t \in Ids, TaskRequestRun(t) \/ TaskKill(t) \/ Done(t)
  PROVE  LInv'
<1>1. EntryOfProcess' /\ Untouched
  BY DEF TaskRequestRun, TaskKill, Done, LInv, EntryOfProcess, serverVars,
         Untouched
<1>2. \A i \in Ids : /\ call'[i].op = "REGISTER" => call[i].op = "REGISTER"
                     /\ i > created => call'[i] = call[i]
  <2>1. t <= created /\ created \in Nat /\ t \in Nat
    BY IdsAssumption DEF TaskRequestRun, TaskKill, Done, Idle, Alive, IInv,
                         TaskTypeOK
  <2>2. \A i \in Ids : call'[i] = call[i] \/ (i = t /\ call'[i].op # "REGISTER")
    BY DEF TaskRequestRun, TaskKill, Done, IInv, TaskTypeOK
  <2> QED BY <2>1, <2>2
<1>3. c2s' = c2s /\ created' = created
  BY DEF TaskRequestRun, TaskKill, Done
<1> QED BY <1>1, <1>2, <1>3, SameQueue, OnceKept DEF LInv

\* The client thread, Quit() and Shutdown() keep it.
LEMMA ClientThreadOnce ==
  ASSUME IInv, LInv, ClientThread \/ MainThread
  PROVE  LInv'
<1>1. /\ UNCHANGED <<sstate, proc, sigs, serving>>
      /\ UNCHANGED <<created, call>>
  BY DEF ClientThread, ClientStarted, ClientTerminated, ClientClosed,
         ClientKillCheck, ClientKillPost, LateTerminated, MainThread, QuitKill,
         QuitShutdown, QuitUnregister, ClientShutdown, serverVars, taskVars
<1>2. NoNewRegister
  <2>1. CASE c2s' = c2s
    BY <2>1, SameQueue
  <2>2. CASE \E i \in Ids : c2s' = Append(c2s, KillMsg(i))
    <3>1. PICK i \in Ids : c2s' = Append(c2s, KillMsg(i))
      BY <2>2
    <3>2. KillMsg(i) \in Request /\ KillMsg(i).op # "REGISTER"
      BY KillMsgType DEF KillMsg
    <3> QED BY <3>1, <3>2, AppendOther DEF IInv, ClientInv, ClientTypeOK
  <2>3. CASE c2s' = Append(c2s, [op |-> "SHUTDOWN"])
    <3>1. [op |-> "SHUTDOWN"] \in Request
      BY DEF Request
    <3> QED BY <2>3, <3>1, AppendOther DEF IInv, ClientInv, ClientTypeOK
  <2>4. \A S \in SUBSET Ids : S # {} => Least(S) \in Ids
    BY FS_Subset, IdsAssumption, LeastInSet
  <2>5. CASE QuitKill
    <3>1. Least(kills) \in Ids
      BY <2>4, <2>5 DEF QuitKill, IInv, ClientInv, ClientTypeOK
    <3> QED BY <2>1, <2>2, <2>5, <3>1 DEF QuitKill
  <2>6. CASE ClientKillPost
    <3>1. Least(ckills) \in Ids
      BY <2>4, <2>6 DEF ClientKillPost, IInv, ClientInv, ClientTypeOK
    <3> QED BY <2>2, <2>6, <3>1 DEF ClientKillPost
  <2>7. CASE QuitShutdown
    BY <2>3, <2>7 DEF QuitShutdown
  <2> QED BY <2>1, <2>5, <2>6, <2>7
          DEF ClientThread, ClientStarted, ClientTerminated, ClientClosed,
              ClientKillCheck, LateTerminated, MainThread, QuitUnregister,
              ClientShutdown
<1> QED BY <1>1, <1>2, ElsewhereOnce

\* A crash, which truncates what was sent, keeps it.
LEMMA CrashOnce ==
  ASSUME IInv, LInv, Crash
  PROVE  LInv'
<1>1. PICK n \in 0..Len(c2s) :
        c2s' = Append(SubSeq(c2s, 1, n), [op |-> "CLOSED"])
  BY DEF Crash
<1>2. c2s \in Seq(Request) /\ Len(c2s) \in Nat
  BY LenProperties DEF IInv, ClientInv, ClientTypeOK
<1>3. /\ SubSeq(c2s, 1, n) \in Seq(Request)
      /\ Len(SubSeq(c2s, 1, n)) = n
      /\ \A k \in 1..n : SubSeq(c2s, 1, n)[k] = c2s[k]
  <2>1. n \in Int /\ \A k \in 1..n : c2s[k] \in Request
    BY <1>2, ElementOfSeq
  <2> QED BY <2>1, SubSeqProperties
<1>4. /\ Len(c2s') = n + 1
      /\ \A k \in 1..n : c2s'[k] = c2s[k]
      /\ c2s'[n + 1] = [op |-> "CLOSED"]
  <2>1. [op |-> "CLOSED"] \in Request
    BY DEF Request
  <2> QED BY <1>1, <1>3, <2>1, AppendProperties
<1>5. NoNewRegister
  BY <1>2, <1>4 DEF NoNewRegister, RegisterAt
<1> QED BY <1>5, ElsewhereOnce DEF Crash, serverVars, taskVars

\* What is asked of the subsystem keeps it.
LEMMA DemandOnce ==
  ASSUME IInv, LInv, Demand
  PROVE  LInv'
<1>1. CASE CheckSignaled \/ QuitStart \/ WriteFails
  BY <1>1, SameQueue, ElsewhereOnce
     DEF CheckSignaled, QuitStart, WriteFails, serverVars, taskVars
<1>2. ASSUME NEW o \in {Normal, Burst}, ClientSetOption(o)
      PROVE  LInv'
  <2>1. [op |-> "SET_OPTION", option |-> o] \in Request
    BY DEF Request
  <2>2. NoNewRegister
    BY <1>2, <2>1, AppendOther DEF ClientSetOption, IInv, ClientInv,
                                   ClientTypeOK
  <2> QED BY <1>2, <2>2, ElsewhereOnce
          DEF ClientSetOption, serverVars, taskVars
<1> QED BY <1>1, <1>2, CrashOnce, StartOnce, OwnerOnce DEF Demand

\* Reading a request keeps it.
LEMMA ServerReadOnce ==
  ASSUME IInv, LInv, ServerRead
  PROVE  LInv'
<1> DEFINE m == Head(c2s)
<1>1. /\ c2s \in Seq(Request) /\ c2s # <<>>
      /\ Serve(m) /\ c2s' = Tail(c2s)
      /\ created' = created /\ call' = call
  BY DEF ServerRead, IInv, ClientInv, ClientTypeOK, taskVars
<1>2. /\ m \in Request /\ m = c2s[1]
      /\ Len(c2s) \in Nat \ {0}
      /\ Len(c2s') = Len(c2s) - 1
      /\ \A k \in 1..Len(c2s') : c2s'[k] = c2s[k + 1]
  BY <1>1, HeadTailProperties, EmptySeq
<1> HIDE DEF m
<1>3. ServerTypeOK /\ EntryOfProcess
  BY DEF IInv, LInv
<1>4. \A i \in Ids : \A k \in 1..Len(c2s') :
        RegisterAt(i, k)' => k + 1 \in 1..Len(c2s) /\ RegisterAt(i, k + 1)
  BY <1>2 DEF RegisterAt
<1>5. \A i \in Ids : InFlight(i)' => InFlight(i)
  BY <1>4 DEF InFlight
<1>6. \A i \in Ids : \A k, l \in 1..Len(c2s') :
        RegisterAt(i, k)' /\ RegisterAt(i, l)' => k = l
  <2> SUFFICES ASSUME NEW i \in Ids, NEW k \in 1..Len(c2s'),
                      NEW l \in 1..Len(c2s'),
                      RegisterAt(i, k)', RegisterAt(i, l)'
               PROVE  k = l
    OBVIOUS
  <2>1. k + 1 = l + 1
    BY <1>4 DEF LInv, RegisteredOnce
  <2> QED BY <1>2, <2>1
<1>7. CASE m.op = "REGISTER" /\ Register(m.id, m.priority, m.weight)
  <2>1. PICK r \in Ids : r = m.id
    BY <1>2, <1>7 DEF Request
  <2>2. RegisterAt(r, 1) /\ 1 \in 1..Len(c2s)
    BY <1>2, <1>7, <2>1 DEF RegisterAt
  <2>3. /\ sstate[r] = "NONE" /\ proc[r] = "none"
        /\ ~(r > created) /\ call[r].op # "REGISTER"
    BY <2>1, <2>2 DEF LInv, RegisteredOnce, InFlight
  <2>4. ~InFlight(r)'
    <3> SUFFICES ASSUME NEW k \in 1..Len(c2s'), RegisterAt(r, k)'
                 PROVE  FALSE
      BY DEF InFlight
    <3>1. k + 1 = 1
      BY <1>4, <2>1, <2>2 DEF LInv, RegisteredOnce
    <3> QED BY <1>2, <3>1
  <2>5. /\ EntryOfProcess'
        /\ \A j \in Ids \ {r} : sstate[j] = "NONE" /\ proc[j] = "none"
             => sstate'[j] = "NONE" /\ proc'[j] = "none"
    BY <1>3, <1>7, <2>1, <2>3, RegisterLife
  <2>6. RegisteredOnce'
    BY <1>1, <1>5, <1>6, <2>3, <2>4, <2>5 DEF LInv, RegisteredOnce
  <2> QED BY <2>5, <2>6 DEF LInv
<1>8. CASE EntryOfProcess' /\ Untouched
  <2>1. RegisteredOnce'
    BY <1>1, <1>5, <1>6, <1>8 DEF LInv, RegisteredOnce, Untouched
  <2> QED BY <1>8, <2>1 DEF LInv
<1>9. CASE \/ m.op = "SET_OPTION" /\ SetOption(m.option)
           \/ m.op = "SHUTDOWN" /\ Shutdown
  BY <1>3, <1>8, <1>9, QuietPassLife DEF SetOption, Shutdown
<1>10. CASE \/ m.op = "REQUEST_RUN" /\ RequestRun(m.id)
            \/ m.op = "KILL" /\ Kill(m.id)
  <2>1. m.id \in Ids
    BY <1>2, <1>10 DEF Request
  <2> QED BY <1>3, <1>8, <1>10, <2>1, RequestRunLife, KillLife
<1>11. CASE m.op = "CLOSED" /\ PeerClosed
  BY <1>3, <1>8, <1>11, PeerClosedLife
<1> QED BY <1>1, <1>7, <1>9, <1>10, <1>11 DEF Serve

\* What the server and its children do on their own keeps it.
LEMMA ServerSideOnce ==
  ASSUME IInv, LInv, Server \/ \E i \in Ids : Exit(i)
  PROVE  LInv'
<1>1. c2s' = c2s /\ created' = created /\ call' = call
  BY DEF Server, Exit, taskVars
<1>2. EntryOfProcess' /\ Untouched
  BY ServerStepLife, ProcExitLife DEF Server, Exit, IInv, LInv
<1>3. RegisteredOnce'
  BY <1>1, <1>2, SameQueue, OnceKept DEF LInv
<1> QED BY <1>2, <1>3 DEF LInv

\* The invariant holds initially.
LEMMA InitLife == Init => LInv
BY DEF Init, ServerInit, LInv, RegisteredOnce, EntryOfProcess, InFlight,
       RegisterAt

\* Every step keeps the invariant.
LEMMA NextLife == IInv /\ LInv /\ [Next]_vars => LInv'
<1> SUFFICES ASSUME IInv, LInv, [Next]_vars  PROVE LInv'
  OBVIOUS
<1>1. CASE UNCHANGED vars
  BY <1>1, SameQueue, ElsewhereOnce DEF vars, serverVars, taskVars
<1>2. ASSUME NEW t \in Ids, TaskThread(t)  PROVE LInv'
  BY <1>2, CheckOnce, PostOnce, OwnerOnce DEF TaskThread
<1> QED BY <1>1, <1>2, DemandOnce, ClientThreadOnce, ServerReadOnce,
           ServerSideOnce DEF Next

\* The inductive invariant holds in every reachable state.
THEOREM LifetimeInvariant == Spec => []LInv
BY InitLife, NextLife, InductiveInvariant, PTL DEF Spec

\* An id is registered once, with a server that does not know it, though the
\* check and the post of RegisterTask are two steps and Quit() may come between.
THEOREM IdsAreRegisteredOnce == Spec => []RegisteredOnce
<1>1. LInv => RegisteredOnce
  BY DEF LInv
<1> QED BY <1>1, LifetimeInvariant, PTL

\* subprocs_ and the processes agree, whatever order kills, exits, SIGCHLDs and
\* the shutdown come in.
THEOREM EntriesMatchProcesses == Spec => []EntryOfProcess
<1>1. LInv => EntryOfProcess
  BY DEF LInv
<1> QED BY <1>1, LifetimeInvariant, PTL

\* A SIGNALED entry has a process that has exited: the blocking waitpid of
\* DoTimeout returns at once, and no healthy process is killed.
THEOREM NeverWaitsForTheLiving == Spec => []SignaledIsDead
<1>1. LInv => SignaledIsDead
  BY DEF LInv, EntryOfProcess, SignaledIsDead
<1> QED BY <1>1, LifetimeInvariant, PTL

\* When Loop() has returned no process is left, after a shutdown as after the loss
\* of the client, for every interleaving of Quit(), crash, spawns and exits.
THEOREM LeavesNoOrphan == Spec => []NoOrphanProcess
<1>1. IInv /\ LInv => NoOrphanProcess
  BY DEF IInv, ServerTypeOK, Process, LInv, EntryOfProcess, NoOrphanProcess
<1> QED BY <1>1, InductiveInvariant, LifetimeInvariant, PTL

-----------------------------------------------------------------------------
(***************************************************************************)
(* What the server tells the client: STARTED and TERMINATED reach a task   *)
(* in the order its CHECKs expect, its callback runs once and after its    *)
(* process is gone, and the server closes the socket in quit only, after   *)
(* every task was told.                                                    *)
(***************************************************************************)
\* A message is in a queue, and in it once.
In(q, m) == \E k \in 1..Len(q) : q[k] = m
Once(q, m) == \A k, l \in 1..Len(q) : q[k] = m /\ q[l] = m => k = l

\* Membership after Append.
LEMMA InAppend ==
  ASSUME NEW S, NEW q \in Seq(S), NEW x \in S, NEW m
  PROVE  In(Append(q, x), m) <=> In(q, m) \/ x = m
<1>1. /\ Len(Append(q, x)) = Len(q) + 1 /\ Len(q) \in Nat
      /\ \A k \in 1..Len(q) : Append(q, x)[k] = q[k]
      /\ Append(q, x)[Len(q) + 1] = x
  BY AppendProperties, LenProperties
<1> HIDE DEF In
<1>2. ASSUME In(q, m)  PROVE In(Append(q, x), m)
  <2>1. PICK k \in 1..Len(q) : q[k] = m
    BY <1>2 DEF In
  <2>2. k \in 1..(Len(q) + 1) /\ Append(q, x)[k] = m
    BY <1>1, <2>1
  <2> QED BY <1>1, <2>2 DEF In
<1>3. ASSUME x = m  PROVE In(Append(q, x), m)
  <2>1. Len(q) + 1 \in 1..(Len(q) + 1)
    BY <1>1
  <2> QED BY <1>1, <1>3, <2>1 DEF In
<1>4. ASSUME In(Append(q, x), m), x # m  PROVE In(q, m)
  <2>1. PICK k \in 1..(Len(q) + 1) : Append(q, x)[k] = m
    BY <1>1, <1>4 DEF In
  <2>2. k \in 1..Len(q)
    BY <1>1, <1>4, <2>1
  <2> QED BY <1>1, <2>1, <2>2 DEF In
<1> QED BY <1>2, <1>3, <1>4

\* Membership after concatenation.
LEMMA InConcat ==
  ASSUME NEW S, NEW q \in Seq(S), NEW r \in Seq(S), NEW m
  PROVE  In(q \o r, m) <=> In(q, m) \/ In(r, m)
<1>1. /\ Len(q \o r) = Len(q) + Len(r) /\ Len(q) \in Nat /\ Len(r) \in Nat
      /\ \A i \in 1..(Len(q) + Len(r)) :
           (q \o r)[i] = IF i <= Len(q) THEN q[i] ELSE r[i - Len(q)]
  BY ConcatProperties, LenProperties
<1>2. ASSUME In(q, m)  PROVE In(q \o r, m)
  <2>1. PICK k \in 1..Len(q) : q[k] = m
    BY <1>2 DEF In
  <2>2. k \in 1..(Len(q) + Len(r)) /\ (q \o r)[k] = m
    BY <1>1, <2>1
  <2> QED BY <1>1, <2>2 DEF In
<1>3. ASSUME In(r, m)  PROVE In(q \o r, m)
  <2>1. PICK k \in 1..Len(r) : r[k] = m
    BY <1>3 DEF In
  <2>2. k + Len(q) \in 1..(Len(q) + Len(r)) /\ ~(k + Len(q) <= Len(q))
        /\ (k + Len(q)) - Len(q) = k
    BY <1>1, <2>1
  <2>3. (q \o r)[k + Len(q)] = m
    BY <1>1, <2>1, <2>2
  <2> QED BY <1>1, <2>2, <2>3 DEF In
<1>4. ASSUME In(q \o r, m)  PROVE In(q, m) \/ In(r, m)
  <2>1. PICK k \in 1..(Len(q) + Len(r)) : (q \o r)[k] = m
    BY <1>1, <1>4 DEF In
  <2>2. CASE k <= Len(q)
    <3>1. k \in 1..Len(q) /\ q[k] = m
      BY <1>1, <2>1, <2>2
    <3> QED BY <3>1 DEF In
  <2>3. CASE ~(k <= Len(q))
    <3>1. k - Len(q) \in 1..Len(r) /\ r[k - Len(q)] = m
      BY <1>1, <2>1, <2>3
    <3> QED BY <3>1 DEF In
  <2> QED BY <2>2, <2>3
<1> QED BY <1>2, <1>3, <1>4

\* Membership in what is left after the head is taken.
LEMMA InTail ==
  ASSUME NEW S, NEW q \in Seq(S), q # <<>>, NEW m
  PROVE  /\ In(q, m) <=> Head(q) = m \/ In(Tail(q), m)
         /\ Once(q, m) => /\ Once(Tail(q), m)
                          /\ Head(q) = m => ~In(Tail(q), m)
<1>1. /\ Len(Tail(q)) = Len(q) - 1 /\ Len(q) \in Nat \ {0} /\ Head(q) = q[1]
      /\ \A k \in 1..Len(Tail(q)) : Tail(q)[k] = q[k + 1]
  BY HeadTailProperties, EmptySeq
<1>2. ASSUME In(q, m), Head(q) # m  PROVE In(Tail(q), m)
  <2>1. PICK k \in 1..Len(q) : q[k] = m
    BY <1>2 DEF In
  <2>2. k - 1 \in 1..Len(Tail(q)) /\ (k - 1) + 1 = k
    BY <1>1, <1>2, <2>1
  <2>3. Tail(q)[k - 1] = m
    BY <1>1, <2>1, <2>2
  <2> QED BY <2>2, <2>3 DEF In
<1>3. ASSUME In(Tail(q), m)  PROVE \E k \in 1..Len(q) : k # 1 /\ q[k] = m
  <2>1. PICK k \in 1..Len(Tail(q)) : Tail(q)[k] = m
    BY <1>3 DEF In
  <2>2. k + 1 \in 1..Len(q) /\ k + 1 # 1 /\ q[k + 1] = m
    BY <1>1, <2>1
  <2> QED BY <2>2
<1>4. ASSUME Head(q) = m  PROVE 1 \in 1..Len(q) /\ q[1] = m
  BY <1>1, <1>4
<1>5. In(q, m) <=> Head(q) = m \/ In(Tail(q), m)
  BY <1>2, <1>3, <1>4 DEF In
<1>6. ASSUME Once(q, m)  PROVE Once(Tail(q), m)
  <2> SUFFICES ASSUME NEW k \in 1..Len(Tail(q)), NEW l \in 1..Len(Tail(q)),
                      Tail(q)[k] = m, Tail(q)[l] = m
               PROVE  k = l
    BY DEF Once
  <2>1. /\ k + 1 \in 1..Len(q) /\ l + 1 \in 1..Len(q)
        /\ q[k + 1] = m /\ q[l + 1] = m
    BY <1>1
  <2>2. k + 1 = l + 1
    BY <1>6, <2>1 DEF Once
  <2> QED BY <1>1, <2>2
<1>7. ASSUME Once(q, m), Head(q) = m, In(Tail(q), m)  PROVE FALSE
  BY <1>3, <1>4, <1>7 DEF Once
<1> QED BY <1>5, <1>6, <1>7

\* What is sent once more is in a queue once if it was not in it.
LEMMA OnceAppend ==
  ASSUME NEW S, NEW q \in Seq(S), NEW x \in S, NEW m,
         Once(q, m), x = m => ~In(q, m)
  PROVE  Once(Append(q, x), m)
<1>1. /\ Len(Append(q, x)) = Len(q) + 1 /\ Len(q) \in Nat
      /\ \A k \in 1..Len(q) : Append(q, x)[k] = q[k]
      /\ Append(q, x)[Len(q) + 1] = x
  BY AppendProperties, LenProperties
<1> SUFFICES ASSUME NEW k \in 1..(Len(q) + 1), NEW l \in 1..(Len(q) + 1),
                    Append(q, x)[k] = m, Append(q, x)[l] = m
             PROVE  k = l
  BY <1>1 DEF Once
<1>2. /\ (k \in 1..Len(q) /\ q[k] = m) \/ (k = Len(q) + 1 /\ x = m)
      /\ (l \in 1..Len(q) /\ q[l] = m) \/ (l = Len(q) + 1 /\ x = m)
  BY <1>1
<1> QED BY <1>2 DEF Once, In

\* The same when a queue is written behind another.
LEMMA OnceConcat ==
  ASSUME NEW S, NEW q \in Seq(S), NEW r \in Seq(S), NEW m,
         Once(q, m), Once(r, m), ~(In(q, m) /\ In(r, m))
  PROVE  Once(q \o r, m)
<1>1. /\ Len(q \o r) = Len(q) + Len(r) /\ Len(q) \in Nat /\ Len(r) \in Nat
      /\ \A i \in 1..(Len(q) + Len(r)) :
           (q \o r)[i] = IF i <= Len(q) THEN q[i] ELSE r[i - Len(q)]
  BY ConcatProperties, LenProperties
<1> SUFFICES ASSUME NEW k \in 1..(Len(q) + Len(r)), NEW l \in 1..(Len(q) + Len(r)),
                    (q \o r)[k] = m, (q \o r)[l] = m
             PROVE  k = l
  BY <1>1 DEF Once
<1>2. \/ k \in 1..Len(q) /\ q[k] = m
      \/ k - Len(q) \in 1..Len(r) /\ r[k - Len(q)] = m
  BY <1>1
<1>3. \/ l \in 1..Len(q) /\ q[l] = m
      \/ l - Len(q) \in 1..Len(r) /\ r[l - Len(q)] = m
  BY <1>1
<1>4. CASE k \in 1..Len(q) /\ q[k] = m
  BY <1>3, <1>4 DEF Once, In
<1>5. CASE k - Len(q) \in 1..Len(r) /\ r[k - Len(q)] = m
  <2>1. l - Len(q) \in 1..Len(r) /\ r[l - Len(q)] = m
    BY <1>3, <1>5 DEF In
  <2>2. k - Len(q) = l - Len(q)
    BY <1>5, <2>1 DEF Once
  <2> QED BY <1>1, <2>2
<1> QED BY <1>2, <1>4, <1>5

-----------------------------------------------------------------------------
(***************************************************************************)
(* What a step of the server adds to the notices on their way.             *)
(***************************************************************************)
Ends(q, t) == \E how \in Status : In(q, TerminatedMsg(t, how))

\* The notices the client has yet to read: the socket and pending_write_.
Heard(j) == In(s2c, Started(j)) \/ In(out, Started(j))
HeardOnce(j) == /\ Once(s2c, Started(j)) /\ Once(out, Started(j))
                /\ ~(In(s2c, Started(j)) /\ In(out, Started(j)))
Ended(j) == Ends(s2c, j) \/ Ends(out, j)

\* Notices differ when they say something else.
LEMMA NoticesDiffer ==
  ASSUME NEW i, NEW j, NEW h, NEW g
  PROVE  /\ Started(i) = Started(j) <=> i = j
         /\ TerminatedMsg(i, h) = TerminatedMsg(j, g) => i = j
         /\ Started(i) # TerminatedMsg(j, h)
         /\ Closed # Started(i) /\ Closed # TerminatedMsg(i, h)
<1>1. /\ Started(i).op = "STARTED" /\ Started(i).id = i /\ Started(j).id = j
      /\ TerminatedMsg(i, h).op = "TERMINATED" /\ TerminatedMsg(i, h).id = i
      /\ TerminatedMsg(j, g).id = j /\ TerminatedMsg(j, h).op = "TERMINATED"
      /\ Closed.op = "CLOSED"
  BY DEF Started, TerminatedMsg, Closed
<1>2. i = j => Started(i) = Started(j)
  OBVIOUS
<1> QED BY <1>1, <1>2

\* They are notices.
LEMMA AreNotices ==
  ASSUME NEW i \in Ids, NEW h \in Status
  PROVE  Started(i) \in Notice /\ TerminatedMsg(i, h) \in Notice
         /\ Closed \in Notice
BY DEF Started, TerminatedMsg, Closed, Notice

\* Sending one notice.
LEMMA SendOne ==
  ASSUME NEW q \in Seq(Notice), NEW j \in Ids, NEW i \in Ids, NEW h \in Status
  PROVE  /\ In(Append(q, Started(i)), Started(j)) <=> In(q, Started(j)) \/ i = j
         /\ Ends(Append(q, Started(i)), j) <=> Ends(q, j)
         /\ In(Append(q, TerminatedMsg(i, h)), Started(j)) <=> In(q, Started(j))
         /\ Ends(Append(q, TerminatedMsg(i, h)), j) <=> Ends(q, j) \/ i = j
         /\ In(Append(q, Closed), Started(j)) <=> In(q, Started(j))
         /\ Ends(Append(q, Closed), j) <=> Ends(q, j)
         /\ In(Append(q, Started(i)), Closed) <=> In(q, Closed)
         /\ In(Append(q, TerminatedMsg(i, h)), Closed) <=> In(q, Closed)
<1>1. Started(i) \in Notice /\ TerminatedMsg(i, h) \in Notice /\ Closed \in Notice
  BY AreNotices
<1>2. \A m : /\ In(Append(q, Started(i)), m) <=> In(q, m) \/ Started(i) = m
             /\ In(Append(q, TerminatedMsg(i, h)), m)
                  <=> In(q, m) \/ TerminatedMsg(i, h) = m
             /\ In(Append(q, Closed), m) <=> In(q, m) \/ Closed = m
  BY <1>1, InAppend
<1>3. \A g : /\ Started(i) = Started(j) <=> i = j
             /\ TerminatedMsg(i, h) = TerminatedMsg(j, g) => i = j
             /\ Started(i) # TerminatedMsg(j, g) /\ Started(j) # TerminatedMsg(i, g)
             /\ Closed # Started(j) /\ Closed # TerminatedMsg(j, g)
             /\ Closed # Started(i) /\ Closed # TerminatedMsg(i, g)
  BY NoticesDiffer
<1>4. Ends(Append(q, TerminatedMsg(i, h)), j) <=> Ends(q, j) \/ i = j
  BY <1>2, <1>3 DEF Ends
<1> QED BY <1>2, <1>3, <1>4 DEF Ends

\* TrySpawnSubProcess says STARTED of a PENDING entry that runs from now on, or
\* TERMINATED of one that fails.  It was called with states s and notices o.
Tells(s, o, j) ==
  /\ Ends(o, j) => Ends(out', j)
  /\ Once(o, Started(j)) /\ (s[j] = "PENDING" => ~In(o, Started(j)))
       => Once(out', Started(j))
  /\ \/ /\ sstate'[j] = s[j]
        /\ In(out', Started(j)) => In(o, Started(j))
        /\ Ends(out', j) => Ends(o, j)
     \/ /\ s[j] = "PENDING" /\ sstate'[j] = "RUN"
        /\ Ends(out', j) => Ends(o, j)
     \/ /\ s[j] = "PENDING" /\ sstate'[j] = "NONE"
        /\ Ends(out', j)
        /\ In(out', Started(j)) => In(o, Started(j))

\* A scan for candidates tells about each entry what Tells allows.
LEMMA SpawnTells ==
  ASSUME NEW s \in [Ids -> State], NEW p, NEW w, NEW pr, NEW o \in Seq(Notice),
         TrySpawn(s, p, w, pr, o)
  PROVE  /\ In(out', Closed) => In(o, Closed)
         /\ \A j \in Ids : Tells(s, o, j)
<1>1. ToSpawn(s, p, w) \subseteq {i \in Ids : s[i] = "PENDING"}
  BY ToSpawnPending DEF Pending
<1>2. CASE sstate' = s /\ out' = o
  BY <1>2 DEF Tells
<1>3. ASSUME NEW c \in ToSpawn(s, p, w), sstate' = [s EXCEPT ![c] = "RUN"],
             out' = Append(o, Started(c))
      PROVE  /\ In(out', Closed) => In(o, Closed)
             /\ \A j \in Ids : Tells(s, o, j)
  <2>1. c \in Ids /\ s[c] = "PENDING"
    BY <1>1
  <2>2. In(out', Closed) => In(o, Closed)
    BY <1>3, <2>1, SendOne DEF Status
  <2> SUFFICES ASSUME NEW j \in Ids  PROVE Tells(s, o, j)
    BY <2>2
  <2>3. /\ In(out', Started(j)) <=> In(o, Started(j)) \/ c = j
        /\ Ends(out', j) <=> Ends(o, j)
    BY <1>3, <2>1, SendOne DEF Status
  <2>4. Started(c) \in Notice /\ (Started(c) = Started(j) => c = j)
    BY <2>1, AreNotices, NoticesDiffer DEF Status
  <2>5. Once(o, Started(j)) /\ (s[j] = "PENDING" => ~In(o, Started(j)))
          => Once(out', Started(j))
    BY <1>3, <2>1, <2>4, OnceAppend
  <2>6. sstate'[j] = IF j = c THEN "RUN" ELSE s[j]
    BY <1>3
  <2> QED BY <2>1, <2>3, <2>5, <2>6 DEF Tells
<1>4. ASSUME NEW c \in ToSpawn(s, p, w), sstate' = [s EXCEPT ![c] = "NONE"],
             out' = Append(o, TerminatedMsg(c, "InternalError"))
      PROVE  /\ In(out', Closed) => In(o, Closed)
             /\ \A j \in Ids : Tells(s, o, j)
  <2>1. c \in Ids /\ s[c] = "PENDING" /\ "InternalError" \in Status
    BY <1>1 DEF Status
  <2>2. In(out', Closed) => In(o, Closed)
    BY <1>4, <2>1, SendOne
  <2> SUFFICES ASSUME NEW j \in Ids  PROVE Tells(s, o, j)
    BY <2>2
  <2>3. /\ In(out', Started(j)) <=> In(o, Started(j))
        /\ Ends(out', j) <=> Ends(o, j) \/ c = j
    BY <1>4, <2>1, SendOne
  <2>4. /\ TerminatedMsg(c, "InternalError") \in Notice
        /\ TerminatedMsg(c, "InternalError") # Started(j)
    BY <2>1, AreNotices, NoticesDiffer
  <2>5. Once(o, Started(j)) => Once(out', Started(j))
    BY <1>4, <2>4, OnceAppend
  <2>6. sstate'[j] = IF j = c THEN "NONE" ELSE s[j]
    BY <1>4
  <2> QED BY <2>1, <2>3, <2>5, <2>6 DEF Tells
<1> QED BY <1>2, <1>3, <1>4 DEF TrySpawn

\* The notices of before, when those in base are not yet in the socket.
Carried(base) ==
  \A j \in Ids :
    /\ In(s2c', Started(j)) \/ In(base, Started(j)) <=> Heard(j)
    /\ HeardOnce(j) => /\ Once(s2c', Started(j)) /\ Once(base, Started(j))
                       /\ ~(In(s2c', Started(j)) /\ In(base, Started(j)))
    /\ Ends(s2c', j) \/ Ends(base, j) <=> Ended(j)
    /\ Ends(s2c, j) => Ends(s2c', j)

\* Nothing is in an empty queue.
LEMMA EmptyQueue ==
  ASSUME NEW m
  PROVE  ~In(<<>>, m) /\ Once(<<>>, m) /\ <<>> \in Seq(Notice)
BY DEF In, Once

\* Closing the socket adds nothing else to it.
LEMMA CloseAdds ==
  ASSUME NEW q \in Seq(Notice), NEW r \in {q, Append(q, Closed)}, NEW j \in Ids
  PROVE  /\ In(r, Started(j)) <=> In(q, Started(j))
         /\ Ends(r, j) <=> Ends(q, j)
         /\ Once(q, Started(j)) => Once(r, Started(j))
<1>1. Closed \in Notice /\ Closed # Started(j) /\ \A h : Closed # TerminatedMsg(j, h)
  BY AreNotices, NoticesDiffer DEF Status
<1>2. Once(q, Started(j)) => Once(Append(q, Closed), Started(j))
  BY <1>1, OnceAppend
<1>3. /\ In(Append(q, Closed), Started(j)) <=> In(q, Started(j))
      /\ Ends(Append(q, Closed), j) <=> Ends(q, j)
  BY SendOne DEF Status
<1> QED BY <1>2, <1>3

\* A pass writes pending_write_ out.
LEMMA CarriedFlush ==
  ASSUME ServerTypeOK, s2c' \in {Flushed, Append(Flushed, Closed)}
  PROVE  /\ Carried(<<>>)
         /\ \A j \in Ids : Ended(j) => Ends(s2c', j)
<1> SUFFICES ASSUME NEW j \in Ids
             PROVE  /\ In(s2c', Started(j)) <=> Heard(j)
                    /\ HeardOnce(j) => Once(s2c', Started(j))
                    /\ Ends(s2c', j) <=> Ended(j)
  BY EmptyQueue DEF Carried, Ended, Ends
<1>1. s2c \in Seq(Notice) /\ out \in Seq(Notice) /\ Flushed \in Seq(Notice)
  BY FlushedOK DEF ServerTypeOK
<1>2. \A m : In(Flushed, m) <=> In(s2c, m) \/ In(out, m)
  BY <1>1, InConcat DEF Flushed
<1>3. /\ In(s2c', Started(j)) <=> In(Flushed, Started(j))
      /\ Ends(s2c', j) <=> Ends(Flushed, j)
      /\ Once(Flushed, Started(j)) => Once(s2c', Started(j))
  BY <1>1, CloseAdds
<1>4. HeardOnce(j) => Once(Flushed, Started(j))
  BY <1>1, OnceConcat DEF HeardOnce, Flushed
<1>5. Ends(Flushed, j) <=> Ended(j)
  BY <1>2 DEF Ends, Ended
<1> QED BY <1>2, <1>3, <1>4, <1>5 DEF Heard

\* DoTimeout() and a nested TrySpawnSubProcess do not.
LEMMA CarriedKeep ==
  ASSUME ServerTypeOK, s2c' \in {s2c, Append(s2c, Closed)}
  PROVE  Carried(out)
<1> SUFFICES ASSUME NEW j \in Ids
             PROVE  /\ In(s2c', Started(j)) <=> In(s2c, Started(j))
                    /\ Once(s2c, Started(j)) => Once(s2c', Started(j))
                    /\ Ends(s2c', j) <=> Ends(s2c, j)
  BY DEF Carried, Heard, HeardOnce, Ended
<1>1. s2c \in Seq(Notice)
  BY DEF ServerTypeOK
<1> QED BY <1>1, CloseAdds

\* A step of the server, for an entry that was in state b[j]: STARTED is said of
\* one that was PENDING and runs, TERMINATED of one that is gone, either because
\* it was there or because the client asked for it.
ServerTells(b, asked) ==
  \A j \in Ids :
    /\ HeardOnce(j) /\ (b[j] = "PENDING" => ~Heard(j)) => HeardOnce(j)'
    /\ \/ /\ sstate'[j] = b[j] \/ (b[j] = "RUN" /\ sstate'[j] = "SIGNALED")
          /\ Heard(j)' => Heard(j)
          /\ Ended(j)' => Ended(j)
       \/ /\ b[j] = "PENDING" /\ sstate'[j] = "RUN"
          /\ Ended(j)' => Ended(j)
       \/ /\ sstate'[j] = "NONE"
          /\ Heard(j)' => Heard(j)
          /\ b[j] # "NONE" \/ j = asked \/ (Ended(j)' => Ended(j))

\* TrySpawnSubProcess after nothing else.
LEMMA TellsPlain ==
  ASSUME NEW b \in [Ids -> State], NEW base \in Seq(Notice), Carried(base),
         NEW p, NEW w, NEW pr, TrySpawn(b, p, w, pr, base), NEW asked
  PROVE  ServerTells(b, asked)
<1>1. \A j \in Ids : Tells(b, base, j)
  BY SpawnTells
<1> SUFFICES ASSUME NEW j \in Ids
      PROVE /\ HeardOnce(j) /\ (b[j] = "PENDING" => ~Heard(j)) => HeardOnce(j)'
            /\ \/ /\ sstate'[j] = b[j] \/ (b[j] = "RUN" /\ sstate'[j] = "SIGNALED")
                  /\ Heard(j)' => Heard(j)
                  /\ Ended(j)' => Ended(j)
               \/ /\ b[j] = "PENDING" /\ sstate'[j] = "RUN"
                  /\ Ended(j)' => Ended(j)
               \/ /\ sstate'[j] = "NONE"
                  /\ Heard(j)' => Heard(j)
                  /\ b[j] # "NONE" \/ j = asked \/ (Ended(j)' => Ended(j))
  BY DEF ServerTells
<1>2. Tells(b, base, j)
  BY <1>1
<1>3. /\ In(s2c', Started(j)) \/ In(base, Started(j)) <=> Heard(j)
      /\ HeardOnce(j) => /\ Once(s2c', Started(j)) /\ Once(base, Started(j))
                         /\ ~(In(s2c', Started(j)) /\ In(base, Started(j)))
      /\ Ends(s2c', j) \/ Ends(base, j) <=> Ended(j)
  BY DEF Carried
<1>4. /\ Heard(j)' <=> In(s2c', Started(j)) \/ In(out', Started(j))
      /\ HeardOnce(j)' <=> /\ Once(s2c', Started(j)) /\ Once(out', Started(j))
                           /\ ~(In(s2c', Started(j)) /\ In(out', Started(j)))
      /\ Ended(j)' <=> Ends(s2c', j) \/ Ends(out', j)
  BY DEF Heard, HeardOnce, Ended, In, Once, Ends
<1> HIDE DEF Heard, HeardOnce, Ended, In, Once, Ends
<1> QED BY <1>2, <1>3, <1>4 DEF Tells

\* Terminated(): an entry is erased and the client told, then others are tried.
LEMMA TellsTerminated ==
  ASSUME ServerTypeOK, NEW i \in Ids, NEW how \in Status, NEW pr,
         NEW base \in Seq(Notice), Carried(base),
         Terminated(i, how, pr, base)
  PROVE  ServerTells(sstate, i)
<1> DEFINE s == [sstate EXCEPT ![i] = "NONE"]
           o == Append(base, TerminatedMsg(i, how))
<1>1. s \in [Ids -> State] /\ o \in Seq(Notice)
  BY AreNotices DEF ServerTypeOK, State
<1>2. \A j \in Ids : Tells(s, o, j)
  BY <1>1, SpawnTells DEF Terminated
<1> SUFFICES ASSUME NEW j \in Ids
      PROVE /\ HeardOnce(j) /\ (sstate[j] = "PENDING" => ~Heard(j)) => HeardOnce(j)'
            /\ \/ /\ sstate'[j] = sstate[j]
                  /\ Heard(j)' => Heard(j)
                  /\ Ended(j)' => Ended(j)
               \/ /\ sstate[j] = "PENDING" /\ sstate'[j] = "RUN"
                  /\ Ended(j)' => Ended(j)
               \/ /\ sstate'[j] = "NONE"
                  /\ Heard(j)' => Heard(j)
                  /\ sstate[j] # "NONE" \/ j = i \/ (Ended(j)' => Ended(j))
  BY DEF ServerTells
<1>3. Tells(s, o, j) /\ s[j] = IF j = i THEN "NONE" ELSE sstate[j]
  BY <1>2 DEF ServerTypeOK
<1>4. /\ In(o, Started(j)) <=> In(base, Started(j))
      /\ Ends(o, j) <=> Ends(base, j) \/ i = j
  BY SendOne
<1>5. Once(base, Started(j)) => Once(o, Started(j))
  BY AreNotices, NoticesDiffer, OnceAppend
<1>6. /\ In(s2c', Started(j)) \/ In(base, Started(j)) <=> Heard(j)
      /\ HeardOnce(j) => /\ Once(s2c', Started(j)) /\ Once(base, Started(j))
                         /\ ~(In(s2c', Started(j)) /\ In(base, Started(j)))
      /\ Ends(s2c', j) \/ Ends(base, j) <=> Ended(j)
  BY DEF Carried
<1>7. /\ Heard(j)' <=> In(s2c', Started(j)) \/ In(out', Started(j))
      /\ HeardOnce(j)' <=> /\ Once(s2c', Started(j)) /\ Once(out', Started(j))
                           /\ ~(In(s2c', Started(j)) /\ In(out', Started(j)))
      /\ Ended(j)' <=> Ends(s2c', j) \/ Ends(out', j)
  BY DEF Heard, HeardOnce, Ended, In, Once, Ends
<1> HIDE DEF s, o
<1> QED BY <1>3, <1>4, <1>5, <1>6, <1>7 DEF Tells

\* A pass that says nothing.
LEMMA TellsNothing ==
  ASSUME NEW b, NEW asked, Carried(<<>>), out' = <<>>,
         \A j \in Ids : \/ sstate'[j] = b[j]
                        \/ b[j] = "RUN" /\ sstate'[j] = "SIGNALED"
                        \/ sstate'[j] = "NONE"
  PROVE  ServerTells(b, asked)
<1> SUFFICES ASSUME NEW j \in Ids
             PROVE  /\ HeardOnce(j) => HeardOnce(j)'
                    /\ Heard(j)' => Heard(j)
                    /\ Ended(j)' => Ended(j)
  BY DEF ServerTells
<1>1. /\ In(s2c', Started(j)) <=> Heard(j)
      /\ HeardOnce(j) => Once(s2c', Started(j))
      /\ Ends(s2c', j) <=> Ended(j)
  BY EmptyQueue DEF Carried, Ends
<1>2. ~In(out', Started(j)) /\ Once(out', Started(j)) /\ ~Ends(out', j)
  BY EmptyQueue DEF Ends
<1>3. /\ Heard(j)' <=> In(s2c', Started(j)) \/ In(out', Started(j))
      /\ HeardOnce(j)' <=> /\ Once(s2c', Started(j)) /\ Once(out', Started(j))
                           /\ ~(In(s2c', Started(j)) /\ In(out', Started(j)))
      /\ Ended(j)' <=> Ends(s2c', j) \/ Ends(out', j)
  BY DEF Heard, HeardOnce, Ended, In, Once, Ends
<1> QED BY <1>1, <1>2, <1>3


\* A pass writes pending_write_ to the socket, and may close it.
LEMMA PassFlushes ==
  ASSUME ServerTypeOK, EndOfPass(Flushed)
  PROVE  Carried(<<>>) /\ \A j \in Ids : Ended(j) => Ends(s2c', j)
BY CarriedFlush DEF EndOfPass

\* Register() of an id the server does not know.
LEMMA RegisterTells ==
  ASSUME ServerTypeOK, NEW i \in Ids, NEW p, NEW w, Register(i, p, w),
         sstate[i] = "NONE"
  PROVE  /\ shutdowned => ServerTells(sstate, i)
         /\ ~shutdowned => ServerTells([sstate EXCEPT ![i] = "PENDING"], i)
<1>1. Carried(<<>>) /\ <<>> \in Seq(Notice)
  BY PassFlushes, EmptyQueue DEF Register
<1>2. CASE ~shutdowned
  <2>1. [sstate EXCEPT ![i] = "PENDING"] \in [Ids -> State]
    BY DEF ServerTypeOK, State
  <2>2. TrySpawn([sstate EXCEPT ![i] = "PENDING"], priority', weight', proc, <<>>)
    BY <1>2 DEF Register
  <2> QED BY <1>1, <1>2, <2>1, <2>2, TellsPlain
<1>3. CASE shutdowned
  <2>1. /\ out' = Append(<<>>, TerminatedMsg(i, "NotStarted"))
        /\ sstate' = sstate
    BY <1>3 DEF Register
  <2> SUFFICES ASSUME NEW j \in Ids
        PROVE /\ HeardOnce(j) => HeardOnce(j)'
              /\ Heard(j)' => Heard(j)
              /\ j = i \/ (Ended(j)' => Ended(j))
    BY <1>3, <2>1 DEF ServerTells
  <2>2. "NotStarted" \in Status
    BY DEF Status
  <2>3. /\ In(out', Started(j)) <=> In(<<>>, Started(j))
        /\ Ends(out', j) <=> Ends(<<>>, j) \/ i = j
    BY <1>1, <2>1, <2>2, SendOne
  <2>4. Once(out', Started(j))
    BY <1>1, <2>1, <2>2, EmptyQueue, AreNotices, NoticesDiffer, OnceAppend
  <2>5. /\ In(s2c', Started(j)) <=> Heard(j)
        /\ HeardOnce(j) => Once(s2c', Started(j))
        /\ Ends(s2c', j) <=> Ended(j)
        /\ ~In(<<>>, Started(j)) /\ ~Ends(<<>>, j)
    BY <1>1, EmptyQueue DEF Carried, Ends
  <2>6. /\ Heard(j)' <=> In(s2c', Started(j)) \/ In(out', Started(j))
        /\ HeardOnce(j)' <=> /\ Once(s2c', Started(j)) /\ Once(out', Started(j))
                             /\ ~(In(s2c', Started(j)) /\ In(out', Started(j)))
        /\ Ended(j)' <=> Ends(s2c', j) \/ Ends(out', j)
    BY DEF Heard, HeardOnce, Ended, In, Once, Ends
  <2> QED BY <2>3, <2>4, <2>5, <2>6
<1> QED BY <1>2, <1>3

\* RequestRun() and Kill().
LEMMA AskTells ==
  ASSUME ServerTypeOK, NEW i \in Ids, RequestRun(i) \/ Kill(i)
  PROVE  ServerTells(sstate, i)
<1>1. Carried(<<>>) /\ <<>> \in Seq(Notice)
  BY PassFlushes, EmptyQueue DEF RequestRun, Kill
<1>2. sstate \in [Ids -> State]
  BY DEF ServerTypeOK
<1>3. ASSUME NEW how \in Status, Terminated(i, how, proc, <<>>)
      PROVE  ServerTells(sstate, i)
  BY <1>1, <1>3, TellsTerminated
<1>4. CASE out' = <<>> /\ sstate' = sstate
  BY <1>1, <1>4, TellsNothing
<1>5. CASE RequestRun(i) /\ ~shutdowned /\ sstate[i] # "NONE"
  <2>1. TrySpawn(sstate, priority', weight, proc, <<>>)
    BY <1>5 DEF RequestRun
  <2> QED BY <1>1, <1>2, <2>1, TellsPlain
<1>6. "InternalError" \in Status /\ "NotStarted" \in Status
  BY DEF Status
<1> QED BY <1>3, <1>4, <1>5, <1>6 DEF RequestRun, Kill

\* The passes that say nothing.
LEMMA QuietTells ==
  ASSUME ServerTypeOK, \/ Shutdown \/ PeerClosed \/ DoWrite
                       \/ \E o \in {Normal, Burst} : SetOption(o)
                       \/ \E i \in Ids : DoSignal(i)
  PROVE  ServerTells(sstate, 0) /\ out' = <<>>
<1>1. Carried(<<>>)
  BY PassFlushes, CarriedFlush
     DEF Shutdown, PeerClosed, DoWrite, SetOption, DoSignal
<1>2. out' = <<>>
  BY DEF Shutdown, PeerClosed, DoWrite, SetOption, DoSignal
<1>3. \A j \in Ids : \/ sstate'[j] = sstate[j]
                     \/ sstate[j] = "RUN" /\ sstate'[j] = "SIGNALED"
                     \/ sstate'[j] = "NONE"
  BY DEF Shutdown, PeerClosed, DoWrite, SetOption, DoSignal, ServerTypeOK, State
<1> QED BY <1>1, <1>2, <1>3, TellsNothing

\* DoTimeout() and the nested TrySpawnSubProcess.
LEMMA TimeoutTells ==
  ASSUME ServerTypeOK, \/ Respawn \/ DoTimeoutEnd
                       \/ \E quiet \in BOOLEAN : DoTimeout(quiet)
  PROVE  ServerTells(sstate, 0)
<1>1. sstate \in [Ids -> State] /\ out \in Seq(Notice)
  BY DEF ServerTypeOK
<1>2. CASE Respawn
  <2>1. Carried(out)
    BY <1>2, CarriedKeep DEF Respawn, EndOfPass
  <2> QED BY <1>1, <1>2, <2>1, TellsPlain DEF Respawn
<1>3. CASE DoTimeoutEnd
  BY <1>3 DEF DoTimeoutEnd, ServerTells, Heard, HeardOnce, Ended, In, Once, Ends
<1>4. ASSUME NEW quiet \in BOOLEAN, DoTimeout(quiet)  PROVE ServerTells(sstate, 0)
  <2> DEFINE i == Least(Reapable)
  <2>1. i \in Ids /\ sstate[i] \in {"RUN", "SIGNALED"}
    <3>1. Reapable \in SUBSET Ids
      BY DEF Reapable
    <3>2. IsFiniteSet(Reapable) /\ Reapable \subseteq Nat
      BY <3>1, FS_Subset, IdsAssumption
    <3> QED BY <1>4, <3>1, <3>2, LeastInSet DEF DoTimeout, Reapable
  <2>2. Carried(out)
    BY <1>4, CarriedKeep DEF DoTimeout
  <2>3. Terminated(i, "ran", [proc EXCEPT ![i] = "exited"], out)
    BY <1>4 DEF DoTimeout
  <2> HIDE DEF i
  <2>4. ServerTells(sstate, i)
    BY <1>1, <2>1, <2>2, <2>3, TellsTerminated DEF Status
  <2> QED BY <2>1, <2>4 DEF ServerTells
<1> QED BY <1>2, <1>3, <1>4


-----------------------------------------------------------------------------
(***************************************************************************)
(* The life of a task.  Every part below is preserved by each step in a    *)
(* state that satisfies IInv, LInv and the parts before it.                *)
(***************************************************************************)
\* A task is called back once; subproc_tasks_ holds tasks that were started, that
\* are not finished and whose Done() is not posted.
TaskLife ==
  \A t \in Ids :
    /\ calls_back[t] <= 1
    /\ t > created => /\ t \notin subproc_tasks \cup done \cup late
                      /\ tstate[t] = "SETUP" /\ calls_back[t] = 0
    /\ t \in subproc_tasks => /\ t \notin done \cup late
                              /\ tstate[t] \in {"PENDING", "RUN", "SIGNALED"}
                              /\ calls_back[t] = 0

\* The variables TaskLife speaks of.
TaskLifeVars == <<created, subproc_tasks, done, late, tstate, calls_back>>

\* RegisterTask() keeps it.
LEMMA StartTask ==
  ASSUME IInv, TaskLife, NEW t \in Ids, Start(t)
  PROVE  TaskLife'
<1>1. /\ t > created /\ created' = t /\ created \in Nat /\ Ids \subseteq Nat
      /\ \A i \in Ids : i > t => i > created /\ i # t
  BY IdsAssumption DEF Start, IInv, TaskTypeOK
<1>2. \A i \in Ids : /\ tstate'[i] = IF i = t THEN "PENDING" ELSE tstate[i]
                     /\ i # t => (i \in subproc_tasks' <=> i \in subproc_tasks)
                     /\ i # t => (i \in late' <=> i \in late)
  BY DEF Start, IInv, TaskTypeOK
<1>3. /\ t \notin subproc_tasks \cup done \cup late /\ calls_back[t] = 0
      /\ calls_back' = calls_back /\ done' = done
      /\ ~(t \in subproc_tasks' /\ t \in late')
  BY <1>1 DEF Start, TaskLife
<1> QED BY <1>1, <1>2, <1>3 DEF TaskLife

\* Done() keeps it: a task in subproc_tasks_ is not done.
LEMMA DoneTask ==
  ASSUME IInv, TaskLife, NEW t \in Ids, Done(t)
  PROVE  TaskLife'
<1>1. /\ t <= created /\ created \in Nat /\ t \in Nat /\ calls_back[t] = 0
      /\ created' = created /\ tstate' = tstate /\ late' = late
      /\ subproc_tasks' = subproc_tasks /\ done' \subseteq done
  BY IdsAssumption DEF Done, Idle, Alive, IInv, TaskTypeOK, clientVars
<1>2. \A i \in Ids : calls_back'[i] = IF i = t THEN 1 ELSE calls_back[i]
  BY <1>1 DEF Done, IInv, TaskTypeOK
<1>3. t \notin subproc_tasks
  BY DEF Done, TaskLife
<1> QED BY <1>1, <1>2, <1>3 DEF TaskLife

\* The client thread keeps it.
LEMMA ClientTask ==
  ASSUME IInv, TaskLife, ClientThread
  PROVE  TaskLife'
<1>1. CASE ClientStarted
  <2>1. Head(s2c).id \in Ids
    BY <1>1, NoticeType DEF ClientStarted, IInv
  <2>2. /\ created' = created /\ subproc_tasks' = subproc_tasks /\ done' = done
        /\ late' = late /\ calls_back' = calls_back
        /\ \A i \in Ids : \/ tstate'[i] = tstate[i]
                          \/ /\ i \in subproc_tasks /\ tstate[i] = "PENDING"
                             /\ tstate'[i] = "RUN"
    BY <1>1, <2>1 DEF ClientStarted, IInv, TaskTypeOK
  <2> QED BY <2>2 DEF TaskLife
<1>2. CASE ClientTerminated
  <2>1. PICK r \in Ids : r = Head(s2c).id
    BY <1>2, NoticeType DEF ClientTerminated, IInv
  <2>2. /\ created' = created /\ late' = late /\ calls_back' = calls_back
        /\ \A i \in Ids : /\ i \in subproc_tasks' => i \in subproc_tasks /\ i # r
                          /\ i # r => tstate'[i] = tstate[i]
                          /\ i # r => (i \in done' => i \in done)
        /\ r \notin subproc_tasks => tstate'[r] = tstate[r] /\ done' = done
    BY <1>2, <2>1 DEF ClientTerminated, IInv, TaskTypeOK
  <2> QED BY <2>2 DEF TaskLife
<1>3. CASE ClientClosed \/ ClientKillCheck \/ ClientKillPost
  BY <1>3 DEF ClientClosed, ClientKillCheck, ClientKillPost, taskVars, TaskLife
<1>4. ASSUME NEW t \in Ids, LateTerminated(t)  PROVE TaskLife'
  <2>1. /\ created' = created /\ done' = done /\ calls_back' = calls_back
        /\ subproc_tasks' = subproc_tasks /\ late' = late /\ t \in late
        /\ \A i \in Ids : i # t => tstate'[i] = tstate[i]
    BY <1>4 DEF LateTerminated, clientVars, IInv, TaskTypeOK
  <2>2. t \notin subproc_tasks /\ ~(t > created)
    BY <2>1 DEF TaskLife
  <2> QED BY <2>1, <2>2 DEF TaskLife
<1> QED BY <1>1, <1>2, <1>3, <1>4 DEF ClientThread

\* Every step keeps it.
LEMMA NextTask ==
  ASSUME IInv, TaskLife, [Next]_vars
  PROVE  TaskLife'
<1>1. CASE UNCHANGED TaskLifeVars
  BY <1>1 DEF TaskLifeVars, TaskLife
<1>2. ASSUME NEW t \in Ids, TaskKill(t)  PROVE TaskLife'
  <2>1. /\ t <= created /\ created \in Nat /\ t \in Nat
        /\ created' = created /\ late' = late /\ calls_back' = calls_back
        /\ subproc_tasks' = subproc_tasks /\ done' = done
        /\ \A i \in Ids : tstate'[i] = IF i = t THEN "SIGNALED" ELSE tstate[i]
    BY <1>2, IdsAssumption DEF TaskKill, Idle, Alive, IInv, TaskTypeOK, clientVars
  <2> QED BY <2>1 DEF TaskLife
<1>3. CASE \/ ServerRead \/ Server \/ MainThread \/ CheckSignaled \/ QuitStart
           \/ Crash \/ WriteFails \/ \E i \in Ids : Exit(i)
           \/ \E o \in {Normal, Burst} : ClientSetOption(o)
  <2>1. UNCHANGED TaskLifeVars
    BY <1>3 DEF ServerRead, Server, Exit, MainThread, QuitKill, QuitShutdown,
                QuitUnregister, ClientShutdown, CheckSignaled, QuitStart, Crash,
                WriteFails, ClientSetOption, taskVars, clientVars, TaskLifeVars
  <2> QED BY <1>1, <2>1
<1>4. ASSUME NEW t \in Ids, Check(t) \/ Post(t) \/ TaskRequestRun(t)
      PROVE  TaskLife'
  <2>1. UNCHANGED TaskLifeVars
    BY <1>4 DEF Check, Post, TaskRequestRun, clientVars, TaskLifeVars
  <2> QED BY <1>1, <2>1
<1>5. CASE UNCHANGED vars
  BY <1>1, <1>5 DEF vars, taskVars, clientVars, TaskLifeVars
<1> QED BY <1>2, <1>3, <1>4, <1>5, StartTask, DoneTask, ClientTask
        DEF Next, Demand, TaskThread


-----------------------------------------------------------------------------
\* The server has yet to read the REGISTER of task t.
Unread(t) == t > created \/ call[t].op = "REGISTER" \/ InFlight(t)

\* The requests after one was sent.
Sent(m) == /\ Len(c2s') = Len(c2s) + 1 /\ Len(c2s) \in Nat
           /\ \A k \in 1..Len(c2s) : c2s'[k] = c2s[k]
           /\ c2s'[Len(c2s) + 1] = m

\* SendNotice() adds one request at the end.
LEMMA SentOK ==
  ASSUME c2s \in Seq(Request), NEW m \in Request, c2s' = Append(c2s, m)
  PROVE  Sent(m)
BY AppendProperties, LenProperties DEF Sent

\* After one was read.
Read == /\ c2s # <<>> /\ Head(c2s) = c2s[1] /\ Head(c2s) \in Request
        /\ Len(c2s') = Len(c2s) - 1 /\ Len(c2s) \in Nat \ {0}
        /\ \A k \in 1..Len(c2s') : c2s'[k] = c2s[k + 1]

\* The loop of the server reads the first request.
LEMMA ReadOK ==
  ASSUME c2s \in Seq(Request), ServerRead
  PROVE  Read
BY HeadTailProperties, EmptySeq DEF ServerRead, Read

\* After a crash.
Lost(n) == /\ n \in 0..Len(c2s) /\ Len(c2s) \in Nat /\ Len(c2s') = n + 1
           /\ \A k \in 1..n : c2s'[k] = c2s[k]
           /\ c2s'[n + 1] = [op |-> "CLOSED"]

\* A crash of compiler_proxy loses requests at the end of the queue only.
LEMMA LostOK ==
  ASSUME c2s \in Seq(Request), Crash
  PROVE  \E n \in Nat : Lost(n)
<1>1. PICK n \in 0..Len(c2s) :
        c2s' = Append(SubSeq(c2s, 1, n), [op |-> "CLOSED"])
  BY DEF Crash
<1>2. Len(c2s) \in Nat /\ n \in Nat
  BY LenProperties
<1>3. /\ SubSeq(c2s, 1, n) \in Seq(Request)
      /\ Len(SubSeq(c2s, 1, n)) = n
      /\ \A k \in 1..n : SubSeq(c2s, 1, n)[k] = c2s[k]
  <2>1. n \in Int /\ \A k \in 1..n : c2s[k] \in Request
    BY <1>2, ElementOfSeq
  <2> QED BY <2>1, SubSeqProperties
<1>4. [op |-> "CLOSED"] \in Request
  BY DEF Request
<1>5. Lost(n)
  BY <1>1, <1>2, <1>3, <1>4, AppendProperties DEF Lost
<1> QED BY <1>2, <1>5

\* What compiler_proxy may send in a step.
Sends(m) ==
  \/ \E t \in Ids : Post(t) /\ \E w \in Weight : m = RequestOf(t, w)
  \/ \E t \in ckills : ClientKillPost /\ m = KillMsg(t)
  \/ \E t \in kills : QuitKill /\ m = KillMsg(t)
  \/ QuitShutdown /\ m = [op |-> "SHUTDOWN"]
  \/ \E o \in {Normal, Burst} : ClientSetOption(o) /\ m = [op |-> "SET_OPTION", option |-> o]

\* The least id of a set of ids is in it.
LEMMA LeastId ==
  ASSUME NEW S \in SUBSET Ids, S # {}
  PROVE  Least(S) \in S
BY FS_Subset, IdsAssumption, LeastInSet

\* The request a task sends.
LEMMA RequestOfOK ==
  ASSUME IInv, NEW t \in Ids, call[t].checked, NEW w \in Weight
  PROVE  /\ RequestOf(t, w) \in Request
         /\ RequestOf(t, w).op = call[t].op /\ RequestOf(t, w).id = t
         /\ call[t].op \in {"REGISTER", "REQUEST_RUN", "KILL"}
<1>1. call[t].op \in {"REGISTER", "REQUEST_RUN", "KILL"}
  BY DEF IInv, TaskTypeOK, Call, NoCall
<1> QED BY <1>1 DEF RequestOf, Request, Priority

\* Every step sends one request, reads one, loses some, or leaves the queue alone.
LEMMA QueueSteps ==
  ASSUME IInv, [Next]_vars
  PROVE  \/ c2s' = c2s /\ ~ServerRead /\ ~Crash
         \/ \E m \in Request : Sends(m) /\ Sent(m)
         \/ ServerRead /\ Read
         \/ Crash /\ \E n \in Nat : Lost(n)
<1>1. c2s \in Seq(Request) /\ ckills \in SUBSET Ids /\ kills \in SUBSET Ids
  BY DEF IInv, ClientInv, ClientTypeOK
<1>2. CASE Crash
  BY <1>1, <1>2, LostOK
<1>3. CASE ServerRead
  BY <1>1, <1>3, ReadOK
<1>4. ASSUME NEW t \in Ids, Post(t)
      PROVE  \E m \in Request : Sends(m) /\ Sent(m)
  <2>1. PICK w \in Weight : c2s' = Append(c2s, RequestOf(t, w))
    BY <1>4 DEF Post
  <2>2. RequestOf(t, w) \in Request
    BY <1>4, RequestOfOK DEF Post
  <2>3. Sent(RequestOf(t, w))
    BY <1>1, <2>1, <2>2, SentOK
  <2>4. Sends(RequestOf(t, w))
    BY <1>4 DEF Sends
  <2> QED BY <2>2, <2>3, <2>4
<1>5. CASE ClientKillPost
  <2>1. Least(ckills) \in ckills
    BY <1>1, <1>5, LeastId DEF ClientKillPost, IInv, ClientInv
  <2>2. KillMsg(Least(ckills)) \in Request
    BY <1>1, <2>1, KillMsgType
  <2>3. Sent(KillMsg(Least(ckills))) /\ Sends(KillMsg(Least(ckills)))
    BY <1>1, <1>5, <2>1, <2>2, SentOK DEF ClientKillPost, Sends
  <2> QED BY <2>2, <2>3
<1>6. CASE QuitKill /\ periodic
  <2>1. Least(kills) \in kills
    BY <1>1, <1>6, LeastId DEF QuitKill
  <2>2. KillMsg(Least(kills)) \in Request
    BY <1>1, <2>1, KillMsgType
  <2>3. Sent(KillMsg(Least(kills)))
    BY <1>1, <1>6, <2>2, SentOK DEF QuitKill
  <2>4. Sends(KillMsg(Least(kills)))
    BY <1>6, <2>1 DEF Sends
  <2> QED BY <2>2, <2>3, <2>4
<1>7. CASE QuitShutdown
  <2>1. [op |-> "SHUTDOWN"] \in Request
    BY DEF Request
  <2> QED BY <1>1, <1>7, <2>1, SentOK DEF QuitShutdown, Sends
<1>8. ASSUME NEW o \in {Normal, Burst}, ClientSetOption(o)
      PROVE  \E m \in Request : Sends(m) /\ Sent(m)
  <2>1. [op |-> "SET_OPTION", option |-> o] \in Request
    BY DEF Request
  <2>2. Sent([op |-> "SET_OPTION", option |-> o])
    BY <1>1, <1>8, <2>1, SentOK DEF ClientSetOption
  <2>3. Sends([op |-> "SET_OPTION", option |-> o])
    BY <1>8 DEF Sends
  <2> QED BY <2>1, <2>2, <2>3
<1>9. CASE c2s' = c2s
  BY <1>2, <1>3, <1>9
<1>10. ASSUME NEW t \in Ids, \/ Start(t) \/ TaskRequestRun(t) \/ TaskKill(t)
                             \/ Check(t) \/ Done(t) \/ LateTerminated(t) \/ Exit(t)
       PROVE  c2s' = c2s
  BY <1>10 DEF Start, TaskRequestRun, TaskKill, Check, Done, LateTerminated, Exit
<1>11. CASE \/ CheckSignaled \/ QuitStart \/ ClientStarted \/ ClientTerminated
            \/ ClientClosed \/ ClientKillCheck \/ (QuitKill /\ ~periodic)
            \/ QuitUnregister \/ ClientShutdown \/ Server \/ UNCHANGED vars
            \/ WriteFails
  BY <1>9, <1>11
     DEF CheckSignaled, QuitStart, ClientStarted, ClientTerminated, ClientClosed,
         ClientKillCheck, QuitKill, QuitUnregister, ClientShutdown, Server, vars,
         WriteFails
<1> QED BY <1>2, <1>3, <1>4, <1>5, <1>6, <1>7, <1>8, <1>9, <1>10, <1>11
        DEF Next, Demand, ClientThread, MainThread, TaskThread

\* Its REGISTER is not even sent.
Unsent(t) == t > created \/ call[t].op = "REGISTER"

\* No id becomes unsent again.
LEMMA UnsentShrinks ==
  ASSUME IInv, [Next]_vars, NEW i \in Ids, Unsent(i)'
  PROVE  Unsent(i)
<1>1. i > created' => i > created
  <2>1. created' = created \/ \E t \in Ids : Start(t)
    BY DEF Next, Demand, ClientThread, MainThread, TaskThread, TaskRequestRun,
           TaskKill, Check, Post, Done, LateTerminated, Exit, CheckSignaled,
           QuitStart, Crash, WriteFails, ClientSetOption, ClientStarted,
           ClientTerminated,
           ClientClosed, ClientKillCheck, ClientKillPost, QuitKill, QuitShutdown,
           QuitUnregister, ClientShutdown, Server, ServerRead, vars, taskVars
  <2>2. ASSUME NEW t \in Ids, Start(t)  PROVE i > created' => i > created
    BY <2>2, IdsAssumption DEF Start, IInv, TaskTypeOK
  <2> QED BY <2>1, <2>2
<1>2. call'[i].op = "REGISTER" => i > created \/ call[i].op = "REGISTER"
  <2>1. CASE call' = call
    BY <2>1
  <2>2. ASSUME NEW t \in Ids, Check(t)
        PROVE  call'[i].op = "REGISTER" => call[i].op = "REGISTER"
    <3>1. call[t] \in Call /\ call[t] # NoCall
      BY <2>2 DEF IInv, TaskTypeOK, Check, NoCall
    <3>2. call'[t].op \in {"none", call[t].op}
      BY <2>2, <3>1 DEF Call, NoCall, IInv, TaskTypeOK, Check
    <3>3. \A j \in Ids : j # t => call'[j] = call[j]
      BY <2>2 DEF IInv, TaskTypeOK, Check
    <3> QED BY <3>2, <3>3
  <2>3. ASSUME NEW t \in Ids, Start(t)
        PROVE  call'[i].op = "REGISTER" => i > created \/ call[i].op = "REGISTER"
    BY <2>3, IdsAssumption DEF Start, IInv, TaskTypeOK
  <2>4. ASSUME NEW t \in Ids, Post(t) \/ TaskRequestRun(t) \/ TaskKill(t)
        PROVE  call'[i].op = "REGISTER" => call[i].op = "REGISTER"
    BY <2>4 DEF Post, TaskRequestRun, TaskKill, IInv, TaskTypeOK, NoCall
  <2>5. call' = call \/ \E t \in Ids : \/ Check(t) \/ Start(t) \/ Post(t)
                                       \/ TaskRequestRun(t) \/ TaskKill(t)
    BY DEF Next, Demand, ClientThread, MainThread, TaskThread,
           Done, LateTerminated, Exit, CheckSignaled,
           QuitStart, Crash, WriteFails, ClientSetOption, ClientStarted,
           ClientTerminated,
           ClientClosed, ClientKillCheck, ClientKillPost, QuitKill, QuitShutdown,
           QuitUnregister, ClientShutdown, Server, ServerRead, vars, taskVars
  <2> QED BY <2>1, <2>2, <2>3, <2>4, <2>5
<1> QED BY <1>1, <1>2 DEF Unsent

\* Nor unread.
LEMMA UnreadShrinks ==
  ASSUME IInv, [Next]_vars, NEW i \in Ids, Unread(i)'
  PROVE  Unread(i)
<1>3. InFlight(i)' => InFlight(i) \/ call[i].op = "REGISTER"
  <2> SUFFICES ASSUME NEW k \in 1..Len(c2s'), RegisterAt(i, k)'
               PROVE  InFlight(i) \/ call[i].op = "REGISTER"
    BY DEF InFlight
  <2>1. CASE c2s' = c2s
    BY <2>1 DEF InFlight, RegisterAt
  <2>2. ASSUME NEW m \in Request, Sends(m), Sent(m)
        PROVE  InFlight(i) \/ call[i].op = "REGISTER"
    <3>1. CASE k \in 1..Len(c2s)
      BY <2>2, <3>1 DEF Sent, InFlight, RegisterAt
    <3>2. CASE ~(k \in 1..Len(c2s))
      <4>1. m.op = "REGISTER" /\ m.id = i
        BY <2>2, <3>2 DEF Sent, RegisterAt
      <4>2. PICK t \in Ids : Post(t) /\ \E w \in Weight : m = RequestOf(t, w)
        BY <2>2, <4>1 DEF Sends, KillMsg
      <4> QED BY <4>1, <4>2, RequestOfOK DEF Post
    <3> QED BY <3>1, <3>2
  <2>3. CASE Read
    <3>1. k + 1 \in 1..Len(c2s) /\ RegisterAt(i, k + 1)
      BY <2>3 DEF Read, RegisterAt
    <3> QED BY <3>1 DEF InFlight
  <2>4. ASSUME NEW n \in Nat, Lost(n)  PROVE InFlight(i)
    <3>1. k \in 1..n /\ k \in 1..Len(c2s)
      BY <2>4 DEF Lost, RegisterAt
    <3> QED BY <2>4, <3>1 DEF Lost, InFlight, RegisterAt
  <2> QED BY <2>1, <2>2, <2>3, <2>4, QueueSteps
<1> QED BY <1>3, UnsentShrinks DEF Unread, Unsent


\* What the server says in a step, and of whom it was asked.
LEMMA ServerSays ==
  ASSUME IInv, LInv, ServerRead \/ Server
  PROVE  \/ ServerTells(sstate, 0)
         \/ \E i \in Ids :
              /\ ServerRead /\ Read /\ Head(c2s).id = i
              /\ Head(c2s).op \in {"KILL", "REQUEST_RUN"}
              /\ ServerTells(sstate, i)
         \/ \E i \in Ids :
              /\ ServerRead /\ Read /\ RegisterAt(i, 1)
              /\ shutdowned => ServerTells(sstate, i)
              /\ ~shutdowned => ServerTells([sstate EXCEPT ![i] = "PENDING"], i)
<1>1. ServerTypeOK /\ c2s \in Seq(Request)
  BY DEF IInv, ClientInv, ClientTypeOK
<1>2. CASE Server
  <2>1. (c2s = <<>>) \in BOOLEAN
    OBVIOUS
  <2> QED BY <1>1, <1>2, <2>1, QuietTells, TimeoutTells DEF Server, ServerStep
<1>3. CASE ServerRead
  <2> DEFINE m == Head(c2s)
  <2>1. Read /\ m = c2s[1] /\ m \in Request /\ Serve(m) /\ 1 \in 1..Len(c2s)
    BY <1>1, <1>3, ReadOK DEF Read, ServerRead
  <2> HIDE DEF m
  <2>2. CASE m.op = "REGISTER" /\ Register(m.id, m.priority, m.weight)
    <3>1. PICK i \in Ids : i = m.id
      BY <2>1, <2>2 DEF Request
    <3>2. RegisterAt(i, 1) /\ sstate[i] = "NONE"
      BY <2>1, <2>2, <3>1 DEF RegisterAt, LInv, RegisteredOnce, InFlight
    <3> QED BY <1>1, <1>3, <2>1, <2>2, <3>1, <3>2, RegisterTells
  <2>3. CASE \/ m.op = "REQUEST_RUN" /\ RequestRun(m.id)
             \/ m.op = "KILL" /\ Kill(m.id)
    <3>1. m.id \in Ids
      BY <2>1, <2>3 DEF Request
    <3> QED BY <1>1, <1>3, <2>1, <2>3, <3>1, AskTells DEF m
  <2>4. CASE m.op = "SET_OPTION" /\ SetOption(m.option)
    <3>1. m.option \in {Normal, Burst}
      BY <2>1, <2>4 DEF Request
    <3> QED BY <1>1, <2>4, <3>1, QuietTells
  <2>5. CASE \/ m.op = "SHUTDOWN" /\ Shutdown
             \/ m.op = "CLOSED" /\ PeerClosed
    BY <1>1, <2>5, QuietTells
  <2> QED BY <2>1, <2>2, <2>3, <2>4, <2>5 DEF Serve
<1> QED BY <1>2, <1>3

\* The id whose REGISTER is read is unread no more.
LEMMA ReadRegister ==
  ASSUME IInv, LInv, ServerRead, Read, NEW i \in Ids, RegisterAt(i, 1)
  PROVE  Unread(i) /\ ~Unread(i)' /\ sstate[i] = "NONE"
<1>1. 1 \in 1..Len(c2s) /\ InFlight(i)
  BY DEF Read, InFlight
<1>2. ~(i > created) /\ call[i].op # "REGISTER" /\ sstate[i] = "NONE"
  BY <1>1 DEF LInv, RegisteredOnce
<1>3. ~InFlight(i)'
  <2> SUFFICES ASSUME NEW k \in 1..Len(c2s'), RegisterAt(i, k)'  PROVE FALSE
    BY DEF InFlight
  <2>1. k + 1 \in 1..Len(c2s) /\ RegisterAt(i, k + 1) /\ k + 1 # 1
    BY DEF Read, RegisterAt
  <2> QED BY <1>1, <2>1 DEF LInv, RegisteredOnce
<1>4. created' = created /\ call' = call
  BY DEF ServerRead, taskVars
<1> QED BY <1>1, <1>2, <1>3, <1>4 DEF Unread

\* A REGISTER that is unread has no entry.
LEMMA UnreadNone ==
  ASSUME LInv, NEW i \in Ids, Unread(i)
  PROVE  sstate[i] = "NONE"
BY DEF LInv, RegisteredOnce, Unread

-----------------------------------------------------------------------------
\* STARTED is on its way at most once, and to a task that is not RUN; none is on
\* its way for an entry that waits or that the server does not know.
StartedLife ==
  \A t \in Ids :
    /\ Unread(t) \/ sstate[t] = "PENDING" => ~Heard(t) /\ tstate[t] # "RUN"
    /\ Heard(t) => tstate[t] # "RUN"
    /\ HeardOnce(t)

\* The server keeps it.
LEMMA ServerStarted ==
  ASSUME IInv, LInv, LInv', StartedLife, ServerRead \/ Server
  PROVE  StartedLife'
<1> SUFFICES ASSUME NEW t \in Ids
             PROVE  /\ Unread(t)' \/ sstate'[t] = "PENDING"
                         => ~Heard(t)' /\ tstate'[t] # "RUN"
                    /\ Heard(t)' => tstate'[t] # "RUN"
                    /\ HeardOnce(t)'
  BY DEF StartedLife
<1>1. tstate' = tstate /\ [Next]_vars
  BY DEF ServerRead, Server, taskVars, Next
<1>2. Unread(t)' => Unread(t) /\ sstate'[t] = "NONE"
  BY <1>1, UnreadShrinks DEF LInv, RegisteredOnce, Unread
<1>3. /\ Unread(t) \/ sstate[t] = "PENDING" => ~Heard(t) /\ tstate[t] # "RUN"
      /\ Heard(t) => tstate[t] # "RUN"
      /\ HeardOnce(t)
  BY DEF StartedLife
<1> HIDE DEF Unread, Heard, HeardOnce
<1>4. ASSUME NEW asked, ServerTells(sstate, asked)
      PROVE  /\ Unread(t)' \/ sstate'[t] = "PENDING"
                  => ~Heard(t)' /\ tstate'[t] # "RUN"
             /\ Heard(t)' => tstate'[t] # "RUN"
             /\ HeardOnce(t)'
  BY <1>1, <1>2, <1>3, <1>4 DEF ServerTells
<1>5. ASSUME NEW i \in Ids, ServerRead, Read, RegisterAt(i, 1),
             ServerTells([sstate EXCEPT ![i] = "PENDING"], i)
      PROVE  /\ Unread(t)' \/ sstate'[t] = "PENDING"
                  => ~Heard(t)' /\ tstate'[t] # "RUN"
             /\ Heard(t)' => tstate'[t] # "RUN"
             /\ HeardOnce(t)'
  <2> DEFINE b == [sstate EXCEPT ![i] = "PENDING"]
  <2>1. b[t] = IF t = i THEN "PENDING" ELSE sstate[t]
    BY DEF IInv, ServerTypeOK
  <2>2. t = i => Unread(t)
    BY <1>5, ReadRegister
  <2>3. ServerTells(b, i)
    BY <1>5
  <2> HIDE DEF b
  <2> QED BY <1>1, <1>2, <1>3, <2>1, <2>2, <2>3 DEF ServerTells
<1> QED BY <1>4, <1>5, ServerSays

\* The client keeps it: who reads STARTED hears it no more.
LEMMA ClientStartedOnce ==
  ASSUME IInv, LInv, StartedLife, ClientStarted
  PROVE  StartedLife'
<1> DEFINE r == Head(s2c).id
<1>1. /\ s2c \in Seq(Notice) /\ s2c # <<>> /\ s2c' = Tail(s2c) /\ out' = out
      /\ sstate' = sstate /\ Head(s2c) \in Notice /\ Head(s2c).op = "STARTED"
  BY HeadTailProperties
     DEF ClientStarted, NextNotice, IInv, ServerTypeOK, serverVars
<1>2. r \in Ids /\ Head(s2c) = Started(r)
  BY <1>1 DEF Notice, Started
<1>3. \A i \in Ids : tstate'[i] = tstate[i] \/ i = r
  BY <1>2 DEF ClientStarted, IInv, TaskTypeOK
<1>4. \A i \in Ids : Unread(i)' => Unread(i)
  BY UnreadShrinks, <1>1 DEF ClientStarted, Unread, InFlight, RegisterAt
<1> HIDE DEF r
<1> SUFFICES ASSUME NEW t \in Ids
             PROVE  /\ Unread(t)' \/ sstate'[t] = "PENDING"
                         => ~Heard(t)' /\ tstate'[t] # "RUN"
                    /\ Heard(t)' => tstate'[t] # "RUN"
                    /\ HeardOnce(t)'
  BY DEF StartedLife
<1>5. /\ In(s2c, Started(t)) <=> Head(s2c) = Started(t) \/ In(s2c', Started(t))
      /\ Once(s2c, Started(t)) => /\ Once(s2c', Started(t))
                                  /\ Head(s2c) = Started(t) => ~In(s2c', Started(t))
  BY <1>1, InTail
<1>6. Head(s2c) = Started(t) <=> t = r
  BY <1>2, NoticesDiffer
<1>7. /\ Unread(t) \/ sstate[t] = "PENDING" => ~Heard(t) /\ tstate[t] # "RUN"
      /\ Heard(t) => tstate[t] # "RUN"
      /\ HeardOnce(t)
  BY DEF StartedLife
<1>8. /\ Heard(t)' <=> In(s2c', Started(t)) \/ In(out', Started(t))
      /\ HeardOnce(t)' <=> /\ Once(s2c', Started(t)) /\ Once(out', Started(t))
                           /\ ~(In(s2c', Started(t)) /\ In(out', Started(t)))
  BY DEF Heard, HeardOnce, In, Once
<1> HIDE DEF In, Once, Unread
<1> QED BY <1>1, <1>3, <1>4, <1>5, <1>6, <1>7, <1>8 DEF Heard, HeardOnce

\* Every other step of compiler_proxy keeps it.
LEMMA OtherStarted ==
  ASSUME IInv, LInv, StartedLife, [Next]_vars, out' = out, sstate' = sstate,
         s2c' = s2c \/ (s2c # <<>> /\ s2c' = Tail(s2c)),
         \A t \in Ids : tstate'[t] = "RUN" => tstate[t] = "RUN"
  PROVE  StartedLife'
<1> SUFFICES ASSUME NEW t \in Ids
             PROVE  /\ Unread(t)' \/ sstate'[t] = "PENDING"
                         => ~Heard(t)' /\ tstate'[t] # "RUN"
                    /\ Heard(t)' => tstate'[t] # "RUN"
                    /\ HeardOnce(t)'
  BY DEF StartedLife
<1>1. s2c \in Seq(Notice) /\ (Unread(t)' => Unread(t))
  BY UnreadShrinks DEF IInv, ServerTypeOK
<1>2. /\ In(s2c', Started(t)) => In(s2c, Started(t))
      /\ Once(s2c, Started(t)) => Once(s2c', Started(t))
  <2>1. CASE s2c # <<>> /\ s2c' = Tail(s2c)
    BY <1>1, <2>1, InTail
  <2> QED BY <2>1 DEF In, Once
<1>3. /\ Heard(t)' <=> In(s2c', Started(t)) \/ In(out', Started(t))
      /\ HeardOnce(t)' <=> /\ Once(s2c', Started(t)) /\ Once(out', Started(t))
                           /\ ~(In(s2c', Started(t)) /\ In(out', Started(t)))
  BY DEF Heard, HeardOnce, In, Once
<1>4. /\ Unread(t) \/ sstate[t] = "PENDING" => ~Heard(t) /\ tstate[t] # "RUN"
      /\ Heard(t) => tstate[t] # "RUN"
      /\ HeardOnce(t)
  BY DEF StartedLife
<1> HIDE DEF In, Once, Unread
<1> QED BY <1>1, <1>2, <1>3, <1>4 DEF Heard, HeardOnce


\* The steps of compiler_proxy and of the processes leave the server's loop alone.
ServerIdle == UNCHANGED <<sstate, priority, weight, options, shutdowned, out,
                          respawn, in_timeout, serving>>

\* A step is one of the server, or leaves its loop alone and reads at most one notice.
LEMMA TwoSides ==
  ASSUME [Next]_vars
  PROVE  \/ ServerRead \/ Server
         \/ /\ ServerIdle
            /\ s2c' = s2c \/ (s2c # <<>> /\ s2c' = Tail(s2c))
<1>1. ASSUME NEW t \in Ids, \/ Start(t) \/ TaskRequestRun(t) \/ TaskKill(t)
                            \/ Check(t) \/ Post(t) \/ Done(t)
                            \/ LateTerminated(t) \/ Exit(t)
      PROVE  ServerIdle /\ s2c' = s2c
  BY <1>1 DEF Start, TaskRequestRun, TaskKill, Check, Post, Done, LateTerminated,
              Exit, ProcExit, serverVars, ServerIdle
<1>2. ASSUME NEW o \in {Normal, Burst}, ClientSetOption(o)
      PROVE  ServerIdle /\ s2c' = s2c
  BY <1>2 DEF ClientSetOption, serverVars, ServerIdle
<1>3. CASE \/ CheckSignaled \/ QuitStart \/ Crash \/ WriteFails
           \/ ClientKillCheck \/ ClientKillPost \/ MainThread \/ UNCHANGED vars
  BY <1>3 DEF CheckSignaled, QuitStart, Crash, WriteFails, ClientKillCheck,
              ClientKillPost,
              MainThread, QuitKill, QuitShutdown, QuitUnregister, ClientShutdown,
              vars, serverVars, ServerIdle
<1>4. CASE ClientStarted \/ ClientTerminated \/ ClientClosed
  BY <1>4 DEF ClientStarted, ClientTerminated, ClientClosed, NextNotice,
              serverVars, ServerIdle
<1> QED BY <1>1, <1>2, <1>3, <1>4 DEF Next, Demand, ClientThread, TaskThread

\* Every step keeps StartedLife.
LEMMA NextStarted ==
  ASSUME IInv, LInv, LInv', StartedLife, [Next]_vars
  PROVE  StartedLife'
<1>1. CASE ServerRead \/ Server
  BY <1>1, ServerStarted
<1>2. CASE ClientStarted
  BY <1>2, ClientStartedOnce
<1>3. CASE ~ServerRead /\ ~Server /\ ~ClientStarted
  <2>1. \A t \in Ids : tstate'[t] = "RUN" => tstate[t] = "RUN"
    <3>1. ASSUME NEW t \in Ids, Start(t) \/ TaskKill(t) \/ LateTerminated(t)
          PROVE  \A i \in Ids : tstate'[i] = "RUN" => tstate[i] = "RUN"
      BY <3>1 DEF Start, TaskKill, LateTerminated, IInv, TaskTypeOK
    <3>2. CASE ClientTerminated
      <4>1. Head(s2c).id \in Ids
        BY <3>2, NoticeType DEF ClientTerminated, IInv
      <4> QED BY <3>2, <4>1 DEF ClientTerminated, IInv, TaskTypeOK
    <3>3. \/ tstate' = tstate \/ ClientTerminated
          \/ \E t \in Ids : Start(t) \/ TaskKill(t) \/ LateTerminated(t)
      BY <1>3 DEF Next, Demand, ClientThread, MainThread, TaskThread,
           TaskRequestRun, Check, Post, Done, Exit, CheckSignaled,
           QuitStart, Crash, WriteFails, ClientSetOption, ClientClosed,
           ClientKillCheck,
           ClientKillPost, QuitKill, QuitShutdown, QuitUnregister,
           ClientShutdown, vars, taskVars
    <3> QED BY <3>1, <3>2, <3>3
  <2> QED BY <1>3, <2>1, TwoSides, OtherStarted DEF ServerIdle
<1> QED BY <1>1, <1>2, <1>3

\* Initially no task was started.
LEMMA InitStarted == Init => TaskLife /\ StartedLife
<1> SUFFICES ASSUME Init  PROVE TaskLife /\ StartedLife
  OBVIOUS
<1>1. TaskLife
  BY DEF Init, TaskLife
<1>2. s2c = <<>> /\ out = <<>> /\ \A t \in Ids : sstate[t] = "NONE" /\ tstate[t] = "SETUP"
  BY DEF Init, ServerInit
<1>3. StartedLife
  BY <1>2, EmptyQueue DEF StartedLife, Heard, HeardOnce
<1> QED BY <1>1, <1>3

\* Both hold in every reachable state.
LEMMA TasksAndStarted == Spec => []TaskLife /\ []StartedLife
<1>1. IInv /\ LInv /\ LInv' /\ TaskLife /\ StartedLife /\ [Next]_vars
        => TaskLife' /\ StartedLife'
  BY NextTask, NextStarted
<1> QED BY <1>1, InitStarted, InductiveInvariant, LifetimeInvariant, PTL DEF Spec

\* STARTED finds its task PENDING or SIGNALED, as SubProcessTask::Started CHECKs,
\* and a callback runs once, for any number of tasks and any order in which kills,
\* notices and closures are run.
THEOREM NoticesComeInOrder == Spec => []ToldInOrder
<1>1. IInv /\ TaskLife /\ StartedLife => ToldInOrder
  <2> SUFFICES ASSUME IInv, TaskLife, StartedLife  PROVE ToldInOrder
    OBVIOUS
  <2>1. CalledBackOnce
    BY DEF TaskLife, CalledBackOnce, IInv, ClientInv, ClientTypeOK
  <2>2. StartedInOrder
    <3> SUFFICES ASSUME NextNotice("STARTED"), Head(s2c).id \in subproc_tasks
                 PROVE  /\ tstate[Head(s2c).id] \in {"PENDING", "SIGNALED"}
                        /\ calls_back[Head(s2c).id] = 0
      BY DEF StartedInOrder
    <3>1. /\ s2c \in Seq(Notice) /\ s2c # <<>> /\ Head(s2c) \in Notice
          /\ Head(s2c).op = "STARTED"
      BY HeadTailProperties DEF NextNotice, IInv, ServerTypeOK
    <3>2. PICK r \in Ids : r = Head(s2c).id /\ Head(s2c) = Started(r)
      BY <3>1 DEF Notice, Started
    <3>3. In(s2c, Started(r))
      BY <3>1, <3>2, InTail
    <3>4. tstate[r] # "RUN"
      BY <3>3 DEF StartedLife, Heard
    <3> QED BY <3>2, <3>4 DEF TaskLife
  <2> QED BY <2>1, <2>2 DEF ToldInOrder
<1> QED BY <1>1, TasksAndStarted, InductiveInvariant, PTL


-----------------------------------------------------------------------------
(***************************************************************************)
(* Quit() and the end of the server's loop.                                *)
(***************************************************************************)
ShutdownMsg == [op |-> "SHUTDOWN"]
ClosedMsg == [op |-> "CLOSED"]

\* Where Quit() is: SHUTDOWN comes after its KILLs, and the socket is closed by a
\* client that is dead only.
QuitLife ==
  /\ quit <=> quit_pc # "running"
  /\ periodic <=> quit_pc \in {"running", "kills", "unregister"}
  /\ kills # {} => quit_pc = "kills"
  /\ shutdowned \/ In(c2s, ShutdownMsg) => quit_pc \notin {"running", "kills"}
  /\ In(c2s, ClosedMsg) => ~up

\* What is in the queue was there, or was sent.
LEMMA QueueIn ==
  ASSUME IInv, [Next]_vars, NEW x, In(c2s', x)
  PROVE  \/ In(c2s, x)
         \/ Sends(x)
         \/ Crash /\ x = ClosedMsg
<1>1. PICK k \in 1..Len(c2s') : c2s'[k] = x
  BY DEF In
<1>2. CASE c2s' = c2s
  BY <1>1, <1>2 DEF In
<1>3. ASSUME NEW m \in Request, Sends(m), Sent(m)  PROVE In(c2s, x) \/ Sends(x)
  <2>1. CASE k \in 1..Len(c2s)
    BY <1>1, <1>3, <2>1 DEF Sent, In
  <2>2. CASE ~(k \in 1..Len(c2s))
    <3>1. x = m
      BY <1>1, <1>3, <2>2 DEF Sent
    <3> QED BY <1>3, <3>1
  <2> QED BY <2>1, <2>2
<1>4. CASE Read
  <2>1. k + 1 \in 1..Len(c2s) /\ c2s[k + 1] = x
    BY <1>1, <1>4 DEF Read
  <2> QED BY <2>1 DEF In
<1>5. ASSUME NEW n \in Nat, Lost(n)  PROVE In(c2s, x) \/ x = ClosedMsg
  <2>1. CASE k \in 1..n
    <3>1. k \in 1..Len(c2s) /\ c2s[k] = x
      BY <1>1, <1>5, <2>1 DEF Lost
    <3> QED BY <3>1 DEF In
  <2>2. CASE ~(k \in 1..n)
    BY <1>1, <1>5, <2>2 DEF Lost, ClosedMsg
  <2> QED BY <2>1, <2>2
<1> QED BY <1>2, <1>3, <1>4, <1>5, QueueSteps

\* SHUTDOWN is sent by Quit(), and no client sends CLOSED.
LEMMA WhoSends ==
  ASSUME IInv
  PROVE  /\ Sends(ShutdownMsg) => QuitShutdown
         /\ ~Sends(ClosedMsg)
<1>1. ASSUME NEW m, Sends(m), m.op \in {"SHUTDOWN", "CLOSED"}
      PROVE  QuitShutdown /\ m = ShutdownMsg
  <2>1. \A t \in Ids : \A w \in Weight : Post(t) =>
          RequestOf(t, w).op \in {"REGISTER", "REQUEST_RUN", "KILL"}
    BY RequestOfOK DEF Post
  <2> QED BY <1>1, <2>1 DEF Sends, KillMsg, ShutdownMsg
<1> QED BY <1>1 DEF ShutdownMsg, ClosedMsg

\* Who sets quit_, shutdowned_ and the rest.
LEMMA QuitFrame ==
  ASSUME [Next]_vars
  PROVE  /\ \/ UNCHANGED <<quit, quit_pc, periodic, kills>>
            \/ up /\ up' = up /\ UNCHANGED shutdowned
               /\ (QuitStart \/ QuitKill \/ QuitShutdown \/ QuitUnregister
                   \/ ClientShutdown)
         /\ up' = up \/ ((Crash \/ WriteFails) /\ ~up')
<1>1. ASSUME NEW t \in Ids, \/ Start(t) \/ TaskRequestRun(t) \/ TaskKill(t)
                            \/ Check(t) \/ Post(t) \/ Done(t)
                            \/ LateTerminated(t) \/ Exit(t)
      PROVE  UNCHANGED <<quit, quit_pc, periodic, kills, up>>
  BY <1>1 DEF Start, TaskRequestRun, TaskKill, Check, Post, Done, LateTerminated,
              Exit, clientVars
<1>2. ASSUME NEW o \in {Normal, Burst}, ClientSetOption(o)
      PROVE  UNCHANGED <<quit, quit_pc, periodic, kills, up>>
  BY <1>2 DEF ClientSetOption, clientVars
<1>3. CASE \/ CheckSignaled \/ ClientKillCheck \/ ClientKillPost \/ ClientStarted
           \/ ClientTerminated \/ ClientClosed \/ ServerRead \/ Server
           \/ UNCHANGED vars
  BY <1>3 DEF CheckSignaled, ClientKillCheck, ClientKillPost, ClientStarted,
              ClientTerminated, ClientClosed, ServerRead, Server, vars, clientVars
<1>4. CASE Crash \/ WriteFails
  BY <1>4 DEF Crash, WriteFails, clientVars
<1>5. CASE up /\ (QuitStart \/ MainThread)
  BY <1>5 DEF QuitStart, MainThread, QuitKill, QuitShutdown, QuitUnregister,
              ClientShutdown, serverVars
<1> QED BY <1>1, <1>2, <1>3, <1>4, <1>5 DEF Next, Demand, ClientThread, TaskThread

\* shutdowned_ is set by SHUTDOWN.
LEMMA ShutdownFrame ==
  ASSUME IInv, [Next]_vars
  PROVE  shutdowned' = shutdowned \/ (shutdowned' /\ In(c2s, ShutdownMsg))
<1>1. CASE ServerIdle
  BY <1>1 DEF ServerIdle
<1>2. CASE Server
  BY <1>2 DEF Server, ServerStep, DoWrite, Respawn, DoTimeout, DoTimeoutEnd, DoSignal
<1>3. CASE ServerRead
  <2>1. Read /\ Serve(Head(c2s)) /\ 1 \in 1..Len(c2s)
    BY <1>3, ReadOK DEF IInv, ClientInv, ClientTypeOK, ServerRead, Read
  <2>2. CASE Head(c2s).op = "SHUTDOWN" /\ Shutdown
    <3>1. Head(c2s) = ShutdownMsg
      BY <2>1, <2>2 DEF Read, Request, ShutdownMsg
    <3> QED BY <2>1, <2>2, <3>1 DEF Read, In, Shutdown
  <2>3. CASE ~(Head(c2s).op = "SHUTDOWN" /\ Shutdown)
    BY <2>1, <2>3 DEF Serve, Register, RequestRun, Kill, SetOption, PeerClosed
  <2> QED BY <2>2, <2>3
<1> QED BY <1>1, <1>2, <1>3, TwoSides

\* Every step keeps QuitLife.
LEMMA NextQuit ==
  ASSUME IInv, QuitLife, [Next]_vars
  PROVE  QuitLife'
<1>1. /\ shutdowned' => shutdowned \/ In(c2s, ShutdownMsg)
      /\ In(c2s', ShutdownMsg) => In(c2s, ShutdownMsg) \/ QuitShutdown
      /\ In(c2s', ClosedMsg) => In(c2s, ClosedMsg) \/ (Crash /\ up' = FALSE)
  <2>1. ShutdownMsg # ClosedMsg
    BY DEF ShutdownMsg, ClosedMsg
  <2>2. Crash => up' = FALSE
    BY DEF Crash
  <2>3. In(c2s', ShutdownMsg) => In(c2s, ShutdownMsg) \/ QuitShutdown
    BY <2>1, QueueIn, WhoSends
  <2>4. In(c2s', ClosedMsg) => In(c2s, ClosedMsg) \/ (Crash /\ up' = FALSE)
    BY <2>2, QueueIn, WhoSends
  <2> QED BY <2>3, <2>4, ShutdownFrame
<1>2. CASE UNCHANGED <<quit, quit_pc, periodic, kills>>
  <2>1. ~QuitShutdown
    BY <1>2 DEF QuitShutdown
  <2> QED BY <1>1, <1>2, <2>1, QuitFrame DEF QuitLife, In
<1>3. CASE up /\ up' = up /\ UNCHANGED shutdowned
           /\ (QuitStart \/ QuitKill \/ QuitShutdown \/ QuitUnregister
               \/ ClientShutdown)
  BY <1>1, <1>3
     DEF QuitLife, QuitStart, QuitKill, QuitShutdown, QuitUnregister,
         ClientShutdown, In
<1> QED BY <1>2, <1>3, QuitFrame


-----------------------------------------------------------------------------
\* The callback of t was called, is posted, or will be: nothing of t is left.
Finished(t) == \/ Ended(t) \/ t \in done
               \/ tstate[t] = "FINISHED" \/ calls_back[t] > 0

\* A request about t other than its REGISTER.
AskAt(t, k) == c2s[k].op \in {"KILL", "REQUEST_RUN"} /\ c2s[k].id = t

\* Until Quit() begins the server hears of a task from its REGISTER first, so that
\* TERMINATED is the last thing that happens to it.
EndLife ==
  ~quit =>
    /\ late = {}
    /\ \A t \in Ids :
         /\ Finished(t) => ~Unread(t) /\ sstate[t] = "NONE"
         /\ tstate[t] = "SIGNALED" \/ t \in ckills => ~Unsent(t)
         /\ \A k \in 1..Len(c2s) : AskAt(t, k) =>
              ~Unsent(t) /\ \A l \in k..Len(c2s) : ~RegisterAt(t, l)

\* quit_ is never taken back.
LEMMA QuitStays ==
  ASSUME QuitLife, [Next]_vars, ~quit'
  PROVE  ~quit /\ quit' = quit /\ ~QuitKill /\ kills = {} /\ ~shutdowned
<1>1. UNCHANGED <<quit, quit_pc, periodic, kills>> \/ ~quit
  BY QuitFrame
     DEF QuitStart, QuitKill, QuitShutdown, QuitUnregister, ClientShutdown, QuitLife
<1>2. quit' = quit \/ quit'
  BY QuitFrame
     DEF QuitStart, QuitKill, QuitShutdown, QuitUnregister, ClientShutdown, QuitLife
<1> QED BY <1>1, <1>2 DEF QuitLife, QuitKill

\* Requests keep coming after the REGISTER of their task.
LEMMA NextAsked ==
  ASSUME IInv, LInv, QuitLife, EndLife, [Next]_vars, ~quit',
         NEW t \in Ids, NEW k \in 1..Len(c2s'), AskAt(t, k)'
  PROVE  ~Unsent(t)' /\ \A l \in k..Len(c2s') : ~RegisterAt(t, l)'
<1>1. ~quit /\ ~QuitKill
  BY QuitStays
<1>2. \A j \in 1..Len(c2s) : AskAt(t, j) =>
              ~Unsent(t) /\ \A l \in j..Len(c2s) : ~RegisterAt(t, l)
  BY <1>1 DEF EndLife
<1>3. ~Unsent(t) => ~Unsent(t)'
  BY UnsentShrinks
<1> SUFFICES ASSUME NEW l \in k..Len(c2s')
             PROVE  ~Unsent(t) /\ ~RegisterAt(t, l)'
  <2>1. k \in k..Len(c2s')
    OBVIOUS
  <2> QED BY <1>3, <2>1
<1> HIDE DEF Unsent
<1>4. CASE c2s' = c2s
  BY <1>2, <1>4 DEF AskAt, RegisterAt
<1>5. ASSUME NEW m \in Request, Sends(m), Sent(m)
      PROVE  ~Unsent(t) /\ ~RegisterAt(t, l)'
  <2>1. m.op = "REGISTER" /\ m.id = t => Unsent(t)
    <3> SUFFICES ASSUME m.op = "REGISTER", m.id = t  PROVE Unsent(t)
      OBVIOUS
    <3>1. PICK i \in Ids : Post(i) /\ \E w \in Weight : m = RequestOf(i, w)
      BY <1>5 DEF Sends, KillMsg
    <3> QED BY <3>1, RequestOfOK DEF Post, Unsent
  <2>2. m.op \in {"KILL", "REQUEST_RUN"} /\ m.id = t => ~Unsent(t)
    <3> SUFFICES ASSUME m.op \in {"KILL", "REQUEST_RUN"}, m.id = t
                 PROVE  ~Unsent(t)
      OBVIOUS
    <3>1. ASSUME NEW i \in Ids, Post(i), NEW w \in Weight, m = RequestOf(i, w)
          PROVE  ~Unsent(t)
      <4>1. i = t /\ call[t].op \in {"KILL", "REQUEST_RUN"}
        BY <3>1, RequestOfOK DEF Post
      <4> QED BY <4>1 DEF Unsent, LInv, RegisteredOnce, NoCall
    <3>2. ASSUME NEW i \in ckills, m = KillMsg(i)  PROVE ~Unsent(t)
      BY <1>1, <3>2 DEF KillMsg, EndLife
    <3> QED BY <1>1, <1>5, <3>1, <3>2 DEF Sends
  <2>3. CASE k \in 1..Len(c2s)
    <3>1. AskAt(t, k)
      BY <1>5, <2>3 DEF Sent, AskAt
    <3>2. CASE l \in 1..Len(c2s)
      BY <1>2, <1>5, <2>3, <3>1, <3>2 DEF Sent, RegisterAt
    <3>3. CASE ~(l \in 1..Len(c2s))
      BY <1>2, <1>5, <2>1, <2>3, <3>1, <3>3 DEF Sent, RegisterAt
    <3> QED BY <3>2, <3>3
  <2>4. CASE ~(k \in 1..Len(c2s))
    <3>1. k = Len(c2s) + 1 /\ l = Len(c2s) + 1 /\ c2s'[k] = m
      BY <1>5, <2>4 DEF Sent
    <3> QED BY <2>2, <3>1 DEF AskAt, RegisterAt
  <2> QED BY <2>3, <2>4
<1>6. CASE Read
  <2>1. /\ k + 1 \in 1..Len(c2s) /\ l + 1 \in (k + 1)..Len(c2s)
        /\ l \in 1..Len(c2s')
    BY <1>6 DEF Read
  <2>2. c2s'[k] = c2s[k + 1] /\ c2s'[l] = c2s[l + 1]
    BY <1>6, <2>1 DEF Read
  <2> QED BY <1>2, <2>1, <2>2 DEF AskAt, RegisterAt
<1>7. ASSUME NEW n \in Nat, Lost(n)  PROVE ~Unsent(t) /\ ~RegisterAt(t, l)'
  <2>1. k \in 1..n /\ k \in 1..Len(c2s) /\ AskAt(t, k)
    BY <1>7 DEF Lost, AskAt
  <2>2. CASE l = n + 1
    <3>1. c2s'[l].op = "CLOSED"
      BY <1>7, <2>2 DEF Lost
    <3> QED BY <1>2, <2>1, <3>1 DEF RegisterAt
  <2>3. CASE l # n + 1
    <3>1. l \in 1..n /\ l \in k..Len(c2s) /\ c2s'[l] = c2s[l]
      BY <1>7, <2>1, <2>3 DEF Lost
    <3> QED BY <1>2, <2>1, <3>1 DEF RegisterAt
  <2> QED BY <2>2, <2>3
<1> QED BY <1>4, <1>5, <1>6, <1>7, QueueSteps


\* Only a task whose REGISTER was sent is killed.
LEMMA NextSignaled ==
  ASSUME IInv, TaskLife, StartedLife, QuitLife, EndLife, [Next]_vars, ~quit',
         NEW t \in Ids, tstate'[t] = "SIGNALED" \/ t \in ckills'
  PROVE  ~Unsent(t)'
<1>1. ~quit
  BY QuitStays
<1>2. tstate[t] = "SIGNALED" \/ t \in ckills => ~Unsent(t)'
  BY <1>1, UnsentShrinks DEF EndLife
<1>3. ASSUME NEW i \in Ids, TaskKill(i)  PROVE ~Unsent(t)'
  <2>1. t # i => tstate'[t] = tstate[t] /\ ckills' = ckills
    BY <1>3 DEF TaskKill, clientVars, IInv, TaskTypeOK
  <2>2. CASE t = i
    <3>1. t <= created /\ created' = created /\ call'[t].op = "KILL"
      BY <1>3, <2>2 DEF TaskKill, Idle, Alive, IInv, TaskTypeOK
    <3> QED BY <3>1, IdsAssumption DEF Unsent, IInv, TaskTypeOK
  <2>3. ckills' = ckills
    BY <1>3 DEF TaskKill, clientVars
  <2> QED BY <1>2, <2>1, <2>2, <2>3
<1>4. ASSUME NEW i \in Ids, Start(i)  PROVE ~Unsent(t)'
  BY <1>2, <1>4 DEF Start, IInv, TaskTypeOK
<1>5. ASSUME NEW i \in Ids, LateTerminated(i)  PROVE ~Unsent(t)'
  BY <1>1, <1>5 DEF LateTerminated, EndLife
<1>6. CASE ClientStarted
  <2>1. /\ s2c \in Seq(Notice) /\ s2c # <<>> /\ Head(s2c) \in Notice
        /\ Head(s2c).op = "STARTED"
    BY <1>6, HeadTailProperties
       DEF ClientStarted, NextNotice, IInv, ServerTypeOK
  <2>2. PICK r \in Ids : r = Head(s2c).id /\ Head(s2c) = Started(r)
    BY <2>1 DEF Notice, Started
  <2>3. ~Unread(r)
    BY <2>1, <2>2, InTail DEF StartedLife, Heard
  <2>4. ~Unsent(r)'
    BY <2>3, UnsentShrinks DEF Unread, Unsent
  <2>5. tstate'[t] = "SIGNALED" => tstate[t] = "SIGNALED"
    BY <1>6, <2>2 DEF ClientStarted, IInv, TaskTypeOK
  <2>6. t \in ckills' => t \in ckills \/ t = r
    BY <1>6, <2>2 DEF ClientStarted
  <2> QED BY <1>2, <2>4, <2>5, <2>6
<1>7. CASE ClientTerminated
  <2>1. Head(s2c).id \in Ids
    BY <1>7, NoticeType DEF ClientTerminated, IInv
  <2> QED BY <1>2, <1>7, <2>1 DEF ClientTerminated, IInv, TaskTypeOK
<1>8. CASE CheckSignaled
  BY <1>2, <1>8 DEF CheckSignaled, taskVars
<1>9. CASE ClientKillCheck \/ ClientKillPost
  BY <1>2, <1>9 DEF ClientKillCheck, ClientKillPost, taskVars
<1>10. CASE tstate' = tstate /\ ckills' = ckills
  BY <1>2, <1>10
<1>11. \/ tstate' = tstate /\ ckills' = ckills
       \/ ClientStarted \/ ClientTerminated \/ CheckSignaled
       \/ ClientKillCheck \/ ClientKillPost
       \/ \E i \in Ids : TaskKill(i) \/ Start(i) \/ LateTerminated(i)
  BY DEF Next, Demand, ClientThread, MainThread, TaskThread,
         TaskRequestRun, Check, Post, Done, Exit,
         QuitStart, Crash, WriteFails, ClientSetOption, ClientClosed,
         QuitKill, QuitShutdown, QuitUnregister,
         ClientShutdown, Server, ServerRead, vars, taskVars, clientVars
<1> QED BY <1>3, <1>4, <1>5, <1>6, <1>7, <1>8, <1>9, <1>10, <1>11

\* The server says TERMINATED of a task it knew and knows no more.
LEMMA ServerFinished ==
  ASSUME IInv, LInv, LInv', QuitLife, EndLife, ~quit, ServerRead \/ Server,
         NEW t \in Ids, Finished(t)'
  PROVE  ~Unread(t)' /\ sstate'[t] = "NONE"
<1>1. [Next]_vars /\ UNCHANGED taskVars /\ UNCHANGED clientVars
  BY DEF ServerRead, Server, Next
<1>2. Finished(t) => ~Unread(t) /\ sstate[t] = "NONE"
  BY DEF EndLife
<1>3. Unread(t)' => Unread(t) /\ sstate'[t] = "NONE"
  BY <1>1, UnreadShrinks DEF LInv, RegisteredOnce, Unread
<1>4. Finished(t)' => Finished(t) \/ Ended(t)'
  BY <1>1 DEF Finished, taskVars
<1>5. Ended(t) => Finished(t)
  BY DEF Finished
<1>6. Unread(t) => sstate[t] = "NONE"
  BY UnreadNone
<1>7. ~shutdowned
  BY DEF QuitLife
<1>8. sstate[t] \in State
  BY DEF IInv, ServerTypeOK
<1> HIDE DEF Unread, Ended, Finished
<1>9. ASSUME NEW asked, ServerTells(sstate, asked), t = asked => ~Unread(t)'
      PROVE  ~Unread(t)' /\ sstate'[t] = "NONE"
  BY <1>2, <1>3, <1>4, <1>5, <1>6, <1>9 DEF ServerTells
<1>10. CASE ServerTells(sstate, 0)
  BY <1>9, <1>10, IdsAssumption
<1>11. ASSUME NEW i \in Ids, ServerRead, Read, Head(c2s).id = i,
              Head(c2s).op \in {"KILL", "REQUEST_RUN"}
       PROVE  ~Unread(i)'
  <2>1. 1 \in 1..Len(c2s) /\ AskAt(i, 1)
    BY <1>11 DEF Read, AskAt
  <2>2. ~Unsent(i) /\ \A l \in 1..Len(c2s) : ~RegisterAt(i, l)
    BY <2>1 DEF EndLife
  <2>3. ~Unread(i)
    BY <2>2 DEF Unread, Unsent, InFlight
  <2> QED BY <1>1, <2>3, UnreadShrinks
<1>12. ASSUME NEW i \in Ids, ServerRead, Read, RegisterAt(i, 1),
              ServerTells([sstate EXCEPT ![i] = "PENDING"], i)
       PROVE  ~Unread(t)' /\ sstate'[t] = "NONE"
  <2> DEFINE b == [sstate EXCEPT ![i] = "PENDING"]
  <2>1. b[t] = IF t = i THEN "PENDING" ELSE sstate[t]
    BY DEF IInv, ServerTypeOK
  <2>2. t = i => Unread(t) /\ ~Unread(t)'
    BY <1>12, ReadRegister
  <2>3. ServerTells(b, i)
    BY <1>12
  <2> HIDE DEF b
  <2> QED BY <1>2, <1>3, <1>4, <1>5, <1>6, <2>1, <2>2, <2>3 DEF ServerTells
<1> QED BY <1>7, <1>9, <1>10, <1>11, <1>12, ServerSays

\* So does every step of compiler_proxy.
LEMMA NextFinished ==
  ASSUME IInv, LInv, LInv', TaskLife, QuitLife, EndLife, [Next]_vars, ~quit',
         NEW t \in Ids, Finished(t)'
  PROVE  ~Unread(t)' /\ sstate'[t] = "NONE"
<1>1. ~quit /\ late = {}
  BY QuitStays DEF EndLife
<1>2. CASE ServerRead \/ Server
  BY <1>1, <1>2, ServerFinished
<1>3. CASE ~ServerRead /\ ~Server
  <2>1. /\ sstate' = sstate /\ out' = out
        /\ s2c' = s2c \/ (s2c # <<>> /\ s2c' = Tail(s2c))
    BY <1>3, TwoSides DEF ServerIdle
  <2>2. Ended(t)' => Ended(t)
    <3>1. s2c \in Seq(Notice)
      BY DEF IInv, ServerTypeOK
    <3>2. \A m : In(s2c', m) => In(s2c, m)
      <4>1. CASE s2c # <<>> /\ s2c' = Tail(s2c)
        BY <3>1, <4>1, InTail
      <4> QED BY <2>1, <4>1
    <3> HIDE DEF In
    <3> QED BY <2>1, <3>2 DEF Ended, Ends
  <2>3. Finished(t) => ~Unread(t)' /\ sstate'[t] = "NONE"
    BY <1>1, <2>1, UnreadShrinks DEF EndLife
  <2>4. Finished(t)' => Finished(t)
    <3>1. \/ UNCHANGED <<done, tstate, calls_back>>
          \/ ClientStarted \/ ClientTerminated
          \/ \E i \in Ids : TaskKill(i) \/ Start(i) \/ Done(i)
      BY <1>1, <1>3
         DEF Next, Demand, ClientThread, MainThread, TaskThread,
             TaskRequestRun, Check, Post, Exit, CheckSignaled, LateTerminated,
             ClientKillCheck, ClientKillPost,
             QuitStart, Crash, WriteFails, ClientSetOption, ClientClosed,
             QuitKill, QuitShutdown, QuitUnregister,
             ClientShutdown, vars, taskVars, clientVars
    <3>2. CASE UNCHANGED <<done, tstate, calls_back>>
      BY <2>2, <3>2 DEF Finished
    <3>3. CASE ClientStarted
      <4>1. Head(s2c).id \in Ids
        BY <3>3, NoticeType DEF ClientStarted, IInv
      <4>2. /\ done' = done /\ calls_back' = calls_back
            /\ tstate'[t] = "FINISHED" => tstate[t] = "FINISHED"
        BY <3>3, <4>1 DEF ClientStarted, IInv, TaskTypeOK
      <4> QED BY <2>2, <4>2 DEF Finished
    <3>4. CASE ClientTerminated
      <4>1. /\ s2c \in Seq(Notice) /\ s2c # <<>> /\ Head(s2c) \in Notice
            /\ Head(s2c).op = "TERMINATED"
        BY <3>4, HeadTailProperties
           DEF ClientTerminated, NextNotice, IInv, ServerTypeOK
      <4>2. PICK r \in Ids, how \in Status :
              r = Head(s2c).id /\ Head(s2c) = TerminatedMsg(r, how)
        BY <4>1 DEF Notice, TerminatedMsg
      <4>3. Ended(r)
        BY <4>1, <4>2, InTail DEF Ended, Ends
      <4>4. /\ calls_back' = calls_back
            /\ t # r => tstate'[t] = tstate[t] /\ (t \in done' => t \in done)
        BY <3>4, <4>2 DEF ClientTerminated, IInv, TaskTypeOK
      <4> QED BY <2>2, <4>3, <4>4 DEF Finished
    <3>5. ASSUME NEW i \in Ids, TaskKill(i)  PROVE Finished(t)' => Finished(t)
      <4>1. /\ done' = done /\ calls_back' = calls_back
            /\ tstate'[t] = "FINISHED" => tstate[t] = "FINISHED"
        BY <3>5 DEF TaskKill, IInv, TaskTypeOK
      <4> QED BY <2>2, <4>1 DEF Finished
    <3>6. ASSUME NEW i \in Ids, Start(i)  PROVE Finished(t)' => Finished(t)
      <4>1. /\ done' = done /\ calls_back' = calls_back
            /\ tstate'[t] = "FINISHED" => tstate[t] = "FINISHED"
        BY <3>6 DEF Start, IInv, TaskTypeOK
      <4> QED BY <2>2, <4>1 DEF Finished
    <3>7. ASSUME NEW i \in Ids, Done(i)  PROVE Finished(t)' => Finished(t)
      <4>1. /\ done' \subseteq done /\ tstate' = tstate
            /\ t # i => calls_back'[t] = calls_back[t]
            /\ i \in done \/ tstate[i] = "FINISHED"
        BY <3>7 DEF Done, IInv, TaskTypeOK
      <4> QED BY <2>2, <4>1 DEF Finished
    <3> QED BY <3>1, <3>2, <3>3, <3>4, <3>5, <3>6, <3>7
  <2> QED BY <2>3, <2>4
<1> QED BY <1>2, <1>3

\* No Terminated closure is posted by RegisterTask before Quit().
LEMMA NextLate ==
  ASSUME EndLife, QuitLife, [Next]_vars, ~quit'
  PROVE  late' = {}
<1>1. ~quit /\ late = {}
  BY QuitStays DEF EndLife
<1> QED BY <1>1
    DEF Next, Demand, ClientThread, MainThread, TaskThread, Start, TaskKill,
        TaskRequestRun, Check, Post, Done, Exit, CheckSignaled, LateTerminated,
        ClientKillCheck, ClientKillPost, ClientStarted, ClientTerminated,
        QuitStart, Crash, WriteFails, ClientSetOption, ClientClosed,
        QuitKill, QuitShutdown, QuitUnregister,
        ClientShutdown, Server, ServerRead, vars, taskVars, clientVars

\* Every step keeps EndLife.
LEMMA NextEnd ==
  ASSUME IInv, LInv, LInv', TaskLife, StartedLife, QuitLife, EndLife, [Next]_vars
  PROVE  EndLife'
<1> SUFFICES ASSUME ~quit'
             PROVE  /\ late' = {}
                    /\ \A t \in Ids :
                         /\ Finished(t)' => ~Unread(t)' /\ sstate'[t] = "NONE"
                         /\ tstate'[t] = "SIGNALED" \/ t \in ckills' => ~Unsent(t)'
                         /\ \A k \in 1..Len(c2s') : AskAt(t, k)' =>
                              /\ ~Unsent(t)'
                              /\ \A l \in k..Len(c2s') : ~RegisterAt(t, l)'
  BY DEF EndLife
<1> QED BY NextLate, NextFinished, NextSignaled, NextAsked

\* Initially nobody has asked for anything.
LEMMA InitEnd == Init => QuitLife /\ EndLife
<1> SUFFICES ASSUME Init  PROVE QuitLife /\ EndLife
  OBVIOUS
<1>1. s2c = <<>> /\ out = <<>> /\ c2s = <<>> /\ Len(c2s) = 0
  BY DEF Init, ServerInit
<1>2. QuitLife
  BY <1>1, EmptyQueue DEF Init, ServerInit, QuitLife
<1>3. \A t \in Ids : ~Finished(t)
  BY <1>1, EmptyQueue DEF Init, Finished, Ended, Ends
<1> QED BY <1>1, <1>2, <1>3 DEF Init, EndLife

\* Both hold in every reachable state.
LEMMA QuitAndEnd == Spec => []QuitLife /\ []EndLife
<1>1. IInv /\ LInv /\ LInv' /\ TaskLife /\ StartedLife /\ QuitLife /\ EndLife
        /\ [Next]_vars => QuitLife' /\ EndLife'
  BY NextQuit, NextEnd
<1> QED BY <1>1, InitEnd, InductiveInvariant, LifetimeInvariant, TasksAndStarted,
           PTL DEF Spec

\* "Once callback is called, the subprocess is terminated": until Quit() begins no
\* process is alive whose task was called back, for every interleaving of kills,
\* run requests and exits.
THEOREM CalledBackMeansDead == Spec => []DoneMeansDead
<1>1. IInv /\ LInv /\ EndLife => DoneMeansDead
  <2> SUFFICES ASSUME IInv, LInv, EndLife, ~quit, NEW t \in Ids, calls_back[t] > 0
               PROVE  proc[t] \in {"none", "exited"}
    BY DEF DoneMeansDead
  <2>1. sstate[t] = "NONE"
    BY DEF EndLife, Finished
  <2> QED BY <2>1 DEF LInv, EntryOfProcess, IInv, ServerTypeOK, Process
<1> QED BY <1>1, InductiveInvariant, LifetimeInvariant, QuitAndEnd, PTL


-----------------------------------------------------------------------------
(***************************************************************************)
(* The last pass of the loop: a task is told before the socket is closed.  *)
(***************************************************************************)
Spawn == {"RUN", "SIGNALED"}

\* A pass of the loop with an event in it.
PassStep ==
  /\ AtSelect /\ EndOfPass(Flushed)
  /\ \A j \in Ids : sstate[j] \in Spawn => sstate'[j] \in Spawn
  /\ ~In(out', Closed)

\* A pass of DoTimeout().
TimeoutStep ==
  /\ ~respawn /\ UNCHANGED <<serving, s2c, shutdowned>>
  /\ in_timeout' \/ ~respawn'
  /\ \A j \in Ids : /\ Ends(out, j) => Ends(out', j)
                    /\ sstate[j] \in Spawn => sstate'[j] \in Spawn \/ Ends(out', j)
  /\ In(out', Closed) => In(out, Closed)

\* The nested TrySpawnSubProcess.
RespawnStep ==
  /\ respawn /\ UNCHANGED <<shutdowned, in_timeout>>
  /\ IF in_timeout THEN UNCHANGED <<serving, s2c>> ELSE EndOfPass(s2c)
  /\ \A j \in Ids : /\ Ends(out, j) => Ends(out', j)
                    /\ sstate[j] \in Spawn => sstate'[j] \in Spawn
  /\ In(out', Closed) => In(out, Closed)

\* TrySpawnSubProcess and Terminated() in the terms of the steps above.
LEMMA SpawnPass ==
  ASSUME NEW s \in [Ids -> State], NEW p, NEW w, NEW pr, NEW o \in Seq(Notice),
         TrySpawn(s, p, w, pr, o)
  PROVE  /\ In(out', Closed) => In(o, Closed)
         /\ \A j \in Ids : /\ Ends(o, j) => Ends(out', j)
                           /\ s[j] \in Spawn => sstate'[j] \in Spawn
<1> QED BY SpawnTells DEF Tells, Spawn

\* Terminated() tells the end of its entry and forgets no other.
LEMMA TerminatedPass ==
  ASSUME ServerTypeOK, NEW i \in Ids, NEW how \in Status, NEW pr,
         NEW o \in Seq(Notice), Terminated(i, how, pr, o)
  PROVE  /\ In(out', Closed) => In(o, Closed)
         /\ Ends(out', i)
         /\ \A j \in Ids : /\ Ends(o, j) => Ends(out', j)
                           /\ j # i /\ sstate[j] \in Spawn => sstate'[j] \in Spawn
<1> DEFINE s == [sstate EXCEPT ![i] = "NONE"]
           q == Append(o, TerminatedMsg(i, how))
<1>1. s \in [Ids -> State] /\ q \in Seq(Notice)
  BY AreNotices DEF ServerTypeOK, State
<1>2. TrySpawn(s, priority, weight, pr, q)
  BY DEF Terminated
<1>3. /\ In(q, Closed) <=> In(o, Closed)
      /\ \A j \in Ids : Ends(q, j) <=> Ends(o, j) \/ i = j
  BY SendOne
<1>4. \A j \in Ids : j # i => s[j] = sstate[j]
  BY DEF ServerTypeOK
<1> HIDE DEF s, q
<1> QED BY <1>1, <1>2, <1>3, <1>4, SpawnPass

\* What a request does.
LEMMA ReadKinds ==
  ASSUME IInv, LInv, ServerRead
  PROVE  /\ serving /\ AtSelect
         /\ \/ PassStep
            \/ PeerClosed /\ In(c2s, ClosedMsg)
         /\ \A t \in Ids : Head(c2s) = KillMsg(t)
              => sstate'[t] \in Spawn \/ Ends(out', t)
<1>1. Read /\ Serve(Head(c2s)) /\ ServerTypeOK /\ <<>> \in Seq(Notice)
  BY ReadOK, EmptyQueue DEF IInv, ClientInv, ClientTypeOK, ServerRead
<1>2. sstate \in [Ids -> State] /\ ~In(<<>>, Closed)
  BY EmptyQueue DEF IInv, ServerTypeOK
<1> DEFINE m == Head(c2s)
<1>3. m \in Request /\ m = c2s[1] /\ 1 \in 1..Len(c2s)
  BY <1>1 DEF Read
<1>4. \A t \in Ids : m = KillMsg(t) => m.op = "KILL" /\ m.id = t
  BY DEF KillMsg
<1>5. Serve(m)
  BY <1>1
<1> HIDE DEF m
<1>6. CASE m.op = "REGISTER" /\ Register(m.id, m.priority, m.weight)
  <2>1. m.id \in Ids
    BY <1>3, <1>6 DEF Request
  <2>2. CASE shutdowned
    <3>1. /\ sstate' = sstate
          /\ out' = Append(<<>>, TerminatedMsg(m.id, "NotStarted"))
      BY <1>6, <2>2 DEF Register
    <3>2. ~In(out', Closed)
      BY <1>1, <1>2, <2>1, <3>1, SendOne DEF Status
    <3> QED BY <1>4, <1>6, <3>1, <3>2 DEF Register, PassStep, AtSelect, m
  <2>3. CASE ~shutdowned
    <3> DEFINE s == [sstate EXCEPT ![m.id] = "PENDING"]
    <3>1. s \in [Ids -> State]
      BY <1>2 DEF State
    <3>2. TrySpawn(s, priority', weight', proc, <<>>)
      BY <1>6, <2>3 DEF Register
    <3>3. RegisterAt(m.id, 1)
      BY <1>3, <1>6 DEF RegisterAt
    <3>4. sstate[m.id] = "NONE"
      BY <1>3, <2>1, <3>3 DEF LInv, RegisteredOnce, InFlight
    <3>5. \A j \in Ids : sstate[j] \in Spawn => s[j] \in Spawn
      BY <1>2, <3>4 DEF Spawn
    <3> HIDE DEF s
    <3>6. /\ \A j \in Ids : sstate[j] \in Spawn => sstate'[j] \in Spawn
          /\ ~In(out', Closed)
      BY <1>1, <1>2, <3>1, <3>2, <3>5, SpawnPass
    <3> QED BY <1>4, <1>6, <3>6 DEF Register, PassStep, AtSelect, m
  <2> QED BY <2>2, <2>3
<1>7. CASE m.op = "REQUEST_RUN" /\ RequestRun(m.id)
  <2>1. m.id \in Ids
    BY <1>3, <1>7 DEF Request
  <2>2. /\ \A j \in Ids : sstate[j] \in Spawn => sstate'[j] \in Spawn
        /\ ~In(out', Closed)
    <3>1. CASE shutdowned
      BY <1>2, <1>7, <3>1 DEF RequestRun
    <3>2. CASE ~shutdowned /\ sstate[m.id] = "NONE"
      <4>1. Terminated(m.id, "InternalError", proc, <<>>)
        BY <1>7, <3>2 DEF RequestRun
      <4> QED BY <1>1, <1>2, <2>1, <3>2, <4>1, TerminatedPass DEF Status, Spawn
    <3>3. CASE ~shutdowned /\ sstate[m.id] # "NONE"
      <4>1. TrySpawn(sstate, priority', weight, proc, <<>>)
        BY <1>7, <3>3 DEF RequestRun
      <4> QED BY <1>1, <1>2, <4>1, SpawnPass
    <3> QED BY <3>1, <3>2, <3>3
  <2> QED BY <1>4, <1>7, <2>2 DEF RequestRun, PassStep, AtSelect, m
<1>8. CASE m.op = "KILL" /\ Kill(m.id)
  <2>1. m.id \in Ids
    BY <1>3, <1>8 DEF Request
  <2>2. /\ \A j \in Ids : sstate[j] \in Spawn => sstate'[j] \in Spawn
        /\ ~In(out', Closed)
        /\ sstate'[m.id] \in Spawn \/ Ends(out', m.id)
    <3>1. CASE sstate[m.id] \in Spawn
      BY <1>2, <1>8, <3>1 DEF Kill, Spawn
    <3>2. CASE sstate[m.id] \notin Spawn
      <4>1. PICK how \in Status : Terminated(m.id, how, proc, <<>>)
        BY <1>8, <3>2 DEF Kill, Spawn, Status
      <4> QED BY <1>1, <1>2, <2>1, <3>2, <4>1, TerminatedPass
    <3> QED BY <3>1, <3>2
  <2> QED BY <1>4, <1>8, <2>2 DEF Kill, PassStep, AtSelect, m
<1>9. CASE m.op = "SET_OPTION" /\ SetOption(m.option)
  BY <1>2, <1>4, <1>9 DEF SetOption, PassStep, AtSelect, m
<1>10. CASE m.op = "SHUTDOWN" /\ Shutdown
  BY <1>2, <1>4, <1>10 DEF Shutdown, PassStep, AtSelect, m
<1>11. CASE m.op = "CLOSED" /\ PeerClosed
  <2>1. m = ClosedMsg
    BY <1>3, <1>11 DEF Request, ClosedMsg
  <2>2. In(c2s, ClosedMsg)
    BY <1>3, <2>1 DEF In
  <2> QED BY <1>4, <1>11, <2>2 DEF PeerClosed, AtSelect, m
<1> QED BY <1>5, <1>6, <1>7, <1>8, <1>9, <1>10, <1>11 DEF Serve

\* What the server does on its own.
LEMMA OwnKinds ==
  ASSUME IInv, LInv, Server
  PROVE  serving /\ (PassStep \/ TimeoutStep \/ RespawnStep)
<1>1. ServerTypeOK /\ sstate \in [Ids -> State] /\ out \in Seq(Notice)
  BY DEF IInv, ServerTypeOK
<1>2. CASE DoWrite
  BY <1>2, EmptyQueue DEF DoWrite, PassStep, AtSelect
<1>3. CASE Respawn
  <2>1. TrySpawn(sstate, priority, weight, proc, out)
    BY <1>3 DEF Respawn
  <2>2. /\ In(out', Closed) => In(out, Closed)
        /\ \A j \in Ids : /\ Ends(out, j) => Ends(out', j)
                          /\ sstate[j] \in Spawn => sstate'[j] \in Spawn
    BY <1>1, <2>1, SpawnPass
  <2> QED BY <1>3, <2>2 DEF Respawn, RespawnStep
<1>4. CASE DoTimeoutEnd
  BY <1>4 DEF DoTimeoutEnd, TimeoutStep, Ends, In
<1>5. CASE DoTimeout(c2s = <<>>)
  <2> DEFINE i == Least(Reapable)
  <2>1. i \in Ids
    <3>1. Reapable \in SUBSET Ids
      BY DEF Reapable
    <3> QED BY <1>5, <3>1, LeastId DEF DoTimeout
  <2>2. Terminated(i, "ran", [proc EXCEPT ![i] = "exited"], out)
    BY <1>5 DEF DoTimeout
  <2> HIDE DEF i
  <2>3. /\ In(out', Closed) => In(out, Closed)
        /\ \A j \in Ids :
             /\ Ends(out, j) => Ends(out', j)
             /\ sstate[j] \in Spawn => sstate'[j] \in Spawn \/ Ends(out', j)
    BY <1>1, <2>1, <2>2, TerminatedPass DEF Status
  <2> QED BY <1>5, <2>3 DEF DoTimeout, TimeoutStep
<1>6. ASSUME NEW i \in Ids, DoSignal(i)  PROVE serving /\ PassStep
  <2>1. /\ \A j \in Ids : sstate[j] \in Spawn => sstate'[j] \in Spawn
        /\ ~In(out', Closed)
    BY <1>1, <1>6, EmptyQueue DEF DoSignal, Spawn
  <2> QED BY <1>6, <2>1 DEF DoSignal, PassStep, AtSelect
<1> QED BY <1>2, <1>3, <1>4, <1>5, <1>6 DEF Server, ServerStep


\* The socket is closed once, at the end, by a server that was told to.
SocketLife ==
  /\ ~In(out, Closed)
  /\ serving => ~In(s2c, Closed)
  /\ \A k \in 1..Len(s2c) : s2c[k] = Closed => k = Len(s2c)
  /\ up /\ ~serving => shutdowned

\* Closing a socket that is open.
LEMMA CloseOnce ==
  ASSUME NEW q \in Seq(Notice), ~In(q, Closed)
  PROVE  \A k \in 1..Len(Append(q, Closed)) :
           Append(q, Closed)[k] = Closed => k = Len(Append(q, Closed))
<1>1. /\ Len(Append(q, Closed)) = Len(q) + 1 /\ Len(q) \in Nat
      /\ \A k \in 1..Len(q) : Append(q, Closed)[k] = q[k]
  BY AppendProperties, LenProperties, AreNotices
<1> QED BY <1>1 DEF In

\* The end of a pass that found the socket open.
LEMMA EndSocket ==
  ASSUME NEW q \in Seq(Notice), ~In(q, Closed), EndOfPass(q), serving
  PROVE  /\ serving' => ~In(s2c', Closed)
         /\ \A k \in 1..Len(s2c') : s2c'[k] = Closed => k = Len(s2c')
         /\ ~serving' => shutdowned' /\ ~respawn' /\ \A i \in Ids : sstate'[i] = "NONE"
<1>1. CASE s2c' = q
  BY <1>1 DEF EndOfPass, In
<1>2. CASE s2c' = Append(q, Closed)
  BY <1>2, CloseOnce DEF EndOfPass
<1> QED BY <1>1, <1>2 DEF EndOfPass

\* The server keeps SocketLife.
LEMMA ServerSocket ==
  ASSUME IInv, LInv, QuitLife, SocketLife, ServerRead \/ Server
  PROVE  SocketLife'
<1>1. /\ s2c \in Seq(Notice) /\ Flushed \in Seq(Notice) /\ out \in Seq(Notice)
      /\ up' = up
  BY FlushedOK DEF IInv, ServerTypeOK, ServerRead, Server
<1>2. serving /\ ~In(s2c, Closed) /\ ~In(out, Closed)
  BY ReadKinds, OwnKinds DEF SocketLife
<1>3. ~In(Flushed, Closed)
  BY <1>1, <1>2, InConcat DEF Flushed
<1>4. CASE PassStep
  BY <1>1, <1>2, <1>3, <1>4, EndSocket DEF PassStep, SocketLife
<1>5. CASE PeerClosed /\ In(c2s, ClosedMsg)
  <2>1. ~up /\ out' = <<>> /\ ~serving' /\ s2c' = Append(Flushed, Closed)
    BY <1>5 DEF QuitLife, PeerClosed
  <2> QED BY <1>1, <1>3, <2>1, CloseOnce, EmptyQueue DEF SocketLife
<1>6. CASE TimeoutStep
  BY <1>1, <1>2, <1>6 DEF TimeoutStep, SocketLife, In
<1>7. CASE RespawnStep
  <2>1. ~In(out', Closed)
    BY <1>2, <1>7 DEF RespawnStep
  <2>2. CASE UNCHANGED <<serving, s2c>>
    BY <1>1, <1>2, <1>7, <2>1, <2>2 DEF RespawnStep, SocketLife, In
  <2>3. CASE EndOfPass(s2c)
    BY <1>1, <1>2, <2>1, <2>3, EndSocket DEF SocketLife
  <2> QED BY <1>7, <2>2, <2>3 DEF RespawnStep
<1> QED BY <1>4, <1>5, <1>6, <1>7, ReadKinds, OwnKinds

\* Every step does.
LEMMA NextSocket ==
  ASSUME IInv, LInv, QuitLife, SocketLife, [Next]_vars
  PROVE  SocketLife'
<1>1. CASE ServerRead \/ Server
  BY <1>1, ServerSocket
<1>2. CASE ServerIdle /\ (s2c' = s2c \/ (s2c # <<>> /\ s2c' = Tail(s2c)))
  <2>1. s2c \in Seq(Notice)
    BY DEF IInv, ServerTypeOK
  <2>2. /\ In(s2c', Closed) => In(s2c, Closed)
        /\ \A k \in 1..Len(s2c') : s2c'[k] = Closed => k = Len(s2c')
    <3>1. CASE s2c # <<>> /\ s2c' = Tail(s2c)
      <4>1. /\ Len(s2c') = Len(s2c) - 1 /\ Len(s2c) \in Nat \ {0}
            /\ \A k \in 1..Len(s2c') : s2c'[k] = s2c[k + 1]
        BY <2>1, <3>1, HeadTailProperties, EmptySeq
      <4>2. ASSUME NEW k \in 1..Len(s2c'), s2c'[k] = Closed  PROVE k = Len(s2c')
        <5>1. k + 1 \in 1..Len(s2c) /\ s2c[k + 1] = Closed
          BY <4>1, <4>2
        <5>2. k + 1 = Len(s2c)
          BY <5>1 DEF SocketLife
        <5> QED BY <4>1, <5>2
      <4> QED BY <2>1, <3>1, <4>2, InTail
    <3>2. CASE s2c' = s2c
      BY <3>2 DEF SocketLife, In
    <3> QED BY <1>2, <3>1, <3>2
  <2>3. up' => up
    BY QuitFrame
  <2> QED BY <1>2, <2>2, <2>3 DEF ServerIdle, SocketLife, In
<1> QED BY <1>1, <1>2, TwoSides

\* A KILL of t will be read before SHUTDOWN is.
KillWaits(t) == \E j \in 1..Len(c2s) :
                  c2s[j] = KillMsg(t) /\ \A l \in 1..j : c2s[l] # ShutdownMsg

\* In quit every task of subproc_tasks_ was told, has an entry the loop waits for,
\* or will be killed before the loop is told to end.
CloseLife ==
  up /\ quit =>
    \A t \in subproc_tasks :
      \/ Ends(s2c, t)
      \/ serving /\ sstate[t] \in Spawn
      \/ serving /\ Ends(out, t) /\ (shutdowned /\ respawn => in_timeout)
      \/ ~shutdowned /\ KillWaits(t)
      \/ t \in kills

\* KILL is not SHUTDOWN.
LEMMA KillIsNotShutdown ==
  ASSUME NEW t
  PROVE  KillMsg(t) # ShutdownMsg
<1>1. KillMsg(t).op = "KILL" /\ ShutdownMsg.op = "SHUTDOWN"
  BY DEF KillMsg, ShutdownMsg
<1> QED BY <1>1

\* A KILL waits until it is read.
LEMMA KillKeepsWaiting ==
  ASSUME IInv, [Next]_vars, ~Crash, NEW t \in Ids, KillWaits(t)
  PROVE  \/ KillWaits(t)'
         \/ ServerRead /\ Head(c2s) = KillMsg(t)
<1>1. PICK j \in 1..Len(c2s) :
        c2s[j] = KillMsg(t) /\ \A l \in 1..j : c2s[l] # ShutdownMsg
  BY DEF KillWaits
<1>2. CASE c2s' = c2s
  BY <1>1, <1>2 DEF KillWaits
<1>3. ASSUME NEW m \in Request, Sent(m)  PROVE KillWaits(t)'
  <2>1. j \in 1..Len(c2s') /\ \A l \in 1..j : l \in 1..Len(c2s) /\ c2s'[l] = c2s[l]
    BY <1>3 DEF Sent
  <2>2. j \in 1..j
    OBVIOUS
  <2> QED BY <1>1, <2>1, <2>2 DEF KillWaits
<1>4. CASE ServerRead /\ Read
  <2>1. CASE j = 1
    BY <1>1, <1>4, <2>1 DEF Read
  <2>2. CASE j # 1
    <3>1. /\ j - 1 \in 1..Len(c2s') /\ (j - 1) + 1 = j
          /\ \A l \in 1..(j - 1) : l \in 1..Len(c2s') /\ l + 1 \in 1..j
      BY <1>4, <2>2 DEF Read
    <3>2. c2s'[j - 1] = c2s[j] /\ \A l \in 1..(j - 1) : c2s'[l] = c2s[l + 1]
      BY <1>4, <3>1 DEF Read
    <3> QED BY <1>1, <3>1, <3>2 DEF KillWaits
  <2> QED BY <2>1, <2>2
<1> QED BY <1>2, <1>3, <1>4, QueueSteps

\* The server keeps CloseLife: it breaks out of the loop with nothing unsaid.
LEMMA ServerClose ==
  ASSUME IInv, LInv, QuitLife, SocketLife, CloseLife, ServerRead \/ Server
  PROVE  CloseLife'
<1> SUFFICES ASSUME up', quit', NEW t \in subproc_tasks'
             PROVE  \/ Ends(s2c', t)
                    \/ serving' /\ sstate'[t] \in Spawn
                    \/ /\ serving' /\ Ends(out', t)
                       /\ shutdowned' /\ respawn' => in_timeout'
                    \/ ~shutdowned' /\ KillWaits(t)'
                    \/ t \in kills'
  BY DEF CloseLife, Ends, In
<1>1. /\ up' = up /\ quit' = quit /\ subproc_tasks' = subproc_tasks
      /\ kills' = kills /\ [Next]_vars /\ ~Crash
  <2>1. UNCHANGED <<clientVars, up>> /\ [Next]_vars
    BY DEF ServerRead, Server, Next
  <2> QED BY <2>1 DEF clientVars, Crash
<1>2. t \in Ids /\ t \in subproc_tasks /\ up /\ quit
  BY <1>1 DEF IInv, ClientInv, ClientTypeOK
<1>3. \/ Ends(s2c, t)
      \/ serving /\ sstate[t] \in Spawn
      \/ serving /\ Ends(out, t) /\ (shutdowned /\ respawn => in_timeout)
      \/ ~shutdowned /\ KillWaits(t)
      \/ t \in kills
  BY <1>2 DEF CloseLife
<1>4. ServerTypeOK /\ shutdowned \in BOOLEAN /\ serving
  BY ReadKinds, OwnKinds DEF IInv, ServerTypeOK
<1>5. KillWaits(t) => KillWaits(t)' \/ (ServerRead /\ Head(c2s) = KillMsg(t))
  BY <1>1, <1>2, KillKeepsWaiting
<1>6. ~shutdowned /\ shutdowned' => ~KillWaits(t)
  <2> SUFFICES ASSUME ~shutdowned, shutdowned', KillWaits(t)  PROVE FALSE
    OBVIOUS
  <2>1. ServerRead /\ Shutdown /\ Head(c2s).op = "SHUTDOWN"
    BY DEF ServerRead, Server, ServerStep, DoWrite, Respawn, DoTimeout, DoSignal,
           DoTimeoutEnd, Serve, Register, RequestRun, Kill, SetOption, PeerClosed
  <2>2. Read /\ 1 \in 1..Len(c2s)
    BY <2>1, ReadOK DEF Read, IInv, ClientInv, ClientTypeOK
  <2>3. c2s[1] = ShutdownMsg
    BY <2>1, <2>2 DEF Read, Request, ShutdownMsg
  <2>4. PICK j \in 1..Len(c2s) : \A l \in 1..j : c2s[l] # ShutdownMsg
    BY DEF KillWaits
  <2>5. 1 \in 1..j
    OBVIOUS
  <2> QED BY <2>3, <2>4, <2>5
<1> HIDE DEF Ends, KillWaits
<1>7. CASE PassStep
  <2>1. AtSelect /\ EndOfPass(Flushed) /\ (sstate[t] \in Spawn => sstate'[t] \in Spawn)
    BY <1>2, <1>7 DEF PassStep
  <2>2. Ends(s2c, t) \/ Ends(out, t) => Ends(s2c', t)
    BY <1>2, <1>4, <2>1, PassFlushes DEF Ended
  <2>3. sstate'[t] \in Spawn => serving'
    BY <1>2, <1>4, <2>1 DEF EndOfPass, Spawn
  <2>4. ~shutdowned' => serving'
    BY <1>4, <2>1 DEF EndOfPass
  <2>5. CASE ServerRead /\ Head(c2s) = KillMsg(t) /\ ~shutdowned
    <3>1. ~shutdowned'
      BY <2>5 DEF ServerRead, Serve, KillMsg, Kill
    <3>2. sstate'[t] \in Spawn \/ Ends(out', t)
      BY <1>2, <2>5, ReadKinds
    <3> QED BY <2>3, <2>4, <3>1, <3>2
  <2> QED BY <1>1, <1>3, <1>5, <1>6, <2>1, <2>2, <2>3, <2>4, <2>5
<1>8. CASE PeerClosed /\ In(c2s, ClosedMsg)
  BY <1>2, <1>8 DEF QuitLife
<1>9. CASE Server /\ TimeoutStep
  <2>1. /\ serving' /\ s2c' = s2c /\ shutdowned' = shutdowned
        /\ in_timeout' \/ ~respawn'
        /\ Ends(out, t) => Ends(out', t)
        /\ sstate[t] \in Spawn => sstate'[t] \in Spawn \/ Ends(out', t)
    BY <1>2, <1>4, <1>9 DEF TimeoutStep
  <2>2. KillWaits(t) => KillWaits(t)'
    BY <1>9 DEF Server, KillWaits
  <2> QED BY <1>1, <1>3, <2>1, <2>2
<1>10. CASE Server /\ RespawnStep
  <2>1. /\ shutdowned' = shutdowned /\ in_timeout' = in_timeout
        /\ IF in_timeout THEN UNCHANGED <<serving, s2c>> ELSE EndOfPass(s2c)
        /\ Ends(out, t) => Ends(out', t)
        /\ sstate[t] \in Spawn => sstate'[t] \in Spawn
    BY <1>2, <1>10 DEF RespawnStep
  <2>2. Ends(s2c, t) => Ends(s2c', t)
    <3>1. s2c \in Seq(Notice) /\ s2c' \in {s2c, Append(s2c, Closed)}
      BY <1>4, <2>1 DEF EndOfPass, ServerTypeOK
    <3> QED BY <1>2, <3>1, CloseAdds
  <2>3. sstate'[t] \in Spawn => serving'
    BY <1>2, <1>4, <2>1 DEF EndOfPass, Spawn
  <2>4. in_timeout \/ ~shutdowned => serving'
    BY <1>4, <2>1 DEF EndOfPass
  <2>5. KillWaits(t) => KillWaits(t)'
    BY <1>10 DEF Server, KillWaits
  <2>6. CASE serving /\ Ends(out, t) /\ (shutdowned /\ respawn => in_timeout)
    <3>1. respawn
      BY <1>10 DEF Server, RespawnStep
    <3> QED BY <2>1, <2>4, <2>6, <3>1
  <2> QED BY <1>1, <1>3, <2>1, <2>2, <2>3, <2>4, <2>5, <2>6
<1> QED BY <1>7, <1>8, <1>9, <1>10, ReadKinds, OwnKinds


\* compiler_proxy keeps it: Quit() sends its KILLs before SHUTDOWN.
LEMMA ProxyClose ==
  ASSUME IInv, LInv, TaskLife, QuitLife, CloseLife, [Next]_vars,
         ~ServerRead, ~Server
  PROVE  CloseLife'
<1> SUFFICES ASSUME up', quit', NEW t \in subproc_tasks'
             PROVE  \/ Ends(s2c', t)
                    \/ serving' /\ sstate'[t] \in Spawn
                    \/ /\ serving' /\ Ends(out', t)
                       /\ shutdowned' /\ respawn' => in_timeout'
                    \/ ~shutdowned' /\ KillWaits(t)'
                    \/ t \in kills'
  BY DEF CloseLife, Ends, In
<1>1. /\ ServerIdle
      /\ s2c' = s2c \/ (s2c # <<>> /\ s2c' = Tail(s2c))
  BY TwoSides
<1>2. up /\ ~Crash /\ s2c \in Seq(Notice)
  <2>1. up
    BY QuitFrame
  <2>2. ~Crash
    BY DEF Crash
  <2> QED BY <2>1, <2>2 DEF IInv, ServerTypeOK
<1>3. /\ Ends(out, t) => Ends(out', t)
      /\ sstate' = sstate /\ serving' = serving /\ shutdowned' = shutdowned
      /\ respawn' = respawn /\ in_timeout' = in_timeout
  BY <1>1 DEF ServerIdle, Ends, In
<1>4. CASE QuitStart
  BY <1>4 DEF QuitStart
<1>5. CASE ~QuitStart
  <2>1. quit
    <3>1. quit' = quit
      BY <1>5, QuitFrame
         DEF QuitKill, QuitShutdown, QuitUnregister, ClientShutdown
    <3> QED BY <3>1
  <2>2. subproc_tasks' \subseteq subproc_tasks
    <3>1. \/ subproc_tasks' = subproc_tasks \/ ClientTerminated
          \/ \E i \in Ids : Start(i)
      BY DEF Next, Demand, ClientThread, MainThread, TaskThread,
             TaskRequestRun, TaskKill, Check, Post, Done, Exit, CheckSignaled,
             LateTerminated, ClientKillCheck, ClientKillPost, ClientStarted,
             QuitStart, Crash, WriteFails, ClientSetOption, ClientClosed,
             QuitKill, QuitShutdown, QuitUnregister,
             ClientShutdown, vars, clientVars
    <3> QED BY <2>1, <3>1 DEF ClientTerminated, Start
  <2>3. t \in Ids /\ t \in subproc_tasks
    BY <2>2 DEF IInv, ClientInv, ClientTypeOK
  <2>4. \/ Ends(s2c, t)
        \/ serving /\ sstate[t] \in Spawn
        \/ serving /\ Ends(out, t) /\ (shutdowned /\ respawn => in_timeout)
        \/ ~shutdowned /\ KillWaits(t)
        \/ t \in kills
    BY <1>2, <2>1, <2>3 DEF CloseLife
  <2>5. KillWaits(t) => KillWaits(t)'
    BY <1>2, <2>3, KillKeepsWaiting
  <2>6. Ends(s2c, t) => Ends(s2c', t)
    <3>1. CASE s2c' = s2c
      BY <3>1
    <3>2. CASE s2c # <<>> /\ s2c' = Tail(s2c) /\ s2c' # s2c
      <4>1. \A h : In(s2c, TerminatedMsg(t, h)) <=>
              Head(s2c) = TerminatedMsg(t, h) \/ In(Tail(s2c), TerminatedMsg(t, h))
        BY <1>2, <3>2, InTail
      <4>2. \A h : Head(s2c) = TerminatedMsg(t, h) => Head(s2c).op = "TERMINATED"
                                                     /\ Head(s2c).id = t
        BY DEF TerminatedMsg
      <4>3. \A h : Head(s2c) # TerminatedMsg(t, h)
        <5> SUFFICES ASSUME Head(s2c).op = "TERMINATED", Head(s2c).id = t
                     PROVE  FALSE
          BY <4>2
        <5>1. ClientTerminated
          <6>1. ClientStarted \/ ClientTerminated \/ ClientClosed
            BY <3>2
               DEF Next, Demand, ClientThread, MainThread, TaskThread, Start,
                   TaskRequestRun, TaskKill, Check, Post, Done, Exit, ProcExit,
                   CheckSignaled, LateTerminated, ClientKillCheck,
                   ClientKillPost, QuitStart, Crash, WriteFails, ClientSetOption,
                   QuitKill, QuitShutdown, QuitUnregister, ClientShutdown, vars
          <6> QED BY <6>1 DEF ClientStarted, ClientClosed, NextNotice
        <5>2. t \notin subproc_tasks'
          BY <5>1, <2>3 DEF ClientTerminated
        <5> QED BY <5>2
      <4> HIDE DEF In
      <4> QED BY <3>2, <4>1, <4>3 DEF Ends
    <3> QED BY <1>1, <3>1, <3>2
  <2>7. CASE t \in kills
    <3>1. CASE kills' = kills
      BY <2>7, <3>1
    <3>2. CASE QuitKill
      <4>1. periodic /\ ~shutdowned /\ ~In(c2s, ShutdownMsg)
        BY <3>2 DEF QuitLife, QuitKill
      <4>2. CASE t # Least(kills)
        BY <2>7, <3>2, <4>2 DEF QuitKill
      <4>3. CASE t = Least(kills)
        <5>1. c2s \in Seq(Request) /\ KillMsg(t) \in Request
          BY <2>3, KillMsgType DEF IInv, ClientInv, ClientTypeOK
        <5>2. Sent(KillMsg(t))
          BY <3>2, <4>1, <4>3, <5>1, SentOK DEF QuitKill
        <5>3. Len(c2s) + 1 \in 1..Len(c2s') /\ c2s'[Len(c2s) + 1] = KillMsg(t)
          BY <5>2 DEF Sent
        <5>4. ASSUME NEW l \in 1..(Len(c2s) + 1)  PROVE c2s'[l] # ShutdownMsg
          <6>1. CASE l \in 1..Len(c2s)
            BY <4>1, <5>2, <6>1 DEF Sent, In
          <6>2. CASE ~(l \in 1..Len(c2s))
            <7>1. l = Len(c2s) + 1
              BY <5>2, <6>2 DEF Sent
            <7> QED BY <5>3, <7>1, KillIsNotShutdown
          <6> QED BY <6>1, <6>2
        <5>5. KillWaits(t)'
          BY <5>3, <5>4 DEF KillWaits, KillMsg, ShutdownMsg
        <5> QED BY <1>3, <4>1, <5>5
      <4> QED BY <4>2, <4>3
    <3>3. CASE QuitShutdown \/ QuitUnregister \/ ClientShutdown
      BY <2>7, <3>3 DEF QuitShutdown, QuitUnregister, ClientShutdown
    <3> QED BY <1>5, <3>1, <3>2, <3>3, QuitFrame
  <2> HIDE DEF Ends, KillWaits
  <2> QED BY <1>3, <2>4, <2>5, <2>6, <2>7
<1> QED BY <1>4, <1>5

\* Initially the socket is open, and no one has quit.
LEMMA InitClose == Init => SocketLife /\ CloseLife
BY EmptyQueue DEF Init, ServerInit, SocketLife, CloseLife

\* Both hold in every reachable state.
LEMMA SocketAndClose == Spec => []SocketLife /\ []CloseLife
<1>1. IInv /\ LInv /\ TaskLife /\ QuitLife /\ SocketLife /\ CloseLife /\ [Next]_vars
        => SocketLife' /\ CloseLife'
  BY NextSocket, ServerClose, ProxyClose
<1> QED BY <1>1, InitClose, InductiveInvariant, LifetimeInvariant, TasksAndStarted,
           QuitAndEnd, PTL DEF Spec

\* A live client finds the socket closed in quit only and with subproc_tasks_ empty,
\* as DoRead() and OnClosed() CHECK: no TERMINATED is lost in the last pass of the
\* server's loop, which drops what it has not written.
THEOREM ClosesAfterTheLastNotice == Spec => []CleanClose
<1>1. IInv /\ QuitLife /\ SocketLife /\ CloseLife => CleanClose
  <2> SUFFICES ASSUME IInv, QuitLife, SocketLife, CloseLife,
                      NextNotice("CLOSED"), up
               PROVE  quit /\ subproc_tasks = {}
    BY DEF CleanClose
  <2>1. /\ s2c \in Seq(Notice) /\ s2c # <<>> /\ Head(s2c) \in Notice
        /\ Head(s2c).op = "CLOSED" /\ Head(s2c) = s2c[1]
        /\ Len(s2c) \in Nat \ {0}
    BY HeadTailProperties, EmptySeq DEF NextNotice, IInv, ServerTypeOK
  <2>2. Head(s2c) = Closed
    BY <2>1 DEF Notice, Closed
  <2>3. Len(s2c) = 1
    <3>1. 1 \in 1..Len(s2c) /\ s2c[1] = Closed
      BY <2>1, <2>2
    <3> QED BY <3>1 DEF SocketLife
  <2>4. In(s2c, Closed)
    BY <2>1, <2>2, InTail
  <2>5. ~serving /\ shutdowned /\ quit /\ kills = {}
    BY <2>4 DEF SocketLife, QuitLife
  <2>6. \A t : ~Ends(s2c, t)
    <3> SUFFICES ASSUME NEW t, NEW h, In(s2c, TerminatedMsg(t, h))  PROVE FALSE
      BY DEF Ends
    <3>1. Closed = TerminatedMsg(t, h)
      BY <2>1, <2>2, <2>3 DEF In
    <3> QED BY <3>1, NoticesDiffer
  <2> QED BY <2>5, <2>6 DEF CloseLife
<1> QED BY <1>1, InductiveInvariant, QuitAndEnd, SocketAndClose, PTL

-----------------------------------------------------------------------------
(***************************************************************************)
(* The limits of SubProcessController::Options, for any options, any number*)
(* of ids and whatever burst mode, nested spawns and kills do.             *)
(*                                                                         *)
(* TrySpawnSubProcess looks at the limits before it spawns, but the bound  *)
(* on entries below HIGHEST is not inductive: RequestRun() lowers a        *)
(* priority to HIGH, which would make a running HIGHEST entry count.       *)
(* LimitLife excludes it: HIGHEST is for the tasks of ReadCommandOutput,   *)
(* and no one calls RequestRun() of these.                                 *)
(***************************************************************************)
\* The entries the two limits count.
Counted(s, p) == {i \in Running(s) : p[i] # "HIGHEST"}
Heavy(s, w) == {i \in Running(s) : w[i] = "HEAVY"}

Bounded(s, p, w) ==
  /\ \/ Cardinality(Counted(s, p)) <= Normal.max
     \/ Cardinality(Counted(s, p)) <= Burst.max
  /\ \/ Cardinality(Heavy(s, w)) <= Normal.heavy
     \/ Cardinality(Heavy(s, w)) <= Burst.heavy

\* The invariant is Bounded of the server as it stands.
LEMMA BoundedIsLimits == LimitsKept <=> Bounded(sstate, priority, weight)
BY DEF LimitsKept, RunningBound, HeavyBound, Bounded, Counted, Heavy

\* Sets of ids are finite.
LEMMA IdSets ==
  ASSUME NEW S \in SUBSET Ids
  PROVE  IsFiniteSet(S) /\ Cardinality(S) \in Nat
BY FS_Subset, FS_CardinalityType, IdsAssumption

\* A subset has no more elements, and one element more counts one.
LEMMA Smaller ==
  ASSUME NEW S \in SUBSET Ids, NEW T \in SUBSET S
  PROVE  Cardinality(T) <= Cardinality(S) /\ Cardinality(T) \in Nat
         /\ Cardinality(S) \in Nat
<1>1. IsFiniteSet(S) /\ Cardinality(S) \in Nat /\ T \in SUBSET Ids
  BY IdSets
<1> QED BY <1>1, IdSets, FS_Subset

\* One more id is at most one more.
LEMMA OneMore ==
  ASSUME NEW S \in SUBSET Ids, NEW c \in Ids, NEW T \in SUBSET (S \cup {c})
  PROVE  Cardinality(T) <= Cardinality(S) + 1 /\ Cardinality(T) \in Nat
         /\ Cardinality(S) \in Nat
<1>1. IsFiniteSet(S) /\ Cardinality(S) \in Nat /\ S \cup {c} \in SUBSET Ids
  BY IdSets
<1>2. Cardinality(S \cup {c}) <= Cardinality(S) + 1
  BY <1>1, FS_AddElement
<1>3. Cardinality(T) <= Cardinality(S \cup {c}) /\ Cardinality(T) \in Nat
      /\ Cardinality(S \cup {c}) \in Nat
  BY <1>1, Smaller
<1> QED BY <1>1, <1>2, <1>3

\* The bounds survive whatever takes entries away.
LEMMA FewerBounded ==
  ASSUME NEW s, NEW p, NEW w, Bounded(s, p, w), NEW s2, NEW p2, NEW w2,
         \A i \in Ids : s2[i] = "RUN" => /\ s[i] = "RUN"
                                         /\ p[i] = "HIGHEST" => p2[i] = "HIGHEST"
                                         /\ w[i] = w2[i]
  PROVE  Bounded(s2, p2, w2)
<1>1. /\ Counted(s2, p2) \in SUBSET Counted(s, p) /\ Counted(s, p) \in SUBSET Ids
      /\ Heavy(s2, w2) \in SUBSET Heavy(s, w) /\ Heavy(s, w) \in SUBSET Ids
  BY DEF Counted, Heavy, Running
<1>2. /\ Cardinality(Counted(s2, p2)) <= Cardinality(Counted(s, p))
      /\ Cardinality(Heavy(s2, w2)) <= Cardinality(Heavy(s, w))
      /\ Cardinality(Counted(s2, p2)) \in Nat /\ Cardinality(Counted(s, p)) \in Nat
      /\ Cardinality(Heavy(s2, w2)) \in Nat /\ Cardinality(Heavy(s, w)) \in Nat
  BY <1>1, Smaller
<1>3. /\ Normal.max \in Nat /\ Burst.max \in Nat
      /\ Normal.heavy \in Nat /\ Burst.heavy \in Nat
  BY OptionsAssumption DEF OptionRecord
<1> QED BY <1>2, <1>3 DEF Bounded

\* TrySpawnSubProcess keeps the bounds, whatever the options in force.
LEMMA SpawnBounded ==
  ASSUME ServerTypeOK, NEW s \in [Ids -> State], NEW p, NEW w, NEW pr, NEW o,
         TrySpawn(s, p, w, pr, o), Bounded(s, p, w)
  PROVE  Bounded(sstate', p, w)
<1>1. ToSpawn(s, p, w) \subseteq {i \in Ids : s[i] = "PENDING"}
  BY ToSpawnPending DEF Pending
<1>2. CASE sstate' = s
  BY <1>2
<1>3. ASSUME NEW c \in ToSpawn(s, p, w), sstate' = [s EXCEPT ![c] = "NONE"]
      PROVE  Bounded(sstate', p, w)
  <2>1. \A i \in Ids : sstate'[i] = "RUN" => s[i] = "RUN"
    BY <1>3
  <2> QED BY <2>1, FewerBounded
<1>4. ASSUME NEW c \in ToSpawn(s, p, w), sstate' = [s EXCEPT ![c] = "RUN"]
      PROVE  Bounded(sstate', p, w)
  <2>1. c \in Ids /\ c \in Candidate(s, p) /\ ~HeldBack(s, p, w, c)
    BY <1>1 DEF ToSpawn
  <2>2. /\ options.max \in Nat /\ options.heavy \in Nat
        /\ options = Normal \/ options = Burst
        /\ Normal.max \in Nat /\ Burst.max \in Nat
        /\ Normal.heavy \in Nat /\ Burst.heavy \in Nat
    BY OptionsAssumption DEF ServerTypeOK, OptionRecord
  <2>3. Running(s) \in SUBSET Ids /\ Cardinality(Running(s)) \in Nat
    BY IdSets DEF Running
  <2>4. p[c] = "HIGHEST" \/ Cardinality(Running(s)) < options.max
    <3> DEFINE highest == {i \in Pending(s) : p[i] = "HIGHEST" /\ Scanned(s, i)}
    <3>1. CASE highest # {}
      <4>1. highest \in SUBSET Ids
        BY DEF Pending
      <4>2. Least(highest) \in highest
        BY <3>1, <4>1, LeastId
      <4>3. c = Least(highest)
        BY <2>1, <3>1 DEF Candidate
      <4> QED BY <4>2, <4>3
    <3>2. CASE highest = {}
      BY <2>1, <2>2, <2>3, <3>2 DEF Candidate
    <3> QED BY <3>1, <3>2
  <2>5. \A i \in Ids : sstate'[i] = "RUN" => s[i] = "RUN" \/ i = c
    BY <1>4
  <2>6. \/ Cardinality(Counted(sstate', p)) <= Normal.max
        \/ Cardinality(Counted(sstate', p)) <= Burst.max
    <3>1. CASE p[c] = "HIGHEST"
      <4>1. /\ Counted(sstate', p) \in SUBSET Counted(s, p)
            /\ Counted(s, p) \in SUBSET Ids
        BY <2>5, <3>1 DEF Counted, Running
      <4>2. /\ Cardinality(Counted(sstate', p)) <= Cardinality(Counted(s, p))
            /\ Cardinality(Counted(sstate', p)) \in Nat
            /\ Cardinality(Counted(s, p)) \in Nat
        BY <4>1, Smaller
      <4> QED BY <2>2, <4>2 DEF Bounded
    <3>2. CASE Cardinality(Running(s)) < options.max
      <4>1. Counted(sstate', p) \in SUBSET (Running(s) \cup {c})
        BY <2>5 DEF Counted, Running
      <4>2. /\ Cardinality(Counted(sstate', p)) <= Cardinality(Running(s)) + 1
            /\ Cardinality(Counted(sstate', p)) \in Nat
        BY <2>1, <2>3, <4>1, OneMore
      <4>3. Cardinality(Counted(sstate', p)) <= options.max
        BY <2>2, <2>3, <3>2, <4>2
      <4> QED BY <2>2, <4>3
    <3> QED BY <2>4, <3>1, <3>2
  <2>7. \/ Cardinality(Heavy(sstate', w)) <= Normal.heavy
        \/ Cardinality(Heavy(sstate', w)) <= Burst.heavy
    <3>1. Heavy(s, w) \in SUBSET Ids
      BY DEF Heavy, Running
    <3>2. CASE w[c] # "HEAVY"
      <4>1. Heavy(sstate', w) \in SUBSET Heavy(s, w)
        BY <2>5, <3>2 DEF Heavy, Running
      <4>2. /\ Cardinality(Heavy(sstate', w)) <= Cardinality(Heavy(s, w))
            /\ Cardinality(Heavy(sstate', w)) \in Nat
            /\ Cardinality(Heavy(s, w)) \in Nat
        BY <3>1, <4>1, Smaller
      <4> QED BY <2>2, <4>2 DEF Bounded
    <3>3. CASE w[c] = "HEAVY"
      <4>1. Heavy(sstate', w) \in SUBSET (Heavy(s, w) \cup {c})
        BY <2>5 DEF Heavy, Running
      <4>2. /\ Cardinality(Heavy(sstate', w)) <= Cardinality(Heavy(s, w)) + 1
            /\ Cardinality(Heavy(sstate', w)) \in Nat
            /\ Cardinality(Heavy(s, w)) \in Nat
        BY <2>1, <3>1, <4>1, OneMore
      <4>3. ~(Cardinality(Heavy(s, w)) >= options.heavy)
        BY <2>1, <3>3 DEF HeldBack, Heavy
      <4>4. Cardinality(Heavy(sstate', w)) <= options.heavy
        BY <2>2, <4>2, <4>3
      <4> QED BY <2>2, <4>4
    <3> QED BY <3>2, <3>3
  <2> QED BY <2>6, <2>7 DEF Bounded
<1> QED BY <1>2, <1>3, <1>4 DEF TrySpawn

\* So does Terminated().
LEMMA TerminatedBounded ==
  ASSUME ServerTypeOK, Bounded(sstate, priority, weight), NEW i \in Ids, NEW how,
         NEW pr, NEW o, Terminated(i, how, pr, o)
  PROVE  Bounded(sstate', priority, weight)
<1> DEFINE s == [sstate EXCEPT ![i] = "NONE"]
<1>1. s \in [Ids -> State]
  BY DEF ServerTypeOK, State
<1>2. \A j \in Ids : s[j] = "RUN" => sstate[j] = "RUN"
  BY DEF ServerTypeOK
<1>3. TrySpawn(s, priority, weight, pr, Append(o, TerminatedMsg(i, how)))
  BY DEF Terminated
<1> HIDE DEF s
<1>4. Bounded(s, priority, weight)
  BY <1>2, FewerBounded
<1> QED BY <1>1, <1>3, <1>4, SpawnBounded


-----------------------------------------------------------------------------
\* A request asks for HIGHEST on behalf of ReadCommandOutput, and no other request
\* lowers that.
FitsWith(m, c, b) ==
  /\ m.op = "REQUEST_RUN" => m.id <= c /\ m.id \notin b
  /\ m.op = "REGISTER" /\ m.priority = "HIGHEST" => m.id \in b

Fits(m) == FitsWith(m, created, blocking)

\* The entries with HIGHEST priority are those of ReadCommandOutput.
Highest(s, p) == \A t \in Ids : s[t] # "NONE" /\ p[t] = "HIGHEST" => t \in blocking

LimitLife ==
  /\ Highest(sstate, priority)
  /\ \A t \in Ids : /\ t > created => t \notin blocking
                    /\ call[t].op = "REQUEST_RUN" => t \notin blocking
  /\ \A k \in 1..Len(c2s) : Fits(c2s[k])

\* TrySpawnSubProcess and Terminated() add no entry.
LEMMA SpawnHighest ==
  ASSUME NEW s \in [Ids -> State], NEW p, NEW w, NEW pr, NEW o \in Seq(Notice),
         TrySpawn(s, p, w, pr, o), Highest(s, p)
  PROVE  Highest(sstate', p)
<1>1. \A j \in Ids : sstate'[j] # "NONE" => s[j] # "NONE"
  BY SpawnTells DEF Tells
<1> QED BY <1>1 DEF Highest

\* Terminated() adds no entry either.
LEMMA TerminatedHighest ==
  ASSUME ServerTypeOK, NEW i \in Ids, NEW how \in Status, NEW pr,
         NEW o \in Seq(Notice), Terminated(i, how, pr, o), Highest(sstate, priority)
  PROVE  Highest(sstate', priority)
<1> DEFINE s == [sstate EXCEPT ![i] = "NONE"]
           q == Append(o, TerminatedMsg(i, how))
<1>1. s \in [Ids -> State] /\ q \in Seq(Notice)
  BY AreNotices DEF ServerTypeOK, State
<1>2. TrySpawn(s, priority, weight, pr, q)
  BY DEF Terminated
<1>3. \A j \in Ids : s[j] # "NONE" => sstate[j] # "NONE"
  BY DEF ServerTypeOK
<1> HIDE DEF s, q
<1>4. Highest(s, priority)
  BY <1>3 DEF Highest
<1> QED BY <1>1, <1>2, <1>4, SpawnHighest

\* A step of the server that changes no priority and weight.
LEMMA SamePriorities ==
  ASSUME priority' = priority, weight' = weight, blocking' = blocking,
         Bounded(sstate', priority, weight), Highest(sstate', priority)
  PROVE  LimitsKept' /\ Highest(sstate', priority')
<1>1. Bounded(sstate, priority, weight)'
  BY DEF Bounded, Counted, Heavy, Running
<1> QED BY <1>1 DEF LimitsKept, RunningBound, HeavyBound, Bounded, Counted, Heavy

\* A request keeps the limits.
LEMMA ReadLimits ==
  ASSUME IInv, LInv, LimitsKept, LimitLife, ServerRead
  PROVE  LimitsKept' /\ Highest(sstate', priority')
<1>1. /\ Read /\ Serve(Head(c2s)) /\ ServerTypeOK /\ <<>> \in Seq(Notice)
      /\ sstate \in [Ids -> State] /\ priority \in [Ids -> Priority]
      /\ weight \in [Ids -> Weight] /\ blocking' = blocking
  BY ReadOK, EmptyQueue DEF IInv, ClientInv, ClientTypeOK, ServerRead,
                            ServerTypeOK, taskVars
<1>2. Bounded(sstate, priority, weight) /\ Highest(sstate, priority)
  BY BoundedIsLimits DEF LimitLife
<1> DEFINE m == Head(c2s)
<1>3. m \in Request /\ m = c2s[1] /\ 1 \in 1..Len(c2s) /\ Serve(m)
  BY <1>1 DEF Read
<1>4. Fits(m)
  BY <1>3 DEF LimitLife
<1> HIDE DEF m
<1>5. CASE m.op = "REGISTER" /\ Register(m.id, m.priority, m.weight)
  <2>1. m.id \in Ids
    BY <1>3, <1>5 DEF Request
  <2>2. CASE shutdowned
    <3>1. UNCHANGED <<sstate, priority, weight>>
      BY <1>5, <2>2 DEF Register
    <3> QED BY <1>1, <1>2, <3>1, SamePriorities
  <2>3. CASE ~shutdowned
    <3> DEFINE s == [sstate EXCEPT ![m.id] = "PENDING"]
               p == [priority EXCEPT ![m.id] = m.priority]
               w == [weight EXCEPT ![m.id] = m.weight]
    <3>1. s \in [Ids -> State]
      BY <1>1 DEF State
    <3>2. TrySpawn(s, p, w, proc, <<>>) /\ priority' = p /\ weight' = w
      BY <1>5, <2>3 DEF Register
    <3>3. RegisterAt(m.id, 1)
      BY <1>3, <1>5 DEF RegisterAt
    <3>4. sstate[m.id] = "NONE"
      BY <1>3, <2>1, <3>3 DEF LInv, RegisteredOnce, InFlight
    <3>5. \A i \in Ids : s[i] = "RUN" => /\ sstate[i] = "RUN"
                                         /\ p[i] = priority[i] /\ w[i] = weight[i]
      BY <1>1, <3>4
    <3>6. \A i \in Ids : s[i] # "NONE" /\ p[i] = "HIGHEST" => i \in blocking
      BY <1>1, <1>2, <1>4, <1>5, <2>1 DEF Fits, FitsWith, Highest
    <3> HIDE DEF s, p, w
    <3>7. Bounded(s, p, w) /\ Highest(s, p)
      BY <1>2, <3>5, <3>6, FewerBounded DEF Highest
    <3>8. Bounded(sstate', p, w) /\ Highest(sstate', p)
      BY <1>1, <3>1, <3>2, <3>7, SpawnBounded, SpawnHighest
    <3>9. Bounded(sstate, priority, weight)'
      BY <3>2, <3>8 DEF Bounded, Counted, Heavy, Running
    <3>10. LimitsKept'
      BY <3>9 DEF LimitsKept, RunningBound, HeavyBound, Bounded, Counted, Heavy
    <3> QED BY <3>2, <3>8, <3>10
  <2> QED BY <2>2, <2>3
<1>6. CASE m.op = "REQUEST_RUN" /\ RequestRun(m.id)
  <2>1. m.id \in Ids /\ m.id \notin blocking
    BY <1>3, <1>4, <1>6 DEF Request, Fits, FitsWith
  <2>2. CASE shutdowned
    <3>1. UNCHANGED <<sstate, priority, weight>>
      BY <1>6, <2>2 DEF RequestRun
    <3> QED BY <1>1, <1>2, <3>1, SamePriorities
  <2>3. CASE ~shutdowned /\ sstate[m.id] = "NONE"
    <3>1. /\ Terminated(m.id, "InternalError", proc, <<>>)
          /\ UNCHANGED <<priority, weight>>
      BY <1>6, <2>3 DEF RequestRun
    <3> QED BY <1>1, <1>2, <2>1, <3>1, TerminatedBounded, TerminatedHighest,
               SamePriorities DEF Status
  <2>4. CASE ~shutdowned /\ sstate[m.id] # "NONE"
    <3> DEFINE p == [priority EXCEPT ![m.id] = "HIGH"]
    <3>1. TrySpawn(sstate, p, weight, proc, <<>>) /\ priority' = p
          /\ weight' = weight
      BY <1>6, <2>4 DEF RequestRun
    <3>2. priority[m.id] # "HIGHEST"
      BY <1>2, <2>1, <2>4 DEF Highest
    <3>3. \A i \in Ids : p[i] = "HIGHEST" <=> priority[i] = "HIGHEST"
      BY <1>1, <3>2
    <3> HIDE DEF p
    <3>4. Bounded(sstate, p, weight) /\ Highest(sstate, p)
      BY <1>2, <3>3, FewerBounded DEF Highest
    <3>5. Bounded(sstate', p, weight) /\ Highest(sstate', p)
      BY <1>1, <3>1, <3>4, SpawnBounded, SpawnHighest
    <3>6. Bounded(sstate, priority, weight)'
      BY <3>1, <3>5 DEF Bounded, Counted, Heavy, Running
    <3>7. LimitsKept'
      BY <3>6 DEF LimitsKept, RunningBound, HeavyBound, Bounded, Counted, Heavy
    <3> QED BY <3>1, <3>5, <3>7
  <2> QED BY <2>2, <2>3, <2>4
<1>7. CASE m.op = "KILL" /\ Kill(m.id)
  <2>1. m.id \in Ids /\ UNCHANGED <<priority, weight>>
    BY <1>3, <1>7 DEF Request, Kill
  <2>2. CASE sstate' = sstate
    BY <1>1, <1>2, <2>1, <2>2, SamePriorities
  <2>3. ASSUME NEW how \in Status, Terminated(m.id, how, proc, <<>>)
        PROVE  LimitsKept' /\ Highest(sstate', priority')
    BY <1>1, <1>2, <2>1, <2>3, TerminatedBounded, TerminatedHighest, SamePriorities
  <2> QED BY <1>7, <2>2, <2>3 DEF Kill, Status
<1>8. CASE \/ m.op = "SET_OPTION" /\ SetOption(m.option)
           \/ m.op = "SHUTDOWN" /\ Shutdown
  <2>1. UNCHANGED <<sstate, priority, weight>>
    BY <1>8 DEF SetOption, Shutdown
  <2> QED BY <1>1, <1>2, <2>1, SamePriorities
<1>9. CASE m.op = "CLOSED" /\ PeerClosed
  <2>1. UNCHANGED <<priority, weight>> /\ \A i \in Ids : sstate'[i] = "NONE"
    BY <1>9 DEF PeerClosed
  <2>2. Bounded(sstate', priority, weight) /\ Highest(sstate', priority)
    BY <1>2, <2>1, FewerBounded DEF Highest
  <2> QED BY <1>1, <2>1, <2>2, SamePriorities
<1> QED BY <1>3, <1>5, <1>6, <1>7, <1>8, <1>9 DEF Serve

\* What the server does on its own keeps them.
LEMMA OwnLimits ==
  ASSUME IInv, LimitsKept, LimitLife, Server
  PROVE  LimitsKept' /\ Highest(sstate', priority')
<1>1. /\ ServerTypeOK /\ sstate \in [Ids -> State] /\ out \in Seq(Notice)
      /\ blocking' = blocking /\ UNCHANGED <<priority, weight>>
  BY DEF IInv, ServerTypeOK, Server, taskVars, ServerStep, DoWrite, Respawn,
         DoTimeout, DoTimeoutEnd, DoSignal
<1>2. Bounded(sstate, priority, weight) /\ Highest(sstate, priority)
  BY BoundedIsLimits DEF LimitLife
<1>3. CASE sstate' = sstate
  BY <1>1, <1>2, <1>3, SamePriorities
<1>4. CASE Respawn
  <2>1. TrySpawn(sstate, priority, weight, proc, out)
    BY <1>4 DEF Respawn
  <2> QED BY <1>1, <1>2, <2>1, SpawnBounded, SpawnHighest, SamePriorities
<1>5. CASE DoTimeout(c2s = <<>>)
  <2> DEFINE i == Least(Reapable)
  <2>1. i \in Ids
    <3>1. Reapable \in SUBSET Ids
      BY DEF Reapable
    <3> QED BY <1>5, <3>1, LeastId DEF DoTimeout
  <2>2. Terminated(i, "ran", [proc EXCEPT ![i] = "exited"], out)
    BY <1>5 DEF DoTimeout
  <2> HIDE DEF i
  <2> QED BY <1>1, <1>2, <2>1, <2>2, TerminatedBounded, TerminatedHighest,
             SamePriorities DEF Status
<1>6. ASSUME NEW i \in Ids, DoSignal(i)
      PROVE  LimitsKept' /\ Highest(sstate', priority')
  <2>1. \A j \in Ids : /\ sstate'[j] = "RUN" => sstate[j] = "RUN"
                       /\ sstate'[j] # "NONE" => sstate[j] # "NONE"
    BY <1>1, <1>6 DEF DoSignal
  <2>2. Bounded(sstate', priority, weight) /\ Highest(sstate', priority)
    BY <1>2, <2>1, FewerBounded DEF Highest
  <2> QED BY <1>1, <2>2, SamePriorities
<1> QED BY <1>3, <1>4, <1>5, <1>6 DEF Server, ServerStep, DoWrite, DoTimeoutEnd

\* Who becomes a task of ReadCommandOutput: a new task.
LEMMA BlockingFrame ==
  ASSUME IInv, [Next]_vars
  PROVE  \/ UNCHANGED <<created, blocking>>
         \/ \E t \in Ids : /\ Start(t) /\ created' = t /\ created' = created + 1
                           /\ blocking \subseteq blocking'
                           /\ blocking' \subseteq blocking \cup {t}
<1>1. ASSUME NEW t \in Ids, Start(t)
      PROVE  /\ created' = t /\ created' = created + 1
             /\ blocking \subseteq blocking'
             /\ blocking' \subseteq blocking \cup {t}
  BY <1>1 DEF Start
<1>2. UNCHANGED <<created, blocking>> \/ \E t \in Ids : Start(t)
  BY DEF Next, Demand, ClientThread, MainThread, TaskThread, TaskRequestRun,
         TaskKill, Check, Post, Done, LateTerminated, Exit, CheckSignaled,
         QuitStart, Crash, WriteFails, ClientSetOption, ClientStarted,
         ClientTerminated,
         ClientClosed, ClientKillCheck, ClientKillPost, QuitKill, QuitShutdown,
         QuitUnregister, ClientShutdown, Server, ServerRead, vars, taskVars
<1> QED BY <1>1, <1>2

\* What a task asks for still fits when another one starts.
LEMMA FitsStays ==
  ASSUME IInv, [Next]_vars, NEW m \in Request, Fits(m)
  PROVE  FitsWith(m, created', blocking')
<1>1. CASE UNCHANGED <<created, blocking>>
  BY <1>1 DEF Fits, FitsWith
<1>2. ASSUME NEW t \in Ids, created' = t, created' = created + 1,
             blocking \subseteq blocking', blocking' \subseteq blocking \cup {t}
      PROVE  FitsWith(m, created', blocking')
  <2>1. created \in Nat
    BY DEF IInv, TaskTypeOK
  <2>2. m.op = "REQUEST_RUN" => m.id \in Nat
    BY IdsAssumption DEF Request
  <2> QED BY <1>2, <2>1, <2>2 DEF Fits, FitsWith
<1> QED BY <1>1, <1>2, BlockingFrame

\* What is sent fits.
LEMMA SendsFit ==
  ASSUME IInv, LInv, LimitLife, NEW m \in Request, Sends(m)
  PROVE  Fits(m)
<1>1. ASSUME NEW t \in Ids, Post(t), NEW w \in Weight, m = RequestOf(t, w)
      PROVE  Fits(m)
  <2>1. m.op = call[t].op /\ m.id = t
    BY <1>1, RequestOfOK DEF Post
  <2>2. CASE call[t].op = "REGISTER"
    BY <1>1, <2>1, <2>2 DEF RequestOf, Fits, FitsWith
  <2>3. CASE call[t].op # "REGISTER"
    <3>1. call[t].op = "REQUEST_RUN" => t \notin blocking /\ ~(t > created)
      BY DEF LimitLife, LInv, RegisteredOnce, NoCall
    <3>2. t \in Nat /\ created \in Nat
      BY IdsAssumption DEF IInv, TaskTypeOK
    <3> QED BY <2>1, <2>3, <3>1, <3>2 DEF Fits, FitsWith
  <2> QED BY <2>2, <2>3
<1>2. CASE m.op \notin {"REGISTER", "REQUEST_RUN"}
  BY <1>2 DEF Fits, FitsWith
<1> QED BY <1>1, <1>2 DEF Sends, KillMsg

\* Every step keeps the limits and LimitLife.
LEMMA NextLimits ==
  ASSUME IInv, IInv', LInv, LimitsKept, LimitLife, [Next]_vars
  PROVE  LimitsKept' /\ LimitLife'
<1>1. LimitsKept' /\ Highest(sstate, priority)'
  <2>1. CASE ServerRead \/ Server
    <3>1. LimitsKept' /\ Highest(sstate', priority') /\ blocking' = blocking
      BY <2>1, ReadLimits, OwnLimits DEF ServerRead, Server, taskVars
    <3> QED BY <3>1 DEF Highest
  <2>2. CASE ServerIdle
    <3>1. LimitsKept'
      BY <2>2 DEF ServerIdle, LimitsKept, RunningBound, HeavyBound, Running
    <3>2. blocking \subseteq blocking'
      BY BlockingFrame
    <3> QED BY <2>2, <3>1, <3>2 DEF ServerIdle, Highest, LimitLife
  <2> QED BY <2>1, <2>2, TwoSides
<1>2. \A k \in 1..Len(c2s') : FitsWith(c2s'[k], created', blocking')
  <2> SUFFICES ASSUME NEW k \in 1..Len(c2s')
               PROVE  FitsWith(c2s'[k], created', blocking')
    OBVIOUS
  <2>1. c2s'[k] \in Request
    BY ElementOfSeq DEF IInv, ClientInv, ClientTypeOK
  <2>2. Fits(c2s'[k]) => FitsWith(c2s'[k], created', blocking')
    BY <2>1, FitsStays
  <2>3. Fits(c2s'[k])
    <3>1. CASE c2s' = c2s
      BY <3>1 DEF LimitLife
    <3>2. ASSUME NEW m \in Request, Sends(m), Sent(m)  PROVE Fits(c2s'[k])
      BY <3>2, SendsFit DEF Sent, LimitLife
    <3>3. CASE Read
      <4>1. k + 1 \in 1..Len(c2s) /\ c2s'[k] = c2s[k + 1]
        BY <3>3 DEF Read
      <4> QED BY <4>1 DEF LimitLife
    <3>4. ASSUME NEW n \in Nat, Lost(n)  PROVE Fits(c2s'[k])
      <4>1. CASE k \in 1..n
        BY <3>4, <4>1 DEF Lost, LimitLife
      <4>2. CASE ~(k \in 1..n)
        BY <3>4, <4>2 DEF Lost, Fits, FitsWith
      <4> QED BY <4>1, <4>2
    <3> QED BY <3>1, <3>2, <3>3, <3>4, QueueSteps
  <2> QED BY <2>2, <2>3
<1>3. ASSUME NEW t \in Ids
      PROVE  /\ t > created' => t \notin blocking'
             /\ call'[t].op = "REQUEST_RUN" => t \notin blocking'
  <2>1. /\ t > created => t \notin blocking
        /\ call[t].op = "REQUEST_RUN" => t \notin blocking
        /\ created \in Nat /\ t \in Nat
        /\ t > created => call[t] = NoCall
    BY IdsAssumption DEF LimitLife, LInv, RegisteredOnce, IInv, TaskTypeOK
  <2>2. ASSUME NEW i \in Ids, Start(i)
        PROVE  /\ t > created' => t \notin blocking'
               /\ call'[t].op = "REQUEST_RUN" => t \notin blocking'
    <3>1. /\ created' = i /\ i = created + 1 /\ blocking' \subseteq blocking \cup {i}
          /\ call'[t] = call[t] \/ (t = i /\ call'[t].op = "REGISTER")
      BY <2>2 DEF Start, IInv, TaskTypeOK
    <3>2. t = i => call[t].op = "none"
      BY <2>1, <3>1 DEF NoCall
    <3> QED BY <2>1, <3>1, <3>2
  <2>3. CASE UNCHANGED <<created, blocking>>
    <3>1. call'[t].op = "REQUEST_RUN" => call[t].op = "REQUEST_RUN" \/ t \notin blocking
      <4>1. CASE call' = call
        BY <4>1
      <4>2. ASSUME NEW i \in Ids, Check(i)
            PROVE  call'[t].op \in {"none", call[t].op}
        <5>1. call[i] \in Call /\ call[i] # NoCall
          BY <4>2 DEF IInv, TaskTypeOK, Check, NoCall
        <5>2. call'[i].op \in {"none", call[i].op}
          BY <4>2, <5>1 DEF Call, NoCall, IInv, TaskTypeOK, Check
        <5>3. t # i => call'[t] = call[t]
          BY <4>2 DEF IInv, TaskTypeOK, Check
        <5> QED BY <5>2, <5>3
      <4>3. ASSUME NEW i \in Ids, Post(i) \/ TaskRequestRun(i) \/ TaskKill(i)
            PROVE  call'[t].op = "REQUEST_RUN"
                     => call[t].op = "REQUEST_RUN" \/ t \notin blocking
        BY <4>3 DEF Post, TaskRequestRun, TaskKill, IInv, TaskTypeOK, NoCall
      <4>4. ASSUME NEW i \in Ids, Start(i)  PROVE FALSE
        BY <2>1, <2>3, <4>4 DEF Start
      <4>5. call' = call \/ \E i \in Ids : \/ Check(i) \/ Start(i) \/ Post(i)
                                           \/ TaskRequestRun(i) \/ TaskKill(i)
        BY DEF Next, Demand, ClientThread, MainThread, TaskThread,
           Done, LateTerminated, Exit, CheckSignaled,
           QuitStart, Crash, WriteFails, ClientSetOption, ClientStarted,
           ClientTerminated,
           ClientClosed, ClientKillCheck, ClientKillPost, QuitKill, QuitShutdown,
           QuitUnregister, ClientShutdown, Server, ServerRead, vars, taskVars
      <4> QED BY <4>1, <4>2, <4>3, <4>4, <4>5
    <3> QED BY <2>1, <2>3, <3>1
  <2> QED BY <2>2, <2>3, BlockingFrame
<1>4. LimitLife'
  <2>1. \A k \in 1..Len(c2s') : Fits(c2s[k])'
    BY <1>2 DEF Fits
  <2>2. Highest(sstate, priority)'
    BY <1>1
  <2> QED BY <1>3, <2>1, <2>2 DEF LimitLife
<1> QED BY <1>1, <1>4

\* Initially nothing runs.
LEMMA InitLimits == Init => LimitsKept /\ LimitLife
<1> SUFFICES ASSUME Init  PROVE LimitsKept /\ LimitLife
  OBVIOUS
<1>1. /\ \A i \in Ids : sstate[i] = "NONE" /\ call[i] = NoCall
      /\ blocking = {} /\ c2s = <<>>
  BY DEF Init, ServerInit
<1>2. LimitLife
  BY <1>1 DEF LimitLife, Highest, NoCall
<1>3. LimitsKept
  <2>1. Running(sstate) = {}
    BY <1>1 DEF Running
  <2>2. Normal.max \in Nat /\ Normal.heavy \in Nat
    BY OptionsAssumption DEF OptionRecord
  <2>3. Counted(sstate, priority) = {} /\ Heavy(sstate, weight) = {}
    BY <2>1 DEF Counted, Heavy
  <2> QED BY <2>2, <2>3, FS_EmptySet, BoundedIsLimits DEF Bounded
<1> QED BY <1>2, <1>3

\* The limits hold at all times: entries below HIGHEST never exceed max_subprocs,
\* nor heavy ones max_subprocs_heavy_weight, of the options they were spawned under,
\* whatever burst mode, kills, run requests and nested spawns do.
THEOREM LimitsAreKept == Spec => []LimitsKept
<1>1. IInv /\ IInv' /\ LInv /\ LimitsKept /\ LimitLife /\ [Next]_vars
        => LimitsKept' /\ LimitLife'
  BY NextLimits
<1> QED BY <1>1, InitLimits, InductiveInvariant, LifetimeInvariant, PTL DEF Spec
==============================================================================

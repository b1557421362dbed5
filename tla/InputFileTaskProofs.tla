------------------------- MODULE InputFileTaskProofs -------------------------
(***************************************************************************)
(* InputsExact of InputFileTask, for any number of compile tasks and files *)
(* and any number of rounds.                                               *)
(*                                                                         *)
(* InputsExact looks at both sides of the references between compile tasks *)
(* and InputFileTasks; no action preserves it by itself.  InputInv adds    *)
(* where a closure is (Placed), who can find an object (Findable), that a  *)
(* thread in Run() always owes a callback (ObjectLife), that names of      *)
(* objects are not used twice (Fresh), and what the request has of the     *)
(* missing files while it is put together (MissedLife).                    *)
(*                                                                         *)
(* Every action changes one compile task, one object or one of each, so    *)
(* three lemmas, Step, TaskStep and ObjectStep, say once what such a       *)
(* change must respect, and each action is shown to respect it.            *)
(***************************************************************************)
EXTENDS InputFileTask, MultiHttpRPC, FiniteSetTheorems, SequenceTheorems, TLAPS

-----------------------------------------------------------------------------
(***************************************************************************)
(* The inductive invariant.                                                *)
(***************************************************************************)
FileTaskType ==
  [state : {"none", "INIT", "RUN", "DONE", "deleted"},
   at : {"idle", "compute", "upload", "erase", "finish", "post"},
   tasks : SUBSET Users, callbacks : SUBSET Users, posts : SUBSET Users,
   missed : BOOLEAN, hash_only : BOOLEAN, is_new : BOOLEAN, old_key : BOOLEAN,
   key : BOOLEAN, blob : BOOLEAN, success : BOOLEAN, new_key : BOOLEAN,
   side : BOOLEAN]

CompileType ==
  [at : {"build", "wait", "built", "exec", "end"}, round : 1..plan.rounds,
   todo : Seq(Files), of : [Files -> FileTasks \cup {NoTask}], num : Int,
   runs : SUBSET Files, finished : SUBSET Files, ok : BOOLEAN,
   content : SUBSET Files, shared : SUBSET Files, dropped : SUBSET Files,
   interleaved : SUBSET Files, missing : SUBSET Files, last_req : Int,
   abort : BOOLEAN, calls : Int]

InputTypes ==
  /\ plan \in InputPlans
  /\ by_filename \in [Files -> FileTasks \cup {NoTask}]
  /\ file_task \in [FileTasks -> FileTaskType]
  /\ compile \in [Users -> CompileType]
  /\ file_cache \in [Files -> [in : BOOLEAN, uploaded : Int]]
  /\ clock \in Int

\* The life of one InputFileTask.  While a thread is in Run() the object owes a
\* callback, that of the task which ran it at least, so that it is not the last
\* reference that goes.  Content the server missed is there if anything is.
ObjectLife(t) ==
  /\ t.tasks = {} <=> t.state \in {"none", "deleted"}
  /\ t.posts \subseteq t.tasks /\ t.callbacks \subseteq t.tasks
  /\ t.posts \cap t.callbacks = {}
  /\ t.state = "RUN" <=> t.at \in {"compute", "upload", "erase", "finish"}
  /\ t.at = "post" => t.state = "DONE"
  /\ t.at = "idle" <=> t.posts = {}
  /\ t.callbacks # {} => t.state = "RUN"
  /\ t.at \in {"erase", "finish"} \/ t.state = "DONE" =>
       (t.missed /\ t.success => t.blob)

\* task_by_filename_ has the object until Run() has taken it out.
Findable(t) == t.state = "INIT" \/ t.at \in {"compute", "upload", "erase"}

Objects ==
  /\ \A o \in FileTasks : ObjectLife(file_task[o])
  /\ \A f \in Files : by_filename[f] # NoTask =>
       FileOf(by_filename[f]) = f /\ Findable(file_task[by_filename[f]])

\* Both sides of the references between objects and tasks.
Owners ==
  /\ \A u \in Users, f \in Files : compile[u].of[f] # NoTask =>
       FileOf(compile[u].of[f]) = f
  /\ \A u \in Users, o \in FileTasks :
       u \in file_task[o].tasks <=> compile[u].of[FileOf(o)] = o

\* The loop of ProcessFileRequest() has yet to come to these files.
Rest(c) == {f \in Files : f > Len(plan.size) - Len(c.todo)}

\* Names of objects are used once.
Fresh ==
  \A u \in Users, r \in 1..plan.rounds, f \in Files :
    r > compile[u].round \/ (r = compile[u].round /\ f \in Rest(compile[u])) =>
      file_task[<<u, r, f>>].state = "none"

\* What a compile task has of its files: those it has an object of, until the
\* callback, and of the missing ones what the request will need.
TaskLife(c) ==
  /\ Len(c.todo) <= Len(plan.size)
  /\ \A i \in 1..Len(c.todo) : c.todo[i] = Len(plan.size) - Len(c.todo) + i
  /\ c.at # "build" => c.todo = <<>>
  /\ \A f \in Rest(c) : c.of[f] = NoTask
  /\ c.num = Cardinality({f \in Files : c.of[f] # NoTask})
  /\ c.at \in {"built", "exec", "end"} => \A f \in Files : c.of[f] = NoTask
  /\ c.calls = IF c.at \in {"build", "wait"} THEN 0 ELSE 1

MissedLife(c) ==
  /\ c.at \in {"build", "wait", "built"} /\ c.ok =>
       \A f \in c.missing :
         \/ f \in Rest(c) \/ c.of[f] # NoTask
         \/ f \in c.content \cup c.shared \cup c.interleaved
  /\ c.at = "exec" =>
       \A f \in c.missing :
         f \in c.content \cup c.dropped \cup c.shared \cup c.interleaved

\* Where the closure of the task u for the file f is: nowhere before the Runs are
\* posted, then in one place, until the task has finished with the file.  c is the
\* task and t the object it has of the file.
Parked(u, t) == u \in t.callbacks \cup t.posts
Placed(u, f, c, t) ==
  /\ c.of[f] = NoTask => f \notin c.runs /\ f \notin c.finished
  /\ c.of[f] # NoTask =>
       /\ f \in c.finished => t.state = "DONE"
       /\ c.at = "build" => f \notin c.runs /\ f \notin c.finished /\ ~Parked(u, t)
       /\ c.at = "wait" =>
            \/ f \in c.runs /\ f \notin c.finished /\ ~Parked(u, t)
            \/ f \notin c.runs /\ f \in c.finished /\ ~Parked(u, t)
            \/ f \notin c.runs /\ f \notin c.finished /\ Parked(u, t)

TasksLife ==
  \A u \in Users :
    /\ TaskLife(compile[u]) /\ MissedLife(compile[u])
    /\ \A f \in Files : Placed(u, f, compile[u], file_task[compile[u].of[f]])

InputInv == InputTypes /\ Objects /\ Owners /\ Fresh /\ TasksLife

-----------------------------------------------------------------------------
\* Files are numbered.
LEMMA FilesType ==
  ASSUME plan \in InputPlans
  PROVE  /\ Len(plan.size) \in Nat /\ Files = 1..Len(plan.size)
         /\ plan.rounds \in Nat \ {0} /\ IsFiniteSet(Files)
<1>1. plan.size \in Seq(Sizes) /\ plan.rounds \in Nat \ {0}
  BY PlansAssumption
<1>2. Len(plan.size) \in Nat /\ Files = 1..Len(plan.size)
  BY <1>1 DEF Files
<1>3. IsFiniteSet(1..Len(plan.size))
  BY <1>2, FS_Interval
<1> QED BY <1>1, <1>2, <1>3

\* An object is named by the task, the round and the file that made it.
LEMMA FileTaskFacts ==
  /\ NoTask \notin FileTasks
  /\ \A o \in FileTasks : FileOf(o) \in Files
  /\ \A u \in Users, r \in 1..plan.rounds, f \in Files :
       <<u, r, f>> \in FileTasks /\ FileOf(<<u, r, f>>) = f
  /\ \A o \in FileTasks : \E u \in Users, r \in 1..plan.rounds, f \in Files :
       o = <<u, r, f>>
  /\ \A u1, r1, f1, u2, r2, f2 :
       <<u1, r1, f1>> = <<u2, r2, f2>> => u1 = u2 /\ r1 = r2 /\ f1 = f2
<1>1. NoTask \notin FileTasks
  BY DEF NoTask, FileTasks
<1>2. \A o \in FileTasks : FileOf(o) \in Files
  BY DEF FileOf, FileTasks
<1>3. \A u \in Users, r \in 1..plan.rounds, f \in Files :
       <<u, r, f>> \in FileTasks /\ FileOf(<<u, r, f>>) = f
  BY DEF FileOf, FileTasks
<1>4. \A o \in FileTasks : \E u \in Users, r \in 1..plan.rounds, f \in Files :
       o = <<u, r, f>>
  BY DEF FileTasks
<1> QED BY <1>1, <1>2, <1>3, <1>4

\* With the plan, all that is computed from it stays.
LEMMA SamePlan ==
  ASSUME plan' = plan
  PROVE  /\ Files' = Files /\ FileTasks' = FileTasks
         /\ CompileType' = CompileType
  BY DEF Files, FileTasks, CompileType

\* A step that changes one task and one object it has, had or makes.  The other
\* tasks of the object find it as it was.
LEMMA Step ==
  ASSUME InputInv, plan' = plan, NEW u \in Users, NEW o \in FileTasks,
         NEW c \in CompileType, NEW t \in FileTaskType,
         compile' = [compile EXCEPT ![u] = c],
         file_task' = [file_task EXCEPT ![o] = t],
         file_cache' \in [Files -> [in : BOOLEAN, uploaded : Int]], clock' \in Int,
         by_filename' \in [Files -> FileTasks \cup {NoTask}],
         \A f \in Files : by_filename'[f] # NoTask =>
           /\ FileOf(by_filename'[f]) = f
           /\ Findable(file_task'[by_filename'[f]]),
         ObjectLife(t), TaskLife(c), MissedLife(c),
         \A f \in Files : c.of[f] # compile[u].of[f] =>
           f = FileOf(o) /\ c.of[f] \in {o, NoTask}
             /\ compile[u].of[f] \in {o, NoTask},
         \A v \in Users \ {u} : v \in t.tasks <=> v \in file_task[o].tasks,
         u \in t.tasks <=> c.of[FileOf(o)] = o,
         \A v \in Users \ {u} : Parked(v, t) <=> Parked(v, file_task[o]),
         file_task[o].state = "DONE" => t.state = "DONE" \/ t.tasks = {},
         \/ c.round > compile[u].round
         \/ c.round = compile[u].round /\ Rest(c) \subseteq Rest(compile[u]),
         \/ file_task[o].state # "none"
         \/ \E f \in Files : o = <<u, c.round, f>> /\ f \notin Rest(c),
         \A f \in Files : Placed(u, f, c, file_task'[c.of[f]])
  PROVE  InputInv'
<1> USE DEF InputInv
<1>1. /\ compile'[u] = c /\ \A v \in Users \ {u} : compile'[v] = compile[v]
      /\ file_task'[o] = t /\ \A p \in FileTasks \ {o} : file_task'[p] = file_task[p]
      /\ compile' \in [Users -> CompileType] /\ file_task' \in [FileTasks -> FileTaskType]
  BY DEF InputTypes
<1>2. /\ Files' = Files /\ FileTasks' = FileTasks /\ CompileType' = CompileType
      /\ FileTaskType' = FileTaskType
  BY SamePlan DEF FileTaskType
<1>3. InputTypes'
  BY <1>1, <1>2 DEF InputTypes
<1>4. Objects'
  <2>1. \A p \in FileTasks : ObjectLife(file_task'[p])
    BY <1>1 DEF Objects
  <2> QED BY <1>2, <2>1 DEF Objects
<1>5. Owners'
  <2>1. \A v \in Users, f \in Files : compile'[v].of[f] # NoTask =>
          FileOf(compile'[v].of[f]) = f
    BY <1>1 DEF Owners
  <2>2. \A v \in Users, p \in FileTasks :
          v \in file_task'[p].tasks <=> compile'[v].of[FileOf(p)] = p
    <3> SUFFICES ASSUME NEW v \in Users, NEW p \in FileTasks
                 PROVE  v \in file_task'[p].tasks <=> compile'[v].of[FileOf(p)] = p
      OBVIOUS
    <3>1. CASE p = o
      BY <1>1, <3>1 DEF Owners
    <3>2. CASE p # o /\ v # u
      BY <1>1, <3>2 DEF Owners
    <3>3. CASE p # o /\ v = u
      <4>1. FileOf(p) \in Files /\ p # NoTask
        BY FileTaskFacts
      <4>2. c.of[FileOf(p)] = p <=> compile[u].of[FileOf(p)] = p
        BY <3>3, <4>1
      <4> QED BY <1>1, <3>3, <4>2 DEF Owners
    <3> QED BY <3>1, <3>2, <3>3
  <2> QED BY <1>2, <2>1, <2>2 DEF Owners
<1>6. Fresh'
  <2> SUFFICES ASSUME NEW v \in Users, NEW r \in 1..plan.rounds, NEW f \in Files,
                      \/ r > compile'[v].round
                      \/ r = compile'[v].round /\ f \in Rest(compile[v])'
               PROVE  file_task'[<<v, r, f>>].state = "none"
    BY <1>2 DEF Fresh
  <2>1. Rest(compile[v])' = {g \in Files : g > Len(plan.size) - Len(compile'[v].todo)}
    BY <1>2 DEF Rest
  <2>2. \/ r > compile[v].round
        \/ r = compile[v].round /\ f \in Rest(compile[v])
    <3>1. CASE v # u
      BY <1>1, <2>1, <3>1 DEF Rest
    <3>2. CASE v = u
      <4>1. compile[u].round \in Int /\ c.round \in Int /\ r \in Int
        BY FilesType DEF InputTypes, CompileType
      <4>2. Rest(compile[v])' = Rest(c)
        BY <1>1, <2>1, <3>2 DEF Rest
      <4> QED BY <1>1, <3>2, <4>1, <4>2
    <3> QED BY <3>1, <3>2
  <2>3. file_task[<<v, r, f>>].state = "none" /\ <<v, r, f>> \in FileTasks
    BY <2>2, FileTaskFacts DEF Fresh
  <2>4. CASE <<v, r, f>> # o
    BY <1>1, <2>3, <2>4
  <2>5. CASE <<v, r, f>> = o
    <3>1. PICK g \in Files : o = <<u, c.round, g>> /\ g \notin Rest(c)
      BY <2>3, <2>5
    <3>2. v = u /\ r = c.round /\ f = g
      BY <2>5, <3>1, FileTaskFacts
    <3>3. Rest(compile[v])' = Rest(c)
      BY <1>1, <2>1, <3>2 DEF Rest
    <3>4. c.round \in Int
      BY FilesType DEF InputTypes, CompileType
    <3> QED BY <1>1, <3>1, <3>2, <3>3, <3>4
  <2> QED BY <2>4, <2>5
<1>7. TasksLife'
  <2> SUFFICES ASSUME NEW v \in Users
               PROVE  /\ TaskLife(compile[v])' /\ MissedLife(compile[v])'
                      /\ \A f \in Files : Placed(v, f, compile'[v],
                                                 file_task'[compile'[v].of[f]])
    BY <1>2 DEF TasksLife, Placed, Parked
  <2>1. TaskLife(compile[v])' /\ MissedLife(compile[v])'
    <3> DEFINE x == IF v = u THEN c ELSE compile[v]
    <3>1. compile'[v] = x /\ TaskLife(x) /\ MissedLife(x)
      BY <1>1 DEF TasksLife
    <3> HIDE DEF x
    <3>2. TaskLife(compile[v])'
      BY <1>2, <3>1 DEF TaskLife, Rest
    <3>3. MissedLife(compile[v])'
      BY <1>2, <3>1 DEF MissedLife, Rest
    <3> QED BY <3>2, <3>3
  <2>2. ASSUME NEW f \in Files
        PROVE  Placed(v, f, compile'[v], file_task'[compile'[v].of[f]])
    <3>1. CASE v = u
      BY <1>1, <3>1
    <3>2. CASE v # u
      <4> DEFINE p == compile[v].of[f]
      <4>1. compile'[v] = compile[v] /\ Placed(v, f, compile[v], file_task[p])
        BY <1>1, <3>2 DEF TasksLife
      <4>2. CASE p = NoTask
        BY <4>1, <4>2 DEF Placed
      <4>3. CASE p # NoTask
        <5>1. p \in FileTasks /\ FileOf(p) = f /\ v \in file_task[p].tasks
          BY <4>3 DEF InputTypes, CompileType, Owners
        <5>2. CASE p # o
          BY <1>1, <4>1, <5>1, <5>2
        <5>3. CASE p = o
          <6>1. v \in t.tasks /\ (Parked(v, t) <=> Parked(v, file_task[o]))
            BY <3>2, <5>1, <5>3
          <6>2. file_task[o].state = "DONE" => t.state = "DONE"
            BY <6>1
          <6> QED BY <1>1, <4>1, <5>3, <6>1, <6>2 DEF Placed
        <5> QED BY <5>2, <5>3
      <4> QED BY <4>2, <4>3
    <3> QED BY <3>1, <3>2
  <2> QED BY <2>1, <2>2
<1> QED BY <1>3, <1>4, <1>5, <1>6, <1>7

\* A step that changes a task and leaves the objects it has alone.
LEMMA TaskStep ==
  ASSUME InputInv, plan' = plan, NEW u \in Users, NEW c \in CompileType,
         compile' = [compile EXCEPT ![u] = c],
         UNCHANGED <<file_task, by_filename>>,
         file_cache' \in [Files -> [in : BOOLEAN, uploaded : Int]], clock' \in Int,
         TaskLife(c), MissedLife(c), c.of = compile[u].of,
         \/ c.round > compile[u].round
         \/ c.round = compile[u].round /\ Rest(c) \subseteq Rest(compile[u]),
         \A f \in Files : Placed(u, f, c, file_task[c.of[f]])
  PROVE  InputInv'
<1> USE DEF InputInv
<1>1. /\ compile'[u] = c /\ \A v \in Users \ {u} : compile'[v] = compile[v]
      /\ compile' \in [Users -> CompileType]
  BY DEF InputTypes
<1>2. /\ Files' = Files /\ FileTasks' = FileTasks /\ CompileType' = CompileType
      /\ FileTaskType' = FileTaskType
  BY SamePlan DEF FileTaskType
<1>3. InputTypes'
  BY <1>1, <1>2 DEF InputTypes
<1>4. Objects'
  BY <1>2 DEF Objects
<1>5. Owners'
  <2>1. \A v \in Users : compile'[v].of = compile[v].of
    BY <1>1
  <2> QED BY <1>2, <2>1 DEF Owners
<1>6. Fresh'
  <2> SUFFICES ASSUME NEW v \in Users, NEW r \in 1..plan.rounds, NEW f \in Files,
                      \/ r > compile'[v].round
                      \/ r = compile'[v].round /\ f \in Rest(compile[v])'
               PROVE  file_task[<<v, r, f>>].state = "none"
    BY <1>2 DEF Fresh
  <2>1. Rest(compile[v])' = {g \in Files : g > Len(plan.size) - Len(compile'[v].todo)}
    BY <1>2 DEF Rest
  <2>2. \/ r > compile[v].round
        \/ r = compile[v].round /\ f \in Rest(compile[v])
    <3>1. CASE v # u
      BY <1>1, <2>1, <3>1 DEF Rest
    <3>2. CASE v = u
      <4>1. compile[u].round \in Int /\ c.round \in Int /\ r \in Int
        BY FilesType DEF InputTypes, CompileType
      <4>2. Rest(compile[v])' = Rest(c)
        BY <1>1, <2>1, <3>2 DEF Rest
      <4> QED BY <1>1, <3>2, <4>1, <4>2
    <3> QED BY <3>1, <3>2
  <2> QED BY <2>2 DEF Fresh
<1>7. TasksLife'
  <2> SUFFICES ASSUME NEW v \in Users
               PROVE  /\ TaskLife(compile[v])' /\ MissedLife(compile[v])'
                      /\ \A f \in Files : Placed(v, f, compile'[v],
                                                 file_task[compile'[v].of[f]])
    BY <1>2 DEF TasksLife, Placed, Parked
  <2> DEFINE x == IF v = u THEN c ELSE compile[v]
  <2>1. /\ compile'[v] = x /\ TaskLife(x) /\ MissedLife(x)
        /\ \A f \in Files : Placed(v, f, x, file_task[x.of[f]])
    BY <1>1 DEF TasksLife
  <2> HIDE DEF x
  <2>2. TaskLife(compile[v])'
    BY <1>2, <2>1 DEF TaskLife, Rest
  <2>3. MissedLife(compile[v])'
    BY <1>2, <2>1 DEF MissedLife, Rest
  <2> QED BY <2>1, <2>2, <2>3
<1> QED BY <1>3, <1>4, <1>5, <1>6, <1>7

\* A step of Run(), which changes an object only.
LEMMA ObjectStep ==
  ASSUME InputInv, plan' = plan, NEW o \in FileTasks, NEW t \in FileTaskType,
         UNCHANGED compile, file_task' = [file_task EXCEPT ![o] = t],
         file_cache' \in [Files -> [in : BOOLEAN, uploaded : Int]], clock' \in Int,
         \/ UNCHANGED by_filename
         \/ by_filename' = [by_filename EXCEPT ![FileOf(o)] = NoTask],
         by_filename'[FileOf(o)] = o => Findable(t),
         ObjectLife(t), t.tasks = file_task[o].tasks, t.tasks # {},
         \A v \in Users : Parked(v, t) <=> Parked(v, file_task[o]),
         file_task[o].state = "DONE" => t.state = "DONE"
  PROVE  InputInv'
<1> USE DEF InputInv
<1>1. PICK u \in Users : u \in t.tasks
  BY DEF FileTaskType
<1>2. compile' = [compile EXCEPT ![u] = compile[u]] /\ compile[u] \in CompileType
  BY DEF InputTypes
<1>3. TaskLife(compile[u]) /\ MissedLife(compile[u])
  BY DEF TasksLife
<1>4. /\ by_filename' \in [Files -> FileTasks \cup {NoTask}]
      /\ \A f \in Files : by_filename'[f] # NoTask =>
           /\ FileOf(by_filename'[f]) = f
           /\ Findable(file_task'[by_filename'[f]])
  <2>1. FileOf(o) \in Files
    BY FileTaskFacts
  <2>2. \A f \in Files : by_filename'[f] # NoTask =>
          by_filename'[f] = by_filename[f] /\ by_filename[f] \in FileTasks
    BY <2>1 DEF InputTypes
  <2>3. by_filename' \in [Files -> FileTasks \cup {NoTask}]
    BY DEF InputTypes
  <2>4. ASSUME NEW f \in Files, by_filename'[f] # NoTask
        PROVE  /\ FileOf(by_filename'[f]) = f
               /\ Findable(file_task'[by_filename'[f]])
    <3>1. CASE by_filename[f] # o
      BY <2>2, <2>4, <3>1 DEF Objects, InputTypes
    <3>2. CASE by_filename[f] = o
      BY <2>2, <2>4, <3>2 DEF Objects, InputTypes
    <3> QED BY <3>1, <3>2
  <2> QED BY <2>3, <2>4
<1>5. u \in t.tasks <=> compile[u].of[FileOf(o)] = o
  BY DEF Owners
<1>6. file_task[o].state # "none"
  BY DEF Objects, ObjectLife
<1>7. \A f \in Files :
        Placed(u, f, compile[u], file_task'[compile[u].of[f]])
  <2> TAKE f \in Files
  <2> DEFINE p == compile[u].of[f]
  <2>1. Placed(u, f, compile[u], file_task[p])
    BY DEF TasksLife
  <2>2. CASE p = NoTask
    BY <2>1, <2>2 DEF Placed
  <2>3. CASE p # NoTask /\ p # o
    <3>1. file_task'[p] = file_task[p]
      BY <2>3, <1>2 DEF InputTypes, CompileType
    <3> QED BY <2>1, <3>1
  <2>4. CASE p = o
    <3>1. file_task'[p] = t
      BY <2>4 DEF InputTypes
    <3> QED BY <2>1, <2>4, <3>1 DEF Placed
  <2> QED BY <2>2, <2>3, <2>4
<1> QED BY <1>2, <1>3, <1>4, <1>5, <1>6, <1>7, Step

-----------------------------------------------------------------------------
(***************************************************************************)
(* The steps of Run().                                                     *)
(***************************************************************************)
LEMMA RunFacts ==
  ASSUME InputInv, NEW o \in FileTasks, file_task[o].at # "idle"
  PROVE  /\ file_task[o] \in FileTaskType /\ ObjectLife(file_task[o])
         /\ file_task[o].tasks # {} /\ file_task[o].posts # {}
         /\ file_cache \in [Files -> [in : BOOLEAN, uploaded : Int]]
         /\ clock \in Int /\ FileOf(o) \in Files
<1>1. file_task[o] \in FileTaskType /\ ObjectLife(file_task[o])
  BY DEF InputInv, InputTypes, Objects
<1> QED BY <1>1, FileTaskFacts DEF InputInv, InputTypes, ObjectLife

\* The steps of an object: ComputeKey(),
LEMMA ComputeKeyKeeps ==
  ASSUME InputInv, NEW o \in FileTasks, ComputeKey(o)
  PROVE  InputInv'
<1> DEFINE t == file_task[o]
<1>1. t.at = "compute" /\ UNCHANGED <<plan, by_filename, compile, cache_vars, clock>>
  BY DEF ComputeKey
<1>2. /\ t \in FileTaskType /\ ObjectLife(t) /\ t.tasks # {}
      /\ file_cache \in [Files -> [in : BOOLEAN, uploaded : Int]] /\ clock \in Int
  BY <1>1, RunFacts
<1>3. PICK success, key, new_key \in BOOLEAN :
        file_task' = [file_task EXCEPT ![o] =
          [t EXCEPT !.at = "upload", !.success = success, !.key = key,
                    !.new_key = new_key]]
  <2>1. CASE Set(o, [t EXCEPT !.at = "upload"])
    <3>1. [t EXCEPT !.at = "upload"] =
            [t EXCEPT !.at = "upload", !.success = t.success, !.key = t.key,
                      !.new_key = t.new_key]
      BY <1>2 DEF FileTaskType
    <3>2. t.success \in BOOLEAN /\ t.key \in BOOLEAN /\ t.new_key \in BOOLEAN
      BY <1>2 DEF FileTaskType
    <3> QED BY <2>1, <3>1, <3>2 DEF Set
  <2>2. ASSUME NEW ok \in BOOLEAN,
               Set(o, [t EXCEPT !.at = "upload", !.success = ok, !.key = ok,
                                !.new_key = IF ok THEN FileOf(o) \notin known_keys
                                            ELSE @])
        PROVE  \E success, key, new_key \in BOOLEAN :
                 file_task' = [file_task EXCEPT ![o] =
                   [t EXCEPT !.at = "upload", !.success = success, !.key = key,
                             !.new_key = new_key]]
    <3> DEFINE b == IF ok THEN FileOf(o) \notin known_keys ELSE t.new_key
    <3>1. b \in BOOLEAN
      BY <1>2 DEF FileTaskType
    <3>2. file_task' = [file_task EXCEPT ![o] =
            [t EXCEPT !.at = "upload", !.success = ok, !.key = ok, !.new_key = b]]
      BY <2>2 DEF Set
    <3> HIDE DEF b
    <3> QED BY <3>1, <3>2
  <2> QED BY <2>1, <2>2 DEF ComputeKey
<1> DEFINE r == [t EXCEPT !.at = "upload", !.success = success, !.key = key,
                          !.new_key = new_key]
<1>4. /\ r \in FileTaskType /\ r.at = "upload" /\ r.state = t.state
      /\ r.tasks = t.tasks /\ r.posts = t.posts /\ r.callbacks = t.callbacks
  BY <1>2 DEF FileTaskType
<1>5. file_task' = [file_task EXCEPT ![o] = r]
  BY <1>3
<1> HIDE DEF r
<1>6. t.state = "RUN"
  BY <1>1, <1>2 DEF ObjectLife
<1>7. ObjectLife(r) /\ Findable(r)
  BY <1>1, <1>2, <1>4, <1>6 DEF ObjectLife, Findable
<1>8. \A v \in Users : Parked(v, r) <=> Parked(v, t)
  BY <1>4 DEF Parked
<1> QED BY <1>1, <1>2, <1>4, <1>5, <1>6, <1>7, <1>8, ObjectStep DEF cache_vars

\* the removal from the map,
LEMMA EraseKeeps ==
  ASSUME InputInv, NEW o \in FileTasks, Erase(o)
  PROVE  InputInv'
<1> DEFINE t == file_task[o]
           r == [t EXCEPT !.at = "finish"]
<1>1. /\ t.at = "erase" /\ UNCHANGED <<plan, compile, cache_vars, clock>>
      /\ by_filename' = [by_filename EXCEPT ![FileOf(o)] = NoTask]
      /\ file_task' = [file_task EXCEPT ![o] = r]
  BY DEF Erase, Set
<1>2. /\ t \in FileTaskType /\ ObjectLife(t) /\ t.tasks # {} /\ FileOf(o) \in Files
      /\ file_cache \in [Files -> [in : BOOLEAN, uploaded : Int]] /\ clock \in Int
  BY <1>1, RunFacts
<1>3. /\ r \in FileTaskType /\ r.at = "finish" /\ r.state = t.state
      /\ r.tasks = t.tasks /\ r.posts = t.posts /\ r.callbacks = t.callbacks
      /\ r.missed = t.missed /\ r.success = t.success /\ r.blob = t.blob
  BY <1>2 DEF FileTaskType
<1> HIDE DEF r
<1>4. ObjectLife(r)
  BY <1>1, <1>2, <1>3 DEF ObjectLife
<1>5. \A v \in Users : Parked(v, r) <=> Parked(v, t)
  BY <1>3 DEF Parked
<1>6. by_filename'[FileOf(o)] # o
  BY <1>1, <1>2, FileTaskFacts DEF InputInv, InputTypes
<1> QED BY <1>1, <1>2, <1>3, <1>4, <1>5, <1>6, ObjectStep DEF cache_vars

\* the end of Run(),
LEMMA FinishKeeps ==
  ASSUME InputInv, NEW o \in FileTasks, Finish(o)
  PROVE  InputInv'
<1> DEFINE t == file_task[o]
           r == [t EXCEPT !.state = "DONE", !.at = "post", !.callbacks = {},
                          !.posts = @ \cup t.callbacks]
<1>1. /\ t.at = "finish" /\ UNCHANGED <<plan, by_filename, compile, cache_vars, clock>>
      /\ file_task' = [file_task EXCEPT ![o] = r]
  BY DEF Finish, Set
<1>2. /\ t \in FileTaskType /\ ObjectLife(t) /\ t.tasks # {} /\ t.posts # {}
      /\ file_cache \in [Files -> [in : BOOLEAN, uploaded : Int]] /\ clock \in Int
  BY <1>1, RunFacts
<1>3. /\ r \in FileTaskType /\ r.at = "post" /\ r.state = "DONE"
      /\ r.tasks = t.tasks /\ r.posts = t.posts \cup t.callbacks
      /\ r.callbacks = {}
      /\ r.missed = t.missed /\ r.success = t.success /\ r.blob = t.blob
  BY <1>2 DEF FileTaskType
<1> HIDE DEF r
<1>4. ObjectLife(r)
  BY <1>1, <1>2, <1>3 DEF ObjectLife
<1>5. \A v \in Users : Parked(v, r) <=> Parked(v, t)
  BY <1>3 DEF Parked
<1>6. by_filename[FileOf(o)] # o
  <2>1. FileOf(o) \in Files /\ o # NoTask
    BY FileTaskFacts
  <2>2. ~Findable(t)
    BY <1>1, <1>2 DEF Findable, ObjectLife
  <2> QED BY <2>1, <2>2 DEF InputInv, Objects
<1> QED BY <1>1, <1>2, <1>3, <1>4, <1>5, <1>6, ObjectStep DEF cache_vars

\* A key is stored in the cache.
LEMMA StoreType ==
  ASSUME NEW cache \in [Files -> [in : BOOLEAN, uploaded : Int]], NEW f \in Files,
         NEW at \in Int
  PROVE  StoreFileCacheKey(cache, f, at) \in [Files -> [in : BOOLEAN, uploaded : Int]]
<1> DEFINE e == IF Size(f) = "absent" THEN NoEntry
                ELSE Entry(IF at = 0 THEN cache[f].uploaded ELSE at)
<1>1. e \in [in : BOOLEAN, uploaded : Int]
  BY DEF NoEntry, Entry
<1>2. StoreFileCacheKey(cache, f, at) = [cache EXCEPT ![f] = e]
  BY DEF StoreFileCacheKey
<1> HIDE DEF e
<1> QED BY <1>1, <1>2

\* What Upload() makes of an object, whatever happens to the file.
LEMMA LoadedFacts ==
  ASSUME NEW t \in FileTaskType, NEW f, NEW changed \in BOOLEAN, NEW ok \in BOOLEAN,
         NEW read \in BOOLEAN
  PROVE  LET r == Loaded(t, f, changed, ok, read)
         IN  /\ r.success \in BOOLEAN /\ r.blob \in BOOLEAN
             /\ t.missed /\ r.success => r.blob
<1>1. /\ Uploaded(t, ok).success = ok /\ Uploaded(t, ok).blob = ok
      /\ Embedded(t, read).success = read /\ Embedded(t, read).blob = read
  BY DEF Uploaded, Embedded, FileTaskType
<1>2. /\ Embedded([t EXCEPT !.hash_only = FALSE], read).success = read
      /\ Embedded([t EXCEPT !.hash_only = FALSE], read).blob = read
  BY DEF Embedded, FileTaskType
<1>3. t.success \in BOOLEAN /\ t.blob \in BOOLEAN
  BY DEF FileTaskType
<1>4. t.missed => need_to_upload_content(t, f, changed)
  BY DEF need_to_upload_content
<1> QED BY <1>1, <1>2, <1>3, <1>4 DEF Loaded

\* the upload,
LEMMA UploadKeeps ==
  ASSUME InputInv, NEW o \in FileTasks, Upload(o)
  PROVE  InputInv'
<1> DEFINE t == file_task[o]
           f == FileOf(o)
           outcome == IF Size(f) = "absent" THEN {FALSE} ELSE BOOLEAN
<1>1. t.at = "upload" /\ UNCHANGED <<plan, by_filename, compile, clock>>
  BY DEF Upload
<1>2. /\ t \in FileTaskType /\ ObjectLife(t) /\ t.tasks # {} /\ t.posts # {}
      /\ file_cache \in [Files -> [in : BOOLEAN, uploaded : Int]] /\ clock \in Int
      /\ f \in Files
  BY <1>1, RunFacts
<1>3. PICK changed \in IF t.key THEN BOOLEAN ELSE {FALSE}, ok \in outcome,
           read \in IF t.key THEN {TRUE} ELSE outcome :
        /\ Set(o, Reset(t, Loaded(t, f, changed, ok, read)))
        /\ file_cache' =
             IF StoresKey(Loaded(t, f, changed, ok, read))
             THEN StoreFileCacheKey(file_cache, f,
                    IF Loaded(t, f, changed, ok, read).side THEN clock ELSE 0)
             ELSE file_cache
  BY DEF Upload
<1> DEFINE r == Loaded(t, f, changed, ok, read)
           n == Reset(t, r)
<1>4. /\ file_task' = [file_task EXCEPT ![o] = n]
      /\ \/ file_cache' = file_cache
         \/ \E at \in {0, clock} : file_cache' = StoreFileCacheKey(file_cache, f, at)
  BY <1>3 DEF Set
<1>5. r.success \in BOOLEAN /\ r.blob \in BOOLEAN /\ (t.missed /\ r.success => r.blob)
  <2>1. changed \in BOOLEAN /\ ok \in BOOLEAN /\ read \in BOOLEAN
    OBVIOUS
  <2> HIDE DEF t, f
  <2> QED BY <1>2, <2>1, LoadedFacts
<1> HIDE DEF r
<1>6. /\ n \in FileTaskType /\ n.at = "erase" /\ n.state = t.state
      /\ n.tasks = t.tasks /\ n.posts = t.posts /\ n.callbacks = t.callbacks
      /\ n.missed = t.missed /\ n.success = r.success /\ n.blob = r.blob
  <2>1. Unmade \in FileTaskType
    BY DEF FileTaskType, Unmade
  <2>2. n \in FileTaskType
    BY <1>2, <1>5, <2>1 DEF FileTaskType, Reset
  <2> QED BY <2>1, <2>2 DEF FileTaskType, Reset
<1> HIDE DEF n
<1>7. t.state = "RUN"
  BY <1>1, <1>2 DEF ObjectLife
<1>8. ObjectLife(n) /\ Findable(n)
  BY <1>1, <1>2, <1>5, <1>6, <1>7 DEF ObjectLife, Findable
<1>9. \A v \in Users : Parked(v, n) <=> Parked(v, t)
  BY <1>6 DEF Parked
<1>10. file_cache' \in [Files -> [in : BOOLEAN, uploaded : Int]]
  BY <1>2, <1>4, StoreType
<1> QED BY <1>1, <1>2, <1>4, <1>6, <1>7, <1>8, <1>9, <1>10, ObjectStep

-----------------------------------------------------------------------------
(***************************************************************************)
(* The steps of a compile task.                                            *)
(***************************************************************************)
LEMMA TaskFacts ==
  ASSUME InputInv, NEW u \in Users
  PROVE  /\ compile[u] \in CompileType /\ TaskLife(compile[u]) /\ MissedLife(compile[u])
         /\ \A f \in Files : Placed(u, f, compile[u], file_task[compile[u].of[f]])
         /\ file_cache \in [Files -> [in : BOOLEAN, uploaded : Int]] /\ clock \in Int
         /\ plan \in InputPlans
  BY DEF InputInv, InputTypes, TasksLife

\* A closure that is queued or parked is that of a task which waits for it.
LEMMA WaitsForIt ==
  ASSUME InputInv, NEW u \in Users, NEW f \in Files,
         \/ f \in compile[u].runs \/ f \in compile[u].finished
         \/ compile[u].of[f] # NoTask /\ Parked(u, file_task[compile[u].of[f]])
  PROVE  /\ compile[u].at = "wait" /\ compile[u].of[f] \in FileTasks
         /\ FileOf(compile[u].of[f]) = f
         /\ u \in file_task[compile[u].of[f]].tasks
         /\ file_task[compile[u].of[f]] \in FileTaskType
         /\ ObjectLife(file_task[compile[u].of[f]])
<1> DEFINE c == compile[u]
           o == c.of[f]
<1>1. c \in CompileType /\ TaskLife(c) /\ Placed(u, f, c, file_task[o])
  BY TaskFacts
<1>2. o # NoTask
  BY <1>1 DEF Placed
<1>3. c.at \notin {"built", "exec", "end"}
  BY <1>1, <1>2 DEF TaskLife
<1>4. c.at # "build"
  BY <1>1, <1>2 DEF Placed
<1>5. c.at = "wait" /\ o \in FileTasks
  BY <1>1, <1>2, <1>3, <1>4 DEF CompileType
<1>6. FileOf(o) = f /\ u \in file_task[o].tasks
  BY <1>2, <1>5 DEF InputInv, Owners
<1> QED BY <1>5, <1>6 DEF InputInv, InputTypes, Objects

\* A step with an object of the file f leaves the other files of a task in their
\* places.
LEMMA OtherPlaces ==
  ASSUME InputInv, NEW u \in Users, NEW o \in FileTasks, NEW t, NEW c,
         file_task' = [file_task EXCEPT ![o] = t],
         NEW g \in Files, g # FileOf(o), c.of[g] = compile[u].of[g],
         g \in c.runs <=> g \in compile[u].runs,
         g \in c.finished <=> g \in compile[u].finished,
         c.at = compile[u].at \/ c.of[g] = NoTask
  PROVE  Placed(u, g, c, file_task'[c.of[g]])
<1> DEFINE p == compile[u].of[g]
<1>1. Placed(u, g, compile[u], file_task[p])
  BY TaskFacts
<1>2. CASE p = NoTask
  BY <1>1, <1>2 DEF Placed
<1>3. CASE p # NoTask
  <2>1. p \in FileTasks /\ FileOf(p) = g
    BY <1>3, TaskFacts DEF CompileType, InputInv, Owners
  <2>2. file_task'[p] = file_task[p]
    BY <2>1 DEF InputInv, InputTypes
  <2> QED BY <1>1, <1>3, <2>2 DEF Placed
<1> QED BY <1>2, <1>3

\* An object that cannot be found is not there for any file.
LEMMA NotFound ==
  ASSUME InputInv, NEW o \in FileTasks, NEW t, UNCHANGED by_filename,
         file_task' = [file_task EXCEPT ![o] = t],
         Findable(file_task[o]) => Findable(t)
  PROVE  /\ by_filename' \in [Files -> FileTasks \cup {NoTask}]
         /\ \A f \in Files : by_filename'[f] # NoTask =>
              /\ FileOf(by_filename'[f]) = f
              /\ Findable(file_task'[by_filename'[f]])
<1>1. by_filename \in [Files -> FileTasks \cup {NoTask}]
  BY DEF InputInv, InputTypes
<1>2. ASSUME NEW f \in Files, by_filename'[f] # NoTask
      PROVE  /\ FileOf(by_filename'[f]) = f
             /\ Findable(file_task'[by_filename'[f]])
  <2>1. by_filename[f] \in FileTasks
    BY <1>1, <1>2
  <2>2. FileOf(by_filename[f]) = f /\ Findable(file_task[by_filename[f]])
    BY <1>2 DEF InputInv, Objects
  <2>3. CASE by_filename[f] = o
    BY <2>2, <2>3 DEF InputInv, InputTypes
  <2>4. CASE by_filename[f] # o
    BY <2>1, <2>2, <2>4 DEF InputInv, InputTypes
  <2> QED BY <2>3, <2>4
<1> QED BY <1>1, <1>2

\* and the callbacks.
LEMMA PostCallbackKeeps ==
  ASSUME InputInv, NEW o \in FileTasks, NEW u \in Users, PostCallback(o, u)
  PROVE  InputInv'
<1> DEFINE t == file_task[o]
           f == FileOf(o)
           posts == t.posts \ {u}
           next == IF posts = {} THEN "idle" ELSE "post"
           r == [t EXCEPT !.posts = posts, !.at = next]
           c == [compile[u] EXCEPT !.finished = @ \cup {f}]
<1>1. /\ t.at = "post" /\ u \in t.posts
      /\ UNCHANGED <<plan, by_filename, cache_vars, clock>>
      /\ file_task' = [file_task EXCEPT ![o] = r]
      /\ compile' = [compile EXCEPT ![u] = c]
  BY DEF PostCallback, Set, Post
<1>2. /\ t \in FileTaskType /\ ObjectLife(t) /\ t.posts # {}
      /\ file_cache \in [Files -> [in : BOOLEAN, uploaded : Int]] /\ clock \in Int
      /\ f \in Files
  BY <1>1, RunFacts
<1>3. /\ r \in FileTaskType /\ r.at = next /\ r.state = t.state
      /\ r.tasks = t.tasks /\ r.posts = posts /\ r.callbacks = t.callbacks
      /\ r.missed = t.missed /\ r.success = t.success /\ r.blob = t.blob
  BY <1>2 DEF FileTaskType
<1> HIDE DEF r
<1>4. t.state = "DONE" /\ t.callbacks = {} /\ u \in t.tasks
  BY <1>1, <1>2 DEF ObjectLife
<1>5. ObjectLife(r)
  BY <1>1, <1>2, <1>3, <1>4 DEF ObjectLife
<1>6. \A v \in Users \ {u} : Parked(v, r) <=> Parked(v, t)
  BY <1>3 DEF Parked
<1>7. ~Findable(t)
  BY <1>1, <1>4 DEF Findable
<1>8. compile[u].of[f] = o /\ o # NoTask
  BY <1>4, FileTaskFacts DEF InputInv, Owners
<1>9. compile[u] \in CompileType /\ TaskLife(compile[u]) /\ MissedLife(compile[u])
  BY TaskFacts
<1>10. compile[u].at = "wait" /\ Placed(u, f, compile[u], t)
  BY <1>1, <1>2, <1>8, WaitsForIt, TaskFacts DEF Parked
<1>11. /\ c \in CompileType /\ c.at = compile[u].at /\ c.of = compile[u].of
       /\ c.runs = compile[u].runs /\ c.finished = compile[u].finished \cup {f}
       /\ c.todo = compile[u].todo /\ c.num = compile[u].num
       /\ c.calls = compile[u].calls /\ c.ok = compile[u].ok
       /\ c.missing = compile[u].missing /\ c.content = compile[u].content
       /\ c.shared = compile[u].shared /\ c.dropped = compile[u].dropped
       /\ c.interleaved = compile[u].interleaved /\ c.round = compile[u].round
  BY <1>2, <1>9 DEF CompileType
<1> HIDE DEF c
<1>12. TaskLife(c) /\ MissedLife(c) /\ Rest(c) = Rest(compile[u])
  BY <1>9, <1>11 DEF TaskLife, MissedLife, Rest
<1>13. Placed(u, f, c, r)
  BY <1>1, <1>3, <1>4, <1>8, <1>10, <1>11 DEF Placed, Parked
<1>14. \A g \in Files : Placed(u, g, c, file_task'[c.of[g]])
  <2> TAKE g \in Files
  <2>1. CASE g = f
    BY <1>1, <1>8, <1>11, <1>13, <2>1 DEF InputInv, InputTypes
  <2>2. CASE g # f
    BY <1>1, <1>11, <2>2, OtherPlaces
  <2> QED BY <2>1, <2>2
<1>15. /\ by_filename' \in [Files -> FileTasks \cup {NoTask}]
       /\ \A g \in Files : by_filename'[g] # NoTask =>
            /\ FileOf(by_filename'[g]) = g
            /\ Findable(file_task'[by_filename'[g]])
  BY <1>1, <1>7, NotFound
<1> HIDE DEF f, next, posts
<1> QED BY <1>1, <1>2, <1>3, <1>4, <1>5, <1>6, <1>8, <1>9, <1>11, <1>12, <1>14, <1>15,
           Step DEF cache_vars, f

\* A compile task is aborted.
LEMMA AbortKeeps ==
  ASSUME InputInv, NEW u \in Users, Abort(u)
  PROVE  InputInv'
<1> DEFINE c == [compile[u] EXCEPT !.abort = TRUE]
<1>1. /\ compile' = [compile EXCEPT ![u] = c]
      /\ UNCHANGED <<plan, by_filename, file_task, cache_vars, clock>>
  BY DEF Abort
<1>2. /\ compile[u] \in CompileType /\ TaskLife(compile[u]) /\ MissedLife(compile[u])
      /\ \A f \in Files : Placed(u, f, compile[u], file_task[compile[u].of[f]])
      /\ file_cache \in [Files -> [in : BOOLEAN, uploaded : Int]] /\ clock \in Int
  BY TaskFacts
<1>3. /\ c \in CompileType /\ c.at = compile[u].at /\ c.of = compile[u].of
      /\ c.runs = compile[u].runs /\ c.finished = compile[u].finished
      /\ c.todo = compile[u].todo /\ c.num = compile[u].num
      /\ c.calls = compile[u].calls /\ c.ok = compile[u].ok
      /\ c.missing = compile[u].missing /\ c.content = compile[u].content
      /\ c.shared = compile[u].shared /\ c.dropped = compile[u].dropped
      /\ c.interleaved = compile[u].interleaved /\ c.round = compile[u].round
  BY <1>2 DEF CompileType
<1> HIDE DEF c
<1>4. TaskLife(c) /\ MissedLife(c) /\ Rest(c) = Rest(compile[u])
  BY <1>2, <1>3 DEF TaskLife, MissedLife, Rest
<1>5. \A f \in Files : Placed(u, f, c, file_task[c.of[f]])
  BY <1>2, <1>3 DEF Placed
<1> QED BY <1>1, <1>2, <1>3, <1>4, <1>5, TaskStep DEF cache_vars

\* num_input_file_task_ is 0 exactly if the task has no object.
LEMMA NoneLeft ==
  ASSUME plan \in InputPlans, NEW of
  PROVE  /\ Cardinality({f \in Files : of[f] # NoTask}) \in Nat
         /\ Cardinality({f \in Files : of[f] # NoTask}) = 0 <=>
              \A f \in Files : of[f] = NoTask
<1> DEFINE S == {f \in Files : of[f] # NoTask}
<1>1. IsFiniteSet(S)
  BY FilesType, FS_Subset
<1>2. Cardinality(S) \in Nat /\ (Cardinality(S) = 0 <=> S = {})
  BY <1>1, FS_EmptySet, FS_CardinalityType
<1> QED BY <1>2

\* It posts Run() of the objects it has made.
LEMMA PostRunsKeeps ==
  ASSUME InputInv, NEW u \in Users, PostRuns(u)
  PROVE  InputInv'
<1> DEFINE d == compile[u]
           at == IF d.num = 0 THEN "built" ELSE "wait"
           calls == IF d.num = 0 THEN d.calls + 1 ELSE d.calls
           runs == {f \in Files : d.of[f] # NoTask}
           c == [d EXCEPT !.at = at, !.calls = calls, !.runs = runs]
<1>1. /\ d.at = "build" /\ d.todo = <<>> /\ compile' = [compile EXCEPT ![u] = c]
      /\ UNCHANGED <<plan, by_filename, file_task, cache_vars, clock>>
  BY DEF PostRuns
<1>2. /\ d \in CompileType /\ TaskLife(d) /\ MissedLife(d)
      /\ \A f \in Files : Placed(u, f, d, file_task[d.of[f]])
      /\ file_cache \in [Files -> [in : BOOLEAN, uploaded : Int]] /\ clock \in Int
      /\ plan \in InputPlans
  BY TaskFacts
<1>3. /\ at \in {"built", "wait"} /\ calls \in Int /\ runs \in SUBSET Files
      /\ d.calls = 0 /\ calls = IF at = "wait" THEN 0 ELSE 1
  BY <1>1, <1>2 DEF TaskLife
<1>4. at = "built" => \A f \in Files : d.of[f] = NoTask
  BY <1>2, NoneLeft DEF TaskLife
<1> HIDE DEF at, calls
<1>5. /\ c \in CompileType /\ c.at = at /\ c.of = d.of
      /\ c.runs = runs /\ c.finished = d.finished
      /\ c.todo = d.todo /\ c.num = d.num /\ c.calls = calls /\ c.ok = d.ok
      /\ c.missing = d.missing /\ c.content = d.content
      /\ c.shared = d.shared /\ c.dropped = d.dropped
      /\ c.interleaved = d.interleaved /\ c.round = d.round
  BY <1>2, <1>3 DEF CompileType
<1> HIDE DEF c, d
<1>6. Rest(c) = Rest(d)
  BY <1>5 DEF Rest
<1>7. TaskLife(c)
  BY <1>1, <1>2, <1>3, <1>4, <1>5, <1>6 DEF TaskLife
<1>8. MissedLife(c)
  BY <1>1, <1>2, <1>3, <1>5, <1>6 DEF MissedLife
<1>9. \A f \in Files : Placed(u, f, c, file_task[c.of[f]])
  BY <1>1, <1>2, <1>3, <1>4, <1>5 DEF Placed
<1> QED BY <1>1, <1>2, <1>5, <1>6, <1>7, <1>8, <1>9, TaskStep DEF cache_vars, d

\* Run() begins for one of its files.
LEMMA RunKeeps ==
  ASSUME InputInv, NEW u \in Users, NEW f \in Files, Run(u, f)
  PROVE  InputInv'
<1> DEFINE d == compile[u]
           o == d.of[f]
           t == file_task[o]
           started == [compile EXCEPT ![u].runs = @ \ {f}]
           init == [t EXCEPT !.state = "RUN", !.at = "compute", !.posts = {u}]
           join == [t EXCEPT !.callbacks = @ \cup {u}]
           c == [d EXCEPT !.runs = @ \ {f}]
           e == [d EXCEPT !.runs = @ \ {f}, !.finished = @ \cup {f}]
<1>1. f \in d.runs /\ UNCHANGED <<plan, by_filename, cache_vars, clock>>
  BY DEF Run
<1>2. /\ d \in CompileType /\ TaskLife(d) /\ MissedLife(d) /\ Placed(u, f, d, t)
      /\ \A g \in Files : Placed(u, g, d, file_task[d.of[g]])
      /\ file_cache \in [Files -> [in : BOOLEAN, uploaded : Int]] /\ clock \in Int
  BY TaskFacts
<1>3. /\ d.at = "wait" /\ o \in FileTasks /\ FileOf(o) = f /\ u \in t.tasks
      /\ t \in FileTaskType /\ ObjectLife(t) /\ o # NoTask
  BY <1>1, WaitsForIt, FileTaskFacts
<1>4. f \notin d.finished /\ ~Parked(u, t)
  BY <1>1, <1>2, <1>3 DEF Placed
<1>5. /\ c \in CompileType /\ c.at = d.at /\ c.of = d.of
      /\ c.runs = d.runs \ {f} /\ c.finished = d.finished
      /\ c.todo = d.todo /\ c.num = d.num /\ c.calls = d.calls /\ c.ok = d.ok
      /\ c.missing = d.missing /\ c.content = d.content
      /\ c.shared = d.shared /\ c.dropped = d.dropped
      /\ c.interleaved = d.interleaved /\ c.round = d.round
  BY <1>2 DEF CompileType
<1>6. /\ e \in CompileType /\ e.at = d.at /\ e.of = d.of
      /\ e.runs = d.runs \ {f} /\ e.finished = d.finished \cup {f}
      /\ e.todo = d.todo /\ e.num = d.num /\ e.calls = d.calls /\ e.ok = d.ok
      /\ e.missing = d.missing /\ e.content = d.content
      /\ e.shared = d.shared /\ e.dropped = d.dropped
      /\ e.interleaved = d.interleaved /\ e.round = d.round
  BY <1>2 DEF CompileType
<1>7. /\ init \in FileTaskType /\ init.state = "RUN" /\ init.at = "compute"
      /\ init.posts = {u} /\ init.callbacks = t.callbacks /\ init.tasks = t.tasks
      /\ init.missed = t.missed /\ init.success = t.success /\ init.blob = t.blob
  BY <1>3 DEF FileTaskType
<1>8. /\ join \in FileTaskType /\ join.state = t.state /\ join.at = t.at
      /\ join.posts = t.posts /\ join.callbacks = t.callbacks \cup {u}
      /\ join.tasks = t.tasks
      /\ join.missed = t.missed /\ join.success = t.success /\ join.blob = t.blob
  BY <1>3 DEF FileTaskType
<1>9. started = [compile EXCEPT ![u] = c]
  OBVIOUS
<1>10. \/ /\ t.state = "INIT" /\ file_task' = [file_task EXCEPT ![o] = init]
          /\ compile' = [compile EXCEPT ![u] = c]
       \/ /\ t.state = "RUN" /\ file_task' = [file_task EXCEPT ![o] = join]
          /\ compile' = [compile EXCEPT ![u] = c]
       \/ /\ t.state = "DONE" /\ UNCHANGED file_task
          /\ compile' = [compile EXCEPT ![u] = e]
  <2>1. [started EXCEPT ![u].finished = @ \cup {f}] = [compile EXCEPT ![u] = e]
    BY <1>2 DEF CompileType, InputInv, InputTypes
  <2> QED BY <1>9, <2>1 DEF Run, Set
<1> HIDE DEF c, e, init, join, started
<1>11. TaskLife(c) /\ MissedLife(c) /\ Rest(c) = Rest(d)
  BY <1>2, <1>5 DEF TaskLife, MissedLife, Rest
<1>12. TaskLife(e) /\ MissedLife(e) /\ Rest(e) = Rest(d)
  BY <1>2, <1>6 DEF TaskLife, MissedLife, Rest
<1>13. ASSUME NEW r \in FileTaskType, file_task' = [file_task EXCEPT ![o] = r],
              compile' = [compile EXCEPT ![u] = c], ObjectLife(r),
              r.tasks = t.tasks, Parked(u, r), t.state # "DONE", r.state = "RUN",
              \A v \in Users \ {u} : Parked(v, r) <=> Parked(v, t),
              Findable(t) => Findable(r)
       PROVE  InputInv'
  <2>1. Placed(u, f, c, r)
    BY <1>1, <1>3, <1>4, <1>5, <1>13 DEF Placed
  <2>2. \A g \in Files : Placed(u, g, c, file_task'[c.of[g]])
    <3> TAKE g \in Files
    <3>1. CASE g = f
      BY <1>3, <1>5, <1>13, <2>1, <3>1 DEF InputInv, InputTypes
    <3>2. CASE g # f
      BY <1>3, <1>5, <1>13, <3>2, OtherPlaces
    <3> QED BY <3>1, <3>2
  <2>3. /\ by_filename' \in [Files -> FileTasks \cup {NoTask}]
        /\ \A g \in Files : by_filename'[g] # NoTask =>
             /\ FileOf(by_filename'[g]) = g
             /\ Findable(file_task'[by_filename'[g]])
    BY <1>1, <1>3, <1>13, NotFound
  <2>4. t.state # "none"
    BY <1>3 DEF ObjectLife
  <2> HIDE DEF o
  <2> QED BY <1>1, <1>2, <1>3, <1>5, <1>11, <1>13, <2>2, <2>3, <2>4, Step
          DEF cache_vars, o
<1>14. CASE t.state = "INIT" /\ file_task' = [file_task EXCEPT ![o] = init]
              /\ compile' = [compile EXCEPT ![u] = c]
  <2>1. t.posts = {} /\ t.callbacks = {}
    BY <1>3, <1>14 DEF ObjectLife, FileTaskType
  <2>2. ObjectLife(init) /\ Findable(init)
    BY <1>3, <1>7, <2>1 DEF ObjectLife, Findable
  <2>3. Parked(u, init) /\ \A v \in Users \ {u} : Parked(v, init) <=> Parked(v, t)
    BY <1>7, <2>1 DEF Parked
  <2> QED BY <1>7, <1>13, <1>14, <2>2, <2>3
<1>15. CASE t.state = "RUN" /\ file_task' = [file_task EXCEPT ![o] = join]
              /\ compile' = [compile EXCEPT ![u] = c]
  <2>1. ObjectLife(join)
    BY <1>3, <1>4, <1>8, <1>15 DEF ObjectLife, Parked
  <2>2. Findable(t) => Findable(join)
    BY <1>8 DEF Findable
  <2>3. Parked(u, join) /\ \A v \in Users \ {u} : Parked(v, join) <=> Parked(v, t)
    BY <1>8 DEF Parked
  <2> QED BY <1>8, <1>13, <1>15, <2>1, <2>2, <2>3
<1>16. CASE t.state = "DONE" /\ UNCHANGED file_task
              /\ compile' = [compile EXCEPT ![u] = e]
  <2>1. \A g \in Files : Placed(u, g, e, file_task[e.of[g]])
    <3> TAKE g \in Files
    <3>1. CASE g = f
      BY <1>3, <1>4, <1>6, <1>16, <3>1 DEF Placed
    <3>2. CASE g # f
      BY <1>2, <1>6, <3>2 DEF Placed
    <3> QED BY <3>1, <3>2
  <2> QED BY <1>1, <1>2, <1>6, <1>12, <1>16, <2>1, TaskStep DEF cache_vars
<1> QED BY <1>10, <1>14, <1>15, <1>16

\* InputFileTaskFinished() for one of its files.
LEMMA FinishedKeeps ==
  ASSUME InputInv, NEW u \in Users, NEW f \in Files, InputFileTaskFinished(u, f)
  PROVE  InputInv'
<1> DEFINE d == compile[u]
           o == d.of[f]
           t == file_task[o]
           good == ~d.abort /\ t.success
           left == t.tasks \ {u}
           r == IF left = {} THEN [Unmade EXCEPT !.state = "deleted"]
                ELSE [t EXCEPT !.tasks = left]
           of == [d.of EXCEPT ![f] = NoTask]
           ok == d.ok /\ good
           content == IF good /\ t.blob THEN d.content \cup {f} ELSE d.content
           shared == IF good /\ ~t.missed THEN d.shared \cup {f} ELSE d.shared
           at == IF d.num = 1 THEN "built" ELSE d.at
           calls == IF d.num = 1 THEN d.calls + 1 ELSE d.calls
           c == [d EXCEPT !.finished = @ \ {f}, !.of = of, !.ok = ok, !.num = @ - 1,
                          !.content = content, !.shared = shared, !.at = at,
                          !.calls = calls]
<1>1. f \in d.finished /\ UNCHANGED <<plan, by_filename, cache_vars, clock>>
  BY DEF InputFileTaskFinished
<1>2. /\ d \in CompileType /\ TaskLife(d) /\ MissedLife(d) /\ Placed(u, f, d, t)
      /\ \A g \in Files : Placed(u, g, d, file_task[d.of[g]])
      /\ file_cache \in [Files -> [in : BOOLEAN, uploaded : Int]] /\ clock \in Int
      /\ plan \in InputPlans
  BY TaskFacts
<1>3. /\ d.at = "wait" /\ o \in FileTasks /\ FileOf(o) = f /\ u \in t.tasks
      /\ t \in FileTaskType /\ ObjectLife(t) /\ o # NoTask
  BY <1>1, WaitsForIt, FileTaskFacts
<1>4. f \notin d.runs /\ ~Parked(u, t) /\ t.state = "DONE"
  BY <1>1, <1>2, <1>3 DEF Placed
<1>5. compile' = [compile EXCEPT ![u] = c] /\ file_task' = [file_task EXCEPT ![o] = r]
  <2>1. file_task' = [file_task EXCEPT ![o] = r]
    BY DEF InputFileTaskFinished, Set, LastDone
  <2>2. compile' = [compile EXCEPT ![u] = Take(d, f, t)]
    BY DEF InputFileTaskFinished
  <2>3. Take(d, f, t) = c
    BY DEF Take
  <2> QED BY <2>1, <2>2, <2>3
<1>6. /\ r \in FileTaskType /\ r.tasks = left
      /\ left = {} => r.state = "deleted" /\ r.at = "idle" /\ r.posts = {}
                        /\ r.callbacks = {}
      /\ left # {} => /\ r.state = t.state /\ r.at = t.at /\ r.posts = t.posts
                      /\ r.callbacks = t.callbacks /\ r.missed = t.missed
                      /\ r.success = t.success /\ r.blob = t.blob
  <2>1. CASE left = {}
    BY <2>1 DEF Unmade, FileTaskType
  <2>2. CASE left # {}
    BY <1>3, <2>2 DEF FileTaskType
  <2> QED BY <2>1, <2>2
<1>7. /\ of \in [Files -> FileTasks \cup {NoTask}] /\ of[f] = NoTask
      /\ \A g \in Files : g # f => of[g] = d.of[g]
  BY <1>2 DEF CompileType
<1>8. /\ ok \in BOOLEAN /\ content \in SUBSET Files /\ shared \in SUBSET Files
      /\ d.content \subseteq content /\ d.shared \subseteq shared
      /\ ok => d.ok /\ f \in content \cup shared
      /\ d.calls = 0 /\ calls \in Int /\ d.num \in Int
  <2>1. t.missed /\ t.success => t.blob
    BY <1>3, <1>4 DEF ObjectLife
  <2>2. d.calls = 0 /\ calls \in Int /\ d.num \in Int
    BY <1>2, <1>3 DEF TaskLife, CompileType
  <2>3. content \in SUBSET Files /\ shared \in SUBSET Files
    BY <1>2 DEF CompileType
  <2>4. ok \in BOOLEAN
    OBVIOUS
  <2> QED BY <2>1, <2>2, <2>3, <2>4
<1>9. /\ at = IF d.num = 1 THEN "built" ELSE "wait"
      /\ calls = IF d.num = 1 THEN 1 ELSE 0
  BY <1>3, <1>8
<1>10. d.num - 1 = Cardinality({g \in Files : of[g] # NoTask})
  <2> DEFINE S == {g \in Files : d.of[g] # NoTask}
  <2>1. IsFiniteSet(S) /\ f \in S
    BY <1>2, <1>3, FilesType, FS_Subset
  <2>2. {g \in Files : of[g] # NoTask} = S \ {f}
    BY <1>7
  <2>3. Cardinality(S \ {f}) = Cardinality(S) - 1
    BY <2>1, FS_RemoveElement
  <2>4. d.num = Cardinality(S)
    BY <1>2 DEF TaskLife
  <2> QED BY <2>2, <2>3, <2>4
<1>11. at = "built" => \A g \in Files : of[g] = NoTask
  <2> HIDE DEF of
  <2>1. CASE d.num = 1
    BY <1>2, <1>10, <2>1, NoneLeft
  <2> QED BY <1>9, <2>1
<1> HIDE DEF r, left, of, ok, content, shared, at, calls
<1>12. at \in {"wait", "built"} /\ calls \in Int
  BY <1>8, <1>9
<1>13. /\ c \in CompileType /\ c.at = at /\ c.of = of
       /\ c.runs = d.runs /\ c.finished = d.finished \ {f}
       /\ c.todo = d.todo /\ c.num = d.num - 1 /\ c.calls = calls /\ c.ok = ok
       /\ c.missing = d.missing /\ c.content = content
       /\ c.shared = shared /\ c.dropped = d.dropped
       /\ c.interleaved = d.interleaved /\ c.round = d.round
  <2> HIDE DEF d, o, t, good
  <2>1. d.finished \ {f} \in SUBSET Files /\ d.num - 1 \in Int
    BY <1>2, <1>8 DEF CompileType
  <2>2. c \in CompileType
    BY <1>2, <1>7, <1>8, <1>12, <2>1 DEF CompileType
  <2>3. c.ok = ok /\ c.num = d.num - 1
    BY <1>2, <1>8 DEF CompileType
  <2> QED BY <1>2, <2>2, <2>3 DEF CompileType
<1> HIDE DEF c
<1>14. Rest(c) = Rest(d)
  BY <1>13 DEF Rest
<1>15. TaskLife(c)
  <2>1. \A g \in Rest(c) : c.of[g] = NoTask
    BY <1>2, <1>7, <1>13, <1>14 DEF TaskLife, Rest
  <2> QED BY <1>2, <1>3, <1>9, <1>10, <1>11, <1>12, <1>13, <2>1 DEF TaskLife
<1>16. MissedLife(c)
  <2>1. \A g \in Files : g # f /\ d.of[g] # NoTask => c.of[g] # NoTask
    BY <1>7, <1>13
  <2>2. c.missing \subseteq Files
    BY <1>13 DEF CompileType
  <2> QED BY <1>2, <1>3, <1>8, <1>12, <1>13, <1>14, <2>1, <2>2 DEF MissedLife
<1>17. ObjectLife(r) /\ \A v \in Users \ {u} : Parked(v, r) <=> Parked(v, t)
  <2>1. CASE left = {}
    <3>1. t.posts = {} /\ t.callbacks = {}
      BY <1>3, <1>4, <2>1 DEF ObjectLife, Parked, left
    <3> QED BY <1>6, <2>1, <3>1 DEF ObjectLife, Parked
  <2>2. CASE left # {}
    BY <1>3, <1>4, <1>6, <2>2 DEF ObjectLife, Parked, left
  <2> QED BY <2>1, <2>2
<1>18. ~Findable(t)
  BY <1>3, <1>4 DEF Findable, ObjectLife
<1>19. /\ by_filename' \in [Files -> FileTasks \cup {NoTask}]
       /\ \A g \in Files : by_filename'[g] # NoTask =>
            /\ FileOf(by_filename'[g]) = g
            /\ Findable(file_task'[by_filename'[g]])
  BY <1>1, <1>3, <1>5, <1>18, NotFound
<1>20. \A g \in Files : Placed(u, g, c, file_task'[c.of[g]])
  <2> TAKE g \in Files
  <2>1. CASE g = f
    BY <1>4, <1>7, <1>13, <2>1 DEF Placed
  <2>2. CASE g # f
    <3>1. c.of[g] = d.of[g] /\ g # FileOf(o)
      BY <1>3, <1>7, <1>13, <2>2
    <3>2. c.at = d.at \/ c.of[g] = NoTask
      BY <1>3, <1>9, <1>11, <1>13
    <3>3. (g \in c.runs <=> g \in d.runs) /\ (g \in c.finished <=> g \in d.finished)
      BY <1>13, <2>2
    <3> QED BY <1>3, <1>5, <3>1, <3>2, <3>3, OtherPlaces
  <2> QED BY <2>1, <2>2
<1>21. /\ \A v \in Users \ {u} : v \in r.tasks <=> v \in t.tasks
       /\ u \notin r.tasks /\ c.of[FileOf(o)] # o
       /\ r.state = "DONE" \/ r.tasks = {}
       /\ t.state # "none"
  BY <1>3, <1>4, <1>6, <1>7, <1>13 DEF left
<1>22. \A g \in Files : c.of[g] # d.of[g] => g = FileOf(o) /\ c.of[g] = NoTask /\ d.of[g] = o
  BY <1>3, <1>7, <1>13
<1> HIDE DEF o
<1> QED BY <1>1, <1>2, <1>3, <1>4, <1>5, <1>6, <1>13, <1>14, <1>15, <1>16, <1>17, <1>19,
           <1>20, <1>21, <1>22, Step DEF cache_vars, o

\* The loop of ProcessFileRequest() takes the files in their order.
LEMMA Countdown ==
  ASSUME NEW N \in Nat, NEW s \in Seq(1..N), s # <<>>, Len(s) <= N,
         \A i \in 1..Len(s) : s[i] = N - Len(s) + i
  PROVE  /\ Tail(s) \in Seq(1..N) /\ Len(Tail(s)) <= N
         /\ \A i \in 1..Len(Tail(s)) : Tail(s)[i] = N - Len(Tail(s)) + i
         /\ Head(s) = N - Len(s) + 1 /\ Len(Tail(s)) = Len(s) - 1
         /\ Len(s) \in Nat \ {0} /\ Head(s) \in 1..N
<1>1. /\ Tail(s) \in Seq(1..N) /\ Len(Tail(s)) = Len(s) - 1
      /\ \A i \in 1..Len(Tail(s)) : Tail(s)[i] = s[i + 1]
  BY HeadTailProperties
<1>2. Len(s) \in Nat \ {0}
  BY EmptySeq, LenProperties
<1>3. Head(s) = s[1] /\ s[1] = N - Len(s) + 1
  BY <1>2
<1>4. \A i \in 1..Len(Tail(s)) : Tail(s)[i] = N - Len(Tail(s)) + i
  BY <1>1, <1>2
<1> QED BY <1>1, <1>2, <1>3, <1>4

\* The loop over the input files: what is left of it.
LEMMA LoopFacts ==
  ASSUME InputInv, NEW u \in Users, compile[u].todo # <<>>
  PROVE  /\ Tail(compile[u].todo) \in Seq(Files)
         /\ Len(Tail(compile[u].todo)) <= Len(plan.size)
         /\ \A i \in 1..Len(Tail(compile[u].todo)) :
              Tail(compile[u].todo)[i] =
                Len(plan.size) - Len(Tail(compile[u].todo)) + i
         /\ Head(compile[u].todo) \in Rest(compile[u])
         /\ compile[u].of[Head(compile[u].todo)] = NoTask
         /\ \A g \in Files : g > Len(plan.size) - Len(Tail(compile[u].todo)) <=>
              g \in Rest(compile[u]) /\ g # Head(compile[u].todo)
<1> DEFINE d == compile[u]
           N == Len(plan.size)
           rest == Tail(d.todo)
           h == Head(d.todo)
           n == Len(d.todo)
           m == Len(rest)
<1>1. d \in CompileType /\ TaskLife(d) /\ N \in Nat /\ Files = 1..N
  BY TaskFacts, FilesType
<1>2. /\ d.todo \in Seq(1..N) /\ Len(d.todo) <= N
      /\ \A i \in 1..Len(d.todo) : d.todo[i] = N - Len(d.todo) + i
  BY <1>1 DEF CompileType, TaskLife
<1>3. \A g \in Rest(d) : d.of[g] = NoTask
  BY <1>1 DEF TaskLife
<1> HIDE DEF d, N
<1>4. /\ rest \in Seq(1..N) /\ m <= N
      /\ \A i \in 1..m : rest[i] = N - m + i
      /\ h = N - n + 1 /\ m = n - 1
      /\ n \in Nat \ {0} /\ h \in 1..N
  BY <1>1, <1>2, Countdown DEF d
<1>5. /\ h \in Rest(d)
      /\ \A g \in Files : g > N - m <=> g \in Rest(d) /\ g # h
  <2>1. Rest(d) = {g \in 1..N : g > N - n}
    BY <1>1 DEF Rest, N
  <2> HIDE DEF h, n, m
  <2> QED BY <1>1, <1>4, <2>1
<1> HIDE DEF h, m, rest
<1>6. rest \in Seq(Files) /\ d.of[h] = NoTask
  BY <1>1, <1>3, <1>4, <1>5
<1> QED BY <1>4, <1>5, <1>6 DEF h, m, rest, d, N

\* One pass of that loop.
LEMMA AddInputKeeps ==
  ASSUME InputInv, NEW u \in Users, NEW f \in Files, AddInput(u, f)
  PROVE  InputInv'
<1> DEFINE d == compile[u]
           rest == Tail(d.todo)
           N == Len(plan.size)
<1>1. /\ d.at = "build" /\ d.todo # <<>> /\ f = Head(d.todo)
      /\ UNCHANGED <<plan, known_keys, clock>>
  BY DEF AddInput
<1>2. /\ d \in CompileType /\ TaskLife(d) /\ MissedLife(d)
      /\ \A g \in Files : Placed(u, g, d, file_task[d.of[g]])
      /\ file_cache \in [Files -> [in : BOOLEAN, uploaded : Int]] /\ clock \in Int
      /\ plan \in InputPlans
  BY TaskFacts
<1>3. /\ rest \in Seq(Files) /\ Len(rest) <= N
      /\ \A i \in 1..Len(rest) : rest[i] = N - Len(rest) + i
      /\ f \in Rest(d) /\ d.of[f] = NoTask
      /\ \A g \in Files : g > N - Len(rest) <=> g \in Rest(d) /\ g # f
  BY <1>1, LoopFacts
<1>4. f \notin d.runs /\ f \notin d.finished
  BY <1>2, <1>3 DEF Placed
<1> HIDE DEF rest
<1>5. CASE /\ compile' = [compile EXCEPT ![u].todo = Tail(@),
                ![u].interleaved = IF f \in d.missing THEN @ \cup {f} ELSE @]
           /\ UNCHANGED <<by_filename, file_task, file_cache>>
  <2> DEFINE interleaved == IF f \in d.missing THEN d.interleaved \cup {f}
                            ELSE d.interleaved
             c == [d EXCEPT !.todo = rest, !.interleaved = interleaved]
  <2>1. compile' = [compile EXCEPT ![u] = c]
    BY <1>5 DEF rest
  <2>2. /\ interleaved \in SUBSET Files /\ d.interleaved \subseteq interleaved
        /\ f \in d.missing => f \in interleaved
    BY <1>2 DEF CompileType
  <2> HIDE DEF interleaved
  <2>3. /\ c \in CompileType /\ c.at = d.at /\ c.of = d.of
        /\ c.runs = d.runs /\ c.finished = d.finished
        /\ c.todo = rest /\ c.num = d.num /\ c.calls = d.calls /\ c.ok = d.ok
        /\ c.missing = d.missing /\ c.content = d.content
        /\ c.shared = d.shared /\ c.dropped = d.dropped
        /\ c.interleaved = interleaved /\ c.round = d.round
    BY <1>2, <1>3, <2>2 DEF CompileType
  <2> HIDE DEF c
  <2>4. Rest(c) = Rest(d) \ {f}
    BY <1>3, <2>3 DEF Rest
  <2>5. TaskLife(c)
    BY <1>1, <1>2, <1>3, <2>3, <2>4 DEF TaskLife
  <2>6. MissedLife(c)
    BY <1>1, <1>2, <2>2, <2>3, <2>4 DEF MissedLife
  <2>7. \A g \in Files : Placed(u, g, c, file_task[c.of[g]])
    BY <1>2, <2>3 DEF Placed
  <2> QED BY <1>1, <1>2, <1>5, <2>1, <2>3, <2>4, <2>5, <2>6, <2>7, TaskStep
<1>6. ASSUME NEW o \in FileTasks, FileOf(o) = f, NEW r \in FileTaskType,
             compile' = [compile EXCEPT ![u].todo = Tail(@), ![u].of[f] = o,
                                        ![u].num = @ + 1],
             by_filename' = [by_filename EXCEPT ![f] = o],
             file_task' = [file_task EXCEPT ![o] = r],
             file_cache' \in [Files -> [in : BOOLEAN, uploaded : Int]],
             ObjectLife(r), Findable(r), r.tasks = file_task[o].tasks \cup {u},
             \A v \in Users : Parked(v, r) <=> Parked(v, file_task[o]),
             ~Parked(u, file_task[o]), file_task[o].state # "DONE",
             file_task[o].state # "none" \/ o = <<u, d.round, f>>
      PROVE  InputInv'
  <2> DEFINE of == [d.of EXCEPT ![f] = o]
             c == [d EXCEPT !.todo = rest, !.of = of, !.num = @ + 1]
  <2>1. compile' = [compile EXCEPT ![u] = c]
    BY <1>6 DEF rest
  <2>2. /\ of \in [Files -> FileTasks \cup {NoTask}] /\ of[f] = o
        /\ \A g \in Files : g # f => of[g] = d.of[g]
    BY <1>2 DEF CompileType
  <2>3. o # NoTask
    BY FileTaskFacts
  <2>4. d.num + 1 = Cardinality({g \in Files : of[g] # NoTask}) /\ d.num + 1 \in Int
    <3> DEFINE S == {g \in Files : d.of[g] # NoTask}
    <3>1. IsFiniteSet(S) /\ f \notin S
      BY <1>2, <1>3, FilesType, FS_Subset
    <3>2. {g \in Files : of[g] # NoTask} = S \cup {f}
      BY <2>2, <2>3
    <3>3. Cardinality(S \cup {f}) = Cardinality(S) + 1
      BY <3>1, FS_AddElement
    <3>4. d.num = Cardinality(S)
      BY <1>2 DEF TaskLife
    <3>5. d.num \in Int
      BY <1>2 DEF CompileType
    <3> HIDE DEF S, of, d
    <3> QED BY <3>2, <3>3, <3>4, <3>5
  <2> HIDE DEF of
  <2>5. /\ c \in CompileType /\ c.at = d.at /\ c.of = of
        /\ c.runs = d.runs /\ c.finished = d.finished
        /\ c.todo = rest /\ c.num = d.num + 1 /\ c.calls = d.calls /\ c.ok = d.ok
        /\ c.missing = d.missing /\ c.content = d.content
        /\ c.shared = d.shared /\ c.dropped = d.dropped
        /\ c.interleaved = d.interleaved /\ c.round = d.round
    BY <1>2, <1>3, <2>2, <2>4 DEF CompileType
  <2> HIDE DEF c
  <2>6. Rest(c) = Rest(d) \ {f}
    BY <1>3, <2>5 DEF Rest
  <2>7. TaskLife(c)
    <3>1. \A g \in Rest(c) : c.of[g] = NoTask
      BY <1>2, <2>2, <2>5, <2>6 DEF TaskLife, Rest
    <3> QED BY <1>1, <1>2, <1>3, <2>4, <2>5, <3>1 DEF TaskLife
  <2>8. MissedLife(c)
    <3>1. \A g \in Files : d.of[g] # NoTask \/ g = f => c.of[g] # NoTask
      BY <2>2, <2>3, <2>5
    <3>2. c.missing \subseteq Files
      BY <2>5 DEF CompileType
    <3> QED BY <1>1, <1>2, <2>5, <2>6, <3>1, <3>2 DEF MissedLife
  <2>9. \A g \in Files : Placed(u, g, c, file_task'[c.of[g]])
    <3> TAKE g \in Files
    <3>1. CASE g = f
      <4>1. c.of[g] = o /\ file_task'[o] = r /\ ~Parked(u, r)
        BY <1>6, <2>2, <2>5, <3>1 DEF InputInv, InputTypes
      <4> QED BY <1>1, <1>4, <2>3, <2>5, <3>1, <4>1 DEF Placed
    <3>2. CASE g # f
      <4>1. c.of[g] = d.of[g]
        BY <2>2, <2>5, <3>2
      <4> QED BY <1>6, <2>5, <3>2, <4>1, OtherPlaces
    <3> QED BY <3>1, <3>2
  <2>10. /\ by_filename' \in [Files -> FileTasks \cup {NoTask}]
         /\ \A g \in Files : by_filename'[g] # NoTask =>
              /\ FileOf(by_filename'[g]) = g
              /\ Findable(file_task'[by_filename'[g]])
    <3>1. /\ by_filename \in [Files -> FileTasks \cup {NoTask}]
          /\ file_task'[o] = r
          /\ \A p \in FileTasks \ {o} : file_task'[p] = file_task[p]
      BY <1>6 DEF InputInv, InputTypes
    <3>2. by_filename' \in [Files -> FileTasks \cup {NoTask}]
      BY <1>6, <3>1
    <3>3. ASSUME NEW g \in Files, by_filename'[g] # NoTask
          PROVE  FileOf(by_filename'[g]) = g /\ Findable(file_task'[by_filename'[g]])
      <4>1. CASE g = f
        BY <1>6, <3>1, <4>1
      <4>2. CASE g # f
        <5>1. by_filename'[g] = by_filename[g]
          BY <1>6, <3>1, <4>2
        <5>2. by_filename[g] \in FileTasks /\ by_filename[g] # NoTask
          BY <3>1, <3>3, <5>1
        <5>3. FileOf(by_filename[g]) = g /\ Findable(file_task[by_filename[g]])
          BY <5>2 DEF InputInv, Objects
        <5>4. by_filename[g] # o
          BY <1>6, <4>2, <5>3
        <5> QED BY <3>1, <5>1, <5>2, <5>3, <5>4
      <4> QED BY <4>1, <4>2
    <3> QED BY <3>2, <3>3
  <2>11. \A g \in Files : c.of[g] # d.of[g] =>
           g = FileOf(o) /\ c.of[g] = o /\ d.of[g] = NoTask
    BY <1>3, <1>6, <2>2, <2>5
  <2>12. /\ \A v \in Users \ {u} : v \in r.tasks <=> v \in file_task[o].tasks
         /\ u \in r.tasks /\ c.of[FileOf(o)] = o
    BY <1>6, <2>2, <2>5
  <2>13. \/ file_task[o].state # "none"
         \/ \E g \in Files : o = <<u, c.round, g>> /\ g \notin Rest(c)
    BY <1>6, <2>5, <2>6
  <2> QED BY <1>1, <1>2, <1>6, <2>1, <2>5, <2>6, <2>7, <2>8, <2>9, <2>10, <2>11, <2>12,
             <2>13, Step
<1>7. CASE \E is_new \in BOOLEAN :
             /\ NewInputFileTask(u, f, is_new, file_cache[f].in)
             /\ file_cache' = IF Size(f) = "absent"
                              THEN [file_cache EXCEPT ![f] = NoEntry]
                              ELSE file_cache
  <2>1. PICK is_new \in BOOLEAN :
             /\ NewInputFileTask(u, f, is_new, file_cache[f].in)
             /\ file_cache' = IF Size(f) = "absent"
                              THEN [file_cache EXCEPT ![f] = NoEntry]
                              ELSE file_cache
    BY <1>7
  <2>2. file_cache' \in [Files -> [in : BOOLEAN, uploaded : Int]]
    BY <1>2, <2>1 DEF NoEntry
  <2>3. CASE by_filename[f] = NoTask
    <3> DEFINE o == <<u, d.round, f>>
               missed == f \in d.missing
               hash_only == u \in Links
               old_key == file_cache[f].in
               r == [Unmade EXCEPT !.state = "INIT", !.tasks = {u},
                       !.missed = missed, !.hash_only = hash_only,
                       !.is_new = is_new, !.old_key = old_key]
    <3>1. /\ by_filename' = [by_filename EXCEPT ![f] = o]
          /\ file_task' = [file_task EXCEPT ![o] = r]
          /\ compile' = [compile EXCEPT ![u].todo = Tail(@), ![u].of[f] = o,
                                        ![u].num = @ + 1]
      BY <2>1, <2>3 DEF NewInputFileTask, Named
    <3>2. missed \in BOOLEAN /\ hash_only \in BOOLEAN /\ old_key \in BOOLEAN
      BY <1>2
    <3>3. d.round \in 1..plan.rounds /\ o \in FileTasks /\ FileOf(o) = f
      BY <1>2, FileTaskFacts DEF CompileType
    <3>4. file_task[o].state = "none"
      BY <1>3, <3>3 DEF InputInv, Fresh
    <3> HIDE DEF missed, hash_only, old_key
    <3>5. /\ r \in FileTaskType /\ r.state = "INIT" /\ r.at = "idle" /\ r.tasks = {u}
          /\ r.posts = {} /\ r.callbacks = {}
      BY <3>2 DEF FileTaskType, Unmade
    <3> HIDE DEF r, o
    <3>6. ObjectLife(r) /\ Findable(r)
      BY <3>5 DEF ObjectLife, Findable
    <3>7. /\ file_task[o].tasks = {} /\ file_task[o].posts = {}
          /\ file_task[o].callbacks = {}
      BY <3>3, <3>4 DEF InputInv, Objects, ObjectLife
    <3>8. /\ \A v \in Users : Parked(v, r) <=> Parked(v, file_task[o])
          /\ ~Parked(u, file_task[o])
      BY <3>5, <3>7 DEF Parked
    <3>9. r.tasks = file_task[o].tasks \cup {u}
      BY <3>5, <3>7
    <3>10. o = <<u, d.round, f>>
      BY DEF o
    <3> QED BY <1>6, <2>2, <3>1, <3>3, <3>4, <3>5, <3>6, <3>8, <3>9, <3>10
  <2>4. CASE by_filename[f] # NoTask
    <3> DEFINE o == by_filename[f]
               t == file_task[o]
               r == [t EXCEPT !.tasks = @ \cup {u}]
    <3>1. /\ by_filename' = [by_filename EXCEPT ![f] = o]
          /\ file_task' = [file_task EXCEPT ![o] = r]
          /\ compile' = [compile EXCEPT ![u].todo = Tail(@), ![u].of[f] = o,
                                        ![u].num = @ + 1]
      <4>1. NewInputFileTask(u, f, is_new, file_cache[f].in)
        BY <2>1
      <4>2. file_task' = [file_task EXCEPT ![o] = r]
        BY <2>4, <4>1 DEF NewInputFileTask
      <4>3. /\ by_filename' = [by_filename EXCEPT ![f] = o]
            /\ compile' = [compile EXCEPT ![u].todo = Tail(@), ![u].of[f] = o,
                                          ![u].num = @ + 1]
        BY <2>4, <4>1 DEF NewInputFileTask
      <4> QED BY <4>2, <4>3
    <3>2. /\ o \in FileTasks /\ FileOf(o) = f /\ Findable(t) /\ t \in FileTaskType
          /\ ObjectLife(t)
      BY <2>4 DEF InputInv, InputTypes, Objects
    <3> HIDE DEF o
    <3>3. /\ r \in FileTaskType /\ r.state = t.state /\ r.at = t.at
          /\ r.tasks = t.tasks \cup {u} /\ r.posts = t.posts
          /\ r.callbacks = t.callbacks /\ r.missed = t.missed
          /\ r.success = t.success /\ r.blob = t.blob
      BY <3>2 DEF FileTaskType
    <3> HIDE DEF r
    <3>4. t.state \in {"INIT", "RUN"}
      BY <3>2 DEF Findable, ObjectLife
    <3>5. ObjectLife(r) /\ Findable(r)
      BY <3>2, <3>3, <3>4 DEF ObjectLife, Findable
    <3>6. u \notin t.tasks
      BY <1>3, <3>2, FileTaskFacts DEF InputInv, Owners
    <3>7. /\ \A v \in Users : Parked(v, r) <=> Parked(v, t)
          /\ ~Parked(u, t)
      BY <3>2, <3>3, <3>6 DEF Parked, ObjectLife
    <3> QED BY <1>6, <2>2, <3>1, <3>2, <3>3, <3>4, <3>5, <3>7
  <2> QED BY <2>3, <2>4
<1> QED BY <1>5, <1>7 DEF AddInput

\* The list of the files in order.
LEMMA InOrderFacts ==
  ASSUME plan \in InputPlans
  PROVE  /\ InOrder \in Seq(Files) /\ Len(InOrder) = Len(plan.size)
         /\ \A i \in 1..Len(plan.size) : InOrder[i] = i
<1>1. Len(plan.size) \in Nat /\ Files = 1..Len(plan.size)
  BY FilesType
<1>2. InOrder = [i \in 1..Len(plan.size) |-> i]
  BY <1>1 DEF InOrder
<1> HIDE DEF InOrder
<1> QED BY <1>1, <1>2

\* What is left at the end and at the beginning.
LEMMA RestFacts ==
  ASSUME plan \in InputPlans, NEW c
  PROVE  /\ c.todo = <<>> => Rest(c) = {}
         /\ c.todo = InOrder => Rest(c) = Files
<1>1. Len(plan.size) \in Nat /\ Files = 1..Len(plan.size)
  BY FilesType
<1>2. c.todo = <<>> => Rest(c) = {}
  BY <1>1 DEF Rest
<1>3. c.todo = InOrder => Rest(c) = Files
  BY <1>1, InOrderFacts DEF Rest
<1> QED BY <1>2, <1>3

\* Nothing is counted where there is no object.
LEMMA NoneCounted ==
  ASSUME NEW of, \A f \in Files : of[f] = NoTask
  PROVE  Cardinality({f \in Files : of[f] # NoTask}) = 0
<1>1. {f \in Files : of[f] # NoTask} = {}
  OBVIOUS
<1> QED BY <1>1, FS_EmptySet

\* A task that has no object left ends, or begins its next round.
LEMMA NextRound ==
  ASSUME plan \in InputPlans, NEW d \in CompileType, NEW round \in 1..plan.rounds,
         \A f \in Files : d.of[f] = NoTask
  PROVE  /\ Begin(d, round) \in CompileType /\ Begin(d, round).of = d.of
         /\ Begin(d, round).runs = d.runs /\ Begin(d, round).finished = d.finished
         /\ Begin(d, round).round = round
         /\ TaskLife(Begin(d, round)) /\ MissedLife(Begin(d, round))
         /\ Ended(d) \in CompileType /\ Ended(d).of = d.of
         /\ Ended(d).runs = d.runs /\ Ended(d).finished = d.finished
         /\ Ended(d).round = d.round /\ Ended(d).todo = <<>>
         /\ TaskLife(Ended(d)) /\ MissedLife(Ended(d))
<1> DEFINE b(r) == Begin(d, r)
           e == Ended(d)
<1>1. InOrder \in Seq(Files) /\ Len(InOrder) = Len(plan.size)
      /\ \A i \in 1..Len(plan.size) : InOrder[i] = i
  BY InOrderFacts
<1> HIDE DEF InOrder
<1>2. ASSUME NEW r \in 1..plan.rounds
      PROVE  /\ b(r) \in CompileType /\ b(r).of = d.of /\ b(r).runs = d.runs
             /\ b(r).finished = d.finished /\ b(r).at = "build" /\ b(r).round = r
             /\ b(r).todo = InOrder /\ b(r).num = 0 /\ b(r).calls = 0
             /\ b(r).missing = d.missing
  <2> DEFINE x == b(r)
  <2>1. x = [d EXCEPT !.at = "build", !.round = r, !.todo = InOrder, !.ok = TRUE,
               !.content = {}, !.shared = {}, !.dropped = {}, !.interleaved = {},
               !.calls = 0, !.num = 0]
    BY DEF Begin
  <2> HIDE DEF x
  <2>2. x \in CompileType
    <3> DEFINE zero == 0
               y == [d EXCEPT !.at = "build", !.round = r, !.todo = InOrder, !.ok = TRUE,
                              !.content = {}, !.shared = {}, !.dropped = {},
                              !.interleaved = {}, !.calls = zero, !.num = zero]
    <3>1. zero \in Int /\ x = y
      BY <2>1
    <3> HIDE DEF zero
    <3>2. y \in CompileType
      BY <1>1, <3>1 DEF CompileType
    <3> QED BY <3>1, <3>2
  <2>3. /\ x.of = d.of /\ x.runs = d.runs /\ x.finished = d.finished
        /\ x.at = "build" /\ x.round = r /\ x.todo = InOrder /\ x.num = 0
        /\ x.calls = 0 /\ x.missing = d.missing
    BY <2>1 DEF CompileType
  <2> QED BY <2>2, <2>3 DEF x
<1>3. d.round \in 1..plan.rounds
  BY DEF CompileType
<1>4. /\ e \in CompileType /\ e.of = d.of /\ e.runs = d.runs
      /\ e.finished = d.finished /\ e.at = "end" /\ e.round = d.round
      /\ e.todo = <<>> /\ e.num = 0 /\ e.calls = 1
  <2> DEFINE x == b(d.round)
  <2>1. /\ x \in CompileType /\ x.of = d.of /\ x.runs = d.runs
        /\ x.finished = d.finished /\ x.round = d.round /\ x.num = 0
    BY <1>2, <1>3
  <2>2. e = [x EXCEPT !.at = "end", !.todo = <<>>, !.calls = 1,
               !.missing = {}, !.last_req = 0, !.abort = FALSE]
    BY DEF Ended
  <2> HIDE DEF x, e
  <2>3. <<>> \in Seq(Files)
    OBVIOUS
  <2>4. e \in CompileType
    <3> DEFINE zero == 0
               one == 1
               y == [x EXCEPT !.at = "end", !.todo = <<>>, !.calls = one,
                              !.missing = {}, !.last_req = zero, !.abort = FALSE]
    <3>1. zero \in Int /\ one \in Int /\ e = y
      BY <2>2
    <3> HIDE DEF zero, one
    <3>2. y \in CompileType
      BY <2>1, <2>3, <3>1 DEF CompileType
    <3> QED BY <3>1, <3>2
  <2>5. /\ e.of = x.of /\ e.runs = x.runs /\ e.finished = x.finished /\ e.at = "end"
        /\ e.round = x.round /\ e.todo = <<>> /\ e.num = x.num /\ e.calls = 1
    BY <2>1, <2>2 DEF CompileType
  <2> QED BY <2>1, <2>4, <2>5
<1>5. Len(plan.size) \in Nat /\ Files = 1..Len(plan.size)
  BY FilesType
<1> HIDE DEF b, e
<1>6. TaskLife(b(round)) /\ MissedLife(b(round))
  <2> DEFINE y == b(round)
  <2>1. /\ y \in CompileType /\ y.of = d.of /\ y.at = "build"
        /\ y.todo = InOrder /\ y.num = 0 /\ y.calls = 0
    BY <1>2
  <2> HIDE DEF y
  <2>2. Rest(y) = Files
    BY <2>1, RestFacts
  <2>3. TaskLife(y)
    BY <1>1, <1>5, <2>1, NoneCounted DEF TaskLife, Rest
  <2>4. MissedLife(y)
    BY <2>1, <2>2 DEF MissedLife, CompileType
  <2> QED BY <2>3, <2>4 DEF y
<1>7. TaskLife(e) /\ MissedLife(e)
  <2>1. Rest(e) = {}
    BY <1>4, RestFacts
  <2>2. TaskLife(e)
    BY <1>4, <1>5, <2>1, NoneCounted DEF TaskLife
  <2> QED BY <1>4, <2>2 DEF MissedLife
<1> QED BY <1>2, <1>4, <1>6, <1>7 DEF b, e

\* Such a step of a task, with whatever it stores in the cache.
LEMMA RoundStep ==
  ASSUME InputInv, plan' = plan, NEW u \in Users, NEW d \in CompileType,
         compile[u].at \in {"built", "exec"},
         d.of = compile[u].of, d.runs = compile[u].runs,
         d.finished = compile[u].finished, d.round = compile[u].round,
         compile' = [compile EXCEPT ![u] = Ended(d)] \/
           compile' = [compile EXCEPT ![u] = Retry(d)],
         UNCHANGED <<file_task, by_filename, clock>>,
         file_cache' \in [Files -> [in : BOOLEAN, uploaded : Int]]
  PROVE  InputInv'
<1>1. /\ compile[u] \in CompileType /\ TaskLife(compile[u])
      /\ \A f \in Files : Placed(u, f, compile[u], file_task[compile[u].of[f]])
      /\ clock \in Int /\ plan \in InputPlans
  BY TaskFacts
<1>2. \A f \in Files : d.of[f] = NoTask
  BY <1>1 DEF TaskLife
<1>3. \A f \in Files : f \notin d.runs /\ f \notin d.finished
  BY <1>1, <1>2 DEF Placed
<1>4. d.round \in 1..plan.rounds /\ plan.rounds \in Nat
  BY <1>1, FilesType DEF CompileType
<1>5. ASSUME compile' = [compile EXCEPT ![u] = Ended(d)]
      PROVE  InputInv'
  <2> DEFINE c == Ended(d)
  <2>1. /\ c \in CompileType /\ c.of = d.of /\ c.runs = d.runs /\ c.finished = d.finished
        /\ c.round = d.round /\ c.todo = <<>> /\ TaskLife(c) /\ MissedLife(c)
    BY <1>1, <1>2, <1>4, NextRound
  <2> HIDE DEF c
  <2>2. Rest(c) = {}
    BY <1>1, <2>1, RestFacts
  <2>3. \A f \in Files : Placed(u, f, c, file_task[c.of[f]])
    BY <1>2, <1>3, <2>1 DEF Placed
  <2> QED BY <1>1, <1>5, <2>1, <2>2, <2>3, TaskStep DEF c
<1>6. ASSUME compile' = [compile EXCEPT ![u] = Begin(d, d.round + 1)],
             d.round < plan.rounds
      PROVE  InputInv'
  <2> DEFINE c == Begin(d, d.round + 1)
  <2>1. d.round + 1 \in 1..plan.rounds /\ d.round + 1 > d.round
    BY <1>4, <1>6
  <2>2. /\ c \in CompileType /\ c.of = d.of /\ c.runs = d.runs /\ c.finished = d.finished
        /\ c.round > d.round /\ TaskLife(c) /\ MissedLife(c)
    BY <1>1, <1>2, <2>1, NextRound
  <2> HIDE DEF c
  <2>3. \A f \in Files : Placed(u, f, c, file_task[c.of[f]])
    BY <1>2, <1>3, <2>2 DEF Placed
  <2> QED BY <1>1, <1>6, <2>2, <2>3, TaskStep DEF c
<1> QED BY <1>5, <1>6 DEF Retry

\* The request is sent.
LEMMA CallExecKeeps ==
  ASSUME InputInv, NEW u \in Users, CallExec(u)
  PROVE  InputInv'
<1> DEFINE d == compile[u]
<1>1. d.at = "built" /\ UNCHANGED <<plan, by_filename, file_task, cache_vars>>
  BY DEF CallExec
<1>2. /\ d \in CompileType /\ TaskLife(d) /\ MissedLife(d)
      /\ \A f \in Files : Placed(u, f, d, file_task[d.of[f]])
      /\ file_cache \in [Files -> [in : BOOLEAN, uploaded : Int]] /\ clock \in Int
      /\ plan \in InputPlans
  BY TaskFacts
<1>3. CASE d.ok /\ clock' = clock + 1 /\
             \E dropped \in SUBSET {f \in d.content : Size(f) # "large"} :
               compile' = [compile EXCEPT ![u].at = "exec",
                             ![u].content = @ \ dropped, ![u].dropped = dropped,
                             ![u].last_req = clock + 1]
  <2>1. PICK dropped \in SUBSET {f \in d.content : Size(f) # "large"} :
               compile' = [compile EXCEPT ![u].at = "exec",
                             ![u].content = @ \ dropped, ![u].dropped = dropped,
                             ![u].last_req = clock + 1]
    BY <1>3
  <2> DEFINE now == clock + 1
             c == [d EXCEPT !.at = "exec", !.content = @ \ dropped,
                            !.dropped = dropped, !.last_req = now]
  <2>2. compile' = [compile EXCEPT ![u] = c]
    BY <2>1
  <2>3. now \in Int /\ dropped \subseteq d.content
    BY <1>2
  <2> HIDE DEF now
  <2>4. /\ c \in CompileType /\ c.at = "exec" /\ c.of = d.of
        /\ c.runs = d.runs /\ c.finished = d.finished
        /\ c.todo = d.todo /\ c.num = d.num /\ c.calls = d.calls /\ c.ok = d.ok
        /\ c.missing = d.missing /\ c.content = d.content \ dropped
        /\ c.shared = d.shared /\ c.dropped = dropped
        /\ c.interleaved = d.interleaved /\ c.round = d.round
    BY <1>2, <2>3 DEF CompileType
  <2> HIDE DEF c
  <2>5. d.todo = <<>> /\ \A f \in Files : d.of[f] = NoTask
    BY <1>1, <1>2 DEF TaskLife
  <2>6. Rest(d) = {} /\ Rest(c) = {}
    BY <1>2, <2>4, <2>5, RestFacts
  <2>7. TaskLife(c)
    BY <1>1, <1>2, <2>4, <2>5, <2>6 DEF TaskLife
  <2>8. MissedLife(c)
    <3>1. d.missing \subseteq Files
      BY <1>2 DEF CompileType
    <3> QED BY <1>1, <1>2, <1>3, <2>4, <2>5, <2>6, <3>1 DEF MissedLife
  <2>9. \A f \in Files : Placed(u, f, c, file_task[c.of[f]])
    BY <1>2, <2>4, <2>5 DEF Placed
  <2>10. clock' \in Int
    BY <1>2, <1>3
  <2> QED BY <1>1, <1>2, <2>2, <2>4, <2>6, <2>7, <2>8, <2>9, <2>10, TaskStep
          DEF cache_vars
<1>4. CASE UNCHANGED clock /\
             compile' = [compile EXCEPT ![u] = IF d.abort THEN Ended(d) ELSE Retry(d)]
  BY <1>1, <1>2, <1>4, RoundStep DEF cache_vars
<1> QED BY <1>3, <1>4 DEF CallExec

\* It is answered: the task ends, or goes round again with the missing files.
LEMMA ExecDoneKeeps ==
  ASSUME InputInv, NEW u \in Users, ExecDone(u)
  PROVE  InputInv'
<1> DEFINE d == compile[u]
           whole == {f \in d.content : Size(f) # "large"}
<1>1. d.at = "exec" /\ UNCHANGED <<plan, by_filename, file_task, clock>>
  BY DEF ExecDone
<1>2. /\ d \in CompileType
      /\ file_cache \in [Files -> [in : BOOLEAN, uploaded : Int]] /\ clock \in Int
  BY TaskFacts
<1>3. PICK missing \in SUBSET (Files \ whole) :
        /\ compile' = [compile EXCEPT ![u] =
             IF missing = {} THEN Ended(d) ELSE Retry([d EXCEPT !.missing = missing])]
        /\ file_cache' = IF missing = {} THEN StoreEmbedded(file_cache, d.content)
                         ELSE file_cache
  BY DEF ExecDone
<1>4. StoreEmbedded(file_cache, d.content) \in [Files -> [in : BOOLEAN, uploaded : Int]]
  <2>1. \A f \in Files :
          StoreFileCacheKey(file_cache, f, clock)[f] \in [in : BOOLEAN, uploaded : Int]
    BY <1>2, StoreType
  <2> QED BY <1>2, <2>1 DEF StoreEmbedded
<1>5. file_cache' \in [Files -> [in : BOOLEAN, uploaded : Int]]
  BY <1>2, <1>3, <1>4
<1>6. CASE missing = {}
  BY <1>1, <1>2, <1>3, <1>5, <1>6, RoundStep
<1>7. CASE missing # {}
  <2> DEFINE e == [d EXCEPT !.missing = missing]
  <2>1. /\ e \in CompileType /\ e.of = d.of /\ e.runs = d.runs
        /\ e.finished = d.finished /\ e.round = d.round
    BY <1>2 DEF CompileType
  <2>2. compile' = [compile EXCEPT ![u] = Retry(e)]
    BY <1>3, <1>7
  <2> HIDE DEF e
  <2> QED BY <1>1, <1>5, <2>1, <2>2, RoundStep
<1> QED BY <1>6, <1>7

-----------------------------------------------------------------------------
(***************************************************************************)
(* The theorem.                                                            *)
(***************************************************************************)
LEMMA InputInitInv ==
  ASSUME InputInit
  PROVE  InputInv
<1> DEFINE none == [f \in Files |-> NoTask]
           zero == 0
           start == [at |-> "build", round |-> 1, todo |-> InOrder, of |-> none,
                     num |-> zero, runs |-> {}, finished |-> {}, ok |-> TRUE,
                     content |-> {}, shared |-> {}, dropped |-> {},
                     interleaved |-> {}, missing |-> {}, last_req |-> zero,
                     abort |-> FALSE, calls |-> zero]
<1>1. /\ plan \in InputPlans /\ by_filename = none
      /\ file_task = [o \in FileTasks |-> Unmade]
      /\ file_cache = [f \in Files |-> NoEntry] /\ clock = 0
  BY DEF InputInit
<1>2. compile = [u \in Users |-> start]
  BY DEF InputInit, NewCompile
<1>3. plan.rounds \in Nat \ {0} /\ InOrder \in Seq(Files)
  BY <1>1, FilesType, InOrderFacts
<1>4. none \in [Files -> FileTasks \cup {NoTask}] /\ \A f \in Files : none[f] = NoTask
  OBVIOUS
<1>5. zero \in Int
  OBVIOUS
<1>6. zero = 0
  OBVIOUS
<1>7. /\ start.at = "build" /\ start.round = 1 /\ start.todo = InOrder /\ start.of = none
      /\ start.num = 0 /\ start.runs = {} /\ start.finished = {} /\ start.missing = {}
      /\ start.calls = 0
  BY <1>6
<1> HIDE DEF zero, none, InOrder
<1>8. start \in CompileType
  BY <1>3, <1>4, <1>5 DEF CompileType
<1> HIDE DEF start
<1>9. /\ Unmade \in FileTaskType /\ Unmade.state = "none" /\ Unmade.tasks = {}
      /\ ObjectLife(Unmade)
  BY DEF Unmade, FileTaskType, ObjectLife
<1>10. NoEntry \in [in : BOOLEAN, uploaded : Int]
  BY DEF NoEntry
<1>11. InputTypes
  BY <1>1, <1>2, <1>4, <1>8, <1>9, <1>10 DEF InputTypes
<1>12. Objects
  BY <1>1, <1>4, <1>9 DEF Objects
<1>13. Owners
  BY <1>1, <1>2, <1>4, <1>7, <1>9, FileTaskFacts DEF Owners
<1>14. Fresh
  BY <1>1, <1>9, FileTaskFacts DEF Fresh
<1>15. TaskLife(start)
  <2>1. Len(plan.size) \in Nat /\ Files = 1..Len(plan.size)
    BY <1>1, FilesType
  <2>2. /\ Len(InOrder) = Len(plan.size)
        /\ \A i \in 1..Len(plan.size) : InOrder[i] = i
    BY <1>1, InOrderFacts
  <2>3. Cardinality({f \in Files : none[f] # NoTask}) = 0
    BY <1>4, NoneCounted
  <2> QED BY <1>4, <1>7, <2>1, <2>2, <2>3 DEF TaskLife, Rest
<1>16. MissedLife(start)
  BY <1>7 DEF MissedLife
<1>17. TasksLife
  BY <1>2, <1>4, <1>7, <1>15, <1>16 DEF TasksLife, Placed
<1> QED BY <1>11, <1>12, <1>13, <1>14, <1>17 DEF InputInv

\* Every step.
LEMMA InputInvStep ==
  ASSUME InputInv, [InputNext]_input_vars
  PROVE  InputInv'
<1>1. CASE UNCHANGED input_vars
  <2>1. /\ UNCHANGED <<plan, by_filename, file_task, compile, file_cache, clock>>
        /\ Files' = Files /\ FileTasks' = FileTasks /\ CompileType' = CompileType
        /\ FileTaskType' = FileTaskType
    BY <1>1, SamePlan DEF input_vars, FileTaskType
  <2>2. InputTypes' /\ Objects' /\ Owners'
    BY <2>1 DEF InputInv, InputTypes, Objects, Owners
  <2>3. Fresh'
    BY <2>1 DEF InputInv, Fresh, Rest
  <2>4. ASSUME NEW u \in Users
        PROVE  /\ TaskLife(compile[u])' /\ MissedLife(compile[u])'
               /\ \A f \in Files : Placed(u, f, compile[u], file_task[compile[u].of[f]])'
    <3>1. /\ TaskLife(compile[u]) /\ MissedLife(compile[u])
          /\ \A f \in Files : Placed(u, f, compile[u], file_task[compile[u].of[f]])
      BY TaskFacts
    <3>2. TaskLife(compile[u])'
      BY <2>1, <3>1 DEF TaskLife, Rest
    <3>3. MissedLife(compile[u])'
      BY <2>1, <3>1 DEF MissedLife, Rest
    <3>4. \A f \in Files : Placed(u, f, compile[u], file_task[compile[u].of[f]])'
      BY <2>1, <3>1 DEF Placed, Parked
    <3> QED BY <3>2, <3>3, <3>4
  <2>5. TasksLife'
    BY <2>1, <2>4 DEF TasksLife
  <2> QED BY <2>2, <2>3, <2>5 DEF InputInv
<1>2. ASSUME NEW u \in Users, CompileStep(u)
      PROVE  InputInv'
  <2>1. ASSUME NEW f \in Files, AddInput(u, f) \/ Run(u, f) \/ InputFileTaskFinished(u, f)
        PROVE  InputInv'
    BY <2>1, AddInputKeeps, RunKeeps, FinishedKeeps
  <2>2. CASE PostRuns(u)
    BY <2>2, PostRunsKeeps
  <2> QED BY <1>2, <2>1, <2>2 DEF CompileStep
<1>3. ASSUME NEW u \in Users, Abort(u) \/ CallExec(u) \/ ExecDone(u)
      PROVE  InputInv'
  BY <1>3, AbortKeeps, CallExecKeeps, ExecDoneKeeps
<1>4. ASSUME NEW o \in FileTasks, RunStep(o)
      PROVE  InputInv'
  BY <1>4, ComputeKeyKeeps, UploadKeeps, EraseKeeps, FinishKeeps, PostCallbackKeeps
  DEF RunStep
<1> QED BY <1>1, <1>2, <1>3, <1>4 DEF InputNext

\* A file that a task waits for is in one place.
LEMMA InOnePlace ==
  ASSUME InputInv, NEW u \in Users, compile[u].at = "wait", NEW f \in Files,
         compile[u].of[f] # NoTask
  PROVE  Cardinality({i \in 1..4 : Places(u, f)[i]}) = 1
<1> DEFINE c == compile[u]
           o == c.of[f]
           t == file_task[o]
           P == Places(u, f)
           S == {i \in 1..4 : P[i]}
<1>1. Placed(u, f, c, t) /\ o \in FileTasks
  BY TaskFacts DEF CompileType
<1>2. t.posts \cap t.callbacks = {}
  BY <1>1 DEF InputInv, Objects, ObjectLife
<1>3. /\ P[1] <=> f \in c.runs
      /\ P[2] <=> f \in c.finished
      /\ P[3] <=> u \in t.callbacks
      /\ P[4] <=> u \in t.posts
  BY DEF Places
<1> HIDE DEF P
<1>4. \/ P[1] /\ ~P[2] /\ ~P[3] /\ ~P[4]
      \/ P[2] /\ ~P[1] /\ ~P[3] /\ ~P[4]
      \/ P[3] /\ ~P[1] /\ ~P[2] /\ ~P[4]
      \/ P[4] /\ ~P[1] /\ ~P[2] /\ ~P[3]
  BY <1>1, <1>2, <1>3 DEF Placed, Parked
<1>5. 1..4 = {1, 2, 3, 4}
  OBVIOUS
<1>6. \E k : S = {k}
  <2>1. CASE P[1] /\ ~P[2] /\ ~P[3] /\ ~P[4]
    <3>1. S = {1}
      BY <1>5, <2>1
    <3> QED BY <3>1
  <2>2. CASE P[2] /\ ~P[1] /\ ~P[3] /\ ~P[4]
    <3>1. S = {2}
      BY <1>5, <2>2
    <3> QED BY <3>1
  <2>3. CASE P[3] /\ ~P[1] /\ ~P[2] /\ ~P[4]
    <3>1. S = {3}
      BY <1>5, <2>3
    <3> QED BY <3>1
  <2>4. CASE P[4] /\ ~P[1] /\ ~P[2] /\ ~P[3]
    <3>1. S = {4}
      BY <1>5, <2>4
    <3> QED BY <3>1
  <2> QED BY <1>4, <2>1, <2>2, <2>3, <2>4
<1> QED BY <1>6, FS_Singleton DEF P

\* The invariant says what InputsExact says.
LEMMA InputInvMeaning ==
  ASSUME InputInv
  PROVE  InputsExact
<1>1. SharedTaskAlive
  <2>1. ASSUME NEW o \in FileTasks
        PROVE  /\ file_task[o].tasks = {u \in Users : compile[u].of[FileOf(o)] = o}
               /\ file_task[o].tasks = {} <=> file_task[o].state \in {"none", "deleted"}
               /\ file_task[o].posts \cup file_task[o].callbacks \subseteq file_task[o].tasks
               /\ file_task[o].at # "idle" => file_task[o].state \in {"RUN", "DONE"}
    <3>1. file_task[o] \in FileTaskType /\ ObjectLife(file_task[o])
      BY DEF InputInv, InputTypes, Objects
    <3>2. file_task[o].tasks = {u \in Users : compile[u].of[FileOf(o)] = o}
      BY <3>1 DEF InputInv, Owners, FileTaskType
    <3>3. file_task[o].at # "idle" => file_task[o].state \in {"RUN", "DONE"}
      BY <3>1 DEF ObjectLife, FileTaskType
    <3> QED BY <3>1, <3>2, <3>3 DEF ObjectLife
  <2>2. ASSUME NEW f \in Files, by_filename[f] # NoTask
        PROVE  file_task[by_filename[f]].state \in {"INIT", "RUN"}
    <3>1. by_filename[f] \in FileTasks
      BY <2>2 DEF InputInv, InputTypes
    <3>2. Findable(file_task[by_filename[f]]) /\ ObjectLife(file_task[by_filename[f]])
      BY <2>2, <3>1 DEF InputInv, Objects
    <3> QED BY <3>2 DEF Findable, ObjectLife
  <2> QED BY <2>1, <2>2 DEF SharedTaskAlive
<1>2. InputCountExact
  <2> SUFFICES ASSUME NEW u \in Users
               PROVE  /\ compile[u].num = Cardinality({f \in Files : compile[u].of[f] # NoTask})
                      /\ compile[u].calls = (IF compile[u].at \in {"build", "wait"}
                                             THEN 0 ELSE 1)
                      /\ compile[u].calls = 1 => compile[u].num = 0
                      /\ compile[u].at = "wait" =>
                           \A f \in Files : compile[u].of[f] # NoTask =>
                             Cardinality({i \in 1..4 : Places(u, f)[i]}) = 1
    BY DEF InputCountExact
  <2>1. compile[u] \in CompileType /\ TaskLife(compile[u])
    BY TaskFacts
  <2>2. compile[u].calls = 1 => compile[u].num = 0
    <3>1. CASE compile[u].at \in {"build", "wait"}
      BY <2>1, <3>1 DEF TaskLife
    <3>2. CASE compile[u].at \in {"built", "exec", "end"}
      BY <2>1, <3>2, NoneCounted DEF TaskLife
    <3> QED BY <2>1, <3>1, <3>2 DEF CompileType
  <2> QED BY <2>1, <2>2, InOnePlace DEF TaskLife
<1>3. MissedIsSent
  BY DEF InputInv, TasksLife, MissedLife, MissedIsSent
<1> QED BY <1>1, <1>2, <1>3 DEF InputsExact

\* Whatever the files, the compile tasks and their order: an InputFileTask lives
\* exactly as long as a compile task refers to it and is found only while it can be
\* joined, num_input_file_task_ counts the files to come, each in one place, and the
\* callback runs once.  A file the server missed is sent with its content in the next
\* request, or was uploaded beside it since, or was dropped to keep the request small,
\* or came from an InputFileTask another compile task had made, which had not missed
\* it: then its key only goes out again.
THEOREM InputsAreExact == InputSpec => []InputsExact
<1>1. InputInit => InputInv
  BY InputInitInv
<1>2. InputInv /\ [InputNext]_input_vars => InputInv'
  BY InputInvStep
<1>3. InputInv => InputsExact
  BY InputInvMeaning
<1> QED BY <1>1, <1>2, <1>3, PTL DEF InputSpec

-----------------------------------------------------------------------------
(***************************************************************************)
(* BatchesExact of MultiHttpRPC, for any number of StoreFile() calls and   *)
(* any max_req_in_call, whatever the server answers and wherever Wait()    *)
(* and the alarm thread are.                                               *)
(*                                                                         *)
(* BatchesExact counts the batches a call is in.  BatchInv says it without *)
(* counting and adds what a step needs to keep it: batches share no call,  *)
(* those that were answered included, so that a job is one element of      *)
(* multi_jobs from Call() to JobDone(); and a blob that was moved away is  *)
(* in the request of a job that was sent and not answered.                 *)
(***************************************************************************)
JobType == [calls : Seq(Stores), at : {"made", "sent", "replied"}]

\* Every call is in a list once, and the two lists have no call in common.
Distinct(q) == \A k, l \in 1..Len(q) : q[k] = q[l] => k = l
Apart(p, q) == ToSet(p) \cap ToSet(q) = {}

BatchTypes ==
  /\ store \in [Stores -> {"new", "unlocked", "direct", "batched", "ok",
                           "failed"}]
  /\ blob_of \in [Stores -> {"own", "multi"}]
  /\ gathering \in Seq(Stores)
  /\ multi_jobs \in SUBSET JobType /\ IsFiniteSet(multi_jobs)
  /\ num_multi_job \in Int
  /\ periodic_id \in BOOLEAN /\ rpc_down \in BOOLEAN

\* Batches are lists of calls of the right size that share no call.
Partition ==
  /\ Distinct(gathering) /\ Len(gathering) < MaxReqInCall
  /\ \A j \in multi_jobs : /\ Distinct(j.calls)
                           /\ Len(j.calls) \in 1..MaxReqInCall
                           /\ Apart(gathering, j.calls)
  /\ \A j, k \in multi_jobs : j # k => Apart(j.calls, k.calls)

\* What a caller knows of its call against the batch it is in.
CallLife(s) ==
  /\ s \in ToSet(gathering) => store[s] = "batched"
  /\ \A j \in JobsOf(s) :
       IF j.at = "replied" THEN store[s] \in {"ok", "failed"}
       ELSE store[s] = "batched"
  /\ store[s] = "batched" =>
       s \in ToSet(gathering) \/ \E j \in JobsOf(s) : j.at # "replied"
  /\ blob_of[s] = "multi" => \E j \in JobsOf(s) : j.at = "sent"

\* Who sends what is gathered, and how many jobs are counted.
Counted ==
  /\ gathering # <<>> => periodic_id
  /\ num_multi_job <= Cardinality(multi_jobs)

BatchInv ==
  /\ BatchTypes /\ Partition /\ Counted
  /\ \A s \in Stores : CallLife(s)

-----------------------------------------------------------------------------
(***************************************************************************)
(* Lists and sets.                                                         *)
(***************************************************************************)
\* The members of a list, and of a list with one more.
LEMMA Members ==
  ASSUME NEW q \in Seq(Stores)
  PROVE  /\ ToSet(q) \subseteq Stores
         /\ \A x : x \in ToSet(q) <=> \E k \in 1..Len(q) : q[k] = x
         /\ q = <<>> <=> ToSet(q) = {}
<1>1. DOMAIN q = 1..Len(q) /\ Len(q) \in Nat /\ \A k \in 1..Len(q) : q[k] \in Stores
  BY LenProperties, ElementOfSeq
<1>2. \A x : x \in ToSet(q) <=> \E k \in 1..Len(q) : q[k] = x
  BY <1>1 DEF ToSet
<1>3. q = <<>> <=> Len(q) = 0
  BY EmptySeq
<1>4. ASSUME Len(q) # 0  PROVE ToSet(q) # {}
  <2>1. 1 \in 1..Len(q)
    BY <1>1, <1>4
  <2> QED BY <1>2, <2>1
<1> QED BY <1>1, <1>2, <1>3, <1>4

\* A call more in a batch.
LEMMA AddMember ==
  ASSUME NEW q \in Seq(Stores), NEW s \in Stores \ ToSet(q), Distinct(q)
  PROVE  /\ Append(q, s) \in Seq(Stores) /\ Len(Append(q, s)) = Len(q) + 1
         /\ ToSet(Append(q, s)) = ToSet(q) \cup {s}
         /\ Distinct(Append(q, s))
<1>1. /\ Append(q, s) \in Seq(Stores) /\ Len(Append(q, s)) = Len(q) + 1
      /\ \A k \in 1..Len(q) : Append(q, s)[k] = q[k]
      /\ Append(q, s)[Len(q) + 1] = s /\ Len(q) \in Nat
  BY AppendProperties, LenProperties
<1>2. \A x : x \in ToSet(q) <=> \E k \in 1..Len(q) : q[k] = x
  BY Members
<1>3. \A x : x \in ToSet(Append(q, s))
               <=> \E k \in 1..(Len(q) + 1) : Append(q, s)[k] = x
  BY <1>1, Members
<1>4. 1..(Len(q) + 1) = 1..Len(q) \cup {Len(q) + 1}
  BY <1>1
<1>5. ToSet(Append(q, s)) = ToSet(q) \cup {s}
  BY <1>1, <1>2, <1>3, <1>4
<1>6. \A k \in 1..Len(q) : q[k] # s
  BY <1>2
<1>7. Distinct(Append(q, s))
  BY <1>1, <1>4, <1>6 DEF Distinct
<1> QED BY <1>1, <1>5, <1>7

\* An empty list.
LEMMA NoMembers ==
  /\ <<>> \in Seq(Stores) /\ Len(<<>>) = 0 /\ ToSet(<<>>) = {}
  /\ Distinct(<<>>)
<1>1. <<>> \in Seq(Stores) /\ Len(<<>>) = 0
  BY EmptySeq
<1>2. ToSet(<<>>) = {}
  BY <1>1, Members
<1> QED BY <1>1, <1>2 DEF Distinct

\* A set that is a singleton, or empty, counts one or none.
LEMMA OneOrNone ==
  ASSUME NEW S
  PROVE  /\ (\E x : S = {x}) => Cardinality(S) = 1
         /\ S = {} => Cardinality(S) = 0
BY FS_Singleton, FS_EmptySet

\* The counts of jobs.
LEMMA JobCounts ==
  ASSUME NEW J, IsFiniteSet(J), NEW x
  PROVE  /\ Cardinality(J) \in Nat
         /\ IsFiniteSet(J \cup {x}) /\ IsFiniteSet(J \ {x})
         /\ Cardinality(J \cup {x}) \in Nat /\ Cardinality(J \ {x}) \in Nat
         /\ Cardinality(J \cup {x})
              = IF x \in J THEN Cardinality(J) ELSE Cardinality(J) + 1
         /\ Cardinality(J \ {x})
              = IF x \in J THEN Cardinality(J) - 1 ELSE Cardinality(J)
BY FS_AddElement, FS_RemoveElement, FS_CardinalityType

-----------------------------------------------------------------------------
(***************************************************************************)
(* The invariant implies BatchesExact.                                     *)
(***************************************************************************)
\* A call is in one job at most.
LEMMA OneJob ==
  ASSUME BatchInv, NEW s \in Stores, NEW j \in multi_jobs, s \in ToSet(j.calls)
  PROVE  JobsOf(s) = {j} /\ s \notin ToSet(gathering)
BY DEF BatchInv, Partition, Apart, JobsOf

\* The invariant says what BatchesExact says.
LEMMA InvIsExact == BatchInv => BatchesExact
<1> SUFFICES ASSUME BatchInv  PROVE BatchesExact
  OBVIOUS
<1>1. /\ \A j \in multi_jobs : Len(j.calls) \in 1..MaxReqInCall
      /\ Len(gathering) < MaxReqInCall
      /\ gathering # <<>> => periodic_id
      /\ num_multi_job <= Cardinality(multi_jobs)
  BY DEF BatchInv, Partition, Counted
<1>2. ASSUME NEW s \in Stores
      PROVE  LET open == {j \in JobsOf(s) : j.at # "replied"}
                 places == Cardinality(open)
                           + Cardinality({k \in DOMAIN gathering : gathering[k] = s})
             IN  /\ places = (IF store[s] = "batched" THEN 1 ELSE 0)
                 /\ blob_of[s] = "multi" => store[s] = "batched"
  <2> DEFINE open == {j \in JobsOf(s) : j.at # "replied"}
             at == {k \in DOMAIN gathering : gathering[k] = s}
  <2>1. CallLife(s) /\ gathering \in Seq(Stores) /\ Distinct(gathering)
    BY DEF BatchInv, BatchTypes, Partition
  <2>2. DOMAIN gathering = 1..Len(gathering)
    BY <2>1, LenProperties
  <2>3. CASE s \in ToSet(gathering)
    <3>1. PICK k \in 1..Len(gathering) : gathering[k] = s
      BY <2>1, <2>3, Members
    <3>2. at = {k}
      BY <2>1, <2>2, <3>1 DEF Distinct
    <3>3. open = {}
      BY <2>3, OneJob DEF JobsOf
    <3>4. Cardinality(at) = 1 /\ Cardinality(open) = 0
      BY <3>2, <3>3, OneOrNone
    <3> HIDE DEF at, open
    <3>5. store[s] = "batched"
      BY <2>1, <2>3 DEF CallLife
    <3> QED BY <3>4, <3>5 DEF at, open
  <2>4. CASE s \notin ToSet(gathering)
    <3>1. at = {}
      BY <2>1, <2>2, <2>4, Members
    <3>2. CASE store[s] = "batched"
      <4>1. PICK j \in JobsOf(s) : j.at # "replied"
        BY <2>1, <2>4, <3>2 DEF CallLife
      <4>2. open = {j}
        BY <4>1, OneJob DEF JobsOf
      <4>3. Cardinality(at) = 0 /\ Cardinality(open) = 1
        BY <3>1, <4>2, OneOrNone
      <4> HIDE DEF at, open
      <4> QED BY <3>2, <4>3 DEF at, open
    <3>3. CASE store[s] # "batched"
      <4>1. open = {} /\ blob_of[s] # "multi"
        BY <2>1, <3>3 DEF CallLife
      <4>2. Cardinality(at) = 0 /\ Cardinality(open) = 0
        BY <3>1, <4>1, OneOrNone
      <4> HIDE DEF at, open
      <4> QED BY <3>3, <4>1, <4>2 DEF at, open
    <3> QED BY <3>2, <3>3
  <2> QED BY <2>3, <2>4
<1> QED BY <1>1, <1>2 DEF BatchesExact

-----------------------------------------------------------------------------
(***************************************************************************)
(* Initial states, and what steps do to the batches.                       *)
(***************************************************************************)
LEMMA InitBatches == StoreInit => BatchInv
<1> SUFFICES ASSUME StoreInit  PROVE BatchInv
  OBVIOUS
<1>1. IsFiniteSet(multi_jobs) /\ Cardinality(multi_jobs) = 0
  BY FS_EmptySet DEF StoreInit
<1>2. BatchTypes
  <2>1. periodic_id \in BOOLEAN /\ rpc_down \in BOOLEAN
    BY Zenon DEF StoreInit
  <2>2. gathering \in Seq(Stores) /\ multi_jobs \in SUBSET JobType
    BY NoMembers DEF StoreInit
  <2>3. /\ store \in [Stores -> {"new", "unlocked", "direct", "batched", "ok",
                                "failed"}]
        /\ blob_of \in [Stores -> {"own", "multi"}]
        /\ num_multi_job \in Int
    BY DEF StoreInit
  <2> QED BY <1>1, <2>1, <2>2, <2>3 DEF BatchTypes
<1>3. Partition
  BY NoMembers, MaxReqAssumption DEF StoreInit, Partition
<1>4. Counted
  BY <1>1 DEF StoreInit, Counted
<1>5. \A s \in Stores : CallLife(s)
  BY NoMembers DEF StoreInit, CallLife, JobsOf
<1> QED BY <1>2, <1>3, <1>4, <1>5 DEF BatchInv

\* A step that leaves the batches alone, and the calls that are in one.
LEMMA SameBatches ==
  ASSUME BatchInv, UNCHANGED <<blob_of, gathering, multi_jobs, num_multi_job>>,
         gathering # <<>> => periodic_id', periodic_id' \in BOOLEAN,
         rpc_down' \in BOOLEAN,
         store' \in [Stores -> {"new", "unlocked", "direct", "batched", "ok",
                                "failed"}],
         \A s \in Stores : \/ store'[s] = store[s]
                           \/ /\ store[s] \in {"new", "direct"}
                              /\ store'[s] # "batched"
  PROVE  BatchInv'
<1>1. BatchTypes' /\ Partition' /\ Counted'
  BY DEF BatchInv, BatchTypes, Partition, Counted
<1>2. ASSUME NEW s \in Stores  PROVE CallLife(s)'
  <2>1. CallLife(s)
    BY DEF BatchInv
  <2> QED BY <2>1 DEF CallLife, JobsOf
<1> QED BY <1>1, <1>2 DEF BatchInv

\* The list of calls becomes a job.
LEMMA NewJob ==
  ASSUME BatchInv, NEW calls \in Seq(Stores), calls # <<>>,
         Distinct(calls), Len(calls) \in 1..MaxReqInCall,
         \A j \in multi_jobs : Apart(calls, j.calls),
         gathering' = <<>>,
         multi_jobs' = multi_jobs \cup {Job(calls, "made")}
  PROVE  /\ multi_jobs' \in SUBSET JobType /\ IsFiniteSet(multi_jobs')
         /\ Cardinality(multi_jobs') = Cardinality(multi_jobs) + 1
         /\ Cardinality(multi_jobs) \in Nat
         /\ Partition'
         /\ \A s \in Stores : JobsOf(s)' =
              JobsOf(s) \cup IF s \in ToSet(calls) THEN {Job(calls, "made")} ELSE {}
<1> DEFINE new == Job(calls, "made")
<1>1. new \in JobType /\ new.calls = calls /\ new.at = "made"
  BY DEF Job, JobType
<1>2. new \notin multi_jobs
  BY <1>1, Members DEF Apart
<1>3. multi_jobs \in SUBSET JobType /\ IsFiniteSet(multi_jobs)
  BY DEF BatchInv, BatchTypes
<1> HIDE DEF new
<1>4. /\ IsFiniteSet(multi_jobs') /\ Cardinality(multi_jobs) \in Nat
      /\ Cardinality(multi_jobs') = Cardinality(multi_jobs) + 1
  BY <1>2, <1>3, JobCounts DEF new
<1>5. Partition'
  <2>1. Distinct(gathering') /\ Len(gathering') < MaxReqInCall
    BY NoMembers, MaxReqAssumption
  <2>2. ASSUME NEW j \in multi_jobs'
        PROVE  /\ Distinct(j.calls) /\ Len(j.calls) \in 1..MaxReqInCall
               /\ Apart(gathering', j.calls)
    BY <1>1, NoMembers DEF BatchInv, Partition, Apart, new
  <2>3. ASSUME NEW j \in multi_jobs', NEW k \in multi_jobs', j # k
        PROVE  Apart(j.calls, k.calls)
    BY <1>1, <2>3 DEF BatchInv, Partition, Apart, new
  <2> QED BY <2>1, <2>2, <2>3 DEF Partition
<1>6. \A s \in Stores : JobsOf(s)' =
        JobsOf(s) \cup IF s \in ToSet(calls) THEN {new} ELSE {}
  BY <1>1 DEF JobsOf, new
<1> QED BY <1>1, <1>3, <1>4, <1>5, <1>6 DEF new

\* A job goes on.
LEMMA JobMoves ==
  ASSUME BatchInv, NEW j \in multi_jobs, NEW at \in {"sent", "replied"},
         at # j.at, To(j, at), UNCHANGED gathering
  PROVE  /\ multi_jobs' \in SUBSET JobType /\ IsFiniteSet(multi_jobs')
         /\ Cardinality(multi_jobs') = Cardinality(multi_jobs)
         /\ Partition'
         /\ \A s \in Stores : JobsOf(s)' =
              IF s \in ToSet(j.calls) THEN {Job(j.calls, at)} ELSE JobsOf(s)
<1> DEFINE new == Job(j.calls, at)
           rest == multi_jobs \ {j}
<1>1. /\ multi_jobs \in SUBSET JobType /\ IsFiniteSet(multi_jobs)
      /\ j.calls \in Seq(Stores) /\ Len(j.calls) \in 1..MaxReqInCall
      /\ Distinct(j.calls)
  BY DEF BatchInv, BatchTypes, Partition, JobType
<1>2. new \in JobType /\ new.calls = j.calls /\ new.at = at
  BY <1>1 DEF Job, JobType
<1>3. ToSet(j.calls) # {}
  BY <1>1, Members, EmptySeq
<1>4. new \notin rest
  BY <1>2, <1>3 DEF BatchInv, Partition, Apart
<1>5. multi_jobs' = rest \cup {new}
  BY DEF To
<1> HIDE DEF new
<1>6. /\ IsFiniteSet(multi_jobs')
      /\ Cardinality(multi_jobs') = Cardinality(multi_jobs)
  <2>1. /\ IsFiniteSet(rest) /\ Cardinality(multi_jobs) \in Nat
        /\ Cardinality(rest) = Cardinality(multi_jobs) - 1
    BY <1>1, JobCounts
  <2> HIDE DEF rest
  <2> QED BY <1>4, <1>5, <2>1, JobCounts
<1>7. Partition'
  <2>1. \A k \in multi_jobs' : \E l \in multi_jobs : k.calls = l.calls
    BY <1>2, <1>5
  <2>2. \A k, l \in multi_jobs' : k # l => Apart(k.calls, l.calls)
    BY <1>2, <1>5 DEF BatchInv, Partition, Apart
  <2> QED BY <2>1, <2>2 DEF BatchInv, Partition
<1>8. ASSUME NEW s \in Stores
      PROVE  JobsOf(s)' = IF s \in ToSet(j.calls) THEN {new} ELSE JobsOf(s)
  <2>1. CASE s \in ToSet(j.calls)
    <3>1. JobsOf(s) = {j}
      BY <2>1, OneJob
    <3> QED BY <1>2, <1>5, <2>1, <3>1 DEF JobsOf
  <2>2. CASE s \notin ToSet(j.calls)
    BY <1>2, <1>5, <2>2 DEF JobsOf
  <2> QED BY <2>1, <2>2
<1> QED BY <1>1, <1>2, <1>5, <1>6, <1>7, <1>8 DEF new

-----------------------------------------------------------------------------
(***************************************************************************)
(* The calls, and the lists they are gathered in.                          *)
(***************************************************************************)
\* A call that is not batched is in no batch that is open.
LEMMA NotGathered ==
  ASSUME BatchInv, NEW s \in Stores, store[s] \in {"new", "unlocked", "direct"}
  PROVE  s \notin ToSet(gathering) /\ JobsOf(s) = {}
BY DEF BatchInv, CallLife

\* A call begins, or was sent on its own.
LEMMA CallInv ==
  ASSUME BatchInv, NEW s \in Stores, Call(s) \/ DirectDone(s)
  PROVE  BatchInv'
<1>1. BatchTypes /\ (gathering # <<>> => periodic_id)
  BY DEF BatchInv, Counted
<1>2. CASE Call(s)
  <2>1. /\ UNCHANGED <<blob_of, gathering, multi_jobs, num_multi_job,
                       periodic_id, rpc_down>>
        /\ store[s] = "new"
        /\ \/ store' = [store EXCEPT ![s] = "direct"]
           \/ store' = [store EXCEPT ![s] = "unlocked"]
    BY <1>2 DEF Call
  <2> QED BY <1>1, <2>1, SameBatches DEF BatchTypes
<1>3. CASE DirectDone(s)
  <2>1. /\ UNCHANGED <<blob_of, gathering, multi_jobs, num_multi_job,
                       periodic_id, rpc_down>>
        /\ store[s] = "direct"
        /\ \/ store' = [store EXCEPT ![s] = "ok"]
           \/ store' = [store EXCEPT ![s] = "failed"]
    BY <1>3 DEF DirectDone
  <2> QED BY <1>1, <2>1, SameBatches DEF BatchTypes
<1> QED BY <1>2, <1>3

\* It is added to the batch that gathers.
LEMMA AddCallInv ==
  ASSUME BatchInv, NEW s \in Stores, AddCall(s)
  PROVE  BatchInv'
<1> DEFINE calls == Append(gathering, s)
           now == CallNow(calls)
<1>1. BatchTypes /\ Partition /\ Counted /\ store[s] = "unlocked"
  BY DEF BatchInv, AddCall
<1>2. s \notin ToSet(gathering) /\ JobsOf(s) = {}
  BY <1>1, NotGathered
<1>3. /\ calls \in Seq(Stores) /\ Len(calls) = Len(gathering) + 1
      /\ ToSet(calls) = ToSet(gathering) \cup {s} /\ Distinct(calls)
  BY <1>1, <1>2, AddMember DEF BatchTypes, Partition
<1>4. Len(calls) \in 1..MaxReqInCall
  <2>1. Len(gathering) \in Nat /\ Len(gathering) < MaxReqInCall
    BY <1>1, LenProperties DEF BatchTypes, Partition
  <2> QED BY <1>3, <2>1, MaxReqAssumption
<1>5. \A j \in multi_jobs : Apart(calls, j.calls)
  BY <1>1, <1>2, <1>3 DEF Partition, Apart, JobsOf
<1>6. /\ store' = [store EXCEPT ![s] = "batched"]
      /\ UNCHANGED <<blob_of, rpc_down>>
      /\ periodic_id' = (periodic_id \/ ~rpc_down)
  BY DEF AddCall
<1>7. /\ store' \in [Stores -> {"new", "unlocked", "direct", "batched", "ok",
                                "failed"}]
      /\ blob_of' \in [Stores -> {"own", "multi"}]
      /\ periodic_id' \in BOOLEAN /\ rpc_down' \in BOOLEAN
  BY <1>1, <1>6 DEF BatchTypes
<1>8. calls # <<>>
  BY <1>3, Members
<1>9. CASE now
  <2>1. /\ gathering' = <<>> /\ num_multi_job' = num_multi_job + 1
        /\ multi_jobs' = multi_jobs \cup {Job(calls, "made")}
    BY <1>9 DEF AddCall
  <2> DEFINE new == Job(calls, "made")
  <2>2. new.at = "made"
    BY DEF Job
  <2>3. /\ multi_jobs' \in SUBSET JobType /\ IsFiniteSet(multi_jobs')
        /\ Cardinality(multi_jobs') = Cardinality(multi_jobs) + 1
        /\ Cardinality(multi_jobs) \in Nat
        /\ Partition'
        /\ \A t \in Stores : JobsOf(t)' =
             JobsOf(t) \cup IF t \in ToSet(calls) THEN {new} ELSE {}
    <3> HIDE DEF calls
    <3> QED BY <1>3, <1>4, <1>5, <1>8, <2>1, NewJob
  <2> HIDE DEF calls, now, new
  <2>4. BatchTypes'
    BY <1>1, <1>7, <2>1, <2>3, NoMembers DEF BatchTypes
  <2>5. Counted'
    BY <1>1, <2>1, <2>3 DEF Counted, BatchTypes
  <2>6. ASSUME NEW t \in Stores  PROVE CallLife(t)'
    <3>1. CallLife(t)
      BY DEF BatchInv
    <3>2. ToSet(gathering') = {}
      BY <2>1, NoMembers
    <3>3. CASE t = s
      <4>1. JobsOf(t)' = {new} /\ store'[t] = "batched"
        BY <1>1, <1>2, <1>3, <1>6, <2>3, <3>3 DEF BatchTypes
      <4>2. blob_of'[t] # "multi"
        BY <1>2, <1>6, <3>1, <3>3 DEF CallLife
      <4> QED BY <2>2, <3>2, <4>1, <4>2 DEF CallLife
    <3>4. CASE t # s /\ t \in ToSet(gathering)
      <4>1. JobsOf(t) = {} /\ store[t] = "batched"
        BY <3>1, <3>4, OneJob DEF CallLife, JobsOf
      <4>2. JobsOf(t)' = {new} /\ store'[t] = "batched"
        BY <1>1, <1>3, <1>6, <2>3, <3>4, <4>1 DEF BatchTypes
      <4>3. blob_of'[t] # "multi"
        BY <1>6, <3>1, <4>1 DEF CallLife
      <4> QED BY <2>2, <3>2, <4>2, <4>3 DEF CallLife
    <3>5. CASE t # s /\ t \notin ToSet(gathering)
      <4>1. JobsOf(t)' = JobsOf(t) /\ store'[t] = store[t] /\ blob_of'[t] = blob_of[t]
        <5>1. t \notin ToSet(calls)
          BY <1>3, <3>5
        <5>2. JobsOf(t)' = JobsOf(t)
          BY <2>3, <5>1
        <5>3. store'[t] = store[t] /\ blob_of'[t] = blob_of[t]
          BY <1>1, <1>6, <3>5 DEF BatchTypes
        <5> QED BY <5>2, <5>3
      <4> QED BY <3>1, <3>2, <3>5, <4>1 DEF CallLife
    <3> QED BY <3>3, <3>4, <3>5
  <2> QED BY <2>3, <2>4, <2>5, <2>6 DEF BatchInv
<1>10. CASE ~now
  <2>1. /\ gathering' = calls
        /\ UNCHANGED <<multi_jobs, num_multi_job>>
    BY <1>10 DEF AddCall
  <2>2. Len(calls) # MaxReqInCall /\ ~rpc_down
    BY <1>10 DEF CallNow
  <2> HIDE DEF calls, now
  <2>3. BatchTypes'
    BY <1>1, <1>3, <1>7, <2>1 DEF BatchTypes
  <2>4. Partition'
    BY <1>1, <1>3, <1>4, <1>5, <2>1, <2>2, MaxReqAssumption DEF Partition
  <2>5. Counted'
    BY <1>1, <1>6, <2>1, <2>2 DEF Counted
  <2>6. ASSUME NEW t \in Stores  PROVE CallLife(t)'
    <3>1. CallLife(t) /\ JobsOf(t)' = JobsOf(t)
      BY <2>1 DEF BatchInv, JobsOf
    <3>2. CASE t = s
      <4>1. store'[t] = "batched" /\ t \in ToSet(gathering') /\ JobsOf(t) = {}
        BY <1>1, <1>2, <1>3, <1>6, <2>1, <3>2 DEF BatchTypes
      <4> QED BY <1>6, <3>1, <4>1 DEF CallLife
    <3>3. CASE t # s
      <4>1. /\ store'[t] = store[t]
            /\ t \in ToSet(gathering') <=> t \in ToSet(gathering)
        BY <1>1, <1>3, <1>6, <2>1, <3>3 DEF BatchTypes
      <4> QED BY <1>6, <3>1, <4>1 DEF CallLife
    <3> QED BY <3>2, <3>3
  <2> QED BY <2>3, <2>4, <2>5, <2>6 DEF BatchInv
<1> QED BY <1>9, <1>10

\* CheckPending() makes a job of what is gathered, which nobody counts.
LEMMA CheckPendingInv ==
  ASSUME BatchInv, CheckPending
  PROVE  BatchInv'
<1>1. /\ UNCHANGED <<store, blob_of, num_multi_job, rpc_down>> /\ gathering' = <<>>
      /\ periodic_id' = (periodic_id /\ available)
  BY DEF CheckPending
<1>2. BatchTypes /\ Partition /\ Counted /\ periodic_id' \in BOOLEAN
  BY <1>1 DEF BatchInv
<1>3. CASE gathering = <<>>
  <2>1. UNCHANGED <<gathering, multi_jobs>>
    BY <1>3 DEF CheckPending
  <2> QED BY <1>1, <1>2, <1>3, <2>1, SameBatches DEF BatchTypes
<1>4. CASE gathering # <<>>
  <2>1. multi_jobs' = multi_jobs \cup {Job(gathering, "made")}
    BY <1>4 DEF CheckPending
  <2> DEFINE new == Job(gathering, "made")
  <2>2. new.at = "made"
    BY DEF Job
  <2>3. gathering \in Seq(Stores) /\ Len(gathering) \in 1..MaxReqInCall
    <3>1. gathering \in Seq(Stores) /\ Len(gathering) \in Nat
      BY <1>2, LenProperties DEF BatchTypes
    <3>2. Len(gathering) # 0
      BY <1>4, <3>1, EmptySeq
    <3> QED BY <1>2, <3>1, <3>2, MaxReqAssumption DEF Partition
  <2>4. Distinct(gathering) /\ \A j \in multi_jobs : Apart(gathering, j.calls)
    BY <1>2 DEF Partition
  <2>5. /\ multi_jobs' \in SUBSET JobType /\ IsFiniteSet(multi_jobs')
        /\ Cardinality(multi_jobs') = Cardinality(multi_jobs) + 1
        /\ Cardinality(multi_jobs) \in Nat
        /\ Partition'
        /\ \A t \in Stores : JobsOf(t)' =
             JobsOf(t) \cup IF t \in ToSet(gathering) THEN {new} ELSE {}
    BY <1>1, <1>4, <2>1, <2>3, <2>4, NewJob
  <2> HIDE DEF new
  <2>6. BatchTypes'
    BY <1>1, <1>2, <2>5, NoMembers DEF BatchTypes
  <2>7. Counted'
    BY <1>1, <1>2, <2>5 DEF Counted, BatchTypes
  <2>8. ASSUME NEW t \in Stores  PROVE CallLife(t)'
    <3>1. CallLife(t) /\ ToSet(gathering') = {}
      BY <1>1, NoMembers DEF BatchInv
    <3>2. CASE t \in ToSet(gathering)
      <4>1. JobsOf(t) = {} /\ store[t] = "batched"
        BY <3>1, <3>2, OneJob DEF CallLife, JobsOf
      <4>2. JobsOf(t)' = {new}
        BY <2>5, <3>2, <4>1
      <4> QED BY <1>1, <2>2, <3>1, <4>1, <4>2 DEF CallLife
    <3>3. CASE t \notin ToSet(gathering)
      <4>1. JobsOf(t)' = JobsOf(t)
        BY <2>5, <3>3
      <4> QED BY <1>1, <3>1, <3>3, <4>1 DEF CallLife
    <3> QED BY <3>2, <3>3
  <2> QED BY <2>5, <2>6, <2>7, <2>8 DEF BatchInv
<1> QED BY <1>3, <1>4

\* Wait() cancels what is gathered.
LEMMA WaitUnregisteredInv ==
  ASSUME BatchInv, WaitUnregistered
  PROVE  BatchInv'
<1>1. /\ UNCHANGED <<blob_of, multi_jobs, num_multi_job, rpc_down>>
      /\ gathering' = <<>> /\ periodic_id' = FALSE
      /\ store' = [s \in Stores |->
                     IF s \in ToSet(gathering) THEN "failed" ELSE store[s]]
  BY DEF WaitUnregistered
<1>2. BatchTypes /\ Partition /\ Counted
  BY DEF BatchInv
<1>3. BatchTypes'
  <2>1. periodic_id' \in BOOLEAN
    BY <1>1
  <2>2. store' \in [Stores -> {"new", "unlocked", "direct", "batched", "ok",
                               "failed"}]
    BY <1>1, <1>2 DEF BatchTypes
  <2> QED BY <1>1, <1>2, <2>1, <2>2, NoMembers DEF BatchTypes
<1>4. Partition'
  <2>1. Distinct(gathering') /\ Len(gathering') < MaxReqInCall
    BY <1>1, NoMembers, MaxReqAssumption
  <2>2. \A j \in multi_jobs : Apart(gathering', j.calls)
    BY <1>1, NoMembers DEF Apart
  <2> QED BY <1>1, <1>2, <2>1, <2>2 DEF Partition
<1>5. Counted'
  BY <1>1, <1>2 DEF Counted
<1>6. ASSUME NEW t \in Stores  PROVE CallLife(t)'
  <2>1. CallLife(t) /\ ToSet(gathering') = {} /\ JobsOf(t)' = JobsOf(t)
    BY <1>1, NoMembers DEF BatchInv, JobsOf
  <2>2. CASE t \in ToSet(gathering)
    <3>1. JobsOf(t) = {} /\ store'[t] = "failed"
      BY <1>1, <2>2, OneJob DEF JobsOf
    <3> QED BY <1>1, <2>1, <3>1 DEF CallLife
  <2>3. CASE t \notin ToSet(gathering)
    BY <1>1, <2>1, <2>3 DEF CallLife
  <2> QED BY <2>2, <2>3
<1> QED BY <1>3, <1>4, <1>5, <1>6 DEF BatchInv

-----------------------------------------------------------------------------
(***************************************************************************)
(* The jobs.                                                               *)
(***************************************************************************)
\* The calls of a job, by where it is.
LEMMA CallsOfJob ==
  ASSUME BatchInv, NEW j \in multi_jobs, NEW t \in ToSet(j.calls), j.at # "replied"
  PROVE  t \in Stores /\ JobsOf(t) = {j} /\ t \notin ToSet(gathering)
         /\ store[t] = "batched"
<1>1. t \in Stores
  BY Members DEF BatchInv, BatchTypes, JobType
<1>2. JobsOf(t) = {j} /\ t \notin ToSet(gathering)
  BY <1>1, OneJob
<1>3. CallLife(t)
  BY <1>1 DEF BatchInv
<1> QED BY <1>1, <1>2, <1>3 DEF CallLife

\* The blobs of several calls move into the request of the job.
LEMMA JobCallInv ==
  ASSUME BatchInv, NEW j \in multi_jobs, JobCall(j)
  PROVE  BatchInv'
<1>1. /\ j.at = "made" /\ To(j, "sent")
      /\ UNCHANGED <<store, gathering, num_multi_job, periodic_id, rpc_down>>
      /\ blob_of' = [s \in Stores |->
           IF s \in ToSet(j.calls) /\ Len(j.calls) > 1 THEN "multi" ELSE blob_of[s]]
  BY DEF JobCall
<1>2. BatchTypes /\ Partition /\ Counted
  BY DEF BatchInv
<1> DEFINE new == Job(j.calls, "sent")
<1>3. new.at = "sent"
  BY DEF Job
<1>4. /\ multi_jobs' \in SUBSET JobType /\ IsFiniteSet(multi_jobs')
      /\ Cardinality(multi_jobs') = Cardinality(multi_jobs)
      /\ Partition'
      /\ \A s \in Stores : JobsOf(s)' =
           IF s \in ToSet(j.calls) THEN {new} ELSE JobsOf(s)
  BY <1>1, JobMoves
<1> HIDE DEF new
<1>5. BatchTypes'
  <2>1. blob_of' \in [Stores -> {"own", "multi"}]
    BY <1>1, <1>2 DEF BatchTypes
  <2> QED BY <1>1, <1>2, <1>4, <2>1 DEF BatchTypes
<1>6. Counted'
  BY <1>1, <1>2, <1>4 DEF Counted
<1>7. ASSUME NEW t \in Stores  PROVE CallLife(t)'
  <2>1. CallLife(t)
    BY DEF BatchInv
  <2>2. CASE t \in ToSet(j.calls)
    <3>1. t \notin ToSet(gathering) /\ store[t] = "batched"
      BY <1>1, <2>2, CallsOfJob
    <3>2. JobsOf(t)' = {new}
      BY <1>4, <2>2
    <3> QED BY <1>1, <1>3, <3>1, <3>2 DEF CallLife
  <2>3. CASE t \notin ToSet(j.calls)
    <3>1. JobsOf(t)' = JobsOf(t) /\ blob_of'[t] = blob_of[t]
      BY <1>1, <1>4, <2>3
    <3> QED BY <1>1, <2>1, <3>1 DEF CallLife
  <2> QED BY <2>2, <2>3
<1> QED BY <1>4, <1>5, <1>6, <1>7 DEF BatchInv

\* The blobs go back and the callers wake up.
LEMMA JobReplyInv ==
  ASSUME BatchInv, NEW j \in multi_jobs, JobReply(j)
  PROVE  BatchInv'
<1>1. /\ j.at = "sent" /\ To(j, "replied")
      /\ UNCHANGED <<gathering, num_multi_job, periodic_id, rpc_down>>
      /\ blob_of' = [s \in Stores |->
                       IF s \in ToSet(j.calls) THEN "own" ELSE blob_of[s]]
  BY DEF JobReply
<1>2. PICK err \in {"none", "404", "error"}, keys \in 0..Len(j.calls) :
        store' = [s \in Stores |-> IF s \in ToSet(j.calls)
                                   THEN EndOf(j, err, keys, s) ELSE store[s]]
  BY DEF JobReply
<1>3. BatchTypes /\ Partition /\ Counted
  BY DEF BatchInv
<1>4. \A s \in Stores : EndOf(j, err, keys, s) \in {"ok", "failed"}
  BY DEF EndOf
<1> DEFINE new == Job(j.calls, "replied")
<1>5. new.at = "replied"
  BY DEF Job
<1>6. /\ multi_jobs' \in SUBSET JobType /\ IsFiniteSet(multi_jobs')
      /\ Cardinality(multi_jobs') = Cardinality(multi_jobs)
      /\ Partition'
      /\ \A s \in Stores : JobsOf(s)' =
           IF s \in ToSet(j.calls) THEN {new} ELSE JobsOf(s)
  BY <1>1, JobMoves
<1> HIDE DEF new
<1>7. BatchTypes'
  <2>1. blob_of' \in [Stores -> {"own", "multi"}]
    BY <1>1, <1>3 DEF BatchTypes
  <2>2. store' \in [Stores -> {"new", "unlocked", "direct", "batched", "ok",
                               "failed"}]
    BY <1>2, <1>3, <1>4 DEF BatchTypes
  <2> QED BY <1>1, <1>3, <1>6, <2>1, <2>2 DEF BatchTypes
<1>8. Counted'
  BY <1>1, <1>3, <1>6 DEF Counted
<1>9. ASSUME NEW t \in Stores  PROVE CallLife(t)'
  <2>1. CallLife(t)
    BY DEF BatchInv
  <2>2. CASE t \in ToSet(j.calls)
    <3>1. t \notin ToSet(gathering)
      BY <1>1, <2>2, CallsOfJob
    <3>2. JobsOf(t)' = {new} /\ store'[t] \in {"ok", "failed"} /\ blob_of'[t] = "own"
      BY <1>1, <1>2, <1>4, <1>6, <2>2
    <3> QED BY <1>1, <1>5, <3>1, <3>2 DEF CallLife
  <2>3. CASE t \notin ToSet(j.calls)
    <3>1. JobsOf(t)' = JobsOf(t) /\ blob_of'[t] = blob_of[t] /\ store'[t] = store[t]
      BY <1>1, <1>2, <1>6, <2>3
    <3> QED BY <1>1, <2>1, <3>1 DEF CallLife
  <2> QED BY <2>2, <2>3
<1> QED BY <1>6, <1>7, <1>8, <1>9 DEF BatchInv

\* A job that is done is not counted any more.
LEMMA JobDoneInv ==
  ASSUME BatchInv, NEW j \in multi_jobs, JobDone(j)
  PROVE  BatchInv'
<1>1. /\ j.at = "replied" /\ num_multi_job' = num_multi_job - 1
      /\ multi_jobs' = multi_jobs \ {j}
      /\ UNCHANGED <<store, blob_of, gathering, periodic_id, rpc_down>>
  BY DEF JobDone
<1>2. BatchTypes /\ Partition /\ Counted
  BY DEF BatchInv
<1>3. /\ IsFiniteSet(multi_jobs') /\ Cardinality(multi_jobs) \in Nat
      /\ Cardinality(multi_jobs') = Cardinality(multi_jobs) - 1
  BY <1>1, <1>2, JobCounts DEF BatchTypes
<1>4. BatchTypes'
  BY <1>1, <1>2, <1>3 DEF BatchTypes
<1>5. Partition'
  BY <1>1, <1>2 DEF Partition
<1>6. Counted'
  BY <1>1, <1>2, <1>3 DEF Counted, BatchTypes
<1>7. ASSUME NEW t \in Stores  PROVE CallLife(t)'
  <2>1. CallLife(t) /\ JobsOf(t)' = JobsOf(t) \ {j}
    BY <1>1 DEF BatchInv, JobsOf
  <2> QED BY <1>1, <2>1 DEF CallLife
<1> QED BY <1>4, <1>5, <1>6, <1>7 DEF BatchInv

-----------------------------------------------------------------------------
\* Every step preserves the invariant.
LEMMA NextBatches == BatchInv /\ [StoreNext]_store_vars => BatchInv'
<1> SUFFICES ASSUME BatchInv, [StoreNext]_store_vars  PROVE BatchInv'
  OBVIOUS
<1>1. BatchTypes /\ (gathering # <<>> => periodic_id)
  BY DEF BatchInv, Counted
<1>2. CASE /\ UNCHANGED <<store, blob_of, gathering, multi_jobs, num_multi_job,
                          periodic_id>>
           /\ rpc_down' \in BOOLEAN
  BY <1>1, <1>2, SameBatches DEF BatchTypes
<1>3. CASE UNCHANGED store_vars
  <2>1. /\ UNCHANGED <<store, blob_of, gathering, multi_jobs, num_multi_job,
                       periodic_id>>
        /\ rpc_down' \in BOOLEAN
    BY <1>1, <1>3 DEF store_vars, BatchTypes
  <2> QED BY <1>2, <2>1
<1>4. CASE Alarm \/ UnregisterCheckPending \/ Wait
  <2>1. UNCHANGED <<store, blob_of, gathering, multi_jobs, num_multi_job,
                    periodic_id, rpc_down>>
    BY <1>4 DEF Alarm, UnregisterCheckPending, Wait
  <2> QED BY <1>1, <1>2, <2>1 DEF BatchTypes
<1>5. CASE RpcShutdown
  <2>1. /\ UNCHANGED <<store, blob_of, gathering, multi_jobs, num_multi_job,
                       periodic_id>>
        /\ rpc_down' \in BOOLEAN
    BY <1>5, Zenon DEF RpcShutdown
  <2> QED BY <1>2, <2>1
<1>6. CASE \E s \in Stores : Call(s) \/ DirectDone(s) \/ AddCall(s)
  BY <1>6, CallInv, AddCallInv
<1>7. CASE \E j \in multi_jobs : JobStep(j)
  BY <1>7, JobCallInv, JobReplyInv, JobDoneInv DEF JobStep
<1>8. CASE CheckPending \/ WaitUnregistered
  BY <1>8, CheckPendingInv, WaitUnregisteredInv
<1> QED BY <1>3, <1>4, <1>5, <1>6, <1>7, <1>8 DEF StoreNext

\* A call of StoreFile() that waits is in one batch, no batch is too large, its
\* blob is back when it goes on, and what is gathered has somebody to send it.
THEOREM BatchesAreExact == StoreSpec => []BatchesExact
BY InitBatches, NextBatches, InvIsExact, PTL DEF StoreSpec
==============================================================================

--------------------------- MODULE MCCompileService ---------------------------
(***************************************************************************)
(* Small instances of the compile service and of what its tasks share, the *)
(* input files and the file store, for TLC.  Each of the parts is checked  *)
(* by itself: the others, which share no state with it, stay as they are.  *)
(***************************************************************************)
EXTENDS CompileService, InputFileTask, MultiHttpRPC

CONSTANTS a, b, c

VARIABLE part

service_vars == <<part, vars, input_vars, store_vars>>

Three == {a, b, c}
Pair == {a, b}

\* One file that two tasks load and load again after it was missed, which is
\* uploaded in the request or beside it; two files that cannot be read; a file
\* that is always sent, next to none.
Plan(size, rsp, rounds) == [size |-> size, rsp |-> rsp, rounds |-> rounds]
SomePlans == {Plan(<<"mid">>, {}, 2), Plan(<<"large">>, {}, 2),
              Plan(<<"absent", "absent">>, {}, 1), Plan(<<"tiny">>, {1}, 1)}

\* Compile tasks that are through.
NoInputs ==
  /\ plan = Plan(<<>>, {}, 1)
  /\ by_filename = <<>> /\ file_task = <<>>
  /\ compile = [u \in Users |-> [NewCompile EXCEPT !.at = "end", !.calls = 1]]
  /\ file_cache = <<>> /\ known_keys = {} /\ clock = 0

PartsInit ==
  /\ part \in {"tasks", "inputs", "stores"}
  /\ Init /\ StoreInit
  /\ IF part = "inputs" THEN InputInit ELSE NoInputs

PartsNext ==
  /\ UNCHANGED part
  /\ \/ part = "tasks" /\ Next /\ UNCHANGED <<input_vars, store_vars>>
     \/ part = "inputs" /\ InputNext /\ UNCHANGED <<vars, store_vars>>
     \/ part = "stores" /\ StoreNext /\ UNCHANGED <<vars, input_vars>>

\* A part that is not in focus has nothing to do.
PartsSpec ==
  /\ PartsInit /\ [][PartsNext]_service_vars
  /\ Fairness /\ InputFairness /\ StoreFairness

\* The type invariants of the three parts.
ServiceTypeOK == TypeOK /\ InputTypeOK /\ StoreTypeOK

\* Whoever waits is served in the end: requests for a slot behind a full service
\* and linkers for their turn, tasks for their input files, which another task may
\* be loading, and uploads for the batch they are in.  Nobody waits twice for the
\* same, so that it is enough that nobody waits again and again.
EverybodyIsServed == []<>(RequestsServed /\ InputsCame /\ StoresEnded)
===============================================================================

---------------------------- MODULE CompileRequest ----------------------------
(***************************************************************************)
(* What gomacc and the build may rely on for one compile request, whatever *)
(* side compiles: the abstract specification CompileTask implements.       *)
(***************************************************************************)
VARIABLES
  answer,    \* the exit status sent to gomacc, "none" before
  output,    \* who wrote the output file
  present,   \* gomacc is there
  released,  \* the service may forget the request
  lenient    \* the answer may be given without output (dont_kill_subprocess)

request == <<answer, output, present, released>>

RequestInit ==
  answer = "none" /\ output = "none" /\ present = TRUE /\ released = FALSE

\* Before the answer the output file may change at any time.
Compile ==
  /\ answer = "none"
  /\ output' \in {"none", "partial", "local", "remote"}
  /\ UNCHANGED <<answer, present, released>>

\* There is one answer, and success is told only with the complete output of
\* one side in place.
Answer ==
  /\ answer = "none"
  /\ answer' \in {"ok", "bad"}
  /\ answer' = "ok" /\ present /\ ~lenient => output \in {"local", "remote"}
  /\ UNCHANGED <<output, present, released>>

\* Only an answered request is released, and that is the end of it.
Release ==
  /\ answer # "none" /\ ~released
  /\ released' = TRUE
  /\ UNCHANGED <<answer, output, present>>

Leave ==
  /\ present
  /\ present' = FALSE
  /\ UNCHANGED <<answer, output, released>>

RequestSpec == RequestInit /\ [][Compile \/ Answer \/ Release \/ Leave]_request
===============================================================================

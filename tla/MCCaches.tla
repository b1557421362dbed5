------------------------------- MODULE MCCaches -------------------------------
(***************************************************************************)
(* Small instances of the caches compile tasks share, for TLC: outputs on  *)
(* the disk, and what is known of compilers.  Each is checked by itself:   *)
(* the other one, which shares no state with it, stays as it is.           *)
(***************************************************************************)
EXTENDS LocalOutputCache, CompilerInfoCache

CONSTANTS a, b, c

VARIABLE focus

caches_vars == <<focus, output_vars, info_vars>>

Three == {a, b, c}

\* Two tasks with the same key and one with another, large or small.
TwoAlike == {[s \in Three |-> IF s = c THEN 1 ELSE 2], [s \in Three |-> IF s = c THEN 2 ELSE 1]}
LargerKeys == <<1, 2>>

\* A cache that was deleted.
NoOutputs ==
  /\ saver = [s \in Savers |-> Saver("gone", 1, NoFile)]
  /\ file = [k \in Keys |-> NoFile] /\ tmp = file /\ whole = {}
  /\ entries = <<>> /\ amount = 0 /\ ready = TRUE
  /\ gc = "done" /\ should_done = TRUE /\ cache_quit = "deleted"
  /\ doubled = {} /\ killed = 0

\* Two tasks in one directory and one in another.  A compiler that is in neither of
\* them, with time between the answers; one that is in a directory and changes, new
\* or loaded, where running it may fail or not; one that is in both, and may fail
\* for a time.
TwoDirs == [t \in Three |-> IF t = c THEN "there" ELSE "here"]
SomeInfoPlans == {InfoPlan({}, FALSE, 0, 1, FALSE), InfoPlan({"here"}, FALSE, 1, 0, FALSE),
                  InfoPlan({"there"}, TRUE, 1, 0, TRUE),
                  InfoPlan({"here", "there"}, FALSE, 0, 1, TRUE)}

\* Nobody asks.
NoInfos ==
  /\ info_plan = InfoPlan({}, FALSE, 0, 0, FALSE)
  /\ asker = [t \in Askers |-> [NewAsker EXCEPT !.at = "end"]]
  /\ info = [i \in Askers \cup {"loaded"} |-> NoInfo]
  /\ compiler_info = [k \in InfoKeys |-> None] /\ keys_by_hash = {}
  /\ info_waiters = [cwd \in Cwds |-> NoList]
  /\ telling = [t \in Askers |-> [info |-> None, list |-> <<>>]]
  /\ compiler = [content |-> 0, stat |-> 0] /\ info_time = 0

CachesInit ==
  /\ focus \in {"outputs", "infos"}
  /\ IF focus = "outputs" THEN OutputInit ELSE NoOutputs
  /\ IF focus = "infos" THEN InfoInit ELSE NoInfos

CachesNext ==
  /\ UNCHANGED focus
  /\ \/ focus = "outputs" /\ OutputNext /\ UNCHANGED info_vars
     \/ focus = "infos" /\ InfoNext /\ UNCHANGED output_vars

CachesSpec ==
  /\ CachesInit /\ [][CachesNext]_caches_vars
  /\ OutputFairness /\ InfoFairness

\* The type invariants of the two caches.
CachesTypeOK == OutputTypeOK /\ InfoTypeOK

\* Tasks are through with the caches in the end: whoever asks about a compiler is
\* answered, by another task if that was first, and the outputs are collected until
\* they are within their limits.
CachesServe == []<>(OutputsKept /\ InfosCame)
===============================================================================

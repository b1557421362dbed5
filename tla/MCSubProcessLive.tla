--------------------------- MODULE MCSubProcessLive ---------------------------
(***************************************************************************)
(* Liveness of SubProcessController, for the behaviours in which tasks are *)
(* killed one by one and for those in which Quit() kills them: the first   *)
(* never quit, in the second Kill() is not called from outside.            *)
(***************************************************************************)
EXTENDS MCSubProcess

VARIABLE focus

FocusInit == Init /\ focus \in {"kill", "quit"}
FocusNext ==
  /\ Next /\ UNCHANGED focus
  /\ focus = "kill" => ~quit'
  /\ focus = "quit" => ~\E t \in Ids : TaskKill(t)
FocusSpec == FocusInit /\ [][FocusNext]_<<vars, focus>> /\ Fairness
===============================================================================

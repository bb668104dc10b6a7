--------------------------- MODULE MCReadWritePtr ---------------------------
(***************************************************************************)
(* Instances for TLC of the two users of cub::Notification: ReadWritePtr   *)
(* and TaskRunners.  A behaviour is one of one module, the one whose turn  *)
(* it is; the other one stays at the beginning, where none of its fair     *)
(* actions is enabled.                                                     *)
(***************************************************************************)
EXTENDS ReadWritePtr, TaskRunners

VARIABLE turn \* the module that runs

MCGroups == {<<>>, <<1>>, <<1, 1>>}

AllInit == turn \in {"pointer", "tasks"} /\ Init /\ TrInit

AllNext == \/ turn = "pointer" /\ Next /\ UNCHANGED <<turn, trvars>>
           \/ turn = "tasks" /\ TrNext /\ UNCHANGED <<turn, vars>>

AllSpec == AllInit /\ [][AllNext]_<<turn, vars, trvars>> /\ Fairness /\ TrFairness
=============================================================================

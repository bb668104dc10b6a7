---------------------------- MODULE MCContainers ----------------------------
(***************************************************************************)
(* The intrusive lists and the optional values of the library, beside each *)
(* other and beside the modules of MCComputations.  A behaviour is one of  *)
(* one module, the one whose turn it is; the other ones stay at the        *)
(* beginning.                                                              *)
(***************************************************************************)
EXTENDS IntrusiveList, OptionalValue

VARIABLE turn \* the module that runs

ContainersInit == LInit /\ OptInit

ContainersNext == /\ UNCHANGED turn
                  /\ \/ turn = "list" /\ LNext /\ UNCHANGED ovars
                     \/ turn = "optional" /\ OptNext /\ UNCHANGED lvars
                     \/ turn = "optional" /\ misused /\ UNCHANGED <<lvars, ovars>> \* not a deadlock: undefined

ContainersSpec == ContainersInit /\ [][ContainersNext]_<<turn, lvars, ovars>>
-----------------------------------------------------------------------------
\* What the library's containers keep: the links of a list, its number and what
\* its loops visit, and the value of an Optional, each where it changes.
ContainersHold == /\ turn = "list" => ListConsistent /\ LoopVisitsAll
                  /\ turn = "optional" => OptionalsHold

\* ImplementsSequences for the behaviours of the lists: a step that links or
\* unlinks nodes does to the sequences of the lists what the operation says.
ListsAreSequences == Sequence!Init /\ [][turn = "list" /\ [Sequence!Next]_Contents]_lvars
=============================================================================

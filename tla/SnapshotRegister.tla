-------------------------- MODULE SnapshotRegister --------------------------
(***************************************************************************)
(* What cub::ReadWritePtr promises to the threads of the server: a         *)
(* register that holds one object, that readers pin, that writers replace, *)
(* and whose old objects are given back for destruction only when no       *)
(* reader pins them, but then surely.                                      *)
(***************************************************************************)
EXTENDS Naturals

CONSTANTS Readers,      \* threads that pin the object
          MaxUpdates,   \* bound on the number of replacements
          Objects,      \* which contents, the initial one and then one per
                        \* update, are objects: nullptr is not given back
          None          \* a reader that pins nothing

VARIABLES current,   \* the content a reader obtains now
          view,      \* the content each reader pins
          freed      \* the objects given back to their writer

vars == <<current, view, freed>>

Init == /\ current = 0
        /\ view = [r \in Readers |-> None]
        /\ freed = {}

Pin(r) == /\ view[r] = None
          /\ view' = [view EXCEPT ![r] = current]
          /\ UNCHANGED <<current, freed>>

Unpin(r) == /\ view[r] # None
            /\ view' = [view EXCEPT ![r] = None]
            /\ UNCHANGED <<current, freed>>

Replace == /\ current < MaxUpdates
           /\ current' = current + 1
           /\ UNCHANGED <<view, freed>>

Free(o) == /\ o < current
           /\ o \notin freed
           /\ \A r \in Readers : view[r] # o
           /\ freed' = freed \union {o}
           /\ UNCHANGED <<current, view>>

Next == \/ \E r \in Readers : Pin(r) \/ Unpin(r)
        \/ Replace
        \/ \E o \in Objects : Free(o)

Fairness == /\ \A r \in Readers : WF_vars(Unpin(r))
            /\ \A o \in Objects : WF_vars(Free(o))

Safety == Init /\ [][Next]_vars

Spec == Safety /\ Fairness
=============================================================================

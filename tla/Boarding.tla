------------------------------ MODULE Boarding ------------------------------
(***************************************************************************)
(* The boarding thread of the serving engine: BoardingLoop::once() under   *)
(* its mutex, the three passes of BoardingFunctor, the life cycle of a     *)
(* model (ModelState, AspiredState), ManagedStore, and what they publish:  *)
(* the set of served models (ServingStore) and the events of EventBus.     *)
(*                                                                         *)
(* A stream says which versions of a model the storage loop wants; any     *)
(* stream may arrive between two rounds of the boarding thread.            *)
(***************************************************************************)
EXTENDS Naturals, Sequences, SequencesExt

CONSTANTS Names,        \* model names
          Versions,     \* version numbers
          Creatable,    \* names with a configuration and a known platform
          MaxStreams,   \* bound on the queue of streams
          None          \* no model

ASSUME VersionsAreNat == Versions \subseteq Nat
ASSUME CreatableNames == Creatable \subseteq Names
ASSUME MaxStreamsNat == MaxStreams \in Nat
ASSUME NoneIsNoModel == None \notin Names \X Versions

Ids == Names \X Versions
Stream == [name : Names, versions : SUBSET Versions]
Action == {"load", "unload"} \X Ids

VARIABLES state,     \* ModelState::state of each managed model, or "ABSENT"
          aspired,   \* AspiredState::aspired of each managed model
          streams,   \* BoardingLoop::streams
          pos,       \* the iterator of BoardingFunctor::handle
          todo,      \* the actions ModelExecutor has not run yet
          pc,        \* where BoardingLoop::once() is; "idle" when mu is free
          current,   \* the model the running action is about
          serving,   \* the models in the snapshot ServingStore published
          events,    \* the last state EventBus published for each model
          target     \* history: the versions of the last stream applied

vars == <<state, aspired, streams, pos, todo, pc, current, serving, events, target>>

Managed == {id \in Ids : state[id] # "ABSENT"}
Ready == {id \in Ids : state[id] = "READY"}
Finished(id) == state[id] \in {"ERROR", "DISABLED"}
\* Mutant of ShouldStop: a model that was never loaded is not idle.
ShouldStopFinished(id) == Finished(id) /\ ~aspired[id]

ShouldStop(id) == (state[id] = "NEW" \/ Finished(id)) /\ ~aspired[id]
VersionsOf(n) == {v \in Versions : <<n, v>> \in Managed}

Init == /\ state = [id \in Ids |-> "ABSENT"]
        /\ aspired = [id \in Ids |-> TRUE]
        /\ streams = <<>>
        /\ pos = 1
        /\ todo = {}
        /\ pc = "idle"
        /\ current = None
        /\ serving = {}
        /\ events = [id \in Ids |-> "ABSENT"]
        /\ target = [n \in Names |-> {}]
-----------------------------------------------------------------------------
\* BoardingLoop::update(): the storage loop queues a stream.
Update(n, vs) ==
  /\ pc = "idle"
  /\ Len(streams) < MaxStreams
  /\ streams' = Append(streams, [name |-> n, versions |-> vs])
  /\ UNCHANGED <<state, aspired, pos, todo, pc, current, serving, events, target>>

\* BoardingLoop::once() takes the mutex and starts to handle the streams.
Begin ==
  /\ pc = "idle"
  /\ pc' = "handling"
  /\ UNCHANGED <<state, aspired, streams, pos, todo, current, serving, events, target>>

\* Mutant of ShouldSkip: streams are applied as they come.
SkipNothing(s) == FALSE

\* A stream waits while a version it wants is still on its way out.
ShouldSkip(s) ==
  \E id \in Managed : id[1] = s.name /\ id[2] \in s.versions /\ ~aspired[id]

Skip ==
  /\ pc = "handling"
  /\ pos <= Len(streams)
  /\ ShouldSkip(streams[pos])
  /\ pos' = pos + 1
  /\ UNCHANGED <<state, aspired, streams, todo, pc, current, serving, events, target>>

\* The versions of stream s that ModelAspirer starts: ManagedStore::start
\* refuses a name it cannot create and a version that is already managed.
Starting(s) == {id \in Ids \ Managed : /\ id[1] = s.name
                                      /\ id[2] \in s.versions
                                      /\ id[1] \in Creatable}

\* handleOne(): versions the stream does not name lose their aspiration, the
\* ones it names and nobody manages yet are created and announced.
Aspire ==
  /\ pc = "handling"
  /\ pos <= Len(streams)
  /\ ~ShouldSkip(streams[pos])
  /\ LET s == streams[pos] IN
     /\ aspired' = [id \in Ids |-> /\ aspired[id]
                                   /\ (id \in Managed /\ id[1] = s.name) => id[2] \in s.versions]
     /\ state' = [id \in Ids |-> IF id \in Starting(s) THEN "NEW" ELSE state[id]]
     /\ events' = [id \in Ids |-> IF id \in Starting(s) THEN "NEW" ELSE events[id]]
     /\ target' = [target EXCEPT ![s.name] = s.versions]
  /\ streams' = RemoveAt(streams, pos)
  /\ UNCHANGED <<pos, todo, pc, current, serving>>

\* ActionMaker::getActions(): the ready models nobody aspires to are unloaded
\* and the new ones are loaded.
Unaspired == {id \in Ready : ~aspired[id]}
CanUnload == \/ \A id \in Managed : ~aspired[id]
             \/ \E id \in Ready : aspired[id]
             \/ Unaspired # {}
Untouched == {id \in Ids : state[id] = "NEW" /\ aspired[id]}

Decide ==
  /\ pc = "handling"
  /\ pos > Len(streams)
  /\ todo' = ({"load"} \X Untouched)
             \union (IF CanUnload THEN {"unload"} \X Unaspired ELSE {})
  /\ pos' = 1
  /\ pc' = "boarding"
  /\ UNCHANGED <<state, aspired, streams, current, serving, events, target>>

\* ManagedStore::load(): the actions are sorted, loads first.
BeginLoad(id) ==
  /\ pc = "boarding"
  /\ <<"load", id>> \in todo
  /\ todo' = todo \ {<<"load", id>>}
  /\ state' = [state EXCEPT ![id] = "LOADING"]
  /\ current' = id
  /\ pc' = "loading"
  /\ UNCHANGED <<aspired, streams, pos, serving, events, target>>

LoadSucceeds ==
  /\ pc = "loading"
  /\ state' = [state EXCEPT ![current] = "READY"]
  /\ pc' = "serving"
  /\ UNCHANGED <<aspired, streams, pos, todo, current, serving, events, target>>

\* boarding() returns early: nothing is served and nothing is announced.
LoadFails ==
  /\ pc = "loading"
  /\ state' = [state EXCEPT ![current] = "ERROR"]
  /\ current' = None
  /\ pc' = "boarding"
  /\ UNCHANGED <<aspired, streams, pos, todo, serving, events, target>>

\* Mutant of BeginUnload: the actions run in any order.
BeginUnloadUnsorted(id) ==
  /\ pc = "boarding"
  /\ <<"unload", id>> \in todo
  /\ todo' = todo \ {<<"unload", id>>}
  /\ state' = [state EXCEPT ![id] = "UNLOADING"]
  /\ current' = id
  /\ pc' = "unloading"
  /\ UNCHANGED <<aspired, streams, pos, serving, events, target>>

\* ManagedStore::unload(): only when no load is left to run.
BeginUnload(id) ==
  /\ pc = "boarding"
  /\ \A a \in todo : a[1] = "unload"
  /\ <<"unload", id>> \in todo
  /\ todo' = todo \ {<<"unload", id>>}
  /\ state' = [state EXCEPT ![id] = "UNLOADING"]
  /\ current' = id
  /\ pc' = "unloading"
  /\ UNCHANGED <<aspired, streams, pos, serving, events, target>>

\* Mutant of FinishUnload: the index is not updated after an unload.
FinishUnloadUnserved ==
  /\ pc = "unloading"
  /\ state' = [state EXCEPT ![current] = "DISABLED"]
  /\ pc' = "boarding"
  /\ UNCHANGED <<aspired, streams, pos, todo, current, serving, events, target>>

\* unloadBare() resets the bundle; it reports success in every runtime.
FinishUnload ==
  /\ pc = "unloading"
  /\ state' = [state EXCEPT ![current] = "DISABLED"]
  /\ pc' = "serving"
  /\ UNCHANGED <<aspired, streams, pos, todo, current, serving, events, target>>

\* ServingStore::update() swaps in the index of the ready models ...
Serve ==
  /\ pc = "serving"
  /\ serving' = Ready
  /\ pc' = "draining"
  /\ UNCHANGED <<state, aspired, streams, pos, todo, current, events, target>>

\* ... and returns when the readers of the old one have gone; then the new
\* state of the model is announced.
Publish ==
  /\ pc = "draining"
  /\ events' = [events EXCEPT ![current] = state[current]]
  /\ current' = None
  /\ pc' = "boarding"
  /\ UNCHANGED <<state, aspired, streams, pos, todo, serving, target>>

\* Mutant of Flush: only failed models leave the store.
FlushErrors ==
  /\ pc = "boarding"
  /\ todo = {}
  /\ state' = [id \in Ids |-> IF ShouldStop(id) /\ state[id] = "ERROR" THEN "ABSENT" ELSE state[id]]
  /\ aspired' = [id \in Ids |-> aspired[id] \/ (ShouldStop(id) /\ state[id] = "ERROR")]
  /\ pc' = "idle"
  /\ UNCHANGED <<streams, pos, todo, current, serving, events, target>>

\* flush(): what is idle and not aspired to leaves the store, silently.
Flush ==
  /\ pc = "boarding"
  /\ todo = {}
  /\ state' = [id \in Ids |-> IF ShouldStop(id) THEN "ABSENT" ELSE state[id]]
  /\ aspired' = [id \in Ids |-> aspired[id] \/ ShouldStop(id)]
  /\ pc' = "idle"
  /\ UNCHANGED <<streams, pos, todo, current, serving, events, target>>

Once == \/ Begin \/ Skip \/ Aspire \/ Decide
        \/ \E id \in Ids : BeginLoad(id) \/ BeginUnload(id)
        \/ LoadSucceeds \/ LoadFails \/ FinishUnload
        \/ Serve \/ Publish \/ Flush

Next == \/ \E n \in Names, vs \in SUBSET Versions : Update(n, vs)
        \/ Once

\* The polling thread runs for ever, and loading a model comes to an end.
Fairness == WF_vars(Once)

Spec == Init /\ [][Next]_vars /\ Fairness
-----------------------------------------------------------------------------
States == {"ABSENT", "NEW", "LOADING", "READY", "UNLOADING", "DISABLED", "ERROR"}

TypeOK ==
  /\ state \in [Ids -> States]
  /\ aspired \in [Ids -> BOOLEAN]
  /\ streams \in Seq(Stream) /\ Len(streams) <= MaxStreams
  /\ pos \in 1 .. Len(streams) + 1
  /\ todo \subseteq Action
  /\ pc \in {"idle", "handling", "boarding", "loading", "unloading", "serving", "draining"}
  /\ current \in Ids \union {None}
  /\ serving \subseteq Ids
  /\ events \in [Ids -> States]
  /\ target \in [Names -> SUBSET Versions]

\* When a round is over every managed model is wanted and its load was tried:
\* nothing new, nothing half unloaded and nothing unwanted is left behind,
\* whatever mixture of streams the round handled.
RoundSettles ==
  pc = "idle" => \A id \in Managed : aspired[id] /\ state[id] \in {"READY", "ERROR"}

\* Outside the steps that load or unload one model, the published index holds
\* the ready models, all of them and no other.
ServingMatchesReady == pc \in {"idle", "handling", "boarding"} => serving = Ready

\* When a round is over the managed versions of a model are the ones the last
\* stream applied to it named, failed ones included.
FollowsLastStream ==
  pc = "idle" => \A n \in Names :
    VersionsOf(n) = IF n \in Creatable THEN target[n] ELSE {}

\* During a version transition the old version is served until the new one
\* is: a name leaves the index only when no version it should have is left
\* that loaded.
NoServingGap ==
  [][\A n \in Names :
       /\ \E v \in Versions : <<n, v>> \in serving
       /\ \A v \in Versions : <<n, v>> \notin serving'
       => \A id \in Managed : id[1] = n /\ aspired[id] => state[id] = "ERROR"]_vars

\* A stream that waits behind an outgoing version is taken in the end: when no
\* more streams arrive the queue empties.
StreamsCease == <>[][Len(streams') <= Len(streams)]_vars
QueueDrains == StreamsCease => <>[](streams = <<>>)
=============================================================================

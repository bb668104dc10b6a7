------------------------------ MODULE Prediction ------------------------------
(***************************************************************************)
(* Requests against the published models while the boarding thread loads   *)
(* and unloads them.  PredictImpl::predict() finds a model in the snapshot *)
(* ServingStore has published and keeps the snapshot until it returns;     *)
(* ServingStore::update() comes back when nobody keeps the old one.        *)
(*                                                                         *)
(* Which model of the snapshot answers a request is what ServingIndex      *)
(* shows of the index; here the answer is defined by that result.          *)
(***************************************************************************)
EXTENDS Boarding

CONSTANT Requests     \* handler threads, one request each at a time

ASSUME VersionsFinite == IsFiniteSet(Versions)

VARIABLES phase,      \* where the handler is
          ask,        \* the model_spec of the request it serves
          model,      \* the model its handle refers to
          onOld       \* handlers whose handle keeps the snapshot before this one

rvars == <<phase, ask, model, onOld>>
pvars == <<vars, rvars>>

Ask == [name : Names, choice : {"version"}, value : Versions]
       \union [name : Names, choice : {"latest", "stable"}, value : {0}]

PInit == /\ Init
         /\ phase = [r \in Requests |-> "idle"]
         /\ ask = [r \in Requests |-> None]
         /\ model = [r \in Requests |-> None]
         /\ onOld = {}

\* The published models of a name, and the one that answers a request.
ServedOf(n) == {id \in serving : id[1] = n}

\* Mutant of Answers: the labels are swapped.
AnswersSwapped(a, id) ==
  CASE a.choice = "version" -> id[2] = a.value
    [] a.choice = "stable" -> \A other \in ServedOf(a.name) : other[2] <= id[2]
    [] a.choice = "latest" -> \A other \in ServedOf(a.name) : id[2] <= other[2]

Answers(a, id) ==
  CASE a.choice = "version" -> id[2] = a.value
    [] a.choice = "latest" -> \A other \in ServedOf(a.name) : other[2] <= id[2]
    [] a.choice = "stable" -> \A other \in ServedOf(a.name) : id[2] <= other[2]
Found(a) == {id \in ServedOf(a.name) : Answers(a, id)}

\* The bundle of a model: loadBare() makes it, unloadBare() resets it.
HasBundle(id) == state[id] \in {"READY", "UNLOADING"}
-----------------------------------------------------------------------------
\* ServingStore::find() pins the snapshot and hands out a handle ...
Find(r, a) ==
  /\ phase[r] = "idle"
  /\ \E id \in Found(a) : model' = [model EXCEPT ![r] = id]
  /\ ask' = [ask EXCEPT ![r] = a]
  /\ phase' = [phase EXCEPT ![r] = "found"]
  /\ UNCHANGED <<vars, onOld>>

\* ... or nothing: the client gets InvalidArgument.
Refuse(r, a) ==
  /\ phase[r] = "idle"
  /\ Found(a) = {}
  /\ ask' = [ask EXCEPT ![r] = a]
  /\ phase' = [phase EXCEPT ![r] = "refused"]
  /\ UNCHANGED <<vars, model, onOld>>

\* checkOutputRequest() passes and the runtime works with the bundle.
Run(r) ==
  /\ phase[r] = "found"
  /\ phase' = [phase EXCEPT ![r] = "running"]
  /\ UNCHANGED <<vars, ask, model, onOld>>

\* The handle goes out of scope, after an answer or an error.
Return(r) ==
  /\ phase[r] # "idle"
  /\ phase' = [phase EXCEPT ![r] = "idle"]
  /\ ask' = [ask EXCEPT ![r] = None]
  /\ model' = [model EXCEPT ![r] = None]
  /\ onOld' = onOld \ {r}
  /\ UNCHANGED vars

\* Who holds a handle, and with it the snapshot it was found in.
Pinning == {r \in Requests : phase[r] \in {"found", "running"}}

\* ServingStore::update() publishes: the handles there are now keep the old
\* snapshot, ...
ServeNew == /\ Serve
            /\ onOld' = Pinning
            /\ UNCHANGED <<phase, ask, model>>

\* Mutant of Drained: update() does not wait for the old readers.
DrainedAtOnce == Publish /\ UNCHANGED rvars

\* Mutant of Drained: it waits for the readers of the new snapshot, too.
DrainedOfAll == /\ Pinning = {}
                /\ Publish
                /\ UNCHANGED rvars

\* ... and it returns when the last of them is gone.
Drained == /\ onOld = {}
           /\ Publish
           /\ UNCHANGED rvars

PBoarding == \/ /\ \/ Begin \/ Skip \/ Aspire \/ Decide
                   \/ \E id \in Ids : BeginLoad(id) \/ BeginUnload(id)
                   \/ LoadSucceeds \/ LoadFails \/ FinishUnload \/ Flush
                /\ UNCHANGED rvars
             \/ ServeNew \/ Drained

PNext == \/ \E n \in Names, vs \in SUBSET Versions : Update(n, vs) /\ UNCHANGED rvars
         \/ PBoarding
         \/ \E r \in Requests : \/ \E a \in Ask : Find(r, a) \/ Refuse(r, a)
                                \/ Run(r) \/ Return(r)

\* The boarding thread runs, and a request that is being served ends.
PFairness == /\ WF_pvars(PBoarding)
             /\ \A r \in Requests : WF_pvars(Return(r))

PSpec == PInit /\ [][PNext]_pvars /\ PFairness
-----------------------------------------------------------------------------
\* Between two actions of the boarding thread every request that has a handle
\* has it to a ready model, however long ago it found it: an unload is not
\* over before the requests that found the model are.
RequestsKeepReady ==
  pc \in {"idle", "handling", "boarding"} =>
    \A r \in Pinning : state[model[r]] = "READY"

\* "the system will serve the best available version": a request is refused,
\* or gets an older version than there is, only in the moment between the
\* loading of the better version and its publication.
BestAvailable ==
  [][\A r \in Requests, id \in Ids :
       /\ phase[r] = "idle" /\ phase'[r] # "idle"
       /\ ask'[r].name = id[1] /\ state[id] = "READY" /\ aspired[id]
       /\ ask'[r].choice = "latest" \/ ask'[r].value = id[2]
       => \/ pc = "serving" /\ current = id
          \/ phase'[r] = "found" /\ model'[r][2] >= id[2]]_pvars

\* New requests do not hold up the boarding thread: update() waits for the
\* old ones only, so that a round ends under any load.
BoardingGoesOn == pc # "idle" ~> pc = "idle"

\* The comment on AutoModelHandle::operator*: "preconditon: isNotNull()".
BundlePresent == \A r \in Requests : phase[r] = "running" => HasBundle(model[r])
=============================================================================

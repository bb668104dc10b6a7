------------------------------- MODULE Startup -------------------------------
(***************************************************************************)
(* The start of the server: ServerCoreImpl::config() connects the storage  *)
(* loop, the boarding loop and the state monitor, and then waits until the *)
(* monitor has seen something of every model it waits for.                 *)
(*                                                                         *)
(* With the loading method "automatic" the two loops poll in threads of    *)
(* their own; otherwise the main thread runs each of them once.  What the  *)
(* directories hold, which versions fail to load and the loading method    *)
(* are chosen at the start and stay: no handler runs yet to change them.   *)
(***************************************************************************)
EXTENDS Boarding

CONSTANT Waited     \* names whose version policy makes the monitor wait

ASSUME WaitedAreNames == Waited \subseteq Names

VARIABLES automatic,  \* ModelOptions::getLoadingMethod() = "automatic"
          disk,       \* the versions the policy of each name selects
          broken,     \* the versions whose load fails
          offering,   \* the streams StorageLoop::update() still has to hand over
          main        \* where the main thread is in config()

config == <<automatic, disk, broken>>
svars == <<vars, automatic, disk, broken, offering, main>>

SInit == /\ Init
         /\ automatic \in BOOLEAN
         /\ disk \in [Names -> SUBSET Versions]
         /\ broken \in SUBSET Ids
         /\ offering = {}
         /\ main = "config"

\* Mutant of Appeared: a model that was only created has appeared.
AppearedAnyhow(s) == s # "ABSENT"

\* ModelState::appeared() of the last event of a version.
Appeared(s) == s \in {"READY", "ERROR", "DISABLED"}

\* ModelStateProbe::shoudNotify(): one version of each name is enough.
Probe(ev) == \A n \in Waited : \E v \in Versions : Appeared(ev[<<n, v>>])
-----------------------------------------------------------------------------
\* config(): the threads start to poll, or the main thread does a round.
StartThreads == /\ main = "config"
                /\ automatic
                /\ main' = "connected"
                /\ UNCHANGED <<vars, config, offering>>

StorageOnce == /\ main = "config"
               /\ ~automatic
               /\ offering' = Names
               /\ main' = "storing"
               /\ UNCHANGED <<vars, config>>

BoardingOnce == /\ main = "storing"
                /\ offering = {}
                /\ Begin
                /\ main' = "boarding"
                /\ UNCHANGED <<config, offering>>

\* StorageLoop::once() in its thread: a stream for every configured model.
StoragePoll == /\ automatic /\ main # "config"
               /\ offering = {}
               /\ offering' = Names
               /\ UNCHANGED <<vars, config, main>>

Offer(n) == /\ n \in offering
            /\ Update(n, disk[n])
            /\ offering' = offering \ {n}
            /\ UNCHANGED <<config, main>>

BoardingPoll == /\ automatic /\ main # "config"
                /\ Begin
                /\ UNCHANGED <<config, offering, main>>

\* StateMonitor::handle(): an event may be the one the main thread waits for.
Woken(ev) == IF main = "waiting" /\ Probe(ev) THEN "running" ELSE main

\* The boarding round, on whichever thread it runs.  While the directories
\* stay nothing is unloaded and no stream waits.
Work == /\ \/ Aspire \/ Decide
           \/ \E id \in Ids : BeginLoad(id)
           \/ LoadSucceeds /\ current \notin broken
           \/ LoadFails /\ current \in broken
           \/ Serve \/ Publish
        /\ main' = Woken(events')
        /\ UNCHANGED <<config, offering>>

EndRound == /\ Flush
            /\ main' = IF main = "boarding" THEN "connected" ELSE main
            /\ UNCHANGED <<config, offering>>

\* Mutant of Wait: the probe is queued and only later events are looked at.
WaitForEvent == /\ main = "connected"
                /\ main' = "waiting"
                /\ UNCHANGED <<vars, config, offering>>

\* StateMonitor::wait(): enqueue() looks at the events seen so far, under the
\* mutex that handle() takes.
Wait == /\ main = "connected"
        /\ main' = IF Probe(events) THEN "running" ELSE "waiting"
        /\ UNCHANGED <<vars, config, offering>>

SNext == \/ StartThreads \/ StorageOnce \/ BoardingOnce \/ Wait
         \/ StoragePoll \/ \E n \in Names : Offer(n)
         \/ BoardingPoll \/ Work \/ EndRound

\* Every thread runs; the boarding thread sleeps between two rounds, so that
\* the storage thread gets the mutex they share.
SFairness == /\ WF_svars(StartThreads) /\ WF_svars(StorageOnce)
             /\ WF_svars(BoardingOnce) /\ WF_svars(Wait)
             /\ WF_svars(StoragePoll) /\ WF_svars(BoardingPoll)
             /\ WF_svars(Work) /\ WF_svars(EndRound)
             /\ \A n \in Names : SF_svars(Offer(n))

SSpec == SInit /\ [][SNext]_svars /\ SFairness
-----------------------------------------------------------------------------
Served(n) == \E v \in Versions : <<n, v>> \in serving
Loadable(n) == n \in Creatable /\ \E v \in disk[n] : <<n, v>> \notin broken

\* The servers open only when a version of every model that is waited for is
\* in the published index: the first requests find it.
ServedAtStart == main = "running" => \A n \in Waited : Served(n)

\* The main thread waits for good only for a model that cannot be served:
\* the monitor loses no event, whichever comes first, the event or the probe.
StartupReturns == (\A n \in Waited : Loadable(n)) ~> main = "running"
=============================================================================

------------------------- MODULE ReadWritePtr_proofs -------------------------
(***************************************************************************)
(* For any readers, writers and number of updates: the state of            *)
(* ReadWritePtr is well typed, a pinned object is never reclaimed, nobody  *)
(* is late for a Notification but a reader of a null object, and every     *)
(* step of the pointer is a step of SnapshotRegister.                      *)
(*                                                                         *)
(* The last part is about TaskRunners, the other user of Notification, for *)
(* any requests and any groups of runners: its state is well typed, no     *)
(* algorithm object has two threads, and no thread uses the frame of a     *)
(* request that has left it.                                               *)
(***************************************************************************)
EXTENDS ReadWritePtr, TaskRunners, TLAPS

\* Nothing is known of a cell that is not published yet.
Allocated ==
  /\ published \in own
  /\ \A c \in notified : c <= published
  /\ \A c \in destroyed : c < published
  /\ \A t \in Threads : at[t] <= published
  /\ \A r \in Readers : held[r] # None => held[r] <= published

\* A reader holds a reference exactly while it is reading.
HoldsWhileReading == \A r \in Readers : pc[r] = "reading" <=> held[r] # None

\* The cells that writers have swapped out are all different.  Each has its own
\* reference until its writer releases it, and is there until he destroys it.
Releasing ==
  /\ \A w \in Writers : pc[w] # "idle" => at[w] < published
  /\ \A w \in Writers : pc[w] = "releasing" => at[w] \in own
  /\ \A v, w \in Writers :
       pc[v] # "idle" /\ pc[w] # "idle" /\ at[v] = at[w] => v = w
  /\ \A w \in Writers : pc[w] \notin {"idle", "returning"} => at[w] \notin destroyed

\* No reference to the cell's object is left.
Dropped(c) == c \notin own /\ \A r \in Readers : held[r] # c

InDeleter(t) == pc[t] \in {"deleting", "notifying"}

\* The deleter of a cell runs in one thread, once, when no reference is left.
DeletedOnce ==
  /\ \A c \in notified : Dropped(c)
  /\ \A t \in Threads : InDeleter(t) => Dropped(at[t])
  /\ \A t \in Threads : pc[t] = "deleting" => at[t] \notin notified
  /\ \A t \in Threads : pc[t] = "notifying" => at[t] \in notified
  /\ \A t, u \in Threads : InDeleter(t) /\ InDeleter(u) /\ at[t] = at[u] => t = u

\* A cell is torn down only after its notifier left, and if it has an object only
\* after its Notification was set.
TornDownAfterNotified ==
  /\ \A w \in Writers : pc[w] \in {"destroying", "returning"} /\ HasObject(at[w])
                        => at[w] \in notified
  /\ \A c \in destroyed \union reclaimed : HasObject(c) => c \in notified
  /\ \A t \in Threads : pc[t] = "notifying" => at[t] \notin destroyed

IInv == /\ TypeOK
        /\ Allocated
        /\ HoldsWhileReading
        /\ Releasing
        /\ DeletedOnce
        /\ TornDownAfterNotified
-----------------------------------------------------------------------------
\* The initial state, one cell published and every thread idle, satisfies IInv.
LEMMA InitIInv == Init => IInv
  BY ThreadsDisjoint, BoundIsNat, NoneIsNoCell
  DEF Init, IInv, TypeOK, Allocated, HoldsWhileReading, Releasing, DeletedOnce,
      Dropped, InDeleter, TornDownAfterNotified, HasObject, Cell, Threads

\* Every step of get(), of update() and of the deleter preserves IInv.
LEMMA NextIInv == IInv /\ [Next]_vars => IInv'
<1> SUFFICES ASSUME IInv, [Next]_vars PROVE IInv'
  OBVIOUS
<1> USE ThreadsDisjoint, BoundIsNat, NoneIsNoCell DEF IInv
<1>1. ASSUME NEW r \in Readers, Get(r) PROVE IInv'
  <2>1. TypeOK'
    BY <1>1 DEF Get, TypeOK, Cell, Threads
  <2>2. Allocated'
    BY <1>1 DEF Get, Allocated, TypeOK, Cell, Threads
  <2>3. HoldsWhileReading'
    BY <1>1 DEF Get, HoldsWhileReading, TypeOK, Cell, Threads
  <2>4. Releasing'
    BY <1>1 DEF Get, Releasing, Allocated, TypeOK, Cell, Threads
  <2>5. DeletedOnce'
    BY <1>1 DEF Get, DeletedOnce, InDeleter, Dropped, HeldBy, Releasing, Allocated, HoldsWhileReading, TypeOK, Cell, Threads
  <2>6. TornDownAfterNotified'
    BY <1>1 DEF Get, TornDownAfterNotified, DeletedOnce, InDeleter, Dropped, HasObject, Releasing, Allocated, TypeOK, Cell, Threads
  <2> QED BY <2>1, <2>2, <2>3, <2>4, <2>5, <2>6
<1>2. ASSUME NEW r \in Readers, Drop(r) PROVE IInv'
  <2>1. TypeOK'
    BY <1>2 DEF Drop, HoldsWhileReading, TypeOK, Cell, Threads
  <2>2. Allocated'
    BY <1>2 DEF Drop, Allocated, HoldsWhileReading, TypeOK, Cell, Threads
  <2>3. HoldsWhileReading'
    BY <1>2 DEF Drop, HoldsWhileReading, TypeOK, Threads
  <2>4. Releasing'
    BY <1>2 DEF Drop, Releasing, Allocated, TypeOK, Cell, Threads
  <2>5. DeletedOnce'
    BY <1>2 DEF Drop, DeletedOnce, InDeleter, Dropped, HeldBy, Releasing, Allocated, HoldsWhileReading, TypeOK, Cell, Threads
  <2>6. TornDownAfterNotified'
    BY <1>2 DEF Drop, TornDownAfterNotified, DeletedOnce, InDeleter, Dropped, HasObject, Releasing, Allocated, TypeOK, Cell, Threads
  <2> QED BY <2>1, <2>2, <2>3, <2>4, <2>5, <2>6
<1>3. ASSUME NEW w \in Writers, Swap(w) PROVE IInv'
  <2>1. TypeOK'
    BY <1>3 DEF Swap, TypeOK, Cell, Threads
  <2>2. Allocated'
    BY <1>3 DEF Swap, Allocated, TypeOK, Cell, Threads
  <2>3. HoldsWhileReading'
    BY <1>3 DEF Swap, HoldsWhileReading, TypeOK, Threads
  <2>4. Releasing'
    BY <1>3 DEF Swap, Releasing, Allocated, TypeOK, Cell, Threads
  <2>5. DeletedOnce'
    BY <1>3 DEF Swap, DeletedOnce, InDeleter, Dropped, HeldBy, Releasing, Allocated, HoldsWhileReading, TypeOK, Cell, Threads
  <2>6. TornDownAfterNotified'
    BY <1>3 DEF Swap, TornDownAfterNotified, DeletedOnce, InDeleter, Dropped, HasObject, Releasing, Allocated, TypeOK, Cell, Threads
  <2> QED BY <2>1, <2>2, <2>3, <2>4, <2>5, <2>6
<1>4. ASSUME NEW w \in Writers, Release(w) PROVE IInv'
  <2>1. TypeOK'
    BY <1>4 DEF Release, TypeOK, Cell, Threads
  <2>2. Allocated'
    BY <1>4 DEF Release, Allocated, Releasing, TypeOK, Cell, Threads
  <2>3. HoldsWhileReading'
    BY <1>4 DEF Release, HoldsWhileReading, TypeOK, Threads
  <2>4. Releasing'
    BY <1>4 DEF Release, Releasing, Allocated, TypeOK, Cell, Threads
  <2>5. DeletedOnce'
    BY <1>4 DEF Release, DeletedOnce, InDeleter, Dropped, HeldBy, Releasing, Allocated, HoldsWhileReading, TypeOK, Cell, Threads
  <2>6. TornDownAfterNotified'
    BY <1>4 DEF Release, TornDownAfterNotified, HasObject, TypeOK, Threads
  <2> QED BY <2>1, <2>2, <2>3, <2>4, <2>5, <2>6
<1>5. ASSUME NEW w \in Writers, Wait(w) PROVE IInv'
  <2>1. TypeOK'
    BY <1>5 DEF Wait, TypeOK, Cell, Threads
  <2>2. Allocated'
    BY <1>5 DEF Wait, Allocated, TypeOK, Cell, Threads
  <2>3. HoldsWhileReading'
    BY <1>5 DEF Wait, HoldsWhileReading, TypeOK, Threads
  <2>4. Releasing'
    BY <1>5 DEF Wait, Releasing, Allocated, TypeOK, Cell, Threads
  <2>5. DeletedOnce'
    BY <1>5 DEF Wait, DeletedOnce, InDeleter, Dropped, HeldBy, Releasing, Allocated, HoldsWhileReading, TypeOK, Cell, Threads
  <2>6. TornDownAfterNotified'
    BY <1>5 DEF Wait, TornDownAfterNotified, DeletedOnce, InDeleter, Dropped, HasObject, Releasing, Allocated, TypeOK, Cell, Threads
  <2> QED BY <2>1, <2>2, <2>3, <2>4, <2>5, <2>6
<1>6. ASSUME NEW w \in Writers, Destroy(w) PROVE IInv'
  <2>1. TypeOK'
    BY <1>6 DEF Destroy, TypeOK, Cell, Threads
  <2>2. Allocated'
    BY <1>6 DEF Destroy, Allocated, Releasing, TypeOK, Cell, Threads
  <2>3. HoldsWhileReading'
    BY <1>6 DEF Destroy, HoldsWhileReading, TypeOK, Threads
  <2>4. Releasing'
    BY <1>6 DEF Destroy, Releasing, Allocated, TypeOK, Cell, Threads
  <2>5. DeletedOnce'
    BY <1>6 DEF Destroy, DeletedOnce, InDeleter, Dropped, HeldBy, Releasing, Allocated, HoldsWhileReading, TypeOK, Cell, Threads
  <2>6. TornDownAfterNotified'
    BY <1>6 DEF Destroy, TornDownAfterNotified, DeletedOnce, InDeleter, Dropped, HasObject, Releasing, Allocated, TypeOK, Cell, Threads
  <2> QED BY <2>1, <2>2, <2>3, <2>4, <2>5, <2>6
<1>7. ASSUME NEW w \in Writers, Reclaim(w) PROVE IInv'
  <2>1. TypeOK'
    BY <1>7 DEF Reclaim, TypeOK, Cell, Threads
  <2>2. Allocated'
    BY <1>7 DEF Reclaim, Allocated, TypeOK, Cell, Threads
  <2>3. HoldsWhileReading'
    BY <1>7 DEF Reclaim, HoldsWhileReading, TypeOK, Threads
  <2>4. Releasing'
    BY <1>7 DEF Reclaim, Releasing, Allocated, TypeOK, Cell, Threads
  <2>5. DeletedOnce'
    BY <1>7 DEF Reclaim, DeletedOnce, InDeleter, Dropped, HeldBy, Releasing, Allocated, HoldsWhileReading, TypeOK, Cell, Threads
  <2>6. TornDownAfterNotified'
    BY <1>7 DEF Reclaim, TornDownAfterNotified, DeletedOnce, InDeleter, Dropped, HasObject, Releasing, Allocated, TypeOK, Cell, Threads
  <2> QED BY <2>1, <2>2, <2>3, <2>4, <2>5, <2>6
<1>8. ASSUME NEW t \in Threads, Notify(t) PROVE IInv'
  <2>1. TypeOK'
    BY <1>8 DEF Notify, TypeOK, Cell, Threads
  <2>2. Allocated'
    BY <1>8 DEF Notify, Allocated, TypeOK, Cell, Threads
  <2>3. HoldsWhileReading'
    BY <1>8 DEF Notify, HoldsWhileReading, TypeOK, Threads
  <2>4. Releasing'
    BY <1>8 DEF Notify, Releasing, Allocated, TypeOK, Cell, Threads
  <2>5. DeletedOnce'
    BY <1>8 DEF Notify, DeletedOnce, InDeleter, Dropped, HeldBy, Releasing, Allocated, HoldsWhileReading, TypeOK, Cell, Threads
  <2>6. TornDownAfterNotified'
    BY <1>8 DEF Notify, TornDownAfterNotified, DeletedOnce, InDeleter, Dropped, HasObject, Releasing, Allocated, TypeOK, Cell, Threads
  <2> QED BY <2>1, <2>2, <2>3, <2>4, <2>5, <2>6
<1>9. ASSUME NEW t \in Threads, Notified(t) PROVE IInv'
  <2>1. TypeOK'
    BY <1>9 DEF Notified, TypeOK, Cell, Threads
  <2>2. Allocated'
    BY <1>9 DEF Notified, Allocated, TypeOK, Cell, Threads
  <2>3. HoldsWhileReading'
    BY <1>9 DEF Notified, HoldsWhileReading, TypeOK, Threads
  <2>4. Releasing'
    BY <1>9 DEF Notified, Releasing, Allocated, TypeOK, Cell, Threads
  <2>5. DeletedOnce'
    BY <1>9 DEF Notified, DeletedOnce, InDeleter, Dropped, HeldBy, Releasing, Allocated, HoldsWhileReading, TypeOK, Cell, Threads
  <2>6. TornDownAfterNotified'
    BY <1>9 DEF Notified, TornDownAfterNotified, DeletedOnce, InDeleter, Dropped, HasObject, Releasing, Allocated, TypeOK, Cell, Threads
  <2> QED BY <2>1, <2>2, <2>3, <2>4, <2>5, <2>6
<1>10. CASE UNCHANGED vars
  BY <1>10 DEF vars, TypeOK, Allocated, HoldsWhileReading, Releasing, DeletedOnce,
       Dropped, InDeleter, TornDownAfterNotified, HasObject
<1> QED BY <1>1, <1>2, <1>3, <1>4, <1>5, <1>6, <1>7, <1>8, <1>9, <1>10 DEF Next

\* IInv is an invariant of the pointer.
LEMMA Invariance == Spec => []IInv
  BY InitIInv, NextIInv, PTL DEF Spec
-----------------------------------------------------------------------------
\* The state of the pointer and of its threads is always well typed.
THEOREM TypeCorrect == Spec => []TypeOK
<1>1. IInv => TypeOK
  BY DEF IInv
<1> QED BY <1>1, Invariance, PTL

\* get() against update(): the object of a reference that is still held has
\* not been handed back, because its deleter has not run.
THEOREM PinnedObjectSafe == Spec => []PinnedObjectAlive
<1>1. IInv => PinnedObjectAlive
  BY DEF IInv, TornDownAfterNotified, DeletedOnce, Dropped, PinnedObjectAlive
<1> QED BY <1>1, Invariance, PTL

\* notify() against ~Notification: the thread that runs the deleter of a cell
\* with an object finds its Notification alive, and so does every thread that
\* has locked it; only a reader of a null object may come too late to lock it.
THEOREM NotificationSafe == Spec => []OnlyNullIsLate
<1>1. ASSUME IInv PROVE OnlyNullIsLate
  <2>1. ASSUME NEW t \in Threads, pc[t] = "deleting", at[t] \in destroyed
        PROVE  t \in Readers /\ ~HasObject(at[t])
    BY <1>1, <2>1 DEF IInv, Releasing, DeletedOnce, TornDownAfterNotified, Threads
  <2> QED
    BY <1>1, <2>1 DEF IInv, TornDownAfterNotified, OnlyNullIsLate
<1> QED BY <1>1, Invariance, PTL

\* A pointer that is constructed with an object, unlike that of ServingStore:
\* nobody runs the deleter of a cell that is destroyed.
THEOREM NotificationSafeWithObject == ~StartsNull => (Spec => []NotificationAlive)
<1> SUFFICES ASSUME ~StartsNull PROVE Spec => []NotificationAlive
  OBVIOUS
<1>1. OnlyNullIsLate => NotificationAlive
  BY DEF OnlyNullIsLate, NotificationAlive, HasObject
<1> QED BY <1>1, NotificationSafe, PTL

\* Every step of the pointer maps to a step of the register or to a stutter.
THEOREM RegisterSafety == Spec => Register!Safety
<1>1. Init => Register!Init
  BY DEF Init, Register!Init
<1>2. IInv /\ [Next]_vars => [Register!Next]_Register!vars
  <2> SUFFICES ASSUME IInv, [Next]_vars PROVE [Register!Next]_Register!vars
    OBVIOUS
  <2> USE NoneIsNoCell DEF IInv, Register!Next, Register!vars
  <2>1. ASSUME NEW r \in Readers, Get(r) PROVE Register!Pin(r)
    BY <2>1 DEF Get, HoldsWhileReading, Register!Pin
  <2>2. ASSUME NEW r \in Readers, Drop(r) PROVE Register!Unpin(r)
    BY <2>2 DEF Drop, HoldsWhileReading, Register!Unpin
  <2>3. ASSUME NEW w \in Writers, Swap(w) PROVE Register!Replace
    BY <2>3 DEF Swap, Register!Replace
  <2>4. ASSUME NEW w \in Writers, Reclaim(w) PROVE [Register!Next]_Register!vars
    <3>1. CASE HasObject(at[w]) /\ at[w] \notin reclaimed
      <4>1. at[w] \in {c \in Cell : HasObject(c)} /\ at[w] < published
        BY <2>4, <3>1 DEF Reclaim, Releasing, TypeOK, Threads
      <4>2. \A r \in Readers : held[r] # at[w]
        BY <2>4, <3>1 DEF Reclaim, TornDownAfterNotified, DeletedOnce, Dropped
      <4>3. {c \in reclaimed' : HasObject(c)} = {c \in reclaimed : HasObject(c)} \union {at[w]}
        BY <2>4, <3>1 DEF Reclaim
      <4>4. Register!Free(at[w])
        BY <2>4, <3>1, <4>1, <4>2, <4>3 DEF Reclaim, Register!Free
      <4> QED BY <4>1, <4>4
    <3>2. CASE ~ (HasObject(at[w]) /\ at[w] \notin reclaimed)
      <4>1. {c \in reclaimed' : HasObject(c)} = {c \in reclaimed : HasObject(c)}
        BY <2>4, <3>2 DEF Reclaim
      <4> QED BY <2>4, <4>1 DEF Reclaim
    <3> QED BY <3>1, <3>2
  <2>5. ASSUME UNCHANGED <<published, held, reclaimed>> PROVE UNCHANGED Register!vars
    BY <2>5
  <2>6. ASSUME NEW w \in Writers, Release(w) \/ Wait(w) \/ Destroy(w)
        PROVE UNCHANGED Register!vars
    BY <2>5, <2>6 DEF Release, Wait, Destroy
  <2>7. ASSUME NEW t \in Threads, Notify(t) \/ Notified(t)
        PROVE UNCHANGED Register!vars
    BY <2>5, <2>7 DEF Notify, Notified
  <2>8. CASE UNCHANGED vars
    BY <2>5, <2>8 DEF vars
  <2> QED
    BY <2>1, <2>2, <2>3, <2>4, <2>6, <2>7, <2>8 DEF Next
<1> QED BY <1>1, <1>2, Invariance, PTL DEF Spec, Register!Safety
-----------------------------------------------------------------------------
(* The runners of the tasks. *)
Waiting == {"timedwait", "timedsleep", "wait", "sleep"}

\* What a request and its frame may be.
Frames == [pc : {"idle", "schedule", "release", "destroy"} \union Waiting,
           runner : (DOMAIN trRunners) \union {NoRunner},
           timed : BOOLEAN, notified : BOOLEAN, terminate : BOOLEAN, framed : BOOLEAN,
           answer : {"none", "unavailable", "invalid", "done"}]

\* The types of the four variables; a request that has no task has no runner.
TrTypeOK ==
  /\ trModel \in {"none", "broken", "ready"}
  /\ trRunners \in [DOMAIN trRunners -> {"AVAILABLE", "UNAVAILABLE"}]
  /\ trThread \in [TrRequests -> {"none", "runs", "ran", "locked", "stored"}]
  /\ trReq \in [TrRequests -> Frames]
  /\ \A r \in TrRequests : trReq[r].pc = "idle" => trReq[r].runner = NoRunner

\* A frame is there from the choice of a runner on, and only of a model that
\* was created.
FrameWhileCalled ==
  \A r \in TrRequests : /\ trReq[r].framed <=> trReq[r].pc # "idle"
                        /\ trReq[r].pc # "idle" => trModel = "ready"

\* The thread of a task starts when it is scheduled and sets the Notification
\* last; the request goes on when it was set.
NotifiedLast ==
  \A r \in TrRequests :
    /\ trReq[r].pc \in {"idle", "schedule"} => trThread[r] = "none" /\ ~trReq[r].notified
    /\ trThread[r] \in {"runs", "ran", "locked"} => ~trReq[r].notified
    /\ trReq[r].pc \in {"release", "destroy"} => trReq[r].notified

\* A request has a runner until it gives it back.
Has(r) == trReq[r].pc \in {"schedule", "release"} \union Waiting

\* What a request has is not available and nobody else's.
OwnRunners ==
  /\ \A r \in TrRequests : Has(r) => /\ trReq[r].runner \in DOMAIN trRunners
                                     /\ trRunners[trReq[r].runner] = "UNAVAILABLE"
  /\ \A r, s \in TrRequests : Has(r) /\ Has(s) /\ trReq[r].runner = trReq[s].runner => r = s

TrInv == TrTypeOK /\ FrameWhileCalled /\ NotifiedLast /\ OwnRunners
-----------------------------------------------------------------------------
\* No model, no task and no thread: the initial state satisfies TrInv.
LEMMA TrInitInv == TrInit => TrInv
  BY DEF TrInit, NoTask, TrInv, TrTypeOK, Frames, FrameWhileCalled, NotifiedLast, OwnRunners, Has, Waiting

\* A step that moves only the place of one request, and not into or out of the
\* places where it has a runner, a frame or a result.
LEMMA GoesInv ==
  ASSUME TrInv, NEW r \in TrRequests, NEW place \in Waiting \union {"release"}, Goes(r, place),
         trReq[r].pc \in Waiting, place = "release" => trReq[r].notified
  PROVE  TrInv'
<1> USE DEF TrInv, Goes, Waiting
<1>1. TrTypeOK'
  BY DEF TrTypeOK, Frames
<1>2. FrameWhileCalled'
  BY DEF FrameWhileCalled, TrTypeOK, Frames
<1>3. NotifiedLast'
  BY DEF NotifiedLast, TrTypeOK, Frames
<1>4. OwnRunners'
  BY DEF OwnRunners, Has, TrTypeOK, Frames
<1> QED
  BY <1>1, <1>2, <1>3, <1>4

\* A step of a task's thread before it has set the Notification.
LEMMA DoesInv ==
  ASSUME TrInv, NEW r \in TrRequests, NEW place \in {"ran", "locked"}, Does(r, place),
         trThread[r] \in {"runs", "ran"}
  PROVE  TrInv'
<1> USE DEF TrInv, Does, Waiting
<1>1. TrTypeOK'
  BY DEF TrTypeOK, Frames
<1>2. FrameWhileCalled'
  BY DEF FrameWhileCalled, TrTypeOK, Frames
<1>3. NotifiedLast'
  BY DEF NotifiedLast, TrTypeOK, Frames
<1>4. OwnRunners'
  BY DEF OwnRunners, Has, TrTypeOK, Frames
<1> QED
  BY <1>1, <1>2, <1>3, <1>4

\* Creating the model, while there are no tasks.
LEMMA CreateInv ==
  ASSUME TrInv, \/ CreateFails
                \/ \E groups \in TrGroups, algorithm \in {"none", "given"} : CreateModel(groups, algorithm)
  PROVE  TrInv'
<1> USE DEF TrInv
<1>1. \A r \in TrRequests : trReq[r].pc = "idle"
  BY DEF FrameWhileCalled, CreateFails, CreateModel
<1>2. /\ trModel' \in {"broken", "ready"} /\ UNCHANGED <<trReq, trThread>>
      /\ trRunners' \in [DOMAIN trRunners' -> {"AVAILABLE", "UNAVAILABLE"}]
  <2>1. CASE CreateFails
    BY <2>1 DEF CreateFails, TrTypeOK, Frames
  <2>2. ASSUME NEW groups \in TrGroups, NEW algorithm \in {"none", "given"}, CreateModel(groups, algorithm)
        PROVE  <1>2!:
    BY <2>2 DEF CreateModel
  <2> QED
    BY <2>1, <2>2
<1>3. TrTypeOK'
  BY <1>1, <1>2 DEF TrTypeOK, Frames
<1>4. FrameWhileCalled' /\ NotifiedLast'
  BY <1>1, <1>2 DEF FrameWhileCalled, NotifiedLast
<1>5. OwnRunners'
  BY <1>1, <1>2 DEF OwnRunners, Has, Waiting
<1> QED
  BY <1>3, <1>4, <1>5
-----------------------------------------------------------------------------
\* Every step of a handler, of a task's thread and of the clock preserves TrInv.
LEMMA TrNextInv == TrInv /\ [TrNext]_trvars => TrInv'
<1> SUFFICES ASSUME TrInv, [TrNext]_trvars PROVE TrInv'
  OBVIOUS
<1> USE DEF TrInv
<1>1. ASSUME NEW r \in TrRequests, NEW timed \in BOOLEAN, TakeRunner(r, timed) PROVE TrInv'
  <2> PICK i \in Free :
        /\ trRunners' = [trRunners EXCEPT ![i] = "UNAVAILABLE"]
        /\ trReq' = [trReq EXCEPT ![r] = [NoTask EXCEPT !.pc = "schedule", !.timed = timed, !.runner = i, !.framed = TRUE]]
    BY <1>1 DEF TakeRunner
  <2>1. /\ i \in DOMAIN trRunners /\ trRunners[i] = "AVAILABLE"
        /\ trModel = "ready" /\ trReq[r].pc = "idle" /\ UNCHANGED <<trModel, trThread>>
    BY <1>1 DEF TakeRunner, Free
  <2>2. TrTypeOK'
    BY <2>1 DEF TrTypeOK, Frames, NoTask, Waiting
  <2>3. FrameWhileCalled'
    BY <2>1 DEF FrameWhileCalled, TrTypeOK, Frames, NoTask
  <2>4. NotifiedLast'
    BY <2>1 DEF NotifiedLast, TrTypeOK, Frames, NoTask
  <2>5. OwnRunners'
    BY <2>1 DEF OwnRunners, Has, TrTypeOK, Frames, NoTask, Waiting
  <2> QED
    BY <2>2, <2>3, <2>4, <2>5
<1>2. ASSUME NEW r \in TrRequests, NoneFree(r) \/ RefuseTask(r) PROVE TrInv'
  <2>1. TrTypeOK'
    BY <1>2 DEF NoneFree, RefuseTask, TrTypeOK, Frames, Waiting
  <2>2. FrameWhileCalled' /\ NotifiedLast'
    BY <1>2 DEF NoneFree, RefuseTask, FrameWhileCalled, NotifiedLast, TrTypeOK, Frames
  <2>3. OwnRunners'
    BY <1>2 DEF NoneFree, RefuseTask, OwnRunners, Has, TrTypeOK, Frames, Waiting
  <2> QED
    BY <2>1, <2>2, <2>3
<1>3. ASSUME NEW r \in TrRequests, ScheduleTask(r) PROVE TrInv'
  <2>1. TrTypeOK'
    BY <1>3 DEF ScheduleTask, TrTypeOK, Frames, Waiting
  <2>2. FrameWhileCalled' /\ NotifiedLast'
    BY <1>3 DEF ScheduleTask, FrameWhileCalled, NotifiedLast, TrTypeOK, Frames
  <2>3. OwnRunners'
    BY <1>3 DEF ScheduleTask, OwnRunners, Has, TrTypeOK, Frames, Waiting
  <2> QED
    BY <2>1, <2>2, <2>3
<1>4. ASSUME NEW r \in TrRequests, AwaitTimed(r) \/ Await(r) \/ WakesUp(r) PROVE TrInv'
  <2>1. \E place \in Waiting \union {"release"} :
          Goes(r, place) /\ trReq[r].pc \in Waiting /\ (place = "release" => trReq[r].notified)
    BY <1>4 DEF AwaitTimed, Await, WakesUp, Through, Sleeps, Waiting
  <2> QED
    BY <2>1, GoesInv
<1>5. ASSUME NEW r \in TrRequests, TimesOut(r) PROVE TrInv'
  <2>1. TrTypeOK'
    <3>1. [trReq[r] EXCEPT !.pc = "wait", !.terminate = TRUE] \in Frames
      BY DEF TrTypeOK, Frames, Waiting
    <3>2. /\ trReq' = [trReq EXCEPT ![r] = [trReq[r] EXCEPT !.pc = "wait", !.terminate = TRUE]]
          /\ UNCHANGED <<trModel, trRunners, trThread>>
      BY <1>5 DEF TimesOut, TrTypeOK
    <3> QED
      BY <3>1, <3>2 DEF TrTypeOK, Frames
  <2>2. FrameWhileCalled' /\ NotifiedLast'
    BY <1>5 DEF TimesOut, FrameWhileCalled, NotifiedLast, TrTypeOK, Frames
  <2>3. OwnRunners'
    BY <1>5 DEF TimesOut, OwnRunners, Has, TrTypeOK, Frames, Waiting
  <2> QED
    BY <2>1, <2>2, <2>3
<1>6. ASSUME NEW r \in TrRequests, ReleaseRunner(r) PROVE TrInv'
  <2>1. TrTypeOK'
    <3>1. [trReq[r] EXCEPT !.pc = "destroy"] \in Frames
      BY DEF TrTypeOK, Frames
    <3>2. /\ trReq' = [trReq EXCEPT ![r] = [trReq[r] EXCEPT !.pc = "destroy"]]
          /\ trRunners' = [trRunners EXCEPT ![trReq[r].runner] = "AVAILABLE"]
          /\ UNCHANGED <<trModel, trThread>>
      BY <1>6 DEF ReleaseRunner, TrTypeOK
    <3> QED
      BY <3>1, <3>2 DEF TrTypeOK, Frames
  <2>2. FrameWhileCalled' /\ NotifiedLast'
    BY <1>6 DEF ReleaseRunner, FrameWhileCalled, NotifiedLast, TrTypeOK, Frames
  <2>3. OwnRunners'
    BY <1>6 DEF ReleaseRunner, OwnRunners, Has, TrTypeOK, Frames, Waiting
  <2> QED
    BY <2>1, <2>2, <2>3
<1>7. ASSUME NEW r \in TrRequests, LeaveFrame(r) PROVE TrInv'
  \* The Notification was set, and its mutex is free: the thread has gone.
  <2>1. trThread[r] = "none"
    BY <1>7 DEF LeaveFrame, NotificationFree, MutexFree, NotifiedLast, TrTypeOK, Frames
  <2>2. TrTypeOK'
    BY <1>7 DEF LeaveFrame, TrTypeOK, Frames, NoTask, Waiting
  <2>3. FrameWhileCalled' /\ NotifiedLast'
    BY <1>7, <2>1 DEF LeaveFrame, FrameWhileCalled, NotifiedLast, TrTypeOK, Frames, NoTask
  <2>4. OwnRunners'
    BY <1>7 DEF LeaveFrame, OwnRunners, Has, TrTypeOK, Frames, NoTask, Waiting
  <2> QED
    BY <2>2, <2>3, <2>4
<1>8. ASSUME NEW r \in TrRequests, RunEnds(r) \/ Terminates(r) \/ NotifyLocks(r) PROVE TrInv'
  BY <1>8, DoesInv DEF RunEnds, Terminates, NotifyLocks
<1>9. ASSUME NEW r \in TrRequests, NotifyStores(r) PROVE TrInv'
  <2>1. TrTypeOK'
    <3>1. [trReq[r] EXCEPT !.notified = TRUE] \in Frames
      BY DEF TrTypeOK, Frames
    <3>2. /\ trReq' = [trReq EXCEPT ![r] = [trReq[r] EXCEPT !.notified = TRUE]]
          /\ trThread' = [trThread EXCEPT ![r] = "stored"] /\ UNCHANGED <<trModel, trRunners>>
      BY <1>9 DEF NotifyStores, TrTypeOK
    <3> QED
      BY <3>1, <3>2 DEF TrTypeOK, Frames
  <2>2. FrameWhileCalled'
    BY <1>9 DEF NotifyStores, FrameWhileCalled, TrTypeOK, Frames
  <2>3. NotifiedLast'
    BY <1>9 DEF NotifyStores, NotifiedLast, TrTypeOK, Frames
  <2>4. OwnRunners'
    BY <1>9 DEF NotifyStores, OwnRunners, Has, TrTypeOK, Frames, Waiting
  <2> QED
    BY <2>1, <2>2, <2>3, <2>4
<1>10. ASSUME NEW r \in TrRequests, NotifyWakes(r) PROVE TrInv'
  \* A sleeper is made to test again, anybody else is left where he is.
  <2> PICK place \in Waiting \union {trReq[r].pc} :
        /\ trReq' = [trReq EXCEPT ![r].pc = place]
        /\ place = trReq[r].pc \/ (place \in Waiting /\ trReq[r].pc \in Waiting)
    BY <1>10 DEF NotifyWakes, TrTypeOK, Waiting
  <2>1. trThread' = [trThread EXCEPT ![r] = "none"] /\ UNCHANGED <<trModel, trRunners>> /\ trThread[r] = "stored"
    BY <1>10 DEF NotifyWakes
  <2>2. TrTypeOK'
    <3>1. [trReq[r] EXCEPT !.pc = place] \in Frames
      BY DEF TrTypeOK, Frames, Waiting
    <3>2. place = "idle" => trReq[r].runner = NoRunner
      BY DEF TrTypeOK, Waiting
    <3> QED
      BY <2>1, <3>1, <3>2 DEF TrTypeOK, Frames
  <2>3. FrameWhileCalled' /\ NotifiedLast'
    BY <2>1 DEF FrameWhileCalled, NotifiedLast, TrTypeOK, Frames, Waiting
  <2>4. OwnRunners'
    BY <2>1 DEF OwnRunners, Has, TrTypeOK, Frames, Waiting
  <2> QED
    BY <2>2, <2>3, <2>4
<1>11. CASE UNCHANGED trvars
  BY <1>11 DEF trvars, TrTypeOK, Frames, FrameWhileCalled, NotifiedLast, OwnRunners, Has
<1> QED
  BY <1>1, <1>2, <1>3, <1>4, <1>5, <1>6, <1>7, <1>8, <1>9, <1>10, <1>11, CreateInv DEF TrNext, TrCall, TrRun

\* Who runs has a runner, who has a thread has a frame.
LEMMA TrInvExclusive == TrInv => RunnersExclusive
  BY DEF TrInv, TrTypeOK, Frames, FrameWhileCalled, NotifiedLast, OwnRunners, Has, Waiting, RunnersExclusive
-----------------------------------------------------------------------------
\* MLModel, its tasks and their threads keep their types.
THEOREM TasksTypeCorrect == TrSpec => []TrTypeOK
<1>1. TrInv => TrTypeOK
  BY DEF TrInv
<1> QED
  BY TrInitInv, TrNextInv, <1>1, PTL DEF TrSpec

\* However many requests share however many runners, and whatever deadlines
\* pass: one thread for each algorithm object, each with its request's frame.
THEOREM OneThreadPerRunner == TrSpec => []RunnersExclusive
  BY TrInitInv, TrNextInv, TrInvExclusive, PTL DEF TrSpec
=============================================================================

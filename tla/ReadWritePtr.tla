---------------------------- MODULE ReadWritePtr ----------------------------
(***************************************************************************)
(* cub::ReadWritePtr<T> (cub/mem/read_write_ptr.h), the read-copy-update   *)
(* pointer behind ServingStore, together with the part of                  *)
(* cub::Notification it waits on.                                          *)
(*                                                                         *)
(* Each update() allocates one RelSharedPtr: here a cell, numbered in      *)
(* order of publication.  A cell owns the object, one reference to it      *)
(* (readObj) and a Notification.  The last reference to go, a reader's or  *)
(* the cell's own, runs the deleter, which notifies; update() waits for    *)
(* that before it destroys the cell and hands the object back.             *)
(*                                                                         *)
(* A cell whose object is nullptr has the deleter, too, but nobody waits   *)
(* for it.  The program's only pointer, ServingStore::models, begins with  *)
(* such a cell.  What a thread does that notifies a Notification which has *)
(* been destroyed is undefined: in the model it stops there.               *)
(***************************************************************************)
EXTENDS Naturals

CONSTANTS Readers,      \* threads that call get() and drop what they got
          Writers,      \* threads that call update()
          MaxUpdates,   \* bound on the number of update() calls
          StartsNull,   \* whether the pointer is constructed with nullptr
          None          \* a reader that holds no reference

ASSUME ThreadsDisjoint == Readers \intersect Writers = {}
ASSUME BoundIsNat == MaxUpdates \in Nat
ASSUME StartsNullIsBool == StartsNull \in BOOLEAN
ASSUME NoneIsNoCell == None \notin Nat

Threads == Readers \union Writers
Cell == 0 .. MaxUpdates

VARIABLES published,   \* the cell obj points to
          own,         \* cells whose own readObj is not yet reset
          held,        \* the cell whose object each reader references
          notified,    \* cells whose Notification is set
          destroyed,   \* cells (with their Notification) already destroyed
          reclaimed,   \* cells whose object went back to update()'s caller
          pc,          \* where each thread is
          at           \* the cell each thread works on

vars == <<published, own, held, notified, destroyed, reclaimed, pc, at>>

\* Only the cell of the constructor can hold nullptr, and in the program it
\* does: ServingStore passes an object to every update().
HasObject(c) == c # 0 \/ ~StartsNull

\* Whether one of the readers rs still references the cell's object.
HeldBy(rs, c) == \E r \in rs : held[r] = c

Init == /\ published = 0
        /\ own = {0}
        /\ held = [r \in Readers |-> None]
        /\ notified = {}
        /\ destroyed = {}
        /\ reclaimed = {}
        /\ pc = [t \in Threads |-> "idle"]
        /\ at = [t \in Threads |-> 0]
-----------------------------------------------------------------------------
\* get(): copies obj->readObj under the shared lock.
Get(r) == /\ pc[r] = "idle"
          /\ held' = [held EXCEPT ![r] = published]
          /\ pc' = [pc EXCEPT ![r] = "reading"]
          /\ UNCHANGED <<published, own, notified, destroyed, reclaimed, at>>

\* Mutant of Drop: a last reference that does not run its deleter.
DropWithoutDeleter(r) == /\ pc[r] = "reading"
                         /\ held' = [held EXCEPT ![r] = None]
                         /\ at' = [at EXCEPT ![r] = held[r]]
                         /\ pc' = [pc EXCEPT ![r] = "idle"]
                         /\ UNCHANGED <<published, own, notified, destroyed, reclaimed>>

\* The shared_ptr a reader got goes out of scope; the last one to go runs the
\* deleter of readObj.
Drop(r) == /\ pc[r] = "reading"
           /\ held' = [held EXCEPT ![r] = None]
           /\ at' = [at EXCEPT ![r] = held[r]]
           /\ pc' = [pc EXCEPT ![r] = IF \/ held[r] \in own
                                         \/ HeldBy(Readers \ {r}, held[r])
                                      THEN "idle" ELSE "deleting"]
           /\ UNCHANGED <<published, own, notified, destroyed, reclaimed>>

\* Mutant of Swap: the new cell is published, but the thread goes on to release
\* it instead of the old one.
SwapKeepsNew(w) == /\ pc[w] = "idle"
                   /\ published < MaxUpdates
                   /\ published' = published + 1
                   /\ own' = own \union {published + 1}
                   /\ at' = [at EXCEPT ![w] = published + 1]
                   /\ pc' = [pc EXCEPT ![w] = "releasing"]
                   /\ UNCHANGED <<held, notified, destroyed, reclaimed>>

\* update(): builds the new cell and swaps it in under the lock; the thread
\* keeps the old one.
Swap(w) == /\ pc[w] = "idle"
           /\ published < MaxUpdates
           /\ published' = published + 1
           /\ own' = own \union {published + 1}
           /\ at' = [at EXCEPT ![w] = published]
           /\ pc' = [pc EXCEPT ![w] = "releasing"]
           /\ UNCHANGED <<held, notified, destroyed, reclaimed>>

\* blockingRelease(), readObj = nullptr.
Release(w) == /\ pc[w] = "releasing"
              /\ own' = own \ {at[w]}
              /\ pc' = [pc EXCEPT ![w] = IF HeldBy(Readers, at[w])
                                         THEN "waiting" ELSE "deleting"]
              /\ UNCHANGED <<published, held, notified, destroyed, reclaimed, at>>

\* The deleter: Notification::notify() sets the flag while it holds the
\* notification's mutex ...
Notify(t) == /\ pc[t] = "deleting"
             /\ at[t] \notin destroyed
             /\ notified' = notified \union {at[t]}
             /\ pc' = [pc EXCEPT ![t] = "notifying"]
             /\ UNCHANGED <<published, own, held, destroyed, reclaimed, at>>

\* ... wakes the waiters and unlocks it.
Notified(t) == /\ pc[t] = "notifying"
               /\ pc' = [pc EXCEPT ![t] = IF t \in Writers
                                          THEN "waiting" ELSE "idle"]
               /\ UNCHANGED <<published, own, held, notified, destroyed, reclaimed, at>>

\* Mutant of Wait: no wait for the readers.
WaitForNobody(w) == /\ pc[w] = "waiting"
                    /\ pc' = [pc EXCEPT ![w] = "destroying"]
                    /\ UNCHANGED <<published, own, held, notified, destroyed, reclaimed, at>>

\* blockingRelease(), releasable.wait(): a notification already set lets the
\* waiter through without the mutex.  A null object is not waited for.
Wait(w) == /\ pc[w] = "waiting"
           /\ HasObject(at[w]) => at[w] \in notified
           /\ pc' = [pc EXCEPT ![w] = "destroying"]
           /\ UNCHANGED <<published, own, held, notified, destroyed, reclaimed, at>>

\* Mutant of Destroy: a ~Notification that does not take the mutex.
DestroyWithoutMutex(w) == /\ pc[w] = "destroying"
                          /\ destroyed' = destroyed \union {at[w]}
                          /\ pc' = [pc EXCEPT ![w] = "returning"]
                          /\ UNCHANGED <<published, own, held, notified, reclaimed, at>>

\* ~RelSharedPtr at the end of update(); ~Notification takes the mutex, so it
\* waits for a notifier that is still inside notify().
Destroy(w) == /\ pc[w] = "destroying"
              /\ \A t \in Threads : ~ (pc[t] = "notifying" /\ at[t] = at[w])
              /\ destroyed' = destroyed \union {at[w]}
              /\ pc' = [pc EXCEPT ![w] = "returning"]
              /\ UNCHANGED <<published, own, held, notified, reclaimed, at>>

\* update() returned the old object; ServingStore drops it.
Reclaim(w) == /\ pc[w] = "returning"
              /\ reclaimed' = reclaimed \union {at[w]}
              /\ pc' = [pc EXCEPT ![w] = "idle"]
              /\ UNCHANGED <<published, own, held, notified, destroyed, at>>

Next == \/ \E r \in Readers : Get(r) \/ Drop(r)
        \/ \E w \in Writers : \/ Swap(w) \/ Release(w) \/ Wait(w)
                              \/ Destroy(w) \/ Reclaim(w)
        \/ \E t \in Threads : Notify(t) \/ Notified(t)

\* A thread in the middle of a call keeps running, and a request that holds a
\* handle ends; nobody has to start one.
Fairness == /\ \A r \in Readers : WF_vars(Drop(r))
            /\ \A w \in Writers : WF_vars(Release(w) \/ Wait(w) \/ Destroy(w) \/ Reclaim(w))
            /\ \A t \in Threads : WF_vars(Notify(t) \/ Notified(t))

Spec == Init /\ [][Next]_vars /\ Fairness
-----------------------------------------------------------------------------
TypeOK == /\ published \in Cell
          /\ own \subseteq Cell
          /\ held \in [Readers -> Cell \union {None}]
          /\ notified \subseteq Cell
          /\ destroyed \subseteq Cell
          /\ reclaimed \subseteq Cell
          /\ pc \in [Threads -> {"idle", "reading", "releasing", "deleting",
                                 "notifying", "waiting", "destroying", "returning"}]
          /\ at \in [Threads -> Cell]
          /\ \A r \in Readers : pc[r] \in {"idle", "reading", "deleting", "notifying"}
          /\ \A w \in Writers : pc[w] # "reading"

\* The object a reader reached through get() is not handed back for
\* destruction while the reader still holds it, whatever updates run.
PinnedObjectAlive ==
  \A r \in Readers : held[r] # None /\ HasObject(held[r]) => held[r] \notin reclaimed

\* A thread that runs the deleter finds alive the Notification it sets, also
\* while it is still inside notify(): ~Notification() takes the mutex to wait for
\* it.  Of a null object the tests ask both get() ("initially the object should
\* be null") and update() ("swap"), as of any other.
NotificationAlive ==
  \A t \in Threads : pc[t] \in {"deleting", "notifying"} => at[t] \notin destroyed

\* Who comes too late for the Notification is a reader of the null pointer that
\* the constructor made, and he has not yet begun to notify: for every cell with
\* an object, and for a notifier that has locked, ~RelSharedPtr() has waited.
OnlyNullIsLate ==
  \A t \in Threads :
    /\ pc[t] = "deleting" /\ at[t] \in destroyed => t \in Readers /\ ~HasObject(at[t])
    /\ pc[t] = "notifying" => at[t] \notin destroyed

\* Every update() returns: its caller, the boarding thread, is never stuck as
\* long as requests end.
UpdateReturns == \A w \in Writers : pc[w] = "releasing" ~> pc[w] = "idle"

\* The pointer is the register of SnapshotRegister.
Register == INSTANCE SnapshotRegister
              WITH Objects <- {c \in Cell : HasObject(c)},
                   current <- published, view <- held,
                   freed <- {c \in reclaimed : HasObject(c)}

\* Whether it begins with an object or with nullptr, the pointer implements the
\* register, its fairness included.
ImplementsRegister == Register!Spec
=============================================================================

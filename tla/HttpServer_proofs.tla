-------------------------- MODULE HttpServer_proofs --------------------------
(***************************************************************************)
(* Proofs about HttpServer: the counter of operations is exact, a request  *)
(* is in one place, and wait() returns when everything is over.            *)
(***************************************************************************)
EXTENDS HttpServer, FiniteSetTheorems, SequenceTheorems, TLAPS

\* The places of a request, without counting.
InTasks(c) == \E i \in DOMAIN tasks : tasks[i] = c
InJob(c) == \E w \in Workers : job[w] = c

Places ==
  /\ \A i, j \in DOMAIN tasks : tasks[i] = tasks[j] => i = j
  /\ \A v, w \in Workers : job[v] # None /\ job[v] = job[w] => v = w
  /\ \A c \in Clients : c \in live <=> (InTasks(c) \/ InJob(c) \/ c \in closures)
  /\ \A c \in Clients : /\ ~(InTasks(c) /\ InJob(c))
                        /\ ~(InTasks(c) /\ c \in closures)
                        /\ ~(InJob(c) /\ c \in closures)

\* start() comes before wait(), and nothing begins after it has returned.
Started ==
  /\ main \in {"started", "exiting", "returned"} => listener # "none" /\ loop # "none"
  /\ main = "new" => listener = "none" /\ loop = "none" /\ live = {}
  /\ main = "failed" => listener = "none" /\ loop = "none"

Inv == TypeOK /\ Places /\ OpsExact /\ Started /\ WaitMeansDone

-----------------------------------------------------------------------------
\* The counter after a step that changes neither the requests nor the server,
\* one that adds a request, and one that takes one away.
LEMMA OwnNat == OwnOps \in 0 .. 2
BY DEF OwnOps

LEMMA LiveCount ==
  ASSUME live \subseteq Clients
  PROVE  IsFiniteSet(live) /\ Cardinality(live) \in Nat
BY FS_Subset, FS_CardinalityType, ClientsFinite

LEMMA Idle ==
  ASSUME OpsExact, live' = live, ops' = ops, listener' = listener, loop' = loop
  PROVE  OpsExact'
BY DEF OpsExact, OwnOps

LEMMA Added ==
  ASSUME live \subseteq Clients, OpsExact, NEW c \in Clients \ live, live' = live \union {c},
         ops' = ops + 1, listener' = listener, loop' = loop
  PROVE  OpsExact'
<1>1. Cardinality(live') = Cardinality(live) + 1
  BY LiveCount, FS_AddElement
<1>2. OwnOps' = OwnOps
  BY DEF OwnOps
<1> QED BY <1>1, <1>2, LiveCount, OwnNat DEF OpsExact

LEMMA Removed ==
  ASSUME live \subseteq Clients, OpsExact, NEW c \in live, live' = live \ {c},
         ops' = ops - 1, listener' = listener, loop' = loop
  PROVE  OpsExact'
<1>1. Cardinality(live') = Cardinality(live) - 1
  BY LiveCount, FS_RemoveElement
<1>2. OwnOps' = OwnOps
  BY DEF OwnOps
<1> QED BY <1>1, <1>2, LiveCount, OwnNat DEF OpsExact

\* The counter after a step in which the listener or the loop ends.
LEMMA ServerEnds ==
  ASSUME live \subseteq Clients, OpsExact, live' = live, ops' = ops - 1, OwnOps' = OwnOps - 1
  PROVE  OpsExact'
<1>1. Cardinality(live') = Cardinality(live)
  OBVIOUS
<1> QED BY <1>1, LiveCount, OwnNat DEF OpsExact

LEMMA OpsStep == Inv /\ [Next]_vars => OpsExact'
<1> SUFFICES ASSUME Inv, [Next]_vars PROVE OpsExact'
  OBVIOUS
<1>0. TypeOK /\ live \subseteq Clients /\ OpsExact
  BY DEF Inv, TypeOK
<1>1. ASSUME Start PROVE OpsExact'
  <2>1. live' = {} /\ ops' = 2 /\ OwnOps' = 2
    BY <1>1 DEF Start, Inv, Started, requests, OwnOps
  <2> QED BY <2>1, FS_EmptySet DEF OpsExact
<1>2. ASSUME BindFails PROVE OpsExact'
  BY <1>0, <1>2, Idle DEF BindFails, requests, server
<1>3. ASSUME LoopEnds \/ LoopFails PROVE OpsExact'
  <2>1. OwnOps' = OwnOps - 1
    BY <1>3 DEF LoopEnds, LoopFails, LoopFree, OwnOps
  <2> QED BY <1>0, <1>3, <2>1, ServerEnds DEF LoopEnds, LoopFails, requests
<1>4. ASSUME StopListening PROVE OpsExact'
  <2>1. OwnOps' = OwnOps - 1
    BY <1>4 DEF StopListening, OwnOps
  <2> QED BY <1>0, <1>4, <2>1, ServerEnds DEF StopListening, requests
<1>5. ASSUME WaitToOne \/ WaitDone \/ Free PROVE OpsExact'
  BY <1>0, <1>5, Idle DEF WaitToOne, WaitDone, Free, requests, server
<1>6. ASSUME Terminate PROVE OpsExact'
  BY <1>0, <1>6 DEF Terminate, requests, OpsExact, OwnOps
<1>7. ASSUME NEW c \in Clients, Connect(c) \/ Ask(c) \/ Disconnect(c) \/ Reject(c)
      PROVE  OpsExact'
  BY <1>0, <1>7, Idle DEF Connect, Ask, Disconnect, Reject, requests, server
<1>8. ASSUME NEW c \in Clients, Dispatch(c) PROVE OpsExact'
  BY <1>0, <1>8, Added DEF Dispatch, server
<1>9. ASSUME NEW c \in Clients, EvSendReply(c) PROVE OpsExact'
  BY <1>0, <1>9, Removed DEF EvSendReply, server, Inv, Places
<1>10. ASSUME NEW w \in Workers, EnterLoop(w) PROVE OpsExact'
  BY <1>0, <1>10 DEF EnterLoop, requests, OpsExact, OwnOps
<1>11. ASSUME NEW w \in Workers, Take(w) \/ ReplyWithStatus(w) PROVE OpsExact'
  BY <1>0, <1>11, Idle DEF Take, ReplyWithStatus, server
<1>12. ASSUME NEW w \in Workers, Abort(w) PROVE OpsExact'
  <2>1. job[w] \in live
    BY <1>0, <1>12 DEF Abort, Inv, Places, InJob, TypeOK
  <2> QED BY <1>0, <1>12, <2>1, Removed DEF Abort, server
<1>13. CASE UNCHANGED vars
  BY <1>0, <1>13, Idle DEF vars, requests, server
<1> QED BY <1>1, <1>2, <1>3, <1>4, <1>5, <1>6, <1>7, <1>8, <1>9, <1>10, <1>11, <1>12, <1>13
        DEF Next, LoopStep, Request, Work

-----------------------------------------------------------------------------
LEMMA TypeInit == Init => TypeOK
<1> SUFFICES ASSUME Init PROVE TypeOK
  OBVIOUS
<1>1. tasks \in Seq(Clients)
  BY DEF Init
<1> QED BY <1>1 DEF Init, TypeOK

LEMMA TypeStep == Inv /\ OpsExact' /\ [Next]_vars => TypeOK'
<1> SUFFICES ASSUME Inv, OpsExact', [Next]_vars PROVE TypeOK'
  OBVIOUS
<1> DEFINE Rest ==
      /\ http' \in [Clients -> {"closed", "idle", "waiting"}]
      /\ live' \subseteq Clients /\ closures' \subseteq Clients
      /\ tasks' \in Seq(Clients)
      /\ job' \in [Workers -> Clients \union {None}]
      /\ listener' \in {"none", "open", "closing", "closed"}
      /\ loop' \in {"none", "scheduled", "running", "ended", "failed"}
      /\ looper' \in Workers \union {None} /\ (looper' # None <=> loop' = "running")
      /\ exitAsked' \in BOOLEAN /\ freed' \in BOOLEAN
      /\ main' \in {"new", "failed", "started", "exiting", "returned"}
<1>0. TypeOK
  BY DEF Inv
<1>1. Rest => TypeOK'
  <2> SUFFICES ASSUME Rest PROVE ops' \in Nat
    BY DEF TypeOK
  <2>1. Cardinality(live') \in Nat
    BY FS_Subset, FS_CardinalityType, ClientsFinite
  <2>2. OwnOps' \in Nat
    BY DEF OwnOps
  <2> QED BY <2>1, <2>2 DEF OpsExact
<1>2. ASSUME Start \/ BindFails \/ WaitToOne \/ WaitDone \/ Terminate \/ Free PROVE Rest
  <2>1. UNCHANGED <<http, requests, looper>>
    BY <1>2 DEF Start, BindFails, WaitToOne, WaitDone, Terminate, Free, server
  <2>2. loop' = "running" <=> loop = "running"
    BY <1>2 DEF Start, BindFails, WaitToOne, WaitDone, Terminate, Free, server, Inv, Started
  <2>3. CASE Start
    BY <1>0, <2>1, <2>2, <2>3 DEF TypeOK, Start, requests
  <2>4. CASE BindFails \/ WaitToOne \/ WaitDone \/ Terminate \/ Free
    BY <1>0, <2>1, <2>2, <2>4
       DEF TypeOK, BindFails, WaitToOne, WaitDone, Terminate, Free, requests, server
  <2> QED BY <1>2, <2>3, <2>4
<1>3. ASSUME LoopStep PROVE Rest
  BY <1>0, <1>3, NoneIsOther
     DEF TypeOK, LoopStep, LoopEnds, LoopFails, StopListening, LoopFree, requests
<1>4. ASSUME NEW c \in Clients, Connect(c) \/ Ask(c) \/ Disconnect(c) \/ Reject(c) PROVE Rest
  BY <1>0, <1>4 DEF TypeOK, Connect, Ask, Disconnect, Reject, Answer, requests, server
<1>5. ASSUME NEW c \in Clients, Dispatch(c) PROVE Rest
  <2>1. CASE Len(tasks) < QueueLimit
    BY <1>0, <1>5, <2>1 DEF TypeOK, Dispatch, server
  <2>2. CASE ~(Len(tasks) < QueueLimit)
    BY <1>0, <1>5, <2>2 DEF TypeOK, Dispatch, server
  <2> QED BY <2>1, <2>2
<1>6. ASSUME NEW c \in Clients, EvSendReply(c) PROVE Rest
  BY <1>0, <1>6 DEF TypeOK, EvSendReply, Answer, server
<1>7. ASSUME NEW w \in Workers, EnterLoop(w) PROVE Rest
  BY <1>0, <1>7, NoneIsOther DEF TypeOK, EnterLoop, requests, Workers
<1>8. ASSUME NEW w \in Workers, Take(w) PROVE Rest
  <2>1. Head(tasks) \in Clients /\ Tail(tasks) \in Seq(Clients)
    BY <1>0, <1>8, HeadTailProperties DEF TypeOK, Take
  <2> QED BY <1>0, <1>8, <2>1 DEF TypeOK, Take, server
<1>9. ASSUME NEW w \in Workers, ReplyWithStatus(w) \/ Abort(w) PROVE Rest
  BY <1>0, <1>9 DEF TypeOK, ReplyWithStatus, Abort, Answer, server
<1>10. CASE UNCHANGED vars
  BY <1>0, <1>10 DEF TypeOK, vars, requests, server
<1> QED BY <1>1, <1>2, <1>3, <1>4, <1>5, <1>6, <1>7, <1>8, <1>9, <1>10
        DEF Next, LoopStep, Request, Work

-----------------------------------------------------------------------------
LEMMA PlacesInit == Init => Places
BY NoneIsOther DEF Init, Places, InTasks, InJob

\* What Append and Tail do to the places in the queue.
LEMMA Appended ==
  ASSUME tasks \in Seq(Clients), NEW c \in Clients, ~InTasks(c), tasks' = Append(tasks, c),
         \A i, j \in DOMAIN tasks : tasks[i] = tasks[j] => i = j
  PROVE  /\ \A i, j \in DOMAIN tasks' : tasks'[i] = tasks'[j] => i = j
         /\ \A d \in Clients : InTasks(d)' <=> InTasks(d) \/ d = c
<1>1. /\ DOMAIN tasks' = 1 .. Len(tasks) + 1
      /\ \A i \in 1 .. Len(tasks) : tasks'[i] = tasks[i]
      /\ tasks'[Len(tasks) + 1] = c
      /\ DOMAIN tasks = 1 .. Len(tasks) /\ Len(tasks) \in Nat
  OBVIOUS
<1>2. \A i, j \in DOMAIN tasks' : tasks'[i] = tasks'[j] => i = j
  BY <1>1 DEF InTasks
<1>3. \A d \in Clients : InTasks(d)' <=> InTasks(d) \/ d = c
  BY <1>1 DEF InTasks
<1> QED BY <1>2, <1>3

LEMMA Taken ==
  ASSUME tasks \in Seq(Clients), tasks # <<>>, tasks' = Tail(tasks),
         \A i, j \in DOMAIN tasks : tasks[i] = tasks[j] => i = j
  PROVE  /\ \A i, j \in DOMAIN tasks' : tasks'[i] = tasks'[j] => i = j
         /\ \A d \in Clients : InTasks(d)' <=> InTasks(d) /\ d # Head(tasks)
         /\ Head(tasks) \in Clients /\ InTasks(Head(tasks))
<1>1. /\ Len(tasks) \in Nat \ {0} /\ DOMAIN tasks = 1 .. Len(tasks)
      /\ DOMAIN tasks' = 1 .. Len(tasks) - 1
      /\ \A i \in 1 .. Len(tasks) - 1 : tasks'[i] = tasks[i + 1]
      /\ Head(tasks) = tasks[1] /\ 1 \in DOMAIN tasks /\ tasks[1] \in Clients
  OBVIOUS
<1>2. \A i, j \in DOMAIN tasks' : tasks'[i] = tasks'[j] => i = j
  <2> SUFFICES ASSUME NEW i \in DOMAIN tasks', NEW j \in DOMAIN tasks', tasks'[i] = tasks'[j]
               PROVE  i = j
    OBVIOUS
  <2>1. i + 1 = j + 1
    BY <1>1
  <2> QED BY <1>1, <2>1
<1>3. ASSUME NEW d \in Clients, InTasks(d)' PROVE InTasks(d) /\ d # Head(tasks)
  <2>1. PICK i \in 1 .. Len(tasks) - 1 : tasks'[i] = d
    BY <1>1, <1>3 DEF InTasks
  <2>2. i + 1 \in DOMAIN tasks /\ tasks[i + 1] = d /\ i + 1 # 1
    BY <1>1, <2>1
  <2> QED BY <1>1, <2>2 DEF InTasks
<1>4. ASSUME NEW d \in Clients, InTasks(d), d # Head(tasks) PROVE InTasks(d)'
  <2>1. PICK i \in 1 .. Len(tasks) : tasks[i] = d /\ i # 1
    BY <1>1, <1>4 DEF InTasks
  <2>2. i - 1 \in DOMAIN tasks' /\ tasks'[i - 1] = d
    BY <1>1, <2>1
  <2> QED BY <2>2 DEF InTasks
<1> QED BY <1>1, <1>2, <1>3, <1>4 DEF InTasks

LEMMA PlacesStep == Inv /\ [Next]_vars => Places'
<1> SUFFICES ASSUME Inv, [Next]_vars PROVE Places'
  OBVIOUS
<1>0. TypeOK /\ Places
  BY DEF Inv
<1>1. ASSUME UNCHANGED requests PROVE Places'
  BY <1>0, <1>1 DEF requests, Places, InTasks, InJob
<1>2. ASSUME NEW c \in Clients, Dispatch(c) PROVE Places'
  <2>1. ~InTasks(c) /\ ~InJob(c) /\ c \notin closures
    BY <1>0, <1>2 DEF Dispatch, Places
  <2>2. CASE Len(tasks) < QueueLimit
    <3>1. /\ \A i, j \in DOMAIN tasks' : tasks'[i] = tasks'[j] => i = j
          /\ \A d \in Clients : InTasks(d)' <=> InTasks(d) \/ d = c
      BY <1>0, <1>2, <2>1, <2>2, Appended DEF Dispatch, TypeOK, Places
    <3>2. /\ job' = job /\ closures' = closures /\ live' = live \union {c}
          /\ \A d \in Clients : InJob(d)' <=> InJob(d)
      BY <1>2, <2>2 DEF Dispatch, InJob
    <3> QED BY <1>0, <2>1, <3>1, <3>2 DEF Places
  <2>3. CASE ~(Len(tasks) < QueueLimit)
    <3>1. looper \in Workers /\ job[looper] = None /\ job' = [job EXCEPT ![looper] = c]
      BY <1>0, <1>2, <2>3 DEF Dispatch, LoopFree, TypeOK
    <3>2. \A d \in Clients : InJob(d)' <=> InJob(d) \/ d = c
      BY <1>0, <3>1, NoneIsOther DEF InJob, TypeOK
    <3>3. \A v, w \in Workers : job'[v] # None /\ job'[v] = job'[w] => v = w
      BY <1>0, <2>1, <3>1 DEF InJob, TypeOK, Places
    <3>4. tasks' = tasks /\ closures' = closures /\ live' = live \union {c}
      BY <1>2, <2>3 DEF Dispatch
    <3>5. \A d \in Clients : InTasks(d)' <=> InTasks(d)
      BY <3>4 DEF InTasks
    <3> QED BY <1>0, <2>1, <3>2, <3>3, <3>4, <3>5 DEF Places
  <2> QED BY <2>2, <2>3
<1>3. ASSUME NEW w \in Workers, Take(w) PROVE Places'
  <2> DEFINE h == Head(tasks)
  <2>1. /\ \A i, j \in DOMAIN tasks' : tasks'[i] = tasks'[j] => i = j
        /\ \A d \in Clients : InTasks(d)' <=> InTasks(d) /\ d # h
        /\ h \in Clients /\ InTasks(h)
    BY <1>0, <1>3, Taken DEF Take, TypeOK, Places
  <2>2. job[w] = None /\ job' = [job EXCEPT ![w] = h] /\ closures' = closures /\ live' = live
    BY <1>3 DEF Take
  <2>3. ~InJob(h) /\ h \notin closures
    BY <1>0, <2>1 DEF Places
  <2>4. \A d \in Clients : InJob(d)' <=> InJob(d) \/ d = h
    BY <1>0, <2>1, <2>2, NoneIsOther DEF InJob, TypeOK
  <2>5. \A v, x \in Workers : job'[v] # None /\ job'[v] = job'[x] => v = x
    BY <1>0, <2>1, <2>2, <2>3 DEF InJob, TypeOK, Places
  <2> QED BY <1>0, <2>1, <2>2, <2>3, <2>4, <2>5 DEF Places
<1>4. ASSUME NEW w \in Workers, ReplyWithStatus(w) \/ Abort(w) PROVE Places'
  <2> DEFINE c == job[w]
  <2>1. c \in Clients /\ InJob(c) /\ ~InTasks(c) /\ c \notin closures /\ c \in live
    BY <1>0, <1>4 DEF ReplyWithStatus, Abort, TypeOK, Places, InJob
  <2>2. job' = [job EXCEPT ![w] = None] /\ tasks' = tasks
    BY <1>4 DEF ReplyWithStatus, Abort
  <2>3. \A d \in Clients : InTasks(d)' <=> InTasks(d)
    BY <2>2 DEF InTasks
  <2>4. \A d \in Clients : InJob(d)' <=> InJob(d) /\ d # c
    BY <1>0, <2>1, <2>2, NoneIsOther DEF InJob, TypeOK, Places
  <2>5. \A v, x \in Workers : job'[v] # None /\ job'[v] = job'[x] => v = x
    BY <1>0, <2>2 DEF TypeOK, Places
  <2>6. \/ closures' = closures \union {c} /\ live' = live
        \/ closures' = closures /\ live' = live \ {c}
    BY <1>4 DEF ReplyWithStatus, Abort
  <2> QED BY <1>0, <2>1, <2>2, <2>3, <2>4, <2>5, <2>6 DEF Places
<1>5. ASSUME NEW c \in Clients, EvSendReply(c) PROVE Places'
  <2>1. /\ tasks' = tasks /\ job' = job /\ c \in closures
        /\ closures' = closures \ {c} /\ live' = live \ {c}
    BY <1>5 DEF EvSendReply
  <2>2. \A d \in Clients : (InTasks(d)' <=> InTasks(d)) /\ (InJob(d)' <=> InJob(d))
    BY <2>1 DEF InTasks, InJob
  <2> QED BY <1>0, <2>1, <2>2 DEF Places
<1>6. ASSUME Start \/ BindFails \/ LoopStep \/ WaitToOne \/ WaitDone \/ Terminate \/ Free
      PROVE  UNCHANGED requests
  BY <1>6 DEF Start, BindFails, LoopStep, LoopEnds, LoopFails, StopListening, WaitToOne,
              WaitDone, Terminate, Free, requests
<1>7. ASSUME NEW c \in Clients, Connect(c) \/ Ask(c) \/ Disconnect(c) \/ Reject(c)
      PROVE  UNCHANGED requests
  BY <1>7 DEF Connect, Ask, Disconnect, Reject
<1>8. ASSUME NEW w \in Workers, EnterLoop(w) PROVE UNCHANGED requests
  BY <1>8 DEF EnterLoop
<1>9. CASE UNCHANGED vars
  BY <1>1, <1>9 DEF vars
<1> QED BY <1>1, <1>2, <1>3, <1>4, <1>5, <1>6, <1>7, <1>8, <1>9 DEF Next, Request, Work

-----------------------------------------------------------------------------
LEMMA StartedStep == Inv /\ [Next]_vars => Started'
<1> SUFFICES ASSUME Inv, [Next]_vars PROVE Started'
  OBVIOUS
<1> USE DEF Inv, Started, server, requests
<1>1. ASSUME Start \/ BindFails \/ WaitToOne \/ WaitDone \/ Terminate \/ Free PROVE Started'
  BY <1>1 DEF Start, BindFails, WaitToOne, WaitDone, Terminate, Free
<1>2. ASSUME LoopStep PROVE Started'
  BY <1>2 DEF LoopStep, LoopEnds, LoopFails, StopListening, LoopFree
<1>3. ASSUME NEW c \in Clients, Request(c) PROVE Started'
  BY <1>3 DEF Request, Connect, Ask, Disconnect, Reject, Dispatch, EvSendReply, LoopFree
<1>4. ASSUME NEW w \in Workers, Work(w) PROVE Started'
  BY <1>4 DEF Work, EnterLoop, Take, ReplyWithStatus, Abort
<1>5. CASE UNCHANGED vars
  BY <1>5 DEF vars
<1> QED BY <1>1, <1>2, <1>3, <1>4, <1>5 DEF Next

\* When the counter is zero, no part of it is left.
LEMMA AllDone ==
  ASSUME Inv, ops <= 0
  PROVE  /\ live = {} /\ listener \notin {"open", "closing"}
         /\ loop \notin {"scheduled", "running"}
<1>1. Cardinality(live) \in Nat /\ OwnOps \in 0 .. 2 /\ IsFiniteSet(live)
  BY LiveCount, OwnNat DEF Inv, TypeOK
<1>2. Cardinality(live) = 0 /\ OwnOps = 0
  BY <1>1 DEF Inv, OpsExact
<1>3. live = {}
  BY <1>1, <1>2, FS_EmptySet
<1> QED BY <1>2, <1>3 DEF OwnOps

LEMMA WaitStep == Inv /\ [Next]_vars => WaitMeansDone'
<1> SUFFICES ASSUME Inv, [Next]_vars PROVE WaitMeansDone'
  OBVIOUS
<1> USE DEF WaitMeansDone, server, requests
<1>1. ASSUME WaitDone PROVE WaitMeansDone'
  <2>1. ops <= 0 /\ main = "exiting"
    BY <1>1 DEF WaitDone
  <2>2. listener # "none" /\ loop # "none"
    BY <2>1 DEF Inv, Started
  <2> QED BY <1>1, <2>1, <2>2, AllDone DEF WaitDone, Inv, TypeOK
<1>2. ASSUME Start \/ BindFails \/ WaitToOne \/ Terminate \/ Free PROVE WaitMeansDone'
  BY <1>2 DEF Inv, Start, BindFails, WaitToOne, Terminate, Free
<1>3. ASSUME LoopStep PROVE WaitMeansDone'
  BY <1>3 DEF Inv, LoopStep, LoopEnds, LoopFails, StopListening, LoopFree
<1>4. ASSUME NEW c \in Clients, Request(c) PROVE WaitMeansDone'
  BY <1>4 DEF Inv, Request, Connect, Ask, Disconnect, Reject, Dispatch, EvSendReply, LoopFree
<1>5. ASSUME NEW w \in Workers, Work(w) PROVE WaitMeansDone'
  BY <1>5 DEF Inv, Work, EnterLoop, Take, ReplyWithStatus, Abort
<1>6. CASE UNCHANGED vars
  BY <1>6 DEF Inv, vars
<1> QED BY <1>1, <1>2, <1>3, <1>4, <1>5, <1>6 DEF Next

-----------------------------------------------------------------------------
\* A set of which any two members are equal counts whether it has one.
LEMMA AtMostOne ==
  ASSUME NEW S, \A x, y \in S : x = y
  PROVE  Cardinality(S) = IF S = {} THEN 0 ELSE 1
<1>1. CASE S = {}
  BY <1>1, FS_EmptySet
<1>2. CASE S # {}
  <2>1. PICK x \in S : S = {x}
    BY <1>2
  <2> QED BY <1>2, <2>1, FS_Singleton
<1> QED BY <1>1, <1>2

LEMMA PlacesCount == Places => OneOwner
<1> SUFFICES ASSUME Places, NEW c \in Clients
             PROVE  Cardinality({i \in DOMAIN tasks : tasks[i] = c})
                    + Cardinality({w \in Workers : job[w] = c})
                    + Cardinality({x \in closures : x = c}) = IF c \in live THEN 1 ELSE 0
  BY DEF OneOwner
<1> DEFINE T == {i \in DOMAIN tasks : tasks[i] = c}
           J == {w \in Workers : job[w] = c}
           R == {x \in closures : x = c}
<1>1. Cardinality(T) = IF InTasks(c) THEN 1 ELSE 0
  <2>1. \A x, y \in T : x = y
    BY DEF Places
  <2>2. T = {} <=> ~InTasks(c)
    BY DEF InTasks
  <2> QED BY <2>1, <2>2, AtMostOne
<1>2. Cardinality(J) = IF InJob(c) THEN 1 ELSE 0
  <2>1. \A x, y \in J : x = y
    BY NoneIsOther DEF Places
  <2>2. J = {} <=> ~InJob(c)
    BY DEF InJob
  <2> QED BY <2>1, <2>2, AtMostOne
<1>3. Cardinality(R) = IF c \in closures THEN 1 ELSE 0
  <2>1. \A x, y \in R : x = y
    OBVIOUS
  <2>2. R = {} <=> c \notin closures
    OBVIOUS
  <2> QED BY <2>1, <2>2, AtMostOne
<1> HIDE DEF T, J, R
<1>4. Cardinality(T) + Cardinality(J) + Cardinality(R) = IF c \in live THEN 1 ELSE 0
  BY <1>1, <1>2, <1>3 DEF Places
<1> QED BY <1>4 DEF T, J, R

-----------------------------------------------------------------------------
LEMMA InvInit == Init => Inv
<1> SUFFICES ASSUME Init PROVE Inv
  OBVIOUS
<1>1. OpsExact
  BY FS_EmptySet DEF Init, OpsExact, OwnOps
<1>2. Started /\ WaitMeansDone
  BY DEF Init, Started, WaitMeansDone
<1> QED BY <1>1, <1>2, TypeInit, PlacesInit DEF Inv

LEMMA InvStep == Inv /\ [Next]_vars => Inv'
BY OpsStep, TypeStep, PlacesStep, StartedStep, WaitStep DEF Inv

LEMMA InvAlways == Spec => []Inv
BY InvInit, InvStep, PTL DEF Spec

\* The model of the server is well typed; num_pending_ops is never negative.
THEOREM TypeCorrect == Spec => []TypeOK
<1>1. Inv => TypeOK
  BY DEF Inv
<1> QED BY <1>1, InvAlways, PTL

\* OperationTracker counts the listener, the loop and the requests that are
\* neither answered nor deleted, for any number of clients and threads.
THEOREM CounterIsExact == Spec => []OpsExact
<1>1. Inv => OpsExact
  BY DEF Inv
<1> QED BY <1>1, InvAlways, PTL

\* ServerImpl::wait() returns only when nothing of the server is left.
THEOREM WaitIsEnough == Spec => []WaitMeansDone
<1>1. Inv => WaitMeansDone
  BY DEF Inv
<1> QED BY <1>1, InvAlways, PTL

\* A request is in the queue, with a handler or scheduled to be answered, and
\* only once, until it is deleted.
THEOREM RequestHasOneOwner == Spec => []OneOwner
<1>1. Inv => OneOwner
  BY PlacesCount DEF Inv
<1> QED BY <1>1, InvAlways, PTL
=============================================================================

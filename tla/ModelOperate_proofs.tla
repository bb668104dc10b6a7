------------------------- MODULE ModelOperate_proofs -------------------------
(***************************************************************************)
(* For one handler, any number of versions and any operations that clients *)
(* use: between two operations the managed versions are the ones that the  *)
(* policy selects, SUCCESS means ready and ERROR means that nothing has    *)
(* changed.  ModelOperate_race shows that it takes one handler.            *)
(***************************************************************************)
EXTENDS ModelOperate, FiniteSetTheorems, TLAPS

\* The managed versions and their states, when policy p was last applied to
\* the directories d.
Loaded(p, d) == [v \in VersionNumbers |-> IF v \notin Selection(p, d) THEN "ABSENT"
                                          ELSE IF v \in broken THEN "ERROR" ELSE "READY"]
Absent == [v \in VersionNumbers |-> "ABSENT"]
Settled == managed = IF configured THEN Loaded(versionPolicy, disk) ELSE Absent

\* The states of the managed versions that have a directory say how they load.
StatesMatch == \A v \in Present \intersect disk : managed[v] = IF v \in broken THEN "ERROR" ELSE "READY"

\* What a handler is after: the step update() comes back to, while it runs.
Updating(h) == step[h] \in {"collect", "push", "round"}
Goal(h) == IF Updating(h) THEN back[h] ELSE step[h]

Begun == {"addModel", "deleteModel", "addVersion", "deleteVersion", "activate"}
AfterUpdate == {"verifyModel", "verifyVersion", "verifyActive", "succeed", "fail"}
Steps == Begun \union AfterUpdate \union {"idle", "configModel", "copyVersion", "keepOnly", "collect", "push", "round"}

Typed == /\ TypeOK
         /\ request \in [Handlers -> Operations \union {Unanswered}]
         /\ step \in [Handlers -> Steps]
         /\ back = [h \in Handlers |-> back[h]]
         /\ mine = [h \in Handlers |-> mine[h]]
         /\ undo = [h \in Handlers |-> undo[h]]
         /\ before = [h \in Handlers |-> before[h]]

\* update(): the stream on its way is what the policy selects, and no other waits.
StreamIsFresh(h) ==
  /\ step[h] # "round" => streams = <<>>
  /\ step[h] = "round" => streams = <<Selection(versionPolicy, disk)>>
  /\ step[h] = "push" => mine[h] = Selection(versionPolicy, disk)
  /\ Updating(h) => configured /\ back[h] \in AfterUpdate
  /\ ~Updating(h) => Settled

\* How the handler found the model, and what it must put back.
Found(h) == before[h] = [configured |-> configured, policy |-> versionPolicy, disk |-> disk, managed |-> managed]
FoundNone(h) == before[h].configured = FALSE /\ before[h].managed = Absent
FoundLoaded(h) == before[h].configured = TRUE /\ before[h].managed = Loaded(before[h].policy, before[h].disk)
Asked(h, ops) == request[h] \in Operations /\ request[h].op \in ops
Asks(h) == request[h].version \in disk \ broken

\* Where each operation is with its work.
OpInv(h) ==
  /\ Goal(h) \in Begun => Asked(h, {Goal(h)}) /\ Found(h)
  /\ Goal(h) = "copyVersion" =>
       Asked(h, {"addVersion"}) /\ Found(h) /\ configured /\ mine[h] \in VersionNumbers \ disk
  /\ Goal(h) = "configModel" => Asked(h, {"addModel"}) /\ FoundNone(h) /\ ~configured /\ undo[h] \in Policies
  /\ Goal(h) = "verifyModel" => Asked(h, {"addModel"}) /\ FoundNone(h) /\ configured
  /\ Goal(h) = "verifyVersion" =>
       /\ Asked(h, {"addVersion"}) /\ FoundLoaded(h) /\ configured
       /\ before[h].policy = versionPolicy
       /\ undo[h] \notin before[h].disk /\ disk = before[h].disk \union {undo[h]}
  /\ Goal(h) = "verifyActive" =>
       /\ Asked(h, {"activate"}) /\ FoundLoaded(h) /\ configured
       /\ before[h].policy = undo[h] /\ undo[h] \in Policies /\ before[h].disk = disk
       /\ versionPolicy.choice = "specific" /\ request[h].version \in versionPolicy.named \intersect disk
  /\ Goal(h) = "keepOnly" => Asked(h, {"activate"}) /\ configured /\ Asks(h)
  /\ Goal(h) = "succeed" =>
       /\ Asked(h, {"deleteVersion", "activate"}) /\ configured
       /\ request[h].op = "activate" =>
            Asks(h) /\ versionPolicy = [choice |-> "specific", named |-> {request[h].version}]
  /\ Goal(h) = "fail" =>
       /\ Asked(h, {"addVersion", "activate"}) /\ FoundLoaded(h) /\ configured
       /\ before[h].policy = versionPolicy /\ before[h].disk = disk
  /\ Goal(h) = "idle" => SuccessIsReady /\ FailureLeavesNoTrace

OInv == Typed /\ StatesMatch /\ \A h \in Handlers : StreamIsFresh(h) /\ OpInv(h)
-----------------------------------------------------------------------------
\* A policy selects some of the directories, and the specific one those that
\* it names.
LEMMA SelectsOfDisk ==
  ASSUME NEW p \in Policies, NEW d \in SUBSET VersionNumbers
  PROVE  /\ Selection(p, d) \subseteq d
         /\ p.choice = "specific" => Selection(p, d) = d \intersect p.named
<1>1. p.choice \in {"all", "latest", "specific"}
  BY DEF Policies
<1>2. CASE p.choice = "all"
  BY <1>2 DEF Selection
<1>3. CASE p.choice = "latest"
  BY <1>3 DEF Selection
<1>4. CASE p.choice = "specific"
  BY <1>4 DEF Selection
<1> QED BY <1>1, <1>2, <1>3, <1>4

\* addModelVersion(): the number after the greatest one is new.
LEMMA NextIsNew ==
  ASSUME NEW d \in SUBSET VersionNumbers, NEW next, next = Max(d \union {-1}) + 1, next <= MaxVersion
  PROVE  next \in VersionNumbers \ d
<1> DEFINE S == d \union {-1}
           Gaps == {MaxVersion - v : v \in S}
<1>1. S \subseteq Int /\ \A v \in S : -1 <= v /\ v <= MaxVersion
  BY MaxVersionNat DEF VersionNumbers
<1>2. Gaps \subseteq Nat /\ Gaps # {}
  BY <1>1, MaxVersionNat
<1>3. OpToRel(<, Nat) = {ss \in Nat \X Nat : ss[1] < ss[2]}
  BY DEF OpToRel
<1>4. \E m \in Gaps : \A n \in Gaps : ~ (<<n, m>> \in OpToRel(<, Nat))
  BY <1>2, NatLessThanWellFounded, WFMin
<1>5. PICK m \in Gaps : \A n \in Gaps : <<n, m>> \notin {ss \in Nat \X Nat : ss[1] < ss[2]}
  BY <1>3, <1>4
<1>6. \A n \in Gaps : m <= n
  <2> SUFFICES ASSUME NEW n \in Gaps PROVE m <= n
    OBVIOUS
  <2>1. <<n, m>> \in Nat \X Nat /\ ~ (n < m)
    BY <1>2, <1>5
  <2> QED BY <2>1
<1>7. PICK top \in S : \A v \in S : top >= v
  <2>1. PICK top \in S : m = MaxVersion - top
    OBVIOUS
  <2>2. ASSUME NEW v \in S PROVE top >= v
    <3>1. m <= MaxVersion - v
      BY <1>6
    <3> QED BY <1>1, <2>1, <3>1, MaxVersionNat
  <2> QED BY <2>2
<1>8. Max(S) \in S /\ \A v \in S : Max(S) >= v
  BY <1>7 DEF Max
<1> HIDE DEF S
<1>9. Max(S) \in Int /\ -1 <= Max(S) /\ next = Max(S) + 1
  BY <1>1, <1>8 DEF S
<1>10. next \in VersionNumbers
  BY <1>9, MaxVersionNat DEF VersionNumbers
<1>11. next \notin S
  BY <1>1, <1>8, <1>9
<1> QED BY <1>10, <1>11 DEF S

\* BoardingFunctor::handle() of one stream: it is taken, and what it names is
\* what is wanted.
LEMMA OneStream ==
  ASSUME NEW s, configured
  PROVE  Handled(<<s>>).wanted = s /\ Handled(<<s>>).kept = <<>>
<1> DEFINE base == [there |-> Present, wanted |-> Present, kept |-> <<>>]
           Taken(b, t) == LET new == IF configured THEN t \ b.there ELSE {}
                          IN IF (b.there \ b.wanted) \intersect t # {}
                             THEN [b EXCEPT !.kept = Append(@, t)]
                             ELSE [b EXCEPT !.there = @ \union new,
                                            !.wanted = (@ \intersect t) \union new]
           f[i \in 0 .. Len(<<s>>)] == IF i = 0 THEN base ELSE Taken(f[i - 1], <<s>>[i])
           g == [i \in 0 .. Len(<<s>>) |-> IF i = 0 THEN base ELSE Taken(base, s)]
<1>1. Handled(<<s>>) = f[Len(<<s>>)]
  BY DEF Handled
<1>2. Len(<<s>>) = 1 /\ <<s>>[1] = s
  OBVIOUS
<1>3. g = [i \in 0 .. Len(<<s>>) |-> IF i = 0 THEN base ELSE Taken(g[i - 1], <<s>>[i])]
  <2>1. ASSUME NEW i \in 0 .. Len(<<s>>), i # 0 PROVE i = 1 /\ g[i - 1] = base /\ <<s>>[i] = s
    <3>1. i = 1
      BY <1>2, <2>1
    <3> QED BY <1>2, <3>1
  <2> HIDE DEF Taken, base
  <2> QED BY <2>1
<1>4. f = [i \in 0 .. Len(<<s>>) |-> IF i = 0 THEN base ELSE Taken(f[i - 1], <<s>>[i])]
  <2> HIDE DEF Taken, base, g
  <2> QED BY <1>3, Zenon
<1>5. f[0] = base /\ f[1] = Taken(base, s)
  <2> HIDE DEF Taken, base, g, f
  <2>1. f[0] = base
    BY <1>2, <1>4
  <2>2. f[1] = Taken(f[1 - 1], <<s>>[1])
    BY <1>2, <1>4
  <2> QED BY <1>2, <2>1, <2>2
<1>6. Taken(base, s).wanted = s /\ Taken(base, s).kept = <<>>
  OBVIOUS
<1> HIDE DEF Taken, base, f, g
<1> QED BY <1>1, <1>2, <1>5, <1>6
-----------------------------------------------------------------------------
\* Start-up has applied the policy, and no handler has begun.
LEMMA InitOInv ==
  ASSUME NEW h, Handlers = {h}, OpInit
  PROVE  OInv
<1>1. Selection(versionPolicy, disk) \subseteq disk
  BY SelectsOfDisk DEF OpInit
<1>2. \A v \in VersionNumbers : managed[v] = IF v \in Selection(versionPolicy, disk) THEN LoadResult(v) ELSE "ABSENT"
  BY DEF OpInit
<1>3. \A v \in VersionNumbers : managed[v] = IF v \notin Selection(versionPolicy, disk) THEN "ABSENT"
                                       ELSE IF v \in broken THEN "ERROR" ELSE "READY"
  BY <1>1, <1>2 DEF LoadResult
<1>4. Typed
  <2>1. Cardinality(Handlers) = 1
    BY FS_Singleton
  <2>2. managed \in [VersionNumbers -> {"ABSENT", "READY", "ERROR"}]
    BY DEF OpInit, LoadResult
  <2> QED BY <2>1, <2>2 DEF OpInit, Typed, TypeOK, Steps
<1>5. StatesMatch
  BY <1>1, <1>3 DEF StatesMatch, Present
<1>6. StreamIsFresh(h)
  BY <1>3 DEF StreamIsFresh, Updating, Settled, Loaded, OpInit
<1>7. OpInv(h)
  BY UnansweredIsNoReply DEF OpInv, Goal, Updating, Begun, OpInit, SuccessIsReady, FailureLeavesNoTrace
<1> QED BY <1>4, <1>5, <1>6, <1>7 DEF OInv

\* A settled model has what the policy selects of its directories, and no more.
LEMMA SettledIsSelected ==
  ASSUME Typed, Settled
  PROVE  /\ Present = IF configured THEN Selection(versionPolicy, disk) ELSE {}
         /\ Present \subseteq disk
         /\ configured => managed = Loaded(versionPolicy, disk)
         /\ ~configured => managed = Absent
<1>1. Selection(versionPolicy, disk) \subseteq disk
  BY SelectsOfDisk DEF Typed, TypeOK
<1> QED BY <1>1 DEF Settled, Present, Loaded, Absent, Typed, TypeOK

\* A handler that waits is asked, and remembers the model as it is.
LEMMA ReceiveKeeps ==
  ASSUME NEW h, Handlers = {h}, OInv, NEW r \in Operations, StartOp(h, r)
  PROVE  OInv'
<1> USE DEF OInv
<1>1. r.op \in Begun
  BY OpsKnown DEF Operations, Begun
<1>2. Typed'
  BY <1>1 DEF StartOp, StepTo, Typed, TypeOK, Steps, store
<1>3. step'[h] = r.op /\ request'[h] = r
      /\ before'[h] = [configured |-> configured, policy |-> versionPolicy, disk |-> disk, managed |-> managed]
  BY DEF StartOp, StepTo, Typed
<1>4. step[h] = "idle" /\ UNCHANGED <<configured, versionPolicy, disk, broken, managed, streams>>
  BY DEF StartOp, store
<1>5. StatesMatch'
  BY <1>4 DEF StatesMatch, Present
<1>6. StreamIsFresh(h)'
  BY <1>1, <1>3, <1>4 DEF StreamIsFresh, Updating, Begun, Settled, Loaded, Absent
<1>7. OpInv(h)'
  BY <1>1, <1>3, <1>4 DEF OpInv, Goal, Updating, Begun, Asked, Found
<1> QED BY <1>2, <1>5, <1>6, <1>7

\* An operation that is refused, or finds nothing to copy, has changed nothing.
LEMMA RefusalKeeps ==
  ASSUME NEW h, Handlers = {h}, OInv, RejectOp(h) \/ CopyFails(h)
  PROVE  OInv'
<1> USE DEF OInv
<1>1. step[h] \in Begun \union {"copyVersion"} /\ step'[h] = "idle" /\ reply'[h] = "ERROR"
  BY DEF RejectOp, CopyFails, ReplyWith, StepTo, Begun, Typed, TypeOK
<1>2. UNCHANGED <<configured, versionPolicy, disk, broken, managed, streams, request, before>>
  BY DEF RejectOp, CopyFails, store, local
<1>3. Typed'
  BY <1>2 DEF RejectOp, CopyFails, ReplyWith, StepTo, Typed, TypeOK, Steps
<1>4. StatesMatch'
  BY <1>2 DEF StatesMatch, Present
<1>5. StreamIsFresh(h)'
  BY <1>1, <1>2 DEF StreamIsFresh, Updating, Begun, Settled, Loaded, Absent
<1>6. OpInv(h)'
  <2>1. Found(h)
    BY <1>1 DEF OpInv, Goal, Updating, Begun
  <2> QED BY <1>1, <1>2, <2>1 DEF OpInv, Goal, Updating, Begun, Found, SuccessIsReady, FailureLeavesNoTrace
<1> QED BY <1>3, <1>4, <1>5, <1>6

\* addModel() puts down the files of a model that there was not.
LEMMA CopyModelKeeps ==
  ASSUME NEW h, Handlers = {h}, OInv,
         NEW p \in Policies, NEW d \in SUBSET VersionNumbers, NEW b \in SUBSET d, CopyModel(h, p, d, b)
  PROVE  OInv'
<1> USE DEF OInv
<1>1. step[h] = "addModel" /\ ~configured /\ step'[h] = "configModel" /\ undo'[h] = p
  BY DEF CopyModel, StepTo, Typed
<1>2. UNCHANGED <<configured, versionPolicy, managed, streams, request, back, mine, reply, before>>
  BY DEF CopyModel
<1>3. managed = Absent /\ Present = {}
  BY <1>1, SettledIsSelected DEF StreamIsFresh, Updating
<1>4. Typed'
  BY DEF CopyModel, StepTo, Typed, TypeOK, Steps
<1>5. StatesMatch'
  BY <1>2, <1>3 DEF StatesMatch, Present
<1>6. StreamIsFresh(h)'
  BY <1>1, <1>2, <1>3 DEF StreamIsFresh, Updating, Settled, Absent
<1>7. OpInv(h)'
  <2>1. Found(h) /\ Asked(h, {"addModel"})
    BY <1>1 DEF OpInv, Goal, Updating, Begun
  <2> QED BY <1>1, <1>2, <1>3, <2>1 DEF OpInv, Goal, Updating, Begun, Found, FoundNone, Asked, Absent
<1> QED BY <1>4, <1>5, <1>6, <1>7

\* ... and its configuration is read.
LEMMA ConfigModelKeeps ==
  ASSUME NEW h, Handlers = {h}, OInv, ReadConfig(h)
  PROVE  OInv'
<1> USE DEF OInv
<1>1. step[h] = "configModel" /\ step'[h] = "collect" /\ back'[h] = "verifyModel" /\ configured' /\ undo[h] \in Policies
  BY DEF ReadConfig, CallUpdate, StepTo, Typed, OpInv, Goal, Updating
<1>2. UNCHANGED <<disk, broken, managed, streams, request, mine, undo, reply, before>>
  BY DEF ReadConfig
<1>3. Typed'
  BY <1>1 DEF ReadConfig, CallUpdate, StepTo, Typed, TypeOK, Steps
<1>4. StatesMatch'
  BY <1>2 DEF StatesMatch, Present
<1>5. StreamIsFresh(h)'
  BY <1>1, <1>2 DEF StreamIsFresh, Updating, AfterUpdate
<1>6. OpInv(h)'
  <2>1. FoundNone(h) /\ Asked(h, {"addModel"})
    BY <1>1 DEF OpInv, Goal, Updating
  <2> QED BY <1>1, <1>2, <2>1 DEF OpInv, Goal, Updating, Begun, FoundNone, Asked, Absent
<1> QED BY <1>3, <1>4, <1>5, <1>6

\* operateFailure() and deleteModel() leave nothing of the model.
LEMMA ForgetKeeps ==
  ASSUME NEW h, Handlers = {h}, OInv, ReadFails(h) \/ DeleteModel(h) \/ ModelNotNormal(h)
  PROVE  OInv'
<1> USE DEF OInv
<1>1. PICK status \in {"SUCCESS", "ERROR"} : ForgetModel(h, status) /\
        \/ status = "ERROR" /\ step[h] \in {"configModel", "verifyModel"}
        \/ status = "SUCCESS" /\ step[h] = "deleteModel"
  BY DEF ReadFails, DeleteModel, ModelNotNormal
<1>2. step'[h] = "idle" /\ reply'[h] = status /\ configured' = FALSE /\ managed' = Absent
      /\ disk' = {} /\ broken' = {}
  BY <1>1 DEF ForgetModel, ReplyWith, StepTo, Typed, TypeOK, Absent
<1>3. UNCHANGED <<versionPolicy, streams, request, before>>
  BY <1>1 DEF ForgetModel, local
<1>4. Typed'
  BY <1>1, <1>2, <1>3 DEF ForgetModel, ReplyWith, StepTo, Typed, TypeOK, Steps, Absent
<1>5. StatesMatch'
  BY <1>2 DEF StatesMatch, Present
<1>6. StreamIsFresh(h)'
  BY <1>1, <1>2, <1>3 DEF StreamIsFresh, Updating, Settled, Absent
<1>7. OpInv(h)'
  <2>1. CASE status = "ERROR"
    <3>1. FoundNone(h)
      BY <1>1, <2>1 DEF OpInv, Goal, Updating
    <3> QED BY <1>1, <1>2, <1>3, <2>1, <3>1 DEF OpInv, Goal, Updating, Begun, FoundNone, SuccessIsReady, FailureLeavesNoTrace
  <2>2. CASE status = "SUCCESS"
    <3>1. request[h].op = "deleteModel"
      BY <1>1, <2>2 DEF OpInv, Goal, Updating, Begun, Asked
    <3> QED BY <1>1, <1>2, <1>3, <2>2, <3>1 DEF OpInv, Goal, Updating, Begun, SuccessIsReady, FailureLeavesNoTrace
  <2> QED BY <2>1, <2>2
<1> QED BY <1>4, <1>5, <1>6, <1>7

\* addModelVersion() takes a number that no directory has, ...
LEMMA ChooseVersionKeeps ==
  ASSUME NEW h, Handlers = {h}, OInv, PickVersion(h)
  PROVE  OInv'
<1> USE DEF OInv
<1>1. step[h] = "addVersion" /\ configured /\ step'[h] = "copyVersion"
  BY DEF PickVersion, StepTo, Typed
<1>2. UNCHANGED <<configured, versionPolicy, disk, broken, managed, streams, request, back, undo, reply, before>>
  BY DEF PickVersion, store
<1>3. mine'[h] \in VersionNumbers \ disk
  BY NextIsNew DEF PickVersion, Typed, TypeOK
<1>4. Typed'
  BY <1>2 DEF PickVersion, StepTo, Typed, TypeOK, Steps
<1>5. StatesMatch'
  BY <1>2 DEF StatesMatch, Present
<1>6. StreamIsFresh(h)'
  BY <1>1, <1>2 DEF StreamIsFresh, Updating, Settled, Loaded, Absent
<1>7. OpInv(h)'
  <2>1. Found(h) /\ Asked(h, {"addVersion"})
    BY <1>1 DEF OpInv, Goal, Updating, Begun
  <2> QED BY <1>1, <1>2, <1>3, <2>1 DEF OpInv, Goal, Updating, Begun, Found, Asked
<1> QED BY <1>4, <1>5, <1>6, <1>7

\* ... fills the directory and calls update().
LEMMA CopyVersionKeeps ==
  ASSUME NEW h, Handlers = {h}, OInv, NEW loads \in BOOLEAN, CopyVersion(h, loads)
  PROVE  OInv'
<1> USE DEF OInv
<1> DEFINE new == mine[h]
<1>1. step[h] = "copyVersion" /\ step'[h] = "collect" /\ back'[h] = "verifyVersion" /\ undo'[h] = new
  BY DEF CopyVersion, StepTo, Typed
<1>2. UNCHANGED <<configured, versionPolicy, managed, streams, request, mine, reply, before>>
  BY DEF CopyVersion
<1>3. configured /\ new \in VersionNumbers \ disk /\ Found(h) /\ Asked(h, {"addVersion"})
  BY <1>1 DEF OpInv, Goal, Updating, Begun
<1>4. disk' = disk \union {new} /\ broken' \in {broken, broken \union {new}}
  BY DEF CopyVersion
<1>5. Typed'
  BY <1>3, <1>4 DEF CopyVersion, StepTo, Typed, TypeOK, Steps
<1>6. Settled /\ streams = <<>>
  BY <1>1 DEF StreamIsFresh, Updating
<1>7. Present \subseteq disk /\ managed = Loaded(versionPolicy, disk)
  BY <1>3, <1>6, SettledIsSelected
<1>8. StatesMatch'
  BY <1>2, <1>3, <1>4, <1>7 DEF StatesMatch, Present
<1>9. StreamIsFresh(h)'
  BY <1>1, <1>2, <1>3, <1>6 DEF StreamIsFresh, Updating, AfterUpdate
<1>10. FoundLoaded(h)'
  <2>1. before'[h].configured = TRUE /\ before'[h].policy = versionPolicy /\ before'[h].disk = disk
        /\ before'[h].managed = managed
    BY <1>2, <1>3 DEF Found
  <2>2. Selection(versionPolicy, disk) \subseteq disk
    BY SelectsOfDisk DEF Typed, TypeOK
  <2>3. Loaded(versionPolicy, disk) = [v \in VersionNumbers |->
                                         IF v \notin Selection(versionPolicy, disk) THEN "ABSENT"
                                         ELSE IF v \in broken' THEN "ERROR" ELSE "READY"]
    BY <1>3, <1>4, <2>2 DEF Loaded
  <2> QED BY <1>7, <2>1, <2>3 DEF FoundLoaded, Loaded
<1>11. OpInv(h)'
  BY <1>1, <1>2, <1>3, <1>4, <1>10 DEF OpInv, Goal, Updating, Begun, Found, Asked
<1> QED BY <1>5, <1>8, <1>9, <1>11

\* deleteModelVersion() removes a directory.
LEMMA DeleteVersionKeeps ==
  ASSUME NEW h, Handlers = {h}, OInv, DeleteVersion(h)
  PROVE  OInv'
<1> USE DEF OInv
<1>1. step[h] = "deleteVersion" /\ configured /\ step'[h] = "collect" /\ back'[h] = "succeed"
  BY DEF DeleteVersion, CallUpdate, StepTo, Typed
<1>2. UNCHANGED <<configured, versionPolicy, managed, streams, request, mine, undo, before, reply>>
  BY DEF DeleteVersion, local
<1>3. Typed'
  BY DEF DeleteVersion, CallUpdate, StepTo, Typed, TypeOK, Steps, local
<1>4. StatesMatch'
  BY <1>2 DEF DeleteVersion, StatesMatch, Present
<1>5. StreamIsFresh(h)'
  BY <1>1, <1>2 DEF StreamIsFresh, Updating, AfterUpdate
<1>6. OpInv(h)'
  <2>1. Asked(h, {"deleteVersion"})
    BY <1>1 DEF OpInv, Goal, Updating, Begun
  <2> QED BY <1>1, <1>2, <2>1 DEF OpInv, Goal, Updating, Begun, Asked
<1> QED BY <1>3, <1>4, <1>5, <1>6

\* versionLoad() keeps the policy and makes one that adds the version.
LEMMA TempPolicyKeeps ==
  ASSUME NEW h, Handlers = {h}, OInv, TempPolicy(h)
  PROVE  OInv'
<1> USE DEF OInv
<1>1. step[h] = "activate" /\ configured /\ step'[h] = "collect" /\ back'[h] = "verifyActive" /\ undo'[h] = versionPolicy
      /\ request[h].version \in disk
  BY DEF TempPolicy, CallUpdate, StepTo, Typed
<1>2. UNCHANGED <<configured, disk, broken, managed, streams, request, mine, reply, before>>
  BY DEF TempPolicy
<1>3. versionPolicy' = [choice |-> "specific", named |-> Present \union {request[h].version}]
  BY DEF TempPolicy
<1>4. versionPolicy' \in Policies /\ versionPolicy \in Policies
  <2>1. Present \union {request[h].version} \subseteq VersionNumbers
    BY <1>1 DEF Present, Typed, TypeOK
  <2> QED BY <1>3, <2>1 DEF Policies, Typed, TypeOK
<1>5. Typed'
  BY <1>4 DEF TempPolicy, CallUpdate, StepTo, Typed, TypeOK, Steps
<1>6. StatesMatch'
  BY <1>2 DEF StatesMatch, Present
<1>7. StreamIsFresh(h)'
  BY <1>1, <1>2 DEF StreamIsFresh, Updating, AfterUpdate
<1>8. OpInv(h)'
  <2>1. Found(h) /\ Asked(h, {"activate"})
    BY <1>1 DEF OpInv, Goal, Updating, Begun
  <2>2. managed = Loaded(versionPolicy, disk)
    BY <1>1, SettledIsSelected DEF StreamIsFresh, Updating
  <2>3. FoundLoaded(h)'
    BY <1>1, <1>2, <2>1, <2>2 DEF Found, FoundLoaded, Loaded
  <2> QED BY <1>1, <1>2, <1>3, <1>4, <2>1, <2>3 DEF OpInv, Goal, Updating, Begun, Asked, Found
<1> QED BY <1>5, <1>6, <1>7, <1>8

\* oldVersionUnload() keeps the version alone.
LEMMA KeepOnlyKeeps ==
  ASSUME NEW h, Handlers = {h}, OInv, KeepOnly(h)
  PROVE  OInv'
<1> USE DEF OInv
<1>1. step[h] = "keepOnly" /\ step'[h] = "collect" /\ back'[h] = "succeed"
  BY DEF KeepOnly, CallUpdate, StepTo, Typed
<1>2. UNCHANGED <<configured, disk, broken, managed, streams, request, mine, undo, before, reply>>
  BY DEF KeepOnly, local
<1>3. versionPolicy' = [choice |-> "specific", named |-> {request[h].version}]
  BY DEF KeepOnly
<1>4. configured /\ Asked(h, {"activate"}) /\ Asks(h)
  BY <1>1 DEF OpInv, Goal, Updating, Begun
<1>5. versionPolicy' \in Policies
  BY <1>3, <1>4 DEF Asks, Policies, Typed, TypeOK
<1>6. Typed'
  BY <1>5 DEF KeepOnly, CallUpdate, StepTo, Typed, TypeOK, Steps, local
<1>7. StatesMatch'
  BY <1>2 DEF StatesMatch, Present
<1>8. StreamIsFresh(h)'
  BY <1>1, <1>2, <1>4 DEF StreamIsFresh, Updating, AfterUpdate
<1>9. OpInv(h)'
  BY <1>1, <1>2, <1>3, <1>4 DEF OpInv, Goal, Updating, Begun, Asked, Asks
<1> QED BY <1>6, <1>7, <1>8, <1>9

\* update() takes the versions that the policy selects now, ...
LEMMA CollectKeeps ==
  ASSUME NEW h, Handlers = {h}, OInv, Collect(h)
  PROVE  OInv'
<1> USE DEF OInv
<1>1. step[h] = "collect" /\ step'[h] = "push" /\ mine'[h] = Selection(versionPolicy, disk)
  BY DEF Collect, StepTo, Typed, StreamIsFresh, Updating
<1>2. UNCHANGED <<configured, versionPolicy, disk, broken, managed, streams, request, back, undo, reply, before>>
  BY DEF Collect, store
<1>3. Typed'
  BY <1>2 DEF Collect, StepTo, Typed, TypeOK, Steps
<1>4. StatesMatch'
  BY <1>2 DEF StatesMatch, Present
<1>5. StreamIsFresh(h)'
  BY <1>1, <1>2 DEF StreamIsFresh, Updating
<1>6. OpInv(h)'
  <2>1. Goal(h)' = Goal(h) /\ Goal(h) \in AfterUpdate
    BY <1>1, <1>2 DEF Goal, Updating, StreamIsFresh
  <2> QED BY <1>2, <2>1 DEF OpInv, Begun, AfterUpdate, Asked, FoundNone, FoundLoaded, Asks, Absent, Loaded
<1> QED BY <1>3, <1>4, <1>5, <1>6

\* ... hands them over, ...
LEMMA PushKeeps ==
  ASSUME NEW h, Handlers = {h}, OInv, PushStream(h)
  PROVE  OInv'
<1> USE DEF OInv
<1>1. step[h] = "push" /\ step'[h] = "round" /\ mine[h] = Selection(versionPolicy, disk) /\ streams = <<>>
  BY DEF PushStream, StepTo, Typed, StreamIsFresh, Updating
<1>2. UNCHANGED <<configured, versionPolicy, disk, broken, managed, request, back, mine, undo, reply, before>>
  BY DEF PushStream, store, local
<1>3. streams' = <<Selection(versionPolicy, disk)>>
  BY <1>1 DEF PushStream
<1>4. Typed'
  <2>1. Selection(versionPolicy, disk) \in SUBSET VersionNumbers
    BY SelectsOfDisk DEF Typed, TypeOK
  <2>2. streams' \in Seq(SUBSET VersionNumbers) /\ Len(streams') = 1
    BY <1>3, <2>1
  <2>3. Cardinality(Handlers) = 1
    BY FS_Singleton
  <2> QED BY <1>2, <2>2, <2>3 DEF PushStream, StepTo, Typed, TypeOK, Steps
<1>5. StatesMatch'
  BY <1>2 DEF StatesMatch, Present
<1>6. StreamIsFresh(h)'
  BY <1>1, <1>2, <1>3 DEF StreamIsFresh, Updating
<1>7. OpInv(h)'
  <2>1. Goal(h)' = Goal(h) /\ Goal(h) \in AfterUpdate
    BY <1>1, <1>2 DEF Goal, Updating, StreamIsFresh
  <2> QED BY <1>2, <2>1 DEF OpInv, Begun, AfterUpdate, Asked, FoundNone, FoundLoaded, Asks, Absent, Loaded
<1> QED BY <1>4, <1>5, <1>6, <1>7

\* ... and the boarding thread's round settles the model.
LEMMA RoundKeeps ==
  ASSUME NEW h, Handlers = {h}, OInv, Round(h)
  PROVE  OInv'
<1> USE DEF OInv
<1> DEFINE chosen == Selection(versionPolicy, disk)
<1>1. step[h] = "round" /\ streams = <<chosen>> /\ configured /\ back[h] \in AfterUpdate
  BY DEF Round, StreamIsFresh, Updating
<1>2. UNCHANGED <<configured, versionPolicy, disk, broken, request, back, mine, undo, reply, before>>
  BY DEF Round, local
<1>3. step'[h] = back[h]
  BY DEF Round, StepTo, Typed
<1>4. chosen \subseteq disk /\ disk \subseteq VersionNumbers
  BY SelectsOfDisk DEF Typed, TypeOK
<1>5. Handled(streams).wanted = chosen /\ Handled(streams).kept = <<>>
  BY <1>1, OneStream
<1>6. /\ streams' = <<>>
      /\ managed' = [v \in VersionNumbers |-> IF v \notin chosen THEN "ABSENT"
                                        ELSE IF managed[v] # "ABSENT" THEN managed[v] ELSE LoadResult(v)]
  <2> HIDE DEF chosen
  <2> QED BY <1>5 DEF Round
<1>7. managed' = Loaded(versionPolicy, disk)
  <2>1. ASSUME NEW v \in VersionNumbers
        PROVE  managed'[v] = IF v \notin chosen THEN "ABSENT" ELSE IF v \in broken THEN "ERROR" ELSE "READY"
    BY <1>4, <1>6 DEF StatesMatch, Present, LoadResult
  <2> QED BY <1>6, <2>1 DEF Loaded
<1>8. Typed'
  <2>1. managed' \in [VersionNumbers -> {"ABSENT", "READY", "ERROR"}]
    BY <1>7 DEF Loaded
  <2>2. streams' \in Seq(SUBSET VersionNumbers) /\ Len(streams') = 0 /\ Cardinality(Handlers) = 1
    BY <1>6, FS_Singleton
  <2>3. step' \in [Handlers -> Steps]
    BY <1>1 DEF Round, StepTo, Typed, Steps
  <2> QED BY <1>2, <2>1, <2>2, <2>3 DEF Typed, TypeOK
<1>9. StatesMatch'
  BY <1>2, <1>7 DEF StatesMatch, Present, Loaded
<1>10. StreamIsFresh(h)'
  BY <1>1, <1>2, <1>3, <1>6, <1>7 DEF StreamIsFresh, Updating, AfterUpdate, Settled, Loaded
<1>11. OpInv(h)'
  <2>1. Goal(h)' = Goal(h) /\ Goal(h) \in AfterUpdate
    BY <1>1, <1>3 DEF Goal, Updating, AfterUpdate
  <2> QED BY <1>2, <2>1 DEF OpInv, Begun, AfterUpdate, Asked, FoundNone, FoundLoaded, Asks, Absent, Loaded
<1> QED BY <1>8, <1>9, <1>10, <1>11

\* SUCCESS is answered when every version is ready, or nothing could fail.
LEMMA SucceedKeeps ==
  ASSUME NEW h, Handlers = {h}, OInv, Succeed(h)
  PROVE  OInv'
<1> USE DEF OInv
<1>1. step[h] \in {"verifyModel", "verifyVersion", "succeed"} /\ step'[h] = "idle" /\ reply'[h] = "SUCCESS"
  BY DEF Succeed, ReplyWith, StepTo, Typed, TypeOK
<1>2. UNCHANGED <<configured, versionPolicy, disk, broken, managed, streams, request, before>>
  BY DEF Succeed, store, local
<1>3. Typed'
  BY <1>2 DEF Succeed, ReplyWith, StepTo, Typed, TypeOK, Steps
<1>4. StatesMatch'
  BY <1>2 DEF StatesMatch, Present
<1>5. StreamIsFresh(h)'
  BY <1>1, <1>2 DEF StreamIsFresh, Updating, Settled, Loaded, Absent
<1>6. /\ request[h].op \in {"addModel", "addVersion", "activate"} => Normal
      /\ request[h].op = "activate" => Present = {request[h].version}
  <2>1. CASE step[h] # "succeed"
    BY <1>1, <2>1 DEF OpInv, Goal, Updating, Begun, Asked, Succeed
  <2>2. CASE step[h] = "succeed"
    <3>1. Asked(h, {"deleteVersion", "activate"}) /\ configured
      BY <2>2 DEF OpInv, Goal, Updating, Begun
    <3>2. ASSUME request[h].op = "activate" PROVE Normal /\ Present = {request[h].version}
      <4>1. Asks(h) /\ versionPolicy = [choice |-> "specific", named |-> {request[h].version}]
        BY <2>2, <3>2 DEF OpInv, Goal, Updating, Begun
      <4>2. Selection(versionPolicy, disk) = disk \intersect versionPolicy.named
        BY <4>1, SelectsOfDisk DEF Typed, TypeOK
      <4>3. Present = {request[h].version}
        BY <2>2, <3>1, <4>1, <4>2, SettledIsSelected DEF StreamIsFresh, Updating, Asks
      <4>4. managed[request[h].version] = "READY"
        BY <4>1, <4>3 DEF StatesMatch, Asks
      <4> QED BY <4>3, <4>4 DEF Normal
    <3> QED BY <3>1, <3>2 DEF Asked
  <2> QED BY <2>1, <2>2
<1>7. OpInv(h)'
  BY <1>1, <1>2, <1>6 DEF OpInv, Goal, Updating, Begun, SuccessIsReady, FailureLeavesNoTrace, Normal, Present
<1> QED BY <1>3, <1>4, <1>5, <1>7

\* activateModel() goes on when the version is loaded next to the others.
LEMMA ActivatedKeeps ==
  ASSUME NEW h, Handlers = {h}, OInv, Activated(h)
  PROVE  OInv'
<1> USE DEF OInv
<1>1. step[h] = "verifyActive" /\ Normal /\ step'[h] = "keepOnly"
  BY DEF Activated, StepTo, Typed
<1>2. UNCHANGED <<configured, versionPolicy, disk, broken, managed, streams, request, back, mine, undo, before, reply>>
  BY DEF Activated, store, local
<1>3. Typed'
  BY <1>2 DEF Activated, StepTo, Typed, TypeOK, Steps
<1>4. StatesMatch'
  BY <1>2 DEF StatesMatch, Present
<1>5. StreamIsFresh(h)'
  BY <1>1, <1>2 DEF StreamIsFresh, Updating, Settled, Loaded, Absent
<1>6. /\ Asked(h, {"activate"}) /\ configured /\ versionPolicy.choice = "specific"
      /\ request[h].version \in versionPolicy.named \intersect disk
  BY <1>1 DEF OpInv, Goal, Updating, Begun
<1>7. Asks(h)
  <2>1. request[h].version \in Selection(versionPolicy, disk)
    BY <1>6, SelectsOfDisk DEF Typed, TypeOK
  <2>2. request[h].version \in Present
    BY <1>1, <1>6, <2>1, SettledIsSelected DEF StreamIsFresh, Updating
  <2>3. managed[request[h].version] = "READY"
    BY <1>1, <2>2 DEF Normal
  <2> QED BY <1>6, <2>2, <2>3 DEF Asks, StatesMatch
<1>8. OpInv(h)'
  BY <1>1, <1>2, <1>6, <1>7 DEF OpInv, Goal, Updating, Begun, Asked, Asks
<1> QED BY <1>3, <1>4, <1>5, <1>8

\* What did not load is taken back, directory or policy, and update() called.
LEMMA RollBackKeeps ==
  ASSUME NEW h, Handlers = {h}, OInv, RollBack(h)
  PROVE  OInv'
<1> USE DEF OInv
<1>1. step[h] \in {"verifyVersion", "verifyActive"} /\ step'[h] = "collect" /\ back'[h] = "fail"
  BY DEF RollBack, CallUpdate, StepTo, Typed
<1>2. UNCHANGED <<configured, managed, streams, request, mine, undo, before, reply>>
  BY DEF RollBack, local
<1>3. FoundLoaded(h) /\ configured /\ Asked(h, {"addVersion", "activate"})
  BY <1>1 DEF OpInv, Goal, Updating, Begun, Asked
<1>4. /\ versionPolicy' = before[h].policy /\ versionPolicy' \in Policies
      /\ disk' = before[h].disk /\ disk' \subseteq disk
      /\ broken' = broken \intersect disk'
  <2>1. CASE step[h] = "verifyVersion"
    <3>1. /\ before[h].policy = versionPolicy /\ undo[h] \notin before[h].disk
          /\ disk = before[h].disk \union {undo[h]}
      BY <2>1 DEF OpInv, Goal, Updating
    <3>2. disk' = disk \ {undo[h]} /\ broken' = broken \ {undo[h]} /\ versionPolicy' = versionPolicy
      BY <2>1 DEF RollBack
    <3> QED BY <3>1, <3>2 DEF Typed, TypeOK
  <2>2. CASE step[h] = "verifyActive"
    <3>1. before[h].policy = undo[h] /\ undo[h] \in Policies /\ before[h].disk = disk
      BY <2>2 DEF OpInv, Goal, Updating
    <3>2. disk' = disk /\ broken' = broken /\ versionPolicy' = undo[h]
      BY <2>2 DEF RollBack
    <3> QED BY <3>1, <3>2 DEF Typed, TypeOK
  <2> QED BY <1>1, <2>1, <2>2
<1>5. Typed'
  BY <1>4 DEF RollBack, CallUpdate, StepTo, Typed, TypeOK, Steps, local
<1>6. StatesMatch'
  BY <1>2, <1>4 DEF StatesMatch, Present
<1>7. StreamIsFresh(h)'
  BY <1>1, <1>2, <1>3 DEF StreamIsFresh, Updating, AfterUpdate
<1>8. FoundLoaded(h)'
  <2>1. Selection(before[h].policy, before[h].disk) \subseteq disk'
    BY <1>4, <1>5, SelectsOfDisk DEF Typed, TypeOK
  <2>2. Loaded(before[h].policy, before[h].disk)
          = [v \in VersionNumbers |-> IF v \notin Selection(before[h].policy, before[h].disk) THEN "ABSENT"
                                ELSE IF v \in broken' THEN "ERROR" ELSE "READY"]
    BY <1>4, <2>1 DEF Loaded
  <2> QED BY <1>2, <1>3, <2>2 DEF FoundLoaded, Loaded
<1>9. OpInv(h)'
  BY <1>1, <1>2, <1>3, <1>4, <1>8 DEF OpInv, Goal, Updating, Begun, Asked
<1> QED BY <1>5, <1>6, <1>7, <1>9

\* ERROR is answered when that has been done.
LEMMA FailKeeps ==
  ASSUME NEW h, Handlers = {h}, OInv, FailOp(h)
  PROVE  OInv'
<1> USE DEF OInv
<1>1. step[h] = "fail" /\ step'[h] = "idle" /\ reply'[h] = "ERROR"
  BY DEF FailOp, ReplyWith, StepTo, Typed, TypeOK
<1>2. UNCHANGED <<configured, versionPolicy, disk, broken, managed, streams, request, before>>
  BY DEF FailOp, store, local
<1>3. Typed'
  BY <1>2 DEF FailOp, ReplyWith, StepTo, Typed, TypeOK, Steps
<1>4. StatesMatch'
  BY <1>2 DEF StatesMatch, Present
<1>5. StreamIsFresh(h)'
  BY <1>1, <1>2 DEF StreamIsFresh, Updating, Settled, Loaded, Absent
<1>6. FoundLoaded(h) /\ configured /\ before[h].policy = versionPolicy /\ before[h].disk = disk
  BY <1>1 DEF OpInv, Goal, Updating, Begun
<1>7. before[h].configured = configured /\ before[h].managed = managed
  BY <1>1, <1>6, SettledIsSelected DEF FoundLoaded, StreamIsFresh, Updating, Typed, TypeOK
<1>8. OpInv(h)'
  BY <1>1, <1>2, <1>6, <1>7 DEF OpInv, Goal, Updating, Begun, SuccessIsReady, FailureLeavesNoTrace
<1> QED BY <1>3, <1>4, <1>5, <1>8
-----------------------------------------------------------------------------
\* Whatever the only handler does next, it keeps the invariant.
LEMMA NextOInv ==
  ASSUME NEW h, Handlers = {h}, OInv, [OpNext]_opvars
  PROVE  OInv'
<1>1. CASE UNCHANGED opvars
  BY <1>1 DEF opvars, store, local, OInv, Typed, TypeOK, StatesMatch, Present, StreamIsFresh, Updating, Settled,
       Loaded, Absent, OpInv, Goal, Begun, Found, FoundNone, FoundLoaded, Asked, Asks, SuccessIsReady,
       FailureLeavesNoTrace, Normal
<1>2. CASE OpNext
  <2>1. Handle(h) \/ \E r \in Operations : StartOp(h, r)
    BY <1>2 DEF OpNext
  <2> QED BY <2>1, ReceiveKeeps, RefusalKeeps, CopyModelKeeps, ConfigModelKeeps, ForgetKeeps, ChooseVersionKeeps,
       CopyVersionKeeps, DeleteVersionKeeps, TempPolicyKeeps, KeepOnlyKeeps, CollectKeeps, PushKeeps, RoundKeeps,
       SucceedKeeps, ActivatedKeeps, RollBackKeeps, FailKeeps DEF Handle
<1> QED BY <1>1, <1>2

LEMMA OInvariance ==
  ASSUME NEW h, Handlers = {h}
  PROVE  OpSpec => []OInv
<1>1. OpInit => OInv
  BY InitOInv
<1>2. OInv /\ [OpNext]_opvars => OInv'
  BY NextOInv
<1> QED BY <1>1, <1>2, PTL DEF OpSpec

\* With one handler configuration, directories, streams and replies are always
\* well typed, and no stream is left behind another.
THEOREM OneHandlerTypeCorrect == (\E h : Handlers = {h}) => (OpSpec => []TypeOK)
<1> SUFFICES ASSUME NEW h, Handlers = {h} PROVE OpSpec => []TypeOK
  OBVIOUS
<1>1. OInv => TypeOK
  BY DEF OInv, Typed
<1> QED BY <1>1, OInvariance, PTL

\* version_policy: with one handler the managed versions are the ones that the
\* policy selects of the directories, whenever no operation is under way.
THEOREM OneHandlerServesPolicy == (\E h : Handlers = {h}) => (OpSpec => []PolicyIsServed)
<1> SUFFICES ASSUME NEW h, Handlers = {h} PROVE OpSpec => []PolicyIsServed
  OBVIOUS
<1>1. OInv => PolicyIsServed
  BY SettledIsSelected DEF OInv, PolicyIsServed, Quiet, StreamIsFresh, Updating
<1> QED BY <1>1, OInvariance, PTL

\* ModelOperateImpl: with one handler an operation that answers SUCCESS leaves
\* ready versions and the one it was asked to activate, one that answers ERROR
\* leaves no trace, and a query tells of every managed version.
THEOREM OneHandlerAnswersTruly == (\E h : Handlers = {h}) => (OpSpec => []AnswersAreTrue)
<1> SUFFICES ASSUME NEW h, Handlers = {h} PROVE OpSpec => []AnswersAreTrue
  OBVIOUS
<1>1. OInv => AnswersAreTrue
  <2> SUFFICES ASSUME OInv PROVE AnswersAreTrue
    OBVIOUS
  <2>1. SuccessIsReady /\ FailureLeavesNoTrace
    <3>1. CASE step[h] = "idle"
      BY <3>1 DEF OInv, OpInv, Goal, Updating
    <3>2. CASE step[h] # "idle"
      BY <3>2 DEF SuccessIsReady, FailureLeavesNoTrace
    <3> QED BY <3>1, <3>2
  <2>2. QueryTells
    <3> SUFFICES ASSUME Quiet, NEW v \in Present PROVE v \in DOMAIN QueryModel /\ QueryModel[v] = managed[v]
      BY DEF QueryTells
    <3>1. Settled
      BY DEF OInv, StreamIsFresh, Updating, Quiet
    <3>2. configured /\ v \in disk
      BY <3>1, SettledIsSelected DEF OInv
    <3> QED BY <3>2 DEF QueryModel, ListedVersions
  <2> QED BY <2>1, <2>2 DEF AnswersAreTrue
<1> QED BY <1>1, OInvariance, PTL
=============================================================================

---------------------------- MODULE Serving_proofs ----------------------------
(***************************************************************************)
(* For any names, versions, handlers and length of the queue: what the     *)
(* boarding thread does, and what the index that it publishes promises     *)
(* while it loads and unloads models.  The server opens when its models    *)
(* are served, a request keeps a ready model, and it gets the best version *)
(* there is.                                                               *)
(*                                                                         *)
(* Startup and Prediction take the steps of Boarding and add variables of  *)
(* their own, so both keep the inductive invariant of Boarding.            *)
(***************************************************************************)
EXTENDS Startup, Prediction, FiniteSetTheorems, SequenceTheorems, TLAPS

(***************************************************************************)
(* Boarding.  Every round settles, the index matches the ready models, the *)
(* last stream applied decides what is managed, and a version transition   *)
(* leaves no gap.                                                          *)
(***************************************************************************)
\* What a model may be in while the streams are handled, and between rounds.
Resting == /\ pc = "handling" => \A id \in Ids : state[id] \in {"ABSENT", "NEW", "READY", "ERROR"}
           /\ pc = "idle" => \A id \in Managed : aspired[id] /\ state[id] \in {"READY", "ERROR"}

\* While the actions run, the ones still to do are exactly the ones due.
InRound == pc \notin {"idle", "handling"}
ActionsDue ==
  InRound =>
    /\ \A id \in Ids : <<"load", id>> \in todo <=> (state[id] = "NEW" /\ aspired[id])
    /\ \A id \in Ids : <<"unload", id>> \in todo <=> (state[id] = "READY" /\ ~aspired[id])

\* The intermediate states belong to the model the running action is about.
OneInFlight ==
  /\ \A id \in Ids : state[id] = "LOADING" <=> (pc = "loading" /\ id = current)
  /\ \A id \in Ids : state[id] = "UNLOADING" <=> (pc = "unloading" /\ id = current)
  /\ pc \in {"loading", "unloading", "serving", "draining"} => current \in Ids
  /\ pc = "loading" => aspired[current]
  /\ pc = "unloading" => ~aspired[current]
  /\ pc = "serving" => state[current] = IF aspired[current] THEN "READY" ELSE "DISABLED"

\* A disabled model is one nobody aspires to; one that is not managed counts
\* as aspired to, as a new one is.
AspirationMatches ==
  \A id \in Ids : /\ state[id] = "DISABLED" => ~aspired[id]
                  /\ state[id] = "ABSENT" => aspired[id]

\* How far the index may lag behind.
IndexLag ==
  /\ pc \notin {"unloading", "serving"} => serving = Ready
  /\ pc = "unloading" => serving = Ready \union {current}
  /\ pc = "serving" => serving = IF aspired[current] THEN Ready \ {current} ELSE Ready \union {current}

\* Unloading starts after the last load.
LoadsFirst ==
  pc = "unloading" \/ (pc = "serving" /\ ~aspired[current])
    => \A id \in Ids : ~ (state[id] = "NEW" /\ aspired[id])

\* The wanted versions are the ones of the last stream applied.
Wanted ==
  \A id \in Ids :
    /\ state[id] # "ABSENT" => id[1] \in Creatable
    /\ id[1] \in Creatable =>
         ((state[id] # "ABSENT" /\ aspired[id]) <=> id[2] \in target[id[1]])

IInv == /\ TypeOK
        /\ Resting
        /\ ActionsDue
        /\ OneInFlight
        /\ AspirationMatches
        /\ IndexLag
        /\ LoadsFirst
        /\ Wanted

-----------------------------------------------------------------------------
\* Taking a stream out of the queue leaves a queue that is one shorter.
LEMMA RemoveAtShortens ==
  ASSUME NEW S, NEW s \in Seq(S), NEW i \in 1 .. Len(s)
  PROVE  RemoveAt(s, i) \in Seq(S) /\ Len(RemoveAt(s, i)) = Len(s) - 1
<1> DEFINE front == SubSeq(s, 1, i - 1)
           back == SubSeq(s, i + 1, Len(s))
<1>1. Len(s) \in Nat /\ i \in Nat /\ i >= 1 /\ i <= Len(s)
  BY LenProperties
<1>2. \A j \in 1 .. Len(s) : s[j] \in S
  BY ElementOfSeq
<1>3. front \in Seq(S) /\ Len(front) = i - 1
  <2>1. \A j \in 1 .. (i - 1) : s[j] \in S
    BY <1>1, <1>2
  <2> QED BY <1>1, <2>1, SubSeqProperties
<1>4. back \in Seq(S) /\ Len(back) = Len(s) - i
  <2>1. \A j \in (i + 1) .. Len(s) : s[j] \in S
    BY <1>1, <1>2
  <2> QED BY <1>1, <2>1, SubSeqProperties
<1>5. front \o back \in Seq(S) /\ Len(front \o back) = Len(front) + Len(back)
  BY <1>3, <1>4, ConcatProperties
<1> HIDE DEF front, back
<1>6. RemoveAt(s, i) = front \o back
  BY DEF RemoveAt, front, back
<1>7. RemoveAt(s, i) \in Seq(S) /\ Len(RemoveAt(s, i)) = Len(front) + Len(back)
  BY <1>5, <1>6, Zenon
<1>8. Len(front) + Len(back) = Len(s) - 1
  BY <1>1, <1>3, <1>4
<1> QED BY <1>7, <1>8

\* The empty store with an empty index satisfies IInv.
LEMMA InitIInv == Init => IInv
  BY MaxStreamsNat, NoneIsNoModel
  DEF Init, IInv, TypeOK, Resting, ActionsDue, OneInFlight, AspirationMatches, IndexLag,
      LoadsFirst, Wanted, InRound, Managed, Ready, Ids, States, Stream, Action

\* Every step of the boarding thread and every new stream preserves IInv.
LEMMA NextIInv == IInv /\ [Next]_vars => IInv'
<1> SUFFICES ASSUME IInv, [Next]_vars PROVE IInv'
  OBVIOUS
<1> USE NoneIsNoModel, MaxStreamsNat DEF IInv
<1>1. ASSUME NEW n \in Names, NEW vs \in SUBSET Versions, Update(n, vs) PROVE IInv'
  <2>1. TypeOK'
    <3>1. [name |-> n, versions |-> vs] \in Stream
      BY <1>1 DEF Stream
    <3> QED BY <1>1, <3>1, AppendProperties DEF Update, TypeOK
  <2>2. Resting'
    BY <1>1 DEF Update, Resting, ActionsDue, OneInFlight, AspirationMatches, TypeOK, Managed, States, ShouldStop, Finished, InRound
  <2>3. ActionsDue'
    BY <1>1 DEF Update, ActionsDue, InRound, OneInFlight, TypeOK, States
  <2>4. OneInFlight'
    BY <1>1 DEF Update, OneInFlight, ActionsDue, InRound, TypeOK, States
  <2>5. AspirationMatches'
    BY <1>1 DEF Update, AspirationMatches, OneInFlight, ActionsDue, InRound, TypeOK, States
  <2>6. IndexLag'
    BY <1>1 DEF Update, IndexLag, OneInFlight, ActionsDue, InRound, TypeOK, Ready, States
  <2>7. LoadsFirst'
    BY <1>1 DEF Update, LoadsFirst, OneInFlight, ActionsDue, InRound, TypeOK, States
  <2>8. Wanted'
    BY <1>1 DEF Update, Wanted, OneInFlight, ActionsDue, InRound, AspirationMatches, TypeOK, Ids, States
  <2> QED BY <2>1, <2>2, <2>3, <2>4, <2>5, <2>6, <2>7, <2>8
<1>2. ASSUME Begin PROVE IInv'
  <2>1. TypeOK'
    BY <1>2 DEF Begin, TypeOK, Ids, States, Action
  <2>2. Resting'
    BY <1>2 DEF Begin, Resting, ActionsDue, OneInFlight, AspirationMatches, TypeOK, Managed, States, ShouldStop, Finished, InRound
  <2>3. ActionsDue'
    BY <1>2 DEF Begin, ActionsDue, InRound, OneInFlight, TypeOK, States
  <2>4. OneInFlight'
    BY <1>2 DEF Begin, OneInFlight, ActionsDue, InRound, TypeOK, States
  <2>5. AspirationMatches'
    BY <1>2 DEF Begin, AspirationMatches, OneInFlight, ActionsDue, InRound, TypeOK, States
  <2>6. IndexLag'
    BY <1>2 DEF Begin, IndexLag, OneInFlight, ActionsDue, InRound, TypeOK, Ready, States
  <2>7. LoadsFirst'
    BY <1>2 DEF Begin, LoadsFirst, OneInFlight, ActionsDue, InRound, TypeOK, States
  <2>8. Wanted'
    BY <1>2 DEF Begin, Wanted, OneInFlight, ActionsDue, InRound, AspirationMatches, TypeOK, Ids, States
  <2> QED BY <2>1, <2>2, <2>3, <2>4, <2>5, <2>6, <2>7, <2>8
<1>3. ASSUME Skip PROVE IInv'
  <2>1. TypeOK'
    BY <1>3 DEF Skip, TypeOK, Ids, States, Action
  <2>2. Resting'
    BY <1>3 DEF Skip, Resting, ActionsDue, OneInFlight, AspirationMatches, TypeOK, Managed, States, ShouldStop, Finished, InRound
  <2>3. ActionsDue'
    BY <1>3 DEF Skip, ActionsDue, InRound, OneInFlight, TypeOK, States
  <2>4. OneInFlight'
    BY <1>3 DEF Skip, OneInFlight, ActionsDue, InRound, TypeOK, States
  <2>5. AspirationMatches'
    BY <1>3 DEF Skip, AspirationMatches, OneInFlight, ActionsDue, InRound, TypeOK, States
  <2>6. IndexLag'
    BY <1>3 DEF Skip, IndexLag, OneInFlight, ActionsDue, InRound, TypeOK, Ready, States
  <2>7. LoadsFirst'
    BY <1>3 DEF Skip, LoadsFirst, OneInFlight, ActionsDue, InRound, TypeOK, States
  <2>8. Wanted'
    BY <1>3 DEF Skip, Wanted, OneInFlight, ActionsDue, InRound, AspirationMatches, TypeOK, Ids, States
  <2> QED BY <2>1, <2>2, <2>3, <2>4, <2>5, <2>6, <2>7, <2>8
<1>4. ASSUME Aspire PROVE IInv'
  <2>1. TypeOK'
    <3>1. pos \in 1 .. Len(streams) /\ streams[pos] \in Stream
      BY <1>4, ElementOfSeq DEF Aspire, TypeOK
    <3>2. streams' \in Seq(Stream) /\ Len(streams') = Len(streams) - 1
      BY <1>4, <3>1, RemoveAtShortens DEF Aspire, TypeOK
    <3>3. Len(streams') <= MaxStreams /\ pos' \in 1 .. Len(streams') + 1
      BY <1>4, <3>1, <3>2, LenProperties DEF Aspire, TypeOK
    <3>4. target' \in [Names -> SUBSET Versions]
      BY <1>4, <3>1 DEF Aspire, TypeOK, Stream
    <3>5. aspired' \in [Ids -> BOOLEAN]
      BY <1>4 DEF Aspire, TypeOK
    <3> QED BY <1>4, <3>2, <3>3, <3>4, <3>5 DEF Aspire, TypeOK, States
  <2>2. Resting'
    BY <1>4 DEF Aspire, Resting, ActionsDue, OneInFlight, AspirationMatches, TypeOK, Managed, States, ShouldStop, Finished, InRound
  <2>3. ActionsDue'
    BY <1>4 DEF Aspire, ActionsDue, InRound, OneInFlight, TypeOK, States
  <2>4. OneInFlight'
    BY <1>4 DEF Aspire, OneInFlight, ActionsDue, InRound, TypeOK, States
  <2>5. AspirationMatches'
    BY <1>4 DEF Aspire, AspirationMatches, Resting, Starting, Managed, TypeOK, States
  <2>6. IndexLag'
    BY <1>4 DEF Aspire, IndexLag, Starting, Managed, Ready, TypeOK, States
  <2>7. LoadsFirst'
    BY <1>4 DEF Aspire, LoadsFirst, OneInFlight, ActionsDue, InRound, TypeOK, States
  <2>8. Wanted'
    <3> DEFINE s == streams[pos]
    <3>1. s \in Stream
      BY <1>4, ElementOfSeq DEF Aspire, TypeOK
    <3>2. /\ ~ShouldSkip(s)
          /\ aspired' = [id \in Ids |-> /\ aspired[id]
                                        /\ (id \in Managed /\ id[1] = s.name) => id[2] \in s.versions]
          /\ state' = [id \in Ids |-> IF id \in Starting(s) THEN "NEW" ELSE state[id]]
          /\ target' = [target EXCEPT ![s.name] = s.versions]
      BY <1>4 DEF Aspire
    <3> HIDE DEF s
    <3> SUFFICES ASSUME NEW id \in Ids
                 PROVE  /\ state'[id] # "ABSENT" => id[1] \in Creatable
                        /\ id[1] \in Creatable =>
                             ((state'[id] # "ABSENT" /\ aspired'[id]) <=> id[2] \in target'[id[1]])
      BY DEF Wanted
    <3>3. id[1] \in Names /\ s.name \in Names
      BY <3>1 DEF Ids, Stream
    <3>4. CASE id[1] # s.name
      <4>1. state'[id] = state[id] /\ aspired'[id] = aspired[id]
        BY <3>2, <3>4 DEF Starting, TypeOK
      <4>2. target'[id[1]] = target[id[1]]
        BY <3>2, <3>3, <3>4 DEF TypeOK
      <4> QED BY <4>1, <4>2 DEF Wanted
    <3>5. CASE id[1] = s.name
      <4>1. target'[id[1]] = s.versions
        BY <3>2, <3>3, <3>5 DEF TypeOK
      <4>2. CASE id \in Managed
        <5>1. state'[id] = state[id] /\ state[id] # "ABSENT"
          BY <3>2, <4>2 DEF Starting, Managed
        <5>2. aspired'[id] <=> id[2] \in s.versions
          BY <3>2, <3>5, <4>2 DEF ShouldSkip, TypeOK
        <5> QED BY <4>1, <5>1, <5>2 DEF Wanted
      <4>3. CASE id \notin Managed
        <5>1. state[id] = "ABSENT" /\ aspired'[id]
          BY <3>2, <4>3 DEF Managed, AspirationMatches
        <5>2. state'[id] = IF id[2] \in s.versions /\ id[1] \in Creatable THEN "NEW" ELSE "ABSENT"
          BY <3>2, <3>5, <4>3, <5>1 DEF Starting
        <5> QED BY <4>1, <5>1, <5>2
      <4> QED BY <4>2, <4>3
    <3> QED BY <3>4, <3>5
  <2> QED BY <2>1, <2>2, <2>3, <2>4, <2>5, <2>6, <2>7, <2>8
<1>5. ASSUME Decide PROVE IInv'
  <2>1. TypeOK'
    BY <1>5, LenProperties DEF Decide, TypeOK, Untouched, Unaspired, Ready, Ids, Action
  <2>2. Resting'
    BY <1>5 DEF Decide, Resting, ActionsDue, OneInFlight, AspirationMatches, TypeOK, Managed, States, ShouldStop, Finished, InRound
  <2>3. ActionsDue'
    BY <1>5 DEF Decide, ActionsDue, InRound, Untouched, Unaspired, CanUnload, Ready, TypeOK, States
  <2>4. OneInFlight'
    BY <1>5 DEF Decide, OneInFlight, ActionsDue, InRound, TypeOK, States
  <2>5. AspirationMatches'
    BY <1>5 DEF Decide, AspirationMatches, OneInFlight, ActionsDue, InRound, TypeOK, States
  <2>6. IndexLag'
    BY <1>5 DEF Decide, IndexLag, OneInFlight, ActionsDue, InRound, TypeOK, Ready, States
  <2>7. LoadsFirst'
    BY <1>5 DEF Decide, LoadsFirst, OneInFlight, ActionsDue, InRound, TypeOK, States
  <2>8. Wanted'
    BY <1>5 DEF Decide, Wanted, OneInFlight, ActionsDue, InRound, AspirationMatches, TypeOK, Ids, States
  <2> QED BY <2>1, <2>2, <2>3, <2>4, <2>5, <2>6, <2>7, <2>8
<1>6. ASSUME NEW id \in Ids, BeginLoad(id) PROVE IInv'
  <2>1. TypeOK'
    BY <1>6 DEF BeginLoad, TypeOK, Ids, States, Action
  <2>2. Resting'
    BY <1>6 DEF BeginLoad, Resting, ActionsDue, OneInFlight, AspirationMatches, TypeOK, Managed, States, ShouldStop, Finished, InRound
  <2>3. ActionsDue'
    BY <1>6 DEF BeginLoad, ActionsDue, InRound, OneInFlight, TypeOK, States
  <2>4. OneInFlight'
    BY <1>6 DEF BeginLoad, OneInFlight, ActionsDue, InRound, TypeOK, States
  <2>5. AspirationMatches'
    BY <1>6 DEF BeginLoad, AspirationMatches, OneInFlight, ActionsDue, InRound, TypeOK, States
  <2>6. IndexLag'
    BY <1>6 DEF BeginLoad, IndexLag, OneInFlight, ActionsDue, InRound, TypeOK, Ready, States
  <2>7. LoadsFirst'
    BY <1>6 DEF BeginLoad, LoadsFirst, OneInFlight, ActionsDue, InRound, TypeOK, States
  <2>8. Wanted'
    BY <1>6 DEF BeginLoad, Wanted, OneInFlight, ActionsDue, InRound, AspirationMatches, TypeOK, Ids, States
  <2> QED BY <2>1, <2>2, <2>3, <2>4, <2>5, <2>6, <2>7, <2>8
<1>7. ASSUME LoadSucceeds PROVE IInv'
  <2>1. TypeOK'
    BY <1>7 DEF LoadSucceeds, TypeOK, Ids, States, Action
  <2>2. Resting'
    BY <1>7 DEF LoadSucceeds, Resting, ActionsDue, OneInFlight, AspirationMatches, TypeOK, Managed, States, ShouldStop, Finished, InRound
  <2>3. ActionsDue'
    BY <1>7 DEF LoadSucceeds, ActionsDue, InRound, OneInFlight, TypeOK, States
  <2>4. OneInFlight'
    BY <1>7 DEF LoadSucceeds, OneInFlight, ActionsDue, InRound, TypeOK, States
  <2>5. AspirationMatches'
    BY <1>7 DEF LoadSucceeds, AspirationMatches, OneInFlight, ActionsDue, InRound, TypeOK, States
  <2>6. IndexLag'
    BY <1>7 DEF LoadSucceeds, IndexLag, OneInFlight, ActionsDue, InRound, TypeOK, Ready, States
  <2>7. LoadsFirst'
    BY <1>7 DEF LoadSucceeds, LoadsFirst, OneInFlight, ActionsDue, InRound, TypeOK, States
  <2>8. Wanted'
    BY <1>7 DEF LoadSucceeds, Wanted, OneInFlight, ActionsDue, InRound, AspirationMatches, TypeOK, Ids, States
  <2> QED BY <2>1, <2>2, <2>3, <2>4, <2>5, <2>6, <2>7, <2>8
<1>8. ASSUME LoadFails PROVE IInv'
  <2>1. TypeOK'
    BY <1>8 DEF LoadFails, TypeOK, Ids, States, Action
  <2>2. Resting'
    BY <1>8 DEF LoadFails, Resting, ActionsDue, OneInFlight, AspirationMatches, TypeOK, Managed, States, ShouldStop, Finished, InRound
  <2>3. ActionsDue'
    BY <1>8 DEF LoadFails, ActionsDue, InRound, OneInFlight, TypeOK, States
  <2>4. OneInFlight'
    BY <1>8 DEF LoadFails, OneInFlight, ActionsDue, InRound, TypeOK, States
  <2>5. AspirationMatches'
    BY <1>8 DEF LoadFails, AspirationMatches, OneInFlight, ActionsDue, InRound, TypeOK, States
  <2>6. IndexLag'
    BY <1>8 DEF LoadFails, IndexLag, OneInFlight, ActionsDue, InRound, TypeOK, Ready, States
  <2>7. LoadsFirst'
    BY <1>8 DEF LoadFails, LoadsFirst, OneInFlight, ActionsDue, InRound, TypeOK, States
  <2>8. Wanted'
    BY <1>8 DEF LoadFails, Wanted, OneInFlight, ActionsDue, InRound, AspirationMatches, TypeOK, Ids, States
  <2> QED BY <2>1, <2>2, <2>3, <2>4, <2>5, <2>6, <2>7, <2>8
<1>9. ASSUME NEW id \in Ids, BeginUnload(id) PROVE IInv'
  <2>1. TypeOK'
    BY <1>9 DEF BeginUnload, TypeOK, Ids, States, Action
  <2>2. Resting'
    BY <1>9 DEF BeginUnload, Resting, ActionsDue, OneInFlight, AspirationMatches, TypeOK, Managed, States, ShouldStop, Finished, InRound
  <2>3. ActionsDue'
    BY <1>9 DEF BeginUnload, ActionsDue, InRound, OneInFlight, TypeOK, States
  <2>4. OneInFlight'
    BY <1>9 DEF BeginUnload, OneInFlight, ActionsDue, InRound, TypeOK, States
  <2>5. AspirationMatches'
    BY <1>9 DEF BeginUnload, AspirationMatches, OneInFlight, ActionsDue, InRound, TypeOK, States
  <2>6. IndexLag'
    BY <1>9 DEF BeginUnload, IndexLag, OneInFlight, ActionsDue, InRound, TypeOK, Ready, States
  <2>7. LoadsFirst'
    BY <1>9 DEF BeginUnload, LoadsFirst, OneInFlight, ActionsDue, InRound, TypeOK, States
  <2>8. Wanted'
    BY <1>9 DEF BeginUnload, Wanted, OneInFlight, ActionsDue, InRound, AspirationMatches, TypeOK, Ids, States
  <2> QED BY <2>1, <2>2, <2>3, <2>4, <2>5, <2>6, <2>7, <2>8
<1>10. ASSUME FinishUnload PROVE IInv'
  <2>1. TypeOK'
    BY <1>10 DEF FinishUnload, TypeOK, Ids, States, Action
  <2>2. Resting'
    BY <1>10 DEF FinishUnload, Resting, ActionsDue, OneInFlight, AspirationMatches, TypeOK, Managed, States, ShouldStop, Finished, InRound
  <2>3. ActionsDue'
    BY <1>10 DEF FinishUnload, ActionsDue, InRound, OneInFlight, TypeOK, States
  <2>4. OneInFlight'
    BY <1>10 DEF FinishUnload, OneInFlight, ActionsDue, InRound, TypeOK, States
  <2>5. AspirationMatches'
    BY <1>10 DEF FinishUnload, AspirationMatches, OneInFlight, ActionsDue, InRound, TypeOK, States
  <2>6. IndexLag'
    BY <1>10 DEF FinishUnload, IndexLag, OneInFlight, ActionsDue, InRound, TypeOK, Ready, States
  <2>7. LoadsFirst'
    BY <1>10 DEF FinishUnload, LoadsFirst, OneInFlight, ActionsDue, InRound, TypeOK, States
  <2>8. Wanted'
    BY <1>10 DEF FinishUnload, Wanted, OneInFlight, ActionsDue, InRound, AspirationMatches, TypeOK, Ids, States
  <2> QED BY <2>1, <2>2, <2>3, <2>4, <2>5, <2>6, <2>7, <2>8
<1>11. ASSUME Serve PROVE IInv'
  <2>1. TypeOK'
    BY <1>11 DEF Serve, TypeOK, Ready
  <2>2. Resting'
    BY <1>11 DEF Serve, Resting, ActionsDue, OneInFlight, AspirationMatches, TypeOK, Managed, States, ShouldStop, Finished, InRound
  <2>3. ActionsDue'
    BY <1>11 DEF Serve, ActionsDue, InRound, OneInFlight, TypeOK, States
  <2>4. OneInFlight'
    BY <1>11 DEF Serve, OneInFlight, ActionsDue, InRound, TypeOK, States
  <2>5. AspirationMatches'
    BY <1>11 DEF Serve, AspirationMatches, OneInFlight, ActionsDue, InRound, TypeOK, States
  <2>6. IndexLag'
    BY <1>11 DEF Serve, IndexLag, OneInFlight, ActionsDue, InRound, TypeOK, Ready, States
  <2>7. LoadsFirst'
    BY <1>11 DEF Serve, LoadsFirst, OneInFlight, ActionsDue, InRound, TypeOK, States
  <2>8. Wanted'
    BY <1>11 DEF Serve, Wanted, OneInFlight, ActionsDue, InRound, AspirationMatches, TypeOK, Ids, States
  <2> QED BY <2>1, <2>2, <2>3, <2>4, <2>5, <2>6, <2>7, <2>8
<1>12. ASSUME Publish PROVE IInv'
  <2>1. TypeOK'
    BY <1>12 DEF Publish, TypeOK, Ids, States, Action
  <2>2. Resting'
    BY <1>12 DEF Publish, Resting, ActionsDue, OneInFlight, AspirationMatches, TypeOK, Managed, States, ShouldStop, Finished, InRound
  <2>3. ActionsDue'
    BY <1>12 DEF Publish, ActionsDue, InRound, OneInFlight, TypeOK, States
  <2>4. OneInFlight'
    BY <1>12 DEF Publish, OneInFlight, ActionsDue, InRound, TypeOK, States
  <2>5. AspirationMatches'
    BY <1>12 DEF Publish, AspirationMatches, OneInFlight, ActionsDue, InRound, TypeOK, States
  <2>6. IndexLag'
    BY <1>12 DEF Publish, IndexLag, OneInFlight, ActionsDue, InRound, TypeOK, Ready, States
  <2>7. LoadsFirst'
    BY <1>12 DEF Publish, LoadsFirst, OneInFlight, ActionsDue, InRound, TypeOK, States
  <2>8. Wanted'
    BY <1>12 DEF Publish, Wanted, OneInFlight, ActionsDue, InRound, AspirationMatches, TypeOK, Ids, States
  <2> QED BY <2>1, <2>2, <2>3, <2>4, <2>5, <2>6, <2>7, <2>8
<1>13. ASSUME Flush PROVE IInv'
  <2>1. TypeOK'
    BY <1>13 DEF Flush, TypeOK, Ids, States, Action
  <2>2. Resting'
    BY <1>13 DEF Flush, Resting, ActionsDue, OneInFlight, AspirationMatches, TypeOK, Managed, States, ShouldStop, Finished, InRound
  <2>3. ActionsDue'
    BY <1>13 DEF Flush, ActionsDue, InRound, OneInFlight, TypeOK, States
  <2>4. OneInFlight'
    BY <1>13 DEF Flush, OneInFlight, ActionsDue, InRound, TypeOK, States
  <2>5. AspirationMatches'
    BY <1>13 DEF Flush, AspirationMatches, OneInFlight, ActionsDue, InRound, TypeOK, States
  <2>6. IndexLag'
    BY <1>13 DEF Flush, IndexLag, ShouldStop, Finished, Ready, TypeOK, States
  <2>7. LoadsFirst'
    BY <1>13 DEF Flush, LoadsFirst, OneInFlight, ActionsDue, InRound, TypeOK, States
  <2>8. Wanted'
    BY <1>13 DEF Flush, Wanted, ShouldStop, Finished, OneInFlight, AspirationMatches, TypeOK, Ids, States
  <2> QED BY <2>1, <2>2, <2>3, <2>4, <2>5, <2>6, <2>7, <2>8
<1>14. CASE UNCHANGED vars
  BY <1>14 DEF vars, TypeOK, Resting, ActionsDue, OneInFlight, AspirationMatches, IndexLag,
       LoadsFirst, Wanted, InRound, Managed, Ready
<1> QED BY <1>1, <1>2, <1>3, <1>4, <1>5, <1>6, <1>7, <1>8, <1>9, <1>10, <1>11, <1>12, <1>13, <1>14 DEF Next, Once

\* IInv is an invariant of the boarding thread.
LEMMA Invariance == Spec => []IInv
  BY InitIInv, NextIInv, PTL DEF Spec
-----------------------------------------------------------------------------
\* The stores, the queue and the boarding thread are always well typed.
THEOREM TypeCorrect == Spec => []TypeOK
<1>1. IInv => TypeOK
  BY DEF IInv
<1> QED BY <1>1, Invariance, PTL

\* BoardingFunctor::operator(): a round leaves only wanted models, loaded or
\* failed, whatever streams it met.
THEOREM EveryRoundSettles == Spec => []RoundSettles
<1>1. IInv => RoundSettles
  BY DEF IInv, Resting, RoundSettles
<1> QED BY <1>1, Invariance, PTL

\* ServingStore::update() against ModelState: between two actions the index
\* is the set of ready models.
THEOREM IndexMatchesReady == Spec => []ServingMatchesReady
<1>1. IInv => ServingMatchesReady
  BY DEF IInv, IndexLag, ServingMatchesReady
<1> QED BY <1>1, Invariance, PTL

\* ModelAspirer: after a round the managed versions are those of the last
\* stream applied.
THEOREM LastStreamDecides == Spec => []FollowsLastStream
<1>1. IInv => FollowsLastStream
  <2> SUFFICES ASSUME IInv, pc = "idle", NEW n \in Names
               PROVE  VersionsOf(n) = IF n \in Creatable THEN target[n] ELSE {}
    BY DEF FollowsLastStream
  <2>1. target[n] \subseteq Versions
    BY DEF IInv, TypeOK
  <2>2. ASSUME NEW v \in Versions
        PROVE  <<n, v>> \in Managed <=> n \in Creatable /\ v \in target[n]
    <3>1. <<n, v>> \in Ids /\ <<n, v>>[1] = n /\ <<n, v>>[2] = v
      BY DEF Ids
    <3>2. <<n, v>> \in Managed <=> state[<<n, v>>] # "ABSENT"
      BY <3>1 DEF Managed
    <3>3. <<n, v>> \in Managed => aspired[<<n, v>>]
      BY DEF IInv, Resting
    <3> QED BY <3>1, <3>2, <3>3 DEF IInv, Wanted
  <2> QED BY <2>1, <2>2 DEF VersionsOf
<1> QED BY <1>1, Invariance, PTL

\* ModelAction::operator<: loads run before unloads, so a name leaves the
\* index only after every version it should have has failed to load.
THEOREM TransitionsAreGapless == Spec => NoServingGap
<1> DEFINE Gapless ==
      \A n \in Names :
       /\ \E v \in Versions : <<n, v>> \in serving
       /\ \A v \in Versions : <<n, v>> \notin serving'
       => \A id \in Managed : id[1] = n /\ aspired[id] => state[id] = "ERROR"
<1>1. IInv /\ [Next]_vars => [Gapless]_vars
  <2> SUFFICES ASSUME IInv, Next, serving' # serving,
                      NEW n \in Names,
                      \E v \in Versions : <<n, v>> \in serving,
                      \A v \in Versions : <<n, v>> \notin serving',
                      NEW id \in Managed, id[1] = n, aspired[id]
               PROVE  state[id] = "ERROR"
    BY DEF vars
  <2>1. Serve
    BY DEF Next, Once, Update, Begin, Skip, Aspire, Decide, BeginLoad, LoadSucceeds,
           LoadFails, BeginUnload, FinishUnload, Publish, Flush
  <2>2. id \in Ids /\ id[2] \in Versions /\ id = <<n, id[2]>>
    BY DEF Managed, Ids
  <2>3. state[id] # "READY"
    <3>1. id \notin serving'
      BY <2>2
    <3> QED BY <2>1, <2>2, <3>1 DEF Serve, Ready
  <2>4. ~aspired[current]
    <3> SUFFICES ASSUME aspired[current] PROVE FALSE
      OBVIOUS
    <3>1. serving \subseteq Ready
      BY <2>1 DEF Serve, IInv, IndexLag
    <3> QED BY <2>1, <3>1 DEF Serve
  <2>5. state[id] # "NEW"
    BY <2>1, <2>2, <2>4 DEF Serve, IInv, LoadsFirst
  <2>6. state[id] \notin {"ABSENT", "LOADING", "UNLOADING", "DISABLED"}
    BY <2>1, <2>2 DEF Serve, IInv, OneInFlight, AspirationMatches, Managed
  <2> QED BY <2>2, <2>3, <2>5, <2>6 DEF IInv, TypeOK, States
<1> QED BY <1>1, Invariance, PTL DEF Spec, NoServingGap
-----------------------------------------------------------------------------
(***************************************************************************)
(* Startup and Prediction.                                                 *)
(***************************************************************************)
\* The least of a set of numbers.
LEMMA LeastNumber ==
  ASSUME NEW S, S \subseteq Nat, S # {}
  PROVE  \E m \in S : \A n \in S : m <= n
<1>1. OpToRel(<, Nat) = {ss \in Nat \X Nat : ss[1] < ss[2]}
  BY DEF OpToRel
<1>2. \E m \in S : \A n \in S : ~ (<<n, m>> \in OpToRel(<, Nat))
  BY NatLessThanWellFounded, WFMin
<1>3. PICK m \in S : \A n \in S : <<n, m>> \notin {ss \in Nat \X Nat : ss[1] < ss[2]}
  BY <1>1, <1>2
<1>4. ASSUME NEW n \in S PROVE m <= n
  <2>1. <<n, m>> \in Nat \X Nat /\ ~ (n < m)
    BY <1>3
  <2> QED BY <2>1
<1> QED BY <1>3, <1>4

\* The greatest of a finite set of numbers: the one that the fewest exceed.
LEMMA GreatestNumber ==
  ASSUME NEW S, S \subseteq Nat, S # {}, IsFiniteSet(S)
  PROVE  \E m \in S : \A n \in S : n <= m
<1> DEFINE Above(m) == {n \in S : n > m}
           Counts == {Cardinality(Above(m)) : m \in S}
<1>1. \A m \in S : IsFiniteSet(Above(m)) /\ Cardinality(Above(m)) \in Nat
  BY FS_Subset, FS_CardinalityType
<1>2. PICK m \in S : \A n \in S : Cardinality(Above(m)) <= Cardinality(Above(n))
  <2>1. Counts \subseteq Nat /\ Counts # {}
    BY <1>1
  <2>2. PICK c \in Counts : \A d \in Counts : c <= d
    BY <2>1, LeastNumber
  <2> QED BY <2>2
<1>3. ASSUME NEW n \in S PROVE n <= m
  <2> SUFFICES ASSUME n > m PROVE FALSE
    OBVIOUS
  <2>1. ASSUME NEW k \in S, k > n PROVE k > m
    <3>1. k \in Nat /\ n \in Nat /\ m \in Nat
      OBVIOUS
    <3> QED BY <2>1, <3>1
  <2>2. Above(n) \subseteq Above(m)
    BY <2>1
  <2>3. Above(n) # Above(m)
    <3>1. n \in Above(m) /\ n \notin Above(n)
      OBVIOUS
    <3> QED BY <3>1
  <2>4. Cardinality(Above(n)) <= Cardinality(Above(m)) /\ Cardinality(Above(n)) # Cardinality(Above(m))
    BY <1>1, <2>2, <2>3, FS_Subset
  <2> QED BY <1>1, <1>2, <2>4
<1> QED BY <1>3
-----------------------------------------------------------------------------
\* What the handlers of requests keep.
PTypeOK == /\ phase \in [Requests -> {"idle", "found", "refused", "running"}]
           /\ ask \in [Requests -> Ask \union {None}]
           /\ model \in [Requests -> Ids \union {None}]

\* Handles keep the published snapshot, or the one before while its readers
\* are waited for; then what they refer to is in the published one.
HandlesHold == /\ onOld \subseteq Pinning
               /\ onOld # {} => pc = "draining"
               /\ \A r \in Pinning \ onOld : model[r] \in serving

PInv == IInv /\ PTypeOK /\ HandlesHold

\* A step of the requests, or of the boarding thread with its readers, is one
\* of the boarding thread alone, or leaves it where it is.
LEMMA PNextIsNext == [PNext]_pvars => [Next]_vars
  BY DEF PNext, PBoarding, ServeNew, Drained, Find, Refuse, Run, Return, pvars, Next, Once

\* Requests start when no model is published.
LEMMA InitPInv == PInit => PInv
  BY InitIInv DEF PInit, PInv, PTypeOK, HandlesHold, Pinning, Init

\* Every step keeps the handles to what the index holds or will hold.
LEMMA NextPInv == PInv /\ [PNext]_pvars => PInv'
<1> SUFFICES ASSUME PInv, [PNext]_pvars PROVE PInv'
  OBVIOUS
<1>1. IInv'
  BY PNextIsNext, NextIInv DEF PInv
<1>2. PTypeOK' /\ HandlesHold'
  <2> USE DEF PInv
  <2>1. ASSUME UNCHANGED rvars, UNCHANGED serving, UNCHANGED pc \/ pc # "draining"
        PROVE  PTypeOK' /\ HandlesHold'
    BY <2>1 DEF rvars, PTypeOK, HandlesHold, Pinning
  <2>2. ASSUME NEW n \in Names, NEW vs \in SUBSET Versions, Update(n, vs), UNCHANGED rvars
        PROVE  PTypeOK' /\ HandlesHold'
    BY <2>1, <2>2 DEF Update
  <2>3. ASSUME UNCHANGED rvars,
               \/ Begin \/ Skip \/ Aspire \/ Decide
               \/ \E id \in Ids : BeginLoad(id) \/ BeginUnload(id)
               \/ LoadSucceeds \/ LoadFails \/ FinishUnload \/ Flush
        PROVE  PTypeOK' /\ HandlesHold'
    BY <2>1, <2>3 DEF Begin, Skip, Aspire, Decide, BeginLoad, BeginUnload, LoadSucceeds,
         LoadFails, FinishUnload, Flush
  <2>4. CASE ServeNew
    BY <2>4 DEF ServeNew, Serve, PTypeOK, HandlesHold, Pinning
  <2>5. CASE Drained
    BY <2>5 DEF Drained, Publish, rvars, PTypeOK, HandlesHold, Pinning
  <2>6. ASSUME NEW r \in Requests, NEW a \in Ask, Find(r, a)
        PROVE  PTypeOK' /\ HandlesHold'
    <3>1. PICK id \in Found(a) : model' = [model EXCEPT ![r] = id]
      BY <2>6 DEF Find
    <3>2. id \in serving /\ id \in Ids
      BY <3>1 DEF Found, ServedOf, IInv, TypeOK
    <3>3. UNCHANGED <<pc, serving, onOld>>
      BY <2>6 DEF Find, vars
    <3> QED BY <2>6, <3>1, <3>2, <3>3 DEF Find, PTypeOK, HandlesHold, Pinning
  <2>7. ASSUME NEW r \in Requests, NEW a \in Ask, Refuse(r, a)
        PROVE  PTypeOK' /\ HandlesHold'
    BY <2>7 DEF Refuse, vars, PTypeOK, HandlesHold, Pinning
  <2>8. ASSUME NEW r \in Requests, Run(r)
        PROVE  PTypeOK' /\ HandlesHold'
    BY <2>8 DEF Run, vars, PTypeOK, HandlesHold, Pinning
  <2>9. ASSUME NEW r \in Requests, Return(r)
        PROVE  PTypeOK' /\ HandlesHold'
    BY <2>9 DEF Return, vars, PTypeOK, HandlesHold, Pinning
  <2>10. CASE UNCHANGED pvars
    BY <2>1, <2>10 DEF pvars, vars, rvars
  <2> QED BY <2>2, <2>3, <2>4, <2>5, <2>6, <2>7, <2>8, <2>9, <2>10 DEF PNext, PBoarding
<1> QED BY <1>1, <1>2 DEF PInv

LEMMA PInvariance == PSpec => []PInv
  BY InitPInv, NextPInv, PTL DEF PSpec

\* The boarding thread with requests that read its index behaves as it does
\* alone: what was shown of it above holds with them, too.
THEOREM PredictionIsBoarding == PSpec => Init /\ [][Next]_vars
<1>1. PInit => Init
  BY DEF PInit
<1> QED BY <1>1, PNextIsNext, PTL DEF PSpec

\* ServingStore::update() returns when nobody keeps the old snapshot: between
\* two actions every handle is to a ready model.
THEOREM HandlesKeepReady == PSpec => []RequestsKeepReady
<1>1. PInv => RequestsKeepReady
  <2> SUFFICES ASSUME PInv, pc \in {"idle", "handling", "boarding"}, NEW r \in Pinning
               PROVE  state[model[r]] = "READY"
    BY DEF RequestsKeepReady
  <2>1. serving = Ready
    BY DEF PInv, IInv, IndexLag
  <2>2. model[r] \in serving
    BY DEF PInv, HandlesHold
  <2> QED BY <2>1, <2>2 DEF Ready
<1> QED BY <1>1, PInvariance, PTL
-----------------------------------------------------------------------------
\* A ready model that is wanted is in the index, or is the one that will be
\* published next.
LEMMA ReadyIsServed ==
  ASSUME IInv, NEW id \in Ids, state[id] = "READY", aspired[id], ~ (pc = "serving" /\ current = id)
  PROVE  id \in serving
  BY DEF IInv, IndexLag, Ready

\* A request for the latest version, or for one that is not greater than the
\* least one, finds a model when one of its name is served.
LEMMA SomethingAnswers ==
  ASSUME serving \subseteq Ids, NEW a \in Ask, NEW id \in ServedOf(a.name),
         a.choice = "latest" \/ a.value = id[2]
  PROVE  /\ Found(a) # {}
         /\ \A other \in Found(a) : other[2] >= id[2]
<1> DEFINE Numbers == {other[2] : other \in ServedOf(a.name)}
<1>1. Numbers \subseteq Versions /\ Numbers \subseteq Nat /\ id[2] \in Numbers
  BY VersionsAreNat DEF ServedOf, Ids
<1>2. IsFiniteSet(Numbers)
  BY <1>1, VersionsFinite, FS_Subset
<1>3. \A other \in ServedOf(a.name) : other[2] \in Numbers /\ other[2] \in Nat
  BY <1>1
<1>4. CASE a.choice = "version"
  BY <1>3, <1>4 DEF Found, Answers
<1>5. CASE a.choice = "latest"
  <2>1. PICK m \in Numbers : \A n \in Numbers : n <= m
    BY <1>1, <1>2, GreatestNumber
  <2>2. PICK best \in ServedOf(a.name) : best[2] = m
    BY <2>1
  <2>3. best \in Found(a)
    BY <1>3, <1>5, <2>1, <2>2 DEF Found, Answers
  <2>4. \A other \in Found(a) : id[2] <= other[2] /\ other[2] \in Nat
    BY <1>3, <1>5 DEF Found, Answers
  <2> QED BY <1>1, <2>3, <2>4
<1>6. CASE a.choice = "stable"
  <2>1. PICK m \in Numbers : \A n \in Numbers : m <= n
    BY <1>1, LeastNumber
  <2>2. PICK best \in ServedOf(a.name) : best[2] = m
    BY <2>1
  <2>3. best \in Found(a)
    BY <1>3, <1>6, <2>1, <2>2 DEF Found, Answers
  <2>4. id[2] = 0
    BY <1>6 DEF Ask
  <2>5. \A other \in Found(a) : other[2] \in Nat
    BY <1>3 DEF Found
  <2> QED BY <2>3, <2>4, <2>5
<1>7. a.choice \in {"version", "latest", "stable"}
  BY DEF Ask
<1> QED BY <1>4, <1>5, <1>6, <1>7

\* ServingStore::find(): a request is refused, or gets an older version than
\* there is, only between the loading of the better one and its publication.
THEOREM BestIsFound == PSpec => BestAvailable
<1> DEFINE Best ==
      \A r \in Requests, id \in Ids :
       /\ phase[r] = "idle" /\ phase'[r] # "idle"
       /\ ask'[r].name = id[1] /\ state[id] = "READY" /\ aspired[id]
       /\ ask'[r].choice = "latest" \/ ask'[r].value = id[2]
       => \/ pc = "serving" /\ current = id
          \/ phase'[r] = "found" /\ model'[r][2] >= id[2]
<1>1. PInv /\ [PNext]_pvars => [Best]_pvars
  <2> SUFFICES ASSUME PInv, PNext, NEW r \in Requests, NEW id \in Ids,
                      phase[r] = "idle", phase'[r] # "idle",
                      ask'[r].name = id[1], state[id] = "READY", aspired[id],
                      ask'[r].choice = "latest" \/ ask'[r].value = id[2],
                      ~ (pc = "serving" /\ current = id)
               PROVE  phase'[r] = "found" /\ model'[r][2] >= id[2]
    OBVIOUS
  <2> USE DEF PInv
  <2>1. PICK a \in Ask : Find(r, a) \/ Refuse(r, a)
    <3>1. ~ (\E n \in Names, vs \in SUBSET Versions : Update(n, vs) /\ UNCHANGED rvars) /\ ~PBoarding
      BY DEF PBoarding, ServeNew, Drained, rvars
    <3>2. PICK q \in Requests : (\E a \in Ask : Find(q, a) \/ Refuse(q, a)) \/ Run(q) \/ Return(q)
      BY <3>1 DEF PNext
    <3>3. ~Run(q) /\ ~Return(q)
      BY DEF Run, Return, PTypeOK
    <3>4. PICK a \in Ask : Find(q, a) \/ Refuse(q, a)
      BY <3>2, <3>3
    <3>5. q = r
      BY <3>4 DEF Find, Refuse, PTypeOK
    <3> QED BY <3>4, <3>5
  <2>2. ask'[r] = a
    BY <2>1 DEF Find, Refuse, PTypeOK
  <2>3. id \in ServedOf(a.name)
    BY <2>2, ReadyIsServed DEF ServedOf
  <2>4. Found(a) # {} /\ \A other \in Found(a) : other[2] >= id[2]
    BY <2>2, <2>3, SomethingAnswers DEF IInv, TypeOK
  <2>5. Find(r, a)
    BY <2>1, <2>4 DEF Refuse
  <2>6. PICK found \in Found(a) : model' = [model EXCEPT ![r] = found]
    BY <2>5 DEF Find
  <2>7. model'[r] = found /\ phase'[r] = "found"
    BY <2>5, <2>6 DEF Find, PTypeOK
  <2> QED BY <2>4, <2>6, <2>7
<1> QED BY <1>1, PInvariance, PTL DEF PSpec, BestAvailable
-----------------------------------------------------------------------------
\* What start-up chooses and counts.
STypeOK == /\ automatic \in BOOLEAN
           /\ disk \in [Names -> SUBSET Versions]
           /\ broken \subseteq Ids
           /\ offering \subseteq Names
           /\ main \in {"config", "storing", "boarding", "connected", "waiting", "running"}

\* While the directories stay a stream wants what its directory has, and every
\* managed version is wanted.
DiskStream == {s \in Stream : s.versions = disk[s.name]}
AllWanted == /\ streams \in Seq(DiskStream)
             /\ \A id \in Ids : state[id] # "ABSENT" => id[2] \in disk[id[1]]
             /\ \A id \in Ids : aspired[id]

\* An event says of a model no more than what it is in, and of a ready model
\* only when it is published.
EventsAreTrue ==
  /\ \A id \in Ids : /\ events[id] \in {"ABSENT", "NEW", "READY"}
                     /\ events[id] = "READY" => state[id] = "READY" /\ id \in serving
  /\ pc = "draining" => state[current] = "READY" /\ current \in serving

ProbeSeen == main = "running" => Probe(events)

SInv == IInv /\ STypeOK /\ AllWanted /\ EventsAreTrue /\ ProbeSeen

\* A step of start-up is one of the boarding thread, or leaves it where it is.
LEMMA SNextIsNext == STypeOK /\ [SNext]_svars => [Next]_vars
<1> SUFFICES ASSUME STypeOK, [SNext]_svars PROVE [Next]_vars
  OBVIOUS
<1>1. ASSUME NEW n \in Names, Offer(n) PROVE Next
  <2>1. disk[n] \in SUBSET Versions
    BY DEF STypeOK
  <2> QED BY <1>1, <2>1 DEF Offer, Next
<1>2. CASE Work \/ EndRound \/ BoardingOnce \/ BoardingPoll
  BY <1>2 DEF Work, EndRound, BoardingOnce, BoardingPoll, Next, Once
<1>3. CASE StartThreads \/ StorageOnce \/ Wait \/ StoragePoll \/ UNCHANGED svars
  BY <1>3 DEF StartThreads, StorageOnce, Wait, StoragePoll, svars
<1> QED BY <1>1, <1>2, <1>3 DEF SNext

LEMMA InitSInv == SInit => SInv
<1> SUFFICES ASSUME SInit PROVE SInv
  OBVIOUS
<1>1. <<>> \in Seq(DiskStream)
  OBVIOUS
<1> QED BY <1>1, InitIInv DEF SInit, SInv, STypeOK, AllWanted, EventsAreTrue, ProbeSeen, Init

\* A model that has appeared stays so: its events tell of nothing that is undone.
LEMMA ProbeStays ==
  ASSUME Probe(events), \A id \in Ids : Appeared(events[id]) => Appeared(events'[id])
  PROVE  Probe(events)'
  BY WaitedAreNames DEF Probe, Ids

\* While the directories stay no step of start-up makes a model unwanted, and
\* what has been announced stays true.
LEMMA NextSInv == SInv /\ [SNext]_svars => SInv'
<1> SUFFICES ASSUME SInv, [SNext]_svars PROVE SInv'
  OBVIOUS
<1> USE DEF SInv
<1>1. IInv'
  BY SNextIsNext, NextIInv
<1>2. UNCHANGED config
  BY DEF SNext, StartThreads, StorageOnce, BoardingOnce, Wait, StoragePoll, Offer, BoardingPoll, Work,
         EndRound, svars, config
<1>3. DiskStream' = DiskStream
  BY <1>2 DEF DiskStream, config
<1>4. STypeOK'
  <2>1. main' \in {main, "storing", "boarding", "connected", "waiting", "running"} /\ offering' \subseteq Names
    BY DEF SNext, StartThreads, StorageOnce, BoardingOnce, Wait, StoragePoll, Offer, BoardingPoll, Work,
           EndRound, svars, STypeOK, Woken
  <2> QED BY <1>2, <2>1 DEF STypeOK, config
<1>5. AllWanted'
  <2>1. ASSUME UNCHANGED <<state, aspired, streams>> PROVE AllWanted'
    BY <1>2, <1>3, <2>1 DEF AllWanted, config
  <2>2. ASSUME NEW n \in Names, Offer(n) PROVE AllWanted'
    <3>1. [name |-> n, versions |-> disk[n]] \in DiskStream
      BY DEF DiskStream, Stream, STypeOK
    <3>2. streams' \in Seq(DiskStream)
      BY <2>2, <3>1, AppendProperties DEF Offer, Update, AllWanted
    <3> QED BY <1>2, <1>3, <2>2, <3>2 DEF Offer, Update, AllWanted, config
  <2>3. CASE Aspire
    <3> DEFINE s == streams[pos]
    <3>1. pos \in 1 .. Len(streams) /\ s \in DiskStream
      BY <2>3, ElementOfSeq DEF Aspire, AllWanted, IInv, TypeOK
    <3>2. streams' \in Seq(DiskStream)
      BY <2>3, <3>1, RemoveAtShortens DEF Aspire, AllWanted
    <3>3. s.versions = disk[s.name]
      BY <3>1 DEF DiskStream
    <3>4. ASSUME NEW id \in Ids
          PROVE  aspired'[id] /\ (state'[id] # "ABSENT" => id[2] \in disk[id[1]])
      BY <2>3, <3>3, <3>4 DEF Aspire, AllWanted, Managed, Starting
    <3> QED BY <1>2, <1>3, <3>2, <3>4 DEF AllWanted, config
  <2>4. ASSUME UNCHANGED <<aspired, streams>>,
               \A id \in Ids : state[id] = "ABSENT" => state'[id] = "ABSENT"
        PROVE  AllWanted'
    BY <1>2, <1>3, <2>4 DEF AllWanted, config
  <2>5. CASE Decide \/ Serve \/ Publish
    BY <2>1, <2>5 DEF Decide, Serve, Publish
  <2>6. ASSUME NEW id \in Ids, BeginLoad(id) PROVE AllWanted'
    BY <2>4, <2>6 DEF BeginLoad, IInv, TypeOK, ActionsDue, InRound
  <2>7. CASE LoadSucceeds \/ LoadFails
    BY <2>4, <2>7 DEF LoadSucceeds, LoadFails, IInv, TypeOK, OneInFlight
  <2>8. CASE EndRound
    BY <2>1, <2>8 DEF EndRound, Flush, AllWanted, ShouldStop, IInv, TypeOK
  <2>9. CASE StartThreads \/ StorageOnce \/ BoardingOnce \/ Wait \/ StoragePoll \/ BoardingPoll \/ UNCHANGED svars
    BY <2>1, <2>9 DEF StartThreads, StorageOnce, BoardingOnce, Wait, StoragePoll, BoardingPoll, Begin, svars, vars
  <2> QED BY <2>2, <2>3, <2>5, <2>6, <2>7, <2>8, <2>9 DEF SNext, Work
<1>6. EventsAreTrue' /\ (\A id \in Ids : Appeared(events[id]) => Appeared(events'[id]))
  <2>1. ASSUME UNCHANGED <<events, serving>>, pc' # "draining" \/ UNCHANGED <<pc, current>>,
               \A id \in Ids : state[id] = "READY" => state'[id] = "READY",
               pc' = "draining" => current \in Ids
        PROVE  EventsAreTrue' /\ (\A id \in Ids : Appeared(events[id]) => Appeared(events'[id]))
    BY <2>1 DEF EventsAreTrue
  <2>2. pc = "draining" => current \in Ids
    BY DEF IInv, OneInFlight
  <2>3. ASSUME NEW n \in Names, Offer(n)
        PROVE  EventsAreTrue' /\ (\A id \in Ids : Appeared(events[id]) => Appeared(events'[id]))
    BY <2>1, <2>2, <2>3 DEF Offer, Update
  <2>4. CASE Aspire
    <3>1. ASSUME NEW id \in Ids, id \in Starting(streams[pos])
          PROVE  state[id] = "ABSENT" /\ ~Appeared(events[id])
      BY <3>1 DEF Starting, Managed, EventsAreTrue, Appeared
    <3>2. ASSUME NEW id \in Ids
          PROVE  /\ events'[id] = IF id \in Starting(streams[pos]) THEN "NEW" ELSE events[id]
                 /\ state'[id] = IF id \in Starting(streams[pos]) THEN "NEW" ELSE state[id]
      BY <2>4 DEF Aspire
    <3>3. ~ (pc = "draining") /\ UNCHANGED <<pc, serving>>
      BY <2>4 DEF Aspire
    <3> QED BY <3>1, <3>2, <3>3 DEF EventsAreTrue, Appeared
  <2>5. CASE Decide
    BY <2>1, <2>5 DEF Decide
  <2>6. ASSUME NEW id \in Ids, BeginLoad(id)
        PROVE  EventsAreTrue' /\ (\A other \in Ids : Appeared(events[other]) => Appeared(events'[other]))
    BY <2>1, <2>6 DEF BeginLoad, IInv, TypeOK, ActionsDue, InRound
  <2>7. CASE LoadSucceeds \/ LoadFails
    BY <2>1, <2>7 DEF LoadSucceeds, LoadFails, IInv, TypeOK, OneInFlight
  <2>8. CASE Serve
    <3>1. current \in Ids /\ state[current] = "READY"
      BY <2>8 DEF Serve, IInv, OneInFlight, AllWanted
    <3> QED BY <2>8, <3>1 DEF Serve, EventsAreTrue, Ready
  <2>9. CASE Publish
    <3>1. current \in Ids /\ state[current] = "READY" /\ current \in serving
      BY <2>2, <2>9 DEF Publish, EventsAreTrue
    <3> QED BY <2>9, <3>1 DEF Publish, EventsAreTrue, Appeared, IInv, TypeOK
  <2>10. CASE EndRound
    BY <2>1, <2>10 DEF EndRound, Flush, AllWanted, ShouldStop, IInv, TypeOK
  <2>11. CASE StartThreads \/ StorageOnce \/ BoardingOnce \/ Wait \/ StoragePoll \/ BoardingPoll \/ UNCHANGED svars
    BY <2>1, <2>2, <2>11 DEF StartThreads, StorageOnce, BoardingOnce, Wait, StoragePoll, BoardingPoll, Begin, svars, vars
  <2> QED BY <2>3, <2>4, <2>5, <2>6, <2>7, <2>8, <2>9, <2>10, <2>11 DEF SNext, Work
<1>7. ProbeSeen'
  <2>1. ASSUME main' = "running", main # "running" PROVE Probe(events)'
    BY <2>1 DEF SNext, StartThreads, StorageOnce, BoardingOnce, Wait, StoragePoll, Offer, BoardingPoll, Work,
           EndRound, svars, Woken, vars, Probe
  <2>2. ASSUME main = "running" PROVE Probe(events)'
    BY <1>6, <2>2, ProbeStays DEF ProbeSeen
  <2> QED BY <2>1, <2>2 DEF ProbeSeen
<1> QED BY <1>1, <1>4, <1>5, <1>6, <1>7

LEMMA SInvariance == SSpec => []SInv
  BY InitSInv, NextSInv, PTL DEF SSpec

\* Start-up drives the boarding thread as Boarding says it may be driven.
THEOREM StartupIsBoarding == SSpec => Init /\ [][Next]_vars
<1>1. SInit => Init
  BY DEF SInit
<1>2. SInv /\ [SNext]_svars => [Next]_vars
  BY SNextIsNext DEF SInv
<1> QED BY <1>1, <1>2, SInvariance, PTL DEF SSpec

\* What start-up leaves out of the boarding thread cannot happen while the
\* directories stay: no stream would wait, and there is nothing to unload.
THEOREM StartupLeavesNothingOut ==
  SSpec => [](/\ \A i \in 1 .. Len(streams) : ~ShouldSkip(streams[i])
              /\ \A id \in Ids : pc \notin {"idle", "handling"} => <<"unload", id>> \notin todo
              /\ pc # "unloading")
<1> DEFINE Nothing == /\ \A i \in 1 .. Len(streams) : ~ShouldSkip(streams[i])
                      /\ \A id \in Ids : pc \notin {"idle", "handling"} => <<"unload", id>> \notin todo
                      /\ pc # "unloading"
<1>1. SInv => Nothing
  <2> SUFFICES ASSUME SInv PROVE Nothing
    OBVIOUS
  <2>1. \A s : ~ShouldSkip(s)
    BY DEF SInv, AllWanted, ShouldSkip, Managed
  <2>2. \A id \in Ids : pc \notin {"idle", "handling"} => <<"unload", id>> \notin todo
    BY DEF SInv, IInv, AllWanted, ActionsDue, InRound
  <2>3. pc # "unloading"
    BY DEF SInv, IInv, AllWanted, OneInFlight
  <2> QED BY <2>1, <2>2, <2>3
<1> QED BY <1>1, SInvariance, PTL

\* ServerCoreImpl::start(): the servers open only when a version of every model
\* that is waited for is in the published index.
THEOREM OpensWhenServed == SSpec => []ServedAtStart
<1>1. SInv => ServedAtStart
  <2> SUFFICES ASSUME SInv, main = "running", NEW n \in Waited PROVE Served(n)
    BY DEF ServedAtStart
  <2>1. PICK v \in Versions : Appeared(events[<<n, v>>])
    BY DEF SInv, ProbeSeen, Probe
  <2>2. <<n, v>> \in Ids
    BY WaitedAreNames DEF Ids
  <2> QED BY <2>1, <2>2 DEF SInv, EventsAreTrue, Appeared, Served
<1> QED BY <1>1, SInvariance, PTL
=============================================================================

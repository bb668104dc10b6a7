------------------------------- MODULE RestApi -------------------------------
(***************************************************************************)
(* What a worker of the HTTP server does with one request: RequestImpl,    *)
(* Dispatcher, HttpRestApiHandler, then PredictImpl with the providers of  *)
(* its inputs and outputs, GetModelMetaImpl or TaskOpImpl, and the answer. *)
(*                                                                         *)
(* A target is a sequence of tokens: "/", ":", and what is between them,   *)
(* where a query or a fragment is a token too.                             *)
(***************************************************************************)
EXTENDS Integers, Sequences, SequencesExt, FiniteSetsExt

CONSTANTS RaUris,     \* [path, query, fragment, say]; say is what it asks for
          RaBodies,   \* [json, version, batch, bytes, output, classes], one chunk each
          RaModels,   \* name |-> [served: version |-> state, outputs, runtime]
          RaStatuses, \* how a prediction or a task may end
          RaContents, \* tensors: sequences of scores
          RaNumber,     \* token of digits |-> its number, or TooLarge
          Lower,      \* token |-> token in small letters
          TooLarge, Unset

VARIABLES raPc, raReq, raStatus, raCall, raRsp, raReply

ravars == <<raPc, raReq, raStatus, raCall, raRsp, raReply>>

Slash == "/"
Colon == ":"

NoReq == [method |-> "GET", target |-> <<>>, body |-> <<>>, chunks |-> <<>>, say |-> Unset]
NoCall == [op |-> "none", name |-> Unset, version |-> Unset]
NoRsp == [done |-> FALSE, content |-> <<>>, classes |-> <<>>, states |-> {}]
NoReply == [code |-> 0, text |-> Unset]

RaInit == raPc = "idle" /\ raReq = NoReq /\ raStatus = "OK" /\ raCall = NoCall /\ raRsp = NoRsp /\ raReply = NoReply

Answers(status, text) == raPc' = "reply" /\ raStatus' = status /\ raReply' = [raReply EXCEPT !.text = text]
-----------------------------------------------------------------------------
(* RequestImpl and Dispatcher *)
Methods == {"GET", "POST", "HEAD", "PUT", "DELETE", "OPTIONS", "TRACE", "CONNECT", "PATCH"}

\* init(): path_and_query; no path is the root.
PathAndQuery(uri) == (IF uri.path = <<>> THEN <<Slash>> ELSE uri.path) \o uri.query \o uri.fragment

Lowered(tokens) == [i \in DOMAIN tokens |-> Lower[tokens[i]]]

\* kPathRegex
Dispatches(target) == Len(target) >= 3 /\ Lowered(SubSeq(target, 1, 3)) = <<Slash, "v1", Slash>>

\* A method or target that RequestImpl or every dispatcher refuses.
Refuse(method, uri) ==
  /\ raPc = "idle"
  /\ method \notin Methods \/ ~Dispatches(PathAndQuery(uri))
  /\ raReply' = [code |-> IF method \in Methods THEN 404 ELSE 400, text |-> Unset]
  /\ UNCHANGED <<raPc, raReq, raStatus, raCall, raRsp>>

Receive(method, uri, chunks) ==
  /\ raPc = "idle" /\ method \in Methods /\ Dispatches(PathAndQuery(uri))
  /\ raReq' = [method |-> method, target |-> PathAndQuery(uri), body |-> <<>>, chunks |-> chunks, say |-> uri.say]
  /\ raPc' = "read" /\ raStatus' = "INVALID_ARGUMENT" /\ raCall' = NoCall /\ raRsp' = NoRsp /\ raReply' = NoReply

\* readRequestBytes() until the buffer of the request is empty.
ReadChunk ==
  /\ raPc = "read" /\ raReq.chunks # <<>>
  /\ raReq' = [raReq EXCEPT !.body = @ \o <<Head(raReq.chunks)>>, !.chunks = Tail(@)]
  /\ UNCHANGED <<raPc, raStatus, raCall, raRsp, raReply>>

EndOfBody == raPc = "read" /\ raReq.chunks = <<>> /\ raPc' = "route" /\ UNCHANGED <<raReq, raStatus, raCall, raRsp, raReply>>
-----------------------------------------------------------------------------
(* HttpRestApiHandler: the three expressions; a match is the name, the     *)
(* version and what follows, each of them empty if it is absent.           *)
Prefix == <<Slash, "v1", Slash, "models">>
Rest(target) == SubSeq(target, Len(Prefix) + 1, Len(target))
HasPrefix(target) == Len(target) >= Len(Prefix) /\ Lowered(SubSeq(target, 1, Len(Prefix))) = Prefix

IsName(tokens) == tokens # <<>> /\ \A i \in DOMAIN tokens : tokens[i] \notin {Slash, Colon}
IsVersion(tokens) == Len(tokens) = 4 /\ Lowered(SubSeq(tokens, 1, 3)) = <<Slash, "versions", Slash>> /\ tokens[4] \in DOMAIN RaNumber

\* A way to read tokens as ["/" name] ["/versions/" digits] tail.
Reads(tokens, k, l) == /\ k <= l
                       /\ k = 0 \/ (tokens[1] = Slash /\ IsName(SubSeq(tokens, 2, k)))
                       /\ k = l \/ IsVersion(SubSeq(tokens, k + 1, l))
Reading(tokens, k, l) ==
  [name |-> SubSeq(tokens, 2, k), version |-> SubSeq(tokens, k + 1, l), tail |-> SubSeq(tokens, l + 1, Len(tokens))]
Readings(tokens, tails) ==
  LET places == (0 .. Len(tokens)) \X (0 .. Len(tokens))
      all == {Reading(tokens, p[1], p[2]) : p \in {q \in places : Reads(tokens, q[1], q[2])}}
  IN {m \in all : m.tail \in tails}

ModelRuns(target, verb) ==
  IF ~HasPrefix(target) THEN {}
  ELSE LET tails == {tail \in Suffixes(Rest(target)) : Len(tail) = 2 /\ tail[1] = Colon /\ Lower[tail[2]] = verb}
       IN {m \in Readings(Rest(target), tails) : m.name # <<>>}

\* The expression takes the longest name there is, so it finds one if it can.
ModelStatus(target) ==
  LET all == IF ~HasPrefix(target) THEN {}
             ELSE Readings(Rest(target), {tail \in Suffixes(Rest(target)) : tail = <<>> \/ Lowered(tail) = <<Slash, "metadata">>})
  IN {m \in all : \A n \in all : Len(n.name) <= Len(m.name)}

\* What a target says: a name, a version and what to do, each of which may be
\* left out.  A last name is no operation, and what does nothing ends in none.
RaSays(target, say) ==
  LET rest == Rest(target)
      length == Len(rest)
      predicts == length >= 2 /\ rest[length - 1] = Colon /\ Lower[rest[length]] = "predict"
      tasks == length >= 2 /\ rest[length - 1] = Colon /\ Lower[rest[length]] = "ml_predict"
      metas == length >= 2 /\ rest[length - 1] = Slash /\ rest[length] = "metadata"
  IN ~HasPrefix(target) \/ \E n, v \in 0 .. length :
       /\ \/ n = 0 /\ say.name = <<>>
          \/ n >= 2 /\ rest[1] = Slash /\ say.name = SubSeq(rest, 2, n) /\ IsName(say.name)
       /\ \/ v = n /\ say.version = Unset
          \/ v >= n /\ IsVersion(SubSeq(rest, n + 1, v)) /\ say.version = RaNumber[rest[v]]
       /\ \/ say.op = "predict" /\ v = length - 2 /\ predicts
          \/ say.op = "task" /\ v = length - 2 /\ tasks
          \/ say.op = "meta" /\ v = length - 2 /\ metas
          \/ say.op = "none" /\ (v = length \/ ~(predicts \/ tasks \/ metas))

VersionOf(match) == IF match.version = <<>> THEN Unset ELSE RaNumber[match.version[4]]

\* Marks are no words, and every URI says what it should.
ASSUME RaTokensAreWords ==
  /\ \A token \in DOMAIN Lower : Lower[token] = Slash => token = Slash
  /\ DOMAIN RaNumber \cap {Slash, "metadata"} = {}
ASSUME RaUrisSay == \A uri \in RaUris :
  /\ PathAndQuery(uri) \in Seq(DOMAIN Lower)
  /\ Dispatches(PathAndQuery(uri)) => RaSays(PathAndQuery(uri), uri.say)
RaChunks == UNION {ToSet(body) : body \in RaBodies}
ASSUME RaDataIsTyped ==
  /\ RaBodies \subseteq Seq(RaChunks)
  /\ \A chunk \in RaChunks : chunk.batch \in Int /\ chunk.classes \in Nat
  /\ RaContents \subseteq Seq(Int)

NoMessage == ~ \E i \in DOMAIN raReq.body : raReq.body[i].json
BodyVersion == raReq.body[1].version

\* Mutant: like PredictSpec, but a version of the body wins.
PredictSpecOfBody(match) == [op |-> "predict", name |-> match.name,
                             version |-> IF BodyVersion # Unset THEN BodyVersion ELSE VersionOf(match)]

\* The name of the target replaces the one of the body, and so does a version.
PredictSpec(match) == [op |-> "predict", name |-> match.name,
                       version |-> IF VersionOf(match) = Unset THEN BodyVersion ELSE VersionOf(match)]

Calls(call) == raPc' = call.op /\ raCall' = call /\ UNCHANGED <<raReq, raStatus, raRsp, raReply>>
Fails(status, text) == Answers(status, text) /\ UNCHANGED <<raReq, raCall, raRsp>>

\* A version that is no int64 returns at once, without a text.
Route ==
  LET target == raReq.target
      runs == IF raReq.method = "POST" THEN ModelRuns(target, "predict") ELSE {}
      tasks == IF raReq.method = "POST" THEN ModelRuns(target, "ml_predict") ELSE {}
      metas == IF raReq.method = "GET" THEN ModelStatus(target) ELSE {}
  IN /\ raPc = "route"
     /\ \/ \E m \in runs \cup tasks : VersionOf(m) = TooLarge /\ Fails("INVALID_ARGUMENT", Unset)
        \/ \E m \in runs \cup tasks : VersionOf(m) # TooLarge /\ NoMessage /\ Fails("INTERNAL", "error")
        \/ \E m \in runs : VersionOf(m) # TooLarge /\ ~NoMessage /\ Calls(PredictSpec(m))
        \/ \E m \in tasks : VersionOf(m) # TooLarge /\ ~NoMessage /\ Calls([op |-> "task", name |-> <<"body">>, version |-> BodyVersion])
        \/ \E m \in metas : m.tail # <<Slash, "metadata">> /\ Fails("INVALID_ARGUMENT", Unset)
        \/ \E m \in metas : m.tail = <<Slash, "metadata">> /\ (m.name = <<>> \/ VersionOf(m) = TooLarge)
                            /\ Fails("INVALID_ARGUMENT", "error")
        \/ \E m \in metas : m.tail = <<Slash, "metadata">> /\ m.name # <<>> /\ VersionOf(m) # TooLarge
                            /\ Calls([op |-> "meta", name |-> m.name, version |-> VersionOf(m)])
        \/ runs \cup tasks \cup metas = {} /\ Fails("INVALID_ARGUMENT", "error")
-----------------------------------------------------------------------------
(* PredictImpl, TaskOpImpl and GetModelMetaImpl *)
RaConfigured(name) == name \in DOMAIN RaModels
Ready(name) == {v \in DOMAIN RaModels[name].served : RaModels[name].served[v] = "READY"}
Served(call) == RaConfigured(call.name) /\ IF call.version = Unset THEN Ready(call.name) # {} ELSE call.version \in Ready(call.name)
Runnable(call) == Served(call) /\ RaModels[call.name].runtime

\* checkOutputRequest() and GRPCPredictRequestProvider::create()
Wanted == raReq.body[1].output
Accepted(call) ==
  /\ Wanted \in RaModels[call.name].outputs \cup {Unset}
  /\ raReq.body[1].batch >= 1 /\ raReq.body[1].bytes

\* addClassResults(): the best classes of every row of the tensor; rows of
\* equal scores may come in any order.
Rows(content, batch) == LET n == Len(content) \div batch IN [i \in 1 .. batch |-> SubSeq(content, (i - 1) * n + 1, i * n)]
RaOrders(row) == {p \in [DOMAIN row -> DOMAIN row] :
                  IsInjective(p) /\ \A i, j \in DOMAIN row : i < j => row[p[i]] >= row[p[j]]}
ClassCount(row, count) == Min({count, Len(row)})
TopClasses(row, count) == {SubSeq(p, 1, ClassCount(row, count)) : p \in RaOrders(row)}

\* An output that was not asked for is not in the response.
RaEnds(status, rsp) ==
  /\ raRsp' = rsp
  /\ IF status = "OK" THEN raPc' = "write" /\ raStatus' = status /\ UNCHANGED raReply ELSE Answers(status, "error")
  /\ UNCHANGED <<raReq, raCall>>

PredictRefused == raPc = "predict" /\ ~(Runnable(raCall) /\ Accepted(raCall)) /\ Fails("INVALID_ARGUMENT", "error")

\* The status of the runtime; classes of an output without a usable type fail.
Predict(status, content) ==
  /\ raPc = "predict" /\ Runnable(raCall) /\ Accepted(raCall)
  /\ LET rsp == [NoRsp EXCEPT !.done = TRUE, !.content = IF Wanted = Unset THEN <<>> ELSE content]
         rows == Rows(rsp.content, raReq.body[1].batch)
         count == raReq.body[1].classes
     IN IF status # "OK" THEN RaEnds(status, NoRsp)
        ELSE IF Wanted = Unset \/ count = 0 \/ rows[1] = <<>> THEN RaEnds("OK", rsp)
        ELSE \E classes \in [DOMAIN rows -> UNION {TopClasses(rows[i], count) : i \in DOMAIN rows}] :
               /\ \A i \in DOMAIN rows : classes[i] \in TopClasses(rows[i], count)
               /\ RaEnds("OK", [rsp EXCEPT !.classes = classes])
PredictNoType == /\ raPc = "predict" /\ Runnable(raCall) /\ Accepted(raCall)
                 /\ Wanted # Unset /\ raReq.body[1].classes > 0 /\ RaEnds("INVALID_ARGUMENT", NoRsp)

\* The status of a task becomes INTERNAL, whatever it is.
CreateTask(status) ==
  /\ raPc = "task"
  /\ RaEnds(IF Runnable(raCall) /\ status = "OK" THEN "OK" ELSE "INTERNAL", [NoRsp EXCEPT !.done = TRUE])

\* visit() of every managed version of the name, whichever was asked for.
ReadyState(state) == CASE state = "READY" -> "MODEL_READY" [] state = "IDLE" -> "MODEL_UNAVAILABLE" [] OTHER -> "MODEL_UNKNOWN"
GetModelMeta ==
  /\ raPc = "meta"
  /\ IF RaConfigured(raCall.name)
     THEN LET served == RaModels[raCall.name].served
          IN RaEnds("OK", [NoRsp EXCEPT !.done = TRUE, !.states = {<<v, ReadyState(served[v])>> : v \in DOMAIN served}])
     ELSE RaEnds("NOT_FOUND", NoRsp)

\* serializeMessage()
WriteResponse == raPc = "write" /\ Answers("OK", raRsp) /\ UNCHANGED <<raReq, raCall, raRsp>>
WriteFails == raPc = "write" /\ Answers("INTERNAL", "error") /\ UNCHANGED <<raReq, raCall, raRsp>>
-----------------------------------------------------------------------------
ToHTTPStatusCode(status) ==
  CASE status = "OK" -> 200
    [] status \in {"INVALID_ARGUMENT", "FAILED_PRECONDITION", "OUT_OF_RANGE"} -> 400
    [] status = "UNAUTHENTICATED" -> 401 [] status = "PERMISSION_DENIED" -> 403 [] status = "NOT_FOUND" -> 404
    [] status \in {"ALREADY_EXISTS", "ABORTED"} -> 409 [] status = "RESOURCE_EXHAUSTED" -> 429
    [] status = "CANCELLED" -> 499 [] status = "UNIMPLEMENTED" -> 501 [] status = "UNAVAILABLE" -> 503
    [] status = "DEADLINE_EXCEEDED" -> 504 [] OTHER -> 500

Reply ==
  /\ raPc = "reply"
  /\ raPc' = "idle" /\ raReply' = [raReply EXCEPT !.code = ToHTTPStatusCode(raStatus)]
  /\ raReq' = NoReq /\ raStatus' = "OK" /\ raCall' = NoCall /\ raRsp' = NoRsp

RaNext == \/ ReadChunk \/ EndOfBody \/ Route \/ PredictRefused \/ PredictNoType \/ GetModelMeta
          \/ WriteResponse \/ WriteFails \/ Reply
          \/ \E status \in RaStatuses : CreateTask(status) \/ \E content \in RaContents : Predict(status, content)
          \/ raPc = "idle" /\ \E method \in {"GET", "POST", "PUT", "LOCK"}, uri \in RaUris :
               Refuse(method, uri) \/ \E body \in RaBodies : Receive(method, uri, body)
RaSpec == RaInit /\ [][RaNext]_ravars
-----------------------------------------------------------------------------
\* A target calls the operation it names, with the name and the version it
\* names, however these are spelled; with a query, a fragment, another method
\* or a version that is no number it calls nothing.
GoesWhereItSays ==
  raPc \in {"predict", "task", "meta"} =>
    /\ raReq.say.op = raCall.op /\ raReq.method = (IF raCall.op = "meta" THEN "GET" ELSE "POST")
    /\ raCall.op # "task" => raReq.say.name = raCall.name
    /\ raReq.say.version \in {Unset, raCall.version} \/ raCall.op = "task"
AnswersFit ==
  raPc = "reply" /\ raStatus = "OK" => /\ raRsp.done /\ raReply.text = raRsp
                                       /\ raCall.op # "meta" => Runnable(raCall)
\* The classes of a row are as many as were asked for, if there are as many,
\* and no other class of the row has a better score than one of them.
ClassesAreBest ==
  raRsp.classes # <<>> =>
    LET rows == Rows(raRsp.content, raReq.body[1].batch)
    IN \A i \in DOMAIN rows :
         LET listed == Range(raRsp.classes[i])
         IN /\ Cardinality(listed) = Min({raReq.body[1].classes, Len(rows[i])})
            /\ \A k \in listed, l \in DOMAIN rows[i] \ listed : rows[i][l] <= rows[i][k]

RestAnswers == GoesWhereItSays /\ AnswersFit /\ ClassesAreBest
=============================================================================

----------------------------- MODULE ServerMain -----------------------------
(***************************************************************************)
(* ServerCoreImpl::start() around config(): the command line, the start of *)
(* the two servers, the wait for them, and the end, when the roles of the  *)
(* static ServerCoreImpl are destroyed while handlers and loops may run.   *)
(*                                                                         *)
(* An argument is a record of the option it names and a token: the number  *)
(* sscanf() finds in its value (and whether it finds one), and, as channel *)
(* arguments, the parts between "=" of what is between its commas.         *)
(***************************************************************************)
EXTENDS Integers, Sequences, SequencesExt, FiniteSetsExt

CONSTANTS CliArgs,    \* arguments
          CliMaxArgs  \* bound

ASSUME CliBound == CliMaxArgs \in Nat

VARIABLES
  smArgs,      \* argv; chosen by the first step
  smNext,      \* the argument that is parsed next
  smValues,    \* the members of the options: a token each
  smMain,      \* where the main thread is
  smServers,   \* the servers that serve
  smChannels,  \* the channel arguments of the gRPC server
  smHandlers,  \* handlers of requests that run
  smRounds,    \* the loops that are in a round
  smRoles      \* the roles that are not destroyed

smvars == <<smArgs, smNext, smValues, smMain, smServers, smChannels, smHandlers, smRounds, smRoles>>

Token(number, isNumber, parts) == [number |-> number, isNumber |-> isNumber, parts |-> parts]
Zero == Token(0, TRUE, <<>>)
Named(name) == Token(0, FALSE, <<<<name>>>>)

\* What subscribe() of GrpcOptions, HttpOptions and ModelOptions adds, in the
\* order of init(), and what their constructors set.
GrpcOptionSet == << <<"grpc_port", "int">>, <<"ssl_config_file", "string">>, <<"grpc_channel_args", "string">> >>
HttpOptionSet == << <<"http_port", "int">>, <<"http_num_threads", "int">>, <<"http_timeout_in_ms", "int">> >>
ModelOptionSet == << <<"model_base_path", "string">>, <<"loading_method", "string">>, <<"fs_poll_wait_seconds", "int">> >>
OptionSets == <<GrpcOptionSet, HttpOptionSet, ModelOptionSet>>
Options == UNION {ToSet(OptionSets[i]) : i \in DOMAIN OptionSets}

Defaults ==
  [name \in {o[1] : o \in Options} |->
    CASE name = "http_num_threads" -> Token(4, TRUE, <<>>)
      [] name = "http_timeout_in_ms" -> Token(30000, TRUE, <<>>)
      [] name = "fs_poll_wait_seconds" -> Token(10, TRUE, <<>>)
      [] name = "loading_method" -> Named("automatic")
      [] OTHER -> Zero]

\* OptionImpl::parse() and the savers.
Parses(o, arg) == o[1] = arg.name /\ (o[2] = "string" \/ arg.token.isNumber)

\* The roles that have work of their own or are used by it, as bases.
Bases == <<"StorageLoop", "BoardingLoop", "ModelStore", "ManagedStore", "ServingStore", "EventBus",
           "PredictImpl", "GrpcServer", "HttpServer">>
Uses(loop) == CASE loop = "StorageLoop" -> {"ModelStore", "BoardingLoop"}
                [] loop = "BoardingLoop" -> {"ManagedStore", "ServingStore", "EventBus"}
HandlerUses == {"PredictImpl", "ServingStore"}
Alive(roles) == roles \subseteq smRoles
-----------------------------------------------------------------------------
SmInit ==
  /\ smArgs = <<>> /\ smNext = 1 /\ smValues = Defaults /\ smMain = "new"
  /\ smServers = {} /\ smChannels = <<>> /\ smHandlers = {} /\ smRounds = {} /\ smRoles = ToSet(Bases)

Main(from, to) == smMain = from /\ smMain' = to

Call(args) ==
  /\ Main("new", "parsing")
  /\ smArgs' = args
  /\ UNCHANGED <<smNext, smValues, smServers, smChannels, smHandlers, smRounds, smRoles>>

\* doParse(): the first option that takes an argument keeps it.
ParseArg ==
  /\ smMain = "parsing" /\ smNext \in DOMAIN smArgs
  /\ LET arg == smArgs[smNext]
     IN /\ \E o \in Options : Parses(o, arg)
        /\ smValues' = [smValues EXCEPT ![arg.name] = arg.token]
  /\ smNext' = smNext + 1
  /\ UNCHANGED <<smArgs, smMain, smServers, smChannels, smHandlers, smRounds, smRoles>>

\* The usage is printed, and exit(0) destroys the static object.
InvalidOption ==
  /\ Main("parsing", "exit") /\ smNext \in DOMAIN smArgs
  /\ ~\E o \in Options : Parses(o, smArgs[smNext])
  /\ UNCHANGED <<smArgs, smNext, smValues, smServers, smChannels, smHandlers, smRounds, smRoles>>

\* config() may fail, before the loops run; Startup has the rest of it.
ConfigFails ==
  /\ Main("parsing", "exit") /\ smNext \notin DOMAIN smArgs
  /\ UNCHANGED <<smArgs, smNext, smValues, smServers, smChannels, smHandlers, smRounds, smRoles>>

Configured ==
  /\ Main("parsing", "grpc") /\ smNext \notin DOMAIN smArgs
  /\ UNCHANGED <<smArgs, smNext, smValues, smServers, smChannels, smHandlers, smRounds, smRoles>>

Port(name) == smValues[name].number

\* ChannelBuilder: insert() keeps the first value of a key.
ChannelKeys(token) == {token.parts[i][1] : i \in DOMAIN token.parts}
ChannelBuilder(token) ==
  [k \in ChannelKeys(token) |->
    LET first == Min({i \in DOMAIN token.parts : token.parts[i][1] = k}) IN token.parts[first][2]]
Malformed(token) == \E i \in DOMAIN token.parts : Len(token.parts[i]) < 2

GrpcStarts ==
  /\ Main("grpc", "http")
  /\ Port("grpc_port") > 0 /\ ~Malformed(smValues["grpc_channel_args"])
  /\ smChannels' = ChannelBuilder(smValues["grpc_channel_args"])
  /\ smServers' = smServers \cup {"GrpcServer"}
  /\ UNCHANGED <<smArgs, smNext, smValues, smHandlers, smRounds, smRoles>>

NoGrpc ==
  /\ Main("grpc", "http") /\ Port("grpc_port") <= 0
  /\ UNCHANGED <<smArgs, smNext, smValues, smServers, smChannels, smHandlers, smRounds, smRoles>>

\* BuildAndStart() gives no server.
GrpcFails ==
  /\ Main("grpc", "exit") /\ Port("grpc_port") > 0 /\ ~Malformed(smValues["grpc_channel_args"])
  /\ UNCHANGED <<smArgs, smNext, smValues, smServers, smChannels, smHandlers, smRounds, smRoles>>

\* kv[1] of an entry without "=", or kv[0] of an empty one, is no element.
GrpcUndefined ==
  /\ Main("grpc", "undefined") /\ Port("grpc_port") > 0 /\ Malformed(smValues["grpc_channel_args"])
  /\ UNCHANGED <<smArgs, smNext, smValues, smServers, smChannels, smHandlers, smRounds, smRoles>>

HttpStarts ==
  /\ Main("http", "wait") /\ Port("http_port") > 0
  /\ smServers' = smServers \cup {"HttpServer"}
  /\ UNCHANGED <<smArgs, smNext, smValues, smChannels, smHandlers, smRounds, smRoles>>

\* No port, or a server that cannot be created: start() succeeds without it.
NoHttp ==
  /\ Main("http", "wait")
  /\ UNCHANGED <<smArgs, smNext, smValues, smServers, smChannels, smHandlers, smRounds, smRoles>>

\* The server cannot accept: start() fails, with the gRPC server serving.
HttpFails ==
  /\ Main("http", "exit") /\ Port("http_port") > 0
  /\ UNCHANGED <<smArgs, smNext, smValues, smServers, smChannels, smHandlers, smRounds, smRoles>>

\* wait(): nobody shuts a server down, so it returns only if there is none.
Waited == /\ Main("wait", "exit") /\ smServers = {}
          /\ UNCHANGED <<smArgs, smNext, smValues, smServers, smChannels, smHandlers, smRounds, smRoles>>
-----------------------------------------------------------------------------
\* The handlers of a server, and the rounds of the two loops.
Begins(server) ==
  /\ server \in smServers \ smHandlers
  /\ smHandlers' = smHandlers \cup {server}
  /\ UNCHANGED <<smArgs, smNext, smValues, smMain, smServers, smChannels, smRounds, smRoles>>
Ends(server) ==
  /\ server \in smHandlers
  /\ smHandlers' = smHandlers \ {server}
  /\ UNCHANGED <<smArgs, smNext, smValues, smMain, smServers, smChannels, smRounds, smRoles>>

Polls == smValues["loading_method"] = Named("automatic") /\ smMain \in {"grpc", "http", "wait"}
LoopBegins(loop) ==
  /\ Polls /\ loop \notin smRounds
  /\ smRounds' = smRounds \cup {loop}
  /\ UNCHANGED <<smArgs, smNext, smValues, smMain, smServers, smChannels, smHandlers, smRoles>>
LoopEnds(loop) ==
  /\ loop \in smRounds
  /\ smRounds' = smRounds \ {loop}
  /\ UNCHANGED <<smArgs, smNext, smValues, smMain, smServers, smChannels, smHandlers, smRoles>>

Standing == {i \in DOMAIN Bases : Bases[i] \in smRoles}

\* Mutant: like NextRole, but the bases are destroyed in their order.
FirstRole == Bases[Min(Standing)]

\* The bases are destroyed in reverse order.  A LoopThread waits for the round
\* it is in; a gRPC server shuts down and waits for its handlers.
NextRole == Bases[Max(Standing)]
Destroy ==
  /\ smMain = "exit" /\ smRoles # {}
  /\ NextRole \notin smRounds \cup smHandlers
  /\ smServers' = smServers \ {NextRole}
  /\ smRoles' = smRoles \ {NextRole}
  /\ UNCHANGED <<smArgs, smNext, smValues, smMain, smChannels, smHandlers, smRounds>>

SmNext == \/ \E args \in SeqOf(CliArgs, CliMaxArgs) : Call(args)
          \/ ParseArg \/ InvalidOption \/ ConfigFails \/ Configured
          \/ GrpcStarts \/ NoGrpc \/ GrpcFails \/ GrpcUndefined
          \/ HttpStarts \/ NoHttp \/ HttpFails \/ Waited \/ Destroy
          \/ \E s \in {"GrpcServer", "HttpServer"} : Begins(s) \/ Ends(s)
          \/ \E l \in {"StorageLoop", "BoardingLoop"} : LoopBegins(l) \/ LoopEnds(l)
SmSpec == SmInit /\ [][SmNext]_smvars
-----------------------------------------------------------------------------
Good(arg) == \E o \in Options : Parses(o, arg)
LastOf(name) ==
  LET given == {i \in 1 .. smNext - 1 : smArgs[i].name = name}
  IN IF given = {} THEN Defaults[name] ELSE smArgs[Max(given)].token

\* Every option has the last value it was given, and the command line goes on
\* to config() only without a bad argument; a server serves only on a port
\* above 0; and no request is handled by a server whose roles are destroyed,
\* whichever server fails to start.  A loop's round meets a destroyed role
\* only if the main thread returns with the method "automatic".
OrderlyMain ==
  /\ \A name \in DOMAIN smValues : smValues[name] = LastOf(name)
  /\ smMain \in {"grpc", "http", "wait", "undefined"} => \A i \in DOMAIN smArgs : Good(smArgs[i])
  /\ "GrpcServer" \in smServers => Port("grpc_port") > 0
  /\ "HttpServer" \in smServers => Port("http_port") > 0
  /\ smHandlers # {} => Alive(HandlerUses)
  /\ (\E l \in smRounds : ~Alive(Uses(l))) => smMain = "exit" /\ smValues["loading_method"] = Named("automatic")
=============================================================================

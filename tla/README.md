# Adlik: a TLA+ verification project

Adlik compiles trained models and serves them. This project models the C++
serving engine `adlik_serving/` - threads that discover model versions on disk,
load and unload them, publish what is ready to the request handlers, and run
requests in batches on one of eight engines -, the small library `cub/` it stands
on, and the Python compiler `model_compiler/` that fills the directories the
engine watches.

To check it: `tlc -config <cfg> <module>` for a row of the table under *Runs*,
`tlapm <module>` for each `*_proofs.tla`. `PROJECT.json` ties every definition
to the lines of code it models, every property to a mutation of the code that
breaks it, and lists the hazards the properties are for.

## 1. Inventory

### The parts and how they interact

```
 model compiler ──versions, config.pbtxt──> directories <──copy, delete──┐
                                               │                         │
                                               v                         │
 StorageLoop ──stream──> BoardingLoop ──load/unload──> model bundles     │
 (a thread)              (a thread)                        ▲             │
    │ ModelStore             │ ManagedStore, ModelState    │ bundle      │
    │ (configurations) <─────┼────── ModelOperateImpl ─────┼─────────────┘
    │                        ├─event─> EventBus ─> StateMonitor ─> main thread
    │                        └─update─> ServingStore       │       (ServerMain)
    │                                   (ReadWritePtr)     │
 gRPC threads, HTTP loop + pool ─routes─> PredictImpl, TaskOpImpl, GetModelMetaImpl
                                            │ predict              │ task
      BatchingModel ──> batch threads ──> plug-in instances     MLModel: runners,
      BatchingSession (TensorFlow) ──> batch threads            a thread per task
```

| component | state | operations | interacts through | hard because |
|---|---|---|---|---|
| `cub::ReadWritePtr` (`cub/mem`) | current object, reference counts, one notification per object | `get`, `update` | shared lock, deleter as a callback | readers hold a snapshot across an update |
| boarding (`boarding_loop.cc`, `boarding_functor.cc`, `managed_store.cc`, `model_state.cc`) | managed models with life cycle and aspiration, queued streams | `update`, `once`: handle, board, flush | mutex, index, events | streams queue up behind outgoing versions, loads fail |
| storage (`storage_loop.cc`, `version_list.cc`) | none between rounds | `once`, version selection | streams | what it read of the disk is old when it is used |
| start-up (`server_core.cc`, `state_monitor.cc`, `monitored_*.cc`) | last event per version, probes | `config`, `handle`, `wait` | event bus, condition | events before the probe, events that never come |
| server main (`sdk`, `server_core.cc`, `cub/cli`, `grpc_server.cc`, `http_server.cc`) | options, two servers, the static roles | parse, `start`, wait, destroy | the roles' life times | one server fails while the other serves |
| serving (`serving_store.cc`, `model_request.cc`, `predict_impl.cc`) | published index, a handle per request | `update`, `find`, `predict` | `ReadWritePtr`, bundles | index and bundles change under a request |
| model operations (`model_operate_impl.cc`, `model_store.cc`) | configurations, directories, policies | add, delete, activate, query | runs rounds of both loops itself | several handlers, no common lock, steps that fail half way |
| model configuration (`model_store.cc`, `model_config_helper.cc`, `text_protobuf.cc`) | configurations in memory and on disk | `config`, `updatePolicy`, normalise, validate | `config.pbtxt` files | a save that is cut or fails, restarts |
| file system (`posix_filesystem.cc`) | the roots of the copy in progress | `copyDir`, `deleteDir`, `children` | callbacks of `nftw()`, static variables | two handlers copy at once |
| batching (`runtime/batching`, `runtime/util`) | queue, pool of processors, tasks on their callers' stacks | `predict`, `process` | scheduler's threads, notifications | two pools of different sizes, deadlines |
| plug-in instances (`runtime/{openvino,libtorch,paddle,tensorrt,tvm,topsinference}`) | buffers that outlive a batch | create, `processBatch`, release | the engines | offsets taken from what requests claim; creation that fails half way |
| TensorFlow Lite (`runtime/tensorflow_lite`) | an interpreter with the shapes of its last batch | create, `processBatch` | the interpreter | resizing between batches of different sizes |
| TensorFlow (`runtime/tensorflow`) | session, a queue for each signature, tasks that belong to their batch | load, predict, run a batch, unload | shared scheduler, session, timeouts | a waiter reads a task the batch's thread destroys; shapes that do not fit each other |
| tasks of ml (`runtime/ml`) | runners and who has them | create, schedule, wait, stop | a detached thread per task, `Notification` | a deadline races the end of the algorithm |
| HTTP server (`server/http`) | connections, outstanding operations | `start`, dispatch, reply, `wait`, `terminate` | event loop, pool | callbacks on two threads, end of the loop |
| REST interface (`http_rest_api_handler.cc`, `dispatcher.h`, `predict_impl.cc`, `get_model_meta_impl.cc`, `runtime/provider`) | a request and its answer | route, predict, task, metadata | the index | three expressions for one target, early returns |
| cub's data (`list`, `optional`, `csv`, `string`, `env/fs` paths, `cli`) | rings, a flag and its storage, a stream of characters, a text | link, splice, iterate; read, write; join, split | - | loops that erase, quoting, the edges of `int` |
| model compiler (`model_compiler/`) | a job, the version directories | search, compile, save, answer | directories, a callback URL | a job dies half way, versions chosen by looking |

Each is a component of `PROJECT.json`, with the ones that are not modelled
(section 8). Concurrency is in the upper half: the threads are the two
loops, the handlers, the HTTP loop and its pool, batch threads, task threads.

### What makes each part correct

- *ReadWritePtr*: an object is handed back only when nobody reads it; then it
  surely is; nobody touches a destroyed notification, unless it is the one of
  the null object that a pointer may begin with (finding 5).
- *Boarding*: after each round exactly the versions the last stream names are
  managed and every one was tried; the index is the ready ones; a version
  transition never leaves a name unserved while a wanted version is loadable;
  queued streams are taken in the end.
- *Start-up*: the ports open only when every awaited model is in the index, and
  they do open if each can be served.
- *Server main*: only a command line without a bad argument starts anything; a
  server runs only while the roles it uses are there.
- *Version selection and index*: the policy selects what it says; `latest` and
  `stable` find the ends, a number finds exactly that version.
- *Prediction*: a request never works with a model that has gone, gets the best
  version there is, and does not hold up the boarding thread.
- *Model operations, configuration, file system*: what is managed is what
  configuration, policy and disk say; success means ready; failure leaves no
  trace; a policy survives a restart; a finished copy is the source.
- *Batching, plug-ins, TensorFlow*: every request is answered exactly once, by
  its own rows, in time or with its own timeout; instances are never shared;
  what a failed creation made is given back.
- *Tasks*: a runner has one task; a task that may be stopped ends.
- *HTTP, REST*: every request is answered once, by the operation, name and
  version its target names; `wait()` returns when, and only when, everything is
  over.
- *cub's data*: a list is a sequence; an `Optional` holds what it was given;
  what is written is read again.
- *Compiler*: the shortest chain, a version number of its own, and a directory
  that a killed job did not spoil.

The hazards behind these, each at its line, are in `PROJECT.json`.

## 2. Modules

| module | of | what it is |
|---|---|---|
| `SnapshotRegister` | `ReadWritePtr` | abstract: a register readers pin and writers replace |
| `ReadWritePtr` | `read_write_ptr.h`, `notification.h` | the protocol in steps of the locks; implements the register |
| `TaskRunners` | `runtime/ml`, `notification.cc`, `simple_executor.cc` | requests, runners and task threads |
| `Boarding` | `boarding_loop.cc`, `boarding_functor.cc`, `managed_store.cc`, `model_state.cc` | a round of the boarding thread, pass by pass |
| `Startup` | `server_core.cc`, monitors, `storage_loop.cc` | extends `Boarding` with the storage thread, the monitor and the main thread |
| `Prediction` | `predict_impl.cc`, `serving_store.cc` | extends `Boarding` with requests that pin snapshots |
| `ModelOperate` | `model_operate_impl.cc`, `model_store.cc` | the operations step by step, rounds atomic |
| `Batching` | `batching_model.cc`, `composite_batch_processor.cc` | callers, scheduler threads, pool |
| `HttpServer` | `server_interface.cc`, `http_request.cc`, `event_loop_scheduler.h`, `event_executor_impl.cc`, `operation_tracker.*` | loop, pool, requests, end of service |
| `TfRuntime` | `plan_model_*.cc`, `batching_session.cc`, `batching_scheduler.cc`, `inferential_*.cc` | load, predict, queues of signatures, batch threads, deadlines |
| `TfBatch` | `inferential_batch.cc` and what it uses | merge, padding, split of one closed batch |
| `InstanceLoad` | creation in seven plug-ins | instances and what they own, failure at each step |
| `InstanceIO` | six plug-ins' `processBatch()` | copying rows into and out of buffers |
| `LiteBatch` | `tensorflow_lite/` | signature check, resize, merge, invoke, split |
| `Batches` | the three above | what they have in common: rows stay with their tasks |
| `VersionSelect`, `IntWidth` | `version_list.cc`, `storage_loop.cc` | directories to versions |
| `ServingIndex` | `serving_store.cc`, `model_request.cc` | ready models to index entries, and lookup |
| `ServerMain` | `program_options.cc`, `option*.cc`, `server_core.cc`, both servers | from the command line to the destructors |
| `ModelConfigs` | `model_store.cc`, `model_config_helper.cc`, `text_protobuf.cc` | configurations in memory and on disk, normalised and validated |
| `FileTree` | `posix_filesystem.cc` | directory walks of two handlers, entry by entry |
| `RestApi` | `http_rest_api_handler.cc`, `predict_impl.cc`, `get_model_meta_impl.cc` | from a target to an answer |
| `SequenceLists` | `cub::List` | abstract: lists as sequences |
| `IntrusiveList` | `apr_ring.h`, `list.h`, `list_elem.h` | the pointers; implements the sequences |
| `OptionalValue` | `optional.h`, `placement.h` | flag and storage, with constructors that throw |
| `CsvText`, `UriPath`, `NumberText` | `csv_*.cc`; `path.cc`, `uri.cc`, `scanner.cc`; `str_utils.cc` | texts, against definitions of what they mean |
| `ModelCompiler` | `model_compiler/` | a compile job from request to answer |

`MC*` modules hold the instances for TLC, `*_proofs` the theorems. Modules that
share no variable are put side by side in one of them, and a behaviour is one
of one module: `MCComputations` has eighteen (its variable `turn` says which),
the lists and `Optional` of `MCContainers` among them, and `MCReadWritePtr` the two
users of `cub::Notification`.

### How state and actions correspond to the code

- **ReadWritePtr.** Each `update()` allocates a `RelSharedPtr`, a *cell*
  numbered in order. `published` is the cell `obj` points to, `own` the cells
  whose `readObj` is not reset, `held[r]` the `shared_ptr` a reader got.
  `update()` is `Swap` (under the unique lock), `Release` (`readObj = nullptr`),
  `Wait`, `Destroy`, `Reclaim`; the deleter is `Notify` and `Notified`, run by
  whoever lets go last, because `Notification::notify()` may still be inside
  the mutex when the waiter gets through. A cell with a null object (`StartsNull`)
  has the deleter, too, but nobody waits for it (`HasObject`).
- **TaskRunners.** A request lives in a handler's frame: its task, its
  `Notification` and the flag that asks the algorithm to stop. `ScheduleTask`
  starts a detached thread (`trThread`); `wait()` is taken apart into the test
  without the mutex, the test with it, the sleep, and the deadline, and
  `notify()` into lock, store, broadcast, unlock. `LeaveFrame` is the
  destructor, which takes the mutex once.
- **Boarding.** `state[id]` is `ModelState::state`, or `ABSENT` if
  `ManagedStore` has no such entry; `streams` and `pos` are the vector and the
  iterator of `BoardingFunctor::handle()`. `once()` holds `mu`, so that `Update`
  needs `pc = "idle"`. The three passes are `Skip`/`Aspire`, `Decide` followed by
  the sorted actions (`BeginLoad` … `Publish`, one step between any two effects
  other threads can see), and `Flush`.
- **Startup.** `main` is where `config()` is; `automatic` the loading method.
  With it, two threads poll; otherwise the main thread runs each loop once.
  `Work` is any step of a round, and `Woken` is the monitor's `handle()` called
  by `EventBus`, under the mutex of `Wait`.
- **Prediction.** A handler finds a model (`Find`), works with its bundle
  (`Run`) and lets the handle go (`Return`). `ServeNew` and `Drained` are the two
  halves of `ServingStore::update()`: what `ReadWritePtr` promises is used in
  place of its steps.
- **ModelOperate.** `step[h]` is the statement a handler is at; `Collect`, `Push`
  and `Round` are the parts of `update()` that other handlers can come between.
  A round is one step, `Boarding`'s theorems being what it takes from it.
- **Batching.** A task is the client that waits for it, for it lives on that
  client's stack. `Take` and `GiveBack` are the two critical sections of
  `CompositeBatchProcessor::processBatch()`; `Notify` is the loop that tells each
  task. TensorFlow's scheduler is external: batches in a queue of which the last
  may grow. `expired` is the set of those whose deadline has passed.
- **HttpServer.** `ops` is `OperationTracker`'s counter. `live` requests are in
  the pool's queue, with a thread, or in a closure on the loop. Eigen's pool
  runs a closure on the scheduling thread when its queue is full: then `job` of
  the loop's thread is set and the loop stands still.
- **TfRuntime.** `plan` is the loaded model, `tfServed` whether the index has it,
  `tfQueue` a signature's tasks that no thread has, `tfBatch[t]` the batch a thread runs. `RunAlone` is the path
  without batching; `ScheduleTask` … `AwaitTask` the one with it. `TellTask` is
  one `notify()`, and `DestroyBatch` frees the tasks with the batch, possibly
  before `AwaitTask` reads their status: what it reads then is any status.
  `UnloadPlan` resets the bundle at any time, which destroys the session before
  the queues are drained (`DeleteQueues`), and `Withdraw` takes the model out of the
  index after that, as `ManagedStore` does. Who uses the model in between
  (`UseNoModel`, `RunOnNoModel`) ends the behaviour: that is finding 1, and undefined.
- **TfBatch.** A tensor is its length and its rows; a row remembers its task.
- **InstanceLoad.** `ldHeap` is what was allocated for which instance; each
  step of a plug-in's `create()` may fail, and what C++ destroys on the way out
  is part of the failing step.
- **InstanceIO, LiteBatch.** A buffer is a sequence of units that remember who
  wrote them; each plug-in has its own visitor operator, `Split` is common. In
  `LiteBatch` the interpreter keeps the shapes of the batch before.
- **ServerMain.** `smMain` is where `start()` is, `smRoles` the bases of the
  static `ServerCoreImpl` that exist; `Destroy` removes the last of them.
- **ModelConfigs.** `cfStore` is the map in memory and `cfFiles` the files;
  `LoadConfig` runs both helpers for a number of devices. `EditFile` is the
  owner of the directory, `CrashInSave` the truncation before the text.
- **FileTree.** A walk of `nftw()` visits the entries of a tree in any order that
  has a directory before (or, deleting, after) what is in it; one step an entry.
  `ftSrcRoot` and `ftDstRoot` are the static variables its callback reads.
- **RestApi.** A target is a sequence of tokens; `Readings` is every way to take
  it apart that the regular expressions allow. `raStatus` and `raRsp` follow the
  call through `PredictImpl`, `TaskOpImpl` or `GetModelMetaImpl` to `Reply`.
- **OptionalValue.** The flag of an `Optional` and the T in its storage are kept
  apart, as `construct()` sets the flag first: a constructor that throws leaves
  an Optional that says it holds a T, and the next use of it is undefined.
- **IntrusiveList.** `it` is the loop of `FOREACH` and its safe form; each
  operation is the assignments of the macro it calls, in their order.
- **CsvText, UriPath, NumberText.** A text is a sequence of characters; a
  capture or view is an interval of it. `CsvText`'s reader goes line by line as
  the code's loop does.
- **ModelCompiler.** `cmDir` is the model's directory by version name, with files
  that remember their job; a job has a step for each thing another process or a
  signal can come between, and `Kill` ends it anywhere.

## 3. Runs

| run | module, cfg | distinct states | it shows |
|---|---|---|---|
| `rwptr` | `MCReadWritePtr`, `ReadWritePtr.cfg` | 38 878 | `PinnedObjectAlive`, `OnlyNullIsLate`; `UpdateReturns`; `ImplementsRegister` with the register's fairness; for tasks, `RunnersExclusive` and `TimedTasksEnd` |
| `boarding` | `Boarding`, `Boarding.cfg` | 1 038 852 | `RoundSettles`, `ServingMatchesReady`, `FollowsLastStream`, `NoServingGap`, `QueueDrains` for any streams |
| `startup` | `Startup`, `Startup.cfg` | 83 152 | `ServedAtStart`, `StartupReturns`, whatever is in the directories and whichever versions are broken |
| `computations` | `MCComputations`, `Computations.cfg` | 900 289 | see below |
| `prediction` | `Prediction`, `Prediction.cfg` | 527 436 | `RequestsKeepReady`, `BestAvailable`, `BoardingGoesOn` |
| `batching` | `Batching`, `Batching.cfg` | 219 324 | `PoolIsExact`, `TasksAlive`, `TimeoutIsOwn`, `PredictReturns` |
| `http` | `HttpServer`, `HttpServer.cfg` | 22 475 | `OpsExact`, `OneOwner`, `WaitMeansDone`, `Answered`, `WaitReturns` |
| `prediction_bundle` | `Prediction`, `Prediction_bundle.cfg` | violated | finding 1 |
| `operate_race` | `ModelOperate`, `ModelOperate_race.cfg` | violated | finding 2 |
| `lite_entries` | `MCLiteBatch`, `LiteBatch_entries.cfg` | violated | finding 3 |
| `tf_batching` | `MCTfBatch`, `TfBatch_transparent.cfg` | violated | finding 4 |
| `rwptr_null` | `ReadWritePtr`, `ReadWritePtr_null.cfg` | violated | finding 5 |

`computations` checks, each in the behaviours of its own module:

- `SelectionIsExact`: `LatestIsNewest`, `SpecificServesNamed`; `IndexIsExact`:
  `EndsAreServed`, `SpecificIsExact`;
- `BatchesKeepRows`: `OwnResults`, `LiteOwnRows` (a request answered with success
  gets rows computed from its own, whatever was in the buffers before and
  whoever failed; for TensorFlow Lite that holds of a batch of one and of string
  inputs only, see finding 3), `RowsAreOwn`, `EqualTasksMerge` (TensorFlow's);
- `InstancesHold`: a failed creation leaks nothing, a model that is ready has
  all its instances, and a batch fits the buffers they were created with, with
  the exceptions that `BatchesFit` names (`max_batch_size` 0, and TopsInference
  with several inputs or outputs);
- `PlansAnswer`: `PlansAnswerWhole`, `TimeoutsAreOwn`, `TasksAreKept` of
  TensorFlow's runtime, with a model that is unloaded and loaded beside its requests;
- `TextExact`: `CsvRoundTrip`, `PathsKeepNames`, `NumbersExact`, each against a
  definition of what the text means that does not follow the code;
- `OrderlyMain`: options, ports, and who meets a destroyed role. Handlers never
  do; a round of a loop does only after `start()` returned in mode `automatic`;
- `ConfigsHold`: `NormalIsValid` and `PoliciesSurvive` of configurations;
- `CompiledHold`: `ChainIsShortest`, `VersionsAreNew` and one answer per job of the
  compiler;
- `RestAnswers`: the operation, name and version a target says, answers that fit
  the call, classes that are the best;
- `WalksAreExact`: copies and deletions that nobody disturbed are exact. What
  disturbs is named in `Spoils`: another copy, because of the static roots;
- `PolicyIsServed`, `AnswersAreTrue`: success is ready, failure leaves no trace and what
  a query tells is so, for one client of the operations on models;
- `ContainersHold`: the links, the counts and the loops of lists, the values and
  comparisons of `Optional`; the refinement `ListsAreSequences`.

### Findings

1. **A request may use a bundle that is gone** (`prediction_bundle`).
   `unloadBare()` resets the bundle *before* `ServingStore::update()` withdraws
   the model and waits for the requests that hold it. A request that found the
   model before dereferences a null or freed bundle, against the precondition
   written at `auto_model_handle.h:31`. `RequestsKeepReady` shows that this is
   confined to the two steps of the unload.
2. **Two concurrent operations may leave the wrong versions served**
   (`operate_race`). `update()` runs the storage and the boarding round with no
   lock around both: the older view of the disk may be pushed last.
3. **A batch of TensorFlow Lite loses all numeric inputs but one**
   (`lite_entries`). `FlatTfLiteTensorTools::Writer` counts what it has written
   but copies each request to the start of the tensor
   (`tensor_utilities.h:61`): with several requests in a batch, later ones
   overwrite earlier ones, the rest of the tensor is what was there before,
   and all are answered with success.
4. **TensorFlow batching is not transparent** (`tf_batching`).
   `MergedTensors::append()` refuses a tensor whose shape differs from the
   first one's, its number of rows included, and its callers drop the status:
   requests of one and of two rows in a batch both fail. Padding does not
   help: `PaddedTensor` fixes the output shape before it computes its padding,
   so that `pad_variable_length_inputs` changes nothing; padding to an allowed
   size fits only tasks of one row.
5. **A late reader of the first, null index notifies a destroyed Notification**
   (`rwptr_null`). `ServingStore::models` begins with `nullptr`, whose `readObj`
   has the deleter that notifies like any other; but `blockingRelease()` waits
   for the notification only if there is an object (`read_write_ptr.h:53`). A
   request that is in `find()` while the very first `update()` runs then locks a
   mutex in freed memory. If a later cell has been allocated there, its
   Notification is set too early, and the `update()` that waits for it may return
   an index that is being read; the model stops the thread at the lock instead.
   `OnlyNullIsLate` shows that the cell of the constructor is the only one to which
   this happens.

### Met on the way

What the models show or take into account without a run of its own; the ones
that are hazards are in `PROJECT.json` with their properties.

*Batching.* Leaving `dynamic_batching` out does not disable batching, though
`model_config.proto:126` says so: `optionsFromConfig()` looks at it for delay and
queue length only. `unique_batcher_model_wrapper.h:31` drops the status of
`createScheduler()`, so that a model with `max_batch_size` 0 is ready and refuses
everything; TensorFlow's `batching_session.cc:23` drops that of `append()`, so
that the first prediction dereferences a null queue (`tfCrashed`). A timeout of
0 or less means `INT_MAX` microseconds, about 35 minutes, and with less than
a millisecond left a batch runs with timeout 0, which is none.

*Plug-ins.* With `max_batch_size` 0, LibTorch, PaddlePaddle and TopsInference
have buffers of no bytes, though `trt_instance.cc:351` means requests of size 1
to work. PaddlePaddle's visitor never copies an input but the first, and
`paddle_model.cc:124` compares elements with bytes. LibTorch keeps the inputs
of a batch whose `forward()` threw, after which the instance fails for good.
LibTorch and TVM ignore what `NormalizeModelConfig()` answers, TensorRT and TVM
do not call `ValidateModelConfig()`, TensorFlow Lite creates from the
configuration that was not normalised. The move constructor of TopsInference's
`Buffer` leaves its size uninitialised. A malformed request shifts or
overwrites the rows of its neighbours in four plug-ins.

*Operations and files.* `deleteModel()` erases managed models without the mutex
of the boarding loop (`managed_store.cc:83`). `updatePolicy()` of an unknown name
dereferences `end()`. A save that is cut leaves an empty `config.pbtxt`. `copyDir()` keeps its roots in static
variables and drops `nftw()`'s result; a version directory can be seen by the
storage loop before its copy is whole. `isNormal()` counts old failed
versions, so that one of them makes every later operation fail. A group of
`KIND_AUTO` that lists an absent GPU becomes `KIND_CPU` with its list, and is
refused.

*Start, end and requests.* When one server fails to start, the static
object's roles are destroyed under the polling threads; the HTTP server's
destructor frees the loop while a thread runs it (`server_interface.cc:105`).
If no version of an awaited name loads, start-up waits for good. A version number above the
range of `int` is answered by another version (`model_request.cc:41`). A
query or fragment makes every route fail, `/METADATA` is matched by the
expression and missed by the comparison after it, `ml_predict` ignores the name
and version of its target, and the failure of a task is always a 500.
`getIntervalMs()` overflows `int` from 2148 s on (`model_options.cc:25`); a channel
argument without `=` is read past its parts (`grpc_options.cc:21`).

*Library.* `skip_initial_space` adds an empty field per space (`csv_reader.cc:77`);
the writer doubles quotes even where the dialect does not; a `\r` before `\n` is
lost. `join("a/", "c")` is `a//c`.

*Compiler.* `config.pbtxt`, which is for all versions, is rewritten before the new
version is saved, so that a failed save leaves it with the old versions.
`saved_model_file_to_saved_model.py:28` splits the literal `INPUT_FORMATS`, not
the variable's value. An explicit version over an existing one merges files of
two jobs for some targets. Two compilers at once may choose one
number: the model's jobs run one after the other. A killed job's half
version is a directory like any other to the storage loop.

## 4. Bounds

| constant | value | why it is enough |
|---|---|---|
| `Readers`, `Writers`, `MaxUpdates` | 2, 2, 3 | two writers may release different cells at once; a reader may be two cells behind; proved for all values |
| `StartsNull` | TRUE | `ServingStore::models`, the program's only pointer, is constructed null; the theorems hold for both values |
| `TrRequests`, `TrGroups` | 2, {⟨⟩, ⟨1⟩, ⟨1,1⟩} | fewer runners than requests, as many, and the default of one; groups are added up; exclusion proved for all values |
| `Names`, `Versions`, `MaxStreams` (`Boarding`) | 2, 2, 3 | a transition needs two versions; a stream that waits, one behind it for the same model and one of another model fit in the queue; proved for all values |
| the same in `Startup` | 2, 2, 2 | a stream per name is what a storage round brings; proved for all values |
| the same in `Prediction`, `Requests` | 1, 3, 1, 2 | a version above and one below the one in transition; an old and a new reader; proved for all values |
| `MaxVersion`, `Handlers`, `Ops` | 2, 1, all five | three numbers: kept, added, deleted; one handler because two of them are finding 2; proved for all versions and operations |
| `Optionals`, `Values` | 3, 2 | two that take part in an operation and one that must not notice; two values have an order; proved for all values |
| `Lists`, `Elems`, `SizeModulus` | 2, 3, 3 | splicing and moving needs two lists; first, middle and last; the count of a full list wraps, one too many differs from one too few; proved for all values |
| `Clients`, `BatchThreads`, `Processors`, `MaxBatchSize`, `MaxSize`, `MaxEnqueued` | 3, 2, 2, 2, 3, 1 | a batch of two beside one of one; a request that does not fit a batch; a full queue; proved for all values |
| `Clients`, `NumThreads`, `QueueLimit` (`HttpServer`) | 3, 1, 1 | `NumThreads` 1 becomes 2: one loop, one worker; with one request in work and one queued the third runs on the loop; proved for all values |
| `Modulus` | 8 | ints of three bits: 9 wraps to 1, 7 is negative |
| `Directories`, `MaxNum`, `NamedVersions` | 5, 4, 4 | two spellings of one number, one that turns negative, more to keep than there are; proved for all values |
| `Names`, `Versions` of `ServingIndex` | 3, 3 | first, middle and last of a sorted map, so that neighbours compare across names on both sides; proved for all values |
| `RowUnits`, `MaxBatchSize`, `MaxRows`, `Sizes`, `MaxTasks` | 2, 3, 2, {1,2,4}, 2 | too little, right for one row, right for two rows; a full buffer and one with room; proved for all values |
| `LdConfigs`, `LdPlans`, `LdMaxRows` | batch 0 to 2, 3 groupings, 6 tensor lists | several inputs, a name twice, a type or size the engine has not, no output; an engine with another batch size than the configuration; proved for all values |
| `LiteModels`, `LiteRequests`, `LiteMaxBatch` | see `MCLiteBatch`, 3 | one and two rows, strings and numbers, wrong types, names and shapes, a batch that is full; proved for all values |
| `MaxBatch`, `Shapes`, `AllowedSizes` | 4, 2×2, {⟨⟩, ⟨2,4⟩} | up to four tasks; padding by nothing and by one row; proved for all values |
| `TfClients`, `TfThreads`, `TfModels`, `TfCalls` | 2, 1, 3, 5 | two tasks of one batch or of two; batch size 2 and 0, and no batching; every kind of call: all outputs, one, a broken tensor, another signature, one that is not for predictions; proved for all values |
| `TfMaxNow`, `TfMillis`, `TfForever` | 1, 1, 9 | before and after the deadline; less than a millisecond left |
| `CsvRows`, `CsvDialects`, `CsvMaxRows` | 7 dialects, 1 row and a header | every field of up to two of six characters that mean something, alone and beside others, and some of three |
| `Pieces`, `MaxPieces`; `NumTexts`, `NumModulus` | 25, 3; up to 4 of 8 characters, 16 | every place of a slash, dot and colon; numbers below, at and above the ends of ints of four bits |
| `CliArgs`, `CliMaxArgs` | 8, 3 | an option twice, a bad value, an unknown name, both servers, in any order; proved for all values |
| `CfConfigs`, `CfDevices` | 12, {-1,0,1,2} | every kind of group with no, existing and missing GPUs; -1 where the count fails; proved for all values |
| `FtUsers`, `FtSources`, `FtVersions` | 2, 2, 2 | a tree with a directory in it and an empty one; proved for all values |
| `RaUris`, `RaBodies`, `RaModels` | 219, 9, 4 | every combination of name, version and tail in two spellings, names that look like keywords included; proved for all values |
| `CmJobs`, `CmInitial` | 2 jobs, 3 directories | the first: every source with every target; the second meets what the first, or its death, has left; proved for all values |

`MaxStreams` guards `Update`, `MaxUpdates` guards `Swap`, `MaxVersion` guards
`StartOp`, `MaxTasks` and `MaxRows` guard `Join`,
`TfMaxNow` guards `Tick`, `CsvMaxRows` guards `WriteRow`, `MaxPieces` guards
`JoinPath`, the length of `CmJobs` guards `Begin`, the domain of `CmText` guards
`ChooseVersion`, and two numbers of versions
guard `ChooseTarget`; nothing else cuts a behaviour short.

Deadlock is checked except where the system may stop: in `Startup` (in manual
mode nothing polls, and the main thread may be in the wait for good),
in `MCLiteBatch` and `MCTfBatch` (a computation ends), in `ReadWritePtr_null` (a reader
that is to notify a destroyed Notification goes no further) and in `HttpServer` (the
process is over). `MCComputations` names the modules that come to
an end (`Finite`) and lets them stutter, so that deadlock is checked of the others:
the operations on models, the lists and `Optional`.

## 5. Fairness

- `ReadWritePtr`: weak, for each thread's steps; readers let go in the end, as
  requests end.
- `TaskRunners`: weak, for each request's and each task's thread; strong for the
  deadline `TimesOut`, as a wake-up without a reason takes the waiter out of the
  state in which the deadline can pass. The code computes a new deadline on each
  wait (`condition_variable.cc:40`), so this supposes that such wake-ups do not keep
  coming more often than the timeout; `TimedTasksEnd` needs no more of them. No
  algorithm is supposed to end by itself: only to look at its flag.
- `Boarding`: weak, for the boarding thread; loading a model comes to an end.
  `QueueDrains` also supposes that streams cease.
- `Startup`: weak, for each thread; strong for the storage thread's `Offer`,
  which needs the mutex of `BoardingLoop`: the boarding thread sleeps between two
  rounds, so that it cannot keep the mutex from it for ever.
- `Prediction`: weak, for the boarding thread, and for the end of a request;
  clients need not stop sending.
- `Batching`: weak, for each thread of the scheduler and for a client that was
  notified; none for time or for new requests.
- `HttpServer`: weak, for the pool's threads and the main thread; strong for the
  events of the loop, since libevent runs every event that is due before it
  polls again, whatever handlers do in between.

## 6. Proofs

All theorems hold for every value of the constants that the named assumptions
admit (`ASSUME` in the modules; TLC evaluates them in the runs).

**`ReadWritePtr_proofs`** (`TypeCorrect`, `PinnedObjectSafe`, `NotificationSafe`,
`NotificationSafeWithObject`, `RegisterSafety`). `IInv` adds to the types: nothing is
known of an unpublished cell; writers release different cells; the deleter of a cell
runs once, in one thread, when no reference is left; a cell that has an object is torn
down only after its notification was set and its notifier has left, one that has none
only when no thread is inside `notify()`. From that, only readers of the null object are
late (`NotificationSafe`), and nobody is if there is none. Neither safety property is
inductive: that an object is not reclaimed under a reader needs the chain from
reference counts over the deleter to the notification. `RegisterSafety` maps
each step to a step of `SnapshotRegister` or to a stutter.

Its second part is `TaskRunners`, the other user of `Notification`
(`TasksTypeCorrect`, `OneThreadPerRunner`). `RunnersExclusive`
speaks of threads, but what the code keeps exclusive is the request's claim on
a runner, and the request lives longer than its thread in one order of steps and
shorter in another. `TrInv` joins the two: a thread sets the `Notification` last,
a request goes on only when it was set (`NotifiedLast`), and until then has a
runner that nobody else has (`OwnRunners`). That a thread never outlives the frame
is the destructor's look at the mutex, in the step for `LeaveFrame`.

**`Batching_proofs`** (`TypeCorrect`, `PoolAlwaysExact`,
`NoDanglingTask`, `TimeoutsAreDeserved`). The pool suffices by counting: each
processor is in the pool or with one thread, a thread about to take one has
none, and by `ThreadsMatchInstances` there are as many threads as processors, so
an empty pool would put all processors injectively into one thread too few. The
assumption is what `UniqueBatcherModelWrapper::options()` sets up. `TaskInv` says
where a task can be, without counting; `TasksAlive` then follows by cardinality.

**`HttpServer_proofs`** (`TypeCorrect`, `CounterIsExact`, `WaitIsEnough`,
`RequestHasOneOwner`). `Inv` is the types, the places of a request, the exact
counter, the order of `start()` and `wait()`, and `WaitMeansDone` itself; that
`ops` never goes below zero is a part of `TypeCorrect` and needs the counter.

**`Serving_proofs`** has two parts. The first is `Boarding`
(`TypeCorrect`, `EveryRoundSettles`, `IndexMatchesReady`,
`LastStreamDecides`, `TransitionsAreGapless`). `IInv` says for each phase of a
round which actions are still due, which model is in flight, how far the index
lags behind the ready models, that unloads start after the last load, and that
the aspired versions are those of the last stream applied. The action property
`NoServingGap` follows from it at `Serve`, the only step that changes the index.

The second part is `Startup` and `Prediction` (`PredictionIsBoarding`,
`HandlesKeepReady`, `BestIsFound`; `StartupIsBoarding`, `StartupLeavesNothingOut`, `OpensWhenServed`). `Startup` and
`Prediction` extend `Boarding`, so both proofs begin by showing that each of their
steps is one of `Boarding`'s or leaves its variables: `IInv` then holds with them.
`PInv` adds the handles: one that was taken before the last `Serve` is in the set
that `update()` waits for, every other one is to a model of the published index.
That is what makes `RequestsKeepReady` inductive: an unload resets a bundle while
old handles may still be there, and only the wait brings the next phase.
`BestAvailable` is an action property: a lookup sees all that is ready except in
the one step in which the thread has a new model in hand. It supposes that
`Versions` is finite, for there is no newest one otherwise. `SInv` adds that while
the directories stay every managed version is wanted, and that the monitor's
last event of a model is about what has been published. The model leaves out
nothing by this: `StartupLeavesNothingOut` shows that streams never wait and no
unload comes up during start-up.

**`ModelOperate_proofs`** (`OneHandlerTypeCorrect`, `OneHandlerServesPolicy`,
`OneHandlerAnswersTruly`) supposes that there is one handler: with two, `operate_race` (finding 2) violates `PolicyIsServed`. `OInv`
says where an operation is with its work: what it found when it began (`before`),
what it has to put back (`undo`), that the stream on its way is the fresh one, and
that outside of `update()` what is managed is what policy and directories say
(`Settled`). The third theorem needs all of it, as failures are told several steps
after what they undo.

**`Containers_proofs`** (`ContainersAreRight`, `RingsAreSequences`,
`ListsImplementSequences`, `OptionalsKeepValues`). The heart of the part on lists is
`Represents(r, L, t)`: the pointers `r` lead from each head along its sequence in `L`
and back, no element is in two places, and the loose elements `t` are chained with
one another. Two lemmas carry everything: cutting a stretch out of a list leaves
the rest linked and the stretch loose (`CutKeeps`), and linking a loose chain in
before a node puts it into the sequence there (`JoinKeeps`); every operation, moving
and `unsplice()` included, is one or both of them, and `SpliceAfter` is `SpliceBefore`
of the next node (`AfterIsBefore`). That walking along the pointers reads off the
sequence (`WalkIs`), and that `clear()` leaves an empty ring (`ClearKeeps`), are
inductions over the steps of a recursive function (`NatSetInduction`, from the
library's theorem on least elements). `ListInv` adds the counts modulo `SizeModulus`
and where a loop is: it has visited `m` elements, and what it began with after
the element it is at is still the end of the list in its direction (`Ahead`).
`LoopVisitsAll` is not inductive without that: the loop follows pointers that
erasing has changed. The theorems suppose that there are finitely many nodes, that
a head is no element (it is a pretended one, the sentinel of `apr_ring.h`) and
that the modulus is not zero.

`OptionalsKeepValues` is `OptionalsHold`, the conjunct of
`ContainersHold` about `OptionalValue`, by itself. `OptInv` is
stronger in that an Optional is one of four boxes (not there, empty, full with
what it was given, or flagged without a T), and that one of the last kind is
in `thrown`; the members of `Optional` are then shown once to lead from box to
box (`MembersKeep`, `CopiesKeep`), and the comparisons to depend on no more
(`ComparisonsAgree`). It supposes that values are integers, for `operator<`.

**`Computations_proofs`** has nine parts.
`IndexServesExactly`: `IndexInv` is that the index is the one of the served models
and that these are finitely many. The work is in the lemmas on `Sorted`: a
model has as many before it as its rank says (`RankGrows`), so ranks are the positions
1 to n, one for each model (`SortedIsOrdered`), and a place where neighbours
have different names is an end of a name (`BoundariesAreEnds`).
`MainIsOrderly`: `MainInv` says which arguments are parsed, that what runs was started
by the options, and that the roles that stand are the first ones of the base
list, so that the next one to go is on top of what others stand on.
`PlansAlwaysAnswer`: none of the three parts of `PlansAnswer` is inductive. `TfInv`
adds that a request's names are those of aliases that a loaded model defined
(`Asks`, for every order of protobuf's maps), that its outputs are none or its own
and complete, and that a task that was not told is in exactly one place, an
open batch or the untold part of a closed one (`QueuedOnce`, `TakenOnce`, `Kept`), with
its client waiting. The last gives `TasksAreKept`, and that `TellTask` never
tells a task twice. Models are loaded and unloaded at any time: a step that uses one
which has gone ends the behaviour and changes no request, so nothing is claimed of what
comes after it, and an unload empties no queue that has a task in it, for the scheduler
drains it. That garbage read from a destroyed batch is never answered OK
without its tensors is the comparison of lengths in `verifyOutputSize()`. It
supposes finite maps (`TfMapsAreFinite`).
`InstancesAreRight`: `LdInv` is that the k-th instance is at the k-th place
(`Slotted`), that its k-th buffer is the k-th tensor's with the room of a batch
(`BuffersRight`), or on TopsInference has forgotten how much (`Forgets`), and
that a TensorRT instance that is complete has a buffer for every binding
(`Bound`). The places are a concatenation of concatenations: that
`FlattenSeq`, a function chosen by its own recursive equation, gives a
sequence is an induction over its length (`FlattenedIs`, `FlattenIsSeq`). It supposes
what `LdModelsAreTyped` says: sizes are not negative and do not overflow, and
an engine has no two tensors of one name; `TensorRtAccepts` compares each tensor
with the binding of its name.
`WalksEndExactly`: that an undisturbed call ends exactly is not inductive, as
nothing says what was there on the way. `FtInv` adds that a call which goes on
undisturbed shares neither its directory nor, if it copies, the static roots
with another (`Apart`), that the static destination is the one of a copy that
goes on (`DstIsHeld`), and how far a call is: all that was copied is as in the
source, and what is not there yet is still to be visited, or its directory is not
there either (`Copied`); a deletion has still to visit what is still there. When
nothing is left to visit, a shortest path that is missing would have its directory,
so none is. It supposes that a source is a directory tree, or not there
(`FtSourcesAreTrees`).
`SelectionsAreExact`: `SelectInv` is that the list is in order, holds the versions that
were found, each once if no two directories spell it, and what the policy takes of
it. `add()` sorts: a permutation that does exists, as the new number has a place
behind those that are not greater (`NewNumberHasPlace`, `NewNumberSorts`), so a list
stays one (`AddInserts`). The newest are then the end of the list
(`NewestAreLast`), and `specific()`, a fold, is an induction over its length
(`LookedIs`, `SpecificFindsNamed`).
`RequestsAreAnsweredRight`: `RaInv` adds that what arrived is one of the requests,
that nothing has a response before its operation ends, and that what is written
was done by a model that can run. A target has one way to be read with a name
(`OneName`), and a name or version that ends it is no operation (`NotTheEnd`),
so the expressions, which overlap, find what it says (`SaysWhatItReads`). An
order of the scores of a row is one-to-one, hence onto, so a class beyond its first
places stands behind them and is no better (`TopIsBest`). It supposes that `say` is what
the grammar of targets, `RaSays`, makes of a URI (`RaUrisSay`), and that digits are
neither a slash nor `metadata` (`RaTokensAreWords`).
`ConfigurationsHold`: `CfInv` adds that what is stored, or can be read of a file, has the fields
of a configuration (`IsConfig`). Normalising is then idempotent field by field
(`BatchingIs`, `GroupIs`), and what validation says of the result is what `Sane` says of the
file (`NormalIs`), whatever the number of devices. It supposes that the configurations have
these fields (`CfConfigsAreTyped`).
`CompilerIsRight`: a chain is shortest because the queue of the search is in order of the
lengths of its chains, of which there are two at most, because all that can be made with
fewer compilers is done with, and because what was visited last needs as many as its chain
has (`QueueIsOrdered`, `ShorterIsDone`); taking from the queue and adding to it keep that
(`SearchPops`, `SearchGrows`). When nothing waits, what was visited is closed under the
compilers, and what can be made at all, a recursive function, is inside (`SearchEnds`, an
induction). `StoreInv` follows a job's files step by step: that nothing which was there is
touched is not inductive without the version being free between its choice and its
directory (`VersionIsFree`), which is that the next version exceeds every number in a
finite directory (`NextVersionIsNew`), and without what the directory holds
then (`DirIsOwn`). It supposes that `int()` undoes `str()` (`CmNumbersAreExact`), that a job has one
version at most and that directories are finite (`CmJobsAreTyped`).

**`Batches_proofs`** (`BatchesAlwaysKeepRows`). The rows of a task are where
`RowsBefore` says, behind those of the tasks before it. In each module a batch is a fold over its tasks, and a fold is a
function that its own recursive equation defines, so it is first shown to exist and to
take one task after the other (`FoldExists` and what follows it); what it
returns is then an induction over the tasks. In `InstanceIO` one lemma says the
same of a visit by each of the six plug-ins (`VisitIsRight`): with a well-formed batch it
copies an input that the model has to behind the tasks before it and changes nothing
else, so what was written for a task stays. `IOInv` adds no more to the property than
types, and that the rows of a batch do not exceed `MaxBatchSize`. In `LiteBatch` the
property is not inductive without `LiteInv`: an interpreter that is usable has, in every
input, the rows of the last size it was made for. In `TfBatch` merging concatenates
the tensors that fit the first one; these have, with the padding, as many rows as the
sizes to split add up to only if every tensor was taken, and otherwise nobody is told OK:
so a part is a task's own, though `append()` drops tensors in silence.
It supposes that a model's inputs are a list (`ModelsAreLists`), that sizes and rows are
natural numbers (`IOBounds`, `LiteRowsAreNumbers`, `ShapesArePositive`), and that the
allowed sizes increase (`AllowedIncrease`).

**Only model-checked**: what follows, with the reason.

- Liveness and fairness (`UpdateReturns`, `TimedTasksEnd`, `QueueDrains`,
  `StartupReturns`, `BoardingGoesOn`, `PredictReturns`, `Answered`, `WaitReturns`, and the
  fairness in `ImplementsRegister`): out of the prover's reach.
- `TextExact`: its parsers are automata and loops over characters, and what each of them
  returns for every text needs an induction of its own.

## 7. Plan

What is left, in order of weight:

1. Composition: `ModelOperate` on top of `Boarding`'s abstract round, and
   `Prediction` with `SnapshotRegister` instead of its history variable.
2. `TextExact`, character by character: what the loops of `CsvText`, `UriPath` and
   `NumberText` have read after n characters, for every n.

New pure computations join `MCComputations`; new concurrent parts extend the run
of the component they belong to.

## 8. Not modelled

- The gRPC services: each makes one call and converts a status; threads and
  the life of calls are gRPC's. Starting and ending the server is in `ServerMain`.
- The registry of runtimes, filled before `main()`; the sample runtime, and the
  wrapper of shared batchers that only it uses.
- The compilers of `model_compiler` (one tool call each: in `ModelCompiler` a step
  that succeeds or raises) and jobs that run at the same time in one directory.
- Engines, schedulers, libevent, Eigen's pool, `nftw()`: external, modelled by
  how the code uses them. Protobuf's JSON conversion succeeds or fails.
- What follows undefined behaviour (a freed bundle, a freed event loop, a race on
  a container): the models end there, or state the exclusion that is missing.
- The unload of a model while its own batches are queued in `Batching`: the
  destruction of scheduler and model has no defined outcome; it is a hazard
  without a property.
- Language support in `cub` (`base` but for `Optional`, `dci`, `gof`, `log`, time, dynamic libraries).
- Formats, logs, metrics, file contents; clients, benchmark, scripts, images.

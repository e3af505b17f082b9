# TLA+ models of TorchCraftAI: queues, RPC, training, blackboard and building

This directory holds TLA+ specifications of the parts of this repository whose
correctness depends on interleavings, retries or long sequences of calls, the
TLC configurations that check them on small instances, and TLAPS proofs of the
main safety properties for every value of the constants. Paths below are
relative to the repository's root (`src/` there holds the bot, `cpid/` the
training library, `common/` shared utilities). `PROJECT.json` maps every definition
to the lines it models and lists components, runs, findings, hazards and theorems.

## The system

* **common/parallel.h** - `BufferedConsumer` and `BufferedProducer`, bounded queues
  with worker threads; used by the data readers, the trainers and the RPC classes.
* **cpid/prioritymutex.h** - a mutex with priorities, used by `AsyncBatcher` and
  `SyncTrainer`.
* **cpid/reqrepserver.cpp** - request/reply over ZeroMQ with time-outs and retries.
* **cpid/zmqbufferedconsumer.h, cpid/zmqbufferedproducer.h** - a distributed queue
  built from the three above: the consumer serialises items and sends them as
  requests, the producer confirms or denies them and hands them to `get()`.
* **cpid/batcher.cpp** - `AsyncBatcher`: threads hand in queries, one thread runs the
  model on batches of them and answers.
* **cpid/trainer.cpp, cpid/synctrainer.cpp** - the life of an episode, and `SyncTrainer`,
  which keeps the frames of running episodes in buffers and trains on the full ones.
* **cpid/** other trainers, `Cpid2kWorker`, blob publication - training on top.
* **src/blackboard.cpp, src/task.cpp, src/controller.cpp, src/modules/** - the bot.
  In every frame `State::update` ends in `Blackboard::update`; then the modules step
  one after another. They post UPCs (unit/position/command proposals), consume those
  of others, and keep Tasks on the board, each of which occupies units. Three modules
  turn an item of a build order into a building: `AutoBuildTask` posts a request,
  `BuildingPlacer` reserves tiles and posts a build, `Builder` runs a controller that
  binds a worker and watches it through a tracker.
* **src/** state tracking, build-order planning, combat heuristics, fork server,
  visualisation; **visdom/** a plotting client.

## Modules

| module | models | state and actions |
|---|---|---|
| `Mutex` | what a mutex promises | who is inside |
| `PriorityMutex` | `priority_mutex` | `queueCount_`, the owner of `dataMutex_`, a place per thread; one action per access to a mutex or the condition variable |
| `BufferedConsumer` | `BufferedConsumer<T>` | `queue_`, `stop_`, `consuming_`; one action per critical section, one per notification outside of it |
| `BufferedProducer` | `BufferedProducer<T>` | `queue_`, `stop_`, `working_`, `running_`, including the assignment of `running_` after the threads have started |
| `AtLeastOnce` | what the RPC promises | a future per request, the answers servers gave; used by two modules |
| `ReqRep` | `ReqRepClient::run` and the server's worker | `queue_`, `requests`, `resendQueue`, endpoints, the network as sets of messages; one action per lambda of `run()` |
| `ZmqBufferedProducer` | `ZeroMQBufferedProducer<T>` | extends `BufferedProducer`, whose `fn` becomes `produce()`; adds the request handler and `stop()` |
| `ZmqBufferedConsumer` | `ZeroMQBufferedConsumer<T>` | `pending_` and the scanning sender, composed with `AtLeastOnce` |
| `Blackboard` | `Blackboard`, `UpcStorage`, five kinds of task | tables of the board, task objects, shared controller; one action per call or handler of a module, `update()` split at its loop |
| `AsyncBatcher` | `AsyncBatcher`, `SubBatchAsyncBatcher`, `setModel`/`lockModel` | `queries_`, `replies_`, the consuming thread and the owner; queries are sequences of rows |
| `SyncTrainer` | `SyncTrainer`, `EpisodeHandle`, the training loop | buffers, owners, `readyToUpdate_`, a place per game thread; one action per section under `stepMutex_`, `update()` in four steps |
| `Building` | `AutoBuildTask`, `BuildingPlacerModule`, the build tasks they proxy | requests, placer and build tasks, reserved tiles; a frame is `update()`, AutoBuild, the placer's two loops, Builder |
| `Builder` | `BuilderModule`, `WorkerBuilderController`, `ControllerTask`, trackers | tasks, controllers with `builder_`, `detector_`, `units_`, `movedUnits_` and a tracker; a controller's step is Check, Release, Find, Act |
| `MC*` | - | definitions for TLC's instances: symmetry, endpoint lists, sizes of the thread pool |
| `ReqRep_proof`, `AsyncBatcher_proof`, `Blackboard_proof`, `Building_proof`, `Builder_proof` | - | the theorems of the module they are named after |
| `SyncTrainer_proof` | - | the theorems of `SyncTrainer` and of the `PriorityMutex` it locks |
| `Consumer_proof` | - | the theorems of `BufferedConsumer` and `ZmqBufferedConsumer` |
| `BufferedProducer_proof` | - | the theorems of `BufferedProducer` and `ZmqBufferedProducer` |

Two compositions follow the code: `ZmqBufferedProducer` runs on the real
`BufferedProducer`, and `ZmqBufferedConsumer` runs on `AtLeastOnce`, which `ReqRep`
is shown to implement. `AsyncBatcher` and `SyncTrainer` use the priority mutex as the
plain mutex that `PriorityMutex` is shown to implement. `Building` leaves the workers to
`Builder`: there a build task starts, succeeds or fails at any update.

### Abstractions

* *Condition variables.* A blocked thread wakes by a notification or spuriously, then
  tests its predicate again under the mutex. Where all accesses to the predicate's data
  are under the mutex, test and block are one step; where they are not
  (`ZeroMQBufferedProducer::stop_`) they are two.
* *ReqRep.* Time is abstracted: any outstanding request may expire at any visit of the
  loop. A transmission's random id becomes (request, number of retries). The network
  may lose, delay, duplicate by retry and reorder. `resendQueue` is a set, since its
  order is not observable in the properties. A poll always returns, as its time-out does.
* *ZmqBufferedConsumer.* Messages are opaque; serialisation and back-off delays are left
  out. Denied items are sent again only while the list is full, as in the code.
* *Blackboard.* `tasks_`, `tasksById_` and `tasksByModule_` are one set;
  `tasksToBeRemoved_` is a set (a repeated entry is only warned about). UPC contents, the
  key/value map, command counters, timers and `lastTaskStatus_` are left out; a filtered
  UPC is one that is not posted. Module calls of one frame may come in any order, which
  covers every order of modules. Modules assign live units and name active UPCs as
  sources. `TacticsModule` does not run in two consecutive frames (its interval is three
  by default), so a cancelled task is gone when it assigns units again.
  A `MicroTask`, whose status is `Unknown` until the first update of its module in the
  same step, is posted as `Ongoing`.
* *AsyncBatcher.* A tensor is a sequence of rows and the model answers row by row, so
  that batching and unbatching are the real splits and concatenations. The dictionary and
  vector cases of `ag::Variant` repeat the tensor case and are left out, as are callers'
  priorities. `shouldStop_` is stored without the mutex, so the thread's test and its block
  are two steps.
* *SyncTrainer.* A frame keeps what the properties tell apart: whether it is the first of
  its episode, the last, and computed by the current model. A section under `stepMutex_`
  is one step, but `update()` is split into selecting, training (which may throw),
  cleaning up and notifying, with a mark that keeps the others out where the code holds the lock. The
  driver is `trainLoop` of scripts/bo-switch/train.cpp: updates, a stop flag, `reset()`, join.
* *Building.* All items are of one type, so an item is its site or "any site". What the
  build order wants and where a building fits are nondeterministic; the reservation of a
  footprint and of the addon's tiles, with the exception the second may throw, is not.
* *Builder.* Distances, resources and the map are nondeterministic choices. Trackers keep
  their statuses and time-outs. Other modules may cancel builds and take or free units.
* *BufferedConsumer.* Calls in flight when the destructor ends are undefined behaviour in
  C++; the model lets them finish.

## Runs

| run | instance | checks |
|---|---|---|
| `prio` | 3 threads, 3 priorities | `NoLostWakeup`, `OvertakenOnce`, `Progress`, `ImplementsMutex` (refinement of `Mutex`) |
| `consumer` | 2 consumers or none, 2 callers, queue 2, 3 items | `ExactlyOnce`, `BoundedFifo`, `WaitMeansDone`, `EveryItemHandled`, `EveryCallReturns`, `DestructorReturns` |
| `producer` | 3 producers, 2 getters, queue 2, 4 items | `ExactlyOnce`, `EndIsFinal`, `GetReturns` |
| `reqrep` | 2 requests, 2 reply values, limit 1, 1 retry, 2 endpoint lists | `AllResent`, `ImplementsAtLeastOnce` (refinement of `AtLeastOnce`), `EveryFutureReady` |
| `zmq_producer` | 2 threads, 1 getter, queues of 2, 5 messages | `ZTypeOK`, `ConfirmedKept`, `ConfirmedDelivered` |
| `zmq_consumer` | limit 2, 3 items, 3 requests | `NoItemLost`, `RequestsBounded`, `StopReleasesSender` |
| `board` | 2 units, 3 UPCs, all task kinds | `AncestorsActive`, `MappedToHolder`, `ControlledByTask`, `ProxyUpToDate`, `CancelFreesUnits`, `AutoRemoved` |
| `synctrainer` | 2 games, 2 buffers, 2 frames per return, batches of 1, 2 updates | `NoInternalError`, `EpisodesSeparated`, `OnPolicyFrames`, `WaitersNotified` |
| `batcher` | 3 callers with 1, 2 and 1 rows, batches of 2 | `OwnAnswer`, `CallReturns`, `StopReturns` |
| `building` | 2 sites, one with an addon on the other, 4 UPCs, 2 items | `ReservationsExact`, `OneBuildPerRequest`, `LiveBuildReserved` |
| `builder` | 2 workers, 1 detector, 1 build, 4 UPCs | `CancelledBuildEnds`, `CommandsOwnUnits` |
| `building_cancel` | as `building` | `BuildsTracked`, violated: the finding below |

In a sentence each: the mutex loses no wake-up and overtakes once; the queues lose and
repeat nothing, and their calls return; a request is resent until it is answered or given
up; an item that was confirmed is delivered and one that was not is sent again; after an
update of the board, tasks and units agree with each other and a cancelled task gives up
its units; the trainer never trains across two unfinished episodes nor, on policy, on
frames of an earlier model; every query gets its own rows back; tiles are
reserved exactly while a request needs them; a cancelled build ends, and a controller
commands only units that are its own.

Deadlock is checked except in the four newest models, where the program may really stop:
the game threads of `SyncTrainer` have exited (or one that entered after `reset()` waits,
see below), a batcher stays stopped, and the behaviours of `Building` and `Builder` end
when the UPC ids of the instance are used up.

Type invariants are part of the inductive invariants that are proved; in the modules
without proofs they serve as documentation, except `ZTypeOK`, which also says
that the two queues together accept twice the queue size and no more.

### Bounds

The bounds are the smallest at which the interesting cases occur: a queue that is full
while a thread is blocked and another is at work; three priorities, so that a thread is
both overtaken and overtaking; one retry, so that a late reply meets the retransmission
and the last retry fails; a chain of three UPCs, so that an ancestor of an ancestor can
be pruned too early and a proxy can follow a proxy; two units, so that a task loses one
and keeps the other; two updates and three frames in a buffer, so that an episode inherits a
buffer that was trained on; queries of different sizes that do not fit one batch; a request that is
placed, fails, is retried elsewhere and is cancelled in between; a worker that dies and is
replaced. Every bound is a named constant (`MaxItems`, `MaxSends`, `Source`, `MaxUpc`,
`MaxRetries`, `MaxConcurrent`, `MaxQueueSize`, `MaxUpdates`, `MaxFrames`, `MaxWanted`,
`MaxBuilds`). `board`, `synctrainer` and `builder` check safety only and use the symmetry of
units and games; the runs that check liveness, for which symmetry is not sound, use none. The safety
properties were also explored once on larger instances without a violation: the board with
one unit and four UPCs (10.7 million states), the priority mutex with four threads, the ZeroMQ
producer with two getters and six messages, the ZeroMQ consumer with four requests,
and `building` with five UPCs (4.5 million states). The two invariants of the `builder` proof
were checked on an instance of 11.3 million states before they were proved. In the run
`TrackerTimeout` is 1: a tracker may then give up earlier than the code's would, which only adds
behaviours.

`producer` has at least as many items as queue slots. Then no producer can be finished before
the constructor is (nobody can call `get()` yet, so the queue fills first), and `get()` always
returns. With fewer items it need not (see the observations).

### Fairness

* Threads: weak fairness for each thread's steps, since the operating system runs every
  thread that can run. Spurious wake-ups, calls of the API and the beginning of a
  destructor are not fair.
* `ZFairSpec` also assumes that users keep calling `get()`.
* `AsyncBatcher`: taking the mutex to push a query and taking the model to run a batch are
  strongly fair, since other threads take and release them in between and a priority mutex
  passes a waiter over boundedly often (`OvertakenOnce`). The trainer releases the model.
  Nobody has to call, stop, start or lock.
* `ReqRep`: the client's loop is weakly fair, and the expiry of each request strongly fair:
  time passes, so a transmission without a reply reaches its time-out even though other
  turns of the loop come in between. Nothing is assumed of network or servers.
* `Blackboard`, `SyncTrainer`, `Building`, `Builder`: none. What must happen there is stated
  with a bound (`AutoRemoved` by the next `update()`, `CancelledBuildEnds` by a number of
  updates) or as the reason it will (`WaitersNotified`).

## Findings

* `building_cancel` - the comment at src/modules/autobuild.cpp:1004-1005 says of the cancel
  there: "Cancel just in case this is a mismatch. This prevents a serious bug where we build
  two buildings instead of one." It does not always: the placer's retry loop
  (src/modules/buildingplacer.cpp:194-219) looks at `respawn` and not at the status, so a
  request cancelled while its retry is scheduled is placed again; and a request without a task
  is dropped with its UPC left on the board (autobuild.cpp:1003-1012). `BuildsTracked`, "a build
  under way belongs to something the build order asks for", is violated.

### Observations

Met while modelling; no run is about them.

* common/parallel.h: with zero threads a throwing `fn_` leaves `consuming_` raised (181-183),
  so a later `wait()` blocks; hence the assumption `~FnThrows` of the proofs. `running_` is
  assigned after the threads start (256); a producer that ends earlier is never counted off and
  `get()` blocks. The comment at 231 says that an item is removed from the queue once it has
  been consumed, it is removed before (223).
* cpid/reqrepserver.cpp: an empty endpoint list is only warned about, but trips the assertion
  at 519 when a request has expired; `AllResent` is checked and proved without empty lists.
  reqrepserver.h:34-36 calls a missing reply fatal, the code logs a warning (225-227). The
  comment "No more messages in flight" (491) is not true after an expiry.
* cpid/zmqbufferedproducer.h:108: `stop()` notifies without the mutex; the wake-up can be lost
  and the destructor hang.
* cpid/batcher.cpp:56-57: the same in `stopBatching()`, the exception `StopReturns` makes. A
  stopped batcher leaves its queries unanswered, which `CallReturns` allows. batcher.h:26-28 and
  40-44 speak of waiting for a full batch or 200 ms; the thread takes what there is.
* cpid/synctrainer.cpp: a forced stop of an episode that never stepped takes a free buffer and
  clears it, and with it the finished frames of an earlier episode. A game thread that enters
  `forward()` after the notification of `reset()` can wait forever. synctrainer.h:79-83 says that
  the frames of an update are all discarded; `returnsLength_ - 1` are deleted.
* src/task.cpp:77-80: a proxy that is cancelled after its UPC was consumed and before its next
  update reaches neither the UPC nor the new task, against task.h:63-64. `Task::cancel` (micro
  and scouting tasks) keeps the units until the task is removed, although task.h:66-69 speaks of
  freeing resources.
* src/modules/builderc.cpp: `grabUnit` looks only at the newest task of the controller (58-64), so
  a controller can bind a unit after another of its tasks was cancelled; this is why
  `CancelledBuildEnds` counts updates. Releasing through `movedUnits_` can free a unit that is the
  builder, of this or of another controller, and leaves `builder_` pointing at it: `releaseUnit`
  calls `removeUnit` of the base class (105). `orphaned` records these units, and
  `CommandsOwnUnits` leaves them out. Such a builder may die without being forgotten; its build
  tracker then fails frame after frame and the controller may take units each time, so a
  cancelled build can go on for longer. `CancelledBuildEnds` leaves out the controllers with such
  a unit.

## Proofs

For each of eleven modules `Spec => []IInv` is proved for an inductive invariant, and the
properties are derived from it. The assumptions are the named `ASSUME`s of the modules.

* `ReqRep_proof`. `NoRequestLost` needs to know that the tables are disjoint; the bound
  needs `ResentFirst` (expired requests occupy the places they had until all are resent);
  the refinement needs `Genuine` (every reply in the network is one a server gave to that
  request). `AssertionHolds` assumes that no endpoint list is empty; with an empty one the
  assertion fails after an expiry.
* `Blackboard_proof`. The properties that hold after `update()` are not invariant while
  modules step, so the invariant speaks of the tasks the loop has *visited*:
  visited tasks are mapped, exclusive, alive and (for proxies) in step with their
  targets; `LoopOrder` says that the visited are the newest. At the end of the loop every
  task is visited, which gives `OneHolder`, `MappedToHolder`, `CancelFreesUnits` and
  `ProxyUpToDate`, and with one more conjunct for the visited tasks `AutoRemoved`.
  `IdsInOrder` (the ids in use are the ones handed out) and `WellFormed` (a proxy's target
  has the larger id, so the loop updates it before the proxy) make the loop order
  meaningful.
* `Consumer_proof`, on `BufferedConsumer`, for any number of callers, threads and items and any
  `maxQueueSize_`, if `fn_` does not throw. Items are numbered in the order they are accepted.
  `QueueIsNewest` says that the queue is exactly the newest items in order, and that the hands of
  the threads, the finished and the replaced items are together the older ones. So an item that
  leaves the queue is found nowhere else, which is what keeps the cardinalities in `Counted`
  in step with `consuming_`. `ExactlyOnce` and `BoundedFifo` follow; `WaitMeansDone`, an action
  property, follows because an empty queue and `consuming_ = 0` leave no busy thread.
* `BufferedProducer_proof`, for any number of producers, getters and items and any
  `maxQueueSize_`. `QInv` holds whatever `fn` does: the queue, the hands of the producers
  and what was delivered are together what `fn` gave, each item once (`ExactlyOnce`);
  `working_` counts the producers at work; and `RunningCounted` bounds `running_` from
  below by the producers that have not finished, with a correction as long as the
  constructor has not assigned it. `EndInv` adds that a producer finishes only when `fn`
  has nothing left, so `running_ = 0` with an empty queue means that everything was
  delivered (`EndIsFinal`). The ZeroMQ producer runs the same queue with a `produce()`
  that waits for messages; its proof takes over `QInv` and the steps that keep it, and
  adds `InOrder` (the server's queue holds the newest confirmed messages in order), so
  the message `produce()` takes is the next one. `ConfirmedKept` follows, and the bound of
  two queues' worth in `ZTypeOK`, because the producers with an item in hand are among
  those `working_` counts.
* `Consumer_proof`, on `ZmqBufferedConsumer`, whose definitions begin with `Sender` where both
  modules have one of the name, for any number of items and requests and every
  `maxConcurrentRequests_`. That an item is never lost needs `Genuine` (the reply a future holds
  is one a server gave), since the sender forgets an item on the word of a future. That no item
  has two undecided requests needs to know what became of the requests the sender no longer
  keeps: `LeftDecided` (they were answered or failed), `ReadLast` (an item whose confirmation was
  read has no other request in `pending_`, so it is never sent again) and `OnePerItem` (the
  requests in `pending_` are of different items, so repeating one meets no other of its item).
  `Room` bounds `pending_` with the one extra place the destructor allows. The proof is about
  the sender on `AtLeastOnce`, which `ReqRep_proof` shows the client to implement.
* `AsyncBatcher_proof`, for any callers, any number of rows per query and any `batchSize_`.
  The first part is about data: `Ends` and `MakeBatch` are recursive functions, and what they
  compute for every input is proved by the least counterexample (`Least`, `Induction`). A
  batch is the concatenation of its queries, cut at the ends of the queries
  (`BatchMeaning`), so splitting what the model answered at these ends gives each query its own rows
  (`UnBatchMeaning`). The second part is the invariant: queries and promises are
  paired in the queue and in the batch (`Paired`), and after the model has run the values left are
  those of the promises left (`Answered`). `OwnAnswer` follows. `PromiseInv` says that the
  promises in line are those of the calls that wait, each once (`CallsKept`); without it a promise
  could be set twice, which throws in the consuming thread (`SetOnce`). `InOrder` is the order of
  the answers over the cut between batch and queue, `QueueSeen` that no wake-up of a caller is
  lost, and `ThreadExact` that there is one thread or none. The last is needed for the others:
  `startBatching` starts a thread only when none holds a batch. `SetOnce`, `CallsKept`, `InOrder`,
  `QueueSeen` and `ThreadExact` are stated for the proofs; TLC found them true on the instance of `batcher`.
* `Building_proof`, for all sites and footprints, build orders and numbers of UPCs. The invariant
  says of each request's placer which build it proxies and since when it has known it
  (`PlacerOK`), of each build that the placer which posted it holds the tiles of its position
  while it is under way (`BuildOK`), and of the tiles that they are those held, each by one
  placer (`Holding`). `ReservationsExact` alone is not inductive: a retry gives back tiles, and
  that is right only because a placer that is to be retried has no build (`respawn` implies no
  target), and a cancelled request holds nothing only because the cancel reaches its build.
  The latter needs the order of a frame: a placer that has not found its target finds it at the
  next `update()`, for the Builder's step is the last one before it. One action may cancel many
  requests and their builds and then post new ones (`Evaluate`), so the parts of the invariant
  take the tasks, UPCs and the rest as parameters and are followed through the intermediate
  states. After `reserveArea` has thrown only `OneBuildPerRequest` is claimed.
* `Builder_proof`, for any units, builds and UPCs, every time-out of the trackers and every
  `UpdateInterval` of at least 2 (4 in the code). `UInv` follows the units through all the parts
  of a frame: what a controller regards as its own (`builder_`, `detector_`, `units_`) is held by
  an ongoing task of its own, or was released through `movedUnits_`, or the controller is `Over`
  and takes no more (`ControllerOK`); the tasks hold no dead units (`TaskOK`). `CommandsOwnUnits`
  follows, since an update maps every unit that is held. `CancelledBuildEnds` needs a second
  invariant, `KInv`, on top of it. The loop cancels the siblings of a cancelled task, so a build
  goes on only through a unit taken in the very step in which they were listed. A controller
  acts again in the next frame only if its tracker makes it, and the tracker it has just
  started can do so only if its unit dies (`Fresh`). So it acts at most once more, and once more
  for each death: before an update it has acted for the `Last` time, after the update it
  `Waits`, and during its step it gets past `Release` only within the deadline
  (`CurrentOK`). This rests on throttling: with an `UpdateInterval` of 1 every step of a
  controller would be a full one.
* `SyncTrainer_proof`, on `PriorityMutex`, whose definitions begin with `Mutex` where both
  modules have one of the name. The invariant `MutexInv` joins the places of threads with the
  owner of `dataMutex_` and with the counts: a count is the cardinality of the registered
  threads of that priority, which needs cardinality facts for one thread joining or leaving.
  From it: `MutualExclusion`, `CountsRegistered`, `NoLostWakeup`, `OvertakenOnce`, and the
  refinement of `Mutex` (only taking and releasing the lock change who is inside).
* `SyncTrainer_proof`, on `SyncTrainer`, for any numbers of games, buffers, frames and updates
  and every `returnsLength_` of at least 2. `EpisodesSeparated` is not inductive: a step may append to a buffer that another episode left. `CutWhereFree` says that a
  buffer without an unfinished owner ends in a terminal frame or is empty, so inheriting it is
  safe. `OnPolicyFrames` needs `OldAnswerFirst`: an answer that was computed before an update can
  only become the first frame of a buffer, because the update cleared it; that in turn needs
  `BufferKnown`. `WaitersNotified` follows the places of the training thread and the ready
  buffers.

Theorems that state no property of a run (type correctness, mutual exclusion, exact counts,
`NothingLost`, `ConcurrencyLimit`, `NoDanglingTask`, `ExclusiveUnits`) are steps to those that do,
and worth knowing by themselves.

Only model-checked: the liveness properties, since liveness under fairness is outside what the
prover handles. Every other property of a passing run is a theorem.

## Not modelled

* *Data and heuristics.* Tensor code, learning algorithms, geometry, combat simulation, build
  orders and target choice have no protocol state; they appear as nondeterministic choices where
  a model needs their result. They are by far the largest part of the code.
* *Input and output.* Files, compression, HTTP, processes, logging, visualisation. ZeroMQ, redis,
  c10d and the C++ synchronisation primitives are external and appear as the behaviours their
  users rely on. `Cpid2kWorker` and the blob classes are loops around redis and ZeroMQ whose
  outcomes are decided there.
* *Protocol state that is left for later.* `ESTrainer` and `Evaluator` each have a barrier at
  which the game threads of a batch wait for one another, with 100 ms time-outs and fatal
  checks; `CentralTrainer` and `PolicyGradientTrainer` queues of finished episodes; the server
  side of `ReqRepServer` its routing of identities; `MultiProxyTask` the status policies that
  `AutoBuildTask` overrides; `BuilderController` the units that need no worker. None of the
  modules here covers them.
* *Compositions.* The two ZeroMQ queues are checked against the service between them, not end to
  end as one queue.

# Verification of the execution of Hamilton dataflows

Hamilton turns a module of Python functions into a graph (a function is a node,
its parameters are the nodes it reads) and computes the nodes a caller asks
for: one after the other, as tasks with parallel blocks, in a pool of threads or
in an event loop, with a cache or without. This directory holds TLA+
specifications of the parts of it where order, concurrency or failure matter,
the TLC configurations that check them on small instances, and proofs, checked
by TLAPS, that the main results hold for every graph, every plan of tasks and
every order of events.

Paths are relative to the package `hamilton` of the repository or to its root;
`state.py`, `executors.py`, `grouping.py` and `graph_functions.py` are those of
`hamilton/execution/`.

    tlasany M.tla                       # parse
    tlc -config MCRunGraph.cfg MCRunGraph   # a run: see the table of runs
    tlapm ExecutionState_proofs.tla     # proofs

## 1. Inventory

### Core

| component | state | operations | interacts with | what is hard | what makes it correct |
|---|---|---|---|---|---|
| **ExecutionState** `state.py` | task pool, task states (a defaultdict), realized dependencies, queue, result cache | `__init__`, `release_next_task` (`bind_task`), `reject_task`, `update_task_state`, `get_graph_state` | called by the run loop; the expanders' results decide how many tasks there are | tasks come into being while others run; a collector is bound again after a rejection; empty lists; the state of the graph is a guess from what exists so far | dependencies first; inputs and blocks complete; nothing waits for ever; SUCCESSFUL means complete |
| **Task executors** `executors.py` | futures, `active_futures`, the pool | `init`, `can_submit_task`, `submit_task`, `get_state`, `get_result`, `finalize` | the run loop polls futures that workers end | a future ends between any two calls | at most `max_tasks` in flight; nothing runs after `finalize` |
| **Run loop** `executors.py`, `driver.py` | next task, task futures, stale states | `run_graph_to_completion`, the read of the outputs | composes the two above and the task hooks | errors of tasks, submissions and hooks while other tasks run; a full pool | ends; returns whole results only; leaves nothing running |
| **Task grouping** `grouping.py`, `graph.py` | none | `get_upstream_nodes`, `validate_inputs`, `GroupByRepeatableBlocks.group_nodes`, `create_task_plan`, `TaskImplementation.bind` | makes the plan of ExecutionState | blocks with a collector, overrides and inputs at their border | the plan is well formed and covers what was asked for |
| **Node-by-node execution** `graph_functions.py` | the dictionary `computed` | `execute_subdag`, `execute_lifecycle_for_node` | the body of a task; the default driver; a traversal that submits nodes to the thread pool | overrides, optional inputs, values that are pruned while the traversal still needs them, hooks around failures | what the outputs need and nothing else; each node once, with all its arguments |
| **Tracker client** `ui/sdk/.../api/clients.py` | queue, batch of the worker, `running` | `update_tasks`, `worker`, `flush`, `stop` | threads of the program, worker, watcher, `atexit` | stop against the worker, refused requests, end of the process | order, what may be lost and when, the process exits |
| **Caching adapter** `caching/adapter.py` | per-run dictionaries of cache keys and data versions | `pre_`/`do_`/`post_node_execute`, `get_cache_key`, `get_data_version` | the stores; hooks called by every task | repetitions of a block on threads; result and metadata stored in two steps; stale checks; behaviors that differ between runs | a hit returns what an execution would compute; nothing is computed in vain |
| **Cache stores** `caching/stores/` | files, tables, dictionaries | `set`, `get`, `exists`, `delete` | the caching adapter, other processes | a crash between two writes, another process that writes the same or deletes | a key points to a right version, a complete file holds what its name says |
| **Async driver** `async_driver.py` | one asyncio task per node | `raw_execute`, the task of a node | lifecycle hooks, the event loop, its caller | after one node fails the others go on; cancellation at any await | every node once; everything ends; the graph's hook last |
| **Thread-pool adapter** `plugins/h_threadpool.py` | futures of nodes | `do_remote_execute`, `build_result` | workers block on the futures of other nodes; callers share the pool | everyone waiting on everyone | progress with any number of workers |

### The rest

| component | what it does | modelled? |
|---|---|---|
| Function graph (`graph.py`, `node.py`) | graph from functions, search upstream | partly: `get_upstream_nodes` and `nodes_between` are in Grouping; the construction is rewriting of Python callables |
| Driver (`driver.py`, `base.py`) | builder, validation, default executor | partly: `validate_inputs` is in Grouping, the two executors' reads of the outputs in RunGraph and SubdagExecution; the builder, `materialize` and drawing are sequential glue |
| Lifecycle hooks (`lifecycle/`) | dispatch to adapters | partly: task hooks in RunGraph, node hooks in SubdagExecution and AsyncDriver, graph hooks in AsyncDriver; registration and dispatch are loops over a list |
| Tracker adapter (`ui/sdk/.../adapters.py`) | hooks to updates | no: bookkeeping keyed by node name; its one hazard is listed |
| Tracking statistics, data quality | summaries and checks of values | no: stateless functions of data |
| Function modifiers | rewrite functions into nodes | no: stateless, over Python callables and types |
| Loaders, savers, materialization, dataflow hub | file formats, downloads | no: input and output |
| Plugins (Ray, Dask, Spark, ...) | bindings | no: behaviour lives in third-party systems |
| UI backend and frontend | Django and React applications | no: storage and presentation behind single requests |
| Command line, language server, notebook, visualization | presentation | no: no protocol |
| Telemetry, settings | fire-and-forget reports | no: no effect on a run |

`PROJECT.json` lists the same components with their files, and, under
`hazards`, the places of this code that are hard to test, with the properties
that watch them or the reason why none does.

## 2. The modules

    TaskGraph                      what task-based execution promises
       ^ implemented by
    RunGraph ------ EXTENDS -----> ExecutionState
       |                              | EXTENDS
       |                           Plans
       |                              ^ INSTANCE: makes well-formed ones
       |                           Grouping
       \----------- INSTANCE ----> Executors

    NodeRun                        what the execution of the nodes of a run promises
       ^ implemented by
    SubdagExecution                one after the other
    ThreadPool                     in a pool of threads, one run per caller
    AsyncDriver                    as tasks of an event loop

    CacheAdapter                   runs that share the stores
    TrackerClient                  on its own

The proofs about `M` are in `M_proofs`, which extends it: for Grouping,
ExecutionState, RunGraph, SubdagExecution, ThreadPool, AsyncDriver, CacheAdapter
and TrackerClient. `RunGraph_proofs` also extends `ExecutionState_proofs`, and
has what is proved about Executors. An `MC` module holds the instance of a
module that TLC checks.

### Plans.tla

What a plan of `TaskSpec`s consists of, and two predicates on it. `ClosedPlan`
is typing. `WellFormedPlan` is what ExecutionState needs to see the plan
through: the hypothesis of the theorems, an assumption of its runs, and, with
the plan of each graph substituted for the constants, an invariant of the run
`grouping`.

### Grouping.tla

| in the model | in the code |
|---|---|
| `dag`, `request` | the nodes of the `FunctionGraph`, as far as they matter: dependencies in the order of the parameters, role, collected parameter, parameters with a default; and the inputs, outputs and overrides of `execute` |
| `Upstream` | `get_upstream_nodes`, `directional_dfs_traverse` and `validate_inputs` |
| `NodesBetween`, `DfsTraverse` | `nodes_between` and its `dfs_traverse`, with the nonlocal `search_node`; `ForEachDep` is the loop over `dependencies` in both |
| `GroupBlock` | one iteration of the loop of `group_nodes` over the Collect nodes |
| `GroupRemaining` | its last loop |
| `CreateTaskPlan` | `create_task_plan` |
| `RequiredVars` | `get_input_vars`, which `bind_task` calls |

`group_nodes` is given `list(set(...))`, so the Collect nodes come in any order,
and the loop is one action per node. `visited` and `groups` are the variables
of that name. The outcome is `planned`, `rejected` (an input is missing) or
`raised` (an exception of the code itself).

### ExecutionState.tla

| in the model | in the code |
|---|---|
| `BaseTasks`, `BaseDeps`, `Purpose`, `Spawner`, `CollectFrom` | the `TaskSpec`s of the plan: `base_id`, `base_dependencies`, `purpose`, `spawning_task_base_id`, `collect_dependency` |
| `<<b, g>>` | a task id: the spec and the group id (`None`, or the index in the expanded list) |
| `taskPool`, `taskStates`, `realizedDeps`, `taskQueue` | the fields of the same names |
| `results`, `width` | the keys of the result cache, and the length of the list an expander wrote there |
| `collected` | the `dynamic_inputs` that an earlier `bind` gave a collector |
| `held` | not in the code: what the caller was released and has not given back |
| `ReleaseNextTask`, `BindTask` | `release_next_task`, `bind_task` |
| `RejectTask` | `reject_task` |
| `TaskSuccessful`, `TaskFailed`, `TaskRunning` | `update_task_state`: the cache write, `realize_parameterized_group` or the creation of dependents, and the enqueuing pass, in one action |
| `GraphState` | `get_graph_state` |

Details kept because they matter: a lookup in the defaultdict inserts
UNINITIALIZED (that is how a dangling dependency keeps a run from ending); a
repeated task stores a *string* where the others store lists of ids;
`bind_task` empties the dependency it has gathered, so that the second bind
after a rejection gathers nothing and only the merge with earlier
`dynamic_inputs` saves the collector; the order of a batch of tasks put in the
queue is that of a Python set, hence any order. A cached value is reduced to
the task that wrote it, an expander's list to its length. The elements are
already in group order when a collector gathers them, so `collected` records
whether the order survives.

`Next` is the most general caller that keeps to the protocol: it updates a task
it was released until that ends, and rejects one it has not updated yet. The
run `run_graph` checks that the real loop is such a caller (`ESSpec` as a
property), so what is proved here holds of the loop.

### Executors.tla

The local executor's future is a function that runs when its state is first
asked for (`unrun`); a future of the pool is `pending` until a worker ends it
at any time. `activeFutures` is pruned only by `can_submit_task`, as in
`PoolExecutor`. `FinalizeExecutor` is `shutdown()`, which waits. `SubmitRaises`
is a pool that refuses (a broken process pool). Python's `concurrent.futures`
appears as what these calls need of it.

### RunGraph.tla

`pc` follows `run_graph_to_completion`: `loop` (test the graph state, release),
`dispatch` (submit, fail or reject), `poll` and `resolve` (for each task of a
copy of `task_futures`: `get_state`, then `get_result`, update and hook),
`finalize`, then the read of the final variables in
`TaskBasedGraphExecutor.execute`. `get_state` and `get_result` are two steps
because a worker may end the task between them: the loop then records the
result under the state it read before. The three ways to leave the loop by
exception are there: a task's own error, a submission or the
`pre_task_submission` hook that raises, and a `post_task_return` hook that
raises before the future is removed. Between `can_submit_task` and
`submit_task` no step of another thread can change the outcome (a worker can
only free a slot), so they are one step.

### TaskGraph.tla

The promise without mechanism: a status per task and a length per expander.
A task starts at most once, after everything it depends on (for a block, all
repetitions) has succeeded, and none starts once a failure is known. RunGraph
implements it under the mapping at its end: a task has `started` when
`pre_task_submission` was called for it.

### NodeRun.tla

The promise of every way of executing the nodes of one run: a node starts at
most once and when all it reads is done; a run that returns has computed what
it was asked for. A run that raises may leave nodes that go on: the thread pool
and the event loop do.

### SubdagExecution.tla

| in the model | in the code |
|---|---|
| `call`, `left` | the arguments of `execute_subdag`; what is left of its loop over `nodes` |
| `stack` | the calls of the inner `dfs_traverse` in progress, each with its place in the loop over the dependencies (`visit`) or in the pruning after the node was executed (`prune`) |
| `computed`, `kwargs` | the keys of the dictionary; the arguments a node was executed with |
| `Visit`, `VisitFinal`, `VisitDependency` | the head of `dfs_traverse`: computed, overridden, or to be traversed |
| `TakeInput` | a user-defined node, whose value is in `inputs`, or that is optional for its reader, or missing |
| `PreHookRaises`, `StartNode`, `EndNode`, `NodeRaises` | `execute_lifecycle_for_node` |
| `PruneDependency`, `Unneeded` | the loop that deletes from `computed` what it thinks nobody will read any more |

A value is abstracted to its presence. What the pruning asks is whether every
node that depends on the value is in `computed`, and a node leaves that
dictionary when it is pruned in its turn: whether it can forget a value that is
still needed is what `ArgumentsAreWhole` and `ComputesWhatIsAsked` are about.

### ThreadPool.tla

`FutureAdapter` makes the traversal submit each node to one
`ThreadPoolExecutor` without waiting. `caller`, `next` are the threads that
execute the driver, which share the adapter and hence the pool; `queue` and
`worker` are the pool's, `future` the result of a submission. `Submit` is
`do_remote_execute`; `StartNode` is `_new_fn` once `result()` of all its
arguments has returned, in the order of the arguments; `FailUnexecuted` is the
same when one of them raised, or when the hook before the node raises;
`Return` and `Raise` are `build_result`. The thread pool of Python appears as what
this use needs: first in, first out, and a bounded number of threads.

### AsyncDriver.tla

| in the model | in the code |
|---|---|
| `stage[n]` | where the asyncio task of a node is: gathering its arguments, in the pre hook, in the function, in the post hook, ended |
| `called`, `end`, `told` | whether the function was called, how the `try` ended, the `success` the post hook is given |
| `interrupt[n]` | the task has been cancelled and `CancelledError` has not been raised in it yet |
| `PreGraphRaises`, `Traverse`, `Gather`, `GatherRaises`, `PostGraph` | `raw_execute`; a traversal that raises half-way leaves the tasks it made |
| `Cancel`, `Awaited` | the caller cancels `raw_execute`: asyncio passes the cancellation down to what is awaited |
| `Shutdown` | `asyncio.run` cancels all that is left when its coroutine has ended |

An interrupted function may still end with its result, for it may catch the
error; the step `Interrupt` is never forced. `CancelledError` is not an
`Exception`: `except Exception` does not see it, and the code's `finally` goes
on with what `success` was.

### CacheAdapter.tla

| in the model | in the code |
|---|---|
| a run; a lane | one `execute` of a process or of a driver that shares the stores; one task of it |
| `keys`, `versions` | `cache_keys[run_id]` and `data_versions[run_id]`: per node a value, or a dictionary with a slot per task for a node inside a block |
| `metadata` | the metadata store: cache key to data version |
| `files` | the result store: data version to result, `whole` or cut short |
| `PreNode`, `PreNodeUncached`, `NewKeys` | `pre_node_execute`: `_get_memory_metadata` of the dependencies, `create_cache_key`, `_set_cache_key` |
| `Lookup`, `CheckExists`, `Fetch`, `Execute`, `SetMemoryMetadata`, `NewVersions`, `SetStoredMetadata` | `do_node_execute`, up to each call of a store |
| `PostNode`, `PostNodeSkip`, `OpenFile`, `WriteFile` | `post_node_execute` and `FileResultStore.set` |
| `Begin`, `End`, `Crash` | `pre_graph_execute`; the run is over; its process dies |
| `DeleteResult`, `DeleteMetadata` | the `delete` of the stores, called by a user |

A step ends wherever something else can come in between: two calls of a store,
the check for a nested dictionary and its creation, the truncation of a file
and its write. The value of a node is the term of its code and its arguments,
so that a value says how it was computed; hashing is injective on terms. An
`Impure` node also has the reading of the world at the time in its term. The
four behaviors DEFAULT, RECOMPUTE, DISABLE and IGNORE are there, SQLite with
its `INSERT OR IGNORE` and the in-memory store, which overwrites. Whether a
task may start (`MayStart`) follows from the plan, as in RunGraph.

### TrackerClient.tla

| in the model | in the code (`BasicSynchronousHamiltonClient`) |
|---|---|
| `queue`, `running`, `batch` | `data_queue`, `running`, the local `batch` of `worker` |
| `worker` | where the thread is: testing `running`, in `get`, in a flush, in the flush for the sentinel, ended, killed by an exception |
| `Leave` | the thread ends, and its local `batch` is gone with it |
| `sending`, `FlushRun` | the loop of `flush` over the runs of the batch: one request per run, in any order |
| `Put` | `requests.put` and `raise_for_status`; an error may concern only the answer |
| `UpdateTasks` | `update_tasks`, called by each thread of the program |
| `JoinWorker`, `DrainItem`, `SendItem`, `DrainEnds` | `stop`, which runs in the user's call or from `atexit` |
| `Watcher`, `ExitStops` | the thread that waits for the main thread and puts the sentinel; the interpreter joins the remaining threads before it calls `atexit` |

A time-out of `get` is possible whenever the queue is empty, and the flush
interval may have passed whenever an item arrives: the clock is not modelled.

## 3. The runs

| run | instance | shows |
|---|---|---|
| `execution_state` | nine specs, two expanders that may be in flight together, a block that also reads a task outside it; lists of 0 to 2 elements | the nine properties of ExecutionState under every caller |
| `grouping` | every graph of four shapes of 5 or 6 nodes, requests with and without inputs, a second output and an override | plans are well formed and complete |
| `run_graph` | six specs, lists of 0 to 3, pool of 2 | the whole loop: protocol, the limit of the pool, abstract promise, termination, whole results |
| `subdag` | every graph of 4 nodes with the parameters in any order; inputs, optional inputs, overrides, values passed | the traversal executes what is needed, with whole arguments, and implements NodeRun |
| `thread_pool` | every graph of 3 nodes, two callers, two threads | no deadlock, every caller ends, NodeRun |
| `async_driver` | every graph of 3 nodes, any error, cancellation at any time | everything ends, the graph's hook is last, NodeRun |
| `cache` | two overlapping task-based runs over SQLite and files, with edits, a crash and a deletion | right results, sound stores |
| `cache_scenarios` | five histories of one to three runs | right results, nothing computed in vain, runs with a block succeed |
| `tracker_client` | two threads with two updates each for two runs, batches of 2 | order, what a stop loses at most, delivery, exit |
| `reads_block`, `shared_block`, `cache_sqlite` | variants of `run_graph`, `grouping` and the cache | a documented claim that the code does not keep (section 6) |

Fourteen configurations without a run are kept for the other entries of section
6, each with the one property that TLC finds violated.

**Properties of ExecutionState.** `QueueConsistent`: the assertion of
`update_task_state` cannot fail, nothing is queued twice or while it is out.
`DependenciesFirst`: a task is queued only after everything its spec depends
on has succeeded; for a collector, every repetition. `InputsInCache`:
`bind_task` never meets a missing key. `CollectsEveryElement`: a collector gets
each element once and in order, rejected or not. `EnqueuesCompleteDependents`:
the docstring of `update_task_state`. `NeverAllBlocked`: unless something
failed or all is done, a task is queued or out. `SuccessfulIsComplete`: the
graph is not called SUCCESSFUL between two layers. `StatesAdvance`: no task is
realized over or updated after it ended.

**Properties of grouping**, of every graph and request that is `Supported`.
`SupportedIsPlanned`: no exception of the code's own. `NodesInOneGroup`: each
node needed is in exactly one group, and ids are unique. `PlansAreWellFormed`:
the hypothesis of section 4. `InputsAreProduced`: what a task will look up in
the cache without a default is there from the start, or is an output of a task
it waits for. `OutputsAreComputed`: what was asked for is an output of a task
that is not repeated. `Supported` is written on the graph alone, without the
algorithm. Two parts of it come from the documentation (no nested blocks, one
Collect node per block); the other two are not documented and the code needs
them: `BlocksReadNothingCollected`, without which `shared_block` fails, and
`CallerStaysOutOfBlocks`: no node inside a block is asked for, and neither it
nor the Parallelizable or Collect node at its border is overridden.

**Properties of the run loop.** `ReturnsWholeResult`: `execute` returns only
when every task and repetition has succeeded and both task hooks have seen it,
and raises only what something raised. `NothingLeftRunning`: once it is over,
also by an error, nothing is at work. `HeldIsTracked`: the loop and the
ExecutionState agree on what is in flight. `PoolLimit`, `ESSpec` (the loop
keeps to the protocol), `ImplementsTaskGraph`, `Termination`.

**Properties of node-by-node execution.** `ComputesWhatIsAsked`: exactly the
nodes that the outputs need are executed, and a traversal that returns still
has the outputs. `ArgumentsAreWhole`: a node is executed with every argument
that has a value. `ImplementsNodeRun`.

**Properties of the thread pool.** `NeverAllBlocked`: as long as a future is
pending, a thread can go on. `EveryCallerEnds`, `ImplementsNodeRun` (for each
caller).

**Properties of the async driver.** `EverythingEnds`: neither `execute` nor a
task of a node waits for ever. `GraphHookIsLast`: a `post_graph_execute` that
is told of a success comes after every post hook of a node, each of which was
told of a success as well. `ImplementsNodeRun`.

**Properties of the cache.** `RightResults` and `EachHistoryIsRight`: whatever a
run gets for a node, retrieved or computed, its own code gives on its own
inputs (and, in the two histories without races and deletions, what is stored is
not computed again). `StoresAreSound`: a cache key points to a version of that node, code
and arguments, and a complete file holds what its name is the hash of, also
after a crash between any two writes. `OnlyMissesAreComputed`: DEFAULT executes a
node that does not read the world only when nothing is stored under the name of
its result, unless someone has deleted from the stores. `BlocksSucceed`: caching makes no
task-based run fail or hang.

**Properties of the tracker client.** `InOrder` (per thread, and none twice),
`OnlyStopLoses`: the batch is a local list and goes with the worker's thread, so
the code does not keep what the docstring of `stop` promises (entry 6), but
without a refused request only a stop by the user loses updates, and fewer than a
batch. `ExitDelivers` (a process that never calls `stop` itself has delivered
everything when it exits), `EventuallyDelivered`, `ProcessExits`.

Each property is paired in `PROJECT.json` with a mutant or two, a plausible slip in a
definition that stands for code, under which TLC finds it violated. The slips
stand in the modules beside the definitions they would replace, marked `slip`.
Besides `TypeOK`, the types of the variables are stated in each module
(`RGTypeOK`, `GTypeOK`, ...) without being a property of a run.

### Bounds and why they are enough

- `MaxGroups` bounds the length of an expanded list: 2 in `execution_state`, 3
  in `run_graph`. 0, 1 and 2 are the cases the code tells apart (nothing to
  gather; one; an order to keep); 3 makes the block larger than the pool, so
  that tasks are rejected and released again.
- `MaxTasks` is 2, so that one worker can end a task while another runs and the
  pool is full for a block of 3.
- The plans are single instances. They have a root that is read inside a block,
  or collector that also reads something else, a task after the collector, and
  in `execution_state` a second expander beside the first, a block that reads a
  task which may end before or after the expander, and a task that reads both
  collectors. The proofs remove this bound.
- `grouping`: the graphs are all those with the roles of `OneBlock` (an input, a
  block, nodes around it), `LargeBlock` (up to three nodes in it), `InSequence`
  (two blocks, one after the other) or `Abreast` (two blocks side by side), at
  most two parameters per node, in ascending order, and a reader for every node
  but the Collect nodes and the last. These give blocks of up to three nodes,
  diamonds in a block, reads from outside into a block and back, and optional
  inputs. At most one of the first three nodes is overridden, a standard one.
- `subdag`: `N` is 4, the least with a diamond, a chain of three and a node
  that is read again after its first readers were pruned. Node 1 may be an
  input, given or not, optional or not; one of 2 and 3 is overridden or passed;
  one or two outputs in any order, equal ones included. The proofs remove the
  bound, but for `ComputesWhatIsAsked`.
- `thread_pool`: two callers and two threads are what a shared pool needs to
  mix items of two runs in its queue, and three nodes to have one thread wait
  for a node that waits for another. Parameters are in descending order, so
  that the traversal meets the deepest first. The proof covers any number.
- `async_driver`: `N` is 3: a node can be awaited by two, by a chain, or by the
  driver and a node. Cancellation comes at most once, and the shutdown of the
  loop after it.
- `cache`: two repetitions of a block, with one item each, and a task `z` that
  reads the world, one node at a time (`Workers` 1; the two runs overlap). In
  the second run the items are equal, the code of the block is new and `z` is
  DISABLEd. `MaxCrashes`, `MaxDeletes` and `MaxWorld` are 1: a crash leaves its
  mark at every point of the first run or of the second, and a deletion takes
  any one entry between the runs.
- `cache_scenarios`: *shared*, three overlapping runs of a chain with new code,
  then another input, a crash and a deletion; *mixed*, a node that is DISABLEd,
  then IGNOREd while the one after it is RECOMPUTEd, then DISABLEd again;
  *memory*, the in-memory stores with a node that reads the world; *block*, two
  runs of a block with one item changed; *threads*, three repetitions, two of
  them equal, on two threads that race for the nested dictionaries, for a key
  and for a file. Two hooks that race need two threads, and a lost dictionary
  entry a third repetition that recreates or reads it.
- `tracker_client`: two updates per thread with batches of 2 give partial
  batches, full batches, and batches that need two requests. The user calls
  stop at most once (a second call finds the worker ended and only drains, as
  the one of `atexit` does). Each thread logs for one run.
- `CHECK_DEADLOCK FALSE` appears where the system really stops:
  `MCExecutionState.cfg`, where the caller has nothing left to do once every
  task has ended, and the configurations of Grouping, SubdagExecution,
  ThreadPool, AsyncDriver and CacheAdapter, whose runs end. In ThreadPool and
  AsyncDriver `EveryCallerEnds` and `EverythingEnds` say that it stops nowhere
  else. In RunGraph and TrackerClient the final states loop and a deadlock is
  an error.

### Fairness

- RunGraph: weak fairness of the main thread, and of each worker's completion
  of a task it was given. The loop never waits without polling, and a task
  body is a user function, which is taken to terminate. `Termination` needs
  both.
- SubdagExecution: weak fairness of its single thread; no property of its run
  needs it.
- ThreadPool: weak fairness of each caller and each thread of the pool, which
  the operating system schedules, with the functions of nodes taken to
  terminate.
- AsyncDriver: weak fairness of the driver and of each task of a node: the event
  loop runs what is ready in the order in which it became ready, and what hooks
  and functions await is taken to come. Nothing forces the caller to cancel.
- CacheAdapter: weak fairness of the beginning and the end of each run and of
  each lane's next step. A crash, a deletion or a change of the world need not
  come.
- TrackerClient: weak fairness of the worker, the watcher, the steps of a `stop`
  that has begun, and each thread's updates: threads are scheduled, and a
  request is answered or fails (`requests` is given a server that answers).
  Nothing forces the user to call `stop`, or the main thread to end.
- ExecutionState and Executors are passive: no fairness, safety only.

## 4. What is proved

With TLAPS, about 14400 obligations, no step left without proof.

| theorem | states | of | assuming |
|---|---|---|---|
| `GroupingTypeCorrect` | `GTypeOK` | Grouping | any graph and request (`GroupingAssumption`) |
| `SupportedArePlanned` | `SupportedIsPlanned` | Grouping | any graph and request |
| `NodesAreInOneGroup` | `NodesInOneGroup` | Grouping | any graph and request |
| `PlansMade` | `PlansAreWellFormed` | Grouping | any graph and request |
| `InputsProduced` | `InputsAreProduced` | Grouping | requests that give the inputs they ask for |
| `OutputsComputed` | `OutputsAreComputed` | Grouping | any graph and request |
| `TypeCorrect` | `TypeOK` | ExecutionState | any plan (`PlanAssumption`) |
| `QueueIsConsistent` | `QueueConsistent` | ExecutionState | any plan |
| `StatesOnlyAdvance` | `StatesAdvance` | ExecutionState | any plan |
| `DependenciesSucceedFirst` | `DependenciesFirst` | ExecutionState | a well-formed plan |
| `InputsAreInCache` | `InputsInCache` | ExecutionState | a well-formed plan |
| `CollectorsGetEveryElement` | `CollectsEveryElement` | ExecutionState | a well-formed plan |
| `CompleteDependentsAreQueued` | `EnqueuesCompleteDependents` | ExecutionState | a well-formed plan |
| `TasksNeverAllBlocked` | `NeverAllBlocked` | ExecutionState | a well-formed plan |
| `SuccessMeansComplete` | `SuccessfulIsComplete` | ExecutionState | a well-formed plan |
| `BooksAreKept` | `HeldIsTracked` | RunGraph | any plan |
| `LoopImplementsExecutionState` | `ESSpec` | RunGraph | any plan |
| `NothingIsLeftRunning` | `NothingLeftRunning` | RunGraph | any plan |
| `RunWithinPoolLimit` | `PoolLimit` | RunGraph | any plan |
| `OnlyWholeResults` | `ReturnsWholeResult` | RunGraph | a well-formed plan, outputs outside of blocks |
| `LoopImplementsTaskGraph` | `ImplementsTaskGraph` | RunGraph | a well-formed plan |
| `LoopNeverInVain` | `RoundHasWork`: of `Termination` | RunGraph | a well-formed plan with a task |
| `LoopNeverStuck` | `NeverStuck`: of `Termination` | RunGraph | a well-formed plan |
| `WholeArguments` | `ArgumentsAreWhole` | SubdagExecution | `RequestsAssumption` |
| `ComputesNeeded` | `ComputesWhatIsAsked` | SubdagExecution | `RequestsAssumption` |
| `SubdagImplementsNodeRun` | `ImplementsNodeRun` | SubdagExecution | `RequestsAssumption` |
| `PoolNeverBlocked` | `NeverAllBlocked` | ThreadPool | `ThreadPoolAssumption` |
| `PoolImplementsNodeRun` | `ImplementsNodeRun` | ThreadPool | `ThreadPoolAssumption` |
| `PoolRunIsFinite` | of `EveryCallerEnds` | ThreadPool | finitely many callers |
| `PoolNeverStuck` | of `EveryCallerEnds` | ThreadPool | `ThreadPoolAssumption` |
| `PostGraphIsLast` | `GraphHookIsLast` | AsyncDriver | `AsyncAssumption` |
| `AsyncImplementsNodeRun` | `ImplementsNodeRun` | AsyncDriver | `AsyncAssumption` |
| `AsyncRunIsFinite` | of `EverythingEnds` | AsyncDriver | `AsyncAssumption` |
| `AsyncNeverStuck` | of `EverythingEnds` | AsyncDriver | `AsyncAssumption` |
| `ResultsAreRight` | `RightResults` | CacheAdapter | the four hypotheses below |
| `StoresStaySound` | `StoresAreSound` | CacheAdapter | the same |
| `NothingComputedInVain` | `OnlyMissesAreComputed` | CacheAdapter | the same and three more |
| `CachingNeverFails` | `OnlyNodesFail`: of `BlocksSucceed` | CacheAdapter | `NoneIsDistinct` and five of its own |
| `CacheRunIsFinite` | of `BlocksSucceed` | CacheAdapter | `NoneIsDistinct`, tasks of finitely many nodes |
| `CacheNeverStuck` | `NeverStuck`: of `BlocksSucceed` | CacheAdapter | `NoneIsDistinct`, acyclic nodes and tasks |
| `TrackerInvariant` | `TCTypeOK` and `TrackerInv` | TrackerClient | `TrackerAssumption` |
| `TrackerInOrder` | `InOrder` | TrackerClient | `TrackerAssumption` |
| `StopLosesLessThanABatch` | `OnlyStopLoses` | TrackerClient | `TrackerAssumption` |
| `ExitLosesNothing` | `ExitDelivers` | TrackerClient | `TrackerAssumption` |

These are all the properties of the runs `execution_state`, `subdag` and
`grouping`, all those of `run_graph` but `Termination`, and every safety property
of `thread_pool`, `async_driver`, `cache` and `tracker_client`, for every graph
or plan, every length of the lists, every size of a pool or batch, any number of
runs and threads and every order of events. The theorems marked "of" a liveness
property prove what it takes beside fairness (below).

**Assumptions.** `PlanAssumption` is typing: finitely many specs, dependencies
and spawners among them, a gatherer collects one of its dependencies, and
`None` is none of the values it is mixed with; `RunAssumption` adds to it what
RunGraph needs. `WellFormedPlan` is a hypothesis of the theorems that need it,
and has four parts: the plan is acyclic (spawners counted as dependencies);
what is spawned is spawned by an expander and depends on something, and a
collector collects from the block or from the expander; a block is read only by
its own collector, through the argument it collects; and no ordinary task reads
nothing but expanders. `GroupByRepeatableBlocks` does not validate the graphs it
is given, and `reads_block` and `MCReadsExpander.cfg` show what happens without
the last two. `PlansMade` says that the plan of every graph and request that is
`Supported` satisfies all four, and `ClosedPlan` as well: what the theorems about
ExecutionState and RunGraph assume of a plan is what the grouping makes.

`GroupingAssumption` says that the nodes are numbered, with the dependencies of
a node below it, that inputs have none, and that a Collect node collects one of
its own. `InputsAskedAreGiven`, the hypothesis of `InputsProduced`, is that an
input the caller asks for as an output is among the inputs given:
`validate_inputs` does not look at an input that no node requires, and the task
that returns it would then read what is not there.

`RequestsAssumption`, `ThreadPoolAssumption` and `AsyncAssumption` are typing and
that the graph is acyclic, in the form of a numbering in which a node reads
lower numbers only. A dataflow is that by definition (docs/concepts/glossary.rst),
and a traversal would follow a cycle until Python stops the recursion; but the
code looks for one only when `display_graph` is asked for (`has_cycles`,
driver.py:648). In the last two the numbers
are the order in which the traversal meets the nodes, and `AsyncAssumption` also
says that it meets only what is asked for or read. `TrackerAssumption` is
typing. `CacheAssumption` is typing as well, with two facts of a plan of tasks:
a node that is a task of its own is not computed by another, and what a task
reads is an input or computed by some task.

The first theorems about the cache have four hypotheses more. `NoneIsDistinct`:
None is no version and no dictionary. `Saver = {}` and `~DeleteAnytime`: without
them the properties fail, as `MCCacheSaver.cfg` and `MCCacheDeleted.cfg` show.
`RepeatedAreDetermined`: a node inside a block is a function of its cache key,
that is it does not read the world and reads no IGNOREd node. Without that,
`MCCacheLost.cfg` shows a file written under the version of another value
(section 6, entry 16). `NothingComputedInVain` has three more. `NoneIsNoKey`:
None is no cache key. `NothingIsHidden`: no node is IGNOREd and no dependency
DISABLEd, since a key that hides what a result was made from does not lead to it
(entries 14 and 15). `KeysStay`: one worker, or no node that is repeated, so that
no key is lost from a dictionary (entry 10). The run `cache` satisfies all of
them.

`CachingNeverFails` does without the last three of the four: savers, deletions
at any time and nodes that are not determined may spoil a result, but raise
nothing. Its own hypotheses are one for each way the hooks have of raising:
`ReadsWholeTasks`, that what a task reads of another task is a node it finds the
version of without that task's id (entry 9); `KeysStay`, which keeps versions as
well (entry 10); `FilesAreWhole`, in-memory stores, or one run at a time, with one
worker and no crash, so that no file is read half-way (entry 11); and
`FilesHavePickles`, that every result that goes to a file has a pickle (entry 15). `NoneIsNoVersion` is to versions that are not
hashes what `NoneIsDistinct` is to the others. The tasks of scenario `block`
satisfy all of them, and the entries show what happens without each.

**Grouping.** The recursive functions come first. A body that asks for lower
values only has a function that satisfies it (`RecursionExists`), and with it the
search, the nodes the outputs reach, and the two functions on graphs are what
their equations say (`DfsFacts`, `ReachedFacts`, `InsideFacts`, `ReadsFacts`). The
search is then followed for as long as it stays below a Collect node in a region
where whatever comes from a list comes from that of one expander (`SearchIn`): a
node it has left is never looked at differently again, it is in `out` if and
only if it reads the expander or another node of `out`, and what was finished
stays so (`Continues`). At its end `out` is a part of the block (`BlockFacts`).
That it is the whole of it goes the other way, upward from a supposed needed
node of the block that is not in `out`: the greatest one is no output, so a
needed node reads it, which is either in the block and higher, or the Collect
node, through which the search has met it (`BlockIsWhole`). So the groups of
different collectors have no node in common, and `GroupingInv` says that
`groups` lists those of the collectors looked at, each once, and `visited` has
their nodes. The plan is acyclic because the greatest node of a group is above
the greatest one of what the group waits for or is spawned by (`TopsDescend`).

**ExecutionState.** None of the properties is inductive alone. Three invariants
build on one another:

1. `ConsistencyInv`. The queue is consistent because a task that enters the pool
   is new, and it is new because what an expander spawns enters only through
   the expander's first success (`SpawnedAfterExpander`), and an update comes
   only for a held task, which is queued or running (`HeldStates`). From it
   follow the queue's consistency and that states advance, for any plan, also
   those that hang.
2. `DependencyInv` adds that the result cache holds exactly the successful
   tasks (`ResultOfSuccess`), that a length is known exactly of the successful
   expanders (`WidthOfSuccess`), and where a collector stands (`Bound`): either
   it was not bound and has the dependencies it was given, or it holds what
   they stood for and no longer has them. The dependencies of a waiting task
   name every instance its spec depends on only because the expander was
   successful when the task was realized, which is where `WellFormedPlan` is
   used. `InputsInCache` and `CollectsEveryElement` follow.
3. `ProgressInv` adds that tasks are realized in time, that a task waits only
   while something it depends on is incomplete, and that none is lost between
   queue and caller. Then, if some task of the plan is incomplete, one that
   none of its prerequisites precedes exists by acyclicity, and that one is in
   the queue, out with the caller, or failed (`FirstIncomplete`).

**RunGraph.** `LoopInv` relates the three sets of books: as long as nothing was
raised, the futures the loop keeps are those of the tasks submitted and not
returned, and these, with the one being dispatched, are the tasks the
ExecutionState takes to be out (`BooksAgree`). So every call the loop makes is
one the protocol allows, and `LoopImplementsExecutionState` follows for any
plan: by it the nine theorems about ExecutionState hold of a real run. The
limit of the pool comes in the same way: `PoolLimit` is inductive, with its
typing, for the protocol of Executors (what runs is among `activeFutures`, and
pruning removes only futures that are done), and the loop keeps to it. A result
that `poll` saw can only have moved from RUNNING to its end since (`Polled`). With a well-formed plan, `SuccessMeansComplete` and
`DependenciesSucceedFirst` then give whole results and the refinement of
TaskGraph.

**SubdagExecution.** The argument is about what pruning forgets. A value is
dropped when all that read it are in `computed`; these are `Shut`, that is
executed, passed or overridden, and stay so when they are dropped in turn
(`GoneForGood`). A frame of the traversal is of a node that is not shut, so
every dependency it has visited is still there (`FrameOK`). The frames are of
descending numbers and each waits for the one above (`Descending`, `Linked`), so
that a node has one frame at most and is executed once. That nothing is executed
in vain is an argument by descent: `Needed` is defined by recursion over the
graph, and the least node where its definition and the search disagree would
be read by one where they do (`NeededFacts`); the traversal enters a node only
from one that is needed (`AskedInv`) and leaves none of those unfinished
(`NeededIsDone`).

**ThreadPool.** The queue holds the items of a caller in ascending order, above
those that threads have taken (`InOrder`). So the item of the smallest node among
those held waits for none: what it reads has been submitted, is not queued any
more and is held by no thread, hence its future has ended.

**AsyncDriver.** What has passed its gather has read results, and results are
final (`HasRead`). If all outputs have results, so has every node: the greatest
without one would be read by a node that has one.

**CacheAdapter.** `CacheInv` says how little may be relied on. A version in the
dictionary of a run is, if it is there, that of the lane's own value
(`OwnVersions`): threads lose one another's entries, but never write into one
another's slots (`Written`), and the entry of a node that is not repeated is
not lost (`Kept`). A cache key is right when it is made (`KeyMade`) and stays
so, since the results it is made from do not change (`Stable`). What the
metadata store says of a key is a version of a value that agrees with the key as
far as the key says (`Entry`); a key that says nothing of a DISABLEd dependency
has a uuid instead, so that only the lane that stored it can find it
(`StoresInv`). What `do_node_execute` finds is therefore a right value
(`LookedUp`), and what `post_node_execute` files is filed under its own hash
(`PostVersion`), also when another thread has dropped the version and it is
taken from the metadata: this is where `RepeatedAreDetermined` is used. `CacheInv`
was checked by TLC on eight instances before it was proved. That nothing is
computed in vain is the converse: whatever file there is, the metadata has the
key that its value is found under (`FilesKeyed`), since a version is recorded
before its result is filed, and nothing is deleted; a lane holds its key in the
dictionary from the moment it made it until it has looked it up (`KeyHeld`),
which takes that the lanes of a run come one after the other (`OneTask`).
That the hooks raise nothing needs none of these values, only that they are
there (`SafeInv`): a node that is done has a version, which a later write to the
dictionary replaces but does not remove, because a new dictionary is put only
where there is none (`VersionOK`, `VersionsStay`); its reader finds it at its own
slot or at the standard one (`VersionIsRead`); and a file that is not whole is
being written by a lane, beside which no other is busy (`TornInv`, `BusyAlone`).

**TrackerClient.** The updates of a thread are ascending in what the server has,
in the batch and in the queue, and each of these parts is before the next, what
`stop` holds included (`StreamInv`). A flush sends the part of a run as it
stands in the batch (`OfRunFacts`, by descent on the length), and `stop` touches
the queue only when the worker is over (`PhaseInv`). What a flush has gone
through was received unless a request was refused (`SentInv`), and there is one
sentinel, which the worker of a program that does not call `stop` meets before
`stop` can (`SentinelInv`): from it `ExitLosesNothing` follows.
For the loss, an update that has been logged stays with the server, in the queue,
with `stop` or in the batch through every step but the one in which the worker
leaves its loop (`KeptStep`, `LostStep`). A full batch is flushed before `running`
is tested again, so what is lost in that step is less than a batch (`BatchInv`);
and the step loses nothing unless the user has called `stop`, since the `stop` of
`atexit` clears `running` when the worker is already over (`LostInv`).

**Liveness.** What a liveness property asks beside fairness is proved for four
components; the fairness rule, which needs ENABLED, is not within reach of these
tools.

- ThreadPool and AsyncDriver: the steps that an execution has ahead are a finite
  set `Work`, and each step removes one at least (`PoolRunIsFinite`,
  `AsyncRunIsFinite`); until all have ended, some caller, thread, driver or task
  of a node has what its next step takes (`PoolNeverStuck`, `AsyncNeverStuck`).
- RunGraph: the loop polls and rejects as often as it likes, so that no such set
  exists. Instead, at the head of the loop a worker is at work, or the end of a
  future is to be learnt, which this round does, or the head of the queue can be
  submitted (`LoopNeverInVain`). Each of these happens once per task. When
  nothing is in flight, nothing is out, so something is queued or all is
  complete (`NeverAllBlocked`); in the latter case the graph is SUCCESSFUL, since
  only tasks of the plan have a state, also those that only a look-up of the
  defaultdict has named (`KnownIsPlanned`). The plan without tasks is excluded:
  entry 4. `LoopNeverStuck` says that no call of the loop raises unexpectedly and
  that it waits for nothing but, at the shutdown, the workers.
- CacheAdapter: what a lane has left, in nodes and in stages of its node, is a
  number that each of its steps lowers and no other raises (`CacheRunIsFinite`);
  a run that is on is settled or has a lane that can go on (`CacheNeverStuck`:
  the least node left of a task that has begun, or the first task that has not);
  and a run that is over has all its tasks done unless a node raised
  (`CachingNeverFails`).

TLC confirms on the runs that the conditions named there (`CallerCan`,
`WorkerCan`, `DriverCan`, `TaskCan`, `MainCan`, `CanMove`) imply that the step is
enabled.

**Model-checked only.** The liveness properties `Termination`, `EveryCallerEnds`,
`EverythingEnds`, `BlocksSucceed`, `EventuallyDelivered` and `ProcessExits`, as
such. `EachHistoryIsRight`, which is about five fixed histories: that results
are right is proved for all histories that satisfy the hypotheses above, but the
histories with IGNOREd nodes or with nodes that read the world in a block do
not.

## 5. What the models leave out

- ExecutionState: the hook `post_task_expand` (`state.py:400`), which may raise
  after the tasks of a block are realized and before they are queued. The run is
  over then, and no property speaks of a queue that nobody reads.
- RunGraph: `KeyboardInterrupt`, which can arrive anywhere in the loop; one
  `ExecutionManager` used by two runs at a time (its second `init` raises); an
  executor whose `init` raises after another's succeeded; a task body that
  never ends. A process that is killed leaves nothing behind: the result cache
  is in memory.
- Grouping: the strategies that the builder does not use by default
  (`GroupNodesAllAsOne`, `GroupNodesByLevel`, `GroupNodesIndividually`), inputs
  of a wrong type, and outputs that are names of inputs only. The result of an
  override at the border of a block is not stated, since `group_nodes` calls it
  undefined; it is listed as a hazard.
- Executors: other executors than the local one and the pools, and execution
  managers supplied by the user. Ray and Dask executors submit to third-party
  systems.
- SubdagExecution: what a function computes from its arguments, and hooks that
  raise after the node was executed otherwise than as the node itself would.
- ThreadPool: the shutdown of the pool at the end of the interpreter, and a
  traversal that raises half-way, whose caller leaves while its nodes go on as
  those of a caller that raises do.
- AsyncDriver: `ainit`, hooks that are not asynchronous, the builder; a task
  that is cancelled before its first step; a cancellation of `raw_execute`
  inside its own hooks.
- CacheAdapter: results materialized by `@cache(format=...)`, the versions of a
  Collect node's items and of an EXPAND node (each task is given its item),
  overrides, the log and the views on it, collisions of hashes, results that
  cannot be hashed (their version is a new uuid each time they are computed; the
  slip `DataVersionUnhashable` leaves the uuid out), and stores of
  other processes that write other formats.
- TrackerClient: the requests that create projects, versions and runs, which the
  caller waits for, a server that never answers, and the asynchronous client.
- **Not modelled** at all: the components of the second table of section 1 that
  say so. Function modifiers, data quality and the summaries of tracking are
  functions of data without a state between calls; loaders, savers, the hub and
  telemetry are input and output; the plugins and the UI act through systems
  outside of the repository; examples and contributed dataflows are uses of
  the library, not parts of it.

## 6. Where code and documentation disagree

Entries with a configuration in place of a run are reproduced with it, by the
`MC` module that is named.

**Task-based execution** (`MCRunGraph`, `MCGrouping`)

1. `MCReturnHook.cfg`. A task that fails between `get_state` and `get_result`
   ends the run without its `post_task_return` (`executors.py:484`), which the
   lifecycle documents as called when a task returns. The state RUNNING read
   before decides.
2. `MCReadsExpander.cfg`. On the success of an expander only what it spawns is
   created (`state.py:378`): another task that reads nothing else never comes
   into being. The run succeeds, and reading its output raises KeyError.
3. Run `reads_block`. A task outside a block that reads a node inside it, beside
   the collector, waits for an id that never exists (`state.py:432`), and the
   loop spins for ever.
4. `MCEmptyPlan.cfg`. With nothing to do the graph is INITIALIZED, which does not
   end the loop (`state.py:461`). `Termination` is of plans that have a task.
5. Run `shared_block`. The search from a Collect node (`graph_functions.py:395`)
   walks through everything above it. If the Collect node of a second block
   also has a parameter that the first block's collector computes, the first
   block and its collector become part of the second as well: nodes are in two
   groups, although the docstring of `NodeGroup` says that they are in one, and
   the run raises KeyError.

**Tracker client** (`MCTrackerClient`)

6. `MCStop.cfg`. `stop` clears `running`; a worker with items in its batch then
   leaves its loop without a flush, and they are lost although the docstring
   promises that what remains is processed (`clients.py:257`). `OnlyStopLoses` bounds
   the loss.
7. `MCStopTwice.cfg`. After a `stop` by the user the sentinel of the watcher
   is left to the `stop` of `atexit`, whose `flush([None])` raises and leaves
   what is behind it (`clients.py:317`). `ExitDelivers` excludes it.

**Cache** (`MCCacheAdapter`; lines of `caching/adapter.py` where no file is named)

8. Run `cache_sqlite`. `INSERT OR IGNORE` keeps the first version of a cache key
   (`stores/sqlite.py:163`): a node that reads the world and is RECOMPUTEd to a
   new value leaves the old one to the next DEFAULT run, while
   `docs/concepts/caching.rst:238` recommends RECOMPUTE for reloading.
9. `MCCacheLevels.cfg`. In a task-based run whose tasks are not named after their
   nodes (one task per level), versions are filed under the id of the task. A
   task that reads a node of another finds None in its place, and the creation
   of the key raises TypeError (line 1229).
10. `MCCacheAssert.cfg`. Two threads create the nested dictionary of a node one
    after the other (line 753); the version of the first is lost, and the
    assertion of `post_node_execute` fails (line 1440).
11. `MCCacheTorn.cfg`. A process that dies between the truncation and the write of
    a result leaves a short file, and every later run that finds it raises
    instead of computing the node again (`stores/file.py:49`). `StoresAreSound` is
    about complete files.
12. `MCCacheDeleted.cfg`. A result that is deleted between `exists` and `get`
    (line 1330) is retrieved as None.
13. `MCCacheSaver.cfg`. The metadata of a data saver gets a version that does not
    depend on it (line 1388): what reads it keeps its cache key when the
    saver, or what it saves, changes.
14. `MCCacheOptIn.cfg`. With `default_behavior="disable"` the inputs are DISABLEd
    too (line 906), and what depends on them has a key of its own in every run:
    the nodes opted in are computed every time (`docs/concepts/caching.rst:301`).
15. `MCCacheIgnored.cfg`. An IGNOREd node has no cache key and is stored under the
    key None, and its result is written as well (lines 80 and 1434).
16. `MCCacheLost.cfg`. When the version of a repeated node was lost as in entry 10
    and another repetition with the same cache key has stored its own,
    `post_node_execute` takes that one (line 1437). If the node reads the world,
    its value is then filed under the hash of another value.

**Async driver** (`MCAsyncDriver`)

17. `MCAsyncCancelled.cfg`. For a node that is cancelled, `post_node_execute` is
    called with `success=True` and no result (`async_driver.py:138`), though
    `lifecycle/base.py:665` says that it tells whether the node succeeded.
18. When `execute` raises, hooks of nodes may still run after
    `post_graph_execute` (`async_driver.py:168`): `GraphHookIsLast` needs its
    hypothesis.

5, 6 and 7 were also reproduced by running the code with stubs for what it
imports.

## 7. Plan

Done, in this order: ExecutionState with its proofs; Executors; TaskGraph and
RunGraph, the composition and its refinements with their proofs; TrackerClient;
Grouping and Plans; SubdagExecution, CacheAdapter, ThreadPool and AsyncDriver
with NodeRun, and the proofs of all of them.

What is left, the most useful first:

1. The tracker adapter, whose task runs are keyed by the name of the node, and
   the asynchronous client.
2. A cache shared by more than two task-based runs with a Collect node, and
   `@cache(format=...)` with its materialized files.
3. `KeyboardInterrupt` in the run loop, and one `ExecutionManager` shared by two
   runs.
4. The other grouping strategies, which make plans of tasks that the models of
   ExecutionState and RunGraph already cover.

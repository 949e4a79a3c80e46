--------------------------- MODULE ExecutionState ---------------------------
(***************************************************************************)
(* The class ExecutionState of hamilton/execution/state.py: the source of  *)
(* truth about the tasks of one task-based run.  It turns the TaskSpecs of *)
(* a plan into TaskImplementations, queues each of them once everything it *)
(* depends on has succeeded, and binds the inputs of the one it releases.  *)
(*                                                                         *)
(* The object is passive: run_graph_to_completion calls it.  Next below is *)
(* the most general caller that keeps to the protocol of the docstrings    *)
(* (it rejects or updates only what it was released); RunGraph.tla is the  *)
(* real one and is checked to implement Spec.                              *)
(***************************************************************************)
EXTENDS Plans, Integers, SequencesExt

CONSTANT MaxGroups   \* the most elements an expander may return

(* Group ids are str(0), str(1), ...: the position in the expanded list. *)
GroupIds == 0 .. MaxGroups - 1

(* TaskImplementation.determine_task_id: the id of a realized task is made *)
(* of its base_id and its group_id (and of the spawning task, which the    *)
(* base_id determines).                                                    *)
TaskIds == BaseTasks \X (GroupIds \cup {None})
Base(t)  == t[1]
Group(t) == t[2]
Static(b) == <<b, None>>

ASSUME PlanAssumption ==
    /\ IsFiniteSet(BaseTasks)
    /\ MaxGroups \in Nat
    /\ None \notin 0 .. MaxGroups
    /\ None \notin Seq(TaskIds)
    /\ ClosedPlan

VARIABLES
    taskPool,      \* the keys of task_pool
    taskStates,    \* task_states; Absent for a key the dict does not hold
    realizedDeps,  \* realized_dependencies of each task of the pool: base_id
                   \* -> task ids; <<>> for a key that is not in the dict
    taskQueue,     \* task_queue, as task ids
    results,       \* the tasks whose outputs are in the result cache
    width,         \* width[e]: the length of the list the expander e wrote to
                   \* the cache, None before it did
    collected,     \* collected[t]: what is bound to the collect argument of
                   \* the gatherer t (the tasks whose values it holds, in
                   \* order), None before the first bind
    held           \* the tasks released to the caller and not given back

esvars == <<taskPool, taskStates, realizedDeps, taskQueue, results, width,
            collected, held>>

Absent  == "absent"
TaskState == {"uninitialized", "initialized", "queued", "running",
              "successful", "failed"}
IsTerminal(s) == s \in {"successful", "failed"}

NoDeps == [d \in BaseTasks |-> <<>>]

TypeOK ==
    /\ taskPool \subseteq TaskIds
    /\ taskStates \in [TaskIds -> TaskState \cup {Absent}]
    /\ realizedDeps \in [TaskIds -> [BaseTasks -> Seq(TaskIds)]]
    /\ taskQueue \in Seq(TaskIds)
    /\ results \subseteq TaskIds
    /\ width \in [BaseTasks -> 0 .. MaxGroups \cup {None}]
    /\ collected \in [TaskIds -> Seq(TaskIds) \cup {None}]
    /\ held \subseteq TaskIds

-----------------------------------------------------------------------------
(* The dependencies of a realized task *)

(* realize_parameterized_group repeats, for every element, the tasks that  *)
(* the expander spawns; it creates the collectors it spawns once.          *)
TasksToRepeat(e) == {b \in BaseTasks : /\ Spawner[b] = e
                                       /\ ~IsExpander(b) /\ ~IsGatherer(b)}
Collectors(e) == {b \in BaseTasks : Spawner[b] = e /\ IsGatherer(b)}

(* realize_task's default: every dependency stands for itself. *)
StaticDeps(b) == [d \in BaseTasks |->
                    IF d \in BaseDeps[b] THEN <<Static(d)>> ELSE <<>>]

(* The dependencies of a repeated task.  For one inside the group the code *)
(* stores the string name_map[dependency] where the others have a list of  *)
(* ids: iterating it yields characters, which name no task that is ever    *)
(* realized.  Static(d) stands for them: a repeated d has no such task.    *)
RepeatedDeps(b) == StaticDeps(b)

(* Slip: the collector keeps its static dependencies. *)
CollectorDepsStatic(b, e, n) == StaticDeps(b)
(* Slip: it does not wait for the last element. *)
CollectorDepsButLast(b, e, n) ==
    [d \in BaseTasks |->
        IF d \in BaseDeps[b] \cap TasksToRepeat(e)
        THEN [i \in 1 .. n - 1 |-> <<d, i - 1>>]
        ELSE StaticDeps(b)[d]]

(* The dependencies of a collector: all the repetitions of a task of the   *)
(* group, in the order of the expanded list.                               *)
CollectorDeps(b, e, n) ==
    [d \in BaseTasks |->
        IF d \in BaseDeps[b] \cap TasksToRepeat(e)
        THEN [i \in 1 .. n |-> <<d, i - 1>>]
        ELSE StaticDeps(b)[d]]

-----------------------------------------------------------------------------
(* __init__ and get_graph_state *)

Roots == {b \in BaseTasks : BaseDeps[b] = {}}

(* The plan comes from list(set(...)) of nodes, so its order, and with it  *)
(* the order of the pool and of a batch of tasks appended to the queue, is *)
(* whatever the set yields: any order.                                     *)
Init ==
    /\ taskPool = {Static(b) : b \in Roots}
    /\ taskStates = [t \in TaskIds |-> IF t \in taskPool THEN "queued" ELSE Absent]
    /\ realizedDeps = [t \in TaskIds |-> NoDeps]
    /\ taskQueue \in SetToSeqs(taskPool)
    /\ results = {}
    /\ width = [b \in BaseTasks |-> None]
    /\ collected = [t \in TaskIds |-> None]
    /\ held = {}

(* get_graph_state: a function of the values of the dict task_states. *)
Known == {t \in TaskIds : taskStates[t] # Absent}

GraphState ==
    IF      \A t \in Known : taskStates[t] = "initialized" THEN "initialized"
    ELSE IF \A t \in Known : taskStates[t] = "successful"  THEN "successful"
    ELSE IF \E t \in Known : taskStates[t] = "failed"      THEN "failed"
    ELSE "running"

-----------------------------------------------------------------------------
(* release_next_task, bind_task and reject_task *)

(* What bind_task reads of the cache without optional=True.  A gatherer    *)
(* reads the collected argument under the namespace of each repetition,    *)
(* any other input is read under the global one.  A key that is missing is *)
(* a KeyError; InputsInCache states that none is.                          *)
GatheredFrom(t) == realizedDeps[t][CollectFrom[Base(t)]]

ReadsOf(t) ==
    IF IsGatherer(Base(t))
    THEN ToSet(GatheredFrom(t))
         \cup {Static(d) : d \in BaseDeps[Base(t)] \ {CollectFrom[Base(t)]}}
    ELSE {Static(d) : d \in BaseDeps[Base(t)]}

(* bind keeps what an earlier bind of the same task already bound:         *)
(* {**dynamic_inputs, **self.dynamic_inputs}.                              *)
BindLatest(t, args) == args  \* slip: the later bind wins
Bind(t, args) == IF collected[t] = None THEN args ELSE collected[t]

(* bind_task of a gatherer deletes the dependency it has gathered from     *)
(* realized_dependencies, unless the list was empty already.               *)
BindTask(t) ==
    IF IsGatherer(Base(t))
    THEN /\ collected' = [collected EXCEPT ![t] = Bind(t, GatheredFrom(t))]
         /\ realizedDeps' = [realizedDeps EXCEPT ![t][CollectFrom[Base(t)]] = <<>>]
    ELSE UNCHANGED <<collected, realizedDeps>>

ReleaseNextTask(t) ==
    /\ taskQueue # <<>>
    /\ t = Head(taskQueue)
    /\ ReadsOf(t) \subseteq results
    /\ taskQueue' = Tail(taskQueue)
    /\ BindTask(t)
    /\ held' = held \cup {t}
    /\ UNCHANGED <<taskPool, taskStates, results, width>>

RejectTaskLost(t) ==  \* slip: the task is not put back
    /\ held' = held \ {t}
    /\ UNCHANGED <<taskPool, taskStates, realizedDeps, taskQueue, results, width, collected>>
RejectTaskSpec(t) ==  \* slip: the spec is put back, not the realized task
    /\ taskQueue' = <<Base(t)>> \o taskQueue
    /\ held' = held \ {t}
    /\ UNCHANGED <<taskPool, taskStates, realizedDeps, results, width, collected>>
RejectTask(t) ==
    /\ taskQueue' = <<t>> \o taskQueue
    /\ held' = held \ {t}
    /\ UNCHANGED <<taskPool, taskStates, realizedDeps, results, width, collected>>

-----------------------------------------------------------------------------
(* update_task_state *)

(* The tasks a success of t realizes.  An expander that returned n         *)
(* elements: its group, once per element, and its collectors.  Any other   *)
(* task: those that depend on it, that nothing spawns (or that expand) and *)
(* that are not in the pool yet.  realize_parameterized_group compares the *)
(* spawning base_id with the task_id, which are equal for a static task.   *)
Repetitions(e, n) == TasksToRepeat(e) \X (0 .. n - 1)
ExpandTask(e, n)  == Repetitions(e, n) \cup {Static(c) : c \in Collectors(e)}

Dependents(b) == {c \in BaseTasks : b \in BaseDeps[c]}
CandidatesNotExpanders(b) ==  \* slip: an expander is never realized
    {c \in Dependents(b) : Spawner[c] = None /\ ~IsExpander(c)}
Candidates(b) == {c \in Dependents(b) : Spawner[c] = None \/ IsExpander(c)}

Realize(t, n) == IF IsExpander(Base(t))
                 THEN ExpandTask(Base(t), n)
                 ELSE {Static(c) : c \in Candidates(Base(t))} \ taskPool

RealizeDeps(u, t, n) ==
    IF IsExpander(Base(t))
    THEN IF IsGatherer(Base(u)) THEN CollectorDeps(Base(u), Base(t), n)
                                ELSE RepeatedDeps(Base(u))
    ELSE StaticDeps(Base(u))

(* Node enqueuing, over the pool, states and dependencies that node        *)
(* creation has left.                                                      *)
DependenciesOf(u, deps) == UNION {ToSet(deps[u][d]) : d \in BaseTasks}
WaitingOrQueued(pool, states) ==  \* slip: queued tasks are considered again
    {u \in pool : states[u] \in {"initialized", "queued"}}
WaitingUnended(pool, states) ==  \* slip: so is every task that has not ended
    {u \in pool : ~IsTerminal(states[u])}
WaitingAndNew(pool, states) ==  \* slip: only tasks realized just now are considered
    {u \in pool \ taskPool : states[u] = "initialized"}
Waiting(pool, states) == {u \in pool : states[u] = "initialized"}
TasksToEnqueueEarly(pool, states, deps) ==  \* slip: running is good enough
    {u \in Waiting(pool, states) :
        \A v \in DependenciesOf(u, deps) : states[v] \in {"running", "successful"}}
TasksToEnqueueRealized(pool, states, deps) ==  \* slip: looks at the pool only
    {u \in Waiting(pool, states) :
        \A v \in DependenciesOf(u, deps) \cap pool : states[v] = "successful"}
TasksToEnqueue(pool, states, deps) ==
    {u \in Waiting(pool, states) :
        \A v \in DependenciesOf(u, deps) : states[v] = "successful"}

(* Looking up a dependency that is not realized yet inserts it: the dict   *)
(* is a defaultdict.                                                       *)
LookedUp(pool, states, deps) ==
    UNION {DependenciesOf(u, deps) : u \in Waiting(pool, states)}

Enqueue(pool, states, deps) ==
    LET ready == TasksToEnqueue(pool, states, deps)
        seen  == LookedUp(pool, states, deps)
    IN  /\ taskStates' = [u \in TaskIds |->
              IF u \in ready THEN "queued"
              ELSE IF u \in seen /\ states[u] = Absent THEN "uninitialized"
              ELSE states[u]]
        /\ \E batch \in SetToSeqs(ready) : taskQueue' = taskQueue \o batch

(* An expander returns a list of any length, an empty one included. *)
Lengths(b) == IF IsExpander(b) THEN 0 .. MaxGroups ELSE {0}

(* t succeeded; n is the length of the list an expander returned. *)
TaskSuccessful(t, n) ==
    LET new    == Realize(t, n)
        pool   == taskPool \cup new
        states == [u \in TaskIds |-> IF u \in new THEN "initialized"
                                     ELSE IF u = t THEN "successful"
                                     ELSE taskStates[u]]
        deps   == [u \in TaskIds |-> IF u \in new THEN RealizeDeps(u, t, n)
                                     ELSE realizedDeps[u]]
    IN  /\ results' = results \cup {t}
        /\ width' = IF IsExpander(Base(t)) THEN [width EXCEPT ![Base(t)] = n]
                                           ELSE width
        /\ taskPool' = pool
        /\ realizedDeps' = deps
        /\ Enqueue(pool, states, deps)
        /\ held' = held \ {t}
        /\ UNCHANGED collected

TaskFailed(t) ==
    /\ taskStates' = [taskStates EXCEPT ![t] = "failed"]
    /\ held' = held \ {t}
    /\ UNCHANGED <<taskPool, realizedDeps, taskQueue, results, width, collected>>

TaskRunning(t) ==
    /\ taskStates' = [taskStates EXCEPT ![t] = "running"]
    /\ UNCHANGED <<taskPool, realizedDeps, taskQueue, results, width, collected, held>>

UpdateTaskState(t, state) ==
    \/ state = "successful" /\ \E n \in Lengths(Base(t)) : TaskSuccessful(t, n)
    \/ state = "failed"     /\ TaskFailed(t)
    \/ state = "running"    /\ TaskRunning(t)

-----------------------------------------------------------------------------
(* The caller's part.  It updates a task it was released, until that has   *)
(* ended, and rejects only one it has not submitted and so never updated.  *)
Next ==
    \E t \in TaskIds :
        \/ ReleaseNextTask(t)
        \/ t \in held /\ taskStates[t] = "queued" /\ RejectTask(t)
        \/ t \in held /\ \E state \in {"running", "successful", "failed"} :
                            UpdateTaskState(t, state)

ESSpec == Init /\ [][Next]_esvars

-----------------------------------------------------------------------------
(* Properties *)

Queued == ToSet(taskQueue)

(* The tasks a dependency on d stands for, once d's expander has returned. *)
Instances(d) ==
    IF InBlock(d)
    THEN IF width[Spawner[d]] = None THEN {}
         ELSE {d} \X (0 .. width[Spawner[d]] - 1)
    ELSE {Static(d)}

(* Every task of b has succeeded, and no more tasks of b will come. *)
Complete(b) == /\ InBlock(b) => width[Spawner[b]] # None
               /\ \A t \in Instances(b) : taskStates[t] = "successful"

(* The assertion of update_task_state, "in the queue but not queued", can  *)
(* never fail; nor is a task queued twice, or queued while it is out.      *)
QueueConsistent ==
    /\ \A t \in Queued : t \in taskPool /\ taskStates[t] = "queued"
    /\ IsInjective(taskQueue)
    /\ Queued \cap held = {}

(* A task is queued, and so run, only when every task its spec depends on  *)
(* has succeeded - for a collector, every repetition of its block.         *)
DependenciesFirst ==
    \A t \in taskPool : taskStates[t] # "initialized" =>
        \A d \in BaseDeps[Base(t)] : Complete(d)

(* The docstring of update_task_state: "We then enqueue all tasks that (a) *)
(* depend on them and (b) only have dependencies that are now complete."   *)
BeenQueued(t) == taskStates[t] \notin {Absent, "uninitialized", "initialized"}

EnqueuesCompleteDependents ==
    \A b \in BaseTasks : (\A d \in BaseDeps[b] : Complete(d)) =>
        \A t \in Instances(b) : BeenQueued(t)

(* release_next_task never meets a KeyError: what a queued task reads has  *)
(* been written, also when it is released again after a rejection.         *)
InputsInCache == \A t \in Queued : ReadsOf(t) \subseteq results

(* A collector is handed each element of its block once and in order, even *)
(* when it was rejected and bound again after bind_task had emptied its    *)
(* realized_dependencies.                                                  *)
CollectsEveryElement ==
    \A t \in held : IsGatherer(Base(t)) =>
        LET b == CollectFrom[Base(t)] IN
        InBlock(b) /\ Spawner[b] = Spawner[Base(t)] =>
            collected[t] = [i \in 1 .. width[Spawner[b]] |-> <<b, i - 1>>]

(* get_graph_state does not call a run SUCCESSFUL before every task of the *)
(* plan and every repetition has succeeded, though it sees only the tasks  *)
(* realized so far.                                                        *)
SuccessfulIsComplete ==
    GraphState = "successful" => \A b \in BaseTasks : Complete(b)

(* As long as nothing failed and something is left to do, there is a task  *)
(* to release or one out with the caller: the tasks never all wait.        *)
NeverAllBlocked ==
    \/ Queued \cup held # {}
    \/ \E t \in taskPool : taskStates[t] = "failed"
    \/ \A b \in BaseTasks : Complete(b)

(* A state only advances: a task that ended is never run or realized again *)
(* and a realized one is never realized over.                              *)
Rank(s) == CASE s = Absent -> 0 [] s = "uninitialized" -> 1
             [] s = "initialized" -> 2 [] s = "queued" -> 3
             [] s = "running" -> 4 [] s \in {"successful", "failed"} -> 5

StatesAdvance ==
    [][\A t \in TaskIds : \/ taskStates'[t] = taskStates[t]
                          \/ Rank(taskStates[t]) < Rank(taskStates'[t])]_esvars

-----------------------------------------------------------------------------
(* The invariants the properties rest on: ConsistencyInv is inductive for  *)
(* every plan, DependencyInv and ProgressInv for the well-formed ones      *)
(* (ExecutionState_proofs).                                                *)

(* A task has a state of its own from the moment it enters the pool; a     *)
(* look-up of the defaultdict only ever adds "uninitialized".              *)
PoolStates ==
    \A t \in TaskIds : t \in taskPool <=> taskStates[t] \notin {Absent, "uninitialized"}

HeldStates == \A t \in held : taskStates[t] \in {"queued", "running"}

(* Only the success of its expander brings a spawned task into the pool,   *)
(* so that the expander's own success, its first, realizes nothing over.   *)
SpawnedByPlan(t) == Group(t) # None \/ BaseDeps[Base(t)] # {}
SpawnedAfterExpander ==
    \A t \in taskPool :
        /\ IsExpander(Base(t)) => Group(t) = None
        /\ ~IsExpander(Base(t)) /\ Spawner[Base(t)] # None /\ SpawnedByPlan(t) =>
              taskStates[Static(Spawner[Base(t)])] = "successful"
        /\ Group(t) # None => Spawner[Base(t)] # None

ConsistencyInv == /\ TypeOK
                  /\ PoolStates
                  /\ HeldStates
                  /\ QueueConsistent
                  /\ SpawnedAfterExpander

(* The realized dependencies a task was given; they do not change while    *)
(* the task is in the pool, since its expander ended before.               *)
ExpectedDeps(t) ==
    LET b == Base(t) IN
    IF IsGatherer(b) /\ Spawner[b] # None
    THEN CollectorDeps(b, Spawner[b], width[Spawner[b]])
    ELSE StaticDeps(b)

(* A gatherer has either not been bound, and has its dependencies, or it   *)
(* has gathered what the collected one stood for, and no longer has it.    *)
BoundOrWaiting(t) ==
    \/ /\ collected[t] = None
       /\ realizedDeps[t] = ExpectedDeps(t)
       /\ t \in held => ~IsGatherer(Base(t))
    \/ /\ IsGatherer(Base(t))
       /\ collected[t] # None
       /\ collected[t] = ExpectedDeps(t)[CollectFrom[Base(t)]]
       /\ GatheredFrom(t) = <<>>
       /\ taskStates[t] # "initialized"

ResultOfSuccess == \A t \in TaskIds : t \in results <=> taskStates[t] = "successful"
WidthOfSuccess ==
    \A e \in BaseTasks :
        width[e] # None <=> IsExpander(e) /\ taskStates[Static(e)] = "successful"
Bound == /\ \A t \in taskPool : BoundOrWaiting(t)
         /\ \A t \in TaskIds \ taskPool : collected[t] = None

DependencyInv == /\ ConsistencyInv
                 /\ ResultOfSuccess
                 /\ WidthOfSuccess
                 /\ Bound
                 /\ DependenciesFirst

(* Every task is realized as soon as what creates it has happened, waits   *)
(* only while something it depends on is not complete, and is then either  *)
(* in the queue or with the caller until it ends.                          *)
RealizedInTime ==
    /\ \A b \in Roots : Static(b) \in taskPool
    /\ \A b \in BaseTasks : Spawner[b] # None /\ width[Spawner[b]] # None =>
          Instances(b) \subseteq taskPool
    /\ \A b \in BaseTasks : \A d \in BaseDeps[b] :
          Spawner[b] = None /\ ~IsExpander(d) /\ taskStates[Static(d)] = "successful" =>
              Static(b) \in taskPool
WaitsForSomething ==
    \A t \in taskPool : taskStates[t] = "initialized" =>
        \E d \in BaseDeps[Base(t)] : ~Complete(d)
NoneLost ==
    \A t \in taskPool : taskStates[t] \in {"queued", "running"} => t \in Queued \cup held

ProgressInv == /\ DependencyInv
               /\ RealizedInTime
               /\ WaitsForSomething
               /\ NoneLost
=============================================================================

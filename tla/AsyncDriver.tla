----------------------------- MODULE AsyncDriver -----------------------------
(***************************************************************************)
(* raw_execute of hamilton/async_driver.py.  The traversal makes one task  *)
(* of the event loop per node, given the tasks of the nodes it reads; each *)
(* gathers their results, calls the pre hook, the function and the post    *)
(* hook, and may be suspended in all of them.  The driver gathers the      *)
(* outputs.  gather raises at the first failure and lets the others go on. *)
(*                                                                         *)
(* A task that is cancelled cancels what it awaits, and CancelledError is  *)
(* no Exception.  The caller may cancel the driver (asyncio.wait_for does  *)
(* at its timeout), and asyncio.run cancels what is left when its main     *)
(* coroutine has ended.  The nodes are numbered in the order of traversal. *)
(***************************************************************************)
EXTENDS Integers, Sequences, FiniteSets

CONSTANTS N,        \* the nodes the traversal meets are 1..N
          Graphs    \* what they read, and the outputs asked for

Node == 1..N

ASSUME AsyncAssumption ==
    /\ N \in Nat
    /\ \A g \in Graphs : /\ g.reads \in [Node -> SUBSET Node]
                         /\ \A n \in Node : \A d \in g.reads[n] : d < n
                         /\ g.outputs \in SUBSET Node
                         /\ \A d \in Node : \/ d \in g.outputs
                                            \/ \E n \in Node : d \in g.reads[n]

VARIABLES
    graph,      \* the one of the driver
    stage,      \* stage[n] of its task: none, gather, pre, function, post, ended
    called,     \* called[n]: whether the function of n has been called
    end,        \* how the try block of n ended, and then its task: none,
                \* result, error or cancelled
    told,       \* told[n]: success as given to the post hook, or none
    interrupt,  \* interrupt[n]: CancelledError is on its way to the task
    driver,     \* starting, gather, post, returned or raised
    success,    \* of the driver, as given to its post hook
    cancelled,  \* whether the caller has cancelled the driver
    shutdown    \* whether asyncio.run has cancelled what was left

advars == <<graph, stage, called, end, told, interrupt, driver, success, cancelled, shutdown>>
tasks == <<stage, called, end, told, interrupt>>

ADInit ==
    /\ graph \in Graphs
    /\ stage = [n \in Node |-> "none"]
    /\ called = [n \in Node |-> FALSE]
    /\ end = [n \in Node |-> "none"]
    /\ told = [n \in Node |-> "none"]
    /\ interrupt = [n \in Node |-> FALSE]
    /\ driver = "starting"
    /\ success = FALSE
    /\ cancelled = FALSE
    /\ shutdown = FALSE

Result(n) == stage[n] = "ended" /\ end[n] = "result"
Broken(n) == stage[n] = "ended" /\ end[n] # "result"
Unfinished(n) == stage[n] \notin {"none", "ended"}

-----------------------------------------------------------------------------
(* The driver.  The pre hook of the graph raises, or the traversal makes   *)
(* the tasks without suspending.  If it raises at a node, the ones it has  *)
(* made go on.                                                             *)
PreGraphRaises ==
    /\ driver = "starting"
    /\ driver' = "raised"
    /\ UNCHANGED <<graph, tasks, success, cancelled, shutdown>>

Traverse ==
    /\ driver = "starting"
    /\ \E k \in 0..N :
          /\ stage' = [n \in Node |-> IF n <= k THEN "gather" ELSE "none"]
          /\ driver' = IF k = N THEN "gather" ELSE "post"
    /\ UNCHANGED <<graph, called, end, told, interrupt, success, cancelled, shutdown>>

GatherFirst ==  \* slip: the driver goes on with the first result
    /\ driver = "gather"
    /\ ~cancelled
    /\ \E n \in graph.outputs : Result(n)
    /\ driver' = "post"
    /\ success' = TRUE
    /\ UNCHANGED <<graph, tasks, cancelled, shutdown>>
Gather ==
    /\ driver = "gather"
    /\ ~cancelled
    /\ \A n \in graph.outputs : Result(n)
    /\ driver' = "post"
    /\ success' = TRUE
    /\ UNCHANGED <<graph, tasks, cancelled, shutdown>>

GatherRaisesError ==  \* slip: only an Exception ends the wait
    /\ driver = "gather"
    /\ \E n \in graph.outputs : Broken(n) /\ end[n] = "error"
    /\ driver' = "post"
    /\ UNCHANGED <<graph, tasks, success, cancelled, shutdown>>
GatherRaises ==
    /\ driver = "gather"
    /\ \/ \E n \in graph.outputs : Broken(n)
       \/ cancelled /\ \A n \in graph.outputs : Result(n)
    /\ driver' = "post"
    /\ UNCHANGED <<graph, tasks, success, cancelled, shutdown>>

(* The end of post_graph_execute, which may raise.                         *)
PostGraph ==
    /\ driver = "post"
    /\ driver' \in IF success THEN {"returned", "raised"} ELSE {"raised"}
    /\ UNCHANGED <<graph, tasks, success, cancelled, shutdown>>

-----------------------------------------------------------------------------
(* new_fn, the task of a node.                                             *)
InputsEnded(n) ==  \* slip: gather(return_exceptions=True)
    /\ stage[n] = "gather"
    /\ \A d \in graph.reads[n] : stage[d] = "ended"
    /\ stage' = [stage EXCEPT ![n] = "pre"]
    /\ UNCHANGED <<graph, called, end, told, interrupt, driver, success, cancelled, shutdown>>
InputsGathered(n) ==
    /\ stage[n] = "gather"
    /\ \A d \in graph.reads[n] : Result(d)
    /\ stage' = [stage EXCEPT ![n] = "pre"]
    /\ UNCHANGED <<graph, called, end, told, interrupt, driver, success, cancelled, shutdown>>

(* The first failure of an input is the node's own: no hook is called.     *)
GatherInputsRaises(n) ==
    /\ stage[n] = "gather"
    /\ \E d \in graph.reads[n] :
          /\ Broken(d)
          /\ end' = [end EXCEPT ![n] = end[d]]
    /\ stage' = [stage EXCEPT ![n] = "ended"]
    /\ UNCHANGED <<graph, called, told, interrupt, driver, success, cancelled, shutdown>>

PreHook(n) ==
    /\ stage[n] = "pre"
    /\ stage' = [stage EXCEPT ![n] = "function"]
    /\ called' = [called EXCEPT ![n] = TRUE]
    /\ UNCHANGED <<graph, end, told, interrupt, driver, success, cancelled, shutdown>>

(* pre_node_execute_errored: no post hook.                                 *)
PreHookRaises(n) ==
    /\ stage[n] = "pre"
    /\ stage' = [stage EXCEPT ![n] = "ended"]
    /\ end' = [end EXCEPT ![n] = "error"]
    /\ UNCHANGED <<graph, called, told, interrupt, driver, success, cancelled, shutdown>>

(* How the try block ended; then the finally block calls the post hook.    *)
FunctionEnds(n) ==
    /\ stage[n] = "function"
    /\ stage' = [stage EXCEPT ![n] = "post"]
    /\ \/ /\ end' = [end EXCEPT ![n] = "result"]
          /\ told' = [told EXCEPT ![n] = "success"]
       \/ /\ end' = [end EXCEPT ![n] = "error"]
          /\ told' = [told EXCEPT ![n] = "failure"]
    /\ UNCHANGED <<graph, called, interrupt, driver, success, cancelled, shutdown>>

PostHook(n) ==
    /\ stage[n] = "post"
    /\ stage' = [stage EXCEPT ![n] = "ended"]
    /\ end' \in {end, [end EXCEPT ![n] = "error"]}
    /\ UNCHANGED <<graph, called, told, interrupt, driver, success, cancelled, shutdown>>

-----------------------------------------------------------------------------
(* Cancellation: along what is awaited, to every unfinished task.          *)
Awaited == LET below[n \in Node] == {n} \cup UNION {IF stage[n] = "gather" THEN below[d] ELSE {} : d \in graph.reads[n]}
           IN  UNION {below[n] : n \in graph.outputs}

Cancel ==
    /\ driver = "gather"
    /\ ~cancelled
    /\ cancelled' = TRUE
    /\ interrupt' = [n \in Node |-> n \in Awaited /\ Unfinished(n)]
    /\ UNCHANGED <<graph, stage, called, end, told, driver, success, shutdown>>

Shutdown ==
    /\ driver \in {"returned", "raised"}
    /\ ~shutdown
    /\ shutdown' = TRUE
    /\ interrupt' = [n \in Node |-> Unfinished(n)]
    /\ UNCHANGED <<graph, stage, called, end, told, driver, success, cancelled>>

(* CancelledError at an await.  The gather of a node raises when the first *)
(* of its inputs has ended, or all; what it awaits in a hook or a function *)
(* raises at once.  Not caught in the try block, it leaves success TRUE.   *)
InterruptGather(n) ==
    /\ stage[n] = "gather"
    /\ interrupt[n]
    /\ \/ \E d \in graph.reads[n] : Broken(d)
       \/ \A d \in graph.reads[n] : Result(d)
    /\ stage' = [stage EXCEPT ![n] = "ended"]
    /\ end' = [end EXCEPT ![n] = "cancelled"]
    /\ interrupt' = [interrupt EXCEPT ![n] = FALSE]
    /\ UNCHANGED <<graph, called, told, driver, success, cancelled, shutdown>>

Interrupt(n) ==
    /\ stage[n] \in {"pre", "function"}
    /\ interrupt[n]
    /\ stage' = [stage EXCEPT ![n] = "post"]
    /\ end' = [end EXCEPT ![n] = "cancelled"]
    /\ told' = [told EXCEPT ![n] = "success"]
    /\ interrupt' = [interrupt EXCEPT ![n] = FALSE]
    /\ UNCHANGED <<graph, called, driver, success, cancelled, shutdown>>

InterruptPost(n) ==
    /\ stage[n] = "post"
    /\ interrupt[n]
    /\ stage' = [stage EXCEPT ![n] = "ended"]
    /\ end' = [end EXCEPT ![n] = "cancelled"]
    /\ interrupt' = [interrupt EXCEPT ![n] = FALSE]
    /\ UNCHANGED <<graph, called, told, driver, success, cancelled, shutdown>>

-----------------------------------------------------------------------------
DriverStep == PreGraphRaises \/ Traverse \/ Gather \/ GatherRaises \/ PostGraph \/ Shutdown
TaskStep(n) ==
    \/ InputsGathered(n) \/ GatherInputsRaises(n) \/ PreHook(n) \/ PreHookRaises(n)
    \/ FunctionEnds(n) \/ PostHook(n)
    \/ InterruptGather(n) \/ Interrupt(n) \/ InterruptPost(n)

ADNext == DriverStep \/ Cancel \/ \E n \in Node : TaskStep(n)

(* The loop runs what is ready, and what hooks and functions await comes.  *)
ADFairness == WF_advars(DriverStep) /\ \A n \in Node : WF_advars(TaskStep(n))

ADSpec == ADInit /\ [][ADNext]_advars /\ ADFairness

-----------------------------------------------------------------------------
(* No caller waits forever and no task is left waiting, whatever fails or  *)
(* is cancelled: a gather always learns of the end of what it waits for.   *)
EverythingEnds == <>(/\ driver \in {"returned", "raised"}
                     /\ \A n \in Node : ~Unfinished(n))

(* A post_graph_execute that is told of a success is the last hook of the  *)
(* run, after the post hook of every node.  Only when execute raises may   *)
(* hooks of nodes come after it.                                           *)
GraphHookIsLast ==
    success => \A n \in Node : Result(n) /\ told[n] = "success"

(* The docstring of post_node_execute: success is whether the node has     *)
(* executed successfully.  Not so for one that was cancelled.              *)
ToldTheTruth ==
    \A n \in Node : stage[n] = "post" /\ told[n] = "success" => end[n] = "result"

(* Each node once, after what it reads, and the outputs before the result. *)
Status(n) == CASE ~called[n] -> "idle"
               [] called[n] /\ stage[n] # "ended" -> "running"
               [] called[n] /\ Result(n) -> "done"
               [] called[n] /\ Broken(n) -> "failed"

NR == INSTANCE NodeRun WITH
         reads   <- graph.reads,
         wanted  <- graph.outputs,
         status  <- [n \in Node |-> Status(n)],
         outcome <- IF driver \in {"returned", "raised"} THEN driver ELSE "none"

ImplementsNodeRun == NR!NRSpec
=============================================================================

------------------------------ MODULE RunGraph ------------------------------
(***************************************************************************)
(* run_graph_to_completion of hamilton/execution/executors.py over an      *)
(* ExecutionState and the executors, up to the read of the requested       *)
(* outputs in TaskBasedGraphExecutor.execute (hamilton/driver.py).         *)
(*                                                                         *)
(* The loop runs in one thread; the workers of the pool end tasks between  *)
(* any two of its steps, so a future may be done by the time its result is *)
(* asked for although get_state has just said RUNNING.                     *)
(***************************************************************************)
EXTENDS ExecutionState

CONSTANTS MaxTasks,   \* max_tasks of the remote executor
          Requested   \* the base tasks that compute final_vars

(* DefaultExecutionManager.get_executor_for_task *)
RemoteTasks == {t \in TaskIds : Purpose[Base(t)] = "execute_block"}

VARIABLES
    future, activeFutures, initialized,  \* see Executors
    pc,           \* where run_graph_to_completion stands
    nextTask,     \* next_task, None if there is none
    taskFutures,  \* the keys of task_futures in insertion order
    toPoll,       \* what is left of the copy of task_futures being polled
    polled,       \* state: what get_state returned for Head(toPoll)
    raised,       \* the task whose exception is propagating, None if none is
    submitted,    \* the tasks pre_task_submission was called for
    returned      \* the tasks post_task_return was called for

INSTANCE Executors WITH Tasks <- TaskIds

futurevars == <<future, activeFutures, initialized>>
loopvars == <<pc, nextTask, taskFutures, toPoll, polled, raised, submitted, returned>>
vars == <<esvars, futurevars, loopvars>>

ASSUME RunAssumption ==
    /\ ExecutorsAssumption
    /\ Requested \subseteq BaseTasks
    /\ None \notin TaskIds

RGTypeOK ==
    /\ TypeOK
    /\ ExTypeOK
    /\ pc \in {"start", "loop", "dispatch", "poll", "resolve", "finalize",
               "read", "returned", "raised"}
    /\ nextTask \in TaskIds \cup {None}
    /\ taskFutures \in Seq(TaskIds)
    /\ toPoll \in Seq(TaskIds)
    /\ polled \in TaskState
    /\ raised \in TaskIds \cup {None}
    /\ submitted \subseteq TaskIds
    /\ returned \subseteq TaskIds

RGInit ==
    /\ Init
    /\ ExInit
    /\ pc = "start"
    /\ nextTask = None
    /\ taskFutures = <<>>
    /\ toPoll = <<>>
    /\ polled = "running"
    /\ raised = None
    /\ submitted = {}
    /\ returned = {}

-----------------------------------------------------------------------------
(* execution_manager.init(), then the head of the while loop *)

Start ==
    /\ pc = "start"
    /\ InitExecutor
    /\ pc' = "loop"
    /\ UNCHANGED <<esvars, nextTask, taskFutures, toPoll, polled, raised, submitted, returned>>

GraphDone ==
    /\ pc = "loop"
    /\ IsTerminal(GraphState)
    /\ pc' = "finalize"
    /\ UNCHANGED <<esvars, futurevars, nextTask, taskFutures, toPoll, polled, raised, submitted, returned>>

(* A KeyError of bind_task would leave the loop here.  It never happens    *)
(* (InputsInCache); if it did, this model would deadlock.                  *)
Release(t) ==
    /\ pc = "loop"
    /\ ~IsTerminal(GraphState)
    /\ ReleaseNextTask(t)
    /\ nextTask' = t
    /\ pc' = "dispatch"
    /\ UNCHANGED <<futurevars, taskFutures, toPoll, polled, raised, submitted, returned>>

NothingToRelease ==
    /\ pc = "loop"
    /\ ~IsTerminal(GraphState)
    /\ taskQueue = <<>>
    /\ nextTask' = None
    /\ toPoll' = taskFutures
    /\ pc' = "poll"
    /\ UNCHANGED <<esvars, futurevars, taskFutures, polled, raised, submitted, returned>>

-----------------------------------------------------------------------------
(* can_submit_task, the hook, submit_task; or reject_task *)

Submit ==
    /\ pc = "dispatch"
    /\ SubmitTask(nextTask)
    /\ submitted' = submitted \cup {nextTask}
    /\ taskFutures' = Append(taskFutures, nextTask)
    /\ toPoll' = taskFutures'
    /\ pc' = "poll"
    /\ UNCHANGED <<esvars, nextTask, polled, raised, returned>>

(* An adapter's hook raises after can_submit_task has pruned. *)
SubmissionHookRaises(t) ==
    /\ CanSubmit(t)
    /\ activeFutures' = Prune(t)
    /\ UNCHANGED <<future, initialized>>

SubmitFails ==
    /\ pc = "dispatch"
    /\ SubmissionHookRaises(nextTask) \/ SubmitRaises(nextTask)
    /\ submitted' = submitted \cup {nextTask}
    /\ raised' = nextTask
    /\ pc' = "finalize"
    /\ UNCHANGED <<esvars, nextTask, taskFutures, toPoll, polled, returned>>

Reject ==
    /\ pc = "dispatch"
    /\ RefuseTask(nextTask)
    /\ RejectTask(nextTask)
    /\ toPoll' = taskFutures
    /\ pc' = "poll"
    /\ UNCHANGED <<nextTask, taskFutures, polled, raised, submitted, returned>>

-----------------------------------------------------------------------------
(* "Update all the tasks in flight" *)

PollState ==
    /\ pc = "poll"
    /\ toPoll # <<>>
    /\ \E state \in TaskState : GetState(Head(toPoll), state) /\ polled' = state
    /\ pc' = "resolve"
    /\ UNCHANGED <<esvars, nextTask, taskFutures, toPoll, raised, submitted, returned>>

(* del task_futures[task] *)
Position(t) == CHOOSE i \in DOMAIN taskFutures : taskFutures[i] = t
StillInFlightForever(t) == taskFutures  \* slip: a task that ended stays in flight
StillInFlightOnce(t) == RemoveAt(taskFutures, Position(t))  \* slip: one that runs is dropped too
StillInFlight(t) == IF IsTerminal(polled) THEN RemoveAt(taskFutures, Position(t)) ELSE taskFutures

(* get_result, which raises if the task did; then, in the finally clause,  *)
(* update_task_state with the state polled before, the hook if that state  *)
(* is terminal (it may raise, before the del), and the error raised again. *)
Resolve ==
    LET t == Head(toPoll)
    IN  /\ pc = "resolve"
        /\ UpdateTaskState(t, polled)
        /\ returned' = IF IsTerminal(polled) THEN returned \cup {t} ELSE returned
        /\ \E hookRaises \in {FALSE, IsTerminal(polled)} :
              /\ taskFutures' = IF hookRaises THEN taskFutures ELSE StillInFlight(t)
              /\ IF hookRaises \/ future[t] = "error"
                 THEN raised' = t /\ pc' = "finalize"
                 ELSE pc' = "poll" /\ UNCHANGED raised
        /\ toPoll' = Tail(toPoll)
        /\ UNCHANGED <<futurevars, nextTask, polled, submitted>>

AllPolled ==
    /\ pc = "poll"
    /\ toPoll = <<>>
    /\ pc' = "loop"
    /\ UNCHANGED <<esvars, futurevars, nextTask, taskFutures, toPoll, polled, raised, submitted, returned>>

-----------------------------------------------------------------------------
(* The finally clause, then results_cache.read(final_vars) *)

Finalize ==
    /\ pc = "finalize"
    /\ FinalizeExecutor
    /\ pc' = IF raised = None THEN "read" ELSE "raised"
    /\ UNCHANGED <<esvars, nextTask, taskFutures, toPoll, polled, raised, submitted, returned>>

InCache == \A b \in Requested : Static(b) \in results

ReadFinalVars ==
    /\ pc = "read"
    /\ pc' = IF InCache THEN "returned" ELSE "raised"
    /\ UNCHANGED <<esvars, futurevars, nextTask, taskFutures, toPoll, polled, raised, submitted, returned>>

-----------------------------------------------------------------------------
MainThread ==
    \/ Start \/ GraphDone \/ NothingToRelease
    \/ \E t \in TaskIds : Release(t)
    \/ Submit \/ SubmitFails \/ Reject
    \/ PollState \/ Resolve \/ AllPolled
    \/ Finalize \/ ReadFinalVars

Worker(t) == CompleteTask(t) /\ UNCHANGED <<esvars, loopvars>>

Ended == pc \in {"returned", "raised"}

Terminated == Ended /\ UNCHANGED vars

RGNext == MainThread \/ (\E t \in TaskIds : Worker(t)) \/ Terminated

(* The main thread runs on, and every task a worker has taken ends: the    *)
(* user's functions terminate.                                             *)
Fairness == WF_vars(MainThread) /\ \A t \in TaskIds : WF_vars(Worker(t))

RGSpec == RGInit /\ [][RGNext]_vars /\ Fairness

-----------------------------------------------------------------------------
(* Properties *)

(* execute returns a value only if every task of the plan, every           *)
(* repetition included, has succeeded, and it was seen to by both hooks;   *)
(* if nothing failed it does not raise (its last read finds every output). *)
ReturnsWholeResult ==
    /\ pc \in {"read", "returned"} => /\ \A b \in BaseTasks : Complete(b)
                                      /\ submitted = taskPool
                                      /\ returned = taskPool
    /\ pc = "raised" => raised # None

(* When execute is over, by return or exception, no future of the pool is  *)
(* pending and the executor can be initialized again for the next run.     *)
NothingLeftRunning ==
    pc \in {"read", "returned", "raised"} => Pending = {} /\ ~initialized

(* What the loop holds and what the ExecutionState thinks it holds agree:  *)
(* every task that is out is the one just released or is being polled.     *)
HeldIsTracked ==
    /\ IsInjective(taskFutures)
    /\ \A t \in held : \/ t \in ToSet(taskFutures)
                       \/ t = nextTask /\ (pc = "dispatch" \/ raised = t)
    /\ raised = None => \A t \in ToSet(taskFutures) :
                           t \in held \ returned /\ future[t] # "none"

(* "Blocking call to run the graph until it is complete": it comes to an   *)
(* end, although a full pool makes it reject and release without pause.    *)
Termination == <>Ended

(* base.py: "Hook called immediately after a task returns from an          *)
(* executor."  A task whose exception ended the loop has returned.         *)
ReturnHookOfFailedTask ==
    raised # None /\ future[raised] = "error" => raised \in returned

(* The loop keeps to the protocol of ExecutionState and of the executors,  *)
(* and the whole implements what TaskGraph promises.  A task is started    *)
(* when it is submitted.                                                   *)
TaskStatus ==
    [t \in TaskIds |-> CASE taskStates[t] = "successful" -> "succeeded"
                         [] taskStates[t] = "failed"     -> "failed"
                         [] OTHER -> IF t \in submitted THEN "started" ELSE "idle"]

TG == INSTANCE TaskGraph WITH
        Expanders <- {b \in BaseTasks : IsExpander(b)},
        Repeated  <- {b \in BaseTasks : InBlock(b)},
        status    <- TaskStatus,
        elements  <- width

ImplementsTaskGraph == TG!Spec
=============================================================================

------------------------------ MODULE Executors ------------------------------
(***************************************************************************)
(* The task executors of hamilton/execution/executors.py: the local one,   *)
(* whose future runs the task when its state is first asked for, and the   *)
(* pool (threads or processes) with its limit on tasks in flight, as the   *)
(* DefaultExecutionManager pairs them.                                     *)
(*                                                                         *)
(* Next is the most general client: it submits each task at most once and  *)
(* only to a running pool.                                                 *)
(***************************************************************************)
EXTENDS Integers, FiniteSets

CONSTANTS Tasks,        \* the tasks that may be submitted
          RemoteTasks,  \* those the execution manager sends to the pool
          MaxTasks      \* max_tasks of the pool

(* What the composition assumes of them, and the proofs require.           *)
ExecutorsAssumption ==
    /\ IsFiniteSet(Tasks)
    /\ RemoteTasks \subseteq Tasks
    /\ MaxTasks \in Nat \ {0}

VARIABLES
    future,         \* future[t]: the future of t, as its outcome so far
    activeFutures,  \* active_futures of the pool
    initialized     \* the pool exists (PoolExecutor.initialized)

exvars == <<future, activeFutures, initialized>>

(* "unrun" is a TaskFutureWrappingFunction before the first get_state,     *)
(* "pending" a python future that is not done.                             *)
FutureState == {"none", "unrun", "pending", "done", "error"}

ExTypeOK ==
    /\ future \in [Tasks -> FutureState]
    /\ activeFutures \subseteq RemoteTasks
    /\ initialized \in BOOLEAN

ExInit ==
    /\ future = [t \in Tasks |-> "none"]
    /\ activeFutures = {}
    /\ initialized = FALSE

Done(t) == future[t] \in {"done", "error"}
Pending == {t \in Tasks : future[t] = "pending"}

-----------------------------------------------------------------------------
(* init raises on a pool that is initialized and finalize on one that is   *)
(* not.  shutdown waits for every pending future.                          *)
InitExecutor ==
    /\ ~initialized
    /\ initialized' = TRUE
    /\ UNCHANGED <<future, activeFutures>>

FinalizeExecutorNoWait ==  \* slip: shutdown(wait=False)
    /\ initialized
    /\ initialized' = FALSE
    /\ UNCHANGED <<future, activeFutures>>
FinalizeExecutor ==
    /\ initialized
    /\ Pending = {}
    /\ initialized' = FALSE
    /\ UNCHANGED <<future, activeFutures>>

(* can_submit_task: prune the futures that are done, then compare. *)
Pruned == {u \in activeFutures : ~Done(u)}

CanSubmitOneMore(t) ==  \* slip: <= instead of <
    t \in RemoteTasks => Cardinality(Pruned) <= MaxTasks
CanSubmit(t) == t \in RemoteTasks => Cardinality(Pruned) < MaxTasks

Prune(t) == IF t \in RemoteTasks THEN Pruned ELSE activeFutures

(* submit_task of the executor can_submit_task was asked of just before.   *)
(* No future starts between the two, so that they are one step.            *)
SubmitTask(t) ==
    /\ initialized
    /\ CanSubmit(t)
    /\ future' = [future EXCEPT ![t] = IF t \in RemoteTasks THEN "pending" ELSE "unrun"]
    /\ activeFutures' = IF t \in RemoteTasks THEN Pruned \cup {t} ELSE activeFutures
    /\ UNCHANGED initialized

RefuseTask(t) ==
    /\ ~CanSubmit(t)
    /\ activeFutures' = Prune(t)
    /\ UNCHANGED <<future, initialized>>

(* The pool could not take the task: pool.submit raises (a process of the  *)
(* pool has died), after can_submit_task has pruned.                       *)
SubmitRaises(t) ==
    /\ t \in RemoteTasks
    /\ CanSubmit(t)
    /\ activeFutures' = Prune(t)
    /\ UNCHANGED <<future, initialized>>

(* A worker of the pool ends a task, with a result or an exception. *)
CompleteTask(t) ==
    /\ future[t] = "pending"
    /\ \E outcome \in {"done", "error"} : future' = [future EXCEPT ![t] = outcome]
    /\ UNCHANGED <<activeFutures, initialized>>

(* get_state: for a local task the first call runs the function. *)
GetState(t, state) ==
    \/ /\ future[t] = "unrun"
       /\ \/ state = "successful" /\ future' = [future EXCEPT ![t] = "done"]
          \/ state = "failed"     /\ future' = [future EXCEPT ![t] = "error"]
       /\ UNCHANGED <<activeFutures, initialized>>
    \/ /\ future[t] # "unrun"
       /\ state = CASE future[t] = "done" -> "successful"
                    [] future[t] = "error" -> "failed"
                    [] future[t] \in {"none", "pending"} -> "running"
       /\ UNCHANGED <<future, activeFutures, initialized>>

ExNext ==
    \/ InitExecutor
    \/ FinalizeExecutor
    \/ \E t \in Tasks :
        \/ future[t] = "none" /\ initialized
           /\ (SubmitTask(t) \/ RefuseTask(t) \/ SubmitRaises(t))
        \/ CompleteTask(t)
        \/ future[t] # "none" /\ \E s \in {"running", "successful", "failed"} : GetState(t, s)

ExSpec == ExInit /\ [][ExNext]_exvars

-----------------------------------------------------------------------------
(* Properties *)

(* The pool never runs more than max_tasks tasks, although it learns of a  *)
(* finished one only when it prunes: active_futures misses none that runs. *)
PoolLimit == /\ Pending \subseteq activeFutures
             /\ Cardinality(Pending) <= MaxTasks
=============================================================================

------------------------------ MODULE TaskGraph ------------------------------
(***************************************************************************)
(* What the task-based execution of hamilton/execution promises, without   *)
(* queue, pool, cache or polling: the tasks of a plan, and the repetitions *)
(* an expander's list calls for, are each started at most once, after all  *)
(* they depend on has succeeded, and none is started after a failure.      *)
(* RunGraph.tla is checked to implement it.                                *)
(***************************************************************************)
EXTENDS Integers

CONSTANTS BaseTasks, BaseDeps, Spawner, None,
          MaxGroups,
          Expanders,   \* base tasks that expand
          Repeated     \* base tasks that exist once per element of the list
                       \* of their spawner

VARIABLES
    status,   \* status[t]: "idle", "started", "succeeded" or "failed"
    elements  \* elements[e]: how many elements e returned, None before

tgvars == <<status, elements>>

TaskIds == BaseTasks \X ((0 .. MaxGroups - 1) \cup {None})

Init ==
    /\ status = [t \in TaskIds |-> "idle"]
    /\ elements = [b \in BaseTasks |-> None]

(* The tasks b stands for, known once its spawner has returned. *)
TasksOf(b) == IF b \notin Repeated THEN {<<b, None>>}
              ELSE IF elements[Spawner[b]] = None THEN {}
              ELSE {b} \X (0 .. elements[Spawner[b]] - 1)

Finished(b) == /\ b \in Repeated => elements[Spawner[b]] # None
               /\ \A t \in TasksOf(b) : status[t] = "succeeded"

Start(t) ==
    /\ status[t] = "idle"
    /\ \A u \in TaskIds : status[u] # "failed"
    /\ t \in TasksOf(t[1])
    /\ \A d \in BaseDeps[t[1]] : Finished(d)
    /\ status' = [status EXCEPT ![t] = "started"]
    /\ UNCHANGED elements

Succeed(t) ==
    /\ status[t] = "started"
    /\ status' = [status EXCEPT ![t] = "succeeded"]
    /\ IF t[1] \in Expanders
       THEN \E n \in 0 .. MaxGroups : elements' = [elements EXCEPT ![t[1]] = n]
       ELSE UNCHANGED elements

Fail(t) ==
    /\ status[t] = "started"
    /\ status' = [status EXCEPT ![t] = "failed"]
    /\ UNCHANGED elements

Next == \E t \in TaskIds : Start(t) \/ Succeed(t) \/ Fail(t)

Spec == Init /\ [][Next]_tgvars
=============================================================================

------------------------------- MODULE NodeRun -------------------------------
(***************************************************************************)
(* What every way of executing the nodes of one run promises, be it one    *)
(* after the other (SubdagExecution), in a pool of threads (ThreadPool) or *)
(* as tasks of an event loop (AsyncDriver): a node is executed at most     *)
(* once, when all it reads has been computed, and a run that returns has   *)
(* computed what it was asked for.  One that raises may leave nodes that   *)
(* go on.                                                                  *)
(***************************************************************************)
CONSTANT Node

VARIABLES
    reads,    \* reads[n]: the nodes to execute whose results n is given
    wanted,   \* the nodes to execute among the outputs asked for
    status,   \* status[n]: idle, running, done or failed
    outcome   \* of the run: none, returned or raised

nrvars == <<reads, wanted, status, outcome>>

NRInit ==
    /\ reads \in [Node -> SUBSET Node]
    /\ wanted \in SUBSET Node
    /\ status = [n \in Node |-> "idle"]
    /\ outcome = "none"

StartNode(n) ==
    /\ status[n] = "idle"
    /\ \A d \in reads[n] : status[d] = "done"
    /\ status' = [status EXCEPT ![n] = "running"]
    /\ UNCHANGED <<reads, wanted, outcome>>

EndNode(n) ==
    /\ status[n] = "running"
    /\ \E end \in {"done", "failed"} : status' = [status EXCEPT ![n] = end]
    /\ UNCHANGED <<reads, wanted, outcome>>

Return ==
    /\ outcome = "none"
    /\ \A n \in wanted : status[n] = "done"
    /\ outcome' = "returned"
    /\ UNCHANGED <<reads, wanted, status>>

Raise ==
    /\ outcome = "none"
    /\ outcome' = "raised"
    /\ UNCHANGED <<reads, wanted, status>>

NRNext == \/ \E n \in Node : StartNode(n) \/ EndNode(n)
          \/ Return \/ Raise

NRSpec == NRInit /\ [][NRNext]_nrvars
=============================================================================

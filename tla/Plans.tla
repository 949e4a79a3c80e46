-------------------------------- MODULE Plans --------------------------------
(***************************************************************************)
(* The plan of a task-based run: the TaskSpecs that create_task_plan of    *)
(* hamilton/execution/grouping.py hands to ExecutionState, and what the    *)
(* latter needs of them.                                                   *)
(***************************************************************************)
CONSTANTS
    BaseTasks,   \* the base_id of every TaskSpec of the plan
    BaseDeps,    \* BaseDeps[b]: its base_dependencies
    Purpose,     \* Purpose[b]: its NodeGroupPurpose
    Spawner,     \* Spawner[b]: its spawning_task_base_id, or None
    CollectFrom, \* CollectFrom[b]: for a gatherer, the task that produces the
                 \* argument it collects (collect_dependency)
    None         \* Python's None

Purposes == {"expand_unordered", "execute_block", "execute_single", "gather"}

IsExpander(b) == Purpose[b] = "expand_unordered"
IsGatherer(b) == Purpose[b] = "gather"

(* Tasks that exist once per element of their expander's list. *)
InBlock(b) == Spawner[b] # None /\ ~IsExpander(b) /\ ~IsGatherer(b)

(* The ids a plan mentions are ids of the plan. *)
ClosedPlan ==
    /\ None \notin BaseTasks
    /\ BaseDeps \in [BaseTasks -> SUBSET BaseTasks]
    /\ Purpose \in [BaseTasks -> Purposes]
    /\ Spawner \in [BaseTasks -> BaseTasks \cup {None}]
    /\ CollectFrom \in [BaseTasks -> BaseTasks \cup {None}]
    /\ \A b \in BaseTasks : IsGatherer(b) => CollectFrom[b] \in BaseDeps[b]

(* Everything that has to happen before a task of b can exist and run. *)
Prerequisites(b) == BaseDeps[b] \cup ({Spawner[b]} \ {None})

(* What ExecutionState needs to see a plan through.  Grouping is checked   *)
(* to make such plans of the graphs the documentation supports; the runs   *)
(* on side branches show what happens without the last two conjuncts.      *)
Acyclic ==
    \A S \in SUBSET BaseTasks :
        S # {} => \E b \in S : Prerequisites(b) \cap S = {}
SpawnedByExpander ==
    \A b \in BaseTasks : Spawner[b] # None =>
        /\ IsExpander(Spawner[b])
        /\ ~IsExpander(b)
        /\ BaseDeps[b] # {}
        /\ IsGatherer(b) => Spawner[b] \in {CollectFrom[b], Spawner[CollectFrom[b]]}
BlockReadByItsCollector ==
    \A b \in BaseTasks : \A d \in BaseDeps[b] :
        InBlock(d) => IsGatherer(b) /\ CollectFrom[b] = d /\ Spawner[b] = Spawner[d]
ReadsMoreThanExpanders ==
    \A b \in BaseTasks : Spawner[b] = None /\ BaseDeps[b] # {} =>
        \E d \in BaseDeps[b] : ~IsExpander(d)

WellFormedPlan == /\ Acyclic
                  /\ SpawnedByExpander
                  /\ BlockReadByItsCollector
                  /\ ReadsMoreThanExpanders
=============================================================================

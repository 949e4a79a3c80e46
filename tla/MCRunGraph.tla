----------------------------- MODULE MCRunGraph -----------------------------
(***************************************************************************)
(* A whole run: two roots, an expander, a block that also reads a root,    *)
(* its collector, and a task after the collector.  The configurations      *)
(* choose how much of the plan there is, and what an additional task,      *)
(* count, reads; PlanIsSound says whether that is a well-formed plan.      *)
(***************************************************************************)
EXTENDS RunGraph

CONSTANTS url, conf, expand, block, collect, total, count,
          CountReads,   \* what count reads
          PlanIsSound

PlanDeps == [b \in BaseTasks |-> CASE b \in {url, conf} -> {}
                                   [] b = expand  -> {url}
                                   [] b = block   -> {expand, conf}
                                   [] b = collect -> {block, conf}
                                   [] b = total   -> {collect, expand}
                                   [] b = count   -> CountReads]
PlanPurpose == [b \in BaseTasks |-> CASE b = expand  -> "expand_unordered"
                                      [] b = block   -> "execute_block"
                                      [] b = collect -> "gather"
                                      [] OTHER       -> "execute_single"]
PlanSpawner == [b \in BaseTasks |-> IF b \in {block, collect} THEN expand ELSE None]
PlanCollectFrom == [b \in BaseTasks |-> IF b = collect THEN block ELSE None]

ASSUME PlanIsSound <=> WellFormedPlan
=============================================================================

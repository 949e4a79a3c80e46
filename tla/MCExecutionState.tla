-------------------------- MODULE MCExecutionState --------------------------
(***************************************************************************)
(* ExecutionState on the plan of a graph with two expanders that may be in *)
(* flight together.  The block of the first also reads a task that may end *)
(* before or after the expander does.                                      *)
(***************************************************************************)
EXTENDS ExecutionState

CONSTANTS url, load, expand, block, collect, split, part, merge, total

Plan == {url, load, expand, block, collect, split, part, merge, total}

PlanDeps == [b \in Plan |-> CASE b = url     -> {}
                              [] b = load    -> {url}
                              [] b = expand  -> {url}
                              [] b = block   -> {expand, load}
                              [] b = collect -> {block}
                              [] b = split   -> {load}
                              [] b = part    -> {split}
                              [] b = merge   -> {part, load}
                              [] b = total   -> {collect, merge}]
PlanPurpose == [b \in Plan |-> CASE b \in {expand, split}  -> "expand_unordered"
                                 [] b \in {block, part}    -> "execute_block"
                                 [] b \in {collect, merge} -> "gather"
                                 [] OTHER                  -> "execute_single"]
PlanSpawner == [b \in Plan |-> CASE b \in {block, collect} -> expand
                                 [] b \in {part, merge}    -> split
                                 [] OTHER                  -> None]
PlanCollectFrom == [b \in Plan |-> CASE b = collect -> block
                                     [] b = merge   -> part
                                     [] OTHER       -> None]

ASSUME PlanIsWellFormed == WellFormedPlan
=============================================================================

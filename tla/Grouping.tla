------------------------------ MODULE Grouping ------------------------------
(***************************************************************************)
(* How TaskBasedGraphExecutor.execute (hamilton/driver.py) makes a plan of *)
(* tasks from a graph of nodes: get_upstream_nodes (graph.py) finds the    *)
(* nodes the outputs need, validate_inputs (driver.py) checks the inputs,  *)
(* GroupByRepeatableBlocks (execution/grouping.py) groups the nodes, one   *)
(* Collect node at a time, and create_task_plan turns groups into specs.   *)
(*                                                                         *)
(* The nodes reach group_nodes as list(set(...)), so that the Collect      *)
(* nodes come in any order.                                                *)
(***************************************************************************)
EXTENDS Integers, SequencesExt

CONSTANTS Nodes,
          Dags,      \* the graphs considered: see DagType
          Requests(_), \* what execute may be asked of each: see RequestType
          None

Roles == {"input", "standard", "expand", "collect"}

(* deps[n] are the dependencies of n in the order of its parameters,       *)
(* collects[n] the collect_dependency of a Collect node, and optional the  *)
(* pairs of a node and a dependency for which it has a default.            *)
DagType == [deps : [Nodes -> Seq(Nodes)], role : [Nodes -> Roles],
            collects : [Nodes -> Nodes \cup {None}], optional : SUBSET (Nodes \X Nodes)]
RequestType == [inputs : SUBSET Nodes, outputs : SUBSET Nodes, overrides : SUBSET Nodes]

(* Ids of tasks: the prefix and the node of a base_id. *)
Ids == {"expand", "block", "collect", "node"} \X Nodes

(* The nodes are numbered so that a node depends on lower numbers only: a  *)
(* dataflow has no cycle, though nothing but display_graph looks for one.  *)
(* An input has no dependencies, and a Collect node collects one of its    *)
(* own.                                                                    *)
ASSUME GroupingAssumption ==
    /\ IsFiniteSet(Nodes) /\ Nodes \subseteq Nat
    /\ None \notin Nodes \cup Ids
    /\ Dags \subseteq DagType
    /\ \A d \in Dags :
          /\ Requests(d) \subseteq RequestType
          /\ \A n \in Nodes :
                /\ \A m \in ToSet(d.deps[n]) : m < n
                /\ d.role[n] = "input" => d.deps[n] = <<>>
                /\ d.role[n] = "collect" => d.collects[n] \in ToSet(d.deps[n])

VARIABLES
    dag, request, \* the arguments; they do not change
    pc,
    required,     \* all_nodes_required_for_execution
    left,         \* the collectors group_nodes has still to look at
    visited,      \* visited
    groups,       \* groups
    tasks         \* the TaskSpecs of create_task_plan

vars == <<dag, request, pc, required, left, visited, groups, tasks>>

Deps(n)  == ToSet(dag.deps[n])
Role(n)  == dag.role[n]
IsInput(n) == Role(n) = "input"
DependedOnBy(n) == {m \in Nodes : n \in Deps(m)}
Requires(n, d)  == <<n, d>> \notin dag.optional
Overridden(n)   == n \in request.overrides

GroupType == [id : Ids, spawner : Ids \cup {None}, nodes : SUBSET Nodes,
              purpose : {"expand_unordered", "execute_block", "execute_single", "gather"}]
TaskType  == [group : GroupType, outputs : SUBSET Nodes, deps : SUBSET Ids]

(* Type invariant. *)
GTypeOK ==
    /\ dag \in DagType /\ request \in RequestType
    /\ pc \in {"upstream", "blocks", "plan", "planned", "rejected", "raised"}
    /\ required \subseteq Nodes
    /\ left \subseteq required
    /\ visited \subseteq Nodes
    /\ groups \in Seq(GroupType)
    /\ tasks \in Seq(TaskType)

GInit ==
    /\ dag \in Dags
    /\ request \in Requests(dag)
    /\ pc = "upstream"
    /\ required = {} /\ left = {} /\ visited = {}
    /\ groups = <<>> /\ tasks = <<>>

-----------------------------------------------------------------------------
(* get_upstream_nodes, then validate_inputs *)

NextNodes(n) ==
    IF Overridden(n) THEN {}
    ELSE {d \in Deps(n) : ~(IsInput(d) /\ d \notin request.inputs /\ ~Requires(n, d))}

(* directional_dfs_traverse: what the outputs reach. *)
Reached[k \in Nat] ==
    IF k = 0 THEN request.outputs
    ELSE Reached[k - 1] \cup UNION {NextNodes(n) : n \in Reached[k - 1]}
UpstreamNodes == Reached[Cardinality(Nodes)]

MissingInputs(nodes) ==
    {u \in nodes : /\ IsInput(u) /\ u \notin request.inputs
                   /\ \E m \in DependedOnBy(u) \cap nodes : Requires(m, u)}

Upstream ==
    /\ pc = "upstream"
    /\ required' = UpstreamNodes
    /\ left' = {n \in required' : Role(n) = "collect"}
    /\ pc' = IF MissingInputs(required') = {} THEN "blocks" ELSE "rejected"
    /\ UNCHANGED <<dag, request, visited, groups, tasks>>

-----------------------------------------------------------------------------
(* nodes_between: the depth-first search from a Collect node for the       *)
(* Parallelizable one.  found is the last it met, out the nodes between.   *)

Search == [found : Nodes \cup {None}, visited : SUBSET Nodes, out : SUBSET Nodes]
NothingFound == [found |-> None, visited |-> {}, out |-> {}]

(* The loop over the dependencies of n. *)
ForEachDep(traverse, n, s) ==
    LET after[i \in 0 .. Len(dag.deps[n])] ==
            IF i = 0 THEN s ELSE traverse[dag.deps[n][i]][after[i - 1]]
    IN  after[Len(dag.deps[n])]

DfsTraverse[n \in Nodes] == [s \in Search |->
    IF Role(n) = "expand" THEN [s EXCEPT !.found = n]
    ELSE IF n \in s.visited THEN s
    ELSE LET t == ForEachDep(DfsTraverse, n, [s EXCEPT !.visited = @ \cup {n}])
         IN  IF \E d \in Deps(n) : Role(d) = "expand" \/ d \in t.out
             THEN [t EXCEPT !.out = @ \cup {n}] ELSE t]

(* A slip: a node met twice does not count for the second to meet it. *)
DfsForgets[n \in Nodes] == [s \in Search |->
    IF Role(n) = "expand" THEN [s EXCEPT !.found = n]
    ELSE IF n \in s.visited THEN s
    ELSE LET t == ForEachDep(DfsForgets, n, [s EXCEPT !.visited = @ \cup {n}])
         IN  IF \E d \in Deps(n) : Role(d) = "expand" \/ d \in t.out \ s.visited
             THEN [t EXCEPT !.out = @ \cup {n}] ELSE t]
NodesBetweenForgets(c) == ForEachDep(DfsForgets, c, NothingFound)

NodesBetween(c) == ForEachDep(DfsTraverse, c, NothingFound)

-----------------------------------------------------------------------------
(* group_nodes: the loop over the collectors, then the remaining nodes *)

NodeGroup(id, spawner, nodes, purpose) ==
    [id |-> id, spawner |-> spawner, nodes |-> nodes, purpose |-> purpose]

BlockGroups(e, nodes) ==
    <<NodeGroup(<<"expand", e>>, None, {e}, "expand_unordered"),
      NodeGroup(<<"block", e>>, <<"expand", e>>, nodes, "execute_block")>>
CollectGroup(c, e) ==
    <<NodeGroup(<<"collect", e>>, <<"expand", e>>, {c}, "gather")>>

GroupBlock(c) ==
    /\ pc = "blocks"
    /\ c \in left
    /\ LET s == NodesBetween(c) IN
       \/ /\ s.found = None   \* None has no name
          /\ pc' = "raised"
          /\ UNCHANGED <<left, visited, groups>>
       \/ /\ s.found \in required
          /\ groups' = groups \o BlockGroups(s.found, s.out) \o CollectGroup(c, s.found)
          /\ visited' = visited \cup s.out \cup {s.found, c}
          /\ left' = left \ {c}
          /\ UNCHANGED pc
       \/ /\ s.found \in Nodes \ required
          /\ groups' = groups \o CollectGroup(c, s.found)
          /\ visited' = visited \cup {c}
          /\ left' = left \ {c}
          /\ UNCHANGED pc
    /\ UNCHANGED <<dag, request, required, tasks>>

(* A slip: visited gets the collectors only. *)
GroupRemainingBlocks ==
    /\ pc = "blocks"
    /\ left = {}
    /\ groups' = groups \o SetToSeq({NodeGroup(<<"node", n>>, None, {n}, "execute_single")
                                       : n \in {m \in required : Role(m) # "collect"}})
    /\ pc' = "plan"
    /\ UNCHANGED <<dag, request, required, left, visited, tasks>>

GroupRemaining ==
    /\ pc = "blocks"
    /\ left = {}
    /\ groups' = groups \o SetToSeq({NodeGroup(<<"node", n>>, None, {n}, "execute_single")
                                       : n \in required \ visited})
    /\ pc' = "plan"
    /\ UNCHANGED <<dag, request, required, left, visited, tasks>>

-----------------------------------------------------------------------------
(* create_task_plan *)

(* A slip: only what is read outside the group is an output. *)
OutputsToComputeRead(g) ==
    {n \in g.nodes \ request.overrides :
        \E m \in DependedOnBy(n) : ~Overridden(m) /\ m \notin g.nodes}

(* Nodes of the group that the caller or a node outside it asks for. *)
OutputsToCompute(g) ==
    {n \in g.nodes \ request.overrides :
        \/ n \in request.outputs
        \/ \E m \in DependedOnBy(n) : ~Overridden(m) /\ m \notin g.nodes}

(* node_to_task_map: the last group that has the node. *)
GroupsOf(n) == {i \in DOMAIN groups : n \in groups[i].nodes /\ ~Overridden(n)}
TaskOf(n) == groups[CHOOSE i \in GroupsOf(n) : \A j \in GroupsOf(n) : j <= i].id

(* A slip: only the nodes that are outputs count. *)
CrossingOfOutputs(g) ==
    {e \in OutputsToCompute(g) \X Nodes :
        e[2] \in Deps(e[1]) /\ ~Overridden(e[2]) /\ e[2] \notin g.nodes}

(* The dependencies of the group's nodes outside it. *)
Crossing(g) ==
    {e \in (g.nodes \ request.overrides) \X Nodes :
        e[2] \in Deps(e[1]) /\ ~Overridden(e[2]) /\ e[2] \notin g.nodes}
(* A slip: optional dependencies count. *)
InBadStateOptional(g) == \E e \in Crossing(g) : GroupsOf(e[2]) = {}
InBadState(g) == \E e \in Crossing(g) : GroupsOf(e[2]) = {} /\ Requires(e[1], e[2])

TaskSpec(g) ==
    [group |-> g, outputs |-> OutputsToCompute(g),
     deps |-> {TaskOf(e[2]) : e \in {x \in Crossing(g) : GroupsOf(x[2]) # {}}}]

CreateTaskPlan ==
    /\ pc = "plan"
    /\ IF \E i \in DOMAIN groups : InBadState(groups[i])
       THEN pc' = "raised" /\ UNCHANGED tasks
       ELSE pc' = "planned" /\ tasks' = [i \in DOMAIN groups |-> TaskSpec(groups[i])]
    /\ UNCHANGED <<dag, request, required, left, visited, groups>>

GNext == \/ Upstream
         \/ \E c \in Nodes : GroupBlock(c)
         \/ GroupRemaining
         \/ CreateTaskPlan

GSpec == GInit /\ [][GNext]_vars

-----------------------------------------------------------------------------
(* The graphs and requests the documentation supports *)

(* The Parallelizable nodes whose elements n is computed from; a Collect   *)
(* node leaves the block of what it collects.                              *)
Inside[n \in Nodes] ==
    CASE Role(n) = "expand"  -> {n}
      [] Role(n) = "collect" -> UNION {Inside[d] : d \in Deps(n) \ {dag.collects[n]}}
      [] OTHER               -> UNION {Inside[d] : d \in Deps(n)}
InBlockNode(n) == Inside[n] \notin {{}, {n}}

(* Between n and the Parallelizable nodes above it is a Collect node. *)
ReadsCollected[n \in Nodes] ==
    CASE Role(n) = "expand"  -> FALSE
      [] Role(n) = "collect" -> TRUE
      [] OTHER               -> \E d \in Deps(n) : ReadsCollected[d]

(* docs/concepts/parallel-task.rst: blocks are not nested and have one     *)
(* Collect node each, which collects one node of the block.                *)
OneCollectorPerBlock ==
    \A c \in required : Role(c) = "collect" =>
        LET e == Inside[dag.collects[c]] IN
        /\ Role(dag.collects[c]) # "expand"
        /\ Cardinality(e) = 1
        /\ Inside[c] = {}
        /\ \A d \in required \ {c} : Role(d) = "collect" => Inside[dag.collects[d]] # e
NotNested == \A e \in required : Role(e) = "expand" => \A d \in Deps(e) : Inside[d] = {}

(* The code needs more: a block and its collector read nothing that has    *)
(* been collected (run shared_block), and the caller asks for no node of a *)
(* block and overrides none, nor its first or its last one.                *)
BlocksReadNothingCollected ==
    \A c \in required : Role(c) = "collect" => \A d \in Deps(c) : ~ReadsCollected[d]
CallerStaysOutOfBlocks ==
    /\ \A n \in request.outputs : ~InBlockNode(n)
    /\ \A n \in request.overrides : ~InBlockNode(n) /\ Role(n) \notin {"expand", "collect"}

Supported == /\ OneCollectorPerBlock
             /\ NotNested
             /\ BlocksReadNothingCollected
             /\ CallerStaysOutOfBlocks

-----------------------------------------------------------------------------
(* Properties *)

Groups == {tasks[i].group : i \in DOMAIN tasks}
TaskBases == {g.id : g \in Groups}
Spec(b) == tasks[CHOOSE i \in DOMAIN tasks : tasks[i].group.id = b]

(* The docstring of NodeGroup: "ID is unique across all node groups" and   *)
(* "Nodes are unique across all node groups (one node to group)"; and each *)
(* node that is needed is in one.                                          *)
OneNodeToGroup ==
    /\ \A i, j \in DOMAIN tasks : i # j =>
          /\ tasks[i].group.id # tasks[j].group.id
          /\ tasks[i].group.nodes \cap tasks[j].group.nodes = {}
    /\ UNION {g.nodes : g \in Groups} = required
NodesInOneGroup == pc = "planned" /\ Supported => OneNodeToGroup

(* The same for every graph and request within the documented limits:      *)
(* NodeGroup says it without exception.                                    *)
GroupsAreUnique ==
    pc = "planned" /\ OneCollectorPerBlock /\ NotNested /\ CallerStaysOutOfBlocks
        => OneNodeToGroup

(* What is supported is planned: no group is without an expander and no    *)
(* dependency without a task ("We're somehow in a bad state").             *)
SupportedIsPlanned == pc = "raised" => ~Supported

(* The plan as ExecutionState sees it; CollectFrom is the task that        *)
(* produces(collector_arg) in bind_task.                                   *)
CollectFromOf(b) ==
    LET c == CHOOSE n \in Spec(b).group.nodes : TRUE
        from == {d \in TaskBases : dag.collects[c] \in Spec(d).group.nodes}
    IN  IF Spec(b).group.purpose = "gather" /\ from # {}
        THEN CHOOSE d \in from : TRUE ELSE None

P == INSTANCE Plans WITH
        BaseTasks   <- TaskBases,
        BaseDeps    <- [b \in TaskBases |-> Spec(b).deps],
        Purpose     <- [b \in TaskBases |-> Spec(b).group.purpose],
        Spawner     <- [b \in TaskBases |-> Spec(b).group.spawner],
        CollectFrom <- [b \in TaskBases |-> CollectFromOf(b)]

(* create_task_plan makes a plan that ExecutionState can see through: the  *)
(* hypothesis of the theorems about it.                                    *)
PlansAreWellFormed ==
    pc = "planned" /\ Supported => P!ClosedPlan /\ P!WellFormedPlan

(* get_input_vars: what a task needs and does not compute itself.          *)
RequiredVars(t) ==
    LET computed == t.group.nodes \ request.overrides
    IN  {n \in computed : IsInput(n)} \cup
        {d \in Nodes \ (t.group.nodes \cap request.overrides) :
            (IsInput(d) \/ d \notin t.group.nodes)
            /\ \E n \in computed : d \in Deps(n) /\ Requires(n, d)}

(* A task that t waits for computes d as an output; a node of a block is   *)
(* read through the collected argument only.                               *)
Written(t, d) ==
    \E u \in Groups : /\ u.id \in t.deps
                      /\ d \in Spec(u.id).outputs
                      /\ u.purpose = "execute_block" =>
                            \E c \in t.group.nodes : t.group.purpose = "gather" /\ dag.collects[c] = d
(* Every input bind_task reads without a default is in the cache from the  *)
(* start or written by a task that t waits for.                            *)
InputsAreProduced ==
    pc = "planned" /\ Supported =>
        \A i \in DOMAIN tasks : \A d \in RequiredVars(tasks[i]) :
            d \in request.inputs \cup request.overrides \/ Written(tasks[i], d)

(* What the caller has asked for is computed as an output of a task that   *)
(* is not repeated, or was given.                                          *)
OutputsAreComputed ==
    pc = "planned" /\ Supported =>
        \A n \in request.outputs :
            \/ n \in request.inputs \cup request.overrides
            \/ \E i \in DOMAIN tasks : /\ n \in tasks[i].outputs
                                       /\ tasks[i].group.purpose # "execute_block"
=============================================================================

--------------------------- MODULE SubdagExecution ---------------------------
(***************************************************************************)
(* execute_subdag and execute_lifecycle_for_node of                        *)
(* hamilton/execution/graph_functions.py: the nodes of a run, or of one    *)
(* task of a run, executed one by one in a depth-first traversal, which    *)
(* drops a value from computed when it thinks that nobody will read it any *)
(* more.  The recursion of dfs_traverse is a stack of frames.              *)
(*                                                                         *)
(* Nodes are numbered so that a node reads nodes of lower numbers only.    *)
(***************************************************************************)
EXTENDS Integers, Sequences

CONSTANTS N,        \* how many nodes the graph has
          Requests  \* the calls of execute_subdag; see RequestsAssumption

Node == 1..N

ASSUME RequestsAssumption ==
    /\ N \in Nat
    /\ \A q \in Requests :
          /\ q.params \in [Node -> Seq(Node)]  \* dependencies, in order
          /\ \A n \in Node : \A i \in DOMAIN q.params[n] : q.params[n][i] < n
          /\ q.optional \subseteq Node \X Node \* <<n, d>>: n has a default for d
          /\ q.input \subseteq Node            \* the user-defined nodes
          /\ \A n \in q.input : q.params[n] = <<>>
          /\ q.final \in Seq(Node)             \* nodes
          /\ q.given \subseteq q.input         \* inputs
          /\ q.overrides \subseteq Node
          /\ q.supplied \subseteq Node         \* computed, as it was passed

VARIABLES
    call,      \* the arguments
    left,      \* what is left of the loop over nodes
    stack,     \* the calls of dfs_traverse in progress, the last one running
    computed,  \* the keys of computed
    status,    \* status[n]: idle, running, done or failed
    kwargs,    \* kwargs[n]: the arguments n was executed with, {} before
    outcome    \* none, returned or raised

sevars == <<call, left, stack, computed, status, kwargs, outcome>>

Params(n) == {call.params[n][i] : i \in DOMAIN call.params[n]}
Readers(d) == {n \in Node : d \in Params(n)}
Final == {call.final[i] : i \in DOMAIN call.final}

(* stage "visit": the dependencies before index at have been visited;      *)
(* "prune": the node is computed, those before at have been looked at.     *)
Frame(n, isOptional) == [node |-> n, optional |-> isOptional, at |-> 1, stage |-> "visit"]
Top == stack[Len(stack)]
Pop == SubSeq(stack, 1, Len(stack) - 1)
Advanced == [stack EXCEPT ![Len(stack)].at = @ + 1]
Pruning == [stack EXCEPT ![Len(stack)].at = 1, ![Len(stack)].stage = "prune"]

SEInit ==
    /\ call \in Requests
    /\ left = call.final
    /\ stack = <<>>
    /\ computed = call.supplied
    /\ status = [n \in Node |-> "idle"]
    /\ kwargs = [n \in Node |-> {}]
    /\ outcome = "none"

-----------------------------------------------------------------------------
(* dfs_traverse(n) up to its first loop, called with stack frames below.   *)
VisitIgnoringOverrides(n, isOptional, frames) ==  \* slip
    \/ /\ n \in computed
       /\ stack' = frames
       /\ UNCHANGED computed
    \/ /\ n \notin computed
       /\ stack' = Append(frames, Frame(n, isOptional))
       /\ UNCHANGED computed
Visit(n, isOptional, frames) ==
    \/ /\ n \in computed
       /\ stack' = frames
       /\ UNCHANGED computed
    \/ /\ n \notin computed /\ n \in call.overrides
       /\ stack' = frames
       /\ computed' = computed \cup {n}
    \/ /\ n \notin computed /\ n \notin call.overrides
       /\ stack' = Append(frames, Frame(n, isOptional))
       /\ UNCHANGED computed

VisitFinal ==
    /\ outcome = "none"
    /\ stack = <<>> /\ left # <<>>
    /\ Visit(Head(left), Head(left) \in call.input, stack)
    /\ left' = Tail(left)
    /\ UNCHANGED <<call, status, kwargs, outcome>>

Working(stage) ==
    /\ outcome = "none"
    /\ stack # <<>>
    /\ Top.stage = stage

VisitDependency ==
    /\ Working("visit")
    /\ Top.at \in DOMAIN call.params[Top.node]
    /\ LET d == call.params[Top.node][Top.at] IN
          Visit(d, <<Top.node, d>> \in call.optional, Advanced)
    /\ UNCHANGED <<call, left, status, kwargs, outcome>>

Visited ==
    /\ Working("visit")
    /\ Top.at \notin DOMAIN call.params[Top.node]
    /\ status[Top.node] \notin {"running", "failed"}

TakeInput ==
    /\ Visited
    /\ Top.node \in call.input
    /\ \/ /\ Top.node \in call.given
          /\ computed' = computed \cup {Top.node}
          /\ stack' = Pruning
          /\ UNCHANGED outcome
       \/ /\ Top.node \notin call.given /\ Top.optional
          /\ stack' = Pop
          /\ UNCHANGED <<computed, outcome>>
       \/ /\ Top.node \notin call.given /\ ~Top.optional
          /\ outcome' = "raised"
          /\ UNCHANGED <<computed, stack>>
    /\ UNCHANGED <<call, left, status, kwargs>>

(* execute_lifecycle_for_node.  If the pre hook raises there is no post    *)
(* hook.                                                                   *)
PreHookRaises ==
    /\ Visited
    /\ Top.node \notin call.input
    /\ outcome' = "raised"
    /\ UNCHANGED <<call, left, stack, computed, status, kwargs>>

StartNode ==
    /\ Visited
    /\ Top.node \notin call.input
    /\ kwargs' = [kwargs EXCEPT ![Top.node] = Params(Top.node) \cap computed]
    /\ status' = [status EXCEPT ![Top.node] = "running"]
    /\ UNCHANGED <<call, left, stack, computed, outcome>>

EndNode ==
    /\ Working("visit")
    /\ status[Top.node] = "running"
    /\ status' = [status EXCEPT ![Top.node] = "done"]
    /\ computed' = computed \cup {Top.node}
    /\ stack' = Pruning
    /\ UNCHANGED <<call, left, kwargs, outcome>>

(* The node raises, or its post hook does.                                 *)
NodeRaises ==
    /\ Working("visit")
    /\ status[Top.node] = "running"
    /\ status' = [status EXCEPT ![Top.node] = "failed"]
    /\ UNCHANGED <<call, left, stack, computed, kwargs, outcome>>

Propagate ==
    /\ Working("visit")
    /\ status[Top.node] = "failed"
    /\ outcome' = "raised"
    /\ UNCHANGED <<call, left, stack, computed, status, kwargs>>

UnneededAny(d) ==  \* slip: one reader that is computed will do
    /\ d \notin Final
    /\ \E r \in Readers(d) : r \in computed /\ r \notin Final
UnneededFinal(d) ==  \* slip: the outputs are dropped as well
    \A r \in Readers(d) : r \in computed
Unneeded(d) ==
    /\ d \notin Final
    /\ \A r \in Readers(d) : r \in computed /\ r \notin Final

PruneDependency ==
    /\ Working("prune")
    /\ LET params == call.params[Top.node] IN
       IF Top.at \in DOMAIN params
       THEN LET d == params[Top.at] IN
            /\ computed' = IF Unneeded(d) THEN computed \ {d} ELSE computed
            /\ stack' = Advanced
       ELSE stack' = Pop /\ UNCHANGED computed
    /\ UNCHANGED <<call, left, status, kwargs, outcome>>

Return ==
    /\ outcome = "none"
    /\ stack = <<>> /\ left = <<>>
    /\ outcome' = "returned"
    /\ UNCHANGED <<call, left, stack, computed, status, kwargs>>

SENext ==
    \/ VisitFinal \/ VisitDependency \/ TakeInput
    \/ PreHookRaises \/ StartNode \/ EndNode \/ NodeRaises \/ Propagate
    \/ PruneDependency \/ Return

SESpec == SEInit /\ [][SENext]_sevars /\ WF_sevars(SENext)

-----------------------------------------------------------------------------
(* The nodes without a value of their own: those that may have to be       *)
(* executed.                                                               *)
Executable == Node \ (call.input \cup call.overrides \cup call.supplied)

(* What has to be executed: the outputs, and all that these read directly  *)
(* or indirectly, but nothing that only an override or a value that was    *)
(* passed would have read.                                                 *)
Needed ==
    LET isNeeded[n \in Node] ==
            n \in Executable /\ (n \in Final \/ \E r \in Readers(n) : isNeeded[r])
    IN {n \in Node : isNeeded[n]}

HasValue(d) == d \notin call.input \/ d \in call.given \cup call.overrides \cup call.supplied

(* execute_subdag executes what the outputs need and nothing else, and the *)
(* outputs are in computed when it returns, whatever was pruned (the       *)
(* driver would give None for one that is not).                            *)
ComputesWhatIsAsked ==
    /\ \A n \in Node : status[n] # "idle" => n \in Needed
    /\ outcome = "returned" =>
          /\ \A n \in Needed : status[n] = "done"
          /\ \A n \in Final : HasValue(n) => n \in computed

(* A node is executed with all its arguments: none was pruned before, and  *)
(* only an optional input that nobody gave is missing.                     *)
ArgumentsAreWhole ==
    \A n \in Node : status[n] # "idle" =>
        \A d \in Params(n) : \/ d \in kwargs[n]
                             \/ ~HasValue(d) /\ <<n, d>> \in call.optional

(* Each node once, after what it reads.                                    *)
NR == INSTANCE NodeRun WITH
        reads  <- [n \in Node |-> Params(n) \cap Executable],
        wanted <- Final \cap Executable

ImplementsNodeRun == NR!NRSpec
=============================================================================

-------------------------- MODULE MCCacheScenarios --------------------------
(***************************************************************************)
(* Five histories of runs of CacheAdapter, of which a behavior follows     *)
(* one: mixed (that of the constants) has nodes that are DISABLEd, IGNOREd *)
(* or RECOMPUTEd in some of its runs; shared has edited code, other inputs *)
(* and a deletion between runs; memory has the in-memory stores and        *)
(* a node that reads the world; block is a task-based run of a block and   *)
(* another of it with one item changed; threads has the repetitions of a   *)
(* block, two of them equal, on two threads.                               *)
(***************************************************************************)
EXTENDS MCCacheAdapter

VARIABLE scenario

Shared == INSTANCE CacheAdapter WITH
    Behavior <- EditBehavior, Code <- EditCode, Given <- EditInput, MaxDeletes <- 1

Memory == INSTANCE CacheAdapter WITH
    OnDisk <- FALSE, Impure <- {"a"}, MaxWorld <- 2, MaxCrashes <- 0,
    Overlap <- FALSE, Behavior <- RefreshTwice, Given <- ThreeSame

Block == INSTANCE CacheAdapter WITH
    LastRun <- 2, Task <- BlockTask, Node <- BlockNode, InputNode <- BlockInput,
    Deps <- BlockDeps, TaskNode <- BlockTaskNode, Behavior <- BlockBehavior,
    Code <- BlockCode, Given <- BlockGiven, MaxCrashes <- 0, Overlap <- FALSE

Threads == INSTANCE CacheAdapter WITH
    LastRun <- 1, Task <- ItemsTask, Node <- ItemsNode, InputNode <- ItemsInput,
    Deps <- ItemsDeps, TaskNode <- ItemsTaskNode, Behavior <- ItemsBehavior,
    Code <- ItemsCode, Given <- ItemsGiven, Workers <- 2, MaxCrashes <- 0,
    Overlap <- FALSE

ScInit ==
    \/ scenario = "mixed" /\ CaInit
    \/ scenario = "shared" /\ Shared!CaInit
    \/ scenario = "memory" /\ Memory!CaInit
    \/ scenario = "block" /\ Block!CaInit
    \/ scenario = "threads" /\ Threads!CaInit

ScNext ==
    /\ \/ scenario = "mixed" /\ CaNext
       \/ scenario = "shared" /\ Shared!CaNext
       \/ scenario = "memory" /\ Memory!CaNext
       \/ scenario = "block" /\ Block!CaNext
       \/ scenario = "threads" /\ Threads!CaNext
    /\ UNCHANGED scenario

scvars == <<cavars, scenario>>

(* CaFairness of the scenario whose property needs it.                     *)
BlockStep(A) == scenario = "block" /\ A /\ UNCHANGED scenario
ScFairness ==
    /\ \A r \in Block!Run : /\ WF_scvars(BlockStep(Block!Begin(r)))
                            /\ WF_scvars(BlockStep(Block!End(r)))
    /\ \A l \in Block!Lane : WF_scvars(BlockStep(Block!LaneStep(l)))

ScSpec == ScInit /\ [][ScNext]_scvars /\ ScFairness

-----------------------------------------------------------------------------
(* RightResults with behaviors that differ between nodes and runs, with    *)
(* code and inputs that change between runs that overlap, and with threads *)
(* that race for a dictionary, for a key or for a file; and NoWastedWork   *)
(* for a node that was RECOMPUTEd before and for the elements of a list    *)
(* that changed between two runs.                                          *)
EachHistoryIsRight ==
    /\ scenario = "mixed" => RightResults
    /\ scenario = "shared" => Shared!RightResults /\ Shared!StoresAreSound
    /\ scenario = "memory" => Memory!RightResults /\ Memory!NoWastedWork
    /\ scenario = "block" => Block!RightResults /\ Block!NoWastedWork
    /\ scenario = "threads" => Threads!RightResults

(* RunsSucceed for tasks inside and outside of a block.                    *)
BlocksSucceed ==
    \A r \in Block!Run : (scenario = "block" /\ run[r] = "on") ~>
        /\ scenario = "block"
        /\ run[r] = "over"
        /\ \/ \E t \in BlockTask : pc[<<r, t>>] = "raised"
           \/ \A t \in BlockTask : Block!Finished(<<r, t>>)
=============================================================================

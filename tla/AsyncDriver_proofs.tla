------------------------- MODULE AsyncDriver_proofs -------------------------
(***************************************************************************)
(* raw_execute of the async driver calls post_graph_execute last when it   *)
(* tells it of a success, and implements NodeRun, for every graph.         *)
(*                                                                         *)
(* A task that has got past its gather has the results of all it reads,    *)
(* and a result is final.  So when the outputs have their results, so has  *)
(* every node: one without a result, of the greatest number, would be read *)
(* by a node that has one.                                                 *)
(***************************************************************************)
EXTENDS AsyncDriver, WellFoundedInduction, FiniteSetTheorems, TLAPS

ADType ==
    /\ graph \in Graphs
    /\ stage \in [Node -> {"none", "gather", "pre", "function", "post", "ended"}]
    /\ called \in [Node -> BOOLEAN]
    /\ end \in [Node -> {"none", "result", "error", "cancelled"}]
    /\ told \in [Node -> {"none", "success", "failure"}]
    /\ driver \in {"starting", "gather", "post", "returned", "raised"}

(* No task before the traversal.                                           *)
NotTraversed == driver = "starting" => \A n \in Node : stage[n] = "none"

(* What is past its gather has read results.                               *)
HasRead ==
    \A n \in Node : stage[n] \in {"pre", "function", "post"} \/ end[n] = "result" =>
        \A d \in graph.reads[n] : Result(d)

(* A result comes from a function that was called, and the hook was told.  *)
ResultsAreReal == \A n \in Node : end[n] = "result" => called[n] /\ told[n] = "success"
NotCalledYet ==
    \A n \in Node : /\ stage[n] \in {"none", "gather", "pre"} => ~called[n]
                    /\ stage[n] = "function" => called[n]

OutputsHaveResults == success => \A n \in graph.outputs : Result(n)

AsyncInv ==
    /\ ADType /\ NotTraversed /\ HasRead /\ ResultsAreReal /\ NotCalledYet
    /\ OutputsHaveResults

LEMMA GraphFacts ==
    ASSUME ADType
    PROVE  /\ graph.reads \in [Node -> SUBSET Node]
           /\ \A n \in Node : \A d \in graph.reads[n] : d \in Node /\ d < n
           /\ graph.outputs \subseteq Node
           /\ \A d \in Node : d \in graph.outputs \/ \E n \in Node : d \in graph.reads[n]
<1>1. graph \in Graphs
  BY DEF ADType
<1>2. /\ graph.reads \in [Node -> SUBSET Node]
      /\ \A n \in Node : \A d \in graph.reads[n] : d < n
      /\ graph.outputs \subseteq Node
      /\ \A d \in Node : d \in graph.outputs \/ \E n \in Node : d \in graph.reads[n]
  BY <1>1, AsyncAssumption
<1> QED
  BY <1>2

-----------------------------------------------------------------------------
(* When the outputs have results, every node has one.                      *)
LEMMA AllHaveResults ==
    ASSUME AsyncInv, success
    PROVE  \A n \in Node : Result(n)
<1> SUFFICES ASSUME \E n \in Node : ~Result(n) PROVE FALSE
  OBVIOUS
<1>1. ADType /\ N \in Nat /\ Node \subseteq Nat /\ \A n \in Node : n <= N
  BY AsyncAssumption DEF AsyncInv, Node
<1> DEFINE Above == {N - n : n \in {m \in Node : ~Result(m)}}
<1>2. Above \in SUBSET Nat /\ Above # {}
  <2>1. \A n \in 1..N : N - n \in Nat
    BY AsyncAssumption
  <2> QED
    BY <2>1 DEF Node
<1>3. PICK x \in Above : \A y \in Above : <<y, x>> \notin OpToRel(<, Nat)
  BY <1>2, WFMin, NatLessThanWellFounded, Zenon
<1>4. \A y \in Above : ~(y < x)
  <2>1. \A y \in Above : y \in Nat /\ x \in Nat
    BY <1>2, <1>3
  <2> QED
    BY <1>3, <2>1, Zenon DEF OpToRel
<1>5. PICK d \in Node : ~Result(d) /\ x = N - d
  BY <1>3
<1>6. d \notin graph.outputs
  BY <1>5 DEF AsyncInv, OutputsHaveResults
<1>7. PICK n \in Node : d \in graph.reads[n]
  BY <1>1, <1>6, GraphFacts
<1>8. ~Result(n)
  BY <1>5, <1>7 DEF AsyncInv, HasRead, Result
<1>9. N - n \in Above
  BY <1>8
<1>10. d < n
  BY <1>1, <1>7, GraphFacts
<1>11. N - n < N - d
  <2>1. N \in Nat /\ n \in Nat /\ d \in Nat
    BY <1>1
  <2> QED
    BY <1>10, <2>1
<1> QED
  BY <1>4, <1>5, <1>9, <1>11

LEMMA HookIsLast == AsyncInv => GraphHookIsLast
BY AllHaveResults DEF GraphHookIsLast, AsyncInv, ResultsAreReal, Result

-----------------------------------------------------------------------------
(* The invariant.                                                          *)
LEMMA InitInv == ADInit => AsyncInv
BY DEF ADInit, AsyncInv, ADType, NotTraversed, HasRead, ResultsAreReal,
       NotCalledYet, OutputsHaveResults

(* A step of the driver or a cancellation, once the tasks are there.       *)
LEMMA DriverOnly ==
    ASSUME AsyncInv, UNCHANGED <<graph, stage, called, end, told>>,
           driver' \in {"gather", "post", "returned", "raised"} \/ driver' = driver,
           success' => success \/ \A n \in graph.outputs : Result(n)
    PROVE  AsyncInv'
BY DEF AsyncInv, ADType, NotTraversed, HasRead, ResultsAreReal, NotCalledYet,
       OutputsHaveResults, Result

LEMMA TraverseStep ==
    ASSUME AsyncInv, Traverse
    PROVE  AsyncInv'
<1>1. PICK k \in 0..N :
        /\ stage' = [n \in Node |-> IF n <= k THEN "gather" ELSE "none"]
        /\ driver' = IF k = N THEN "gather" ELSE "post"
  BY DEF Traverse
<1>2. driver = "starting" /\ UNCHANGED <<graph, called, end, told, success>>
  BY DEF Traverse
<1>3. \A n \in Node : stage[n] = "none"
  BY <1>2 DEF AsyncInv, NotTraversed
<1>4. \A n \in Node : stage'[n] \in {"none", "gather"}
  BY <1>1
<1>5. ADType'
  <2>1. stage' \in [Node -> {"none", "gather", "pre", "function", "post", "ended"}]
    BY <1>1
  <2>2. driver' \in {"gather", "post"}
    BY <1>1
  <2> QED
    BY <1>2, <2>1, <2>2 DEF AsyncInv, ADType
<1>6. NotTraversed'
  BY <1>1 DEF NotTraversed
<1>7. \A n \in Node : ~Result(n)
  BY <1>3 DEF Result
<1>8. HasRead'
  <2> SUFFICES ASSUME NEW n \in Node, end[n] = "result", NEW d \in graph.reads[n] PROVE FALSE
    BY <1>2, <1>4 DEF HasRead
  <2>1. Result(d) /\ d \in Node
    BY GraphFacts DEF AsyncInv, HasRead
  <2> QED
    BY <1>7, <2>1
<1>9. ResultsAreReal' /\ NotCalledYet'
  BY <1>2, <1>3, <1>4 DEF AsyncInv, ResultsAreReal, NotCalledYet
<1>10. OutputsHaveResults'
  <2> SUFFICES ASSUME success, NEW n \in graph.outputs PROVE FALSE
    BY <1>2 DEF OutputsHaveResults
  <2>1. Result(n) /\ n \in Node
    BY GraphFacts DEF AsyncInv, OutputsHaveResults
  <2> QED
    BY <1>7, <2>1
<1> QED
  BY <1>5, <1>6, <1>8, <1>9, <1>10 DEF AsyncInv

(* A step of the task of n, which is unfinished.                           *)
LEMMA TaskOnly ==
    ASSUME AsyncInv, NEW n \in Node, UNCHANGED <<graph, driver, success>>,
           stage[n] \notin {"none", "ended"},
           NEW st \in {"gather", "pre", "function", "post", "ended"},
           NEW ca \in BOOLEAN,
           NEW e \in {"none", "result", "error", "cancelled"},
           NEW t \in {"none", "success", "failure"},
           stage' = [stage EXCEPT ![n] = st],
           called' = [called EXCEPT ![n] = ca],
           end' = [end EXCEPT ![n] = e],
           told' = [told EXCEPT ![n] = t],
           st \in {"pre", "function", "post"} \/ e = "result" =>
               \A d \in graph.reads[n] : Result(d),
           e = "result" => ca /\ t = "success",
           st \in {"none", "gather", "pre"} => ~ca,
           st = "function" => ca
    PROVE  AsyncInv'
<1>1. ADType
  BY DEF AsyncInv
<1>2. /\ stage \in [Node -> {"none", "gather", "pre", "function", "post", "ended"}]
      /\ called \in [Node -> BOOLEAN]
      /\ end \in [Node -> {"none", "result", "error", "cancelled"}]
      /\ told \in [Node -> {"none", "success", "failure"}]
  BY <1>1 DEF ADType
<1>3. \A m \in Node : /\ stage'[m] = IF m = n THEN st ELSE stage[m]
                      /\ end'[m] = IF m = n THEN e ELSE end[m]
                      /\ told'[m] = IF m = n THEN t ELSE told[m]
  BY <1>2
<1>4. \A m \in Node : m # n => called'[m] = called[m]
  BY <1>2
<1>5. called'[n] = ca
  BY <1>2
<1>6. \A m \in Node : Result(m) => m # n /\ stage'[m] = "ended" /\ end'[m] = "result"
  BY <1>3 DEF Result
<1>7. ADType'
  <2>1. stage' \in [Node -> {"none", "gather", "pre", "function", "post", "ended"}]
    BY <1>2
  <2>2. called' \in [Node -> BOOLEAN]
    BY <1>2
  <2>3. end' \in [Node -> {"none", "result", "error", "cancelled"}]
    BY <1>2
  <2>4. told' \in [Node -> {"none", "success", "failure"}]
    BY <1>2
  <2> QED
    BY <1>1, <2>1, <2>2, <2>3, <2>4 DEF ADType
<1>8. NotTraversed'
  BY <1>3 DEF AsyncInv, NotTraversed
<1>9. HasRead'
  <2> SUFFICES ASSUME NEW m \in Node,
                      stage'[m] \in {"pre", "function", "post"} \/ end'[m] = "result",
                      NEW d \in graph.reads[m]
               PROVE  stage'[d] = "ended" /\ end'[d] = "result"
    BY DEF HasRead, Result
  <2>1. d \in Node
    BY <1>1, GraphFacts
  <2>2. Result(d)
    BY <1>3 DEF AsyncInv, HasRead
  <2> QED
    BY <1>6, <2>1, <2>2
<1>10. ResultsAreReal'
  <2> SUFFICES ASSUME NEW m \in Node, end'[m] = "result" PROVE called'[m] /\ told'[m] = "success"
    BY DEF ResultsAreReal
  <2>1. CASE m = n
    BY <1>3, <1>5, <2>1
  <2>2. CASE m # n
    <3>1. end[m] = "result" /\ told'[m] = told[m]
      BY <1>3, <2>2
    <3>2. called[m] /\ told[m] = "success"
      BY <3>1 DEF AsyncInv, ResultsAreReal
    <3> QED
      BY <1>4, <2>2, <3>1, <3>2
  <2> QED
    BY <2>1, <2>2
<1>11. NotCalledYet'
  <2> SUFFICES ASSUME NEW m \in Node
               PROVE  /\ stage'[m] \in {"none", "gather", "pre"} => ~called'[m]
                      /\ stage'[m] = "function" => called'[m]
    BY DEF NotCalledYet
  <2>1. CASE m = n
    BY <1>3, <1>5, <2>1
  <2>2. CASE m # n
    <3>1. stage'[m] = stage[m] /\ called'[m] = called[m]
      BY <1>3, <1>4, <2>2
    <3> QED
      BY <3>1 DEF AsyncInv, NotCalledYet
  <2> QED
    BY <2>1, <2>2
<1>12. OutputsHaveResults'
  <2> SUFFICES ASSUME success, NEW m \in graph.outputs
               PROVE  stage'[m] = "ended" /\ end'[m] = "result"
    BY DEF OutputsHaveResults, Result
  <2>1. m \in Node
    BY <1>1, GraphFacts
  <2> QED
    BY <1>6, <2>1 DEF AsyncInv, OutputsHaveResults
<1> QED
  BY <1>7, <1>8, <1>9, <1>10, <1>11, <1>12 DEF AsyncInv

LEMMA TaskStepInv ==
    ASSUME AsyncInv, NEW n \in Node, TaskStep(n)
    PROVE  AsyncInv'
<1>1. /\ stage \in [Node -> {"none", "gather", "pre", "function", "post", "ended"}]
      /\ called \in [Node -> BOOLEAN]
      /\ end \in [Node -> {"none", "result", "error", "cancelled"}]
      /\ told \in [Node -> {"none", "success", "failure"}]
  BY DEF AsyncInv, ADType
<1>2. /\ called = [called EXCEPT ![n] = called[n]]
      /\ called[n] \in BOOLEAN
  BY <1>1
<1>3. /\ end = [end EXCEPT ![n] = end[n]]
      /\ told = [told EXCEPT ![n] = told[n]]
      /\ end[n] \in {"none", "result", "error", "cancelled"}
      /\ told[n] \in {"none", "success", "failure"}
  BY <1>1
<1>4. stage[n] \in {"pre", "function", "post"} \/ end[n] = "result" =>
          \A d \in graph.reads[n] : Result(d)
  BY DEF AsyncInv, HasRead
<1>5. end[n] = "result" => called[n] /\ told[n] = "success"
  BY DEF AsyncInv, ResultsAreReal
<1>6. /\ stage[n] \in {"none", "gather", "pre"} => ~called[n]
      /\ stage[n] = "function" => called[n]
  BY DEF AsyncInv, NotCalledYet
<1>7. CASE InputsGathered(n)
  <2>1. /\ stage[n] = "gather" /\ \A d \in graph.reads[n] : Result(d)
        /\ stage' = [stage EXCEPT ![n] = "pre"]
        /\ called' = [called EXCEPT ![n] = called[n]]
        /\ end' = [end EXCEPT ![n] = end[n]] /\ told' = [told EXCEPT ![n] = told[n]]
        /\ UNCHANGED <<graph, driver, success>>
    BY <1>2, <1>3, <1>7 DEF InputsGathered
  <2> QED
    BY <1>2, <1>3, <1>5, <1>6, <2>1, TaskOnly
<1>8. CASE GatherInputsRaises(n)
  <2>1. PICK d \in graph.reads[n] : Broken(d) /\ end' = [end EXCEPT ![n] = end[d]]
    BY <1>8 DEF GatherInputsRaises
  <2>2. end[d] # "result" /\ end[d] \in {"none", "result", "error", "cancelled"}
    <3>1. d \in Node
      BY <2>1, GraphFacts DEF AsyncInv
    <3> QED
      BY <1>1, <2>1, <3>1 DEF Broken
  <2>3. PICK e \in {"none", "result", "error", "cancelled"} : e = end[d]
    BY <2>2
  <2>4. /\ stage[n] = "gather" /\ stage' = [stage EXCEPT ![n] = "ended"]
        /\ called' = [called EXCEPT ![n] = called[n]]
        /\ end' = [end EXCEPT ![n] = e] /\ told' = [told EXCEPT ![n] = told[n]]
        /\ UNCHANGED <<graph, driver, success>>
    BY <1>2, <1>3, <1>8, <2>1, <2>3 DEF GatherInputsRaises
  <2> QED
    BY <1>2, <1>3, <2>2, <2>3, <2>4, TaskOnly
<1>9. CASE PreHook(n)
  <2>1. /\ stage[n] = "pre" /\ stage' = [stage EXCEPT ![n] = "function"]
        /\ called' = [called EXCEPT ![n] = TRUE]
        /\ end' = [end EXCEPT ![n] = end[n]] /\ told' = [told EXCEPT ![n] = told[n]]
        /\ UNCHANGED <<graph, driver, success>>
    BY <1>3, <1>9 DEF PreHook
  <2> QED
    BY <1>3, <1>4, <1>5, <2>1, TaskOnly
<1>10. CASE PreHookRaises(n)
  <2>1. /\ stage[n] = "pre" /\ stage' = [stage EXCEPT ![n] = "ended"]
        /\ called' = [called EXCEPT ![n] = called[n]]
        /\ end' = [end EXCEPT ![n] = "error"] /\ told' = [told EXCEPT ![n] = told[n]]
        /\ UNCHANGED <<graph, driver, success>>
    BY <1>2, <1>3, <1>10 DEF PreHookRaises
  <2> QED
    BY <1>2, <1>3, <2>1, TaskOnly
<1>11. CASE FunctionEnds(n)
  <2>1. /\ stage[n] = "function" /\ stage' = [stage EXCEPT ![n] = "post"]
        /\ called' = [called EXCEPT ![n] = called[n]]
        /\ UNCHANGED <<graph, driver, success>>
    BY <1>2, <1>11 DEF FunctionEnds
  <2>2. CASE end' = [end EXCEPT ![n] = "result"] /\ told' = [told EXCEPT ![n] = "success"]
    BY <1>2, <1>4, <1>6, <2>1, <2>2, TaskOnly
  <2>3. CASE end' = [end EXCEPT ![n] = "error"] /\ told' = [told EXCEPT ![n] = "failure"]
    BY <1>2, <1>4, <2>1, <2>3, TaskOnly
  <2> QED
    BY <1>11, <2>2, <2>3 DEF FunctionEnds
<1>12. CASE PostHook(n)
  <2>1. /\ stage[n] = "post" /\ stage' = [stage EXCEPT ![n] = "ended"]
        /\ called' = [called EXCEPT ![n] = called[n]]
        /\ told' = [told EXCEPT ![n] = told[n]]
        /\ UNCHANGED <<graph, driver, success>>
    BY <1>2, <1>3, <1>12 DEF PostHook
  <2>2. CASE end' = end
    <3>1. end' = [end EXCEPT ![n] = end[n]]
      BY <1>3, <2>2
    <3> QED
      BY <1>2, <1>3, <1>4, <1>5, <2>1, <3>1, TaskOnly
  <2>3. CASE end' = [end EXCEPT ![n] = "error"]
    BY <1>2, <1>3, <2>1, <2>3, TaskOnly
  <2> QED
    BY <1>12, <2>2, <2>3 DEF PostHook
<1>13. CASE InterruptGather(n) \/ InterruptPost(n)
  <2>1. /\ stage[n] \notin {"none", "ended"} /\ stage' = [stage EXCEPT ![n] = "ended"]
        /\ called' = [called EXCEPT ![n] = called[n]]
        /\ end' = [end EXCEPT ![n] = "cancelled"] /\ told' = [told EXCEPT ![n] = told[n]]
        /\ UNCHANGED <<graph, driver, success>>
    BY <1>2, <1>3, <1>13 DEF InterruptGather, InterruptPost
  <2> QED
    BY <1>2, <1>3, <2>1, TaskOnly
<1>14. CASE Interrupt(n)
  <2>1. /\ stage[n] \in {"pre", "function"} /\ stage' = [stage EXCEPT ![n] = "post"]
        /\ called' = [called EXCEPT ![n] = called[n]]
        /\ end' = [end EXCEPT ![n] = "cancelled"] /\ told' = [told EXCEPT ![n] = "success"]
        /\ UNCHANGED <<graph, driver, success>>
    BY <1>2, <1>14 DEF Interrupt
  <2> QED
    BY <1>2, <1>4, <2>1, TaskOnly
<1> QED
  BY <1>7, <1>8, <1>9, <1>10, <1>11, <1>12, <1>13, <1>14 DEF TaskStep

LEMMA StepInv == AsyncInv /\ [ADNext]_advars => AsyncInv'
<1> SUFFICES ASSUME AsyncInv, [ADNext]_advars PROVE AsyncInv'
  OBVIOUS
<1>1. CASE Traverse
  BY <1>1, TraverseStep
<1>2. CASE PreGraphRaises \/ Gather \/ GatherRaises \/ PostGraph \/ Shutdown \/ Cancel
           \/ UNCHANGED advars
  <2>1. /\ UNCHANGED <<graph, stage, called, end, told>>
        /\ driver' \in {"gather", "post", "returned", "raised"} \/ driver' = driver
        /\ success' => success \/ \A n \in graph.outputs : Result(n)
    BY <1>2 DEF PreGraphRaises, Gather, GatherRaises, PostGraph, Shutdown, Cancel,
                advars, tasks
  <2> QED
    BY <2>1, DriverOnly
<1>3. ASSUME NEW n \in Node, TaskStep(n) PROVE AsyncInv'
  BY <1>3, TaskStepInv
<1> QED
  BY <1>1, <1>2, <1>3 DEF ADNext, DriverStep

LEMMA Invariance == ADSpec => []AsyncInv
<1>1. ADInit => AsyncInv
  BY InitInv
<1>2. AsyncInv /\ [ADNext]_advars => AsyncInv'
  BY StepInv
<1> QED
  BY <1>1, <1>2, PTL DEF ADSpec

(* When post_graph_execute is told that the run has succeeded, every task  *)
(* has ended with a result, and its post hook has been told of a success.  *)
THEOREM PostGraphIsLast == ADSpec => []GraphHookIsLast
<1>1. AsyncInv => GraphHookIsLast
  BY HookIsLast
<1> QED
  BY <1>1, Invariance, PTL

-----------------------------------------------------------------------------
(* The refinement of NodeRun.                                              *)
AllStatus == [n \in Node |-> Status(n)]
Outcome == IF driver \in {"returned", "raised"} THEN driver ELSE "none"

LEMMA StatusFacts ==
    ASSUME ADType, NEW n \in Node
    PROVE  /\ Status(n) = "idle" <=> ~called[n]
           /\ Status(n) = "running" <=> called[n] /\ stage[n] # "ended"
           /\ Status(n) = "done" <=> called[n] /\ Result(n)
           /\ Status(n) = "failed" <=> called[n] /\ Broken(n)
           /\ Status(n) \in {"idle", "running", "done", "failed"}
<1>1. called[n] \in BOOLEAN
  BY DEF ADType
<1>2. CASE ~called[n]
  BY <1>2, Zenon DEF Status
<1> QED
  BY <1>1, <1>2 DEF Status, Result, Broken

LEMMA NodeRunInit == ADInit => NR!NRInit
<1> SUFFICES ASSUME ADInit PROVE NR!NRInit
  OBVIOUS
<1>1. ADType
  BY InitInv DEF AsyncInv
<1>2. \A n \in Node : ~called[n]
  BY DEF ADInit
<1>3. AllStatus = [n \in Node |-> "idle"]
  BY <1>1, <1>2, StatusFacts DEF AllStatus
<1>4. Outcome = "none"
  BY DEF ADInit, Outcome
<1>5. graph.reads \in [Node -> SUBSET Node] /\ graph.outputs \in SUBSET Node
  BY <1>1, GraphFacts
<1> QED
  BY <1>3, <1>4, <1>5 DEF NR!NRInit, AllStatus, Outcome

LEMMA NodeRunStutter ==
    ASSUME UNCHANGED <<graph, AllStatus, Outcome>>
    PROVE  UNCHANGED NR!nrvars
BY DEF NR!nrvars, AllStatus, Outcome

LEMMA DriverNodeRun ==
    ASSUME AsyncInv, AsyncInv', DriverStep \/ Cancel
    PROVE  [NR!NRNext]_(NR!nrvars)
<1>1. UNCHANGED graph /\ UNCHANGED <<called, end>>
  BY DEF DriverStep, PreGraphRaises, Traverse, Gather, GatherRaises, PostGraph,
         Shutdown, Cancel, tasks
<1>2. UNCHANGED AllStatus
  <2>1. CASE Traverse
    <3>1. \A n \in Node : ~called[n]
      BY <2>1 DEF Traverse, AsyncInv, NotTraversed, NotCalledYet
    <3>2. \A n \in Node : Status(n) = "idle"
      BY <3>1, StatusFacts DEF AsyncInv
    <3>3. \A n \in Node : Status(n)' = "idle"
      BY <1>1, <3>1 DEF Status
    <3> QED
      BY <3>2, <3>3 DEF AllStatus
  <2>2. CASE ~Traverse
    <3>1. UNCHANGED stage
      BY <2>2 DEF DriverStep, PreGraphRaises, Gather, GatherRaises, PostGraph,
                  Shutdown, Cancel, tasks
    <3> QED
      BY <1>1, <3>1 DEF AllStatus, Status, Result, Broken
  <2> QED
    BY <2>1, <2>2
<1>3. CASE UNCHANGED Outcome
  BY <1>1, <1>2, <1>3, NodeRunStutter
<1>4. CASE ~UNCHANGED Outcome
  <2>1. /\ Outcome = "none" /\ Outcome' \in {"returned", "raised"}
        /\ Outcome' = "returned" => success
    BY <1>4 DEF DriverStep, PreGraphRaises, Traverse, Gather, GatherRaises,
                PostGraph, Shutdown, Cancel, Outcome
  <2>2. CASE Outcome' = "raised"
    <3>1. NR!Raise
      BY <1>1, <1>2, <2>1, <2>2 DEF NR!Raise, AllStatus, Outcome
    <3> QED
      BY <3>1 DEF NR!NRNext
  <2>3. CASE Outcome' = "returned"
    <3>1. \A n \in graph.outputs : AllStatus[n] = "done"
      <4> SUFFICES ASSUME NEW n \in graph.outputs PROVE AllStatus[n] = "done"
        OBVIOUS
      <4>1. n \in Node
        BY GraphFacts DEF AsyncInv
      <4>2. Result(n) /\ called[n]
        BY <2>1, <2>3, <4>1 DEF AsyncInv, OutputsHaveResults, ResultsAreReal, Result
      <4>3. Status(n) = "done"
        BY <4>1, <4>2, StatusFacts DEF AsyncInv
      <4> QED
        BY <4>1, <4>3 DEF AllStatus
    <3>2. NR!Return
      BY <1>1, <1>2, <2>1, <2>3, <3>1 DEF NR!Return, AllStatus, Outcome
    <3> QED
      BY <3>2 DEF NR!NRNext
  <2> QED
    BY <2>1, <2>2, <2>3
<1> QED
  BY <1>3, <1>4

LEMMA TaskNodeRun ==
    ASSUME AsyncInv, AsyncInv', NEW n \in Node, TaskStep(n)
    PROVE  [NR!NRNext]_(NR!nrvars)
<1>1. UNCHANGED <<graph, driver>>
  BY DEF TaskStep, InputsGathered, GatherInputsRaises, PreHook, PreHookRaises,
         FunctionEnds, PostHook, InterruptGather, Interrupt, InterruptPost
<1>2. UNCHANGED Outcome
  BY <1>1 DEF Outcome
<1>3. ADType /\ ADType'
  BY DEF AsyncInv
<1>4. /\ stage \in [Node -> {"none", "gather", "pre", "function", "post", "ended"}]
      /\ called \in [Node -> BOOLEAN]
      /\ end \in [Node -> {"none", "result", "error", "cancelled"}]
  BY <1>3 DEF ADType
<1>5. /\ \A m \in Node : m # n => stage'[m] = stage[m]
      /\ \A m \in Node : m # n => called'[m] = called[m]
      /\ \A m \in Node : m # n => end'[m] = end[m]
  BY <1>4 DEF TaskStep, InputsGathered, GatherInputsRaises, PreHook, PreHookRaises,
         FunctionEnds, PostHook, InterruptGather, Interrupt, InterruptPost
<1>6. \A m \in Node : m # n => Status(m)' = Status(m)
  <2> SUFFICES ASSUME NEW m \in Node, m # n PROVE Status(m)' = Status(m)
    OBVIOUS
  <2>1. stage'[m] = stage[m] /\ called'[m] = called[m] /\ end'[m] = end[m]
    BY <1>5
  <2> QED
    BY <2>1 DEF Status, Result, Broken
<1>7. ASSUME NEW st, Status(n)' = st PROVE AllStatus' = [AllStatus EXCEPT ![n] = st]
  <2>1. AllStatus' = [m \in Node |-> IF m = n THEN st ELSE Status(m)]
    BY <1>6, <1>7 DEF AllStatus
  <2>2. [AllStatus EXCEPT ![n] = st] = [m \in Node |-> IF m = n THEN st ELSE Status(m)]
    BY DEF AllStatus
  <2> QED
    BY <2>1, <2>2
<1>8. AllStatus[n] = Status(n)
  BY DEF AllStatus
<1>9. CASE Status(n)' = Status(n)
  <2>1. UNCHANGED AllStatus
    BY <1>6, <1>9 DEF AllStatus
  <2> QED
    BY <1>1, <1>2, <2>1, NodeRunStutter
<1>10. CASE PreHook(n)
  <2>1. /\ stage[n] = "pre" /\ stage'[n] = "function" /\ called'[n]
        /\ \A d \in graph.reads[n] : Result(d)
    BY <1>4, <1>10 DEF PreHook, AsyncInv, HasRead
  <2>2. Status(n) = "idle"
    BY <1>3, <2>1, StatusFacts DEF AsyncInv, NotCalledYet
  <2>3. Status(n)' = "running"
    BY <2>1 DEF Status, Result, Broken
  <2>4. \A d \in graph.reads[n] : AllStatus[d] = "done"
    <3> SUFFICES ASSUME NEW d \in graph.reads[n] PROVE AllStatus[d] = "done"
      OBVIOUS
    <3>1. d \in Node
      BY <1>3, GraphFacts
    <3>2. Result(d) /\ called[d]
      BY <2>1, <3>1 DEF AsyncInv, ResultsAreReal, Result
    <3>3. Status(d) = "done"
      BY <1>3, <3>1, <3>2, StatusFacts
    <3> QED
      BY <3>1, <3>3 DEF AllStatus
  <2>5. NR!StartNode(n)
    BY <1>1, <1>2, <1>7, <1>8, <2>2, <2>3, <2>4 DEF NR!StartNode, AllStatus, Outcome
  <2> QED
    BY <2>5 DEF NR!NRNext
<1>11. CASE ~PreHook(n) /\ Status(n)' # Status(n)
  <2>1. UNCHANGED called
    BY <1>11 DEF TaskStep, InputsGathered, GatherInputsRaises, PreHookRaises,
         FunctionEnds, PostHook, InterruptGather, Interrupt, InterruptPost
  <2>2. stage[n] # "ended"
    BY DEF TaskStep, InputsGathered, GatherInputsRaises, PreHook, PreHookRaises,
         FunctionEnds, PostHook, InterruptGather, Interrupt, InterruptPost
  <2>3. called[n]
    <3> SUFFICES ASSUME ~called[n] PROVE FALSE
      OBVIOUS
    <3>1. Status(n) = "idle"
      BY <1>3, StatusFacts
    <3>2. ~called'[n]
      BY <2>1
    <3>3. Status(n)' = "idle"
      BY <3>2, Zenon DEF Status
    <3> QED
      BY <1>11, <3>1, <3>3
  <2>4. Status(n) = "running"
    BY <1>3, <2>2, <2>3, StatusFacts
  <2>5. stage'[n] = "ended"
    <3> SUFFICES ASSUME stage'[n] # "ended" PROVE FALSE
      OBVIOUS
    <3>1. Status(n)' = "running"
      BY <2>1, <2>3 DEF Status, Result, Broken
    <3> QED
      BY <1>11, <2>4, <3>1
  <2>6. PICK st \in {"done", "failed"} : Status(n)' = st
    BY <2>1, <2>3, <2>5 DEF Status, Result, Broken
  <2>7. NR!EndNode(n)
    BY <1>1, <1>2, <1>7, <1>8, <2>4, <2>6 DEF NR!EndNode, AllStatus, Outcome
  <2> QED
    BY <2>7 DEF NR!NRNext
<1> QED
  BY <1>9, <1>10, <1>11

(* A node is executed at most once, when the results of all it reads are   *)
(* there, and execute returns no sooner than the outputs are done, however *)
(* the tasks are scheduled, fail or are cancelled.                         *)
THEOREM AsyncImplementsNodeRun == ADSpec => ImplementsNodeRun
<1>1. ADInit => NR!NRInit
  BY NodeRunInit
<1>2. AsyncInv /\ AsyncInv' /\ [ADNext]_advars => [NR!NRNext]_(NR!nrvars)
  <2> SUFFICES ASSUME AsyncInv, AsyncInv', [ADNext]_advars PROVE [NR!NRNext]_(NR!nrvars)
    OBVIOUS
  <2>1. CASE UNCHANGED advars
    <3>1. UNCHANGED <<graph, AllStatus, Outcome>>
      BY <2>1 DEF advars, AllStatus, Outcome, Status, Result, Broken
    <3> QED
      BY <3>1, NodeRunStutter
  <2>2. CASE ADNext
    BY <2>2, DriverNodeRun, TaskNodeRun DEF ADNext
  <2> QED
    BY <2>1, <2>2
<1> QED
  BY <1>1, <1>2, Invariance, PTL DEF ADSpec, ImplementsNodeRun, NR!NRSpec

-----------------------------------------------------------------------------
(* Every run is finite and none gets stuck: what EverythingEnds takes,     *)
(* besides the fairness that lets the step come which can be made.         *)

(* The steps that each task, the driver and the caller have ahead.         *)
Rank == [none |-> 0, gather |-> 1, pre |-> 2, function |-> 3, post |-> 4, ended |-> 5]
DriverRank == [starting |-> 0, gather |-> 1, post |-> 2, returned |-> 3, raised |-> 3]

Work ==
    {p \in Node \X (1..5) : Rank[stage[p[1]]] < p[2]}
    \cup {p \in {0} \X (1..3) : DriverRank[driver] < p[2]}
    \cup {p \in {0} \X {4} : ~cancelled}
    \cup {p \in {0} \X {5} : ~shutdown}

(* The tasks are made in order, and all before the driver waits for any.   *)
TasksAreMade ==
    /\ \A m, n \in Node : m < n /\ stage[n] # "none" => stage[m] # "none"
    /\ driver = "gather" => \A n \in Node : stage[n] # "none"

Over == driver \in {"returned", "raised"} /\ \A n \in Node : ~Unfinished(n)

(* What the guards of DriverStep and of TaskStep ask for.                  *)
Learnt(tasksRead) == (\A d \in tasksRead : Result(d)) \/ (\E d \in tasksRead : Broken(d))
DriverCan ==
    \/ driver \in {"starting", "post"}
    \/ driver = "gather" /\ Learnt(graph.outputs)
TaskCan(n) ==
    \/ stage[n] = "gather" /\ Learnt(graph.reads[n])
    \/ stage[n] \in {"pre", "function", "post"}

LEMMA WorkIsFinite == IsFiniteSet(Work)
<1>1. IsFiniteSet(0..N) /\ IsFiniteSet(1..5)
  <2>1. 0 \in Int /\ 1 \in Int /\ 5 \in Int /\ N \in Int
    BY AsyncAssumption
  <2>2. \A a, b \in Int : IsFiniteSet(a..b)
    BY FS_Interval
  <2> QED
    BY <2>1, <2>2
<1>2. IsFiniteSet((0..N) \X (1..5))
  BY <1>1, FS_Product
<1>3. Work \subseteq (0..N) \X (1..5)
  BY AsyncAssumption DEF Work, Node
<1> QED
  BY <1>2, <1>3, FS_Subset

(* A step of one task.                                                     *)
LEMMA TaskWork ==
    ASSUME ADType, NEW n \in Node, stage[n] # "none",
           NEW s \in {"pre", "function", "post", "ended"},
           stage' = [stage EXCEPT ![n] = s], Rank[stage[n]] < Rank[s],
           UNCHANGED <<driver, cancelled, shutdown>>
    PROVE  Work' \subseteq Work /\ Work' # Work
<1>1. \A m \in Node : stage'[m] = IF m = n THEN s ELSE stage[m]
  BY DEF ADType
<1>2. Rank[s] \in 1..5 /\ Rank[stage[n]] \in 0..5
  BY DEF ADType, Rank
<1>3. \A p \in Node \X (1..5) : Rank[stage'[p[1]]] < p[2] => Rank[stage[p[1]]] < p[2]
  BY <1>1, <1>2
<1>4. Work' \subseteq Work
  BY <1>3 DEF Work
<1>5. <<n, Rank[s]>> \in Work
  BY <1>2 DEF Work
<1>6. <<n, Rank[s]>> \notin Work'
  <2>1. n # 0
    BY DEF Node
  <2>2. stage'[n] = s /\ ~(Rank[s] < Rank[s])
    BY <1>1, <1>2
  <2> QED
    BY <2>1, <2>2 DEF Work
<1> QED
  BY <1>4, <1>5, <1>6

(* A step of the driver, and the traversal.                                *)
LEMMA DriverWork ==
    ASSUME ADType, UNCHANGED <<cancelled, shutdown>>,
           driver' \in {"gather", "post", "returned", "raised"},
           DriverRank[driver] < DriverRank[driver'],
           \A n \in Node : \/ stage'[n] = stage[n]
                           \/ stage[n] = "none" /\ stage'[n] = "gather"
    PROVE  Work' \subseteq Work /\ Work' # Work
<1> DEFINE k == DriverRank[driver']
<1>1. k \in 1..3 /\ DriverRank[driver] \in 0..3
  BY DEF ADType, DriverRank
<1>2. \A p \in Node \X (1..5) : Rank[stage'[p[1]]] < p[2] => Rank[stage[p[1]]] < p[2]
  <2> SUFFICES ASSUME NEW n \in Node, NEW j \in 1..5, Rank[stage'[n]] < j
               PROVE  Rank[stage[n]] < j
    OBVIOUS
  <2>1. Rank["gather"] = 1 /\ Rank["none"] = 0
    BY DEF Rank
  <2> QED
    BY <2>1
<1>3. \A j \in 1..3 : k < j => DriverRank[driver] < j
  BY <1>1
<1> HIDE DEF k
<1>4. Work' \subseteq Work
  BY <1>2, <1>3 DEF Work, k
<1>5. <<0, k>> \in Work
  BY <1>1 DEF Work, k
<1>6. <<0, k>> \notin Work'
  <2>1. 0 \notin Node /\ k # 4 /\ k # 5 /\ ~(k < k)
    BY <1>1 DEF Node
  <2> QED
    BY <2>1 DEF Work, k
<1> QED
  BY <1>4, <1>5, <1>6

LEMMA StepWork ==
    ASSUME AsyncInv, ADNext
    PROVE  Work' \subseteq Work /\ Work' # Work
<1>1. ADType
  BY DEF AsyncInv
<1>2. /\ Rank["none"] = 0 /\ Rank["gather"] = 1 /\ Rank["pre"] = 2
      /\ Rank["function"] = 3 /\ Rank["post"] = 4 /\ Rank["ended"] = 5
  BY DEF Rank
<1>3. /\ DriverRank["starting"] = 0 /\ DriverRank["gather"] = 1 /\ DriverRank["post"] = 2
      /\ DriverRank["returned"] = 3 /\ DriverRank["raised"] = 3
  BY DEF DriverRank
<1>4. ASSUME NEW n \in Node, TaskStep(n) PROVE Work' \subseteq Work /\ Work' # Work
  <2>1. /\ stage[n] # "none" /\ UNCHANGED <<driver, cancelled, shutdown>>
        /\ \E s \in {"pre", "function", "post", "ended"} :
              stage' = [stage EXCEPT ![n] = s] /\ Rank[stage[n]] < Rank[s]
    BY <1>2, <1>4 DEF TaskStep, InputsGathered, GatherInputsRaises, PreHook, PreHookRaises,
       FunctionEnds, PostHook, InterruptGather, Interrupt, InterruptPost
  <2> QED
    BY <1>1, <2>1, TaskWork
<1>5. CASE PreGraphRaises \/ Gather \/ GatherRaises \/ PostGraph
  <2>1. /\ UNCHANGED <<stage, cancelled, shutdown>>
        /\ driver' \in {"gather", "post", "returned", "raised"}
        /\ DriverRank[driver] < DriverRank[driver']
    BY <1>3, <1>5 DEF PreGraphRaises, Gather, GatherRaises, PostGraph, tasks
  <2>2. \A n \in Node : stage'[n] = stage[n]
    BY <2>1
  <2> QED
    BY <1>1, <2>1, <2>2, DriverWork
<1>6. CASE Traverse
  <2>1. /\ UNCHANGED <<cancelled, shutdown>>
        /\ driver' \in {"gather", "post"} /\ driver = "starting"
        /\ \A n \in Node : stage'[n] \in {"none", "gather"}
    BY <1>6 DEF Traverse
  <2>2. \A n \in Node : stage[n] = "none"
    BY <2>1 DEF AsyncInv, NotTraversed
  <2>3. DriverRank[driver] < DriverRank[driver']
    BY <1>3, <2>1
  <2>4. \A n \in Node : \/ stage'[n] = stage[n]
                        \/ stage[n] = "none" /\ stage'[n] = "gather"
    BY <2>1, <2>2
  <2>5. driver' \in {"gather", "post", "returned", "raised"}
    BY <2>1
  <2> QED
    BY <1>1, <2>1, <2>3, <2>4, <2>5, DriverWork
<1>7. CASE Shutdown
  <2>1. ~shutdown /\ shutdown' /\ UNCHANGED <<stage, driver, cancelled>>
    BY <1>7 DEF Shutdown
  <2>2. <<0, 5>> \in Work
    BY <2>1 DEF Work
  <2>3. <<0, 5>> \notin Work'
    BY <2>1 DEF Work, Node
  <2>4. Work' \subseteq Work
    BY <2>1 DEF Work
  <2> QED
    BY <2>2, <2>3, <2>4
<1>8. CASE Cancel
  <2>1. ~cancelled /\ cancelled' /\ UNCHANGED <<stage, driver, shutdown>>
    BY <1>8 DEF Cancel
  <2>2. <<0, 4>> \in Work
    BY <2>1 DEF Work
  <2>3. <<0, 4>> \notin Work'
    BY <2>1 DEF Work, Node
  <2>4. Work' \subseteq Work
    BY <2>1 DEF Work
  <2> QED
    BY <2>2, <2>3, <2>4
<1> QED
  BY <1>4, <1>5, <1>6, <1>7, <1>8 DEF ADNext, DriverStep

LEMMA MadeStep ==
    ASSUME AsyncInv, TasksAreMade, [ADNext]_advars
    PROVE  TasksAreMade'
<1>1. CASE Traverse
  <2>1. PICK k \in 0..N : /\ stage' = [n \in Node |-> IF n <= k THEN "gather" ELSE "none"]
                          /\ driver' = IF k = N THEN "gather" ELSE "post"
    BY <1>1 DEF Traverse
  <2>2. \A n \in Node : stage'[n] # "none" <=> n <= k
    BY <2>1
  <2>3. Node \subseteq Int /\ N \in Nat /\ \A n \in Node : n <= N
    BY AsyncAssumption DEF Node
  <2> QED
    BY <2>1, <2>2, <2>3 DEF TasksAreMade
<1>2. CASE PreGraphRaises \/ Gather \/ GatherRaises \/ PostGraph \/ Shutdown \/ Cancel
           \/ UNCHANGED advars
  <2>1. UNCHANGED stage /\ (driver' = driver \/ driver' \in {"post", "returned", "raised"})
    BY <1>2 DEF PreGraphRaises, Gather, GatherRaises, PostGraph, Shutdown, Cancel,
                advars, tasks
  <2> QED
    BY <2>1 DEF TasksAreMade
<1>3. ASSUME NEW n \in Node, TaskStep(n) PROVE TasksAreMade'
  <2>1. /\ stage[n] # "none" /\ UNCHANGED driver
        /\ \E s \in {"pre", "function", "post", "ended"} : stage' = [stage EXCEPT ![n] = s]
    BY <1>3 DEF TaskStep, InputsGathered, GatherInputsRaises, PreHook, PreHookRaises,
       FunctionEnds, PostHook, InterruptGather, Interrupt, InterruptPost
  <2>2. \A m \in Node : stage'[m] = "none" <=> stage[m] = "none"
    BY <2>1 DEF AsyncInv, ADType
  <2> QED
    BY <2>1, <2>2 DEF TasksAreMade
<1> QED
  BY <1>1, <1>2, <1>3 DEF ADNext, DriverStep

(* The task of the least number among those that still gather has learnt   *)
(* of the end of all it reads.                                             *)
LEMMA SomethingCan ==
    ASSUME AsyncInv, TasksAreMade, ~Over
    PROVE  DriverCan \/ \E n \in Node : TaskCan(n)
<1> SUFFICES ASSUME ~DriverCan, \A n \in Node : ~TaskCan(n) PROVE FALSE
  OBVIOUS
<1>1. \A n \in Node : stage[n] \in {"none", "gather", "ended"}
  BY DEF TaskCan, AsyncInv, ADType
<1>2. ASSUME NEW tasksRead \in SUBSET Node, \A d \in tasksRead : stage[d] = "ended"
      PROVE  Learnt(tasksRead)
  BY <1>2 DEF Learnt, Result, Broken
<1>3. \A n \in Node : stage[n] # "gather"
  <2> SUFFICES ASSUME \E n \in Node : stage[n] = "gather" PROVE FALSE
    OBVIOUS
  <2> DEFINE G == {n \in Node : stage[n] = "gather"}
  <2>1. G \in SUBSET Nat /\ G # {}
    BY DEF Node
  <2>2. PICK n \in G : \A d \in G : <<d, n>> \notin OpToRel(<, Nat)
    BY <2>1, WFMin, NatLessThanWellFounded, Zenon
  <2>3. \A d \in G : ~(d < n)
    <3>1. n \in Nat /\ \A d \in G : d \in Nat
      BY <2>1, <2>2
    <3> QED
      BY <2>2, <3>1, Zenon DEF OpToRel
  <2>4. n \in Node /\ stage[n] = "gather"
    BY <2>2
  <2>5. graph.reads[n] \in SUBSET Node /\ \A d \in graph.reads[n] : d \in Node /\ d < n
    BY <2>4, GraphFacts DEF AsyncInv
  <2>6. \A d \in graph.reads[n] : stage[d] # "none" /\ stage[d] # "gather"
    BY <2>3, <2>4, <2>5 DEF TasksAreMade
  <2>7. Learnt(graph.reads[n])
    BY <1>1, <1>2, <2>5, <2>6
  <2> QED
    BY <2>4, <2>7 DEF TaskCan
<1>4. driver # "gather"
  <2> SUFFICES ASSUME driver = "gather" PROVE FALSE
    OBVIOUS
  <2>1. graph.outputs \in SUBSET Node
    BY GraphFacts DEF AsyncInv
  <2>2. \A d \in graph.outputs : stage[d] = "ended"
    BY <1>1, <1>3, <2>1 DEF TasksAreMade
  <2> QED
    BY <1>2, <2>1, <2>2 DEF DriverCan
<1>5. driver \in {"returned", "raised"}
  BY <1>4 DEF DriverCan, AsyncInv, ADType
<1>6. \A n \in Node : ~Unfinished(n)
  BY <1>1, <1>3 DEF Unfinished
<1> QED
  BY <1>5, <1>6 DEF Over

(* Each step of the driver, of a task or of the caller who cancels does a  *)
(* piece of a finite work that no later step has to do again: no run goes  *)
(* on for ever, however it fails.                                          *)
THEOREM AsyncRunIsFinite ==
    ADSpec => []IsFiniteSet(Work) /\ [][Work' \subseteq Work /\ Work' # Work]_advars
<1>1. AsyncInv /\ [ADNext]_advars => [Work' \subseteq Work /\ Work' # Work]_advars
  BY StepWork
<1> QED
  BY <1>1, WorkIsFinite, Invariance, PTL DEF ADSpec

(* Until execute and all tasks have ended, the driver or a task has what   *)
(* its next step waits for, whatever raises and whoever is cancelled: no   *)
(* gather waits for a task that will not end.                              *)
THEOREM AsyncNeverStuck ==
    ADSpec => [](Over \/ DriverCan \/ \E n \in Node : TaskCan(n))
<1>1. ADInit => TasksAreMade
  BY DEF ADInit, TasksAreMade
<1>2. AsyncInv /\ TasksAreMade /\ [ADNext]_advars => TasksAreMade'
  BY MadeStep
<1>3. AsyncInv /\ TasksAreMade => Over \/ DriverCan \/ \E n \in Node : TaskCan(n)
  BY SomethingCan
<1> QED
  BY <1>1, <1>2, <1>3, Invariance, PTL DEF ADSpec
=============================================================================

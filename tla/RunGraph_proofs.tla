---------------------------- MODULE RunGraph_proofs ----------------------------
(***************************************************************************)
(* Proofs about run_graph_to_completion, for every plan, pool and order in *)
(* which workers end their tasks.                                          *)
(*                                                                         *)
(* The loop keeps to the protocol of ExecutionState, for any plan, so that *)
(* what ExecutionState_proofs says of a caller that does holds of the real *)
(* one.  The invariant behind it is about the books: until something is    *)
(* raised, the futures the loop keeps are those of the tasks submitted and *)
(* not returned, and these are the tasks the ExecutionState takes to be    *)
(* out, beside the one that was just released.                             *)
(***************************************************************************)
EXTENDS RunGraph, ExecutionState_proofs

(* An exception that propagates has left the loop. *)
RaisedAtEnd == raised # None => pc \in {"finalize", "raised"}

(* The books of the loop and those of the ExecutionState. *)
BooksAgree ==
    raised = None =>
        /\ \A t \in TaskIds : t \in submitted <=> future[t] # "none"
        /\ returned \subseteq submitted
        /\ \A t \in TaskIds : t \in returned <=> taskStates[t] = "successful"
        /\ \A t \in TaskIds : taskStates[t] # "failed"
        /\ ToSet(taskFutures) = submitted \ returned
        /\ held = ToSet(taskFutures) \cup (IF pc = "dispatch" THEN {nextTask} ELSE {})

(* A task between release_next_task and submit or reject is queued. *)
Dispatching ==
    pc = "dispatch" => nextTask \in TaskIds \ submitted /\ taskStates[nextTask] = "queued"

(* Each task in flight is polled once in a round, and the state polled is  *)
(* behind the future by at most the end of the task.                       *)
Polling ==
    pc \in {"poll", "resolve"} => /\ IsInjective(toPoll)
                                  /\ ToSet(toPoll) \subseteq ToSet(taskFutures)
Polled ==
    pc = "resolve" => /\ toPoll # <<>>
                      /\ polled = "successful" => future[Head(toPoll)] = "done"
                      /\ polled = "failed" => future[Head(toPoll)] = "error"

(* The loop ends without an exception only when the graph is SUCCESSFUL. *)
EndsSuccessful ==
    pc \in {"finalize", "read", "returned"} /\ raised = None => GraphState = "successful"

LoopInv == /\ RGTypeOK
           /\ ConsistencyInv
           /\ RaisedAtEnd
           /\ BooksAgree
           /\ Dispatching
           /\ Polling
           /\ Polled
           /\ EndsSuccessful
           /\ HeldIsTracked

-----------------------------------------------------------------------------
(* Sequences of tasks without repetition *)

LEMMA AppendUnique ==
  ASSUME NEW s \in Seq(TaskIds), IsInjective(s), NEW t \in TaskIds, t \notin ToSet(s)
  PROVE  /\ Append(s, t) \in Seq(TaskIds)
         /\ IsInjective(Append(s, t))
         /\ ToSet(Append(s, t)) = ToSet(s) \cup {t}
<1>1. Append(s, t) = s \o <<t>>
  OBVIOUS
<1>2. <<t>> \in Seq(TaskIds) /\ ToSet(<<t>>) = {t} /\ IsInjective(<<t>>)
  BY Singleton
<1>3. ToSet(s) \cap ToSet(<<t>>) = {}
  BY <1>2
<1> QED
  BY <1>1, <1>2, <1>3, ConcatUnique, AppendProperties

(* del task_futures[task] takes out that task and no other. *)
LEMMA PositionRemoved ==
  ASSUME RGTypeOK, IsInjective(taskFutures), NEW t \in ToSet(taskFutures)
  PROVE  /\ RemoveAt(taskFutures, Position(t)) \in Seq(TaskIds)
         /\ IsInjective(RemoveAt(taskFutures, Position(t)))
         /\ ToSet(RemoveAt(taskFutures, Position(t))) = ToSet(taskFutures) \ {t}
<1> DEFINE s  == taskFutures
           i  == Position(t)
           s1 == SubSeq(s, 1, i - 1)
           s2 == SubSeq(s, i + 1, Len(s))
<1>1. /\ s \in Seq(TaskIds) /\ Len(s) \in Nat /\ DOMAIN s = 1 .. Len(s)
      /\ \A k \in 1 .. Len(s) : s[k] \in TaskIds
  BY LenProperties, ElementOfSeq DEF RGTypeOK
<1>2. i \in 1 .. Len(s) /\ s[i] = t
  BY <1>1 DEF Position, ToSet
<1> HIDE DEF i
<1>3. /\ s1 \in Seq(TaskIds) /\ Len(s1) = i - 1
      /\ \A k \in 1 .. i - 1 : s1[k] = s[k]
  BY <1>1, <1>2
<1>4. /\ s2 \in Seq(TaskIds) /\ Len(s2) = Len(s) - i
      /\ \A k \in 1 .. Len(s) - i : s2[k] = s[i + k]
  <2>1. \A k \in i + 1 .. Len(s) : s[k] \in TaskIds
    BY <1>1, <1>2
  <2>2. i + 1 \in Int /\ Len(s) \in Int
    BY <1>1, <1>2
  <2>3. /\ s2 \in Seq(TaskIds)
        /\ Len(s2) = IF i + 1 <= Len(s) THEN Len(s) - (i + 1) + 1 ELSE 0
        /\ \A k \in 1 .. Len(s) - (i + 1) + 1 : s2[k] = s[i + 1 + k - 1]
    BY <2>1, <2>2, SubSeqProperties
  <2> HIDE DEF s2
  <2>4. Len(s2) = Len(s) - i
    <3>1. Len(s) \in Nat /\ i \in 1 .. Len(s)
      BY <1>1, <1>2
    <3>2. Len(s2) = IF i + 1 <= Len(s) THEN Len(s) - (i + 1) + 1 ELSE 0
      BY <2>3
    <3> HIDE DEF s
    <3> QED
      BY <3>1, <3>2
  <2>5. ASSUME NEW k \in 1 .. Len(s) - i PROVE s2[k] = s[i + k]
    <3>1. k \in 1 .. Len(s) - (i + 1) + 1 /\ i + 1 + k - 1 = i + k
      BY <1>1, <1>2
    <3> QED
      BY <2>3, <3>1
  <2> QED
    BY <2>3, <2>4, <2>5
<1> HIDE DEF s1, s2
<1>5. DOMAIN s1 = 1 .. i - 1 /\ DOMAIN s2 = 1 .. Len(s) - i
  BY <1>1, <1>2, <1>3, <1>4
<1>6. \A j, k \in 1 .. Len(s) : s[j] = s[k] => j = k
  BY <1>1 DEF IsInjective
<1>7. IsInjective(s1) /\ IsInjective(s2)
  <2>1. \A j, k \in 1 .. i - 1 : s1[j] = s1[k] => j = k
    BY <1>1, <1>2, <1>3, <1>6
  <2>2. \A j, k \in 1 .. Len(s) - i : s2[j] = s2[k] => j = k
    <3> SUFFICES ASSUME NEW j \in 1 .. Len(s) - i, NEW k \in 1 .. Len(s) - i, s2[j] = s2[k]
                 PROVE  j = k
      OBVIOUS
    <3>1. s[i + j] = s[i + k] /\ i + j \in 1 .. Len(s) /\ i + k \in 1 .. Len(s)
      BY <1>1, <1>2, <1>4
    <3>2. i + j = i + k
      BY <1>6, <3>1
    <3> QED
      BY <1>1, <1>2, <3>2
  <2> QED
    BY <1>5, <2>1, <2>2 DEF IsInjective
<1>8. ToSet(s1) \cap ToSet(s2) = {}
  <2> SUFFICES ASSUME NEW j \in 1 .. i - 1, NEW k \in 1 .. Len(s) - i, s1[j] = s2[k]
               PROVE  FALSE
    BY <1>5 DEF ToSet
  <2>1. s[j] = s[i + k] /\ j \in 1 .. Len(s) /\ i + k \in 1 .. Len(s)
    BY <1>1, <1>2, <1>3, <1>4
  <2>2. j = i + k
    BY <1>6, <2>1
  <2> QED
    BY <1>1, <1>2, <2>2
<1>9. ToSet(s1) \cup ToSet(s2) = ToSet(s) \ {t}
  <2>1. ASSUME NEW x \in ToSet(s1) \cup ToSet(s2) PROVE x \in ToSet(s) \ {t}
    <3>1. \E k \in 1 .. Len(s) : s[k] = x /\ k # i
      <4>1. CASE x \in ToSet(s1)
        BY <1>1, <1>2, <1>3, <1>5, <4>1 DEF ToSet
      <4>2. CASE x \in ToSet(s2)
        <5>1. PICK k \in 1 .. Len(s) - i : s2[k] = x
          BY <1>5, <4>2 DEF ToSet
        <5>2. s[i + k] = x /\ i + k \in 1 .. Len(s) /\ i + k # i
          BY <1>1, <1>2, <1>4, <5>1
        <5> QED
          BY <5>2
      <4> QED
        BY <2>1, <4>1, <4>2
    <3> QED
      BY <1>1, <1>2, <1>6, <3>1 DEF ToSet
  <2>2. ASSUME NEW x \in ToSet(s) \ {t} PROVE x \in ToSet(s1) \cup ToSet(s2)
    <3>1. PICK k \in 1 .. Len(s) : s[k] = x
      BY <1>1 DEF ToSet
    <3>2. k < i \/ k > i
      BY <1>1, <1>2, <2>2, <3>1
    <3>3. CASE k < i
      BY <1>1, <1>2, <1>3, <1>5, <3>1, <3>3 DEF ToSet
    <3>4. CASE k > i
      <4>1. k - i \in 1 .. Len(s) - i /\ s2[k - i] = x
        BY <1>1, <1>2, <1>4, <3>1, <3>4
      <4> QED
        BY <1>5, <4>1 DEF ToSet
    <3> QED
      BY <3>2, <3>3, <3>4
  <2> QED
    BY <2>1, <2>2
<1>10. RemoveAt(s, i) = s1 \o s2
  BY DEF RemoveAt, s1, s2
<1> QED
  BY <1>3, <1>4, <1>7, <1>8, <1>9, <1>10, ConcatUnique DEF i

-----------------------------------------------------------------------------
(* The loop keeps to the protocol *)

(* What the loop updates or gives back is out, and it rejects only what it *)
(* has not submitted.                                                      *)
LEMMA HeadIsOut ==
  ASSUME LoopInv, pc \in {"poll", "resolve"}, toPoll # <<>>
  PROVE  /\ Head(toPoll) \in TaskIds /\ Head(toPoll) \in ToSet(toPoll)
         /\ Head(toPoll) \in ToSet(taskFutures) /\ Head(toPoll) \in held
         /\ Head(toPoll) \in submitted \ returned
         /\ future[Head(toPoll)] # "none"
         /\ IsInjective(Tail(toPoll)) /\ Tail(toPoll) \in Seq(TaskIds)
         /\ ToSet(Tail(toPoll)) = ToSet(toPoll) \ {Head(toPoll)}
<1>1. toPoll \in Seq(TaskIds) /\ raised = None
  BY DEF LoopInv, RGTypeOK, RaisedAtEnd
<1>2. IsInjective(toPoll) /\ ToSet(toPoll) \subseteq ToSet(taskFutures)
  BY DEF LoopInv, Polling
<1>3. /\ Head(toPoll) \in ToSet(toPoll) /\ IsInjective(Tail(toPoll))
      /\ ToSet(Tail(toPoll)) = ToSet(toPoll) \ {Head(toPoll)}
  BY <1>1, <1>2, TailUnique
<1>4. Head(toPoll) \in TaskIds /\ Tail(toPoll) \in Seq(TaskIds)
  BY <1>1, HeadTailProperties
<1> QED
  BY <1>1, <1>2, <1>3, <1>4 DEF LoopInv, BooksAgree

LEMMA ProtocolKept ==
  ASSUME LoopInv, [RGNext]_vars
  PROVE  [Next]_esvars
<1>1. ASSUME NEW t \in TaskIds, Release(t) PROVE Next
  BY <1>1 DEF Release, Next
<1>2. CASE Reject
  <2>1. nextTask \in TaskIds /\ nextTask \in held /\ taskStates[nextTask] = "queued"
    BY <1>2 DEF Reject, LoopInv, RaisedAtEnd, BooksAgree, Dispatching
  <2> QED
    BY <1>2, <2>1 DEF Reject, Next
<1>3. CASE Resolve
  <2>1. Head(toPoll) \in TaskIds /\ Head(toPoll) \in held
    BY <1>3, HeadIsOut DEF Resolve, LoopInv, Polled
  <2>2. \E state \in {"running", "successful", "failed"} : UpdateTaskState(Head(toPoll), state)
    BY <1>3 DEF Resolve, UpdateTaskState
  <2> QED
    BY <2>1, <2>2 DEF Next
<1>4. CASE \/ Start \/ GraphDone \/ NothingToRelease \/ Submit \/ SubmitFails \/ PollState
           \/ AllPolled \/ Finalize \/ ReadFinalVars \/ Terminated \/ UNCHANGED vars
           \/ \E t \in TaskIds : Worker(t)
  BY <1>4 DEF Start, GraphDone, NothingToRelease, Submit, SubmitFails, PollState, AllPolled,
              Finalize, ReadFinalVars, Terminated, vars, Worker
<1> QED
  BY <1>1, <1>2, <1>3, <1>4 DEF RGNext, MainThread

-----------------------------------------------------------------------------
(* The invariant *)

LEMMA InitLoop == RGInit => LoopInv
<1> SUFFICES ASSUME RGInit PROVE LoopInv
  OBVIOUS
<1>1. ConsistencyInv /\ TypeOK
  BY InitConsistent DEF RGInit, ConsistencyInv
<1>2. <<>> \in Seq(TaskIds) /\ ToSet(<<>>) = {} /\ IsInjective(<<>>)
  BY DEF ToSet, IsInjective
<1>3. RGTypeOK
  BY <1>1, <1>2 DEF RGInit, RGTypeOK, ExInit, ExTypeOK, FutureState, TaskState
<1>4. BooksAgree
  BY <1>2 DEF RGInit, Init, ExInit, BooksAgree, Absent
<1>5. HeldIsTracked
  BY <1>2 DEF RGInit, Init, HeldIsTracked
<1> QED
  BY <1>1, <1>3, <1>4, <1>5 DEF RGInit, LoopInv, RaisedAtEnd, Dispatching, Polling, Polled, EndsSuccessful

(* Steps of the loop that touch neither the books nor the ExecutionState. *)
LEMMA QuietStep ==
  ASSUME LoopInv, ConsistencyInv', RGTypeOK',
         UNCHANGED <<esvars, future, taskFutures, raised, submitted, returned>>,
         pc # "dispatch", pc' # "dispatch",
         raised # None => UNCHANGED nextTask,
         RaisedAtEnd', Polling', Polled', EndsSuccessful'
  PROVE  LoopInv'
<1>1. BooksAgree'
  BY DEF LoopInv, BooksAgree, esvars
<1>2. HeldIsTracked'
  <2>1. IsInjective(taskFutures)' /\ taskFutures' = taskFutures
    BY DEF LoopInv, HeldIsTracked
  <2>2. CASE raised = None
    BY <2>1, <2>2 DEF LoopInv, BooksAgree, HeldIsTracked, esvars
  <2>3. CASE raised # None
    BY <2>1, <2>3 DEF LoopInv, HeldIsTracked, esvars
  <2> QED
    BY <2>2, <2>3
<1> QED
  BY <1>1, <1>2 DEF LoopInv, Dispatching

LEMMA SilentSteps ==
  ASSUME LoopInv, ConsistencyInv',
         \/ Start \/ GraphDone \/ NothingToRelease \/ AllPolled
         \/ Finalize \/ ReadFinalVars \/ Terminated \/ UNCHANGED vars
  PROVE  LoopInv'
<1>1. CASE UNCHANGED vars
  BY <1>1 DEF vars, esvars, futurevars, loopvars, LoopInv, RGTypeOK, TypeOK, ExTypeOK,
              RaisedAtEnd, BooksAgree, Dispatching, Polling, Polled, EndsSuccessful, GraphState,
              Known, HeldIsTracked
<1>2. CASE Start
  <2>1. RGTypeOK'
    BY <1>2 DEF Start, InitExecutor, LoopInv, RGTypeOK, TypeOK, ExTypeOK, esvars
  <2>2. RaisedAtEnd' /\ Polling' /\ Polled' /\ EndsSuccessful'
    BY <1>2 DEF Start, LoopInv, RaisedAtEnd, Polling, Polled, EndsSuccessful
  <2> QED
    BY <1>2, <2>1, <2>2, QuietStep DEF Start, InitExecutor
<1>3. CASE GraphDone
  <2>1. RGTypeOK'
    BY <1>3 DEF GraphDone, LoopInv, RGTypeOK, TypeOK, ExTypeOK, esvars, futurevars
  <2>2. raised = None /\ \A t \in TaskIds : taskStates[t] # "failed"
    BY <1>3 DEF GraphDone, LoopInv, RaisedAtEnd, BooksAgree
  <2>3. GraphState = "successful"
    BY <1>3, <2>2 DEF GraphDone, GraphState, IsTerminal, Known
  <2>4. GraphState' = GraphState
    BY <1>3 DEF GraphDone, esvars, GraphState, Known
  <2>5. RaisedAtEnd' /\ Polling' /\ Polled' /\ EndsSuccessful'
    BY <1>3, <2>2, <2>3, <2>4 DEF GraphDone, RaisedAtEnd, Polling, Polled, EndsSuccessful
  <2> QED
    BY <1>3, <2>1, <2>5, QuietStep DEF GraphDone, futurevars
<1>4. CASE NothingToRelease
  <2>1. RGTypeOK'
    BY <1>4 DEF NothingToRelease, LoopInv, RGTypeOK, TypeOK, ExTypeOK, esvars, futurevars
  <2>2. raised = None
    BY <1>4 DEF NothingToRelease, LoopInv, RaisedAtEnd
  <2>3. RaisedAtEnd' /\ Polling' /\ Polled' /\ EndsSuccessful'
    BY <1>4, <2>2 DEF NothingToRelease, LoopInv, HeldIsTracked, RaisedAtEnd, Polling, Polled,
                      EndsSuccessful
  <2> QED
    BY <1>4, <2>1, <2>2, <2>3, QuietStep DEF NothingToRelease, futurevars
<1>5. CASE AllPolled
  <2>1. RGTypeOK'
    BY <1>5 DEF AllPolled, LoopInv, RGTypeOK, TypeOK, ExTypeOK, esvars, futurevars
  <2>2. RaisedAtEnd' /\ Polling' /\ Polled' /\ EndsSuccessful'
    BY <1>5 DEF AllPolled, LoopInv, RaisedAtEnd, Polling, Polled, EndsSuccessful
  <2> QED
    BY <1>5, <2>1, <2>2, QuietStep DEF AllPolled, futurevars
<1>6. CASE Finalize
  <2>1. RGTypeOK'
    BY <1>6 DEF Finalize, FinalizeExecutor, LoopInv, RGTypeOK, TypeOK, ExTypeOK, esvars
  <2>2. GraphState' = GraphState
    BY <1>6 DEF Finalize, esvars, GraphState, Known
  <2>3. RaisedAtEnd' /\ Polling' /\ Polled' /\ EndsSuccessful'
    BY <1>6, <2>2 DEF Finalize, LoopInv, RaisedAtEnd, Polling, Polled, EndsSuccessful
  <2> QED
    BY <1>6, <2>1, <2>3, QuietStep DEF Finalize, FinalizeExecutor
<1>7. CASE ReadFinalVars
  <2>1. RGTypeOK'
    BY <1>7 DEF ReadFinalVars, LoopInv, RGTypeOK, TypeOK, ExTypeOK, esvars, futurevars
  <2>2. GraphState' = GraphState
    BY <1>7 DEF ReadFinalVars, esvars, GraphState, Known
  <2>3. RaisedAtEnd' /\ Polling' /\ Polled' /\ EndsSuccessful'
    BY <1>7, <2>2 DEF ReadFinalVars, LoopInv, RaisedAtEnd, Polling, Polled, EndsSuccessful
  <2> QED
    BY <1>7, <2>1, <2>3, QuietStep DEF ReadFinalVars, futurevars
<1> QED
  BY <1>1, <1>2, <1>3, <1>4, <1>5, <1>6, <1>7 DEF Terminated

(* Workers and get_state end futures of tasks that were submitted. *)
LEMMA FutureSteps ==
  ASSUME LoopInv, ConsistencyInv', PollState \/ \E t \in TaskIds : Worker(t)
  PROVE  LoopInv'
<1>1. RGTypeOK'
  BY DEF PollState, GetState, Worker, CompleteTask, LoopInv, RGTypeOK, TypeOK, ExTypeOK,
         FutureState, TaskState, esvars, loopvars
<1>2. /\ UNCHANGED <<esvars, nextTask, taskFutures, toPoll, raised, submitted, returned>>
      /\ \A t \in TaskIds : future'[t] = "none" <=> future[t] = "none"
  BY DEF PollState, GetState, Worker, CompleteTask, LoopInv, RGTypeOK, ExTypeOK, loopvars
<1>3. \A t \in TaskIds : future[t] \in {"done", "error"} => future'[t] = future[t]
  BY DEF PollState, GetState, Worker, CompleteTask, LoopInv, RGTypeOK, ExTypeOK
<1>4. pc' = pc \/ (pc = "poll" /\ pc' = "resolve")
  BY DEF PollState, Worker, loopvars
<1>5. ToSet(taskFutures) \subseteq TaskIds /\ GraphState' = GraphState
  <2>1. GraphState' = GraphState
    BY <1>2 DEF esvars, GraphState, Known
  <2>2. \A i \in DOMAIN taskFutures : taskFutures[i] \in TaskIds
    BY DEF LoopInv, RGTypeOK
  <2> QED
    BY <2>1, <2>2 DEF ToSet
<1>6. BooksAgree' /\ RaisedAtEnd' /\ Dispatching' /\ Polling' /\ EndsSuccessful'
  BY <1>2, <1>4, <1>5 DEF LoopInv, BooksAgree, RaisedAtEnd, Dispatching, Polling,
                          EndsSuccessful, esvars
<1>7. HeldIsTracked'
  BY <1>2, <1>4, <1>5 DEF LoopInv, HeldIsTracked, RaisedAtEnd, esvars
<1>8. Polled'
  <2>1. CASE PollState
    <3>1. Head(toPoll) \in TaskIds /\ future[Head(toPoll)] # "none"
      BY <2>1, HeadIsOut DEF PollState
    <3>2. /\ polled' = "successful" => future'[Head(toPoll)] = "done"
          /\ polled' = "failed" => future'[Head(toPoll)] = "error"
      BY <2>1, <3>1 DEF PollState, GetState, LoopInv, RGTypeOK, ExTypeOK, FutureState
    <3> QED
      BY <2>1, <3>2 DEF PollState, Polled
  <2>2. CASE \E t \in TaskIds : Worker(t)
    <3>1. UNCHANGED <<pc, toPoll, polled>>
      BY <2>2 DEF Worker, loopvars
    <3>2. pc = "resolve" => Head(toPoll) \in TaskIds
      BY HeadIsOut DEF LoopInv, Polled
    <3> QED
      BY <1>3, <3>1, <3>2 DEF LoopInv, Polled
  <2> QED
    BY <2>1, <2>2
<1> QED
  BY <1>1, <1>6, <1>7, <1>8 DEF LoopInv

(* The task released is one the loop has not seen: what it submitted is    *)
(* out, and so not in the queue, or has succeeded.                         *)
LEMMA ReleaseStep ==
  ASSUME LoopInv, ConsistencyInv', NEW t \in TaskIds, Release(t)
  PROVE  LoopInv'
<1>1. raised = None /\ pc = "loop" /\ pc' = "dispatch" /\ nextTask' = t
  BY DEF Release, LoopInv, RaisedAtEnd
<1>2. /\ UNCHANGED <<future, taskFutures, toPoll, polled, raised, submitted, returned, taskStates>>
      /\ held' = held \cup {t}
  BY DEF Release, ReleaseNextTask, futurevars
<1>3. taskStates[t] = "queued" /\ t \notin held
  <2>1. t \in Queued
    BY TailUnique DEF Release, ReleaseNextTask, LoopInv, ConsistencyInv, TypeOK,
                      QueueConsistent, Queued
  <2> QED
    BY <2>1 DEF LoopInv, ConsistencyInv, QueueConsistent
<1>4. t \notin submitted
  BY <1>1, <1>3 DEF LoopInv, BooksAgree
<1>5. RGTypeOK'
  BY <1>2 DEF Release, LoopInv, RGTypeOK, ExTypeOK, futurevars, ConsistencyInv
<1>6. BooksAgree'
  BY <1>1, <1>2 DEF LoopInv, BooksAgree
<1>7. HeldIsTracked'
  BY <1>1, <1>2 DEF LoopInv, BooksAgree, HeldIsTracked
<1> QED
  BY <1>1, <1>2, <1>3, <1>4, <1>5, <1>6, <1>7
     DEF LoopInv, RaisedAtEnd, Dispatching, Polling, Polled, EndsSuccessful

LEMMA SubmitStep ==
  ASSUME LoopInv, ConsistencyInv', Submit
  PROVE  LoopInv'
<1>1. /\ raised = None /\ pc = "dispatch" /\ pc' = "poll"
      /\ nextTask \in TaskIds \ submitted /\ taskStates[nextTask] = "queued"
      /\ taskFutures \in Seq(TaskIds) /\ IsInjective(taskFutures)
  BY DEF Submit, LoopInv, RaisedAtEnd, Dispatching, RGTypeOK, HeldIsTracked
<1>2. /\ UNCHANGED <<esvars, nextTask, polled, raised, returned>>
      /\ submitted' = submitted \cup {nextTask}
      /\ toPoll' = taskFutures'
      /\ future' = [future EXCEPT ![nextTask] = future'[nextTask]]
      /\ future'[nextTask] \in {"pending", "unrun"}
  BY <1>1 DEF Submit, SubmitTask, LoopInv, RGTypeOK, ExTypeOK
<1>3. nextTask \notin ToSet(taskFutures)
  BY <1>1 DEF LoopInv, BooksAgree
<1>4. /\ taskFutures' \in Seq(TaskIds)
      /\ IsInjective(taskFutures')
      /\ ToSet(taskFutures') = ToSet(taskFutures) \cup {nextTask}
  BY <1>1, <1>3, AppendUnique DEF Submit
<1>5. RGTypeOK'
  <2>1. ExTypeOK'
    BY <1>1 DEF Submit, SubmitTask, LoopInv, RGTypeOK, ExTypeOK, Pruned, FutureState
  <2> QED
    BY <1>1, <1>2, <1>4, <2>1 DEF LoopInv, RGTypeOK, ConsistencyInv
<1>6. BooksAgree'
  <2>1. \A u \in TaskIds : u \in submitted' <=> future'[u] # "none"
    BY <1>1, <1>2 DEF LoopInv, BooksAgree, RGTypeOK, ExTypeOK
  <2>2. nextTask \notin returned
    BY <1>1 DEF LoopInv, BooksAgree
  <2> QED
    BY <1>1, <1>2, <1>4, <2>1, <2>2 DEF LoopInv, BooksAgree, esvars
<1>7. HeldIsTracked'
  <2>1. \A u \in ToSet(taskFutures') : u \in held \ returned /\ u \in TaskIds /\ u \in submitted'
    BY <1>1, <1>2, <1>4 DEF LoopInv, BooksAgree, RGTypeOK
  <2>2. held \subseteq ToSet(taskFutures')
    BY <1>1, <1>4 DEF LoopInv, BooksAgree
  <2> QED
    BY <1>1, <1>2, <1>4, <1>6, <2>1, <2>2 DEF BooksAgree, HeldIsTracked, esvars
<1> QED
  BY <1>1, <1>2, <1>4, <1>5, <1>6, <1>7
     DEF LoopInv, RaisedAtEnd, Dispatching, Polling, Polled, EndsSuccessful

LEMMA SubmitFailsStep ==
  ASSUME LoopInv, ConsistencyInv', SubmitFails
  PROVE  LoopInv'
<1>1. /\ raised = None /\ pc = "dispatch" /\ pc' = "finalize"
      /\ nextTask \in TaskIds /\ raised' = nextTask /\ raised' # None
  BY RunAssumption DEF SubmitFails, LoopInv, RaisedAtEnd, Dispatching
<1>2. /\ UNCHANGED <<esvars, nextTask, taskFutures, toPoll, polled, returned>>
      /\ future' = future
  BY DEF SubmitFails, SubmissionHookRaises, SubmitRaises
<1>3. RGTypeOK'
  <2>1. ExTypeOK'
    BY <1>2 DEF SubmitFails, SubmissionHookRaises, SubmitRaises, Prune, Pruned, LoopInv,
                RGTypeOK, ExTypeOK
  <2>2. submitted' \subseteq TaskIds
    BY <1>1 DEF SubmitFails, LoopInv, RGTypeOK
  <2> QED
    BY <1>1, <1>2, <2>1, <2>2 DEF LoopInv, RGTypeOK, ConsistencyInv
<1>4. HeldIsTracked'
  BY <1>1, <1>2 DEF LoopInv, BooksAgree, HeldIsTracked, esvars
<1> QED
  BY <1>1, <1>2, <1>3, <1>4
     DEF LoopInv, RaisedAtEnd, BooksAgree, Dispatching, Polling, Polled, EndsSuccessful

LEMMA RejectStep ==
  ASSUME LoopInv, ConsistencyInv', Reject
  PROVE  LoopInv'
<1>1. /\ raised = None /\ pc = "dispatch" /\ pc' = "poll"
      /\ nextTask \in TaskIds \ submitted /\ IsInjective(taskFutures)
  BY DEF Reject, LoopInv, RaisedAtEnd, Dispatching, HeldIsTracked
<1>2. /\ UNCHANGED <<future, nextTask, taskFutures, polled, raised, submitted, returned, taskStates>>
      /\ held' = held \ {nextTask} /\ toPoll' = taskFutures
  BY DEF Reject, RefuseTask, RejectTask
<1>3. RGTypeOK'
  BY <1>2 DEF Reject, RefuseTask, Prune, Pruned, LoopInv, RGTypeOK, ExTypeOK, ConsistencyInv
<1>4. BooksAgree'
  BY <1>1, <1>2 DEF LoopInv, BooksAgree
<1>5. HeldIsTracked'
  BY <1>1, <1>2 DEF LoopInv, BooksAgree, HeldIsTracked
<1> QED
  BY <1>1, <1>2, <1>3, <1>4, <1>5
     DEF LoopInv, RaisedAtEnd, Dispatching, Polling, Polled, EndsSuccessful

(* What an update changes of the states. *)
LEMMA UpdateEffect ==
  ASSUME ConsistencyInv, NEW t \in held, NEW state, UpdateTaskState(t, state)
  PROVE  /\ state \in {"running", "successful", "failed"}
         /\ held' = IF IsTerminal(state) THEN held \ {t} ELSE held
         /\ \A u \in TaskIds : taskStates'[u] = "successful" <=>
                taskStates[u] = "successful" \/ (u = t /\ state = "successful")
         /\ \A u \in TaskIds : taskStates'[u] = "failed" <=>
                taskStates[u] = "failed" \/ (u = t /\ state = "failed")
<1>1. t \in TaskIds /\ t \in taskPool /\ taskStates[t] \in {"queued", "running"}
  BY HeldTask
<1>2. CASE state = "successful"
  <2>1. PICK n \in Lengths(Base(t)) : TaskSuccessful(t, n)
    BY <1>2 DEF UpdateTaskState
  <2>2. held' = held \ {t}
    BY <2>1 DEF TaskSuccessful
  <2>3. \A u \in TaskIds : taskStates'[u] = "successful" <=> u = t \/ taskStates[u] = "successful"
    BY <2>1, SuccessStep
  <2>4. ASSUME NEW u \in TaskIds PROVE taskStates'[u] = "failed" <=> taskStates[u] = "failed"
    <3>1. Realize(t, n) \cap taskPool = {} /\ taskPool' = taskPool \cup Realize(t, n)
      BY <2>1, RealizeIsFresh, SuccessEffect
    <3>2. u \notin taskPool => taskStates[u] \in {Absent, "uninitialized"}
      BY DEF ConsistencyInv, PoolStates
    <3>3. CASE u = t
      BY <1>1, <2>3, <3>3
    <3>4. CASE u \in taskPool \ {t}
      BY <2>1, <3>4, SuccessEffect
    <3>5. CASE u \in Realize(t, n)
      BY <2>1, <3>1, <3>2, <3>5, SuccessEffect DEF Absent
    <3>6. CASE u \notin taskPool'
      BY <2>1, <3>1, <3>2, <3>6, SuccessEffect DEF Absent
    <3> QED
      BY <3>1, <3>3, <3>4, <3>5, <3>6
  <2> QED
    BY <1>2, <2>2, <2>3, <2>4 DEF IsTerminal
<1>3. CASE state = "failed"
  BY <1>1, <1>3 DEF UpdateTaskState, TaskFailed, IsTerminal, ConsistencyInv, TypeOK
<1>4. CASE state = "running"
  BY <1>1, <1>4 DEF UpdateTaskState, TaskRunning, IsTerminal, ConsistencyInv, TypeOK
<1> QED
  BY <1>2, <1>3, <1>4 DEF UpdateTaskState

(* The update that follows a poll.  The loop goes on only if the task did  *)
(* not raise, so that no failure is on the books of a loop that goes on.   *)
LEMMA ResolveStep ==
  ASSUME LoopInv, ConsistencyInv', Resolve
  PROVE  LoopInv'
<1> DEFINE t == Head(toPoll)
<1>1. /\ raised = None /\ pc = "resolve" /\ toPoll # <<>>
      /\ IsInjective(taskFutures) /\ taskFutures \in Seq(TaskIds)
      /\ ToSet(toPoll) \subseteq ToSet(taskFutures)
  BY DEF Resolve, LoopInv, RaisedAtEnd, HeldIsTracked, RGTypeOK, Polled, Polling
<1>2. /\ t \in TaskIds /\ t \in ToSet(taskFutures) /\ t \in held /\ t \in submitted \ returned
      /\ IsInjective(Tail(toPoll)) /\ Tail(toPoll) \in Seq(TaskIds)
      /\ ToSet(Tail(toPoll)) = ToSet(toPoll) \ {t}
  BY <1>1, HeadIsOut
<1>3. t # None
  BY <1>2, RunAssumption
<1>4. held = ToSet(taskFutures)
  BY <1>1 DEF LoopInv, BooksAgree
<1>5. /\ UNCHANGED <<future, nextTask, polled, submitted>> /\ toPoll' = Tail(toPoll)
      /\ returned' = IF IsTerminal(polled) THEN returned \cup {t} ELSE returned
  BY DEF Resolve, futurevars
<1>6. \/ raised' = None /\ pc' = "poll" /\ taskFutures' = StillInFlight(t) /\ future[t] # "error"
      \/ /\ raised' = t /\ pc' = "finalize"
         /\ taskFutures' = taskFutures \/ taskFutures' = StillInFlight(t)
  BY <1>1 DEF Resolve
<1>7. /\ polled \in {"running", "successful", "failed"}
      /\ held' = IF IsTerminal(polled) THEN held \ {t} ELSE held
      /\ \A u \in TaskIds : taskStates'[u] = "successful" <=>
             taskStates[u] = "successful" \/ (u = t /\ polled = "successful")
      /\ \A u \in TaskIds : taskStates'[u] = "failed" <=>
             taskStates[u] = "failed" \/ (u = t /\ polled = "failed")
  BY <1>2, UpdateEffect DEF Resolve, LoopInv
<1>8. /\ StillInFlight(t) \in Seq(TaskIds) /\ IsInjective(StillInFlight(t))
      /\ ToSet(StillInFlight(t)) = IF IsTerminal(polled) THEN ToSet(taskFutures) \ {t}
                                                          ELSE ToSet(taskFutures)
  BY <1>1, <1>2, PositionRemoved DEF StillInFlight, LoopInv
<1> HIDE DEF t
<1>9. RGTypeOK'
  BY <1>2, <1>1, <1>5, <1>6, <1>8 DEF LoopInv, RGTypeOK, ExTypeOK, ConsistencyInv, Resolve, futurevars
<1>10. IsInjective(taskFutures')
  BY <1>1, <1>6, <1>8
<1>11. CASE raised' = None
  <2>1. pc' = "poll" /\ taskFutures' = StillInFlight(t) /\ future[t] # "error"
    BY <1>3, <1>6, <1>11
  <2>2. polled # "failed"
    BY <1>1, <2>1 DEF LoopInv, Polled, t
  <2>3. IsTerminal(polled) <=> polled = "successful"
    BY <1>7, <2>2 DEF IsTerminal
  <2>4. ToSet(taskFutures') = submitted' \ returned' /\ held' = ToSet(taskFutures')
    BY <1>1, <1>4, <1>5, <1>7, <1>8, <2>1 DEF LoopInv, BooksAgree
  <2>5. BooksAgree'
    <3>1. \A u \in TaskIds : u \in submitted' <=> future'[u] # "none"
      BY <1>1, <1>5 DEF LoopInv, BooksAgree
    <3>2. returned' \subseteq submitted'
      BY <1>1, <1>2, <1>5 DEF LoopInv, BooksAgree
    <3>3. \A u \in TaskIds : u \in returned' <=> taskStates'[u] = "successful"
      BY <1>1, <1>5, <1>7, <2>3 DEF LoopInv, BooksAgree
    <3>4. \A u \in TaskIds : taskStates'[u] # "failed"
      BY <1>1, <1>7, <2>2 DEF LoopInv, BooksAgree
    <3> QED
      BY <2>1, <2>4, <3>1, <3>2, <3>3, <3>4 DEF BooksAgree
  <2>6. HeldIsTracked'
    <3>1. \A u \in ToSet(taskFutures') : u \in TaskIds
      BY <2>4, <1>5 DEF LoopInv, RGTypeOK
    <3> QED
      BY <1>10, <2>4, <2>5, <3>1, <1>11 DEF BooksAgree, HeldIsTracked
  <2>7. Polling'
    BY <1>1, <1>2, <1>5, <1>8, <2>1 DEF Polling
  <2> QED
    BY <1>9, <1>11, <2>1, <2>5, <2>6, <2>7
       DEF LoopInv, RaisedAtEnd, Dispatching, Polled, EndsSuccessful
<1>12. CASE raised' # None
  <2>1. pc' = "finalize"
    BY <1>6, <1>12
  <2>2. held' \subseteq ToSet(taskFutures')
    BY <1>4, <1>6, <1>7, <1>8
  <2> QED
    BY <1>9, <1>10, <1>12, <2>1, <2>2
       DEF LoopInv, RaisedAtEnd, BooksAgree, Dispatching, Polling, Polled, EndsSuccessful,
           HeldIsTracked
<1> QED
  BY <1>11, <1>12

LEMMA LoopStep == LoopInv /\ [RGNext]_vars => LoopInv'
<1> SUFFICES ASSUME LoopInv, [RGNext]_vars PROVE LoopInv'
  OBVIOUS
<1>1. ConsistencyInv'
  BY ProtocolKept, NextConsistent DEF LoopInv
<1>2. CASE \/ Start \/ GraphDone \/ NothingToRelease \/ AllPolled
           \/ Finalize \/ ReadFinalVars \/ Terminated \/ UNCHANGED vars
  BY <1>1, <1>2, SilentSteps
<1>3. CASE PollState \/ \E t \in TaskIds : Worker(t)
  BY <1>1, <1>3, FutureSteps
<1>4. CASE Submit \/ SubmitFails \/ Reject
  BY <1>1, <1>4, SubmitStep, SubmitFailsStep, RejectStep
<1>5. ASSUME NEW t \in TaskIds, Release(t) PROVE LoopInv'
  BY <1>1, <1>5, ReleaseStep
<1>6. CASE Resolve
  BY <1>1, <1>6, ResolveStep
<1> QED
  BY <1>2, <1>3, <1>4, <1>5, <1>6 DEF RGNext, MainThread

LEMMA LoopBooks == RGSpec => []LoopInv
<1> QED
  BY InitLoop, LoopStep, PTL DEF RGSpec

-----------------------------------------------------------------------------
(* What the loop keeps and when it ends *)

(* The tasks run_graph_to_completion has in flight are those the           *)
(* ExecutionState takes to be out, whatever fails, for any plan and pool.  *)
THEOREM BooksAreKept == RGSpec => []HeldIsTracked
<1>1. LoopInv => HeldIsTracked
  BY DEF LoopInv
<1> QED
  BY <1>1, LoopBooks, PTL

(* run_graph_to_completion keeps to the protocol of ExecutionState for any *)
(* plan, so that what is proved of ExecutionState holds in a real run.     *)
THEOREM LoopImplementsExecutionState == RGSpec => ESSpec
<1>1. RGInit => Init
  BY DEF RGInit
<1>2. LoopInv /\ [RGNext]_vars => [Next]_esvars
  BY ProtocolKept
<1> QED
  BY <1>1, <1>2, LoopBooks, PTL DEF RGSpec, ESSpec

(* When execute is over, by return or by exception, no worker is at work   *)
(* on the run and the executor can be initialized for the next.            *)
THEOREM NothingIsLeftRunning == RGSpec => []NothingLeftRunning
<1>1. RGInit => NothingLeftRunning
  BY DEF RGInit, NothingLeftRunning
<1>2. NothingLeftRunning /\ [RGNext]_vars => NothingLeftRunning'
  <2> SUFFICES ASSUME NothingLeftRunning, [RGNext]_vars,
                      pc' \in {"read", "returned", "raised"}
               PROVE  Pending' = {} /\ ~initialized'
    BY DEF NothingLeftRunning
  <2>1. CASE Finalize
    BY <2>1 DEF Finalize, FinalizeExecutor, Pending
  <2>2. CASE ReadFinalVars \/ Terminated \/ UNCHANGED vars
    BY <2>2 DEF ReadFinalVars, Terminated, vars, futurevars, loopvars, NothingLeftRunning, Pending
  <2>3. ASSUME NEW t \in TaskIds, Worker(t) PROVE FALSE
    BY <2>3 DEF Worker, CompleteTask, loopvars, NothingLeftRunning, Pending
  <2>4. CASE \/ Start \/ GraphDone \/ NothingToRelease \/ (\E t \in TaskIds : Release(t))
             \/ Submit \/ SubmitFails \/ Reject \/ PollState \/ Resolve \/ AllPolled
    BY <2>4 DEF Start, GraphDone, NothingToRelease, Release, Submit, SubmitFails, Reject,
                PollState, Resolve, AllPolled
  <2> QED
    BY <2>1, <2>2, <2>3, <2>4 DEF RGNext, MainThread
<1> QED
  BY <1>1, <1>2, PTL DEF RGSpec

(* The executor is initialized from the head of the loop to its finally    *)
(* clause.                                                                 *)
Live == initialized <=> pc \in {"loop", "dispatch", "poll", "resolve", "finalize"}

LEMMA ExecutorLives == RGSpec => []Live
<1>1. RGInit => Live
  BY DEF RGInit, ExInit, Live
<1>2. Live /\ [RGNext]_vars => Live'
  <2> SUFFICES ASSUME Live, [RGNext]_vars PROVE Live'
    OBVIOUS
  <2>1. CASE Start
    BY <2>1 DEF Start, InitExecutor, Live
  <2>2. CASE Finalize
    BY <2>2 DEF Finalize, FinalizeExecutor, Live
  <2>3. CASE GraphDone \/ NothingToRelease \/ (\E t \in TaskIds : Release(t)) \/ AllPolled
    BY <2>3 DEF GraphDone, NothingToRelease, Release, AllPolled, futurevars, Live
  <2>4. CASE Submit \/ Reject \/ PollState
    BY <2>4 DEF Submit, SubmitTask, Reject, RefuseTask, PollState, GetState, Live
  <2>5. CASE SubmitFails
    BY <2>5 DEF SubmitFails, SubmissionHookRaises, SubmitRaises, Live
  <2>6. CASE Resolve
    <3>1. initialized' = initialized /\ pc = "resolve" /\ pc' \in {"finalize", "poll"}
      BY <2>6 DEF Resolve, futurevars
    <3> QED
      BY <3>1 DEF Live
  <2>7. CASE ReadFinalVars
    <3>1. initialized' = initialized /\ pc = "read" /\ pc' \in {"returned", "raised"}
      BY <2>7 DEF ReadFinalVars, futurevars
    <3> QED
      BY <3>1 DEF Live
  <2>8. CASE (\E t \in TaskIds : Worker(t)) \/ Terminated \/ UNCHANGED vars
    BY <2>8 DEF Worker, CompleteTask, Terminated, vars, futurevars, loopvars, Live
  <2> QED
    BY <2>1, <2>2, <2>3, <2>4, <2>5, <2>6, <2>7, <2>8 DEF RGNext, MainThread
<1> QED
  BY <1>1, <1>2, PTL DEF RGSpec

(* The loop uses the executor as it is meant to be used: it submits each   *)
(* task once, between init and finalize.                                   *)
LEMMA LoopImplementsExecutors == RGSpec => ExSpec
<1>1. RGInit => ExInit
  BY DEF RGInit
<1>2. LoopInv /\ Live /\ [RGNext]_vars => [ExNext]_exvars
  <2> SUFFICES ASSUME LoopInv, Live, [RGNext]_vars PROVE [ExNext]_exvars
    OBVIOUS
  <2>1. CASE Start \/ Finalize
    BY <2>1 DEF Start, Finalize, ExNext
  <2>2. CASE Submit \/ SubmitFails \/ Reject
    <3>1. nextTask \in TaskIds /\ future[nextTask] = "none" /\ initialized
      BY <2>2 DEF Submit, SubmitFails, Reject, LoopInv, RaisedAtEnd, Dispatching, BooksAgree, Live
    <3>2. CASE Submit \/ Reject \/ SubmitRaises(nextTask)
      BY <3>1, <3>2 DEF Submit, Reject, ExNext
    <3>3. CASE SubmissionHookRaises(nextTask)
      <4>1. CASE nextTask \in RemoteTasks
        BY <3>1, <3>3, <4>1 DEF SubmissionHookRaises, SubmitRaises, ExNext
      <4>2. CASE nextTask \notin RemoteTasks
        BY <3>3, <4>2 DEF SubmissionHookRaises, Prune, exvars
      <4> QED
        BY <4>1, <4>2
    <3> QED
      BY <2>2, <3>2, <3>3 DEF SubmitFails
  <2>3. CASE PollState
    <3>1. Head(toPoll) \in TaskIds /\ future[Head(toPoll)] # "none"
      BY <2>3, HeadIsOut DEF PollState
    <3>2. \E state \in {"running", "successful", "failed"} : GetState(Head(toPoll), state)
      BY <2>3, <3>1 DEF PollState, GetState, LoopInv, RGTypeOK, ExTypeOK, FutureState
    <3> QED
      BY <3>1, <3>2 DEF ExNext
  <2>4. ASSUME NEW t \in TaskIds, Worker(t) PROVE ExNext
    BY <2>4 DEF Worker, ExNext
  <2>5. CASE \/ GraphDone \/ NothingToRelease \/ (\E t \in TaskIds : Release(t)) \/ Resolve
             \/ AllPolled \/ ReadFinalVars \/ Terminated \/ UNCHANGED vars
    BY <2>5 DEF GraphDone, NothingToRelease, Release, Resolve, AllPolled, ReadFinalVars,
                Terminated, vars, futurevars, exvars
  <2> QED
    BY <2>1, <2>2, <2>3, <2>4, <2>5 DEF RGNext, MainThread
<1> QED
  BY <1>1, <1>2, ExecutorLives, LoopBooks, PTL DEF RGSpec, ExSpec

-----------------------------------------------------------------------------
(* The pool                                                                *)

(* Inductive for the protocol of the executors alone: what runs is among   *)
(* the futures that pruning keeps, so that the length can_submit_task      *)
(* compares bounds the number of tasks that run.                           *)
PoolInv == ExTypeOK /\ PoolLimit

(* Any set of remote tasks is finite, and a part of it is no larger. *)
LEMMA FiniteFutures ==
    ASSUME NEW S, S \subseteq RemoteTasks
    PROVE  /\ IsFiniteSet(S)
           /\ Cardinality(S) \in Nat
           /\ \A T \in SUBSET S : IsFiniteSet(T) /\ Cardinality(T) <= Cardinality(S)
<1>1. IsFiniteSet(S)
  BY FS_Subset, RunAssumption DEF ExecutorsAssumption
<1> QED
  BY <1>1, FS_CardinalityType, FS_Subset

(* A step that starts no future of the pool and drops only futures that    *)
(* are done keeps the limit.                                               *)
LEMMA NothingStarts ==
    ASSUME PoolInv, ExTypeOK',
           Pending' \subseteq Pending,
           Pending' \subseteq activeFutures'
    PROVE  PoolInv'
<1>1. Pending \subseteq RemoteTasks
  BY DEF PoolInv, PoolLimit, ExTypeOK
<1>2. Cardinality(Pending') <= Cardinality(Pending)
  BY <1>1, FiniteFutures
<1>3. Cardinality(Pending') \in Nat /\ Cardinality(Pending) \in Nat
  BY <1>1, FiniteFutures
<1> QED
  BY <1>2, <1>3, RunAssumption DEF PoolInv, PoolLimit, ExecutorsAssumption

(* submit_task after can_submit_task said yes: the new future is the only  *)
(* one that was not among those the pruned list held.                      *)
LEMMA SubmitKeepsLimit ==
    ASSUME PoolInv, NEW t \in TaskIds, future[t] = "none", SubmitTask(t)
    PROVE  PoolInv'
<1>1. ExTypeOK'
  BY DEF PoolInv, ExTypeOK, SubmitTask, Pruned, FutureState
<1>2. CASE t \notin RemoteTasks
  <2>1. Pending' = Pending
    BY <1>2 DEF PoolInv, ExTypeOK, SubmitTask, Pending
  <2>2. activeFutures' = activeFutures
    BY <1>2 DEF SubmitTask
  <2> QED
    BY <1>1, <2>1, <2>2, NothingStarts DEF PoolInv, PoolLimit
<1>3. CASE t \in RemoteTasks
  <2>1. Pending' = Pending \cup {t} /\ activeFutures' = Pruned \cup {t}
    BY <1>3 DEF PoolInv, ExTypeOK, SubmitTask, Pending
  <2>2. Pending \subseteq Pruned /\ Pruned \subseteq RemoteTasks
    BY DEF PoolInv, PoolLimit, ExTypeOK, Pruned, Pending, Done
  <2>3. Cardinality(Pending) <= Cardinality(Pruned) /\ Cardinality(Pruned) < MaxTasks
    BY <1>3, <2>2, FiniteFutures DEF SubmitTask, CanSubmit
  <2>4. t \notin Pending /\ IsFiniteSet(Pending)
    BY <2>2, FiniteFutures DEF Pending
  <2>5. Cardinality(Pending \cup {t}) = Cardinality(Pending) + 1
    BY <2>4, FS_AddElement
  <2>6. Cardinality(Pending) \in Nat /\ Cardinality(Pruned) \in Nat
    BY <2>2, FiniteFutures
  <2>7. Cardinality(Pending') <= MaxTasks
    BY <2>1, <2>3, <2>5, <2>6, RunAssumption DEF ExecutorsAssumption
  <2> QED
    BY <1>1, <2>1, <2>2, <2>7 DEF PoolInv, PoolLimit
<1> QED
  BY <1>2, <1>3

LEMMA PoolInvStep == PoolInv /\ [ExNext]_exvars => PoolInv'
<1> SUFFICES ASSUME PoolInv, [ExNext]_exvars PROVE PoolInv'
  OBVIOUS
<1>1. CASE InitExecutor
  BY <1>1, NothingStarts DEF PoolInv, PoolLimit, ExTypeOK, InitExecutor, Pending
<1>2. CASE FinalizeExecutor
  BY <1>2, NothingStarts DEF PoolInv, PoolLimit, ExTypeOK, FinalizeExecutor, Pending
<1>3. ASSUME NEW t \in TaskIds, future[t] = "none", SubmitTask(t) PROVE PoolInv'
  BY <1>3, SubmitKeepsLimit
<1>4. ASSUME NEW t \in TaskIds, RefuseTask(t) \/ SubmitRaises(t) PROVE PoolInv'
  <2>1. ExTypeOK' /\ Pending' = Pending
    BY <1>4 DEF PoolInv, ExTypeOK, RefuseTask, SubmitRaises, Prune, Pruned, Pending
  <2>2. Pending \subseteq activeFutures'
    BY <1>4 DEF PoolInv, PoolLimit, RefuseTask, SubmitRaises, Prune, Pruned, Pending, Done
  <2> QED
    BY <2>1, <2>2, NothingStarts
<1>5. ASSUME NEW t \in TaskIds, CompleteTask(t) PROVE PoolInv'
  <2>1. ExTypeOK'
    BY <1>5 DEF PoolInv, ExTypeOK, CompleteTask, FutureState
  <2>2. Pending' \subseteq Pending
    BY <1>5 DEF PoolInv, ExTypeOK, CompleteTask, Pending
  <2>3. activeFutures' = activeFutures
    BY <1>5 DEF CompleteTask
  <2> QED
    BY <2>1, <2>2, <2>3, NothingStarts DEF PoolInv, PoolLimit
<1>6. ASSUME NEW t \in TaskIds, NEW s \in {"running", "successful", "failed"}, GetState(t, s)
      PROVE  PoolInv'
  <2>1. ExTypeOK'
    BY <1>6 DEF PoolInv, ExTypeOK, GetState, FutureState
  <2>2. Pending' \subseteq Pending
    BY <1>6 DEF PoolInv, ExTypeOK, GetState, Pending
  <2>3. activeFutures' = activeFutures
    BY <1>6 DEF GetState
  <2> QED
    BY <2>1, <2>2, <2>3, NothingStarts DEF PoolInv, PoolLimit
<1>7. CASE UNCHANGED exvars
  BY <1>7 DEF exvars, PoolInv, PoolLimit, ExTypeOK, Pending
<1> QED
  BY <1>1, <1>2, <1>3, <1>4, <1>5, <1>6, <1>7 DEF ExNext

LEMMA PoolInitially == ExInit => PoolInv
<1> SUFFICES ASSUME ExInit PROVE PoolInv
  OBVIOUS
<1>1. Pending = {}
  BY DEF ExInit, Pending
<1>2. Cardinality(Pending) = 0
  BY <1>1, FS_EmptySet
<1>3. ExTypeOK
  BY DEF ExInit, ExTypeOK, FutureState
<1>4. PoolLimit
  BY <1>1, <1>2, RunAssumption DEF PoolLimit, ExecutorsAssumption
<1> QED
  BY <1>3, <1>4 DEF PoolInv

(* In a real run the pool never has more than max_tasks tasks at work,     *)
(* whatever fails and however often tasks are rejected and released again. *)
THEOREM RunWithinPoolLimit == RGSpec => []PoolLimit
<1>1. PoolInv => PoolLimit
  BY DEF PoolInv
<1> QED
  BY <1>1, PoolInitially, PoolInvStep, LoopImplementsExecutors, PTL DEF ExSpec

-----------------------------------------------------------------------------
(* What a run returns *)

(* A run that gets as far as the read of the outputs has done everything.  *)
LEMMA EverythingReturned ==
  ASSUME WellFormedPlan, LoopInv, ProgressInv, pc \in {"read", "returned"}
  PROVE  /\ \A b \in BaseTasks : Complete(b)
         /\ submitted = taskPool /\ returned = taskPool
<1>1. raised = None /\ GraphState = "successful"
  BY DEF LoopInv, RaisedAtEnd, EndsSuccessful
<1>2. \A t \in Known : taskStates[t] = "successful"
  BY <1>1 DEF GraphState
<1>3. \A t \in TaskIds : t \in taskPool => t \in Known
  BY DEF Known, LoopInv, ConsistencyInv, PoolStates
<1>4. \A b \in BaseTasks : Complete(b)
  <2>1. \A t \in taskPool : taskStates[t] = "successful"
    BY <1>2, <1>3 DEF LoopInv, ConsistencyInv, TypeOK
  <2> QED
    BY <2>1, FirstIncomplete
<1>5. returned = taskPool
  BY <1>1, <1>2, <1>3
     DEF LoopInv, BooksAgree, RGTypeOK, ConsistencyInv, TypeOK, PoolStates, Absent
<1>6. held = {}
  BY <1>2, <1>3, HeldTask DEF LoopInv
<1> QED
  BY <1>1, <1>4, <1>5, <1>6 DEF LoopInv, BooksAgree

(* execute returns only whole results, and raises only what a task, a      *)
(* submission or a hook raised, for every well-formed plan.  The outputs   *)
(* asked for are those of tasks that are not repeated (validated when the  *)
(* plan is made).                                                          *)
THEOREM OnlyWholeResults ==
  ASSUME WellFormedPlan, \A b \in Requested : ~InBlock(b)
  PROVE  RGSpec => []ReturnsWholeResult
<1> DEFINE RaisedWhat == pc = "raised" => raised # None
<1>1. RGInit => RaisedWhat
  BY DEF RGInit
<1>2. LoopInv /\ ProgressInv /\ RaisedWhat /\ [RGNext]_vars => RaisedWhat'
  <2> SUFFICES ASSUME LoopInv, ProgressInv, RaisedWhat, [RGNext]_vars, pc' = "raised"
               PROVE  raised' # None
    OBVIOUS
  <2>1. CASE Finalize
    BY <2>1 DEF Finalize
  <2>2. CASE ReadFinalVars
    <3>1. ASSUME NEW b \in Requested PROVE Static(b) \in results
      <4>1. b \in BaseTasks /\ ~InBlock(b) /\ Complete(b)
        BY <2>2, EverythingReturned, RunAssumption DEF ReadFinalVars
      <4>2. taskStates[Static(b)] = "successful" /\ Static(b) \in TaskIds
        BY <4>1, StaticType DEF Complete, Instances
      <4> QED
        BY <4>2 DEF ProgressInv, DependencyInv, ResultOfSuccess
    <3> QED
      BY <2>2, <3>1 DEF ReadFinalVars, InCache
  <2>3. CASE Terminated \/ UNCHANGED vars \/ \E t \in TaskIds : Worker(t)
    BY <2>3 DEF Terminated, Worker, vars, loopvars
  <2>4. CASE \/ Start \/ GraphDone \/ NothingToRelease \/ (\E t \in TaskIds : Release(t))
             \/ Submit \/ SubmitFails \/ Reject \/ PollState \/ Resolve \/ AllPolled
    BY <2>4 DEF Start, GraphDone, NothingToRelease, Release, Submit, SubmitFails, Reject,
                PollState, Resolve, AllPolled
  <2> QED
    BY <2>1, <2>2, <2>3, <2>4 DEF RGNext, MainThread
<1>3. LoopInv /\ ProgressInv /\ RaisedWhat => ReturnsWholeResult
  BY EverythingReturned DEF ReturnsWholeResult
<1>4. RGSpec => []ProgressInv
  BY LoopImplementsExecutionState, Progress, PTL
<1> QED
  BY <1>1, <1>2, <1>3, <1>4, LoopBooks, PTL DEF RGSpec

-----------------------------------------------------------------------------
(* The loop implements TaskGraph *)

(* Only tasks the plan calls for are realized: a task of a block only with *)
(* the number of an element, any other once.                               *)
InPlan == \A u \in taskPool : u \in Instances(Base(u))

LEMMA OnlyPlannedTasks ==
  ASSUME WellFormedPlan
  PROVE  ESSpec => []InPlan
<1>1. Init => InPlan
  <2> SUFFICES ASSUME Init, NEW b \in Roots PROVE Static(b) \in Instances(b)
    BY StaticType DEF Init, InPlan, Roots
  <2>1. Spawner[b] = None
    BY DEF Roots, WellFormedPlan, SpawnedByExpander
  <2> QED
    BY <2>1 DEF Instances, InBlock
<1>2. DependencyInv /\ InPlan /\ [Next]_esvars => InPlan'
  <2> SUFFICES ASSUME DependencyInv, InPlan, [Next]_esvars PROVE InPlan'
    OBVIOUS
  <2>1. CASE UNCHANGED <<taskPool, width>>
    BY <2>1 DEF InPlan, Instances
  <2>2. ASSUME NEW t \in held, NEW n \in Lengths(Base(t)), TaskSuccessful(t, n) PROVE InPlan'
    <3> SUFFICES ASSUME NEW u \in taskPool' PROVE u \in Instances(Base(u))'
      BY DEF InPlan
    <3>1. ConsistencyInv /\ WidthOfSuccess /\ t \in TaskIds /\ Base(t) \in BaseTasks
      BY HeldTask DEF DependencyInv
    <3>2. taskPool' = taskPool \cup Realize(t, n)
      BY <2>2 DEF TaskSuccessful
    <3>3. CASE u \in taskPool
      <4>1. u \in Instances(Base(u)) /\ Base(u) \in BaseTasks
        BY <3>1, <3>3, BaseType DEF InPlan, ConsistencyInv, TypeOK
      <4>2. InBlock(Base(u)) => /\ Spawner[Base(u)] \in BaseTasks
                                /\ width[Spawner[Base(u)]] # None
        BY <3>1, <4>1, InstancesType DEF Instances, ConsistencyInv
      <4>3. InBlock(Base(u)) => width'[Spawner[Base(u)]] = width[Spawner[Base(u)]]
        BY <2>2, <3>1, <4>2, WidthStays
      <4> QED
        BY <4>1, <4>2, <4>3 DEF Instances
    <3>4. CASE u \in Realize(t, n) /\ IsExpander(Base(t))
      <4>1. width'[Base(t)] = n /\ n \in 0 .. MaxGroups /\ n # None
        BY <2>2, <3>1, <3>4, WidthStays, PlanAssumption DEF Lengths
      <4>2. u \in Repetitions(Base(t), n) \/ \E c \in Collectors(Base(t)) : u = Static(c)
        BY <3>4 DEF Realize, ExpandTask
      <4>3. CASE u \in Repetitions(Base(t), n)
        <5>1. /\ Base(u) \in TasksToRepeat(Base(t))
              /\ u \in {Base(u)} \X (0 .. n - 1)
          BY <4>3 DEF Repetitions, Base
        <5>2. InBlock(Base(u)) /\ Spawner[Base(u)] = Base(t)
          BY <3>1, <5>1, PlanAssumption DEF ClosedPlan, TasksToRepeat, InBlock
        <5> QED
          BY <4>1, <5>1, <5>2 DEF Instances
      <4>4. ASSUME NEW c \in Collectors(Base(t)), u = Static(c) PROVE u \in Instances(Base(u))'
        BY <4>4, StaticType DEF Collectors, Instances, InBlock
      <4> QED
        BY <4>2, <4>3, <4>4
    <3>5. CASE u \in Realize(t, n) /\ ~IsExpander(Base(t))
      <4>1. PICK c \in Candidates(Base(t)) : u = Static(c)
        BY <3>5 DEF Realize
      <4> QED
        BY <4>1, StaticType DEF Candidates, Dependents, Instances, InBlock
    <3> QED
      BY <3>2, <3>3, <3>4, <3>5
  <2>3. ASSUME NEW t \in TaskIds, ReleaseNextTask(t) \/ RejectTask(t) \/ TaskFailed(t) \/ TaskRunning(t)
        PROVE  UNCHANGED <<taskPool, width>>
    BY <2>3 DEF ReleaseNextTask, RejectTask, TaskFailed, TaskRunning
  <2> QED
    BY <2>1, <2>2, <2>3 DEF Next, UpdateTaskState, esvars
<1> QED
  BY <1>1, <1>2, Dependency, PTL DEF ESSpec

-----------------------------------------------------------------------------
(* The loop goes on                                                        *)

(* Only tasks of the plan have a state, those included that only a look-up *)
(* of the defaultdict has named, so that a graph with everything complete  *)
(* is SUCCESSFUL: no name that is never realized keeps it RUNNING.         *)
KnownIsPlanned == \A t \in Known : \E d \in BaseTasks : t \in Instances(d)

DependenciesArePlanned ==
  \A u \in taskPool : realizedDeps[u] = ExpectedDeps(u) =>
    \A v \in DependenciesOf(u, realizedDeps) : \E d \in BaseTasks : v \in Instances(d)

LEMMA NamedArePlanned ==
  ASSUME WellFormedPlan
  PROVE  ConsistencyInv /\ WidthOfSuccess => DependenciesArePlanned
<1> SUFFICES ASSUME ConsistencyInv, WidthOfSuccess,
                    NEW u \in taskPool, realizedDeps[u] = ExpectedDeps(u),
                    NEW d \in BaseTasks, NEW v \in ToSet(ExpectedDeps(u)[d])
             PROVE  v \in Instances(d)
  BY DEF DependenciesArePlanned, DependenciesOf
<1>1. CASE d \in BaseDeps[Base(u)]
  BY <1>1, ExpectedAreInstances
<1>2. CASE d \notin BaseDeps[Base(u)]
  <2>1. ExpectedDeps(u)[d] = <<>>
    BY <1>2 DEF ExpectedDeps, CollectorDeps, StaticDeps
  <2>2. ToSet(<<>>) = {}
    BY DEF ToSet
  <2> QED
    BY <2>1, <2>2
<1> QED
  BY <1>1, <1>2

LEMMA NamedArePlannedNext ==
  ASSUME WellFormedPlan
  PROVE  (ConsistencyInv /\ WidthOfSuccess => DependenciesArePlanned)'
<1>1. ConsistencyInv /\ WidthOfSuccess => DependenciesArePlanned
  BY NamedArePlanned
<1> QED
  BY <1>1, PTL

(* What the success of t makes known beside the tasks it realizes are the  *)
(* dependencies of tasks that wait.                                        *)
LEMMA SuccessNames ==
  ASSUME WellFormedPlan, DependencyInv, DependencyInv', KnownIsPlanned, InPlan',
         NEW t \in held, NEW n \in Lengths(Base(t)), TaskSuccessful(t, n)
  PROVE  KnownIsPlanned'
<1> SUFFICES ASSUME NEW v \in TaskIds, taskStates'[v] # Absent
             PROVE  \E d \in BaseTasks : v \in Instances(d)'
  BY DEF KnownIsPlanned, Known
<1>1. /\ ConsistencyInv /\ WidthOfSuccess /\ ConsistencyInv' /\ WidthOfSuccess'
      /\ taskPool \subseteq TaskIds /\ Realize(t, n) \cap taskPool = {}
  BY RealizeIsFresh DEF DependencyInv, ConsistencyInv, TypeOK
<1>2. \A e \in BaseTasks : width[e] # None => width'[e] = width[e]
  BY <1>1, WidthStays
<1>3. CASE v \in taskPool'
  BY <1>3, BaseType DEF InPlan
<1>4. CASE v \notin taskPool' /\ taskStates[v] # Absent
  <2>1. PICK d \in BaseTasks : v \in Instances(d)
    BY <1>4 DEF KnownIsPlanned, Known
  <2>2. InBlock(d) => width[Spawner[d]] # None /\ width'[Spawner[d]] = width[Spawner[d]]
    BY <1>1, <1>2, <2>1, InstancesType DEF Instances, ConsistencyInv
  <2> QED
    BY <2>1, <2>2 DEF Instances
<1>5. CASE v \notin taskPool' /\ taskStates[v] = Absent
  <2>1. PICK u \in taskPool' : /\ u \in Realize(t, n) \/ taskStates[u] = "initialized"
                               /\ v \in DependenciesOf(u, realizedDeps')
    <3> DEFINE pool   == taskPool \cup Realize(t, n)
               states == [w \in TaskIds |-> IF w \in Realize(t, n) THEN "initialized"
                                            ELSE IF w = t THEN "successful"
                                            ELSE taskStates[w]]
    <3>1. /\ taskPool' = pool
          /\ taskStates'[v] = IF v \in TasksToEnqueue(pool, states, realizedDeps') THEN "queued"
                             ELSE IF v \in LookedUp(pool, states, realizedDeps') /\ states[v] = Absent
                             THEN "uninitialized" ELSE states[v]
      BY DEF TaskSuccessful, Enqueue
    <3>2. v \notin pool /\ v # t
      BY <1>1, <1>5, <3>1, HeldTask
    <3>3. states[v] = Absent /\ v \notin TasksToEnqueue(pool, states, realizedDeps')
      BY <1>5, <3>2 DEF TasksToEnqueue, Waiting
    <3>4. v \in LookedUp(pool, states, realizedDeps')
      BY <3>1, <3>3
    <3>5. PICK u \in pool : states[u] = "initialized" /\ v \in DependenciesOf(u, realizedDeps')
      BY <3>4 DEF LookedUp, Waiting
    <3>6. u \in TaskIds
      BY <1>1, RealizeType, HeldTask
    <3>7. u \in Realize(t, n) \/ taskStates[u] = "initialized"
      BY <3>5, <3>6
    <3> QED
      BY <3>1, <3>5, <3>7
  <2>2. realizedDeps'[u] = ExpectedDeps(u)'
    <3>1. CASE u \in Realize(t, n)
      BY <1>1, <3>1, RealizedDependencies, SuccessStep, RealizeType, HeldTask DEF ConsistencyInv
    <3>2. CASE u \notin Realize(t, n)
      <4>1. u \in taskPool /\ u \in TaskIds
        BY <1>1, <3>2, SuccessEffect
      <4>2. realizedDeps[u] = ExpectedDeps(u)
        BY <2>1, <3>2, <4>1 DEF DependencyInv, Bound, BoundOrWaiting
      <4>3. ExpectedDeps(u)' = ExpectedDeps(u)
        BY <1>1, <1>2, <4>1, ExpectedStays
      <4>4. realizedDeps'[u] = realizedDeps[u]
        BY <1>1, <3>2, <4>1, SuccessStep
      <4> QED
        BY <4>2, <4>3, <4>4
    <3> QED
      BY <3>1, <3>2
  <2>3. DependenciesArePlanned'
    BY <1>1, NamedArePlannedNext
  <2> QED
    BY <2>1, <2>2, <2>3 DEF DependenciesArePlanned
<1> QED
  BY <1>3, <1>4, <1>5

LEMMA OnlyPlannedNames ==
  ASSUME WellFormedPlan
  PROVE  ESSpec => []KnownIsPlanned
<1>1. Init /\ InPlan => KnownIsPlanned
  BY BaseType DEF Init, InPlan, KnownIsPlanned, Known
<1>2. /\ DependencyInv /\ DependencyInv' /\ InPlan' /\ KnownIsPlanned /\ [Next]_esvars
      => KnownIsPlanned'
  <2> SUFFICES ASSUME DependencyInv, DependencyInv', InPlan', KnownIsPlanned, [Next]_esvars
               PROVE  KnownIsPlanned'
    OBVIOUS
  <2>1. CASE Known' = Known /\ width' = width
    BY <2>1 DEF KnownIsPlanned, Instances
  <2>2. ASSUME NEW t \in held, NEW n \in Lengths(Base(t)), TaskSuccessful(t, n)
        PROVE  KnownIsPlanned'
    BY <2>2, SuccessNames
  <2>3. ASSUME NEW t \in held, TaskFailed(t) \/ TaskRunning(t)
        PROVE  Known' = Known /\ width' = width
    <3>1. t \in TaskIds /\ taskStates[t] # Absent
      BY HeldTask DEF DependencyInv, Absent
    <3> QED
      BY <2>3, <3>1 DEF TaskFailed, TaskRunning, Known, DependencyInv, ConsistencyInv, TypeOK, Absent
  <2>4. ASSUME NEW t \in TaskIds, ReleaseNextTask(t) \/ RejectTask(t)
        PROVE  Known' = Known /\ width' = width
    BY <2>4 DEF ReleaseNextTask, RejectTask, Known
  <2>5. CASE UNCHANGED esvars
    BY <2>1, <2>5 DEF esvars, Known
  <2> QED
    BY <2>1, <2>2, <2>3, <2>4, <2>5 DEF Next, UpdateTaskState
<1> QED
  BY <1>1, <1>2, Dependency, OnlyPlannedTasks, PTL DEF ESSpec

(* What the pool counts as active has been given to a worker. *)
ActiveStarted == \A t \in activeFutures : future[t] \in {"pending", "done", "error"}

LEMMA ActiveAreStarted == RGSpec => []ActiveStarted
<1>1. ExInit => ActiveStarted
  BY DEF ExInit, ActiveStarted
<1>2. PoolInv /\ ActiveStarted /\ [ExNext]_exvars => ActiveStarted'
  <2> SUFFICES ASSUME PoolInv, ActiveStarted, [ExNext]_exvars PROVE ActiveStarted'
    OBVIOUS
  <2>1. CASE InitExecutor \/ FinalizeExecutor \/ UNCHANGED exvars
    BY <2>1 DEF InitExecutor, FinalizeExecutor, exvars, ActiveStarted
  <2>2. ASSUME NEW t \in TaskIds, SubmitTask(t) PROVE ActiveStarted'
    BY <2>2 DEF SubmitTask, Pruned, ActiveStarted, PoolInv, ExTypeOK
  <2>3. ASSUME NEW t \in TaskIds, RefuseTask(t) \/ SubmitRaises(t) PROVE ActiveStarted'
    BY <2>3 DEF RefuseTask, SubmitRaises, Prune, Pruned, ActiveStarted
  <2>4. ASSUME NEW t \in TaskIds, CompleteTask(t) PROVE ActiveStarted'
    BY <2>4 DEF CompleteTask, ActiveStarted, PoolInv, ExTypeOK
  <2>5. ASSUME NEW t \in TaskIds, NEW s \in {"running", "successful", "failed"}, GetState(t, s)
        PROVE  ActiveStarted'
    <3>1. CASE UNCHANGED exvars
      BY <3>1 DEF exvars, ActiveStarted
    <3>2. CASE future[t] = "unrun"
      <4>1. t \notin activeFutures /\ activeFutures' = activeFutures
        BY <2>5, <3>2 DEF GetState, ActiveStarted
      <4>2. \A u \in TaskIds : u # t => future'[u] = future[u]
        BY <2>5, <3>2 DEF GetState, PoolInv, ExTypeOK
      <4> QED
        BY <4>1, <4>2 DEF ActiveStarted, PoolInv, ExTypeOK, RemoteTasks
    <3> QED
      BY <2>5, <3>1, <3>2 DEF GetState, exvars
  <2> QED
    BY <2>1, <2>2, <2>3, <2>4, <2>5 DEF ExNext
<1> QED
  BY <1>1, <1>2, PoolInitially, PoolInvStep, LoopImplementsExecutors, PTL DEF ExSpec

(* No round of the loop is in vain for good: while the graph is not done,  *)
(* a worker is at work, or a future is in flight whose end the loop has    *)
(* yet to learn (and which it polls in this round), or the head of the     *)
(* queue can be submitted.  A full pool is the only reason to reject.      *)
RoundHasWork ==
  pc = "loop" /\ ~IsTerminal(GraphState) =>
    \/ Pending # {}
    \/ \E t \in ToSet(taskFutures) : future[t] \in {"unrun", "done", "error"}
    \/ taskQueue # <<>> /\ CanSubmit(Head(taskQueue))

(* A plan has a task that depends on nothing. *)
LEMMA SomethingKnown ==
  ASSUME WellFormedPlan, BaseTasks # {}, ProgressInv
  PROVE  Known # {}
<1>1. PICK b \in BaseTasks : Prerequisites(b) \cap BaseTasks = {}
  BY DEF WellFormedPlan, Acyclic
<1>2. BaseDeps[b] = {}
  BY <1>1, PlanAssumption DEF ClosedPlan, Prerequisites
<1>3. Static(b) \in taskPool /\ Static(b) \in TaskIds
  BY <1>2, StaticType DEF Roots, ProgressInv, RealizedInTime
<1> QED
  BY <1>3 DEF ProgressInv, DependencyInv, ConsistencyInv, PoolStates, Known

(* The main loop never goes round without anything to wait for or to do:   *)
(* for every well-formed plan that has a task, every pool and every order  *)
(* in which workers end.  (The plan without tasks goes round for ever.)    *)
THEOREM LoopNeverInVain ==
  ASSUME WellFormedPlan, BaseTasks # {}
  PROVE  RGSpec => []RoundHasWork
<1>1. LoopInv /\ ProgressInv /\ KnownIsPlanned /\ ActiveStarted => RoundHasWork
  <2> SUFFICES ASSUME LoopInv, ProgressInv, KnownIsPlanned, ActiveStarted,
                      pc = "loop", ~IsTerminal(GraphState), Pending = {},
                      \A t \in ToSet(taskFutures) : future[t] \notin {"unrun", "done", "error"}
               PROVE  taskQueue # <<>> /\ CanSubmit(Head(taskQueue))
    BY DEF RoundHasWork
  <2>1. raised = None
    BY DEF LoopInv, RaisedAtEnd
  <2>2. ToSet(taskFutures) = {} /\ held = {}
    <3>1. ASSUME NEW t \in ToSet(taskFutures) PROVE FALSE
      <4>1. t \in TaskIds /\ future[t] # "none"
        BY <2>1, <3>1 DEF LoopInv, BooksAgree, RGTypeOK
      <4>2. future[t] \in FutureState /\ future[t] # "pending"
        BY <4>1 DEF LoopInv, RGTypeOK, ExTypeOK, Pending
      <4> QED
        BY <3>1, <4>1, <4>2 DEF FutureState
    <3> QED
      BY <2>1, <3>1 DEF LoopInv, BooksAgree
  <2>3. taskQueue # <<>>
    <3> SUFFICES ASSUME taskQueue = <<>> PROVE FALSE
      OBVIOUS
    <3>1. Queued = {}
      BY DEF Queued, ToSet
    <3>2. ASSUME NEW b \in BaseTasks PROVE Complete(b)
      <4>1. \A t \in taskPool : taskStates[t] \notin {"queued", "running", "failed"}
        BY <2>1, <2>2, <3>1
           DEF ProgressInv, NoneLost, LoopInv, BooksAgree, ConsistencyInv, TypeOK
      <4> QED
        BY <4>1, FirstIncomplete
    <3>3. \A t \in Known : taskStates[t] = "successful"
      BY <3>2 DEF KnownIsPlanned, Complete
    <3>4. GraphState = "successful"
      BY <3>3, SomethingKnown DEF GraphState
    <3> QED
      BY <3>4 DEF IsTerminal
  <2>4. CanSubmit(Head(taskQueue))
    <3>1. Pruned = {}
      BY DEF Pruned, ActiveStarted, Done, Pending, LoopInv, RGTypeOK, ExTypeOK, RemoteTasks
    <3>2. Cardinality(Pruned) = 0
      BY <3>1, FS_EmptySet
    <3> QED
      BY <3>2, RunAssumption DEF CanSubmit, ExecutorsAssumption
  <2> QED
    BY <2>3, <2>4
<1> QED
  BY <1>1, LoopBooks, LoopImplementsExecutionState, Progress, OnlyPlannedNames, ActiveAreStarted, PTL

(* What the main thread needs for its next step, wherever it stands.       *)
MainCan ==
  \/ pc = "start" /\ ~initialized
  \/ pc = "loop" /\ \/ IsTerminal(GraphState)
                    \/ taskQueue = <<>>
                    \/ ReadsOf(Head(taskQueue)) \subseteq results
  \/ pc = "dispatch" /\ initialized /\ nextTask \in TaskIds
  \/ pc \in {"poll", "read"}
  \/ pc = "resolve" /\ toPoll # <<>> /\ polled \in {"running", "successful", "failed"}
  \/ pc = "finalize" /\ initialized /\ Pending = {}

(* get_state has an answer to update_task_state with.                      *)
PolledState == pc = "resolve" => polled \in {"running", "successful", "failed"}

(* Nothing the main thread calls raises what run_graph_to_completion does  *)
(* not expect, and it never waits for what will not come: it can go on     *)
(* until the run is over, but for the shutdown of the pool, which waits    *)
(* for the workers that are still at work.                                 *)
NeverStuck == Ended \/ MainCan \/ (pc = "finalize" /\ Pending # {})

THEOREM LoopNeverStuck ==
  ASSUME WellFormedPlan
  PROVE  RGSpec => []NeverStuck
<1>1. LoopInv /\ Live /\ InputsInCache /\ PolledState => NeverStuck
  <2> SUFFICES ASSUME LoopInv, Live, InputsInCache, PolledState PROVE NeverStuck
    OBVIOUS
  <2>1. pc \in {"start", "loop", "dispatch", "poll", "resolve", "finalize",
                "read", "returned", "raised"}
    BY DEF LoopInv, RGTypeOK
  <2>2. CASE pc = "loop"
    <3>1. ASSUME taskQueue # <<>> PROVE Head(taskQueue) \in Queued
      <4>1. taskQueue \in Seq(TaskIds)
        BY DEF LoopInv, RGTypeOK, TypeOK
      <4>2. Len(taskQueue) >= 1 /\ Len(taskQueue) \in Nat /\ DOMAIN taskQueue = 1 .. Len(taskQueue)
        BY <3>1, <4>1, LenProperties, EmptySeq
      <4>3. 1 \in DOMAIN taskQueue /\ Head(taskQueue) = taskQueue[1]
        BY <3>1, <4>1, <4>2, HeadTailProperties
      <4> QED
        BY <4>3 DEF Queued, ToSet
    <3> QED
      BY <2>2, <3>1 DEF NeverStuck, MainCan, InputsInCache
  <2>3. CASE pc = "dispatch"
    BY <2>3 DEF NeverStuck, MainCan, LoopInv, Dispatching, Live
  <2>4. CASE pc = "resolve"
    BY <2>4 DEF NeverStuck, MainCan, LoopInv, Polled, PolledState
  <2>5. CASE pc \notin {"loop", "dispatch", "resolve"}
    BY <2>1, <2>5 DEF NeverStuck, MainCan, Ended, Live
  <2> QED
    BY <2>2, <2>3, <2>4, <2>5
<1>2. RGSpec => []PolledState
  <2>1. RGInit => PolledState
    BY DEF RGInit, PolledState
  <2>2. LoopInv /\ PolledState /\ [RGNext]_vars => PolledState'
    <3> SUFFICES ASSUME LoopInv, PolledState, [RGNext]_vars, pc' = "resolve"
                 PROVE  polled' \in {"running", "successful", "failed"}
      BY DEF PolledState
    <3>1. CASE PollState
      <4>1. future[Head(toPoll)] \in FutureState
        BY <3>1, HeadIsOut DEF PollState, LoopInv, RGTypeOK, ExTypeOK
      <4> QED
        BY <3>1, <4>1 DEF PollState, GetState, FutureState
    <3>2. CASE Terminated \/ UNCHANGED vars \/ \E t \in TaskIds : Worker(t)
      BY <3>2 DEF Terminated, Worker, vars, loopvars, PolledState
    <3>3. CASE \/ Start \/ GraphDone \/ NothingToRelease \/ (\E t \in TaskIds : Release(t))
               \/ Submit \/ SubmitFails \/ Reject \/ Resolve \/ AllPolled \/ Finalize \/ ReadFinalVars
      BY <3>3 DEF Start, GraphDone, NothingToRelease, Release, Submit, SubmitFails, Reject,
                  Resolve, AllPolled, Finalize, ReadFinalVars
    <3> QED
      BY <3>1, <3>2, <3>3 DEF RGNext, MainThread
  <2> QED
    BY <2>1, <2>2, LoopBooks, PTL DEF RGSpec
<1> QED
  BY <1>1, <1>2, LoopBooks, ExecutorLives, LoopImplementsExecutionState, InputsAreInCache, PTL

(* The words of TaskGraph in those of ExecutionState. *)
LEMMA Mapping ==
  /\ TG!TaskIds = TaskIds
  /\ \A b \in BaseTasks : TG!TasksOf(b) = Instances(b)
  /\ \A t \in TaskIds : /\ TaskStatus[t] = "succeeded" <=> taskStates[t] = "successful"
                        /\ TaskStatus[t] = "failed" <=> taskStates[t] = "failed"
                        /\ TaskStatus[t] = "started" <=>
                              t \in submitted /\ ~IsTerminal(taskStates[t])
                        /\ TaskStatus[t] = "idle" <=>
                              t \notin submitted /\ ~IsTerminal(taskStates[t])
<1>1. TG!TaskIds = TaskIds
  BY DEF TG!TaskIds, TaskIds, GroupIds
<1>2. ASSUME NEW b \in BaseTasks PROVE TG!TasksOf(b) = Instances(b)
  BY DEF TG!TasksOf, Instances, Static
<1>3. ASSUME NEW t \in TaskIds
      PROVE  TaskStatus[t] = IF taskStates[t] = "successful" THEN "succeeded"
                             ELSE IF taskStates[t] = "failed" THEN "failed"
                             ELSE IF t \in submitted THEN "started" ELSE "idle"
  BY DEF TaskStatus
<1> QED
  BY <1>1, <1>2, <1>3 DEF IsTerminal

LEMMA FinishedIsComplete ==
  ASSUME TypeOK, NEW b \in BaseTasks
  PROVE  TG!Finished(b) <=> Complete(b)
<1>1. Instances(b) \subseteq TaskIds
  BY InstancesType
<1> QED
  BY <1>1, Mapping DEF TG!Finished, Complete

(* A submission is the start of the task. *)
LEMMA SubmissionStarts ==
  ASSUME LoopInv, DependencyInv, InPlan, Submit \/ SubmitFails
  PROVE  TG!Start(nextTask)
<1>1. /\ raised = None /\ nextTask \in TaskIds \ submitted /\ taskStates[nextTask] = "queued"
      /\ submitted' = submitted \cup {nextTask} /\ UNCHANGED <<taskStates, width>>
  BY DEF Submit, SubmitFails, LoopInv, RaisedAtEnd, Dispatching, esvars
<1>2. nextTask \in taskPool /\ Base(nextTask) \in BaseTasks
  BY <1>1, BaseType DEF LoopInv, ConsistencyInv, PoolStates, Absent
<1>3. TaskStatus[nextTask] = "idle" /\ \A u \in TG!TaskIds : TaskStatus[u] # "failed"
  BY <1>1, Mapping DEF LoopInv, BooksAgree, IsTerminal
<1>4. nextTask \in TG!TasksOf(nextTask[1])
  BY <1>2, Mapping DEF InPlan, Base
<1>5. \A d \in BaseDeps[nextTask[1]] : TG!Finished(d)
  <2>1. \A d \in BaseDeps[Base(nextTask)] : d \in BaseTasks /\ Complete(d)
    BY <1>1, <1>2, PlanAssumption DEF ClosedPlan, DependencyInv, DependenciesFirst
  <2> QED
    BY <2>1, FinishedIsComplete DEF Base, LoopInv, ConsistencyInv
<1>6. TaskStatus' = [TaskStatus EXCEPT ![nextTask] = "started"]
  BY <1>1 DEF TaskStatus
<1> QED
  BY <1>1, <1>3, <1>4, <1>5, <1>6 DEF TG!Start

LEMMA UpdateEnds ==
  ASSUME LoopInv, DependencyInv, Resolve
  PROVE  TG!Next \/ UNCHANGED TG!tgvars
<1> DEFINE t == Head(toPoll)
<1>1. t \in TaskIds /\ t \in held /\ t \in submitted /\ Base(t) \in BaseTasks
  BY HeadIsOut, BaseType DEF Resolve, LoopInv, Polled
<1>2. taskStates[t] \in {"queued", "running"}
  BY <1>1, HeldTask DEF LoopInv
<1>3. /\ polled \in {"running", "successful", "failed"}
      /\ \A u \in TaskIds : taskStates'[u] = "successful" <=>
             taskStates[u] = "successful" \/ (u = t /\ polled = "successful")
      /\ \A u \in TaskIds : taskStates'[u] = "failed" <=>
             taskStates[u] = "failed" \/ (u = t /\ polled = "failed")
      /\ UpdateTaskState(t, polled) /\ submitted' = submitted
  BY <1>1, UpdateEffect DEF Resolve, LoopInv
<1> HIDE DEF t
<1>4. TaskStatus[t] = "started"
  BY <1>1, <1>2, Mapping DEF IsTerminal
<1>5. CASE polled = "running"
  <2>1. TaskStatus' = TaskStatus
    BY <1>3, <1>5 DEF TaskStatus
  <2>2. width' = width
    BY <1>3, <1>5 DEF UpdateTaskState, TaskRunning
  <2> QED
    BY <2>1, <2>2 DEF TG!tgvars
<1>6. CASE polled = "successful"
  <2>1. TaskStatus' = [TaskStatus EXCEPT ![t] = "succeeded"]
    BY <1>1, <1>2, <1>3, <1>6 DEF TaskStatus
  <2>2. PICK n \in Lengths(Base(t)) : TaskSuccessful(t, n)
    BY <1>3, <1>6 DEF UpdateTaskState
  <2>3. IF t[1] \in {b \in BaseTasks : IsExpander(b)}
        THEN \E k \in 0 .. MaxGroups : width' = [width EXCEPT ![t[1]] = k]
        ELSE UNCHANGED width
    BY <1>1, <2>2 DEF TaskSuccessful, Lengths, Base
  <2>4. TG!Succeed(t)
    BY <1>4, <2>1, <2>3 DEF TG!Succeed
  <2> QED
    BY <1>1, <2>4, Mapping DEF TG!Next
<1>7. CASE polled = "failed"
  <2>1. TaskStatus' = [TaskStatus EXCEPT ![t] = "failed"]
    BY <1>1, <1>2, <1>3, <1>7 DEF TaskStatus
  <2>2. width' = width
    BY <1>3, <1>7 DEF UpdateTaskState, TaskFailed
  <2>3. TG!Fail(t)
    BY <1>4, <2>1, <2>2 DEF TG!Fail
  <2> QED
    BY <1>1, <2>3, Mapping DEF TG!Next
<1> QED
  BY <1>3, <1>5, <1>6, <1>7

(* A real run starts each task and each repetition at most once, after all *)
(* it depends on has succeeded and never after a failure is known, for     *)
(* every well-formed plan, every list an expander returns and any pool.    *)
THEOREM LoopImplementsTaskGraph ==
  ASSUME WellFormedPlan
  PROVE  RGSpec => ImplementsTaskGraph
<1>1. RGInit => TG!Init
  <2> SUFFICES ASSUME RGInit PROVE TG!Init
    OBVIOUS
  <2>1. \A t \in TaskIds : taskStates[t] \in {"queued", Absent} /\ submitted = {}
    BY DEF RGInit, Init
  <2>2. TaskStatus = [t \in TaskIds |-> "idle"]
    BY <2>1 DEF TaskStatus, Absent
  <2>3. width = [b \in BaseTasks |-> None]
    BY DEF RGInit, Init
  <2> QED
    BY <2>2, <2>3, Mapping DEF TG!Init
<1>2. LoopInv /\ DependencyInv /\ InPlan /\ [RGNext]_vars => [TG!Next]_(TG!tgvars)
  <2> SUFFICES ASSUME LoopInv, DependencyInv, InPlan, [RGNext]_vars
               PROVE  TG!Next \/ UNCHANGED TG!tgvars
    OBVIOUS
  <2>1. CASE Submit \/ SubmitFails
    <3>1. nextTask \in TG!TaskIds
      BY <2>1, Mapping DEF Submit, SubmitFails, LoopInv, Dispatching
    <3> QED
      BY <2>1, <3>1, SubmissionStarts DEF TG!Next
  <2>2. CASE Resolve
    BY <2>2, UpdateEnds
  <2>3. CASE UNCHANGED <<taskStates, width, submitted>>
    BY <2>3 DEF TaskStatus, TG!tgvars
  <2>4. CASE Reject \/ \E t \in TaskIds : Release(t)
    BY <2>3, <2>4 DEF Reject, RejectTask, Release, ReleaseNextTask
  <2>5. CASE \/ Start \/ GraphDone \/ NothingToRelease \/ PollState \/ AllPolled \/ Finalize
             \/ ReadFinalVars \/ Terminated \/ UNCHANGED vars \/ \E t \in TaskIds : Worker(t)
    BY <2>3, <2>5 DEF Start, GraphDone, NothingToRelease, PollState, AllPolled, Finalize,
                      ReadFinalVars, Terminated, Worker, vars, esvars, loopvars
  <2> QED
    BY <2>1, <2>2, <2>4, <2>5 DEF RGNext, MainThread
<1>3. RGSpec => []DependencyInv /\ []InPlan
  BY LoopImplementsExecutionState, Dependency, OnlyPlannedTasks, PTL
<1> QED
  BY <1>1, <1>2, <1>3, LoopBooks, PTL DEF RGSpec, ImplementsTaskGraph, TG!Spec
================================================================================

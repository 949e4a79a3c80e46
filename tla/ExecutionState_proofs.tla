------------------------ MODULE ExecutionState_proofs ------------------------
(***************************************************************************)
(* Proofs about ExecutionState, for every plan, every length of the lists  *)
(* the expanders return and every order of releases, rejections and        *)
(* updates: first its books, by ConsistencyInv, for plans without any      *)
(* restriction; then, for well-formed plans, what a task is given and, by  *)
(* ProgressInv, that no task is left behind.                               *)
(***************************************************************************)
EXTENDS ExecutionState, FiniteSetTheorems, SequenceTheorems, TLAPS

USE DEF ClosedPlan

-----------------------------------------------------------------------------
(* Sets and sequences of tasks *)

LEMMA TaskIdsFinite == IsFiniteSet(TaskIds)
<1>1. IsFiniteSet(GroupIds)
  BY FS_Interval, PlanAssumption DEF GroupIds
<1>2. IsFiniteSet(GroupIds \cup {None})
  BY <1>1, FS_AddElement
<1> QED
  BY <1>2, FS_Product, PlanAssumption DEF TaskIds

(* A batch of tasks is a sequence of them without repetition. *)
LEMMA BatchType ==
  ASSUME NEW S \in SUBSET TaskIds, NEW batch \in SetToSeqs(S)
  PROVE  /\ batch \in Seq(TaskIds)
         /\ IsInjective(batch)
         /\ ToSet(batch) \subseteq S
<1>1. Cardinality(S) \in Nat
  BY TaskIdsFinite, FS_Subset, FS_CardinalityType
<1>2. /\ batch \in [1 .. Cardinality(S) -> S]
      /\ \A i, j \in 1 .. Cardinality(S) : i # j => batch[i] # batch[j]
  BY DEF SetToSeqs
<1>3. batch \in Seq(TaskIds)
  BY <1>1, <1>2
<1>4. IsInjective(batch)
  BY <1>2 DEF IsInjective
<1>5. ToSet(batch) \subseteq S
  BY <1>2 DEF ToSet
<1> QED
  BY <1>3, <1>4, <1>5

LEMMA StaticType ==
  ASSUME NEW b \in BaseTasks
  PROVE  Static(b) \in TaskIds /\ Base(Static(b)) = b /\ Group(Static(b)) = None
  BY DEF Static, Base, Group, TaskIds

LEMMA BaseType ==
  ASSUME NEW t \in TaskIds
  PROVE  Base(t) \in BaseTasks /\ Group(t) \in GroupIds \cup {None} /\ t = <<Base(t), Group(t)>>
  BY DEF Base, Group, TaskIds

(* Every task a success realizes is a task of the plan. *)
LEMMA RealizeType ==
  ASSUME NEW t \in TaskIds, NEW n \in Lengths(Base(t))
  PROVE  Realize(t, n) \subseteq TaskIds
<1>1. Base(t) \in BaseTasks /\ n \in 0 .. MaxGroups
  BY BaseType, PlanAssumption DEF Lengths
<1>2. Repetitions(Base(t), n) \subseteq TaskIds
  BY <1>1, PlanAssumption DEF Repetitions, TasksToRepeat, TaskIds, GroupIds
<1>3. \A b \in BaseTasks : Static(b) \in TaskIds
  BY StaticType
<1> QED
  BY <1>2, <1>3 DEF Realize, ExpandTask, Collectors, Candidates, Dependents

LEMMA DepsType ==
  ASSUME NEW t \in TaskIds, NEW n \in Lengths(Base(t)), NEW u \in TaskIds
  PROVE  RealizeDeps(u, t, n) \in [BaseTasks -> Seq(TaskIds)]
<1>1. Base(t) \in BaseTasks /\ n \in 0 .. MaxGroups /\ n \in Nat
  BY BaseType, PlanAssumption DEF Lengths
<1>2. \A b \in BaseTasks : StaticDeps(b) \in [BaseTasks -> Seq(TaskIds)]
  <2> SUFFICES ASSUME NEW b \in BaseTasks, NEW d \in BaseTasks
               PROVE  StaticDeps(b)[d] \in Seq(TaskIds)
    BY DEF StaticDeps
  <2> QED
    BY StaticType DEF StaticDeps
<1>3. \A b \in BaseTasks : CollectorDeps(b, Base(t), n) \in [BaseTasks -> Seq(TaskIds)]
  <2> SUFFICES ASSUME NEW b \in BaseTasks, NEW d \in BaseTasks
               PROVE  CollectorDeps(b, Base(t), n)[d] \in Seq(TaskIds)
    BY DEF CollectorDeps
  <2>1. [i \in 1 .. n |-> <<d, i - 1>>] \in Seq(TaskIds)
    BY <1>1, PlanAssumption DEF TaskIds, GroupIds
  <2>2. StaticDeps(b)[d] \in Seq(TaskIds)
    BY <1>2
  <2> QED
    BY <2>1, <2>2 DEF CollectorDeps
<1> QED
  BY <1>2, <1>3, BaseType DEF RealizeDeps, RepeatedDeps

-----------------------------------------------------------------------------
(* Type correctness *)

LEMMA InitType == Init => TypeOK
<1> SUFFICES ASSUME Init PROVE TypeOK
  OBVIOUS
<1>1. taskPool \subseteq TaskIds
  BY StaticType DEF Init, Roots
<1>2. taskQueue \in Seq(TaskIds)
  BY <1>1, BatchType DEF Init
<1>3. NoDeps \in [BaseTasks -> Seq(TaskIds)]
  BY DEF NoDeps
<1> QED
  BY <1>1, <1>2, <1>3 DEF Init, TypeOK, TaskState

LEMMA ReleaseType ==
  ASSUME TypeOK, NEW t \in TaskIds, ReleaseNextTask(t)
  PROVE  TypeOK'
<1>1. GatheredFrom(t) \in Seq(TaskIds) \/ ~IsGatherer(Base(t))
  BY BaseType, PlanAssumption DEF TypeOK, GatheredFrom
<1>2. realizedDeps' \in [TaskIds -> [BaseTasks -> Seq(TaskIds)]]
  <2>1. <<>> \in Seq(TaskIds)
    OBVIOUS
  <2>2. \A c : [realizedDeps[t] EXCEPT ![c] = <<>>] \in [BaseTasks -> Seq(TaskIds)]
    BY <2>1 DEF TypeOK
  <2>3. CASE IsGatherer(Base(t))
    <3>1. realizedDeps' = [realizedDeps EXCEPT ![t] =
                             [realizedDeps[t] EXCEPT ![CollectFrom[Base(t)]] = <<>>]]
      BY <2>3 DEF TypeOK, ReleaseNextTask, BindTask
    <3> QED
      BY <2>2, <3>1 DEF TypeOK
  <2>4. CASE ~IsGatherer(Base(t))
    BY <2>4 DEF TypeOK, ReleaseNextTask, BindTask
  <2> QED
    BY <2>3, <2>4
<1>3. collected' \in [TaskIds -> Seq(TaskIds) \cup {None}]
  BY <1>1 DEF TypeOK, ReleaseNextTask, BindTask, Bind
<1>4. taskQueue' \in Seq(TaskIds)
  BY HeadTailProperties DEF TypeOK, ReleaseNextTask
<1> QED
  BY <1>2, <1>3, <1>4 DEF TypeOK, ReleaseNextTask

LEMMA RejectType ==
  ASSUME TypeOK, NEW t \in TaskIds, RejectTask(t)
  PROVE  TypeOK'
<1>1. taskQueue' \in Seq(TaskIds)
  BY ConcatProperties DEF TypeOK, RejectTask
<1> QED
  BY <1>1 DEF TypeOK, RejectTask

LEMMA SuccessType ==
  ASSUME TypeOK, NEW t \in TaskIds, NEW n \in Lengths(Base(t)), TaskSuccessful(t, n)
  PROVE  TypeOK'
<1> DEFINE new    == Realize(t, n)
           pool   == taskPool \cup new
           states == [u \in TaskIds |-> IF u \in new THEN "initialized"
                                        ELSE IF u = t THEN "successful"
                                        ELSE taskStates[u]]
           deps   == [u \in TaskIds |-> IF u \in new THEN RealizeDeps(u, t, n)
                                        ELSE realizedDeps[u]]
           ready  == TasksToEnqueue(pool, states, deps)
<1>1. new \subseteq TaskIds
  BY RealizeType
<1>2. /\ results' = results \cup {t}
      /\ width' = IF IsExpander(Base(t)) THEN [width EXCEPT ![Base(t)] = n] ELSE width
      /\ taskPool' = pool
      /\ realizedDeps' = deps
      /\ Enqueue(pool, states, deps)
      /\ held' = held \ {t}
      /\ UNCHANGED collected
  BY DEF TaskSuccessful
<1>3. deps \in [TaskIds -> [BaseTasks -> Seq(TaskIds)]]
  BY DepsType DEF TypeOK
<1>4. states \in [TaskIds -> TaskState \cup {Absent}]
  BY DEF TypeOK, TaskState
<1>5. ready \subseteq TaskIds
  BY <1>1 DEF TasksToEnqueue, Waiting, TypeOK
<1>6. taskQueue' \in Seq(TaskIds)
  <2>1. PICK batch \in SetToSeqs(ready) : taskQueue' = taskQueue \o batch
    BY <1>2 DEF Enqueue
  <2>2. batch \in Seq(TaskIds)
    BY <1>5, BatchType
  <2> QED
    BY <2>1, <2>2, ConcatProperties DEF TypeOK
<1>7. taskStates' \in [TaskIds -> TaskState \cup {Absent}]
  <2> HIDE DEF states, pool, deps
  <2> QED
    BY <1>2, <1>4 DEF Enqueue, TaskState
<1>8. width' \in [BaseTasks -> 0 .. MaxGroups \cup {None}]
  BY <1>2, BaseType, PlanAssumption DEF TypeOK, Lengths
<1> QED
  BY <1>1, <1>2, <1>3, <1>6, <1>7, <1>8 DEF TypeOK

LEMMA UpdateType ==
  ASSUME TypeOK, NEW t \in TaskIds, NEW state, UpdateTaskState(t, state)
  PROVE  TypeOK'
<1>1. CASE \E n \in Lengths(Base(t)) : TaskSuccessful(t, n)
  BY <1>1, SuccessType
<1>2. CASE TaskFailed(t)
  BY <1>2 DEF TypeOK, TaskFailed, TaskState
<1>3. CASE TaskRunning(t)
  BY <1>3 DEF TypeOK, TaskRunning, TaskState
<1> QED
  BY <1>1, <1>2, <1>3 DEF UpdateTaskState

LEMMA NextType == TypeOK /\ [Next]_esvars => TypeOK'
<1> SUFFICES ASSUME TypeOK, [Next]_esvars PROVE TypeOK'
  OBVIOUS
<1>1. CASE UNCHANGED esvars
  BY <1>1 DEF TypeOK, esvars
<1>2. ASSUME NEW t \in TaskIds, ReleaseNextTask(t) PROVE TypeOK'
  BY <1>2, ReleaseType
<1>3. ASSUME NEW t \in TaskIds, RejectTask(t) PROVE TypeOK'
  BY <1>3, RejectType
<1>4. ASSUME NEW t \in TaskIds, NEW state, UpdateTaskState(t, state) PROVE TypeOK'
  BY <1>4, UpdateType
<1> QED
  BY <1>1, <1>2, <1>3, <1>4 DEF Next

(* The variables of ExecutionState always have their types. *)
THEOREM TypeCorrect == ESSpec => []TypeOK
<1>1. Init => TypeOK
  BY InitType
<1>2. TypeOK /\ [Next]_esvars => TypeOK'
  BY NextType
<1> QED
  BY <1>1, <1>2, PTL DEF ESSpec

-----------------------------------------------------------------------------
(* Sequences without repetition *)

LEMMA TailUnique ==
  ASSUME NEW S, NEW s \in Seq(S), s # <<>>, IsInjective(s)
  PROVE  /\ Head(s) \in ToSet(s)
         /\ IsInjective(Tail(s))
         /\ ToSet(Tail(s)) = ToSet(s) \ {Head(s)}
<1>1. /\ Len(s) \in Nat \ {0}
      /\ Head(s) = s[1]
      /\ Tail(s) \in Seq(S)
      /\ Len(Tail(s)) = Len(s) - 1
      /\ \A i \in 1 .. Len(s) - 1 : Tail(s)[i] = s[i + 1]
  BY HeadTailProperties, EmptySeq
<1>2. /\ DOMAIN s = 1 .. Len(s)
      /\ DOMAIN Tail(s) = 1 .. Len(s) - 1
  BY <1>1, LenProperties
<1>3. Head(s) \in ToSet(s)
  BY <1>1, <1>2 DEF ToSet
<1>4. IsInjective(Tail(s))
  BY <1>1, <1>2 DEF IsInjective
<1>5. ToSet(Tail(s)) \subseteq ToSet(s) \ {Head(s)}
  BY <1>1, <1>2 DEF ToSet, IsInjective
<1>6. ASSUME NEW x \in ToSet(s) \ {Head(s)} PROVE x \in ToSet(Tail(s))
  <2>1. PICK i \in 1 .. Len(s) : s[i] = x
    BY <1>2 DEF ToSet
  <2>2. i - 1 \in 1 .. Len(s) - 1 /\ Tail(s)[i - 1] = x
    BY <1>1, <1>6, <2>1
  <2> QED
    BY <1>2, <2>2 DEF ToSet
<1> QED
  BY <1>3, <1>4, <1>5, <1>6

LEMMA ConcatUnique ==
  ASSUME NEW s1 \in Seq(TaskIds), NEW s2 \in Seq(TaskIds)
  PROVE  /\ ToSet(s1 \o s2) = ToSet(s1) \cup ToSet(s2)
         /\ IsInjective(s1) /\ IsInjective(s2) /\ ToSet(s1) \cap ToSet(s2) = {} =>
               IsInjective(s1 \o s2)
<1> DEFINE s == s1 \o s2
<1>1. /\ Len(s1) \in Nat /\ Len(s2) \in Nat
      /\ DOMAIN s1 = 1 .. Len(s1) /\ DOMAIN s2 = 1 .. Len(s2)
      /\ DOMAIN s = 1 .. Len(s1) + Len(s2)
      /\ \A i \in 1 .. Len(s1) + Len(s2) :
            s[i] = IF i <= Len(s1) THEN s1[i] ELSE s2[i - Len(s1)]
  BY ConcatProperties, LenProperties
<1>2. ToSet(s) \subseteq ToSet(s1) \cup ToSet(s2)
  BY <1>1 DEF ToSet
<1>3. ASSUME NEW x \in ToSet(s1) PROVE x \in ToSet(s)
  <2>1. PICK i \in 1 .. Len(s1) : s1[i] = x
    BY <1>1 DEF ToSet
  <2> QED
    BY <1>1, <2>1 DEF ToSet
<1>4. ASSUME NEW x \in ToSet(s2) PROVE x \in ToSet(s)
  <2>1. PICK i \in 1 .. Len(s2) : s2[i] = x
    BY <1>1 DEF ToSet
  <2>2. i + Len(s1) \in DOMAIN s /\ s[i + Len(s1)] = x
    BY <1>1, <2>1
  <2> QED
    BY <2>2 DEF ToSet
<1>5. IsInjective(s1) /\ IsInjective(s2) /\ ToSet(s1) \cap ToSet(s2) = {} => IsInjective(s)
  <2> SUFFICES ASSUME IsInjective(s1), IsInjective(s2), ToSet(s1) \cap ToSet(s2) = {},
                      NEW i \in DOMAIN s, NEW j \in DOMAIN s, s[i] = s[j]
               PROVE  i = j
    BY DEF IsInjective
  <2>1. CASE i <= Len(s1) /\ j <= Len(s1)
    BY <1>1, <2>1 DEF IsInjective
  <2>2. CASE i > Len(s1) /\ j > Len(s1)
    <3>1. s2[i - Len(s1)] = s2[j - Len(s1)]
      BY <1>1, <2>2
    <3>2. i - Len(s1) \in DOMAIN s2 /\ j - Len(s1) \in DOMAIN s2
      BY <1>1, <2>2
    <3> QED
      BY <1>1, <3>1, <3>2 DEF IsInjective
  <2>3. CASE i <= Len(s1) /\ j > Len(s1)
    <3>1. s1[i] = s2[j - Len(s1)] /\ i \in DOMAIN s1 /\ j - Len(s1) \in DOMAIN s2
      BY <1>1, <2>3
    <3> QED
      BY <3>1 DEF ToSet
  <2>4. CASE i > Len(s1) /\ j <= Len(s1)
    <3>1. s1[j] = s2[i - Len(s1)] /\ j \in DOMAIN s1 /\ i - Len(s1) \in DOMAIN s2
      BY <1>1, <2>4
    <3> QED
      BY <3>1 DEF ToSet
  <2> QED
    BY <1>1, <2>1, <2>2, <2>3, <2>4
<1> QED
  BY <1>2, <1>3, <1>4, <1>5

LEMMA Singleton ==
  ASSUME NEW S, NEW x \in S
  PROVE  <<x>> \in Seq(S) /\ ToSet(<<x>>) = {x} /\ IsInjective(<<x>>)
  BY DEF ToSet, IsInjective

-----------------------------------------------------------------------------
(* What the success of a task does to the states *)

(* A task that is out is no task its own success realizes, and neither is  *)
(* any other task of the pool.                                             *)
LEMMA RealizeIsFresh ==
  ASSUME ConsistencyInv, NEW t \in held, NEW n \in Lengths(Base(t))
  PROVE  Realize(t, n) \cap taskPool = {}
<1>1. t \in TaskIds /\ Base(t) \in BaseTasks
  BY BaseType DEF ConsistencyInv, TypeOK
<1>2. t \in taskPool /\ taskStates[t] # "successful"
  BY <1>1 DEF ConsistencyInv, PoolStates, HeldStates, Absent
<1>3. CASE ~IsExpander(Base(t))
  BY <1>3 DEF Realize
<1>4. CASE IsExpander(Base(t))
  <2>1. t = Static(Base(t))
    BY <1>1, <1>2, <1>4, BaseType DEF ConsistencyInv, SpawnedAfterExpander, Static
  <2> SUFFICES ASSUME NEW u \in ExpandTask(Base(t), n), u \in taskPool
               PROVE  FALSE
    BY <1>4 DEF Realize
  <2>2. /\ ~IsExpander(Base(u))
        /\ Spawner[Base(u)] = Base(t)
        /\ SpawnedByPlan(u)
    <3>1. CASE u \in Repetitions(Base(t), n)
      <4>1. Base(u) \in TasksToRepeat(Base(t)) /\ Group(u) \in 0 .. n - 1
        BY <3>1 DEF Repetitions, Base, Group
      <4>2. Group(u) # None
        BY <1>1, <4>1, PlanAssumption DEF Lengths, GroupIds
      <4> QED
        BY <4>1, <4>2 DEF TasksToRepeat, SpawnedByPlan
    <3>2. CASE u \in {Static(c) : c \in Collectors(Base(t))}
      <4>1. PICK c \in Collectors(Base(t)) : u = Static(c)
        BY <3>2
      <4>2. c \in BaseTasks /\ Base(u) = c /\ Spawner[c] = Base(t) /\ IsGatherer(c)
        BY <4>1, StaticType DEF Collectors
      <4>3. BaseDeps[c] # {} /\ ~IsExpander(c)
        BY <4>2, PlanAssumption DEF IsGatherer, IsExpander
      <4> QED
        BY <4>2, <4>3 DEF SpawnedByPlan
    <3> QED
      BY <3>1, <3>2 DEF ExpandTask
  <2>3. Base(t) # None
    BY <1>1, PlanAssumption
  <2>4. taskStates[Static(Base(t))] = "successful"
    BY <2>2, <2>3 DEF ConsistencyInv, SpawnedAfterExpander
  <2> QED
    BY <1>2, <2>1, <2>4
<1> QED
  BY <1>3, <1>4

(* How the states change: t has succeeded, what it realizes is new, and of *)
(* the other tasks some that were initialized are queued.                  *)
LEMMA SuccessEffect ==
  ASSUME ConsistencyInv, NEW t \in held, NEW n \in Lengths(Base(t)), TaskSuccessful(t, n)
  PROVE  /\ taskPool' = taskPool \cup Realize(t, n)
         /\ taskStates'[t] = "successful"
         /\ \E ready \in SUBSET taskPool' :
              /\ \E batch \in SetToSeqs(ready) : taskQueue' = taskQueue \o batch
              /\ \A u \in ready : /\ taskStates'[u] = "queued"
                                  /\ u \in taskPool => taskStates[u] = "initialized"
              /\ \A u \in taskPool \ {t} : u \notin ready => taskStates'[u] = taskStates[u]
              /\ \A u \in Realize(t, n) : u \notin ready => taskStates'[u] = "initialized"
         /\ \A u \in Realize(t, n) : taskStates'[u] \in {"initialized", "queued"}
         /\ \A u \in TaskIds \ taskPool' :
              /\ taskStates'[u] \in {Absent, "uninitialized"}
              /\ taskStates'[u] # taskStates[u] => taskStates[u] = Absent
<1> DEFINE new    == Realize(t, n)
           pool   == taskPool \cup new
           states == [u \in TaskIds |-> IF u \in new THEN "initialized"
                                        ELSE IF u = t THEN "successful"
                                        ELSE taskStates[u]]
           deps   == [u \in TaskIds |-> IF u \in new THEN RealizeDeps(u, t, n)
                                        ELSE realizedDeps[u]]
           ready  == TasksToEnqueue(pool, states, deps)
           seen   == LookedUp(pool, states, deps)
<1>1. /\ t \in TaskIds
      /\ new \subseteq TaskIds
      /\ taskPool \subseteq TaskIds
      /\ t \in taskPool
      /\ t \notin new
      /\ new \cap taskPool = {}
  BY RealizeIsFresh, RealizeType DEF ConsistencyInv, TypeOK, PoolStates, HeldStates, Absent
<1>2. /\ taskPool' = pool
      /\ Enqueue(pool, states, deps)
  BY DEF TaskSuccessful
<1>3. /\ ready \subseteq pool
      /\ \A u \in ready : states[u] = "initialized"
  BY DEF TasksToEnqueue, Waiting
<1>4. /\ taskStates' = [u \in TaskIds |-> IF u \in ready THEN "queued"
                                          ELSE IF u \in seen /\ states[u] = Absent
                                               THEN "uninitialized"
                                          ELSE states[u]]
      /\ \E batch \in SetToSeqs(ready) : taskQueue' = taskQueue \o batch
  BY <1>2 DEF Enqueue
<1>5. \A u \in TaskIds : /\ u \in new => states[u] = "initialized"
                         /\ u \in taskPool \ {t} => states[u] = taskStates[u]
                         /\ u \in TaskIds \ pool => states[u] = taskStates[u]
      /\ states[t] = "successful"
  BY <1>1
<1> HIDE DEF new, states, deps, ready, seen
<1>6. taskStates'[t] = "successful"
  BY <1>1, <1>3, <1>4, <1>5 DEF Absent
<1>7. \A u \in ready : /\ taskStates'[u] = "queued"
                       /\ u \in taskPool => taskStates[u] = "initialized"
  BY <1>1, <1>3, <1>4, <1>5
<1>8. \A u \in taskPool \ {t} : u \notin ready => taskStates'[u] = taskStates[u]
  BY <1>1, <1>4, <1>5 DEF ConsistencyInv, PoolStates
<1>9. /\ \A u \in new : taskStates'[u] \in {"initialized", "queued"}
      /\ \A u \in new : u \notin ready => taskStates'[u] = "initialized"
  BY <1>1, <1>4, <1>5 DEF Absent
<1>10. \A u \in TaskIds \ pool : /\ taskStates'[u] \in {Absent, "uninitialized"}
                                 /\ taskStates'[u] # taskStates[u] => taskStates[u] = Absent
  BY <1>1, <1>3, <1>4, <1>5 DEF ConsistencyInv, PoolStates
<1> QED
  BY <1>2, <1>3, <1>4, <1>6, <1>7, <1>8, <1>9, <1>10 DEF new

-----------------------------------------------------------------------------
(* Consistency is inductive *)

LEMMA InitConsistent == Init => ConsistencyInv
<1> SUFFICES ASSUME Init PROVE ConsistencyInv
  OBVIOUS
<1>1. TypeOK
  BY InitType
<1>2. \A t \in taskPool : /\ t \in TaskIds
                          /\ Group(t) = None
                          /\ BaseDeps[Base(t)] = {}
                          /\ taskStates[t] = "queued"
  BY <1>1, StaticType DEF Init, Roots, TypeOK
<1>3. PoolStates
  BY <1>2 DEF Init, PoolStates, Absent
<1>4. HeldStates
  BY DEF Init, HeldStates
<1>5. QueueConsistent
  BY <1>1, <1>2, BatchType DEF Init, QueueConsistent, Queued, TypeOK
<1>6. SpawnedAfterExpander
  BY <1>2 DEF SpawnedAfterExpander, SpawnedByPlan
<1> QED
  BY <1>1, <1>3, <1>4, <1>5, <1>6 DEF ConsistencyInv

LEMMA ReleaseConsistent ==
  ASSUME ConsistencyInv, NEW t \in TaskIds, ReleaseNextTask(t)
  PROVE  ConsistencyInv'
<1>1. TypeOK'
  BY ReleaseType DEF ConsistencyInv
<1>2. UNCHANGED <<taskPool, taskStates>> /\ held' = held \cup {t}
  BY DEF ReleaseNextTask
<1>3. /\ t \in Queued
      /\ IsInjective(taskQueue')
      /\ Queued' = Queued \ {t}
  BY TailUnique DEF ReleaseNextTask, ConsistencyInv, QueueConsistent, TypeOK, Queued
<1>4. HeldStates'
  BY <1>2, <1>3 DEF ConsistencyInv, HeldStates, QueueConsistent
<1>5. QueueConsistent'
  BY <1>2, <1>3 DEF ConsistencyInv, QueueConsistent
<1>6. PoolStates' /\ SpawnedAfterExpander'
  BY <1>2 DEF ConsistencyInv, PoolStates, SpawnedAfterExpander
<1> QED
  BY <1>1, <1>4, <1>5, <1>6 DEF ConsistencyInv

LEMMA RejectConsistent ==
  ASSUME ConsistencyInv, NEW t \in held, taskStates[t] = "queued", RejectTask(t)
  PROVE  ConsistencyInv'
<1>1. t \in TaskIds
  BY DEF ConsistencyInv, TypeOK
<1>2. TypeOK'
  BY <1>1, RejectType DEF ConsistencyInv
<1>3. UNCHANGED <<taskPool, taskStates>> /\ held' = held \ {t} /\ taskQueue' = <<t>> \o taskQueue
  BY DEF RejectTask
<1>4. t \notin Queued
  BY DEF ConsistencyInv, QueueConsistent
<1>5. /\ IsInjective(taskQueue')
      /\ Queued' = {t} \cup Queued
  <2>1. <<t>> \in Seq(TaskIds) /\ ToSet(<<t>>) = {t} /\ IsInjective(<<t>>)
    BY <1>1, Singleton
  <2>2. taskQueue \in Seq(TaskIds) /\ IsInjective(taskQueue)
    BY DEF ConsistencyInv, TypeOK, QueueConsistent
  <2>3. ToSet(<<t>>) \cap ToSet(taskQueue) = {}
    BY <1>4, <2>1 DEF Queued
  <2>4. /\ ToSet(<<t>> \o taskQueue) = ToSet(<<t>>) \cup ToSet(taskQueue)
        /\ IsInjective(<<t>> \o taskQueue)
    BY <2>1, <2>2, <2>3, ConcatUnique
  <2> QED
    BY <1>3, <2>1, <2>4 DEF Queued
<1>6. QueueConsistent'
  BY <1>1, <1>3, <1>4, <1>5 DEF ConsistencyInv, QueueConsistent, PoolStates, Absent
<1>7. PoolStates' /\ SpawnedAfterExpander' /\ HeldStates'
  BY <1>3 DEF ConsistencyInv, PoolStates, SpawnedAfterExpander, HeldStates
<1> QED
  BY <1>2, <1>6, <1>7 DEF ConsistencyInv

LEMMA SuccessConsistent ==
  ASSUME ConsistencyInv, NEW t \in held, NEW n \in Lengths(Base(t)), TaskSuccessful(t, n)
  PROVE  ConsistencyInv'
<1> DEFINE new == Realize(t, n)
<1>1. /\ t \in TaskIds /\ t \in taskPool /\ taskStates[t] \in {"queued", "running"}
      /\ TypeOK'
      /\ new \subseteq TaskIds
      /\ new \cap taskPool = {}
      /\ held' = held \ {t}
  <2>1. t \in TaskIds /\ t \in taskPool /\ taskStates[t] \in {"queued", "running"}
    BY DEF ConsistencyInv, TypeOK, PoolStates, HeldStates, Absent
  <2>2. TypeOK'
    BY <2>1, SuccessType DEF ConsistencyInv
  <2>3. new \subseteq TaskIds /\ new \cap taskPool = {}
    BY <2>1, RealizeType, RealizeIsFresh
  <2>4. held' = held \ {t}
    BY DEF TaskSuccessful
  <2> QED
    BY <2>1, <2>2, <2>3, <2>4
<1>2. /\ taskPool' = taskPool \cup new
      /\ taskStates'[t] = "successful"
      /\ \A u \in new : taskStates'[u] \in {"initialized", "queued"}
      /\ \A u \in TaskIds \ taskPool' : taskStates'[u] \in {Absent, "uninitialized"}
  BY SuccessEffect
<1>3. PICK ready \in SUBSET taskPool' :
        /\ \E batch \in SetToSeqs(ready) : taskQueue' = taskQueue \o batch
        /\ \A u \in ready : /\ taskStates'[u] = "queued"
                            /\ u \in taskPool => taskStates[u] = "initialized"
        /\ \A u \in taskPool \ {t} : u \notin ready => taskStates'[u] = taskStates[u]
  BY SuccessEffect
<1> HIDE DEF new
<1>4. PoolStates'
  <2> SUFFICES ASSUME NEW u \in TaskIds
               PROVE  (u \in taskPool <=> taskStates[u] \notin {Absent, "uninitialized"})'
    BY DEF PoolStates
  <2>1. CASE u \in ready
    BY <1>3, <2>1 DEF Absent
  <2>2. CASE u = t \/ u \in new \/ u \notin taskPool'
    BY <1>1, <1>2, <2>2 DEF Absent
  <2>3. CASE u \in taskPool \ {t} /\ u \notin ready
    BY <1>2, <1>3, <2>3 DEF ConsistencyInv, PoolStates
  <2> QED
    BY <1>2, <2>1, <2>2, <2>3
<1>5. \A u \in taskPool : u # t /\ taskStates[u] # "initialized" => taskStates'[u] = taskStates[u]
  BY <1>3
<1>6. HeldStates'
  BY <1>1, <1>5 DEF ConsistencyInv, HeldStates, PoolStates, TypeOK, Absent
<1>7. QueueConsistent'
  <2>1. /\ taskQueue \in Seq(TaskIds) /\ IsInjective(taskQueue)
        /\ \A u \in Queued : u \in taskPool /\ taskStates[u] = "queued" /\ u \notin held
    BY DEF ConsistencyInv, TypeOK, QueueConsistent
  <2> PICK batch \in SetToSeqs(ready) : taskQueue' = taskQueue \o batch
    BY <1>3
  <2>2. batch \in Seq(TaskIds) /\ IsInjective(batch) /\ ToSet(batch) \subseteq ready
    BY <1>1, BatchType DEF TypeOK
  <2>3. ToSet(taskQueue) \cap ToSet(batch) = {}
    BY <1>3, <2>1, <2>2 DEF Queued
  <2>4. /\ Queued' = Queued \cup ToSet(batch)
        /\ IsInjective(taskQueue')
    BY <1>3, <2>1, <2>2, <2>3, ConcatUnique DEF Queued
  <2>5. \A u \in Queued' : u \in taskPool' /\ taskStates'[u] = "queued"
    BY <1>2, <1>3, <1>5, <2>1, <2>2, <2>4
  <2>6. Queued' \cap held' = {}
    <3> SUFFICES ASSUME NEW u \in Queued', u \in held' PROVE FALSE
      OBVIOUS
    <3>1. u \in taskPool /\ taskStates[u] \in {"queued", "running"} /\ u \in held
      BY <1>1 DEF ConsistencyInv, HeldStates, PoolStates, TypeOK, Absent
    <3> QED
      BY <1>3, <2>1, <2>2, <2>4, <3>1
  <2> QED
    BY <2>4, <2>5, <2>6 DEF QueueConsistent
<1>8. SpawnedAfterExpander'
  <2>1. \A u \in TaskIds : u \in taskPool /\ taskStates[u] = "successful" =>
                              taskStates'[u] = "successful"
    BY <1>1, <1>5
  <2>2. ASSUME NEW u \in taskPool
        PROVE  /\ IsExpander(Base(u)) => Group(u) = None
               /\ ~IsExpander(Base(u)) /\ Spawner[Base(u)] # None /\ SpawnedByPlan(u) =>
                     taskStates'[Static(Spawner[Base(u)])] = "successful"
               /\ Group(u) # None => Spawner[Base(u)] # None
    <3>1. u \in TaskIds /\ Base(u) \in BaseTasks
      BY BaseType DEF ConsistencyInv, TypeOK
    <3>2. Spawner[Base(u)] # None => Static(Spawner[Base(u)]) \in TaskIds
      BY <3>1, StaticType, PlanAssumption
    <3>3. \A v \in TaskIds : taskStates[v] = "successful" => v \in taskPool
      BY DEF ConsistencyInv, PoolStates, Absent
    <3> QED
      BY <2>1, <3>2, <3>3 DEF ConsistencyInv, SpawnedAfterExpander
  <2>3. ASSUME NEW u \in new
        PROVE  /\ IsExpander(Base(u)) => Group(u) = None
               /\ ~IsExpander(Base(u)) /\ Spawner[Base(u)] # None =>
                     taskStates'[Static(Spawner[Base(u)])] = "successful"
               /\ Group(u) # None => Spawner[Base(u)] # None
    <3>1. Base(t) \in BaseTasks /\ Base(t) # None
      BY <1>1, BaseType, PlanAssumption
    <3>2. CASE IsExpander(Base(t))
      <4>1. Static(Base(t)) = t
        BY <1>1, <3>2, BaseType DEF ConsistencyInv, SpawnedAfterExpander, Static
      <4>2. Spawner[Base(u)] = Base(t) /\ ~IsExpander(Base(u))
        <5>1. CASE u \in Repetitions(Base(t), n)
          BY <5>1 DEF Repetitions, TasksToRepeat, Base
        <5>2. CASE u \in {Static(c) : c \in Collectors(Base(t))}
          BY <5>2, StaticType DEF Collectors, IsGatherer, IsExpander
        <5> QED
          BY <3>2, <5>1, <5>2 DEF new, Realize, ExpandTask
      <4> QED
        BY <1>2, <3>1, <4>1, <4>2
    <3>3. CASE ~IsExpander(Base(t))
      <4>1. PICK c \in Candidates(Base(t)) : u = Static(c)
        BY <3>3 DEF new, Realize
      <4>2. /\ Base(u) = c /\ Group(u) = None
            /\ Spawner[c] = None \/ IsExpander(c)
        BY <4>1, StaticType DEF Candidates, Dependents
      <4> QED
        BY <4>2
    <3> QED
      BY <3>2, <3>3
  <2> QED
    BY <1>2, <2>2, <2>3 DEF SpawnedAfterExpander
<1> QED
  BY <1>1, <1>4, <1>6, <1>7, <1>8 DEF ConsistencyInv

LEMMA EndOrRunConsistent ==
  ASSUME ConsistencyInv, NEW t \in held, TaskFailed(t) \/ TaskRunning(t)
  PROVE  ConsistencyInv'
<1>1. t \in TaskIds /\ t \in taskPool /\ taskStates[t] \in {"queued", "running"} /\ t \notin Queued
  BY DEF ConsistencyInv, TypeOK, PoolStates, HeldStates, QueueConsistent, Absent
<1>2. /\ UNCHANGED <<taskPool, taskQueue>>
      /\ held' \subseteq held
      /\ \A u \in TaskIds \ {t} : taskStates'[u] = taskStates[u]
      /\ \/ taskStates'[t] = "failed" /\ t \notin held'
         \/ taskStates'[t] = "running"
  BY <1>1 DEF TaskFailed, TaskRunning, ConsistencyInv, TypeOK
<1>3. TypeOK'
  BY <1>1 DEF TaskFailed, TaskRunning, ConsistencyInv, TypeOK, TaskState
<1>4. PoolStates'
  BY <1>1, <1>2 DEF ConsistencyInv, PoolStates, Absent
<1>5. HeldStates'
  BY <1>1, <1>2 DEF ConsistencyInv, HeldStates, TypeOK
<1>6. QueueConsistent'
  <2>1. Queued' = Queued
    BY <1>2 DEF Queued
  <2>2. Queued \subseteq taskPool /\ taskPool \subseteq TaskIds
    BY DEF ConsistencyInv, QueueConsistent, TypeOK
  <2> QED
    BY <1>1, <1>2, <2>1, <2>2 DEF ConsistencyInv, QueueConsistent
<1>7. SpawnedAfterExpander'
  <2> SUFFICES ASSUME NEW u \in taskPool, ~IsExpander(Base(u)), Spawner[Base(u)] # None,
                      SpawnedByPlan(u)
               PROVE  taskStates'[Static(Spawner[Base(u)])] = "successful"
    BY <1>2 DEF ConsistencyInv, SpawnedAfterExpander
  <2>1. Static(Spawner[Base(u)]) \in TaskIds
    BY BaseType, StaticType, PlanAssumption DEF ConsistencyInv, TypeOK
  <2>2. taskStates[Static(Spawner[Base(u)])] = "successful"
    BY DEF ConsistencyInv, SpawnedAfterExpander
  <2> QED
    BY <1>1, <1>2, <2>1, <2>2
<1> QED
  BY <1>3, <1>4, <1>5, <1>6, <1>7 DEF ConsistencyInv

LEMMA NextConsistent == ConsistencyInv /\ [Next]_esvars => ConsistencyInv'
<1> SUFFICES ASSUME ConsistencyInv, [Next]_esvars PROVE ConsistencyInv'
  OBVIOUS
<1>1. CASE UNCHANGED esvars
  BY <1>1 DEF esvars, ConsistencyInv, TypeOK, PoolStates, HeldStates, QueueConsistent,
              Queued, SpawnedAfterExpander
<1>2. ASSUME NEW t \in TaskIds, ReleaseNextTask(t) PROVE ConsistencyInv'
  BY <1>2, ReleaseConsistent
<1>3. ASSUME NEW t \in held, taskStates[t] = "queued", RejectTask(t) PROVE ConsistencyInv'
  BY <1>3, RejectConsistent
<1>4. ASSUME NEW t \in held, NEW state, UpdateTaskState(t, state) PROVE ConsistencyInv'
  BY <1>4, SuccessConsistent, EndOrRunConsistent DEF UpdateTaskState
<1> QED
  BY <1>1, <1>2, <1>3, <1>4 DEF Next

LEMMA Consistent == ESSpec => []ConsistencyInv
<1>1. Init => ConsistencyInv
  BY InitConsistent
<1>2. ConsistencyInv /\ [Next]_esvars => ConsistencyInv'
  BY NextConsistent
<1> QED
  BY <1>1, <1>2, PTL DEF ESSpec

(* The assertion of update_task_state, "Task ... is in the queue but not   *)
(* queued", never fails, and no task is in the queue twice or in the queue *)
(* while a caller has it, for any plan.                                    *)
THEOREM QueueIsConsistent == ESSpec => []QueueConsistent
<1>1. ConsistencyInv => QueueConsistent
  BY DEF ConsistencyInv
<1> QED
  BY <1>1, Consistent, PTL

-----------------------------------------------------------------------------
(* States only advance *)

LEMMA RankValues ==
  /\ Rank(Absent) = 0 /\ Rank("uninitialized") = 1 /\ Rank("initialized") = 2
  /\ Rank("queued") = 3 /\ Rank("running") = 4
  /\ Rank("successful") = 5 /\ Rank("failed") = 5
  BY DEF Rank, Absent

Advances(t) == \/ taskStates'[t] = taskStates[t]
               \/ Rank(taskStates[t]) < Rank(taskStates'[t])

LEMMA SuccessAdvances ==
  ASSUME ConsistencyInv, NEW t \in held, NEW n \in Lengths(Base(t)), TaskSuccessful(t, n),
         NEW u \in TaskIds
  PROVE  Advances(u)
<1>1. /\ t \in taskPool /\ taskStates[t] \in {"queued", "running"}
      /\ Realize(t, n) \cap taskPool = {}
      /\ u \in taskPool <=> taskStates[u] \notin {Absent, "uninitialized"}
  BY RealizeIsFresh DEF ConsistencyInv, TypeOK, PoolStates, HeldStates, Absent
<1>2. CASE u = t
  BY <1>1, <1>2, SuccessEffect, RankValues DEF Advances
<1>3. CASE u \in taskPool \ {t}
  BY <1>3, SuccessEffect, RankValues DEF Advances
<1>4. CASE u \in Realize(t, n)
  <2>1. taskStates[u] \in {Absent, "uninitialized"}
    BY <1>1, <1>4
  <2>2. taskStates'[u] \in {"initialized", "queued"}
    BY <1>4, SuccessEffect
  <2> QED
    BY <2>1, <2>2, RankValues DEF Advances
<1>5. CASE u \notin taskPool'
  <2>1. /\ taskStates'[u] \in {Absent, "uninitialized"}
        /\ taskStates'[u] # taskStates[u] => taskStates[u] = Absent
    BY <1>5, SuccessEffect
  <2> QED
    BY <2>1, RankValues DEF Advances
<1> QED
  BY <1>2, <1>3, <1>4, <1>5, SuccessEffect

(* A task's state only moves forward - unknown, looked up, realized,       *)
(* queued, running, ended - so none is realized over, queued again after   *)
(* it ran, or run after it ended.                                          *)
THEOREM StatesOnlyAdvance == ESSpec => StatesAdvance
<1>1. ConsistencyInv /\ [Next]_esvars => [\A t \in TaskIds : Advances(t)]_esvars
  <2> SUFFICES ASSUME ConsistencyInv, Next, NEW u \in TaskIds PROVE Advances(u)
    OBVIOUS
  <2>1. ASSUME NEW t \in TaskIds, ReleaseNextTask(t) PROVE Advances(u)
    BY <2>1 DEF ReleaseNextTask, Advances
  <2>2. ASSUME NEW t \in held, RejectTask(t) PROVE Advances(u)
    BY <2>2 DEF RejectTask, Advances
  <2>3. ASSUME NEW t \in held, NEW state, UpdateTaskState(t, state) PROVE Advances(u)
    <3>1. taskStates[t] \in {"queued", "running"} /\ t \in TaskIds
      BY DEF ConsistencyInv, HeldStates, TypeOK
    <3>2. CASE \E n \in Lengths(Base(t)) : TaskSuccessful(t, n)
      BY <3>2, SuccessAdvances
    <3>3. CASE TaskFailed(t)
      BY <3>1, <3>3, RankValues DEF TaskFailed, Advances, ConsistencyInv, TypeOK
    <3>4. CASE TaskRunning(t)
      BY <3>1, <3>4, RankValues DEF TaskRunning, Advances, ConsistencyInv, TypeOK
    <3> QED
      BY <2>3, <3>2, <3>3, <3>4 DEF UpdateTaskState
  <2> QED
    BY <2>1, <2>2, <2>3 DEF Next
<1>2. [\A t \in TaskIds : Advances(t)]_esvars =>
        [\A t \in TaskIds : \/ taskStates'[t] = taskStates[t]
                            \/ Rank(taskStates[t]) < Rank(taskStates'[t])]_esvars
  BY DEF Advances
<1> QED
  BY <1>1, <1>2, Consistent, PTL DEF ESSpec, StatesAdvance

-----------------------------------------------------------------------------
(***************************************************************************)
(* From here on for well-formed plans.  A task is queued after everything  *)
(* it depends on has succeeded, what it reads is in the cache, and a       *)
(* collector is handed its whole block in order.                           *)
(*                                                                         *)
(* DependencyInv is inductive.  The three properties need one another's    *)
(* support: a collector's realized dependencies are what its block stands  *)
(* for because the width of the block is fixed before the collector is     *)
(* created, and they may be deleted when it is bound because the bound     *)
(* arguments are kept.                                                     *)
(***************************************************************************)

(* The step of update_task_state on a success, over the whole state *)

LEMMA HeldTask ==
  ASSUME ConsistencyInv, NEW t \in held
  PROVE  /\ t \in TaskIds /\ t \in taskPool /\ Base(t) \in BaseTasks
         /\ taskStates[t] \in {"queued", "running"}
  BY BaseType DEF ConsistencyInv, TypeOK, HeldStates, PoolStates, Absent

(* What changes: t and only t becomes successful, the realized tasks get   *)
(* their dependencies, and a task that waits is queued exactly when all it *)
(* depends on is successful now.                                           *)
LEMMA SuccessStep ==
  ASSUME ConsistencyInv, NEW t \in held, NEW n \in Lengths(Base(t)), TaskSuccessful(t, n)
  PROVE  /\ \A u \in TaskIds : taskStates'[u] = "successful" <=> u = t \/ taskStates[u] = "successful"
         /\ \A u \in TaskIds : realizedDeps'[u] = IF u \in Realize(t, n) THEN RealizeDeps(u, t, n)
                                                  ELSE realizedDeps[u]
         /\ \A u \in taskPool' :
               taskStates'[u] = "initialized" => u \in Realize(t, n) \/ taskStates[u] = "initialized"
         /\ \A u \in taskPool' : u \in Realize(t, n) \/ taskStates[u] = "initialized" =>
               /\ taskStates'[u] \in {"initialized", "queued"}
               /\ taskStates'[u] = "queued" <=>
                    \A v \in DependenciesOf(u, realizedDeps') : taskStates'[v] = "successful"
         /\ \A u \in taskPool \ {t} : taskStates[u] # "initialized" => taskStates'[u] = taskStates[u]
<1> DEFINE new    == Realize(t, n)
           pool   == taskPool \cup new
           states == [u \in TaskIds |-> IF u \in new THEN "initialized"
                                        ELSE IF u = t THEN "successful"
                                        ELSE taskStates[u]]
           deps   == [u \in TaskIds |-> IF u \in new THEN RealizeDeps(u, t, n)
                                        ELSE realizedDeps[u]]
           ready  == TasksToEnqueue(pool, states, deps)
           seen   == LookedUp(pool, states, deps)
<1>1. /\ t \in TaskIds
      /\ taskStates[t] # "initialized"
      /\ new \subseteq TaskIds
      /\ pool \subseteq TaskIds
      /\ t \in taskPool
      /\ t \notin new
      /\ new \cap taskPool = {}
  BY RealizeIsFresh, RealizeType, HeldTask DEF ConsistencyInv, TypeOK
<1>2. /\ taskPool' = pool
      /\ realizedDeps' = deps
      /\ taskStates' = [u \in TaskIds |-> IF u \in ready THEN "queued"
                                          ELSE IF u \in seen /\ states[u] = Absent
                                               THEN "uninitialized"
                                          ELSE states[u]]
  BY DEF TaskSuccessful, Enqueue
<1>3. \A u \in pool : u \in ready <=>
        /\ states[u] = "initialized"
        /\ \A v \in DependenciesOf(u, deps) : states[v] = "successful"
  BY DEF TasksToEnqueue, Waiting
<1>4. /\ ready \subseteq pool
      /\ \A u \in ready : states[u] = "initialized"
  BY DEF TasksToEnqueue, Waiting
<1>5. \A u \in TaskIds : states[u] = IF u \in new THEN "initialized"
                                     ELSE IF u = t THEN "successful"
                                     ELSE taskStates[u]
  OBVIOUS
<1>6. \A u \in new : taskStates[u] # "successful"
  BY <1>1 DEF ConsistencyInv, PoolStates, Absent
<1>7. \A u \in pool : DependenciesOf(u, deps) \subseteq TaskIds
  <2>1. TypeOK'
    BY <1>1, SuccessType DEF ConsistencyInv
  <2>2. \A u \in TaskIds, d \in BaseTasks : deps[u][d] \in Seq(TaskIds)
    BY <1>2, <2>1 DEF TypeOK
  <2>3. \A s \in Seq(TaskIds) : ToSet(s) \subseteq TaskIds
    BY DEF ToSet
  <2> HIDE DEF deps
  <2> QED
    BY <1>1, <2>2, <2>3 DEF DependenciesOf
<1>8. \A u \in TaskIds : realizedDeps'[u] = IF u \in new THEN RealizeDeps(u, t, n)
                                            ELSE realizedDeps[u]
  BY <1>2
<1> HIDE DEF new, states, deps, ready, seen
<1>9. \A u \in TaskIds : taskStates'[u] = "successful" <=> states[u] = "successful"
  BY <1>2, <1>4 DEF Absent
<1>10. \A u \in TaskIds : taskStates'[u] = "successful" <=> u = t \/ taskStates[u] = "successful"
  BY <1>1, <1>5, <1>6, <1>9
<1>11. \A u \in pool : states[u] = "initialized" <=> u \in new \/ taskStates[u] = "initialized"
  BY <1>1, <1>5
<1>12. \A u \in pool : states[u] = "initialized" =>
         /\ taskStates'[u] \in {"initialized", "queued"}
         /\ taskStates'[u] = "queued" <=> u \in ready
  BY <1>1, <1>2 DEF Absent
<1>13. \A u \in pool : states[u] = "initialized" =>
         (u \in ready <=> \A v \in DependenciesOf(u, deps) : taskStates'[v] = "successful")
  BY <1>3, <1>7, <1>9
<1>14. \A u \in pool : taskStates'[u] = "initialized" => states[u] = "initialized"
  BY <1>1, <1>2
<1>15. \A u \in taskPool \ {t} : taskStates[u] # "initialized" => taskStates'[u] = taskStates[u]
  <2>1. \A u \in taskPool : taskStates[u] # Absent
    BY DEF ConsistencyInv, PoolStates, TypeOK
  <2> QED
    BY <1>1, <1>2, <1>4, <1>5, <2>1
<1> QED
  BY <1>2, <1>8, <1>10, <1>11, <1>12, <1>13, <1>14, <1>15 DEF new

-----------------------------------------------------------------------------
(* What a base task stands for *)

LEMMA InstancesType ==
  ASSUME TypeOK, NEW d \in BaseTasks
  PROVE  /\ InBlock(d) => Spawner[d] \in BaseTasks
         /\ Instances(d) \subseteq TaskIds
<1>1. InBlock(d) => Spawner[d] \in BaseTasks
  BY PlanAssumption DEF InBlock
<1>2. CASE InBlock(d) /\ width[Spawner[d]] # None
  <2>1. width[Spawner[d]] \in 0 .. MaxGroups
    BY <1>1, <1>2 DEF TypeOK
  <2>2. 0 .. width[Spawner[d]] - 1 \subseteq GroupIds
    BY <2>1, PlanAssumption DEF GroupIds
  <2>3. Instances(d) = {d} \X (0 .. width[Spawner[d]] - 1)
    BY <1>2 DEF Instances
  <2>4. {d} \X (0 .. width[Spawner[d]] - 1) \subseteq BaseTasks \X (GroupIds \cup {None})
    BY <2>2
  <2> QED
    BY <1>1, <2>3, <2>4 DEF TaskIds
<1>3. CASE ~(InBlock(d) /\ width[Spawner[d]] # None)
  <2>1. Instances(d) \in {{}, {Static(d)}}
    BY <1>3 DEF Instances
  <2> QED
    BY <1>1, <2>1, StaticType
<1> QED
  BY <1>2, <1>3

(* What is complete stays so, as long as no list is written twice and no   *)
(* success is taken back.                                                  *)
LEMMA CompleteStays ==
  ASSUME TypeOK, NEW d \in BaseTasks, Complete(d),
         \A e \in BaseTasks : width[e] # None => width'[e] = width[e],
         \A u \in TaskIds : taskStates[u] = "successful" => taskStates'[u] = "successful"
  PROVE  Complete(d)'
<1>1. InBlock(d) => width[Spawner[d]] # None /\ width'[Spawner[d]] = width[Spawner[d]]
  BY InstancesType DEF Complete
<1>2. Instances(d)' = Instances(d)
  BY <1>1 DEF Instances
<1>3. \A t \in Instances(d) : taskStates'[t] = "successful"
  BY InstancesType DEF Complete
<1> QED
  BY <1>1, <1>2, <1>3 DEF Complete

(* The dependencies of a realized task are the tasks its base dependencies *)
(* stand for.                                                              *)
LEMMA ExpectedAreInstances ==
  ASSUME WellFormedPlan, ConsistencyInv, WidthOfSuccess,
         NEW u \in taskPool, NEW d \in BaseDeps[Base(u)]
  PROVE  /\ InBlock(d) => width[Spawner[d]] # None
         /\ ToSet(ExpectedDeps(u)[d]) = Instances(d)
<1>1. /\ u \in TaskIds /\ Base(u) \in BaseTasks /\ d \in BaseTasks
      /\ BaseDeps[Base(u)] \subseteq BaseTasks
  BY BaseType, PlanAssumption DEF ConsistencyInv, TypeOK
<1>2. CASE ~InBlock(d)
  <2>1. d \notin TasksToRepeat(Spawner[Base(u)]) \/ Spawner[Base(u)] = None
    BY <1>2 DEF TasksToRepeat, InBlock
  <2>2. ExpectedDeps(u)[d] = <<Static(d)>>
    BY <1>1, <2>1 DEF ExpectedDeps, CollectorDeps, StaticDeps
  <2>3. ToSet(<<Static(d)>>) = {Static(d)}
    BY Singleton
  <2> QED
    BY <1>2, <2>2, <2>3 DEF Instances
<1>3. CASE InBlock(d)
  <2> DEFINE e == Spawner[d]
  <2>1. /\ IsGatherer(Base(u)) /\ Spawner[Base(u)] = e
        /\ e \in BaseTasks /\ e # None
        /\ IsExpander(e)
    BY <1>1, <1>3, PlanAssumption
    DEF WellFormedPlan, BlockReadByItsCollector, SpawnedByExpander, InBlock
  <2>2. ~IsExpander(Base(u)) /\ SpawnedByPlan(u)
    BY <1>1, <2>1 DEF IsGatherer, IsExpander, SpawnedByPlan
  <2>3. taskStates[Static(e)] = "successful"
    BY <2>1, <2>2 DEF ConsistencyInv, SpawnedAfterExpander
  <2>4. width[e] # None
    BY <2>1, <2>3 DEF WidthOfSuccess
  <2>5. width[e] \in Nat
    BY <2>1, <2>4, PlanAssumption DEF ConsistencyInv, TypeOK
  <2>6. d \in BaseDeps[Base(u)] \cap TasksToRepeat(e)
    BY <1>1, <1>3 DEF TasksToRepeat, InBlock
  <2>7. ExpectedDeps(u)[d] = [i \in 1 .. width[e] |-> <<d, i - 1>>]
    BY <1>1, <2>1, <2>6 DEF ExpectedDeps, CollectorDeps
  <2>8. ToSet([i \in 1 .. width[e] |-> <<d, i - 1>>]) = {d} \X (0 .. width[e] - 1)
    <3> DEFINE s == [i \in 1 .. width[e] |-> <<d, i - 1>>]
    <3>1. ASSUME NEW i \in DOMAIN s PROVE s[i] \in {d} \X (0 .. width[e] - 1)
      <4>1. i \in 1 .. width[e] /\ s[i] = <<d, i - 1>>
        OBVIOUS
      <4>2. i - 1 \in 0 .. width[e] - 1
        BY <2>5, <4>1
      <4> QED
        BY <4>1, <4>2
    <3>2. ASSUME NEW j \in 0 .. width[e] - 1 PROVE <<d, j>> \in ToSet(s)
      <4>1. j + 1 \in DOMAIN s /\ s[j + 1] = <<d, j>>
        BY <2>5
      <4> QED
        BY <4>1 DEF ToSet
    <3>3. ToSet(s) = {s[i] : i \in DOMAIN s}
      BY DEF ToSet
    <3> HIDE DEF s
    <3>4. ToSet(s) \subseteq {d} \X (0 .. width[e] - 1)
      BY <3>1, <3>3
    <3>5. \A x \in {d} \X (0 .. width[e] - 1) : x \in ToSet(s)
      BY <3>2
    <3>6. ToSet(s) = {d} \X (0 .. width[e] - 1)
      BY <3>4, <3>5
    <3> QED
      BY <3>6 DEF s
  <2> QED
    BY <1>3, <2>4, <2>7, <2>8 DEF Instances
<1> QED
  BY <1>2, <1>3

(* So the test of update_task_state over realized dependencies says        *)
(* whether everything the task's spec depends on is complete.              *)
DependenciesDecide ==
  \A u \in taskPool : realizedDeps[u] = ExpectedDeps(u) =>
    ((\A v \in DependenciesOf(u, realizedDeps) : taskStates[v] = "successful")
       <=> \A d \in BaseDeps[Base(u)] : Complete(d))

LEMMA Decide ==
  ASSUME WellFormedPlan
  PROVE  ConsistencyInv /\ WidthOfSuccess => DependenciesDecide
<1> SUFFICES ASSUME ConsistencyInv, WidthOfSuccess,
                    NEW u \in taskPool, realizedDeps[u] = ExpectedDeps(u)
             PROVE  (\A v \in DependenciesOf(u, realizedDeps) : taskStates[v] = "successful")
                      <=> \A d \in BaseDeps[Base(u)] : Complete(d)
  BY DEF DependenciesDecide
<1>1. Base(u) \in BaseTasks /\ BaseDeps[Base(u)] \subseteq BaseTasks
  BY BaseType, PlanAssumption DEF ConsistencyInv, TypeOK
<1>2. \A d \in BaseTasks \ BaseDeps[Base(u)] : ToSet(ExpectedDeps(u)[d]) = {}
  <2>1. \A d \in BaseTasks \ BaseDeps[Base(u)] : ExpectedDeps(u)[d] = <<>>
    BY DEF ExpectedDeps, CollectorDeps, StaticDeps
  <2>2. ToSet(<<>>) = {}
    BY DEF ToSet
  <2> QED
    BY <2>1, <2>2
<1>3. \A d \in BaseDeps[Base(u)] : /\ InBlock(d) => width[Spawner[d]] # None
                                   /\ ToSet(ExpectedDeps(u)[d]) = Instances(d)
  BY ExpectedAreInstances
<1>4. DependenciesOf(u, realizedDeps) = UNION {Instances(d) : d \in BaseDeps[Base(u)]}
  BY <1>1, <1>2, <1>3 DEF DependenciesOf
<1> QED
  BY <1>3, <1>4 DEF Complete

LEMMA DecideNext ==
  ASSUME WellFormedPlan
  PROVE  (ConsistencyInv /\ WidthOfSuccess => DependenciesDecide)'
<1>1. ConsistencyInv /\ WidthOfSuccess => DependenciesDecide
  BY Decide
<1> QED
  BY <1>1, PTL

-----------------------------------------------------------------------------
(* DependencyInv is inductive *)

(* An expander succeeds once, so its list is written once. *)
LEMMA WidthStays ==
  ASSUME ConsistencyInv, WidthOfSuccess,
         NEW t \in held, NEW n \in Lengths(Base(t)), TaskSuccessful(t, n)
  PROVE  /\ \A e \in BaseTasks : width[e] # None => width'[e] = width[e]
         /\ IsExpander(Base(t)) => t = Static(Base(t)) /\ width'[Base(t)] = n
<1>1. t \in TaskIds /\ t \in taskPool /\ Base(t) \in BaseTasks /\ taskStates[t] # "successful"
  BY HeldTask
<1>2. CASE ~IsExpander(Base(t))
  BY <1>2 DEF TaskSuccessful
<1>3. CASE IsExpander(Base(t))
  <2>1. t = Static(Base(t))
    BY <1>1, <1>3, BaseType DEF ConsistencyInv, SpawnedAfterExpander, Static
  <2>2. width[Base(t)] = None
    BY <1>1, <2>1 DEF WidthOfSuccess
  <2>3. width' = [width EXCEPT ![Base(t)] = n]
    BY <1>3 DEF TaskSuccessful
  <2> QED
    BY <1>1, <2>1, <2>2, <2>3 DEF ConsistencyInv, TypeOK
<1> QED
  BY <1>2, <1>3

(* A gatherer is created by the success of the expander it is counted by,  *)
(* so what it is to gather does not change afterwards.                     *)
LEMMA ExpectedStays ==
  ASSUME WellFormedPlan, ConsistencyInv, WidthOfSuccess, NEW u \in taskPool,
         \A e \in BaseTasks : width[e] # None => width'[e] = width[e]
  PROVE  ExpectedDeps(u)' = ExpectedDeps(u)
<1>1. u \in TaskIds /\ Base(u) \in BaseTasks
  BY BaseType DEF ConsistencyInv, TypeOK
<1>2. ASSUME IsGatherer(Base(u)), Spawner[Base(u)] # None
      PROVE  width'[Spawner[Base(u)]] = width[Spawner[Base(u)]]
  <2>1. Spawner[Base(u)] \in BaseTasks /\ IsExpander(Spawner[Base(u)])
    BY <1>1, <1>2, PlanAssumption DEF WellFormedPlan, SpawnedByExpander
  <2>2. SpawnedByPlan(u) /\ ~IsExpander(Base(u))
    BY <1>1, <1>2, PlanAssumption DEF SpawnedByPlan, IsGatherer, IsExpander
  <2>3. taskStates[Static(Spawner[Base(u)])] = "successful"
    BY <1>2, <2>2 DEF ConsistencyInv, SpawnedAfterExpander
  <2>4. width[Spawner[Base(u)]] # None
    BY <2>1, <2>3 DEF WidthOfSuccess
  <2> QED
    BY <2>1, <2>4
<1> QED
  BY <1>2 DEF ExpectedDeps

LEMMA InitDependency == Init => DependencyInv
<1> SUFFICES ASSUME Init PROVE DependencyInv
  OBVIOUS
<1>1. ConsistencyInv
  BY InitConsistent
<1>2. \A t \in TaskIds : taskStates[t] # "successful"
  BY DEF Init, Absent
<1>3. ResultOfSuccess
  BY <1>2 DEF Init, ResultOfSuccess
<1>4. WidthOfSuccess
  BY <1>2, StaticType DEF Init, WidthOfSuccess
<1>5. \A t \in taskPool : t \in TaskIds /\ Base(t) \in BaseTasks /\ BaseDeps[Base(t)] = {}
  BY StaticType DEF Init, Roots
<1>6. Bound
  <2>1. ASSUME NEW t \in taskPool PROVE BoundOrWaiting(t)
    <3>1. ~IsGatherer(Base(t))
      BY <1>5, PlanAssumption
    <3>2. ExpectedDeps(t) = NoDeps
      BY <1>5, <3>1 DEF ExpectedDeps, StaticDeps, NoDeps
    <3> QED
      BY <1>5, <3>1, <3>2 DEF BoundOrWaiting, Init
  <2> QED
    BY <2>1 DEF Bound, Init
<1>7. DependenciesFirst
  BY <1>5 DEF DependenciesFirst
<1> QED
  BY <1>1, <1>3, <1>4, <1>6, <1>7 DEF DependencyInv

(* A release only binds: it moves what is gathered from the dependencies   *)
(* into the arguments.                                                     *)
LEMMA ReleaseDependency ==
  ASSUME DependencyInv, NEW t \in TaskIds, ReleaseNextTask(t)
  PROVE  DependencyInv'
<1>1. ConsistencyInv'
  BY ReleaseConsistent DEF DependencyInv
<1>2. UNCHANGED <<taskPool, taskStates, results, width>> /\ held' = held \cup {t} /\ BindTask(t)
  BY DEF ReleaseNextTask
<1>3. t \in taskPool /\ taskStates[t] = "queued"
  <2>1. t \in Queued
    BY TailUnique DEF ReleaseNextTask, Queued, DependencyInv, ConsistencyInv, TypeOK, QueueConsistent
  <2> QED
    BY <2>1 DEF DependencyInv, ConsistencyInv, QueueConsistent
<1>4. \A u : ExpectedDeps(u)' = ExpectedDeps(u)
  BY <1>2 DEF ExpectedDeps
<1>5. ResultOfSuccess' /\ WidthOfSuccess'
  BY <1>2 DEF DependencyInv, ResultOfSuccess, WidthOfSuccess
<1>6. DependenciesFirst'
  <2>1. \A d : Complete(d)' = Complete(d)
    BY <1>2 DEF Complete, Instances
  <2> QED
    BY <1>2, <2>1 DEF DependencyInv, DependenciesFirst
<1>7. BoundOrWaiting(t)'
  <2>1. BoundOrWaiting(t)
    BY <1>3 DEF DependencyInv, Bound
  <2>2. CASE ~IsGatherer(Base(t))
    BY <1>2, <1>4, <2>1, <2>2 DEF BindTask, BoundOrWaiting
  <2>3. CASE IsGatherer(Base(t))
    <3> DEFINE c == CollectFrom[Base(t)]
    <3>1. /\ Base(t) \in BaseTasks /\ c \in BaseTasks
          /\ GatheredFrom(t) \in Seq(TaskIds)
          /\ DOMAIN collected = TaskIds /\ DOMAIN realizedDeps = TaskIds
          /\ DOMAIN realizedDeps[t] = BaseTasks
      BY <2>3, BaseType, PlanAssumption DEF DependencyInv, ConsistencyInv, TypeOK, GatheredFrom
    <3>2. collected'[t] = Bind(t, GatheredFrom(t)) /\ GatheredFrom(t)' = <<>>
      BY <1>2, <2>3, <3>1 DEF BindTask, GatheredFrom
    <3>3. collected'[t] # None /\ collected'[t] = ExpectedDeps(t)[c]
      BY <2>1, <3>1, <3>2, PlanAssumption DEF BoundOrWaiting, Bind, GatheredFrom
    <3> QED
      BY <1>2, <1>3, <1>4, <2>3, <3>2, <3>3 DEF BoundOrWaiting
  <2> QED
    BY <2>2, <2>3
<1>8. \A u \in TaskIds \ {t} : collected'[u] = collected[u] /\ realizedDeps'[u] = realizedDeps[u]
  BY <1>2 DEF BindTask, DependencyInv, ConsistencyInv, TypeOK
<1>9. Bound'
  <2>1. ASSUME NEW u \in taskPool, u # t PROVE BoundOrWaiting(u)'
    <3>1. u \in TaskIds /\ BoundOrWaiting(u)
      BY DEF DependencyInv, ConsistencyInv, TypeOK, Bound
    <3>2. GatheredFrom(u)' = GatheredFrom(u)
      BY <1>8, <2>1, <3>1 DEF GatheredFrom
    <3> QED
      BY <1>2, <1>4, <1>8, <2>1, <3>1, <3>2 DEF BoundOrWaiting
  <2> QED
    BY <1>2, <1>3, <1>7, <1>8, <2>1 DEF Bound, DependencyInv
<1> QED
  BY <1>1, <1>5, <1>6, <1>9 DEF DependencyInv

LEMMA RejectDependency ==
  ASSUME DependencyInv, NEW t \in held, taskStates[t] = "queued", RejectTask(t)
  PROVE  DependencyInv'
<1>1. ConsistencyInv'
  BY RejectConsistent DEF DependencyInv
<1>2. UNCHANGED <<taskPool, taskStates, realizedDeps, results, width, collected>> /\ held' \subseteq held
  BY DEF RejectTask
<1>3. \A u : /\ ExpectedDeps(u)' = ExpectedDeps(u)
             /\ GatheredFrom(u)' = GatheredFrom(u)
             /\ Complete(u)' = Complete(u)
  BY <1>2 DEF ExpectedDeps, GatheredFrom, Complete, Instances
<1>4. ResultOfSuccess' /\ WidthOfSuccess' /\ DependenciesFirst'
  BY <1>2, <1>3 DEF DependencyInv, ResultOfSuccess, WidthOfSuccess, DependenciesFirst
<1>5. Bound'
  BY <1>2, <1>3 DEF DependencyInv, Bound, BoundOrWaiting
<1> QED
  BY <1>1, <1>4, <1>5 DEF DependencyInv

LEMMA EndOrRunDependency ==
  ASSUME DependencyInv, NEW t \in held, TaskFailed(t) \/ TaskRunning(t)
  PROVE  DependencyInv'
<1>1. ConsistencyInv'
  BY EndOrRunConsistent DEF DependencyInv
<1>2. t \in TaskIds /\ t \in taskPool /\ taskStates[t] \in {"queued", "running"}
  BY HeldTask DEF DependencyInv
<1>3. /\ UNCHANGED <<taskPool, realizedDeps, results, width, collected>>
      /\ held' \subseteq held
      /\ \A u \in TaskIds \ {t} : taskStates'[u] = taskStates[u]
      /\ taskStates'[t] \in {"running", "failed"}
  BY <1>2 DEF TaskFailed, TaskRunning, DependencyInv, ConsistencyInv, TypeOK
<1>4. \A u \in TaskIds : taskStates'[u] = "successful" <=> taskStates[u] = "successful"
  BY <1>2, <1>3
<1>5. ResultOfSuccess' /\ WidthOfSuccess'
  BY <1>3, <1>4, StaticType DEF DependencyInv, ResultOfSuccess, WidthOfSuccess
<1>6. DependenciesFirst'
  <2> SUFFICES ASSUME NEW u \in taskPool, taskStates'[u] # "initialized", NEW d \in BaseDeps[Base(u)]
               PROVE  Complete(d)'
    BY <1>3 DEF DependenciesFirst
  <2>1. u \in TaskIds /\ d \in BaseTasks
    BY BaseType, PlanAssumption DEF DependencyInv, ConsistencyInv, TypeOK
  <2>2. Complete(d)
    BY <1>2, <1>3, <2>1 DEF DependencyInv, DependenciesFirst
  <2> QED
    BY <1>3, <1>4, <2>1, <2>2, CompleteStays DEF DependencyInv, ConsistencyInv
<1>7. Bound'
  <2>1. ASSUME NEW u \in taskPool PROVE BoundOrWaiting(u)'
    <3>1. u \in TaskIds /\ BoundOrWaiting(u)
      BY DEF DependencyInv, ConsistencyInv, TypeOK, Bound
    <3>2. ExpectedDeps(u)' = ExpectedDeps(u) /\ GatheredFrom(u)' = GatheredFrom(u)
      BY <1>3 DEF ExpectedDeps, GatheredFrom
    <3>3. taskStates'[u] = "initialized" => taskStates[u] = "initialized"
      BY <1>3, <3>1
    <3> QED
      BY <1>3, <3>1, <3>2, <3>3 DEF BoundOrWaiting
  <2> QED
    BY <1>3, <2>1 DEF Bound, DependencyInv
<1> QED
  BY <1>1, <1>5, <1>6, <1>7 DEF DependencyInv

(* A realized task has the dependencies its spec stands for, which for a   *)
(* collector are those the success of its expander has just determined.    *)
LEMMA RealizedDependencies ==
  ASSUME WellFormedPlan, ConsistencyInv, WidthOfSuccess,
         NEW t \in held, NEW n \in Lengths(Base(t)), TaskSuccessful(t, n),
         NEW u \in Realize(t, n)
  PROVE  RealizeDeps(u, t, n) = ExpectedDeps(u)'
<1>1. /\ t \in TaskIds /\ Base(t) \in BaseTasks
      /\ u \in TaskIds /\ Base(u) \in BaseTasks
      /\ ~(IsGatherer(Base(u)) /\ IsExpander(Base(u)))
  BY HeldTask, RealizeType, BaseType DEF IsGatherer, IsExpander
<1>2. CASE IsExpander(Base(t))
  <2>1. width'[Base(t)] = n
    BY <1>2, WidthStays
  <2>2. Spawner[Base(u)] = Base(t)
    BY <1>2 DEF Realize, ExpandTask, Repetitions, TasksToRepeat, Collectors, Base, Static
  <2>3. Base(t) # None
    BY <1>1, PlanAssumption
  <2> QED
    BY <1>2, <2>1, <2>2, <2>3 DEF RealizeDeps, RepeatedDeps, ExpectedDeps
<1>3. CASE ~IsExpander(Base(t))
  <2>1. Spawner[Base(u)] = None \/ IsExpander(Base(u))
    BY <1>3 DEF Realize, Candidates, Static, Base
  <2> QED
    BY <1>1, <1>3, <2>1 DEF RealizeDeps, ExpectedDeps
<1> QED
  BY <1>2, <1>3

LEMMA SuccessDependency ==
  ASSUME WellFormedPlan, DependencyInv,
         NEW t \in held, NEW n \in Lengths(Base(t)), TaskSuccessful(t, n)
  PROVE  DependencyInv'
<1> DEFINE new == Realize(t, n)
<1>1. ConsistencyInv'
  BY SuccessConsistent DEF DependencyInv
<1>2. /\ t \in TaskIds /\ t \in taskPool /\ Base(t) \in BaseTasks
      /\ taskStates[t] \in {"queued", "running"}
      /\ new \subseteq TaskIds /\ new \cap taskPool = {}
      /\ taskPool \subseteq TaskIds /\ held \subseteq taskPool
  BY HeldTask, RealizeType, RealizeIsFresh DEF DependencyInv, ConsistencyInv, TypeOK
<1>3. /\ taskPool' = taskPool \cup new
      /\ results' = results \cup {t}
      /\ width' = IF IsExpander(Base(t)) THEN [width EXCEPT ![Base(t)] = n] ELSE width
      /\ held' = held \ {t}
      /\ UNCHANGED collected
  BY DEF TaskSuccessful
<1>4. \A u \in TaskIds : taskStates'[u] = "successful" <=> u = t \/ taskStates[u] = "successful"
  BY SuccessStep DEF DependencyInv
<1>5. \A e \in BaseTasks : width[e] # None => width'[e] = width[e]
  BY WidthStays DEF DependencyInv
<1>6. ResultOfSuccess'
  BY <1>3, <1>4 DEF DependencyInv, ResultOfSuccess
<1>7. WidthOfSuccess'
  <2> SUFFICES ASSUME NEW e \in BaseTasks
               PROVE  width'[e] # None <=> IsExpander(e) /\ taskStates'[Static(e)] = "successful"
    BY DEF WidthOfSuccess
  <2>1. Static(e) \in TaskIds /\ Base(Static(e)) = e
    BY StaticType
  <2>2. width[e] # None <=> IsExpander(e) /\ taskStates[Static(e)] = "successful"
    BY DEF DependencyInv, WidthOfSuccess
  <2>3. CASE IsExpander(Base(t)) /\ e = Base(t)
    <3>1. n \in 0 .. MaxGroups /\ n # None
      BY PlanAssumption DEF Lengths
    <3> QED
      BY <1>4, <2>1, <2>3, <3>1, WidthStays DEF DependencyInv
  <2>4. CASE ~(IsExpander(Base(t)) /\ e = Base(t))
    <3>1. width'[e] = width[e]
      BY <1>3, <2>4 DEF DependencyInv, ConsistencyInv, TypeOK
    <3>2. IsExpander(e) => Static(e) # t
      BY <2>1, <2>4
    <3> QED
      BY <1>4, <2>1, <2>2, <3>1, <3>2
  <2> QED
    BY <2>3, <2>4
<1>8. \A u \in taskPool : ExpectedDeps(u)' = ExpectedDeps(u)
  BY <1>5, ExpectedStays DEF DependencyInv
<1>9. \A u \in new : realizedDeps'[u] = ExpectedDeps(u)'
  BY <1>2, RealizedDependencies, SuccessStep DEF DependencyInv
<1>10. \A u \in taskPool : realizedDeps'[u] = realizedDeps[u]
  BY <1>2, SuccessStep DEF DependencyInv
<1>11. \A u \in taskPool : taskStates'[u] = "initialized" => taskStates[u] = "initialized"
  BY <1>2, <1>3, SuccessStep DEF DependencyInv
<1>12. Bound'
  <2>1. ASSUME NEW u \in taskPool PROVE BoundOrWaiting(u)'
    <3>1. BoundOrWaiting(u)
      BY DEF DependencyInv, Bound
    <3>2. GatheredFrom(u)' = GatheredFrom(u)
      BY <1>10 DEF GatheredFrom
    <3> QED
      BY <1>3, <1>8, <1>10, <1>11, <3>1, <3>2 DEF BoundOrWaiting
  <2>2. ASSUME NEW u \in new PROVE BoundOrWaiting(u)'
    <3>1. collected'[u] = None
      BY <1>2, <1>3 DEF DependencyInv, Bound
    <3>2. u \notin held'
      BY <1>2, <1>3
    <3> QED
      BY <1>9, <3>1, <3>2 DEF BoundOrWaiting
  <2> QED
    BY <1>3, <2>1, <2>2 DEF Bound, DependencyInv
<1>13. DependenciesFirst'
  <2> SUFFICES ASSUME NEW u \in taskPool', taskStates'[u] # "initialized", NEW d \in BaseDeps[Base(u)]
               PROVE  Complete(d)'
    BY DEF DependenciesFirst
  <2>1. u \in TaskIds /\ d \in BaseTasks
    BY <1>2, <1>3, BaseType, PlanAssumption
  <2>2. CASE u \in new \/ taskStates[u] = "initialized"
    <3>1. realizedDeps'[u] = ExpectedDeps(u)'
      BY <1>3, <1>8, <1>9, <1>10, <2>2 DEF DependencyInv, Bound, BoundOrWaiting
    <3>2. \A v \in DependenciesOf(u, realizedDeps') : taskStates'[v] = "successful"
      BY <2>2, SuccessStep DEF DependencyInv
    <3>3. DependenciesDecide'
      BY <1>1, <1>7, DecideNext
    <3> QED
      BY <3>1, <3>2, <3>3 DEF DependenciesDecide
  <2>3. CASE u \notin new /\ taskStates[u] # "initialized"
    <3>1. Complete(d)
      BY <1>3, <2>3 DEF DependencyInv, DependenciesFirst
    <3> QED
      BY <1>4, <1>5, <2>1, <3>1, CompleteStays DEF DependencyInv, ConsistencyInv
  <2> QED
    BY <2>2, <2>3
<1> QED
  BY <1>1, <1>6, <1>7, <1>12, <1>13 DEF DependencyInv

LEMMA NextDependency ==
  ASSUME WellFormedPlan
  PROVE  DependencyInv /\ [Next]_esvars => DependencyInv'
<1> SUFFICES ASSUME DependencyInv, [Next]_esvars PROVE DependencyInv'
  OBVIOUS
<1>1. CASE UNCHANGED esvars
  <2>1. ConsistencyInv'
    BY <1>1, NextConsistent DEF DependencyInv
  <2>2. \A u : /\ ExpectedDeps(u)' = ExpectedDeps(u)
               /\ GatheredFrom(u)' = GatheredFrom(u)
               /\ Complete(u)' = Complete(u)
    BY <1>1 DEF esvars, ExpectedDeps, GatheredFrom, Complete, Instances
  <2> QED
    BY <1>1, <2>1, <2>2
    DEF esvars, DependencyInv, ResultOfSuccess, WidthOfSuccess, DependenciesFirst,
        Bound, BoundOrWaiting
<1>2. ASSUME NEW t \in TaskIds, ReleaseNextTask(t) PROVE DependencyInv'
  BY <1>2, ReleaseDependency
<1>3. ASSUME NEW t \in held, taskStates[t] = "queued", RejectTask(t) PROVE DependencyInv'
  BY <1>3, RejectDependency
<1>4. ASSUME NEW t \in held, NEW state, UpdateTaskState(t, state) PROVE DependencyInv'
  BY <1>4, SuccessDependency, EndOrRunDependency DEF UpdateTaskState
<1> QED
  BY <1>1, <1>2, <1>3, <1>4 DEF Next

LEMMA Dependency ==
  ASSUME WellFormedPlan
  PROVE  ESSpec => []DependencyInv
<1>1. Init => DependencyInv
  BY InitDependency
<1>2. DependencyInv /\ [Next]_esvars => DependencyInv'
  BY NextDependency
<1> QED
  BY <1>1, <1>2, PTL DEF ESSpec

-----------------------------------------------------------------------------
(* The theorems *)

(* For every well-formed plan, update_task_state queues a task only after  *)
(* everything its spec depends on has succeeded, which for a collector is  *)
(* every repetition of its block.                                          *)
THEOREM DependenciesSucceedFirst ==
  ASSUME WellFormedPlan
  PROVE  ESSpec => []DependenciesFirst
<1>1. DependencyInv => DependenciesFirst
  BY DEF DependencyInv
<1> QED
  BY <1>1, Dependency, PTL

(* For every well-formed plan, bind_task finds all it reads in the result  *)
(* cache, at the first release of a task and at each after a rejection.    *)
THEOREM InputsAreInCache ==
  ASSUME WellFormedPlan
  PROVE  ESSpec => []InputsInCache
<1>1. DependencyInv => InputsInCache
  <2> SUFFICES ASSUME DependencyInv, NEW t \in Queued PROVE ReadsOf(t) \subseteq results
    BY DEF InputsInCache
  <2>1. t \in taskPool /\ t \in TaskIds /\ taskStates[t] = "queued" /\ Base(t) \in BaseTasks
    BY BaseType DEF DependencyInv, ConsistencyInv, QueueConsistent, TypeOK
  <2>2. \A d \in BaseDeps[Base(t)] : d \in BaseTasks /\ Complete(d)
    BY <2>1, PlanAssumption DEF DependencyInv, DependenciesFirst
  <2>3. ASSUME NEW d \in BaseDeps[Base(t)], ~InBlock(d) PROVE Static(d) \in results
    BY <2>2, <2>3, StaticType DEF Complete, Instances, DependencyInv, ResultOfSuccess
  <2>4. \A d \in BaseDeps[Base(t)] : InBlock(d) => IsGatherer(Base(t)) /\ CollectFrom[Base(t)] = d
    BY <2>1 DEF WellFormedPlan, BlockReadByItsCollector
  <2>5. ASSUME IsGatherer(Base(t)) PROVE ToSet(GatheredFrom(t)) \subseteq results
    <3> DEFINE c == CollectFrom[Base(t)]
    <3>1. c \in BaseDeps[Base(t)]
      BY <2>1, <2>5, PlanAssumption
    <3>2. GatheredFrom(t) = <<>> \/ GatheredFrom(t) = ExpectedDeps(t)[c]
      BY <2>1 DEF DependencyInv, Bound, BoundOrWaiting, GatheredFrom
    <3>3. ToSet(<<>>) = {}
      BY DEF ToSet
    <3>4. ToSet(ExpectedDeps(t)[c]) = Instances(c)
      BY <2>1, <3>1, ExpectedAreInstances DEF DependencyInv
    <3>5. Instances(c) \subseteq results
      BY <2>2, <3>1, InstancesType
      DEF Complete, DependencyInv, ConsistencyInv, ResultOfSuccess
    <3> QED
      BY <3>2, <3>3, <3>4, <3>5
  <2> QED
    BY <2>3, <2>4, <2>5 DEF ReadsOf
<1> QED
  BY <1>1, Dependency, PTL

(* For every well-formed plan and every length of the expanded list, the   *)
(* collector that is out has been handed each element of its block once    *)
(* and in the order of the list, however often it was rejected and bound.  *)
THEOREM CollectorsGetEveryElement ==
  ASSUME WellFormedPlan
  PROVE  ESSpec => []CollectsEveryElement
<1>1. DependencyInv => CollectsEveryElement
  <2> DEFINE c(t) == CollectFrom[Base(t)]
  <2> SUFFICES ASSUME DependencyInv, NEW t \in held, IsGatherer(Base(t)),
                      InBlock(c(t)), Spawner[c(t)] = Spawner[Base(t)]
               PROVE  collected[t] = [i \in 1 .. width[Spawner[c(t)]] |-> <<c(t), i - 1>>]
    BY DEF CollectsEveryElement
  <2>1. t \in taskPool /\ Base(t) \in BaseTasks
    BY HeldTask DEF DependencyInv
  <2>2. collected[t] = ExpectedDeps(t)[c(t)]
    BY <2>1 DEF DependencyInv, Bound, BoundOrWaiting
  <2>3. Spawner[Base(t)] # None /\ c(t) \in BaseTasks
        /\ c(t) \in BaseDeps[Base(t)] \cap TasksToRepeat(Spawner[Base(t)])
    BY <2>1, PlanAssumption DEF InBlock, TasksToRepeat
  <2> QED
    BY <2>2, <2>3 DEF ExpectedDeps, CollectorDeps
<1> QED
  BY <1>1, Dependency, PTL

-----------------------------------------------------------------------------
(***************************************************************************)
(* Progress: no task is left behind.  What can run is queued, the tasks    *)
(* never all wait for one another, and a run that get_graph_state calls    *)
(* SUCCESSFUL has done everything.                                         *)
(*                                                                         *)
(* ProgressInv adds three facts to DependencyInv: every task is realized   *)
(* when what creates it has happened, one that waits waits for something,  *)
(* and one that is queued or running is in the queue or with the caller.   *)
(* The properties then follow by looking at a task of the plan that is not *)
(* complete while all its prerequisites are: an acyclic plan has one.      *)
(***************************************************************************)

(* A batch holds every task that is ready: none is dropped. *)
LEMMA BatchCovers ==
  ASSUME NEW S \in SUBSET TaskIds, NEW batch \in SetToSeqs(S)
  PROVE  ToSet(batch) = S
<1> DEFINE k == Cardinality(S)
<1>1. IsFiniteSet(S) /\ k \in Nat
  BY TaskIdsFinite, FS_Subset, FS_CardinalityType
<1>2. IsFiniteSet(1 .. k) /\ Cardinality(1 .. k) = k
  BY <1>1, FS_Interval
<1>3. /\ batch \in [1 .. k -> S]
      /\ \A i, j \in 1 .. k : i # j => batch[i] # batch[j]
  BY DEF SetToSeqs
<1> HIDE DEF k
<1>4. batch \in Injection(1 .. k, S)
  BY <1>3 DEF Injection, IsInjective
<1>5. k = Cardinality(S)
  BY DEF k
<1>6. batch \in Surjection(1 .. k, S)
  BY <1>1, <1>2, <1>4, <1>5, FS_Injection
<1> QED
  BY <1>3, <1>6 DEF Surjection, ToSet

LEMMA QueueGrows ==
  ASSUME TypeOK, NEW ready \in SUBSET TaskIds, NEW batch \in SetToSeqs(ready),
         taskQueue' = taskQueue \o batch
  PROVE  Queued' = Queued \cup ready
<1>1. taskQueue \in Seq(TaskIds) /\ batch \in Seq(TaskIds) /\ ToSet(batch) = ready
  BY BatchType, BatchCovers DEF TypeOK
<1> QED
  BY <1>1, ConcatUnique DEF Queued

-----------------------------------------------------------------------------
(* ProgressInv is inductive *)

LEMMA InitProgress == Init => ProgressInv
<1> SUFFICES ASSUME Init PROVE ProgressInv
  OBVIOUS
<1>1. DependencyInv
  BY InitDependency
<1>2. \A t \in TaskIds : taskStates[t] \in {"queued", Absent}
  BY DEF Init
<1>3. \A t \in taskPool : t \in TaskIds
  BY <1>1 DEF DependencyInv, ConsistencyInv, TypeOK
<1>4. RealizedInTime
  <2>1. \A b \in Roots : Static(b) \in taskPool
    BY DEF Init
  <2>2. \A b \in BaseTasks : width[b] = None
    BY DEF Init
  <2>3. \A b \in BaseTasks : Spawner[b] # None => Spawner[b] \in BaseTasks
    BY PlanAssumption
  <2>4. \A b \in BaseTasks : \A d \in BaseDeps[b] : taskStates[Static(d)] # "successful"
    BY <1>2, StaticType, PlanAssumption DEF Absent
  <2> QED
    BY <2>1, <2>2, <2>3, <2>4 DEF RealizedInTime
<1>5. WaitsForSomething
  BY <1>2, <1>3 DEF WaitsForSomething, Absent
<1>6. NoneLost
  <2>1. Queued = taskPool
    BY <1>3, BatchCovers DEF Init, Queued
  <2> QED
    BY <2>1 DEF NoneLost
<1> QED
  BY <1>1, <1>4, <1>5, <1>6 DEF ProgressInv

(* Realization and waiting depend on the pool, the states and the lists    *)
(* only, so that a step that leaves the lists alone, adds no success and   *)
(* realizes nothing keeps both.                                            *)
LEMMA QuietProgress ==
  ASSUME ProgressInv, UNCHANGED <<taskPool, width>>,
         \A u \in TaskIds : taskStates'[u] = "successful" <=> taskStates[u] = "successful",
         \A u \in taskPool : taskStates'[u] = "initialized" => taskStates[u] = "initialized"
  PROVE  RealizedInTime' /\ WaitsForSomething'
<1>1. \A b : Instances(b)' = Instances(b)
  BY DEF Instances
<1>2. ASSUME NEW b \in BaseTasks PROVE Complete(b)' <=> Complete(b)
  <2>1. Instances(b) \subseteq TaskIds
    BY InstancesType DEF ProgressInv, DependencyInv, ConsistencyInv
  <2> QED
    BY <1>1, <2>1 DEF Complete
<1>3. RealizedInTime'
  <2>1. \A b \in BaseTasks : \A d \in BaseDeps[b] : Static(d) \in TaskIds
    BY StaticType, PlanAssumption
  <2> QED
    BY <1>1, <2>1 DEF ProgressInv, RealizedInTime
<1>4. WaitsForSomething'
  <2> SUFFICES ASSUME NEW u \in taskPool, taskStates'[u] = "initialized"
               PROVE  \E d \in BaseDeps[Base(u)] : ~Complete(d)'
    BY DEF WaitsForSomething
  <2>1. BaseDeps[Base(u)] \subseteq BaseTasks
    BY BaseType, PlanAssumption DEF ProgressInv, DependencyInv, ConsistencyInv, TypeOK
  <2> QED
    BY <1>2, <2>1 DEF ProgressInv, WaitsForSomething
<1> QED
  BY <1>3, <1>4

LEMMA ReleaseProgress ==
  ASSUME ProgressInv, NEW t \in TaskIds, ReleaseNextTask(t)
  PROVE  ProgressInv'
<1>1. DependencyInv'
  BY ReleaseDependency DEF ProgressInv
<1>2. UNCHANGED <<taskPool, taskStates, width>> /\ held' = held \cup {t}
  BY DEF ReleaseNextTask
<1>3. RealizedInTime' /\ WaitsForSomething'
  BY <1>2, QuietProgress
<1>4. Queued' = Queued \ {t}
  BY TailUnique
  DEF ReleaseNextTask, Queued, ProgressInv, DependencyInv, ConsistencyInv, TypeOK, QueueConsistent
<1>5. NoneLost'
  BY <1>2, <1>4 DEF ProgressInv, NoneLost
<1> QED
  BY <1>1, <1>3, <1>5 DEF ProgressInv

LEMMA RejectProgress ==
  ASSUME ProgressInv, NEW t \in held, taskStates[t] = "queued", RejectTask(t)
  PROVE  ProgressInv'
<1>1. DependencyInv' /\ t \in TaskIds /\ taskQueue \in Seq(TaskIds)
  BY RejectDependency DEF ProgressInv, DependencyInv, ConsistencyInv, TypeOK
<1>2. UNCHANGED <<taskPool, taskStates, width>> /\ held' = held \ {t} /\ taskQueue' = <<t>> \o taskQueue
  BY DEF RejectTask
<1>3. RealizedInTime' /\ WaitsForSomething'
  BY <1>2, QuietProgress
<1>4. Queued' = {t} \cup Queued
  <2>1. <<t>> \in Seq(TaskIds) /\ ToSet(<<t>>) = {t}
    BY <1>1, Singleton
  <2> QED
    BY <1>1, <1>2, <2>1, ConcatUnique DEF Queued
<1>5. NoneLost'
  BY <1>2, <1>4 DEF ProgressInv, NoneLost
<1> QED
  BY <1>1, <1>3, <1>5 DEF ProgressInv

LEMMA EndOrRunProgress ==
  ASSUME ProgressInv, NEW t \in held, TaskFailed(t) \/ TaskRunning(t)
  PROVE  ProgressInv'
<1>1. DependencyInv'
  BY EndOrRunDependency DEF ProgressInv
<1>2. t \in TaskIds /\ taskStates[t] \in {"queued", "running"} /\ taskPool \subseteq TaskIds
  BY HeldTask DEF ProgressInv, DependencyInv, ConsistencyInv, TypeOK
<1>3. /\ UNCHANGED <<taskPool, width, taskQueue>>
      /\ \A u \in TaskIds \ {t} : taskStates'[u] = taskStates[u]
      /\ \/ taskStates'[t] = "failed" /\ held' = held \ {t}
         \/ taskStates'[t] = "running" /\ held' = held
  BY <1>2 DEF TaskFailed, TaskRunning, ProgressInv, DependencyInv, ConsistencyInv, TypeOK
<1>4. RealizedInTime' /\ WaitsForSomething'
  BY <1>2, <1>3, QuietProgress
<1>5. Queued' = Queued
  BY <1>3 DEF Queued
<1>6. NoneLost'
  BY <1>2, <1>3, <1>5 DEF ProgressInv, NoneLost
<1> QED
  BY <1>1, <1>4, <1>6 DEF ProgressInv

(* What a success realizes, and that it realizes all of it at once.        *)
LEMMA SuccessRealizes ==
  ASSUME WellFormedPlan, ProgressInv,
         NEW t \in held, NEW n \in Lengths(Base(t)), TaskSuccessful(t, n)
  PROVE  RealizedInTime'
<1> DEFINE new == Realize(t, n)
<1>1. /\ ConsistencyInv /\ WidthOfSuccess
      /\ t \in TaskIds /\ Base(t) \in BaseTasks
      /\ taskPool' = taskPool \cup new
      /\ width' = IF IsExpander(Base(t)) THEN [width EXCEPT ![Base(t)] = n] ELSE width
  BY HeldTask DEF ProgressInv, DependencyInv, TaskSuccessful
<1>2. ASSUME NEW b \in Roots PROVE Static(b) \in taskPool'
  BY <1>1 DEF ProgressInv, RealizedInTime
<1>3. ASSUME NEW b \in BaseTasks, Spawner[b] # None, width'[Spawner[b]] # None
      PROVE  Instances(b)' \subseteq taskPool'
  <2>1. Spawner[b] \in BaseTasks /\ ~IsExpander(b)
    BY <1>3, PlanAssumption DEF WellFormedPlan, SpawnedByExpander
  <2>2. CASE IsExpander(Base(t)) /\ Spawner[b] = Base(t)
    <3>1. width'[Spawner[b]] = n
      BY <1>1, <2>2, WidthStays
    <3>2. CASE IsGatherer(b)
      <4>1. Instances(b)' = {Static(b)}
        BY <3>2 DEF Instances, InBlock
      <4>2. Static(b) \in new
        BY <2>2, <3>2 DEF Realize, ExpandTask, Collectors
      <4> QED
        BY <1>1, <4>1, <4>2
    <3>3. CASE ~IsGatherer(b)
      <4>1. Instances(b)' = {b} \X (0 .. n - 1)
        BY <1>3, <2>1, <3>1, <3>3 DEF Instances, InBlock
      <4>2. b \in TasksToRepeat(Base(t))
        BY <2>1, <2>2, <3>3 DEF TasksToRepeat
      <4>3. {b} \X (0 .. n - 1) \subseteq new
        BY <2>2, <4>2 DEF Realize, ExpandTask, Repetitions
      <4> QED
        BY <1>1, <4>1, <4>3
    <3> QED
      BY <3>2, <3>3
  <2>3. CASE ~(IsExpander(Base(t)) /\ Spawner[b] = Base(t))
    <3>1. width'[Spawner[b]] = width[Spawner[b]]
      BY <1>1, <2>1, <2>3 DEF ConsistencyInv, TypeOK
    <3>2. Instances(b)' = Instances(b)
      BY <3>1 DEF Instances
    <3>3. Instances(b) \subseteq taskPool
      BY <1>3, <3>1 DEF ProgressInv, RealizedInTime
    <3> QED
      BY <1>1, <3>2, <3>3
  <2> QED
    BY <2>2, <2>3
<1>4. ASSUME NEW b \in BaseTasks, NEW d \in BaseDeps[b], Spawner[b] = None, ~IsExpander(d),
             taskStates'[Static(d)] = "successful"
      PROVE  Static(b) \in taskPool'
  <2>1. d \in BaseTasks /\ Static(d) \in TaskIds /\ Base(Static(d)) = d
    BY StaticType, PlanAssumption
  <2>2. Static(d) = t \/ taskStates[Static(d)] = "successful"
    BY <1>1, <1>4, <2>1, SuccessStep
  <2>3. CASE taskStates[Static(d)] = "successful"
    BY <1>1, <1>4, <2>3 DEF ProgressInv, RealizedInTime
  <2>4. CASE Static(d) = t
    <3>1. Base(t) = d /\ b \in Candidates(Base(t))
      BY <1>4, <2>1, <2>4 DEF Candidates, Dependents
    <3>2. Static(b) \in new \cup taskPool
      BY <1>4, <3>1 DEF Realize
    <3> QED
      BY <1>1, <3>2
  <2> QED
    BY <2>2, <2>3, <2>4
<1> QED
  BY <1>2, <1>3, <1>4 DEF RealizedInTime

LEMMA SuccessProgress ==
  ASSUME WellFormedPlan, ProgressInv,
         NEW t \in held, NEW n \in Lengths(Base(t)), TaskSuccessful(t, n)
  PROVE  ProgressInv'
<1>1. DependencyInv'
  BY SuccessDependency DEF ProgressInv
<1>2. ConsistencyInv /\ TypeOK /\ t \in taskPool
  BY HeldTask DEF ProgressInv, DependencyInv, ConsistencyInv
<1>3. WaitsForSomething'
  <2> SUFFICES ASSUME NEW u \in taskPool', taskStates'[u] = "initialized"
               PROVE  \E d \in BaseDeps[Base(u)] : ~Complete(d)'
    BY DEF WaitsForSomething
  <2>1. realizedDeps'[u] = ExpectedDeps(u)'
    BY <1>1 DEF DependencyInv, Bound, BoundOrWaiting
  <2>2. \E v \in DependenciesOf(u, realizedDeps') : taskStates'[v] # "successful"
    BY <1>2, SuccessStep
  <2>3. DependenciesDecide'
    BY <1>1, DecideNext DEF DependencyInv
  <2> QED
    BY <2>1, <2>2, <2>3 DEF DependenciesDecide
<1>4. NoneLost'
  <2> SUFFICES ASSUME NEW u \in taskPool', taskStates'[u] \in {"queued", "running"}
               PROVE  u \in Queued' \cup held'
    BY DEF NoneLost
  <2>1. PICK ready \in SUBSET taskPool' :
          /\ \E batch \in SetToSeqs(ready) : taskQueue' = taskQueue \o batch
          /\ \A v \in taskPool \ {t} : v \notin ready => taskStates'[v] = taskStates[v]
          /\ \A v \in Realize(t, n) : v \notin ready => taskStates'[v] = "initialized"
    BY <1>2, SuccessEffect
  <2>2. taskPool' \subseteq TaskIds
    BY <1>1 DEF DependencyInv, ConsistencyInv, TypeOK
  <2>3. Queued' = Queued \cup ready
    BY <1>2, <2>1, <2>2, QueueGrows
  <2>4. taskPool' = taskPool \cup Realize(t, n) /\ held' = held \ {t} /\ taskStates'[t] = "successful"
    BY <1>2, SuccessEffect DEF TaskSuccessful
  <2>5. ASSUME u \notin ready PROVE u \in Queued \cup held'
    <3>1. u \in taskPool \ {t} /\ taskStates[u] \in {"queued", "running"}
      BY <2>1, <2>4, <2>5
    <3> QED
      BY <2>4, <3>1 DEF ProgressInv, NoneLost
  <2> QED
    BY <2>3, <2>5
<1> QED
  BY <1>1, <1>3, <1>4, SuccessRealizes DEF ProgressInv

LEMMA Progress ==
  ASSUME WellFormedPlan
  PROVE  ESSpec => []ProgressInv
<1>1. Init => ProgressInv
  BY InitProgress
<1>2. ProgressInv /\ [Next]_esvars => ProgressInv'
  <2> SUFFICES ASSUME ProgressInv, [Next]_esvars PROVE ProgressInv'
    OBVIOUS
  <2>1. CASE UNCHANGED esvars
    <3>1. DependencyInv'
      BY <2>1, NextDependency DEF ProgressInv
    <3>2. RealizedInTime' /\ WaitsForSomething'
      BY <2>1, QuietProgress DEF esvars
    <3>3. NoneLost'
      BY <2>1 DEF esvars, ProgressInv, NoneLost, Queued
    <3> QED
      BY <3>1, <3>2, <3>3 DEF ProgressInv
  <2>2. ASSUME NEW t \in TaskIds, ReleaseNextTask(t) PROVE ProgressInv'
    BY <2>2, ReleaseProgress
  <2>3. ASSUME NEW t \in held, taskStates[t] = "queued", RejectTask(t) PROVE ProgressInv'
    BY <2>3, RejectProgress
  <2>4. ASSUME NEW t \in held, NEW state, UpdateTaskState(t, state) PROVE ProgressInv'
    BY <2>4, SuccessProgress, EndOrRunProgress DEF UpdateTaskState
  <2> QED
    BY <2>1, <2>2, <2>3, <2>4 DEF Next
<1> QED
  BY <1>1, <1>2, PTL DEF ESSpec

-----------------------------------------------------------------------------
(* No task is left behind *)

LEMMA CompleteExpander ==
  ASSUME DependencyInv, NEW e \in BaseTasks, IsExpander(e), Complete(e)
  PROVE  width[e] # None
<1>1. Static(e) \in Instances(e)
  BY DEF Instances, InBlock
<1> QED
  BY <1>1 DEF Complete, DependencyInv, WidthOfSuccess

(* A task whose dependencies are complete has been queued. *)
LEMMA CompleteDependentsQueued ==
  ASSUME WellFormedPlan, ProgressInv
  PROVE  EnqueuesCompleteDependents
<1> SUFFICES ASSUME NEW b \in BaseTasks, \A d \in BaseDeps[b] : Complete(d),
                    NEW t \in Instances(b)
             PROVE  BeenQueued(t)
  BY DEF EnqueuesCompleteDependents
<1>1. DependencyInv /\ ConsistencyInv /\ TypeOK
  BY DEF ProgressInv, DependencyInv, ConsistencyInv
<1>2. t \in TaskIds /\ Base(t) = b /\ BaseDeps[b] \subseteq BaseTasks
  BY <1>1, InstancesType, PlanAssumption DEF Instances, Static, Base
<1>3. CASE Spawner[b] = None
  <2>1. t = Static(b)
    BY <1>3 DEF Instances, InBlock
  <2>2. ASSUME BaseDeps[b] = {} PROVE t \in taskPool
    BY <2>1, <2>2 DEF ProgressInv, RealizedInTime, Roots
  <2>3. ASSUME BaseDeps[b] # {} PROVE t \in taskPool
    <3>1. PICK d \in BaseDeps[b] : ~IsExpander(d)
      BY <1>3, <2>3 DEF WellFormedPlan, ReadsMoreThanExpanders
    <3>2. ~InBlock(d)
      BY <1>3 DEF WellFormedPlan, BlockReadByItsCollector, InBlock
    <3>3. taskStates[Static(d)] = "successful"
      BY <3>2 DEF Complete, Instances
    <3> QED
      BY <1>3, <2>1, <3>1, <3>3 DEF ProgressInv, RealizedInTime
  <2> QED
    BY <1>1, <1>2, <2>2, <2>3
    DEF ConsistencyInv, PoolStates, BeenQueued, ProgressInv, WaitsForSomething
<1>4. CASE Spawner[b] # None
  <2> DEFINE e == Spawner[b]
  <2>1. e \in BaseTasks /\ IsExpander(e) /\ ~IsExpander(b)
    BY <1>4, PlanAssumption DEF WellFormedPlan, SpawnedByExpander
  <2>2. width[e] # None
    <3>1. CASE InBlock(b)
      BY <3>1 DEF Instances
    <3>2. CASE ~InBlock(b)
      <4> DEFINE d == CollectFrom[b]
      <4>1. IsGatherer(b) /\ d \in BaseDeps[b] /\ d \in BaseTasks /\ e \in {d, Spawner[d]}
        BY <1>4, <2>1, <3>2, PlanAssumption DEF InBlock, WellFormedPlan, SpawnedByExpander
      <4>2. CASE e = d
        BY <1>1, <2>1, <4>1, <4>2, CompleteExpander
      <4>3. CASE e = Spawner[d] /\ InBlock(d)
        BY <4>1, <4>3 DEF Complete
      <4>4. CASE e = Spawner[d] /\ ~InBlock(d)
        <5>1. taskStates[Static(d)] = "successful" /\ Static(d) \in TaskIds /\ Base(Static(d)) = d
          BY <4>1, <4>4, StaticType DEF Complete, Instances
        <5>2. Static(d) \in taskPool
          BY <1>1, <5>1 DEF ConsistencyInv, PoolStates, Absent
        <5>3. BaseDeps[d] # {} /\ ~IsExpander(d)
          BY <1>4, <4>1, <4>4 DEF WellFormedPlan, SpawnedByExpander
        <5>4. taskStates[Static(e)] = "successful"
          BY <1>1, <1>4, <4>4, <5>1, <5>2, <5>3
          DEF ConsistencyInv, SpawnedAfterExpander, SpawnedByPlan
        <5> QED
          BY <1>1, <2>1, <5>4 DEF DependencyInv, WidthOfSuccess
      <4> QED
        BY <4>1, <4>2, <4>3, <4>4
    <3> QED
      BY <3>1, <3>2
  <2>3. t \in taskPool
    BY <1>4, <2>2 DEF ProgressInv, RealizedInTime
  <2> QED
    BY <1>1, <1>2, <2>3
    DEF ConsistencyInv, PoolStates, BeenQueued, ProgressInv, WaitsForSomething
<1> QED
  BY <1>3, <1>4

(* While a task of the plan is not complete, one that has been queued has  *)
(* not succeeded: the first of those that are not complete.                *)
LEMMA FirstIncomplete ==
  ASSUME WellFormedPlan, ProgressInv, \E b \in BaseTasks : ~Complete(b)
  PROVE  \E t \in taskPool : taskStates[t] \in {"queued", "running", "failed"}
<1> DEFINE S == {b \in BaseTasks : ~Complete(b)}
<1>1. PICK b \in S : Prerequisites(b) \cap S = {}
  BY DEF WellFormedPlan, Acyclic
<1>2. /\ b \in BaseTasks /\ BaseDeps[b] \subseteq BaseTasks
      /\ DependencyInv /\ ConsistencyInv /\ TypeOK
  BY PlanAssumption DEF ProgressInv, DependencyInv, ConsistencyInv
<1>3. \A d \in BaseDeps[b] : Complete(d)
  BY <1>1, <1>2 DEF Prerequisites
<1>4. InBlock(b) => width[Spawner[b]] # None
  <2> SUFFICES ASSUME InBlock(b) PROVE width[Spawner[b]] # None
    OBVIOUS
  <2>1. Spawner[b] \in BaseTasks /\ IsExpander(Spawner[b]) /\ Spawner[b] \in Prerequisites(b)
    BY <1>2, PlanAssumption DEF InBlock, WellFormedPlan, SpawnedByExpander, Prerequisites
  <2>2. Complete(Spawner[b])
    BY <1>1, <2>1
  <2> QED
    BY <1>2, <2>1, <2>2, CompleteExpander
<1>5. PICK t \in Instances(b) : taskStates[t] # "successful"
  BY <1>1, <1>4 DEF Complete
<1>6. BeenQueued(t)
  BY <1>2, <1>3, CompleteDependentsQueued DEF EnqueuesCompleteDependents
<1>7. t \in TaskIds
  BY <1>2, InstancesType
<1>8. t \in taskPool
  BY <1>2, <1>6, <1>7 DEF BeenQueued, ConsistencyInv, PoolStates
<1>9. taskStates[t] \in {"queued", "running", "failed"}
  BY <1>2, <1>5, <1>6, <1>7 DEF BeenQueued, TypeOK, TaskState
<1> QED
  BY <1>8, <1>9

-----------------------------------------------------------------------------
(* The theorems *)

(* For every well-formed plan, update_task_state keeps its docstring's     *)
(* word: every task whose dependencies are complete has been queued.       *)
THEOREM CompleteDependentsAreQueued ==
  ASSUME WellFormedPlan
  PROVE  ESSpec => []EnqueuesCompleteDependents
<1>1. ProgressInv => EnqueuesCompleteDependents
  BY CompleteDependentsQueued
<1> QED
  BY <1>1, Progress, PTL

(* For every well-formed plan, a task can be released or is out with the   *)
(* caller as long as nothing failed and anything is left to do: the main   *)
(* loop never waits for tasks that all wait for each other.                *)
THEOREM TasksNeverAllBlocked ==
  ASSUME WellFormedPlan
  PROVE  ESSpec => []NeverAllBlocked
<1>1. ProgressInv => NeverAllBlocked
  BY FirstIncomplete DEF NeverAllBlocked, ProgressInv, NoneLost
<1> QED
  BY <1>1, Progress, PTL

(* For every well-formed plan, get_graph_state says SUCCESSFUL, and the    *)
(* run stops, only when every task of the plan and every repetition of a   *)
(* block has succeeded.                                                    *)
THEOREM SuccessMeansComplete ==
  ASSUME WellFormedPlan
  PROVE  ESSpec => []SuccessfulIsComplete
<1>1. ProgressInv => SuccessfulIsComplete
  <2> SUFFICES ASSUME ProgressInv, GraphState = "successful"
               PROVE  \A b \in BaseTasks : Complete(b)
    BY DEF SuccessfulIsComplete
  <2>1. \A t \in Known : taskStates[t] = "successful"
    BY DEF GraphState
  <2>2. \A t \in taskPool : t \in Known
    BY DEF Known, ProgressInv, DependencyInv, ConsistencyInv, TypeOK, PoolStates
  <2> QED
    BY <2>1, <2>2, FirstIncomplete
<1> QED
  BY <1>1, Progress, PTL
================================================================================

-------------------------- MODULE ThreadPool_proofs --------------------------
(***************************************************************************)
(* The FutureAdapter never blocks all threads of its pool, for any number  *)
(* of callers, threads and nodes, and implements NodeRun for every caller. *)
(*                                                                         *)
(* The items of one caller are taken in the order in which they were       *)
(* submitted, which is the order of the numbers of their nodes.  So the    *)
(* item with the smallest number among those that threads hold waits for   *)
(* no other: what it reads has been submitted, is not in the queue any     *)
(* more and is held by no thread, hence it is done or has failed.          *)
(***************************************************************************)
EXTENDS ThreadPool, SequenceTheorems, FiniteSetTheorems, WellFoundedInduction, TLAPS

TPType ==
    /\ graph \in Graphs
    /\ caller \in [Callers -> {"submitting", "building", "returned", "raised"}]
    /\ next \in [Callers -> 1..(N + 1)]
    /\ queue \in Seq(Item)
    /\ worker \in [Worker -> Item \cup {Idle}]
    /\ status \in [Item -> {"idle", "running", "done", "failed"}]
    /\ future \in [Item -> {"none", "pending", "done", "failed"}]

(* What has been submitted has a future.                                   *)
HasFuture ==
    \A c \in Callers, n \in Node : future[<<c, n>>] = "none" <=> n >= next[c]

Queued(i) == \E k \in DOMAIN queue : queue[k] = i
Held(i) == \E w \in Worker : worker[w] = i

(* A pending item is queued or held, and one that is queued or held is     *)
(* pending and has not been executed.                                      *)
PendingSomewhere == \A i \in Item : future[i] = "pending" => Queued(i) \/ Held(i)
QueuedIdle == \A k \in DOMAIN queue : future[queue[k]] = "pending" /\ status[queue[k]] = "idle"
HeldPending ==
    \A w \in Worker : worker[w] # Idle =>
        future[worker[w]] = "pending" /\ status[worker[w]] \in {"idle", "running"}
NotStarted == \A i \in Item : future[i] = "none" => status[i] = "idle"

(* First in, first out.                                                    *)
InOrder ==
    /\ \A j, k \in DOMAIN queue :
          j < k /\ queue[j][1] = queue[k][1] => queue[j][2] < queue[k][2]
    /\ \A w \in Worker, k \in DOMAIN queue :
          worker[w] # Idle /\ worker[w][1] = queue[k][1] => worker[w][2] < queue[k][2]
HeldOnce == \A v, w \in Worker : worker[v] = worker[w] /\ worker[v] # Idle => v = w

DoneIsDone == \A i \in Item : future[i] = "done" => status[i] = "done"

PoolInv ==
    /\ TPType /\ HasFuture /\ PendingSomewhere /\ QueuedIdle /\ HeldPending
    /\ NotStarted /\ InOrder /\ HeldOnce /\ DoneIsDone

LEMMA NatMin ==
    ASSUME NEW T \in SUBSET Nat, T # {}
    PROVE  \E x \in T : \A y \in T : x <= y
<1>1. PICK x \in T : \A y \in T : <<y, x>> \notin OpToRel(<, Nat)
  BY WFMin, NatLessThanWellFounded, Zenon
<1>2. \A y \in T : ~(y < x)
  BY <1>1, Zenon DEF OpToRel
<1> QED
  BY <1>2

LEMMA GraphFacts ==
    ASSUME TPType
    PROVE  /\ graph.params \in [Node -> Seq(Node)]
           /\ \A n \in Node : \A k \in DOMAIN graph.params[n] : graph.params[n][k] < n
           /\ \A n \in Node : DOMAIN graph.params[n] = 1..Len(graph.params[n])
           /\ \A n \in Node : Len(graph.params[n]) \in Nat
           /\ \A n \in Node : \A k \in DOMAIN graph.params[n] : graph.params[n][k] \in Node
           /\ Node \subseteq Nat /\ N \in Nat
<1>1. N \in Nat /\ Node \subseteq Nat
  BY ThreadPoolAssumption DEF Node
<1>2. /\ graph.params \in [Node -> Seq(Node)]
      /\ \A n \in Node : \A k \in DOMAIN graph.params[n] : graph.params[n][k] < n
  BY ThreadPoolAssumption DEF TPType
<1>3. \A n \in Node : graph.params[n] \in Seq(Node)
  BY <1>2
<1>4. \A n \in Node : /\ DOMAIN graph.params[n] = 1..Len(graph.params[n])
                      /\ Len(graph.params[n]) \in Nat
                      /\ \A k \in 1..Len(graph.params[n]) : graph.params[n][k] \in Node
  BY <1>3, LenProperties, ElementOfSeq
<1> QED
  BY <1>1, <1>2, <1>4

LEMMA QueueFacts ==
    ASSUME TPType
    PROVE  /\ DOMAIN queue = 1..Len(queue) /\ Len(queue) \in Nat
           /\ \A k \in DOMAIN queue : queue[k] \in Item
           /\ queue # <<>> => Len(queue) # 0 /\ 1 \in DOMAIN queue /\ Head(queue) = queue[1]
<1>1. queue \in Seq(Item)
  BY DEF TPType
<1>2. DOMAIN queue = 1..Len(queue) /\ Len(queue) \in Nat
      /\ \A k \in 1..Len(queue) : queue[k] \in Item
  BY <1>1, LenProperties, ElementOfSeq
<1>3. queue # <<>> => Len(queue) # 0
  BY <1>1, EmptySeq
<1>4. queue # <<>> => 1 \in 1..Len(queue)
  BY <1>2, <1>3
<1>5. queue # <<>> => Head(queue) = queue[1]
  BY <1>1
<1> QED
  BY <1>2, <1>3, <1>4, <1>5

LEMMA ItemFacts ==
    /\ \A i \in Item : i[1] \in Callers /\ i[2] \in Node /\ i = <<i[1], i[2]>>
    /\ \A c \in Callers, n \in Node : <<c, n>> \in Item
    /\ Idle \notin Item
BY ThreadPoolAssumption DEF Item

-----------------------------------------------------------------------------
(* While a future is pending some thread can go on.                        *)
LEMMA SomeThreadGoesOn == PoolInv => NeverAllBlocked
<1> SUFFICES ASSUME PoolInv, \E i \in Item : future[i] = "pending"
             PROVE  \E w \in Worker :
                       \/ worker[w] = Idle /\ queue # <<>>
                       \/ worker[w] # Idle /\ (CanStart(w) \/ CanEnd(w) \/ CanFail(w))
  BY DEF NeverAllBlocked
<1>1. TPType
  BY DEF PoolInv
<1>2. 1 \in Worker
  BY ThreadPoolAssumption DEF Worker
<1>3. worker \in [Worker -> Item \cup {Idle}]
  BY <1>1 DEF TPType
<1> DEFINE T == {worker[w][2] : w \in {v \in Worker : worker[v] # Idle}}
<1>4. CASE T = {}
  <2>1. \A w \in Worker : worker[w] = Idle
    BY <1>4
  <2>2. PICK i \in Item : future[i] = "pending"
    OBVIOUS
  <2>3. Queued(i)
    BY <2>1, <2>2, ItemFacts DEF PoolInv, PendingSomewhere, Held
  <2>4. queue # <<>>
    BY <2>3 DEF Queued
  <2> QED
    BY <1>2, <2>1, <2>4
<1>5. CASE T # {}
  <2>1. T \in SUBSET Nat
    BY <1>1, <1>3, ItemFacts, GraphFacts
  <2>2. PICK x \in T : \A y \in T : x <= y
    BY <1>5, <2>1, NatMin
  <2>3. PICK w \in Worker : worker[w] # Idle /\ x = worker[w][2]
    BY <2>2
  <2> DEFINE i == worker[w]
             c == i[1]
             n == i[2]
             params == graph.params[n]
  <2>4. i \in Item /\ c \in Callers /\ n \in Node /\ i = <<c, n>>
    BY <1>3, <2>3, ItemFacts
  <2>5. \A v \in Worker : worker[v] # Idle => n <= worker[v][2]
    BY <2>2, <2>3
  <2>6. future[i] = "pending" /\ status[i] \in {"idle", "running"}
    BY <2>3 DEF PoolInv, HeldPending
  <2>7. /\ DOMAIN params = 1..Len(params) /\ Len(params) \in Nat
        /\ \A k \in DOMAIN params : params[k] \in Node /\ params[k] < n
        /\ Node \subseteq Nat
    BY <1>1, <2>4, GraphFacts
  <2>8. \A k \in DOMAIN params : Inputs(i)[k] = <<c, params[k]>> /\ <<c, params[k]>> \in Item
    BY <2>4, <2>7, ItemFacts DEF Inputs
  <2>9. DOMAIN Inputs(i) = DOMAIN params
    BY DEF Inputs
  <2>10. \A k \in DOMAIN params : future[<<c, params[k]>>] \in {"done", "failed"}
    <3> SUFFICES ASSUME NEW k \in DOMAIN params
                 PROVE  future[<<c, params[k]>>] \in {"done", "failed"}
      OBVIOUS
    <3> DEFINE d == params[k]
    <3>1. d \in Node /\ d \in Nat /\ n \in Nat /\ d < n
      BY <2>4, <2>7
    <3> HIDE DEF d
    <3>2. future[<<c, n>>] # "none"
      BY <2>4, <2>6
    <3>3. ~(n >= next[c])
      BY <2>4, <3>2 DEF PoolInv, HasFuture
    <3>4. next[c] \in Nat
      BY <1>1, <2>4, ThreadPoolAssumption DEF TPType
    <3>5. ~(d >= next[c])
      BY <3>1, <3>3, <3>4
    <3>6. future[<<c, d>>] # "none"
      BY <2>4, <3>1, <3>5 DEF PoolInv, HasFuture
    <3>7. <<c, d>> \in Item
      BY <2>4, <3>1, ItemFacts
    <3>8. ~Held(<<c, d>>)
      <4> SUFFICES ASSUME NEW v \in Worker, worker[v] = <<c, d>> PROVE FALSE
        BY DEF Held
      <4>1. n <= d
        BY <2>5, <3>7, ItemFacts
      <4> QED
        BY <3>1, <4>1
    <3>9. ~Queued(<<c, d>>)
      <4> SUFFICES ASSUME NEW j \in DOMAIN queue, queue[j] = <<c, d>> PROVE FALSE
        BY DEF Queued
      <4>1. queue[j][1] = c /\ queue[j][2] = d
        OBVIOUS
      <4>2. n < d
        BY <2>3, <4>1 DEF PoolInv, InOrder
      <4> QED
        BY <3>1, <4>2
    <3>10. future[<<c, d>>] # "pending"
      BY <3>7, <3>8, <3>9 DEF PoolInv, PendingSomewhere
    <3>11. future[<<c, d>>] \in {"none", "pending", "done", "failed"}
      BY <1>1, <3>7 DEF TPType
    <3> QED
      BY <3>6, <3>10, <3>11 DEF d
  <2>11. CASE status[i] = "running"
    BY <2>3, <2>11 DEF CanEnd
  <2>12. CASE status[i] = "idle" /\ AllDone(Inputs(i))
    BY <2>3, <2>12 DEF CanStart
  <2>13. CASE status[i] = "idle" /\ ~AllDone(Inputs(i))
    <3> DEFINE F == {k \in DOMAIN params : future[<<c, params[k]>>] # "done"}
    <3>1. F # {}
      BY <2>8, <2>9, <2>13 DEF AllDone
    <3>2. F \in SUBSET Nat
      BY <2>7
    <3>3. PICK k \in F : \A j \in F : k <= j
      BY <3>1, <3>2, NatMin
    <3>4. k \in DOMAIN params /\ future[<<c, params[k]>>] = "failed"
      BY <2>10, <3>3
    <3>5. \A j \in 1..(k-1) : j \in DOMAIN params /\ ~(k <= j)
      BY <2>7, <3>4
    <3>6. \A j \in 1..(k-1) : future[<<c, params[j]>>] = "done"
      BY <3>3, <3>5
    <3>7. FirstFailed(Inputs(i))
      BY <2>8, <2>9, <3>4, <3>5, <3>6 DEF FirstFailed
    <3> QED
      BY <2>3, <2>13, <3>7 DEF CanFail
  <2> QED
    BY <2>6, <2>11, <2>12, <2>13
<1> QED
  BY <1>4, <1>5

-----------------------------------------------------------------------------
(* Each action keeps the invariant.                                        *)
LEMMA InitInv == TPInit => PoolInv
<1> SUFFICES ASSUME TPInit PROVE PoolInv
  OBVIOUS
<1>1. queue = <<>> /\ queue \in Seq(Item) /\ DOMAIN queue = {}
  BY EmptySeq DEF TPInit
<1>2. 1 \in 1..(N + 1)
  BY ThreadPoolAssumption
<1>3. TPType
  BY <1>1, <1>2 DEF TPInit, TPType
<1>4. HasFuture
  <2>1. \A n \in Node : n >= 1
    BY ThreadPoolAssumption DEF Node
  <2>2. \A c \in Callers, n \in Node : future[<<c, n>>] = "none" /\ next[c] = 1
    BY ItemFacts DEF TPInit
  <2> QED
    BY <2>1, <2>2 DEF HasFuture
<1>5. \A i \in Item : future[i] = "none" /\ status[i] = "idle"
  BY DEF TPInit
<1>6. \A w \in Worker : worker[w] = Idle
  BY DEF TPInit
<1> QED
  BY <1>1, <1>3, <1>4, <1>5, <1>6
     DEF PoolInv, PendingSomewhere, QueuedIdle, HeldPending, NotStarted, InOrder,
         HeldOnce, DoneIsDone

LEMMA CallerOnly ==
    ASSUME PoolInv, UNCHANGED <<graph, next, queue, worker, status, future>>,
           caller' \in [Callers -> {"submitting", "building", "returned", "raised"}]
    PROVE  PoolInv'
BY DEF PoolInv, TPType, HasFuture, PendingSomewhere, QueuedIdle, HeldPending,
       NotStarted, InOrder, HeldOnce, DoneIsDone, Queued, Held

LEMMA SubmitStep ==
    ASSUME PoolInv, NEW c \in Callers, Submit(c)
    PROVE  PoolInv'
<1> DEFINE n == next[c]
           i == <<c, n>>
           L == Len(queue)
<1>1. /\ n \in Node
      /\ queue' = Append(queue, i)
      /\ future' = [future EXCEPT ![i] = "pending"]
      /\ next' = [next EXCEPT ![c] = n + 1]
      /\ UNCHANGED <<graph, caller, worker, status>>
  BY DEF Submit
<1>2. TPType
  BY DEF PoolInv
<1>3. /\ next \in [Callers -> 1..(N + 1)]
      /\ future \in [Item -> {"none", "pending", "done", "failed"}]
      /\ worker \in [Worker -> Item \cup {Idle}]
      /\ queue \in Seq(Item)
  BY <1>2 DEF TPType
<1>4. i \in Item /\ i[1] = c /\ i[2] = n
  BY <1>1, ItemFacts
<1>5. DOMAIN queue = 1..L /\ L \in Nat /\ \A k \in 1..L : queue[k] \in Item
  BY <1>2, QueueFacts
<1>6. /\ queue' \in Seq(Item) /\ Len(queue') = L + 1
      /\ \A k \in 1..L : queue'[k] = queue[k]
      /\ queue'[L + 1] = i
  BY <1>1, <1>3, <1>4, AppendProperties
<1>7. DOMAIN queue' = 1..(L + 1)
  BY <1>6, LenProperties
<1>8. \A k \in 1..(L + 1) : k \in 1..L \/ k = L + 1
  BY <1>5
<1>9. \A k \in 1..L : k \in 1..(L + 1)
  BY <1>5
<1>10. L + 1 \in 1..(L + 1)
  BY <1>5
<1>11. \A j \in Item : future'[j] = IF j = i THEN "pending" ELSE future[j]
  BY <1>1, <1>3
<1>12. \A b \in Callers : next'[b] = IF b = c THEN n + 1 ELSE next[b]
  BY <1>1, <1>3
<1>13. future[i] = "none"
  <2>1. n >= next[c]
    BY <1>1, ThreadPoolAssumption DEF Node
  <2> QED
    BY <1>1, <2>1 DEF PoolInv, HasFuture
<1>14. TPType'
  <2>1. n + 1 \in 1..(N + 1)
    BY <1>1, ThreadPoolAssumption DEF Node
  <2>2. next' \in [Callers -> 1..(N + 1)]
    BY <1>1, <1>3, <2>1
  <2>3. future' \in [Item -> {"none", "pending", "done", "failed"}]
    BY <1>1, <1>3
  <2> QED
    BY <1>1, <1>2, <1>6, <2>2, <2>3 DEF TPType
<1>15. HasFuture'
  <2> SUFFICES ASSUME NEW b \in Callers, NEW m \in Node
               PROVE  future'[<<b, m>>] = "none" <=> m >= next'[b]
    BY DEF HasFuture
  <2>1. <<b, m>> \in Item /\ (<<b, m>> = i <=> b = c /\ m = n)
    BY ItemFacts
  <2>2. future[<<b, m>>] = "none" <=> m >= next[b]
    BY DEF PoolInv, HasFuture
  <2>3. CASE b = c
    <3>1. m \in Nat /\ n \in Nat
      BY <1>1, GraphFacts, <1>2
    <3>2. m = n => ~(m >= n + 1)
      BY <3>1
    <3>3. m # n => (m >= n + 1 <=> m >= n)
      BY <3>1
    <3>4. next'[b] = n + 1
      BY <1>12, <2>3
    <3>5. CASE m = n
      BY <1>11, <2>1, <2>3, <3>2, <3>4, <3>5
    <3>6. CASE m # n
      BY <1>11, <2>1, <2>2, <2>3, <3>3, <3>4, <3>6
    <3> QED
      BY <3>5, <3>6
  <2>4. CASE b # c
    BY <1>11, <1>12, <2>1, <2>2, <2>4
  <2> QED
    BY <2>3, <2>4
<1>16. \A k \in 1..L : queue[k] # i
  BY <1>5, <1>13 DEF PoolInv, QueuedIdle
<1>17. \A w \in Worker : worker[w] # i
  BY <1>4, <1>13, ItemFacts DEF PoolInv, HeldPending
<1>18. PendingSomewhere'
  <2> SUFFICES ASSUME NEW j \in Item, future'[j] = "pending"
               PROVE  \/ \E k \in DOMAIN queue' : queue'[k] = j
                      \/ \E w \in Worker : worker[w] = j
    BY <1>1 DEF PendingSomewhere, Queued, Held
  <2>1. CASE j = i
    BY <1>6, <1>7, <1>10, <2>1
  <2>2. CASE j # i
    <3>1. Queued(j) \/ Held(j)
      BY <1>11, <2>2 DEF PoolInv, PendingSomewhere
    <3> QED
      BY <1>5, <1>6, <1>7, <1>9, <3>1 DEF Queued, Held
  <2> QED
    BY <2>1, <2>2
<1>19. QueuedIdle'
  <2> SUFFICES ASSUME NEW k \in 1..(L + 1)
               PROVE  future'[queue'[k]] = "pending" /\ status[queue'[k]] = "idle"
    BY <1>1, <1>7 DEF QueuedIdle
  <2>1. CASE k \in 1..L
    BY <1>5, <1>6, <1>11, <2>1 DEF PoolInv, QueuedIdle
  <2>2. CASE k = L + 1
    BY <1>4, <1>6, <1>11, <1>13, <2>2 DEF PoolInv, NotStarted
  <2> QED
    BY <1>8, <2>1, <2>2
<1>20. HeldPending' /\ HeldOnce'
  BY <1>1, <1>3, <1>11 DEF PoolInv, HeldPending, HeldOnce
<1>21. NotStarted' /\ DoneIsDone'
  BY <1>1, <1>11 DEF PoolInv, NotStarted, DoneIsDone
<1>22. \A m \in Node : future[<<c, m>>] # "none" => m < n
  <2> SUFFICES ASSUME NEW m \in Node, future[<<c, m>>] # "none" PROVE m < n
    OBVIOUS
  <2>1. ~(m >= n)
    BY DEF PoolInv, HasFuture
  <2>2. m \in Nat /\ n \in Nat
    BY <1>1, <1>2, GraphFacts
  <2> QED
    BY <2>1, <2>2
<1>23. \A k \in 1..L : queue[k][1] = c => queue[k][2] < n
  <2> SUFFICES ASSUME NEW k \in 1..L, queue[k][1] = c PROVE queue[k][2] < n
    OBVIOUS
  <2>1. queue[k] = <<c, queue[k][2]>> /\ queue[k][2] \in Node
    BY <1>5, ItemFacts
  <2>2. future[queue[k]] # "none"
    BY <1>5 DEF PoolInv, QueuedIdle
  <2> QED
    BY <1>22, <2>1, <2>2
<1>24. \A w \in Worker : worker[w] # Idle /\ worker[w][1] = c => worker[w][2] < n
  <2> SUFFICES ASSUME NEW w \in Worker, worker[w] # Idle, worker[w][1] = c PROVE worker[w][2] < n
    OBVIOUS
  <2>1. worker[w] \in Item
    BY <1>3
  <2>2. worker[w] = <<c, worker[w][2]>> /\ worker[w][2] \in Node
    BY <2>1, ItemFacts
  <2>3. future[worker[w]] # "none"
    BY DEF PoolInv, HeldPending
  <2> QED
    BY <1>22, <2>2, <2>3
<1>25. InOrder'
  <2>1. ASSUME NEW j \in 1..(L + 1), NEW k \in 1..(L + 1), j < k, queue'[j][1] = queue'[k][1]
        PROVE  queue'[j][2] < queue'[k][2]
    <3>1. j \in 1..L
      BY <1>5, <2>1
    <3>2. CASE k \in 1..L
      BY <1>5, <1>6, <2>1, <3>1, <3>2 DEF PoolInv, InOrder
    <3>3. CASE k = L + 1
      BY <1>4, <1>6, <1>23, <2>1, <3>1, <3>3
    <3> QED
      BY <1>8, <3>2, <3>3
  <2>2. ASSUME NEW w \in Worker, NEW k \in 1..(L + 1), worker[w] # Idle, worker[w][1] = queue'[k][1]
        PROVE  worker[w][2] < queue'[k][2]
    <3>1. CASE k \in 1..L
      BY <1>5, <1>6, <2>2, <3>1 DEF PoolInv, InOrder
    <3>2. CASE k = L + 1
      BY <1>4, <1>6, <1>24, <2>2, <3>2
    <3> QED
      BY <1>8, <3>1, <3>2
  <2> QED
    BY <1>1, <1>7, <2>1, <2>2 DEF InOrder
<1> QED
  BY <1>14, <1>15, <1>18, <1>19, <1>20, <1>21, <1>25 DEF PoolInv

LEMMA TakeStep ==
    ASSUME PoolInv, NEW w \in Worker, Take(w)
    PROVE  PoolInv'
<1> DEFINE i == Head(queue)
           L == Len(queue)
<1>1. /\ worker[w] = Idle /\ queue # <<>>
      /\ worker' = [worker EXCEPT ![w] = i]
      /\ queue' = Tail(queue)
      /\ UNCHANGED <<graph, caller, next, status, future>>
  BY DEF Take
<1>2. TPType
  BY DEF PoolInv
<1>3. /\ DOMAIN queue = 1..L /\ L \in Nat /\ L # 0
      /\ \A k \in 1..L : queue[k] \in Item
      /\ 1 \in 1..L /\ i = queue[1] /\ i \in Item
  BY <1>1, <1>2, QueueFacts
<1>4. queue \in Seq(Item) /\ worker \in [Worker -> Item \cup {Idle}]
  BY <1>2 DEF TPType
<1>5. /\ queue' \in Seq(Item) /\ Len(queue') = L - 1
      /\ \A k \in 1..(L - 1) : queue'[k] = queue[k + 1]
  BY <1>1, <1>4, HeadTailProperties
<1>6. DOMAIN queue' = 1..(L - 1)
  BY <1>5, LenProperties
<1>7. \A k \in 1..(L - 1) : k + 1 \in 1..L /\ 1 < k + 1 /\ k + 1 # 1
  BY <1>3
<1>8. \A k \in 1..L : k # 1 => k - 1 \in 1..(L - 1) /\ (k - 1) + 1 = k
  BY <1>3
<1>9. \A v \in Worker : worker'[v] = IF v = w THEN i ELSE worker[v]
  BY <1>1, <1>4
<1> HIDE DEF i
<1>10. TPType'
  <2>1. worker' \in [Worker -> Item \cup {Idle}]
    BY <1>1, <1>3, <1>4
  <2> QED
    BY <1>1, <1>2, <1>5, <2>1 DEF TPType
<1>11. HasFuture' /\ NotStarted' /\ DoneIsDone'
  BY <1>1 DEF PoolInv, HasFuture, NotStarted, DoneIsDone
<1>12. PendingSomewhere'
  <2> SUFFICES ASSUME NEW j \in Item, future[j] = "pending"
               PROVE  \/ \E k \in DOMAIN queue' : queue'[k] = j
                      \/ \E v \in Worker : worker'[v] = j
    BY <1>1 DEF PendingSomewhere, Queued, Held
  <2>1. CASE Held(j)
    <3>1. PICK v \in Worker : worker[v] = j
      BY <2>1 DEF Held
    <3>2. v # w
      BY <1>1, <3>1, ItemFacts
    <3> QED
      BY <1>9, <3>1, <3>2
  <2>2. CASE Queued(j)
    <3>1. PICK k \in 1..L : queue[k] = j
      BY <1>3, <2>2 DEF Queued
    <3>2. CASE k = 1
      BY <1>3, <1>9, <3>1, <3>2
    <3>3. CASE k # 1
      <4>1. k - 1 \in 1..(L - 1) /\ queue'[k - 1] = j
        BY <1>5, <1>8, <3>1, <3>3
      <4> QED
        BY <1>6, <4>1
    <3> QED
      BY <3>2, <3>3
  <2> QED
    BY <2>1, <2>2 DEF PoolInv, PendingSomewhere
<1>13. QueuedIdle'
  BY <1>1, <1>3, <1>5, <1>6, <1>7 DEF PoolInv, QueuedIdle
<1>14. future[i] = "pending" /\ status[i] = "idle"
  BY <1>3 DEF PoolInv, QueuedIdle
<1>15. HeldPending'
  BY <1>1, <1>9, <1>14 DEF PoolInv, HeldPending
<1>16. \A v \in Worker : worker[v] # i
  <2> SUFFICES ASSUME NEW v \in Worker, worker[v] = i PROVE FALSE
    OBVIOUS
  <2>1. worker[v] # Idle
    BY <1>3, ItemFacts
  <2>2. worker[v][2] < queue[1][2]
    BY <1>3, <2>1 DEF PoolInv, InOrder
  <2>3. i[2] \in Nat
    BY <1>2, <1>3, ItemFacts, GraphFacts
  <2> QED
    BY <1>3, <2>2, <2>3
<1>17. HeldOnce'
  BY <1>9, <1>16 DEF PoolInv, HeldOnce
<1>18. InOrder'
  <2>1. ASSUME NEW j \in 1..(L - 1), NEW k \in 1..(L - 1), j < k, queue'[j][1] = queue'[k][1]
        PROVE  queue'[j][2] < queue'[k][2]
    <3>1. j + 1 \in 1..L /\ k + 1 \in 1..L /\ j + 1 < k + 1
      BY <1>3, <2>1
    <3>2. queue'[j] = queue[j + 1] /\ queue'[k] = queue[k + 1]
      BY <1>5
    <3> QED
      BY <1>3, <2>1, <3>1, <3>2 DEF PoolInv, InOrder
  <2>2. ASSUME NEW v \in Worker, NEW k \in 1..(L - 1), worker'[v] # Idle, worker'[v][1] = queue'[k][1]
        PROVE  worker'[v][2] < queue'[k][2]
    <3>1. k + 1 \in 1..L /\ 1 < k + 1 /\ queue'[k] = queue[k + 1]
      BY <1>5, <1>7
    <3>2. CASE v = w
      BY <1>3, <1>9, <2>2, <3>1, <3>2 DEF PoolInv, InOrder
    <3>3. CASE v # w
      BY <1>3, <1>9, <2>2, <3>1, <3>3 DEF PoolInv, InOrder
    <3> QED
      BY <3>2, <3>3
  <2> QED
    BY <1>6, <2>1, <2>2 DEF InOrder
<1> QED
  BY <1>10, <1>11, <1>12, <1>13, <1>15, <1>17, <1>18 DEF PoolInv

LEMMA StartNodeStep ==
    ASSUME PoolInv, NEW w \in Worker, StartNode(w)
    PROVE  PoolInv'
<1> DEFINE i == worker[w]
<1>1. /\ i # Idle /\ status[i] = "idle"
      /\ status' = [status EXCEPT ![i] = "running"]
      /\ UNCHANGED <<graph, caller, next, queue, worker, future>>
  BY DEF StartNode
<1>2. TPType
  BY DEF PoolInv
<1>3. i \in Item /\ status \in [Item -> {"idle", "running", "done", "failed"}]
  BY <1>1, <1>2 DEF TPType
<1>4. \A j \in Item : status'[j] = IF j = i THEN "running" ELSE status[j]
  BY <1>1, <1>3
<1>5. future[i] = "pending"
  BY <1>1 DEF PoolInv, HeldPending
<1>6. TPType'
  <2>1. status' \in [Item -> {"idle", "running", "done", "failed"}]
    BY <1>1, <1>3
  <2> QED
    BY <1>1, <1>2, <2>1 DEF TPType
<1>7. HasFuture' /\ PendingSomewhere' /\ InOrder' /\ HeldOnce'
  BY <1>1 DEF PoolInv, HasFuture, PendingSomewhere, Queued, Held, InOrder, HeldOnce
<1>8. \A k \in DOMAIN queue : queue[k] \in Item /\ queue[k] # i
  <2> SUFFICES ASSUME NEW k \in DOMAIN queue, queue[k] = i PROVE FALSE
    BY <1>2, QueueFacts
  <2>1. i[2] < queue[k][2]
    BY <1>1 DEF PoolInv, InOrder
  <2>2. i[2] \in Nat
    BY <1>2, <1>3, ItemFacts, GraphFacts
  <2> QED
    BY <2>1, <2>2
<1>9. QueuedIdle'
  BY <1>1, <1>4, <1>8 DEF PoolInv, QueuedIdle
<1>10. HeldPending'
  <2> SUFFICES ASSUME NEW v \in Worker, worker[v] # Idle
               PROVE  future[worker[v]] = "pending" /\ status'[worker[v]] \in {"idle", "running"}
    BY <1>1 DEF HeldPending
  <2>1. worker[v] \in Item
    BY <1>2 DEF TPType
  <2> QED
    BY <1>4, <2>1 DEF PoolInv, HeldPending
<1>11. NotStarted' /\ DoneIsDone'
  BY <1>1, <1>4, <1>5 DEF PoolInv, NotStarted, DoneIsDone
<1> QED
  BY <1>6, <1>7, <1>9, <1>10, <1>11 DEF PoolInv

(* A thread is done with its item, which has been executed or not.         *)
LEMMA ItemEnds ==
    ASSUME PoolInv, NEW w \in Worker, worker[w] # Idle,
           worker' = [worker EXCEPT ![w] = Idle],
           NEW st \in {"idle", "running", "done", "failed"}, NEW end \in {"done", "failed"},
           end = "done" => st = "done",
           status' = [status EXCEPT ![worker[w]] = st],
           future' = [future EXCEPT ![worker[w]] = end],
           UNCHANGED <<graph, caller, next, queue>>
    PROVE  PoolInv'
<1> DEFINE i == worker[w]
<1>1. TPType
  BY DEF PoolInv
<1>2. /\ i \in Item
      /\ status \in [Item -> {"idle", "running", "done", "failed"}]
      /\ future \in [Item -> {"none", "pending", "done", "failed"}]
      /\ worker \in [Worker -> Item \cup {Idle}]
  BY <1>1 DEF TPType
<1>3. /\ \A j \in Item : status'[j] = IF j = i THEN st ELSE status[j]
      /\ \A j \in Item : future'[j] = IF j = i THEN end ELSE future[j]
      /\ \A v \in Worker : worker'[v] = IF v = w THEN Idle ELSE worker[v]
  BY <1>2
<1>4. future[i] = "pending"
  BY DEF PoolInv, HeldPending
<1>5. TPType'
  <2>1. /\ status' \in [Item -> {"idle", "running", "done", "failed"}]
        /\ future' \in [Item -> {"none", "pending", "done", "failed"}]
        /\ worker' \in [Worker -> Item \cup {Idle}]
    BY <1>2
  <2> QED
    BY <1>1, <2>1 DEF TPType
<1>6. HasFuture'
  <2>1. \A c \in Callers, n \in Node : future'[<<c, n>>] = "none" <=> future[<<c, n>>] = "none"
    BY <1>3, <1>4, ItemFacts
  <2> QED
    BY <2>1 DEF PoolInv, HasFuture
<1>7. PendingSomewhere'
  <2> SUFFICES ASSUME NEW j \in Item, future'[j] = "pending"
               PROVE  Queued(j) \/ \E v \in Worker : worker'[v] = j
    BY DEF PendingSomewhere, Queued, Held
  <2>1. j # i /\ future[j] = "pending"
    BY <1>3
  <2>2. CASE Held(j)
    <3>1. PICK v \in Worker : worker[v] = j
      BY <2>2 DEF Held
    <3>2. v # w
      BY <2>1, <3>1
    <3> QED
      BY <1>3, <3>1, <3>2
  <2> QED
    BY <2>1, <2>2 DEF PoolInv, PendingSomewhere
<1>8. \A k \in DOMAIN queue : queue[k] \in Item /\ queue[k] # i
  <2> SUFFICES ASSUME NEW k \in DOMAIN queue, queue[k] = i PROVE FALSE
    BY <1>1, QueueFacts
  <2>1. i[2] < queue[k][2]
    BY DEF PoolInv, InOrder
  <2>2. i[2] \in Nat
    BY <1>1, <1>2, ItemFacts, GraphFacts
  <2> QED
    BY <2>1, <2>2
<1>9. QueuedIdle'
  BY <1>3, <1>8 DEF PoolInv, QueuedIdle
<1>10. HeldPending'
  <2> SUFFICES ASSUME NEW v \in Worker, worker'[v] # Idle
               PROVE  future'[worker'[v]] = "pending" /\ status'[worker'[v]] \in {"idle", "running"}
    BY DEF HeldPending
  <2>1. v # w /\ worker'[v] = worker[v] /\ worker[v] \in Item
    BY <1>2, <1>3
  <2>2. worker[v] # i
    BY <1>3, <2>1 DEF PoolInv, HeldOnce
  <2> QED
    BY <1>3, <2>1, <2>2 DEF PoolInv, HeldPending
<1>11. NotStarted' /\ DoneIsDone'
  BY <1>3, <1>4 DEF PoolInv, NotStarted, DoneIsDone
<1>12. InOrder' /\ HeldOnce'
  BY <1>3 DEF PoolInv, InOrder, HeldOnce
<1> QED
  BY <1>5, <1>6, <1>7, <1>9, <1>10, <1>11, <1>12 DEF PoolInv

LEMMA EndNodeStep ==
    ASSUME PoolInv, NEW w \in Worker, EndNode(w)
    PROVE  PoolInv'
<1>1. PICK end \in {"done", "failed"} :
          /\ status' = [status EXCEPT ![worker[w]] = end]
          /\ future' = [future EXCEPT ![worker[w]] = end]
  BY DEF EndNode
<1>2. /\ worker[w] # Idle
      /\ worker' = [worker EXCEPT ![w] = Idle]
      /\ UNCHANGED <<graph, caller, next, queue>>
  BY DEF EndNode
<1> QED
  BY <1>1, <1>2, ItemEnds

LEMMA FailUnexecutedStep ==
    ASSUME PoolInv, NEW w \in Worker, FailUnexecuted(w)
    PROVE  PoolInv'
<1>1. /\ worker[w] # Idle /\ status[worker[w]] = "idle"
      /\ worker' = [worker EXCEPT ![w] = Idle]
      /\ future' = [future EXCEPT ![worker[w]] = "failed"]
      /\ UNCHANGED <<graph, caller, next, queue, status>>
  BY DEF FailUnexecuted
<1>2. status' = [status EXCEPT ![worker[w]] = "idle"]
  <2>1. worker[w] \in Item /\ status \in [Item -> {"idle", "running", "done", "failed"}]
    BY <1>1 DEF PoolInv, TPType
  <2> QED
    BY <1>1, <2>1
<1> QED
  BY <1>1, <1>2, ItemEnds

LEMMA StepInv == PoolInv /\ [TPNext]_tpvars => PoolInv'
<1> SUFFICES ASSUME PoolInv, [TPNext]_tpvars PROVE PoolInv'
  OBVIOUS
<1>1. caller \in [Callers -> {"submitting", "building", "returned", "raised"}]
  BY DEF PoolInv, TPType
<1>2. ASSUME NEW c \in Callers, CallerStep(c) PROVE PoolInv'
  <2>1. CASE Submit(c)
    BY <2>1, SubmitStep
  <2>2. CASE Submitted(c) \/ Return(c) \/ Raise(c)
    <3>1. /\ UNCHANGED <<graph, next, queue, worker, status, future>>
          /\ caller' \in [Callers -> {"submitting", "building", "returned", "raised"}]
      BY <1>1, <2>2 DEF Submitted, Return, Raise
    <3> QED
      BY <3>1, CallerOnly
  <2> QED
    BY <1>2, <2>1, <2>2 DEF CallerStep
<1>3. ASSUME NEW w \in Worker, WorkerStep(w) PROVE PoolInv'
  BY <1>3, TakeStep, StartNodeStep, EndNodeStep, FailUnexecutedStep DEF WorkerStep
<1>4. CASE UNCHANGED tpvars
  BY <1>1, <1>4, CallerOnly DEF tpvars
<1> QED
  BY <1>2, <1>3, <1>4 DEF TPNext

LEMMA Invariance == TPSpec => []PoolInv
<1>1. TPInit => PoolInv
  BY InitInv
<1>2. PoolInv /\ [TPNext]_tpvars => PoolInv'
  BY StepInv
<1> QED
  BY <1>1, <1>2, PTL DEF TPSpec

(* Threads that block on the futures of other nodes never block the whole  *)
(* pool, however few they are, since nodes are submitted after those they  *)
(* read and taken in that order (FutureAdapter over ThreadPoolExecutor).   *)
THEOREM PoolNeverBlocked == TPSpec => []NeverAllBlocked
<1>1. PoolInv => NeverAllBlocked
  BY SomeThreadGoesOn
<1> QED
  BY <1>1, Invariance, PTL

-----------------------------------------------------------------------------
(* The refinement of NodeRun by the run of each caller.                    *)
OutcomeOf(c) == IF caller[c] \in {"returned", "raised"} THEN caller[c] ELSE "none"
StatusOf(c) == [n \in Node |-> status[<<c, n>>]]

LEMMA ParamsAndOutputs ==
    ASSUME TPType
    PROVE  /\ \A n \in Node : Params(n) \subseteq Node
           /\ Outputs \subseteq Node
<1>1. graph.outputs \in Seq(Node)
  BY ThreadPoolAssumption DEF TPType
<1>2. \A k \in DOMAIN graph.outputs : graph.outputs[k] \in Node
  BY <1>1, LenProperties, ElementOfSeq
<1> QED
  BY <1>2, GraphFacts DEF Params, Outputs

LEMMA NodeRunInit == TPInit => \A c \in Callers : NR(c)!NRInit
<1> SUFFICES ASSUME TPInit, NEW c \in Callers PROVE NR(c)!NRInit
  OBVIOUS
<1>1. TPType
  BY InitInv DEF PoolInv
<1>2. [n \in Node |-> Params(n)] \in [Node -> SUBSET Node] /\ Outputs \in SUBSET Node
  BY <1>1, ParamsAndOutputs
<1>3. StatusOf(c) = [n \in Node |-> "idle"]
  BY ItemFacts DEF TPInit, StatusOf
<1>4. OutcomeOf(c) = "none"
  BY DEF TPInit, OutcomeOf
<1> QED
  BY <1>2, <1>3, <1>4 DEF NR!NRInit, StatusOf, OutcomeOf

(* A step that changes neither the outcome of a caller nor the status of   *)
(* its items is a stutter of its run.                                      *)
LEMMA NodeRunStutter ==
    ASSUME NEW c \in Callers, UNCHANGED <<graph, StatusOf(c), OutcomeOf(c)>>
    PROVE  UNCHANGED NR(c)!nrvars
<1>1. [n \in Node |-> Params(n)]' = [n \in Node |-> Params(n)] /\ Outputs' = Outputs
  BY DEF Params, Outputs
<1> QED
  BY <1>1 DEF NR!nrvars, StatusOf, OutcomeOf

LEMMA CallerNodeRun ==
    ASSUME PoolInv, NEW b \in Callers, CallerStep(b), NEW c \in Callers
    PROVE  [NR(c)!NRNext]_(NR(c)!nrvars)
<1>1. UNCHANGED graph /\ UNCHANGED status
  BY DEF CallerStep, Submit, Submitted, Return, Raise
<1>2. caller \in [Callers -> {"submitting", "building", "returned", "raised"}]
  BY DEF PoolInv, TPType
<1>3. UNCHANGED StatusOf(c)
  BY <1>1 DEF StatusOf
<1>4. [n \in Node |-> Params(n)]' = [n \in Node |-> Params(n)] /\ Outputs' = Outputs
  BY <1>1 DEF Params, Outputs
<1>5. CASE UNCHANGED OutcomeOf(c)
  BY <1>1, <1>3, <1>5, NodeRunStutter
<1>6. CASE ~UNCHANGED OutcomeOf(c)
  <2>1. b = c /\ caller[c] = "building"
        /\ \/ Return(c) /\ caller'[c] = "returned"
           \/ Raise(c) /\ caller'[c] = "raised"
    <3>1. caller' # caller
      BY <1>6 DEF OutcomeOf
    <3>2. CASE Submit(b)
      BY <3>1, <3>2 DEF Submit
    <3>3. CASE Submitted(b)
      <4>1. caller'[c] = IF c = b THEN "building" ELSE caller[c]
        BY <1>2, <3>3 DEF Submitted
      <4>2. OutcomeOf(c)' = OutcomeOf(c)
        BY <1>2, <3>3, <4>1 DEF OutcomeOf, Submitted
      <4> QED
        BY <1>6, <4>2
    <3>4. CASE Return(b)
      <4>1. caller[b] = "building" /\ caller'[c] = IF c = b THEN "returned" ELSE caller[c]
        BY <1>2, <3>4 DEF Return
      <4>2. c # b => OutcomeOf(c)' = OutcomeOf(c)
        BY <4>1 DEF OutcomeOf
      <4> QED
        BY <1>6, <3>4, <4>1, <4>2
    <3>5. CASE Raise(b)
      <4>1. caller[b] = "building" /\ caller'[c] = IF c = b THEN "raised" ELSE caller[c]
        BY <1>2, <3>5 DEF Raise
      <4>2. c # b => OutcomeOf(c)' = OutcomeOf(c)
        BY <4>1 DEF OutcomeOf
      <4> QED
        BY <1>6, <3>5, <4>1, <4>2
    <3> QED
      BY <3>2, <3>3, <3>4, <3>5 DEF CallerStep
  <2>2. OutcomeOf(c) = "none" /\ OutcomeOf(c)' = caller'[c]
    BY <2>1 DEF OutcomeOf
  <2>3. CASE Return(c) /\ caller'[c] = "returned"
    <3>1. \A n \in Outputs : StatusOf(c)[n] = "done"
      <4> SUFFICES ASSUME NEW k \in DOMAIN graph.outputs
                   PROVE  StatusOf(c)[graph.outputs[k]] = "done"
        BY DEF Outputs
      <4>1. future[<<c, graph.outputs[k]>>] = "done"
        BY <2>3 DEF Return, AllDone, OutputsOf
      <4>2. graph.outputs[k] \in Node
        BY ParamsAndOutputs DEF Outputs, PoolInv
      <4>3. <<c, graph.outputs[k]>> \in Item
        BY <4>2, ItemFacts
      <4>4. status[<<c, graph.outputs[k]>>] = "done"
        BY <4>1, <4>3 DEF PoolInv, DoneIsDone
      <4> QED
        BY <4>2, <4>4 DEF StatusOf
    <3>2. NR(c)!Return
      BY <1>3, <1>4, <2>2, <2>3, <3>1 DEF NR!Return, StatusOf, OutcomeOf
    <3> QED
      BY <3>2 DEF NR!NRNext
  <2>4. CASE Raise(c) /\ caller'[c] = "raised"
    <3>1. NR(c)!Raise
      BY <1>3, <1>4, <2>2, <2>4 DEF NR!Raise, StatusOf, OutcomeOf
    <3> QED
      BY <3>1 DEF NR!NRNext
  <2> QED
    BY <2>1, <2>3, <2>4
<1> QED
  BY <1>5, <1>6

LEMMA WorkerNodeRun ==
    ASSUME PoolInv, NEW w \in Worker, WorkerStep(w), NEW c \in Callers
    PROVE  [NR(c)!NRNext]_(NR(c)!nrvars)
<1> DEFINE i == worker[w]
           n == i[2]
<1>1. UNCHANGED graph /\ UNCHANGED caller
  BY DEF WorkerStep, Take, StartNode, EndNode, FailUnexecuted
<1>2. UNCHANGED OutcomeOf(c)
  BY <1>1 DEF OutcomeOf
<1>3. [m \in Node |-> Params(m)]' = [m \in Node |-> Params(m)] /\ Outputs' = Outputs
  BY <1>1 DEF Params, Outputs
<1>4. status \in [Item -> {"idle", "running", "done", "failed"}] /\ TPType
  BY DEF PoolInv, TPType
<1>5. CASE UNCHANGED StatusOf(c)
  BY <1>1, <1>2, <1>5, NodeRunStutter
<1>6. CASE ~UNCHANGED StatusOf(c)
  <2>1. status' # status
    BY <1>6 DEF StatusOf
  <2>2. StartNode(w) \/ EndNode(w)
    BY <2>1 DEF WorkerStep, Take, FailUnexecuted
  <2>3. i # Idle /\ \E st \in {"running", "done", "failed"} : status' = [status EXCEPT ![i] = st]
    BY <2>2 DEF StartNode, EndNode
  <2>4. i \in Item /\ i[1] \in Callers /\ n \in Node /\ i = <<i[1], n>>
    BY <1>4, <2>3, ItemFacts DEF TPType
  <2>5. PICK st \in {"running", "done", "failed"} : status' = [status EXCEPT ![i] = st]
    BY <2>3
  <2>6. \A m \in Node : status'[<<c, m>>] = IF <<c, m>> = i THEN st ELSE status[<<c, m>>]
    BY <1>4, <2>5, ItemFacts
  <2>7. i[1] = c
    <3> SUFFICES ASSUME i[1] # c PROVE FALSE
      OBVIOUS
    <3>1. \A m \in Node : status'[<<c, m>>] = status[<<c, m>>]
      BY <2>4, <2>6
    <3> QED
      BY <1>6, <3>1 DEF StatusOf
  <2>8. i = <<c, n>>
    BY <2>4, <2>7
  <2>9. StatusOf(c)' = [StatusOf(c) EXCEPT ![n] = st] /\ StatusOf(c)[n] = status[i]
    <3>1. StatusOf(c)[n] = status[i]
      BY <2>4, <2>8 DEF StatusOf
    <3>2. \A m \in Node : <<c, m>> = i <=> m = n
      BY <2>8
    <3>3. \A m \in Node : status'[<<c, m>>] = IF m = n THEN st ELSE status[<<c, m>>]
      BY <2>6, <3>2
    <3>4. StatusOf(c)' = [m \in Node |-> IF m = n THEN st ELSE status[<<c, m>>]]
      BY <3>3 DEF StatusOf
    <3>5. [StatusOf(c) EXCEPT ![n] = st] = [m \in Node |-> IF m = n THEN st ELSE status[<<c, m>>]]
      BY DEF StatusOf
    <3> QED
      BY <3>1, <3>4, <3>5
  <2> HIDE DEF n
  <2>10. PICK m \in Node : m = n
    BY <2>4
  <2>11. CASE StartNode(w)
    <3>1. status[i] = "idle" /\ AllDone(Inputs(i)) /\ status' = [status EXCEPT ![i] = "running"]
      BY <2>11 DEF StartNode
    <3>2. st = "running"
      <4>1. status'[i] = "running" /\ status'[i] = st
        BY <1>4, <2>4, <2>5, <3>1
      <4> QED
        BY <4>1
    <3>3. \A d \in Params(n) : StatusOf(c)[d] = "done"
      <4> SUFFICES ASSUME NEW k \in DOMAIN graph.params[n]
                   PROVE  StatusOf(c)[graph.params[n][k]] = "done"
        BY DEF Params
      <4>1. graph.params[n][k] \in Node
        BY <1>4, <2>4, GraphFacts
      <4>2. future[<<c, graph.params[n][k]>>] = "done"
        BY <2>7, <3>1 DEF AllDone, Inputs, n
      <4>3. <<c, graph.params[n][k]>> \in Item
        BY <4>1, ItemFacts
      <4>4. status[<<c, graph.params[n][k]>>] = "done"
        BY <4>2, <4>3 DEF PoolInv, DoneIsDone
      <4> QED
        BY <4>1, <4>4 DEF StatusOf
    <3>4. NR(c)!StartNode(m)
      BY <1>2, <1>3, <2>10, <2>9, <3>1, <3>2, <3>3 DEF NR!StartNode, StatusOf, OutcomeOf
    <3> QED
      BY <3>4 DEF NR!NRNext
  <2>12. CASE EndNode(w)
    <3>1. status[i] = "running" /\ \E end \in {"done", "failed"} : status' = [status EXCEPT ![i] = end]
      BY <2>12 DEF EndNode
    <3>2. st \in {"done", "failed"}
      <4>1. \A end : status' = [status EXCEPT ![i] = end] => status'[i] = end
        BY <1>4, <2>4
      <4> QED
        BY <2>5, <3>1, <4>1
    <3>3. NR(c)!EndNode(m)
      BY <1>2, <1>3, <2>10, <2>9, <3>1, <3>2 DEF NR!EndNode, StatusOf, OutcomeOf
    <3> QED
      BY <3>3 DEF NR!NRNext
  <2> QED
    BY <2>2, <2>11, <2>12
<1> QED
  BY <1>5, <1>6

(* Each run that shares the pool executes its nodes at most once, after    *)
(* those they read, and build_result returns when the outputs are done.    *)
THEOREM PoolImplementsNodeRun == TPSpec => ImplementsNodeRun
<1>1. TPInit => \A c \in Callers : NR(c)!NRInit
  BY NodeRunInit
<1>2. PoolInv /\ [TPNext]_tpvars =>
          [\A c \in Callers : [NR(c)!NRNext]_(NR(c)!nrvars)]_tpvars
  <2> SUFFICES ASSUME PoolInv, TPNext, NEW c \in Callers
               PROVE  [NR(c)!NRNext]_(NR(c)!nrvars)
    OBVIOUS
  <2> QED
    BY CallerNodeRun, WorkerNodeRun DEF TPNext
<1> QED
  BY <1>1, <1>2, Invariance, PTL DEF TPSpec, ImplementsNodeRun

-----------------------------------------------------------------------------
(* Every run is finite and none gets stuck: what EveryCallerEnds takes,    *)
(* besides the fairness that lets the step come which can be made.         *)

(* The steps that each item and each caller have ahead.                    *)
Unresolved(i) == future[i] \in {"none", "pending"}
ToSubmit == {i \in Item : future[i] = "none"}
ToTake == {i \in Item : Unresolved(i) /\ ~Held(i)}
ToStart == {i \in Item : Unresolved(i) /\ status[i] = "idle"}
ToEnd == {i \in Item : Unresolved(i)}
ToBuild == {c \in Callers : caller[c] = "submitting"}
ToReturn == {c \in Callers : caller[c] \in {"submitting", "building"}}

Work ==
    ({"submit"} \X ToSubmit) \cup ({"take"} \X ToTake) \cup ({"start"} \X ToStart)
    \cup ({"end"} \X ToEnd) \cup ({"build"} \X ToBuild) \cup ({"return"} \X ToReturn)

AllSubmitted == \A c \in Callers : caller[c] # "submitting" => next[c] \notin Node

Ended(c) == caller[c] \in {"returned", "raised"}

(* What the guards of CallerStep and of WorkerStep ask for.                *)
CallerCan(c) ==
    \/ caller[c] = "submitting"
    \/ caller[c] = "building" /\ (AllDone(OutputsOf(c)) \/ FirstFailed(OutputsOf(c)))
WorkerCan(w) ==
    \/ worker[w] = Idle /\ queue # <<>>
    \/ worker[w] # Idle /\ (CanStart(w) \/ CanEnd(w) \/ CanFail(w))

LEMMA WorkIsFinite ==
    ASSUME IsFiniteSet(Callers)
    PROVE  IsFiniteSet(Work)
<1>1. IsFiniteSet(Node)
  <2>1. 1 \in Int /\ N \in Int
    BY ThreadPoolAssumption
  <2> QED
    BY <2>1, FS_Interval DEF Node
<1>2. IsFiniteSet(Item)
  BY <1>1, FS_Product DEF Item
<1> DEFINE Kinds == {"submit", "take", "start", "end", "build", "return"}
<1>3. IsFiniteSet(Kinds)
  <2>1. IsFiniteSet({"submit", "take", "start"}) /\ IsFiniteSet({"end", "build", "return"})
    <3>1. \A a, b, c : IsFiniteSet({a, b, c})
      <4> SUFFICES ASSUME NEW a, NEW b, NEW c PROVE IsFiniteSet({a, b, c})
        OBVIOUS
      <4>1. IsFiniteSet({} \cup {a})
        BY FS_EmptySet, FS_AddElement
      <4>2. IsFiniteSet(({} \cup {a}) \cup {b})
        BY <4>1, FS_AddElement
      <4>3. IsFiniteSet((({} \cup {a}) \cup {b}) \cup {c})
        BY <4>2, FS_AddElement
      <4>4. (({} \cup {a}) \cup {b}) \cup {c} = {a, b, c}
        OBVIOUS
      <4> QED
        BY <4>3, <4>4
    <3> QED
      BY <3>1
  <2>2. Kinds = {"submit", "take", "start"} \cup {"end", "build", "return"}
    OBVIOUS
  <2> QED
    BY <2>1, <2>2, FS_Union
<1> HIDE DEF Kinds
<1>4. IsFiniteSet(Item \cup Callers)
  BY <1>2, FS_Union
<1>5. IsFiniteSet(Kinds \X (Item \cup Callers))
  BY <1>3, <1>4, FS_Product
<1>6. Work \subseteq Kinds \X (Item \cup Callers)
  BY DEF Work, Kinds, ToSubmit, ToTake, ToStart, ToEnd, ToBuild, ToReturn
<1> QED
  BY <1>5, <1>6, FS_Subset

LEMMA WorkShrinks ==
    ASSUME ToSubmit' \subseteq ToSubmit, ToTake' \subseteq ToTake,
           ToStart' \subseteq ToStart, ToEnd' \subseteq ToEnd,
           ToBuild' \subseteq ToBuild, ToReturn' \subseteq ToReturn,
           \/ ToSubmit' # ToSubmit \/ ToTake' # ToTake
           \/ ToStart' # ToStart \/ ToEnd' # ToEnd
           \/ ToBuild' # ToBuild \/ ToReturn' # ToReturn
    PROVE  Work' \subseteq Work /\ Work' # Work
<1>1. Work' \subseteq Work
  BY DEF Work
<1>2. /\ \A x : <<"submit", x>> \in Work <=> x \in ToSubmit
      /\ \A x : <<"take", x>> \in Work <=> x \in ToTake
      /\ \A x : <<"start", x>> \in Work <=> x \in ToStart
      /\ \A x : <<"end", x>> \in Work <=> x \in ToEnd
      /\ \A x : <<"build", x>> \in Work <=> x \in ToBuild
      /\ \A x : <<"return", x>> \in Work <=> x \in ToReturn
  BY DEF Work
<1>3. /\ \A x : <<"submit", x>> \in Work' <=> x \in ToSubmit'
      /\ \A x : <<"take", x>> \in Work' <=> x \in ToTake'
      /\ \A x : <<"start", x>> \in Work' <=> x \in ToStart'
      /\ \A x : <<"end", x>> \in Work' <=> x \in ToEnd'
      /\ \A x : <<"build", x>> \in Work' <=> x \in ToBuild'
      /\ \A x : <<"return", x>> \in Work' <=> x \in ToReturn'
  BY DEF Work
<1>4. ASSUME Work' = Work PROVE FALSE
  <2>1. ToSubmit' = ToSubmit /\ ToTake' = ToTake /\ ToStart' = ToStart
    BY <1>2, <1>3, <1>4
  <2>2. ToEnd' = ToEnd /\ ToBuild' = ToBuild /\ ToReturn' = ToReturn
    BY <1>2, <1>3, <1>4
  <2> QED
    BY <2>1, <2>2
<1> QED
  BY <1>1, <1>4

LEMMA CallerWork ==
    ASSUME PoolInv, NEW c \in Callers, CallerStep(c)
    PROVE  Work' \subseteq Work /\ Work' # Work
<1>1. TPType /\ caller \in [Callers -> {"submitting", "building", "returned", "raised"}]
  BY DEF PoolInv, TPType
<1>2. CASE Submit(c)
  <2> DEFINE i == <<c, next[c]>>
  <2>1. /\ i \in Item /\ future' = [future EXCEPT ![i] = "pending"]
        /\ UNCHANGED <<caller, worker, status>>
    BY <1>2, ItemFacts DEF Submit
  <2>2. future[i] = "none"
    <3>1. next[c] \in Node /\ next[c] >= next[c]
      BY <1>2, ThreadPoolAssumption DEF Submit, Node
    <3> QED
      BY <3>1 DEF PoolInv, HasFuture
  <2>3. \A j \in Item : future'[j] = IF j = i THEN "pending" ELSE future[j]
    BY <1>1, <2>1 DEF TPType
  <2> HIDE DEF i
  <2>4. i \in ToSubmit /\ i \notin ToSubmit' /\ ToSubmit' \subseteq ToSubmit
    BY <2>1, <2>2, <2>3 DEF ToSubmit
  <2>5. \A j \in Item : Unresolved(j)' => Unresolved(j)
    BY <2>2, <2>3 DEF Unresolved
  <2>6. ToTake' \subseteq ToTake /\ ToStart' \subseteq ToStart /\ ToEnd' \subseteq ToEnd
    BY <2>1, <2>5 DEF ToTake, ToStart, ToEnd, Held
  <2>7. ToBuild' = ToBuild /\ ToReturn' = ToReturn
    BY <2>1 DEF ToBuild, ToReturn
  <2> QED
    BY <2>4, <2>6, <2>7, WorkShrinks
<1>3. CASE Submitted(c) \/ Return(c) \/ Raise(c)
  <2>1. /\ UNCHANGED <<worker, status, future>>
        /\ \/ caller[c] = "submitting" /\ caller' = [caller EXCEPT ![c] = "building"]
           \/ caller[c] = "building" /\ caller' = [caller EXCEPT ![c] = "returned"]
           \/ caller[c] = "building" /\ caller' = [caller EXCEPT ![c] = "raised"]
    BY <1>3 DEF Submitted, Return, Raise
  <2>2. /\ ToSubmit' = ToSubmit /\ ToTake' = ToTake /\ ToStart' = ToStart
        /\ ToEnd' = ToEnd
    BY <2>1 DEF ToSubmit, ToTake, ToStart, ToEnd, Unresolved, Held
  <2>3. /\ ToBuild' \subseteq ToBuild /\ ToReturn' \subseteq ToReturn
        /\ \/ c \in ToBuild /\ c \notin ToBuild'
           \/ c \in ToReturn /\ c \notin ToReturn'
    BY <1>1, <2>1 DEF ToBuild, ToReturn
  <2> QED
    BY <2>2, <2>3, WorkShrinks
<1> QED
  BY <1>2, <1>3 DEF CallerStep

LEMMA WorkerWork ==
    ASSUME PoolInv, NEW w \in Worker, WorkerStep(w)
    PROVE  Work' \subseteq Work /\ Work' # Work
<1>1. /\ TPType
      /\ worker \in [Worker -> Item \cup {Idle}]
      /\ status \in [Item -> {"idle", "running", "done", "failed"}]
      /\ future \in [Item -> {"none", "pending", "done", "failed"}]
  BY DEF PoolInv, TPType
<1>2. UNCHANGED caller
  BY DEF WorkerStep, Take, StartNode, EndNode, FailUnexecuted
<1>3. ToBuild' = ToBuild /\ ToReturn' = ToReturn
  BY <1>2 DEF ToBuild, ToReturn
<1>4. CASE Take(w)
  <2>1. PICK i \in Item : i = queue[1] /\ i = Head(queue) /\ 1 \in DOMAIN queue
    BY <1>1, <1>4, QueueFacts DEF Take
  <2>2. /\ worker[w] = Idle /\ worker' = [worker EXCEPT ![w] = i]
        /\ UNCHANGED <<status, future>>
    BY <1>4, <2>1 DEF Take
  <2>3. future[i] = "pending"
    BY <2>1 DEF PoolInv, QueuedIdle
  <2>4. \A v \in Worker : worker'[v] = IF v = w THEN i ELSE worker[v]
    BY <1>1, <2>2
  <2>5. ~Held(i)
    <3> SUFFICES ASSUME NEW v \in Worker, worker[v] = i PROVE FALSE
      BY DEF Held
    <3>1. worker[v] # Idle /\ worker[v][2] < queue[1][2]
      BY <2>1, ItemFacts DEF PoolInv, InOrder
    <3>2. i[2] \in Nat
      BY <1>1, <2>1, ItemFacts, GraphFacts
    <3> QED
      BY <2>1, <3>1, <3>2
  <2>6. Held(i)'
    BY <2>4 DEF Held
  <2>7. \A j \in Item : Held(j) => Held(j)'
    BY <2>2, <2>4, ItemFacts DEF Held
  <2>8. ToSubmit' = ToSubmit /\ ToStart' = ToStart /\ ToEnd' = ToEnd
    BY <2>2 DEF ToSubmit, ToStart, ToEnd, Unresolved
  <2>9. ToTake' \subseteq ToTake
    BY <2>2, <2>7 DEF ToTake, Unresolved
  <2>10. i \in ToTake /\ i \notin ToTake'
    BY <2>3, <2>5, <2>6 DEF ToTake, Unresolved
  <2> QED
    BY <1>3, <2>8, <2>9, <2>10, WorkShrinks
<1>5. CASE StartNode(w)
  <2> DEFINE i == worker[w]
  <2>1. /\ i # Idle /\ status[i] = "idle" /\ status' = [status EXCEPT ![i] = "running"]
        /\ UNCHANGED <<worker, future>>
    BY <1>5 DEF StartNode
  <2>2. i \in Item /\ future[i] = "pending"
    BY <1>1, <2>1 DEF PoolInv, HeldPending
  <2>3. \A j \in Item : status'[j] = IF j = i THEN "running" ELSE status[j]
    BY <1>1, <2>1
  <2>4. ToSubmit' = ToSubmit /\ ToTake' = ToTake /\ ToEnd' = ToEnd
    BY <2>1 DEF ToSubmit, ToTake, ToEnd, Unresolved, Held
  <2>5. ToStart' \subseteq ToStart /\ i \in ToStart /\ i \notin ToStart'
    BY <2>1, <2>2, <2>3 DEF ToStart, Unresolved
  <2> QED
    BY <1>3, <2>4, <2>5, WorkShrinks
<1>6. CASE EndNode(w) \/ FailUnexecuted(w)
  <2> DEFINE i == worker[w]
  <2>1. /\ i # Idle /\ worker' = [worker EXCEPT ![w] = Idle]
        /\ \E e \in {"done", "failed"} : future' = [future EXCEPT ![i] = e]
        /\ \A j \in Item : status'[j] = "idle" => status[j] = "idle"
    <3>1. CASE EndNode(w)
      BY <1>1, <3>1 DEF EndNode
    <3>2. CASE FailUnexecuted(w)
      BY <3>2 DEF FailUnexecuted
    <3> QED
      BY <1>6, <3>1, <3>2
  <2>2. i \in Item /\ future[i] = "pending"
    BY <1>1, <2>1 DEF PoolInv, HeldPending
  <2>3. \A v \in Worker : worker'[v] = IF v = w THEN Idle ELSE worker[v]
    BY <1>1, <2>1
  <2>4. /\ \A j \in Item : j # i => future'[j] = future[j]
        /\ future'[i] \in {"done", "failed"}
    BY <1>1, <2>1, <2>2
  <2>5. \A j \in Item : j # i /\ Held(j) => Held(j)'
    BY <2>3 DEF Held
  <2>6. \A j \in Item : Unresolved(j)' => j # i /\ Unresolved(j)
    BY <2>4 DEF Unresolved
  <2>7. ToSubmit' \subseteq ToSubmit
    BY <2>4 DEF ToSubmit
  <2>8. ToTake' \subseteq ToTake
    BY <2>5, <2>6 DEF ToTake
  <2>9. ToStart' \subseteq ToStart
    BY <2>1, <2>6 DEF ToStart
  <2>10. ToEnd' \subseteq ToEnd /\ i \in ToEnd /\ i \notin ToEnd'
    BY <2>2, <2>6 DEF ToEnd, Unresolved
  <2> QED
    BY <1>3, <2>7, <2>8, <2>9, <2>10, WorkShrinks
<1> QED
  BY <1>4, <1>5, <1>6 DEF WorkerStep

LEMMA AllSubmittedStep ==
    ASSUME TPType, AllSubmitted, [TPNext]_tpvars
    PROVE  AllSubmitted'
<1>1. caller \in [Callers -> {"submitting", "building", "returned", "raised"}]
      /\ next \in [Callers -> 1..(N + 1)]
  BY DEF TPType
<1>2. ASSUME NEW c \in Callers, CallerStep(c) PROVE AllSubmitted'
  <2> SUFFICES ASSUME NEW b \in Callers, caller'[b] # "submitting" PROVE next'[b] \notin Node
    BY DEF AllSubmitted
  <2>1. CASE Submit(c)
    <3>1. b # c /\ next'[b] = next[b] /\ caller'[b] = caller[b]
      BY <1>1, <2>1 DEF Submit
    <3> QED
      BY <3>1 DEF AllSubmitted
  <2>2. CASE Submitted(c)
    <3>1. next' = next /\ next[c] \notin Node /\ (b # c => caller'[b] = caller[b])
      BY <1>1, <2>2 DEF Submitted
    <3> QED
      BY <3>1 DEF AllSubmitted
  <2>3. CASE Return(c) \/ Raise(c)
    <3>1. next' = next /\ caller[c] # "submitting" /\ (b # c => caller'[b] = caller[b])
      BY <1>1, <2>3 DEF Return, Raise
    <3> QED
      BY <3>1 DEF AllSubmitted
  <2> QED
    BY <1>2, <2>1, <2>2, <2>3 DEF CallerStep
<1>3. ASSUME NEW w \in Worker, WorkerStep(w) PROVE AllSubmitted'
  <2>1. UNCHANGED <<caller, next>>
    BY <1>3 DEF WorkerStep, Take, StartNode, EndNode, FailUnexecuted
  <2> QED
    BY <2>1 DEF AllSubmitted
<1>4. CASE UNCHANGED tpvars
  BY <1>4 DEF AllSubmitted, tpvars
<1> QED
  BY <1>2, <1>3, <1>4 DEF TPNext

(* When no future is pending, a caller that builds its result knows it.    *)
LEMMA BuilderCan ==
    ASSUME PoolInv, AllSubmitted, NEW c \in Callers, caller[c] = "building",
           \A i \in Item : future[i] # "pending"
    PROVE  CallerCan(c)
<1> DEFINE outs == OutputsOf(c)
<1>1. TPType
  BY DEF PoolInv
<1>2. graph.outputs \in Seq(Node)
  BY <1>1, ThreadPoolAssumption DEF TPType
<1>3. /\ DOMAIN graph.outputs = 1..Len(graph.outputs) /\ Len(graph.outputs) \in Nat
      /\ \A k \in DOMAIN graph.outputs : graph.outputs[k] \in Node
  BY <1>2, LenProperties, ElementOfSeq
<1>4. /\ DOMAIN outs = 1..Len(graph.outputs)
      /\ \A k \in DOMAIN outs : outs[k] = <<c, graph.outputs[k]>>
  BY <1>3 DEF OutputsOf
<1>5. \A n \in Node : future[<<c, n>>] # "none"
  <2> SUFFICES ASSUME NEW n \in Node PROVE ~(n >= next[c])
    BY DEF PoolInv, HasFuture
  <2>1. next[c] \in 1..(N + 1) /\ next[c] \notin Node
    BY <1>1 DEF TPType, AllSubmitted
  <2> QED
    BY <2>1, ThreadPoolAssumption DEF Node
<1>6. \A k \in DOMAIN outs : future[outs[k]] \in {"done", "failed"}
  <2> SUFFICES ASSUME NEW k \in DOMAIN outs PROVE future[outs[k]] \in {"done", "failed"}
    OBVIOUS
  <2>1. graph.outputs[k] \in Node /\ outs[k] = <<c, graph.outputs[k]>>
    BY <1>3, <1>4
  <2>2. outs[k] \in Item
    BY <2>1, ItemFacts
  <2>3. future[outs[k]] # "none" /\ future[outs[k]] # "pending"
    BY <1>5, <2>1, <2>2
  <2> QED
    BY <1>1, <2>2, <2>3 DEF TPType
<1> DEFINE failed == {k \in DOMAIN outs : future[outs[k]] = "failed"}
<1>7. failed \in SUBSET Nat
  BY <1>3, <1>4
<1> HIDE DEF outs
<1>8. CASE failed = {}
  <2>1. AllDone(outs)
    BY <1>6, <1>8 DEF AllDone
  <2> QED
    BY <2>1 DEF CallerCan, outs
<1>9. CASE failed # {}
  <2>1. PICK k \in failed : \A j \in failed : k <= j
    BY <1>7, <1>9, NatMin
  <2>2. k \in DOMAIN outs /\ future[outs[k]] = "failed"
    BY <2>1
  <2>3. \A j \in 1..(k-1) : j \in DOMAIN outs /\ ~(k <= j)
    BY <1>3, <1>4, <2>2
  <2>4. \A j \in 1..(k-1) : future[outs[j]] = "done"
    BY <1>6, <2>1, <2>3
  <2>5. FirstFailed(outs)
    BY <2>2, <2>4 DEF FirstFailed
  <2> QED
    BY <2>5 DEF CallerCan, outs
<1> QED
  BY <1>8, <1>9

(* Each step of a caller or of a thread does a piece of a finite work that *)
(* no later step has to do again: no run goes on for ever.                 *)
THEOREM PoolRunIsFinite ==
    ASSUME IsFiniteSet(Callers)
    PROVE  TPSpec => []IsFiniteSet(Work) /\ [][Work' \subseteq Work /\ Work' # Work]_tpvars
<1>1. PoolInv /\ [TPNext]_tpvars => [Work' \subseteq Work /\ Work' # Work]_tpvars
  BY CallerWork, WorkerWork DEF TPNext
<1>2. IsFiniteSet(Work)
  BY WorkIsFinite
<1> QED
  BY <1>1, <1>2, Invariance, PTL DEF TPSpec

(* Until every caller has a result or an exception, a caller or a thread   *)
(* of the pool has what its next step waits for.                           *)
THEOREM PoolNeverStuck ==
    TPSpec => [](\/ \A c \in Callers : Ended(c)
                 \/ \E c \in Callers : CallerCan(c)
                 \/ \E w \in Worker : WorkerCan(w))
<1>1. TPInit => AllSubmitted
  BY DEF TPInit, AllSubmitted
<1>2. PoolInv /\ AllSubmitted /\ [TPNext]_tpvars => AllSubmitted'
  BY AllSubmittedStep DEF PoolInv
<1>3. PoolInv /\ AllSubmitted =>
          \/ \A c \in Callers : Ended(c)
          \/ \E c \in Callers : CallerCan(c)
          \/ \E w \in Worker : WorkerCan(w)
  <2> SUFFICES ASSUME PoolInv, AllSubmitted, NEW c \in Callers, ~Ended(c),
                      \A b \in Callers : ~CallerCan(b)
               PROVE  \E w \in Worker : WorkerCan(w)
    OBVIOUS
  <2>1. caller[c] = "building"
    BY DEF PoolInv, TPType, Ended, CallerCan
  <2>2. \E i \in Item : future[i] = "pending"
    BY <2>1, BuilderCan
  <2> QED
    BY <2>2, SomeThreadGoesOn DEF NeverAllBlocked, WorkerCan
<1> QED
  BY <1>1, <1>2, <1>3, Invariance, PTL DEF TPSpec
=============================================================================

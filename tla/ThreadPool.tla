----------------------------- MODULE ThreadPool -----------------------------
(***************************************************************************)
(* The FutureAdapter of hamilton/plugins/h_threadpool.py: each node is     *)
(* submitted to one ThreadPoolExecutor, with the futures of the nodes it   *)
(* reads as arguments, on which the thread that takes it blocks.           *)
(*                                                                         *)
(* The callers are threads that execute the same driver, and so share the  *)
(* adapter and its pool.  The traversal of SubdagExecution submits a node  *)
(* as soon as it has submitted what it reads, without waiting for it, and  *)
(* the nodes are numbered in this order.  Then a caller waits for outputs. *)
(***************************************************************************)
EXTENDS Integers, Sequences, FiniteSets

CONSTANTS N,           \* the nodes the traversal meets are 1..N
          Graphs,      \* what they read, and the outputs asked for
          Callers,
          MaxWorkers,  \* max_workers of the pool
          Idle         \* no item

Node == 1..N
Item == Callers \X Node
Worker == 1..MaxWorkers

ASSUME ThreadPoolAssumption ==
    /\ N \in Nat
    /\ MaxWorkers \in Nat \ {0}
    /\ Idle \notin Item
    /\ \A g \in Graphs :
          /\ g.params \in [Node -> Seq(Node)]
          /\ \A n \in Node : \A i \in DOMAIN g.params[n] : g.params[n][i] < n
          /\ g.outputs \in Seq(Node)

VARIABLES
    graph,   \* the one of the driver
    caller,  \* caller[c]: submitting, building, returned or raised
    next,    \* next[c]: the node c submits next
    queue,   \* of the pool: items that no thread has taken yet
    worker,  \* worker[w]: the item a thread works at, or Idle
    status,  \* status[i]: whether the node has been executed
    future   \* future[i]: none, pending, done or failed

tpvars == <<graph, caller, next, queue, worker, status, future>>

Params(n) == {graph.params[n][k] : k \in DOMAIN graph.params[n]}
Outputs == {graph.outputs[k] : k \in DOMAIN graph.outputs}
Inputs(i) == [k \in DOMAIN graph.params[i[2]] |-> <<i[1], graph.params[i[2]][k]>>]

TPInit ==
    /\ graph \in Graphs
    /\ caller = [c \in Callers |-> "submitting"]
    /\ next = [c \in Callers |-> 1]
    /\ queue = <<>>
    /\ worker = [w \in Worker |-> Idle]
    /\ status = [i \in Item |-> "idle"]
    /\ future = [i \in Item |-> "none"]

-----------------------------------------------------------------------------
(* The callers.                                                            *)
SubmitLastFirst(c) ==  \* slip: a node is submitted before what it reads
    /\ caller[c] = "submitting"
    /\ next[c] \in Node
    /\ LET i == <<c, N + 1 - next[c]>> IN
          /\ queue' = Append(queue, i)
          /\ future' = [future EXCEPT ![i] = "pending"]
    /\ next' = [next EXCEPT ![c] = @ + 1]
    /\ UNCHANGED <<graph, caller, worker, status>>
Submit(c) ==
    /\ caller[c] = "submitting"
    /\ next[c] \in Node
    /\ queue' = Append(queue, <<c, next[c]>>)
    /\ future' = [future EXCEPT ![<<c, next[c]>>] = "pending"]
    /\ next' = [next EXCEPT ![c] = @ + 1]
    /\ UNCHANGED <<graph, caller, worker, status>>

Submitted(c) ==
    /\ caller[c] = "submitting"
    /\ next[c] \notin Node
    /\ caller' = [caller EXCEPT ![c] = "building"]
    /\ UNCHANGED <<graph, next, queue, worker, status, future>>

(* A wait for a sequence of futures, one after the other: it ends when all *)
(* are done, or at the first that fails.                                   *)
AllDone(items) == \A k \in DOMAIN items : future[items[k]] = "done"
FirstFailed(items) ==
    \E k \in DOMAIN items : /\ future[items[k]] = "failed"
                            /\ \A j \in 1..(k-1) : future[items[j]] = "done"

(* build_result.                                                           *)
OutputsOf(c) == [k \in DOMAIN graph.outputs |-> <<c, graph.outputs[k]>>]
Return(c) ==
    /\ caller[c] = "building"
    /\ AllDone(OutputsOf(c))
    /\ caller' = [caller EXCEPT ![c] = "returned"]
    /\ UNCHANGED <<graph, next, queue, worker, status, future>>
Raise(c) ==
    /\ caller[c] = "building"
    /\ FirstFailed(OutputsOf(c))
    /\ caller' = [caller EXCEPT ![c] = "raised"]
    /\ UNCHANGED <<graph, next, queue, worker, status, future>>

-----------------------------------------------------------------------------
(* The threads.                                                            *)
Take(w) ==
    /\ worker[w] = Idle
    /\ queue # <<>>
    /\ worker' = [worker EXCEPT ![w] = Head(queue)]
    /\ queue' = Tail(queue)
    /\ UNCHANGED <<graph, caller, next, status, future>>

(* _new_fn with every future resolved, and the pre hook passed.            *)
StartNodeAtOnce(w) ==  \* slip: does not wait for the arguments
    LET i == worker[w] IN
    /\ i # Idle
    /\ status[i] = "idle"
    /\ status' = [status EXCEPT ![i] = "running"]
    /\ UNCHANGED <<graph, caller, next, queue, worker, future>>
StartNode(w) ==
    LET i == worker[w] IN
    /\ i # Idle
    /\ status[i] = "idle"
    /\ AllDone(Inputs(i))
    /\ status' = [status EXCEPT ![i] = "running"]
    /\ UNCHANGED <<graph, caller, next, queue, worker, future>>

EndNode(w) ==
    LET i == worker[w] IN
    /\ i # Idle
    /\ status[i] = "running"
    /\ \E end \in {"done", "failed"} :
          /\ status' = [status EXCEPT ![i] = end]
          /\ future' = [future EXCEPT ![i] = end]
    /\ worker' = [worker EXCEPT ![w] = Idle]
    /\ UNCHANGED <<graph, caller, next, queue>>

(* result() of a failed future raises in the thread that waits for it, and *)
(* the node fails without having been executed; so it does if its pre hook *)
(* raises.                                                                 *)
FailUnexecutedLater(w) ==  \* slip: puts an item whose argument failed back
    LET i == worker[w] IN
    /\ i # Idle
    /\ status[i] = "idle"
    /\ FirstFailed(Inputs(i)) \/ AllDone(Inputs(i))
    /\ queue' = Append(queue, i)
    /\ worker' = [worker EXCEPT ![w] = Idle]
    /\ UNCHANGED <<graph, caller, next, status, future>>
FailUnexecuted(w) ==
    LET i == worker[w] IN
    /\ i # Idle
    /\ status[i] = "idle"
    /\ FirstFailed(Inputs(i)) \/ AllDone(Inputs(i))
    /\ future' = [future EXCEPT ![i] = "failed"]
    /\ worker' = [worker EXCEPT ![w] = Idle]
    /\ UNCHANGED <<graph, caller, next, queue, status>>

-----------------------------------------------------------------------------
CallerStep(c) == Submit(c) \/ Submitted(c) \/ Return(c) \/ Raise(c)
WorkerStep(w) == Take(w) \/ StartNode(w) \/ EndNode(w) \/ FailUnexecuted(w)

TPNext == \/ \E c \in Callers : CallerStep(c)
          \/ \E w \in Worker : WorkerStep(w)

(* Threads are scheduled, and the functions of the nodes end.              *)
TPFairness == /\ \A c \in Callers : WF_tpvars(CallerStep(c))
              /\ \A w \in Worker : WF_tpvars(WorkerStep(w))

TPSpec == TPInit /\ [][TPNext]_tpvars /\ TPFairness

-----------------------------------------------------------------------------
CanStart(w) == status[worker[w]] = "idle" /\ AllDone(Inputs(worker[w]))
CanEnd(w) == status[worker[w]] = "running"
CanFail(w) == status[worker[w]] = "idle" /\ FirstFailed(Inputs(worker[w]))

(* The threads are never all blocked on futures that none of them will     *)
(* complete: as long as a future is pending, an idle thread has an item to *)
(* take, or one that has an item can go on with it.  One thread is enough. *)
NeverAllBlocked ==
    (\E i \in Item : future[i] = "pending") =>
        \E w \in Worker :
            \/ worker[w] = Idle /\ queue # <<>>
            \/ worker[w] # Idle /\ (CanStart(w) \/ CanEnd(w) \/ CanFail(w))

(* Every caller gets a result or an exception.                             *)
EveryCallerEnds == \A c \in Callers : <>(caller[c] \in {"returned", "raised"})

(* Each node once per run, after what it reads.                            *)
NR(c) == INSTANCE NodeRun WITH
            reads   <- [n \in Node |-> Params(n)],
            wanted  <- Outputs,
            status  <- [n \in Node |-> status[<<c, n>>]],
            outcome <- IF caller[c] \in {"returned", "raised"} THEN caller[c] ELSE "none"

ImplementsNodeRun ==
    /\ \A c \in Callers : NR(c)!NRInit
    /\ [][\A c \in Callers : [NR(c)!NRNext]_(NR(c)!nrvars)]_tpvars
=============================================================================

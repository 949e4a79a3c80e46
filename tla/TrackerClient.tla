---------------------------- MODULE TrackerClient ----------------------------
(***************************************************************************)
(* BasicSynchronousHamiltonClient of ui/sdk hamilton_sdk/api/clients.py:   *)
(* the threads of a program log task updates into a queue, a worker thread *)
(* sends them to the server in batches, and stop ends the worker and sends *)
(* what is left.  stop is called by the user or, when the process exits,   *)
(* by atexit; a third thread waits for the main thread to end and puts a   *)
(* sentinel in the queue, because the interpreter joins the worker before  *)
(* it calls atexit.                                                        *)
(***************************************************************************)
EXTENDS Integers, SequencesExt

CONSTANTS Producers,  \* the threads that call update_tasks
          Main,       \* the main thread, one of them
          Updates,    \* Updates[p]: how often p calls update_tasks
          RunOf,      \* RunOf[p]: the dag_run_id it logs for
          MaxBatch,   \* max_batch_size
          None        \* the sentinel, and no item

ASSUME TrackerAssumption ==
    /\ Main \in Producers
    /\ IsFiniteSet(Producers)
    /\ Updates \in [Producers -> Nat]
    /\ DOMAIN RunOf = Producers
    /\ MaxBatch \in Nat \ {0}

(* The k-th update of each thread. *)
Events == UNION {{p} \X (1 .. Updates[p]) : p \in Producers}

ASSUME NoneAssumption == None \notin Events

VARIABLES
    logged,     \* logged[p]: how many updates p has put in the queue
    queue,      \* data_queue
    running,    \* running
    worker,     \* where the worker is: "return" is its last flush, for the
                \* sentinel; "died" is an exception of flush
    batch,      \* batch of the worker
    sending,    \* the dag_run_ids of the batch that are still to be sent
    watching,   \* the watcher still waits for the main thread
    main,       \* where the main thread is: in the user's code, at the end
                \* of it, in stop ("join", "drain", "send"), or exited
    item,       \* the item stop has taken from the queue
    atExit,     \* stop was called by atexit
    stopped,    \* stop was called by the user
    stopRaised, \* the last call of stop raised
    delivered,  \* what the server has received, in order
    refused     \* a request has raised

vars == <<logged, queue, running, worker, batch, sending, watching, main, item,
          atExit, stopped, stopRaised, delivered, refused>>
workervars == <<worker, batch, sending>>
mainvars   == <<main, item, atExit, stopped, stopRaised>>

Runs(s) == {RunOf[s[i][1]] : i \in DOMAIN s}
Logged  == {e \in Events : e[2] <= logged[e[1]]}

TCTypeOK ==
    /\ logged \in [Producers -> Nat]
    /\ queue \in Seq(Events \cup {None})
    /\ running \in BOOLEAN
    /\ worker \in {"loop", "get", "flush", "return", "ended", "died"}
    /\ batch \in Seq(Events)
    /\ sending \subseteq Runs(batch)
    /\ watching \in BOOLEAN
    /\ main \in {"run", "shutdown", "join", "drain", "send", "exited"}
    /\ item \in Events \cup {None}
    /\ atExit \in BOOLEAN /\ stopped \in BOOLEAN /\ stopRaised \in BOOLEAN
    /\ delivered \in Seq(Events)
    /\ refused \in BOOLEAN

TCInit ==
    /\ logged = [p \in Producers |-> 0]
    /\ queue = <<>>
    /\ running = TRUE
    /\ worker = "loop" /\ batch = <<>> /\ sending = {}
    /\ watching = TRUE
    /\ main = "run" /\ item = None
    /\ atExit = FALSE /\ stopped = FALSE /\ stopRaised = FALSE
    /\ delivered = <<>> /\ refused = FALSE

-----------------------------------------------------------------------------
(* update_tasks *)

Finished(p) == logged[p] = Updates[p]

UpdateTasks(p) ==
    /\ ~Finished(p)
    /\ p = Main => main = "run"
    /\ logged' = [logged EXCEPT ![p] = @ + 1]
    /\ queue' = Append(queue, <<p, logged'[p]>>)
    /\ UNCHANGED <<running, workervars, watching, mainvars, delivered, refused>>

-----------------------------------------------------------------------------
(* worker: the loop, one flush, and one request of a flush *)

Flush(pc, b) == worker' = pc /\ batch' = b /\ sending' = Runs(b)
Wait(b)      == worker' = "loop" /\ batch' = b /\ UNCHANGED sending
(* The batch is a local variable of the thread and goes with it. *)
Leave(pc)    == worker' = pc /\ batch' = <<>> /\ sending' = {}

TestRunning ==
    /\ worker = "loop"
    /\ IF running THEN worker' = "get" /\ UNCHANGED <<batch, sending>> ELSE Leave("ended")
    /\ UNCHANGED <<logged, queue, running, watching, mainvars, delivered, refused>>

GetSentinelReturns ==  \* slip: return without a flush
    /\ Head(queue) = None
    /\ Leave("ended")
GetSentinel ==
    /\ Head(queue) = None
    /\ Flush("return", batch)

(* The flush interval may have passed whenever an item arrives. *)
GetItemForgets ==  \* slip: the batch is reset although it was not flushed
    /\ Head(queue) # None
    /\ LET b == Append(batch, Head(queue))
       IN  \/ Flush("flush", b)
           \/ Len(b) < MaxBatch /\ Wait(<<>>)
GetItemKeepsFull ==  \* slip: > max_batch_size, the worker loops with a full batch
    /\ Head(queue) # None
    /\ LET b == Append(batch, Head(queue))
       IN  \/ Flush("flush", b)
           \/ Len(b) <= MaxBatch /\ Wait(b)
GetItem ==
    /\ Head(queue) # None
    /\ LET b == Append(batch, Head(queue))
       IN  \/ Flush("flush", b)
           \/ Len(b) < MaxBatch /\ Wait(b)

Get ==
    /\ worker = "get"
    /\ queue # <<>>
    /\ queue' = Tail(queue)
    /\ GetSentinel \/ GetItem
    /\ UNCHANGED <<logged, running, watching, mainvars, delivered, refused>>

TimeoutWaits == Wait(batch)  \* slip: a batch that is not full is kept
Timeout == IF batch # <<>> THEN Flush("flush", batch) ELSE Wait(batch)

GetTimesOut ==
    /\ worker = "get"
    /\ queue = <<>>
    /\ Timeout
    /\ UNCHANGED <<logged, queue, running, watching, mainvars, delivered, refused>>

(* requests.put, then raise_for_status.  An error may be one of the answer *)
(* only, so that the server has received what the caller believes lost.    *)
Put(s, raises) ==
    \E received \in {TRUE, ~raises} :
        /\ delivered' = IF received THEN delivered \o s ELSE delivered
        /\ refused' = (refused \/ raises)

(* create_batch: the updates of s for run r, in the order of s.  (Those of *)
(* a node are merged into one, the later over the earlier.)                *)
OfRun(s, r) ==
    LET upTo[i \in 0..Len(s)] ==
            IF i = 0 THEN <<>>
            ELSE IF RunOf[s[i][1]] = r THEN Append(upTo[i-1], s[i])
            ELSE upTo[i-1]
    IN  upTo[Len(s)]

FlushRun(r) ==
    /\ worker \in {"flush", "return"}
    /\ r \in sending
    /\ \E raises \in BOOLEAN :
          /\ Put(OfRun(batch, r), raises)
          /\ IF raises THEN Leave("died")
                       ELSE sending' = sending \ {r} /\ UNCHANGED <<worker, batch>>
    /\ UNCHANGED <<logged, queue, running, watching, mainvars>>

FlushEnds ==
    /\ worker \in {"flush", "return"}
    /\ sending = {}
    /\ IF worker = "return" THEN Leave("ended") ELSE Wait(<<>>)
    /\ UNCHANGED <<logged, queue, running, watching, mainvars, delivered, refused>>

Worker == \/ TestRunning \/ Get \/ GetTimesOut \/ FlushEnds
          \/ \E r \in sending : FlushRun(r)

-----------------------------------------------------------------------------
(* stop, which the main thread runs *)

WorkerOver == worker \in {"ended", "died"}

Stop == running' = FALSE /\ main' = "join"

UserStops ==
    /\ main = "run" /\ ~stopped
    /\ Stop
    /\ stopped' = TRUE /\ stopRaised' = FALSE
    /\ UNCHANGED <<logged, queue, workervars, watching, item, atExit, delivered, refused>>

JoinedNot == TRUE  \* slip: stop does not wait for the worker
Joined == WorkerOver
JoinWorker ==
    /\ main = "join"
    /\ Joined
    /\ main' = "drain"
    /\ UNCHANGED <<logged, queue, running, workervars, watching, item, atExit, stopped,
                   stopRaised, delivered, refused>>

(* Back to the user's code, or to the interpreter, which exits. *)
StopEnds(raises) ==
    /\ main' = IF atExit THEN "exited" ELSE "run"
    /\ stopRaised' = raises
    /\ item' = None

DrainItem ==
    /\ main = "drain"
    /\ queue # <<>>
    /\ queue' = Tail(queue)
    /\ IF Head(queue) = None
       THEN StopEnds(TRUE)  \* flush([None]): 'NoneType' object is not subscriptable
       ELSE main' = "send" /\ item' = Head(queue) /\ UNCHANGED stopRaised
    /\ UNCHANGED <<logged, running, workervars, watching, atExit, stopped, delivered, refused>>

SendItem ==
    /\ main = "send"
    /\ \E raises \in BOOLEAN :
          /\ Put(<<item>>, raises)
          /\ IF raises THEN StopEnds(TRUE)
                       ELSE main' = "drain" /\ item' = None /\ UNCHANGED stopRaised
    /\ UNCHANGED <<logged, queue, running, workervars, watching, atExit, stopped>>

DrainEnds ==
    /\ main = "drain"
    /\ queue = <<>>
    /\ StopEnds(FALSE)
    /\ UNCHANGED <<logged, queue, running, workervars, watching, atExit, stopped, delivered, refused>>

-----------------------------------------------------------------------------
(* The end of the process: the interpreter joins the threads that are left *)
(* and then calls what atexit has registered.                              *)

MainEnds ==
    /\ main = "run" /\ Finished(Main)
    /\ main' = "shutdown"
    /\ UNCHANGED <<logged, queue, running, workervars, watching, item, atExit, stopped,
                   stopRaised, delivered, refused>>

WatcherPutsNothing == UNCHANGED queue  \* slip
WatcherPuts == queue' = Append(queue, None)
Watcher ==
    /\ watching
    /\ main = "shutdown"
    /\ watching' = FALSE
    /\ WatcherPuts
    /\ UNCHANGED <<logged, running, workervars, mainvars, delivered, refused>>

ExitStops ==
    /\ main = "shutdown"
    /\ ~watching /\ WorkerOver /\ \A p \in Producers : Finished(p)
    /\ Stop
    /\ atExit' = TRUE /\ stopRaised' = FALSE
    /\ UNCHANGED <<logged, queue, workervars, watching, item, stopped, delivered, refused>>

InStop == JoinWorker \/ DrainItem \/ SendItem \/ DrainEnds \/ ExitStops

Exited == main = "exited" /\ UNCHANGED vars

TCNext ==
    \/ \E p \in Producers : UpdateTasks(p)
    \/ Worker
    \/ UserStops \/ MainEnds \/ Watcher \/ InStop
    \/ Exited

(* Threads run on, and a request is answered or fails.  Nothing makes the  *)
(* user call stop, or the main thread come to its end.                     *)
TCSpec == /\ TCInit /\ [][TCNext]_vars
          /\ WF_vars(Worker) /\ WF_vars(Watcher) /\ WF_vars(InStop)
          /\ \A p \in Producers : WF_vars(UpdateTasks(p))

-----------------------------------------------------------------------------
(* Properties *)

(* The server receives the updates of a thread in the order it logged      *)
(* them, and none twice, whoever sends them, so that the end of a task is  *)
(* never overwritten by its start.                                         *)
InOrder ==
    \A i, j \in DOMAIN delivered :
        i < j /\ delivered[i][1] = delivered[j][1] => delivered[i][2] < delivered[j][2]

(* The updates that no one has any more. *)
Lost == Logged \ (ToSet(delivered) \cup ToSet(queue) \cup ToSet(batch) \cup {item})

(* As long as no request failed, nothing but a stop by the user loses      *)
(* updates, and that less than one batch: what the worker has in its batch *)
(* when it leaves the loop.  Whatever was in the queue is sent or still in *)
(* the queue.                                                              *)
OnlyStopLoses ==
    ~refused => (Lost # {} => stopped) /\ Cardinality(Lost) < MaxBatch

(* A program that does not call stop itself and whose requests succeed     *)
(* loses nothing when it exits, and the stop of atexit does not raise.     *)
ExitDelivers ==
    main = "exited" /\ ~refused /\ ~stopped => Logged \subseteq ToSet(delivered) /\ ~stopRaised

(* Without stop an update is not held back for ever: a batch that does not *)
(* fill is sent when the queue has been empty for a while.                 *)
EventuallyDelivered ==
    \A e \in Events : e \in Logged ~> e \in ToSet(delivered) \/ refused \/ stopped

(* The comment in stop: "Process any events that might have been added to  *)
(* the queue after the worker thread stopped".                             *)
StopEmptiesQueue ==
    main = "exited" /\ ~refused => \A e \in Events : e \notin ToSet(queue)

(* The process exits once the main thread has ended, whatever failed.      *)
ProcessExits == main = "shutdown" ~> main = "exited"

(* The docstring of stop: "Stop the logger and process remaining events."  *)
(* When a call of the user returns, all that thread has logged is          *)
(* received, if no request failed.                                         *)
StopProcessesRemaining ==
    [][main # "run" /\ main' = "run" /\ ~refused /\ ~stopRaised' =>
         \A e \in Logged : e[1] = Main => e \in ToSet(delivered)]_vars
=============================================================================

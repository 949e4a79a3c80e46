---------------------------- MODULE CacheAdapter ----------------------------
(***************************************************************************)
(* The caching adapter of hamilton/caching/adapter.py over its metadata    *)
(* store (sqlite.py or memory.py) and result store (file.py or memory.py). *)
(* Runs are processes, or drivers of one process, that share the stores;   *)
(* a lane is one task of one run (task NoTask: not task-based execution)   *)
(* and takes its nodes one by one through the adapter's three hooks:       *)
(* pre_node_execute, do_node_execute and post_node_execute.                *)
(*                                                                         *)
(* A step ends wherever another lane or process can come between: between  *)
(* two calls of a store, between the check and the creation of a nested    *)
(* dictionary, between the opening and the writing of a file.              *)
(*                                                                         *)
(* The value of a node is the term of its code and its arguments, so that  *)
(* a value tells how it was computed; hashing is injective on terms.       *)
(***************************************************************************)
EXTENDS Integers, FiniteSets

CONSTANTS
    LastRun,          \* the runs are 1..LastRun, begun in this order
    Task,             \* task ids, NoTask included
    Node, InputNode,  \* the nodes, and those whose value is given
    Deps,             \* [Node -> SUBSET Node]
    TaskNode,         \* the nodes each task computes
    Behavior,         \* [Run -> [Node -> CachingBehavior]]
    Code,             \* [Run -> [Node -> Nat]], the code versions
    Given,            \* [Lane -> [InputNode -> Nat]]: inputs, or the item of a block
    Saver,            \* data savers: their metadata gets a constant version
    Impure,           \* nodes that read the world outside the dataflow
    Unpicklable,      \* nodes whose result has no pickle, which files need
    OnDisk,           \* SQLite and files, or the two in-memory stores
    Workers,          \* tasks of a run in flight at a time
    Overlap,          \* runs overlap in time
    DeleteAnytime,    \* the stores are cleaned while runs are in progress
    MaxWorld, MaxCrashes, MaxDeletes,  \* bounds
    NoTask, None

Run == 1..LastRun
Lane == Run \X Task
Slot == Task \cup {NoTask}
CachingBehavior == {"DEFAULT", "RECOMPUTE", "DISABLE", "IGNORE"}

ASSUME CacheAssumption ==
    /\ LastRun \in Nat \ {0}
    /\ InputNode \subseteq Node
    /\ Deps \in [Node -> SUBSET Node]
    /\ TaskNode \in [Task -> SUBSET (Node \ InputNode)]
    /\ \A t \in Task : \A n \in TaskNode[t] :
          Deps[n] \subseteq InputNode \cup UNION {TaskNode[u] : u \in Task}
    /\ Behavior \in [Run -> [Node -> CachingBehavior]]
    /\ Code \in [Run -> [Node -> Nat]]
    /\ Given \in [Lane -> [InputNode -> Nat]]
    /\ NoTask \in Task => Task = {NoTask}
    /\ \A n \in Node \cap Task : n \in TaskNode[n] =>
          \A t \in Task : n \in TaskNode[t] => t = n
    /\ Saver \subseteq Node /\ Impure \subseteq Node /\ Unpicklable \subseteq Node
    /\ OnDisk \in BOOLEAN /\ Overlap \in BOOLEAN /\ DeleteAnytime \in BOOLEAN
    /\ Workers \in Nat \ {0}
    /\ MaxWorld \in Nat /\ MaxCrashes \in Nat /\ MaxDeletes \in Nat

VARIABLES
    run,       \* run[r]: new, on, over (it returned or raised) or crashed
    pc, node, key, ver, val, hit,  \* of the node a lane is executing
    done,      \* done[l]: the nodes whose hooks have all returned
    result,    \* result[l][n]: what the run got for n
    keys,      \* cache_keys[run_id]: a slot per task, or None
    versions,  \* data_versions[run_id]: likewise
    metadata,  \* the metadata store: cache_key -> data_version
    files,     \* the result store: data_version -> result
    world,     \* what impure nodes read
    crashes, deletes

lanevars == <<pc, node, key, ver, val, hit>>
cavars == <<run, lanevars, done, result, keys, versions, metadata, files, world,
            crashes, deletes>>

(* A lane stops where an exception leaves the hooks: a TypeError from      *)
(* create_cache_key, an error of StoredResult.load, a failed assertion, a  *)
(* PicklingError, or the node's own.                                       *)
Failure == {"noneVersion", "unreadable", "unversioned", "unpicklable", "raised"}
Stage == {"ready", "newKeys", "lookup", "check", "fetch", "execute", "remember",
          "newVersions", "record", "post", "open", "write", "dead"} \cup Failure

-----------------------------------------------------------------------------
(* Values, versions and keys.                                              *)
Term(n, code, args, seen) == [node |-> n, code |-> code, args |-> args, seen |-> seen]
PyNone == [python |-> "None"]

Hash(v) == [hash |-> v]
(* The version of a result.  A data saver's metadata is not hashed.        *)
DataVersionUnhashable(n, v) == Hash(Term(n, 0, <<>>, 0))  \* slip: no uuid
DataVersion(n, v) == IF n \in Saver THEN [saver |-> n] ELSE Hash(v)

Nested(t, n) == t \notin {NoTask, n}  \* NodeRoleInTaskExecution.INSIDE
SlotOf(t, n) == IF Nested(t, n) THEN t ELSE NoTask
Fresh(s, x) == [u \in Slot |-> IF u = s THEN x ELSE None]

Put(f, k, x) == [j \in DOMAIN f \cup {k} |-> IF j = k THEN x ELSE f[j]]
Drop(f, k) == [j \in DOMAIN f \ {k} |-> f[j]]

(* The task whose result the other tasks of the run are given.             *)
Home(n) == CHOOSE t \in Task : n \in TaskNode[t]
Source(l, n) == IF n \in TaskNode[l[2]] THEN l ELSE <<l[1], Home(n)>>
Val(l, n) == IF n \in InputNode THEN Term(n, 0, <<>>, Given[l][n])
                                ELSE result[Source(l, n)][n]
Compute(l, n) == Term(n, Code[l[1]][n], [d \in Deps[n] |-> Val(l, d)],
                      IF n \in Impure THEN world ELSE 0)

MemoryEntry(m, l, n) == IF m[l[1]][n] = None THEN None
                        ELSE m[l[1]][n][SlotOf(l[2], n)]

(* The version of dependency d that lane l reads in memory.  It asks with   *)
(* task_id=None, so that d counts as STANDARD: it gets a plain version, or *)
(* the dictionary of a node inside a block, which it reads at its task.    *)
RecallAny(l, d) ==  \* slip: takes whichever version the dictionary has
    LET entry == versions[l[1]][d] IN
    IF entry = None THEN Hash(Val(l, d))
    ELSE entry[CHOOSE s \in Slot : entry[s] # None]
RecallOwn(l, d) ==  \* slip: takes every version for a dictionary
    LET entry == versions[l[1]][d] IN
    IF entry = None THEN Hash(Val(l, d)) ELSE entry[l[2]]
Recall(l, d) ==
    LET entry == versions[l[1]][d] IN
    IF entry = None THEN Hash(Val(l, d))
    ELSE IF entry[NoTask] # None THEN entry[NoTask]
    ELSE entry[l[2]]

Ignored == [mark |-> "<ignore>"]
Disabled(l, n, d) == [uuid |-> <<l, n, d>>]

DepVersion(l, n, d) ==
    CASE Behavior[l[1]][d] = "IGNORE"  -> Ignored
      [] Behavior[l[1]][d] = "DISABLE" -> Disabled(l, n, d)
      [] OTHER -> IF d \in InputNode THEN Hash(Val(l, d)) ELSE Recall(l, d)

CacheKeyWithoutCode(l, n) ==  \* slip: the key forgets the code version
    [node |-> n, code |-> 0, deps |-> [d \in Deps[n] |-> DepVersion(l, n, d)]]
CacheKeyPerTask(l, n) ==  \* slip: the task id is in the key
    [node |-> n, code |-> Code[l[1]][n], task |-> l[2],
     deps |-> [d \in Deps[n] |-> DepVersion(l, n, d)]]
CacheKey(l, n) ==
    [node |-> n, code |-> Code[l[1]][n],
     deps |-> [d \in Deps[n] |-> DepVersion(l, n, d)]]

KnownVersion(l, n, k) ==
    IF MemoryEntry(versions, l, n) # None THEN MemoryEntry(versions, l, n)
    ELSE IF k # None /\ k \in DOMAIN metadata THEN metadata[k]
    ELSE None

(* SQLite's INSERT OR IGNORE keeps the first version of a key; the         *)
(* dictionary of the in-memory store takes the last.                       *)
MetadataSet(k, v) ==
    IF OnDisk /\ k \in DOMAIN metadata THEN metadata ELSE Put(metadata, k, v)

-----------------------------------------------------------------------------
CaTypeOK ==
    /\ run \in [Run -> {"new", "on", "over", "crashed"}]
    /\ pc \in [Lane -> Stage]
    /\ node \in [Lane -> Node \cup {None}]
    /\ done \in [Lane -> SUBSET Node]
    /\ hit \in [Lane -> BOOLEAN]
    /\ \A l \in Lane : done[l] \subseteq TaskNode[l[2]]
    /\ \A r \in Run, n \in Node :
          /\ keys[r][n] = None \/ DOMAIN keys[r][n] = Slot
          /\ versions[r][n] = None \/ DOMAIN versions[r][n] = Slot
    /\ world \in 0..MaxWorld
    /\ crashes \in 0..MaxCrashes
    /\ deletes \in 0..MaxDeletes

CaInit ==
    /\ run = [r \in Run |-> "new"]
    /\ pc = [l \in Lane |-> "ready"]
    /\ node = [l \in Lane |-> None]
    /\ key = [l \in Lane |-> None]
    /\ ver = [l \in Lane |-> None]
    /\ val = [l \in Lane |-> PyNone]
    /\ hit = [l \in Lane |-> FALSE]
    /\ done = [l \in Lane |-> {}]
    /\ result = [l \in Lane |-> [n \in Node |-> PyNone]]
    /\ keys = [r \in Run |-> [n \in Node |-> None]]
    /\ versions = [r \in Run |-> [n \in Node |-> None]]
    /\ metadata = <<>>
    /\ files = <<>>
    /\ world = 0
    /\ crashes = 0
    /\ deletes = 0

-----------------------------------------------------------------------------
(* The run that calls the adapter.                                         *)
Finished(l) == done[l] = TaskNode[l[2]]
Failed(l) == pc[l] \in Failure
Started(l) == done[l] # {} \/ pc[l] # "ready"
InFlight(r) == {t \in Task : Started(<<r, t>>) /\ ~Finished(<<r, t>>)
                              /\ ~Failed(<<r, t>>)}
AnyFailed(r) == \E t \in Task : Failed(<<r, t>>)
Settled(r) ==
    \A t \in Task : \/ Finished(<<r, t>>) \/ Failed(<<r, t>>)
                    \/ ~Started(<<r, t>>) /\ AnyFailed(r)

(* pre_graph_execute: a new run id and empty dictionaries.                 *)
Begin(r) ==
    /\ run[r] = "new"
    /\ \A q \in 1..(r-1) : run[q] # "new" /\ (Overlap \/ run[q] # "on")
    /\ run' = [run EXCEPT ![r] = "on"]
    /\ UNCHANGED <<lanevars, done, result, keys, versions, metadata, files, world,
                   crashes, deletes>>

End(r) ==
    /\ run[r] = "on"
    /\ Settled(r)
    /\ run' = [run EXCEPT ![r] = "over"]
    /\ UNCHANGED <<lanevars, done, result, keys, versions, metadata, files, world,
                   crashes, deletes>>

(* A task starts once the tasks that feed it are done, a pool slot is free *)
(* and no task has failed.                                                 *)
MayStart(l) ==
    /\ ~AnyFailed(l[1])
    /\ Cardinality(InFlight(l[1])) < Workers
    /\ \A n \in TaskNode[l[2]] : \A d \in Deps[n] \ (InputNode \cup TaskNode[l[2]]) :
          d \in done[Source(l, d)]

MayTake(l, n) ==
    /\ run[l[1]] = "on"
    /\ pc[l] = "ready"
    /\ n \in TaskNode[l[2]] \ done[l]
    /\ \A d \in Deps[n] : d \in TaskNode[l[2]] => d \in done[l]
    /\ Started(l) \/ MayStart(l)

Stays(l, stage) == pc' = [pc EXCEPT ![l] = stage]

-----------------------------------------------------------------------------
(* pre_node_execute.                                                       *)
PreNodeUncached(l, n) ==
    /\ MayTake(l, n)
    /\ Behavior[l[1]][n] \in {"IGNORE", "DISABLE"}
    /\ node' = [node EXCEPT ![l] = n]
    /\ Stays(l, "execute")
    /\ UNCHANGED <<run, key, ver, val, hit, done, result, keys, versions, metadata,
                   files, world, crashes, deletes>>

AfterPre(r, n) == IF Behavior[r][n] = "DEFAULT" THEN "lookup" ELSE "execute"

PreNode(l, n) ==
    LET r == l[1]
        k == CacheKey(l, n) IN
    /\ MayTake(l, n)
    /\ Behavior[r][n] \in {"DEFAULT", "RECOMPUTE"}
    /\ node' = [node EXCEPT ![l] = n]
    /\ key' = [key EXCEPT ![l] = k]
    /\ \/ /\ \E d \in Deps[n] : k.deps[d] = None
          /\ Stays(l, "noneVersion")
          /\ UNCHANGED keys
       \/ /\ \A d \in Deps[n] : k.deps[d] # None
          /\ Nested(l[2], n) /\ keys[r][n] = None
          /\ Stays(l, "newKeys")
          /\ UNCHANGED keys
       \/ /\ \A d \in Deps[n] : k.deps[d] # None
          /\ ~(Nested(l[2], n) /\ keys[r][n] = None)
          /\ keys' = [keys EXCEPT ![r][n] =
                IF Nested(l[2], n) THEN [@ EXCEPT ![l[2]] = k] ELSE Fresh(NoTask, k)]
          /\ Stays(l, AfterPre(r, n))
    /\ UNCHANGED <<run, ver, val, hit, done, result, versions, metadata, files,
                   world, crashes, deletes>>

(* _set_cache_key found no dictionary and now assigns a new one, though    *)
(* another thread may have done so in the meantime.                        *)
NewKeys(l) ==
    LET r == l[1]
        n == node[l] IN
    /\ pc[l] = "newKeys"
    /\ keys' = [keys EXCEPT ![r][n] = Fresh(l[2], key[l])]
    /\ Stays(l, AfterPre(r, n))
    /\ UNCHANGED <<run, node, key, ver, val, hit, done, result, versions, metadata,
                   files, world, crashes, deletes>>

-----------------------------------------------------------------------------
(* do_node_execute.                                                        *)
Lookup(l) ==
    LET n == node[l]
        k == MemoryEntry(keys, l, n)
        v == KnownVersion(l, n, k) IN
    /\ pc[l] = "lookup"
    /\ key' = [key EXCEPT ![l] = k]
    /\ ver' = [ver EXCEPT ![l] = v]
    /\ Stays(l, IF v = None THEN "execute" ELSE "check")
    /\ UNCHANGED <<run, node, val, hit, done, result, keys, versions, metadata,
                   files, world, crashes, deletes>>

CheckExists(l) ==
    /\ pc[l] = "check"
    /\ Stays(l, IF ver[l] \in DOMAIN files THEN "fetch" ELSE "execute")
    /\ UNCHANGED <<run, node, key, ver, val, hit, done, result, keys, versions,
                   metadata, files, world, crashes, deletes>>

(* Result store get: a file that is gone reads as None, and one that was   *)
(* cut short raises an error the adapter does not catch.                   *)
Fetch(l) ==
    /\ pc[l] = "fetch"
    /\ \/ /\ ver[l] \in DOMAIN files
          /\ ~files[ver[l]].whole
          /\ Stays(l, "unreadable")
          /\ UNCHANGED <<val, hit>>
       \/ /\ ver[l] \in DOMAIN files => files[ver[l]].whole
          /\ val' = [val EXCEPT ![l] = IF ver[l] \in DOMAIN files
                                      THEN files[ver[l]].value ELSE PyNone]
          /\ hit' = [hit EXCEPT ![l] = TRUE]
          /\ Stays(l, "remember")
    /\ UNCHANGED <<run, node, key, ver, done, result, keys, versions, metadata,
                   files, world, crashes, deletes>>

Execute(l) ==
    LET n == node[l]
        b == Behavior[l[1]][n] IN
    /\ pc[l] = "execute"
    /\ val' = [val EXCEPT ![l] = Compute(l, n)]
    /\ IF b = "DISABLE"
       THEN Stays(l, "post") /\ UNCHANGED <<key, ver>>
       ELSE /\ ver' = [ver EXCEPT ![l] = DataVersion(n, Compute(l, n))]
            /\ key' = IF b = "DEFAULT" THEN key
                      ELSE [key EXCEPT ![l] = MemoryEntry(keys, l, n)]
            /\ Stays(l, "remember")
    /\ UNCHANGED <<run, node, hit, done, result, keys, versions, metadata, files,
                   world, crashes, deletes>>

ExecuteRaises(l) ==
    /\ pc[l] = "execute"
    /\ Stays(l, "raised")
    /\ UNCHANGED <<run, node, key, ver, val, hit, done, result, keys, versions,
                   metadata, files, world, crashes, deletes>>

AfterMemory(l) == IF hit[l] THEN "post" ELSE "record"

(* _set_memory_metadata, whose check and creation of the dictionary of a   *)
(* node inside a block are two steps.                                      *)
SetMemoryMetadata(l) ==
    LET r == l[1]
        n == node[l] IN
    /\ pc[l] = "remember"
    /\ IF Nested(l[2], n) /\ versions[r][n] = None
       THEN Stays(l, "newVersions") /\ UNCHANGED versions
       ELSE /\ versions' = [versions EXCEPT ![r][n] =
                  IF Nested(l[2], n) THEN [@ EXCEPT ![l[2]] = ver[l]]
                                     ELSE Fresh(NoTask, ver[l])]
            /\ Stays(l, AfterMemory(l))
    /\ UNCHANGED <<run, node, key, ver, val, hit, done, result, keys, metadata,
                   files, world, crashes, deletes>>

NewVersions(l) ==
    /\ pc[l] = "newVersions"
    /\ versions' = [versions EXCEPT ![l[1]][node[l]] = Fresh(l[2], ver[l])]
    /\ Stays(l, AfterMemory(l))
    /\ UNCHANGED <<run, node, key, ver, val, hit, done, result, keys, metadata,
                   files, world, crashes, deletes>>

SetStoredMetadata(l) ==
    /\ pc[l] = "record"
    /\ metadata' = MetadataSet(key[l], ver[l])
    /\ Stays(l, "post")
    /\ UNCHANGED <<run, node, key, ver, val, hit, done, result, keys, versions,
                   files, world, crashes, deletes>>

-----------------------------------------------------------------------------
(* post_node_execute, and the return of the node's value to the run.       *)
Bind(l) ==
    /\ done' = [done EXCEPT ![l] = @ \cup {node[l]}]
    /\ result' = [result EXCEPT ![l][node[l]] = val[l]]
    /\ node' = [node EXCEPT ![l] = None]
    /\ key' = [key EXCEPT ![l] = None]
    /\ ver' = [ver EXCEPT ![l] = None]
    /\ val' = [val EXCEPT ![l] = PyNone]
    /\ hit' = [hit EXCEPT ![l] = FALSE]
    /\ Stays(l, "ready")

PostNodeSkip(l) ==
    /\ pc[l] = "post"
    /\ Behavior[l[1]][node[l]] = "DISABLE"
    /\ Bind(l)
    /\ UNCHANGED <<run, keys, versions, metadata, files, world, crashes, deletes>>

PostNode(l) ==
    LET n == node[l]
        v == KnownVersion(l, n, MemoryEntry(keys, l, n)) IN
    /\ pc[l] = "post"
    /\ Behavior[l[1]][n] # "DISABLE"
    /\ \/ /\ v \in DOMAIN files
          /\ v # None
          /\ Bind(l)
       \/ /\ v \notin DOMAIN files \/ v = None
          /\ Stays(l, IF v = None THEN "unversioned"
                      ELSE IF OnDisk /\ n \in Unpicklable THEN "unpicklable"
                      ELSE IF OnDisk THEN "open" ELSE "write")
          /\ ver' = [ver EXCEPT ![l] = v]
          /\ UNCHANGED <<node, key, val, hit, done, result>>
    /\ UNCHANGED <<run, keys, versions, metadata, files, world, crashes, deletes>>

(* Path.write_bytes truncates the file before it writes it.                *)
OpenFile(l) ==
    /\ pc[l] = "open"
    /\ files' = Put(files, ver[l], [whole |-> FALSE, value |-> PyNone])
    /\ Stays(l, "write")
    /\ UNCHANGED <<run, node, key, ver, val, hit, done, result, keys, versions,
                   metadata, world, crashes, deletes>>

WriteFile(l) ==
    /\ pc[l] = "write"
    /\ files' = Put(files, ver[l], [whole |-> TRUE, value |-> val[l]])
    /\ Bind(l)
    /\ UNCHANGED <<run, keys, versions, metadata, world, crashes, deletes>>

-----------------------------------------------------------------------------
(* What happens around the adapter.                                        *)
ChangeWorld ==
    /\ world < MaxWorld
    /\ world' = world + 1
    /\ UNCHANGED <<run, lanevars, done, result, keys, versions, metadata, files,
                   crashes, deletes>>

(* The process of a run dies.                                              *)
Crash(r) ==
    /\ OnDisk
    /\ run[r] = "on"
    /\ crashes < MaxCrashes
    /\ crashes' = crashes + 1
    /\ run' = [run EXCEPT ![r] = "crashed"]
    /\ pc' = [l \in Lane |-> IF l[1] = r THEN "dead" ELSE pc[l]]
    /\ UNCHANGED <<node, key, ver, val, hit, done, result, keys, versions, metadata,
                   files, world, deletes>>

MayDelete ==
    /\ deletes < MaxDeletes
    /\ DeleteAnytime \/ \A r \in Run : run[r] # "on"
    /\ deletes' = deletes + 1

(* ResultStore.delete and MetadataStore.delete, called by a user.          *)
DeleteResult(v) ==
    /\ v \in DOMAIN files
    /\ MayDelete
    /\ files' = Drop(files, v)
    /\ UNCHANGED <<run, lanevars, done, result, keys, versions, metadata, world,
                   crashes>>

DeleteMetadata(k) ==
    /\ k \in DOMAIN metadata
    /\ MayDelete
    /\ metadata' = Drop(metadata, k)
    /\ UNCHANGED <<run, lanevars, done, result, keys, versions, files, world,
                   crashes>>

-----------------------------------------------------------------------------
LaneStep(l) ==
    \/ \E n \in Node : PreNodeUncached(l, n) \/ PreNode(l, n)
    \/ NewKeys(l) \/ Lookup(l) \/ CheckExists(l) \/ Fetch(l)
    \/ Execute(l) \/ ExecuteRaises(l)
    \/ SetMemoryMetadata(l) \/ NewVersions(l) \/ SetStoredMetadata(l)
    \/ PostNodeSkip(l) \/ PostNode(l) \/ OpenFile(l) \/ WriteFile(l)

CaNext ==
    \/ \E r \in Run : Begin(r) \/ End(r) \/ Crash(r)
    \/ \E l \in Lane : LaneStep(l)
    \/ ChangeWorld
    \/ \E v \in DOMAIN files : DeleteResult(v)
    \/ \E k \in DOMAIN metadata : DeleteMetadata(k)

(* Nothing stops a program from calling its next run or a thread from its  *)
(* next step; a crash, a deletion or a change of the world need not come.  *)
CaFairness ==
    /\ \A r \in Run : WF_cavars(Begin(r)) /\ WF_cavars(End(r))
    /\ \A l \in Lane : WF_cavars(LaneStep(l))

CaSpec == CaInit /\ [][CaNext]_cavars /\ CaFairness

-----------------------------------------------------------------------------
(* w is a value that node n of lane l may have: its node's, computed by    *)
(* the code of the run from the values the run has for the dependencies    *)
(* (those it ignores apart).                                               *)
ValueFor(l, n, w) ==
    /\ w # PyNone
    /\ w.node = n
    /\ w.code = Code[l[1]][n]
    /\ \A d \in Deps[n] :
          Behavior[l[1]][d] # "IGNORE" => w.args[d] = Val(l, d)

(* Whatever was executed and whatever was retrieved, in this run or in     *)
(* others, at the same time or before a crash: every value a run gets for  *)
(* a node is one its own code and its own inputs give.                     *)
RightResults ==
    \A l \in Lane : \A n \in done[l] : ValueFor(l, n, result[l][n])

(* What a cache key says of the result it points to.                       *)
Answers(k, v) ==
    /\ v.hash.node = k.node
    /\ v.hash.code = k.code
    /\ \A d \in DOMAIN k.deps :
          "hash" \in DOMAIN k.deps[d] => v.hash.args[d] = k.deps[d].hash

(* The stores never hold a lie for a later run to find: a cache key points *)
(* to the version of a result of that node, code and arguments, and a      *)
(* complete file holds the result its name is the hash of.                 *)
StoresAreSound ==
    /\ \A k \in DOMAIN metadata \ {None} : Answers(k, metadata[k])
    /\ \A v \in DOMAIN files : files[v].whole => v = Hash(files[v].value)

(* A node with the DEFAULT behavior is not executed when the store holds   *)
(* the complete result of executing it (a DISABLEd node it depends on      *)
(* forces it; an input does not).                                          *)
NoWastedWork ==
    \A l \in Lane :
        /\ pc[l] = "execute"
        /\ Behavior[l[1]][node[l]] = "DEFAULT"
        /\ \A d \in Deps[node[l]] \ InputNode : Behavior[l[1]][d] # "DISABLE"
        => LET v == Hash(Compute(l, node[l])) IN
           ~(v \in DOMAIN files /\ files[v].whole)

(* A node that does not read the world is executed by DEFAULT only when    *)
(* the result store has nothing under the name of its result, however many *)
(* runs share the stores, unless someone has deleted from them: what the   *)
(* store holds can be found.                                               *)
OnlyMissesAreComputed ==
    [][\A l \in Lane :
        /\ pc[l] \in {"lookup", "check"}
        /\ pc'[l] = "execute"
        /\ deletes = 0
        /\ node[l] \notin Impure
        => Hash(Compute(l, node[l])) \notin DOMAIN files]_cavars

(* A later run of the same code on the same arguments never gets an older  *)
(* reading of the world than an earlier run got.                           *)
NeverGoesBack ==
    \A p, q \in Lane : \A n \in done[p] \cap done[q] \cap Impure :
        /\ p[1] < q[1]
        /\ result[p][n].code = result[q][n].code
        /\ result[p][n].args = result[q][n].args
        => result[p][n].seen <= result[q][n].seen

(* The dependencies of a node all have a version when its key is made.     *)
VersionsAreKnown == \A l \in Lane : pc[l] # "noneVersion"

(* A result that was computed has a version when it is to be stored, as    *)
(* the assertion of post_node_execute says.                                *)
AlwaysVersioned == \A l \in Lane : pc[l] # "unversioned"

(* A stored result that cannot be read back is a miss, not an error.       *)
LoadFailureIsMiss == \A l \in Lane : pc[l] # "unreadable"

(* An IGNOREd node leaves nothing in the stores, whose files and keys are  *)
(* those of other nodes.                                                   *)
IgnoredLeaveNothing ==
    /\ None \notin DOMAIN metadata
    /\ \A l \in Lane : pc[l] # "unpicklable"

(* Caching makes no run fail: it ends with every task done, unless a node  *)
(* itself raised or the process died.                                      *)
RunsSucceed ==
    \A r \in Run : run[r] = "on" ~>
        \/ run[r] = "crashed"
        \/ /\ run[r] = "over"
           /\ \/ \E t \in Task : pc[<<r, t>>] = "raised"
              \/ \A t \in Task : Finished(<<r, t>>)
=============================================================================

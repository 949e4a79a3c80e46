------------------------- MODULE CacheAdapter_proofs -------------------------
(***************************************************************************)
(* The caching adapter gives right results and keeps its stores sound, for *)
(* every dataflow, history of runs, codes, inputs and behaviors, with runs *)
(* that overlap, threads that share a run's dictionaries, and crashes.     *)
(*                                                                         *)
(* What may be relied on is little, and CacheInv says what it is.  A value *)
(* in the dictionaries of a run is right if it is there at all: threads    *)
(* lose one another's entries, but never write into one another's slots.   *)
(* A key is right when it is made, since the results it is made from do    *)
(* not change.  An entry of the metadata store answers its key, which may  *)
(* say less than the node depends on (IGNORE), or more (DISABLE: a uuid    *)
(* that only one execution has).                                           *)
(***************************************************************************)
EXTENDS CacheAdapter, FiniteSetTheorems, TLAPS

(* What the theorems suppose: the versions of data savers do not tell what *)
(* was saved, and a deletion during a run takes away what was just found   *)
(* (the runs of MCCacheSaver and MCCacheDeleted); a node that several      *)
(* tasks of a run compute returns the same for the same cache key, since a *)
(* task whose version another one has dropped takes that of the key.       *)
NoneIsDistinct == (\A v : None # Hash(v)) /\ (\A f : None # [s \in Slot |-> f[s]])
RepeatedAreDetermined ==
    \A r \in Run, t \in Task : \A n \in TaskNode[t] :
        Nested(t, n) => n \notin Impure /\ \A d \in Deps[n] : Behavior[r][d] # "IGNORE"

Stuck == {"dead"} \cup Failure
Busy(l) == pc[l] \notin {"ready"} \cup Stuck
HasValue(l) == pc[l] \in {"remember", "newVersions", "record", "post", "open", "write"}

DepsDone(l, n) == \A d \in Deps[n] \ InputNode : d \in done[Source(l, d)]

(* A lane that does something belongs to a run that is on, and has a node  *)
(* whose dependencies are done; those outside of the task were done before *)
(* the task began.                                                         *)
LaneOK(l) ==
    /\ done[l] \subseteq TaskNode[l[2]]
    /\ \A n \in done[l] : DepsDone(l, n)
    /\ done[l] # {} \/ Busy(l) =>
          \A n \in TaskNode[l[2]] : \A d \in Deps[n] \ (InputNode \cup TaskNode[l[2]]) :
              d \in done[Source(l, d)]
    /\ Busy(l) => /\ run[l[1]] = "on"
                  /\ node[l] \in TaskNode[l[2]] \ done[l]
                  /\ DepsDone(l, node[l])
    /\ pc[l] \in {"newKeys", "newVersions"} => Nested(l[2], node[l])
LaneInv == \A l \in Lane : LaneOK(l)

(* w is a result of node n of lane l; the cache key of n, once its         *)
(* dependencies are done.                                                  *)
GoodValue(l, n, w) ==
    /\ w # PyNone
    /\ w = Term(n, Code[l[1]][n], w.args, w.seen)
    /\ w.args = [d \in Deps[n] |-> w.args[d]]
    /\ \A d \in Deps[n] : Behavior[l[1]][d] # "IGNORE" => w.args[d] = Val(l, d)
    /\ n \notin Impure => w.seen = 0

DepOf(l, n, d) ==
    CASE Behavior[l[1]][d] = "IGNORE"  -> Ignored
      [] Behavior[l[1]][d] = "DISABLE" -> Disabled(l, n, d)
      [] OTHER -> Hash(Val(l, d))
KeyOf(l, n) == [node |-> n, code |-> Code[l[1]][n], deps |-> [d \in Deps[n] |-> DepOf(l, n, d)]]

(* v is the version of what lane l has for node n, computed or found.      *)
Own(l, n, v, stages) ==
    IF n \in done[l] THEN v = Hash(result[l][n])
    ELSE \/ pc[l] \in Stuck
         \/ node[l] = n /\ pc[l] \in stages /\ v = Hash(val[l])

ValuesOK(l) ==
    /\ \A n \in done[l] : GoodValue(l, n, result[l][n])
    /\ HasValue(l) => GoodValue(l, node[l], val[l])
    /\ pc[l] \in {"check", "fetch"} =>
          ver[l] = Hash(ver[l].hash) /\ GoodValue(l, node[l], ver[l].hash)
    /\ pc[l] = "fetch" => ver[l] \in DOMAIN files
    /\ pc[l] \in {"remember", "newVersions", "record", "open", "write"} =>
          ver[l] = Hash(val[l])
ValuesInv == \A l \in Lane : ValuesOK(l)

KeyOK(l) ==
    /\ pc[l] = "ready" => key[l] = None
    /\ Busy(l) => key[l] \in {None, KeyOf(l, node[l])}
KeysInv ==
    \A l \in Lane :
        /\ KeyOK(l)
        /\ \A n \in TaskNode[l[2]] : MemoryEntry(keys, l, n) # None =>
              DepsDone(l, n) /\ MemoryEntry(keys, l, n) = KeyOf(l, n)

(* Threads may drop an entry of a repeated node, but not one of a node     *)
(* that only one task computes.                                            *)
Kept(l) ==
    /\ pc[l] \in {"record", "post"}
    /\ ~Nested(l[2], node[l])
    /\ Behavior[l[1]][node[l]] # "DISABLE"
    => MemoryEntry(versions, l, node[l]) = Hash(val[l])
OwnVersions ==
    \A l \in Lane : \A n \in TaskNode[l[2]] : MemoryEntry(versions, l, n) # None =>
        Own(l, n, MemoryEntry(versions, l, n), {"record", "post", "open", "write"})
OwnSlots(m) ==
    \A r \in Run, n \in Node, s \in Slot :
        m[r][n] # None /\ m[r][n][s] # None => \E t \in Task : n \in TaskNode[t] /\ s = SlotOf(t, n)
VersionsInv == OwnVersions /\ (\A l \in Lane : Kept(l)) /\ OwnSlots(versions)

(* v answers the cache key k, as far as k says.                            *)
Entry(k, v) ==
    /\ v = Hash(v.hash)
    /\ v.hash = Term(k.node, k.code, v.hash.args, v.hash.seen)
    /\ DOMAIN k.deps = Deps[k.node]
    /\ v.hash.args = [d \in Deps[k.node] |-> v.hash.args[d]]
    /\ \A d \in Deps[k.node] : "hash" \in DOMAIN k.deps[d] => v.hash.args[d] = k.deps[d].hash
    /\ k.node \notin Impure => v.hash.seen = 0

StoresInv ==
    /\ \A k \in DOMAIN metadata \ {None} :
          /\ Entry(k, metadata[k])
          /\ \A l \in Lane, n \in Node : \A d \in DOMAIN k.deps :
                k.deps[d] = Disabled(l, n, d) => Own(l, n, metadata[k], {"post", "open", "write"})
    /\ \A v \in DOMAIN files : files[v].whole => v = Hash(files[v].value)

IsMemory(m) ==
    /\ DOMAIN m = Run
    /\ \A r \in Run : DOMAIN m[r] = Node
    /\ \A r \in Run, n \in Node : m[r][n] = None \/ DOMAIN m[r][n] = Slot
Domains ==
    /\ DOMAIN run = Run
    /\ DOMAIN pc = Lane /\ DOMAIN node = Lane /\ DOMAIN key = Lane /\ DOMAIN ver = Lane
    /\ DOMAIN val = Lane /\ DOMAIN hit = Lane /\ DOMAIN done = Lane /\ DOMAIN result = Lane
    /\ \A l \in Lane : DOMAIN result[l] = Node
    /\ IsMemory(keys) /\ IsMemory(versions)

CacheInv == Domains /\ LaneInv /\ ValuesInv /\ KeysInv /\ VersionsInv /\ StoresInv

-----------------------------------------------------------------------------
(* The constants: where a value comes from, and whose slot is whose.       *)
LEMMA ConstantFacts ==
    /\ \A n \in Node : Deps[n] \subseteq Node
    /\ \A t \in Task : TaskNode[t] \subseteq Node \ InputNode
    /\ \A l \in Lane : l[1] \in Run /\ l[2] \in Task /\ l = <<l[1], l[2]>>
    /\ \A r \in Run, t \in Task : <<r, t>> \in Lane
    /\ \A r \in Run, n \in Node : Behavior[r][n] \in CachingBehavior
BY CacheAssumption DEF Lane

LEMMA SourceFacts ==
    ASSUME NEW l \in Lane, NEW n \in TaskNode[l[2]], NEW d \in Deps[n] \ InputNode
    PROVE  /\ Source(l, d) \in Lane
           /\ Source(l, d)[1] = l[1]
           /\ d \in TaskNode[Source(l, d)[2]]
           /\ d \in TaskNode[l[2]] => Source(l, d) = l
<1>1. CASE d \in TaskNode[l[2]]
  BY <1>1 DEF Source
<1>2. CASE d \notin TaskNode[l[2]]
  <2>1. l[1] \in Run /\ l[2] \in Task
    BY ConstantFacts
  <2>2. \E t \in Task : d \in TaskNode[t]
    BY <2>1, CacheAssumption
  <2>3. Home(d) \in Task /\ d \in TaskNode[Home(d)]
    BY <2>2 DEF Home
  <2>4. Source(l, d) = <<l[1], Home(d)>>
    BY <1>2 DEF Source
  <2>5. <<l[1], Home(d)>> \in Lane
    BY <2>1, <2>3, ConstantFacts
  <2> QED
    BY <1>2, <2>3, <2>4, <2>5
<1> QED
  BY <1>1, <1>2

(* A node that is not repeated is computed by one task; two tasks have two *)
(* slots for a node.                                                       *)
LEMMA StandardAlone ==
    ASSUME NEW t \in Task, NEW u \in Task, NEW n \in TaskNode[t], n \in TaskNode[u],
           ~Nested(t, n)
    PROVE  u = t
<1>1. n \in Node
  BY ConstantFacts
<1>2. t = NoTask \/ t = n
  BY DEF Nested
<1> QED
  BY <1>1, <1>2, CacheAssumption

LEMMA SlotFacts ==
    ASSUME NEW t \in Task, NEW u \in Task, NEW n \in TaskNode[t], n \in TaskNode[u],
           SlotOf(t, n) = SlotOf(u, n)
    PROVE  t = u
<1>1. CASE Nested(t, n) /\ Nested(u, n)
  BY <1>1 DEF SlotOf
<1>2. CASE ~Nested(t, n) \/ ~Nested(u, n)
  BY <1>2, StandardAlone
<1> QED
  BY <1>1, <1>2

LEMMA SlotType ==
    ASSUME NEW t \in Task, NEW n
    PROVE  SlotOf(t, n) \in Slot /\ NoTask \in Slot /\ t \in Slot
BY DEF SlotOf, Slot

(* What a write of lane l for node n makes of a dictionary of its run: its *)
(* own entry is there, others are as they were, or lost.                   *)
Written(m, m2, l, n, x) ==
    /\ IsMemory(m2)
    /\ MemoryEntry(m2, l, n) = x
    /\ \A k \in Lane : \A p \in TaskNode[k[2]] : ~(k = l /\ p = n) =>
          /\ MemoryEntry(m2, k, p) \in {None, MemoryEntry(m, k, p)}
          /\ ~Nested(k[2], p) \/ k[1] # l[1] => MemoryEntry(m2, k, p) = MemoryEntry(m, k, p)
    /\ OwnSlots(m) => OwnSlots(m2)

LEMMA MemoryUpdate ==
    ASSUME NoneIsDistinct, NEW m, IsMemory(m),
           NEW l \in Lane, NEW n \in TaskNode[l[2]], NEW x, NEW e,
           \/ e = Fresh(SlotOf(l[2], n), x)
           \/ m[l[1]][n] # None /\ e = [m[l[1]][n] EXCEPT ![SlotOf(l[2], n)] = x],
           NEW m2, m2 = [m EXCEPT ![l[1]][n] = e]
    PROVE  Written(m, m2, l, n, x)
<1> DEFINE r == l[1]
           s == SlotOf(l[2], n)
<1>1. r \in Run /\ l[2] \in Task /\ n \in Node /\ s \in Slot /\ l = <<r, l[2]>>
  BY ConstantFacts, SlotType
<1>2. /\ DOMAIN e = Slot /\ e[s] = x
      /\ \A u \in Slot : u # s => e[u] = None \/ (m[r][n] # None /\ e[u] = m[r][n][u])
      /\ e # None
  <2>1. CASE e = Fresh(s, x)
    <3>1. e = [u \in Slot |-> e[u]]
      BY <2>1 DEF Fresh
    <3> QED
      BY <1>1, <2>1, <3>1 DEF Fresh, NoneIsDistinct
  <2>2. CASE m[r][n] # None /\ e = [m[r][n] EXCEPT ![s] = x]
    <3>1. DOMAIN m[r][n] = Slot
      BY <1>1, <2>2 DEF IsMemory
    <3>2. e = [u \in Slot |-> IF u = s THEN x ELSE m[r][n][u]]
      BY <2>2, <3>1
    <3>3. e = [u \in Slot |-> e[u]]
      BY <3>2
    <3> QED
      BY <1>1, <2>2, <3>2, <3>3 DEF NoneIsDistinct
  <2> QED
    BY <2>1, <2>2
<1> HIDE DEF s
<1>3. /\ DOMAIN m2 = Run /\ \A q \in Run : DOMAIN m2[q] = Node
      /\ \A q \in Run, p \in Node : m2[q][p] = IF q = r /\ p = n THEN e ELSE m[q][p]
  BY <1>1 DEF IsMemory
<1>4. IsMemory(m2)
  BY <1>2, <1>3 DEF IsMemory
<1>5. MemoryEntry(m2, l, n) = x
  BY <1>1, <1>2, <1>3 DEF MemoryEntry, s
<1>6. ASSUME NEW k \in Lane, NEW p \in TaskNode[k[2]], ~(k = l /\ p = n)
      PROVE  /\ MemoryEntry(m2, k, p) \in {None, MemoryEntry(m, k, p)}
             /\ ~Nested(k[2], p) \/ k[1] # r => MemoryEntry(m2, k, p) = MemoryEntry(m, k, p)
  <2>1. k[1] \in Run /\ k[2] \in Task /\ p \in Node /\ k = <<k[1], k[2]>> /\ SlotOf(k[2], p) \in Slot
    BY ConstantFacts, SlotType
  <2>2. CASE k[1] = r /\ p = n
    <3>1. k[2] # l[2]
      BY <1>1, <1>6, <2>1, <2>2
    <3>2. SlotOf(k[2], p) # s /\ Nested(k[2], p)
      BY <1>1, <2>1, <2>2, <3>1, SlotFacts, StandardAlone DEF s
    <3> QED
      BY <1>1, <1>2, <1>3, <2>1, <2>2, <3>2 DEF MemoryEntry
  <2>3. CASE ~(k[1] = r /\ p = n)
    BY <1>3, <2>1, <2>3 DEF MemoryEntry
  <2> QED
    BY <2>2, <2>3
<1>7. ASSUME OwnSlots(m) PROVE OwnSlots(m2)
  <2> SUFFICES ASSUME NEW q \in Run, NEW p \in Node, NEW u \in Slot,
                      m2[q][p] # None, m2[q][p][u] # None
               PROVE  \E t \in Task : p \in TaskNode[t] /\ u = SlotOf(t, p)
    BY DEF OwnSlots
  <2>1. CASE q = r /\ p = n /\ u = s
    BY <1>1, <2>1 DEF s
  <2>2. CASE ~(q = r /\ p = n /\ u = s)
    <3>1. m[q][p] # None /\ m[q][p][u] # None
      BY <1>2, <1>3, <2>2
    <3> QED
      BY <1>7, <3>1 DEF OwnSlots
  <2> QED
    BY <2>1, <2>2
<1> QED
  BY <1>4, <1>5, <1>6, <1>7 DEF Written

-----------------------------------------------------------------------------
(* What the steps of a lane leave alone.                                   *)
Same(l) ==
    /\ pc'[l] = pc[l] /\ node'[l] = node[l] /\ key'[l] = key[l] /\ ver'[l] = ver[l]
    /\ val'[l] = val[l] /\ hit'[l] = hit[l] /\ done'[l] = done[l] /\ result'[l] = result[l]

LEMMA OtherLanes ==
    ASSUME Domains, NEW l \in Lane, LaneStep(l)
    PROVE  /\ \A k \in Lane \ {l} : Same(k)
           /\ UNCHANGED <<run, world, crashes, deletes>>
<1> USE DEF Domains, Same, Stays
<1>1. ASSUME NEW n \in Node, PreNodeUncached(l, n)
      PROVE  (\A k \in Lane \ {l} : Same(k)) /\ UNCHANGED <<run, world, crashes, deletes>>
  BY <1>1 DEF PreNodeUncached
<1>2. ASSUME NEW n \in Node, PreNode(l, n)
      PROVE  (\A k \in Lane \ {l} : Same(k)) /\ UNCHANGED <<run, world, crashes, deletes>>
  BY <1>2 DEF PreNode
<1>3. CASE NewKeys(l) \/ Lookup(l) \/ CheckExists(l)
  BY <1>3 DEF NewKeys, Lookup, CheckExists
<1>4. CASE Fetch(l)
  BY <1>4 DEF Fetch
<1>5. CASE Execute(l) \/ ExecuteRaises(l)
  BY <1>5 DEF Execute, ExecuteRaises
<1>6. CASE SetMemoryMetadata(l) \/ NewVersions(l) \/ SetStoredMetadata(l)
  BY <1>6 DEF SetMemoryMetadata, NewVersions, SetStoredMetadata
<1>7. CASE PostNodeSkip(l) \/ PostNode(l)
  BY <1>7 DEF PostNodeSkip, PostNode, Bind
<1>8. CASE OpenFile(l) \/ WriteFile(l)
  BY <1>8 DEF OpenFile, WriteFile, Bind
<1> QED
  BY <1>1, <1>2, <1>3, <1>4, <1>5, <1>6, <1>7, <1>8 DEF LaneStep

(* Bind ends a node; the other steps of a lane leave its results alone.    *)
LEMMA BindFacts ==
    ASSUME Domains, NEW l \in Lane, Bind(l), node[l] \in Node
    PROVE  /\ done'[l] = done[l] \cup {node[l]}
           /\ \A n \in Node : result'[l][n] = IF n = node[l] THEN val[l] ELSE result[l][n]
           /\ DOMAIN result'[l] = Node
           /\ pc'[l] = "ready" /\ key'[l] = None
BY DEF Domains, Bind, Stays

LEMMA OwnLane ==
    ASSUME Domains, NEW l \in Lane, LaneStep(l)
    PROVE  \/ UNCHANGED <<done, result>>
           \/ Bind(l) /\ pc[l] \in {"post", "write"}
BY DEF LaneStep, PreNodeUncached, PreNode, NewKeys, Lookup, CheckExists, Fetch, Execute,
       ExecuteRaises, SetMemoryMetadata, NewVersions, SetStoredMetadata, PostNodeSkip,
       PostNode, OpenFile, WriteFile

(* The steps that are not a lane's.                                        *)
LEMMA Around ==
    ASSUME [CaNext]_cavars, ~\E l \in Lane : LaneStep(l)
    PROVE  /\ UNCHANGED <<node, key, ver, val, hit, done, result, keys, versions>>
           /\ \/ \E r \in Run : Begin(r) \/ End(r) \/ Crash(r)
              \/ UNCHANGED <<run, pc>>
BY DEF CaNext, cavars, lanevars, Begin, End, Crash, ChangeWorld, DeleteResult, DeleteMetadata

(* What is done is done: its value, and so the arguments, the key and the  *)
(* right values of what depends on it, stay.                               *)
LEMMA Stable ==
    ASSUME Domains, LaneInv, [CaNext]_cavars
    PROVE  /\ \A l \in Lane : done[l] \subseteq done'[l]
           /\ \A l \in Lane : \A n \in done[l] : result'[l][n] = result[l][n]
           /\ \A l \in Lane : \A n \in TaskNode[l[2]] : DepsDone(l, n) =>
                 /\ DepsDone(l, n)'
                 /\ KeyOf(l, n)' = KeyOf(l, n)
                 /\ \A w : GoodValue(l, n, w) => GoodValue(l, n, w)'
<1>1. ASSUME NEW l \in Lane
      PROVE  done[l] \subseteq done'[l] /\ \A n \in done[l] : result'[l][n] = result[l][n]
  <2>1. CASE \E k \in Lane : LaneStep(k)
    <3>1. PICK k \in Lane : LaneStep(k)
      BY <2>1
    <3>2. CASE k # l
      BY <3>1, <3>2, OtherLanes DEF Same
    <3>3. CASE k = l /\ Bind(l) /\ pc[l] \in {"post", "write"}
      <4>1. Busy(l) /\ LaneOK(l)
        BY <3>3 DEF Busy, Stuck, Failure, LaneInv
      <4>2. node[l] \in TaskNode[l[2]] \ done[l] /\ done[l] \subseteq TaskNode[l[2]]
        BY <4>1 DEF LaneOK
      <4>3. TaskNode[l[2]] \subseteq Node
        BY ConstantFacts
      <4> QED
        BY <3>3, <4>2, <4>3, BindFacts
    <3> QED
      BY <3>1, <3>2, <3>3, OwnLane
  <2> QED
    BY <2>1, Around
<1>2. ASSUME NEW l \in Lane, NEW n \in TaskNode[l[2]], DepsDone(l, n)
      PROVE  /\ DepsDone(l, n)'
             /\ KeyOf(l, n)' = KeyOf(l, n)
             /\ \A w : GoodValue(l, n, w) => GoodValue(l, n, w)'
  <2>1. \A d \in Deps[n] \ InputNode : Source(l, d) \in Lane /\ d \in done[Source(l, d)]
    BY <1>2, SourceFacts DEF DepsDone
  <2>2. DepsDone(l, n)'
    BY <1>1, <2>1 DEF DepsDone
  <2>3. \A d \in Deps[n] : Val(l, d)' = Val(l, d)
    BY <1>1, <2>1 DEF Val
  <2>4. \A d \in Deps[n] : DepOf(l, n, d)' = DepOf(l, n, d)
    BY <2>3 DEF DepOf
  <2>5. KeyOf(l, n)' = KeyOf(l, n)
    BY <2>4 DEF KeyOf
  <2>6. \A w : GoodValue(l, n, w) => GoodValue(l, n, w)'
    BY <2>3 DEF GoodValue
  <2> QED
    BY <2>2, <2>5, <2>6
<1> QED
  BY <1>1, <1>2

-----------------------------------------------------------------------------
(* The writes to the dictionaries of a run.                                *)
Keyed(l, n) == PreNode(l, n) /\ \A d \in Deps[n] : CacheKey(l, n).deps[d] # None

LEMMA PreNodeWrites ==
    ASSUME NoneIsDistinct, Domains, NEW l \in Lane, NEW n \in Node, PreNode(l, n),
           keys' # keys \/ pc'[l] \notin {"noneVersion", "newKeys"}
    PROVE  n \in TaskNode[l[2]] /\ Written(keys, keys', l, n, CacheKey(l, n)) /\ Keyed(l, n)
<1> DEFINE k == CacheKey(l, n)
           e == IF Nested(l[2], n) THEN [keys[l[1]][n] EXCEPT ![l[2]] = k] ELSE Fresh(NoTask, k)
<1>1. /\ n \in TaskNode[l[2]]
      /\ \A d \in Deps[n] : k.deps[d] # None
      /\ ~(Nested(l[2], n) /\ keys[l[1]][n] = None)
      /\ keys' = [keys EXCEPT ![l[1]][n] =
            IF Nested(l[2], n) THEN [@ EXCEPT ![l[2]] = k] ELSE Fresh(NoTask, k)]
  BY DEF PreNode, MayTake, Stays, Domains
<1>2. keys' = [keys EXCEPT ![l[1]][n] = e]
  BY <1>1
<1>3. \/ e = Fresh(SlotOf(l[2], n), k)
      \/ keys[l[1]][n] # None /\ e = [keys[l[1]][n] EXCEPT ![SlotOf(l[2], n)] = k]
  BY <1>1 DEF SlotOf
<1> HIDE DEF e, k
<1>4. Written(keys, keys', l, n, k)
  BY <1>1, <1>2, <1>3, MemoryUpdate DEF Domains
<1> QED
  BY <1>1, <1>4 DEF k, Keyed

LEMMA NewKeysWrites ==
    ASSUME NoneIsDistinct, Domains, LaneInv, NEW l \in Lane, NewKeys(l)
    PROVE  node[l] \in TaskNode[l[2]] /\ Written(keys, keys', l, node[l], key[l])
<1> DEFINE n == node[l]
           e == Fresh(l[2], key[l])
<1>1. LaneOK(l) /\ pc[l] = "newKeys" /\ keys' = [keys EXCEPT ![l[1]][n] = e]
  BY DEF NewKeys, LaneInv
<1>2. n \in TaskNode[l[2]] /\ Nested(l[2], n)
  BY <1>1 DEF LaneOK, Busy, Stuck, Failure
<1>3. e = Fresh(SlotOf(l[2], n), key[l])
  BY <1>2 DEF SlotOf
<1> HIDE DEF e, n
<1>4. Written(keys, keys', l, n, key[l])
  BY <1>1, <1>2, <1>3, MemoryUpdate DEF Domains
<1> QED
  BY <1>2, <1>4 DEF n

LEMMA KeysWritten ==
    ASSUME NoneIsDistinct, Domains, LaneInv, NEW l \in Lane, LaneStep(l), keys' # keys
    PROVE  \E n \in TaskNode[l[2]] : \E x :
              /\ Written(keys, keys', l, n, x)
              /\ \/ Keyed(l, n) /\ x = CacheKey(l, n)
                 \/ NewKeys(l) /\ n = node[l] /\ x = key[l]
<1>1. (\E n \in Node : PreNode(l, n)) \/ NewKeys(l)
  BY DEF LaneStep, PreNodeUncached, Lookup, CheckExists, Fetch, Execute,
       ExecuteRaises, SetMemoryMetadata, NewVersions, SetStoredMetadata, PostNodeSkip,
       PostNode, OpenFile, WriteFile
<1> QED
  BY <1>1, PreNodeWrites, NewKeysWrites

LEMMA VersionsWritten ==
    ASSUME NoneIsDistinct, Domains, LaneInv, NEW l \in Lane, LaneStep(l)
    PROVE  \/ /\ UNCHANGED versions /\ ~NewVersions(l)
              /\ SetMemoryMetadata(l) => pc'[l] = "newVersions"
           \/ /\ Written(versions, versions', l, node[l], ver[l])
              /\ node[l] \in TaskNode[l[2]] \ done[l]
              /\ pc[l] \in {"remember", "newVersions"} /\ Stays(l, AfterMemory(l))
              /\ UNCHANGED <<node, key, ver, val, hit, done, result, keys, metadata, files>>
<1> USE DEF Domains
<1>1. CASE SetMemoryMetadata(l) /\ ~(Nested(l[2], node[l]) /\ versions[l[1]][node[l]] = None)
  <2> DEFINE n == node[l]
             e == IF Nested(l[2], n) THEN [versions[l[1]][n] EXCEPT ![l[2]] = ver[l]]
                  ELSE Fresh(NoTask, ver[l])
  <2>1. /\ LaneOK(l) /\ pc[l] = "remember" /\ Stays(l, AfterMemory(l))
        /\ versions' = [versions EXCEPT ![l[1]][n] =
              IF Nested(l[2], n) THEN [@ EXCEPT ![l[2]] = ver[l]] ELSE Fresh(NoTask, ver[l])]
        /\ UNCHANGED <<node, key, ver, val, hit, done, result, keys, metadata, files>>
    BY <1>1 DEF SetMemoryMetadata, LaneInv
  <2>2. n \in TaskNode[l[2]] \ done[l]
    BY <2>1 DEF LaneOK, Busy, Stuck, Failure
  <2>3. versions' = [versions EXCEPT ![l[1]][n] = e]
    BY <2>1
  <2>4. \/ e = Fresh(SlotOf(l[2], n), ver[l])
        \/ versions[l[1]][n] # None /\ e = [versions[l[1]][n] EXCEPT ![SlotOf(l[2], n)] = ver[l]]
    BY <1>1 DEF SlotOf
  <2> HIDE DEF e
  <2>5. Written(versions, versions', l, n, ver[l])
    BY <2>2, <2>3, <2>4, MemoryUpdate
  <2> QED
    BY <2>1, <2>2, <2>5
<1>2. CASE NewVersions(l)
  <2> DEFINE n == node[l]
             e == Fresh(l[2], ver[l])
  <2>1. /\ LaneOK(l) /\ pc[l] = "newVersions" /\ Stays(l, AfterMemory(l))
        /\ versions' = [versions EXCEPT ![l[1]][n] = e]
        /\ UNCHANGED <<node, key, ver, val, hit, done, result, keys, metadata, files>>
    BY <1>2 DEF NewVersions, LaneInv
  <2>2. n \in TaskNode[l[2]] \ done[l] /\ Nested(l[2], n)
    BY <2>1 DEF LaneOK, Busy, Stuck, Failure
  <2>3. e = Fresh(SlotOf(l[2], n), ver[l])
    BY <2>2 DEF SlotOf
  <2> HIDE DEF e
  <2>4. Written(versions, versions', l, n, ver[l])
    BY <2>1, <2>2, <2>3, MemoryUpdate
  <2> QED
    BY <2>1, <2>2, <2>4
<1>3. CASE ~NewVersions(l) /\ ~(SetMemoryMetadata(l) /\
              ~(Nested(l[2], node[l]) /\ versions[l[1]][node[l]] = None))
  <2>1. UNCHANGED versions
    BY <1>3 DEF LaneStep, PreNodeUncached, PreNode, NewKeys, Lookup, CheckExists, Fetch, Execute,
       ExecuteRaises, SetMemoryMetadata, SetStoredMetadata, PostNodeSkip,
       PostNode, OpenFile, WriteFile
  <2>2. SetMemoryMetadata(l) => pc'[l] = "newVersions"
    BY <1>3 DEF SetMemoryMetadata, Stays
  <2> QED
    BY <1>3, <2>1, <2>2
<1> QED
  BY <1>1, <1>2, <1>3

-----------------------------------------------------------------------------
(* A step of a lane takes its next node, goes on with it, or ends it.      *)
LEMMA LaneMoves ==
    ASSUME Domains, NEW l \in Lane, LaneStep(l)
    PROVE  \/ \E n \in Node : /\ MayTake(l, n) /\ node'[l] = n
                              /\ PreNode(l, n) \/ PreNodeUncached(l, n)
                              /\ pc'[l] = "newKeys" => Nested(l[2], n)
                              /\ pc'[l] \in {"noneVersion", "newKeys", "lookup", "execute"}
                              /\ UNCHANGED <<done, result>>
           \/ /\ Busy(l) /\ node'[l] = node[l]
              /\ pc'[l] \notin {"ready", "newKeys", "dead"}
              /\ pc'[l] = "newVersions" => Nested(l[2], node[l])
              /\ UNCHANGED <<done, result>>
           \/ Busy(l) /\ Bind(l) /\ pc[l] \in {"post", "write"}
<1> USE DEF Domains, Stays
<1>1. ASSUME NEW n \in Node, PreNodeUncached(l, n) \/ PreNode(l, n)
      PROVE  /\ MayTake(l, n) /\ node'[l] = n
             /\ PreNode(l, n) \/ PreNodeUncached(l, n)
             /\ pc'[l] = "newKeys" => Nested(l[2], n)
             /\ pc'[l] \in {"noneVersion", "newKeys", "lookup", "execute"}
             /\ UNCHANGED <<done, result>>
  <2>1. CASE PreNodeUncached(l, n)
    BY <2>1 DEF PreNodeUncached
  <2>2. CASE PreNode(l, n)
    <3>1. /\ MayTake(l, n) /\ node' = [node EXCEPT ![l] = n] /\ UNCHANGED <<done, result>>
          /\ \/ Stays(l, "noneVersion")
             \/ Nested(l[2], n) /\ Stays(l, "newKeys")
             \/ Stays(l, AfterPre(l[1], n))
      BY <2>2 DEF PreNode
    <3> QED
      BY <2>2, <3>1 DEF AfterPre
  <2> QED
    BY <1>1, <2>1, <2>2
<1> USE DEF Busy, Stuck, Failure
<1>2. CASE NewKeys(l) \/ Lookup(l) \/ CheckExists(l)
  BY <1>2 DEF NewKeys, Lookup, CheckExists, AfterPre
<1>3. CASE Fetch(l) \/ Execute(l) \/ ExecuteRaises(l)
  BY <1>3 DEF Fetch, Execute, ExecuteRaises
<1>4. CASE SetMemoryMetadata(l) \/ NewVersions(l) \/ SetStoredMetadata(l)
  BY <1>4 DEF SetMemoryMetadata, NewVersions, SetStoredMetadata, AfterMemory
<1>5. CASE PostNodeSkip(l) \/ PostNode(l)
  BY <1>5 DEF PostNodeSkip, PostNode
<1>6. CASE OpenFile(l) \/ WriteFile(l)
  BY <1>6 DEF OpenFile, WriteFile
<1> QED
  BY <1>1, <1>2, <1>3, <1>4, <1>5, <1>6 DEF LaneStep

LEMMA DomainsStep ==
    ASSUME NoneIsDistinct, Domains, LaneInv, [CaNext]_cavars
    PROVE  Domains'
<1>1. CASE \E l \in Lane : LaneStep(l)
  <2>1. PICK l \in Lane : LaneStep(l)
    BY <1>1
  <2>2. IsMemory(keys)'
    BY <2>1, KeysWritten DEF Written, Domains
  <2>3. IsMemory(versions)'
    BY <2>1, VersionsWritten DEF Written, Domains
  <2>4. /\ DOMAIN pc' = Lane /\ DOMAIN node' = Lane /\ DOMAIN key' = Lane /\ DOMAIN ver' = Lane
        /\ DOMAIN val' = Lane /\ DOMAIN hit' = Lane /\ DOMAIN done' = Lane
        /\ DOMAIN result' = Lane
    BY <2>1 DEF Domains, LaneStep, PreNodeUncached, PreNode, NewKeys, Lookup, CheckExists, Fetch,
       Execute, ExecuteRaises, SetMemoryMetadata, NewVersions, SetStoredMetadata, PostNodeSkip,
       PostNode, OpenFile, WriteFile, Bind, Stays
  <2>5. \A k \in Lane : DOMAIN result'[k] = Node
    <3>1. DOMAIN result'[l] = Node
      BY <2>1, OwnLane DEF Domains, Bind
    <3> QED
      BY <2>1, <3>1, OtherLanes DEF Same, Domains
  <2> QED
    BY <2>1, <2>2, <2>3, <2>4, <2>5, OtherLanes DEF Domains
<1>2. CASE ~\E l \in Lane : LaneStep(l)
  <2>1. UNCHANGED <<node, key, ver, val, hit, done, result, keys, versions>>
    BY <1>2, Around
  <2>2. DOMAIN run' = Run /\ DOMAIN pc' = Lane
    BY <1>2, Around DEF Domains, Begin, End, Crash, lanevars
  <2> QED
    BY <2>1, <2>2 DEF Domains, IsMemory
<1> QED
  BY <1>1, <1>2

LEMMA LaneInvStep ==
    ASSUME NoneIsDistinct, Domains, LaneInv, [CaNext]_cavars
    PROVE  LaneInv'
<1> SUFFICES ASSUME NEW l \in Lane PROVE LaneOK(l)'
  BY DEF LaneInv
<1>1. /\ l[1] \in Run /\ l[2] \in Task /\ LaneOK(l)
      /\ done[l] \subseteq TaskNode[l[2]] /\ TaskNode[l[2]] \subseteq Node
  BY ConstantFacts DEF LaneInv, LaneOK
(* The second conjunct and the conclusion of the third, once true.         *)
<1>2. ASSUME NEW n \in TaskNode[l[2]], DepsDone(l, n) PROVE DepsDone(l, n)'
  BY <1>2, Stable
<1>3. ASSUME \A n \in TaskNode[l[2]] : \A d \in Deps[n] \ (InputNode \cup TaskNode[l[2]]) :
                 d \in done[Source(l, d)]
      PROVE  \A n \in TaskNode[l[2]] : \A d \in Deps[n] \ (InputNode \cup TaskNode[l[2]]) :
                 d \in done'[Source(l, d)]
  <2> SUFFICES ASSUME NEW n \in TaskNode[l[2]], NEW d \in Deps[n] \ (InputNode \cup TaskNode[l[2]])
               PROVE  d \in done'[Source(l, d)]
    OBVIOUS
  <2>1. Source(l, d) \in Lane /\ d \in done[Source(l, d)]
    BY <1>3, SourceFacts
  <2> QED
    BY <2>1, Stable
(* A lane that stays where it is, or stops.                                *)
<1>4. ASSUME done'[l] = done[l], node'[l] = node[l], Busy(l)' => Busy(l) /\ run'[l[1]] = "on",
             pc'[l] \in {"newKeys", "newVersions"} => Nested(l[2], node[l])
      PROVE  LaneOK(l)'
  <2>1. \A n \in done'[l] : DepsDone(l, n)'
    BY <1>1, <1>2, <1>4 DEF LaneOK
  <2>2. Busy(l)' => /\ run'[l[1]] = "on"
                    /\ node'[l] \in TaskNode[l[2]] \ done'[l]
                    /\ DepsDone(l, node[l])'
    BY <1>1, <1>2, <1>4 DEF LaneOK
  <2>3. done'[l] # {} \/ Busy(l)' =>
          \A n \in TaskNode[l[2]] : \A d \in Deps[n] \ (InputNode \cup TaskNode[l[2]]) :
              d \in done'[Source(l, d)]
    BY <1>1, <1>3, <1>4 DEF LaneOK
  <2> QED
    BY <1>1, <1>4, <2>1, <2>2, <2>3 DEF LaneOK
<1>5. CASE LaneStep(l)
  <2>1. run' = run
    BY <1>5, OtherLanes
  <2>2. CASE \E n \in Node : /\ MayTake(l, n) /\ node'[l] = n
                             /\ pc'[l] = "newKeys" => Nested(l[2], n)
                             /\ pc'[l] \in {"noneVersion", "newKeys", "lookup", "execute"}
                             /\ UNCHANGED <<done, result>>
    <3>1. PICK n \in Node : /\ MayTake(l, n) /\ node'[l] = n
                            /\ pc'[l] = "newKeys" => Nested(l[2], n)
                            /\ pc'[l] \in {"noneVersion", "newKeys", "lookup", "execute"}
                            /\ UNCHANGED <<done, result>>
      BY <2>2
    <3>2. run[l[1]] = "on" /\ n \in TaskNode[l[2]] \ done[l]
      BY <3>1 DEF MayTake
    <3>3. \A m \in TaskNode[l[2]] : \A d \in Deps[m] \ (InputNode \cup TaskNode[l[2]]) :
              d \in done[Source(l, d)]
      BY <1>1, <3>1 DEF MayTake, Started, MayStart, LaneOK
    <3>4. DepsDone(l, n)
      <4> SUFFICES ASSUME NEW d \in Deps[n] \ InputNode PROVE d \in done[Source(l, d)]
        BY DEF DepsDone
      <4>1. CASE d \in TaskNode[l[2]]
        BY <3>1, <4>1 DEF MayTake, Source
      <4>2. CASE d \notin TaskNode[l[2]]
        BY <3>2, <3>3, <4>2
      <4> QED
        BY <4>1, <4>2
    <3>5. DepsDone(l, n)'
      BY <1>2, <3>2, <3>4
    <3>6. \A m \in done'[l] : DepsDone(l, m)'
      BY <1>1, <1>2, <3>1 DEF LaneOK
    <3> QED
      BY <1>1, <1>3, <2>1, <3>1, <3>2, <3>3, <3>5, <3>6 DEF LaneOK, DepsDone
  <2>3. CASE /\ Busy(l) /\ node'[l] = node[l] /\ pc'[l] \notin {"ready", "newKeys", "dead"}
             /\ pc'[l] = "newVersions" => Nested(l[2], node[l])
             /\ UNCHANGED <<done, result>>
    BY <1>1, <1>4, <2>1, <2>3 DEF LaneOK
  <2>4. CASE Busy(l) /\ Bind(l) /\ pc[l] \in {"post", "write"}
    <3>1. node[l] \in TaskNode[l[2]] /\ DepsDone(l, node[l])
      BY <1>1, <2>4 DEF LaneOK
    <3>2. done'[l] = done[l] \cup {node[l]} /\ pc'[l] = "ready"
      BY <1>1, <2>4, <3>1, BindFacts
    <3>3. \A m \in done'[l] : DepsDone(l, m)'
      BY <1>1, <1>2, <3>1, <3>2 DEF LaneOK
    <3> QED
      BY <1>1, <1>3, <2>4, <3>1, <3>2, <3>3 DEF LaneOK, Busy
  <2> QED
    BY <1>5, <2>2, <2>3, <2>4, LaneMoves
<1>6. CASE \E k \in Lane \ {l} : LaneStep(k)
  <2>1. Same(l) /\ run' = run
    BY <1>6, OtherLanes
  <2> QED
    BY <1>1, <1>4, <2>1 DEF Same, Busy, LaneOK
<1>7. CASE ~\E k \in Lane : LaneStep(k)
  <2>1. node' = node /\ done' = done
    BY <1>7, Around
  <2>2. CASE \E r \in Run : Begin(r)
    BY <1>1, <1>4, <2>1, <2>2 DEF Begin, Busy, LaneOK, Domains, lanevars
  <2>3. CASE \E r \in Run : End(r)
    <3>1. PICK r \in Run : End(r)
      BY <2>3
    <3>2. pc' = pc /\ run' = [run EXCEPT ![r] = "over"] /\ Settled(r)
      BY <3>1 DEF End, lanevars
    <3>3. l[1] = r => ~Busy(l)
      <4> SUFFICES ASSUME l[1] = r, Busy(l) PROVE FALSE
        OBVIOUS
      <4>1. l = <<r, l[2]>>
        BY ConstantFacts
      <4>2. Finished(l) \/ Failed(l) \/ ~Started(l)
        BY <1>1, <3>2, <4>1 DEF Settled
      <4> QED
        BY <1>1, <4>2 DEF Finished, Failed, Started, Busy, Stuck, LaneOK
    <3> QED
      BY <1>1, <1>4, <2>1, <3>2, <3>3 DEF Busy, LaneOK, Domains
  <2>4. CASE \E r \in Run : Crash(r)
    <3>1. PICK r \in Run : Crash(r)
      BY <2>4
    <3>2. /\ run' = [run EXCEPT ![r] = "crashed"]
          /\ pc'[l] = IF l[1] = r THEN "dead" ELSE pc[l]
      BY <3>1 DEF Crash
    <3> QED
      BY <1>1, <1>4, <2>1, <3>2 DEF Busy, Stuck, LaneOK, Domains
  <2>5. CASE UNCHANGED <<run, pc>>
    BY <1>1, <1>4, <2>1, <2>5 DEF Busy, LaneOK
  <2> QED
    BY <1>7, <2>2, <2>3, <2>4, <2>5, Around
<1> QED
  BY <1>5, <1>6, <1>7

-----------------------------------------------------------------------------
(* What a lane may take for its own.                                       *)

(* The key made from the versions in memory is the node's key: a version   *)
(* in memory, if there is one, is that of the dependency's result.         *)
LEMMA KeyMade ==
    ASSUME NoneIsDistinct, Domains, VersionsInv, NEW l \in Lane, NEW n \in TaskNode[l[2]],
           DepsDone(l, n), \A d \in Deps[n] : CacheKey(l, n).deps[d] # None
    PROVE  CacheKey(l, n) = KeyOf(l, n)
<1> SUFFICES ASSUME NEW d \in Deps[n] PROVE DepVersion(l, n, d) = DepOf(l, n, d)
  BY DEF CacheKey, KeyOf
<1>1. DepVersion(l, n, d) # None
  BY DEF CacheKey
<1>2. CASE Behavior[l[1]][d] \in {"IGNORE", "DISABLE"} \/ d \in InputNode
  BY <1>2 DEF DepVersion, DepOf
<1>3. CASE Behavior[l[1]][d] \notin {"IGNORE", "DISABLE"} /\ d \notin InputNode
  <2> DEFINE k == Source(l, d)
             entry == versions[l[1]][d]
  <2>1. DepVersion(l, n, d) = Recall(l, d) /\ DepOf(l, n, d) = Hash(Val(l, d))
    BY <1>3 DEF DepVersion, DepOf
  <2>2. /\ k \in Lane /\ k[1] = l[1] /\ d \in TaskNode[k[2]] /\ d \in done[k]
        /\ d \in TaskNode[l[2]] => k = l
    BY <1>3, SourceFacts DEF DepsDone
  <2>3. l[1] \in Run /\ l[2] \in Task /\ k[2] \in Task /\ d \in Node
    BY <2>2, ConstantFacts
  <2>4. Val(l, d) = result[k][d]
    BY <1>3 DEF Val
  <2>5. MemoryEntry(versions, k, d) # None => MemoryEntry(versions, k, d) = Hash(result[k][d])
    BY <2>2 DEF VersionsInv, OwnVersions, Own
  <2>6. entry # None => MemoryEntry(versions, k, d) = entry[SlotOf(k[2], d)]
    BY <2>2 DEF MemoryEntry
  <2>7. ASSUME entry # None, NEW s \in Slot, entry[s] # None, s = NoTask \/ s = l[2],
               s = l[2] => entry[NoTask] = None \/ NoTask = l[2]
        PROVE  entry[s] = Hash(Val(l, d))
    <3>1. PICK t \in Task : d \in TaskNode[t] /\ s = SlotOf(t, d)
      BY <2>3, <2>7 DEF VersionsInv, OwnSlots
    <3>2. t = k[2]
      <4>1. CASE ~Nested(t, d)
        BY <2>2, <2>3, <3>1, <4>1, StandardAlone
      <4>2. CASE Nested(t, d)
        <5>1. s = t /\ t # NoTask
          BY <3>1, <4>2 DEF SlotOf, Nested
        <5> QED
          BY <2>2, <2>7, <3>1, <5>1
      <4> QED
        BY <4>1, <4>2
    <3> QED
      BY <2>4, <2>5, <2>6, <2>7, <3>1, <3>2
  <2>8. NoTask \in Slot /\ l[2] \in Slot
    BY <2>3, SlotType
  <2>9. Recall(l, d) = Hash(Val(l, d))
    <3> HIDE DEF k
    <3>1. Recall(l, d) = IF entry = None THEN Hash(Val(l, d))
                         ELSE IF entry[NoTask] # None THEN entry[NoTask] ELSE entry[l[2]]
      BY DEF Recall
    <3>2. CASE entry = None
      BY <3>1, <3>2
    <3>3. CASE entry # None /\ entry[NoTask] # None
      BY <2>7, <2>8, <3>1, <3>3
    <3>4. CASE entry # None /\ entry[NoTask] = None
      <4>1. Recall(l, d) = entry[l[2]]
        BY <3>1, <3>4
      <4> QED
        BY <1>1, <2>1, <2>7, <2>8, <3>4, <4>1
    <3> QED
      BY <3>2, <3>3, <3>4
  <2> QED
    BY <2>1, <2>9
<1> QED
  BY <1>2, <1>3

(* What the metadata store says of a node's key is the version of a result *)
(* of the node: the one that only this execution can have stored, if the   *)
(* node depends on a DISABLEd one.                                         *)
LEMMA StoredVersion ==
    ASSUME StoresInv, NEW l \in Lane, NEW n \in TaskNode[l[2]],
           KeyOf(l, n) \in DOMAIN metadata, KeyOf(l, n) # None
    PROVE  LET v == metadata[KeyOf(l, n)] IN
           \/ Own(l, n, v, {"post", "open", "write"})
           \/ v = Hash(v.hash) /\ GoodValue(l, n, v.hash)
<1> DEFINE k == KeyOf(l, n)
           v == metadata[k]
<1>1. /\ k.node = n /\ k.code = Code[l[1]][n] /\ DOMAIN k.deps = Deps[n]
      /\ \A d \in Deps[n] : k.deps[d] = DepOf(l, n, d)
  BY DEF KeyOf
<1>2. Entry(k, v)
  BY DEF StoresInv
<1>3. CASE \E d \in Deps[n] : Behavior[l[1]][d] = "DISABLE"
  <2>1. PICK d \in Deps[n] : Behavior[l[1]][d] = "DISABLE"
    BY <1>3
  <2>2. k.deps[d] = Disabled(l, n, d) /\ n \in Node
    BY <1>1, <2>1, ConstantFacts DEF DepOf
  <2> QED
    BY <1>1, <2>2 DEF StoresInv
<1>4. CASE ~\E d \in Deps[n] : Behavior[l[1]][d] = "DISABLE"
  <2>1. \A d \in Deps[n] : Behavior[l[1]][d] # "IGNORE" => k.deps[d] = Hash(Val(l, d))
    BY <1>1, <1>4 DEF DepOf
  <2>2. \A d \in Deps[n] : Behavior[l[1]][d] # "IGNORE" => v.hash.args[d] = Val(l, d)
    <3> HIDE DEF k, v
    <3> SUFFICES ASSUME NEW d \in Deps[n], Behavior[l[1]][d] # "IGNORE"
                 PROVE  v.hash.args[d] = Val(l, d)
      OBVIOUS
    <3>1. k.deps[d] = Hash(Val(l, d))
      BY <2>1
    <3>2. "hash" \in DOMAIN k.deps[d] /\ k.deps[d].hash = Val(l, d)
      BY <3>1 DEF Hash
    <3> QED
      BY <1>1, <1>2, <3>2 DEF Entry
  <2>3. v.hash # PyNone
    BY <1>2 DEF Entry, Term, PyNone
  <2> QED
    BY <1>1, <1>2, <2>2, <2>3 DEF Entry, GoodValue
<1> QED
  BY <1>3, <1>4

(* Two results of a node that is determined by its key are one.            *)
LEMMA OneResult ==
    ASSUME NEW l \in Lane, NEW n \in TaskNode[l[2]], n \notin Impure,
           \A d \in Deps[n] : Behavior[l[1]][d] # "IGNORE",
           NEW v, NEW w, GoodValue(l, n, v), GoodValue(l, n, w)
    PROVE  v = w
<1>1. v.seen = 0 /\ w.seen = 0 /\ \A d \in Deps[n] : v.args[d] = w.args[d]
  BY DEF GoodValue
<1>2. v.args = [d \in Deps[n] |-> v.args[d]] /\ w.args = [d \in Deps[n] |-> w.args[d]]
  BY DEF GoodValue
<1>3. v.args = w.args
  BY <1>1, <1>2
<1>4. v = Term(n, Code[l[1]][n], v.args, v.seen) /\ w = Term(n, Code[l[1]][n], w.args, w.seen)
  BY DEF GoodValue
<1> QED
  BY <1>1, <1>3, <1>4

(* The version do_node_execute goes by.                                    *)
LEMMA LookedUp ==
    ASSUME NoneIsDistinct, LaneInv, KeysInv, VersionsInv, StoresInv, NEW l \in Lane,
           pc[l] = "lookup",
           NEW v, v = KnownVersion(l, node[l], MemoryEntry(keys, l, node[l])), v # None
    PROVE  v = Hash(v.hash) /\ GoodValue(l, node[l], v.hash)
<1> DEFINE n == node[l]
           k == MemoryEntry(keys, l, n)
<1>1. n \in TaskNode[l[2]] /\ n \notin done[l]
  BY DEF LaneInv, LaneOK, Busy, Stuck, Failure
<1>2. \A x, stages : Own(l, n, x, stages) => "lookup" \in stages
  BY <1>1 DEF Own, Stuck, Failure
<1>3. MemoryEntry(versions, l, n) = None
  BY <1>1, <1>2 DEF VersionsInv, OwnVersions
<1>4. v = metadata[k] /\ k # None /\ k \in DOMAIN metadata
  BY <1>3 DEF KnownVersion
<1>5. k = KeyOf(l, n)
  BY <1>1, <1>4 DEF KeysInv
<1> HIDE DEF n, k
<1>6. ~Own(l, n, v, {"post", "open", "write"})
  BY <1>2
<1> QED
  BY <1>1, <1>4, <1>5, <1>6, StoredVersion DEF n

(* The version post_node_execute goes by.                                  *)
LEMMA PostVersion ==
    ASSUME NoneIsDistinct, RepeatedAreDetermined, LaneInv, ValuesInv, KeysInv, VersionsInv,
           StoresInv, NEW l \in Lane, pc[l] = "post", Behavior[l[1]][node[l]] # "DISABLE",
           NEW v, v = KnownVersion(l, node[l], MemoryEntry(keys, l, node[l])), v # None
    PROVE  v = Hash(val[l])
<1> DEFINE n == node[l]
           k == MemoryEntry(keys, l, n)
<1>1. n \in TaskNode[l[2]] /\ n \notin done[l]
  BY DEF LaneInv, LaneOK, Busy, Stuck, Failure
<1>2. \A x, stages : Own(l, n, x, stages) => x = Hash(val[l])
  BY <1>1 DEF Own, Stuck, Failure
<1>3. CASE MemoryEntry(versions, l, n) # None
  BY <1>1, <1>2, <1>3 DEF VersionsInv, OwnVersions, KnownVersion
<1>4. CASE MemoryEntry(versions, l, n) = None
  <2>1. Nested(l[2], n)
    BY <1>4 DEF VersionsInv, Kept, NoneIsDistinct
  <2>2. v = metadata[k] /\ k # None /\ k \in DOMAIN metadata
    BY <1>4 DEF KnownVersion
  <2>3. k = KeyOf(l, n)
    BY <1>1, <2>2 DEF KeysInv
  <2>4. GoodValue(l, n, val[l])
    BY DEF ValuesInv, ValuesOK, HasValue
  <2> HIDE DEF n, k
  <2>5. CASE Own(l, n, v, {"post", "open", "write"})
    BY <1>2, <2>5
  <2>6. CASE v = Hash(v.hash) /\ GoodValue(l, n, v.hash)
    <3>1. n \notin Impure /\ \A d \in Deps[n] : Behavior[l[1]][d] # "IGNORE"
      BY <1>1, <2>1, ConstantFacts DEF RepeatedAreDetermined
    <3>2. v.hash = val[l]
      BY <1>1, <2>4, <2>6, <3>1, OneResult
    <3> QED
      BY <2>6, <3>2
  <2> QED
    BY <1>1, <2>2, <2>3, <2>5, <2>6, StoredVersion
<1> QED
  BY <1>3, <1>4

-----------------------------------------------------------------------------
(* Each part of CacheInv is kept by every step.                            *)

(* While a lane is busy with a node nothing is deleted.                    *)
LEMMA FilesKept ==
    ASSUME ~DeleteAnytime, Domains, LaneInv, [CaNext]_cavars, NEW l \in Lane, Busy(l)
    PROVE  DOMAIN files \subseteq DOMAIN files'
<1>1. l[1] \in Run /\ run[l[1]] = "on"
  BY ConstantFacts DEF LaneInv, LaneOK
<1>2. ~MayDelete
  BY <1>1 DEF MayDelete
<1>3. CASE \E k \in Lane : LaneStep(k)
  <2>1. PICK k \in Lane : LaneStep(k)
    BY <1>3
  <2>2. \/ UNCHANGED files
        \/ \E v, x : files' = Put(files, v, x)
    BY <2>1 DEF LaneStep, PreNodeUncached, PreNode, NewKeys, Lookup, CheckExists, Fetch,
       Execute, ExecuteRaises, SetMemoryMetadata, NewVersions, SetStoredMetadata,
       PostNodeSkip, PostNode, OpenFile, WriteFile
  <2> QED
    BY <2>2 DEF Put
<1>4. CASE ~\E k \in Lane : LaneStep(k)
  BY <1>2, <1>4 DEF CaNext, cavars, lanevars, Begin, End, Crash, ChangeWorld, DeleteResult,
       DeleteMetadata
<1> QED
  BY <1>3, <1>4

(* What a lane is busy with, and the lane's own results, other steps leave *)
(* alone; a crash stops it.                                                *)
LEMMA Elsewhere ==
    ASSUME Domains, [CaNext]_cavars, NEW l \in Lane, ~LaneStep(l)
    PROVE  \/ Same(l)
           \/ /\ pc'[l] = "dead"
              /\ node'[l] = node[l] /\ key'[l] = key[l] /\ val'[l] = val[l]
              /\ done'[l] = done[l] /\ result'[l] = result[l]
<1>1. CASE \E k \in Lane : LaneStep(k)
  BY <1>1, OtherLanes
<1>2. CASE ~\E k \in Lane : LaneStep(k)
  <2>1. UNCHANGED <<node, key, ver, val, hit, done, result>>
    BY <1>2, Around
  <2>2. pc'[l] \in {pc[l], "dead"}
    BY <1>2, Around DEF Begin, End, Crash, lanevars
  <2> QED
    BY <2>1, <2>2 DEF Same
<1> QED
  BY <1>1, <1>2

(* The values: a lane that takes its next node has none, one that ends a   *)
(* node had the right one.                                                 *)
LEMMA ValuesStep ==
    ASSUME Saver = {}, ~DeleteAnytime, NoneIsDistinct, RepeatedAreDetermined,
           Domains, LaneInv, ValuesInv, KeysInv, VersionsInv, StoresInv, [CaNext]_cavars
    PROVE  ValuesInv'
<1> SUFFICES ASSUME NEW l \in Lane PROVE ValuesOK(l)'
  BY DEF ValuesInv
<1>1. LaneOK(l) /\ ValuesOK(l) /\ TaskNode[l[2]] \subseteq Node /\ l[1] \in Run
  BY ConstantFacts DEF LaneInv, ValuesInv
<1>2. done[l] \subseteq TaskNode[l[2]] /\ (Busy(l) => node[l] \in TaskNode[l[2]] \ done[l])
  BY <1>1 DEF LaneOK
<1>3. \A n \in TaskNode[l[2]] : \A w :
          DepsDone(l, n) /\ GoodValue(l, n, w) => GoodValue(l, n, w)'
  BY Stable
(* The results that were there.                                            *)
<1>4. \A n \in done[l] : GoodValue(l, n, result[l][n])'
  <2> SUFFICES ASSUME NEW n \in done[l] PROVE GoodValue(l, n, result[l][n])'
    OBVIOUS
  <2>1. GoodValue(l, n, result[l][n]) /\ DepsDone(l, n) /\ n \in TaskNode[l[2]]
    BY <1>1, <1>2 DEF LaneOK, ValuesOK
  <2>2. result'[l][n] = result[l][n]
    BY Stable
  <2> QED
    BY <1>3, <2>1, <2>2
(* A lane that has the same results and is not about to look or to store.  *)
<1>5. ASSUME done'[l] = done[l],
             pc'[l] \notin {"check", "fetch", "remember", "newVersions", "record", "post",
                            "open", "write"}
      PROVE  ValuesOK(l)'
  BY <1>4, <1>5 DEF ValuesOK, HasValue
(* A lane that goes on with the value it has.                              *)
<1>6. ASSUME Busy(l), HasValue(l), UNCHANGED <<val[l], node[l], done[l]>>,
             pc'[l] \notin {"check", "fetch"},
             pc'[l] \in {"remember", "newVersions", "record", "open", "write"} =>
                 ver'[l] = Hash(val[l])
      PROVE  ValuesOK(l)'
  <2>1. GoodValue(l, node[l], val[l])'
    BY <1>1, <1>2, <1>3, <1>6 DEF LaneOK, ValuesOK
  <2> QED
    BY <1>4, <1>6, <2>1 DEF ValuesOK
(* A lane that ends a node.                                                *)
<1>7. ASSUME Busy(l), HasValue(l), Bind(l)
      PROVE  ValuesOK(l)'
  <2>1. /\ done'[l] = done[l] \cup {node[l]} /\ result'[l][node[l]] = val[l]
        /\ pc'[l] = "ready"
    BY <1>1, <1>2, <1>7, BindFacts
  <2>2. GoodValue(l, node[l], val[l]) /\ DepsDone(l, node[l]) /\ node[l] \in TaskNode[l[2]]
    BY <1>1, <1>2, <1>7 DEF LaneOK, ValuesOK
  <2>3. \A n \in {node[l]} : GoodValue(l, n, result[l][n])'
    BY <1>3, <2>1, <2>2
  <2>4. \A n \in done'[l] : GoodValue(l, n, result[l][n])'
    BY <1>4, <2>1, <2>3
  <2> QED
    BY <2>1, <2>4 DEF ValuesOK, HasValue
<1>8. CASE ~LaneStep(l)
  <2>1. CASE pc'[l] = "dead" /\ done'[l] = done[l]
    BY <1>5, <2>1
  <2>2. CASE Same(l)
    <3>1. CASE Busy(l)
      <4>1. node[l] \in TaskNode[l[2]] /\ DepsDone(l, node[l])
        BY <1>1, <1>2, <3>1 DEF LaneOK
      <4>2. HasValue(l)' => GoodValue(l, node[l], val[l])'
        BY <1>1, <1>3, <2>2, <4>1 DEF Same, HasValue, ValuesOK
      <4>3. pc'[l] \in {"check", "fetch"} =>
                ver'[l] = Hash(ver'[l].hash) /\ GoodValue(l, node[l], ver[l].hash)'
        BY <1>1, <1>3, <2>2, <4>1 DEF Same, ValuesOK
      <4>4. pc'[l] = "fetch" => ver'[l] \in DOMAIN files'
        BY <1>1, <2>2, <3>1, FilesKept DEF Same, ValuesOK
      <4>5. pc'[l] \in {"remember", "newVersions", "record", "open", "write"} =>
                ver'[l] = Hash(val'[l])
        BY <1>1, <2>2 DEF Same, ValuesOK
      <4>6. done'[l] = done[l]
        BY <2>2 DEF Same
      <4> QED
        BY <1>4, <4>2, <4>3, <4>4, <4>5, <4>6 DEF ValuesOK
    <3>2. CASE ~Busy(l)
      BY <1>5, <2>2, <3>2 DEF Same, Busy, Stuck, Failure
    <3> QED
      BY <3>1, <3>2
  <2> QED
    BY <1>8, <2>1, <2>2, Elsewhere
<1>9. CASE LaneStep(l)
  <2> USE DEF Domains, Stays
  <2> DEFINE n == node[l]
  <2>1. ASSUME NEW m \in Node, PreNodeUncached(l, m) \/ PreNode(l, m) PROVE ValuesOK(l)'
    BY <1>5, <2>1 DEF PreNodeUncached, PreNode, AfterPre
  <2>2. CASE NewKeys(l)
    BY <1>5, <2>2 DEF NewKeys, AfterPre
  <2>3. CASE Lookup(l)
    <3> DEFINE v == KnownVersion(l, n, MemoryEntry(keys, l, n))
    <3>1. /\ pc[l] = "lookup" /\ ver'[l] = v /\ node'[l] = n /\ done'[l] = done[l]
          /\ pc'[l] = IF v = None THEN "execute" ELSE "check"
      BY <2>3 DEF Lookup
    <3> HIDE DEF v
    <3>2. CASE v = None
      BY <1>5, <3>1, <3>2
    <3>3. CASE v # None
      <4>1. v = Hash(v.hash) /\ GoodValue(l, n, v.hash)
        BY <3>1, <3>3, LookedUp DEF v
      <4>2. n \in TaskNode[l[2]] /\ DepsDone(l, n)
        BY <1>1, <1>2, <3>1 DEF LaneOK, Busy, Stuck, Failure
      <4>3. GoodValue(l, node[l], ver[l].hash)'
        BY <1>3, <3>1, <4>1, <4>2
      <4> QED
        BY <1>4, <3>1, <3>3, <4>1, <4>3 DEF ValuesOK, HasValue
    <3> QED
      BY <3>2, <3>3
  <2>4. CASE CheckExists(l)
    <3>1. /\ pc[l] = "check" /\ ver'[l] = ver[l] /\ node'[l] = n /\ done'[l] = done[l]
          /\ pc'[l] = IF ver[l] \in DOMAIN files THEN "fetch" ELSE "execute"
          /\ files' = files
      BY <2>4 DEF CheckExists
    <3>2. n \in TaskNode[l[2]] /\ DepsDone(l, n)
      BY <1>1, <1>2, <3>1 DEF LaneOK, Busy, Stuck, Failure
    <3>3. ver[l] = Hash(ver[l].hash) /\ GoodValue(l, node[l], ver[l].hash)'
      BY <1>1, <1>3, <3>1, <3>2 DEF ValuesOK
    <3> QED
      BY <1>4, <3>1, <3>3 DEF ValuesOK, HasValue
  <2>5. CASE Fetch(l)
    <3>1. pc[l] = "fetch" /\ ver'[l] = ver[l] /\ node'[l] = n /\ done'[l] = done[l]
      BY <2>5 DEF Fetch
    <3>2. ver[l] = Hash(ver[l].hash) /\ GoodValue(l, n, ver[l].hash) /\ ver[l] \in DOMAIN files
      BY <1>1, <3>1 DEF ValuesOK
    <3>3. CASE pc'[l] = "unreadable"
      BY <1>5, <3>1, <3>3
    <3>4. CASE files[ver[l]].whole /\ val'[l] = files[ver[l]].value /\ pc'[l] = "remember"
      <4>1. ver[l] = Hash(files[ver[l]].value)
        BY <3>2, <3>4 DEF StoresInv
      <4>2. val'[l] = ver[l].hash
        BY <3>4, <4>1 DEF Hash
      <4>3. n \in TaskNode[l[2]] /\ DepsDone(l, n)
        BY <1>1, <1>2, <3>1 DEF LaneOK, Busy, Stuck, Failure
      <4>4. GoodValue(l, node[l], val[l])'
        BY <1>3, <3>1, <3>2, <4>2, <4>3
      <4> QED
        BY <1>4, <3>1, <3>2, <3>4, <4>2, <4>4 DEF ValuesOK
    <3> QED
      BY <2>5, <3>2, <3>3, <3>4 DEF Fetch
  <2>6. CASE Execute(l)
    <3> DEFINE w == Compute(l, n)
    <3>1. /\ pc[l] = "execute" /\ val'[l] = w /\ node'[l] = n /\ done'[l] = done[l]
          /\ pc'[l] = "post" \/ (pc'[l] = "remember" /\ ver'[l] = DataVersion(n, w))
      BY <2>6 DEF Execute
    <3>2. n \in TaskNode[l[2]] /\ DepsDone(l, n)
      BY <1>1, <1>2, <3>1 DEF LaneOK, Busy, Stuck, Failure
    <3>3. GoodValue(l, n, w)
      BY DEF Compute, GoodValue, Term, PyNone
    <3>4. GoodValue(l, node[l], val[l])'
      BY <1>3, <3>1, <3>2, <3>3
    <3>5. DataVersion(n, w) = Hash(w)
      BY DEF DataVersion
    <3> HIDE DEF w
    <3> QED
      BY <1>4, <3>1, <3>4, <3>5 DEF ValuesOK
  <2>7. CASE ExecuteRaises(l)
    BY <1>5, <2>7 DEF ExecuteRaises
  <2> USE DEF Busy, Stuck, Failure, HasValue
  <2>8. CASE SetMemoryMetadata(l) \/ NewVersions(l)
    <3>1. /\ pc[l] \in {"remember", "newVersions"} /\ pc'[l] \in {"newVersions", "post", "record"}
          /\ UNCHANGED <<node, ver, val, done>>
      BY <2>8 DEF SetMemoryMetadata, NewVersions, AfterMemory
    <3> QED
      BY <1>1, <1>6, <3>1 DEF ValuesOK
  <2>9. CASE SetStoredMetadata(l)
    BY <1>6, <2>9 DEF SetStoredMetadata
  <2>10. CASE PostNodeSkip(l)
    BY <1>7, <2>10 DEF PostNodeSkip
  <2>11. CASE PostNode(l)
    <3> DEFINE v == KnownVersion(l, n, MemoryEntry(keys, l, n))
    <3>1. /\ pc[l] = "post" /\ Behavior[l[1]][n] # "DISABLE"
          /\ \/ Bind(l)
             \/ /\ pc'[l] = IF v = None THEN "unversioned"
                            ELSE IF OnDisk /\ n \in Unpicklable THEN "unpicklable"
                            ELSE IF OnDisk THEN "open" ELSE "write"
                /\ ver'[l] = v
                /\ UNCHANGED <<node, val, done>>
      BY <2>11 DEF PostNode
    <3>2. v # None => v = Hash(val[l])
      BY <3>1, PostVersion
    <3> HIDE DEF v
    <3> QED
      BY <1>6, <1>7, <3>1, <3>2
  <2>12. CASE OpenFile(l)
    BY <1>1, <1>6, <2>12 DEF OpenFile, ValuesOK
  <2>13. CASE WriteFile(l)
    BY <1>7, <2>13 DEF WriteFile
  <2> QED
    BY <1>9, <2>1, <2>2, <2>3, <2>4, <2>5, <2>6, <2>7, <2>8, <2>9, <2>10, <2>11, <2>12, <2>13
       DEF LaneStep
<1> QED
  BY <1>8, <1>9

(* The keys: a lane's own, made now or long ago, is the key of its node.   *)
LEMMA KeysStep ==
    ASSUME NoneIsDistinct, Domains, LaneInv, KeysInv, VersionsInv, [CaNext]_cavars
    PROVE  KeysInv'
<1> SUFFICES ASSUME NEW l \in Lane
             PROVE  /\ KeyOK(l)'
                    /\ \A n \in TaskNode[l[2]] : MemoryEntry(keys, l, n)' # None =>
                          DepsDone(l, n)' /\ MemoryEntry(keys, l, n)' = KeyOf(l, n)'
  BY DEF KeysInv
<1>1. LaneOK(l) /\ KeyOK(l) /\ TaskNode[l[2]] \subseteq Node
  BY ConstantFacts DEF LaneInv, KeysInv
<1>2. \A n \in TaskNode[l[2]] : DepsDone(l, n) => DepsDone(l, n)' /\ KeyOf(l, n)' = KeyOf(l, n)
  BY Stable
<1>3. ASSUME NEW n \in TaskNode[l[2]], MemoryEntry(keys, l, n) # None
      PROVE  DepsDone(l, n)' /\ MemoryEntry(keys, l, n) = KeyOf(l, n)'
  BY <1>2, <1>3 DEF KeysInv
<1>4. Busy(l) => node[l] \in TaskNode[l[2]] /\ DepsDone(l, node[l])
  BY <1>1 DEF LaneOK
(* Making the key of a node.                                               *)
<1>5. ASSUME NEW n \in Node, Keyed(l, n)
      PROVE  /\ n \in TaskNode[l[2]] /\ DepsDone(l, n)'
             /\ CacheKey(l, n) = KeyOf(l, n)'
  <2>1. MayTake(l, n) /\ LaneStep(l)
    BY <1>5 DEF Keyed, PreNode, LaneStep
  <2>2. n \in TaskNode[l[2]] /\ run[l[1]] = "on" /\ pc[l] = "ready"
    BY <2>1 DEF MayTake
  <2>3. DepsDone(l, n)
    <3> SUFFICES ASSUME NEW d \in Deps[n] \ InputNode PROVE d \in done[Source(l, d)]
      BY DEF DepsDone
    <3>1. CASE d \in TaskNode[l[2]]
      BY <2>1, <3>1 DEF MayTake, Source
    <3>2. CASE d \notin TaskNode[l[2]]
      BY <1>1, <2>1, <2>2, <3>2 DEF MayTake, Started, MayStart, LaneOK
    <3> QED
      BY <3>1, <3>2
  <2>4. CacheKey(l, n) = KeyOf(l, n)
    BY <1>5, <2>2, <2>3, KeyMade DEF Keyed
  <2> QED
    BY <1>2, <2>2, <2>3, <2>4
<1>6. ASSUME NEW n \in TaskNode[l[2]], MemoryEntry(keys, l, n)' # None
      PROVE  DepsDone(l, n)' /\ MemoryEntry(keys, l, n)' = KeyOf(l, n)'
  <2>1. CASE keys' = keys
    BY <1>3, <1>6, <2>1 DEF MemoryEntry
  <2>2. CASE keys' # keys
    <3>1. PICK k \in Lane : LaneStep(k)
      BY <2>2, Around
    <3>2. PICK m \in TaskNode[k[2]] : \E x :
             /\ Written(keys, keys', k, m, x)
             /\ \/ Keyed(k, m) /\ x = CacheKey(k, m)
                \/ NewKeys(k) /\ m = node[k] /\ x = key[k]
      BY <2>2, <3>1, KeysWritten
    <3>3. CASE ~(k = l /\ m = n)
      <4>1. MemoryEntry(keys', l, n) \in {None, MemoryEntry(keys, l, n)}
        BY <3>2, <3>3 DEF Written
      <4>2. MemoryEntry(keys, l, n)' = MemoryEntry(keys', l, n)
        BY DEF MemoryEntry
      <4> QED
        BY <1>3, <1>6, <4>1, <4>2
    <3>4. CASE k = l /\ m = n
      <4>1. PICK x : /\ Written(keys, keys', l, n, x)
                     /\ \/ Keyed(l, n) /\ x = CacheKey(l, n)
                        \/ NewKeys(l) /\ n = node[l] /\ x = key[l]
        BY <3>2, <3>4
      <4>2. MemoryEntry(keys, l, n)' = x
        BY <4>1 DEF Written, MemoryEntry
      <4>3. CASE Keyed(l, n) /\ x = CacheKey(l, n)
        BY <1>1, <1>5, <4>2, <4>3
      <4>4. CASE NewKeys(l) /\ n = node[l] /\ x = key[l]
        <5>1. Busy(l) /\ x \in {None, KeyOf(l, n)}
          BY <1>1, <4>4 DEF NewKeys, KeyOK, Busy, Stuck, Failure
        <5> QED
          BY <1>2, <1>4, <1>6, <4>2, <4>4, <5>1
      <4> QED
        BY <4>1, <4>3, <4>4
    <3> QED
      BY <3>3, <3>4
  <2> QED
    BY <2>1, <2>2
<1>7. KeyOK(l)'
  <2> USE DEF Domains, Stays
  <2>1. ASSUME Busy(l), node'[l] = node[l], pc'[l] # "ready",
               key'[l] \in {key[l], MemoryEntry(keys, l, node[l])}
        PROVE  KeyOK(l)'
    <3>1. key[l] \in {None, KeyOf(l, node[l])}
      BY <1>1, <2>1 DEF KeyOK
    <3>2. MemoryEntry(keys, l, node[l]) \in {None, KeyOf(l, node[l])}
      BY <1>4, <2>1 DEF KeysInv
    <3>3. KeyOf(l, node[l])' = KeyOf(l, node[l])
      BY <1>2, <1>4, <2>1
    <3> QED
      BY <2>1, <3>1, <3>2, <3>3 DEF KeyOK
  <2>2. CASE ~LaneStep(l)
    <3>1. KeyOf(l, node[l])' = KeyOf(l, node[l]) \/ ~Busy(l) \/ pc'[l] = "dead"
      <4>1. CASE Busy(l) /\ Same(l)
        BY <1>2, <1>4, <4>1 DEF Same
      <4> QED
        BY <2>2, <4>1, Elsewhere
    <3> QED
      BY <1>1, <2>2, <3>1, Elsewhere DEF KeyOK, Same, Busy, Stuck
  <2>3. ASSUME NEW n \in Node, PreNodeUncached(l, n) PROVE KeyOK(l)'
    BY <1>1, <2>3 DEF PreNodeUncached, MayTake, KeyOK
  <2>4. ASSUME NEW n \in Node, PreNode(l, n) PROVE KeyOK(l)'
    <3>1. node'[l] = n /\ key'[l] = CacheKey(l, n) /\ pc'[l] # "ready"
      BY <2>4 DEF PreNode, AfterPre
    <3>2. CASE Keyed(l, n)
      <4>1. CacheKey(l, n) = KeyOf(l, n)'
        BY <1>5, <3>2
      <4> QED
        BY <3>1, <4>1 DEF KeyOK
    <3>3. CASE ~Keyed(l, n)
      BY <2>4, <3>1, <3>3 DEF PreNode, Keyed, KeyOK, Busy, Stuck, Failure
    <3> QED
      BY <3>2, <3>3
  <2>5. CASE Bind(l)
    BY <2>5 DEF Bind, KeyOK, Busy
  <2>6. ASSUME LaneStep(l), ~Bind(l), ~\E n \in Node : PreNodeUncached(l, n) \/ PreNode(l, n)
        PROVE  KeyOK(l)'
    <3>1. /\ Busy(l) /\ node'[l] = node[l] /\ pc'[l] # "ready"
      BY <2>6, LaneMoves
    <3>2. key'[l] \in {key[l], MemoryEntry(keys, l, node[l])}
      BY <2>6 DEF LaneStep, NewKeys, Lookup, CheckExists, Fetch, Execute, ExecuteRaises,
         SetMemoryMetadata, NewVersions, SetStoredMetadata, PostNodeSkip, PostNode, OpenFile,
         WriteFile
    <3> QED
      BY <2>1, <3>1, <3>2
  <2> QED
    BY <2>2, <2>3, <2>4, <2>5, <2>6
<1> QED
  BY <1>6, <1>7

(* What a lane owns stays its own until the node is done, and then is the  *)
(* result's for good.                                                      *)
LEMMA OwnKept ==
    ASSUME Domains, LaneInv, [CaNext]_cavars, NEW l \in Lane, NEW n \in Node, NEW v,
           NEW stages \in {{"record", "post", "open", "write"}, {"post", "open", "write"}},
           Own(l, n, v, stages)
    PROVE  Own(l, n, v, stages)'
<1>1. CASE n \in done[l]
  BY <1>1, Stable DEF Own
<1>2. CASE n \notin done[l] /\ ~LaneStep(l)
  BY <1>2, Elsewhere DEF Own, Same, Stuck
<1>3. CASE n \notin done[l] /\ LaneStep(l)
  <2>1. CASE pc[l] \in Stuck
    BY <1>3, <2>1, LaneMoves DEF MayTake, Busy, Stuck, Failure
  <2>2. CASE node[l] = n /\ pc[l] \in stages /\ v = Hash(val[l])
    <3>1. CASE Bind(l)
      <4>1. n \in done'[l] /\ result'[l][n] = val[l]
        BY <2>2, <3>1, BindFacts
      <4> QED
        BY <2>2, <4>1 DEF Own
    <3>2. CASE ~Bind(l)
      <4>1. done'[l] = done[l] /\ node'[l] = n
        BY <1>3, <2>2, <3>2, LaneMoves DEF MayTake
      <4>2. pc[l] \in {"record", "post", "open", "write"}
        BY <2>2
      <4>3. SetStoredMetadata(l) \/ PostNode(l) \/ OpenFile(l)
        BY <1>3, <3>2, <4>2 DEF LaneStep, PreNodeUncached, PreNode, MayTake, NewKeys, Lookup,
           CheckExists, Fetch, Execute, ExecuteRaises, SetMemoryMetadata, NewVersions,
           PostNodeSkip, WriteFile
      <4>4. val'[l] = val[l] /\ pc'[l] \in {"post", "open", "write"} \cup Failure
        BY <3>2, <4>3 DEF Domains, SetStoredMetadata, PostNode, OpenFile, Stays, Failure
      <4> QED
        BY <1>3, <2>2, <4>1, <4>4 DEF Own, Stuck
    <3> QED
      BY <3>1, <3>2
  <2> QED
    BY <1>3, <2>1, <2>2 DEF Own
<1> QED
  BY <1>1, <1>2, <1>3

(* The versions: an entry is its lane's own or lost; one that no other     *)
(* task can touch is there while the lane needs it.                        *)
LEMMA VersionsStep ==
    ASSUME Saver = {}, NoneIsDistinct, Domains, LaneInv, ValuesInv, VersionsInv, [CaNext]_cavars
    PROVE  VersionsInv'
<1> USE DEF Domains
(* Another lane's step, or none, changes an entry only by dropping it.     *)
<1>1. ASSUME NEW l \in Lane, NEW n \in TaskNode[l[2]], ~(LaneStep(l) /\ n = node[l])
      PROVE  /\ MemoryEntry(versions', l, n) \in {None, MemoryEntry(versions, l, n)}
             /\ ~Nested(l[2], n) =>
                    MemoryEntry(versions', l, n) = MemoryEntry(versions, l, n)
  <2>1. CASE versions' = versions
    BY <2>1
  <2>2. CASE versions' # versions
    <3>1. PICK k \in Lane : LaneStep(k)
      BY <2>2, Around
    <3>2. Written(versions, versions', k, node[k], ver[k])
      BY <2>2, <3>1, VersionsWritten
    <3> QED
      BY <1>1, <3>1, <3>2 DEF Written
  <2> QED
    BY <2>1, <2>2
(* A lane's own write.                                                     *)
<1>2. ASSUME NEW l \in Lane, LaneStep(l),
             Written(versions, versions', l, node[l], ver[l]),
             pc[l] \in {"remember", "newVersions"}, Stays(l, AfterMemory(l)),
             UNCHANGED <<node, val>>
      PROVE  /\ MemoryEntry(versions', l, node[l]) = Hash(val[l])
             /\ pc'[l] \in {"record", "post"} /\ node'[l] = node[l] /\ val'[l] = val[l]
  <2>1. ver[l] = Hash(val[l])
    BY <1>2 DEF ValuesInv, ValuesOK
  <2> QED
    BY <1>2, <2>1 DEF Written, Stays, AfterMemory
<1>3. OwnVersions'
  <2> DEFINE S == {"record", "post", "open", "write"}
  <2> SUFFICES ASSUME NEW l \in Lane, NEW n \in TaskNode[l[2]], NEW v, v # None,
                      v = MemoryEntry(versions', l, n)
               PROVE  Own(l, n, v, S)'
    BY DEF OwnVersions, MemoryEntry
  <2>1. n \in Node
    BY ConstantFacts
  <2>2. CASE v = MemoryEntry(versions, l, n)
    <3>1. Own(l, n, v, S)
      BY <2>2 DEF VersionsInv, OwnVersions
    <3> QED
      BY <2>1, <3>1, OwnKept
  <2>3. CASE v # MemoryEntry(versions, l, n)
    <3>1. LaneStep(l) /\ n = node[l] /\ versions' # versions
      BY <1>1, <2>3
    <3>2. /\ Written(versions, versions', l, node[l], ver[l])
          /\ node[l] \in TaskNode[l[2]] \ done[l]
          /\ pc[l] \in {"remember", "newVersions"} /\ Stays(l, AfterMemory(l))
          /\ UNCHANGED <<node, val, done>>
      BY <3>1, VersionsWritten
    <3>3. v = Hash(val'[l]) /\ pc'[l] \in S /\ node'[l] = n
      BY <1>2, <3>1, <3>2
    <3> QED
      BY <3>1, <3>2, <3>3 DEF Own
  <2> QED
    BY <2>2, <2>3
<1>4. ASSUME NEW l \in Lane PROVE Kept(l)'
  <2> SUFFICES ASSUME pc'[l] \in {"record", "post"}, ~Nested(l[2], node'[l]),
                      Behavior[l[1]][node'[l]] # "DISABLE"
               PROVE  MemoryEntry(versions', l, node'[l]) = Hash(val'[l])
    BY DEF Kept, MemoryEntry
  <2>1. LaneOK(l) /\ Kept(l)
    BY DEF LaneInv, VersionsInv
  <2>2. CASE ~LaneStep(l)
    <3>1. Same(l)
      BY <2>2, Elsewhere
    <3>2. node[l] \in TaskNode[l[2]]
      BY <2>1, <3>1 DEF Same, LaneOK, Busy, Stuck, Failure
    <3>3. MemoryEntry(versions', l, node[l]) = MemoryEntry(versions, l, node[l])
      BY <1>1, <2>2, <3>1, <3>2 DEF Same
    <3> QED
      BY <2>1, <3>1, <3>3 DEF Same, Kept
  <2>3. CASE LaneStep(l)
    <3>1. CASE /\ Written(versions, versions', l, node[l], ver[l])
               /\ pc[l] \in {"remember", "newVersions"} /\ Stays(l, AfterMemory(l))
               /\ UNCHANGED <<node, val>>
      BY <1>2, <2>3, <3>1
    <3>2. CASE /\ UNCHANGED versions /\ ~NewVersions(l)
               /\ SetMemoryMetadata(l) => pc'[l] = "newVersions"
      <4>1. SetStoredMetadata(l) \/ (Execute(l) /\ pc'[l] = "post")
        <5>1. ~\E n \in Node : PreNodeUncached(l, n) \/ PreNode(l, n)
          <6>1. ASSUME NEW n \in Node, PreNode(l, n)
                PROVE  pc'[l] \in {"noneVersion", "newKeys", AfterPre(l[1], n)}
            BY <6>1 DEF PreNode, Stays
          <6> QED
            BY <6>1 DEF PreNodeUncached, AfterPre, Stays
        <5>2. ~NewKeys(l) /\ ~Lookup(l) /\ ~CheckExists(l)
          BY DEF NewKeys, Lookup, CheckExists, AfterPre, Stays
        <5>3. ~Fetch(l) /\ ~ExecuteRaises(l) /\ (Execute(l) => pc'[l] = "post")
          BY DEF Fetch, ExecuteRaises, Execute, Stays
        <5>4. ~SetMemoryMetadata(l) /\ ~NewVersions(l)
          BY <3>2
        <5>5. ~PostNodeSkip(l) /\ ~PostNode(l) /\ ~OpenFile(l) /\ ~WriteFile(l)
          BY DEF PostNodeSkip, PostNode, OpenFile, WriteFile, Bind, Stays
        <5> QED
          BY <2>3, <5>1, <5>2, <5>3, <5>4, <5>5 DEF LaneStep
      <4>2. CASE SetStoredMetadata(l)
        BY <2>1, <3>2, <4>2 DEF SetStoredMetadata, Kept
      <4>3. CASE Execute(l) /\ pc'[l] = "post"
        BY <4>3 DEF Execute, Stays
      <4> QED
        BY <4>1, <4>2, <4>3
    <3> QED
      BY <2>3, <3>1, <3>2, VersionsWritten
  <2> QED
    BY <2>2, <2>3
<1>5. OwnSlots(versions)'
  <2>1. CASE versions' = versions
    BY <2>1 DEF VersionsInv, OwnSlots
  <2>2. CASE versions' # versions
    <3>1. PICK k \in Lane : LaneStep(k)
      BY <2>2, Around
    <3>2. Written(versions, versions', k, node[k], ver[k])
      BY <2>2, <3>1, VersionsWritten
    <3>3. OwnSlots(versions')
      BY <3>2 DEF Written, VersionsInv
    <3> QED
      BY <3>3 DEF OwnSlots
  <2> QED
    BY <2>1, <2>2
<1> QED
  BY <1>3, <1>4, <1>5 DEF VersionsInv

(* The stores: a recorded version answers its key, and that of a node that *)
(* depends on a DISABLEd one belongs to the lane that recorded it.         *)
LEMMA Recorded ==
    ASSUME NEW l \in Lane, NEW n \in TaskNode[l[2]], NEW w, GoodValue(l, n, w)
    PROVE  Entry(KeyOf(l, n), Hash(w))
<1> DEFINE k == KeyOf(l, n)
<1>1. /\ k.node = n /\ k.code = Code[l[1]][n] /\ DOMAIN k.deps = Deps[n]
      /\ \A d \in Deps[n] : k.deps[d] = DepOf(l, n, d)
  BY DEF KeyOf
<1>2. Hash(w).hash = w
  BY DEF Hash
<1>3. ASSUME NEW d \in Deps[n], "hash" \in DOMAIN DepOf(l, n, d)
      PROVE  w.args[d] = DepOf(l, n, d).hash
  <2>1. DepOf(l, n, d) # Ignored /\ DepOf(l, n, d) # Disabled(l, n, d)
    BY <1>3 DEF Ignored, Disabled
  <2>2. DepOf(l, n, d) = Hash(Val(l, d)) /\ Behavior[l[1]][d] # "IGNORE"
    BY <2>1 DEF DepOf
  <2> QED
    BY <2>2 DEF GoodValue, Hash
<1> HIDE DEF k
<1> QED
  BY <1>1, <1>2, <1>3 DEF Entry, GoodValue, k

LEMMA StoreWrites ==
    ASSUME [CaNext]_cavars
    PROVE  /\ \/ UNCHANGED metadata
              \/ \E l \in Lane : SetStoredMetadata(l)
              \/ \E k : metadata' = Drop(metadata, k)
           /\ \/ UNCHANGED files
              \/ \E l \in Lane : OpenFile(l) \/ WriteFile(l)
              \/ \E v : files' = Drop(files, v)
<1>1. CASE \E l \in Lane : LaneStep(l)
  <2>1. PICK l \in Lane : LaneStep(l)
    BY <1>1
  <2>2. UNCHANGED metadata \/ SetStoredMetadata(l)
    BY <2>1 DEF LaneStep, PreNodeUncached, PreNode, NewKeys, Lookup, CheckExists, Fetch, Execute,
       ExecuteRaises, SetMemoryMetadata, NewVersions, PostNodeSkip, PostNode, OpenFile, WriteFile
  <2>3. UNCHANGED files \/ OpenFile(l) \/ WriteFile(l)
    BY <2>1 DEF LaneStep, PreNodeUncached, PreNode, NewKeys, Lookup, CheckExists, Fetch, Execute,
       ExecuteRaises, SetMemoryMetadata, NewVersions, SetStoredMetadata, PostNodeSkip, PostNode
  <2> QED
    BY <2>2, <2>3
<1>2. CASE ~\E l \in Lane : LaneStep(l)
  BY <1>2 DEF CaNext, cavars, lanevars, Begin, End, Crash, ChangeWorld, DeleteResult,
     DeleteMetadata
<1> QED
  BY <1>1, <1>2

LEMMA StoresStep ==
    ASSUME Domains, LaneInv, ValuesInv, KeysInv, StoresInv, [CaNext]_cavars
    PROVE  StoresInv'
<1>1. ASSUME NEW k \in DOMAIN metadata' \ {None}
      PROVE  /\ Entry(k, metadata'[k])
             /\ \A l \in Lane, n \in Node : \A d \in DOMAIN k.deps :
                   k.deps[d] = Disabled(l, n, d) =>
                       Own(l, n, metadata[k], {"post", "open", "write"})'
  <2>1. CASE k \in DOMAIN metadata /\ metadata'[k] = metadata[k]
    <3>1. Entry(k, metadata[k])
      BY <2>1 DEF StoresInv
    <3>2. ASSUME NEW l \in Lane, NEW n \in Node, NEW d \in DOMAIN k.deps,
                 k.deps[d] = Disabled(l, n, d)
          PROVE  Own(l, n, metadata[k], {"post", "open", "write"})'
      <4>1. PICK v : v = metadata[k]
        OBVIOUS
      <4>2. Own(l, n, v, {"post", "open", "write"})
        BY <2>1, <3>2, <4>1 DEF StoresInv
      <4>3. Own(l, n, v, {"post", "open", "write"})'
        BY <4>2, OwnKept
      <4> QED
        BY <2>1, <4>1, <4>3
    <3> QED
      BY <2>1, <3>1, <3>2
  <2>2. CASE ~(k \in DOMAIN metadata /\ metadata'[k] = metadata[k])
    <3>1. PICK l \in Lane : SetStoredMetadata(l)
      BY <1>1, <2>2, StoreWrites DEF Drop
    <3> DEFINE n == node[l]
    <3>2. /\ pc[l] = "record" /\ pc'[l] = "post" /\ metadata' = MetadataSet(key[l], ver[l])
          /\ UNCHANGED <<node, val, done>>
      BY <3>1 DEF SetStoredMetadata, Stays, Domains
    <3>3. k = key[l] /\ metadata'[k] = ver[l]
      BY <1>1, <2>2, <3>2 DEF MetadataSet, Put
    <3>4. n \in TaskNode[l[2]] /\ n \notin done[l]
      BY <3>2 DEF LaneInv, LaneOK, Busy, Stuck, Failure
    <3>5. k = KeyOf(l, n) /\ ver[l] = Hash(val[l]) /\ GoodValue(l, n, val[l])
      BY <1>1, <3>2, <3>3 DEF KeysInv, KeyOK, ValuesInv, ValuesOK, HasValue, Busy, Stuck, Failure
    <3>6. Entry(k, metadata'[k])
      BY <3>3, <3>4, <3>5, Recorded
    <3>7. ASSUME NEW m \in Lane, NEW p \in Node, NEW d \in DOMAIN k.deps,
                 k.deps[d] = Disabled(m, p, d)
          PROVE  Own(m, p, metadata[k], {"post", "open", "write"})'
      <4>1. d \in Deps[n] /\ k.deps[d] = DepOf(l, n, d)
        BY <3>5 DEF KeyOf
      <4>2. Disabled(m, p, d) # Ignored /\ \A w : Disabled(m, p, d) # Hash(w)
        BY DEF Disabled, Ignored, Hash
      <4>3. Disabled(m, p, d) = Disabled(l, n, d)
        BY <3>7, <4>1, <4>2 DEF DepOf
      <4>4. m = l /\ p = n
        BY <4>3 DEF Disabled
      <4> QED
        BY <3>2, <3>3, <3>4, <3>5, <4>4 DEF Own
    <3> QED
      BY <3>6, <3>7
  <2> QED
    BY <2>1, <2>2
<1>2. ASSUME NEW v \in DOMAIN files', files'[v].whole
      PROVE  v = Hash(files'[v].value)
  <2>1. CASE v \in DOMAIN files /\ files'[v] = files[v]
    BY <1>2, <2>1 DEF StoresInv
  <2>2. CASE ~(v \in DOMAIN files /\ files'[v] = files[v])
    <3>1. PICK l \in Lane : OpenFile(l) \/ WriteFile(l)
      BY <1>2, <2>2, StoreWrites DEF Drop
    <3>2. CASE OpenFile(l)
      BY <1>2, <2>2, <3>2 DEF OpenFile, Put
    <3>3. CASE WriteFile(l)
      <4>1. ver[l] = Hash(val[l])
        BY <3>3 DEF WriteFile, ValuesInv, ValuesOK
      <4> QED
        BY <1>2, <2>2, <3>3, <4>1 DEF WriteFile, Put
    <3> QED
      BY <3>1, <3>2, <3>3
  <2> QED
    BY <2>1, <2>2
<1> QED
  BY <1>1, <1>2 DEF StoresInv

-----------------------------------------------------------------------------
LEMMA CacheInit ==
    ASSUME CaInit
    PROVE  CacheInv
<1> USE DEF CaInit
<1>1. Domains
  BY DEF Domains, IsMemory
<1>2. LaneInv
  BY DEF LaneInv, LaneOK, Busy
<1>3. ValuesInv
  BY DEF ValuesInv, ValuesOK, HasValue
<1>4. \A l \in Lane, n \in Node : MemoryEntry(keys, l, n) = None /\ MemoryEntry(versions, l, n) = None
  BY ConstantFacts DEF MemoryEntry
<1>5. \A l \in Lane : TaskNode[l[2]] \subseteq Node
  BY ConstantFacts
<1>6. KeysInv
  BY <1>4, <1>5 DEF KeysInv, KeyOK, Busy
<1>7. VersionsInv
  BY <1>4, <1>5 DEF VersionsInv, OwnVersions, Kept, OwnSlots
<1>8. DOMAIN metadata = {} /\ DOMAIN files = {}
  OBVIOUS
<1>9. StoresInv
  BY <1>8 DEF StoresInv
<1> QED
  BY <1>1, <1>2, <1>3, <1>6, <1>7, <1>9 DEF CacheInv

LEMMA CacheStep ==
    ASSUME Saver = {}, ~DeleteAnytime, NoneIsDistinct, RepeatedAreDetermined,
           CacheInv, [CaNext]_cavars
    PROVE  CacheInv'
BY DomainsStep, LaneInvStep, ValuesStep, KeysStep, VersionsStep, StoresStep DEF CacheInv

LEMMA ReliedOn ==
    ASSUME Saver = {}, ~DeleteAnytime, NoneIsDistinct, RepeatedAreDetermined
    PROVE  CaSpec => []CacheInv
<1>1. CaInit => CacheInv
  BY CacheInit
<1>2. CacheInv /\ [CaNext]_cavars => CacheInv'
  BY CacheStep
<1> QED
  BY <1>1, <1>2, PTL DEF CaSpec

(* Every value a run of the caching adapter gets for a node is one that    *)
(* its own code gives for its own inputs, whether it was computed or found *)
(* in the stores, whatever other runs and threads do meanwhile and         *)
(* wherever a process has died.                                            *)
THEOREM ResultsAreRight ==
    ASSUME Saver = {}, ~DeleteAnytime, NoneIsDistinct, RepeatedAreDetermined
    PROVE  CaSpec => []RightResults
<1>1. ASSUME CacheInv PROVE RightResults
  <2> SUFFICES ASSUME NEW l \in Lane, NEW n \in done[l] PROVE ValueFor(l, n, result[l][n])
    BY DEF RightResults
  <2> DEFINE w == result[l][n]
  <2>1. GoodValue(l, n, w)
    BY <1>1 DEF CacheInv, ValuesInv, ValuesOK
  <2> HIDE DEF w
  <2>2. w.node = n /\ w.code = Code[l[1]][n]
    BY <2>1 DEF GoodValue, Term
  <2>3. ValueFor(l, n, w)
    BY <2>1, <2>2 DEF GoodValue, ValueFor
  <2> QED
    BY <2>3 DEF w
<1> QED
  BY <1>1, ReliedOn, PTL

(* The metadata store never sends a key to the version of a result of      *)
(* another node, code or arguments, and a complete file of the result      *)
(* store holds the result that its name is the hash of.                    *)
THEOREM StoresStaySound ==
    ASSUME Saver = {}, ~DeleteAnytime, NoneIsDistinct, RepeatedAreDetermined
    PROVE  CaSpec => []StoresAreSound
<1>1. ASSUME CacheInv PROVE StoresAreSound
  <2>1. ASSUME NEW k \in DOMAIN metadata \ {None} PROVE Answers(k, metadata[k])
    <3> DEFINE v == metadata[k]
    <3>1. Entry(k, v)
      BY <1>1 DEF CacheInv, StoresInv
    <3> HIDE DEF v
    <3>2. v.hash.node = k.node /\ v.hash.code = k.code
      BY <3>1 DEF Entry, Term
    <3>3. Answers(k, v)
      BY <3>1, <3>2 DEF Entry, Answers
    <3> QED
      BY <3>3 DEF v
  <2> QED
    BY <1>1, <2>1 DEF CacheInv, StoresInv, StoresAreSound
<1> QED
  BY <1>1, ReliedOn, PTL

-----------------------------------------------------------------------------
(* Nothing is computed in vain.  That takes more than CacheInv, for which  *)
(* a lost key is only a miss: a key must still be there when it is looked  *)
(* up, and a file must have a key that leads to it.                        *)

(* What the theorem supposes: a result filed for a node that is IGNOREd,   *)
(* or that depends on one that is IGNOREd or DISABLEd, has another key     *)
(* than the node has elsewhere; threads lose the keys of repeated nodes.   *)
(* Of a name that is None nothing could be looked up.                      *)
NothingIsHidden ==
    \A r \in Run, n \in Node :
        /\ Behavior[r][n] # "IGNORE"
        /\ \A d \in Deps[n] : Behavior[r][d] \in {"DEFAULT", "RECOMPUTE"}
KeysStay == Workers = 1 \/ \A t \in Task : \A n \in TaskNode[t] : ~Nested(t, n)
NoneIsNoKey == \A n, c, f : None # [node |-> n, code |-> c, deps |-> f]

(* With one worker the tasks of a run come one after the other.            *)
OneTask ==
    /\ Workers = 1
    => \A r \in Run : run[r] \in {"new", "on"} => \A t, u \in InFlight(r) : t = u

Caching(l) == Busy(l) /\ Behavior[l[1]][node[l]] # "DISABLE"
KeyHeld(l) ==
    Caching(l) => /\ key[l] # None
                  /\ pc[l] # "newKeys" => MemoryEntry(keys, l, node[l]) # None

(* Only what was found skips the recording, and that was found by its key. *)
HitOK(l) == hit[l] => HasValue(l) \/ pc[l] \in Stuck
KeyRecorded(l) ==
    /\ deletes = 0 /\ Caching(l)
    /\ hit[l] \/ pc[l] \in {"check", "fetch", "post", "open", "write"}
    => KeyOf(l, node[l]) \in DOMAIN metadata

(* The key that a run which hides nothing has for what has the value w.    *)
KeyFor(w) == [node |-> w.node, code |-> w.code, deps |-> [d \in Deps[w.node] |-> Hash(w.args[d])]]
FilesKeyed == deletes = 0 => \A v \in DOMAIN files : KeyFor(v.hash) \in DOMAIN metadata

(* Only a node that is cached is looked up or filed.                       *)
StageOK(l) ==
    pc[l] \in {"lookup", "check", "open", "write"} => Behavior[l[1]][node[l]] # "DISABLE"

FindInv ==
    /\ deletes \in Nat
    /\ OneTask
    /\ \A l \in Lane : StageOK(l) /\ KeyHeld(l) /\ HitOK(l) /\ KeyRecorded(l)
    /\ FilesKeyed

LEMMA KeyIsFound ==
    ASSUME NothingIsHidden, NEW l \in Lane, NEW n \in TaskNode[l[2]], NEW w, GoodValue(l, n, w)
    PROVE  KeyFor(w) = KeyOf(l, n)
<1>1. l[1] \in Run /\ n \in Node /\ Deps[n] \subseteq Node
  BY ConstantFacts
<1>2. \A d \in Deps[n] : DepOf(l, n, d) = Hash(w.args[d])
  BY <1>1 DEF NothingIsHidden, DepOf, GoodValue
<1>3. w.node = n /\ w.code = Code[l[1]][n]
  BY DEF GoodValue, Term
<1> QED
  BY <1>2, <1>3 DEF KeyFor, KeyOf

(* A busy lane is in flight, and with one worker alone in its run.         *)
LEMMA BusyInFlight ==
    ASSUME LaneInv, NEW l \in Lane, Busy(l)
    PROVE  l[2] \in InFlight(l[1])
<1>1. l[2] \in Task /\ l = <<l[1], l[2]>> /\ LaneOK(l)
  BY ConstantFacts DEF LaneInv
<1>2. Started(l) /\ ~Finished(l) /\ ~Failed(l)
  BY <1>1 DEF LaneOK, Started, Finished, Failed, Busy, Stuck, Failure
<1> QED
  BY <1>1, <1>2 DEF InFlight

LEMMA StartedInFlight ==
    ASSUME NEW l \in Lane, Started(l), pc[l] = "ready", done[l] # TaskNode[l[2]]
    PROVE  l[2] \in InFlight(l[1])
<1>1. l[2] \in Task /\ l = <<l[1], l[2]>>
  BY ConstantFacts
<1>2. ~Finished(l) /\ ~Failed(l)
  BY DEF Finished, Failed, Failure
<1> QED
  BY <1>1, <1>2 DEF InFlight

LEMMA NoneInFlight ==
    ASSUME OneTask, Workers = 1, NEW r \in Run, run[r] \in {"new", "on"},
           Cardinality(InFlight(r)) < Workers
    PROVE  InFlight(r) = {}
<1> SUFFICES ASSUME NEW t \in InFlight(r) PROVE FALSE
  OBVIOUS
<1>1. InFlight(r) = {t}
  BY DEF OneTask
<1> QED
  BY <1>1, FS_Singleton

LEMMA AloneInRun ==
    ASSUME Domains, LaneInv, OneTask, Workers = 1, NEW l \in Lane, Busy(l),
           NEW k \in Lane, LaneStep(k), k[1] = l[1]
    PROVE  k = l
<1>1. l[1] \in Run /\ l[2] \in Task /\ l = <<l[1], l[2]>> /\ k = <<k[1], k[2]>>
  BY ConstantFacts
<1>2. run[l[1]] = "on" /\ l[2] \in InFlight(l[1])
  BY BusyInFlight DEF LaneInv, LaneOK
<1>3. CASE k[2] \in InFlight(l[1])
  BY <1>1, <1>2, <1>3 DEF OneTask
<1>4. CASE k[2] \notin InFlight(l[1])
  <2>1. ~Busy(k)
    BY <1>4, BusyInFlight
  <2>2. PICK n \in Node : MayTake(k, n)
    BY <2>1, LaneMoves
  <2>3. pc[k] = "ready" /\ n \in TaskNode[k[2]] \ done[k]
    BY <2>2 DEF MayTake
  <2>4. ~Started(k)
    BY <1>4, <2>3, StartedInFlight
  <2>5. Cardinality(InFlight(l[1])) < Workers
    BY <2>2, <2>4 DEF MayTake, MayStart
  <2> QED
    BY <1>1, <1>2, <2>5, NoneInFlight
<1> QED
  BY <1>3, <1>4

LEMMA OneTaskStep ==
    ASSUME NoneIsDistinct, Domains, LaneInv, OneTask, [CaNext]_cavars
    PROVE  OneTask'
<1> SUFFICES ASSUME Workers = 1, NEW r \in Run, run'[r] \in {"new", "on"},
                    NEW t \in InFlight(r)', NEW u \in InFlight(r)'
             PROVE  t = u
  BY DEF OneTask
<1>1. t \in Task /\ u \in Task /\ <<r, t>> \in Lane /\ <<r, u>> \in Lane
  BY ConstantFacts DEF InFlight
<1>2. ASSUME NEW s \in Task, pc'[<<r, s>>] = pc[<<r, s>>], done'[<<r, s>>] = done[<<r, s>>],
             s \in InFlight(r)'
      PROVE  s \in InFlight(r)
  BY <1>2 DEF InFlight, Started, Finished, Failed
<1>3. CASE \E l \in Lane : LaneStep(l)
  <2>1. PICK l \in Lane : LaneStep(l)
    BY <1>3
  <2>2. run[r] \in {"new", "on"}
    BY <2>1, OtherLanes
  <2>3. ASSUME NEW s \in InFlight(r)', <<r, s>> # l PROVE s \in InFlight(r)
    <3>1. s \in Task /\ <<r, s>> \in Lane
      BY ConstantFacts DEF InFlight
    <3>2. Same(<<r, s>>)
      BY <2>1, <2>3, <3>1, OtherLanes
    <3> QED
      BY <1>2, <2>3, <3>1, <3>2 DEF Same
  <2>4. CASE l[1] # r \/ l[2] \in InFlight(r)
    <3>1. t \in InFlight(r) /\ u \in InFlight(r)
      BY <2>3, <2>4
    <3> QED
      BY <2>2, <3>1 DEF OneTask
  <2>5. CASE l[1] = r /\ l[2] \notin InFlight(r)
    <3>1. ~Busy(l)
      BY <2>5, BusyInFlight
    <3>2. PICK n \in Node : MayTake(l, n)
      BY <2>1, <3>1, LaneMoves
    <3>3. pc[l] = "ready" /\ n \in TaskNode[l[2]] \ done[l]
      BY <3>2 DEF MayTake
    <3>4. ~Started(l)
      BY <2>5, <3>3, StartedInFlight
    <3>5. Cardinality(InFlight(r)) < Workers
      BY <2>5, <3>2, <3>4 DEF MayTake, MayStart
    <3>6. InFlight(r) = {}
      BY <2>2, <3>5, NoneInFlight
    <3>7. <<r, t>> = l /\ <<r, u>> = l
      BY <2>3, <3>6
    <3> QED
      BY <3>7
  <2> QED
    BY <2>4, <2>5
<1>4. CASE ~\E l \in Lane : LaneStep(l)
  <2>1. done' = done
    BY <1>4, Around
  <2>2. run[r] \in {"new", "on"} /\ pc'[<<r, t>>] = pc[<<r, t>>] /\ pc'[<<r, u>>] = pc[<<r, u>>]
    BY <1>1, <1>4, Around DEF Begin, End, Crash, lanevars, Domains
  <2>3. t \in InFlight(r) /\ u \in InFlight(r)
    BY <1>1, <1>2, <2>1, <2>2
  <2> QED
    BY <2>2, <2>3 DEF OneTask
<1> QED
  BY <1>3, <1>4

(* While nothing is deleted the keys only grow, and what is written is a   *)
(* result that was filed.                                                  *)
LEMMA NothingDeleted ==
    ASSUME deletes \in Nat, [CaNext]_cavars
    PROVE  /\ deletes' \in Nat
           /\ deletes' = 0 => /\ deletes = 0
                              /\ DOMAIN metadata \subseteq DOMAIN metadata'
                              /\ \/ UNCHANGED files
                                 \/ \E l \in Lane : OpenFile(l) \/ WriteFile(l)
<1>1. CASE \E l \in Lane : LaneStep(l)
  <2>1. PICK l \in Lane : LaneStep(l)
    BY <1>1
  <2>2. UNCHANGED deletes /\ (UNCHANGED metadata \/ metadata' = MetadataSet(key[l], ver[l]))
    BY <2>1 DEF LaneStep, PreNodeUncached, PreNode, NewKeys, Lookup, CheckExists, Fetch, Execute,
       ExecuteRaises, SetMemoryMetadata, NewVersions, SetStoredMetadata, PostNodeSkip, PostNode,
       OpenFile, WriteFile
  <2>3. UNCHANGED files \/ OpenFile(l) \/ WriteFile(l)
    BY <2>1 DEF LaneStep, PreNodeUncached, PreNode, NewKeys, Lookup, CheckExists, Fetch, Execute,
       ExecuteRaises, SetMemoryMetadata, NewVersions, SetStoredMetadata, PostNodeSkip, PostNode
  <2>4. DOMAIN metadata \subseteq DOMAIN metadata'
    BY <2>2 DEF MetadataSet, Put
  <2> QED
    BY <2>2, <2>3, <2>4
<1>2. CASE ~\E l \in Lane : LaneStep(l)
  <2>1. \/ deletes' = deletes + 1
        \/ UNCHANGED <<deletes, metadata, files>>
    BY <1>2 DEF CaNext, cavars, lanevars, Begin, End, Crash, ChangeWorld, DeleteResult,
       DeleteMetadata, MayDelete
  <2> QED
    BY <2>1
<1> QED
  BY <1>1, <1>2

LEMMA StageStep ==
    ASSUME Domains, LaneInv, [CaNext]_cavars, NEW l \in Lane, StageOK(l)
    PROVE  StageOK(l)'
<1> USE DEF Domains, Stays, StageOK
<1>1. CASE ~LaneStep(l)
  BY <1>1, Elsewhere DEF Same
<1>2. ASSUME NEW n \in Node, PreNodeUncached(l, n) PROVE StageOK(l)'
  BY <1>2 DEF PreNodeUncached
<1>3. ASSUME NEW n \in Node, PreNode(l, n) PROVE StageOK(l)'
  BY <1>3 DEF PreNode
<1>4. CASE NewKeys(l) \/ Lookup(l) \/ CheckExists(l)
  BY <1>4 DEF NewKeys, Lookup, CheckExists, AfterPre
<1>5. CASE Fetch(l) \/ Execute(l) \/ ExecuteRaises(l)
  BY <1>5 DEF Fetch, Execute, ExecuteRaises
<1>6. CASE SetMemoryMetadata(l) \/ NewVersions(l) \/ SetStoredMetadata(l)
  BY <1>6 DEF SetMemoryMetadata, NewVersions, SetStoredMetadata, AfterMemory
<1>7. CASE PostNodeSkip(l) \/ PostNode(l)
  BY <1>7 DEF PostNodeSkip, PostNode, Bind
<1>8. CASE OpenFile(l) \/ WriteFile(l)
  BY <1>8 DEF OpenFile, WriteFile, Bind
<1> QED
  BY <1>1, <1>2, <1>3, <1>4, <1>5, <1>6, <1>7, <1>8 DEF LaneStep

LEMMA HitStep ==
    ASSUME Domains, LaneInv, [CaNext]_cavars, NEW l \in Lane, HitOK(l)
    PROVE  HitOK(l)'
<1> USE DEF Domains, Stays, HitOK, HasValue, Stuck, Failure
<1>1. CASE ~LaneStep(l)
  BY <1>1, Elsewhere DEF Same
<1>2. ASSUME NEW n \in Node, PreNodeUncached(l, n) \/ PreNode(l, n) PROVE HitOK(l)'
  BY <1>2 DEF PreNodeUncached, PreNode, MayTake
<1>3. CASE NewKeys(l) \/ Lookup(l) \/ CheckExists(l)
  BY <1>3 DEF NewKeys, Lookup, CheckExists
<1>4. CASE Fetch(l) \/ Execute(l) \/ ExecuteRaises(l)
  BY <1>4 DEF Fetch, Execute, ExecuteRaises
<1>5. CASE SetMemoryMetadata(l) \/ NewVersions(l) \/ SetStoredMetadata(l)
  BY <1>5 DEF SetMemoryMetadata, NewVersions, SetStoredMetadata, AfterMemory
<1>6. CASE PostNodeSkip(l) \/ PostNode(l)
  BY <1>6 DEF PostNodeSkip, PostNode, Bind
<1>7. CASE OpenFile(l) \/ WriteFile(l)
  BY <1>7 DEF OpenFile, WriteFile, Bind
<1> QED
  BY <1>1, <1>2, <1>3, <1>4, <1>5, <1>6, <1>7 DEF LaneStep

(* A key that was made is looked up before anyone can drop it.             *)
LEMMA HeldStep ==
    ASSUME NoneIsDistinct, NoneIsNoKey, NothingIsHidden, KeysStay,
           Domains, LaneInv, OneTask, [CaNext]_cavars, NEW l \in Lane, KeyHeld(l)
    PROVE  KeyHeld(l)'
<1> SUFFICES ASSUME Caching(l)'
             PROVE  /\ key'[l] # None
                    /\ pc'[l] # "newKeys" => MemoryEntry(keys', l, node'[l]) # None
  BY DEF KeyHeld, MemoryEntry
<1> USE DEF Domains
<1>1. l[1] \in Run /\ LaneOK(l) /\ TaskNode[l[2]] \subseteq Node
  BY ConstantFacts DEF LaneInv
<1>2. CASE ~LaneStep(l)
  <2>1. Same(l)
    BY <1>2, Elsewhere DEF Caching, Busy, Stuck
  <2>2. Caching(l) /\ node[l] \in TaskNode[l[2]]
    BY <1>1, <2>1 DEF Same, Caching, Busy, LaneOK
  <2>3. MemoryEntry(keys', l, node[l]) = MemoryEntry(keys, l, node[l])
    <3>1. CASE keys' = keys
      BY <3>1
    <3>2. CASE keys' # keys
      <4>1. PICK k \in Lane : LaneStep(k)
        BY <3>2, Around
      <4>2. PICK m \in TaskNode[k[2]] : \E x : Written(keys, keys', k, m, x)
        BY <3>2, <4>1, KeysWritten
      <4>3. k # l
        BY <1>2, <4>1
      <4>4. Nested(l[2], node[l]) => Workers = 1
        BY <2>2, ConstantFacts DEF KeysStay
      <4>5. ~Nested(l[2], node[l]) \/ l[1] # k[1]
        BY <2>2, <4>1, <4>3, <4>4, AloneInRun DEF Caching
      <4> QED
        BY <2>2, <4>2, <4>3, <4>5 DEF Written
    <3> QED
      BY <3>1, <3>2
  <2> QED
    BY <2>1, <2>2, <2>3 DEF Same, KeyHeld
<1>3. ASSUME NEW n \in Node, PreNodeUncached(l, n) PROVE FALSE
  <2>1. node'[l] = n /\ Behavior[l[1]][n] = "DISABLE"
    BY <1>1, <1>3 DEF PreNodeUncached, NothingIsHidden
  <2> QED
    BY <2>1 DEF Caching
<1>4. ASSUME NEW n \in Node, PreNode(l, n)
      PROVE  /\ key'[l] # None
             /\ pc'[l] # "newKeys" => MemoryEntry(keys', l, node'[l]) # None
  <2>1. node'[l] = n /\ key'[l] = CacheKey(l, n) /\ CacheKey(l, n) # None
    BY <1>4 DEF PreNode, NoneIsNoKey, CacheKey
  <2>2. pc'[l] # "noneVersion"
    BY DEF Caching, Busy, Stuck, Failure
  <2>3. pc'[l] # "newKeys" => Written(keys, keys', l, n, CacheKey(l, n))
    BY <1>4, <2>2, PreNodeWrites
  <2> QED
    BY <2>1, <2>3 DEF Written
<1>5. CASE NewKeys(l)
  <2>1. node'[l] = node[l] /\ key'[l] = key[l] /\ Caching(l)
    BY <1>5 DEF NewKeys, Caching, Busy, Stuck, Failure
  <2>2. MemoryEntry(keys', l, node[l]) = key[l]
    BY <1>5, NewKeysWrites DEF Written
  <2> QED
    BY <2>1, <2>2 DEF KeyHeld
<1>6. ASSUME LaneStep(l), ~NewKeys(l), ~\E n \in Node : PreNodeUncached(l, n) \/ PreNode(l, n)
      PROVE  /\ key'[l] # None
             /\ pc'[l] # "newKeys" => MemoryEntry(keys', l, node'[l]) # None
  <2>1. Busy(l) /\ node'[l] = node[l]
    BY <1>6, LaneMoves DEF Bind, Stays, Caching, Busy
  <2>2. Caching(l) /\ pc[l] # "newKeys"
    BY <1>6, <2>1 DEF Caching, LaneStep, Lookup, CheckExists, Fetch, Execute, ExecuteRaises,
       SetMemoryMetadata, NewVersions, SetStoredMetadata, PostNodeSkip, PostNode, OpenFile,
       WriteFile
  <2>3. keys' = keys
    BY <1>6 DEF LaneStep, Lookup, CheckExists, Fetch, Execute, ExecuteRaises,
       SetMemoryMetadata, NewVersions, SetStoredMetadata, PostNodeSkip, PostNode, OpenFile,
       WriteFile
  <2>4. key'[l] \in {key[l], MemoryEntry(keys, l, node[l])} \/ Bind(l)
    BY <1>6 DEF LaneStep, Lookup, CheckExists, Fetch, Execute, ExecuteRaises,
       SetMemoryMetadata, NewVersions, SetStoredMetadata, PostNodeSkip, PostNode, OpenFile,
       WriteFile
  <2>5. ~Bind(l)
    BY DEF Bind, Stays, Caching, Busy
  <2> QED
    BY <2>1, <2>2, <2>3, <2>4, <2>5 DEF KeyHeld
<1> QED
  BY <1>2, <1>3, <1>4, <1>5, <1>6

(* What do_node_execute makes of a node is a result of it.                 *)
LEMMA ComputedIsGood ==
    ASSUME NEW l \in Lane, NEW n \in TaskNode[l[2]]
    PROVE  GoodValue(l, n, Compute(l, n))
BY DEF GoodValue, Compute, Term, PyNone

(* A lane that looks up its node does so by the key of it, and finds what  *)
(* the metadata store has for it.                                          *)
LEMMA LookupByKey ==
    ASSUME NoneIsDistinct, LaneInv, KeysInv, VersionsInv, StoresInv, NEW l \in Lane,
           StageOK(l), KeyHeld(l), pc[l] = "lookup"
    PROVE  LET k == KeyOf(l, node[l])
               v == KnownVersion(l, node[l], MemoryEntry(keys, l, node[l]))
           IN  v # None <=> k \in DOMAIN metadata
<1> DEFINE n == node[l]
           k == KeyOf(l, n)
           v == KnownVersion(l, n, MemoryEntry(keys, l, n))
<1>1. n \in TaskNode[l[2]] /\ n \notin done[l] /\ Caching(l)
  BY DEF LaneInv, LaneOK, Caching, StageOK, Busy, Stuck, Failure
<1>2. \A x, stages : Own(l, n, x, stages) => "lookup" \in stages
  BY <1>1 DEF Own, Stuck, Failure
<1>3. MemoryEntry(versions, l, n) = None
  BY <1>1, <1>2 DEF VersionsInv, OwnVersions
<1>4. MemoryEntry(keys, l, n) = k /\ k # None
  BY <1>1 DEF KeyHeld, KeysInv
<1>5. v = IF k \in DOMAIN metadata THEN metadata[k] ELSE None
  BY <1>3, <1>4 DEF KnownVersion
<1>6. ASSUME k \in DOMAIN metadata PROVE metadata[k] # None
  <2>1. Entry(k, metadata[k])
    BY <1>4, <1>6 DEF StoresInv
  <2>2. metadata[k] = Hash(metadata[k].hash)
    BY <2>1 DEF Entry
  <2> QED
    BY <2>2 DEF NoneIsDistinct
<1> HIDE DEF n, k, v
<1>7. v # None <=> k \in DOMAIN metadata
  BY <1>5, <1>6
<1> QED
  BY <1>7 DEF n, k, v

(* What was found had a key, and what was computed is recorded before it   *)
(* is filed.                                                               *)
LEMMA RecordedStep ==
    ASSUME NoneIsDistinct, CacheInv, FindInv, [CaNext]_cavars, NEW l \in Lane
    PROVE  KeyRecorded(l)'
<1> DEFINE S == {"check", "fetch", "post", "open", "write"}
<1> SUFFICES ASSUME deletes' = 0, Caching(l)', hit'[l] \/ pc'[l] \in S
             PROVE  KeyOf(l, node[l])' \in DOMAIN metadata'
  BY DEF KeyRecorded
<1> USE DEF Domains, Stays
<1>1. /\ Domains /\ LaneOK(l) /\ KeyOK(l) /\ KeyHeld(l) /\ HitOK(l) /\ KeyRecorded(l)
      /\ LaneInv /\ KeysInv /\ VersionsInv /\ StoresInv /\ StageOK(l)
  BY DEF CacheInv, FindInv, LaneInv, KeysInv
<1>2. deletes = 0 /\ DOMAIN metadata \subseteq DOMAIN metadata'
  BY NothingDeleted DEF FindInv
<1>3. ASSUME Caching(l), node'[l] = node[l]
      PROVE  /\ KeyOf(l, node[l])' = KeyOf(l, node[l])
             /\ hit[l] \/ pc[l] \in S => KeyOf(l, node[l])' \in DOMAIN metadata'
  <2>1. node[l] \in TaskNode[l[2]] /\ DepsDone(l, node[l])
    BY <1>1, <1>3 DEF LaneOK, Caching
  <2>2. KeyOf(l, node[l])' = KeyOf(l, node[l])
    BY <1>1, <1>3, <2>1, Stable
  <2> QED
    BY <1>1, <1>2, <1>3, <2>2 DEF KeyRecorded
<1>4. CASE ~LaneStep(l)
  <2>1. Same(l)
    BY <1>1, <1>4, Elsewhere DEF Caching, Busy, Stuck
  <2> QED
    BY <1>3, <2>1 DEF Same, Caching, Busy
<1>5. CASE LaneStep(l)
  <2>1. CASE \E n \in Node : MayTake(l, n) /\ (PreNode(l, n) \/ PreNodeUncached(l, n)) /\
                             pc'[l] \in {"noneVersion", "newKeys", "lookup", "execute"}
    <3>1. ~hit[l] /\ hit' = hit
      BY <1>1, <2>1 DEF MayTake, HitOK, HasValue, Stuck, Failure, PreNode, PreNodeUncached
    <3> QED
      BY <2>1, <3>1
  <2>2. CASE Bind(l)
    BY <1>1, <2>2 DEF Bind, Caching, Busy
  <2>3. CASE ~Bind(l) /\ Busy(l) /\ node'[l] = node[l]
    <3>1. Caching(l)
      BY <2>3 DEF Caching
    <3>2. CASE hit[l] \/ pc[l] \in S
      BY <1>3, <2>3, <3>1, <3>2
    <3>3. CASE ~hit[l] /\ pc[l] \notin S
      <4>1. CASE Lookup(l)
        <5>1. /\ pc[l] = "lookup"
              /\ pc'[l] = IF KnownVersion(l, node[l], MemoryEntry(keys, l, node[l])) = None
                          THEN "execute" ELSE "check"
              /\ hit' = hit
          BY <1>1, <4>1 DEF Lookup
        <5>2. KnownVersion(l, node[l], MemoryEntry(keys, l, node[l])) # None
          BY <3>3, <5>1
        <5>3. KeyOf(l, node[l]) \in DOMAIN metadata
          BY <1>1, <5>1, <5>2, LookupByKey
        <5> QED
          BY <1>2, <1>3, <2>3, <3>1, <5>3
      <4>2. CASE SetStoredMetadata(l)
        <5>1. key[l] = KeyOf(l, node[l])
          BY <1>1, <2>3, <3>1 DEF KeyOK, KeyHeld
        <5>2. metadata' = MetadataSet(key[l], ver[l])
          BY <4>2 DEF SetStoredMetadata
        <5>3. KeyOf(l, node[l]) \in DOMAIN metadata'
          BY <5>1, <5>2 DEF MetadataSet, Put
        <5> QED
          BY <1>3, <2>3, <3>1, <5>3
      <4>3. CASE NewKeys(l) \/ ExecuteRaises(l)
        BY <1>1, <3>3, <4>3 DEF NewKeys, AfterPre, ExecuteRaises
      <4>4. CASE Execute(l)
        BY <1>1, <3>1, <3>3, <4>4 DEF Execute, Caching
      <4>5. CASE SetMemoryMetadata(l) \/ NewVersions(l)
        BY <1>1, <3>3, <4>5 DEF SetMemoryMetadata, NewVersions, AfterMemory
      <4> QED
        BY <1>5, <2>3, <3>3, <4>1, <4>2, <4>3, <4>4, <4>5 DEF LaneStep, PreNode, PreNodeUncached,
           MayTake, Busy, CheckExists, Fetch, PostNode, PostNodeSkip, OpenFile, WriteFile
    <3> QED
      BY <3>2, <3>3
  <2> QED
    BY <1>1, <1>5, <2>1, <2>2, <2>3, LaneMoves
<1> QED
  BY <1>4, <1>5

(* A file is written under the name of a result whose key is recorded.     *)
LEMMA FiledStep ==
    ASSUME NothingIsHidden, CacheInv, FindInv, [CaNext]_cavars
    PROVE  FilesKeyed'
<1> SUFFICES ASSUME deletes' = 0, NEW v \in DOMAIN files'
             PROVE  KeyFor(v.hash) \in DOMAIN metadata'
  BY DEF FilesKeyed
<1>1. /\ deletes = 0 /\ DOMAIN metadata \subseteq DOMAIN metadata'
      /\ UNCHANGED files \/ \E l \in Lane : OpenFile(l) \/ WriteFile(l)
  BY NothingDeleted DEF FindInv
<1>2. CASE v \in DOMAIN files
  BY <1>1, <1>2 DEF FindInv, FilesKeyed
<1>3. CASE v \notin DOMAIN files
  <2>1. PICK l \in Lane : OpenFile(l) \/ WriteFile(l)
    BY <1>1, <1>3
  <2>2. v = ver[l] /\ pc[l] \in {"open", "write"}
    BY <1>3, <2>1 DEF OpenFile, WriteFile, Put
  <2>3. /\ Caching(l) /\ node[l] \in TaskNode[l[2]]
        /\ KeyOf(l, node[l]) \in DOMAIN metadata
    BY <1>1, <2>2 DEF FindInv, StageOK, KeyRecorded, Caching, Busy, Stuck, Failure, CacheInv,
       LaneInv, LaneOK
  <2>4. ver[l] = Hash(val[l]) /\ GoodValue(l, node[l], val[l])
    BY <2>2 DEF CacheInv, ValuesInv, ValuesOK, HasValue
  <2>5. KeyFor(val[l]) = KeyOf(l, node[l]) /\ Hash(val[l]).hash = val[l]
    BY <2>3, <2>4, KeyIsFound DEF Hash
  <2> QED
    BY <1>1, <2>2, <2>3, <2>4, <2>5
<1> QED
  BY <1>2, <1>3

LEMMA FindInit ==
    ASSUME CaInit
    PROVE  FindInv
<1> USE DEF CaInit
<1>1. \A r \in Run : InFlight(r) = {}
  BY ConstantFacts DEF InFlight, Started
<1>2. OneTask
  BY <1>1 DEF OneTask
<1>3. ASSUME NEW l \in Lane PROVE StageOK(l) /\ KeyHeld(l) /\ HitOK(l) /\ KeyRecorded(l)
  BY DEF StageOK, KeyHeld, HitOK, KeyRecorded, Caching, Busy
<1>4. DOMAIN files = {} /\ deletes \in Nat
  OBVIOUS
<1> QED
  BY <1>2, <1>3, <1>4 DEF FindInv, FilesKeyed

LEMMA FindStep ==
    ASSUME NoneIsDistinct, NoneIsNoKey, NothingIsHidden, KeysStay,
           CacheInv, FindInv, [CaNext]_cavars
    PROVE  FindInv'
<1>1. Domains /\ LaneInv /\ OneTask /\ deletes \in Nat
  BY DEF CacheInv, FindInv
<1>2. deletes' \in Nat
  BY <1>1, NothingDeleted
<1>3. OneTask'
  BY <1>1, OneTaskStep
<1>4. ASSUME NEW l \in Lane PROVE (StageOK(l) /\ KeyHeld(l) /\ HitOK(l) /\ KeyRecorded(l))'
  <2>1. StageOK(l) /\ KeyHeld(l) /\ HitOK(l)
    BY DEF FindInv
  <2> QED
    BY <1>1, <2>1, StageStep, HeldStep, HitStep, RecordedStep
<1>5. FilesKeyed'
  BY FiledStep
<1> QED
  BY <1>2, <1>3, <1>4, <1>5 DEF FindInv

(* Two runs of a dataflow, one after the other or at the same time, one of *)
(* them dead half way or both alive: DEFAULT executes a node only when the *)
(* result of it is not in the result store.  Nothing that has been stored  *)
(* is out of the reach of the key that leads to it.                        *)
THEOREM NothingComputedInVain ==
    ASSUME Saver = {}, ~DeleteAnytime, NoneIsDistinct, RepeatedAreDetermined,
           NoneIsNoKey, NothingIsHidden, KeysStay
    PROVE  CaSpec => OnlyMissesAreComputed
<1> DEFINE MissOnly(l) ==
        /\ pc[l] \in {"lookup", "check"}
        /\ pc'[l] = "execute"
        /\ deletes = 0
        /\ node[l] \notin Impure
        => Hash(Compute(l, node[l])) \notin DOMAIN files
<1>1. CaInit => CacheInv /\ FindInv
  BY CacheInit, FindInit
<1>2. CacheInv /\ FindInv /\ [CaNext]_cavars => (CacheInv /\ FindInv)'
  BY CacheStep, FindStep
<1>3. ASSUME CacheInv, FindInv, [CaNext]_cavars, NEW l \in Lane PROVE MissOnly(l)
  <2> SUFFICES ASSUME pc[l] \in {"lookup", "check"}, pc'[l] = "execute", deletes = 0,
                      node[l] \notin Impure, Hash(Compute(l, node[l])) \in DOMAIN files
               PROVE  FALSE
    OBVIOUS
  <2> DEFINE n == node[l]
             w == Compute(l, n)
  <2>1. /\ Domains /\ LaneInv /\ KeysInv /\ VersionsInv /\ StoresInv /\ StageOK(l) /\ KeyHeld(l)
        /\ LaneOK(l) /\ ValuesOK(l)
    BY <1>3 DEF CacheInv, FindInv, LaneInv, ValuesInv
  <2>2. n \in TaskNode[l[2]] /\ l[1] \in Run
    BY <2>1, ConstantFacts DEF LaneOK, Busy, Stuck, Failure
  <2>3. GoodValue(l, n, w)
    BY <2>2, ComputedIsGood
  <2> HIDE DEF w
  <2>4. KeyOf(l, n) \in DOMAIN metadata
    <3>1. KeyFor(w) = KeyOf(l, n) /\ Hash(w).hash = w
      BY <2>2, <2>3, KeyIsFound DEF Hash
    <3> QED
      BY <1>3, <3>1 DEF FindInv, FilesKeyed, w
  <2>5. LaneStep(l)
    BY <1>3, <2>1, Elsewhere DEF Same
  <2>6. Lookup(l) \/ CheckExists(l)
    BY <2>5 DEF LaneStep, PreNodeUncached, PreNode, MayTake, NewKeys, Fetch, Execute,
       ExecuteRaises, SetMemoryMetadata, NewVersions, SetStoredMetadata, PostNodeSkip, PostNode,
       OpenFile, WriteFile
  <2>7. CASE Lookup(l)
    <3>1. /\ pc[l] = "lookup"
          /\ pc'[l] = IF KnownVersion(l, n, MemoryEntry(keys, l, n)) = None
                      THEN "execute" ELSE "check"
      BY <2>1, <2>7 DEF Lookup, Stays, Domains
    <3> QED
      BY <2>1, <2>4, <3>1, LookupByKey
  <2>8. CASE CheckExists(l)
    <3>1. pc[l] = "check" /\ ver[l] \notin DOMAIN files
      BY <2>1, <2>8 DEF CheckExists, Stays, Domains
    <3>2. ver[l] = Hash(ver[l].hash) /\ GoodValue(l, n, ver[l].hash)
      BY <2>1, <3>1 DEF ValuesOK
    <3>3. \A d \in Deps[n] : Behavior[l[1]][d] # "IGNORE"
      BY <2>2, ConstantFacts DEF NothingIsHidden
    <3>4. ver[l].hash = w
      BY <2>2, <2>3, <3>2, <3>3, OneResult
    <3> QED
      BY <3>1, <3>2, <3>4 DEF w
  <2> QED
    BY <2>6, <2>7, <2>8
<1> HIDE DEF MissOnly
<1>4. CacheInv /\ FindInv /\ [CaNext]_cavars => [\A l \in Lane : MissOnly(l)]_cavars
  BY <1>3
<1>5. CaSpec => [][\A l \in Lane : MissOnly(l)]_cavars
  BY <1>1, <1>2, <1>4, PTL DEF CaSpec
<1> QED
  BY <1>5 DEF MissOnly, OnlyMissesAreComputed

-----------------------------------------------------------------------------
(* Caching makes no run fail.                                              *)

(* What the theorem supposes, one condition for each way the code has of   *)
(* raising: a task reads a node of another task where it can find its      *)
(* version (MCCacheLevels shows one that cannot); no thread drops a        *)
(* version (KeysStay; MCCacheAssert); nobody reads a file that another one *)
(* is writing or has died writing (MCCacheTorn); what goes to files has a  *)
(* pickle (MCCacheIgnored).  None is the version of nothing.               *)
ReadsWholeTasks ==
    \A t \in Task : \A n \in TaskNode[t] : \A d \in Deps[n] \ (InputNode \cup TaskNode[t]) :
        ~Nested(Home(d), d)
FilesAreWhole == OnDisk => Workers = 1 /\ ~Overlap /\ MaxCrashes = 0
(* A result that goes to a file has a pickle. *)
FilesHavePickles == OnDisk => Unpicklable = {}
NoneIsNoVersion ==
    None # Ignored /\ (\A x : None # [uuid |-> x]) /\ (\A n : None # [saver |-> n])

(* A lane fails only because its node did, and so a run that has ended     *)
(* without that has every node of every task.                              *)
OnlyNodesFail ==
    /\ \A l \in Lane : Failed(l) => pc[l] = "raised"
    /\ \A r \in Run : run[r] = "over" =>
          \/ \E t \in Task : pc[<<r, t>>] = "raised"
          \/ \A t \in Task : Finished(<<r, t>>)

(* What was done or remembered has a version, unless it is DISABLEd.       *)
Versioned(l, n) == Behavior[l[1]][n] # "DISABLE" => MemoryEntry(versions, l, n) # None
VersionOK(l) ==
    /\ \A n \in done[l] : Versioned(l, n)
    /\ pc[l] \in {"record", "post", "open", "write"} => Versioned(l, node[l])
    /\ pc[l] = "newVersions" => versions[l[1]][node[l]] = None
    /\ pc[l] \in {"check", "fetch", "remember", "newVersions"} => ver[l] # None

(* A file that is not whole is being written.                              *)
BeingWritten(v) == \E l \in Lane : pc[l] = "write" /\ ver[l] = v
TornInv ==
    /\ \A v \in DOMAIN files : ~files[v].whole => OnDisk /\ BeingWritten(v)
    /\ \A l \in Lane : pc[l] = "open" => OnDisk
    /\ crashes \in Nat

(* Runs begin in order, the next one when the last is over.                *)
RunsInOrder ==
    \A r \in Run : run[r] # "new" =>
        \A q \in 1..(r-1) : run[q] # "new" /\ (Overlap \/ run[q] # "on")
Over == \A r \in Run : run[r] = "over" => Settled(r)

NoFailure == \A l \in Lane : Failed(l) => pc[l] = "raised"
SafeInv ==
    /\ Domains /\ LaneInv /\ OneTask
    /\ (\A l \in Lane : VersionOK(l)) /\ TornInv /\ RunsInOrder /\ Over /\ NoFailure

(* A run has what another lane or an earlier step has put down: an entry   *)
(* of a dictionary is replaced by another, never by nothing.               *)
LEMMA VersionsStay ==
    ASSUME NoneIsDistinct, Domains, LaneInv, NEW l \in Lane, LaneStep(l), VersionOK(l),
           NEW k \in Lane, NEW n \in TaskNode[k[2]], MemoryEntry(versions, k, n) # None
    PROVE  MemoryEntry(versions', k, n) # None
<1>1. /\ l[1] \in Run /\ k[1] \in Run /\ l[2] \in Task /\ k[2] \in Task /\ n \in Node
      /\ SlotOf(k[2], n) \in Slot /\ l[2] \in Slot
  BY ConstantFacts, SlotType
<1>2. versions[k[1]][n] # None /\ versions[k[1]][n][SlotOf(k[2], n)] # None
  BY DEF MemoryEntry
<1>3. CASE UNCHANGED versions
  BY <1>3
<1>4. CASE SetMemoryMetadata(l)
  <2>1. /\ pc[l] = "remember" /\ ver[l] # None
        /\ node[l] \in TaskNode[l[2]]
    BY <1>4 DEF SetMemoryMetadata, VersionOK, LaneInv, LaneOK, Busy, Stuck, Failure
  <2>2. CASE UNCHANGED versions
    BY <2>2
  <2>3. CASE versions' # versions
    <3>1. Written(versions, versions', l, node[l], ver[l])
      BY <2>3, VersionsWritten
    <3>2. CASE k = l /\ n = node[l]
      BY <2>1, <3>1, <3>2 DEF Written
    <3>3. CASE ~(k = l /\ n = node[l])
      <4>1. \/ ~Nested(l[2], node[l])
            \/ versions' = [versions EXCEPT ![l[1]][node[l]] = [@ EXCEPT ![l[2]] = ver[l]]]
        BY <1>4, <2>3 DEF SetMemoryMetadata
      <4>2. CASE ~Nested(k[2], n) \/ k[1] # l[1]
        BY <3>1, <3>3, <4>2 DEF Written
      <4>3. CASE Nested(k[2], n) /\ k[1] = l[1] /\ n # node[l]
        BY <1>1, <1>2, <1>4, <2>1, <4>3 DEF SetMemoryMetadata, MemoryEntry, Domains, IsMemory
      <4>4. CASE Nested(k[2], n) /\ k[1] = l[1] /\ n = node[l]
        <5>1. Nested(l[2], n)
          BY <1>1, <2>1, <4>4, StandardAlone
        <5>2. versions' = [versions EXCEPT ![l[1]][n] = [@ EXCEPT ![l[2]] = ver[l]]]
          BY <4>1, <4>4, <5>1
        <5> QED
          BY <1>1, <1>2, <2>1, <4>4, <5>2 DEF MemoryEntry, Domains, IsMemory, NoneIsDistinct
      <4> QED
        BY <4>2, <4>3, <4>4
    <3> QED
      BY <3>2, <3>3
  <2> QED
    BY <2>2, <2>3
<1>5. CASE NewVersions(l)
  <2>1. /\ pc[l] = "newVersions" /\ versions[l[1]][node[l]] = None
        /\ versions' = [versions EXCEPT ![l[1]][node[l]] = Fresh(l[2], ver[l])]
    BY <1>5 DEF NewVersions, VersionOK
  <2>2. k[1] # l[1] \/ n # node[l]
    BY <1>2, <2>1
  <2> QED
    BY <1>1, <1>2, <2>1, <2>2 DEF MemoryEntry, Domains, IsMemory
<1> QED
  BY <1>3, <1>4, <1>5 DEF LaneStep, PreNodeUncached, PreNode, NewKeys, Lookup, CheckExists, Fetch,
     Execute, ExecuteRaises, SetStoredMetadata, PostNodeSkip, PostNode, OpenFile, WriteFile

(* An entry of a run is written by the lanes of the run.                   *)
LEMMA OtherRuns ==
    ASSUME Domains, NEW l \in Lane, LaneStep(l), NEW r \in Run, r # l[1]
    PROVE  versions'[r] = versions[r]
BY DEF Domains, IsMemory, LaneStep, PreNodeUncached, PreNode, NewKeys, Lookup, CheckExists,
   Fetch, Execute, ExecuteRaises, SetMemoryMetadata, NewVersions, SetStoredMetadata,
   PostNodeSkip, PostNode, OpenFile, WriteFile

LEMMA VersionStep ==
    ASSUME NoneIsDistinct, NoneIsNoVersion, KeysStay, Domains, LaneInv, OneTask,
           \A k \in Lane : VersionOK(k), [CaNext]_cavars, NEW l \in Lane
    PROVE  VersionOK(l)'
<1> USE DEF Domains, Stays, Versioned, VersionOK
<1>1. /\ l[1] \in Run /\ l[2] \in Task /\ LaneOK(l) /\ VersionOK(l)
      /\ done[l] \subseteq TaskNode[l[2]] /\ TaskNode[l[2]] \subseteq Node
  BY ConstantFacts DEF LaneInv, LaneOK
<1>2. ASSUME NEW n \in TaskNode[l[2]], Versioned(l, n) PROVE Versioned(l, n)'
  <2>1. CASE \E k \in Lane : LaneStep(k)
    <3>1. MemoryEntry(versions, l, n) # None => MemoryEntry(versions', l, n) # None
      BY <2>1, VersionsStay
    <3> QED
      BY <1>2, <3>1 DEF MemoryEntry
  <2>2. CASE ~\E k \in Lane : LaneStep(k)
    BY <1>2, <2>2, Around DEF MemoryEntry
  <2> QED
    BY <2>1, <2>2
<1>3. \A n \in done[l] : Versioned(l, n)'
  BY <1>1, <1>2
<1>4. CASE ~LaneStep(l)
  <2>1. CASE pc'[l] = "dead" /\ done'[l] = done[l]
    BY <1>3, <2>1
  <2>2. CASE Same(l)
    <3>1. pc[l] \in {"record", "post", "open", "write"} => Versioned(l, node[l])'
      BY <1>1, <1>2, <2>2 DEF LaneOK, Busy, Stuck, Failure, Same
    <3>2. ASSUME pc[l] = "newVersions" PROVE versions'[l[1]] = versions[l[1]]
      <4>1. Busy(l) /\ Workers = 1
        BY <1>1, <3>2 DEF KeysStay, LaneOK, Busy, Stuck, Failure
      <4>2. CASE \E k \in Lane : LaneStep(k)
        BY <1>1, <1>4, <4>1, <4>2, AloneInRun, OtherRuns
      <4>3. CASE ~\E k \in Lane : LaneStep(k)
        BY <4>3, Around
      <4> QED
        BY <4>2, <4>3
    <3> QED
      BY <1>1, <1>3, <2>2, <3>1, <3>2 DEF Same
  <2> QED
    BY <1>4, <2>1, <2>2, Elsewhere
<1>5. ASSUME LaneStep(l), versions' # versions PROVE VersionOK(l)'
  <2>1. /\ Written(versions, versions', l, node[l], ver[l])
        /\ pc[l] \in {"remember", "newVersions"}
        /\ Stays(l, AfterMemory(l)) /\ UNCHANGED <<node, ver, done>>
    BY <1>5, VersionsWritten
  <2>2. ver[l] # None /\ pc'[l] \in {"record", "post"}
    BY <1>1, <2>1 DEF AfterMemory
  <2>3. Versioned(l, node[l])'
    BY <2>1, <2>2 DEF Written, MemoryEntry
  <2> QED
    BY <1>3, <2>1, <2>2, <2>3
<1>6. ASSUME NEW n \in Node, PreNodeUncached(l, n) PROVE VersionOK(l)'
  BY <1>3, <1>6 DEF PreNodeUncached
<1>7. ASSUME NEW n \in Node, PreNode(l, n) PROVE VersionOK(l)'
  <2>1. pc'[l] \in {"noneVersion", "newKeys", "lookup", "execute"} /\ done' = done
    BY <1>7 DEF PreNode, AfterPre
  <2> QED
    BY <1>3, <2>1
<1>8. CASE NewKeys(l) \/ Lookup(l) \/ CheckExists(l)
  BY <1>1, <1>3, <1>8 DEF NewKeys, Lookup, CheckExists, AfterPre
<1>9. CASE Fetch(l) \/ ExecuteRaises(l)
  BY <1>1, <1>3, <1>9 DEF Fetch, ExecuteRaises
<1>10. CASE Execute(l)
  <2>1. DataVersion(node[l], Compute(l, node[l])) # None
    BY DEF DataVersion, NoneIsNoVersion, NoneIsDistinct
  <2> QED
    BY <1>1, <1>3, <1>10, <2>1 DEF Execute
<1>11. CASE SetMemoryMetadata(l) /\ versions' = versions
  <2>1. pc[l] = "remember" /\ node' = node /\ ver' = ver /\ done' = done
    BY <1>11 DEF SetMemoryMetadata
  <2>2. CASE Nested(l[2], node[l]) /\ versions[l[1]][node[l]] = None
    BY <1>1, <1>3, <1>11, <2>1, <2>2 DEF SetMemoryMetadata
  <2>3. CASE ~(Nested(l[2], node[l]) /\ versions[l[1]][node[l]] = None)
    <3>1. /\ Written(versions, versions', l, node[l], ver[l])
          /\ pc'[l] \in {"record", "post"}
      BY <1>11, <2>3, VersionsWritten DEF LaneStep, SetMemoryMetadata, AfterMemory
    <3>2. Versioned(l, node[l])'
      BY <1>1, <2>1, <3>1 DEF Written, MemoryEntry
    <3> QED
      BY <1>3, <2>1, <3>1, <3>2
  <2> QED
    BY <2>2, <2>3
<1>12. CASE SetStoredMetadata(l)
  BY <1>1, <1>3, <1>12 DEF SetStoredMetadata, MemoryEntry
<1>13. CASE PostNodeSkip(l) \/ WriteFile(l)
  <2>1. /\ versions' = versions /\ done'[l] = done[l] \cup {node[l]} /\ pc'[l] = "ready"
        /\ Versioned(l, node[l])
    BY <1>1, <1>13 DEF PostNodeSkip, WriteFile, Bind
  <2> QED
    BY <1>1, <2>1 DEF MemoryEntry
<1>14. CASE PostNode(l)
  <2>1. versions' = versions /\ Versioned(l, node[l])
    BY <1>1, <1>14 DEF PostNode
  <2>2. CASE Bind(l)
    <3>1. done'[l] = done[l] \cup {node[l]} /\ pc'[l] = "ready"
      BY <2>2 DEF Bind
    <3> QED
      BY <1>1, <2>1, <3>1 DEF MemoryEntry
  <2>3. CASE ~Bind(l)
    <3>1. /\ pc'[l] \in {"unversioned", "unpicklable", "open", "write"}
          /\ node' = node /\ done' = done
      BY <1>14, <2>3 DEF PostNode
    <3> QED
      BY <1>1, <2>1, <3>1 DEF MemoryEntry
  <2> QED
    BY <2>2, <2>3
<1>15. CASE OpenFile(l)
  BY <1>1, <1>3, <1>15 DEF OpenFile, MemoryEntry
<1>16. CASE NewVersions(l) /\ versions' = versions
  <2>1. /\ Written(versions, versions', l, node[l], ver[l])
        /\ pc'[l] \in {"record", "post"} /\ UNCHANGED <<node, ver, done>>
        /\ pc[l] = "newVersions"
    BY <1>16, VersionsWritten DEF LaneStep, NewVersions, AfterMemory
  <2>2. Versioned(l, node[l])'
    BY <1>1, <2>1 DEF Written, MemoryEntry
  <2> QED
    BY <1>3, <2>1, <2>2
<1> QED
  BY <1>4, <1>5, <1>6, <1>7, <1>8, <1>9, <1>10, <1>11, <1>12, <1>13, <1>14, <1>15, <1>16
     DEF LaneStep

(* With one run on and one task of it, one lane is busy.                   *)
LEMMA BusyAlone ==
    ASSUME LaneInv, OneTask, RunsInOrder, Workers = 1, ~Overlap,
           NEW l \in Lane, Busy(l), NEW k \in Lane, Busy(k)
    PROVE  k = l
<1>1. /\ l[1] \in 1..LastRun /\ k[1] \in 1..LastRun /\ LastRun \in Nat
      /\ l = <<l[1], l[2]>> /\ k = <<k[1], k[2]>>
  BY ConstantFacts, CacheAssumption DEF Run
<1>2. run[l[1]] = "on" /\ run[k[1]] = "on"
  BY DEF LaneInv, LaneOK
<1>3. l[2] \in InFlight(l[1]) /\ k[2] \in InFlight(k[1])
  BY BusyInFlight
<1>4. l[1] = k[1]
  <2>1. ~(l[1] < k[1]) /\ ~(k[1] < l[1])
    BY <1>1, <1>2 DEF RunsInOrder, Run
  <2> QED
    BY <1>1, <2>1
<1> QED
  BY <1>1, <1>2, <1>3, <1>4 DEF OneTask, Run

LEMMA TornStep ==
    ASSUME FilesAreWhole, Domains, LaneInv, TornInv, [CaNext]_cavars
    PROVE  TornInv'
<1> USE DEF Domains, Stays
<1>1. ASSUME NEW l \in Lane, pc'[l] = "open" PROVE OnDisk
  <2>1. CASE pc[l] = "open"
    BY <2>1 DEF TornInv
  <2>2. CASE pc[l] # "open" /\ LaneStep(l)
    <3>1. ASSUME NEW n \in Node, PreNodeUncached(l, n) \/ PreNode(l, n) PROVE FALSE
      BY <1>1, <3>1 DEF PreNodeUncached, PreNode, AfterPre
    <3>2. PostNode(l)
      BY <1>1, <2>2, <3>1 DEF LaneStep, AfterPre, NewKeys, Lookup, CheckExists, Fetch, Execute,
         ExecuteRaises, SetMemoryMetadata, NewVersions, AfterMemory, SetStoredMetadata,
         PostNodeSkip, OpenFile, WriteFile, Bind
    <3> QED
      BY <1>1, <3>2 DEF PostNode, Bind
  <2>3. CASE pc[l] # "open" /\ ~LaneStep(l)
    BY <1>1, <2>3, Elsewhere DEF Same
  <2> QED
    BY <2>1, <2>2, <2>3
<1>2. ASSUME NEW v \in DOMAIN files, BeingWritten(v), OnDisk, NEW l \in Lane, LaneStep(l),
             ~(WriteFile(l) /\ ver[l] = v)
      PROVE  BeingWritten(v)'
  <2>1. PICK k \in Lane : pc[k] = "write" /\ ver[k] = v
    BY <1>2 DEF BeingWritten
  <2>2. k # l
    <3> SUFFICES ASSUME k = l PROVE FALSE
      OBVIOUS
    <3>1. WriteFile(l)
      BY <1>2, <2>1 DEF LaneStep, PreNodeUncached, PreNode, MayTake, NewKeys, Lookup,
         CheckExists, Fetch, Execute, ExecuteRaises, SetMemoryMetadata, NewVersions,
         SetStoredMetadata, PostNodeSkip, PostNode, OpenFile
    <3> QED
      BY <1>2, <2>1, <3>1
  <2>3. Same(k)
    BY <1>2, <2>2, OtherLanes
  <2> QED
    BY <2>1, <2>3 DEF BeingWritten, Same
<1>3. ASSUME NEW v \in DOMAIN files', ~files'[v].whole PROVE OnDisk /\ BeingWritten(v)'
  <2>1. ASSUME NEW l \in Lane, OpenFile(l), v = ver[l] PROVE OnDisk /\ BeingWritten(v)'
    <3>1. OnDisk
      BY <2>1 DEF TornInv, OpenFile
    <3>2. pc'[l] = "write" /\ ver'[l] = v
      BY <2>1 DEF OpenFile
    <3> QED
      BY <3>1, <3>2 DEF BeingWritten
  <2>2. ASSUME NEW l \in Lane, LaneStep(l), ~(OpenFile(l) /\ v = ver[l])
        PROVE  OnDisk /\ BeingWritten(v)'
    <3>1. v \in DOMAIN files /\ ~files[v].whole /\ ~(WriteFile(l) /\ ver[l] = v)
      <4>1. CASE OpenFile(l)
        BY <1>3, <2>2, <4>1 DEF OpenFile, Put, WriteFile
      <4>2. CASE WriteFile(l)
        <5>1. DOMAIN files' = DOMAIN files \cup {ver[l]}
          BY <4>2 DEF WriteFile, Put
        <5>2. \A j \in DOMAIN files' : files'[j] =
                 IF j = ver[l] THEN [whole |-> TRUE, value |-> val[l]] ELSE files[j]
          BY <4>2 DEF WriteFile, Put
        <5>3. v # ver[l]
          BY <1>3, <5>2
        <5> QED
          BY <1>3, <5>1, <5>2, <5>3
      <4>3. CASE ~OpenFile(l) /\ ~WriteFile(l)
        <5>1. files' = files
          BY <2>2, <4>3 DEF LaneStep, PreNodeUncached, PreNode, NewKeys, Lookup, CheckExists,
             Fetch, Execute, ExecuteRaises, SetMemoryMetadata, NewVersions, SetStoredMetadata,
             PostNodeSkip, PostNode
        <5> QED
          BY <1>3, <4>3, <5>1
      <4> QED
        BY <4>1, <4>2, <4>3
    <3>2. OnDisk /\ BeingWritten(v)
      BY <3>1 DEF TornInv
    <3> QED
      BY <1>2, <2>2, <3>1, <3>2
  <2>3. CASE ~\E l \in Lane : LaneStep(l)
    <3>1. v \in DOMAIN files /\ files'[v] = files[v]
      BY <1>3, <2>3 DEF CaNext, cavars, lanevars, Begin, End, Crash, ChangeWorld, DeleteResult,
         DeleteMetadata, Drop
    <3>2. OnDisk /\ BeingWritten(v)
      BY <1>3, <3>1 DEF TornInv
    <3>3. MaxCrashes = 0
      BY <3>2 DEF FilesAreWhole
    <3>4. ver' = ver /\ pc' = pc
      BY <2>3, <3>3, Around DEF Begin, End, Crash, lanevars, TornInv
    <3> QED
      BY <3>2, <3>4 DEF BeingWritten
  <2> QED
    BY <2>1, <2>2, <2>3
<1>4. crashes' \in Nat
  <2>1. crashes' = crashes \/ crashes' = crashes + 1
    BY OtherLanes DEF CaNext, cavars, Begin, End, Crash, ChangeWorld, DeleteResult,
       DeleteMetadata
  <2> QED
    BY <2>1 DEF TornInv
<1> QED
  BY <1>1, <1>3, <1>4 DEF TornInv

LEMMA OrderStep ==
    ASSUME Domains, RunsInOrder, [CaNext]_cavars
    PROVE  RunsInOrder'
<1> SUFFICES ASSUME NEW r \in Run, run'[r] # "new", NEW q \in 1..(r-1)
             PROVE  run'[q] # "new" /\ (Overlap \/ run'[q] # "on")
  BY DEF RunsInOrder
<1>1. q \in Run /\ q < r /\ r \in Nat
  BY CacheAssumption DEF Run
<1>2. CASE \E p \in Run : Begin(p) \/ End(p) \/ Crash(p)
  <2>1. PICK p \in Run : Begin(p) \/ End(p) \/ Crash(p)
    BY <1>2
  <2>2. CASE Begin(p)
    <3>1. p \in Nat /\ run[p] = "new" /\ run' = [run EXCEPT ![p] = "on"]
          /\ \A s \in 1..(p-1) : run[s] # "new" /\ (Overlap \/ run[s] # "on")
      BY <2>2, CacheAssumption DEF Begin, Run
    <3>2. CASE p = r
      BY <1>1, <3>1, <3>2 DEF Domains
    <3>3. CASE p # r
      <4>1. run[r] # "new"
        BY <3>1, <3>3 DEF Domains
      <4>2. run[q] # "new" /\ (Overlap \/ run[q] # "on")
        BY <4>1 DEF RunsInOrder
      <4> QED
        BY <1>1, <3>1, <4>2 DEF Domains
    <3> QED
      BY <3>2, <3>3
  <2>3. CASE End(p) \/ Crash(p)
    <3>1. /\ run[p] = "on"
          /\ \/ run' = [run EXCEPT ![p] = "over"]
             \/ run' = [run EXCEPT ![p] = "crashed"]
      BY <2>3 DEF End, Crash
    <3>2. run[r] # "new"
      BY <3>1 DEF Domains
    <3>3. run[q] # "new" /\ (Overlap \/ run[q] # "on")
      BY <3>2 DEF RunsInOrder
    <3> QED
      BY <1>1, <3>1, <3>3 DEF Domains
  <2> QED
    BY <2>1, <2>2, <2>3
<1>3. CASE run' = run
  BY <1>3 DEF RunsInOrder
<1> QED
  BY <1>2, <1>3, OtherLanes, Around

(* The lanes of a run stop when it does.                                   *)
LEMMA OverStep ==
    ASSUME Domains, LaneInv, Over, [CaNext]_cavars
    PROVE  Over'
<1> SUFFICES ASSUME NEW r \in Run, run'[r] = "over" PROVE Settled(r)'
  BY DEF Over
<1>1. \A t \in Task : <<r, t>> \in Lane
  BY ConstantFacts
<1>2. ASSUME Settled(r),
             \A t \in Task : pc'[<<r, t>>] = pc[<<r, t>>] /\ done'[<<r, t>>] = done[<<r, t>>]
      PROVE  Settled(r)'
  <2>1. AnyFailed(r)' = AnyFailed(r)
    BY <1>2 DEF AnyFailed, Failed
  <2>2. \A t \in Task : /\ Finished(<<r, t>>)' = Finished(<<r, t>>)
                        /\ Failed(<<r, t>>)' = Failed(<<r, t>>)
                        /\ Started(<<r, t>>)' = Started(<<r, t>>)
    BY <1>2 DEF Finished, Failed, Started
  <2> QED
    BY <1>2, <2>1, <2>2 DEF Settled
<1>3. CASE \E l \in Lane : LaneStep(l)
  <2>1. PICK l \in Lane : LaneStep(l)
    BY <1>3
  <2>2. run[r] = "over"
    BY <2>1, OtherLanes
  <2>3. run[l[1]] = "on"
    BY <2>1, LaneMoves DEF LaneInv, LaneOK, MayTake
  <2>4. \A t \in Task : <<r, t>> # l /\ Same(<<r, t>>)
    BY <1>1, <2>1, <2>2, <2>3, OtherLanes
  <2> QED
    BY <1>2, <2>2, <2>4 DEF Same, Over
<1>4. CASE ~\E l \in Lane : LaneStep(l)
  <2>1. done' = done
    BY <1>4, Around
  <2>2. Settled(r) /\ \A t \in Task : pc'[<<r, t>>] = pc[<<r, t>>]
    BY <1>1, <1>4, Around DEF Begin, End, Crash, lanevars, Domains, Over
  <2> QED
    BY <1>2, <2>1, <2>2
<1> QED
  BY <1>3, <1>4

(* A dependency that was done has a version where its reader looks for it. *)
LEMMA VersionIsRead ==
    ASSUME NoneIsDistinct, NoneIsNoVersion, ReadsWholeTasks, Domains,
           \A k \in Lane : VersionOK(k),
           NEW l \in Lane, NEW n \in TaskNode[l[2]], DepsDone(l, n), NEW d \in Deps[n]
    PROVE  DepVersion(l, n, d) # None
<1>1. l[1] \in Run /\ l[2] \in Task /\ n \in Node /\ d \in Node
  BY ConstantFacts
<1>2. CASE Behavior[l[1]][d] = "IGNORE"
  BY <1>2 DEF DepVersion, NoneIsNoVersion
<1>3. CASE Behavior[l[1]][d] = "DISABLE"
  BY <1>3 DEF DepVersion, Disabled, NoneIsNoVersion
<1>4. CASE Behavior[l[1]][d] \notin {"IGNORE", "DISABLE"} /\ d \in InputNode
  BY <1>4 DEF DepVersion, NoneIsDistinct
<1>5. CASE Behavior[l[1]][d] \notin {"IGNORE", "DISABLE"} /\ d \notin InputNode
  <2> DEFINE k == Source(l, d)
             entry == versions[l[1]][d]
  <2>1. /\ k \in Lane /\ k[1] = l[1] /\ d \in TaskNode[k[2]] /\ d \in done[k]
        /\ d \in TaskNode[l[2]] => k = l
    BY <1>5, SourceFacts DEF DepsDone
  <2>2. MemoryEntry(versions, k, d) # None
    BY <1>5, <2>1 DEF VersionOK, Versioned
  <2>3. entry # None /\ entry[SlotOf(k[2], d)] # None
    BY <2>1, <2>2 DEF MemoryEntry
  <2>4. SlotOf(k[2], d) \in {NoTask, l[2]}
    <3>1. CASE d \in TaskNode[l[2]]
      BY <2>1, <3>1 DEF SlotOf
    <3>2. CASE d \notin TaskNode[l[2]]
      <4>1. k[2] = Home(d)
        BY <3>2 DEF Source
      <4>2. ~Nested(Home(d), d)
        BY <1>1, <1>5, <3>2 DEF ReadsWholeTasks
      <4> QED
        BY <4>1, <4>2 DEF SlotOf
    <3> QED
      BY <3>1, <3>2
  <2>5. Recall(l, d) # None
    BY <2>3, <2>4 DEF Recall
  <2> QED
    BY <1>5, <2>5 DEF DepVersion
<1> QED
  BY <1>2, <1>3, <1>4, <1>5

LEMMA FailureStep ==
    ASSUME NoneIsDistinct, NoneIsNoVersion, FilesHavePickles, ReadsWholeTasks, FilesAreWhole,
           SafeInv, [CaNext]_cavars
    PROVE  NoFailure'
<1> USE DEF Domains, Stays
<1>1. /\ Domains /\ LaneInv /\ OneTask /\ TornInv /\ RunsInOrder /\ NoFailure
      /\ \A l \in Lane : VersionOK(l)
  BY DEF SafeInv
<1> SUFFICES ASSUME NEW l \in Lane, pc'[l] \in Failure \ {"raised"} PROVE FALSE
  BY DEF NoFailure, Failed
<1>2. pc[l] \notin Failure \ {"raised"}
  BY <1>1 DEF NoFailure, Failed
<1>3. LaneStep(l)
  BY <1>1, <1>2, Elsewhere DEF Same, Failure
<1>4. /\ (\E n \in Node : PreNode(l, n) /\ MayTake(l, n) /\ pc'[l] = "noneVersion")
         \/ Fetch(l) \/ PostNode(l)
  <2>1. ASSUME NEW n \in Node, PreNodeUncached(l, n) PROVE FALSE
    BY <1>1, <2>1 DEF PreNodeUncached, Failure
  <2>2. ASSUME NEW n \in Node, PreNode(l, n) PROVE MayTake(l, n) /\ pc'[l] = "noneVersion"
    BY <1>1, <2>2 DEF PreNode, AfterPre, Failure
  <2>3. CASE NewKeys(l) \/ Lookup(l) \/ CheckExists(l) \/ Execute(l) \/ ExecuteRaises(l)
    BY <1>1, <2>3 DEF NewKeys, AfterPre, Lookup, CheckExists, Execute, ExecuteRaises, Failure
  <2>4. CASE SetMemoryMetadata(l) \/ NewVersions(l) \/ SetStoredMetadata(l)
    BY <1>1, <2>4 DEF SetMemoryMetadata, NewVersions, AfterMemory, SetStoredMetadata, Failure
  <2>5. CASE PostNodeSkip(l) \/ OpenFile(l) \/ WriteFile(l)
    BY <1>1, <2>5 DEF PostNodeSkip, OpenFile, WriteFile, Bind, Failure
  <2> QED
    BY <1>3, <2>1, <2>2, <2>3, <2>4, <2>5 DEF LaneStep
<1>5. ASSUME NEW n \in Node, PreNode(l, n), MayTake(l, n), pc'[l] = "noneVersion" PROVE FALSE
  <2>1. PICK d \in Deps[n] : CacheKey(l, n).deps[d] = None
    BY <1>1, <1>5 DEF PreNode, AfterPre
  <2>2. DepVersion(l, n, d) = None
    BY <2>1 DEF CacheKey
  <2>3. n \in TaskNode[l[2]] /\ l[2] \in Task /\ LaneOK(l)
    BY <1>1, <1>5, ConstantFacts DEF MayTake, LaneInv
  <2>4. \A m \in TaskNode[l[2]] : \A e \in Deps[m] \ (InputNode \cup TaskNode[l[2]]) :
            e \in done[Source(l, e)]
    BY <1>5, <2>3 DEF MayTake, Started, MayStart, LaneOK
  <2>5. DepsDone(l, n)
    BY <1>5, <2>3, <2>4 DEF DepsDone, MayTake, Source
  <2> QED
    BY <1>1, <2>2, <2>3, <2>5, VersionIsRead
<1>6. CASE Fetch(l)
  <2>1. pc[l] = "fetch" /\ ver[l] \in DOMAIN files /\ ~files[ver[l]].whole
    BY <1>1, <1>6 DEF Fetch, Failure
  <2>2. PICK k \in Lane : pc[k] = "write"
    BY <1>1, <2>1 DEF TornInv, BeingWritten
  <2>3. Workers = 1 /\ ~Overlap
    BY <1>1, <2>1 DEF TornInv, FilesAreWhole
  <2>4. Busy(l) /\ Busy(k)
    BY <2>1, <2>2 DEF Busy, Stuck, Failure
  <2> QED
    BY <1>1, <2>1, <2>2, <2>3, <2>4, BusyAlone
<1>7. CASE PostNode(l)
  <2>1. MemoryEntry(versions, l, node[l]) # None
    BY <1>1, <1>7 DEF PostNode, VersionOK, Versioned
  <2>2. KnownVersion(l, node[l], MemoryEntry(keys, l, node[l])) # None
    BY <2>1 DEF KnownVersion
  <2> QED
    BY <1>1, <1>7, <2>2 DEF PostNode, Bind, Failure, FilesHavePickles
<1> QED
  BY <1>4, <1>5, <1>6, <1>7

(* The caching adapter makes no run fail: where its four conditions hold,  *)
(* every hook returns, whatever is deleted from the stores and however the *)
(* nodes are marked, and a run ends with all its tasks done unless one of  *)
(* its own nodes raised.                                                   *)
THEOREM CachingNeverFails ==
    ASSUME NoneIsDistinct, NoneIsNoVersion, FilesHavePickles, ReadsWholeTasks, KeysStay,
           FilesAreWhole
    PROVE  CaSpec => []OnlyNodesFail
<1>1. ASSUME CaInit PROVE SafeInv
  <2>1. Domains /\ LaneInv /\ OneTask
    BY <1>1, CacheInit, FindInit DEF CacheInv, FindInv
  <2>2. \A l \in Lane : VersionOK(l)
    BY <1>1 DEF CaInit, VersionOK
  <2>3. TornInv /\ RunsInOrder /\ Over /\ NoFailure
    BY <1>1 DEF CaInit, TornInv, RunsInOrder, Over, NoFailure, Failed, Failure
  <2> QED
    BY <2>1, <2>2, <2>3 DEF SafeInv
<1>2. ASSUME SafeInv, [CaNext]_cavars PROVE SafeInv'
  <2>1. Domains' /\ LaneInv' /\ OneTask'
    BY <1>2, DomainsStep, LaneInvStep, OneTaskStep DEF SafeInv
  <2>2. \A l \in Lane : VersionOK(l)'
    BY <1>2, VersionStep DEF SafeInv
  <2>3. TornInv' /\ RunsInOrder' /\ Over' /\ NoFailure'
    BY <1>2, TornStep, OrderStep, OverStep, FailureStep DEF SafeInv
  <2> QED
    BY <2>1, <2>2, <2>3 DEF SafeInv
<1>3. ASSUME SafeInv PROVE OnlyNodesFail
  <2>1. NoFailure /\ Over
    BY <1>3 DEF SafeInv
  <2>2. ASSUME NEW r \in Run, run[r] = "over", ~\E t \in Task : pc[<<r, t>>] = "raised",
               NEW t \in Task
        PROVE  Finished(<<r, t>>)
    <3>1. \A u \in Task : ~Failed(<<r, u>>)
      BY <2>1, <2>2, ConstantFacts DEF NoFailure
    <3> QED
      BY <2>1, <2>2, <3>1 DEF Over, Settled, AnyFailed
  <2> QED
    BY <2>1, <2>2 DEF OnlyNodesFail, NoFailure
<1> QED
  BY <1>1, <1>2, <1>3, PTL DEF CaSpec

-----------------------------------------------------------------------------
(* A run comes to its end.                                                 *)

(* What the second theorem supposes: neither nodes nor tasks all wait for  *)
(* one another.  A dataflow has no cycle, though only display_graph asks   *)
(* whether it has one.                                                     *)
NodesAreOrdered ==
    \A S \in (SUBSET Node) \ {{}} : \E n \in S : Deps[n] \cap S = {}
TasksAreOrdered ==
    \A S \in (SUBSET Task) \ {{}} : \E t \in S : \A n \in TaskNode[t] :
        \A d \in Deps[n] \ (InputNode \cup TaskNode[t]) : Home(d) \notin S

(* A lane may take a node, or is in one: a stage of a node has an action   *)
(* that asks for nothing but the stage.                                    *)
CanMove(l) ==
    \/ \E n \in Node : MayTake(l, n)
    \/ pc[l] \in Stage \ ({"ready", "dead"} \cup Failure)

(* The nodes a lane has left, and the stages it has left in its node.      *)
StagesLeft(s) ==
    CASE s = "ready" -> 14  [] s = "newKeys" -> 13  [] s = "lookup" -> 12
      [] s = "check" -> 11  [] s = "fetch" -> 10    [] s = "execute" -> 9
      [] s = "remember" -> 8 [] s = "newVersions" -> 7 [] s = "record" -> 6
      [] s = "post" -> 5    [] s = "open" -> 4      [] s = "write" -> 3
      [] OTHER -> 0
WorkLeft(l) == 20 * Cardinality(TaskNode[l[2]] \ done[l]) + StagesLeft(pc[l])

StageInv ==
    \A l \in Lane : pc[l] \in Stage /\ (pc[l] = "dead" => run[l[1]] \notin {"new", "on"})
EndInv == Domains /\ LaneInv /\ OneTask /\ StageInv

(* A step of a lane goes to a later stage, or ends the node.               *)
LEMMA NextStage ==
    ASSUME Domains, LaneInv, NEW l \in Lane, LaneStep(l), pc[l] \in Stage
    PROVE  /\ pc'[l] \in Stage \ {"dead"}
           /\ StagesLeft(pc[l]) \in 0..14 /\ StagesLeft(pc'[l]) \in 0..14
           /\ \/ UNCHANGED done /\ StagesLeft(pc'[l]) < StagesLeft(pc[l])
              \/ /\ node[l] \in TaskNode[l[2]] \ done[l]
                 /\ done'[l] = done[l] \cup {node[l]}
<1> DEFINE Later == /\ pc'[l] \in Stage \ {"dead"}
                    /\ UNCHANGED done /\ StagesLeft(pc'[l]) < StagesLeft(pc[l])
<1> USE DEF Domains, Stays, Stage, Failure
<1>1. \A s \in Stage : StagesLeft(s) \in 0..14
  BY DEF StagesLeft
<1>2. ASSUME NEW n \in Node, PreNodeUncached(l, n) \/ PreNode(l, n) PROVE Later
  <2>1. pc[l] = "ready" /\ pc'[l] \in {"noneVersion", "newKeys", "lookup", "execute"}
        /\ UNCHANGED done
    BY <1>2 DEF PreNodeUncached, PreNode, MayTake, AfterPre
  <2> QED
    BY <2>1 DEF StagesLeft
<1>3. CASE NewKeys(l) \/ Lookup(l) \/ CheckExists(l)
  <2>1. Later
    BY <1>3 DEF NewKeys, AfterPre, Lookup, CheckExists, StagesLeft
  <2> QED
    BY <1>1, <2>1
<1>4. CASE Fetch(l) \/ Execute(l) \/ ExecuteRaises(l)
  <2>1. Later
    BY <1>4 DEF Fetch, Execute, ExecuteRaises, StagesLeft
  <2> QED
    BY <1>1, <2>1
<1>5. CASE SetMemoryMetadata(l) \/ NewVersions(l) \/ SetStoredMetadata(l)
  <2>1. Later
    BY <1>5 DEF SetMemoryMetadata, NewVersions, SetStoredMetadata, AfterMemory, StagesLeft
  <2> QED
    BY <1>1, <2>1
<1>6. CASE OpenFile(l) \/ (PostNode(l) /\ ~Bind(l))
  <2>1. Later
    BY <1>6 DEF OpenFile, PostNode, StagesLeft
  <2> QED
    BY <1>1, <2>1
<1>7. CASE Bind(l) /\ pc[l] \in {"post", "write"}
  <2>1. pc'[l] = "ready" /\ done'[l] = done[l] \cup {node[l]}
    BY <1>7 DEF Bind
  <2>2. node[l] \in TaskNode[l[2]] \ done[l]
    BY <1>7 DEF LaneInv, LaneOK, Busy, Stuck
  <2> QED
    BY <1>1, <2>1, <2>2
<1>8. CASE PostNodeSkip(l) \/ WriteFile(l) \/ (PostNode(l) /\ Bind(l))
  BY <1>7, <1>8 DEF PostNodeSkip, WriteFile, PostNode
<1> QED
  BY <1>1, <1>2, <1>3, <1>4, <1>5, <1>6, <1>8 DEF LaneStep

LEMMA StageInvStep ==
    ASSUME Domains, LaneInv, StageInv, [CaNext]_cavars
    PROVE  StageInv'
<1> SUFFICES ASSUME NEW l \in Lane
             PROVE  pc'[l] \in Stage /\ (pc'[l] = "dead" => run'[l[1]] \notin {"new", "on"})
  BY DEF StageInv
<1>1. l[1] \in Run /\ pc[l] \in Stage /\ (pc[l] = "dead" => run[l[1]] \notin {"new", "on"})
  BY ConstantFacts DEF StageInv
<1>2. CASE LaneStep(l)
  BY <1>1, <1>2, NextStage
<1>3. CASE \E k \in Lane \ {l} : LaneStep(k)
  BY <1>1, <1>3, OtherLanes DEF Same
<1>4. CASE ~\E k \in Lane : LaneStep(k)
  BY <1>1, <1>4, Around DEF Begin, End, Crash, lanevars, Domains, Stage
<1> QED
  BY <1>2, <1>3, <1>4

LEMMA EndReached ==
    ASSUME NoneIsDistinct
    PROVE  CaSpec => []EndInv
<1>1. ASSUME CaInit PROVE EndInv
  <2>1. Domains /\ LaneInv /\ OneTask
    BY <1>1, CacheInit, FindInit DEF CacheInv, FindInv
  <2> QED
    BY <1>1, <2>1 DEF EndInv, StageInv, CaInit, Stage
<1>2. ASSUME EndInv, [CaNext]_cavars PROVE EndInv'
  BY <1>2, DomainsStep, LaneInvStep, OneTaskStep, StageInvStep DEF EndInv
<1> QED
  BY <1>1, <1>2, PTL DEF CaSpec

(* The work of a lane never grows, and each step of the lane is part of    *)
(* it: no run goes round in circles between the hooks, whatever it finds   *)
(* in the stores.                                                          *)
THEOREM CacheRunIsFinite ==
    ASSUME NoneIsDistinct, \A t \in Task : IsFiniteSet(TaskNode[t])
    PROVE  CaSpec => [][\A l \in Lane : /\ WorkLeft(l) \in Nat
                                        /\ WorkLeft(l)' <= WorkLeft(l)
                                        /\ LaneStep(l) => WorkLeft(l)' < WorkLeft(l)]_cavars
<1> DEFINE Less(l) == /\ WorkLeft(l) \in Nat
                      /\ WorkLeft(l)' <= WorkLeft(l)
                      /\ LaneStep(l) => WorkLeft(l)' < WorkLeft(l)
<1>1. ASSUME EndInv, [CaNext]_cavars, NEW l \in Lane PROVE Less(l)
  <2> DEFINE left == TaskNode[l[2]] \ done[l]
             c == Cardinality(left)
             s == StagesLeft(pc[l])
  <2>1. /\ Domains /\ LaneInv /\ pc[l] \in Stage
        /\ IsFiniteSet(left)
    BY <1>1, FS_Difference, ConstantFacts DEF EndInv, StageInv
  <2>2. c \in Nat /\ s \in 0..14
    BY <2>1, FS_CardinalityType DEF StagesLeft, Stage, Failure
  <2>3. CASE LaneStep(l)
    <3> DEFINE t == StagesLeft(pc'[l])
               d == Cardinality(TaskNode[l[2]] \ done'[l])
    <3>1. /\ t \in 0..14
          /\ \/ UNCHANGED done /\ t < s
             \/ node[l] \in left /\ done'[l] = done[l] \cup {node[l]}
      BY <2>1, <2>3, NextStage
    <3>2. WorkLeft(l) = 20 * c + s /\ WorkLeft(l)' = 20 * d + t
      BY DEF WorkLeft
    <3>3. CASE UNCHANGED done /\ t < s
      <4>1. d = c
        BY <3>3
      <4> HIDE DEF c, d, s, t
      <4>2. 20 * d + t < 20 * c + s /\ 20 * c + s \in Nat /\ 20 * d + t \in Int
        BY <2>2, <3>1, <3>3, <4>1
      <4> QED
        BY <3>2, <4>2
    <3>4. CASE node[l] \in left /\ done'[l] = done[l] \cup {node[l]}
      <4>1. TaskNode[l[2]] \ done'[l] = left \ {node[l]}
        BY <3>4
      <4>2. d = c - 1
        BY <2>1, <3>4, <4>1, FS_RemoveElement
      <4> HIDE DEF c, d, s, t
      <4>3. 20 * d + t < 20 * c + s /\ 20 * c + s \in Nat /\ 20 * d + t \in Int
        BY <2>2, <3>1, <4>2
      <4> QED
        BY <3>2, <4>3
    <3> QED
      BY <3>1, <3>3, <3>4
  <2>4. CASE ~LaneStep(l)
    <3>1. done'[l] = done[l] /\ pc'[l] \in {pc[l], "dead"}
      BY <1>1, <2>1, <2>4, Elsewhere DEF Same
    <3>2. StagesLeft(pc'[l]) \in {s, 0}
      BY <3>1 DEF StagesLeft
    <3>3. WorkLeft(l)' = 20 * c + StagesLeft(pc'[l]) /\ WorkLeft(l) = 20 * c + s
      BY <3>1 DEF WorkLeft
    <3> HIDE DEF c, s
    <3> QED
      BY <2>2, <2>4, <3>2, <3>3
  <2> QED
    BY <2>3, <2>4
<1> HIDE DEF Less
<1>2. EndInv /\ [CaNext]_cavars => [\A l \in Lane : Less(l)]_cavars
  BY <1>1
<1>3. CaSpec => [][\A l \in Lane : Less(l)]_cavars
  BY <1>2, EndReached, PTL DEF CaSpec
<1> QED
  BY <1>3 DEF Less

NeverStuck ==
    \A r \in Run : run[r] = "on" => Settled(r) \/ \E t \in Task : CanMove(<<r, t>>)

(* A run that is on is settled or has a lane that can go on: no task waits *)
(* for one that will not come, and none holds the slot of the pool in vain.*)
THEOREM CacheNeverStuck ==
    ASSUME NoneIsDistinct, NodesAreOrdered, TasksAreOrdered
    PROVE  CaSpec => []NeverStuck
<1>1. ASSUME EndInv, NEW r \in Run, run[r] = "on", ~Settled(r),
             \A t \in Task : ~CanMove(<<r, t>>)
      PROVE  FALSE
  <2>1. /\ LaneInv /\ StageInv /\ \A t \in Task : <<r, t>> \in Lane
    BY <1>1, ConstantFacts DEF EndInv
  <2>2. \A t \in Task : pc[<<r, t>>] \in {"ready"} \cup Failure
    BY <1>1, <2>1 DEF StageInv, CanMove
  (* A task that has begun and not failed has no node left to take.        *)
  <2>3. ASSUME NEW t \in Task, ~Failed(<<r, t>>),
               Started(<<r, t>>) \/ MayStart(<<r, t>>)
        PROVE  Finished(<<r, t>>)
    <3> DEFINE l == <<r, t>>
               left == TaskNode[t] \ done[l]
    <3>1. pc[l] = "ready" /\ LaneOK(l) /\ left \subseteq Node
      BY <2>1, <2>2, <2>3, ConstantFacts DEF Failed, LaneInv
    <3>2. CASE left = {}
      BY <3>1, <3>2 DEF LaneOK, Finished
    <3>3. CASE left # {}
      <4>1. PICK n \in left : Deps[n] \cap left = {}
        BY <3>1, <3>3 DEF NodesAreOrdered
      <4>2. \A d \in Deps[n] : d \in TaskNode[t] => d \in done[l]
        BY <4>1
      <4>3. MayTake(l, n)
        BY <1>1, <2>3, <3>1, <4>1, <4>2 DEF MayTake
      <4> QED
        BY <1>1, <3>1, <4>1, <4>3 DEF CanMove
    <3> QED
      BY <3>2, <3>3
  <2>4. InFlight(r) = {}
    BY <2>3 DEF InFlight
  (* So some task has not begun, none has failed, and the first of those   *)
  (* that have not begun may.                                              *)
  <2> DEFINE rest == {t \in Task : ~Finished(<<r, t>>)}
  <2>5. rest # {} /\ ~AnyFailed(r)
    BY <1>1, <2>3 DEF Settled, AnyFailed
  <2>6. PICK t \in rest : \A n \in TaskNode[t] :
               \A d \in Deps[n] \ (InputNode \cup TaskNode[t]) : Home(d) \notin rest
    BY <2>5 DEF TasksAreOrdered
  <2>7. ASSUME NEW n \in TaskNode[t], NEW d \in Deps[n] \ (InputNode \cup TaskNode[t])
        PROVE  d \in done[Source(<<r, t>>, d)]
    <3> DEFINE l == <<r, t>>
               k == Source(l, d)
    <3>1. l \in Lane /\ n \in TaskNode[l[2]]
      BY <2>1
    <3>2. k \in Lane /\ d \in TaskNode[k[2]]
      BY <3>1, SourceFacts
    <3>3. k = <<r, Home(d)>>
      BY DEF Source
    <3>4. Home(d) \in Task
      BY <3>2, <3>3, ConstantFacts
    <3>5. done[k] = TaskNode[k[2]]
      BY <2>6, <3>3, <3>4 DEF Finished
    <3> QED
      BY <3>2, <3>5
  <2>8. Cardinality(InFlight(r)) < Workers
    BY <2>4, FS_EmptySet, CacheAssumption
  <2>9. MayStart(<<r, t>>) /\ ~Failed(<<r, t>>)
    BY <2>5, <2>7, <2>8 DEF MayStart, AnyFailed
  <2> QED
    BY <2>3, <2>9
<1>2. EndInv => NeverStuck
  BY <1>1 DEF NeverStuck
<1> QED
  BY <1>2, EndReached, PTL

=============================================================================

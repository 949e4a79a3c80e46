--------------------------- MODULE MCCacheAdapter ---------------------------
(* Dataflows and histories of runs for CacheAdapter. *)
EXTENDS CacheAdapter

-----------------------------------------------------------------------------
(* A chain x -> a -> b run without tasks, or with one task per level.      *)
ChainNode == {"x", "a", "b"}
ChainInput == {"x"}
ChainDeps == [x |-> {}, a |-> {"x"}, b |-> {"a"}]
ChainTask == {NoTask}
ChainTaskNode == [t \in ChainTask |-> {"a", "b"}]
ChainLevels == {"level_0", "level_1"}
LevelNode == [level_0 |-> {"a"}, level_1 |-> {"b"}]

Chain(bx, ba, bb) == [x |-> bx, a |-> ba, b |-> bb]
AllDefault == Chain("DEFAULT", "DEFAULT", "DEFAULT")
Twice == <<AllDefault, AllDefault>>
SameCode == <<[n \in Node |-> 1], [n \in Node |-> 1]>>
SameGiven == [l \in Lane |-> [n \in InputNode |-> 1]]

(* Three runs: the second has new code for b, the third another input.     *)
EditCode == <<[x |-> 1, a |-> 1, b |-> 1], [x |-> 1, a |-> 1, b |-> 2],
              [x |-> 1, a |-> 1, b |-> 1]>>
EditInput == [l \in Lane |-> [n \in InputNode |-> IF l[1] = 3 THEN 2 ELSE 1]]
EditBehavior == <<AllDefault, AllDefault, AllDefault>>
MixedBehavior == <<Chain("DEFAULT", "DISABLE", "DEFAULT"),
                   Chain("DEFAULT", "IGNORE", "RECOMPUTE"),
                   Chain("DEFAULT", "DISABLE", "DEFAULT")>>
RefreshTwice == <<Chain("DEFAULT", "RECOMPUTE", "DEFAULT"),
                  Chain("DEFAULT", "RECOMPUTE", "DEFAULT"), AllDefault>>
ThreeCode == [r \in Run |-> [n \in Node |-> 1]]
LaterInput == [l \in Lane |-> [n \in InputNode |-> IF l[1] = 1 THEN 1 ELSE 2]]
ThreeSame == [l \in Lane |-> [n \in InputNode |-> 1]]

(* with_cache(default=["a", "b"], default_behavior="disable")              *)
OptIn == [r \in Run |-> Chain("DISABLE", "DEFAULT", "DEFAULT")]
IgnoreA == [r \in Run |-> Chain("DEFAULT", "IGNORE", "DEFAULT")]

-----------------------------------------------------------------------------
(* A node s outside a block whose repetitions k1 and k2 compute p and q    *)
(* from an item i each; the second run has another second item.            *)
BlockNode == {"i", "x", "s", "p", "q"}
BlockInput == {"i", "x"}
BlockDeps == [i |-> {}, x |-> {}, s |-> {"x"}, p |-> {"i", "s"}, q |-> {"p"}]
BlockTask == {"s", "k1", "k2"}
BlockTaskNode == [s |-> {"s"}, k1 |-> {"p", "q"}, k2 |-> {"p", "q"}]
BlockBehavior == [r \in 1..2 |-> [n \in BlockNode |-> "DEFAULT"]]
BlockCode == [r \in 1..2 |-> [n \in BlockNode |-> 1]]
BlockGiven == [l \in (1..2) \X BlockTask |->
    [i |-> CASE l[2] = "k1" -> 1
             [] l[2] = "k2" -> IF l[1] = 1 THEN 2 ELSE 3
             [] OTHER -> 0,
     x |-> 1]]

(* The block alone, with two equal items: the threads also hit each        *)
(* other's results.                                                        *)
ItemsNode == {"i", "p", "q"}
ItemsInput == {"i"}
ItemsDeps == [i |-> {}, p |-> {"i"}, q |-> {"p"}]
ItemsTask == {"k1", "k2", "k3"}
ItemsTaskNode == [t \in ItemsTask |-> {"p", "q"}]
ItemsBehavior == [r \in {1} |-> [n \in ItemsNode |-> "DEFAULT"]]
ItemsCode == [r \in {1} |-> [n \in ItemsNode |-> 1]]
ItemsGiven == [l \in {1} \X ItemsTask |-> [i |-> IF l[2] = "k3" THEN 2 ELSE 1]]

(* Two runs of a block of two items beside a task z that reads the world.  *)
(* In the second the items are equal, p has new code, and z is DISABLEd.   *)
PairNode == {"i", "x", "z", "p"}
PairInput == {"i", "x"}
PairDeps == [i |-> {}, x |-> {}, z |-> {"x"}, p |-> {"i"}]
PairTask == {"z", "k1", "k2"}
PairTaskNode == [z |-> {"z"}, k1 |-> {"p"}, k2 |-> {"p"}]
PairBehavior == <<[n \in PairNode |-> "DEFAULT"],
                  [n \in PairNode |-> IF n = "z" THEN "DISABLE" ELSE "DEFAULT"]>>
PairCode == [r \in 1..2 |-> [n \in PairNode |-> IF n = "p" THEN r ELSE 1]]
PairGiven == [l \in (1..2) \X PairTask |->
    [i |-> IF l = <<1, "k2">> THEN 2 ELSE 1, x |-> 1]]
=============================================================================

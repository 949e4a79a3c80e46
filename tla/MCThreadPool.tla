---------------------------- MODULE MCThreadPool ----------------------------
(* Every graph of N nodes in which all but the last are read, parameters   *)
(* in descending order, with the last node, or the last two, as outputs.   *)
EXTENDS ThreadPool, SequencesExt

ParamLists == [n \in Node |-> {SetToSortSeq(D, LAMBDA a, b : a > b) : D \in SUBSET (1..(n-1))}]
AllParams == {p \in [Node -> UNION {ParamLists[n] : n \in Node}] :
                  /\ \A n \in Node : p[n] \in ParamLists[n]
                  /\ \A d \in 1..(N-1) : \E n \in Node : d \in Range(p[n])}
AllGraphs == {[params |-> p, outputs |-> o] : p \in AllParams, o \in {<<N>>, <<N, N-1>>}}
=============================================================================

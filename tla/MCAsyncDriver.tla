---------------------------- MODULE MCAsyncDriver ----------------------------
(* Every graph of N nodes in which all but the last are read, with the     *)
(* last node, or the last two, as outputs.                                 *)
EXTENDS AsyncDriver

AllReads == {r \in [Node -> SUBSET Node] :
                 /\ \A n \in Node : r[n] \subseteq 1..(n-1)
                 /\ \A d \in 1..(N-1) : \E n \in Node : d \in r[n]}
AllGraphs == {[reads |-> r, outputs |-> o] : r \in AllReads, o \in {{N}, {N, N-1}}}
                 \cup {[reads |-> [n \in Node |-> {}], outputs |-> Node]}
=============================================================================

-------------------------- MODULE MCSubdagExecution --------------------------
(***************************************************************************)
(* Every graph of four nodes with their parameters in any order, of which  *)
(* node 1 may be an input (given, or absent and optional or required),     *)
(* requests for one or two outputs, and one node overridden or passed.     *)
(***************************************************************************)
EXTENDS SubdagExecution, FiniteSetsExt, SequencesExt

ParamLists == [n \in Node |-> UNION {SetToSeqs(D) : D \in SUBSET (1..(n-1))}]
AllParams == {<<a, b, c, d>> : a \in ParamLists[1], b \in ParamLists[2],
                               c \in ParamLists[3], d \in ParamLists[4]}

AsInput == {[input |-> {}, given |-> {}, optional |-> {}],
            [input |-> {1}, given |-> {1}, optional |-> {}],
            [input |-> {1}, given |-> {}, optional |-> Node \X {1}],
            [input |-> {1}, given |-> {}, optional |-> {}]}
Outputs == {<<4>>, <<3>>} \cup {<<a, b>> : a, b \in Node}
Values == {[overrides |-> {}, supplied |-> {}]}
          \cup {[overrides |-> {n}, supplied |-> {}] : n \in 2..3}
          \cup {[overrides |-> {}, supplied |-> {n}] : n \in 2..3}

AllRequests ==
    {[params |-> p, input |-> i.input, given |-> i.given, optional |-> i.optional,
      final |-> f, overrides |-> v.overrides, supplied |-> v.supplied] :
        p \in AllParams, i \in AsInput, f \in Outputs, v \in Values}
=============================================================================

----------------------- MODULE SubdagExecution_proofs -----------------------
(***************************************************************************)
(* execute_subdag hands every node whole arguments, implements NodeRun and *)
(* executes what was asked for and nothing else, for every graph and every *)
(* request.                                                                *)
(*                                                                         *)
(* The argument is about what pruning may forget.  A value is dropped only *)
(* when all nodes that read it are in computed, and these stay Shut: they  *)
(* have been executed, or were passed or overridden, and if one of them is *)
(* dropped in its turn its own readers are Shut as well, up to the outputs *)
(* which are never dropped (GoneForGood).  So no node that is traversed    *)
(* reads a value that was dropped, and none is traversed again.            *)
(***************************************************************************)
EXTENDS SubdagExecution, SequenceTheorems, WellFoundedInduction, TLAPS

FrameType == [node : Node, optional : BOOLEAN, at : Nat \ {0}, stage : {"visit", "prune"}]

(* n has been in computed other than as an input or an override; r will    *)
(* not be traversed any more; d is an optional input that nobody gave.     *)
Had(n) == status[n] = "done" \/ n \in call.supplied
Shut(r) == Had(r) \/ r \in call.overrides
Absent(n, d) == ~HasValue(d) /\ <<n, d>> \in call.optional

SEType ==
    /\ call \in Requests
    /\ left \in Seq(Node)
    /\ \A k \in DOMAIN left : left[k] \in Final
    /\ stack \in Seq(FrameType)
    /\ computed \in SUBSET Node
    /\ status \in [Node -> {"idle", "running", "done", "failed"}]
    /\ kwargs \in [Node -> SUBSET Node]
    /\ outcome \in {"none", "returned", "raised"}

Descending ==
    \A i, j \in 1..Len(stack) : i < j => stack[j].node < stack[i].node

(* A frame below the top waits for the one above it.                       *)
Linked ==
    \A i \in 1..(Len(stack) - 1) :
        /\ stack[i].stage = "visit"
        /\ stack[i].at > 1
        /\ stack[i+1].node = call.params[stack[i].node][stack[i].at - 1]
        /\ stack[i+1].optional = (<<stack[i].node, stack[i+1].node>> \in call.optional)

(* A frame that is not pruning yet is of a node that has no value, and its *)
(* dependencies visited so far have one, but for that of the frame above.  *)
FrameOK(i) ==
    LET f == stack[i]
        params == call.params[f.node] IN
    /\ f.at <= Len(params) + 1
    /\ f.stage = "prune" => f.node \in computed
    /\ f.stage = "visit" =>
          /\ f.node \notin computed
          /\ f.node \notin call.overrides
          /\ ~Had(f.node)
          /\ \A k \in 1..(f.at - 1) :
                \/ params[k] \in computed
                \/ Absent(f.node, params[k])
                \/ i < Len(stack) /\ k = f.at - 1
FramesOK == \A i \in 1..Len(stack) : FrameOK(i)

Origins ==
    \A d \in computed : Shut(d) \/ d \in call.input \cap call.given

GoneForGood ==
    \A d \in Node : Had(d) /\ d \notin computed /\ d \notin call.overrides =>
        d \notin Final /\ \A r \in Readers(d) : Shut(r)

(* A node that runs, or has failed, is the one on the stack's top.         *)
RunsOnTop ==
    \A n \in Node : status[n] \in {"running", "failed"} =>
        /\ stack # <<>>
        /\ Top.node = n
        /\ Top.stage = "visit"
        /\ Top.at = Len(call.params[n]) + 1

OutputsKept ==
    \A n \in Final :
        \/ \E k \in DOMAIN left : left[k] = n
        \/ n \in computed
        \/ ~HasValue(n)
        \/ stack # <<>> /\ stack[1].node = n

SubdagInv ==
    /\ SEType /\ Descending /\ Linked /\ FramesOK /\ Origins /\ GoneForGood
    /\ RunsOnTop /\ OutputsKept /\ ArgumentsAreWhole

-----------------------------------------------------------------------------
(* The request, and the four things that happen to the stack.              *)
LEMMA RequestFacts ==
    ASSUME SEType
    PROVE  /\ call.params \in [Node -> Seq(Node)]
           /\ \A n \in Node : \A i \in DOMAIN call.params[n] : call.params[n][i] < n
           /\ \A n \in call.input : call.params[n] = <<>>
           /\ call.final \in Seq(Node)
           /\ call.input \subseteq Node /\ call.given \subseteq call.input
           /\ call.overrides \subseteq Node /\ call.supplied \subseteq Node
           /\ Final \subseteq Node
           /\ \A n \in Node : Params(n) \subseteq Node
           /\ \A n \in Node : DOMAIN call.params[n] = 1..Len(call.params[n])
           /\ \A n \in Node : Len(call.params[n]) \in Nat
           /\ Node \subseteq Nat
<1>1. N \in Nat /\ Node \subseteq Nat
  BY RequestsAssumption DEF Node
<1>2. call \in Requests
  BY DEF SEType
<1>3. /\ call.params \in [Node -> Seq(Node)]
      /\ \A n \in Node : \A i \in DOMAIN call.params[n] : call.params[n][i] < n
      /\ \A n \in call.input : call.params[n] = <<>>
      /\ call.final \in Seq(Node)
      /\ call.input \subseteq Node /\ call.given \subseteq call.input
      /\ call.overrides \subseteq Node /\ call.supplied \subseteq Node
  BY <1>2, RequestsAssumption
<1>4. \A n \in Node : call.params[n] \in Seq(Node)
  BY <1>3
<1>5. \A n \in Node : /\ DOMAIN call.params[n] = 1..Len(call.params[n])
                      /\ Len(call.params[n]) \in Nat
                      /\ \A k \in 1..Len(call.params[n]) : call.params[n][k] \in Node
  BY <1>4, LenProperties, ElementOfSeq
<1>6. \A k \in DOMAIN call.final : call.final[k] \in Node
  BY <1>3, LenProperties, ElementOfSeq
<1> QED
  BY <1>1, <1>3, <1>5, <1>6 DEF Final, Params

LEMMA TopFacts ==
    ASSUME SEType, stack # <<>>
    PROVE  /\ Len(stack) \in Nat \ {0}
           /\ DOMAIN stack = 1..Len(stack)
           /\ \A i \in 1..Len(stack) : stack[i] \in FrameType
           /\ Top = stack[Len(stack)]
           /\ Top \in FrameType
<1>1. stack \in Seq(FrameType)
  BY DEF SEType
<1>2. Len(stack) \in Nat /\ DOMAIN stack = 1..Len(stack) /\ Len(stack) # 0
  BY <1>1, EmptySeq, LenProperties
<1>3. \A i \in 1..Len(stack) : stack[i] \in FrameType
  BY <1>1, ElementOfSeq
<1> QED
  BY <1>2, <1>3 DEF Top

LEMMA AdvancedFacts ==
    ASSUME SEType, stack # <<>>
    PROVE  /\ Advanced \in Seq(FrameType)
           /\ Advanced # <<>>
           /\ Len(Advanced) = Len(stack)
           /\ \A i \in 1..(Len(stack) - 1) : Advanced[i] = stack[i]
           /\ Advanced[Len(stack)] = [Top EXCEPT !.at = Top.at + 1]
<1> DEFINE L == Len(stack)
           f == [Top EXCEPT !.at = Top.at + 1]
<1>1. L \in Nat \ {0} /\ DOMAIN stack = 1..L /\ Top = stack[L] /\ Top \in FrameType
  BY TopFacts
<1>2. f \in FrameType
  BY <1>1 DEF FrameType
<1>3. Advanced = [stack EXCEPT ![L] = f]
  BY <1>1 DEF Advanced
<1>4. stack \in Seq(FrameType)
  BY DEF SEType
<1>5. /\ [stack EXCEPT ![L] = f] \in Seq(FrameType)
      /\ Len([stack EXCEPT ![L] = f]) = L
  BY <1>1, <1>2, <1>4, ExceptSeq
<1>6. \A i \in 1..L : [stack EXCEPT ![L] = f][i] = IF i = L THEN f ELSE stack[i]
  BY <1>1
<1>7. Advanced # <<>>
  BY <1>1, <1>3, <1>5, EmptySeq
<1> QED
  BY <1>1, <1>3, <1>5, <1>6, <1>7

LEMMA PruningFacts ==
    ASSUME SEType, stack # <<>>
    PROVE  /\ Pruning \in Seq(FrameType)
           /\ Pruning # <<>>
           /\ Len(Pruning) = Len(stack)
           /\ \A i \in 1..(Len(stack) - 1) : Pruning[i] = stack[i]
           /\ Pruning[Len(stack)] = [Top EXCEPT !.at = 1, !.stage = "prune"]
<1> DEFINE L == Len(stack)
           f == [Top EXCEPT !.at = 1, !.stage = "prune"]
<1>1. L \in Nat \ {0} /\ DOMAIN stack = 1..L /\ Top = stack[L] /\ Top \in FrameType
  BY TopFacts
<1>2. f \in FrameType
  <2>1. [Top EXCEPT !.at = 1] \in FrameType
    BY <1>1 DEF FrameType
  <2>2. \A g \in FrameType : [g EXCEPT !.stage = "prune"] \in FrameType
    BY DEF FrameType
  <2>3. f = [[Top EXCEPT !.at = 1] EXCEPT !.stage = "prune"]
    BY Zenon
  <2> QED
    BY <2>1, <2>2, <2>3, Zenon
<1>3. Pruning = [stack EXCEPT ![L] = f]
  BY <1>1 DEF Pruning
<1>4. stack \in Seq(FrameType)
  BY DEF SEType
<1>5. /\ [stack EXCEPT ![L] = f] \in Seq(FrameType)
      /\ Len([stack EXCEPT ![L] = f]) = L
  BY <1>1, <1>2, <1>4, ExceptSeq
<1>6. \A i \in 1..L : [stack EXCEPT ![L] = f][i] = IF i = L THEN f ELSE stack[i]
  BY <1>1
<1>7. Pruning # <<>>
  BY <1>1, <1>3, <1>5, EmptySeq
<1> QED
  BY <1>1, <1>3, <1>5, <1>6, <1>7

LEMMA PopFacts ==
    ASSUME SEType, stack # <<>>
    PROVE  /\ Pop \in Seq(FrameType)
           /\ Len(Pop) = Len(stack) - 1
           /\ \A i \in 1..(Len(stack) - 1) : Pop[i] = stack[i]
<1>1. /\ Len(stack) \in Nat \ {0}
      /\ \A i \in 1..Len(stack) : stack[i] \in FrameType
  BY TopFacts
<1> DEFINE m == Len(stack) - 1
<1>2. 1 \in Int /\ m \in Int /\ \A i \in 1..m : stack[i] \in FrameType
  BY <1>1
<1>3. /\ SubSeq(stack, 1, m) \in Seq(FrameType)
      /\ Len(SubSeq(stack, 1, m)) = IF 1 <= m THEN m - 1 + 1 ELSE 0
      /\ \A i \in 1..(m - 1 + 1) : SubSeq(stack, 1, m)[i] = stack[1 + i - 1]
  BY <1>2, SubSeqProperties
<1>4. Len(SubSeq(stack, 1, m)) = m
  <2>1. CASE m = 0
    BY <1>3, <2>1
  <2>2. CASE m # 0
    <3>1. 1 <= m /\ m - 1 + 1 = m
      <4>1. \A k \in Nat \ {0} : k - 1 # 0 => 1 <= k - 1 /\ (k - 1) - 1 + 1 = k - 1
        OBVIOUS
      <4> QED
        BY <1>1, <2>2, <4>1, Zenon
    <3> HIDE DEF m
    <3> QED
      BY <1>3, <3>1, Zenon
  <2> QED
    BY <2>1, <2>2
<1>5. \A i \in 1..m : SubSeq(stack, 1, m)[i] = stack[i]
  <2> TAKE i \in 1..m
  <2>1. 1 + i - 1 = i /\ i \in 1..(m - 1 + 1)
    BY <1>1
  <2> QED
    BY <1>3, <2>1
<1> QED
  BY <1>3, <1>4, <1>5 DEF Pop

(* What a move of the top frame, its end, and a call of dfs_traverse keep. *)
LEMMA TopMoves ==
    ASSUME SEType, Descending, Linked, stack # <<>>, UNCHANGED call,
           stack' = Advanced \/ stack' = Pruning
    PROVE  /\ stack' \in Seq(FrameType) /\ stack' # <<>>
           /\ Len(stack') = Len(stack)
           /\ \A i \in 1..(Len(stack) - 1) : stack'[i] = stack[i]
           /\ stack'[Len(stack)].node = Top.node
           /\ stack'[Len(stack)].optional = Top.optional
           /\ Descending' /\ Linked'
<1> DEFINE L == Len(stack)
<1>1. L \in Nat \ {0} /\ Top = stack[L] /\ Top \in FrameType
  BY TopFacts
<1>2. /\ stack' \in Seq(FrameType) /\ stack' # <<>> /\ Len(stack') = L
      /\ \A i \in 1..(L - 1) : stack'[i] = stack[i]
  BY AdvancedFacts, PruningFacts
<1>3. /\ [Top EXCEPT !.at = Top.at + 1].node = Top.node
      /\ [Top EXCEPT !.at = Top.at + 1].optional = Top.optional
      /\ [Top EXCEPT !.at = 1, !.stage = "prune"].node = Top.node
      /\ [Top EXCEPT !.at = 1, !.stage = "prune"].optional = Top.optional
  BY <1>1 DEF FrameType
<1>4. stack'[L].node = Top.node /\ stack'[L].optional = Top.optional
  BY <1>3, AdvancedFacts, PruningFacts
<1>5. \A i \in 1..L : stack'[i].node = stack[i].node /\ stack'[i].optional = stack[i].optional
  BY <1>1, <1>2, <1>4
<1>6. Descending'
  BY <1>2, <1>5 DEF Descending
<1>7. Linked'
  <2> SUFFICES ASSUME NEW i \in 1..(L - 1)
               PROVE  /\ stack'[i].stage = "visit"
                      /\ stack'[i].at > 1
                      /\ stack'[i+1].node = call.params[stack'[i].node][stack'[i].at - 1]
                      /\ stack'[i+1].optional = (<<stack'[i].node, stack'[i+1].node>> \in call.optional)
    BY <1>2 DEF Linked
  <2>1. i + 1 \in 1..L
    BY <1>1
  <2>2. stack'[i] = stack[i] /\ stack'[i+1].node = stack[i+1].node /\ stack'[i+1].optional = stack[i+1].optional
    BY <1>2, <1>5, <2>1
  <2> QED
    BY <2>2 DEF Linked
<1> QED
  BY <1>2, <1>4, <1>6, <1>7

LEMMA TopEnds ==
    ASSUME SEType, Descending, Linked, stack # <<>>, UNCHANGED call, stack' = Pop
    PROVE  Descending' /\ Linked'
<1> DEFINE L == Len(stack)
<1>1. L \in Nat \ {0}
  BY TopFacts
<1>2. Len(stack') = L - 1 /\ \A i \in 1..(L - 1) : stack'[i] = stack[i]
  BY PopFacts
<1>3. \A i \in 1..(L - 1) : i \in 1..L
  BY <1>1
<1>4. Descending'
  BY <1>2, <1>3 DEF Descending
<1>5. Linked'
  <2> SUFFICES ASSUME NEW i \in 1..(L - 1 - 1)
               PROVE  /\ stack'[i].stage = "visit"
                      /\ stack'[i].at > 1
                      /\ stack'[i+1].node = call.params[stack'[i].node][stack'[i].at - 1]
                      /\ stack'[i+1].optional = (<<stack'[i].node, stack'[i+1].node>> \in call.optional)
    BY <1>2 DEF Linked
  <2>1. i \in 1..(L - 1) /\ i + 1 \in 1..(L - 1)
    BY <1>1
  <2>2. stack'[i] = stack[i] /\ stack'[i+1] = stack[i+1]
    BY <1>2, <2>1
  <2> QED
    BY <2>1, <2>2 DEF Linked
<1> QED
  BY <1>4, <1>5

LEMMA Positions ==
    ASSUME NEW L \in Nat \ {0}
    PROVE  /\ L \in 1..L /\ L - 1 \in Nat /\ (L + 1) - 1 = L /\ L < L + 1
           /\ L # 1 => 1 \in 1..(L - 1)
           /\ L = 1 => 1..(L - 1) = {}
           /\ \A i \in 1..(L - 1) : i \in 1..L /\ i < L /\ i + 1 \in 1..L
           /\ \A i \in 1..(L - 1) : i + 1 = L \/ i + 1 \in 1..(L - 1)
           /\ \A i \in 1..L : i \in 1..(L - 1) \/ i = L
           /\ \A i \in 1..(L + 1) : i \in 1..(L - 1) \/ i = L \/ i = L + 1
           /\ \A i, j \in 1..(L + 1) : i < j => i \in 1..(L - 1) \/ (i = L /\ j = L + 1)
OBVIOUS

LEMMA PushFacts ==
    ASSUME SEType, NEW frames \in Seq(FrameType), NEW f \in FrameType
    PROVE  /\ Append(frames, f) \in Seq(FrameType)
           /\ Len(Append(frames, f)) = Len(frames) + 1
           /\ \A i \in 1..Len(frames) : Append(frames, f)[i] = frames[i]
           /\ Append(frames, f)[Len(frames) + 1] = f
BY AppendProperties

(* What a value that is new, or one that is dropped, and the progress of a *)
(* node mean for the parts of the invariant that are not about the stack.  *)
LEMMA ValuesFacts ==
    ASSUME SEType, Origins, GoneForGood, UNCHANGED call,
           \A n \in Node : status[n] = "done" => status'[n] = "done",
           \A n \in Node : status'[n] = "done" => status[n] = "done" \/ n \in computed',
           \A d \in computed' : \/ d \in computed \/ d \in call.overrides
                                \/ d \in call.input \cap call.given
                                \/ status'[d] = "done",
           \A d \in computed : d \notin computed' => Unneeded(d)
    PROVE  Origins' /\ GoneForGood'
<1>1. \A n \in Node : (Had(n) => Had(n)') /\ (Shut(n) => Shut(n)')
  BY DEF Had, Shut
<1>2. computed \subseteq Node
  BY DEF SEType
<1>3. Origins'
  <2> SUFFICES ASSUME NEW d \in computed'
               PROVE  Shut(d)' \/ d \in call.input \cap call.given
    BY DEF Origins
  <2>1. CASE d \in computed
    BY <1>1, <1>2, <2>1 DEF Origins
  <2>2. CASE d \in call.overrides
    BY <2>2 DEF Shut
  <2>3. CASE d \in call.input \cap call.given
    BY <2>3
  <2>4. CASE status'[d] = "done"
    BY <2>4 DEF Shut, Had
  <2> QED
    BY <2>1, <2>2, <2>3, <2>4
<1>4. GoneForGood'
  <2> SUFFICES ASSUME NEW d \in Node, Had(d)', d \notin computed', d \notin call.overrides
               PROVE  d \notin Final /\ \A r \in Readers(d) : Shut(r)'
    BY DEF GoneForGood, Final, Readers, Params
  <2>1. Had(d)
    BY DEF Had
  <2>2. \A r \in Readers(d) : r \in Node
    BY DEF Readers
  <2>3. CASE d \notin computed
    BY <1>1, <2>1, <2>2, <2>3 DEF GoneForGood
  <2>4. CASE d \in computed
    <3>1. d \notin Final /\ \A r \in Readers(d) : r \in computed
      BY <2>4 DEF Unneeded
    <3>2. \A r \in Readers(d) : r \notin call.input
      BY RequestFacts DEF Readers, Params
    <3>3. \A r \in Readers(d) : Shut(r)
      BY <3>1, <3>2 DEF Origins
    <3> QED
      BY <1>1, <2>2, <3>1, <3>3
  <2> QED
    BY <2>3, <2>4
<1> QED
  BY <1>3, <1>4

(* The frames below the top are of other nodes, and wait in their visit.   *)
LEMMA LowerFrames ==
    ASSUME SubdagInv, stack # <<>>, NEW i \in 1..(Len(stack) - 1)
    PROVE  /\ stack[i] \in FrameType
           /\ stack[i].stage = "visit"
           /\ stack[i].node # Top.node
           /\ Top.node < stack[i].node
           /\ FrameOK(i)
           /\ i < Len(stack)
<1>1. Len(stack) \in Nat \ {0} /\ Top = stack[Len(stack)] /\ Top \in FrameType
      /\ \A k \in 1..Len(stack) : stack[k] \in FrameType
  BY TopFacts DEF SubdagInv
<1>2. i \in 1..Len(stack) /\ i < Len(stack) /\ Len(stack) \in 1..Len(stack)
  BY <1>1
<1>3. Top.node < stack[i].node
  BY <1>1, <1>2 DEF SubdagInv, Descending
<1>4. Top.node \in Nat /\ stack[i].node \in Nat
  BY <1>1, <1>2, RequestFacts DEF SubdagInv, FrameType
<1>5. Top.node # stack[i].node
  BY <1>3, <1>4
<1> QED
  BY <1>1, <1>2, <1>3, <1>5 DEF SubdagInv, Linked, FramesOK

LEMMA LowerFrameKept ==
    ASSUME SubdagInv, stack # <<>>, NEW i \in 1..(Len(stack) - 1),
           UNCHANGED call, stack'[i] = stack[i],
           \/ i < Len(stack')
           \/ /\ i = Len(stack) - 1
              /\ Top.node \in computed' \/ Absent(stack[i].node, Top.node),
           \A n \in Node : n \in computed' =>
                n \in computed \/ n \in call.overrides \/ n = Top.node,
           \A n \in Node : status'[n] = "done" => status[n] = "done" \/ n = Top.node,
           \A d \in computed : d \notin computed' => Unneeded(d)
    PROVE  FrameOK(i)'
<1> DEFINE f == stack[i]
           params == call.params[f.node]
<1>1. /\ f \in FrameType /\ f.stage = "visit" /\ f.node # Top.node
      /\ FrameOK(i) /\ i < Len(stack) /\ i \in 1..(Len(stack) - 1)
  BY LowerFrames
<1>2. f.node \in Node /\ f.at \in Nat \ {0}
  BY <1>1 DEF FrameType
<1>3. /\ f.at <= Len(params) + 1
      /\ f.node \notin computed /\ f.node \notin call.overrides
      /\ ~Had(f.node)
      /\ \A k \in 1..(f.at - 1) :
            params[k] \in computed \/ Absent(f.node, params[k]) \/ k = f.at - 1
  BY <1>1 DEF FrameOK
<1>4. f.node \notin computed' /\ ~Had(f.node)'
  BY <1>1, <1>2, <1>3 DEF Had
<1>5. DOMAIN params = 1..Len(params) /\ Len(params) \in Nat
  BY <1>2, RequestFacts DEF SubdagInv
<1>6. \A k \in 1..(f.at - 1) : params[k] \in Params(f.node)
  <2>1. \A at \in Nat \ {0}, len \in Nat :
            at <= len + 1 => \A k \in 1..(at - 1) : k \in 1..len
    OBVIOUS
  <2>2. \A k \in 1..(f.at - 1) : k \in 1..Len(params)
    BY <1>2, <1>3, <1>5, <2>1
  <2> QED
    BY <1>5, <2>2 DEF Params
<1>7. \A k \in 1..(f.at - 1) : params[k] \in computed => params[k] \in computed'
  <2> SUFFICES ASSUME NEW k \in 1..(f.at - 1), params[k] \in computed, params[k] \notin computed'
               PROVE  FALSE
    OBVIOUS
  <2>1. \A r \in Readers(params[k]) : r \in computed
    BY DEF Unneeded
  <2>2. f.node \in Readers(params[k])
    BY <1>2, <1>6 DEF Readers
  <2> QED
    BY <1>3, <2>1, <2>2
<1>8. \A k \in 1..(f.at - 1) :
          \/ params[k] \in computed'
          \/ Absent(f.node, params[k])
          \/ i < Len(stack') /\ k = f.at - 1
  <2> TAKE k \in 1..(f.at - 1)
  <2>1. CASE params[k] \in computed
    BY <1>7, <2>1
  <2>2. CASE Absent(f.node, params[k])
    BY <2>2
  <2>3. CASE params[k] \notin computed /\ ~Absent(f.node, params[k])
    <3>1. k = f.at - 1
      BY <1>3, <2>3
    <3>2. CASE i < Len(stack')
      BY <3>1, <3>2
    <3>3. CASE /\ i = Len(stack) - 1
               /\ Top.node \in computed' \/ Absent(stack[i].node, Top.node)
      <4>1. Len(stack) \in Nat \ {0} /\ Top = stack[Len(stack)]
        BY TopFacts DEF SubdagInv
      <4>2. i + 1 = Len(stack)
        BY <3>3, <4>1
      <4>3. stack[i+1].node = params[f.at - 1]
        BY <1>1 DEF SubdagInv, Linked
      <4>4. Top.node = params[k]
        BY <3>1, <4>1, <4>2, <4>3
      <4> QED
        BY <3>3, <4>4
    <3> QED
      BY <3>2, <3>3
  <2> QED
    BY <2>1, <2>2, <2>3
<1>9. \A k \in 1..(f.at - 1) : Absent(f.node, params[k]) => Absent(f.node, params[k])'
  BY DEF Absent, HasValue
<1> QED
  BY <1>1, <1>3, <1>4, <1>8, <1>9 DEF FrameOK

-----------------------------------------------------------------------------
(* Each action keeps the invariant.                                        *)
LEMMA InitInv == SEInit => SubdagInv
<1> SUFFICES ASSUME SEInit PROVE SubdagInv
  OBVIOUS
<1>1. call \in Requests /\ left = call.final /\ computed = call.supplied
  BY DEF SEInit
<1>2. stack = <<>> /\ Len(stack) = 0 /\ stack \in Seq(FrameType)
  BY EmptySeq DEF SEInit
<1>3. call.final \in Seq(Node) /\ call.supplied \subseteq Node
  BY <1>1, RequestsAssumption
<1>4. \A k \in DOMAIN left : left[k] \in Final
  BY <1>1 DEF Final
<1>5. SEType
  BY <1>1, <1>2, <1>3, <1>4 DEF SEType, SEInit
<1>6. Descending /\ Linked /\ FramesOK
  BY <1>2 DEF Descending, Linked, FramesOK
<1>7. \A n \in Node : status[n] = "idle"
  BY DEF SEInit
<1>8. Origins /\ GoneForGood
  BY <1>1, <1>3, <1>7 DEF Origins, GoneForGood, Shut, Had
<1>9. RunsOnTop /\ ArgumentsAreWhole
  BY <1>7 DEF RunsOnTop, ArgumentsAreWhole
<1>10. OutputsKept
  BY <1>1 DEF OutputsKept, Final
<1> QED
  BY <1>5, <1>6, <1>8, <1>9, <1>10 DEF SubdagInv

LEMMA OutcomeStep ==
    ASSUME SubdagInv, UNCHANGED <<call, left, stack, computed, status, kwargs>>,
           outcome' \in {"none", "returned", "raised"}
    PROVE  SubdagInv'
<1>1. SEType'
  BY DEF SubdagInv, SEType, Final
<1>2. Descending' /\ Linked' /\ FramesOK' /\ RunsOnTop' /\ OutputsKept'
  BY DEF SubdagInv, Descending, Linked, FramesOK, FrameOK, Absent, Had, HasValue,
         RunsOnTop, Top, OutputsKept, Final
<1>3. Origins' /\ GoneForGood' /\ ArgumentsAreWhole'
  BY DEF SubdagInv, Origins, GoneForGood, ArgumentsAreWhole, Shut, Had, Final,
         Readers, Params, HasValue
<1> QED
  BY <1>1, <1>2, <1>3 DEF SubdagInv

(* The arguments are only set by StartNode.                                *)
LEMMA ArgumentsKept ==
    ASSUME ArgumentsAreWhole, UNCHANGED <<call, kwargs>>,
           \A n \in Node : status'[n] # "idle" => status[n] # "idle"
    PROVE  ArgumentsAreWhole'
BY DEF ArgumentsAreWhole, Params, HasValue

LEMMA VisitFinalStep ==
    ASSUME SubdagInv, VisitFinal
    PROVE  SubdagInv'
<1> DEFINE d == Head(left)
           f == Frame(d, d \in call.input)
<1>1. /\ stack = <<>> /\ left # <<>> /\ left' = Tail(left)
      /\ Visit(d, d \in call.input, stack)
      /\ UNCHANGED <<call, status, kwargs, outcome>>
  BY DEF VisitFinal
<1>2. SEType
  BY DEF SubdagInv
<1>3. /\ left \in Seq(Node) /\ d = left[1] /\ d \in Node
      /\ left' \in Seq(Node) /\ Len(left') = Len(left) - 1
      /\ \A k \in 1..Len(left') : left'[k] = left[k+1]
      /\ Len(left) \in Nat \ {0}
      /\ DOMAIN left = 1..Len(left) /\ DOMAIN left' = 1..Len(left')
  <2>1. left \in Seq(Node)
    BY <1>2 DEF SEType
  <2>2. d \in Node /\ left' \in Seq(Node) /\ Len(left') = Len(left) - 1
        /\ \A k \in 1..Len(left') : left'[k] = left[k+1]
    BY <1>1, <2>1, HeadTailProperties
  <2>3. Len(left) \in Nat /\ Len(left) # 0
    BY <1>1, <2>1, EmptySeq, LenProperties
  <2>4. DOMAIN left = 1..Len(left) /\ DOMAIN left' = 1..Len(left')
    BY <2>1, <2>2, LenProperties
  <2>5. d = left[1]
    BY <2>1
  <2> QED
    BY <2>1, <2>2, <2>3, <2>4, <2>5
<1>4. /\ \A k \in DOMAIN left' : k + 1 \in DOMAIN left
      /\ \A k \in DOMAIN left : k # 1 => k - 1 \in DOMAIN left' /\ (k - 1) + 1 = k
      /\ 1 \in DOMAIN left
  BY <1>3
<1>5. d \in Final
  BY <1>2, <1>3, <1>4 DEF SEType
<1>6. stack \in Seq(FrameType) /\ Len(stack) = 0
  BY <1>1, <1>2, EmptySeq DEF SEType
<1>7. /\ computed' \in SUBSET Node
      /\ computed \subseteq computed'
      /\ computed' \subseteq computed \cup (call.overrides \cap {d})
      /\ \/ d \in computed' /\ stack' = stack
         \/ /\ d \notin computed' /\ d \notin call.overrides
            /\ stack' \in Seq(FrameType)
            /\ Len(stack') = 1
            /\ stack'[1] = f
  <2>1. Len(stack) + 1 = 1
    BY <1>6
  <2>2. f \in FrameType
    BY <1>3 DEF Frame, FrameType
  <2>3. computed \in SUBSET Node
    BY <1>2 DEF SEType
  <2>4. CASE d \in computed /\ stack' = stack /\ UNCHANGED computed
    BY <2>3, <2>4
  <2>5. CASE d \notin computed /\ d \in call.overrides /\ stack' = stack /\ computed' = computed \cup {d}
    BY <1>3, <2>3, <2>5
  <2>6. CASE d \notin computed /\ d \notin call.overrides /\ stack' = Append(stack, f) /\ UNCHANGED computed
    <3>1. stack' \in Seq(FrameType) /\ Len(stack') = 1 /\ stack'[1] = f
      <4> HIDE DEF f
      <4> QED
        BY <1>2, <1>6, <2>1, <2>2, <2>6, PushFacts
    <3> QED
      BY <2>3, <2>6, <3>1
  <2> QED
    BY <1>1, <2>4, <2>5, <2>6 DEF Visit
<1>8. SEType'
  <2>1. stack' \in Seq(FrameType)
    BY <1>6, <1>7
  <2>2. \A k \in DOMAIN left' : left'[k] \in Final
    BY <1>2, <1>3, <1>4 DEF SEType
  <2> QED
    BY <1>1, <1>2, <1>3, <1>7, <2>1, <2>2 DEF SEType, Final
<1>9. Origins' /\ GoneForGood'
  BY <1>1, <1>2, <1>7, ValuesFacts DEF SubdagInv
<1>10. ArgumentsAreWhole'
  BY <1>1, ArgumentsKept DEF SubdagInv
<1>11. RunsOnTop'
  BY <1>1 DEF SubdagInv, RunsOnTop
<1>12. OutputsKept'
  <2> SUFFICES ASSUME NEW n \in Final
               PROVE  \/ \E k \in DOMAIN left' : left'[k] = n
                      \/ n \in computed'
                      \/ ~HasValue(n)
                      \/ stack' # <<>> /\ stack'[1].node = n
    BY <1>1 DEF OutputsKept, Final, HasValue
  <2>1. CASE \E k \in DOMAIN left : left[k] = n
    <3>1. PICK k \in DOMAIN left : left[k] = n
      BY <2>1
    <3>2. CASE k # 1
      <4>1. k - 1 \in DOMAIN left' /\ left'[k - 1] = n
        BY <1>3, <1>4, <3>1, <3>2
      <4> QED
        BY <4>1
    <3>3. CASE k = 1
      <4>1. n = d
        BY <1>3, <3>1, <3>3
      <4>2. CASE d \in computed'
        BY <4>1, <4>2
      <4>3. CASE Len(stack') = 1 /\ stack'[1] = f /\ stack' \in Seq(FrameType)
        BY <4>1, <4>3, EmptySeq DEF Frame
      <4> QED
        BY <1>7, <4>2, <4>3
    <3> QED
      BY <3>2, <3>3
  <2>2. CASE n \in computed \/ ~HasValue(n)
    BY <1>7, <2>2
  <2> QED
    BY <1>1, <2>1, <2>2 DEF SubdagInv, OutputsKept
<1>13. CASE stack' = stack
  <2>1. Descending' /\ Linked' /\ FramesOK'
    BY <1>6, <1>13 DEF Descending, Linked, FramesOK
  <2> QED
    BY <1>8, <1>9, <1>10, <1>11, <1>12, <2>1 DEF SubdagInv
<1>14. CASE /\ d \notin computed' /\ d \notin call.overrides
            /\ Len(stack') = 1
            /\ stack'[1] = f
  <2>1. Descending' /\ Linked'
    BY <1>14 DEF Descending, Linked
  <2>2. ~Had(d)
    BY <1>3, <1>5, <1>7, <1>14 DEF SubdagInv, GoneForGood
  <2>3. FrameOK(1)'
    <3>1. Len(call.params[d]) \in Nat
      BY <1>2, <1>3, RequestFacts
    <3>2. /\ stack'[1].node = d /\ stack'[1].at = 1 /\ stack'[1].stage = "visit"
          /\ 1 <= Len(call.params[d]) + 1 /\ 1..(1 - 1) = {}
      BY <1>14, <3>1 DEF Frame
    <3> QED
      BY <1>1, <1>14, <2>2, <3>2 DEF FrameOK, Had
  <2>4. FramesOK'
    BY <1>14, <2>3 DEF FramesOK
  <2> QED
    BY <1>8, <1>9, <1>10, <1>11, <1>12, <2>1, <2>4 DEF SubdagInv
<1> QED
  BY <1>7, <1>13, <1>14

LEMMA VisitDependencyStep ==
    ASSUME SubdagInv, VisitDependency
    PROVE  SubdagInv'
<1> DEFINE L == Len(stack)
           params == call.params[Top.node]
           d == params[Top.at]
           o == <<Top.node, d>> \in call.optional
           f == Frame(d, o)
<1>1. /\ stack # <<>> /\ Top.stage = "visit" /\ Top.at \in DOMAIN params
      /\ Visit(d, o, Advanced)
      /\ UNCHANGED <<call, left, status, kwargs, outcome>>
  BY DEF VisitDependency, Working
<1>2. SEType
  BY DEF SubdagInv
<1>3. L \in Nat \ {0} /\ L \in 1..L /\ Top = stack[L] /\ Top \in FrameType
  BY <1>1, <1>2, TopFacts, Positions
<1>4. Top.node \in Node /\ Top.at \in Nat \ {0}
  BY <1>3 DEF FrameType
<1>5. /\ DOMAIN params = 1..Len(params) /\ Len(params) \in Nat
      /\ d \in Node /\ d < Top.node /\ d \in Params(Top.node)
      /\ Node \subseteq Nat
  BY <1>1, <1>2, <1>4, RequestFacts DEF Params
<1>6. FrameOK(L)
  BY <1>3 DEF SubdagInv, FramesOK
<1>7. /\ Top.node \notin computed /\ Top.node \notin call.overrides
      /\ ~Had(Top.node)
      /\ \A k \in 1..(Top.at - 1) : params[k] \in computed \/ Absent(Top.node, params[k])
  BY <1>1, <1>3, <1>6 DEF FrameOK
<1>8. /\ Advanced \in Seq(FrameType) /\ Advanced # <<>> /\ Len(Advanced) = L
      /\ \A i \in 1..(L - 1) : Advanced[i] = stack[i]
      /\ Advanced[L] = [Top EXCEPT !.at = Top.at + 1]
  BY <1>1, <1>2, AdvancedFacts
<1>9. /\ Advanced[L].node = Top.node /\ Advanced[L].optional = Top.optional
      /\ Advanced[L].at = Top.at + 1 /\ Advanced[L].stage = "visit"
  BY <1>1, <1>3, <1>8 DEF FrameType
<1>10. /\ computed' \in SUBSET Node
       /\ computed \subseteq computed'
       /\ computed' \subseteq computed \cup (call.overrides \cap {d})
       /\ \/ d \in computed' /\ stack' = Advanced
          \/ /\ d \notin computed' /\ d \notin call.overrides
             /\ stack' \in Seq(FrameType)
             /\ Len(stack') = L + 1
             /\ \A i \in 1..L : stack'[i] = Advanced[i]
             /\ stack'[L + 1] = f
  <2>2. f \in FrameType
    BY <1>5 DEF Frame, FrameType
  <2>3. computed \in SUBSET Node
    BY <1>2 DEF SEType
  <2>4. CASE d \in computed /\ stack' = Advanced /\ UNCHANGED computed
    BY <2>3, <2>4
  <2>5. CASE d \notin computed /\ d \in call.overrides /\ stack' = Advanced /\ computed' = computed \cup {d}
    BY <1>5, <2>3, <2>5
  <2>6. CASE d \notin computed /\ d \notin call.overrides /\ stack' = Append(Advanced, f) /\ UNCHANGED computed
    <3>1. /\ stack' \in Seq(FrameType)
          /\ Len(stack') = L + 1
          /\ \A i \in 1..L : stack'[i] = Advanced[i]
          /\ stack'[L + 1] = f
      <4> HIDE DEF f
      <4> QED
        BY <1>2, <1>8, <2>2, <2>6, PushFacts
    <3> QED
      BY <2>3, <2>6, <3>1
  <2> QED
    BY <1>1, <2>4, <2>5, <2>6 DEF Visit
<1> HIDE DEF d, o, f
<1>11. /\ stack' \in Seq(FrameType) /\ stack' # <<>>
       /\ stack'[L] = Advanced[L]
       /\ \A i \in 1..(L - 1) : stack'[i] = stack[i]
       /\ Len(stack') = L \/ Len(stack') = L + 1
  <2>1. \A i \in 1..(L - 1) : i \in 1..L
    BY <1>3
  <2>2. CASE d \in computed' /\ stack' = Advanced
    BY <1>8, <2>2
  <2>3. CASE /\ stack' \in Seq(FrameType)
             /\ Len(stack') = L + 1
             /\ \A i \in 1..L : stack'[i] = Advanced[i]
    <3>1. stack' # <<>>
      BY <1>3, <2>3, EmptySeq
    <3> QED
      BY <1>3, <1>8, <2>1, <2>3, <3>1
  <2> QED
    BY <1>10, <2>2, <2>3
<1>12. SEType'
  BY <1>1, <1>2, <1>10, <1>11 DEF SEType, Final
<1>13. Origins' /\ GoneForGood'
  BY <1>1, <1>2, <1>10, ValuesFacts DEF SubdagInv
<1>14. ArgumentsAreWhole'
  BY <1>1, ArgumentsKept DEF SubdagInv
<1>15. RunsOnTop'
  <2>1. Top.at # Len(params) + 1
    BY <1>1, <1>4, <1>5
  <2>2. \A n \in Node : status[n] \notin {"running", "failed"}
    BY <2>1 DEF SubdagInv, RunsOnTop
  <2> QED
    BY <1>1, <2>2 DEF RunsOnTop
<1>16. OutputsKept'
  <2>1. stack'[1].node = stack[1].node
    <3>1. CASE L = 1
      BY <1>3, <1>9, <1>11, <3>1
    <3>2. CASE L # 1
      <4>1. 1 \in 1..(L - 1)
        BY <1>3, <3>2, Positions, Zenon
      <4> QED
        BY <1>11, <4>1
    <3> QED
      BY <3>1, <3>2
  <2> QED
    BY <1>1, <1>10, <1>11, <2>1 DEF SubdagInv, OutputsKept, Final, HasValue
<1>17. \A i \in 1..(L - 1) : FrameOK(i)'
  <2> TAKE i \in 1..(L - 1)
  <2>1. i < Len(stack')
    BY <1>3, <1>11
  <2> QED
    BY <1>1, <1>10, <1>11, <2>1, LowerFrameKept
<1>18. ASSUME NEW i, i = L PROVE FrameOK(i)'
  <2>1. Top.at + 1 <= Len(params) + 1
    BY <1>1, <1>4, <1>5
  <2>2. (Top.at + 1) - 1 = Top.at /\ \A k \in 1..Top.at : k \in 1..(Top.at - 1) \/ k = Top.at
    BY <1>4
  <2>3. stack'[L].node = Top.node /\ stack'[L].at = Top.at + 1 /\ stack'[L].stage = "visit"
    BY <1>9, <1>11
  <2>4. Top.node \notin computed' /\ \A n \in Node : Had(n)' => Had(n)
    BY <1>1, <1>7, <1>10 DEF Had
  <2>5. d \in computed' \/ L < Len(stack')
    BY <1>3, <1>10
  <2>6. \A k \in 1..Top.at :
            \/ params[k] \in computed'
            \/ Absent(Top.node, params[k])
            \/ L < Len(stack') /\ k = Top.at
    BY <1>7, <1>10, <2>2, <2>5 DEF d
  <2>7. \A n \in Node : \A e : Absent(n, e) => Absent(n, e)'
    BY <1>1 DEF Absent, HasValue
  <2>8. params = call'.params[stack'[L].node] /\ stack'[L].at - 1 = Top.at
    BY <1>1, <2>2, <2>3
  <2> QED
    BY <1>1, <1>4, <1>7, <1>18, <2>1, <2>3, <2>4, <2>6, <2>7, <2>8 DEF FrameOK
<1>19. CASE d \in computed' /\ stack' = Advanced
  <2>1. Descending' /\ Linked'
    BY <1>1, <1>2, <1>19, TopMoves DEF SubdagInv
  <2>2. FramesOK'
    <3>1. \A i \in 1..Len(stack') : i \in 1..(L - 1) \/ i = L
      BY <1>3, <1>8, <1>19
    <3> QED
      BY <1>17, <1>18, <3>1 DEF FramesOK
  <2> QED
    BY <1>12, <1>13, <1>14, <1>15, <1>16, <2>1, <2>2 DEF SubdagInv
<1>20. CASE /\ d \notin computed' /\ d \notin call.overrides
            /\ Len(stack') = L + 1
            /\ stack'[L + 1] = f
  <2>1. ~Had(d)
    <3>1. Top.node \in Readers(d)
      BY <1>4, <1>5 DEF Readers
    <3>2. ~Shut(Top.node)
      BY <1>7 DEF Shut
    <3> QED
      BY <1>5, <1>10, <1>20, <3>1, <3>2 DEF SubdagInv, GoneForGood
  <2>2. /\ stack'[L+1].node = d /\ stack'[L+1].at = 1 /\ stack'[L+1].stage = "visit"
        /\ stack'[L+1].optional = o
    BY <1>20 DEF Frame, f
  <2>3. ASSUME NEW i, i = L + 1 PROVE FrameOK(i)'
    <3>1. Len(call.params[d]) \in Nat
      BY <1>2, <1>5, RequestFacts
    <3>2. 1 <= Len(call.params[d]) + 1 /\ 1..(1 - 1) = {}
      BY <3>1
    <3> QED
      BY <1>1, <1>5, <1>20, <2>1, <2>2, <2>3, <3>2 DEF FrameOK, Had
  <2>4. \A i \in 1..Len(stack') : i \in 1..(L - 1) \/ i = L \/ i = L + 1
    BY <1>3, <1>20
  <2>5. FramesOK'
    BY <1>17, <1>18, <2>3, <2>4 DEF FramesOK
  <2>6. \A i \in 1..(L - 1) : /\ stack[i].node = stack'[i].node
                              /\ stack[i].node \in Nat
                              /\ Top.node < stack[i].node
    <3> TAKE i \in 1..(L - 1)
    <3>1. stack[i] \in FrameType /\ Top.node < stack[i].node
      BY <1>1, LowerFrames
    <3> QED
      BY <1>5, <1>11, <3>1 DEF FrameType
  <2>7. Descending'
    <3> SUFFICES ASSUME NEW i \in 1..(L + 1), NEW j \in 1..(L + 1), i < j
                 PROVE  stack'[j].node < stack'[i].node
      BY <1>20 DEF Descending
    <3>1. i \in 1..(L - 1) \/ (i = L /\ j = L + 1)
      BY <1>3, Positions
    <3>2. CASE i = L /\ j = L + 1
      BY <1>5, <1>9, <1>11, <2>2, <3>2
    <3>3. CASE i \in 1..(L - 1)
      <4>1. j \in 1..(L - 1) \/ j = L \/ j = L + 1
        BY <1>3
      <4>2. CASE j \in 1..(L - 1)
        <5>1. i \in 1..L /\ j \in 1..L
          BY <1>3, <3>3, <4>2
        <5>2. stack[j].node < stack[i].node
          BY <5>1 DEF SubdagInv, Descending
        <5> QED
          BY <2>6, <3>3, <4>2, <5>2
      <4>3. CASE j = L
        BY <1>9, <1>11, <2>6, <3>3, <4>3
      <4>4. CASE j = L + 1
        <5>1. d \in Nat /\ Top.node \in Nat /\ stack[i].node \in Nat
          BY <1>4, <1>5, <2>6, <3>3
        <5>2. d < Top.node /\ Top.node < stack[i].node
          BY <1>5, <2>6, <3>3
        <5>3. d < stack[i].node
          BY <5>1, <5>2
        <5> QED
          BY <2>2, <2>6, <3>3, <4>4, <5>3
      <4> QED
        BY <4>1, <4>2, <4>3, <4>4
    <3> QED
      BY <3>1, <3>2, <3>3
  <2>8. Linked'
    <3> SUFFICES ASSUME NEW i \in 1..L
                 PROVE  /\ stack'[i].stage = "visit"
                        /\ stack'[i].at > 1
                        /\ stack'[i+1].node = call.params[stack'[i].node][stack'[i].at - 1]
                        /\ stack'[i+1].optional = (<<stack'[i].node, stack'[i+1].node>> \in call.optional)
      <4>1. Len(stack') - 1 = L
        BY <1>3, <1>20
      <4> QED
        BY <1>1, <4>1 DEF Linked
    <3>1. CASE i = L
      <4>1. (Top.at + 1) - 1 = Top.at /\ Top.at + 1 > 1
        BY <1>4
      <4> QED
        BY <1>9, <1>11, <2>2, <3>1, <4>1 DEF d, o
    <3>2. CASE i \in 1..(L - 1)
      <4>1. stack'[i] = stack[i]
        BY <1>11, <3>2
      <4>2. stack'[i+1].node = stack[i+1].node /\ stack'[i+1].optional = stack[i+1].optional
        <5>1. CASE i + 1 = L
          BY <1>3, <1>9, <1>11, <5>1
        <5>2. CASE i + 1 # L
          <6>1. i + 1 \in 1..(L - 1)
            BY <1>3, <3>2, <5>2
          <6> QED
            BY <1>11, <6>1
        <5> QED
          BY <5>1, <5>2
      <4> QED
        BY <3>2, <4>1, <4>2 DEF SubdagInv, Linked
    <3> QED
      BY <1>3, <3>1, <3>2
  <2> QED
    BY <1>12, <1>13, <1>14, <1>15, <1>16, <2>5, <2>7, <2>8 DEF SubdagInv
<1> QED
  BY <1>10, <1>19, <1>20

(* The node on the top has got its value: by its execution or as an input. *)
LEMMA PruningStarts ==
    ASSUME SubdagInv, stack # <<>>, Top.stage = "visit", UNCHANGED <<call, left>>,
           computed' = computed \cup {Top.node}, stack' = Pruning,
           \A n \in Node : status'[n] = "done" => status[n] = "done" \/ n = Top.node
    PROVE  /\ stack' \in Seq(FrameType) /\ Descending' /\ Linked' /\ FramesOK'
           /\ OutputsKept'
<1> DEFINE L == Len(stack)
<1>1. SEType
  BY DEF SubdagInv
<1>2. L \in Nat \ {0} /\ L \in 1..L /\ Top = stack[L] /\ Top \in FrameType
  BY <1>1, TopFacts, Positions
<1>3. Top.node \in Node
  BY <1>2 DEF FrameType
<1>4. /\ stack' \in Seq(FrameType) /\ stack' # <<>> /\ Len(stack') = L
      /\ \A i \in 1..(L - 1) : stack'[i] = stack[i]
      /\ stack'[L].node = Top.node
      /\ Descending' /\ Linked'
  BY <1>1, TopMoves DEF SubdagInv
<1>5. stack'[L].at = 1 /\ stack'[L].stage = "prune"
  <2>1. stack'[L] = [Top EXCEPT !.at = 1, !.stage = "prune"]
    BY <1>1, PruningFacts
  <2> QED
    BY <1>2, <2>1 DEF FrameType
<1>6. \A i \in 1..(L - 1) : FrameOK(i)'
  <2> TAKE i \in 1..(L - 1)
  <2>1. i < Len(stack')
    BY <1>2, <1>4, Positions
  <2> QED
    BY <1>4, <2>1, LowerFrameKept
<1>7. ASSUME NEW i, i = L PROVE FrameOK(i)'
  <2>1. 1 <= Len(call.params[Top.node]) + 1
    <3>1. Len(call.params[Top.node]) \in Nat
      BY <1>1, <1>3, RequestFacts
    <3> QED
      BY <3>1
  <2> QED
    BY <1>4, <1>5, <1>7, <2>1 DEF FrameOK
<1>8. FramesOK'
  <2>1. \A i \in 1..L : i \in 1..(L - 1) \/ i = L
    BY <1>2, Positions
  <2> QED
    BY <1>4, <1>6, <1>7, <2>1 DEF FramesOK
<1>9. OutputsKept'
  <2>1. stack'[1].node = stack[1].node
    <3>1. CASE L = 1
      BY <1>2, <1>4, <3>1
    <3>2. CASE L # 1
      <4>1. 1 \in 1..(L - 1)
        BY <1>2, <3>2, Positions
      <4> QED
        BY <1>4, <4>1
    <3> QED
      BY <3>1, <3>2
  <2> QED
    BY <1>4, <2>1 DEF SubdagInv, OutputsKept, Final, HasValue
<1> QED
  BY <1>4, <1>8, <1>9

(* A call of dfs_traverse returns.                                         *)
LEMMA FrameEnds ==
    ASSUME SubdagInv, stack # <<>>, UNCHANGED <<call, left, computed, status>>,
           stack' = Pop,
           \/ Top.node \in computed
           \/ ~HasValue(Top.node) /\ Top.optional
    PROVE  /\ stack' \in Seq(FrameType) /\ Descending' /\ Linked' /\ FramesOK'
           /\ OutputsKept'
<1> DEFINE L == Len(stack)
<1>1. SEType
  BY DEF SubdagInv
<1>2. L \in Nat \ {0} /\ L \in 1..L /\ Top = stack[L] /\ Top \in FrameType
  BY <1>1, TopFacts, Positions
<1>3. /\ stack' \in Seq(FrameType) /\ Len(stack') = L - 1
      /\ \A i \in 1..(L - 1) : stack'[i] = stack[i]
      /\ Descending' /\ Linked'
  BY <1>1, PopFacts, TopEnds DEF SubdagInv
<1>4. FramesOK'
  <2> SUFFICES ASSUME NEW i \in 1..(L - 1) PROVE FrameOK(i)'
    BY <1>3 DEF FramesOK
  <2>1. stack'[i] = stack[i] /\ (i < Len(stack') \/ i = L - 1)
    BY <1>2, <1>3
  <2>2. CASE i < Len(stack')
    BY <2>1, <2>2, LowerFrameKept
  <2>3. CASE i = L - 1
    <3>1. i + 1 = L
      BY <1>2, <2>3
    <3>2. Top.optional = (<<stack[i].node, Top.node>> \in call.optional)
      BY <1>2, <3>1 DEF SubdagInv, Linked
    <3>3. Top.node \in computed' \/ Absent(stack[i].node, Top.node)
      BY <3>2 DEF Absent
    <3> QED
      BY <2>1, <2>3, <3>3, LowerFrameKept
  <2> QED
    BY <2>1, <2>2, <2>3
<1>5. OutputsKept'
  <2>1. CASE L = 1
    <3>1. \A n : stack # <<>> /\ stack[1].node = n => n \in computed \/ ~HasValue(n)
      BY <1>2, <2>1
    <3> QED
      BY <3>1 DEF SubdagInv, OutputsKept, Final, HasValue
  <2>2. CASE L # 1
    <3>1. 1 \in 1..(L - 1)
      BY <1>2, <2>2, Positions
    <3>2. stack'[1] = stack[1]
      BY <1>3, <3>1
    <3>3. stack' # <<>>
      <4>1. Len(stack') # 0
        BY <1>2, <1>3, <2>2
      <4> QED
        BY <4>1, EmptySeq
    <3> QED
      BY <3>2, <3>3 DEF SubdagInv, OutputsKept, Final, HasValue
  <2> QED
    BY <2>1, <2>2
<1> QED
  BY <1>3, <1>4, <1>5

LEMMA TakeInputStep ==
    ASSUME SubdagInv, TakeInput
    PROVE  SubdagInv'
<1>1. /\ outcome = "none" /\ stack # <<>> /\ Top.stage = "visit"
      /\ status[Top.node] \notin {"running", "failed"}
      /\ Top.node \in call.input
      /\ UNCHANGED <<call, left, status, kwargs>>
  BY DEF TakeInput, Visited, Working
<1>2. SEType
  BY DEF SubdagInv
<1>3. \A n \in Node : status[n] \notin {"running", "failed"}
  BY <1>1 DEF SubdagInv, RunsOnTop
<1>4. RunsOnTop'
  BY <1>1, <1>3 DEF RunsOnTop
<1>5. ArgumentsAreWhole'
  BY <1>1, ArgumentsKept DEF SubdagInv
<1>6. CASE Top.node \in call.given /\ computed' = computed \cup {Top.node}
           /\ stack' = Pruning /\ UNCHANGED outcome
  <2>1. stack' \in Seq(FrameType) /\ Descending' /\ Linked' /\ FramesOK' /\ OutputsKept'
    BY <1>1, <1>6, PruningStarts
  <2>2. computed' \subseteq Node
    BY <1>1, <1>2, <1>6, RequestFacts DEF SEType
  <2>3. SEType'
    BY <1>1, <1>2, <1>6, <2>1, <2>2 DEF SEType, Final
  <2>4. Origins' /\ GoneForGood'
    BY <1>1, <1>2, <1>6, ValuesFacts DEF SubdagInv
  <2> QED
    BY <1>4, <1>5, <2>1, <2>3, <2>4 DEF SubdagInv
<1>7. CASE Top.node \notin call.given /\ Top.optional /\ stack' = Pop
           /\ UNCHANGED <<computed, outcome>>
  <2>1. ~HasValue(Top.node)
    <3>1. Len(stack) \in Nat \ {0} /\ Top = stack[Len(stack)]
      BY <1>1, <1>2, TopFacts
    <3>2. Len(stack) \in 1..Len(stack)
      BY <3>1, Positions
    <3>3. FrameOK(Len(stack))
      BY <3>2 DEF SubdagInv, FramesOK
    <3>4. Top.node \notin call.overrides /\ ~Had(Top.node)
      BY <1>1, <3>1, <3>3 DEF FrameOK
    <3> QED
      BY <1>1, <1>7, <3>4 DEF HasValue, Had
  <2>2. stack' \in Seq(FrameType) /\ Descending' /\ Linked' /\ FramesOK' /\ OutputsKept'
    BY <1>1, <1>7, <2>1, FrameEnds
  <2>3. SEType'
    BY <1>1, <1>2, <1>7, <2>2 DEF SEType, Final
  <2>4. Origins' /\ GoneForGood'
    BY <1>1, <1>2, <1>7, ValuesFacts DEF SubdagInv
  <2> QED
    BY <1>4, <1>5, <2>2, <2>3, <2>4 DEF SubdagInv
<1>8. CASE outcome' = "raised" /\ UNCHANGED <<computed, stack>>
  BY <1>1, <1>8, OutcomeStep
<1> QED
  BY <1>6, <1>7, <1>8 DEF TakeInput

(* What is true of the node on the top when its dependencies are visited.  *)
LEMMA VisitedFacts ==
    ASSUME SubdagInv, Visited
    PROVE  /\ stack # <<>> /\ Top.node \in Node /\ Top.stage = "visit"
           /\ Top.at = Len(call.params[Top.node]) + 1
           /\ status[Top.node] = "idle"
           /\ \A e \in Params(Top.node) : e \in computed \/ Absent(Top.node, e)
<1> DEFINE L == Len(stack)
           params == call.params[Top.node]
<1>1. /\ stack # <<>> /\ Top.stage = "visit" /\ Top.at \notin DOMAIN params
      /\ status[Top.node] \notin {"running", "failed"}
  BY DEF Visited, Working
<1>2. L \in Nat \ {0} /\ L \in 1..L /\ Top = stack[L] /\ Top \in FrameType
  BY <1>1, TopFacts, Positions DEF SubdagInv
<1>3. Top.node \in Node /\ Top.at \in Nat \ {0}
  BY <1>2 DEF FrameType
<1>4. /\ DOMAIN params = 1..Len(params) /\ Len(params) \in Nat
  BY <1>3, RequestFacts DEF SubdagInv
<1>5. /\ Top.at <= Len(params) + 1
      /\ ~Had(Top.node)
      /\ \A k \in 1..(Top.at - 1) : params[k] \in computed \/ Absent(Top.node, params[k])
  <2>1. FrameOK(L)
    BY <1>2 DEF SubdagInv, FramesOK
  <2>2. ~(L < L)
    BY <1>2
  <2> QED
    BY <1>1, <1>2, <2>1, <2>2 DEF FrameOK
<1>6. Top.at = Len(params) + 1
  BY <1>1, <1>3, <1>4, <1>5
<1>7. 1..(Top.at - 1) = DOMAIN params
  BY <1>4, <1>6
<1>8. \A e \in Params(Top.node) : e \in computed \/ Absent(Top.node, e)
  BY <1>5, <1>7 DEF Params
<1>9. status[Top.node] = "idle"
  BY <1>1, <1>3, <1>5 DEF SubdagInv, SEType, Had
<1> QED
  BY <1>1, <1>3, <1>6, <1>8, <1>9

(* The status of the node on the top changes, and it is not done yet.      *)
LEMMA StatusStep ==
    ASSUME SubdagInv, stack # <<>>, Top.node \in Node, Top.stage = "visit",
           Top.at = Len(call.params[Top.node]) + 1,
           status[Top.node] # "done",
           UNCHANGED <<call, left, stack, computed, outcome>>,
           NEW st \in {"running", "failed"},
           status' = [status EXCEPT ![Top.node] = st]
    PROVE  /\ status' \in [Node -> {"idle", "running", "done", "failed"}]
           /\ Descending' /\ Linked' /\ FramesOK' /\ Origins' /\ GoneForGood'
           /\ RunsOnTop' /\ OutputsKept'
<1>1. status \in [Node -> {"idle", "running", "done", "failed"}] /\ SEType
  BY DEF SubdagInv, SEType
<1>2. status' \in [Node -> {"idle", "running", "done", "failed"}]
  BY <1>1
<1>3. \A n \in Node : status'[n] = IF n = Top.node THEN st ELSE status[n]
  BY <1>1
<1>4. \A n \in Node : status'[n] = "done" <=> status[n] = "done"
  BY <1>3
<1>5. \A n \in Node : Had(n)' <=> Had(n)
  BY <1>4 DEF Had
<1>6. Descending' /\ Linked' /\ OutputsKept'
  BY DEF SubdagInv, Descending, Linked, OutputsKept, Final, HasValue
<1>7. FramesOK'
  <2> SUFFICES ASSUME NEW i \in 1..Len(stack) PROVE FrameOK(i)'
    BY DEF FramesOK
  <2>1. stack \in Seq(FrameType) /\ stack[i] \in FrameType
    BY <1>1, ElementOfSeq DEF SEType
  <2>2. stack[i].node \in Node
    BY <2>1 DEF FrameType
  <2>3. FrameOK(i)
    BY DEF SubdagInv, FramesOK
  <2>4. Had(stack[i].node)' <=> Had(stack[i].node)
    BY <1>4, <2>2 DEF Had
  <2>5. \A n, e : Absent(n, e)' <=> Absent(n, e)
    BY DEF Absent, HasValue
  <2> QED
    BY <2>3, <2>4, <2>5 DEF FrameOK
<1>8. Origins' /\ GoneForGood'
  BY <1>1, <1>4, ValuesFacts DEF SubdagInv
<1>9. RunsOnTop'
  <2>1. \A n \in Node : n # Top.node => status[n] \notin {"running", "failed"}
    BY DEF SubdagInv, RunsOnTop
  <2> SUFFICES ASSUME NEW n \in Node, status'[n] \in {"running", "failed"}
               PROVE  n = Top.node
    BY DEF RunsOnTop, Top
  <2> QED
    BY <1>3, <2>1
<1> QED
  BY <1>2, <1>6, <1>7, <1>8, <1>9

LEMMA StartNodeStep ==
    ASSUME SubdagInv, StartNode
    PROVE  SubdagInv'
<1>1. /\ UNCHANGED <<call, left, stack, computed, outcome>>
      /\ kwargs' = [kwargs EXCEPT ![Top.node] = Params(Top.node) \cap computed]
      /\ status' = [status EXCEPT ![Top.node] = "running"]
      /\ Visited
  BY DEF StartNode
<1>2. /\ stack # <<>> /\ Top.node \in Node /\ Top.stage = "visit"
      /\ Top.at = Len(call.params[Top.node]) + 1
      /\ status[Top.node] = "idle"
      /\ \A e \in Params(Top.node) : e \in computed \/ Absent(Top.node, e)
  BY <1>1, VisitedFacts
<1>3. /\ status' \in [Node -> {"idle", "running", "done", "failed"}]
      /\ Descending' /\ Linked' /\ FramesOK' /\ Origins' /\ GoneForGood'
      /\ RunsOnTop' /\ OutputsKept'
  BY <1>1, <1>2, StatusStep
<1>4. /\ computed \subseteq Node
      /\ kwargs \in [Node -> SUBSET Node]
      /\ status \in [Node -> {"idle", "running", "done", "failed"}]
  BY DEF SubdagInv, SEType
<1>5. kwargs' \in [Node -> SUBSET Node]
  BY <1>1, <1>4
<1>6. SEType'
  BY <1>1, <1>3, <1>5 DEF SubdagInv, SEType, Final
<1>7. ArgumentsAreWhole'
  <2> SUFFICES ASSUME NEW n \in Node, status'[n] # "idle", NEW e \in Params(n)
               PROVE  \/ e \in kwargs'[n]
                      \/ ~HasValue(e) /\ <<n, e>> \in call.optional
    BY <1>1 DEF ArgumentsAreWhole, Params, HasValue
  <2>1. CASE n = Top.node
    <3>1. kwargs'[n] = Params(n) \cap computed
      BY <1>1, <1>4, <2>1
    <3> QED
      BY <1>2, <2>1, <3>1 DEF Absent
  <2>2. CASE n # Top.node
    <3>1. kwargs'[n] = kwargs[n] /\ status'[n] = status[n]
      BY <1>1, <1>4, <2>2
    <3> QED
      BY <3>1 DEF SubdagInv, ArgumentsAreWhole
  <2> QED
    BY <2>1, <2>2
<1> QED
  BY <1>3, <1>6, <1>7 DEF SubdagInv

(* A node that runs or has failed has had its dependencies visited.        *)
LEMMA RunningFacts ==
    ASSUME SubdagInv, Working("visit"), status[Top.node] \in {"running", "failed"}
    PROVE  /\ stack # <<>> /\ Top.node \in Node /\ Top.stage = "visit"
           /\ Top.at = Len(call.params[Top.node]) + 1
<1>1. stack # <<>> /\ Top.stage = "visit"
  BY DEF Working
<1>2. Top \in FrameType
  BY <1>1, TopFacts DEF SubdagInv
<1>3. Top.node \in Node
  BY <1>2 DEF FrameType
<1> QED
  BY <1>1, <1>3 DEF SubdagInv, RunsOnTop

LEMMA NodeRaisesStep ==
    ASSUME SubdagInv, NodeRaises
    PROVE  SubdagInv'
<1>1. /\ UNCHANGED <<call, left, stack, computed, kwargs, outcome>>
      /\ status[Top.node] = "running"
      /\ status' = [status EXCEPT ![Top.node] = "failed"]
      /\ Working("visit")
  BY DEF NodeRaises
<1>2. /\ stack # <<>> /\ Top.node \in Node /\ Top.stage = "visit"
      /\ Top.at = Len(call.params[Top.node]) + 1
  BY <1>1, RunningFacts
<1>3. /\ status' \in [Node -> {"idle", "running", "done", "failed"}]
      /\ Descending' /\ Linked' /\ FramesOK' /\ Origins' /\ GoneForGood'
      /\ RunsOnTop' /\ OutputsKept'
  BY <1>1, <1>2, StatusStep
<1>4. SEType'
  BY <1>1, <1>3 DEF SubdagInv, SEType, Final
<1>5. \A n \in Node : status'[n] # "idle" => status[n] # "idle"
  BY <1>1 DEF SubdagInv, SEType
<1>6. ArgumentsAreWhole'
  BY <1>1, <1>5, ArgumentsKept DEF SubdagInv
<1> QED
  BY <1>3, <1>4, <1>6 DEF SubdagInv

LEMMA EndNodeStep ==
    ASSUME SubdagInv, EndNode
    PROVE  SubdagInv'
<1>1. /\ UNCHANGED <<call, left, kwargs, outcome>>
      /\ status[Top.node] = "running"
      /\ status' = [status EXCEPT ![Top.node] = "done"]
      /\ computed' = computed \cup {Top.node}
      /\ stack' = Pruning
      /\ Working("visit")
  BY DEF EndNode
<1>2. /\ stack # <<>> /\ Top.node \in Node /\ Top.stage = "visit"
  BY <1>1, RunningFacts
<1>3. /\ status \in [Node -> {"idle", "running", "done", "failed"}]
      /\ computed \subseteq Node /\ SEType
  BY DEF SubdagInv, SEType
<1>4. \A n \in Node : status'[n] = IF n = Top.node THEN "done" ELSE status[n]
  BY <1>1, <1>3
<1>5. stack' \in Seq(FrameType) /\ Descending' /\ Linked' /\ FramesOK' /\ OutputsKept'
  BY <1>1, <1>2, <1>4, PruningStarts
<1>6. status' \in [Node -> {"idle", "running", "done", "failed"}]
  BY <1>1, <1>3
<1>7. SEType'
  BY <1>1, <1>2, <1>3, <1>5, <1>6 DEF SEType, Final
<1>8. Origins' /\ GoneForGood'
  <2>1. /\ \A n \in Node : status[n] = "done" => status'[n] = "done"
        /\ \A n \in Node : status'[n] = "done" => status[n] = "done" \/ n \in computed'
        /\ \A e \in computed' : e \in computed \/ status'[e] = "done"
        /\ \A e \in computed : e \in computed'
    BY <1>1, <1>2, <1>4
  <2> QED
    BY <1>1, <1>3, <2>1, ValuesFacts DEF SubdagInv
<1>9. RunsOnTop'
  <2>1. \A n \in Node : n # Top.node => status[n] \notin {"running", "failed"}
    BY DEF SubdagInv, RunsOnTop
  <2>2. \A n \in Node : status'[n] \notin {"running", "failed"}
    BY <1>4, <2>1
  <2> QED
    BY <2>2 DEF RunsOnTop
<1>10. ArgumentsAreWhole'
  <2>1. \A n \in Node : status'[n] # "idle" => status[n] # "idle"
    BY <1>1, <1>4
  <2> QED
    BY <1>1, <2>1, ArgumentsKept DEF SubdagInv
<1> QED
  BY <1>5, <1>7, <1>8, <1>9, <1>10 DEF SubdagInv

LEMMA PruneDependencyStep ==
    ASSUME SubdagInv, PruneDependency
    PROVE  SubdagInv'
<1> DEFINE L == Len(stack)
           params == call.params[Top.node]
           d == params[Top.at]
<1>1. /\ stack # <<>> /\ Top.stage = "prune"
      /\ UNCHANGED <<call, left, status, kwargs, outcome>>
  BY DEF PruneDependency, Working
<1>2. SEType
  BY DEF SubdagInv
<1>3. L \in Nat \ {0} /\ L \in 1..L /\ Top = stack[L] /\ Top \in FrameType
  BY <1>1, <1>2, TopFacts, Positions
<1>4. Top.node \in Node /\ Top.at \in Nat \ {0}
  BY <1>3 DEF FrameType
<1>5. Top.node \in computed
  <2>1. FrameOK(L)
    BY <1>3 DEF SubdagInv, FramesOK
  <2> QED
    BY <1>1, <1>3, <2>1 DEF FrameOK
<1>6. RunsOnTop'
  <2>1. \A n \in Node : status[n] \notin {"running", "failed"}
    BY <1>1 DEF SubdagInv, RunsOnTop
  <2> QED
    BY <1>1, <2>1 DEF RunsOnTop
<1>7. ArgumentsAreWhole'
  BY <1>1, ArgumentsKept DEF SubdagInv
<1>8. CASE Top.at \notin DOMAIN params
  <2>1. stack' = Pop /\ UNCHANGED computed
    BY <1>8 DEF PruneDependency
  <2>2. stack' \in Seq(FrameType) /\ Descending' /\ Linked' /\ FramesOK' /\ OutputsKept'
    BY <1>1, <1>5, <2>1, FrameEnds
  <2>3. SEType'
    BY <1>1, <1>2, <2>1, <2>2 DEF SEType, Final
  <2>4. Origins' /\ GoneForGood'
    BY <1>1, <1>2, <2>1, ValuesFacts DEF SubdagInv
  <2> QED
    BY <1>6, <1>7, <2>2, <2>3, <2>4 DEF SubdagInv
<1>9. CASE Top.at \in DOMAIN params
  <2>1. /\ computed' = IF Unneeded(d) THEN computed \ {d} ELSE computed
        /\ stack' = Advanced
    BY <1>9 DEF PruneDependency
  <2>2. /\ DOMAIN params = 1..Len(params) /\ Len(params) \in Nat
        /\ d < Top.node /\ d \in Node /\ Node \subseteq Nat
    BY <1>2, <1>4, <1>9, RequestFacts DEF Params
  <2> HIDE DEF d
  <2>3. d # Top.node
    BY <1>4, <2>2
  <2>4. /\ computed' \subseteq computed /\ Top.node \in computed'
        /\ \A e \in computed : e \notin computed' => Unneeded(e)
    BY <1>5, <2>1, <2>3
  <2>5. /\ stack' \in Seq(FrameType) /\ stack' # <<>> /\ Len(stack') = L
        /\ \A i \in 1..(L - 1) : stack'[i] = stack[i]
        /\ stack'[L].node = Top.node
        /\ Descending' /\ Linked'
    BY <1>1, <1>2, <2>1, TopMoves DEF SubdagInv
  <2>6. stack'[L].at = Top.at + 1 /\ stack'[L].stage = "prune"
    <3>1. stack'[L] = [Top EXCEPT !.at = Top.at + 1]
      BY <1>1, <1>2, <2>1, AdvancedFacts
    <3> QED
      BY <1>1, <1>3, <3>1 DEF FrameType
  <2>7. SEType'
    BY <1>1, <1>2, <2>4, <2>5 DEF SEType, Final
  <2>8. Origins' /\ GoneForGood'
    BY <1>1, <1>2, <2>4, ValuesFacts DEF SubdagInv
  <2>9. \A i \in 1..(L - 1) : FrameOK(i)'
    <3> TAKE i \in 1..(L - 1)
    <3>1. i < Len(stack')
      BY <1>3, <2>5, Positions
    <3> QED
      BY <1>1, <2>4, <2>5, <3>1, LowerFrameKept
  <2>10. ASSUME NEW i, i = L PROVE FrameOK(i)'
    <3>1. Top.at + 1 <= Len(params) + 1
      BY <1>4, <1>9, <2>2
    <3> QED
      BY <1>1, <2>4, <2>5, <2>6, <2>10, <3>1 DEF FrameOK
  <2>11. FramesOK'
    <3>1. \A i \in 1..L : i \in 1..(L - 1) \/ i = L
      BY <1>3, Positions
    <3> QED
      BY <2>5, <2>9, <2>10, <3>1 DEF FramesOK
  <2>12. OutputsKept'
    <3>1. stack'[1].node = stack[1].node
      <4>1. CASE L = 1
        BY <1>3, <2>5, <4>1
      <4>2. CASE L # 1
        <5>1. 1 \in 1..(L - 1)
          BY <1>3, <4>2, Positions
        <5> QED
          BY <2>5, <5>1
      <4> QED
        BY <4>1, <4>2
    <3>2. \A n \in Final : n \in computed => n \in computed'
      BY <2>4 DEF Unneeded
    <3> QED
      BY <1>1, <2>5, <3>1, <3>2 DEF SubdagInv, OutputsKept, Final, HasValue
  <2> QED
    BY <1>6, <1>7, <2>5, <2>7, <2>8, <2>11, <2>12 DEF SubdagInv
<1> QED
  BY <1>8, <1>9

-----------------------------------------------------------------------------
(* Every step keeps the invariant.                                         *)
LEMMA StepInv == SubdagInv /\ [SENext]_sevars => SubdagInv'
<1> SUFFICES ASSUME SubdagInv, [SENext]_sevars PROVE SubdagInv'
  OBVIOUS
<1>1. CASE VisitFinal
  BY <1>1, VisitFinalStep
<1>2. CASE VisitDependency
  BY <1>2, VisitDependencyStep
<1>3. CASE TakeInput
  BY <1>3, TakeInputStep
<1>4. CASE PreHookRaises
  BY <1>4, OutcomeStep DEF PreHookRaises
<1>5. CASE StartNode
  BY <1>5, StartNodeStep
<1>6. CASE EndNode
  BY <1>6, EndNodeStep
<1>7. CASE NodeRaises
  BY <1>7, NodeRaisesStep
<1>8. CASE Propagate
  BY <1>8, OutcomeStep DEF Propagate
<1>9. CASE PruneDependency
  BY <1>9, PruneDependencyStep
<1>10. CASE Return
  BY <1>10, OutcomeStep DEF Return
<1>11. CASE UNCHANGED sevars
  <2>1. outcome' \in {"none", "returned", "raised"}
    BY <1>11 DEF sevars, SubdagInv, SEType
  <2> QED
    BY <1>11, <2>1, OutcomeStep DEF sevars
<1> QED
  BY <1>1, <1>2, <1>3, <1>4, <1>5, <1>6, <1>7, <1>8, <1>9, <1>10, <1>11 DEF SENext

LEMMA Invariance == SESpec => []SubdagInv
<1>1. SEInit => SubdagInv
  BY InitInv
<1>2. SubdagInv /\ [SENext]_sevars => SubdagInv'
  BY StepInv
<1> QED
  BY <1>1, <1>2, PTL DEF SESpec

(* Pruning never takes an argument away: a node is executed with the value *)
(* of each of its parameters, but for an optional input that nobody gave   *)
(* (dfs_traverse and the kwargs of execute_lifecycle_for_node).            *)
THEOREM WholeArguments == SESpec => []ArgumentsAreWhole
<1>1. SubdagInv => ArgumentsAreWhole
  BY DEF SubdagInv
<1> QED
  BY <1>1, Invariance, PTL

-----------------------------------------------------------------------------
(* The refinement of NodeRun.                                              *)
LEMMA NodeRunInit == SEInit => NR!NRInit
<1> SUFFICES ASSUME SEInit PROVE NR!NRInit
  OBVIOUS
<1>1. /\ [n \in Node |-> Params(n) \cap Executable] \in [Node -> SUBSET Node]
      /\ (Final \cap Executable) \in SUBSET Node
  BY DEF Executable
<1> QED
  BY <1>1 DEF NR!NRInit, SEInit

(* What has a value to be computed and is in computed has been executed.   *)
LEMMA ExecutedFacts ==
    ASSUME SubdagInv, NEW e \in Executable
    PROVE  /\ e \in computed => status[e] = "done"
           /\ HasValue(e)
<1>1. e \notin call.input /\ e \notin call.overrides /\ e \notin call.supplied
  BY DEF Executable
<1>2. e \in computed => Shut(e)
  BY <1>1 DEF SubdagInv, Origins
<1> QED
  BY <1>1, <1>2 DEF Shut, Had, HasValue

LEMMA NodeRunStep == SubdagInv /\ [SENext]_sevars => [NR!NRNext]_(NR!nrvars)
<1> DEFINE reads == [n \in Node |-> Params(n) \cap Executable]
           wanted == Final \cap Executable
<1> SUFFICES ASSUME SubdagInv, [SENext]_sevars PROVE [NR!NRNext]_(NR!nrvars)
  OBVIOUS
<1>1. call' = call
  BY DEF SENext, sevars, VisitFinal, VisitDependency, TakeInput, PreHookRaises,
         StartNode, EndNode, NodeRaises, Propagate, PruneDependency, Return
<1>2. reads' = reads /\ wanted' = wanted
  BY <1>1 DEF Params, Executable, Final
<1>3. ASSUME UNCHANGED <<status, outcome>> PROVE UNCHANGED NR!nrvars
  BY <1>2, <1>3 DEF NR!nrvars
<1>4. ASSUME outcome = "none", outcome' = "raised", UNCHANGED status PROVE NR!Raise
  BY <1>2, <1>4 DEF NR!Raise
<1>5. CASE VisitFinal \/ VisitDependency \/ PruneDependency \/ UNCHANGED sevars
  <2>1. UNCHANGED <<status, outcome>>
    BY <1>5 DEF VisitFinal, VisitDependency, PruneDependency, sevars
  <2> QED
    BY <1>3, <2>1
<1>6. CASE TakeInput
  <2>1. UNCHANGED status /\ outcome = "none" /\ (outcome' = outcome \/ outcome' = "raised")
    BY <1>6 DEF TakeInput, Visited, Working
  <2> QED
    BY <1>3, <1>4, <2>1 DEF NR!NRNext
<1>7. CASE PreHookRaises \/ Propagate
  <2>1. UNCHANGED status /\ outcome = "none" /\ outcome' = "raised"
    BY <1>7 DEF PreHookRaises, Propagate, Visited, Working
  <2> QED
    BY <1>4, <2>1 DEF NR!NRNext
<1>8. CASE StartNode
  <2>1. /\ Top.node \in Node /\ status[Top.node] = "idle"
        /\ \A e \in Params(Top.node) : e \in computed \/ Absent(Top.node, e)
        /\ status' = [status EXCEPT ![Top.node] = "running"]
        /\ UNCHANGED outcome
    BY <1>8, VisitedFacts DEF StartNode
  <2>2. \A e \in Params(Top.node) \cap Executable : status[e] = "done"
    BY <2>1, ExecutedFacts DEF Absent
  <2>3. reads[Top.node] = Params(Top.node) \cap Executable
    BY <2>1
  <2>4. NR!StartNode(Top.node)
    BY <1>2, <2>1, <2>2, <2>3 DEF NR!StartNode
  <2> QED
    BY <2>1, <2>4 DEF NR!NRNext
<1>9. CASE EndNode \/ NodeRaises
  <2>1. /\ status[Top.node] = "running" /\ UNCHANGED outcome
        /\ \/ status' = [status EXCEPT ![Top.node] = "done"]
           \/ status' = [status EXCEPT ![Top.node] = "failed"]
    BY <1>9 DEF EndNode, NodeRaises
  <2>2. Top.node \in Node
    BY <1>9, <2>1, RunningFacts DEF EndNode, NodeRaises
  <2>3. NR!EndNode(Top.node)
    BY <1>2, <2>1 DEF NR!EndNode
  <2> QED
    BY <2>2, <2>3 DEF NR!NRNext
<1>10. CASE Return
  <2>1. /\ outcome = "none" /\ outcome' = "returned" /\ UNCHANGED status
        /\ stack = <<>> /\ left = <<>>
    BY <1>10 DEF Return
  <2>2. \A n \in wanted : status[n] = "done"
    BY <2>1, ExecutedFacts DEF SubdagInv, OutputsKept
  <2>3. NR!Return
    BY <1>2, <2>1, <2>2 DEF NR!Return
  <2> QED
    BY <2>3 DEF NR!NRNext
<1> QED
  BY <1>5, <1>6, <1>7, <1>8, <1>9, <1>10 DEF SENext

(* execute_subdag executes a node at most once, after the nodes it reads,  *)
(* and has executed the outputs when it returns, for every graph, request  *)
(* and set of overrides.                                                   *)
THEOREM SubdagImplementsNodeRun == SESpec => ImplementsNodeRun
<1>1. SEInit => NR!NRInit
  BY NodeRunInit
<1>2. SubdagInv /\ [SENext]_sevars => [NR!NRNext]_(NR!nrvars)
  BY NodeRunStep
<1> QED
  BY <1>1, <1>2, Invariance, PTL DEF SESpec, ImplementsNodeRun, NR!NRSpec
-----------------------------------------------------------------------------
(* What is needed.  The function of Needed refers to itself at the readers *)
(* of a node, which have higher numbers: it exists on the last k nodes,    *)
(* for there is no least k for which it does not.                          *)
NeedBody(f, n) == n \in Executable /\ (n \in Final \/ \E r \in Readers(n) : f[r])
NeedOnLast(f, k) == f = [n \in (N + 1 - k)..N |-> NeedBody(f, n)]

LEMMA ReadersFacts ==
    ASSUME SEType, NEW n \in Node, NEW r \in Readers(n)
    PROVE  r \in Node /\ n < r /\ n \in Params(r)
<1>1. r \in Node /\ n \in Params(r)
  BY DEF Readers
<1> QED
  BY <1>1, RequestFacts DEF Params

LEMMA NeedExists ==
    ASSUME SEType
    PROVE  \E f : NeedOnLast(f, N)
<1> DEFINE T == {k \in Nat : k <= N /\ ~ \E f : NeedOnLast(f, k)}
<1>a. N \in Nat
  BY RequestsAssumption
<1>1. SUFFICES T = {}
  BY <1>a
<1>2. SUFFICES ASSUME T # {} PROVE FALSE
  OBVIOUS
<1>3. PICK k \in T : \A m \in T : <<m, k>> \notin OpToRel(<, Nat)
  BY <1>2, WFMin, NatLessThanWellFounded, Zenon
<1>4. k \in Nat /\ k <= N /\ \A m \in Nat : m < k => \E f : NeedOnLast(f, m)
  <2>1. k \in Nat /\ k <= N
    OBVIOUS
  <2>2. ASSUME NEW m \in Nat, m < k PROVE \E f : NeedOnLast(f, m)
    <3>1. <<m, k>> \in OpToRel(<, Nat)
      BY <2>1, <2>2 DEF OpToRel
    <3>2. m \notin T
      BY <3>1, <1>3, Zenon
    <3>3. m <= N
      BY <2>1, <2>2, <1>a
    <3> QED
      BY <3>2, <3>3
  <2> QED
    BY <2>1, <2>2
<1>5. CASE k = 0
  <2> DEFINE f == [n \in {} |-> TRUE]
  <2>1. (N + 1 - 0)..N = {}
    BY <1>a
  <2>2. NeedOnLast(f, 0)
    BY <2>1 DEF NeedOnLast
  <2> QED
    BY <1>3, <1>5, <2>2
<1>6. CASE k # 0
  <2>1. PICK g : NeedOnLast(g, k - 1)
    BY <1>4, <1>6
  <2> DEFINE D == (N + 1 - k)..N
             f == [n \in D |-> NeedBody(g, n)]
  <2>2. /\ \A n \in D : n \in Node /\ \A r \in Readers(n) : r \in (N + 1 - (k - 1))..N
        /\ \A r \in (N + 1 - (k - 1))..N : r \in D
    <3>1. D \subseteq Node
      BY <1>4, <1>a DEF Node
    <3>2. \A n \in D : \A r \in Readers(n) : n < r /\ r \in Node
      BY <3>1, ReadersFacts
    <3> QED
      BY <3>1, <3>2, <1>4, <1>a DEF Node
  <2>3. \A r \in (N + 1 - (k - 1))..N : g[r] = NeedBody(g, r)
    BY <2>1, Zenon DEF NeedOnLast
  <2>4. \A r \in (N + 1 - (k - 1))..N : f[r] = g[r]
    BY <2>2, <2>3, Zenon
  <2>5. \A n \in D : f[n] = NeedBody(g, n)
    OBVIOUS
  <2> HIDE DEF f
  <2>6. \A n \in D : NeedBody(g, n) = NeedBody(f, n)
    BY <2>2, <2>4, Zenon DEF NeedBody
  <2>7. f = [n \in D |-> NeedBody(f, n)]
    <3>1. f = [n \in D |-> f[n]]
      BY DEF f
    <3> QED
      BY <3>1, <2>5, <2>6, Zenon
  <2>8. NeedOnLast(f, k)
    BY <2>7, Zenon DEF NeedOnLast
  <2> QED
    BY <1>3, <2>8, Zenon
<1> QED
  BY <1>5, <1>6

LEMMA NeededFacts ==
    ASSUME SEType
    PROVE  \A n \in Node : n \in Needed <=>
               n \in Executable /\ (n \in Final \/ \E r \in Readers(n) : r \in Needed)
<1> DEFINE f == CHOOSE g : g = [n \in Node |-> NeedBody(g, n)]
<1>1. Needed = {n \in Node : f[n]}
  BY Zenon DEF Needed, NeedBody
<1>2. (N + 1 - N)..N = Node
  BY RequestsAssumption DEF Node
<1>3. \E g : g = [n \in Node |-> NeedBody(g, n)]
  BY <1>2, NeedExists, Zenon DEF NeedOnLast
<1>4. f = [n \in Node |-> NeedBody(f, n)]
  BY <1>3, Zenon
<1> HIDE DEF f
<1>5. \A n \in Node : f[n] = NeedBody(f, n)
  BY <1>4, Zenon
<1>6. \A n \in Node : \A r \in Readers(n) : r \in Node
  BY DEF Readers
<1> QED
  BY <1>1, <1>5, <1>6, Zenon DEF NeedBody

-----------------------------------------------------------------------------
(* What is traversed, and executed, is needed; and what was executed has   *)
(* had all it reads executed before.                                       *)
FramesAsked == \A i \in 1..Len(stack) : stack[i].node \in call.input \cup Needed
OnlyNeeded == \A n \in Node : status[n] # "idle" => n \in Needed
ReadsDone ==
    \A n \in Node : status[n] # "idle" =>
        \A e \in Params(n) \cap Executable : status[e] = "done"

Finished == outcome = "returned" => stack = <<>> /\ left = <<>>

AskedInv == SubdagInv /\ Finished /\ FramesAsked /\ OnlyNeeded /\ ReadsDone

(* A frame that dfs_traverse(n) pushes is asked for when n is: n has no    *)
(* value yet, for one that was passed is only missing from computed when   *)
(* nobody reads it any more.                                               *)
LEMMA VisitAsks ==
    ASSUME SubdagInv, SubdagInv', FramesAsked, UNCHANGED call,
           NEW n \in Node, NEW isOptional \in BOOLEAN, NEW frames \in Seq(FrameType),
           \A i \in 1..Len(frames) : frames[i].node \in call.input \cup Needed,
           Visit(n, isOptional, frames),
           n \in Executable => n \in Needed
    PROVE  FramesAsked'
<1>1. Needed' = Needed
  BY DEF Needed, Executable, Final, Readers, Params
<1>2. CASE stack' = frames
  BY <1>1, <1>2 DEF FramesAsked
<1>3. CASE stack' = Append(frames, Frame(n, isOptional))
  <2>1. Frame(n, isOptional) \in FrameType /\ Frame(n, isOptional).node = n
        /\ Frame(n, isOptional).stage = "visit"
    BY DEF Frame, FrameType
  <2>2. /\ Len(stack') = Len(frames) + 1 /\ Len(frames) \in Nat
        /\ \A i \in 1..Len(frames) : stack'[i] = frames[i]
        /\ stack'[Len(frames) + 1] = Frame(n, isOptional)
    BY <1>3, <2>1, AppendProperties, LenProperties
  <2>3. Executable' = Executable
    BY DEF Executable
  <2>4. n \in call.input \cup Executable
    <3> DEFINE k == Len(frames) + 1
    <3>1. k \in 1..Len(stack')
      BY <2>2
    <3>2. FrameOK(k)'
      BY <3>1 DEF SubdagInv, FramesOK
    <3>3. stack'[k].node = n /\ stack'[k].stage = "visit"
      BY <2>1, <2>2
    <3> QED
      BY <3>2, <3>3 DEF FrameOK, Had, Executable
  <2>5. n \in call.input \cup Needed
    BY <2>4
  <2> QED
    BY <1>1, <2>1, <2>2, <2>5 DEF FramesAsked
<1> QED
  BY <1>2, <1>3 DEF Visit

(* A step that keeps the statuses and does not call dfs_traverse.          *)
LEMMA QuietStep ==
    ASSUME AskedInv, SubdagInv', Finished', UNCHANGED <<call, status>>,
           \/ stack' = stack
           \/ stack # <<>> /\ stack' \in {Advanced, Pruning, Pop}
    PROVE  AskedInv'
<1>1. Needed' = Needed /\ Executable' = Executable /\ \A n : Params(n)' = Params(n)
  BY DEF Needed, Executable, Final, Readers, Params
<1>2. OnlyNeeded' /\ ReadsDone'
  BY <1>1 DEF AskedInv, OnlyNeeded, ReadsDone
<1>3. FramesAsked'
  <2>1. CASE stack' = stack
    BY <1>1, <2>1 DEF AskedInv, FramesAsked
  <2>2. CASE stack # <<>> /\ stack' = Pop
    <3>1. Len(stack') = Len(stack) - 1 /\ \A i \in 1..(Len(stack) - 1) : stack'[i] = stack[i]
          /\ Len(stack) \in Nat \ {0}
      BY <2>2, PopFacts, TopFacts DEF AskedInv, SubdagInv
    <3> QED
      BY <1>1, <3>1 DEF AskedInv, FramesAsked
  <2>3. CASE stack # <<>> /\ stack' \in {Advanced, Pruning}
    <3>1. /\ Len(stack') = Len(stack) /\ Len(stack) \in Nat \ {0} /\ Top = stack[Len(stack)]
          /\ \A i \in 1..(Len(stack) - 1) : stack'[i] = stack[i]
          /\ stack'[Len(stack)].node = Top.node
      BY <2>3, TopMoves, TopFacts DEF AskedInv, SubdagInv
    <3> QED
      BY <1>1, <3>1 DEF AskedInv, FramesAsked
  <2> QED
    BY <2>1, <2>2, <2>3
<1> QED
  BY <1>2, <1>3 DEF AskedInv

LEMMA FinishedStep == Finished /\ [SENext]_sevars => Finished'
  BY DEF SENext, sevars, VisitFinal, VisitDependency, TakeInput, PreHookRaises,
         StartNode, EndNode, NodeRaises, Propagate, PruneDependency, Return,
         Visited, Working, Finished

LEMMA AskedStep ==
    ASSUME AskedInv, [SENext]_sevars
    PROVE  AskedInv'
<1>a. SubdagInv /\ SubdagInv' /\ SEType /\ Finished'
  BY StepInv, FinishedStep DEF AskedInv, SubdagInv
<1>b. call' = call
  BY DEF SENext, sevars, VisitFinal, VisitDependency, TakeInput, PreHookRaises,
         StartNode, EndNode, NodeRaises, Propagate, PruneDependency, Return
<1>c. Needed' = Needed /\ Executable' = Executable /\ \A n : Params(n)' = Params(n)
  BY <1>b DEF Needed, Executable, Final, Readers, Params
<1>d. status \in [Node -> {"idle", "running", "done", "failed"}]
  BY <1>a DEF SEType
<1>1. CASE VisitFinal
  <2>1. /\ left # <<>> /\ stack = <<>> /\ UNCHANGED <<call, status>>
        /\ Visit(Head(left), Head(left) \in call.input, stack)
    BY <1>1 DEF VisitFinal
  <2>2. left \in Seq(Node) /\ Head(left) = left[1] /\ 1 \in DOMAIN left /\ Head(left) \in Node
    BY <1>a, <2>1, HeadTailProperties, EmptySeq, LenProperties DEF SEType
  <2>3. Head(left) \in Final
    BY <1>a, <2>2 DEF SEType
  <2>4. Head(left) \in Executable => Head(left) \in Needed
    BY <1>a, <2>2, <2>3, NeededFacts
  <2>5. stack \in Seq(FrameType) /\ (Head(left) \in call.input) \in BOOLEAN
    BY <1>a DEF SEType
  <2>6. FramesAsked'
    BY <1>a, <2>1, <2>2, <2>4, <2>5, VisitAsks DEF AskedInv, FramesAsked
  <2> QED
    BY <1>a, <1>c, <2>1, <2>6 DEF AskedInv, OnlyNeeded, ReadsDone
<1>2. CASE VisitDependency
  <2> DEFINE d == call.params[Top.node][Top.at]
  <2>1. /\ stack # <<>> /\ Top.stage = "visit" /\ UNCHANGED <<call, status>>
        /\ Top.at \in DOMAIN call.params[Top.node]
        /\ Visit(d, <<Top.node, d>> \in call.optional, Advanced)
    BY <1>2 DEF VisitDependency, Working
  <2>2. /\ Len(stack) \in Nat \ {0} /\ Top = stack[Len(stack)] /\ Top \in FrameType
    BY <1>a, <2>1, TopFacts
  <2>3. Top.node \in Node /\ Len(stack) \in 1..Len(stack)
    BY <2>2 DEF FrameType
  <2>4. d \in Params(Top.node) /\ d \in Node
    BY <1>a, <2>1, <2>3, RequestFacts DEF Params
  <2>5. Top.node \in Needed
    <3>1. Top.node \notin call.input
      BY <1>a, <2>1, <2>3, RequestFacts
    <3> QED
      BY <2>2, <2>3, <3>1 DEF AskedInv, FramesAsked
  <2> HIDE DEF d
  <2>6. d \in Executable => d \in Needed
    BY <1>a, <2>3, <2>4, <2>5, NeededFacts DEF Readers
  <2>7. /\ Advanced \in Seq(FrameType) /\ Len(Advanced) = Len(stack)
        /\ \A i \in 1..(Len(stack) - 1) : Advanced[i] = stack[i]
        /\ Advanced[Len(stack)].node = Top.node
    <3>1. Advanced[Len(stack)] = [Top EXCEPT !.at = Top.at + 1]
      BY <1>a, <2>1, AdvancedFacts
    <3>2. Advanced[Len(stack)].node = Top.node
      BY <2>2, <3>1 DEF FrameType
    <3> QED
      BY <1>a, <2>1, <3>2, AdvancedFacts
  <2>8. \A i \in 1..Len(Advanced) : Advanced[i].node \in call.input \cup Needed
    BY <2>2, <2>7 DEF AskedInv, FramesAsked
  <2>9. FramesAsked'
    <3>1. (<<Top.node, d>> \in call.optional) \in BOOLEAN
      OBVIOUS
    <3> QED
      BY <1>a, <2>1, <2>4, <2>6, <2>7, <2>8, <3>1, VisitAsks DEF AskedInv
  <2> QED
    BY <1>a, <1>c, <2>1, <2>9 DEF AskedInv, OnlyNeeded, ReadsDone
<1>3. CASE TakeInput
  <2>1. /\ stack # <<>> /\ UNCHANGED status
        /\ stack' = stack \/ stack' \in {Advanced, Pruning, Pop}
    BY <1>3 DEF TakeInput, Visited, Working
  <2> QED
    BY <1>a, <1>b, <2>1, QuietStep
<1>4. CASE PreHookRaises \/ Propagate \/ Return \/ UNCHANGED sevars
  <2>1. UNCHANGED <<stack, status>>
    BY <1>4 DEF PreHookRaises, Propagate, Return, sevars
  <2> QED
    BY <1>a, <1>b, <2>1, QuietStep
<1>5. CASE PruneDependency
  <2>1. /\ stack # <<>> /\ UNCHANGED status /\ stack' \in {Advanced, Pruning, Pop}
    BY <1>5 DEF PruneDependency, Working
  <2> QED
    BY <1>a, <1>b, <2>1, QuietStep
<1>6. CASE StartNode
  <2>1. /\ Top.node \in Node /\ Top.node \notin call.input /\ stack # <<>>
        /\ \A e \in Params(Top.node) : e \in computed \/ Absent(Top.node, e)
        /\ status' = [status EXCEPT ![Top.node] = "running"]
        /\ status[Top.node] = "idle" /\ UNCHANGED stack
    BY <1>6, <1>a, VisitedFacts DEF StartNode
  <2>2. \A n \in Node : status'[n] = IF n = Top.node THEN "running" ELSE status[n]
    BY <1>d, <2>1
  <2>3. Top.node \in Needed
    BY <1>a, <2>1, TopFacts DEF AskedInv, FramesAsked
  <2>4. \A e \in Params(Top.node) \cap Executable : status[e] = "done"
    BY <1>a, <2>1, ExecutedFacts DEF Absent
  <2>5. Executable \subseteq Node
    BY DEF Executable
  <2>6. \A e \in Node : status[e] = "done" => status'[e] = "done"
    BY <2>1, <2>2
  <2>7. FramesAsked' /\ OnlyNeeded'
    BY <1>b, <1>c, <2>1, <2>2, <2>3 DEF AskedInv, FramesAsked, OnlyNeeded
  <2>8. ReadsDone'
    BY <1>c, <2>2, <2>4, <2>5, <2>6 DEF AskedInv, ReadsDone
  <2> QED
    BY <1>a, <2>7, <2>8 DEF AskedInv
<1>7. CASE EndNode \/ NodeRaises
  <2>1. /\ status[Top.node] = "running" /\ stack # <<>>
        /\ stack' \in {stack, Pruning}
        /\ \/ status' = [status EXCEPT ![Top.node] = "done"]
           \/ status' = [status EXCEPT ![Top.node] = "failed"]
    BY <1>7 DEF EndNode, NodeRaises, Working
  <2>2. /\ \A e \in Node : status[e] = "done" => status'[e] = "done"
        /\ \A n \in Node : status'[n] # "idle" => status[n] # "idle"
    BY <1>d, <2>1
  <2>3. Executable \subseteq Node
    BY DEF Executable
  <2>4. OnlyNeeded' /\ ReadsDone'
    BY <1>c, <2>2, <2>3 DEF AskedInv, OnlyNeeded, ReadsDone
  <2>5. FramesAsked'
    <3>1. CASE stack' = stack
      BY <1>b, <1>c, <3>1 DEF AskedInv, FramesAsked
    <3>2. CASE stack' = Pruning
      <4>1. /\ Len(stack') = Len(stack) /\ Len(stack) \in Nat \ {0} /\ Top = stack[Len(stack)]
            /\ \A i \in 1..(Len(stack) - 1) : stack'[i] = stack[i]
            /\ stack'[Len(stack)].node = Top.node
        BY <1>a, <1>b, <2>1, <3>2, TopMoves, TopFacts DEF SubdagInv
      <4> QED
        BY <1>b, <1>c, <4>1 DEF AskedInv, FramesAsked
    <3> QED
      BY <2>1, <3>1, <3>2
  <2> QED
    BY <1>a, <2>4, <2>5 DEF AskedInv
<1> QED
  BY <1>1, <1>2, <1>3, <1>4, <1>5, <1>6, <1>7 DEF SENext

(* The outputs have been executed at the end and so, by descent, has all   *)
(* that is needed: of the needed nodes that were not, the one with the     *)
(* highest number would be read by one that was.                           *)
LEMMA NeededIsDone ==
    ASSUME AskedInv, outcome = "returned"
    PROVE  \A n \in Needed : status[n] = "done"
<1> DEFINE T == {k \in Nat : \E n \in Needed : status[n] # "done" /\ n = N - k}
<1>1. SEType /\ stack = <<>> /\ left = <<>> /\ N \in Nat
  BY RequestsAssumption DEF AskedInv, SubdagInv, Finished
<1>2. \A n \in Needed : n \in Node /\ n \in Nat /\ n <= N /\ N - n \in Nat /\ n = N - (N - n)
  BY <1>1 DEF Needed, Node
<1>3. SUFFICES T = {}
  BY <1>2
<1>4. SUFFICES ASSUME T # {} PROVE FALSE
  OBVIOUS
<1>5. PICK k \in T : \A m \in T : <<m, k>> \notin OpToRel(<, Nat)
  BY <1>4, WFMin, NatLessThanWellFounded, Zenon
<1>6. PICK n \in Needed : status[n] # "done" /\ n = N - k /\ k \in Nat
  BY <1>5
<1>7. n \in Node /\ n \in Executable /\ (n \in Final \/ \E r \in Readers(n) : r \in Needed)
  BY <1>1, <1>2, NeededFacts
<1>8. CASE n \in Final
  <2>1. n \in computed
    BY <1>1, <1>7, <1>8, ExecutedFacts DEF AskedInv, SubdagInv, OutputsKept
  <2> QED
    BY <1>6, <1>7, <2>1, ExecutedFacts DEF AskedInv
<1>9. ASSUME NEW r \in Readers(n), r \in Needed PROVE FALSE
  <2>1. r \in Node /\ n < r /\ n \in Params(r)
    BY <1>1, <1>7, ReadersFacts
  <2>2. N - r \in Nat /\ N - r < k /\ r = N - (N - r)
    BY <1>1, <1>2, <1>6, <1>9, <2>1
  <2>3. <<N - r, k>> \in OpToRel(<, Nat)
    BY <2>2, <1>6 DEF OpToRel
  <2>4. N - r \notin T
    BY <2>3, <1>5, Zenon
  <2>5. status[r] = "done"
    BY <1>9, <2>2, <2>4
  <2> QED
    BY <1>6, <1>7, <2>1, <2>5 DEF AskedInv, ReadsDone
<1> QED
  BY <1>7, <1>8, <1>9

(* execute_subdag executes the outputs and what these read, but nothing    *)
(* that only an override or a value that was passed would have read; when  *)
(* it returns all of that is executed, and the outputs are still there.    *)
THEOREM ComputesNeeded == SESpec => []ComputesWhatIsAsked
<1>1. SEInit => AskedInv
  <2> SUFFICES ASSUME SEInit PROVE AskedInv
    OBVIOUS
  <2>1. SubdagInv
    BY InitInv
  <2>2. Len(stack) = 0
    BY DEF SEInit
  <2> QED
    BY <2>1, <2>2 DEF SEInit, AskedInv, Finished, FramesAsked, OnlyNeeded, ReadsDone
<1>2. AskedInv /\ [SENext]_sevars => AskedInv'
  BY AskedStep
<1>3. AskedInv => ComputesWhatIsAsked
  <2> SUFFICES ASSUME AskedInv PROVE ComputesWhatIsAsked
    OBVIOUS
  <2>1. outcome = "returned" => \A n \in Needed : status[n] = "done"
    BY NeededIsDone
  <2>2. outcome = "returned" => \A n \in Final : HasValue(n) => n \in computed
    BY DEF AskedInv, SubdagInv, OutputsKept, Finished
  <2> QED
    BY <2>1, <2>2 DEF AskedInv, OnlyNeeded, ComputesWhatIsAsked
<1> QED
  BY <1>1, <1>2, <1>3, PTL DEF SESpec

=============================================================================

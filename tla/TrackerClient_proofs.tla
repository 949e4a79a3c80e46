------------------------ MODULE TrackerClient_proofs ------------------------
(***************************************************************************)
(* The tracker client sends the updates of a thread in order, loses less   *)
(* than a batch to a stop by the user, and nothing at the exit of a        *)
(* program that did not call stop, for any number of threads, runs and     *)
(* updates and any batch size.                                             *)
(*                                                                         *)
(* An update is on its way from the queue through the batch of the worker, *)
(* or the hands of stop, to the server.  The stages follow each other in   *)
(* the order in which a thread logs, and stop has none of its own as long  *)
(* as the worker is alive (StreamInv).                                     *)
(***************************************************************************)
EXTENDS TrackerClient, SequenceTheorems, FiniteSetTheorems, WellFoundedInduction, TLAPS

(* The updates of a thread ascend in s, sentinels apart.                   *)
Ascending(s) ==
    \A i, j \in DOMAIN s :
        i < j /\ s[i] # None /\ s[j] # None /\ s[i][1] = s[j][1] => s[i][2] < s[j][2]
Before(S, T) == \A e \in S, f \in T : e[1] = f[1] => e[2] < f[2]

Queued == ToSet(queue) \ {None}
InHand == {item} \ {None}
(* What the worker will still send of its batch. *)
Unsent == IF worker \in {"loop", "get"} THEN ToSet(batch)
          ELSE IF worker \in {"flush", "return"}
               THEN {e \in ToSet(batch) : RunOf[e[1]] \in sending}
          ELSE {}

StreamInv ==
    /\ Ascending(queue) /\ Ascending(batch) /\ Ascending(delivered)
    /\ Before(ToSet(delivered), Unsent \cup InHand \cup Queued)
    /\ Before(ToSet(batch), Queued)
    /\ Before(InHand, Queued)
    /\ \A e \in ToSet(delivered) \cup ToSet(batch) \cup InHand \cup Queued :
          e[2] <= logged[e[1]]

(* Who is where: stop goes on when the worker is over, and only it holds   *)
(* an item.                                                                *)
PhaseInv ==
    /\ main \in {"drain", "send"} \/ atExit => WorkerOver
    /\ item # None <=> main = "send"
    /\ worker = "died" => refused
    /\ atExit => main \in {"join", "drain", "send", "exited"}
    /\ main = "exited" => atExit

(* What a flush has gone through has been received.                        *)
SentInv ==
    ~refused /\ worker \in {"flush", "return"} =>
        \A e \in ToSet(batch) : RunOf[e[1]] \in sending \/ e \in ToSet(delivered)

(* There is one sentinel, and the worker of a program that does not call   *)
(* stop ends when it has met it.                                           *)
SentinelInv ==
    /\ \A i, j \in DOMAIN queue : queue[i] = None /\ queue[j] = None => i = j
    /\ watching => None \notin ToSet(queue)
    /\ atExit => \A p \in Producers : Finished(p)
    /\ ~stopped =>
          /\ main \in {"run", "shutdown"} \/ atExit
          /\ atExit \/ running
          /\ worker \in {"return", "ended"} => ~watching /\ None \notin ToSet(queue)
          /\ worker = "ended" => batch = <<>>
          /\ atExit /\ ~refused => ~stopRaised
          /\ main = "exited" /\ ~refused => queue = <<>>

(* No thread logs more than its updates.                                   *)
LogInv == \A p \in Producers : logged[p] <= Updates[p]

(* A batch that is full is flushed before the worker tests running again.  *)
BatchInv == worker \in {"loop", "get"} => Len(batch) < MaxBatch

(* Nothing is lost before the worker has ended, and nothing after: the     *)
(* loss is what was in the batch when a stop made the worker leave.        *)
LostInv ==
    ~refused =>
        /\ Lost # {} => stopped /\ worker = "ended"
        /\ IsFiniteSet(Lost) /\ Cardinality(Lost) < MaxBatch

TrackerInv ==
    /\ TCTypeOK /\ LogInv /\ PhaseInv /\ StreamInv /\ SentInv /\ SentinelInv
    /\ BatchInv /\ LostInv

-----------------------------------------------------------------------------
(* Sequences: what taking the head, appending and concatenating do to the  *)
(* elements and to their order.                                            *)
LEMMA EventFacts ==
    /\ None \notin Events
    /\ \A e \in Events : e[1] \in Producers /\ e[2] \in Nat /\ e[2] <= Updates[e[1]]
                         /\ e = <<e[1], e[2]>>
    /\ \A p \in Producers : Updates[p] \in Nat
    /\ MaxBatch \in Nat \ {0} /\ Main \in Producers
<1>1. Updates \in [Producers -> Nat]
  BY TrackerAssumption
<1>2. ASSUME NEW e \in Events
      PROVE  e[1] \in Producers /\ e[2] \in Nat /\ e[2] <= Updates[e[1]] /\ e = <<e[1], e[2]>>
  <2>1. PICK p \in Producers : e \in {p} \X (1 .. Updates[p])
    BY DEF Events
  <2> QED
    BY <2>1, <1>1
<1> QED
  BY <1>1, <1>2, NoneAssumption, TrackerAssumption

LEMMA TailFacts ==
    ASSUME NEW S, NEW s \in Seq(S), s # <<>>
    PROVE  /\ Tail(s) \in Seq(S)
           /\ Head(s) \in S
           /\ ToSet(s) = {Head(s)} \cup ToSet(Tail(s))
           /\ 1 \in DOMAIN s /\ s[1] = Head(s)
           /\ \A i \in DOMAIN Tail(s) : i \in Nat \ {0} /\ i + 1 \in DOMAIN s /\ Tail(s)[i] = s[i+1]
<1>1. /\ Tail(s) \in Seq(S) /\ Head(s) \in S /\ Head(s) = s[1]
      /\ Len(Tail(s)) = Len(s) - 1
      /\ \A i \in 1..Len(Tail(s)) : Tail(s)[i] = s[i+1]
  BY HeadTailProperties, EmptySeq, LenProperties
<1>2. DOMAIN s = 1..Len(s) /\ DOMAIN Tail(s) = 1..Len(Tail(s)) /\ Len(s) \in Nat /\ Len(s) # 0
  BY <1>1, LenProperties, EmptySeq
<1>3. \A i \in DOMAIN s : i = 1 \/ i - 1 \in DOMAIN Tail(s)
  BY <1>1, <1>2
<1>4. \A i \in DOMAIN s : s[i] = Head(s) \/ s[i] = Tail(s)[i-1]
  BY <1>1, <1>2, <1>3
<1>5. ToSet(s) \subseteq {Head(s)} \cup ToSet(Tail(s))
  BY <1>3, <1>4 DEF ToSet
<1>6. {Head(s)} \cup ToSet(Tail(s)) \subseteq ToSet(s)
  BY <1>1, <1>2 DEF ToSet
<1> QED
  BY <1>1, <1>2, <1>5, <1>6

LEMMA AppendFacts ==
    ASSUME NEW S, NEW s \in Seq(S), NEW x \in S
    PROVE  /\ Append(s, x) \in Seq(S)
           /\ ToSet(Append(s, x)) = ToSet(s) \cup {x}
           /\ DOMAIN Append(s, x) = 1..(Len(s) + 1) /\ Len(s) \in Nat
           /\ DOMAIN s = 1..Len(s)
           /\ \A i \in DOMAIN s : Append(s, x)[i] = s[i]
           /\ Append(s, x)[Len(s) + 1] = x
<1>1. /\ Append(s, x) \in Seq(S) /\ Len(Append(s, x)) = Len(s) + 1
      /\ \A i \in 1..Len(s) : Append(s, x)[i] = s[i]
      /\ Append(s, x)[Len(s) + 1] = x
      /\ DOMAIN s = 1..Len(s) /\ Len(s) \in Nat
  BY AppendProperties, LenProperties
<1>2. DOMAIN Append(s, x) = 1..(Len(s) + 1)
  BY <1>1, LenProperties
<1>3. ToSet(Append(s, x)) \subseteq ToSet(s) \cup {x}
  BY <1>1, <1>2 DEF ToSet
<1>4. ToSet(s) \cup {x} \subseteq ToSet(Append(s, x))
  BY <1>1, <1>2 DEF ToSet
<1> QED
  BY <1>1, <1>2, <1>3, <1>4

LEMMA ConcatFacts ==
    ASSUME NEW S, NEW s \in Seq(S), NEW t \in Seq(S)
    PROVE  /\ s \o t \in Seq(S)
           /\ ToSet(s \o t) = ToSet(s) \cup ToSet(t)
           /\ DOMAIN (s \o t) = 1..(Len(s) + Len(t)) /\ Len(s) \in Nat /\ Len(t) \in Nat
           /\ DOMAIN s = 1..Len(s) /\ DOMAIN t = 1..Len(t)
           /\ \A i \in DOMAIN s : (s \o t)[i] = s[i]
           /\ \A i \in (Len(s) + 1)..(Len(s) + Len(t)) :
                 i - Len(s) \in DOMAIN t /\ (s \o t)[i] = t[i - Len(s)]
<1>1. /\ s \o t \in Seq(S) /\ Len(s \o t) = Len(s) + Len(t)
      /\ \A i \in 1..(Len(s) + Len(t)) :
            (s \o t)[i] = IF i <= Len(s) THEN s[i] ELSE t[i - Len(s)]
      /\ DOMAIN s = 1..Len(s) /\ Len(s) \in Nat /\ DOMAIN t = 1..Len(t) /\ Len(t) \in Nat
  BY ConcatProperties, LenProperties
<1>2. DOMAIN (s \o t) = 1..(Len(s) + Len(t))
  BY <1>1, LenProperties
<1>3. /\ \A i \in DOMAIN s : (s \o t)[i] = s[i]
      /\ \A i \in (Len(s) + 1)..(Len(s) + Len(t)) :
            i - Len(s) \in DOMAIN t /\ (s \o t)[i] = t[i - Len(s)]
  BY <1>1
<1>4. ToSet(s \o t) \subseteq ToSet(s) \cup ToSet(t)
  BY <1>1, <1>2 DEF ToSet
<1>5. ToSet(s) \subseteq ToSet(s \o t)
  BY <1>1, <1>2 DEF ToSet
<1>6. \A j \in DOMAIN t : j + Len(s) \in DOMAIN (s \o t) /\ (s \o t)[j + Len(s)] = t[j]
  BY <1>1, <1>2
<1>7. ToSet(t) \subseteq ToSet(s \o t)
  BY <1>6 DEF ToSet
<1> QED
  BY <1>1, <1>2, <1>3, <1>4, <1>5, <1>7

LEMMA AscendingTail ==
    ASSUME NEW s \in Seq(Events \cup {None}), s # <<>>, Ascending(s)
    PROVE  /\ Ascending(Tail(s))
           /\ Head(s) # None => Before({Head(s)}, ToSet(Tail(s)) \ {None})
<1>1. /\ Tail(s) \in Seq(Events \cup {None})
      /\ 1 \in DOMAIN s /\ s[1] = Head(s)
      /\ \A i \in DOMAIN Tail(s) : i \in Nat \ {0} /\ i + 1 \in DOMAIN s /\ Tail(s)[i] = s[i+1]
  BY TailFacts
<1>2. Ascending(Tail(s))
  BY <1>1 DEF Ascending
<1>3. ASSUME Head(s) # None, NEW f \in ToSet(Tail(s)) \ {None}, Head(s)[1] = f[1]
      PROVE  Head(s)[2] < f[2]
  <2>1. PICK i \in DOMAIN Tail(s) : f = Tail(s)[i]
    BY <1>3 DEF ToSet
  <2> QED
    BY <1>1, <1>3, <2>1 DEF Ascending
<1> QED
  BY <1>2, <1>3 DEF Before

LEMMA AscendingAppend ==
    ASSUME NEW s \in Seq(Events \cup {None}), NEW x \in Events \cup {None}, Ascending(s),
           x = None \/ Before(ToSet(s) \ {None}, {x})
    PROVE  Ascending(Append(s, x))
<1>1. /\ DOMAIN Append(s, x) = 1..(Len(s) + 1) /\ Len(s) \in Nat
      /\ DOMAIN s = 1..Len(s)
      /\ \A i \in DOMAIN s : Append(s, x)[i] = s[i]
      /\ Append(s, x)[Len(s) + 1] = x
  BY AppendFacts
<1>2. \A i \in DOMAIN s : s[i] \in ToSet(s)
  BY DEF ToSet
<1>3. ASSUME NEW i \in DOMAIN Append(s, x), NEW j \in DOMAIN Append(s, x),
             i < j, Append(s, x)[i] # None, Append(s, x)[j] # None,
             Append(s, x)[i][1] = Append(s, x)[j][1]
      PROVE  Append(s, x)[i][2] < Append(s, x)[j][2]
  <2>1. i \in DOMAIN s /\ Append(s, x)[i] = s[i]
    BY <1>1, <1>3
  <2>2. CASE j \in DOMAIN s
    BY <1>1, <1>3, <2>1, <2>2 DEF Ascending
  <2>3. CASE j = Len(s) + 1
    BY <1>1, <1>2, <1>3, <2>1, <2>3 DEF Before
  <2> QED
    BY <1>1, <2>2, <2>3
<1> QED
  BY <1>3 DEF Ascending

LEMMA AscendingConcat ==
    ASSUME NEW s \in Seq(Events), NEW t \in Seq(Events), Ascending(s), Ascending(t),
           Before(ToSet(s), ToSet(t))
    PROVE  Ascending(s \o t)
<1>1. /\ DOMAIN (s \o t) = 1..(Len(s) + Len(t)) /\ Len(s) \in Nat /\ Len(t) \in Nat
      /\ DOMAIN s = 1..Len(s) /\ DOMAIN t = 1..Len(t)
      /\ \A i \in DOMAIN s : (s \o t)[i] = s[i]
      /\ \A i \in (Len(s) + 1)..(Len(s) + Len(t)) :
            i - Len(s) \in DOMAIN t /\ (s \o t)[i] = t[i - Len(s)]
  BY ConcatFacts
<1>2. \A i \in DOMAIN s : s[i] \in ToSet(s)
  BY DEF ToSet
<1>3. \A i \in DOMAIN t : t[i] \in ToSet(t)
  BY DEF ToSet
<1>4. ASSUME NEW i \in DOMAIN (s \o t), NEW j \in DOMAIN (s \o t),
             i < j, (s \o t)[i] # None, (s \o t)[j] # None, (s \o t)[i][1] = (s \o t)[j][1]
      PROVE  (s \o t)[i][2] < (s \o t)[j][2]
  <2>1. CASE i \in DOMAIN s /\ j \in DOMAIN s
    BY <1>1, <1>4, <2>1 DEF Ascending
  <2>2. CASE i \in DOMAIN s /\ j > Len(s)
    BY <1>1, <1>2, <1>3, <1>4, <2>2 DEF Before
  <2>3. CASE i > Len(s) /\ j > Len(s)
    <3> DEFINE k == i - Len(s)
               m == j - Len(s)
    <3>1. k \in DOMAIN t /\ m \in DOMAIN t /\ k < m /\ (s \o t)[i] = t[k] /\ (s \o t)[j] = t[m]
      BY <1>1, <1>4, <2>3
    <3> QED
      BY <1>4, <3>1 DEF Ascending
  <2> QED
    BY <1>1, <1>4, <2>1, <2>2, <2>3
<1> QED
  BY <1>4 DEF Ascending

-----------------------------------------------------------------------------
(* create_batch picks the updates of a run and keeps their order.          *)
OfRunBody(s, r, f, i) ==
    IF i = 0 THEN <<>>
    ELSE IF RunOf[s[i][1]] = r THEN Append(f[i-1], s[i])
    ELSE f[i-1]
OfRunUpTo(s, r, f, n) == f = [i \in 0..n |-> OfRunBody(s, r, f, i)]

(* The recursive function exists: there is no least n up to which it does  *)
(* not.                                                                    *)
LEMMA OfRunExists ==
    ASSUME NEW s \in Seq(Events), NEW r
    PROVE  \E f : OfRunUpTo(s, r, f, Len(s))
<1> DEFINE T == {n \in Nat : ~ \E f : OfRunUpTo(s, r, f, n)}
<1>1. SUFFICES T = {}
  BY LenProperties
<1>2. SUFFICES ASSUME T # {} PROVE FALSE
  OBVIOUS
<1>3. PICK n \in T : \A m \in T : <<m, n>> \notin OpToRel(<, Nat)
  BY <1>2, WFMin, NatLessThanWellFounded, Zenon
<1>4. n \in Nat /\ \A m \in Nat : m < n => \E f : OfRunUpTo(s, r, f, m)
  BY <1>3 DEF OpToRel
<1>5. CASE n = 0
  <2> DEFINE f == [i \in 0..0 |-> <<>>]
  <2>1. OfRunUpTo(s, r, f, 0)
    BY DEF OfRunUpTo, OfRunBody
  <2> QED
    BY <1>3, <1>5, <2>1
<1>6. CASE n # 0
  <2>1. PICK g : OfRunUpTo(s, r, g, n - 1)
    BY <1>4, <1>6
  <2> DEFINE f == [i \in 0..n |-> OfRunBody(s, r, g, i)]
  <2>a. \A i \in 0..(n-1) : g[i] = OfRunBody(s, r, g, i)
    BY <2>1, Zenon DEF OfRunUpTo
  <2>2. \A i \in 0..(n-1) : f[i] = g[i]
    <3>1. \A i \in 0..(n-1) : i \in 0..n
      BY <1>4
    <3> QED
      BY <2>a, <3>1, Zenon
  <2>3. \A i \in 0..n : OfRunBody(s, r, g, i) = OfRunBody(s, r, f, i)
    <3> HIDE DEF f
    <3> QED
      BY <1>4, <2>2 DEF OfRunBody
  <2>4. f = [i \in 0..n |-> OfRunBody(s, r, f, i)]
    <3> DEFINE h == [i \in 0..n |-> OfRunBody(s, r, f, i)]
    <3>1. \A i \in 0..n : f[i] = h[i]
      BY <2>3
    <3> QED
      BY <3>1
  <2>5. OfRunUpTo(s, r, f, n)
    BY <2>4 DEF OfRunUpTo
  <2> QED
    BY <1>3, <2>5
<1> QED
  BY <1>5, <1>6

LEMMA OfRunFacts ==
    ASSUME NEW s \in Seq(Events), NEW r
    PROVE  /\ OfRun(s, r) \in Seq(Events)
           /\ ToSet(OfRun(s, r)) = {e \in ToSet(s) : RunOf[e[1]] = r}
           /\ Ascending(s) => Ascending(OfRun(s, r))
<1> DEFINE f == CHOOSE g : OfRunUpTo(s, r, g, Len(s))
           Good(i) == /\ f[i] \in Seq(Events)
                      /\ ToSet(f[i]) = {e \in Events : \E j \in 1..i : e = s[j] /\ RunOf[e[1]] = r}
                      /\ Ascending(s) => Ascending(f[i])
           T == {i \in 0..Len(s) : ~Good(i)}
<1>1. OfRun(s, r) = f[Len(s)]
  BY Zenon DEF OfRun, OfRunUpTo, OfRunBody
<1>2. OfRunUpTo(s, r, f, Len(s))
  BY OfRunExists, Zenon
<1>3. \A i \in 0..Len(s) : f[i] = OfRunBody(s, r, f, i)
  BY <1>2, Zenon DEF OfRunUpTo
<1> HIDE DEF f
<1>4. Len(s) \in Nat /\ DOMAIN s = 1..Len(s) /\ \A i \in 1..Len(s) : s[i] \in Events
  BY LenProperties, ElementOfSeq
<1>5. T = {}
  <2>1. SUFFICES ASSUME T # {} PROVE FALSE
    OBVIOUS
  <2>2. T \subseteq Nat
    BY <1>4
  <2> HIDE DEF T
  <2>3. PICK i \in T : \A m \in T : <<m, i>> \notin OpToRel(<, Nat)
    BY <2>1, <2>2, WFMin, NatLessThanWellFounded, Zenon
  <2> USE DEF T
  <2>4. i \in 0..Len(s) /\ ~Good(i) /\ \A m \in 0..Len(s) : m < i => Good(m)
    <3> HIDE DEF Good
    <3>1. i \in 0..Len(s) /\ ~Good(i)
      BY <2>3
    <3>2. ASSUME NEW m \in 0..Len(s), m < i PROVE Good(m)
      <4>1. <<m, i>> \in OpToRel(<, Nat)
        BY <3>1, <3>2, <1>4 DEF OpToRel
      <4>2. m \notin T
        BY <4>1, <2>3, Zenon
      <4> QED
        BY <4>2
    <3> QED
      BY <3>1, <3>2
  <2>5. CASE i = 0
    <3>1. f[i] = <<>>
      BY <1>3, <1>4, <2>5 DEF OfRunBody
    <3>2. f[i] \in Seq(Events) /\ DOMAIN f[i] = {}
      BY <3>1, EmptySeq, LenProperties
    <3> QED
      BY <2>4, <2>5, <3>2 DEF ToSet, Ascending
  <2>6. CASE i # 0
    <3>1. i \in 1..Len(s) /\ i - 1 \in 0..Len(s) /\ i - 1 < i /\ s[i] \in Events
      BY <1>4, <2>4, <2>6
    <3>2. Good(i - 1)
      BY <2>4, <3>1
    <3>3. CASE RunOf[s[i][1]] = r
      <4>1. f[i] = Append(f[i-1], s[i])
        BY <1>3, <2>4, <2>6, <3>3 DEF OfRunBody
      <4>2. f[i] \in Seq(Events) /\ ToSet(f[i]) = ToSet(f[i-1]) \cup {s[i]}
        BY <4>1, <3>1, <3>2, AppendFacts
      <4>3. ToSet(f[i]) = {e \in Events : \E j \in 1..i : e = s[j] /\ RunOf[e[1]] = r}
        BY <4>2, <3>1, <3>2, <3>3
      <4>4. ASSUME Ascending(s) PROVE Ascending(f[i])
        <5>1. Before(ToSet(f[i-1]) \ {None}, {s[i]})
          <6>1. SUFFICES ASSUME NEW e \in ToSet(f[i-1]), e[1] = s[i][1] PROVE e[2] < s[i][2]
            BY DEF Before
          <6>2. PICK j \in 1..(i-1) : e = s[j] /\ e \in Events
            BY <3>1, <3>2
          <6>3. j \in DOMAIN s /\ i \in DOMAIN s /\ j < i /\ s[i] # None /\ s[j] # None
            BY <3>1, <6>2, <1>4, EventFacts
          <6> QED
            BY <4>4, <6>1, <6>2, <6>3 DEF Ascending
        <5>2. f[i-1] \in Seq(Events \cup {None}) /\ s[i] \in Events \cup {None}
          BY <3>1, <3>2, SeqMonotonic
        <5> QED
          BY <4>1, <4>4, <3>2, <5>1, <5>2, AscendingAppend
      <4> QED
        BY <2>4, <4>2, <4>3, <4>4
    <3>4. CASE RunOf[s[i][1]] # r
      <4>1. f[i] = f[i-1]
        BY <1>3, <2>4, <2>6, <3>4 DEF OfRunBody
      <4>2. ToSet(f[i]) = {e \in Events : \E j \in 1..i : e = s[j] /\ RunOf[e[1]] = r}
        BY <4>1, <3>1, <3>2, <3>4
      <4> QED
        BY <2>4, <3>2, <4>1, <4>2
    <3> QED
      BY <3>3, <3>4
  <2> QED
    BY <2>5, <2>6
<1>6. Good(Len(s))
  BY <1>4, <1>5
<1>7. ToSet(f[Len(s)]) = {e \in ToSet(s) : RunOf[e[1]] = r}
  BY <1>4, <1>6 DEF ToSet
<1> QED
  BY <1>1, <1>6, <1>7

-----------------------------------------------------------------------------
(* A step keeps the types.  What an update adds to the queue is an event.  *)
LEMMA LogFacts ==
    ASSUME TCTypeOK, LogInv, NEW p \in Producers, UpdateTasks(p)
    PROVE  /\ <<p, logged[p] + 1>> \in Events
           /\ queue' = Append(queue, <<p, logged[p] + 1>>)
           /\ logged' \in [Producers -> Nat]
           /\ logged'[p] = logged[p] + 1 /\ logged[p] \in Nat
           /\ \A q \in Producers : q # p => logged'[q] = logged[q]
           /\ LogInv'
<1>1. logged \in [Producers -> Nat] /\ logged' = [logged EXCEPT ![p] = @ + 1]
  BY DEF UpdateTasks, TCTypeOK
<1>2. logged[p] # Updates[p] /\ logged[p] <= Updates[p] /\ logged[p] \in Nat
  BY <1>1 DEF UpdateTasks, Finished, LogInv
<1>3. /\ logged' \in [Producers -> Nat] /\ logged'[p] = logged[p] + 1
      /\ \A q \in Producers : q # p => logged'[q] = logged[q]
  BY <1>1
<1>4. logged[p] + 1 \in 1 .. Updates[p] /\ Updates[p] \in Nat
  BY <1>2, EventFacts
<1>5. <<p, logged[p] + 1>> \in Events
  BY <1>4 DEF Events
<1>6. queue' = Append(queue, <<p, logged[p] + 1>>)
  BY <1>3 DEF UpdateTasks
<1>7. LogInv'
  BY <1>3, <1>4 DEF LogInv
<1> QED
  BY <1>2, <1>3, <1>5, <1>6, <1>7

(* The runs of a batch are those of its updates.                           *)
LEMMA RunsFacts ==
    ASSUME NEW S, NEW s \in Seq(S)
    PROVE  Runs(s) = {RunOf[e[1]] : e \in ToSet(s)}
BY DEF Runs, ToSet

(* What a worker takes from the queue joins its batch.                     *)
LEMMA GetFacts ==
    ASSUME TCTypeOK, Get
    PROVE  /\ queue' \in Seq(Events \cup {None}) /\ queue # <<>>
           /\ ToSet(queue) = {Head(queue)} \cup ToSet(queue')
           /\ Head(queue) \in Events \cup {None}
           /\ Head(queue) # None =>
                /\ Append(batch, Head(queue)) \in Seq(Events)
                /\ ToSet(Append(batch, Head(queue))) = ToSet(batch) \cup {Head(queue)}
<1>1. queue \in Seq(Events \cup {None}) /\ queue # <<>> /\ queue' = Tail(queue)
      /\ batch \in Seq(Events)
  BY DEF Get, TCTypeOK
<1>2. /\ queue' \in Seq(Events \cup {None}) /\ Head(queue) \in Events \cup {None}
      /\ ToSet(queue) = {Head(queue)} \cup ToSet(queue')
  BY <1>1, TailFacts
<1>3. ASSUME Head(queue) # None
      PROVE  /\ Append(batch, Head(queue)) \in Seq(Events)
             /\ ToSet(Append(batch, Head(queue))) = ToSet(batch) \cup {Head(queue)}
  BY <1>1, <1>2, <1>3, AppendFacts
<1> QED
  BY <1>1, <1>2, <1>3

LEMMA TypeStep ==
    ASSUME TCTypeOK, LogInv, PhaseInv, [TCNext]_vars
    PROVE  TCTypeOK' /\ LogInv'
<1> USE DEF TCTypeOK
<1>1. ASSUME NEW p \in Producers, UpdateTasks(p) PROVE TCTypeOK' /\ LogInv'
  <2>1. /\ <<p, logged[p] + 1>> \in Events
        /\ queue' = Append(queue, <<p, logged[p] + 1>>)
        /\ logged' \in [Producers -> Nat] /\ LogInv'
    BY <1>1, LogFacts
  <2>2. queue' \in Seq(Events \cup {None})
    BY <2>1, AppendFacts
  <2> QED
    BY <1>1, <2>1, <2>2 DEF UpdateTasks, workervars, mainvars, Runs
<1>a. <<>> \in Seq(Events)
  BY EmptySeq
<1>2. CASE TestRunning
  BY <1>2, <1>a DEF TestRunning, Leave, mainvars, LogInv
<1>3. CASE Get
  <2>1. queue' \in Seq(Events \cup {None})
    BY <1>3, GetFacts
  <2>2. CASE GetSentinel
    BY <1>3, <2>1, <2>2 DEF Get, GetSentinel, Flush, mainvars, LogInv
  <2>3. CASE GetItem
    <3> DEFINE b == Append(batch, Head(queue))
    <3>1. /\ Head(queue) # None
          /\ worker' \in {"flush", "loop"} /\ batch' = b
          /\ sending' = Runs(b) \/ sending' = sending
      BY <2>3 DEF GetItem, Flush, Wait
    <3>2. b \in Seq(Events) /\ ToSet(b) = ToSet(batch) \cup {Head(queue)}
      BY <3>1, <1>3, GetFacts
    <3> HIDE DEF b
    <3>3. Runs(batch) \subseteq Runs(b)
      BY <3>2, RunsFacts
    <3>4. sending' \subseteq Runs(b) /\ Runs(batch') = Runs(b)
      BY <3>1, <3>3
    <3> QED
      BY <1>3, <2>1, <3>1, <3>2, <3>4 DEF Get, mainvars, LogInv, Runs
  <2> QED
    BY <1>3, <2>2, <2>3 DEF Get
<1>4. CASE GetTimesOut
  BY <1>4 DEF GetTimesOut, Timeout, Flush, Wait, mainvars, LogInv
<1>5. ASSUME NEW r \in sending, FlushRun(r) PROVE TCTypeOK' /\ LogInv'
  <2>1. OfRun(batch, r) \in Seq(Events)
    BY OfRunFacts
  <2>2. delivered \o OfRun(batch, r) \in Seq(Events)
    BY <2>1, ConcatFacts
  <2>3. delivered' \in Seq(Events) /\ refused' \in BOOLEAN
    BY <1>5, <2>2 DEF FlushRun, Put
  <2>4. \/ worker' = worker /\ batch' = batch /\ sending' = sending \ {r}
        \/ worker' = "died" /\ batch' = <<>> /\ sending' = {}
    BY <1>5 DEF FlushRun, Leave
  <2>5. worker' \in {worker, "died"} /\ batch' \in Seq(Events) /\ sending' \subseteq Runs(batch')
    BY <1>a, <2>4
  <2> QED
    BY <1>5, <2>3, <2>5 DEF FlushRun, mainvars, LogInv, Runs
<1>6. CASE FlushEnds
  BY <1>6, <1>a DEF FlushEnds, Leave, Wait, mainvars, LogInv
<1>7. CASE UserStops
  BY <1>7 DEF UserStops, Stop, workervars, LogInv, Runs
<1>8. CASE MainEnds
  BY <1>8 DEF MainEnds, workervars, LogInv, Runs
<1>9. CASE Watcher
  <2>1. queue' \in Seq(Events \cup {None})
    BY <1>9, AppendFacts DEF Watcher, WatcherPuts
  <2> QED
    BY <1>9, <2>1 DEF Watcher, workervars, mainvars, LogInv, Runs
<1>10. CASE JoinWorker
  BY <1>10 DEF JoinWorker, workervars, LogInv, Runs
<1>11. CASE DrainItem
  <2>1. queue' \in Seq(Events \cup {None}) /\ Head(queue) \in Events \cup {None}
    BY <1>11, TailFacts DEF DrainItem
  <2> QED
    BY <1>11, <2>1 DEF DrainItem, StopEnds, workervars, LogInv, Runs
<1>12. CASE SendItem
  <2>1. item \in Events
    BY <1>12 DEF SendItem, PhaseInv
  <2>2. delivered \o <<item>> \in Seq(Events)
    BY <2>1, ConcatFacts
  <2> QED
    BY <1>12, <2>2 DEF SendItem, Put, StopEnds, workervars, LogInv, Runs
<1>13. CASE DrainEnds
  BY <1>13 DEF DrainEnds, StopEnds, workervars, LogInv, Runs
<1>14. CASE ExitStops
  BY <1>14 DEF ExitStops, Stop, workervars, LogInv, Runs
<1>15. CASE UNCHANGED vars
  BY <1>15 DEF vars, workervars, mainvars, LogInv, Runs
<1> QED
  BY <1>1, <1>2, <1>3, <1>4, <1>5, <1>6, <1>7, <1>8, <1>9, <1>10, <1>11, <1>12, <1>13,
     <1>14, <1>15 DEF TCNext, Worker, InStop, Exited

-----------------------------------------------------------------------------
(* A step keeps who is where.                                              *)
LEMMA PhaseStep ==
    ASSUME TCTypeOK, PhaseInv, [TCNext]_vars
    PROVE  PhaseInv'
<1> USE DEF PhaseInv, WorkerOver
<1>1. ASSUME NEW p \in Producers, UpdateTasks(p) PROVE PhaseInv'
  BY <1>1 DEF UpdateTasks, workervars, mainvars
<1>2. CASE TestRunning
  BY <1>2 DEF TestRunning, Leave, mainvars
<1>3. CASE Get
  BY <1>3 DEF Get, GetSentinel, GetItem, Flush, Wait, mainvars
<1>4. CASE GetTimesOut
  BY <1>4 DEF GetTimesOut, Timeout, Flush, Wait, mainvars
<1>5. ASSUME NEW r \in sending, FlushRun(r) PROVE PhaseInv'
  BY <1>5 DEF FlushRun, Leave, Put, mainvars
<1>6. CASE FlushEnds
  BY <1>6 DEF FlushEnds, Leave, Wait, mainvars
<1>7. CASE UserStops
  BY <1>7 DEF UserStops, Stop, workervars
<1>8. CASE MainEnds
  BY <1>8 DEF MainEnds, workervars
<1>9. CASE Watcher
  BY <1>9 DEF Watcher, workervars, mainvars
<1>10. CASE JoinWorker
  BY <1>10 DEF JoinWorker, Joined, workervars
<1>11. CASE DrainItem
  BY <1>11 DEF DrainItem, StopEnds, workervars
<1>12. CASE SendItem
  BY <1>12 DEF SendItem, Put, StopEnds, workervars
<1>13. CASE DrainEnds
  BY <1>13 DEF DrainEnds, StopEnds, workervars
<1>14. CASE ExitStops
  BY <1>14 DEF ExitStops, Stop, workervars
<1>15. CASE UNCHANGED vars
  BY <1>15 DEF vars, workervars, mainvars
<1> QED
  BY <1>1, <1>2, <1>3, <1>4, <1>5, <1>6, <1>7, <1>8, <1>9, <1>10, <1>11, <1>12, <1>13,
     <1>14, <1>15 DEF TCNext, Worker, InStop, Exited

(* A step keeps the promise about the sentinel.                            *)
LEMMA SentinelStep ==
    ASSUME TCTypeOK, PhaseInv, LogInv, SentinelInv, [TCNext]_vars
    PROVE  SentinelInv'
<1> DEFINE One(q) == \A i, j \in DOMAIN q : q[i] = None /\ q[j] = None => i = j
<1> USE DEF SentinelInv
<1>1. ASSUME NEW p \in Producers, UpdateTasks(p) PROVE SentinelInv'
  <2> DEFINE x == <<p, logged[p] + 1>>
  <2>1. x \in Events /\ queue' = Append(queue, x) /\ x # None
    BY <1>1, LogFacts, EventFacts
  <2>2. /\ ToSet(queue') = ToSet(queue) \cup {x}
        /\ DOMAIN queue' = 1..(Len(queue) + 1) /\ Len(queue) \in Nat
        /\ DOMAIN queue = 1..Len(queue)
        /\ \A i \in DOMAIN queue : queue'[i] = queue[i]
        /\ queue'[Len(queue) + 1] = x
    <3>1. queue \in Seq(Events \cup {None}) /\ x \in Events \cup {None}
      BY <2>1 DEF TCTypeOK
    <3> HIDE DEF x
    <3> QED
      BY <2>1, <3>1, AppendFacts
  <2> HIDE DEF x
  <2>3. One(queue')
    BY <2>1, <2>2
  <2>4. ~Finished(p) /\ ~atExit
    BY <1>1 DEF UpdateTasks
  <2> QED
    BY <1>1, <2>1, <2>2, <2>3, <2>4 DEF UpdateTasks, workervars, mainvars
<1>2. CASE TestRunning
  <2>1. UNCHANGED <<queue, logged>> /\ worker = "loop" /\ ~atExit
    BY <1>2 DEF TestRunning, PhaseInv, WorkerOver
  <2> QED
    BY <1>2, <2>1 DEF TestRunning, Leave, mainvars, Finished
<1>3. CASE Get
  <2>1. /\ queue \in Seq(Events \cup {None}) /\ queue # <<>> /\ queue' = Tail(queue)
        /\ UNCHANGED <<logged, running, watching, main, atExit, stopped, stopRaised, refused>>
        /\ worker = "get" /\ ~atExit
    BY <1>3 DEF Get, TCTypeOK, PhaseInv, WorkerOver, mainvars
  <2>2. /\ ToSet(queue) = {Head(queue)} \cup ToSet(queue')
        /\ 1 \in DOMAIN queue /\ queue[1] = Head(queue)
        /\ \A i \in DOMAIN queue' : i \in Nat \ {0} /\ i + 1 \in DOMAIN queue
                                    /\ queue'[i] = queue[i+1]
    BY <2>1, TailFacts
  <2>3. One(queue')
    BY <2>2
  <2>4. Head(queue) = None => ~watching /\ None \notin ToSet(queue')
    <3>1. ASSUME Head(queue) = None, None \in ToSet(queue') PROVE FALSE
      <4>1. PICK i \in DOMAIN queue' : queue'[i] = None
        BY <3>1 DEF ToSet
      <4> QED
        BY <2>2, <3>1, <4>1
    <3> QED
      BY <3>1, <2>2
  <2>5. worker' \in {"return", "flush", "loop"} /\ (worker' = "return" => Head(queue) = None)
    BY <1>3 DEF Get, GetSentinel, GetItem, Flush, Wait
  <2> QED
    BY <2>1, <2>2, <2>3, <2>4, <2>5 DEF PhaseInv, Finished
<1>4. CASE GetTimesOut
  <2>1. worker' \in {"flush", "loop"} /\ ~atExit /\ worker = "get"
    BY <1>4 DEF GetTimesOut, Timeout, Flush, Wait, PhaseInv, WorkerOver
  <2> QED
    BY <1>4, <2>1 DEF GetTimesOut, mainvars, Finished, PhaseInv
<1>5. ASSUME NEW r \in sending, FlushRun(r) PROVE SentinelInv'
  <2>1. worker' \in {worker, "died"} /\ ~atExit /\ worker \in {"flush", "return"}
    BY <1>5 DEF FlushRun, Leave, PhaseInv, WorkerOver
  <2> QED
    BY <1>5, <2>1 DEF FlushRun, mainvars, Finished, PhaseInv
<1>6. CASE FlushEnds
  <2>1. ~atExit /\ main # "exited"
    BY <1>6 DEF FlushEnds, PhaseInv, WorkerOver
  <2> QED
    BY <1>6, <2>1 DEF FlushEnds, Leave, Wait, mainvars, Finished
<1>7. CASE UserStops
  BY <1>7 DEF UserStops, Stop, workervars, Finished
<1>8. CASE MainEnds
  <2>1. ~atExit
    BY <1>8 DEF MainEnds, PhaseInv
  <2> QED
    BY <1>8, <2>1 DEF MainEnds, workervars, Finished
<1>9. CASE Watcher
  <2>1. /\ queue' = Append(queue, None) /\ watching /\ ~watching'
        /\ UNCHANGED <<logged, running, worker, batch, main, atExit, stopped, stopRaised, refused>>
        /\ main = "shutdown"
    BY <1>9 DEF Watcher, WatcherPuts, workervars, mainvars
  <2>2. /\ DOMAIN queue' = 1..(Len(queue) + 1) /\ Len(queue) \in Nat
        /\ DOMAIN queue = 1..Len(queue)
        /\ \A i \in DOMAIN queue : queue'[i] = queue[i]
    BY <2>1, AppendFacts DEF TCTypeOK
  <2>3. \A i \in DOMAIN queue : queue[i] # None
    BY <2>1 DEF ToSet
  <2>4. One(queue')
    BY <2>2, <2>3
  <2>5. ~atExit
    BY <2>1 DEF PhaseInv
  <2> QED
    BY <2>1, <2>4, <2>5 DEF Finished
<1>10. CASE JoinWorker
  BY <1>10 DEF JoinWorker, Joined, workervars, Finished
<1>11. CASE DrainItem
  <2>1. /\ queue \in Seq(Events \cup {None}) /\ queue # <<>> /\ queue' = Tail(queue)
        /\ UNCHANGED <<logged, running, worker, batch, watching, atExit, stopped, refused>>
        /\ main = "drain" /\ WorkerOver
    BY <1>11 DEF DrainItem, TCTypeOK, PhaseInv, workervars
  <2>2. /\ ToSet(queue) = {Head(queue)} \cup ToSet(queue')
        /\ \A i \in DOMAIN queue' : i \in Nat \ {0} /\ i + 1 \in DOMAIN queue
                                    /\ queue'[i] = queue[i+1]
    BY <2>1, TailFacts
  <2>3. One(queue')
    BY <2>2
  <2>4. CASE stopped
    BY <2>1, <2>2, <2>3, <2>4 DEF Finished
  <2>5. CASE ~stopped
    <3>1. atExit /\ (refused \/ worker = "ended")
      BY <2>1, <2>5 DEF PhaseInv, WorkerOver
    <3>2. refused \/ Head(queue) # None
      BY <2>2, <2>5, <3>1
    <3>3. refused \/ (main' = "send" /\ UNCHANGED stopRaised)
      BY <1>11, <3>2 DEF DrainItem
    <3> QED
      BY <2>1, <2>2, <2>3, <2>5, <3>1, <3>3 DEF Finished
  <2> QED
    BY <2>4, <2>5
<1>12. CASE SendItem
  <2>1. /\ UNCHANGED <<logged, queue, running, worker, batch, watching, atExit, stopped>>
        /\ main = "send" /\ WorkerOver
    BY <1>12 DEF SendItem, PhaseInv, workervars
  <2>2. refused' \/ (~refused /\ main' = "drain" /\ UNCHANGED stopRaised)
    BY <1>12 DEF SendItem, Put, StopEnds, TCTypeOK
  <2> QED
    BY <2>1, <2>2 DEF Finished
<1>13. CASE DrainEnds
  BY <1>13 DEF DrainEnds, StopEnds, workervars, Finished
<1>14. CASE ExitStops
  BY <1>14 DEF ExitStops, Stop, workervars, Finished
<1>15. CASE UNCHANGED vars
  BY <1>15 DEF vars, workervars, mainvars, Finished
<1> QED
  BY <1>1, <1>2, <1>3, <1>4, <1>5, <1>6, <1>7, <1>8, <1>9, <1>10, <1>11, <1>12, <1>13,
     <1>14, <1>15 DEF TCNext, Worker, InStop, Exited

-----------------------------------------------------------------------------
(* What a request does to what the server has received: the updates come   *)
(* after those before them, or, when it raises, perhaps not at all.        *)
LEMMA PutFacts ==
    ASSUME TCTypeOK, NEW s \in Seq(Events), NEW raises \in BOOLEAN, Put(s, raises),
           Ascending(s), Ascending(delivered), Before(ToSet(delivered), ToSet(s))
    PROVE  /\ Ascending(delivered')
           /\ ToSet(delivered) \subseteq ToSet(delivered')
           /\ ToSet(delivered') \subseteq ToSet(delivered) \cup ToSet(s)
           /\ ~raises => ToSet(delivered') = ToSet(delivered) \cup ToSet(s)
           /\ refused' = (refused \/ raises)
<1>1. /\ delivered' \in {delivered, delivered \o s} /\ refused' = (refused \/ raises)
      /\ ~raises => delivered' = delivered \o s
  BY DEF Put
<1>2. ToSet(delivered \o s) = ToSet(delivered) \cup ToSet(s)
  BY ConcatFacts DEF TCTypeOK
<1>3. Ascending(delivered \o s)
  BY AscendingConcat DEF TCTypeOK
<1> QED
  BY <1>1, <1>2, <1>3

(* What one request of a flush sends was unsent, and no more.              *)
LEMMA FlushRunFacts ==
    ASSUME TCTypeOK, PhaseInv, StreamInv, NEW r \in sending, FlushRun(r)
    PROVE  /\ Ascending(delivered')
           /\ ToSet(delivered) \subseteq ToSet(delivered')
           /\ ToSet(delivered') \subseteq
                 ToSet(delivered) \cup {e \in ToSet(batch) : RunOf[e[1]] = r}
           /\ ~refused' => ToSet(delivered') =
                 ToSet(delivered) \cup {e \in ToSet(batch) : RunOf[e[1]] = r}
           /\ refused => refused'
           /\ worker \in {"flush", "return"} /\ InHand = {}
           /\ \/ worker' = worker /\ batch' = batch /\ sending' = sending \ {r}
              \/ worker' = "died" /\ batch' = <<>> /\ sending' = {} /\ refused'
<1> DEFINE s == OfRun(batch, r)
<1>1. PICK raises \in BOOLEAN :
         /\ Put(s, raises)
         /\ IF raises THEN Leave("died")
                      ELSE sending' = sending \ {r} /\ UNCHANGED <<worker, batch>>
  BY DEF FlushRun
<1>2. s \in Seq(Events) /\ ToSet(s) = {e \in ToSet(batch) : RunOf[e[1]] = r} /\ Ascending(s)
  BY OfRunFacts DEF TCTypeOK, StreamInv
<1>3. worker \in {"flush", "return"}
  BY DEF FlushRun
<1>4. ToSet(s) \subseteq Unsent
  BY <1>2, <1>3 DEF Unsent
<1>5. Before(ToSet(delivered), ToSet(s)) /\ Ascending(delivered)
  BY <1>4 DEF StreamInv, Before
<1> HIDE DEF s
<1>6. /\ Ascending(delivered')
      /\ ToSet(delivered) \subseteq ToSet(delivered')
      /\ ToSet(delivered') \subseteq ToSet(delivered) \cup ToSet(s)
      /\ ~raises => ToSet(delivered') = ToSet(delivered) \cup ToSet(s)
      /\ refused' = (refused \/ raises)
  BY <1>1, <1>2, <1>5, PutFacts
<1>7. InHand = {}
  BY <1>3 DEF PhaseInv, WorkerOver, InHand
<1>8. \/ worker' = worker /\ batch' = batch /\ sending' = sending \ {r}
      \/ worker' = "died" /\ batch' = <<>> /\ sending' = {} /\ refused'
  BY <1>1, <1>6 DEF Leave
<1> QED
  BY <1>1, <1>2, <1>3, <1>6, <1>7, <1>8

(* The item of stop is an update that was logged after what is received.   *)
LEMMA SendItemFacts ==
    ASSUME TCTypeOK, PhaseInv, StreamInv, SendItem
    PROVE  /\ Ascending(delivered')
           /\ ToSet(delivered) \subseteq ToSet(delivered')
           /\ ToSet(delivered') \subseteq ToSet(delivered) \cup {item}
           /\ ~refused' => ToSet(delivered') = ToSet(delivered) \cup {item}
           /\ refused => refused'
           /\ item' = None /\ InHand = {item} /\ WorkerOver
<1>1. PICK raises \in BOOLEAN : Put(<<item>>, raises) /\ item' = None
  BY DEF SendItem, StopEnds
<1>2. item \in Events /\ InHand = {item} /\ WorkerOver
  BY DEF SendItem, PhaseInv, TCTypeOK, InHand
<1>3. <<item>> \in Seq(Events) /\ ToSet(<<item>>) = {item} /\ Ascending(<<item>>)
  BY <1>2 DEF ToSet, Ascending
<1>4. Before(ToSet(delivered), {item}) /\ Ascending(delivered)
  BY <1>2 DEF StreamInv, Before
<1>5. /\ Ascending(delivered')
      /\ ToSet(delivered) \subseteq ToSet(delivered')
      /\ ToSet(delivered') \subseteq ToSet(delivered) \cup {item}
      /\ ~raises => ToSet(delivered') = ToSet(delivered) \cup {item}
      /\ refused' = (refused \/ raises)
  BY <1>1, <1>3, <1>4, PutFacts
<1> QED
  BY <1>1, <1>2, <1>5

-----------------------------------------------------------------------------
(* A step keeps the order of the stages.                                   *)
LEMMA StreamStep ==
    ASSUME TCTypeOK, LogInv, PhaseInv, StreamInv, [TCNext]_vars
    PROVE  StreamInv'
<1>a. /\ queue \in Seq(Events \cup {None}) /\ batch \in Seq(Events)
      /\ Unsent \subseteq ToSet(batch)
  BY DEF TCTypeOK, Unsent
<1>1. ASSUME NEW p \in Producers, UpdateTasks(p) PROVE StreamInv'
  <2> DEFINE x == <<p, logged[p] + 1>>
  <2>1. /\ x \in Events \cup {None} /\ x # None /\ queue' = Append(queue, x)
        /\ x[1] = p /\ x[2] = logged[p] + 1
        /\ logged'[p] = logged[p] + 1 /\ logged[p] \in Nat
        /\ \A q \in Producers : q # p => logged'[q] = logged[q]
    BY <1>1, LogFacts, EventFacts
  <2> HIDE DEF x
  <2>2. /\ UNCHANGED <<delivered, batch, item, worker, sending>>
        /\ Unsent' = Unsent /\ InHand' = InHand
    BY <1>1 DEF UpdateTasks, workervars, mainvars, Unsent, InHand
  <2>3. Queued' = Queued \cup {x}
    BY <2>1, <1>a, AppendFacts DEF Queued
  <2> DEFINE All == ToSet(delivered) \cup ToSet(batch) \cup InHand \cup Queued
  <2>4. All \subseteq Events
    BY DEF TCTypeOK, ToSet, InHand, Queued
  <2>5. \A e \in All : e[2] \in Nat /\ e[1] \in Producers /\ e[2] <= logged[e[1]]
    BY <2>4, EventFacts DEF StreamInv
  <2>6. Before(All, {x})
    BY <2>1, <2>5 DEF Before
  <2>7. Ascending(queue')
    <3>1. Before(ToSet(queue) \ {None}, {x})
      BY <2>6 DEF Before, Queued
    <3> QED
      BY <2>1, <1>a, <3>1, AscendingAppend DEF StreamInv
  <2>8. \A e \in All \cup {x} : e[2] <= logged'[e[1]]
    BY <2>1, <2>5
  <2>9. /\ Before(ToSet(delivered'), Unsent' \cup InHand' \cup Queued')
        /\ Before(ToSet(batch'), Queued') /\ Before(InHand', Queued')
    BY <2>2, <2>3, <2>6 DEF StreamInv, Before
  <2> QED
    BY <2>2, <2>3, <2>7, <2>8, <2>9 DEF StreamInv
<1>2. CASE TestRunning
  <2>1. Unsent' \subseteq Unsent /\ batch' \in {batch, <<>>}
        /\ UNCHANGED <<logged, queue, delivered, item>>
    BY <1>2 DEF TestRunning, Leave, mainvars, Unsent
  <2>2. ToSet(batch') \subseteq ToSet(batch) /\ Ascending(batch')
    BY <2>1 DEF ToSet, Ascending, StreamInv
  <2> QED
    BY <2>1, <2>2 DEF StreamInv, Before, InHand, Queued
<1>3. CASE Get
  <2>1. /\ queue # <<>> /\ queue' = Tail(queue)
        /\ UNCHANGED <<logged, delivered, item>> /\ InHand' = InHand /\ worker = "get"
    BY <1>3 DEF Get, mainvars, InHand
  <2>2. ToSet(queue) = {Head(queue)} \cup ToSet(queue')
    BY <1>3, GetFacts
  <2>3. /\ Ascending(queue')
        /\ Head(queue) # None => Before({Head(queue)}, Queued')
    BY <1>a, <2>1, AscendingTail DEF StreamInv, Queued
  <2>4. Queued' \subseteq Queued /\ Unsent = ToSet(batch)
    BY <2>1, <2>2 DEF Queued, Unsent
  <2>5. CASE GetSentinel
    <3>1. batch' = batch /\ Unsent' \subseteq ToSet(batch)
      BY <2>5 DEF GetSentinel, Flush, Unsent
    <3> QED
      BY <2>1, <2>3, <2>4, <3>1 DEF StreamInv, Before
  <2>6. CASE GetItem
    <3> DEFINE h == Head(queue)
    <3>1. h # None /\ h \in Queued /\ batch' = Append(batch, h) /\ h \in Events
      BY <2>2, <2>6, <1>3, GetFacts DEF GetItem, Flush, Wait, Queued
    <3> HIDE DEF h
    <3>2. ToSet(batch') = ToSet(batch) \cup {h} /\ Unsent' \subseteq ToSet(batch')
      BY <1>a, <3>1, AppendFacts DEF Unsent
    <3>3. Ascending(batch')
      <4>1. Before(ToSet(batch) \ {None}, {h})
        BY <3>1 DEF StreamInv, Before
      <4>2. batch \in Seq(Events \cup {None})
        BY <1>a
      <4> QED
        BY <3>1, <4>1, <4>2, AscendingAppend DEF StreamInv
    <3>4. Before(ToSet(batch'), Queued')
      BY <2>3, <2>4, <3>1, <3>2 DEF StreamInv, Before, h
    <3>5. Before(ToSet(delivered'), Unsent' \cup InHand' \cup Queued')
      BY <2>1, <2>4, <3>1, <3>2 DEF StreamInv, Before
    <3>6. \A e \in ToSet(delivered') \cup ToSet(batch') \cup InHand' \cup Queued' :
             e[2] <= logged'[e[1]]
      BY <2>1, <2>4, <3>1, <3>2 DEF StreamInv
    <3>7. Before(InHand', Queued')
      BY <2>1, <2>4 DEF StreamInv, Before
    <3> QED
      BY <2>1, <2>3, <3>3, <3>4, <3>5, <3>6, <3>7 DEF StreamInv
  <2> QED
    BY <1>3, <2>5, <2>6 DEF Get
<1>4. CASE GetTimesOut
  <2>1. /\ Unsent = ToSet(batch) /\ Unsent' \subseteq ToSet(batch)
        /\ UNCHANGED <<logged, queue, batch, delivered, item>>
    BY <1>4 DEF GetTimesOut, Timeout, Flush, Wait, mainvars, Unsent
  <2> QED
    BY <2>1 DEF StreamInv, Before, InHand, Queued
<1>5. ASSUME NEW r \in sending, FlushRun(r) PROVE StreamInv'
  <2> DEFINE S == {e \in ToSet(batch) : RunOf[e[1]] = r}
  <2>1. /\ Ascending(delivered') /\ ToSet(delivered') \subseteq ToSet(delivered) \cup S
        /\ worker \in {"flush", "return"} /\ InHand = {}
        /\ \/ worker' = worker /\ batch' = batch /\ sending' = sending \ {r}
           \/ worker' = "died" /\ batch' = <<>> /\ sending' = {} /\ refused'
    BY <1>5, FlushRunFacts
  <2>2. UNCHANGED <<logged, queue, item>>
    BY <1>5 DEF FlushRun, mainvars
  <2>3. InHand' = InHand /\ Queued' = Queued
    BY <2>2 DEF InHand, Queued
  <2>4. Unsent' \subseteq Unsent /\ \A e \in Unsent' : RunOf[e[1]] # r
    BY <2>1, <2>2 DEF Unsent
  <2>9. ToSet(batch') \subseteq ToSet(batch) /\ Ascending(batch')
    BY <2>1 DEF ToSet, Ascending, StreamInv
  <2>5. S \subseteq ToSet(batch) /\ \A e \in S : RunOf[e[1]] = r
    OBVIOUS
  <2> HIDE DEF S
  <2>6. Before(ToSet(delivered'), Unsent')
    BY <2>1, <2>4, <2>5 DEF StreamInv, Before
  <2>7. Before(ToSet(delivered'), Queued')
    BY <2>1, <2>3, <2>5 DEF StreamInv, Before
  <2>8. Before(ToSet(delivered'), Unsent' \cup InHand' \cup Queued')
    BY <2>1, <2>3, <2>6, <2>7 DEF Before
  <2> QED
    BY <2>1, <2>2, <2>3, <2>5, <2>8, <2>9 DEF StreamInv, Before
<1>6. CASE FlushEnds
  <2>1. /\ UNCHANGED <<logged, queue, delivered, item>> /\ batch' = <<>>
    BY <1>6 DEF FlushEnds, Leave, Wait, mainvars
  <2>2. ToSet(batch') = {} /\ Ascending(batch') /\ Unsent' = {}
    BY <2>1 DEF ToSet, Ascending, Unsent
  <2> QED
    BY <2>1, <2>2 DEF StreamInv, Before, InHand, Queued
<1>7. CASE \/ UserStops \/ MainEnds \/ JoinWorker \/ ExitStops \/ UNCHANGED vars
  <2>1. /\ UNCHANGED <<logged, queue, batch, worker, sending, delivered, item>>
    BY <1>7 DEF UserStops, MainEnds, JoinWorker, ExitStops, vars, workervars, mainvars
  <2> QED
    BY <2>1 DEF StreamInv, InHand, Queued, Unsent
<1>8. CASE Watcher
  <2>1. /\ UNCHANGED <<logged, batch, worker, sending, delivered, item>>
        /\ queue' = Append(queue, None)
    BY <1>8 DEF Watcher, WatcherPuts, workervars, mainvars
  <2>2. Queued' = Queued /\ Ascending(queue')
    <3>1. ToSet(queue') = ToSet(queue) \cup {None}
      BY <1>a, <2>1, AppendFacts
    <3>2. Ascending(queue')
      BY <1>a, <2>1, AscendingAppend DEF StreamInv
    <3> QED
      BY <3>1, <3>2 DEF Queued
  <2> QED
    BY <2>1, <2>2 DEF StreamInv, InHand, Unsent
<1>9. CASE DrainItem
  <2>1. /\ queue # <<>> /\ queue' = Tail(queue) /\ WorkerOver
        /\ UNCHANGED <<logged, batch, worker, sending, delivered>>
        /\ item' \in {None, Head(queue)}
    BY <1>9 DEF DrainItem, StopEnds, PhaseInv, workervars
  <2>2. ToSet(queue) = {Head(queue)} \cup ToSet(queue')
    BY <1>a, <2>1, TailFacts
  <2>3. /\ Ascending(queue')
        /\ Head(queue) # None => Before({Head(queue)}, Queued')
    BY <1>a, <2>1, AscendingTail DEF StreamInv, Queued
  <2>4. /\ Queued' \subseteq Queued /\ Unsent' = {}
        /\ InHand' \subseteq Queued /\ InHand' \subseteq {Head(queue)} \ {None}
    BY <2>1, <2>2 DEF Queued, Unsent, InHand, WorkerOver
  <2> QED
    BY <2>1, <2>3, <2>4 DEF StreamInv, Before
<1>10. CASE SendItem
  <2>1. /\ Ascending(delivered')
        /\ ToSet(delivered') \subseteq ToSet(delivered) \cup {item}
        /\ item' = None /\ InHand = {item} /\ WorkerOver
    BY <1>10, SendItemFacts
  <2>2. UNCHANGED <<logged, queue, batch, worker, sending>>
    BY <1>10 DEF SendItem, workervars
  <2>3. InHand' = {} /\ Unsent' = {} /\ Queued' = Queued
    BY <2>1, <2>2 DEF InHand, Unsent, Queued, WorkerOver
  <2> QED
    BY <2>1, <2>2, <2>3 DEF StreamInv, Before
<1>11. CASE DrainEnds
  <2>1. /\ UNCHANGED <<logged, queue, batch, worker, sending, delivered>>
        /\ item' = None
    BY <1>11 DEF DrainEnds, StopEnds, workervars
  <2>2. InHand' = {} /\ Unsent' = Unsent /\ Queued' = Queued
    BY <2>1 DEF InHand, Unsent, Queued
  <2> QED
    BY <2>1, <2>2 DEF StreamInv, Before
<1> QED
  BY <1>1, <1>2, <1>3, <1>4, <1>5, <1>6, <1>7, <1>8, <1>9, <1>10, <1>11
     DEF TCNext, Worker, InStop, Exited

-----------------------------------------------------------------------------
(* A step drops no update, but the one by which the worker leaves its      *)
(* loop: what a flush has gone through was received, and what leaves a     *)
(* place is in the next one.                                               *)
LEMMA KeptStep ==
    ASSUME TCTypeOK, LogInv, PhaseInv, StreamInv, SentInv, [TCNext]_vars
    PROVE  /\ SentInv'
           /\ \/ refused' \/ Lost' \subseteq Lost
              \/ TestRunning /\ ~running /\ Lost' \subseteq Lost \cup ToSet(batch)
<1> DEFINE Kept == refused' \/ Lost' \subseteq Lost
<1>a. /\ queue \in Seq(Events \cup {None}) /\ batch \in Seq(Events)
      /\ batch' \in Seq(Events) /\ Logged \subseteq Events /\ None \notin Logged
  BY TypeStep, EventFacts DEF TCTypeOK, Logged
<1>b. logged' = logged => Logged' = Logged
  BY DEF Logged
<1> USE DEF SentInv, Lost
<1>1. ASSUME NEW p \in Producers, UpdateTasks(p) PROVE SentInv' /\ Kept
  <2> DEFINE x == <<p, logged[p] + 1>>
  <2>1. /\ x \in Events \cup {None} /\ queue' = Append(queue, x)
        /\ logged'[p] = logged[p] + 1 /\ logged[p] \in Nat
        /\ \A q \in Producers : q # p => logged'[q] = logged[q]
    BY <1>1, LogFacts
  <2>2. ASSUME NEW e \in Logged' PROVE e \in Logged \/ e = x
    <3>1. e \in Events /\ e[2] <= logged'[e[1]]
      BY <2>2 DEF Logged
    <3>2. e = <<e[1], e[2]>> /\ e[2] \in Nat /\ e[1] \in Producers
      BY <3>1, EventFacts
    <3>3. CASE e[1] # p
      BY <2>1, <3>1, <3>2, <3>3 DEF Logged
    <3>4. CASE e[1] = p
      <4>1. e[2] <= logged[p] \/ e[2] = logged[p] + 1
        BY <2>1, <3>1, <3>2, <3>4
      <4> QED
        BY <3>1, <3>2, <3>4, <4>1 DEF Logged
    <3> QED
      BY <3>3, <3>4
  <2> HIDE DEF x
  <2>3. ToSet(queue') = ToSet(queue) \cup {x}
    BY <1>a, <2>1, AppendFacts
  <2>4. UNCHANGED <<delivered, batch, item, worker, sending, refused>>
    BY <1>1 DEF UpdateTasks, workervars, mainvars
  <2> QED
    BY <2>2, <2>3, <2>4
<1>2. ASSUME TestRunning
      PROVE  /\ SentInv'
             /\ Kept \/ (~running /\ Lost' \subseteq Lost \cup ToSet(batch))
  <2>1. /\ UNCHANGED <<logged, queue, delivered, item, refused>>
        /\ worker' \in {"get", "ended"} /\ (running => batch' = batch)
    BY <1>2 DEF TestRunning, Leave, mainvars
  <2> QED
    BY <1>b, <2>1
<1>3. CASE Get
  <2>1. ToSet(queue) = {Head(queue)} \cup ToSet(queue')
    BY <1>3, GetFacts
  <2>2. UNCHANGED <<logged, delivered, item, refused>>
    BY <1>3 DEF Get, mainvars
  <2>3. worker' \in {"flush", "return"} => sending' = Runs(batch')
    BY <1>3 DEF Get, GetSentinel, GetItem, Flush, Wait
  <2>4. SentInv'
    BY <1>a, <2>3, RunsFacts
  <2>5. CASE Head(queue) = None
    <3>1. batch' = batch
      BY <1>3, <2>5 DEF Get, GetSentinel, GetItem, Flush
    <3> QED
      BY <1>a, <1>b, <2>1, <2>2, <2>4, <2>5, <3>1
  <2>6. CASE Head(queue) # None
    <3>1. batch' = Append(batch, Head(queue))
      BY <1>3, <2>6 DEF Get, GetSentinel, GetItem, Flush, Wait
    <3>2. ToSet(batch') = ToSet(batch) \cup {Head(queue)}
      BY <1>3, <2>6, <3>1, GetFacts
    <3> QED
      BY <1>b, <2>1, <2>2, <2>4, <3>2
  <2> QED
    BY <2>5, <2>6
<1>4. CASE GetTimesOut
  <2>1. UNCHANGED <<logged, queue, batch, delivered, item, refused>>
    BY <1>4 DEF GetTimesOut, Timeout, Flush, Wait, mainvars
  <2>2. worker' \in {"flush", "return"} => sending' = Runs(batch')
    BY <1>4 DEF GetTimesOut, Timeout, Flush, Wait
  <2> QED
    BY <1>a, <1>b, <2>1, <2>2, RunsFacts
<1>5. ASSUME NEW r \in sending, FlushRun(r) PROVE SentInv' /\ Kept
  <2>1. UNCHANGED <<logged, queue, item>>
    BY <1>5 DEF FlushRun, mainvars
  <2>2. /\ ToSet(delivered) \subseteq ToSet(delivered')
        /\ ~refused' => ToSet(delivered') =
              ToSet(delivered) \cup {e \in ToSet(batch) : RunOf[e[1]] = r}
        /\ refused => refused'
        /\ worker \in {"flush", "return"}
        /\ refused' \/ (batch' = batch /\ sending' = sending \ {r})
    BY <1>5, FlushRunFacts
  <2> QED
    BY <1>b, <2>1, <2>2
<1>6. CASE FlushEnds
  <2>1. /\ UNCHANGED <<logged, queue, delivered, item, refused>> /\ batch' = <<>>
        /\ worker \in {"flush", "return"} /\ sending = {} /\ worker' \in {"ended", "loop"}
    BY <1>6 DEF FlushEnds, Leave, Wait, mainvars
  <2>2. ToSet(batch') = {}
    BY <2>1 DEF ToSet
  <2>3. ~refused => ToSet(batch) \subseteq ToSet(delivered)
    BY <2>1
  <2> QED
    BY <1>b, <2>1, <2>2, <2>3
<1>7. CASE \/ UserStops \/ MainEnds \/ JoinWorker \/ ExitStops \/ UNCHANGED vars
  <2>1. UNCHANGED <<logged, queue, batch, worker, sending, delivered, item, refused>>
    BY <1>7 DEF UserStops, MainEnds, JoinWorker, ExitStops, vars, workervars, mainvars
  <2> QED
    BY <1>b, <2>1
<1>8. CASE Watcher
  <2>1. /\ UNCHANGED <<logged, batch, worker, sending, delivered, item, refused>>
        /\ queue' = Append(queue, None)
    BY <1>8 DEF Watcher, WatcherPuts, workervars, mainvars
  <2>2. ToSet(queue') = ToSet(queue) \cup {None}
    BY <1>a, <2>1, AppendFacts
  <2> QED
    BY <1>b, <2>1, <2>2
<1>9. CASE DrainItem
  <2>1. /\ queue # <<>> /\ queue' = Tail(queue) /\ item = None
        /\ UNCHANGED <<logged, batch, worker, sending, delivered, refused>>
        /\ item' = Head(queue)
    BY <1>9 DEF DrainItem, StopEnds, PhaseInv, workervars
  <2>2. ToSet(queue) = {Head(queue)} \cup ToSet(queue')
    BY <1>a, <2>1, TailFacts
  <2> QED
    BY <1>a, <1>b, <2>1, <2>2
<1>10. CASE SendItem
  <2>1. /\ ToSet(delivered) \subseteq ToSet(delivered')
        /\ ~refused' => ToSet(delivered') = ToSet(delivered) \cup {item}
        /\ refused => refused'
        /\ item' = None
    BY <1>10, SendItemFacts
  <2>2. UNCHANGED <<logged, queue, batch, worker, sending>>
    BY <1>10 DEF SendItem, workervars
  <2> QED
    BY <1>b, <2>1, <2>2
<1>11. CASE DrainEnds
  <2>1. /\ UNCHANGED <<logged, queue, batch, worker, sending, delivered, refused>>
        /\ item' = None /\ item = None
    BY <1>11 DEF DrainEnds, StopEnds, PhaseInv, workervars
  <2> QED
    BY <1>b, <2>1
<1> QED
  BY <1>1, <1>2, <1>3, <1>4, <1>5, <1>6, <1>7, <1>8, <1>9, <1>10, <1>11
     DEF TCNext, Worker, InStop, Exited

(* A failed request and the end of the worker are not undone, nor a stop.  *)
LEMMA StaysStep ==
    ASSUME [TCNext]_vars
    PROVE  /\ refused => refused'
           /\ stopped => stopped'
           /\ worker = "ended" => worker' = "ended"
<1>1. ASSUME NEW p \in Producers, UpdateTasks(p)
      PROVE  UNCHANGED <<refused, stopped, worker>>
  BY <1>1 DEF UpdateTasks, workervars, mainvars
<1>2. ASSUME TestRunning \/ Get \/ GetTimesOut \/ FlushEnds
      PROVE  worker # "ended" /\ UNCHANGED <<refused, stopped>>
  BY <1>2 DEF TestRunning, Get, GetTimesOut, FlushEnds, mainvars
<1>3. ASSUME NEW r \in sending, FlushRun(r)
      PROVE  worker # "ended" /\ (refused => refused') /\ UNCHANGED stopped
  BY <1>3 DEF FlushRun, Put, mainvars
<1>4. ASSUME UserStops
      PROVE  stopped' /\ UNCHANGED <<refused, worker>>
  BY <1>4 DEF UserStops, workervars
<1>5. ASSUME SendItem
      PROVE  (refused => refused') /\ UNCHANGED <<stopped, worker>>
  BY <1>5 DEF SendItem, Put, workervars
<1>6. ASSUME MainEnds \/ Watcher \/ JoinWorker \/ DrainItem \/ DrainEnds \/ ExitStops
      PROVE  UNCHANGED <<refused, stopped, worker>>
  BY <1>6 DEF MainEnds, Watcher, JoinWorker, DrainItem, DrainEnds, ExitStops, workervars, mainvars
<1>7. ASSUME UNCHANGED vars
      PROVE  UNCHANGED <<refused, stopped, worker>>
  BY <1>7 DEF vars, workervars, mainvars
<1> QED
  BY <1>1, <1>2, <1>3, <1>4, <1>5, <1>6, <1>7 DEF TCNext, Worker, InStop, Exited

(* The worker goes back to its loop with a batch that is not full.         *)
LEMMA BatchStep ==
    ASSUME TCTypeOK, PhaseInv, BatchInv, [TCNext]_vars
    PROVE  BatchInv'
<1> USE DEF BatchInv
<1>1. CASE TestRunning
  BY <1>1 DEF TestRunning, Leave
<1>2. CASE Get
  BY <1>2 DEF Get, GetSentinel, GetItem, Flush, Wait
<1>3. CASE GetTimesOut
  BY <1>3 DEF GetTimesOut, Timeout, Flush, Wait
<1>4. ASSUME NEW r \in sending, FlushRun(r) PROVE BatchInv'
  BY <1>4 DEF FlushRun, Leave
<1>5. CASE FlushEnds
  <2>1. Len(<<>>) = 0 /\ MaxBatch \in Nat \ {0}
    BY EventFacts
  <2> QED
    BY <1>5, <2>1 DEF FlushEnds, Leave, Wait
<1>6. ASSUME UNCHANGED workervars PROVE BatchInv'
  BY <1>6 DEF workervars
<1>7. ASSUME \/ \E p \in Producers : UpdateTasks(p)
             \/ UserStops \/ MainEnds \/ Watcher \/ InStop
             \/ UNCHANGED vars
      PROVE  UNCHANGED workervars
  BY <1>7 DEF UpdateTasks, UserStops, MainEnds, Watcher, InStop, JoinWorker, DrainItem,
              SendItem, DrainEnds, ExitStops, workervars, vars
<1> QED
  BY <1>1, <1>2, <1>3, <1>4, <1>5, <1>6, <1>7 DEF TCNext, Worker, Exited

(* A sequence has no more elements than places.                            *)
LEMMA ToSetCardinality ==
    ASSUME NEW S, NEW s \in Seq(S)
    PROVE  IsFiniteSet(ToSet(s)) /\ Cardinality(ToSet(s)) <= Len(s)
<1>1. Len(s) \in Nat /\ DOMAIN s = 1..Len(s) /\ s \in [1..Len(s) -> S]
  BY LenProperties
<1>2. s \in Surjection(1..Len(s), ToSet(s))
  BY <1>1 DEF Surjection, ToSet
<1>3. IsFiniteSet(1..Len(s)) /\ Cardinality(1..Len(s)) = Len(s)
  BY <1>1, FS_Interval
<1> QED
  BY <1>2, <1>3, FS_Surjection

(* What is lost is in the batch of the worker when it leaves its loop,     *)
(* which it does of itself only after a stop by the user: the stop of      *)
(* atexit waits for the worker to be over.                                 *)
LEMMA LostStep ==
    ASSUME TCTypeOK, LogInv, PhaseInv, StreamInv, SentInv, SentinelInv, BatchInv, LostInv,
           [TCNext]_vars
    PROVE  LostInv'
<1>1. SUFFICES ASSUME ~refused'
               PROVE  /\ Lost' # {} => stopped' /\ worker' = "ended"
                      /\ IsFiniteSet(Lost') /\ Cardinality(Lost') < MaxBatch
  BY DEF LostInv
<1>2. /\ Lost # {} => stopped /\ worker = "ended"
      /\ IsFiniteSet(Lost) /\ Cardinality(Lost) < MaxBatch
  BY <1>1, StaysStep DEF LostInv
<1>3. MaxBatch \in Nat
  BY EventFacts
<1>4. CASE Lost' \subseteq Lost
  <2>1. IsFiniteSet(Lost') /\ Cardinality(Lost') <= Cardinality(Lost)
    BY <1>2, <1>4, FS_Subset
  <2>2. Cardinality(Lost) \in Nat /\ Cardinality(Lost') \in Nat
    BY <1>2, <2>1, FS_CardinalityType
  <2>3. Lost' # {} => stopped' /\ worker' = "ended"
    BY <1>2, <1>4, StaysStep
  <2> QED
    BY <1>2, <1>3, <2>1, <2>2, <2>3
<1>5. CASE TestRunning /\ ~running /\ Lost' \subseteq Lost \cup ToSet(batch)
  <2>1. worker = "loop" /\ worker' = "ended" /\ stopped' = stopped
    BY <1>5 DEF TestRunning, Leave, mainvars
  <2>2. stopped
    BY <1>5, <2>1 DEF SentinelInv, PhaseInv, WorkerOver
  <2>3. Lost' \subseteq ToSet(batch)
    BY <1>2, <1>5, <2>1
  <2>4. /\ IsFiniteSet(ToSet(batch)) /\ Cardinality(ToSet(batch)) <= Len(batch)
        /\ Len(batch) \in Nat /\ Len(batch) < MaxBatch
    BY <2>1, ToSetCardinality, LenProperties DEF TCTypeOK, BatchInv
  <2>5. IsFiniteSet(Lost') /\ Cardinality(Lost') <= Cardinality(ToSet(batch))
    BY <2>3, <2>4, FS_Subset
  <2>6. Cardinality(Lost') \in Nat /\ Cardinality(ToSet(batch)) \in Nat
    BY <2>4, <2>5, FS_CardinalityType
  <2> QED
    BY <1>3, <2>1, <2>2, <2>4, <2>5, <2>6
<1> QED
  BY <1>1, <1>4, <1>5, KeptStep

-----------------------------------------------------------------------------
LEMMA TrackerInit ==
    ASSUME TCInit
    PROVE  TrackerInv
<1> USE DEF TCInit
<1>1. ToSet(queue) = {} /\ ToSet(batch) = {} /\ ToSet(delivered) = {} /\ <<>> \in Seq(Events)
  BY DEF ToSet
<1>2. TCTypeOK /\ LogInv
  <2>1. TCTypeOK
    BY <1>1, EmptySeq DEF TCTypeOK
  <2>2. LogInv
    BY EventFacts DEF LogInv
  <2> QED
    BY <2>1, <2>2
<1>3. PhaseInv /\ SentInv
  BY DEF PhaseInv, SentInv
<1>4. StreamInv
  BY <1>1 DEF StreamInv, Ascending, Before, InHand, Queued, Unsent
<1>5. Logged = {}
  <2>1. \A e \in Events : e[2] # 0 /\ e[2] \in Nat /\ e[1] \in Producers
    BY EventFacts DEF Events
  <2> QED
    BY <2>1 DEF Logged
<1>6. LostInv /\ BatchInv
  <2>1. Lost = {} /\ IsFiniteSet({}) /\ Cardinality({}) = 0 /\ Len(<<>>) = 0
    BY <1>5, FS_EmptySet DEF Lost
  <2>2. MaxBatch \in Nat \ {0}
    BY EventFacts
  <2> QED
    BY <2>1, <2>2 DEF LostInv, BatchInv
<1>7. SentinelInv
  BY <1>1 DEF SentinelInv
<1> QED
  BY <1>2, <1>3, <1>4, <1>6, <1>7 DEF TrackerInv

LEMMA TrackerStep ==
    ASSUME TrackerInv, [TCNext]_vars
    PROVE  TrackerInv'
BY TypeStep, PhaseStep, StreamStep, KeptStep, SentinelStep, BatchStep, LostStep DEF TrackerInv

(* The tracker client stays in its types, and in the order of its stages.  *)
THEOREM TrackerInvariant == TCSpec => [](TCTypeOK /\ TrackerInv)
<1>1. TrackerInv => TCTypeOK
  BY DEF TrackerInv
<1> QED
  BY <1>1, TrackerInit, TrackerStep, PTL DEF TCSpec

(* The server receives the updates of a thread in the order it logged      *)
(* them, each at most once: through the queue, the worker's batch, one     *)
(* request per run and what stop sends, with or without failing requests.  *)
THEOREM TrackerInOrder == TCSpec => []InOrder
<1>1. ASSUME TrackerInv PROVE InOrder
  <2>1. \A i \in DOMAIN delivered : delivered[i] # None
    BY <1>1, EventFacts DEF TrackerInv, TCTypeOK
  <2> QED
    BY <1>1, <2>1 DEF TrackerInv, StreamInv, Ascending, InOrder
<1> QED
  BY <1>1, TrackerInvariant, PTL

(* While no request fails, an update that is logged is received, queued,   *)
(* in the worker's batch or with stop, except after a stop by the user,    *)
(* which costs less than a batch: what the worker held when it left.       *)
THEOREM StopLosesLessThanABatch == TCSpec => []OnlyStopLoses
<1>1. TrackerInv => OnlyStopLoses
  BY DEF TrackerInv, LostInv, OnlyStopLoses
<1> QED
  BY <1>1, TrackerInvariant, PTL

(* A program that leaves stop to atexit has everything received when it    *)
(* exits, and no exception, unless a request failed: the sentinel of the   *)
(* watcher is met by the worker and never by stop.                         *)
THEOREM ExitLosesNothing == TCSpec => []ExitDelivers
<1>1. ASSUME TrackerInv PROVE ExitDelivers
  <2>1. SUFFICES ASSUME main = "exited", ~refused, ~stopped
                 PROVE  Logged \subseteq ToSet(delivered) /\ ~stopRaised
    BY DEF ExitDelivers
  <2>2. atExit /\ worker = "ended" /\ item = None
    BY <1>1, <2>1 DEF TrackerInv, PhaseInv, WorkerOver
  <2>3. batch = <<>> /\ queue = <<>> /\ ~stopRaised
    BY <1>1, <2>1, <2>2 DEF TrackerInv, SentinelInv
  <2>4. ToSet(batch) = {} /\ ToSet(queue) = {}
    BY <2>3 DEF ToSet
  <2>5. None \notin Logged
    BY EventFacts DEF Logged
  <2> QED
    BY <1>1, <2>1, <2>2, <2>3, <2>4, <2>5 DEF TrackerInv, LostInv, Lost
<1> QED
  BY <1>1, TrackerInvariant, PTL

=============================================================================

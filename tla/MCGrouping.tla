----------------------------- MODULE MCGrouping -----------------------------
(***************************************************************************)
(* Grouping on every graph whose nodes, in topological order, have one of  *)
(* the lists of roles, with at most two dependencies each and a dependent  *)
(* of every node but the last and the Collect nodes.                       *)
(***************************************************************************)
EXTENDS Grouping

CONSTANTS RoleLists, Order

OneBlock   == <<"input", "expand", "standard", "collect", "standard">>
InSequence == <<"expand", "standard", "collect", "expand", "standard", "collect">>
Abreast    == <<"expand", "expand", "standard", "standard", "collect", "collect">>
LargeBlock == <<"expand", "standard", "standard", "standard", "collect">>
AllLists   == {OneBlock, InSequence, Abreast, LargeBlock}
Sequence   == {InSequence}

(* A Parallelizable node has at most one parameter here, and is not        *)
(* directly below another one: what is nested is not supported.            *)
MaxDeps == [input |-> 0, expand |-> 1, standard |-> 2, collect |-> 2]
Before(i, j) == IF Order = "ascending" THEN i < j ELSE j < i
Parameters(n, roles) ==
    {s \in SeqOf(1 .. n - 1, MaxDeps[roles[n]]) :
        /\ Len(s) = 2 => Before(s[1], s[2])
        /\ roles[n] = "expand" => \A d \in ToSet(s) : roles[d] # "expand"}
NodeChoices(n, roles) ==
    IF roles[n] # "collect" THEN [deps : Parameters(n, roles), collects : {None}]
    ELSE UNION {[deps : {s}, collects : ToSet(s)] : s \in Parameters(n, roles)}
Graphs(roles) ==
    LET G[k \in Nat] == IF k = 0 THEN {<<>>}
                        ELSE {Append(g, c) : g \in G[k - 1], c \in NodeChoices(k, roles)}
        n == Len(roles)
    IN  {g \in G[n] : LET used == UNION {ToSet(g[m].deps) : m \in 1 .. n} IN
                      \A m \in 1 .. n - 1 : m \in used \/ roles[m] = "collect"}

MCNodes == 1 .. 6

(* Node 1, if it is an input, is optional for all nodes or for none. *)
Optionals(roles) == IF roles[1] = "input" THEN {{}, MCNodes \X {1}} ELSE {{}}

MCDags ==
    UNION {{[deps     |-> [n \in MCNodes |-> IF n \in DOMAIN g THEN g[n].deps ELSE <<>>],
             role     |-> [n \in MCNodes |-> IF n \in DOMAIN g THEN roles[n] ELSE "standard"],
             collects |-> [n \in MCNodes |-> IF n \in DOMAIN g THEN g[n].collects ELSE None],
             optional |-> optional] : g \in Graphs(roles), optional \in Optionals(roles)}
             : roles \in RoleLists}

(* The last node is asked for, alone or with one before it; and at most    *)
(* one standard node is overridden.                                        *)
MCRequests(d) ==
    LET inputs  == {n \in MCNodes : d.role[n] = "input"}
        last    == Max({n \in MCNodes : d.deps[n] # <<>>})
        another == IF d.role[5] = "collect" THEN 5 ELSE 3
    IN  {[inputs |-> i, outputs |-> {last} \cup o, overrides |-> v] :
            i \in {{}, inputs}, o \in {{}, {another}},
            v \in {{}} \cup {{n} : n \in {m \in 1 .. 3 : d.role[m] = "standard"}}}
=============================================================================

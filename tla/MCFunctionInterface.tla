------------------------ MODULE MCFunctionInterface ------------------------
(***************************************************************************)
(* Programs of two or three functions. The callee f has two arguments (its *)
(* nodes 1 and 2), a global integer (3), and may return an object it made  *)
(* (4). As the points-to analysis does, every node of a caller has the     *)
(* accesses of the nodes it stands for, and two nodes of f stand for the   *)
(* same node of a caller only if nobody writes it.                         *)
(***************************************************************************)
EXTENDS FunctionInterface

\* The accesses to an object of an argument, from offset 0 or 1.
Accesses == {0 :> {"i8"}, 0 :> {"i8"} @@ 1 :> {"i16"}, 0 :> {"i16"} @@ 1 :> {"i8"}}
Shifted(types, by) == [o \in {p + by : p \in DOMAIN types} |-> types[o - by]]
Joined(t1, t2) ==
    [o \in DOMAIN t1 \cup DOMAIN t2 |->
        (IF o \in DOMAIN t1 THEN t1[o] ELSE {})
            \cup (IF o \in DOMAIN t2 THEN t2[o] ELSE {})]

MkNode(types, flags, scalar) ==
    [types |-> types, flags |-> flags, scalar |-> scalar, links |-> {}, size |-> 4]
GlobalNode(flags) == MkNode(0 :> {"i16"}, flags, TRUE)
HeapNode(flags) == MkNode(0 :> {"i8"}, flags \cup {"heap"}, FALSE)

\* What an argument is used for, and the accesses of a caller besides those
\* of the callee: an agreeing one, one of another width, one of another size.
Uses == {{"read"}, {"mod"}, {"read", "mod"}}
Own == {<<>>, 0 :> {"i5"}, 0 :> {"i16"}}

Graph(nodes, ret) == [node |-> nodes, roots |-> {1, 2, 3}, ret |-> ret]

CalleeGraph(t1, t2, use, gl, ret) ==
    Graph(1 :> MkNode(t1, use, FALSE) @@ 2 :> MkNode(t2, {"read"}, FALSE)
            @@ 3 :> GlobalNode(gl) @@ 4 :> HeapNode({"mod"}),
          IF ret THEN {4} ELSE {})

Swap == 1 :> <<2, 0>> @@ 2 :> <<1, 0>> @@ 3 :> <<3, 0>> @@ 4 :> <<4, 0>>
Same == 1 :> <<1, 0>> @@ 2 :> <<2, 0>> @@ 3 :> <<3, 0>> @@ 4 :> <<4, 0>>
Alias == 1 :> <<1, 0>> @@ 2 :> <<1, 0>> @@ 3 :> <<3, 0>> @@ 4 :> <<4, 0>>
Field == 1 :> <<1, 1>> @@ 2 :> <<2, 0>> @@ 3 :> <<3, 0>> @@ 4 :> <<4, 0>>

\* A graph of a caller: node m joins the accesses of what is mapped to it.
CallerGraph(callee, images, own) ==
    LET Join(m) ==
            FoldLeft(LAMBDA t, i :
                FoldLeft(LAMBDA u, n :
                    IF images[i][n][1] = m
                    THEN Joined(u, Shifted(callee.node[n].types, images[i][n][2]))
                    ELSE u,
                t, <<1, 2>>),
            IF m = 1 THEN own ELSE <<>>, [i \in DOMAIN images |-> i])
        Flags(m) == UNION {callee.node[n].flags :
                n \in {n \in 1..2 : \E i \in DOMAIN images : images[i][n][1] = m}}
    IN  Graph(1 :> MkNode(Join(1), Flags(1) \cup {"mod"}, FALSE)
                @@ 2 :> MkNode(Join(2), Flags(2) \cup {"mod"}, FALSE)
                @@ 3 :> callee.node[3] @@ 4 :> callee.node[4],
              {})

Call(caller, callee, image) == [caller |-> caller, callee |-> callee, image |-> image]

\* A function accesses the fields of the nodes ns one after the other.
AllFields(graph, ns) ==
    FlattenSeq([k \in DOMAIN ns |->
        LET os == InOrder(DOMAIN graph.node[ns[k]].types)
        IN  [j \in DOMAIN os |-> [op |-> "access", cell |-> <<ns[k], os[j]>>]]])
CallItem(c) == [op |-> "call", call |-> c]

\* main accesses the nodes ns, and calls f twice.
Twice(graph, ns, i1, i2, own, mem, aliases) ==
    LET main == CallerGraph(graph, <<i1, i2>>, own)
    IN  [funcs |-> {"main", "f"}, graph |-> [main |-> main, f |-> graph],
         calls |-> <<Call("main", "f", i1), Call("main", "f", i2)>>,
         trusted |-> {}, mem |-> mem, aliases |-> aliases,
         globals |-> [main |-> {3}, f |-> {3}],
         body |-> [main |-> AllFields(main, ns) \o <<CallItem(1), CallItem(2)>>,
                   f |-> AllFields(graph, <<1, 2, 3, 4>>)]]

\* main calls g, and g calls f.
Chain(graph, i, own, mem, aliases) ==
    LET g == CallerGraph(graph, <<i>>, own)
        main == CallerGraph(g, <<Same>>, <<>>)
    IN  [funcs |-> {"main", "g", "f"},
         graph |-> [main |-> main, g |-> g, f |-> graph],
         calls |-> <<Call("g", "f", i), Call("main", "g", Same)>>,
         trusted |-> {}, mem |-> mem, aliases |-> aliases,
         globals |-> [main |-> {3}, g |-> {3}, f |-> {3}],
         body |-> [main |-> AllFields(main, <<1, 2, 3>>) \o <<CallItem(2)>>,
                   g |-> AllFields(g, <<2>>) \o <<CallItem(1)>>,
                   f |-> AllFields(graph, <<1, 2, 4>>)]]

CalleeGraphs(gls) ==
    {CalleeGraph(t1, t2, use, gl, ret) :
        t1 \in Accesses, t2 \in {0 :> {"i8"}, 0 :> {"i8"} @@ 1 :> {"i16"}},
        use \in Uses, gl \in gls, ret \in BOOLEAN}
ReadsOnly(graph) == "mod" \notin graph.node[1].flags

Regions == {<<TRUE, TRUE>>, <<TRUE, FALSE>>}
Arrays == {<<FALSE, TRUE>>, <<FALSE, FALSE>>}

\* Both precisions. For SINGLETON_MEM a caller that accesses a field with
\* another size does not track the region that its callee tracks (README).
MCPrograms ==
    {Twice(g, <<1, 2, 3>>, Same, i2, own, m[1], m[2]) :
        g \in CalleeGraphs({{"read", "mod"}}), i2 \in {Same, Swap, Field},
        own \in Own, m \in Regions}
    \cup {Twice(g, <<>>, Same, Alias, own, m[1], m[2]) :
        g \in {g \in CalleeGraphs({{"read"}}) : ReadsOnly(g)}, own \in Own, m \in Regions}
    \cup {Chain(g, Same, own, m[1], m[2]) :
        g \in CalleeGraphs({{"read"}, {"mod"}}), own \in Own, m \in Regions}
    \cup {Twice(g, <<1, 2, 3>>, Same, Same, <<>>, m[1], m[2]) :
        g \in CalleeGraphs({{"read"}, {"mod"}}), m \in Arrays}
=============================================================================

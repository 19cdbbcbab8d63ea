--------------------------- MODULE HeapAbstraction ---------------------------
(***************************************************************************)
(* The memory regions of a program (SeaDsaHeapAbstraction.cc and           *)
(* SeaDsaToRegion.cc): which fields of which nodes of the points-to graphs *)
(* become regions, what type they have, and which regions every function   *)
(* and every call reads, modifies and creates. One action per function for *)
(* each of the two passes of initialize.                                   *)
(*                                                                         *)
(* The points-to analysis, sea-dsa, is external. A program p is            *)
(*   funcs    its functions with a body, "main" among them: the others     *)
(*            have no graph and no regions, calls to them no check         *)
(*   graph    for each: [node, roots, ret], where node[n] is               *)
(*            [size, types, links, flags, scalar]: types maps the offsets  *)
(*            accessed to sets of types; flags are among read, mod, heap,  *)
(*            collapsed, cast and external; scalar: its only pointer is an *)
(*            integer or boolean global, accessed as such. roots are the   *)
(*            nodes of arguments and globals                               *)
(*   calls    a sequence of [caller, callee, image]; image maps the nodes  *)
(*            of the callee to <<node, offset>> of the caller              *)
(*   trusted  the flags among cast and external that are disregarded       *)
(*   body, globals, mem and aliases: see FunctionInterface                 *)
(***************************************************************************)
EXTENDS Collections, SequencesExt

CONSTANT Programs

VARIABLES
    prog,
    pc,         \* "compute", "check", and what FunctionInterface adds
    todo,       \* the functions the current pass has not looked at
    nodeIds,    \* m_node_ids: <<function, node>> |-> id
    maxId,      \* m_max_id
    singletons, \* m_rev_node_ids, as a set of ids
    fun,        \* m_func_accessed, _mods and _news
    call,       \* m_callsite_accessed, _mods and _news
    given       \* the regions made so far, with their cells: ghost

heap == <<prog, nodeIds, maxId, singletons, fun, call, given>>

Lists == {"accessed", "mods", "news"}
Calls == DOMAIN prog.calls

-----------------------------------------------------------------------------
(* Points-to graphs *)

NodeOf(f, n) == prog.graph[f].node[n]
Nodes(f) == DOMAIN prog.graph[f].node
IsAccessed(f, n) == NodeOf(f, n).flags \cap {"read", "mod"} # {}

\* markReachableNodes: no node is farther than there are nodes.
Closure(f, S) ==
    LET within[k \in 0..Cardinality(Nodes(f))] ==
            IF k = 0 THEN S
            ELSE within[k - 1] \cup UNION {NodeOf(f, n).links : n \in within[k - 1]}
    IN  within[Cardinality(Nodes(f))]

\* argReachableNodes: the second are reachable from the returned value only.
Reach(f) == Closure(f, prog.graph[f].roots)
RetReach(f) == Closure(f, prog.graph[f].ret) \ Reach(f)

\* A cell is <<function, node, offset>>. extractFields: those of a node.
FieldsOf(f, n) ==
    LET types == NodeOf(f, n).types
    IN  IF "collapsed" \in NodeOf(f, n).flags \/ DOMAIN types = {} THEN <<0>>
        ELSE InOrder(DOMAIN types)

CellsOf(f, S) ==
    LET ns == InOrder(S)
        Of(n) == [j \in DOMAIN FieldsOf(f, n) |-> <<f, n, FieldsOf(f, n)[j]>>]
    IN  FlattenSeq([k \in DOMAIN ns |-> Of(ns[k])])

Matters(f, S) ==
    LET ret == RetReach(f) IN {n \in S : n \in ret \/ IsAccessed(f, n)}

\* The cells the callers of f can tell apart, in the order of the code.
InterfaceCells(f) == CellsOf(f, Matters(f, Reach(f) \cup RetReach(f)))

\* Those that computeEquivClasses looks at.
AllCells(f) == CellsOf(f, Matters(f, Nodes(f)))

\* The simulation of the callee by the caller.
Image(c, cell) ==
    LET caller == prog.calls[c].caller
        to == prog.calls[c].image[cell[2]]
    IN  <<caller, to[1], IF "collapsed" \in NodeOf(caller, to[1]).flags THEN 0
                         ELSE cell[3] + to[2]>>

-----------------------------------------------------------------------------
(* SeaDsaToRegion *)

Kind(t) == CASE t \in {"i5", "i8", "i16"} -> "int"
             [] t = "i1" -> "bool" [] t = "ptr" -> "ptr"
Width(t) == CASE t = "i1" -> 1 [] t = "i5" -> 5 [] t = "i8" -> 8
              [] t = "i16" -> 16 [] t = "ptr" -> 32
StorageSize(t) == IF t \in {"i16", "ptr"} THEN 2 ELSE 1

Untyped == [type |-> "unknown", width |-> 0]

\* sizeOf: 0 if the types have different sizes.
SizeOf(types) ==
    IF \E s \in 1..2 : \A t \in types : StorageSize(t) = s
    THEN StorageSize(CHOOSE t \in types : TRUE) ELSE 0

\* Mutant of Intersect: fields that end at the same place are missed.
IntersectStart(o1, s1, o2, s2) == o1 = o2

Intersect(o1, s1, o2, s2) ==
    o1 \in o2..(o2 + s2 - 1) \/ o2 \in o1..(o1 + s1 - 1)

\* isOverlappingCell: the search ends at a field without a definite size.
IsOverlapping(node, o) ==
    LET Size(o2) == SizeOf(node.types[o2])
        others == DOMAIN node.types \ {o}
    IN  \/ Size(o) = 0
        \/ \E o2 \in others :
               /\ \A o3 \in others : o3 <= o2 => Size(o3) # 0
               /\ Intersect(o, Size(o), o2, Size(o2))

IsDisjoint(node, o) == ~IsOverlapping(node, o) /\ o < node.size

RegionInfo(cell) ==
    LET node == NodeOf(cell[1], cell[2])
        o == cell[3]
        types == node.types[o]
        Only(kind) == \A t \in types : Kind(t) = kind
    IN  IF \/ node.flags \cap {"read", "mod"} = {}
           \/ "collapsed" \in node.flags
           \/ (node.flags \cap {"cast", "external"}) \ prog.trusted # {}
           \/ o \notin DOMAIN node.types
           \/ ~IsDisjoint(node, o)
        THEN Untyped
        ELSE CASE Only("int") ->
                    [type |-> "int",
                     width |-> Min({Width(t) : t \in types})]
               [] Only("bool") -> [type |-> "bool", width |-> 1]
               [] Only("ptr") -> [type |-> "ptr", width |-> 32]
               [] OTHER -> Untyped

IsUnknown(r) == r.type = "unknown"
HasCompatibleType(r1, r2) ==
    IsUnknown(r1) \/ IsUnknown(r2) \/ (r1.type = r2.type /\ r1.width = r2.width)

-----------------------------------------------------------------------------
(* mkRegion *)

Ids == [ids |-> nodeIds, max |-> maxId, single |-> singletons]

\* Mutant of IdsTaken: every node takes one id.
IdsTakenOne(node) == 1

\* One for every byte of the object.
IdsTaken(node) == IF node.size = 0 THEN 1 ELSE node.size

(***************************************************************************)
(* What is taken from the points-to analysis: accesses lie within their    *)
(* node, and what is accessed in a scalar is no pointer (a function that   *)
(* modifies it would declare a region, and its calls pass a scalar: the    *)
(* translation would end with an error). The simulation of a callee maps   *)
(* every node that can be reached from its interface, and the fields of a  *)
(* node into the node of the caller that it stands for. No other node      *)
(* stands for that of a node that the callee modifies: otherwise sea-dsa   *)
(* would have made them one.                                               *)
(***************************************************************************)
HasCell(graph, n, o) ==
    n \in DOMAIN graph.node /\ o \in {0} \cup 0..(graph.node[n].size - 1)

GraphFits(graph) ==
    /\ IsFiniteSet(DOMAIN graph.node) /\ DOMAIN graph.node \subseteq Nat
    /\ graph.roots \cup graph.ret \subseteq DOMAIN graph.node
    /\ \A n \in DOMAIN graph.node :
           /\ graph.node[n].size \in Nat
           /\ graph.node[n].links \subseteq DOMAIN graph.node
           /\ \A o \in DOMAIN graph.node[n].types :
                  HasCell(graph, n, o) /\ graph.node[n].types[o] # {}
           /\ graph.node[n].scalar =>
                  \A o \in DOMAIN graph.node[n].types : "ptr" \notin graph.node[n].types[o]

ImageFits(image, callee, caller) ==
    /\ callee.roots \cup callee.ret \subseteq DOMAIN image
    /\ \A n \in DOMAIN image :
           LET m == image[n][1] IN
           /\ n \in DOMAIN callee.node /\ callee.node[n].links \subseteq DOMAIN image
           /\ HasCell(caller, m, 0)
           /\ "collapsed" \in caller.node[m].flags
                  \/ \A o \in {0} \cup DOMAIN callee.node[n].types :
                         HasCell(caller, m, o + image[n][2])
    /\ \A n, m \in DOMAIN image :
           n # m /\ image[n][1] = image[m][1] => "mod" \notin callee.node[n].flags

IsSequence(seq) == Len(seq) \in Nat /\ DOMAIN seq = 1..Len(seq)

Fits(p) ==
    /\ \A f \in p.funcs :
           /\ GraphFits(p.graph[f])
           /\ p.globals[f] \subseteq p.graph[f].roots
           /\ IsSequence(p.body[f])
           /\ \A k \in DOMAIN p.body[f] :
                  LET item == p.body[f][k] IN
                  \/ /\ item.op = "access"
                     /\ HasCell(p.graph[f], item.cell[1], item.cell[2])
                  \/ /\ item.op = "call"
                     /\ item.call \in DOMAIN p.calls /\ p.calls[item.call].caller = f
    /\ IsSequence(p.calls)
    /\ \A c \in DOMAIN p.calls :
           /\ {p.calls[c].caller, p.calls[c].callee} \subseteq p.funcs
           /\ ImageFits(p.calls[c].image, p.graph[p.calls[c].callee],
                        p.graph[p.calls[c].caller])

ASSUME ProgramsFit == \A p \in Programs : Fits(p)

\* The positions at which a sequence of cells asks for a node that has no
\* ids yet, and the number of ids in use after each position.
KeyOf(cell) == <<cell[1], cell[2]>>
Fresh(st, cells) ==
    {k \in DOMAIN cells :
        /\ KeyOf(cells[k]) \notin DOMAIN st.ids
        /\ \A j \in 1..(k - 1) : KeyOf(cells[j]) # KeyOf(cells[k])}
MaxIds(st, cells) ==
    LET fresh == Fresh(st, cells)
        max[k \in 0..Len(cells)] ==
            IF k = 0 THEN st.max
            ELSE max[k - 1] + (IF k \in fresh
                               THEN IdsTaken(NodeOf(cells[k][1], cells[k][2])) ELSE 0)
    IN  max

\* getId and mkRegion, for every cell of a sequence: a node gets its ids
\* when it is first asked for. Only if that is at offset 0 is it found by
\* getSingleton.
MkRegions(st, cells) ==
    LET fresh == Fresh(st, cells)
        max == MaxIds(st, cells)
        at == [x \in {KeyOf(cells[k]) : k \in fresh} |->
                  CHOOSE k \in fresh : KeyOf(cells[k]) = x]
    IN  [ids |-> Over([x \in DOMAIN at |-> max[at[x] - 1]], st.ids),
         max |-> max[Len(cells)],
         single |-> st.single \cup
             {max[k - 1] : k \in {k \in fresh : /\ cells[k][3] = 0
                                                /\ NodeOf(cells[k][1], cells[k][2]).scalar}}]

RegionAt(st, cell) ==
    LET id == st.ids[KeyOf(cell)] + cell[3]
    IN  Over([id |-> id, singleton |-> id \in st.single,
              heap |-> "heap" \in NodeOf(cell[1], cell[2]).flags],
             RegionInfo(cell))

\* The ids that are now in use, and who was given which region.
Take(st, cells) ==
    /\ nodeIds' = st.ids /\ maxId' = st.max /\ singletons' = st.single
    /\ given' = given \cup {<<cell, RegionAt(st, cell)>> : cell \in cells}

-----------------------------------------------------------------------------
(* initialize *)

Init ==
    /\ prog \in Programs
    /\ pc = "compute" /\ todo = prog.funcs
    /\ nodeIds = <<>> /\ maxId = 0 /\ singletons = {}
    /\ fun = <<>> /\ call = <<>> /\ given = {}

\* Mutant of Lists: a list of modified cells without those that are read.
InListPure(list, f, cell, ret) ==
    CASE list = "accessed" -> cell[2] \notin ret
      [] list = "mods" -> /\ cell[2] \notin ret
                          /\ NodeOf(f, cell[2]).flags \cap {"mod", "read"} = {"mod"}
      [] list = "news" -> cell[2] \in ret

\* Which list a cell of the interface belongs to.
InList(list, f, cell, ret) ==
    CASE list = "accessed" -> cell[2] \notin ret
      [] list = "mods" -> /\ cell[2] \notin ret
                          /\ "mod" \in NodeOf(f, cell[2]).flags
      [] list = "news" -> cell[2] \in ret

ListOf(list, f) ==
    LET ret == RetReach(f)
        cells == InterfaceCells(f)
    IN  Pick(cells, {k \in DOMAIN cells : InList(list, f, cells[k], ret)})

CallsFrom(f) == InOrder({c \in Calls : prog.calls[c].caller = f})
CallsTo(f) == {c \in Calls : prog.calls[c].callee = f}
ImagesOf(c, cells) == [k \in DOMAIN cells |-> Image(c, cells[k])]

\* computeReadModNewNodes, computeEquivClasses and
\* computeReadModNewNodesFromCallSite for every call in f. The functions
\* are sorted by their addresses: any order.
ComputeFunction(f) ==
    /\ pc = "compute"
    /\ f \in todo
    /\ todo' = todo \ {f}
    /\ LET calls == CallsFrom(f)
           callee(c) == prog.calls[c].callee
           inCalls == FlattenSeq([k \in DOMAIN calls |->
                          ImagesOf(calls[k], InterfaceCells(callee(calls[k])))])
           cells == InterfaceCells(f) \o AllCells(f) \o inCalls
           st == MkRegions(Ids, cells)
           Regions(cs) == [k \in DOMAIN cs |-> RegionAt(st, cs[k])]
           AtCall(c, cs) ==
               [k \in DOMAIN cs |->
                   [rgn |-> RegionAt(st, Image(c, cs[k])),
                    compatible |-> HasCompatibleType(RegionInfo(cs[k]),
                                       RegionInfo(Image(c, cs[k])))]]
       IN  /\ Take(st, ToSet(cells))
           /\ fun' = With(fun, f, [l \in Lists |-> Regions(ListOf(l, f))])
           /\ call' = Over([c \in ToSet(calls) |->
                               [l \in Lists |-> AtCall(c, ListOf(l, callee(c)))]],
                           call)
    /\ UNCHANGED <<prog, pc>>

\* The second pass begins when the first is over.
BeginCheck ==
    /\ pc = "compute" /\ todo = {}
    /\ pc' = "check" /\ todo' = prog.funcs
    /\ UNCHANGED heap

\* The positions on which f and all its callers agree.
Agreed(f, list, c) ==
    {k \in DOMAIN fun[f][list] :
        \A d \in CallsTo(f) : call[d][list][k].compatible}

\* The sanity check of initialize: the other regions are dropped, from the
\* function and from the calls. Both lists have one region for each cell of
\* the callee's interface: their sizes never differ.
CheckFunction(f) ==
    /\ pc = "check"
    /\ f \in todo
    /\ todo' = todo \ {f}
    /\ fun' = [fun EXCEPT ![f] = [l \in Lists |->
                  Pick(fun[f][l],
                       {k \in DOMAIN fun[f][l] :
                           \A c \in CallsTo(f) : call[c][l][k].compatible})]]
    /\ call' = [c \in Calls |->
                   IF c \in CallsTo(f)
                   THEN [l \in Lists |->
                            LET kept == Pick(call[c][l], Agreed(f, l, c))
                            IN  [k \in DOMAIN kept |-> kept[k].rgn]]
                   ELSE call[c]]
    /\ UNCHANGED <<prog, pc, nodeIds, maxId, singletons, given>>

-----------------------------------------------------------------------------
(* The interface of HeapAbstraction.hh *)

\* stable_difference: v1 without as many occurrences of each region as v2
\* has, the first ones.
Count(seq, id) == Cardinality({k \in DOMAIN seq : seq[k].id = id})
StableDifference(v1, v2) ==
    Pick(v1, {k \in DOMAIN v1 :
                 Count(SubSeq(v1, 1, k), v1[k].id) > Count(v2, v1[k].id)})

OnlyRead(lists) == StableDifference(lists["accessed"], lists["mods"])
Modified(lists) == lists["mods"]
New(lists) == lists["news"]
=============================================================================

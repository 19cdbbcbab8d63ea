----------------------- MODULE FunctionInterfaceProofs -----------------------
(***************************************************************************)
(* Proofs about HeapAbstraction and FunctionInterface, for every program   *)
(* whose points-to graphs fit: a region stands for one field of one node,  *)
(* however often and in whatever order the regions are asked for; a call   *)
(* passes and gets the regions its callee expects; and every region that   *)
(* is used has a value.                                                    *)
(***************************************************************************)
EXTENDS FunctionInterface, SequenceLemmas

Taken(f, n) == IdsTaken(NodeOf(f, n))

\* The cells of the program, and those of the nodes S of f.
Cells == {x \in prog.funcs \X Nat \X Nat : HasCell(prog.graph[x[1]], x[2], x[3])}
CellsIn(f, S) ==
    {x \in Cells : /\ x[1] = f /\ x[2] \in S
                   /\ x[3] \in {0} \cup DOMAIN NodeOf(f, x[2]).types}

-----------------------------------------------------------------------------
(* Which cells are asked for *)

LEMMA TakenType ==
    ASSUME Fits(prog), NEW f \in prog.funcs, NEW n \in Nodes(f)
    PROVE  Taken(f, n) \in Nat /\ Taken(f, n) > 0
BY DEF Taken, IdsTaken, NodeOf, Nodes, Fits, GraphFits

\* A cell that the program has lies within the ids its node takes.
LEMMA CellTaken ==
    ASSUME Fits(prog), NEW f \in prog.funcs, NEW n, NEW o, HasCell(prog.graph[f], n, o)
    PROVE  n \in Nodes(f) /\ o \in 0..(Taken(f, n) - 1)
<1>1. /\ n \in Nodes(f) /\ NodeOf(f, n).size \in Nat
      /\ o \in {0} \cup 0..(NodeOf(f, n).size - 1)
  BY DEF HasCell, Nodes, NodeOf, Fits, GraphFits
<1>2. CASE NodeOf(f, n).size = 0
  BY <1>1, <1>2 DEF Taken, IdsTaken
<1>3. CASE NodeOf(f, n).size # 0
  BY <1>1, <1>3 DEF Taken, IdsTaken
<1> QED BY <1>2, <1>3

LEMMA NodesType ==
    ASSUME Fits(prog), NEW f \in prog.funcs, NEW S, S \subseteq Nodes(f)
    PROVE  IsFiniteSet(S) /\ S \subseteq Nat
<1>1. IsFiniteSet(Nodes(f)) /\ Nodes(f) \subseteq Nat
  BY DEF Nodes, Fits, GraphFits
<1> QED BY <1>1, FS_Subset

LEMMA FieldsType ==
    ASSUME Fits(prog), NEW f \in prog.funcs, NEW n \in Nodes(f)
    PROVE  FieldsOf(f, n) \in Seq({0} \cup DOMAIN NodeOf(f, n).types)
<1> DEFINE types == NodeOf(f, n).types
           D == DOMAIN types
<1>1. CASE "collapsed" \in NodeOf(f, n).flags \/ D = {}
  <2>1. FieldsOf(f, n) = <<0>>
    BY <1>1 DEF FieldsOf
  <2>2. <<0>> \in Seq({0} \cup D)
    OBVIOUS
  <2> QED BY <2>1, <2>2
<1>2. CASE ~ ("collapsed" \in NodeOf(f, n).flags \/ D = {})
  <2>1. D \subseteq 0..(Taken(f, n) - 1)
    <3>1. ASSUME NEW o \in D PROVE HasCell(prog.graph[f], n, o)
      BY DEF Fits, GraphFits, NodeOf, Nodes
    <3> QED BY <3>1, CellTaken
  <2>2. IsFiniteSet(0..(Taken(f, n) - 1))
    BY TakenType, FS_Interval
  <2>3. FieldsOf(f, n) = InOrder(D)
    BY <1>2 DEF FieldsOf
  <2> HIDE DEF D
  <2>4. IsFiniteSet(D) /\ D \subseteq Int
    <3>1. D \in SUBSET (0..(Taken(f, n) - 1))
      BY <2>1
    <3>2. D \subseteq Int
      BY <3>1
    <3> QED BY <2>2, <3>1, <3>2, FS_Subset
  <2>5. PICK k \in Nat : InOrder(D) \in [1..k -> D]
    BY <2>4, InOrderProperties
  <2>6. InOrder(D) \in [1..k -> {0} \cup D]
    BY <2>5
  <2>7. InOrder(D) \in Seq({0} \cup D)
    BY <2>6, FunctionIsSeq
  <2> QED BY <2>3, <2>7 DEF D
<1> QED BY <1>1, <1>2

LEMMA CellsOfType ==
    ASSUME Fits(prog), NEW f \in prog.funcs, NEW S, S \subseteq Nodes(f)
    PROVE  CellsOf(f, S) \in Seq(CellsIn(f, S))
<1> DEFINE ns == InOrder(S)
           Of(n) == [j \in DOMAIN FieldsOf(f, n) |-> <<f, n, FieldsOf(f, n)[j]>>]
           T == CellsIn(f, S)
<1>1. PICK m \in Nat : ns \in [1..m -> S]
  <2>1. IsFiniteSet(S) /\ S \subseteq Int
    BY NodesType
  <2> QED BY <2>1, InOrderProperties
<1>2. ASSUME NEW n \in S PROVE Of(n) \in Seq(T)
  <2> DEFINE D == DOMAIN NodeOf(f, n).types
  <2>1. n \in Nodes(f) /\ n \in Nat
    BY NodesType
  <2>2. FieldsOf(f, n) \in Seq({0} \cup D)
    BY <2>1, FieldsType
  <2>3. PICK k \in Nat : FieldsOf(f, n) \in [1..k -> {0} \cup D]
    <3> HIDE DEF D
    <3> QED BY <2>2
  <2>4. ASSUME NEW o \in {0} \cup D PROVE <<f, n, o>> \in T
    <3>1. HasCell(prog.graph[f], n, o)
      <4>1. CASE o = 0
        BY <2>1, <4>1, TakenType DEF HasCell, Taken, NodeOf, Nodes
      <4>2. CASE o \in D
        BY <2>1, <4>2 DEF Fits, GraphFits, NodeOf, Nodes
      <4> QED BY <4>1, <4>2
    <3>2. o \in Nat
      BY <3>1 DEF HasCell
    <3> QED BY <2>1, <3>1, <3>2 DEF CellsIn, Cells
  <2>5. Of(n) \in [1..k -> T]
    <3>1. DOMAIN FieldsOf(f, n) = 1..k /\ \A j \in 1..k : FieldsOf(f, n)[j] \in {0} \cup D
      BY <2>3
    <3>2. \A j \in 1..k : <<f, n, FieldsOf(f, n)[j]>> \in T
      BY <2>4, <3>1
    <3> HIDE DEF T
    <3> QED BY <3>1, <3>2
  <2> HIDE DEF Of, T
  <2> QED BY <2>5, FunctionIsSeq
<1> DEFINE ss == [k \in DOMAIN ns |-> Of(ns[k])]
<1>3. ss \in [1..m -> Seq(T)]
  <2> HIDE DEF Of, T, ns
  <2> QED BY <1>1, <1>2
<1>4. ss \in Seq(Seq(T))
  <2> HIDE DEF ss, T
  <2> QED BY <1>3, FunctionIsSeq
<1>5. CellsOf(f, S) = FlattenSeq(ss)
  BY DEF CellsOf
<1> HIDE DEF ss, T
<1>6. FlattenSeq(ss) \in Seq(T)
  BY <1>4, FlattenType
<1> QED BY <1>5, <1>6 DEF T

(***************************************************************************)
(* What is reachable stays in a set of nodes that is closed under links.   *)
(***************************************************************************)
LEMMA ClosureStaysIn ==
    ASSUME NEW f, IsFiniteSet(Nodes(f)), NEW T, NEW S, S \subseteq T,
           \A n \in T : NodeOf(f, n).links \subseteq T
    PROVE  Closure(f, S) \subseteq T
<1> DEFINE Step(A) == A \cup UNION {NodeOf(f, n).links : n \in A}
<1>1. PICK n \in Nat : n = Cardinality(Nodes(f))
  BY FS_CardinalityType
<1>2. \A A \in SUBSET T : Step(A) \in SUBSET T
  OBVIOUS
<1> HIDE DEF Step
<1> DEFINE g == [p \in (1..n) \X SUBSET T |-> Step(p[2])]
<1>3. g \in [(1..n) \X SUBSET T -> SUBSET T]
  BY <1>2
<1>4. \A k \in 1..n, A \in SUBSET T : g[<<k, A>>] = Step(A)
  OBVIOUS
<1> HIDE DEF g
<1>5. PICK h \in [0..n -> SUBSET T] : Iterates(h, n, S, g)
  BY <1>3, Recursion, Zenon
<1> DEFINE Def(w) == w = [k \in 0..n |-> IF k = 0 THEN S ELSE Step(w[k - 1])]
           within == CHOOSE w : Def(w)
<1>6. Def(h)
  <2>1. ASSUME NEW k \in 0..n PROVE h[k] = IF k = 0 THEN S ELSE Step(h[k - 1])
    <3>1. CASE k = 0
      BY <1>5, <3>1 DEF Iterates
    <3>2. CASE k # 0
      <4>1. k \in 1..n /\ k - 1 \in 0..n
        BY <3>2
      <4> QED BY <1>4, <1>5, <3>2, <4>1 DEF Iterates
    <3> QED BY <3>1, <3>2
  <2> QED BY <1>5, <2>1
<1>7. Def(within)
  BY <1>6
<1>8. Closure(f, S) = within[n]
  BY <1>1 DEF Closure, Step
<1> HIDE DEF within
<1> DEFINE P == {k \in 0..n : within[k] \subseteq T}
<1>9. 0 \in P
  BY <1>7
<1>10. ASSUME NEW k \in 1..n, k - 1 \in P PROVE k \in P
  <2>1. within[k] = Step(within[k - 1])
    BY <1>7
  <2> QED BY <1>2, <1>10, <2>1
<1>11. n \in P
  <2> HIDE DEF P
  <2> QED BY <1>9, <1>10, UpTo
<1> QED BY <1>8, <1>11

LEMMA ReachType ==
    ASSUME Fits(prog), NEW f \in prog.funcs
    PROVE  Reach(f) \cup RetReach(f) \subseteq Nodes(f)
<1>1. IsFiniteSet(Nodes(f))
  BY NodesType
<1>2. \A n \in Nodes(f) : NodeOf(f, n).links \subseteq Nodes(f)
  BY DEF Fits, GraphFits, Nodes, NodeOf
<1>3. prog.graph[f].roots \subseteq Nodes(f) /\ prog.graph[f].ret \subseteq Nodes(f)
  BY DEF Fits, GraphFits, Nodes
<1> QED BY <1>1, <1>2, <1>3, ClosureStaysIn DEF Reach, RetReach

\* What a call asks for in the caller.
LEMMA ReachIsMapped ==
    ASSUME Fits(prog), NEW c \in Calls
    PROVE  LET f == prog.calls[c].callee IN
               Reach(f) \cup RetReach(f) \subseteq DOMAIN prog.calls[c].image
<1> DEFINE f == prog.calls[c].callee
           I == DOMAIN prog.calls[c].image
<1>1. f \in prog.funcs /\ ImageFits(prog.calls[c].image, prog.graph[f],
                                   prog.graph[prog.calls[c].caller])
  BY DEF Fits, Calls
<1>2. IsFiniteSet(Nodes(f))
  BY <1>1, NodesType
<1>3. \A n \in I : NodeOf(f, n).links \subseteq I
  BY <1>1 DEF ImageFits, NodeOf
<1>4. prog.graph[f].roots \subseteq I /\ prog.graph[f].ret \subseteq I
  BY <1>1 DEF ImageFits
<1> HIDE DEF f, I
<1>5. Reach(f) \cup RetReach(f) \subseteq I
  BY <1>2, <1>3, <1>4, ClosureStaysIn DEF Reach, RetReach
<1> QED BY <1>5 DEF f, I

LEMMA ImageType ==
    ASSUME Fits(prog), NEW c \in Calls,
           NEW x \in CellsIn(prog.calls[c].callee, DOMAIN prog.calls[c].image)
    PROVE  Image(c, x) \in Cells
<1> DEFINE f == prog.calls[c].callee
           caller == prog.calls[c].caller
           to == prog.calls[c].image[x[2]]
           flags == NodeOf(caller, to[1]).flags
           o == IF "collapsed" \in flags THEN 0 ELSE x[3] + to[2]
<1>1. caller \in prog.funcs /\ f \in prog.funcs
        /\ ImageFits(prog.calls[c].image, prog.graph[f], prog.graph[caller])
  BY DEF Fits, Calls
<1>2. x[2] \in DOMAIN prog.calls[c].image /\ x[3] \in {0} \cup DOMAIN NodeOf(f, x[2]).types
  BY DEF CellsIn
<1>3. HasCell(prog.graph[caller], to[1], o)
  <2>1. HasCell(prog.graph[caller], to[1], 0)
    BY <1>1, <1>2 DEF ImageFits
  <2>2. "collapsed" \in flags \/ HasCell(prog.graph[caller], to[1], x[3] + to[2])
    BY <1>1, <1>2 DEF ImageFits, NodeOf
  <2> QED BY <2>1, <2>2
<1>4. to[1] \in Nat /\ o \in Nat
  <2>1. to[1] \in Nodes(caller)
    BY <1>3 DEF HasCell, Nodes
  <2>2. Nodes(caller) \subseteq Nat
    BY <1>1, NodesType
  <2> HIDE DEF o, to
  <2> QED BY <1>3, <2>1, <2>2 DEF HasCell
<1>5. Image(c, x) = <<caller, to[1], o>>
  BY DEF Image
<1> HIDE DEF o, to, caller
<1> QED BY <1>1, <1>3, <1>4, <1>5 DEF Cells

LEMMA ImagesType ==
    ASSUME Fits(prog), NEW c \in Calls,
           NEW cells \in Seq(CellsIn(prog.calls[c].callee, DOMAIN prog.calls[c].image))
    PROVE  ImagesOf(c, cells) \in Seq(Cells)
<1> DEFINE T == CellsIn(prog.calls[c].callee, DOMAIN prog.calls[c].image)
<1>1. \A x \in T : Image(c, x) \in Cells
  BY ImageType
<1> HIDE DEF T
<1>2. PICK n \in Nat : cells \in [1..n -> T]
  BY DEF T
<1>3. ImagesOf(c, cells) \in [1..n -> Cells]
  BY <1>1, <1>2 DEF ImagesOf
<1> QED BY <1>3, FunctionIsSeq

LEMMA InterfaceType ==
    ASSUME Fits(prog), NEW f \in prog.funcs
    PROVE  /\ InterfaceCells(f) \in Seq(CellsIn(f, Reach(f) \cup RetReach(f)))
           /\ AllCells(f) \in Seq(Cells)
<1>1. Matters(f, Reach(f) \cup RetReach(f)) \subseteq Reach(f) \cup RetReach(f)
  BY DEF Matters
<1>2. Matters(f, Nodes(f)) \subseteq Nodes(f)
  BY DEF Matters
<1>3. InterfaceCells(f) \in Seq(CellsIn(f, Matters(f, Reach(f) \cup RetReach(f))))
  BY <1>1, ReachType, CellsOfType DEF InterfaceCells
<1>4. AllCells(f) \in Seq(CellsIn(f, Matters(f, Nodes(f))))
  BY <1>2, CellsOfType DEF AllCells
<1>5. CellsIn(f, Matters(f, Nodes(f))) \subseteq Cells
  BY DEF CellsIn
<1>6. CellsIn(f, Matters(f, Reach(f) \cup RetReach(f)))
          \subseteq CellsIn(f, Reach(f) \cup RetReach(f))
  BY <1>1 DEF CellsIn
<1>7. InterfaceCells(f) \in Seq(CellsIn(f, Reach(f) \cup RetReach(f)))
  <2> DEFINE T == CellsIn(f, Matters(f, Reach(f) \cup RetReach(f)))
             U == CellsIn(f, Reach(f) \cup RetReach(f))
  <2>1. InterfaceCells(f) \in Seq(T) /\ T \subseteq U
    BY <1>3, <1>6
  <2> HIDE DEF T, U
  <2>2. InterfaceCells(f) \in Seq(U)
    BY <2>1, SeqMonotone
  <2> QED BY <2>2 DEF U
<1>8. AllCells(f) \in Seq(Cells)
  BY <1>4, <1>5, SeqMonotone, Zenon
<1> QED BY <1>7, <1>8

LEMMA GlobalsType ==
    ASSUME Fits(prog), NEW f \in prog.funcs
    PROVE  GlobalCells(f) \in Seq(CellsIn(f, prog.globals[f]))
<1>1. prog.globals[f] \subseteq Nodes(f)
  BY DEF Fits, GraphFits, Nodes
<1>2. IsFiniteSet(prog.globals[f]) /\ prog.globals[f] \subseteq Int
  BY <1>1, NodesType
<1>3. PICK n \in Nat : InOrder(prog.globals[f]) \in [1..n -> prog.globals[f]]
  BY <1>2, InOrderProperties
<1>4. ASSUME NEW m \in prog.globals[f] PROVE <<f, m, 0>> \in CellsIn(f, prog.globals[f])
  <2>1. m \in Nodes(f) /\ m \in Nat
    BY <1>1, NodesType
  <2>2. HasCell(prog.graph[f], m, 0)
    BY <2>1, TakenType DEF HasCell, Taken, NodeOf, Nodes
  <2> QED BY <2>1, <2>2 DEF CellsIn, Cells
<1>5. GlobalCells(f) \in [1..n -> CellsIn(f, prog.globals[f])]
  BY <1>3, <1>4 DEF GlobalCells
<1> QED BY <1>5, FunctionIsSeq

-----------------------------------------------------------------------------
(* Which ids they get *)

\* The ids of two nodes do not overlap, and are all below the next one.
Apart(ids, max) ==
    /\ max \in Nat
    /\ \A x \in DOMAIN ids :
           /\ x[1] \in prog.funcs /\ x[2] \in Nodes(x[1])
           /\ ids[x] \in Nat /\ ids[x] + Taken(x[1], x[2]) <= max
    /\ \A x, y \in DOMAIN ids :
           x # y => \/ ids[x] + Taken(x[1], x[2]) <= ids[y]
                    \/ ids[y] + Taken(y[1], y[2]) <= ids[x]

LEMMA MaxIdsGrow ==
    ASSUME Fits(prog), NEW st, st.max \in Nat, NEW cells \in Seq(Cells)
    PROVE  LET n == Len(cells)
               max == MaxIds(st, cells)
               fresh == Fresh(st, cells)
           IN  /\ \A k \in 0..n : max[k] \in Nat
               /\ max[0] = st.max
               /\ \A k \in fresh :
                      max[k] = max[k - 1] + Taken(cells[k][1], cells[k][2])
               /\ \A j, k \in 0..n : j <= k => max[j] <= max[k]
<1>1. PICK n \in Nat : n = Len(cells)
  OBVIOUS
<1> DEFINE fresh == Fresh(st, cells)
           max == MaxIds(st, cells)
           add == [k \in 1..n |-> IF k \in fresh
                                  THEN Taken(cells[k][1], cells[k][2]) ELSE 0]
<1>2. \A k \in 1..n : /\ cells[k] \in Cells
                      /\ Taken(cells[k][1], cells[k][2]) \in Nat
  <2> TAKE k \in 1..n
  <2>1. cells[k] \in Cells
    BY <1>1
  <2>2. cells[k][1] \in prog.funcs /\ cells[k][2] \in Nodes(cells[k][1])
    BY <2>1 DEF Cells, HasCell, Nodes
  <2> QED BY <2>1, <2>2, TakenType
<1>3. fresh \subseteq 1..n
  BY <1>1 DEF Fresh
<1>4. add \in [1..n -> Nat]
  <2> HIDE DEF fresh
  <2> QED BY <1>2
<1>5. \A k \in fresh : add[k] = Taken(cells[k][1], cells[k][2])
  <2> HIDE DEF fresh
  <2> QED BY <1>3
<1> DEFINE Def(h) == h = [k \in 0..n |-> IF k = 0 THEN st.max ELSE h[k - 1] + add[k]]
           g == [p \in (1..n) \X Nat |-> p[2] + add[p[1]]]
<1>6. max = CHOOSE h : Def(h)
  <2> DEFINE Raw(h) == h = [k \in 0..n |->
                 IF k = 0 THEN st.max
                 ELSE h[k - 1] + (IF k \in fresh
                       THEN IdsTaken(NodeOf(cells[k][1], cells[k][2])) ELSE 0)]
  <2>1. max = CHOOSE h : Raw(h)
    BY <1>1 DEF MaxIds
  <2>2. ASSUME NEW h PROVE Raw(h) <=> Def(h)
    <3>1. \A k \in 0..n : k # 0 => k \in 1..n
      OBVIOUS
    <3>2. \A k \in 1..n : add[k] = IF k \in fresh
                       THEN IdsTaken(NodeOf(cells[k][1], cells[k][2])) ELSE 0
      <4> HIDE DEF fresh
      <4> QED BY DEF Taken
    <3> HIDE DEF add, fresh
    <3> QED BY <3>1, <3>2
  <2> HIDE DEF Raw, Def
  <2> QED BY <2>1, <2>2
<1> HIDE DEF add, fresh, max
<1>7. PICK f \in [0..n -> Nat] : Iterates(f, n, st.max, g)
  <2>1. g \in [(1..n) \X Nat -> Nat]
    <3> SUFFICES ASSUME NEW p \in (1..n) \X Nat PROVE p[2] + add[p[1]] \in Nat
      OBVIOUS
    <3>1. p[1] \in 1..n /\ p[2] \in Nat
      OBVIOUS
    <3> QED BY <1>4, <3>1
  <2> HIDE DEF g
  <2> QED BY <2>1, Recursion, Zenon
<1>8. Def(f)
  <2>1. ASSUME NEW k \in 0..n PROVE f[k] = IF k = 0 THEN st.max ELSE f[k - 1] + add[k]
    <3>1. CASE k = 0
      BY <1>7, <3>1 DEF Iterates
    <3>2. CASE k # 0
      <4>1. k \in 1..n /\ f[k - 1] \in Nat
        BY <3>2
      <4>2. g[<<k, f[k - 1]>>] = f[k - 1] + add[k]
        BY <4>1
      <4> HIDE DEF g
      <4> QED BY <1>7, <3>2, <4>1, <4>2 DEF Iterates
    <3> QED BY <3>1, <3>2
  <2> QED BY <1>7, <2>1
<1>9. Def(max)
  BY <1>6, <1>8
<1>10. max[0] = st.max /\ \A k \in 1..n : max[k] = max[k - 1] + add[k]
  BY <1>9
<1>11. \A k \in 0..n : max[k] \in Nat
  <2> DEFINE P == {k \in 0..n : max[k] \in Nat}
  <2>1. 0 \in P
    BY <1>10
  <2>2. \A k \in 1..n : k - 1 \in P => k \in P
    BY <1>4, <1>10
  <2>3. \A k \in 0..n : k \in P
    <3> HIDE DEF P
    <3> QED BY <2>1, <2>2, UpTo
  <2> QED BY <2>3
<1>12. ASSUME NEW j \in 0..n PROVE \A k \in 0..n : j <= k => max[j] <= max[k]
  <2> DEFINE P == {k \in 0..n : j <= k => max[j] <= max[k]}
  <2>1. 0 \in P
    BY <1>11
  <2>2. ASSUME NEW k \in 1..n, k - 1 \in P PROVE k \in P
    <3>1. k - 1 \in 0..n /\ max[k] = max[k - 1] + add[k] /\ add[k] \in Nat
      BY <1>4, <1>10
    <3>2. max[k] \in Nat /\ max[k - 1] \in Nat /\ max[j] \in Nat
      BY <1>11, <3>1, SMTT(30)
    <3>3. CASE j = k
      BY <3>2, <3>3
    <3>4. CASE j # k
      BY <2>2, <3>1, <3>2, <3>4, SMTT(30)
    <3> QED BY <3>3, <3>4
  <2>3. \A k \in 0..n : k \in P
    <3> HIDE DEF P
    <3> QED BY <2>1, <2>2, UpTo
  <2> QED BY <2>3
<1>13. \A k \in fresh : max[k] = max[k - 1] + Taken(cells[k][1], cells[k][2])
  BY <1>3, <1>5, <1>10
<1> QED BY <1>1, <1>10, <1>11, <1>12, <1>13 DEF max, fresh

LEMMA RegionsApart ==
    ASSUME Fits(prog), NEW st, Apart(st.ids, st.max), NEW cells \in Seq(Cells)
    PROVE  LET r == MkRegions(st, cells) IN
               /\ Apart(r.ids, r.max)
               /\ DOMAIN st.ids \subseteq DOMAIN r.ids
               /\ \A x \in DOMAIN st.ids : r.ids[x] = st.ids[x]
               /\ \A k \in DOMAIN cells : KeyOf(cells[k]) \in DOMAIN r.ids
<1>1. PICK n \in Nat : n = Len(cells) /\ DOMAIN cells = 1..n
  OBVIOUS
<1> DEFINE fresh == Fresh(st, cells)
           max == MaxIds(st, cells)
           key(k) == KeyOf(cells[k])
           D == {key(k) : k \in fresh}
           at == [x \in D |-> CHOOSE k \in fresh : key(k) = x]
           new == [x \in D |-> max[at[x] - 1]]
           old == st.ids
           ids == Over(new, old)
           T(x) == Taken(x[1], x[2])
<1>2. fresh \subseteq 1..n
  BY <1>1 DEF Fresh
<1>3. \A k \in fresh : key(k) \notin DOMAIN old
  BY <1>1 DEF Fresh
<1>4. ASSUME NEW k \in 1..n, key(k) \notin DOMAIN old
      PROVE  \E j \in fresh : key(j) = key(k)
  <2> DEFINE Same == {j \in 1..n : key(j) = key(k)}
  <2>1. Same \subseteq Nat /\ k \in Same
    OBVIOUS
  <2>2. PICK j \in Same : \A i \in Same : j <= i
    <3> HIDE DEF Same
    <3> QED BY <2>1, Smallest
  <2>3. ASSUME NEW i \in 1..(j - 1) PROVE key(i) # key(j)
    <3>1. i \in 1..n /\ ~ (j <= i)
      BY <2>2
    <3>2. i \notin Same
      BY <2>2, <3>1
    <3> HIDE DEF key
    <3> QED BY <2>2, <3>1, <3>2
  <2>4. j \in 1..n /\ key(j) = key(k)
    BY <2>2
  <2>6. key(j) \notin DOMAIN old
    BY <1>4, <2>4
  <2>7. j \in fresh
    BY <1>1, <2>3, <2>4, <2>6 DEF Fresh
  <2> QED BY <2>4, <2>7
<1>5. \A k \in 1..n : key(k)[1] \in prog.funcs /\ key(k)[2] \in Nodes(key(k)[1])
  <2> TAKE k \in 1..n
  <2>1. cells[k] \in Cells
    BY <1>1
  <2> QED BY <2>1 DEF Cells, HasCell, Nodes, KeyOf
<1>6. /\ \A k \in 0..n : max[k] \in Nat
      /\ max[0] = st.max
      /\ \A k \in fresh : max[k] = max[k - 1] + T(key(k))
      /\ \A j, k \in 0..n : j <= k => max[j] <= max[k]
  <2>1. st.max \in Nat
    BY DEF Apart
  <2>2. \A k \in fresh : T(key(k)) = Taken(cells[k][1], cells[k][2])
    BY <1>2 DEF KeyOf
  <2> HIDE DEF T, key, fresh
  <2> QED BY <1>1, <2>1, <2>2, MaxIdsGrow DEF fresh
<1>7. MkRegions(st, cells).ids = ids /\ MkRegions(st, cells).max = max[n]
  BY <1>1 DEF MkRegions
<1> HIDE DEF fresh, max, key
<1>8. \A x \in D : /\ at[x] \in fresh /\ key(at[x]) = x
                   /\ at[x] \in 1..n /\ at[x] - 1 \in 0..n
                   /\ x \notin DOMAIN old
  <2> TAKE x \in D
  <2>1. \E k \in fresh : key(k) = x
    OBVIOUS
  <2>2. at[x] = CHOOSE k \in fresh : key(k) = x
    OBVIOUS
  <2>3. at[x] \in fresh /\ key(at[x]) = x
    <3> HIDE DEF at, D
    <3> QED BY <2>1, <2>2
  <2> HIDE DEF at
  <2> QED BY <1>2, <1>3, <2>3
<1>9. /\ DOMAIN ids = D \cup DOMAIN old
      /\ \A x \in D : ids[x] = max[at[x] - 1]
      /\ \A x \in DOMAIN old : ids[x] = old[x]
  <2>1. \A x \in DOMAIN old : x \notin D
    BY <1>8
  <2>2. DOMAIN new = D /\ \A x \in D : new[x] = max[at[x] - 1]
    OBVIOUS
  <2> HIDE DEF new, D, at, old
  <2> QED BY <2>1, <2>2 DEF Over
<1> HIDE DEF new, ids, at, D
<1>10. /\ st.max \in Nat /\ max[n] \in Nat /\ st.max <= max[n]
  BY <1>6
<1>11. ASSUME NEW x \in D
       PROVE  /\ x[1] \in prog.funcs /\ x[2] \in Nodes(x[1])
              /\ ids[x] \in Nat /\ T(x) \in Nat
              /\ st.max <= ids[x]
              /\ ids[x] + T(x) = max[at[x]] /\ max[at[x]] <= max[n]
  <2>1. at[x] \in fresh /\ key(at[x]) = x /\ at[x] \in 1..n /\ at[x] - 1 \in 0..n
    BY <1>8
  <2>2. x[1] \in prog.funcs /\ x[2] \in Nodes(x[1])
    BY <1>5, <2>1
  <2>3. T(x) \in Nat
    BY <2>2, TakenType
  <2>4. ids[x] = max[at[x] - 1] /\ max[at[x]] = max[at[x] - 1] + T(x)
    BY <1>6, <1>9, <2>1
  <2>5. max[at[x] - 1] \in Nat /\ st.max <= max[at[x] - 1] /\ max[at[x]] <= max[n]
    <3>1. 0 \in 0..n /\ n \in 0..n /\ 0 <= at[x] - 1 /\ at[x] <= n /\ at[x] \in 0..n
      BY <2>1
    <3> QED BY <1>6, <2>1, <3>1
  <2> QED BY <2>2, <2>3, <2>4, <2>5
<1>12. ASSUME NEW x \in DOMAIN old
       PROVE  /\ x[1] \in prog.funcs /\ x[2] \in Nodes(x[1])
              /\ ids[x] \in Nat /\ T(x) \in Nat /\ ids[x] + T(x) <= st.max
  <2>1. ids[x] = old[x]
    BY <1>9
  <2>2. x[1] \in prog.funcs /\ x[2] \in Nodes(x[1])
          /\ old[x] \in Nat /\ old[x] + T(x) <= st.max
    BY DEF Apart
  <2>3. T(x) \in Nat
    BY <2>2, TakenType
  <2> QED BY <2>1, <2>2, <2>3
<1>13. ASSUME NEW x \in DOMAIN ids, NEW y \in DOMAIN ids, x # y
       PROVE  ids[x] + T(x) <= ids[y] \/ ids[y] + T(y) <= ids[x]
  <2>1. CASE x \in DOMAIN old /\ y \in DOMAIN old
    <3>1. ids[x] = old[x] /\ ids[y] = old[y]
      BY <1>9, <2>1
    <3> QED BY <1>13, <2>1, <3>1 DEF Apart
  <2>2. CASE x \in D /\ y \in DOMAIN old
    BY <1>10, <1>11, <1>12, <2>2
  <2>3. CASE y \in D /\ x \in DOMAIN old
    BY <1>10, <1>11, <1>12, <2>3
  <2>4. CASE x \in D /\ y \in D
    <3>1. at[x] \in 1..n /\ at[y] \in 1..n /\ at[x] # at[y]
            /\ at[x] - 1 \in 0..n /\ at[y] - 1 \in 0..n
      BY <1>8, <1>13, <2>4
    <3>2. ids[x] = max[at[x] - 1] /\ ids[y] = max[at[y] - 1]
      BY <1>9, <2>4
    <3>3. ids[x] + T(x) = max[at[x]] /\ ids[y] + T(y) = max[at[y]]
      BY <1>11, <2>4
    <3>4. CASE at[x] < at[y]
      <4>1. at[x] <= at[y] - 1 /\ at[x] \in 0..n
        BY <3>1, <3>4
      <4>2. max[at[x]] <= max[at[y] - 1]
        BY <1>6, <3>1, <4>1
      <4> QED BY <3>2, <3>3, <4>2
    <3>5. CASE at[y] < at[x]
      <4>1. at[y] <= at[x] - 1 /\ at[y] \in 0..n
        BY <3>1, <3>5
      <4>2. max[at[y]] <= max[at[x] - 1]
        BY <1>6, <3>1, <4>1
      <4> QED BY <3>2, <3>3, <4>2
    <3> QED BY <3>1, <3>4, <3>5
  <2> QED BY <1>9, <2>1, <2>2, <2>3, <2>4
<1>14. Apart(ids, max[n])
  <2>1. ASSUME NEW x \in DOMAIN ids
        PROVE  /\ x[1] \in prog.funcs /\ x[2] \in Nodes(x[1])
               /\ ids[x] \in Nat /\ ids[x] + T(x) <= max[n]
    <3>1. CASE x \in D
      BY <1>11, <3>1
    <3>2. CASE x \in DOMAIN old
      BY <1>10, <1>12, <3>2
    <3> QED BY <1>9, <3>1, <3>2
  <2> QED BY <1>10, <1>13, <2>1 DEF Apart
<1>15. \A k \in DOMAIN cells : KeyOf(cells[k]) \in DOMAIN ids
  <2> TAKE k \in DOMAIN cells
  <2>1. k \in 1..n /\ key(k) = KeyOf(cells[k])
    BY <1>1 DEF key
  <2>2. key(k) \in D \cup DOMAIN old
    BY <1>4, <2>1 DEF D
  <2> QED BY <1>9, <2>1, <2>2
<1>16. DOMAIN old \subseteq DOMAIN ids /\ \A x \in DOMAIN old : ids[x] = old[x]
  BY <1>9
<1> QED BY <1>7, <1>14, <1>15, <1>16

LEMMA IdOfRegion ==
    ASSUME NEW st, NEW x
    PROVE  RegionAt(st, x).id = st.ids[KeyOf(x)] + x[3]
BY DEF RegionAt, Over

LEMMA InfoOfRegion ==
    ASSUME NEW st, NEW x
    PROVE  /\ RegionAt(st, x).type = RegionInfo(x).type
           /\ RegionAt(st, x).width = RegionInfo(x).width
           /\ RegionAt(st, x).heap = ("heap" \in NodeOf(x[1], x[2]).flags)
<1>1. DOMAIN RegionInfo(x) = {"type", "width"}
  BY DEF RegionInfo, Untyped
<1> QED BY <1>1 DEF RegionAt, Over

-----------------------------------------------------------------------------
(***************************************************************************)
(* The inductive invariant: the ids of two nodes never overlap, and every  *)
(* region that was handed out has the id of its node plus its offset, an   *)
(* offset within the node, and the type that the accesses give the field.  *)
(***************************************************************************)
GivenRight ==
    \A g \in given : /\ g[1] \in Cells
                     /\ KeyOf(g[1]) \in DOMAIN nodeIds
                     /\ g[2].id = nodeIds[KeyOf(g[1])] + g[1][3]
                     /\ g[2].type = RegionInfo(g[1]).type

RegionInv ==
    /\ prog \in Programs
    /\ todo \subseteq prog.funcs
    /\ Apart(nodeIds, maxId)
    /\ GivenRight

\* Asking for the regions of some cells.
LEMMA TakeKeepsRegionInv ==
    ASSUME Fits(prog), RegionInv, prog' = prog, todo' \subseteq todo,
           NEW cells \in Seq(Cells), Take(MkRegions(Ids, cells), ToSet(cells))
    PROVE  RegionInv'
<1> DEFINE st == MkRegions(Ids, cells)
<1>1. PICK ids, max : ids = st.ids /\ max = st.max
  OBVIOUS
<1>2. nodeIds' = ids /\ maxId' = max
        /\ given' = given \cup {<<x, RegionAt(st, x)>> : x \in ToSet(cells)}
  BY <1>1 DEF Take
<1>3. /\ Apart(ids, max)
      /\ DOMAIN nodeIds \subseteq DOMAIN ids
      /\ \A x \in DOMAIN nodeIds : ids[x] = nodeIds[x]
      /\ \A k \in DOMAIN cells : KeyOf(cells[k]) \in DOMAIN ids
  <2>1. Ids.ids = nodeIds /\ Ids.max = maxId
    BY DEF Ids
  <2>2. Apart(Ids.ids, Ids.max)
    BY <2>1 DEF RegionInv
  <2> HIDE DEF st
  <2> QED BY <1>1, <2>1, <2>2, RegionsApart DEF st
<1>4. Cells' = Cells
  BY DEF Cells, HasCell
<1>5. ASSUME NEW g \in given'
      PROVE  /\ g[1] \in Cells /\ KeyOf(g[1]) \in DOMAIN ids
             /\ g[2].id = ids[KeyOf(g[1])] + g[1][3]
             /\ g[2].type = RegionInfo(g[1]).type
  <2>1. CASE g \in given
    BY <1>3, <2>1 DEF RegionInv, GivenRight
  <2>2. CASE g \notin given
    <3>1. PICK k \in DOMAIN cells : g = <<cells[k], RegionAt(st, cells[k])>>
      BY <1>2, <2>2 DEF ToSet
    <3>2. cells[k] \in Cells
      OBVIOUS
    <3>3. /\ RegionAt(st, cells[k]).id = ids[KeyOf(cells[k])] + cells[k][3]
          /\ RegionAt(st, cells[k]).type = RegionInfo(cells[k]).type
      BY <1>1, IdOfRegion, InfoOfRegion
    <3> HIDE DEF st
    <3> QED BY <1>3, <3>1, <3>2, <3>3
  <2> QED BY <2>1, <2>2
<1>6. GivenRight'
  <2>1. \A x : RegionInfo(x)' = RegionInfo(x)
    BY DEF RegionInfo, NodeOf
  <2> QED BY <1>2, <1>4, <1>5, <2>1 DEF GivenRight, KeyOf
<1>7. Apart(nodeIds, maxId)'
  <2>1. \A f, n : (Taken(f, n))' = Taken(f, n) /\ Nodes(f)' = Nodes(f)
    BY DEF Taken, NodeOf, Nodes
  <2> QED BY <1>2, <1>3 DEF Apart, Taken, NodeOf, Nodes
<1> QED BY <1>6, <1>7 DEF RegionInv

LEMMA CallsFromType ==
    ASSUME Fits(prog), NEW f
    PROVE  \E n \in Nat : CallsFrom(f) \in [1..n -> Calls]
<1> DEFINE S == {c \in Calls : prog.calls[c].caller = f}
<1>1. IsFiniteSet(S) /\ S \subseteq Int
  <2>1. PICK n \in Nat : Calls = 1..n
    BY DEF Calls, Fits, IsSequence
  <2>2. S \in SUBSET (1..n) /\ IsFiniteSet(1..n)
    BY <2>1, FS_Interval
  <2> HIDE DEF S
  <2>3. S \subseteq Int
    BY <2>2
  <2> QED BY <2>2, <2>3, FS_Subset
<1>2. S \subseteq Calls
  OBVIOUS
<1>3. CallsFrom(f) = InOrder(S)
  BY DEF CallsFrom
<1> HIDE DEF S
<1>4. PICK n \in Nat : InOrder(S) \in [1..n -> S]
  BY <1>1, InOrderProperties
<1> QED BY <1>2, <1>3, <1>4

\* What ComputeFunction and BuildCfg ask for at the calls of f.
LEMMA AskedAtCalls ==
    ASSUME Fits(prog), NEW f \in prog.funcs
    PROVE  LET calls == CallsFrom(f) IN
           /\ FlattenSeq([k \in DOMAIN calls |->
                  ImagesOf(calls[k], InterfaceCells(Callee(calls[k])))]) \in Seq(Cells)
           /\ FlattenSeq([k \in DOMAIN calls |->
                  ImagesOf(calls[k], GlobalCells(Callee(calls[k])))]) \in Seq(Cells)
<1> DEFINE calls == CallsFrom(f)
           T == Seq(Cells)
           s1 == [k \in DOMAIN calls |-> ImagesOf(calls[k], InterfaceCells(Callee(calls[k])))]
           s2 == [k \in DOMAIN calls |-> ImagesOf(calls[k], GlobalCells(Callee(calls[k])))]
<1>1. PICK n \in Nat : calls \in [1..n -> Calls]
  BY CallsFromType
<1>2. ASSUME NEW c \in Calls
      PROVE  /\ ImagesOf(c, InterfaceCells(Callee(c))) \in T
             /\ ImagesOf(c, GlobalCells(Callee(c))) \in T
  <2> DEFINE g == prog.calls[c].callee
             I == DOMAIN prog.calls[c].image
             R == Reach(g) \cup RetReach(g)
  <2>1. g \in prog.funcs /\ Callee(c) = g
    BY DEF Fits, Calls, Callee
  <2>2. R \subseteq I /\ prog.globals[g] \subseteq I
    <3>1. R \subseteq I
      BY ReachIsMapped
    <3>2. prog.globals[g] \subseteq I
      BY DEF Fits, Calls, ImageFits
    <3> QED BY <3>1, <3>2
  <2>3. CellsIn(g, R) \subseteq CellsIn(g, I)
          /\ CellsIn(g, prog.globals[g]) \subseteq CellsIn(g, I)
    <3> HIDE DEF g, I, R
    <3> QED BY <2>2 DEF CellsIn
  <2>4. InterfaceCells(g) \in Seq(CellsIn(g, R))
          /\ GlobalCells(g) \in Seq(CellsIn(g, prog.globals[g]))
    <3> HIDE DEF g
    <3> QED BY <2>1, InterfaceType, GlobalsType
  <2>5. InterfaceCells(g) \in Seq(CellsIn(g, I)) /\ GlobalCells(g) \in Seq(CellsIn(g, I))
    <3> DEFINE A == CellsIn(g, R)
               B == CellsIn(g, prog.globals[g])
               U == CellsIn(g, I)
    <3>1. A \subseteq U /\ B \subseteq U /\ InterfaceCells(g) \in Seq(A)
            /\ GlobalCells(g) \in Seq(B)
      BY <2>3, <2>4
    <3> HIDE DEF A, B, U
    <3>2. InterfaceCells(g) \in Seq(U) /\ GlobalCells(g) \in Seq(U)
      BY <3>1, SeqMonotone
    <3> QED BY <3>2 DEF U
  <2> QED BY <2>1, <2>5, ImagesType
<1> HIDE DEF calls, T
<1>3. s1 \in [1..n -> T] /\ s2 \in [1..n -> T]
  BY <1>1, <1>2
<1> HIDE DEF s1, s2
<1>4. s1 \in Seq(T) /\ s2 \in Seq(T)
  BY <1>3, FunctionIsSeq
<1>5. FlattenSeq(s1) \in Seq(Cells) /\ FlattenSeq(s2) \in Seq(Cells)
  BY <1>4, FlattenType DEF T
<1> QED BY <1>5 DEF s1, s2, calls

LEMMA AccessedType ==
    ASSUME Fits(prog), NEW f \in prog.funcs
    PROVE  AccessedCells(f) \in Seq(Cells)
<1> DEFINE body == prog.body[f]
           ps == {k \in DOMAIN body : body[k].op = "access"}
           T == {i \in {body[k] : k \in DOMAIN body} : HasCell(prog.graph[f], i.cell[1], i.cell[2])}
           items == Pick(body, ps)
<1>1. Len(body) \in Nat /\ DOMAIN body = 1..Len(body)
  BY DEF Fits, IsSequence
<1>2. \A k \in ps \cap DOMAIN body : body[k] \in T
  BY DEF Fits
<1> HIDE DEF body, ps, T
<1>3. items \in Seq(T)
  BY <1>1, <1>2, PickType
<1>4. PICK n \in Nat : items \in [1..n -> T]
  BY <1>3
<1>5. ASSUME NEW i \in T PROVE <<f, i.cell[1], i.cell[2]>> \in Cells
  <2>1. HasCell(prog.graph[f], i.cell[1], i.cell[2])
    BY DEF T
  <2>2. i.cell[1] \in Nodes(f) /\ i.cell[2] \in Nat
    BY <2>1 DEF HasCell, Nodes
  <2>3. i.cell[1] \in Nat
    BY <2>2, NodesType
  <2> QED BY <2>1, <2>2, <2>3 DEF Cells
<1> HIDE DEF items
<1>6. AccessedCells(f) = [k \in DOMAIN items |-> <<f, items[k].cell[1], items[k].cell[2]>>]
  BY DEF AccessedCells, items, ps, body
<1>7. AccessedCells(f) \in [1..n -> Cells]
  BY <1>4, <1>5, <1>6
<1> QED BY <1>7, FunctionIsSeq

\* The cells that an action asks for.
ComputeAsks(f) ==
    InterfaceCells(f) \o AllCells(f)
        \o FlattenSeq([k \in DOMAIN CallsFrom(f) |->
               ImagesOf(CallsFrom(f)[k], InterfaceCells(Callee(CallsFrom(f)[k])))])
DeclareAsks(f) == IF f = "main" \/ ~prog.mem THEN <<>> ELSE GlobalCells(f)
BuildAsks(f) ==
    AccessedCells(f)
        \o FlattenSeq([k \in DOMAIN CallsFrom(f) |->
               ImagesOf(CallsFrom(f)[k], GlobalCells(Callee(CallsFrom(f)[k])))])

Asks(cells) == Take(MkRegions(Ids, cells), ToSet(cells)) /\ prog' = prog

LEMMA AsksType ==
    ASSUME Fits(prog), NEW f \in prog.funcs
    PROVE  /\ ComputeAsks(f) \in Seq(Cells) /\ DeclareAsks(f) \in Seq(Cells)
           /\ BuildAsks(f) \in Seq(Cells)
<1> DEFINE s1 == FlattenSeq([k \in DOMAIN CallsFrom(f) |->
                     ImagesOf(CallsFrom(f)[k], InterfaceCells(Callee(CallsFrom(f)[k])))])
           s2 == FlattenSeq([k \in DOMAIN CallsFrom(f) |->
                     ImagesOf(CallsFrom(f)[k], GlobalCells(Callee(CallsFrom(f)[k])))])
<1>1. s1 \in Seq(Cells) /\ s2 \in Seq(Cells) /\ AccessedCells(f) \in Seq(Cells)
  BY AskedAtCalls, AccessedType
<1>2. InterfaceCells(f) \in Seq(Cells) /\ AllCells(f) \in Seq(Cells)
  <2> DEFINE A == CellsIn(f, Reach(f) \cup RetReach(f))
  <2>1. InterfaceCells(f) \in Seq(A) /\ A \subseteq Cells
    BY InterfaceType DEF CellsIn
  <2> HIDE DEF A
  <2> QED BY <2>1, InterfaceType, SeqMonotone
<1>3. GlobalCells(f) \in Seq(Cells)
  <2> DEFINE A == CellsIn(f, prog.globals[f])
  <2>1. GlobalCells(f) \in Seq(A) /\ A \subseteq Cells
    BY GlobalsType DEF CellsIn
  <2> HIDE DEF A
  <2> QED BY <2>1, SeqMonotone
<1>4. <<>> \in Seq(Cells)
  OBVIOUS
<1> HIDE DEF s1, s2
<1>5. InterfaceCells(f) \o AllCells(f) \o s1 \in Seq(Cells)
        /\ AccessedCells(f) \o s2 \in Seq(Cells)
  BY <1>1, <1>2
<1> QED BY <1>3, <1>4, <1>5 DEF ComputeAsks, DeclareAsks, BuildAsks, s1, s2

LEMMA ActionsAsk ==
    ASSUME NEW f
    PROVE  /\ ComputeFunction(f) => Asks(ComputeAsks(f)) /\ todo' = todo \ {f}
           /\ AddFunctionDeclaration(f) => Asks(DeclareAsks(f)) /\ todo' = todo \ {f}
           /\ BuildCfg(f) => Asks(BuildAsks(f)) /\ todo' = todo \ {f}
<1>1. ASSUME ComputeFunction(f) PROVE Asks(ComputeAsks(f)) /\ todo' = todo \ {f}
  BY <1>1 DEF ComputeFunction, Asks, ComputeAsks, Callee
<1>2. ASSUME AddFunctionDeclaration(f) PROVE Asks(DeclareAsks(f)) /\ todo' = todo \ {f}
  BY <1>2 DEF AddFunctionDeclaration, Asks, DeclareAsks
<1>3. ASSUME BuildCfg(f) PROVE Asks(BuildAsks(f)) /\ todo' = todo \ {f}
  BY <1>3 DEF BuildCfg, Asks, BuildAsks
<1> QED BY <1>1, <1>2, <1>3

LEMMA RegionInvInit == InterfaceInit => RegionInv
<1> SUFFICES ASSUME InterfaceInit PROVE RegionInv
  OBVIOUS
<1> QED BY DEF InterfaceInit, Init, RegionInv, Apart, GivenRight

LEMMA RegionInvStep == RegionInv /\ [Next]_vars => RegionInv'
<1> SUFFICES ASSUME RegionInv, [Next]_vars PROVE RegionInv'
  OBVIOUS
<1>0. Fits(prog)
  BY ProgramsFit DEF RegionInv
<1>1. ASSUME NEW f \in prog.funcs,
             ComputeFunction(f) \/ AddFunctionDeclaration(f) \/ BuildCfg(f)
      PROVE  RegionInv'
  <2>1. PICK cells \in Seq(Cells) : Asks(cells) /\ todo' = todo \ {f}
    BY <1>0, <1>1, AsksType, ActionsAsk
  <2>2. Take(MkRegions(Ids, cells), ToSet(cells)) /\ prog' = prog /\ todo' \subseteq todo
    BY <2>1 DEF Asks
  <2> QED BY <1>0, <2>2, TakeKeepsRegionInv
<1>2. ASSUME UNCHANGED <<prog, nodeIds, maxId, given>>, todo' \subseteq prog.funcs
      PROVE  RegionInv'
  <2>1. \A x : RegionInfo(x)' = RegionInfo(x)
    BY <1>2 DEF RegionInfo, NodeOf
  <2>2. GivenRight'
    BY <1>2, <2>1 DEF RegionInv, GivenRight, Cells, HasCell, KeyOf
  <2> QED BY <1>2, <2>2 DEF RegionInv, Apart, Taken, NodeOf, Nodes
<1>3. CASE UNCHANGED vars
  BY <1>2, <1>3 DEF vars, heap, RegionInv
<1>4. ASSUME NEW f \in prog.funcs, CheckFunction(f) PROVE RegionInv'
  BY <1>2, <1>4 DEF CheckFunction, RegionInv
<1>5. CASE BeginCheck \/ BeginDeclare \/ BeginBuild \/ Done
  BY <1>2, <1>5 DEF BeginCheck, BeginDeclare, BeginBuild, Done, RegionInv, vars, heap
<1> QED BY <1>1, <1>3, <1>4, <1>5 DEF Next

LEMMA RegionInvAlways == InterfaceSpec => []RegionInv
BY RegionInvInit, RegionInvStep, PTL DEF InterfaceSpec

\* No two cells of the program have the same id.
LEMMA IdsTellCells ==
    ASSUME RegionInv, NEW a \in Cells, NEW b \in Cells,
           KeyOf(a) \in DOMAIN nodeIds, KeyOf(b) \in DOMAIN nodeIds, IdOf(a) = IdOf(b)
    PROVE  a = b
<1>0. Fits(prog)
  BY ProgramsFit DEF RegionInv
<1>1. nodeIds[KeyOf(a)] + a[3] = nodeIds[KeyOf(b)] + b[3]
  BY DEF IdOf, KeyOf
<1>2. /\ nodeIds[KeyOf(a)] \in Nat /\ nodeIds[KeyOf(b)] \in Nat
      /\ KeyOf(a) # KeyOf(b) =>
             \/ nodeIds[KeyOf(a)] + Taken(a[1], a[2]) <= nodeIds[KeyOf(b)]
             \/ nodeIds[KeyOf(b)] + Taken(b[1], b[2]) <= nodeIds[KeyOf(a)]
  BY DEF RegionInv, Apart, KeyOf
<1>3. /\ a[3] \in Nat /\ a[3] < Taken(a[1], a[2]) /\ Taken(a[1], a[2]) \in Nat
      /\ b[3] \in Nat /\ b[3] < Taken(b[1], b[2]) /\ Taken(b[1], b[2]) \in Nat
  <2>1. ASSUME NEW c \in Cells
        PROVE  c[3] \in Nat /\ c[3] < Taken(c[1], c[2]) /\ Taken(c[1], c[2]) \in Nat
    <3>1. c[1] \in prog.funcs /\ HasCell(prog.graph[c[1]], c[2], c[3]) /\ c[3] \in Nat
      BY DEF Cells
    <3>2. c[2] \in Nodes(c[1]) /\ c[3] \in 0..(Taken(c[1], c[2]) - 1)
      BY <1>0, <3>1, CellTaken
    <3>3. Taken(c[1], c[2]) \in Nat
      BY <1>0, <3>1, <3>2, TakenType
    <3> QED BY <3>1, <3>2, <3>3
  <2> QED BY <2>1
<1>4. KeyOf(a) = KeyOf(b)
  BY <1>1, <1>2, <1>3
<1>5. a[3] = b[3]
  BY <1>1, <1>2, <1>3, <1>4
<1>6. a = <<a[1], a[2], a[3]>> /\ b = <<b[1], b[2], b[3]>>
  BY DEF Cells
<1> QED BY <1>4, <1>5, <1>6 DEF KeyOf

(***************************************************************************)
(* mkRegion and getId: however the requests of the passes over functions   *)
(* and calls interleave, two fields get the same region only if they are   *)
(* the same field of the same node.                                        *)
(***************************************************************************)
THEOREM RegionsAreFields == InterfaceSpec => []RegionsIdentifyCells
<1>1. RegionInv => RegionsIdentifyCells
  <2> SUFFICES ASSUME RegionInv, NEW x \in given, NEW y \in given, x[2].id = y[2].id
               PROVE  x[1] = y[1]
    BY DEF RegionsIdentifyCells
  <2>1. /\ x[1] \in Cells /\ KeyOf(x[1]) \in DOMAIN nodeIds /\ x[2].id = IdOf(x[1])
        /\ y[1] \in Cells /\ KeyOf(y[1]) \in DOMAIN nodeIds /\ y[2].id = IdOf(y[1])
    BY DEF RegionInv, GivenRight, IdOf, KeyOf
  <2> QED BY <2>1, IdsTellCells
<1> QED BY <1>1, RegionInvAlways, PTL

-----------------------------------------------------------------------------
(* What a region with a type stands for *)

\* Accesses of one definite size: SizeOf, and what Bytes chooses.
LEMMA SizeIs ==
    ASSUME NEW types, types # {}, SizeOf(types) # 0
    PROVE  /\ SizeOf(types) \in 1..2
           /\ SizeOf(types) = CHOOSE s \in 1..2 : /\ \E t \in types : StorageSize(t) = s
                                                 /\ \A t \in types : StorageSize(t) <= s
<1>1. PICK s \in 1..2 : \A t \in types : StorageSize(t) = s
  BY DEF SizeOf
<1>2. SizeOf(types) = s
  BY <1>1 DEF SizeOf
<1> DEFINE P(r) == /\ \E t \in types : StorageSize(t) = r
                   /\ \A t \in types : StorageSize(t) <= r
<1>3. P(s)
  BY <1>1
<1>4. \A r \in 1..2 : P(r) => r = s
  BY <1>1
<1>5. (CHOOSE r \in 1..2 : P(r)) = s
  <2> HIDE DEF P
  <2> QED BY <1>3, <1>4
<1> QED BY <1>2, <1>5

(***************************************************************************)
(* getRegion, isOverlappingCell: where every field of an object is         *)
(* accessed with one size, no other field reaches into the bytes of a      *)
(* region that has a type.                                                 *)
(***************************************************************************)
THEOREM RegionsDoNotOverlap == InterfaceSpec => []UniformRegionsAreDisjoint
<1>1. RegionInv => UniformRegionsAreDisjoint
  <2> SUFFICES ASSUME RegionInv, NEW x \in given,
                      ~IsUnknown(x[2]),
                      \A o \in DOMAIN NodeOf(x[1][1], x[1][2]).types :
                          SizeOf(NodeOf(x[1][1], x[1][2]).types[o]) # 0,
                      NEW o2 \in DOMAIN NodeOf(x[1][1], x[1][2]).types \ {x[1][3]}
               PROVE  Bytes(NodeOf(x[1][1], x[1][2]), o2)
                          \cap Bytes(NodeOf(x[1][1], x[1][2]), x[1][3]) = {}
    BY DEF UniformRegionsAreDisjoint
  <2> DEFINE node == NodeOf(x[1][1], x[1][2])
             o == x[1][3]
             Size(p) == SizeOf(node.types[p])
  <2>1. x[1] \in Cells /\ RegionInfo(x[1]).type # "unknown"
    BY DEF RegionInv, GivenRight, IsUnknown
  <2>2. o \in DOMAIN node.types /\ ~IsOverlapping(node, o)
    BY <2>1 DEF RegionInfo, Untyped, IsDisjoint
  <2>3. /\ GraphFits(prog.graph[x[1][1]]) /\ x[1][2] \in DOMAIN prog.graph[x[1][1]].node
        /\ node = prog.graph[x[1][1]].node[x[1][2]] /\ Fits(prog)
    BY <2>1, ProgramsFit DEF RegionInv, Cells, Fits, NodeOf, HasCell
  <2>4. \A p \in DOMAIN node.types : p \in Int /\ node.types[p] # {} /\ Size(p) # 0
    <3>1. \A p \in DOMAIN node.types :
              HasCell(prog.graph[x[1][1]], x[1][2], p) /\ node.types[p] # {}
      BY <2>3 DEF GraphFits
    <3>2. ASSUME NEW p \in DOMAIN node.types PROVE p \in Int
      <4>1. HasCell(prog.graph[x[1][1]], x[1][2], p) /\ x[1][1] \in prog.funcs
        BY <2>1, <3>1 DEF Cells
      <4>2. p \in 0..(Taken(x[1][1], x[1][2]) - 1)
        BY <2>3, <4>1, CellTaken
      <4> QED BY <4>2
    <3> QED BY <3>1, <3>2
  <2> HIDE DEF node, o
  <2>5. \A p \in DOMAIN node.types : Size(p) \in 1..2 /\ Bytes(node, p) = p..(p + Size(p) - 1)
    <3> TAKE p \in DOMAIN node.types
    <3>1. node.types[p] # {} /\ SizeOf(node.types[p]) # 0
      BY <2>4
    <3>2. /\ Size(p) \in 1..2
          /\ Size(p) = CHOOSE s \in 1..2 :
                           /\ \E t \in node.types[p] : StorageSize(t) = s
                           /\ \A t \in node.types[p] : StorageSize(t) <= s
      BY <3>1, SizeIs
    <3> QED BY <3>2, Zenon DEF Bytes
  <2>6. ~ Intersect(o, Size(o), o2, Size(o2))
    BY <2>2, <2>4 DEF IsOverlapping, node, o
  <2>7. o \in Int /\ o2 \in Int /\ Size(o) \in 1..2 /\ Size(o2) \in 1..2
    BY <2>2, <2>4, <2>5 DEF node, o
  <2> HIDE DEF Size
  <2>8. (o2..(o2 + Size(o2) - 1)) \cap (o..(o + Size(o) - 1)) = {}
    BY <2>6, <2>7 DEF Intersect
  <2>9. Bytes(node, o2) = o2..(o2 + Size(o2) - 1) /\ Bytes(node, o) = o..(o + Size(o) - 1)
    BY <2>2, <2>5 DEF node, o
  <2> QED BY <2>8, <2>9 DEF node, o
<1> QED BY <1>1, RegionInvAlways, PTL

-----------------------------------------------------------------------------
(* Lists of regions that are filtered by position *)

(***************************************************************************)
(* r is the region of the cell x, and rs the regions of those of the cells *)
(* that are at the positions ps, in this order.                            *)
(***************************************************************************)
IsRegion(r, x) ==
    /\ KeyOf(x) \in DOMAIN nodeIds /\ r.id = IdOf(x)
    /\ r.type = RegionInfo(x).type
    /\ r.heap = ("heap" \in NodeOf(x[1], x[2]).flags)

IsIndex(ps) == IsFiniteSet(ps) /\ ps \subseteq Int

RegionsOf(rs, cells, ps) ==
    /\ IsIndex(ps) /\ ps \subseteq DOMAIN cells
    /\ IsList(rs, Cardinality(ps))
    /\ \A j \in 1..Cardinality(ps) : IsRegion(rs[j], cells[InOrder(ps)[j]])

\* What the region of a cell will be tracked for.
TrackedCell(x) ==
    prog.mem \/ /\ RegionInfo(x).type \in {"int", "bool"}
                /\ "heap" \notin NodeOf(x[1], x[2]).flags

LEMMA IndexParts ==
    ASSUME NEW ps, IsIndex(ps), NEW ts, ts \subseteq ps
    PROVE  IsIndex(ts)
<1>1. IsFiniteSet(ps) /\ ps \subseteq Int /\ ts \in SUBSET ps
  BY DEF IsIndex
<1>2. IsFiniteSet(ts)
  BY <1>1, FS_Subset
<1>3. ts \subseteq Int
  BY <1>1
<1> QED BY <1>2, <1>3 DEF IsIndex

LEMMA IndexOrder ==
    ASSUME NEW ps, IsIndex(ps)
    PROVE  /\ Cardinality(ps) \in Nat
           /\ InOrder(ps) \in [1..Cardinality(ps) -> ps]
           /\ \A m \in ps : \E k \in 1..Cardinality(ps) : InOrder(ps)[k] = m
           /\ \A k, l \in 1..Cardinality(ps) : k # l => InOrder(ps)[k] # InOrder(ps)[l]
<1>1. IsFiniteSet(ps) /\ ps \subseteq Int
  BY DEF IsIndex
<1>2. /\ Cardinality(ps) \in Nat
      /\ InOrder(ps) \in [1..Cardinality(ps) -> ps]
      /\ \A m \in ps : \E k \in 1..Cardinality(ps) : InOrder(ps)[k] = m
      /\ \A k, l \in 1..Cardinality(ps) : k < l => InOrder(ps)[k] < InOrder(ps)[l]
  BY <1>1, InOrderProperties
<1> DEFINE at == InOrder(ps)
           n == Cardinality(ps)
<1>3. ASSUME NEW k \in 1..n, NEW l \in 1..n, k # l PROVE at[k] # at[l]
  <2> HIDE DEF at, n
  <2>1. at[k] \in Int /\ at[l] \in Int
    BY <1>1, <1>2 DEF at, n
  <2>2. k < l \/ l < k
    BY <1>2, <1>3 DEF n
  <2>3. at[k] < at[l] \/ at[l] < at[k]
    BY <1>2, <2>2 DEF at, n
  <2> QED BY <2>1, <2>3
<1> QED BY <1>2, <1>3

LEMMA PickRegions ==
    ASSUME NEW cells, NEW ps, NEW rs, RegionsOf(rs, cells, ps), NEW qs, NEW ts, Select(qs, ps, ts)
    PROVE  RegionsOf(Pick(rs, qs), cells, ts)
<1>1. /\ IsIndex(ps) /\ ps \subseteq DOMAIN cells /\ DOMAIN rs = 1..Cardinality(ps)
      /\ \A j \in 1..Cardinality(ps) : IsRegion(rs[j], cells[InOrder(ps)[j]])
      /\ ts \subseteq ps /\ qs \subseteq DOMAIN rs
  BY DEF RegionsOf, Select, IsList
<1> DEFINE picked == Pick(rs, qs)
           n == Cardinality(ts)
<1>2. /\ IsList(picked, n)
      /\ \A j \in 1..n : \E i \in DOMAIN rs :
             picked[j] = rs[i] /\ InOrder(ps)[i] = InOrder(ts)[j]
  <2>1. DOMAIN rs = 1..Cardinality(ps)
    BY <1>1
  <2>2. StandsFor(picked, rs, ps, ts)
    BY <2>1, PickSome
  <2> HIDE DEF picked
  <2> QED BY <2>2 DEF StandsFor
<1> HIDE DEF picked, n
<1>3. \A j \in 1..n : IsRegion(picked[j], cells[InOrder(ts)[j]])
  <2> TAKE j \in 1..n
  <2>1. PICK i \in DOMAIN rs : picked[j] = rs[i] /\ InOrder(ps)[i] = InOrder(ts)[j]
    BY <1>2
  <2>2. IsRegion(rs[i], cells[InOrder(ps)[i]])
    BY <1>1
  <2> QED BY <2>1, <2>2
<1>4. IsIndex(ts)
  BY <1>1, IndexParts
<1> QED BY <1>1, <1>2, <1>3, <1>4 DEF RegionsOf, picked, n

LEMMA TrackedRegion ==
    ASSUME NEW r, NEW x, IsRegion(r, x)
    PROVE  Tracked(r) <=> TrackedCell(x)
BY DEF IsRegion, Tracked, TrackedCell

\* Tracked regions.
LEMMA TrackedInRegions ==
    ASSUME NEW cells, NEW ps, NEW rs, RegionsOf(rs, cells, ps)
    PROVE  RegionsOf(TrackedIn(rs), cells, {k \in ps : TrackedCell(cells[k])})
<1> DEFINE ts == {k \in ps : TrackedCell(cells[k])}
           qs == {j \in DOMAIN rs : Tracked(rs[j])}
<1>1. /\ IsIndex(ps) /\ DOMAIN rs = 1..Cardinality(ps)
      /\ \A j \in 1..Cardinality(ps) : IsRegion(rs[j], cells[InOrder(ps)[j]])
  BY DEF RegionsOf, IsList
<1>2. \A j \in DOMAIN rs : InOrder(ps)[j] \in ps
  BY <1>1, IndexOrder
<1>3. \A j \in DOMAIN rs : j \in qs <=> InOrder(ps)[j] \in ts
  <2> TAKE j \in DOMAIN rs
  <2>1. Tracked(rs[j]) <=> TrackedCell(cells[InOrder(ps)[j]])
    BY <1>1, TrackedRegion
  <2> QED BY <1>2, <2>1
<1>4. Select(qs, ps, ts)
  <2>1. ts \subseteq ps /\ qs \subseteq DOMAIN rs
    OBVIOUS
  <2> HIDE DEF ts, qs
  <2> QED BY <1>1, <1>3, <2>1 DEF Select, IsIndex
<1> HIDE DEF ts, qs
<1>5. RegionsOf(Pick(rs, qs), cells, ts)
  BY <1>4, PickRegions
<1> QED BY <1>5 DEF TrackedIn, ts, qs

(***************************************************************************)
(* stable_difference: what is read but not modified, if no region of the   *)
(* second list is that of a position which only the first has.             *)
(***************************************************************************)
LEMMA CountIs ==
    ASSUME NEW cells, NEW ps, NEW rs, RegionsOf(rs, cells, ps), NEW id
    PROVE  LET at == {k \in ps : IdOf(cells[k]) = id} IN
           /\ Count(rs, id) = Cardinality(at) /\ IsFiniteSet(at)
           /\ \A n \in 1..Cardinality(ps) :
                  /\ Count(SubSeq(rs, 1, n), id) \in Nat
                  /\ Count(SubSeq(rs, 1, n), id) <= Cardinality(at)
                  /\ rs[n].id = id => Count(SubSeq(rs, 1, n), id) > 0
<1> DEFINE at == {k \in ps : IdOf(cells[k]) = id}
           js == {j \in DOMAIN rs : rs[j].id = id}
           N == Cardinality(ps)
           o == InOrder(ps)
<1>1. /\ IsIndex(ps) /\ DOMAIN rs = 1..N /\ rs = [j \in 1..N |-> rs[j]]
      /\ \A j \in 1..N : IsRegion(rs[j], cells[o[j]])
  BY DEF RegionsOf, IsList
<1>2. /\ N \in Nat /\ o \in [1..N -> ps] /\ \A m \in ps : \E k \in 1..N : o[k] = m
      /\ \A k, l \in 1..N : k # l => o[k] # o[l]
  BY <1>1, IndexOrder
<1>3. \A j \in 1..N : rs[j].id = IdOf(cells[o[j]])
  BY <1>1 DEF IsRegion
<1>4. IsFiniteSet(ps)
  BY <1>1 DEF IsIndex
<1> HIDE DEF N, o
<1>5. IsFiniteSet(at) /\ IsFiniteSet(js)
  <2>1. at \in SUBSET ps
    OBVIOUS
  <2>2. js \in SUBSET (1..N) /\ IsFiniteSet(1..N)
    BY <1>1, <1>2, FS_Interval
  <2> HIDE DEF at, js
  <2>3. IsFiniteSet(at)
    BY <1>4, <2>1, FS_Subset
  <2>4. IsFiniteSet(js)
    BY <2>2, FS_Subset
  <2> QED BY <2>3, <2>4
<1>6. Cardinality(js) = Cardinality(at)
  <2> DEFINE g == [j \in js |-> o[j]]
  <2>1. \A j \in js : g[j] \in at
    BY <1>1, <1>2, <1>3
  <2>2. \A j, k \in js : g[j] = g[k] => j = k
    BY <1>1, <1>2
  <2>3. \A m \in at : \E j \in js : g[j] = m
    <3> TAKE m \in at
    <3>1. PICK j \in 1..N : o[j] = m
      BY <1>2
    <3>2. j \in js
      BY <1>1, <1>3, <3>1
    <3> QED BY <3>1, <3>2
  <2>4. g \in [js -> at]
    BY <2>1
  <2> HIDE DEF g, js, at
  <2>5. g \in Bijection(js, at)
    BY <2>2, <2>3, <2>4, Z3 DEF Bijection, Injection, IsInjective, Surjection
  <2>6. ExistsBijection(js, at)
    BY <2>5 DEF ExistsBijection
  <2> QED BY <1>5, <2>6, FS_Bijection
<1>7. Count(rs, id) = Cardinality(js)
  BY DEF Count
<1>8. ASSUME NEW n \in 1..N
      PROVE  /\ Count(SubSeq(rs, 1, n), id) \in Nat
             /\ Count(SubSeq(rs, 1, n), id) <= Cardinality(at)
             /\ rs[n].id = id => Count(SubSeq(rs, 1, n), id) > 0
  <2> DEFINE ms == {j \in 1..n : rs[j].id = id}
             sub == SubSeq(rs, 1, n)
  <2>1. DOMAIN sub = 1..n /\ \A j \in 1..n : sub[j] = rs[j]
    <3> DEFINE U == {rs[j] : j \in 1..N}
    <3>1. rs \in [1..N -> U]
      BY <1>1
    <3> HIDE DEF U
    <3>2. rs \in Seq(U) /\ Len(rs) = N
      BY <1>2, <3>1, FunctionIsSeq
    <3>3. n \in Nat /\ n <= N /\ 1 <= n
      BY <1>2
    <3> QED BY <3>2, <3>3
  <2>2. Count(sub, id) = Cardinality(ms)
    <3>1. {k \in DOMAIN sub : sub[k].id = id} = ms
      BY <2>1
    <3> QED BY <3>1 DEF Count
  <2>3. ms \in SUBSET js /\ (rs[n].id = id => n \in ms)
    BY <1>1, <1>2
  <2> HIDE DEF ms, js
  <2>4. IsFiniteSet(ms) /\ Cardinality(ms) <= Cardinality(js)
    BY <1>5, <2>3, FS_Subset
  <2>5. Cardinality(ms) \in Nat
    BY <2>4, FS_CardinalityType
  <2>6. n \in ms => Cardinality(ms) # 0
    BY <2>4, FS_EmptySet
  <2> QED BY <1>6, <2>2, <2>3, <2>4, <2>5, <2>6
<1> HIDE DEF at, js
<1>9. /\ Count(rs, id) = Cardinality(at) /\ IsFiniteSet(at)
  BY <1>5, <1>6, <1>7
<1> QED BY <1>8, <1>9 DEF at, N

\* M is part of A, and no region of M is that of a position outside of M.
Separated(cells, A, M) ==
    M \subseteq A /\ \A j \in A, k \in M : IdOf(cells[j]) = IdOf(cells[k]) => j \in M

LEMMA StableDifferenceIs ==
    ASSUME NEW cells, NEW A, NEW M, Separated(cells, A, M),
           NEW v1, RegionsOf(v1, cells, A), NEW v2, RegionsOf(v2, cells, M)
    PROVE  RegionsOf(StableDifference(v1, v2), cells, A \ M)
<1> DEFINE Before(k) == Count(SubSeq(v1, 1, k), v1[k].id)
           qs == {k \in DOMAIN v1 : Before(k) > Count(v2, v1[k].id)}
           o == InOrder(A)
           N == Cardinality(A)
<1>1. /\ IsIndex(A) /\ A \subseteq DOMAIN cells /\ DOMAIN v1 = 1..N
      /\ \A k \in 1..N : v1[k].id = IdOf(cells[o[k]])
  BY DEF RegionsOf, IsList, IsRegion
<1>2. \A k \in 1..N : o[k] \in A
  BY <1>1, IndexOrder
<1>3. M \subseteq A /\ \A j \in A, k \in M : IdOf(cells[j]) = IdOf(cells[k]) => j \in M
  BY DEF Separated
<1> HIDE DEF o, N
<1>4. ASSUME NEW k \in 1..N PROVE Before(k) > Count(v2, v1[k].id) <=> o[k] \in A \ M
  <2> DEFINE id == v1[k].id
             at1 == {j \in A : IdOf(cells[j]) = id}
             at2 == {j \in M : IdOf(cells[j]) = id}
  <2>1. id = IdOf(cells[o[k]]) /\ o[k] \in A
    BY <1>1, <1>2
  <2> HIDE DEF id
  <2>2. Before(k) \in Nat /\ Before(k) <= Cardinality(at1) /\ Before(k) > 0
    <3>1. /\ Count(SubSeq(v1, 1, k), id) \in Nat
          /\ Count(SubSeq(v1, 1, k), id) <= Cardinality(at1)
          /\ v1[k].id = id => Count(SubSeq(v1, 1, k), id) > 0
      BY CountIs DEF N
    <3> QED BY <3>1 DEF id
  <2>3. Count(v2, id) = Cardinality(at2) /\ IsFiniteSet(at2)
    BY CountIs
  <2>4. CASE o[k] \in M
    <3>1. at1 = at2
      BY <1>3, <2>1, <2>4
    <3>2. Cardinality(at2) \in Nat
      BY <2>3, FS_CardinalityType
    <3> HIDE DEF at1, at2, Before
    <3>3. ~ (Before(k) > Count(v2, id))
      BY <2>2, <2>3, <3>1, <3>2
    <3> QED BY <2>4, <3>3 DEF id
  <2>5. CASE o[k] \notin M
    <3>1. at2 = {}
      BY <1>3, <2>1, <2>5
    <3>2. Count(v2, id) = 0
      <4> HIDE DEF at2
      <4> QED BY <2>3, <3>1, FS_EmptySet
    <3> HIDE DEF at1, at2, Before
    <3>3. Before(k) > Count(v2, id)
      BY <2>2, <3>2
    <3> QED BY <2>1, <2>5, <3>3 DEF id
  <2> QED BY <2>4, <2>5
<1>5. Select(qs, A, A \ M)
  <2>1. \A k \in 1..N : k \in qs <=> o[k] \in A \ M
    BY <1>1, <1>4
  <2>2. qs \subseteq 1..N
    BY <1>1
  <2> HIDE DEF qs
  <2> QED BY <1>1, <2>1, <2>2 DEF Select, IsIndex, o, N
<1> HIDE DEF qs
<1>6. RegionsOf(Pick(v1, qs), cells, A \ M)
  BY <1>5, PickRegions
<1> QED BY <1>6 DEF StableDifference, qs

-----------------------------------------------------------------------------
(* Which regions a function and its calls get *)

\* The positions of a list, and those that survive the sanity check.
Listed(l, f) ==
    {k \in DOMAIN InterfaceCells(f) : InList(l, f, InterfaceCells(f)[k], RetReach(f))}

Agrees(f, cell) ==
    \A c \in CallsTo(f) : HasCompatibleType(RegionInfo(cell), RegionInfo(Image(c, cell)))

KeptAt(l, f) == {k \in Listed(l, f) : Agrees(f, InterfaceCells(f)[k])}

\* What is passed, if the cells are those of f or their images in a caller.
ReadAt(f, cells) ==
    {k \in KeptAt("accessed", f) \ KeptAt("mods", f) : TrackedCell(cells[k])}
ModAt(f, cells) == {k \in KeptAt("mods", f) : TrackedCell(cells[k])}
NewAt(f, cells) == {k \in KeptAt("news", f) : TrackedCell(cells[k])}

(***************************************************************************)
(* The cells stand for those of the interface of f: the node of one that   *)
(* is modified stands for no other node.                                   *)
(***************************************************************************)
Represent(cells, f) ==
    LET own == InterfaceCells(f) IN
    /\ DOMAIN cells = DOMAIN own
    /\ \A k \in DOMAIN own : cells[k] \in Cells
    /\ \A j, k \in DOMAIN own :
           KeyOf(cells[j]) = KeyOf(cells[k]) /\ "mod" \in NodeOf(f, own[k][2]).flags
               => own[j][2] = own[k][2]

LEMMA InterfaceShape ==
    ASSUME Fits(prog), NEW f \in prog.funcs
    PROVE  \E n \in Nat :
               InterfaceCells(f) \in [1..n -> CellsIn(f, Reach(f) \cup RetReach(f))]
<1> DEFINE T == CellsIn(f, Reach(f) \cup RetReach(f))
           cells == InterfaceCells(f)
<1>1. cells \in Seq(T)
  BY InterfaceType
<1> HIDE DEF T, cells
<1>2. \E n \in Nat : cells \in [1..n -> T]
  BY <1>1
<1> QED BY <1>2 DEF T, cells

LEMMA OwnCells ==
    ASSUME Fits(prog), NEW f \in prog.funcs
    PROVE  Represent(InterfaceCells(f), f)
<1>1. PICK n \in Nat :
          InterfaceCells(f) \in [1..n -> CellsIn(f, Reach(f) \cup RetReach(f))]
  BY InterfaceShape
<1> DEFINE own == InterfaceCells(f)
<1>2. \A k \in DOMAIN own : own[k] \in Cells
  BY <1>1 DEF CellsIn
<1>3. \A j, k \in DOMAIN own : KeyOf(own[j]) = KeyOf(own[k]) => own[j][2] = own[k][2]
  BY DEF KeyOf
<1> HIDE DEF own
<1> QED BY <1>2, <1>3 DEF Represent, own

LEMMA CallersCells ==
    ASSUME Fits(prog), NEW c \in Calls
    PROVE  /\ Callee(c) \in prog.funcs
           /\ Represent(ImagesOf(c, InterfaceCells(Callee(c))), Callee(c))
<1> DEFINE g == prog.calls[c].callee
           caller == prog.calls[c].caller
           own == InterfaceCells(g)
           cells == ImagesOf(c, own)
           image == prog.calls[c].image
<1>1. g \in prog.funcs /\ caller \in prog.funcs /\ Callee(c) = g
        /\ ImageFits(image, prog.graph[g], prog.graph[caller])
  BY DEF Fits, Calls, Callee
<1>2. Reach(g) \cup RetReach(g) \subseteq DOMAIN image
  BY ReachIsMapped
<1>3. PICK n \in Nat : own \in [1..n -> CellsIn(g, Reach(g) \cup RetReach(g))]
  BY <1>1, InterfaceShape
<1>4. \A k \in DOMAIN own : own[k] \in CellsIn(g, DOMAIN image)
  <2> HIDE DEF g, own, image
  <2> TAKE k \in DOMAIN own
  <2>1. own[k] \in CellsIn(g, Reach(g) \cup RetReach(g))
    BY <1>3
  <2> QED BY <1>2, <2>1 DEF CellsIn
<1>5. DOMAIN cells = DOMAIN own /\ \A k \in DOMAIN own : cells[k] = Image(c, own[k])
  BY DEF ImagesOf
<1>6. \A k \in DOMAIN own : cells[k] \in Cells
  BY <1>4, <1>5, ImageType
<1>7. ASSUME NEW j \in DOMAIN own, NEW k \in DOMAIN own,
             KeyOf(cells[j]) = KeyOf(cells[k]), "mod" \in NodeOf(g, own[k][2]).flags
      PROVE  own[j][2] = own[k][2]
  <2>1. own[j][2] \in DOMAIN image /\ own[k][2] \in DOMAIN image
    BY <1>4 DEF CellsIn
  <2>2. KeyOf(cells[j])[2] = image[own[j][2]][1] /\ KeyOf(cells[k])[2] = image[own[k][2]][1]
    <3>1. \A x : KeyOf(Image(c, x))[2] = image[x[2]][1]
      BY DEF KeyOf, Image
    <3> HIDE DEF own, cells, image
    <3> QED BY <1>5, <3>1
  <2>3. image[own[k][2]][1] = image[own[j][2]][1]
    <3>1. PICK a, b : a = KeyOf(cells[j]) /\ b = KeyOf(cells[k])
      OBVIOUS
    <3>2. a = b /\ a[2] = image[own[j][2]][1] /\ b[2] = image[own[k][2]][1]
      BY <1>7, <2>2, <3>1, Zenon
    <3> QED BY <3>2
  <2>4. "mod" \in prog.graph[g].node[own[k][2]].flags
    BY <1>7 DEF NodeOf
  <2> HIDE DEF g, own, image, caller
  <2> QED BY <1>1, <2>1, <2>3, <2>4 DEF ImageFits
<1> HIDE DEF g, own, cells
<1>8. Represent(cells, g)
  BY <1>5, <1>6, <1>7 DEF Represent, own
<1> QED BY <1>1, <1>8 DEF cells, own, g

LEMMA RegionKnown ==
    ASSUME NEW rs, NEW cells, NEW ps, RegionsOf(rs, cells, ps), NEW k \in ps
    PROVE  k \in DOMAIN cells /\ KeyOf(cells[k]) \in DOMAIN nodeIds
<1>1. /\ IsIndex(ps) /\ ps \subseteq DOMAIN cells
      /\ \A j \in 1..Cardinality(ps) : IsRegion(rs[j], cells[InOrder(ps)[j]])
  BY DEF RegionsOf
<1>2. PICK j \in 1..Cardinality(ps) : InOrder(ps)[j] = k
  BY <1>1, IndexOrder
<1> QED BY <1>1, <1>2 DEF IsRegion

\* The same region means the same node of f, if it is modified.
LEMMA SameRegion ==
    ASSUME RegionInv, NEW f, NEW cells, Represent(cells, f),
           NEW j \in DOMAIN cells, NEW k \in DOMAIN cells,
           KeyOf(cells[j]) \in DOMAIN nodeIds, KeyOf(cells[k]) \in DOMAIN nodeIds,
           IdOf(cells[j]) = IdOf(cells[k]),
           "mod" \in NodeOf(f, InterfaceCells(f)[k][2]).flags
    PROVE  InterfaceCells(f)[j][2] = InterfaceCells(f)[k][2]
<1>1. cells[j] \in Cells /\ cells[k] \in Cells
  BY DEF Represent
<1>2. cells[j] = cells[k]
  BY <1>1, IdsTellCells
<1> QED BY <1>2 DEF Represent

(***************************************************************************)
(* The regions that go in and come out, given the lists.                   *)
(***************************************************************************)
LEMMA ListsOf ==
    ASSUME RegionInv, NEW f, NEW cells, Represent(cells, f),
           NEW lists, \A l \in Lists : RegionsOf(lists[l], cells, KeptAt(l, f))
    PROVE  /\ RegionsOf(InRegions(lists), cells, ReadAt(f, cells))
           /\ RegionsOf(InOutRegions(lists), cells, ModAt(f, cells))
           /\ RegionsOf(OutRegions(lists), cells, NewAt(f, cells))
<1> DEFINE own == InterfaceCells(f)
           A == KeptAt("accessed", f)
           M == KeptAt("mods", f)
           N == KeptAt("news", f)
<1>1. /\ RegionsOf(lists["accessed"], cells, A)
      /\ RegionsOf(lists["mods"], cells, M) /\ RegionsOf(lists["news"], cells, N)
  BY DEF Lists
<1>2. /\ \A k \in A : own[k][2] \notin RetReach(f)
      /\ \A k \in M : own[k][2] \notin RetReach(f) /\ "mod" \in NodeOf(f, own[k][2]).flags
      /\ \A k \in N : own[k][2] \in RetReach(f)
  BY DEF KeptAt, Listed, InList
<1>3. /\ A \subseteq DOMAIN own /\ M \subseteq DOMAIN own /\ N \subseteq DOMAIN own
      /\ \A k \in A : Agrees(f, own[k])
      /\ \A k \in DOMAIN own :
             (/\ own[k][2] \notin RetReach(f) /\ "mod" \in NodeOf(f, own[k][2]).flags
              /\ Agrees(f, own[k])) => k \in M
  <2>1. A \subseteq DOMAIN own /\ M \subseteq DOMAIN own /\ N \subseteq DOMAIN own
    BY DEF KeptAt, Listed
  <2>2. \A k \in A : Agrees(f, own[k])
    BY DEF KeptAt
  <2>3. ASSUME NEW k \in DOMAIN own, own[k][2] \notin RetReach(f),
               "mod" \in NodeOf(f, own[k][2]).flags, Agrees(f, own[k])
        PROVE  k \in M
    <3>1. InList("mods", f, own[k], RetReach(f))
      BY <2>3 DEF InList
    <3> QED BY <2>3, <3>1 DEF KeptAt, Listed
  <2> HIDE DEF A, M, N, own
  <2> QED BY <2>1, <2>2, <2>3
<1>4. M \subseteq A
  BY DEF KeptAt, Listed, InList
<1> HIDE DEF own, A, M, N
<1>5. /\ \A k \in A : k \in DOMAIN cells /\ KeyOf(cells[k]) \in DOMAIN nodeIds
      /\ \A k \in N : k \in DOMAIN cells /\ KeyOf(cells[k]) \in DOMAIN nodeIds
  BY <1>1, RegionKnown
<1>6. ASSUME NEW j \in A, NEW k \in M, IdOf(cells[j]) = IdOf(cells[k]) PROVE j \in M
  <2>1. own[j][2] = own[k][2]
    BY <1>2, <1>4, <1>5, <1>6, SameRegion DEF own
  <2> QED BY <1>2, <1>3, <2>1
<1>7. ASSUME NEW j \in N, NEW k \in M PROVE IdOf(cells[j]) # IdOf(cells[k])
  <2>1. IdOf(cells[j]) = IdOf(cells[k]) => own[j][2] = own[k][2]
    BY <1>2, <1>4, <1>5, SameRegion DEF own
  <2> QED BY <1>2, <2>1
<1>8. RegionsOf(InRegions(lists), cells, ReadAt(f, cells))
  <2>1. Separated(cells, A, M)
    BY <1>4, <1>6 DEF Separated
  <2>2. RegionsOf(OnlyRead(lists), cells, A \ M)
    BY <1>1, <2>1, StableDifferenceIs DEF OnlyRead
  <2>3. RegionsOf(TrackedIn(OnlyRead(lists)), cells, {k \in A \ M : TrackedCell(cells[k])})
    BY <2>2, TrackedInRegions
  <2> QED BY <2>3 DEF InRegions, ReadAt, A, M
<1>9. RegionsOf(OutRegions(lists), cells, NewAt(f, cells))
  <2>1. RegionsOf(TrackedIn(lists["news"]), cells, {k \in N : TrackedCell(cells[k])})
    BY <1>1, TrackedInRegions
  <2> QED BY <2>1 DEF OutRegions, New, NewAt, N
<1>10. RegionsOf(InOutRegions(lists), cells, ModAt(f, cells))
  <2> DEFINE mods == TrackedIn(Modified(lists))
             outs == OutRegions(lists)
             P == ModAt(f, cells)
             qs == {j \in DOMAIN mods : \A k \in DOMAIN outs : outs[k].id # mods[j].id}
  <2>1. RegionsOf(mods, cells, P)
    <3>1. RegionsOf(TrackedIn(lists["mods"]), cells, {k \in M : TrackedCell(cells[k])})
      BY <1>1, TrackedInRegions
    <3> QED BY <3>1 DEF Modified, ModAt, M
  <2>2. P \subseteq M /\ NewAt(f, cells) \subseteq N
    BY DEF ModAt, NewAt, M, N
  <2> HIDE DEF mods, outs, P
  <2>3. /\ IsIndex(P) /\ DOMAIN mods = 1..Cardinality(P)
        /\ \A j \in DOMAIN mods : mods[j].id = IdOf(cells[InOrder(P)[j]])
    BY <2>1 DEF RegionsOf, IsList, IsRegion
  <2>4. \A j \in DOMAIN mods : InOrder(P)[j] \in P
    BY <2>3, IndexOrder
  <2> DEFINE Q == NewAt(f, cells)
  <2> HIDE DEF Q
  <2>5. /\ IsIndex(Q) /\ DOMAIN outs = 1..Cardinality(Q)
        /\ \A j \in DOMAIN outs : outs[j].id = IdOf(cells[InOrder(Q)[j]])
    BY <1>9 DEF RegionsOf, IsList, IsRegion, Q, outs
  <2>6. \A j \in DOMAIN outs : InOrder(Q)[j] \in Q
    BY <2>5, IndexOrder
  <2>7. ASSUME NEW j \in DOMAIN mods, NEW k \in DOMAIN outs PROVE outs[k].id # mods[j].id
    <3>1. InOrder(P)[j] \in M /\ InOrder(Q)[k] \in N
      BY <2>2, <2>4, <2>6 DEF Q
    <3>2. IdOf(cells[InOrder(Q)[k]]) # IdOf(cells[InOrder(P)[j]])
      BY <1>7, <3>1
    <3> QED BY <2>3, <2>5, <3>2
  <2>8. qs = DOMAIN mods
    BY <2>7
  <2>9. Select(qs, P, P)
    BY <2>3, <2>4, <2>8 DEF Select, IsIndex
  <2> HIDE DEF qs
  <2>10. RegionsOf(Pick(mods, qs), cells, P)
    BY <2>1, <2>9, PickRegions
  <2> QED BY <2>10 DEF InOutRegions, mods, outs, qs, P
<1> QED BY <1>8, <1>9, <1>10

-----------------------------------------------------------------------------
(* The lists of functions and calls *)

\* Whether the two passes have looked at f.
Computed(f) == pc # "compute" \/ f \notin todo
Checked(f) == pc \in {"declare", "build", "error"} \/ (pc = "check" /\ f \notin todo)

FunRight(f) ==
    /\ f \in DOMAIN fun
    /\ \A l \in Lists : RegionsOf(fun[f][l], InterfaceCells(f),
                                  IF Checked(f) THEN KeptAt(l, f) ELSE Listed(l, f))

\* A list of a call before the sanity check.
ListedAt(rs, c, ps) ==
    LET own == InterfaceCells(Callee(c)) IN
    /\ IsIndex(ps) /\ ps \subseteq DOMAIN own /\ IsList(rs, Cardinality(ps))
    /\ \A j \in 1..Cardinality(ps) :
           LET x == own[InOrder(ps)[j]] IN
           /\ IsRegion(rs[j].rgn, Image(c, x))
           /\ rs[j].compatible = HasCompatibleType(RegionInfo(x), RegionInfo(Image(c, x)))

CallRight(c) ==
    /\ c \in DOMAIN call
    /\ \A l \in Lists :
           IF Checked(Callee(c))
           THEN RegionsOf(call[c][l], ImagesOf(c, InterfaceCells(Callee(c))),
                          KeptAt(l, Callee(c)))
           ELSE ListedAt(call[c][l], c, Listed(l, Callee(c)))

(***************************************************************************)
(* Every list of a function or of a call that has been computed has the    *)
(* regions of the cells at the positions of this list, until the sanity    *)
(* check of the function, and then at those that have survived it.         *)
(***************************************************************************)
ListsInv ==
    /\ pc \in {"compute", "check", "declare", "build", "error"}
    /\ \A f \in prog.funcs : Computed(f) => FunRight(f)
    /\ \A c \in Calls : Computed(prog.calls[c].caller) => CallRight(c)

\* What is derived from the program only stays as it is.
LEMMA StaticSame ==
    ASSUME prog' = prog
    PROVE  /\ Calls' = Calls /\ \A c : Callee(c)' = Callee(c)
           /\ \A x : TrackedCell(x)' = TrackedCell(x) /\ RegionInfo(x)' = RegionInfo(x)
           /\ \A f, n : NodeOf(f, n)' = NodeOf(f, n)
           /\ \A c, x : Image(c, x)' = Image(c, x)
           /\ \A f : /\ InterfaceCells(f)' = InterfaceCells(f)
                     /\ \A c : ImagesOf(c, InterfaceCells(f))' = ImagesOf(c, InterfaceCells(f))
           /\ \A f, l : Listed(l, f)' = Listed(l, f) /\ KeptAt(l, f)' = KeptAt(l, f)
<1>1. Calls' = Calls /\ \A c : Callee(c)' = Callee(c)
  BY DEF Calls, Callee
<1>2. \A f, n : NodeOf(f, n)' = NodeOf(f, n)
  BY DEF NodeOf
<1>3. \A x : RegionInfo(x)' = RegionInfo(x)
  BY DEF RegionInfo, NodeOf
<1>4. \A x : TrackedCell(x)' = TrackedCell(x)
  BY DEF TrackedCell, RegionInfo, NodeOf
<1>5. \A c, x : Image(c, x)' = Image(c, x)
  BY DEF Image, NodeOf
<1>6. \A f : InterfaceCells(f)' = InterfaceCells(f)
  BY DEF InterfaceCells, CellsOf, Matters, IsAccessed, Reach, RetReach, FieldsOf, NodeOf, Closure, Nodes
<1>7. \A f, c : ImagesOf(c, InterfaceCells(f))' = ImagesOf(c, InterfaceCells(f))
  BY <1>5, <1>6 DEF ImagesOf
<1>8. \A f : RetReach(f)' = RetReach(f)
  BY DEF Reach, RetReach, NodeOf, Closure, Nodes
<1>9. \A f, l : Listed(l, f)' = Listed(l, f)
  <2>1. \A l, f, x : InList(l, f, x, RetReach(f))' = InList(l, f, x, RetReach(f))
    BY <1>2, <1>8 DEF InList
  <2> QED BY <1>6, <2>1, Zenon DEF Listed
<1>10. \A f, l : KeptAt(l, f)' = KeptAt(l, f)
  BY <1>1, <1>5, <1>6, <1>9, <1>3 DEF KeptAt, Agrees, CallsTo, Calls
<1> QED BY <1>1, <1>4, <1>2, <1>5, <1>6, <1>7, <1>9, <1>10, <1>3

\* What a step does to the ids of nodes: none is lost or changed.
IdsGrow ==
    /\ prog' = prog /\ DOMAIN nodeIds \subseteq DOMAIN nodeIds'
    /\ \A x \in DOMAIN nodeIds : nodeIds'[x] = nodeIds[x]

LEMMA RegionsStay ==
    ASSUME IdsGrow
    PROVE  /\ \A r, x : IsRegion(r, x) => IsRegion(r, x)'
           /\ \A rs, cells, ps : RegionsOf(rs, cells, ps) => RegionsOf(rs, cells, ps)'
           /\ \A rs, c, ps : ListedAt(rs, c, ps) => ListedAt(rs, c, ps)'
<1>1. ASSUME NEW r, NEW x, IsRegion(r, x) PROVE IsRegion(r, x)'
  <2>1. KeyOf(x) = <<x[1], x[2]>>
    BY DEF KeyOf
  <2>2. RegionInfo(x)' = RegionInfo(x) /\ NodeOf(x[1], x[2])' = NodeOf(x[1], x[2])
    BY StaticSame DEF IdsGrow
  <2>3. KeyOf(x) \in DOMAIN nodeIds' /\ r.id = nodeIds'[KeyOf(x)] + x[3]
    BY <1>1, <2>1 DEF IsRegion, IdOf, IdsGrow
  <2> QED BY <1>1, <2>1, <2>2, <2>3 DEF IsRegion, IdOf
<1>2. ASSUME NEW rs, NEW cells, NEW ps, RegionsOf(rs, cells, ps)
      PROVE  RegionsOf(rs, cells, ps)'
  BY <1>1, <1>2 DEF RegionsOf
<1>3. ASSUME NEW rs, NEW c, NEW ps, ListedAt(rs, c, ps) PROVE ListedAt(rs, c, ps)'
  <2>1. prog' = prog
    BY DEF IdsGrow
  <2> QED BY <1>1, <1>3, <2>1, StaticSame DEF ListedAt
<1> QED BY <1>1, <1>2, <1>3

LEMMA AsksGrow ==
    ASSUME RegionInv, NEW cells \in Seq(Cells), Asks(cells)
    PROVE  /\ IdsGrow /\ nodeIds' = MkRegions(Ids, cells).ids
           /\ \A x \in ToSet(cells) : KeyOf(x) \in DOMAIN nodeIds'
<1> DEFINE st == MkRegions(Ids, cells)
<1>1. nodeIds' = st.ids /\ prog' = prog
  BY DEF Asks, Take
<1>2. Ids.ids = nodeIds /\ Ids.max = maxId
  BY DEF Ids
<1>3. Apart(Ids.ids, Ids.max) /\ Fits(prog)
  BY <1>2, ProgramsFit DEF RegionInv
<1> HIDE DEF st
<1>4. /\ DOMAIN nodeIds \subseteq DOMAIN st.ids
      /\ \A x \in DOMAIN nodeIds : st.ids[x] = nodeIds[x]
      /\ \A k \in DOMAIN cells : KeyOf(cells[k]) \in DOMAIN st.ids
  BY <1>2, <1>3, RegionsApart DEF st
<1>5. \A x \in ToSet(cells) : KeyOf(x) \in DOMAIN nodeIds'
  BY <1>1, <1>4 DEF ToSet
<1> QED BY <1>1, <1>4, <1>5 DEF IdsGrow, st

\* What a request returns.
LEMMA RegionReturned ==
    ASSUME prog' = prog, NEW st, nodeIds' = st.ids, NEW x, KeyOf(x) \in DOMAIN nodeIds',
           NEW r, r = RegionAt(st, x)
    PROVE  IsRegion(r, x)'
<1>1. RegionInfo(x)' = RegionInfo(x) /\ NodeOf(x[1], x[2])' = NodeOf(x[1], x[2])
  BY StaticSame
<1>2. KeyOf(x) = <<x[1], x[2]>>
  BY DEF KeyOf
<1>3. r.id = nodeIds'[KeyOf(x)] + x[3]
  BY IdOfRegion
<1>4. r.type = RegionInfo(x).type /\ r.heap = ("heap" \in NodeOf(x[1], x[2]).flags)
  BY InfoOfRegion
<1> QED BY <1>1, <1>2, <1>3, <1>4 DEF IsRegion, IdOf

\* The lists of the functions and calls that a step does not touch.
LEMMA OthersStay ==
    ASSUME IdsGrow
    PROVE  /\ \A f : (/\ FunRight(f) /\ f \in DOMAIN fun' /\ fun'[f] = fun[f]
                      /\ Checked(f)' <=> Checked(f)) => FunRight(f)'
           /\ \A c : (/\ CallRight(c) /\ c \in DOMAIN call' /\ call'[c] = call[c]
                      /\ Checked(Callee(c))' <=> Checked(Callee(c))) => CallRight(c)'
<1>1. /\ Calls' = Calls /\ \A c : Callee(c)' = Callee(c)
      /\ \A f : InterfaceCells(f)' = InterfaceCells(f)
      /\ \A f, c : ImagesOf(c, InterfaceCells(f))' = ImagesOf(c, InterfaceCells(f))
      /\ \A f, l : Listed(l, f)' = Listed(l, f) /\ KeptAt(l, f)' = KeptAt(l, f)
  BY StaticSame DEF IdsGrow
<1>2. \A f : (/\ FunRight(f) /\ f \in DOMAIN fun' /\ fun'[f] = fun[f]
              /\ Checked(f)' <=> Checked(f)) => FunRight(f)'
  BY <1>1, RegionsStay DEF FunRight
<1>3. \A c : (/\ CallRight(c) /\ c \in DOMAIN call' /\ call'[c] = call[c]
              /\ Checked(Callee(c))' <=> Checked(Callee(c))) => CallRight(c)'
  BY <1>1, RegionsStay DEF CallRight
<1> QED BY <1>2, <1>3

LEMMA CallEnds ==
    ASSUME Fits(prog), NEW c \in Calls
    PROVE  prog.calls[c].caller \in prog.funcs /\ Callee(c) \in prog.funcs
BY DEF Fits, Calls, Callee

\* Where no list changes, and no pass goes on.
LEMMA ListsStay ==
    ASSUME Fits(prog), ListsInv, IdsGrow, fun' = fun, call' = call,
           pc' \in {"compute", "check", "declare", "build", "error"},
           \A f \in prog.funcs : (Computed(f)' => Computed(f)) /\ (Checked(f)' <=> Checked(f))
    PROVE  ListsInv'
<1>1. prog' = prog /\ Calls' = Calls /\ \A c : Callee(c)' = Callee(c)
  BY StaticSame DEF IdsGrow
<1>2. ASSUME NEW f \in prog.funcs, Computed(f)' PROVE FunRight(f)'
  <2>1. FunRight(f) /\ f \in DOMAIN fun
    BY <1>2 DEF ListsInv, FunRight
  <2> QED BY <2>1, OthersStay
<1>3. ASSUME NEW c \in Calls, Computed(prog.calls[c].caller)' PROVE CallRight(c)'
  <2>1. prog.calls[c].caller \in prog.funcs /\ Callee(c) \in prog.funcs
    BY CallEnds
  <2>2. Computed(prog.calls[c].caller)
    <3>1. PICK f \in prog.funcs : f = prog.calls[c].caller
      BY <2>1
    <3>2. Computed(f)'
      BY <1>1, <1>3, <3>1
    <3> QED BY <3>1, <3>2
  <2>3. CallRight(c) /\ c \in DOMAIN call
    BY <2>2 DEF ListsInv, CallRight
  <2>4. Checked(Callee(c))' <=> Checked(Callee(c))
    BY <1>1, <2>1
  <2> QED BY <2>3, <2>4, OthersStay
<1> QED BY <1>1, <1>2, <1>3 DEF ListsInv

LEMMA ListShape ==
    ASSUME Fits(prog), NEW f \in prog.funcs, NEW l
    PROVE  /\ IsIndex(Listed(l, f)) /\ Listed(l, f) \subseteq DOMAIN InterfaceCells(f)
           /\ DOMAIN ListOf(l, f) = 1..Cardinality(Listed(l, f))
           /\ \A j \in DOMAIN ListOf(l, f) :
                  ListOf(l, f)[j] = InterfaceCells(f)[InOrder(Listed(l, f))[j]]
<1> DEFINE own == InterfaceCells(f)
           ps == Listed(l, f)
<1>1. ps \subseteq DOMAIN own
  BY DEF Listed
<1>2. IsIndex(DOMAIN own)
  <2>1. PICK n \in Nat : DOMAIN own = 1..n
    BY InterfaceShape
  <2> HIDE DEF own
  <2>2. IsFiniteSet(1..n)
    BY FS_Interval
  <2> QED BY <2>1, <2>2 DEF IsIndex
<1>3. ListOf(l, f) = Pick(own, ps)
  BY DEF ListOf, Listed
<1> HIDE DEF own, ps
<1>4. IsIndex(ps)
  BY <1>1, <1>2, IndexParts
<1>5. ps \cap DOMAIN own = ps
  BY <1>1
<1>6. /\ DOMAIN Pick(own, ps) = 1..Cardinality(ps)
      /\ \A j \in DOMAIN Pick(own, ps) : Pick(own, ps)[j] = own[InOrder(ps)[j]]
  <2>1. Pick(own, ps) = [k \in DOMAIN InOrder(ps) |-> own[InOrder(ps)[k]]]
    BY <1>5, Zenon DEF Pick
  <2>2. DOMAIN InOrder(ps) = 1..Cardinality(ps)
    BY DEF InOrder
  <2> QED BY <2>1, <2>2
<1> QED BY <1>1, <1>3, <1>4, <1>6 DEF own, ps

\* The calls of f.
LEMMA CallsFromHas ==
    ASSUME Fits(prog), NEW f
    PROVE  \A c : c \in ToSet(CallsFrom(f)) <=> c \in Calls /\ prog.calls[c].caller = f
<1> DEFINE S == {c \in Calls : prog.calls[c].caller = f}
<1>1. IsFiniteSet(S) /\ S \subseteq Int
  <2>1. Calls = 1..Len(prog.calls) /\ Len(prog.calls) \in Nat /\ S \in SUBSET Calls
    BY DEF Calls, Fits, IsSequence
  <2>2. IsFiniteSet(Calls)
    BY <2>1, FS_Interval
  <2> HIDE DEF S
  <2>3. IsFiniteSet(S)
    BY <2>1, <2>2, FS_Subset
  <2>4. S \subseteq Int
    BY <2>1
  <2> QED BY <2>3, <2>4
<1>2. CallsFrom(f) = InOrder(S)
  BY DEF CallsFrom
<1>3. \A c : c \in S <=> c \in Calls /\ prog.calls[c].caller = f
  OBVIOUS
<1> HIDE DEF S
<1>4. /\ InOrder(S) \in [1..Cardinality(S) -> S]
      /\ \A m \in S : \E k \in 1..Cardinality(S) : InOrder(S)[k] = m
  BY <1>1, InOrderProperties
<1>5. ToSet(InOrder(S)) = S
  BY <1>4 DEF ToSet
<1> QED BY <1>2, <1>3, <1>5

\* What the first pass asks for.
LEMMA ComputeAsksAll ==
    ASSUME Fits(prog), NEW f \in prog.funcs
    PROVE  /\ \A k \in DOMAIN InterfaceCells(f) : InterfaceCells(f)[k] \in ToSet(ComputeAsks(f))
           /\ \A c \in Calls : prog.calls[c].caller = f =>
                  \A k \in DOMAIN InterfaceCells(Callee(c)) :
                      Image(c, InterfaceCells(Callee(c))[k]) \in ToSet(ComputeAsks(f))
<1> DEFINE calls == CallsFrom(f)
           T == Seq(Cells)
           ss == [k \in DOMAIN calls |-> ImagesOf(calls[k], InterfaceCells(Callee(calls[k])))]
           a == InterfaceCells(f)
           b == AllCells(f)
<1>1. PICK n \in Nat : calls \in [1..n -> Calls]
  BY CallsFromType
<1>2. ASSUME NEW c \in Calls
      PROVE  ImagesOf(c, InterfaceCells(Callee(c))) \in T
  <2> DEFINE g == Callee(c)
             own == InterfaceCells(g)
             im == ImagesOf(c, own)
  <2>1. g \in prog.funcs /\ Represent(im, g)
    BY CallersCells
  <2>2. PICK m \in Nat : DOMAIN own = 1..m
    BY <2>1, InterfaceShape
  <2>3. im = [k \in DOMAIN own |-> im[k]]
    BY DEF ImagesOf
  <2>4. \A k \in DOMAIN own : im[k] \in Cells
    BY <2>1 DEF Represent
  <2> HIDE DEF g, own, im
  <2>5. im \in [1..m -> Cells]
    BY <2>2, <2>3, <2>4
  <2> QED BY <2>5, FunctionIsSeq DEF g, own, im
<1>3. a \in Seq(Cells) /\ b \in Seq(Cells) /\ FlattenSeq(ss) \in Seq(Cells)
  <2>1. a \in Seq(CellsIn(f, Reach(f) \cup RetReach(f))) /\ b \in Seq(Cells)
    BY InterfaceType
  <2>2. a \in Seq(Cells) /\ b \in Seq(Cells)
    BY <2>1, SeqMonotone DEF CellsIn
  <2>3. FlattenSeq(ss) \in Seq(Cells)
    BY AskedAtCalls
  <2> QED BY <2>2, <2>3
<1>4. ComputeAsks(f) = a \o b \o FlattenSeq(ss)
  BY DEF ComputeAsks
<1>5. \A c \in Calls : prog.calls[c].caller = f => c \in ToSet(calls)
  BY CallsFromHas
<1> HIDE DEF a, b, ss, T, calls
<1>6. ss \in Seq(T) /\ Len(ss) = n
  <2>1. ss \in [1..n -> T]
    BY <1>1, <1>2 DEF ss
  <2> QED BY <2>1, FunctionIsSeq
<1>7. ToSet(a) \subseteq ToSet(ComputeAsks(f)) /\ ToSet(FlattenSeq(ss)) \subseteq ToSet(ComputeAsks(f))
  <2> DEFINE s == FlattenSeq(ss)
             all == a \o b \o s
  <2> HIDE DEF s
  <2>1. s \in Seq(Cells)
    BY <1>3 DEF s
  <2>2. \A k \in DOMAIN a : k \in DOMAIN all /\ all[k] = a[k]
    BY <1>3, <2>1
  <2>3. \A k \in DOMAIN s : /\ Len(a) + Len(b) + k \in DOMAIN all
                            /\ all[Len(a) + Len(b) + k] = s[k]
    BY <1>3, <2>1
  <2> HIDE DEF all
  <2>4. ToSet(a) \subseteq ToSet(all) /\ ToSet(s) \subseteq ToSet(all)
    BY <2>2, <2>3 DEF ToSet
  <2> QED BY <1>4, <2>4 DEF all, s
<1>8. ASSUME NEW c \in Calls, prog.calls[c].caller = f,
             NEW k \in DOMAIN InterfaceCells(Callee(c))
      PROVE  Image(c, InterfaceCells(Callee(c))[k]) \in ToSet(ComputeAsks(f))
  <2>1. PICK j \in 1..n : calls[j] = c
    BY <1>1, <1>5, <1>8 DEF ToSet
  <2>2. ss[j] = ImagesOf(c, InterfaceCells(Callee(c)))
    BY <1>1, <2>1 DEF ss
  <2>3. Image(c, InterfaceCells(Callee(c))[k]) \in ToSet(ss[j])
    BY <1>8, <2>2 DEF ImagesOf, ToSet
  <2>4. ToSet(ss[j]) \subseteq ToSet(FlattenSeq(ss))
    BY <1>6, FlattenHas DEF T
  <2> QED BY <1>7, <2>3, <2>4
<1>9. \A k \in DOMAIN a : a[k] \in ToSet(ComputeAsks(f))
  BY <1>7 DEF ToSet
<1> QED BY <1>8, <1>9 DEF a

\* computeReadModNewNodes and computeReadModNewNodesFromCallSite.
LEMMA ComputeKeepsLists ==
    ASSUME RegionInv, ListsInv, NEW f \in prog.funcs, ComputeFunction(f)
    PROVE  ListsInv'
<1> DEFINE asks == ComputeAsks(f)
           st == MkRegions(Ids, asks)
<1>1. Fits(prog)
  BY ProgramsFit DEF RegionInv
<1>2. Asks(asks) /\ todo' = todo \ {f}
  BY ActionsAsk
<1>3. /\ IdsGrow /\ nodeIds' = st.ids
      /\ \A x \in ToSet(asks) : KeyOf(x) \in DOMAIN nodeIds'
  BY <1>1, <1>2, AsksType, AsksGrow
<1>4. /\ \A k \in DOMAIN InterfaceCells(f) : InterfaceCells(f)[k] \in ToSet(asks)
      /\ \A c \in Calls : prog.calls[c].caller = f =>
             \A k \in DOMAIN InterfaceCells(Callee(c)) :
                 Image(c, InterfaceCells(Callee(c))[k]) \in ToSet(asks)
  BY <1>1, ComputeAsksAll
<1>5. /\ pc = "compute" /\ pc' = pc /\ prog' = prog
      /\ fun' = With(fun, f, [l \in Lists |->
                    [k \in DOMAIN ListOf(l, f) |-> RegionAt(st, ListOf(l, f)[k])]])
      /\ call' = Over([c \in ToSet(CallsFrom(f)) |-> [l \in Lists |->
                     [k \in DOMAIN ListOf(l, Callee(c)) |->
                         LET x == ListOf(l, Callee(c))[k] IN
                         [rgn |-> RegionAt(st, Image(c, x)),
                          compatible |-> HasCompatibleType(RegionInfo(x),
                                             RegionInfo(Image(c, x)))]]]],
                      call)
  BY DEF ComputeFunction, ComputeAsks, Callee
<1>6. \A g : ~Checked(g) /\ ~Checked(g)'
  BY <1>5 DEF Checked
<1>7. /\ Calls' = Calls /\ \A c : Callee(c)' = Callee(c)
      /\ \A g : InterfaceCells(g)' = InterfaceCells(g)
      /\ \A g, l : Listed(l, g)' = Listed(l, g)
      /\ \A x : RegionInfo(x)' = RegionInfo(x)
      /\ \A c, x : Image(c, x)' = Image(c, x)
  BY <1>5, StaticSame
<1>8. \A x, r : x \in ToSet(asks) /\ r = RegionAt(st, x) => IsRegion(r, x)'
  <2> HIDE DEF st, asks
  <2> TAKE x, r
  <2> HAVE x \in ToSet(asks) /\ r = RegionAt(st, x)
  <2>1. KeyOf(x) \in DOMAIN nodeIds'
    BY <1>3
  <2> QED BY <1>3, <1>5, <2>1, RegionReturned
<1> HIDE DEF st, asks
<1>9. FunRight(f)'
  <2>1. f \in DOMAIN fun' /\ \A l \in Lists :
            fun'[f][l] = [k \in DOMAIN ListOf(l, f) |-> RegionAt(st, ListOf(l, f)[k])]
    BY <1>5 DEF With
  <2>2. ASSUME NEW l \in Lists PROVE RegionsOf(fun[f][l], InterfaceCells(f), Listed(l, f))'
    <3>1. PICK rs, own, ps : rs = fun'[f][l] /\ own = InterfaceCells(f) /\ ps = Listed(l, f)
      OBVIOUS
    <3>2. /\ IsIndex(ps) /\ ps \subseteq DOMAIN own
          /\ DOMAIN ListOf(l, f) = 1..Cardinality(ps)
          /\ \A j \in DOMAIN ListOf(l, f) : ListOf(l, f)[j] = own[InOrder(ps)[j]]
      BY <1>1, <3>1, ListShape
    <3>3. \A j \in 1..Cardinality(ps) : own[InOrder(ps)[j]] \in ToSet(asks)
      BY <1>4, <3>1, <3>2, IndexOrder
    <3>4. IsList(rs, Cardinality(ps)) /\ \A j \in 1..Cardinality(ps) :
              rs[j] = RegionAt(st, own[InOrder(ps)[j]])
      <4>1. rs = [k \in DOMAIN ListOf(l, f) |-> RegionAt(st, ListOf(l, f)[k])]
        BY <2>1, <3>1
      <4> QED BY <3>2, <4>1 DEF IsList
    <3>5. \A j \in 1..Cardinality(ps) : IsRegion(rs[j], own[InOrder(ps)[j]])'
      BY <1>8, <3>3, <3>4
    <3>6. RegionsOf(rs, own, ps)'
      BY <3>2, <3>4, <3>5 DEF RegionsOf
    <3> QED BY <1>7, <3>1, <3>6
  <2> QED BY <1>6, <2>1, <2>2 DEF FunRight
<1>10. ASSUME NEW c \in Calls, prog.calls[c].caller = f PROVE CallRight(c)'
  <2> DEFINE g == Callee(c)
  <2>1. c \in DOMAIN call' /\ \A l \in Lists :
            call'[c][l] = [k \in DOMAIN ListOf(l, g) |->
                              LET x == ListOf(l, g)[k] IN
                              [rgn |-> RegionAt(st, Image(c, x)),
                               compatible |-> HasCompatibleType(RegionInfo(x),
                                                  RegionInfo(Image(c, x)))]]
    <3>1. c \in ToSet(CallsFrom(f))
      BY <1>1, <1>10, CallsFromHas
    <3> QED BY <1>5, <3>1 DEF Over
  <2>2. g \in prog.funcs
    BY <1>1, CallersCells
  <2>3. ASSUME NEW l \in Lists PROVE ListedAt(call[c][l], c, Listed(l, Callee(c)))'
    <3>1. PICK rs, own, ps : rs = call'[c][l] /\ own = InterfaceCells(g) /\ ps = Listed(l, g)
      OBVIOUS
    <3>2. /\ IsIndex(ps) /\ ps \subseteq DOMAIN own
          /\ DOMAIN ListOf(l, g) = 1..Cardinality(ps)
          /\ \A j \in DOMAIN ListOf(l, g) : ListOf(l, g)[j] = own[InOrder(ps)[j]]
      BY <1>1, <2>2, <3>1, ListShape
    <3>3. \A j \in 1..Cardinality(ps) : Image(c, own[InOrder(ps)[j]]) \in ToSet(asks)
      BY <1>4, <1>10, <3>1, <3>2, IndexOrder
    <3>4. IsList(rs, Cardinality(ps)) /\ \A j \in 1..Cardinality(ps) :
              /\ rs[j].rgn = RegionAt(st, Image(c, own[InOrder(ps)[j]]))
              /\ rs[j].compatible = HasCompatibleType(RegionInfo(own[InOrder(ps)[j]]),
                                        RegionInfo(Image(c, own[InOrder(ps)[j]])))
      <4>1. rs = [k \in DOMAIN ListOf(l, g) |->
                    LET x == ListOf(l, g)[k] IN
                    [rgn |-> RegionAt(st, Image(c, x)),
                     compatible |-> HasCompatibleType(RegionInfo(x),
                                        RegionInfo(Image(c, x)))]]
        BY <2>1, <3>1
      <4> HIDE DEF g
      <4> QED BY <3>2, <4>1 DEF IsList
    <3>5. \A j \in 1..Cardinality(ps) :
              IsRegion(rs[j].rgn, Image(c, own[InOrder(ps)[j]]))'
      BY <1>7, <1>8, <3>3, <3>4
    <3>6. InterfaceCells(Callee(c))' = own /\ Listed(l, Callee(c))' = ps
      BY <1>7, <3>1
    <3>7. ListedAt(rs, c, ps)'
      BY <1>7, <3>2, <3>4, <3>5, <3>6 DEF ListedAt
    <3> QED BY <3>1, <3>6, <3>7
  <2>4. ~Checked(Callee(c))'
    BY <1>6
  <2> QED BY <2>1, <2>3, <2>4 DEF CallRight
<1>11. ASSUME NEW g \in prog.funcs, Computed(g)' PROVE FunRight(g)'
  <2>1. CASE g = f
    BY <1>9, <2>1
  <2>2. CASE g # f
    <3>1. Computed(g)
      BY <1>2, <1>5, <1>11, <2>2 DEF Computed
    <3>2. FunRight(g) /\ g \in DOMAIN fun
      BY <3>1 DEF ListsInv, FunRight
    <3>3. g \in DOMAIN fun' /\ fun'[g] = fun[g]
      BY <1>5, <2>2, <3>2 DEF With
    <3> QED BY <1>3, <1>6, <3>2, <3>3, OthersStay
  <2> QED BY <2>1, <2>2
<1>12. ASSUME NEW c \in Calls, Computed(prog.calls[c].caller)' PROVE CallRight(c)'
  <2>1. CASE prog.calls[c].caller = f
    BY <1>10, <2>1
  <2>2. CASE prog.calls[c].caller # f
    <3>1. Computed(prog.calls[c].caller)
      BY <1>2, <1>5, <1>12, <2>2 DEF Computed
    <3>2. CallRight(c) /\ c \in DOMAIN call
      BY <3>1 DEF ListsInv, CallRight
    <3>3. c \notin ToSet(CallsFrom(f))
      BY <1>1, <2>2, CallsFromHas
    <3>4. c \in DOMAIN call' /\ call'[c] = call[c]
      BY <1>5, <3>2, <3>3 DEF Over
    <3> QED BY <1>3, <1>6, <3>2, <3>4, OthersStay
  <2> QED BY <2>1, <2>2
<1> QED BY <1>5, <1>7, <1>11, <1>12 DEF ListsInv

\* The positions that survive the sanity check of f.
LEMMA AgreedSelects ==
    ASSUME NEW f, NEW l \in Lists, RegionsOf(fun[f][l], InterfaceCells(f), Listed(l, f)),
           \A c \in CallsTo(f) : Callee(c) = f /\ ListedAt(call[c][l], c, Listed(l, f))
    PROVE  Select({k \in DOMAIN fun[f][l] : \A c \in CallsTo(f) : call[c][l][k].compatible},
                  Listed(l, f), KeptAt(l, f))
<1> DEFINE own == InterfaceCells(f)
           ps == Listed(l, f)
           ts == KeptAt(l, f)
           qs == {k \in DOMAIN fun[f][l] : \A c \in CallsTo(f) : call[c][l][k].compatible}
           n == Cardinality(ps)
<1>1. IsIndex(ps) /\ DOMAIN fun[f][l] = 1..n
  BY DEF RegionsOf, IsList
<1>2. /\ ts \subseteq ps
      /\ \A k \in ps : k \in ts <=> Agrees(f, own[k])
  BY DEF KeptAt
<1>3. qs \subseteq 1..n /\ \A j \in 1..n : j \in qs <=> \A c \in CallsTo(f) : call[c][l][j].compatible
  BY <1>1
<1>4. \A c \in CallsTo(f), j \in 1..n :
          call[c][l][j].compatible = HasCompatibleType(RegionInfo(own[InOrder(ps)[j]]),
                                         RegionInfo(Image(c, own[InOrder(ps)[j]])))
  BY DEF ListedAt
<1> HIDE DEF own, ps, ts, qs, n
<1>5. ASSUME NEW j \in 1..n PROVE j \in qs <=> InOrder(ps)[j] \in ts
  <2>1. InOrder(ps)[j] \in ps
    BY <1>1, IndexOrder DEF n
  <2>2. j \in qs <=> Agrees(f, own[InOrder(ps)[j]])
    BY <1>3, <1>4 DEF Agrees
  <2> QED BY <1>2, <2>1, <2>2
<1>6. Select(qs, ps, ts)
  BY <1>1, <1>2, <1>3, <1>5 DEF Select, IsIndex, n
<1> QED BY <1>6 DEF qs, ps, ts

\* What is left of the list of a call.
LEMMA PickListed ==
    ASSUME NEW c, NEW rs, NEW ps, ListedAt(rs, c, ps), NEW qs, NEW ts, Select(qs, ps, ts)
    PROVE  RegionsOf([k \in DOMAIN Pick(rs, qs) |-> Pick(rs, qs)[k].rgn],
                     ImagesOf(c, InterfaceCells(Callee(c))), ts)
<1> DEFINE own == InterfaceCells(Callee(c))
           images == ImagesOf(c, own)
           kept == Pick(rs, qs)
           rgns == [k \in DOMAIN kept |-> kept[k].rgn]
           n == Cardinality(ts)
<1>1. /\ IsIndex(ps) /\ ps \subseteq DOMAIN own /\ DOMAIN rs = 1..Cardinality(ps)
      /\ \A j \in 1..Cardinality(ps) : IsRegion(rs[j].rgn, Image(c, own[InOrder(ps)[j]]))
  BY DEF ListedAt, IsList
<1>2. ts \subseteq ps
  BY DEF Select
<1>3. DOMAIN images = DOMAIN own /\ \A k \in DOMAIN own : images[k] = Image(c, own[k])
  BY DEF ImagesOf
<1> HIDE DEF own, images
<1>4. /\ IsList(kept, n)
      /\ \A j \in 1..n : \E i \in DOMAIN rs :
             kept[j] = rs[i] /\ InOrder(ps)[i] = InOrder(ts)[j]
  <2>1. StandsFor(kept, rs, ps, ts)
    BY <1>1, PickSome
  <2> HIDE DEF kept
  <2> QED BY <2>1 DEF StandsFor
<1> HIDE DEF kept, n
<1>5. IsList(rgns, n) /\ \A j \in 1..n : rgns[j] = kept[j].rgn
  BY <1>4 DEF IsList
<1> HIDE DEF rgns
<1>6. ASSUME NEW j \in 1..n PROVE IsRegion(rgns[j], images[InOrder(ts)[j]])
  <2>1. PICK i \in DOMAIN rs : kept[j] = rs[i] /\ InOrder(ps)[i] = InOrder(ts)[j]
    BY <1>4
  <2>2. IsRegion(rs[i].rgn, Image(c, own[InOrder(ps)[i]])) /\ InOrder(ps)[i] \in ps
    BY <1>1, IndexOrder
  <2>3. images[InOrder(ts)[j]] = Image(c, own[InOrder(ps)[i]])
    BY <1>1, <1>3, <2>1, <2>2
  <2> QED BY <1>5, <2>1, <2>2, <2>3
<1>7. IsIndex(ts) /\ ts \subseteq DOMAIN images
  <2>1. IsIndex(ts)
    BY <1>1, <1>2, IndexParts
  <2>2. ts \subseteq DOMAIN images
    BY <1>1, <1>2, <1>3
  <2> QED BY <2>1, <2>2
<1> QED BY <1>5, <1>6, <1>7 DEF RegionsOf, rgns, images, own, n, kept

\* The second pass.
LEMMA CheckKeepsLists ==
    ASSUME RegionInv, ListsInv, NEW f \in prog.funcs, CheckFunction(f)
    PROVE  ListsInv'
<1>1. /\ Fits(prog)
      /\ pc = "check" /\ pc' = pc /\ f \in todo /\ todo' = todo \ {f} /\ prog' = prog
  BY ProgramsFit DEF RegionInv, CheckFunction
<1>2. IdsGrow
  BY DEF CheckFunction, IdsGrow
<1>3. /\ \A g \in prog.funcs : FunRight(g)
      /\ \A c \in Calls : CallRight(c)
  BY <1>1 DEF ListsInv, Computed
<1>4. ~Checked(f) /\ Checked(f)' /\ \A g : g # f => (Checked(g)' <=> Checked(g))
  BY <1>1 DEF Checked
<1>5. /\ Calls' = Calls /\ \A c : Callee(c)' = Callee(c)
      /\ \A g : InterfaceCells(g)' = InterfaceCells(g)
      /\ \A g, c : ImagesOf(c, InterfaceCells(g))' = ImagesOf(c, InterfaceCells(g))
      /\ \A g, l : KeptAt(l, g)' = KeptAt(l, g)
  BY <1>1, StaticSame
<1>6. \A c : c \in CallsTo(f) <=> c \in Calls /\ Callee(c) = f
  BY DEF CallsTo, Callee
<1> DEFINE qs(l) == {k \in DOMAIN fun[f][l] : \A c \in CallsTo(f) : call[c][l][k].compatible}
<1>7. ASSUME NEW l \in Lists
      PROVE  /\ RegionsOf(fun[f][l], InterfaceCells(f), Listed(l, f))
             /\ \A c \in CallsTo(f) : ListedAt(call[c][l], c, Listed(l, f))
             /\ Select(qs(l), Listed(l, f), KeptAt(l, f))
  <2>1. RegionsOf(fun[f][l], InterfaceCells(f), Listed(l, f))
    BY <1>3, <1>4 DEF FunRight
  <2>2. \A c \in CallsTo(f) : Callee(c) = f /\ ListedAt(call[c][l], c, Listed(l, f))
    BY <1>3, <1>4, <1>6 DEF CallRight
  <2>3. Select(qs(l), Listed(l, f), KeptAt(l, f))
    BY <2>1, <2>2, AgreedSelects
  <2> QED BY <2>1, <2>2, <2>3
<1>8. /\ fun' = [fun EXCEPT ![f] = [l \in Lists |-> Pick(fun[f][l], qs(l))]]
      /\ call' = [c \in Calls |->
                     IF c \in CallsTo(f)
                     THEN [l \in Lists |-> [k \in DOMAIN Pick(call[c][l], qs(l)) |->
                                               Pick(call[c][l], qs(l))[k].rgn]]
                     ELSE call[c]]
  BY DEF CheckFunction, Agreed
<1> HIDE DEF qs
<1>9. FunRight(f)'
  <2>1. f \in DOMAIN fun
    BY <1>3 DEF FunRight
  <2>2. f \in DOMAIN fun' /\ \A l \in Lists : fun'[f][l] = Pick(fun[f][l], qs(l))
    BY <1>8, <2>1
  <2>3. ASSUME NEW l \in Lists PROVE RegionsOf(fun[f][l], InterfaceCells(f), KeptAt(l, f))'
    <3>1. PICK rs, own, ts : rs = fun'[f][l] /\ own = InterfaceCells(f) /\ ts = KeptAt(l, f)
      OBVIOUS
    <3>2. RegionsOf(Pick(fun[f][l], qs(l)), own, ts)
      BY <1>7, <3>1, PickRegions
    <3>3. RegionsOf(rs, own, ts)'
      BY <1>2, <2>2, <3>1, <3>2, RegionsStay
    <3> QED BY <1>5, <3>1, <3>3
  <2> QED BY <1>4, <2>2, <2>3 DEF FunRight
<1>10. ASSUME NEW c \in CallsTo(f) PROVE CallRight(c)'
  <2>1. c \in DOMAIN call' /\ \A l \in Lists :
            call'[c][l] = [k \in DOMAIN Pick(call[c][l], qs(l)) |-> Pick(call[c][l], qs(l))[k].rgn]
    BY <1>6, <1>8
  <2>2. ASSUME NEW l \in Lists
        PROVE  RegionsOf(call[c][l], ImagesOf(c, InterfaceCells(Callee(c))),
                         KeptAt(l, Callee(c)))'
    <3>1. PICK rs, images, ts : /\ rs = call'[c][l]
                                /\ images = ImagesOf(c, InterfaceCells(Callee(c)))
                                /\ ts = KeptAt(l, Callee(c))
      OBVIOUS
    <3>2. ListedAt(call[c][l], c, Listed(l, f)) /\ Select(qs(l), Listed(l, f), ts)
      BY <1>6, <1>7, <3>1
    <3>3. RegionsOf([k \in DOMAIN Pick(call[c][l], qs(l)) |-> Pick(call[c][l], qs(l))[k].rgn],
                    images, ts)
      BY <3>1, <3>2, PickListed
    <3>4. RegionsOf(rs, images, ts)'
      BY <1>2, <2>1, <3>1, <3>3, RegionsStay
    <3>5. /\ ImagesOf(c, InterfaceCells(Callee(c)))' = images /\ KeptAt(l, Callee(c))' = ts
      BY <1>5, <3>1
    <3> QED BY <3>1, <3>4, <3>5
  <2>3. Checked(Callee(c))'
    BY <1>4, <1>5, <1>6
  <2> QED BY <2>1, <2>2, <2>3 DEF CallRight
<1>11. ASSUME NEW g \in prog.funcs PROVE FunRight(g)'
  <2>1. CASE g = f
    BY <1>9, <2>1
  <2>2. CASE g # f
    <3>1. FunRight(g) /\ g \in DOMAIN fun
      BY <1>3 DEF FunRight
    <3>2. g \in DOMAIN fun' /\ fun'[g] = fun[g]
      BY <1>8, <2>2, <3>1
    <3> QED BY <1>2, <1>4, <2>2, <3>1, <3>2, OthersStay
  <2> QED BY <2>1, <2>2
<1>12. ASSUME NEW c \in Calls PROVE CallRight(c)'
  <2>1. CASE c \in CallsTo(f)
    BY <1>10, <2>1
  <2>2. CASE c \notin CallsTo(f)
    <3>1. CallRight(c) /\ c \in DOMAIN call' /\ call'[c] = call[c]
      BY <1>3, <1>8, <2>2
    <3>2. Checked(Callee(c))' <=> Checked(Callee(c))
      BY <1>4, <1>5, <1>6, <2>2
    <3> QED BY <1>2, <3>1, <3>2, OthersStay
  <2> QED BY <2>1, <2>2
<1> QED BY <1>1, <1>5, <1>11, <1>12 DEF ListsInv

LEMMA AsksStep ==
    ASSUME RegionInv, NEW f \in prog.funcs, AddFunctionDeclaration(f) \/ BuildCfg(f)
    PROVE  IdsGrow /\ fun' = fun /\ call' = call
<1>1. Fits(prog)
  BY ProgramsFit DEF RegionInv
<1>2. CASE AddFunctionDeclaration(f)
  <2>1. IdsGrow
    BY <1>1, <1>2, AsksType, ActionsAsk, AsksGrow
  <2> QED BY <1>2, <2>1 DEF AddFunctionDeclaration
<1>3. CASE BuildCfg(f)
  <2>1. IdsGrow
    BY <1>1, <1>3, AsksType, ActionsAsk, AsksGrow
  <2> QED BY <1>3, <2>1 DEF BuildCfg
<1> QED BY <1>2, <1>3

LEMMA ListsInvStep == RegionInv /\ ListsInv /\ [Next]_vars => ListsInv'
<1> SUFFICES ASSUME RegionInv, ListsInv, [Next]_vars PROVE ListsInv'
  OBVIOUS
<1>1. Fits(prog) /\ pc \in {"compute", "check", "declare", "build", "error"}
  BY ProgramsFit DEF RegionInv, ListsInv
<1>2. CASE UNCHANGED vars
  <2>1. IdsGrow /\ pc' = pc /\ fun' = fun /\ call' = call
    BY <1>2 DEF vars, heap, IdsGrow
  <2>2. \A f : (Computed(f)' => Computed(f)) /\ (Checked(f)' <=> Checked(f))
    BY <1>2 DEF vars, Computed, Checked
  <2> QED BY <1>1, <2>1, <2>2, ListsStay
<1>3. ASSUME NEW f \in prog.funcs, ComputeFunction(f) \/ CheckFunction(f) PROVE ListsInv'
  BY <1>3, ComputeKeepsLists, CheckKeepsLists
<1>4. ASSUME NEW f \in prog.funcs, AddFunctionDeclaration(f) \/ BuildCfg(f) PROVE ListsInv'
  <2>1. IdsGrow /\ fun' = fun /\ call' = call
    BY <1>4, AsksStep
  <2>2. pc \in {"declare", "build"} /\ pc' \in {"declare", "build", "error"}
    BY <1>4 DEF AddFunctionDeclaration, BuildCfg
  <2>3. \A g : (Computed(g)' => Computed(g)) /\ (Checked(g)' <=> Checked(g))
    BY <2>2 DEF Computed, Checked
  <2> QED BY <1>1, <2>1, <2>2, <2>3, ListsStay
<1>5. CASE BeginCheck \/ BeginDeclare \/ BeginBuild \/ Done
  <2>1. IdsGrow /\ fun' = fun /\ call' = call
    BY <1>5 DEF BeginCheck, BeginDeclare, BeginBuild, Done, vars, heap, IdsGrow
  <2>2. CASE BeginCheck
    <3>1. pc = "compute" /\ todo = {} /\ pc' = "check" /\ todo' = prog.funcs
      BY <2>2 DEF BeginCheck
    <3>2. \A f \in prog.funcs : (Computed(f)' => Computed(f)) /\ (Checked(f)' <=> Checked(f))
      BY <3>1 DEF Computed, Checked
    <3> QED BY <1>1, <2>1, <3>1, <3>2, ListsStay
  <2>3. CASE BeginDeclare \/ BeginBuild \/ Done
    <3>1. /\ pc \in {"check", "declare", "build"} /\ pc' \in {"declare", "build"}
          /\ pc = "check" => todo = {}
      BY <2>3 DEF BeginDeclare, BeginBuild, Done, vars
    <3>2. \A f \in prog.funcs : (Computed(f)' => Computed(f)) /\ (Checked(f)' <=> Checked(f))
      BY <3>1 DEF Computed, Checked
    <3> QED BY <1>1, <2>1, <3>1, <3>2, ListsStay
  <2> QED BY <1>5, <2>2, <2>3
<1> QED BY <1>2, <1>3, <1>4, <1>5 DEF Next

LEMMA ListsInvInit == InterfaceInit => ListsInv
<1> SUFFICES ASSUME InterfaceInit PROVE ListsInv
  OBVIOUS
<1>1. prog \in Programs /\ pc = "compute" /\ todo = prog.funcs
  BY DEF InterfaceInit, Init
<1>2. Fits(prog)
  BY <1>1, ProgramsFit
<1>3. \A c \in Calls : prog.calls[c].caller \in prog.funcs
  BY <1>2 DEF Fits, Calls
<1> QED BY <1>1, <1>3 DEF ListsInv, Computed

-----------------------------------------------------------------------------
(* What is declared, and what is passed *)

(***************************************************************************)
(* A list of references, followed by variables for the regions rs.         *)
(***************************************************************************)
Passes(vs, rs) ==
    /\ Len(vs) \in Nat /\ IsList(vs, Len(vs))
    /\ \E n \in 0..Len(vs) :
           /\ DOMAIN rs = 1..(Len(vs) - n)
           /\ \A k \in 1..n : vs[k].kind = "ref"
           /\ \A k \in 1..(Len(vs) - n) :
                  /\ "id" \in DOMAIN vs[n + k] /\ vs[n + k].id = rs[k].id
                  /\ vs[n + k].kind # "ref"

DeclaredRight(f) ==
    IF f = "main" THEN cfg[f].ins = <<>> /\ cfg[f].outs = <<>>
    ELSE /\ Passes(cfg[f].ins, Ins(fun[f]))
         /\ Passes(cfg[f].outs, InOutRegions(fun[f]) \o OutRegions(fun[f]))

\* A region that is tracked in a caller is tracked in the callee.
TracksAlike ==
    \A c \in Calls : \A x \in ToSet(InterfaceCells(Callee(c))) :
        TrackedCell(Image(c, x)) => TrackedCell(x)

\* The actual a and the formal v of the call c are the regions of one cell.
PairedAt(c, a, v) ==
    v.kind = "ref" \/ \E y \in ToSet(InterfaceCells(Callee(c))) :
        /\ KeyOf(y) \in DOMAIN nodeIds /\ v.id = IdOf(y)
        /\ KeyOf(Image(c, y)) \in DOMAIN nodeIds /\ a.id = IdOf(Image(c, y))

\* The caller gets the regions of the cells at the positions ps.
Gets(lhs, cells, ps) ==
    \A k \in ps : \E v \in ToSet(lhs) :
        KeyOf(cells[k]) \in DOMAIN nodeIds /\ v.id = IdOf(cells[k])

CallStmtRight(s) ==
    LET c == s.call
        g == Callee(c)
        cells == ImagesOf(c, InterfaceCells(g))
    IN  /\ c \in Calls
        /\ Gets(s.lhs, cells, ModAt(g, cells) \cup NewAt(g, cells))
        /\ TracksAlike =>
               /\ \A k \in DOMAIN s.args : PairedAt(c, s.args[k], cfg[g].ins[k])
               /\ \A k \in DOMAIN s.lhs : PairedAt(c, s.lhs[k], cfg[g].outs[k])

\* The statements besides calls; the source of a copy is a parameter.
Plain == {"intrinsic", "cast", "use"}
SourceFits(s, ins) ==
    \/ s.op \in Plain \cup {"call"}
    \/ s.op = "copy" /\ RegionsIn(s.args) \subseteq RegionsIn(ins)

InitRight(f) == "init" \in DOMAIN cfg[f] => cfg[f].init = InitStmts(f, cfg[f].code)

(***************************************************************************)
(* Every function is declared with the regions of its lists, and every     *)
(* call that has been translated passes those of its own lists.            *)
(***************************************************************************)
CfgInv ==
    /\ pc \in {"compute", "check"} => DOMAIN cfg = {}
    /\ pc = "declare" => \A f \in prog.funcs : f \in DOMAIN cfg \/ f \in todo
    /\ pc \in {"build", "error"} => \A f \in prog.funcs : f \in DOMAIN cfg
    /\ \A f \in DOMAIN cfg :
           /\ f \in prog.funcs /\ DeclaredRight(f)
           /\ Len(cfg[f].code) \in Nat /\ IsList(cfg[f].code, Len(cfg[f].code))
           /\ \A s \in ToSet(cfg[f].code) :
                  /\ s.op = "call" => pc \in {"build", "error"} /\ CallStmtRight(s)
                  /\ SourceFits(s, cfg[f].ins)
           /\ InitRight(f)

\* Two lists that can be told apart by the kinds of their variables only.
LEMMA CompatibleKinds ==
    ASSUME NEW v, NEW w, Compatible(v, w)
    PROVE  v.kind = w.kind
BY DEF Compatible, TypeOf, IsUnknownRegion, IsTypedRegion

Aligned(as, vs, ss, rs, n) ==
    /\ DOMAIN ss = 1..(Len(as) - n) /\ DOMAIN rs = 1..(Len(as) - n)
    /\ \A k \in 1..n : vs[k].kind = "ref"
    /\ \A k \in 1..(Len(as) - n) : as[n + k].id = ss[k].id /\ vs[n + k].id = rs[k].id

LEMMA RefsFirst ==
    ASSUME NEW as, NEW vs, NEW ss, NEW rs, Passes(as, ss), Passes(vs, rs), Match(as, vs)
    PROVE  \E n \in 0..Len(as) : Aligned(as, vs, ss, rs, n)
<1> DEFINE N == Len(as)
<1>1. PICK n \in 0..N :
          /\ N \in Nat /\ DOMAIN as = 1..N /\ DOMAIN ss = 1..(N - n)
          /\ \A k \in 1..n : as[k].kind = "ref"
          /\ \A k \in 1..(N - n) : as[n + k].kind # "ref" /\ as[n + k].id = ss[k].id
  BY DEF Passes, IsList
<1>2. Len(vs) = N /\ \A k \in 1..N : as[k].kind = vs[k].kind
  BY <1>1, CompatibleKinds DEF Match
<1>3. PICK m \in 0..N :
          /\ DOMAIN rs = 1..(N - m)
          /\ \A k \in 1..m : vs[k].kind = "ref"
          /\ \A k \in 1..(N - m) : vs[m + k].kind # "ref" /\ vs[m + k].id = rs[k].id
  BY <1>2 DEF Passes
<1> HIDE DEF N
<1>4. m = n
  <2>1. CASE n < m
    <3>1. n + 1 \in 1..m /\ n + 1 \in 1..N /\ 1 \in 1..(N - n)
      BY <1>1, <2>1
    <3>2. as[n + 1].kind # "ref" /\ vs[n + 1].kind = "ref"
      BY <1>1, <1>3, <3>1
    <3> QED BY <1>2, <3>1, <3>2
  <2>2. CASE m < n
    <3>1. m + 1 \in 1..n /\ m + 1 \in 1..N /\ 1 \in 1..(N - m)
      BY <1>1, <2>2
    <3>2. as[m + 1].kind = "ref" /\ vs[m + 1].kind # "ref"
      BY <1>1, <1>3, <3>1
    <3> QED BY <1>2, <3>1, <3>2
  <2> QED BY <1>1, <1>3, <2>1, <2>2
<1> QED BY <1>1, <1>2, <1>3, <1>4 DEF Aligned, N

LEMMA SameEnd ==
    ASSUME NEW m \in Nat, NEW n \in Nat, 1..m = 1..n
    PROVE  m = n
<1>1. m > n => m \in 1..m /\ m \notin 1..n
  OBVIOUS
<1>2. n > m => n \in 1..n /\ n \notin 1..m
  OBVIOUS
<1> QED BY <1>1, <1>2

\* Sets of positions, one in the other, that together have as many members.
LEMMA SameSize ==
    ASSUME NEW A, NEW B, NEW C, NEW D, IsIndex(A), IsIndex(B),
           C \in SUBSET A, D \in SUBSET B,
           Cardinality(A) + Cardinality(B) = Cardinality(C) + Cardinality(D)
    PROVE  C = A /\ D = B
<1>1. IsFiniteSet(A) /\ IsFiniteSet(B)
  BY DEF IsIndex
<1>2. /\ IsFiniteSet(C) /\ Cardinality(C) <= Cardinality(A)
      /\ Cardinality(C) = Cardinality(A) => C = A
  BY <1>1, FS_Subset
<1>3. /\ IsFiniteSet(D) /\ Cardinality(D) <= Cardinality(B)
      /\ Cardinality(D) = Cardinality(B) => D = B
  BY <1>1, FS_Subset
<1>4. /\ Cardinality(A) \in Nat /\ Cardinality(B) \in Nat
      /\ Cardinality(C) \in Nat /\ Cardinality(D) \in Nat
  BY <1>1, <1>2, <1>3, FS_CardinalityType
<1> QED BY <1>2, <1>3, <1>4

\* Two lists one after the other.
LEMMA BothRegions ==
    ASSUME NEW cells, NEW A, NEW B, NEW r, NEW s,
           RegionsOf(r, cells, A), RegionsOf(s, cells, B)
    PROVE  LET m == Cardinality(A)
               n == Cardinality(B)
           IN  /\ m \in Nat /\ n \in Nat /\ DOMAIN (r \o s) = 1..(m + n)
               /\ \A k \in 1..m : IsRegion((r \o s)[k], cells[InOrder(A)[k]])
               /\ \A k \in 1..n : IsRegion((r \o s)[m + k], cells[InOrder(B)[k]])
<1> DEFINE m == Cardinality(A)
           n == Cardinality(B)
<1>1. /\ IsIndex(A) /\ IsList(r, m) /\ \A k \in 1..m : IsRegion(r[k], cells[InOrder(A)[k]])
      /\ IsIndex(B) /\ IsList(s, n) /\ \A k \in 1..n : IsRegion(s[k], cells[InOrder(B)[k]])
  BY DEF RegionsOf
<1>2. m \in Nat /\ n \in Nat
  BY <1>1, IndexOrder
<1> HIDE DEF m, n
<1> DEFINE t == r \o s
<1>3. Joins(t, r, s, m, n)
  BY <1>1, <1>2, ListConcat
<1> HIDE DEF t
<1>4. /\ DOMAIN t = 1..(m + n)
      /\ \A k \in 1..m : IsRegion(t[k], cells[InOrder(A)[k]])
      /\ \A k \in 1..n : IsRegion(t[m + k], cells[InOrder(B)[k]])
  BY <1>1, <1>2, <1>3 DEF Joins, IsList
<1> QED BY <1>2, <1>4 DEF m, n, t

\* doCallInst: what comes back.
LEMMA GetsAll ==
    ASSUME NEW cells, NEW A, NEW B, NEW r, NEW s,
           RegionsOf(r, cells, A), RegionsOf(s, cells, B),
           NEW as, Passes(as, r \o s)
    PROVE  Gets(as, cells, A \cup B)
<1> DEFINE m == Cardinality(A)
           n == Cardinality(B)
           t == r \o s
<1>1. /\ m \in Nat /\ n \in Nat /\ DOMAIN t = 1..(m + n)
      /\ \A k \in 1..m : IsRegion(t[k], cells[InOrder(A)[k]])
      /\ \A k \in 1..n : IsRegion(t[m + k], cells[InOrder(B)[k]])
  BY BothRegions
<1>2. /\ \A x \in A : \E k \in 1..m : InOrder(A)[k] = x
      /\ \A x \in B : \E k \in 1..n : InOrder(B)[k] = x
  <2>1. IsIndex(A) /\ IsIndex(B)
    BY DEF RegionsOf
  <2> QED BY <2>1, IndexOrder
<1> HIDE DEF t, m, n
<1>3. PICK N, i : /\ N \in Nat /\ i \in 0..N /\ DOMAIN as = 1..N /\ DOMAIN t = 1..(N - i)
                  /\ \A k \in 1..(N - i) : as[i + k].id = t[k].id
  BY DEF Passes, IsList, t
<1>4. \A k \in DOMAIN t : \E v \in ToSet(as) : v.id = t[k].id
  <2> TAKE k \in DOMAIN t
  <2>1. k \in 1..(N - i) /\ i + k \in 1..N
    BY <1>3
  <2>2. i + k \in DOMAIN as /\ as[i + k].id = t[k].id
    BY <1>3, <2>1
  <2> QED BY <2>2 DEF ToSet
<1>5. ASSUME NEW x \in A \cup B
      PROVE  \E v \in ToSet(as) : KeyOf(cells[x]) \in DOMAIN nodeIds /\ v.id = IdOf(cells[x])
  <2>1. PICK k \in DOMAIN t : IsRegion(t[k], cells[x])
    <3>1. CASE x \in A
      <4>1. PICK k \in 1..m : InOrder(A)[k] = x
        BY <1>2, <3>1
      <4>2. k \in 1..(m + n)
        BY <1>1
      <4> QED BY <1>1, <4>1, <4>2
    <3>2. CASE x \in B
      <4>1. PICK k \in 1..n : InOrder(B)[k] = x
        BY <1>2, <3>2
      <4>2. m + k \in 1..(m + n)
        BY <1>1
      <4> QED BY <1>1, <4>1, <4>2
    <3> QED BY <3>1, <3>2
  <2> QED BY <1>4, <2>1 DEF IsRegion
<1> QED BY <1>5 DEF Gets

\* doCallInst: actual and formal parameters, by their positions only.
LEMMA PairsUp ==
    ASSUME NEW c,
           NEW A, NEW B, NEW r, NEW s,
           RegionsOf(r, InterfaceCells(Callee(c)), A), RegionsOf(s, InterfaceCells(Callee(c)), B),
           NEW C, NEW D, NEW p, NEW q, C \in SUBSET A, D \in SUBSET B,
           RegionsOf(p, ImagesOf(c, InterfaceCells(Callee(c))), C),
           RegionsOf(q, ImagesOf(c, InterfaceCells(Callee(c))), D),
           NEW as, NEW vs, Passes(as, p \o q), Passes(vs, r \o s), Match(as, vs)
    PROVE  \A k \in DOMAIN as : PairedAt(c, as[k], vs[k])
<1> DEFINE own == InterfaceCells(Callee(c))
           images == ImagesOf(c, own)
           rs == r \o s
           ps == p \o q
           a == Cardinality(A)
           b == Cardinality(B)
           e == Cardinality(C)
           d == Cardinality(D)
           N == Len(as)
<1>1. /\ a \in Nat /\ b \in Nat /\ DOMAIN rs = 1..(a + b)
      /\ \A k \in 1..a : IsRegion(rs[k], own[InOrder(A)[k]])
      /\ \A k \in 1..b : IsRegion(rs[a + k], own[InOrder(B)[k]])
  BY BothRegions
<1>2. IsIndex(A) /\ IsIndex(B) /\ \A k \in A \cup B : k \in DOMAIN own
  BY DEF RegionsOf
<1>3. \A k \in DOMAIN own : images[k] = Image(c, own[k]) /\ own[k] \in ToSet(own)
  BY DEF ImagesOf, ToSet
<1>4. PICK n \in 0..N : Aligned(as, vs, ps, rs, n)
  BY RefsFirst
<1> HIDE DEF N
<1>5. N \in Nat /\ DOMAIN as = 1..N
  BY DEF Passes, IsList, N
<1>6. /\ e \in Nat /\ d \in Nat /\ DOMAIN ps = 1..(e + d)
      /\ \A k \in 1..e : IsRegion(ps[k], images[InOrder(C)[k]])
      /\ \A k \in 1..d : IsRegion(ps[e + k], images[InOrder(D)[k]])
  BY BothRegions
<1> HIDE DEF own, images, rs, ps, a, b, e, d
<1>7. N - n = a + b /\ a + b = e + d
  <2>1. 1..(N - n) = 1..(a + b)
    BY <1>1, <1>4 DEF Aligned, N
  <2>2. 1..(a + b) = 1..(e + d)
    BY <1>4, <1>6, <2>1 DEF Aligned, N
  <2>3. N - n \in Nat
    BY <1>5
  <2>4. a + b \in Nat /\ e + d \in Nat
    BY <1>1, <1>6
  <2> QED BY <2>1, <2>2, <2>3, <2>4, SameEnd
<1>8. C = A /\ D = B
  BY <1>2, <1>7, SameSize DEF a, b, e, d
<1>9. \A k \in 1..(a + b) : \E x \in DOMAIN own : IsRegion(rs[k], own[x]) /\ IsRegion(ps[k], images[x])
  <2> TAKE k \in 1..(a + b)
  <2>1. CASE k <= a
    <3>1. k \in 1..a /\ InOrder(A)[k] \in A
      BY <1>1, <1>2, <2>1, IndexOrder DEF a
    <3> QED BY <1>1, <1>2, <1>6, <1>8, <3>1 DEF a, e
  <2>2. CASE ~ k <= a
    <3>1. PICK j \in 1..b : k = a + j
      <4>1. k - a \in 1..b /\ k = a + (k - a)
        BY <1>1, <2>2
      <4> QED BY <4>1
    <3>2. InOrder(B)[j] \in B
      BY <1>1, <1>2, IndexOrder DEF b
    <3> QED BY <1>1, <1>2, <1>6, <1>8, <3>1, <3>2 DEF a, b, e, d
  <2> QED BY <2>1, <2>2
<1>10. ASSUME NEW k \in DOMAIN as PROVE PairedAt(c, as[k], vs[k])
  <2>1. CASE k <= n
    <3>1. k \in 1..n
      BY <1>5, <2>1
    <3> QED BY <1>4, <3>1 DEF Aligned, N, PairedAt
  <2>2. CASE ~ k <= n
    <3>1. PICK j \in 1..(a + b) : k = n + j
      <4>1. k - n \in 1..(N - n) /\ k = n + (k - n)
        BY <1>5, <2>2
      <4> QED BY <1>7, <4>1
    <3>2. as[k].id = ps[j].id /\ vs[k].id = rs[j].id
      BY <1>4, <1>7, <3>1 DEF Aligned, N
    <3>3. PICK x \in DOMAIN own : IsRegion(rs[j], own[x]) /\ IsRegion(ps[j], images[x])
      BY <1>9
    <3>4. own[x] \in ToSet(own) /\ images[x] = Image(c, own[x])
      BY <1>3
    <3> QED BY <3>2, <3>3, <3>4 DEF IsRegion, PairedAt, own
  <2> QED BY <2>1, <2>2
<1> QED BY <1>10

\* The references to globals.
LEMMA RefsAre ==
    ASSUME NEW st, NEW T, NEW cells \in Seq(T)
    PROVE  \E n \in Nat : /\ IsList(GlobalRefs(st, cells), n)
                          /\ \A k \in 1..n : GlobalRefs(st, cells)[k].kind = "ref"
<1> DEFINE refs == GlobalRefs(st, cells)
           ps == {k \in DOMAIN cells : ~IsSingleton(RegionAt(st, cells[k]))}
           kept == Pick(cells, ps)
<1>1. CASE prog.mem
  <2>1. kept \in Seq(T)
    <3>1. Len(cells) \in Nat /\ DOMAIN cells = 1..Len(cells)
      OBVIOUS
    <3>2. \A k \in ps \cap DOMAIN cells : cells[k] \in T
      OBVIOUS
    <3> HIDE DEF ps
    <3> QED BY <3>1, <3>2, PickType
  <2>2. refs = [k \in DOMAIN kept |-> RefVar(RegionAt(st, kept[k]).id)]
    BY <1>1 DEF GlobalRefs
  <2> HIDE DEF kept, refs
  <2>3. PICK n \in Nat : DOMAIN kept = 1..n
    BY <2>1
  <2>4. IsList(refs, n) /\ \A k \in 1..n : refs[k].kind = "ref"
    BY <2>2, <2>3 DEF IsList, RefVar
  <2> QED BY <2>4 DEF refs
<1>2. CASE ~prog.mem
  <2>1. refs = <<>>
    BY <1>2 DEF GlobalRefs
  <2>2. IsList(refs, 0)
    BY <2>1 DEF IsList
  <2> HIDE DEF refs
  <2>3. 0 \in Nat /\ \A k \in 1..0 : refs[k].kind = "ref"
    OBVIOUS
  <2> QED BY <2>2, <2>3 DEF refs
<1> QED BY <1>1, <1>2

\* After them, the variables of regions.
VarsOf(vs, rs, n) ==
    /\ n \in Nat /\ DOMAIN rs = 1..n /\ IsList(vs, n)
    /\ \A k \in 1..n : /\ "id" \in DOMAIN vs[k] /\ vs[k].id = rs[k].id
                      /\ vs[k].kind # "ref"

LEMMA PassesBoth ==
    ASSUME NEW m \in Nat, NEW refs, IsList(refs, m), \A k \in 1..m : refs[k].kind = "ref",
           NEW n, NEW vs, NEW rs, VarsOf(vs, rs, n)
    PROVE  Passes(refs \o vs, rs)
<1>1. /\ n \in Nat /\ DOMAIN rs = 1..n /\ IsList(vs, n)
      /\ \A k \in 1..n : /\ "id" \in DOMAIN vs[k] /\ vs[k].id = rs[k].id
                        /\ vs[k].kind # "ref"
  BY DEF VarsOf
<1> DEFINE all == refs \o vs
           N == Len(all)
<1>2. /\ IsList(all, m + n) /\ N = m + n
      /\ \A k \in 1..m : all[k] = refs[k]
      /\ \A k \in 1..n : all[m + k] = vs[k]
  <2>1. Joins(all, refs, vs, m, n)
    BY <1>1, ListConcat
  <2> HIDE DEF all
  <2> QED BY <2>1 DEF Joins
<1> HIDE DEF all, N
<1>3. N \in Nat /\ m \in 0..N /\ N - m = n
  BY <1>1, <1>2
<1>4. \A k \in 1..m : all[k].kind = "ref"
  BY <1>2
<1>5. \A k \in 1..(N - m) : /\ "id" \in DOMAIN all[m + k] /\ all[m + k].id = rs[k].id
                            /\ all[m + k].kind # "ref"
  <2> SUFFICES ASSUME NEW k \in 1..(N - m)
               PROVE  /\ "id" \in DOMAIN all[m + k] /\ all[m + k].id = rs[k].id
                      /\ all[m + k].kind # "ref"
    OBVIOUS
  <2>1. k \in 1..n
    BY <1>3
  <2>2. all[m + k] = vs[k]
    BY <1>2, <2>1
  <2> QED BY <1>1, <2>1, <2>2
<1> QED BY <1>1, <1>2, <1>3, <1>4, <1>5 DEF Passes, all, N

LEMMA VarKind ==
    ASSUME NEW r, NEW fresh
    PROVE  /\ "id" \in DOMAIN Var(r, fresh) /\ Var(r, fresh).id = r.id
           /\ Var(r, fresh).kind # "ref"
BY DEF Var

\* addFunctionDeclaration and doCallInst: parameters.
MadeFor(vs, rs) ==
    /\ vs = [k \in DOMAIN rs |-> vs[k]]
    /\ \A k \in DOMAIN rs : \E j : vs[k] = Var(rs[k], j)

LEMMA InsPass ==
    ASSUME NEW cells, NEW A, NEW B, NEW lists,
           RegionsOf(InRegions(lists), cells, A), RegionsOf(InOutRegions(lists), cells, B),
           NEW m \in Nat, NEW refs, IsList(refs, m), \A k \in 1..m : refs[k].kind = "ref",
           NEW vs, MadeFor(vs, Ins(lists))
    PROVE  Passes(refs \o vs, Ins(lists))
<1> DEFINE rs == Ins(lists)
           n == Cardinality(A) + Cardinality(B)
<1>1. n \in Nat /\ DOMAIN rs = 1..n
  <2>1. /\ Cardinality(A) \in Nat /\ Cardinality(B) \in Nat
        /\ DOMAIN (InRegions(lists) \o InOutRegions(lists)) = 1..n
    BY BothRegions
  <2> QED BY <2>1 DEF Ins
<1> HIDE DEF rs, n
<1>2. IsList(vs, n)
  BY <1>1 DEF IsList, MadeFor, rs
<1>3. \A k \in 1..n : "id" \in DOMAIN vs[k] /\ vs[k].id = rs[k].id /\ vs[k].kind # "ref"
  <2> TAKE k \in 1..n
  <2>1. PICK j : vs[k] = Var(rs[k], j)
    BY <1>1 DEF rs, MadeFor
  <2> QED BY <2>1, VarKind
<1>4. VarsOf(vs, rs, n)
  BY <1>1, <1>2, <1>3 DEF VarsOf
<1> QED BY <1>4, PassesBoth DEF rs

\* Results.
LEMMA OutsPass ==
    ASSUME NEW cells, NEW A, NEW B, NEW lists,
           RegionsOf(InOutRegions(lists), cells, A), RegionsOf(OutRegions(lists), cells, B)
    PROVE  Passes(OutVars(lists), InOutRegions(lists) \o OutRegions(lists))
<1> DEFINE mods == InOutRegions(lists)
           news == OutRegions(lists)
           rs == mods \o news
           a == Cardinality(A)
           b == Cardinality(B)
           Own(r) == [Var(r, 0) EXCEPT !.kind = IF prog.mem THEN "region" ELSE "array"]
           us == [k \in DOMAIN mods |-> Var(mods[k], 0)]
           ws == [k \in DOMAIN news |-> Own(news[k])]
           vs == us \o ws
<1>1. /\ a \in Nat /\ b \in Nat /\ DOMAIN rs = 1..(a + b)
  BY BothRegions
<1>2. IsList(mods, a) /\ IsList(news, b)
  BY DEF RegionsOf
<1>3. OutVars(lists) = vs
  BY DEF OutVars
<1>4. \A r : "id" \in DOMAIN Own(r) /\ Own(r).id = r.id /\ Own(r).kind # "ref"
  <2> TAKE r
  <2>1. PICK v : v = Var(r, 0)
    OBVIOUS
  <2>2. {"id", "kind"} \subseteq DOMAIN v /\ v.id = r.id
    BY <2>1 DEF Var
  <2>3. Own(r) = [v EXCEPT !.kind = IF prog.mem THEN "region" ELSE "array"]
    BY <2>1
  <2> HIDE DEF Own
  <2> QED BY <2>2, <2>3
<1> HIDE DEF mods, news, a, b, Own
<1>5. DOMAIN mods = 1..a /\ DOMAIN news = 1..b
  BY <1>2 DEF IsList
<1>6. /\ IsList(us, a) /\ IsList(ws, b)
      /\ \A k \in 1..a : "id" \in DOMAIN us[k] /\ us[k].id = mods[k].id /\ us[k].kind # "ref"
      /\ \A k \in 1..b : "id" \in DOMAIN ws[k] /\ ws[k].id = news[k].id /\ ws[k].kind # "ref"
  <2>1. IsList(us, a) /\ IsList(ws, b)
    BY <1>5 DEF IsList
  <2>2. /\ \A k \in 1..a : us[k] = Var(mods[k], 0)
        /\ \A k \in 1..b : ws[k] = Own(news[k])
    BY <1>5
  <2> HIDE DEF us, ws
  <2>3. \A k \in 1..a : "id" \in DOMAIN us[k] /\ us[k].id = mods[k].id /\ us[k].kind # "ref"
    BY <2>2, VarKind
  <2>4. \A k \in 1..b : "id" \in DOMAIN ws[k] /\ ws[k].id = news[k].id /\ ws[k].kind # "ref"
    BY <1>4, <2>2
  <2> QED BY <2>1, <2>3, <2>4
<1> HIDE DEF us, ws
<1>7. /\ IsList(vs, a + b) /\ Len(vs) = a + b
      /\ \A k \in 1..a : vs[k] = us[k]
      /\ \A k \in 1..b : vs[a + k] = ws[k]
  <2>1. Joins(vs, us, ws, a, b)
    BY <1>1, <1>6, ListConcat
  <2> HIDE DEF vs
  <2> QED BY <2>1 DEF Joins
<1>8. /\ \A k \in 1..a : rs[k] = mods[k]
      /\ \A k \in 1..b : rs[a + k] = news[k]
  <2>1. Joins(rs, mods, news, a, b)
    BY <1>1, <1>2, ListConcat
  <2> HIDE DEF rs
  <2> QED BY <2>1 DEF Joins
<1> DEFINE N == Len(vs)
<1> HIDE DEF vs, rs, N
<1>9. \A k \in 1..(a + b) : "id" \in DOMAIN vs[k] /\ vs[k].id = rs[k].id /\ vs[k].kind # "ref"
  <2> TAKE k \in 1..(a + b)
  <2>1. CASE k <= a
    <3>1. k \in 1..a
      BY <1>1, <2>1
    <3> QED BY <1>6, <1>7, <1>8, <3>1
  <2>2. CASE ~ k <= a
    <3>1. PICK j \in 1..b : k = a + j
      <4>1. k - a \in 1..b /\ k = a + (k - a)
        BY <1>1, <2>2
      <4> QED BY <4>1
    <3> QED BY <1>6, <1>7, <1>8, <3>1
  <2> QED BY <2>1, <2>2
<1>10. N = a + b /\ N \in Nat /\ 0 \in 0..N /\ N - 0 = a + b
  BY <1>1, <1>7 DEF N
<1>11. Passes(vs, rs)
  <2>1. IsList(vs, N) /\ DOMAIN rs = 1..(N - 0)
    BY <1>1, <1>7, <1>10
  <2>2. \A k \in 1..0 : vs[k].kind = "ref"
    OBVIOUS
  <2>3. \A k \in 1..(N - 0) : /\ "id" \in DOMAIN vs[0 + k] /\ vs[0 + k].id = rs[k].id
                             /\ vs[0 + k].kind # "ref"
    BY <1>1, <1>9, <1>10
  <2> QED BY <1>10, <2>1, <2>2, <2>3 DEF Passes, N
<1> QED BY <1>3, <1>11 DEF vs, rs, us, ws, mods, news, Own

-----------------------------------------------------------------------------
(* A call that is translated *)

\* After the two passes: the regions of a callee, and of a call.
RegionsAre(lists, f, cells) ==
    /\ RegionsOf(InRegions(lists), cells, ReadAt(f, cells))
    /\ RegionsOf(InOutRegions(lists), cells, ModAt(f, cells))
    /\ RegionsOf(OutRegions(lists), cells, NewAt(f, cells))

LEMMA FunRegions ==
    ASSUME RegionInv, ListsInv, pc \in {"declare", "build", "error"}, NEW f \in prog.funcs
    PROVE  RegionsAre(fun[f], f, InterfaceCells(f))
<1>1. Fits(prog) /\ Represent(InterfaceCells(f), f)
  BY ProgramsFit, OwnCells DEF RegionInv
<1>2. \A l \in Lists : RegionsOf(fun[f][l], InterfaceCells(f), KeptAt(l, f))
  BY DEF ListsInv, Computed, Checked, FunRight
<1>3. PICK cells, lists : cells = InterfaceCells(f) /\ lists = fun[f]
  OBVIOUS
<1> QED BY <1>1, <1>2, <1>3, ListsOf DEF RegionsAre

LEMMA CallRegions ==
    ASSUME RegionInv, ListsInv, pc \in {"declare", "build", "error"}, NEW c \in Calls
    PROVE  RegionsAre(call[c], Callee(c), ImagesOf(c, InterfaceCells(Callee(c))))
<1>1. PICK cells, lists, f : /\ cells = ImagesOf(c, InterfaceCells(Callee(c)))
                             /\ lists = call[c] /\ f = Callee(c)
  OBVIOUS
<1>2. Fits(prog) /\ Represent(cells, f)
  BY <1>1, ProgramsFit, CallersCells DEF RegionInv
<1>3. \A l \in Lists : RegionsOf(lists[l], cells, KeptAt(l, f))
  BY <1>1 DEF ListsInv, Computed, Checked, CallRight
<1> QED BY <1>1, <1>2, <1>3, ListsOf DEF RegionsAre

\* What the call passes is then part of what the callee takes.
LEMMA TrackedPart ==
    ASSUME TracksAlike, NEW c \in Calls
    PROVE  LET f == Callee(c)
               own == InterfaceCells(f)
               images == ImagesOf(c, own)
           IN  /\ ReadAt(f, images) \in SUBSET ReadAt(f, own)
               /\ ModAt(f, images) \in SUBSET ModAt(f, own)
               /\ NewAt(f, images) \in SUBSET NewAt(f, own)
<1> DEFINE f == Callee(c)
           own == InterfaceCells(f)
           images == ImagesOf(c, own)
<1>1. \A k \in DOMAIN own : TrackedCell(images[k]) => TrackedCell(own[k])
  <2> TAKE k \in DOMAIN own
  <2>1. own[k] \in ToSet(own) /\ images[k] = Image(c, own[k])
    BY DEF ToSet, ImagesOf
  <2> QED BY <2>1 DEF TracksAlike
<1>2. \A l : \A k \in KeptAt(l, f) : k \in DOMAIN own
  BY DEF KeptAt, Listed
<1> HIDE DEF f, own, images
<1>3. /\ \A k \in ReadAt(f, images) : k \in ReadAt(f, own)
      /\ \A k \in ModAt(f, images) : k \in ModAt(f, own)
      /\ \A k \in NewAt(f, images) : k \in NewAt(f, own)
  BY <1>1, <1>2 DEF ReadAt, ModAt, NewAt
<1> QED BY <1>3 DEF f, own, images

LEMMA ActualsPass ==
    ASSUME RegionInv, NEW c \in Calls, NEW st,
           RegionsAre(call[c], Callee(c), ImagesOf(c, InterfaceCells(Callee(c))))
    PROVE  /\ Passes(ActualIns(st, c), Ins(call[c]))
           /\ Passes(ActualOuts(c), InOutRegions(call[c]) \o OutRegions(call[c]))
<1> DEFINE f == Callee(c)
           globals == IF f = "main" THEN <<>> ELSE ImagesOf(c, GlobalCells(f))
           refs == GlobalRefs(st, globals)
           ins == Ins(call[c])
           vs == [k \in DOMAIN ins |-> Var(ins[k], 0)]
<1>1. PICK cells, A, B, C, lists :
          /\ lists = call[c] /\ RegionsOf(InRegions(lists), cells, A)
          /\ RegionsOf(InOutRegions(lists), cells, B) /\ RegionsOf(OutRegions(lists), cells, C)
  BY DEF RegionsAre
<1>2. Passes(ActualOuts(c), InOutRegions(call[c]) \o OutRegions(call[c]))
  BY <1>1, OutsPass DEF ActualOuts
<1>3. \E T : globals \in Seq(T)
  <2>1. CASE f = "main"
    <3>1. globals = <<>>
      BY <2>1
    <3> HIDE DEF globals
    <3> QED BY <3>1
  <2>2. CASE f # "main"
    <3>1. Fits(prog) /\ f \in prog.funcs
      BY ProgramsFit, CallEnds DEF RegionInv
    <3>2. PICK n \in Nat : DOMAIN GlobalCells(f) = 1..n
      <4>1. GlobalCells(f) \in Seq(CellsIn(f, prog.globals[f]))
        BY <3>1, GlobalsType
      <4> QED BY <4>1
    <3>3. globals = [k \in 1..n |-> Image(c, GlobalCells(f)[k])]
      BY <2>2, <3>2 DEF ImagesOf
    <3> DEFINE T == {Image(c, GlobalCells(f)[k]) : k \in 1..n}
    <3>4. globals \in [1..n -> T]
      BY <3>3
    <3> HIDE DEF T
    <3>5. globals \in Seq(T)
      BY <3>4, FunctionIsSeq
    <3> QED BY <3>5
  <2> QED BY <2>1, <2>2
<1>4. PICK m \in Nat : IsList(refs, m) /\ \A k \in 1..m : refs[k].kind = "ref"
  <2> HIDE DEF globals
  <2>1. PICK T : globals \in Seq(T)
    BY <1>3
  <2> QED BY <2>1, RefsAre
<1>5. ActualIns(st, c) = refs \o vs
  BY DEF ActualIns
<1>6. MadeFor(vs, Ins(lists))
  BY <1>1 DEF MadeFor
<1> HIDE DEF refs, vs, ins
<1>7. Passes(refs \o vs, Ins(lists))
  BY <1>1, <1>4, <1>6, InsPass
<1> QED BY <1>1, <1>2, <1>5, <1>7

\* What unifyRgnType and its casts leave as it is.
SameIds(us, vs) == DOMAIN us = DOMAIN vs /\ \A k \in DOMAIN vs : us[k].id = vs[k].id

LEMMA UnifiedSame ==
    ASSUME NEW actuals, NEW formals, NEW base, Match(actuals, formals), NEW rs, Passes(formals, rs)
    PROVE  SameIds(Unified(actuals, formals, base), actuals)
<1> DEFINE us == Unified(actuals, formals, base)
<1>1. /\ DOMAIN us = DOMAIN actuals
      /\ \A k \in DOMAIN actuals :
             us[k] = IF TypeOf(actuals[k]) = TypeOf(formals[k]) THEN actuals[k]
                     ELSE AuxVar(actuals[k], formals[k], base + k)
  BY DEF Unified
<1> HIDE DEF us
<1>2. PICK N, n : /\ N \in Nat /\ n \in 0..N /\ DOMAIN actuals = 1..N
                  /\ \A k \in 1..n : formals[k].kind = "ref"
                  /\ \A k \in 1..(N - n) : "id" \in DOMAIN formals[n + k]
  BY DEF Passes, IsList, Match
<1>3. ASSUME NEW k \in DOMAIN actuals PROVE us[k].id = actuals[k].id
  <2>1. CASE k <= n
    <3>1. formals[k].kind = "ref" /\ Compatible(actuals[k], formals[k])
      BY <1>2, <2>1 DEF Match
    <3>2. TypeOf(actuals[k]) = TypeOf(formals[k])
      BY <3>1 DEF Compatible, IsUnknownRegion, IsTypedRegion
    <3> QED BY <1>1, <3>2
  <2>2. CASE ~ k <= n
    <3>1. PICK j \in 1..(N - n) : k = n + j
      <4>1. k - n \in 1..(N - n) /\ k = n + (k - n)
        BY <1>2, <2>2
      <4> QED BY <4>1
    <3>2. "id" \in DOMAIN formals[k]
      BY <1>2, <3>1
    <3>3. AuxVar(actuals[k], formals[k], base + k).id = actuals[k].id
      BY <3>2 DEF AuxVar
    <3> QED BY <1>1, <3>3
  <2> QED BY <2>1, <2>2
<1> QED BY <1>1, <1>3 DEF SameIds, us

LEMMA CastsAre ==
    ASSUME NEW n \in Nat, NEW from, NEW to, DOMAIN from = 1..n
    PROVE  \E m \in Nat : /\ IsList(Casts(from, to), m)
                          /\ \A k \in 1..m : Casts(from, to)[k].op \in Plain
<1> DEFINE S == {k \in DOMAIN from : from[k] # to[k]}
           casts == Casts(from, to)
<1>1. S \in SUBSET (1..n) /\ IsFiniteSet(1..n)
  BY FS_Interval
<1>2. casts = [j \in DOMAIN InOrder(S) |->
                  Stmt("cast", <<to[InOrder(S)[j]]>>, <<from[InOrder(S)[j]]>>)]
  BY DEF Casts
<1> HIDE DEF S
<1>3. Cardinality(S) \in Nat
  BY <1>1, FS_Subset, FS_CardinalityType
<1>4. DOMAIN InOrder(S) = 1..Cardinality(S)
  BY DEF InOrder
<1> HIDE DEF casts
<1>5. DOMAIN casts = 1..Cardinality(S) /\ \A k \in DOMAIN casts : casts[k].op \in Plain
  BY <1>2, <1>4 DEF Stmt, Plain
<1>6. IsList(casts, Cardinality(S))
  BY <1>2, <1>4 DEF IsList
<1> QED BY <1>3, <1>5, <1>6 DEF casts

\* The members of one list after another.
LEMMA ConcatMembers ==
    ASSUME NEW m \in Nat, NEW n \in Nat, NEW r, NEW s, IsList(r, m), IsList(s, n)
    PROVE  /\ IsList(r \o s, m + n) /\ Len(r \o s) = m + n
           /\ \A x \in ToSet(r \o s) : x \in ToSet(r) \/ x \in ToSet(s)
<1> DEFINE t == r \o s
<1>1. Joins(t, r, s, m, n)
  BY ListConcat
<1> HIDE DEF t
<1>2. /\ IsList(t, m + n) /\ Len(t) = m + n
      /\ \A k \in 1..m : t[k] = r[k]
      /\ \A k \in 1..n : t[m + k] = s[k]
  BY <1>1 DEF Joins
<1>3. DOMAIN t = 1..(m + n) /\ DOMAIN r = 1..m /\ DOMAIN s = 1..n
  BY <1>2 DEF IsList
<1>4. ASSUME NEW k \in 1..(m + n) PROVE t[k] \in ToSet(r) \/ t[k] \in ToSet(s)
  <2>1. CASE k <= m
    <3>1. k \in 1..m
      BY <2>1
    <3> QED BY <1>2, <1>3, <3>1 DEF ToSet
  <2>2. CASE ~ k <= m
    <3>1. k - m \in 1..n /\ k = m + (k - m)
      BY <2>2
    <3>2. t[k] = s[k - m]
      BY <1>2, <3>1
    <3> QED BY <1>3, <3>1, <3>2 DEF ToSet
  <2> QED BY <2>1, <2>2
<1> QED BY <1>2, <1>3, <1>4 DEF ToSet, t

\* A list of statements with no call in it, and one with a call.
NoCalls(code) ==
    \E n \in Nat : IsList(code, n) /\ \A k \in 1..n : code[k].op \in Plain

OneCall(code, s) ==
    \E n \in Nat : IsList(code, n) /\ \A x \in ToSet(code) : x.op \in Plain \/ x = s

LEMMA CallBetween ==
    ASSUME NEW a, NEW b, NoCalls(a), NoCalls(b), NEW s
    PROVE  OneCall(a \o <<s>> \o b, s)
<1>1. PICK m \in Nat, n \in Nat :
          /\ IsList(a, m) /\ \A k \in 1..m : a[k].op \in Plain
          /\ IsList(b, n) /\ \A k \in 1..n : b[k].op \in Plain
  BY DEF NoCalls
<1> DEFINE one == <<s>>
           t == a \o one
           u == t \o b
<1>2. IsList(one, 1) /\ one[1] = s
  BY DEF IsList
<1> HIDE DEF one
<1>3. /\ IsList(t, m + 1)
      /\ \A x \in ToSet(t) : x \in ToSet(a) \/ x \in ToSet(one)
  BY <1>1, <1>2, ConcatMembers
<1> HIDE DEF t
<1>4. /\ IsList(u, m + 1 + n)
      /\ \A x \in ToSet(u) : x \in ToSet(t) \/ x \in ToSet(b)
  BY <1>1, <1>3, ConcatMembers
<1> HIDE DEF u
<1>5. /\ \A x \in ToSet(a) : x.op \in Plain
      /\ \A x \in ToSet(b) : x.op \in Plain
      /\ \A x \in ToSet(one) : x = s
  BY <1>1, <1>2 DEF IsList, ToSet
<1>6. OneCall(u, s)
  BY <1>1, <1>3, <1>4, <1>5 DEF OneCall
<1> QED BY <1>6 DEF u, t, one

LEMMA FormalsPass ==
    ASSUME NEW f, DeclaredRight(f)
    PROVE  (\E rs : Passes(cfg[f].ins, rs)) /\ (\E rs : Passes(cfg[f].outs, rs))
<1>1. Passes(<<>>, <<>>)
  BY DEF Passes, IsList
<1> QED BY <1>1 DEF DeclaredRight

\* doCallInst.
LEMMA CallIsRight ==
    ASSUME RegionInv, ListsInv, CfgInv, pc = "build", NEW c \in Calls, NEW st, CallMatches(st, c)
    PROVE  \E s : s.op = "call" /\ CallStmtRight(s) /\ OneCall(CallStmts(st, c), s)
<1> DEFINE f == Callee(c)
           own == InterfaceCells(f)
           images == ImagesOf(c, own)
           ins == ActualIns(st, c)
           outs == ActualOuts(c)
           insU == Unified(ins, cfg[f].ins, 20 * c)
           outsU == Unified(outs, cfg[f].outs, 20 * c + 10)
           s == [op |-> "call", lhs |-> outsU, args |-> insU, call |-> c]
<1>1. f \in prog.funcs /\ f \in DOMAIN cfg /\ DeclaredRight(f)
  BY ProgramsFit, CallEnds DEF RegionInv, CfgInv
<1>2. RegionsAre(fun[f], f, own) /\ RegionsAre(call[c], f, images)
  BY <1>1, FunRegions, CallRegions
<1>3. /\ Passes(ins, Ins(call[c]))
      /\ Passes(outs, InOutRegions(call[c]) \o OutRegions(call[c]))
  BY <1>2, ActualsPass
<1>4. Match(ins, cfg[f].ins) /\ Match(outs, cfg[f].outs)
  BY DEF CallMatches
<1>5. SameIds(insU, ins) /\ SameIds(outsU, outs)
  BY <1>1, <1>4, FormalsPass, UnifiedSame
<1>6. CallStmts(st, c) = Casts(ins, insU) \o <<s>> \o Casts(outsU, outs)
  BY DEF CallStmts
<1> HIDE DEF f, own, images, ins, outs, insU, outsU
<1>7. PICK m \in Nat, n \in Nat : DOMAIN ins = 1..m /\ DOMAIN outs = 1..n
  BY <1>3 DEF Passes, IsList
<1>8. OneCall(CallStmts(st, c), s)
  <2>1. DOMAIN outsU = 1..n
    BY <1>5, <1>7 DEF SameIds
  <2>2. NoCalls(Casts(ins, insU)) /\ NoCalls(Casts(outsU, outs))
    BY <1>7, <2>1, CastsAre DEF NoCalls
  <2> HIDE DEF s
  <2> QED BY <1>6, <2>2, CallBetween
<1>9. Gets(outsU, images, ModAt(f, images) \cup NewAt(f, images))
  <2>1. Gets(outs, images, ModAt(f, images) \cup NewAt(f, images))
    BY <1>2, <1>3, GetsAll DEF RegionsAre
  <2>2. \A v \in ToSet(outs) : \E u \in ToSet(outsU) : u.id = v.id
    BY <1>5 DEF SameIds, ToSet
  <2> QED BY <2>1, <2>2 DEF Gets
<1>10. ASSUME TracksAlike
       PROVE  /\ \A k \in DOMAIN insU : PairedAt(c, insU[k], cfg[f].ins[k])
              /\ \A k \in DOMAIN outsU : PairedAt(c, outsU[k], cfg[f].outs[k])
  <2>1. CASE f = "main"
    <3>1. Len(cfg[f].ins) = 0 /\ Len(cfg[f].outs) = 0
      BY <1>1, <2>1 DEF DeclaredRight
    <3>2. DOMAIN ins = {} /\ DOMAIN outs = {}
      BY <1>3, <1>4, <3>1 DEF Match, Passes, IsList
    <3> QED BY <1>5, <3>2 DEF SameIds
  <2>2. CASE f # "main"
    <3>1. /\ Passes(cfg[f].ins, Ins(fun[f]))
          /\ Passes(cfg[f].outs, InOutRegions(fun[f]) \o OutRegions(fun[f]))
      BY <1>1, <2>2 DEF DeclaredRight
    <3>2. /\ ReadAt(f, images) \in SUBSET ReadAt(f, own)
          /\ ModAt(f, images) \in SUBSET ModAt(f, own)
          /\ NewAt(f, images) \in SUBSET NewAt(f, own)
      BY <1>10, TrackedPart DEF f, own, images
    <3>3. \A k \in DOMAIN ins : PairedAt(c, ins[k], cfg[f].ins[k])
      BY <1>2, <1>3, <1>4, <3>1, <3>2, PairsUp DEF RegionsAre, Ins, f, own, images
    <3>4. \A k \in DOMAIN outs : PairedAt(c, outs[k], cfg[f].outs[k])
      BY <1>2, <1>3, <1>4, <3>1, <3>2, PairsUp DEF RegionsAre, f, own, images
    <3> QED BY <1>5, <3>3, <3>4 DEF SameIds, PairedAt
  <2> QED BY <2>1, <2>2
<1>11. CallStmtRight(s)
  <2>1. s.call = c /\ s.lhs = outsU /\ s.args = insU
    OBVIOUS
  <2> HIDE DEF s
  <2> QED BY <1>9, <1>10, <2>1 DEF CallStmtRight, f, own, images
<1>12. s.op = "call"
  OBVIOUS
<1> HIDE DEF s
<1> QED BY <1>8, <1>11, <1>12

LEMMA ListLen ==
    ASSUME NEW n \in Nat, NEW s, IsList(s, n)
    PROVE  Len(s) = n /\ DOMAIN s = 1..n /\ \E U : s \in Seq(U)
<1>1. Joins(s \o s, s, s, n, n)
  BY ListConcat
<1>2. s = [k \in 1..n |-> s[k]]
  BY DEF IsList
<1> DEFINE U == {s[k] : k \in 1..n}
<1>3. s \in [1..n -> U]
  BY <1>2
<1> HIDE DEF U
<1>4. s \in Seq(U)
  BY <1>3, FunctionIsSeq
<1> QED BY <1>1, <1>2, <1>4 DEF Joins

LEMMA SeqIsList ==
    ASSUME NEW U, NEW s \in Seq(U)
    PROVE  Len(s) \in Nat /\ IsList(s, Len(s))
<1>1. PICK n : n = Len(s) /\ n \in Nat
  OBVIOUS
<1>2. s = [k \in 1..n |-> s[k]]
  BY <1>1
<1> QED BY <1>1, <1>2 DEF IsList

\* What stays as it is with the program: the regions of lists.
LEMMA InterfaceSame ==
    ASSUME prog' = prog
    PROVE  /\ \A lists : /\ Ins(lists)' = Ins(lists) /\ OutRegions(lists)' = OutRegions(lists)
                         /\ InOutRegions(lists)' = InOutRegions(lists)
           /\ TracksAlike' <=> TracksAlike
           /\ \A f, cells : ModAt(f, cells)' = ModAt(f, cells) /\ NewAt(f, cells)' = NewAt(f, cells)
<1>1. \A rs : TrackedIn(rs)' = TrackedIn(rs)
  BY DEF TrackedIn, Tracked
<1>2. \A lists : InRegions(lists)' = InRegions(lists) /\ OutRegions(lists)' = OutRegions(lists)
  BY <1>1 DEF InRegions, OutRegions
<1>3. \A lists : InOutRegions(lists)' = InOutRegions(lists)
  BY <1>1, <1>2 DEF InOutRegions
<1>4. \A lists : Ins(lists)' = Ins(lists)
  BY <1>2, <1>3 DEF Ins
<1>5. TracksAlike' <=> TracksAlike
  BY StaticSame DEF TracksAlike
<1>6. \A f, cells : ModAt(f, cells)' = ModAt(f, cells) /\ NewAt(f, cells)' = NewAt(f, cells)
  BY StaticSame DEF ModAt, NewAt
<1> QED BY <1>2, <1>3, <1>4, <1>5, <1>6

\* A call stays right: ids are not lost, and declarations do not change.
LEMMA StmtStays ==
    ASSUME IdsGrow, NEW s, CallStmtRight(s),
           cfg'[Callee(s.call)].ins = cfg[Callee(s.call)].ins,
           cfg'[Callee(s.call)].outs = cfg[Callee(s.call)].outs
    PROVE  CallStmtRight(s)'
<1>1. PICK c, f, own, cells :
          c = s.call /\ f = Callee(c) /\ own = InterfaceCells(f) /\ cells = ImagesOf(c, own)
  OBVIOUS
<1>2. /\ prog' = prog
      /\ Calls' = Calls /\ Callee(c)' = f /\ InterfaceCells(f)' = own
      /\ ImagesOf(c, InterfaceCells(f))' = cells
      /\ \A x : Image(c, x)' = Image(c, x)
      /\ ModAt(f, cells)' = ModAt(f, cells) /\ NewAt(f, cells)' = NewAt(f, cells)
      /\ TracksAlike' <=> TracksAlike
  BY <1>1, StaticSame, InterfaceSame DEF IdsGrow
<1>3. \A x : KeyOf(x) \in DOMAIN nodeIds => KeyOf(x) \in DOMAIN nodeIds' /\ IdOf(x)' = IdOf(x)
  BY DEF IdsGrow, IdOf, KeyOf
<1>4. \A lhs, ps : Gets(lhs, cells, ps) => Gets(lhs, cells, ps)'
  BY <1>3 DEF Gets
<1>5. \A a, v : PairedAt(c, a, v) => PairedAt(c, a, v)'
  BY <1>1, <1>2, <1>3 DEF PairedAt
<1>6. /\ c \in Calls
      /\ Gets(s.lhs, cells, ModAt(f, cells) \cup NewAt(f, cells))
      /\ TracksAlike =>
             /\ \A k \in DOMAIN s.args : PairedAt(c, s.args[k], cfg[f].ins[k])
             /\ \A k \in DOMAIN s.lhs : PairedAt(c, s.lhs[k], cfg[f].outs[k])
  BY <1>1 DEF CallStmtRight
<1>7. /\ Gets(s.lhs, cells, ModAt(f, cells) \cup NewAt(f, cells))'
      /\ TracksAlike' =>
             /\ \A k \in DOMAIN s.args : PairedAt(c, s.args[k], cfg[f].ins[k])'
             /\ \A k \in DOMAIN s.lhs : PairedAt(c, s.lhs[k], cfg[f].outs[k])'
  <2>1. PICK ps : ps = ModAt(f, cells) \cup NewAt(f, cells)
    OBVIOUS
  <2>2. Gets(s.lhs, cells, ps)'
    BY <1>4, <1>6, <2>1
  <2>3. Gets(s.lhs, cells, ModAt(f, cells) \cup NewAt(f, cells))'
    BY <1>2, <2>1, <2>2
  <2>4. cfg'[f].ins = cfg[f].ins /\ cfg'[f].outs = cfg[f].outs
    BY <1>1
  <2> QED BY <1>2, <1>5, <1>6, <2>3, <2>4
<1> QED BY <1>1, <1>2, <1>6, <1>7 DEF CallStmtRight

LEMMA ClassStmtsAre ==
    ASSUME Fits(prog), NEW f \in prog.funcs, NEW st
    PROVE  NoCalls(ClassStmts(st, f))
<1> DEFINE classes == EquivClasses(f)
           Regions(class) ==
               LET rs == [k \in DOMAIN class |-> RegionAt(st, class[k])]
               IN  Pick(rs, {k \in DOMAIN rs : ~IsSingleton(rs[k])})
           Args(class) == [j \in DOMAIN Regions(class) |-> Var(Regions(class)[j], 0)]
           all == [k \in DOMAIN classes |-> Stmt("intrinsic", <<>>, Args(classes[k]))]
           ps == {k \in DOMAIN all : Len(all[k].args) > 1}
<1>1. PICK n \in Nat : DOMAIN classes = 1..n
  <2> DEFINE cells == AllCells(f)
             Of(m) == Pick(cells, {k \in DOMAIN cells : cells[k][2] = m})
             S == {m \in Nodes(f) : Len(Of(m)) > 1}
  <2>1. S \in SUBSET Nodes(f) /\ IsFiniteSet(Nodes(f))
    BY DEF Fits, GraphFits, Nodes
  <2>2. classes = [k \in DOMAIN InOrder(S) |-> Of(InOrder(S)[k])]
    BY DEF EquivClasses
  <2>3. DOMAIN classes = DOMAIN InOrder(S)
    BY <2>2
  <2> HIDE DEF S, classes
  <2>4. Cardinality(S) \in Nat
    BY <2>1, FS_Subset, FS_CardinalityType
  <2>5. DOMAIN InOrder(S) = 1..Cardinality(S)
    BY DEF InOrder
  <2> QED BY <2>3, <2>4, <2>5
<1>2. CASE ~prog.mem
  <2>1. ClassStmts(st, f) = <<>>
    BY <1>2 DEF ClassStmts
  <2>2. IsList(<<>>, 0)
    BY DEF IsList
  <2> QED BY <2>1, <2>2 DEF NoCalls
<1>3. CASE prog.mem
  <2>1. ClassStmts(st, f) = Pick(all, ps)
    BY <1>3 DEF ClassStmts
  <2>2. /\ all = [k \in 1..n |-> all[k]] /\ DOMAIN all = 1..n
        /\ \A k \in 1..n : all[k].op \in Plain
    <3> HIDE DEF Args, classes
    <3>1. all = [k \in 1..n |-> Stmt("intrinsic", <<>>, Args(classes[k]))]
      BY <1>1
    <3> HIDE DEF all
    <3> QED BY <3>1 DEF Stmt, Plain
  <2> HIDE DEF all, ps
  <2>3. IsList(all, n)
    BY <2>2 DEF IsList
  <2>4. Len(all) = n
    BY <2>3, ListLen
  <2> DEFINE T == {all[k] : k \in 1..n}
  <2>5. Pick(all, ps) \in Seq(T)
    <3>1. \A k \in ps \cap DOMAIN all : all[k] \in T
      BY <2>2
    <3> HIDE DEF T
    <3> QED BY <2>2, <2>4, <3>1, PickType
  <2>6. \A x \in T : x.op \in Plain
    BY <2>2
  <2> DEFINE code == Pick(all, ps)
  <2> HIDE DEF T, code
  <2>7. code \in Seq(T) /\ Len(code) \in Nat /\ IsList(code, Len(code))
    BY <2>5, SeqIsList DEF code
  <2>8. \A k \in 1..Len(code) : code[k].op \in Plain
    BY <2>6, <2>7
  <2> QED BY <2>1, <2>7, <2>8 DEF NoCalls, code
<1> QED BY <1>2, <1>3

\* main has no references either.
LEMMA NoRefs ==
    ASSUME NEW st
    PROVE  GlobalRefs(st, <<>>) \o <<>> = <<>>
<1> DEFINE refs == GlobalRefs(st, <<>>)
           ps == {k \in DOMAIN <<>> : ~IsSingleton(RegionAt(st, <<>>[k]))}
           kept == Pick(<<>>, ps)
<1>1. CASE prog.mem
  <2>1. refs = [k \in DOMAIN kept |-> RefVar(RegionAt(st, kept[k]).id)]
    BY <1>1 DEF GlobalRefs
  <2>2. ps \cap DOMAIN <<>> = {}
    OBVIOUS
  <2>3. kept = [k \in DOMAIN InOrder({}) |-> <<>>[InOrder({})[k]]]
    BY <2>2, Zenon DEF Pick
  <2>4. DOMAIN InOrder({}) = 1..0
    BY FS_EmptySet DEF InOrder
  <2> HIDE DEF kept
  <2>5. DOMAIN kept = 1..0
    BY <2>3, <2>4
  <2>6. IsList(refs, 0)
    BY <2>1, <2>5 DEF IsList
  <2> HIDE DEF refs
  <2>7. Len(refs) = 0 /\ \E U : refs \in Seq(U)
    BY <2>6, ListLen
  <2>8. refs = <<>>
    BY <2>7
  <2> QED BY <2>8 DEF refs
<1>2. CASE ~prog.mem
  <2>1. refs = <<>>
    BY <1>2 DEF GlobalRefs
  <2> QED BY <2>1
<1> QED BY <1>1, <1>2

LEMMA InsLength ==
    ASSUME NEW cells, NEW A, NEW B, NEW lists,
           RegionsOf(InRegions(lists), cells, A), RegionsOf(InOutRegions(lists), cells, B)
    PROVE  \E n \in Nat : DOMAIN Ins(lists) = 1..n
<1>1. /\ Cardinality(A) \in Nat /\ Cardinality(B) \in Nat
      /\ DOMAIN (InRegions(lists) \o InOutRegions(lists)) = 1..(Cardinality(A) + Cardinality(B))
  BY BothRegions
<1> QED BY <1>1 DEF Ins

\* addFunctionDeclaration.
LEMMA DeclaredIsRight ==
    ASSUME RegionInv, ListsInv, pc = "declare", NEW f \in prog.funcs, NEW st,
           NEW ins, ins = IF f = "main" THEN <<>> ELSE Ins(fun[f]),
           NEW formals, formals = [k \in DOMAIN ins |-> Var(ins[k], k)]
    PROVE  /\ f = "main" => GlobalRefs(st, DeclareAsks(f)) \o formals = <<>>
           /\ f # "main" =>
                  /\ Passes(GlobalRefs(st, DeclareAsks(f)) \o formals, Ins(fun[f]))
                  /\ Passes(OutVars(fun[f]), InOutRegions(fun[f]) \o OutRegions(fun[f]))
           /\ \E n \in Nat : DOMAIN ins = 1..n
<1>1. CASE f = "main"
  <2>1. ins = <<>> /\ DeclareAsks(f) = <<>>
    BY <1>1 DEF DeclareAsks
  <2>2. formals = <<>> /\ DOMAIN ins = 1..0
    BY <2>1
  <2> QED BY <1>1, <2>1, <2>2, NoRefs
<1>2. CASE f # "main"
  <2>1. RegionsAre(fun[f], f, InterfaceCells(f)) /\ Fits(prog)
    BY FunRegions, ProgramsFit DEF RegionInv
  <2>2. PICK lists, cells, A, B, C :
            /\ lists = fun[f] /\ RegionsOf(InRegions(lists), cells, A)
            /\ RegionsOf(InOutRegions(lists), cells, B) /\ RegionsOf(OutRegions(lists), cells, C)
    BY <2>1 DEF RegionsAre
  <2>3. DeclareAsks(f) \in Seq(Cells)
    BY <2>1, AsksType
  <2> DEFINE refs == GlobalRefs(st, DeclareAsks(f))
  <2>4. PICK m \in Nat : IsList(refs, m) /\ \A k \in 1..m : refs[k].kind = "ref"
    BY <2>3, RefsAre
  <2> HIDE DEF refs
  <2>5. ins = Ins(lists)
    BY <1>2, <2>2
  <2>6. MadeFor(formals, Ins(lists))
    BY <2>5 DEF MadeFor
  <2>7. Passes(refs \o formals, Ins(lists))
    BY <2>2, <2>4, <2>6, InsPass
  <2>8. Passes(OutVars(lists), InOutRegions(lists) \o OutRegions(lists))
    BY <2>2, OutsPass
  <2>9. \E n \in Nat : DOMAIN ins = 1..n
    <3>1. RegionsOf(InRegions(lists), cells, A) /\ RegionsOf(InOutRegions(lists), cells, B)
      BY <2>2
    <3>2. \E n \in Nat : DOMAIN Ins(lists) = 1..n
      BY <3>1, InsLength
    <3> QED BY <2>5, <3>2
  <2> QED BY <1>2, <2>2, <2>7, <2>8, <2>9 DEF refs
<1> QED BY <1>1, <1>2

\* One declaration of CfgInv.
DeclRight(f) ==
    /\ f \in prog.funcs /\ DeclaredRight(f)
    /\ Len(cfg[f].code) \in Nat /\ IsList(cfg[f].code, Len(cfg[f].code))
    /\ \A s \in ToSet(cfg[f].code) :
           /\ s.op = "call" => pc \in {"build", "error"} /\ CallStmtRight(s)
           /\ SourceFits(s, cfg[f].ins)
    /\ InitRight(f)

LEMMA InitStays ==
    ASSUME prog' = prog, NEW f, InitRight(f), cfg'[f] = cfg[f]
    PROVE  InitRight(f)'
<1>1. \A code : InitStmts(f, code)' = InitStmts(f, code)
  BY DEF InitStmts, MayInit, MustNotInit
<1> QED BY <1>1 DEF InitRight

LEMMA DeclareKeepsCfg ==
    ASSUME RegionInv, ListsInv, CfgInv, NEW f \in prog.funcs, AddFunctionDeclaration(f)
    PROVE  CfgInv'
<1>1. pc = "declare" /\ pc' = pc /\ prog' = prog /\ fun' = fun /\ todo' = todo \ {f} /\ IdsGrow
  BY AsksStep DEF AddFunctionDeclaration
<1>2. PICK st, ins, formals, copies, outs :
          /\ ins = IF f = "main" THEN <<>> ELSE Ins(fun[f])
          /\ formals = [k \in DOMAIN ins |-> Var(ins[k], k)]
          /\ copies = [k \in DOMAIN ins |-> Stmt("copy", <<Var(ins[k], 0)>>, <<formals[k]>>)]
          /\ outs = IF f = "main" THEN <<>> ELSE OutVars(fun[f])
          /\ cfg' = With(cfg, f, [ins |-> GlobalRefs(st, DeclareAsks(f)) \o formals,
                                  outs |-> outs, code |-> copies \o ClassStmts(st, f)])
  BY DEF AddFunctionDeclaration, DeclareAsks
<1>3. /\ f = "main" => GlobalRefs(st, DeclareAsks(f)) \o formals = <<>>
      /\ f # "main" =>
             /\ Passes(GlobalRefs(st, DeclareAsks(f)) \o formals, Ins(fun[f]))
             /\ Passes(OutVars(fun[f]), InOutRegions(fun[f]) \o OutRegions(fun[f]))
      /\ \E n \in Nat : DOMAIN ins = 1..n
  BY <1>1, <1>2, DeclaredIsRight
<1> DEFINE code == copies \o ClassStmts(st, f)
           newIns == GlobalRefs(st, DeclareAsks(f)) \o formals
<1>4. \E n \in Nat :
          /\ IsList(code, n)
          /\ \A x \in ToSet(code) : x.op # "call" /\ SourceFits(x, newIns)
  <2>1. PICK m \in Nat : DOMAIN ins = 1..m
    BY <1>3
  <2>2. \A k \in 1..m : formals[k] \in ToSet(newIns)
    <3>1. Fits(prog) /\ DeclareAsks(f) \in Seq(Cells)
      BY ProgramsFit, AsksType DEF RegionInv
    <3> DEFINE refs == GlobalRefs(st, DeclareAsks(f))
    <3>2. PICK n \in Nat : IsList(refs, n)
      BY <3>1, RefsAre
    <3> HIDE DEF refs
    <3>3. IsList(formals, m)
      BY <1>2, <2>1 DEF IsList
    <3> DEFINE all == refs \o formals
    <3>4. Joins(all, refs, formals, n, m)
      BY <3>2, <3>3, ListConcat
    <3> HIDE DEF all
    <3>5. \A k \in 1..m : n + k \in DOMAIN all /\ all[n + k] = formals[k]
      <4>1. DOMAIN all = 1..(n + m)
        BY <3>4 DEF Joins, IsList
      <4>2. \A k \in 1..m : all[n + k] = formals[k]
        BY <3>4 DEF Joins
      <4>3. \A k \in 1..m : n + k \in 1..(n + m)
        OBVIOUS
      <4> QED BY <4>1, <4>2, <4>3
    <3>6. \A k \in 1..m : formals[k] \in ToSet(all)
      BY <3>5 DEF ToSet
    <3> QED BY <3>6 DEF all, refs, newIns
  <2>3. IsList(copies, m) /\ \A x \in ToSet(copies) : x.op # "call" /\ SourceFits(x, newIns)
    <3>1. DOMAIN copies = 1..m /\ IsList(copies, m)
      BY <1>2, <2>1 DEF IsList
    <3>2. \A k \in 1..m : copies[k].op = "copy" /\ copies[k].args = <<formals[k]>>
      BY <1>2, <2>1 DEF Stmt
    <3> HIDE DEF newIns
    <3>3. \A v : \A w \in RegionsIn(<<v>>) : w = v /\ w.kind = "region"
      BY DEF RegionsIn, ToSet
    <3>4. \A k \in 1..m : RegionsIn(copies[k].args) \subseteq RegionsIn(newIns)
      BY <2>2, <3>2, <3>3 DEF RegionsIn
    <3> QED BY <3>1, <3>2, <3>4 DEF ToSet, SourceFits
  <2>4. Fits(prog)
    BY ProgramsFit DEF RegionInv
  <2> DEFINE class == ClassStmts(st, f)
  <2>5. PICK n \in Nat : IsList(class, n) /\ \A k \in 1..n : class[k].op \in Plain
    BY <2>4, ClassStmtsAre DEF NoCalls
  <2> HIDE DEF class
  <2>6. IsList(code, m + n) /\ \A x \in ToSet(code) : x \in ToSet(copies) \/ x \in ToSet(class)
    BY <2>3, <2>5, ConcatMembers DEF class
  <2>7. \A x \in ToSet(class) : x.op \in Plain
    BY <2>5 DEF IsList, ToSet
  <2>8. \A x : x.op \in Plain => x.op # "call" /\ SourceFits(x, newIns)
    BY DEF Plain, SourceFits
  <2> HIDE DEF code
  <2>9. \A x \in ToSet(code) : x.op # "call" /\ SourceFits(x, newIns)
    BY <2>3, <2>6, <2>7, <2>8
  <2> QED BY <2>6, <2>9
<1>5. /\ f \in DOMAIN cfg' /\ DOMAIN cfg' = DOMAIN cfg \cup {f}
      /\ cfg'[f].ins = newIns /\ "init" \notin DOMAIN cfg'[f]
      /\ cfg'[f].outs = outs /\ cfg'[f].code = code
      /\ \A g \in DOMAIN cfg : g # f => cfg'[g] = cfg[g]
  BY <1>2 DEF With
<1> HIDE DEF code
<1>6. /\ Ins(fun[f])' = Ins(fun[f]) /\ OutRegions(fun[f])' = OutRegions(fun[f])
      /\ InOutRegions(fun[f])' = InOutRegions(fun[f])
      /\ \A g : /\ Ins(fun[g])' = Ins(fun[g]) /\ OutRegions(fun[g])' = OutRegions(fun[g])
                /\ InOutRegions(fun[g])' = InOutRegions(fun[g])
  BY <1>1, InterfaceSame
<1>7. DeclRight(f)'
  <2>1. DeclaredRight(f)'
    BY <1>2, <1>3, <1>5, <1>6 DEF DeclaredRight
  <2>2. PICK n \in Nat : /\ IsList(code, n)
                         /\ \A s \in ToSet(code) : s.op # "call" /\ SourceFits(s, newIns)
    BY <1>4
  <2>3. Len(code) = n
    BY <2>2, ListLen
  <2> HIDE DEF newIns
  <2> QED BY <1>1, <1>5, <2>1, <2>2, <2>3 DEF DeclRight, InitRight
<1>8. ASSUME NEW g \in DOMAIN cfg, g # f PROVE DeclRight(g)'
  <2>1. DeclRight(g)
    BY DEF CfgInv, DeclRight
  <2>2. DeclaredRight(g)'
    BY <1>5, <1>6, <1>8, <2>1 DEF DeclRight, DeclaredRight
  <2>3. \A s \in ToSet(cfg[g].code) : s.op # "call"
    BY <1>1, <2>1 DEF DeclRight
  <2>4. InitRight(g)'
    BY <1>1, <1>5, <1>8, <2>1, InitStays DEF DeclRight
  <2> QED BY <1>1, <1>5, <1>8, <2>1, <2>2, <2>3, <2>4 DEF DeclRight
<1>9. \A g \in DOMAIN cfg' : DeclRight(g)'
  BY <1>5, <1>7, <1>8
<1>10. \A g \in prog.funcs : g \in DOMAIN cfg' \/ g \in todo'
  BY <1>1, <1>5 DEF CfgInv
<1> QED BY <1>1, <1>9, <1>10 DEF CfgInv, DeclRight

-----------------------------------------------------------------------------
(* Bodies *)

\* A list in which every call is right.
GoodCode(code, ins) ==
    \E n \in Nat :
        /\ IsList(code, n)
        /\ \A s \in ToSet(code) :
               (s.op = "call" => CallStmtRight(s)) /\ SourceFits(s, ins)

\* What buildCfg makes of an item of the body of f.
ItemStmts(st, f, item) ==
    IF item.op = "call" THEN CallStmts(st, item.call)
    ELSE LET r == RegionAt(st, <<f, item.cell[1], item.cell[2]>>)
         IN  IF Tracked(r) THEN <<Stmt("use", <<>>, <<Var(r, 0)>>)>> ELSE <<>>

LEMMA ItemIsGood ==
    ASSUME RegionInv, ListsInv, CfgInv, pc = "build", NEW f \in prog.funcs, NEW st,
           \A c \in Calls : prog.calls[c].caller = f => CallMatches(st, c),
           NEW k \in DOMAIN prog.body[f]
    PROVE  GoodCode(ItemStmts(st, f, prog.body[f][k]), cfg[f].ins)
<1>1. PICK item : item = prog.body[f][k]
  OBVIOUS
<1>2. item.op = "call" => item.call \in Calls /\ prog.calls[item.call].caller = f
  <2>1. Fits(prog)
    BY ProgramsFit DEF RegionInv
  <2> QED BY <1>1, <2>1 DEF Fits, Calls
<1>3. CASE item.op = "call"
  <2>1. PICK c : c = item.call /\ c \in Calls /\ CallMatches(st, c)
    BY <1>2, <1>3
  <2>2. PICK s : s.op = "call" /\ CallStmtRight(s) /\ OneCall(CallStmts(st, c), s)
    BY <2>1, CallIsRight
  <2>3. GoodCode(CallStmts(st, c), cfg[f].ins)
    BY <2>2 DEF OneCall, GoodCode, SourceFits, Plain
  <2> QED BY <1>1, <1>3, <2>1, <2>3 DEF ItemStmts
<1>4. CASE item.op # "call"
  <2>1. GoodCode(<<>>, cfg[f].ins)
    BY DEF GoodCode, IsList, ToSet
  <2>2. ASSUME NEW s, s.op = "use" PROVE GoodCode(<<s>>, cfg[f].ins)
    <3> DEFINE one == <<s>>
    <3>1. IsList(one, 1) /\ DOMAIN one = 1..1 /\ one[1] = s
      BY DEF IsList
    <3> HIDE DEF one
    <3>2. \A x \in ToSet(one) : x = s
      BY <3>1 DEF ToSet
    <3>3. GoodCode(one, cfg[f].ins)
      BY <2>2, <3>1, <3>2 DEF GoodCode, SourceFits, Plain
    <3> QED BY <3>3 DEF one
  <2>3. \A r : Stmt("use", <<>>, <<Var(r, 0)>>).op = "use"
    BY DEF Stmt
  <2> QED BY <1>1, <1>4, <2>1, <2>2, <2>3 DEF ItemStmts
<1> QED BY <1>3, <1>4

LEMMA GoodAfterGood ==
    ASSUME NEW a, NEW b, NEW ins, GoodCode(a, ins), GoodCode(b, ins)
    PROVE  GoodCode(a \o b, ins)
<1> DEFINE Good(s) == (s.op = "call" => CallStmtRight(s)) /\ SourceFits(s, ins)
<1>1. PICK m \in Nat, n \in Nat :
          /\ IsList(a, m) /\ \A s \in ToSet(a) : Good(s)
          /\ IsList(b, n) /\ \A s \in ToSet(b) : Good(s)
  BY DEF GoodCode
<1> DEFINE t == a \o b
<1>2. IsList(t, m + n) /\ \A s \in ToSet(t) : s \in ToSet(a) \/ s \in ToSet(b)
  BY <1>1, ConcatMembers
<1> HIDE DEF t
<1>3. GoodCode(t, ins)
  BY <1>1, <1>2 DEF GoodCode
<1> QED BY <1>3 DEF t

LEMMA BodyIsGood ==
    ASSUME RegionInv, ListsInv, CfgInv, pc = "build", NEW f \in prog.funcs, NEW st,
           \A c \in Calls : prog.calls[c].caller = f => CallMatches(st, c)
    PROVE  GoodCode(cfg[f].code \o FlattenSeq([k \in DOMAIN prog.body[f] |->
                                                  ItemStmts(st, f, prog.body[f][k])]),
                    cfg[f].ins)
<1> DEFINE ss == [k \in DOMAIN prog.body[f] |-> ItemStmts(st, f, prog.body[f][k])]
           body == FlattenSeq(ss)
<1>1. PICK n \in Nat : DOMAIN prog.body[f] = 1..n
  BY ProgramsFit DEF RegionInv, Fits, IsSequence
<1>2. IsList(ss, n) /\ \A k \in 1..n : GoodCode(ss[k], cfg[f].ins)
  BY <1>1, ItemIsGood DEF IsList
<1> HIDE DEF ss
<1>3. \A k \in 1..n : \E U : ss[k] \in Seq(U)
  BY <1>2, ListLen DEF GoodCode
<1>4. /\ \E U : body \in Seq(U)
      /\ \A s \in ToSet(body) : \E k \in 1..n : s \in ToSet(ss[k])
  BY <1>2, <1>3, FlattenMembers
<1> HIDE DEF body
<1>5. Len(body) \in Nat /\ IsList(body, Len(body))
  BY <1>4, SeqIsList
<1>6. GoodCode(body, cfg[f].ins)
  BY <1>2, <1>4, <1>5 DEF GoodCode
<1>7. GoodCode(cfg[f].code, cfg[f].ins)
  BY DEF GoodCode, CfgInv
<1>8. GoodCode(cfg[f].code \o body, cfg[f].ins)
  BY <1>6, <1>7, GoodAfterGood
<1> QED BY <1>8 DEF body, ss

\* buildCfg.
LEMMA BuildKeepsCfg ==
    ASSUME RegionInv, ListsInv, CfgInv, NEW f \in prog.funcs, BuildCfg(f)
    PROVE  CfgInv'
<1>1. pc = "build" /\ prog' = prog /\ fun' = fun /\ IdsGrow
  BY AsksStep DEF BuildCfg
<1>2. PICK st :
          \/ /\ \A c \in Calls : prog.calls[c].caller = f => CallMatches(st, c)
             /\ \E code :
                    /\ code = cfg[f].code \o FlattenSeq([k \in DOMAIN prog.body[f] |->
                                                  ItemStmts(st, f, prog.body[f][k])])
                    /\ cfg' = [cfg EXCEPT ![f] =
                           [ins |-> @.ins, outs |-> @.outs, code |-> code,
                            init |-> InitStmts(f, code)]]
             /\ pc' = pc
          \/ pc' = "error" /\ cfg' = cfg
  <2> DEFINE asked == AccessedCells(f) \o
                    FlattenSeq([k \in DOMAIN CallsFrom(f) |->
                        ImagesOf(CallsFrom(f)[k], GlobalCells(Callee(CallsFrom(f)[k])))])
  <2>1. PICK st : st = MkRegions(Ids, asked)
    OBVIOUS
  <2> DEFINE code == cfg[f].code \o FlattenSeq([k \in DOMAIN prog.body[f] |->
                                                  ItemStmts(st, f, prog.body[f][k])])
  <2>2. IF \A c \in {c \in Calls : prog.calls[c].caller = f} : CallMatches(st, c)
        THEN /\ cfg' = [cfg EXCEPT ![f] =
                   [ins |-> @.ins, outs |-> @.outs, code |-> code,
                    init |-> InitStmts(f, code)]]
             /\ UNCHANGED pc
        ELSE pc' = "error" /\ UNCHANGED cfg
    BY <2>1, Zenon DEF BuildCfg, ItemStmts
  <2> HIDE DEF asked
  <2> QED BY <2>2, Zenon
<1>3. \A g \in prog.funcs : g \in DOMAIN cfg
  BY <1>1 DEF CfgInv
<1>4. /\ DOMAIN cfg' = DOMAIN cfg
      /\ \A g \in DOMAIN cfg : cfg'[g].ins = cfg[g].ins /\ cfg'[g].outs = cfg[g].outs
      /\ \A g \in DOMAIN cfg : GoodCode(cfg'[g].code, cfg[g].ins) /\ InitRight(g)'
      /\ pc' \in {"build", "error"}
  <2>1. \A g \in DOMAIN cfg : GoodCode(cfg[g].code, cfg[g].ins)
    BY DEF GoodCode, CfgInv
  <2>2. CASE pc' = "error" /\ cfg' = cfg
    <3>1. \A g \in DOMAIN cfg : InitRight(g)'
      BY <1>1, <2>2, InitStays DEF CfgInv
    <3> QED BY <2>1, <2>2, <3>1
  <2>3. CASE ~(pc' = "error" /\ cfg' = cfg)
    <3>0. PICK code : code = cfg[f].code \o FlattenSeq([k \in DOMAIN prog.body[f] |->
                                                  ItemStmts(st, f, prog.body[f][k])])
      OBVIOUS
    <3>1. cfg' = [cfg EXCEPT ![f] = [ins |-> @.ins, outs |-> @.outs,
                                     code |-> code, init |-> InitStmts(f, code)]]
      BY <1>2, <2>3, <3>0
    <3>2. GoodCode(code, cfg[f].ins)
      BY <1>1, <1>2, <2>3, <3>0, BodyIsGood
    <3>3. InitStmts(f, code)' = InitStmts(f, code)
      <4>1. cfg'[f].ins = cfg[f].ins /\ cfg'[f].outs = cfg[f].outs
        BY <1>3, <3>1
      <4>2. \A any : InitStmts(f, any)' = InitStmts(f, any)
        BY <1>1, <4>1 DEF InitStmts, MayInit, MustNotInit
      <4> QED BY <4>2
    <3>4. InitRight(f)'
      BY <1>3, <3>1, <3>3 DEF InitRight
    <3>5. \A g \in DOMAIN cfg : g # f => InitRight(g)'
      <4> SUFFICES ASSUME NEW g \in DOMAIN cfg, g # f PROVE InitRight(g)'
        OBVIOUS
      <4>1. cfg'[g] = cfg[g] /\ InitRight(g)
        BY <3>1 DEF CfgInv
      <4> QED BY <1>1, <4>1, InitStays
    <3>6. /\ DOMAIN cfg' = DOMAIN cfg
          /\ \A g \in DOMAIN cfg : cfg'[g].ins = cfg[g].ins /\ cfg'[g].outs = cfg[g].outs
          /\ \A g \in DOMAIN cfg : GoodCode(cfg'[g].code, cfg[g].ins)
      BY <1>3, <2>1, <3>1, <3>2
    <3> QED BY <1>1, <1>2, <2>3, <3>4, <3>5, <3>6
  <2> QED BY <2>2, <2>3
<1>5. \A s : CallStmtRight(s) => CallStmtRight(s)'
  <2> SUFFICES ASSUME NEW s, CallStmtRight(s) PROVE CallStmtRight(s)'
    OBVIOUS
  <2>1. s.call \in Calls
    BY DEF CallStmtRight
  <2>2. Callee(s.call) \in DOMAIN cfg
    BY <1>3, <2>1, ProgramsFit, CallEnds DEF RegionInv
  <2> QED BY <1>1, <1>4, <2>2, StmtStays
<1>6. ASSUME NEW g \in DOMAIN cfg PROVE DeclRight(g)'
  <2>1. g \in prog.funcs /\ DeclaredRight(g)
    BY DEF CfgInv
  <2>2. DeclaredRight(g)'
    <3>1. /\ Ins(fun[g])' = Ins(fun[g]) /\ OutRegions(fun[g])' = OutRegions(fun[g])
          /\ InOutRegions(fun[g])' = InOutRegions(fun[g])
      BY <1>1, InterfaceSame
    <3> QED BY <1>4, <2>1, <3>1 DEF DeclaredRight
  <2>3. PICK n \in Nat :
            /\ IsList(cfg'[g].code, n)
            /\ \A s \in ToSet(cfg'[g].code) :
                   (s.op = "call" => CallStmtRight(s)) /\ SourceFits(s, cfg[g].ins)
    BY <1>4 DEF GoodCode
  <2>4. Len(cfg'[g].code) = n
    BY <2>3, ListLen
  <2> QED BY <1>1, <1>4, <1>5, <2>1, <2>2, <2>3, <2>4 DEF DeclRight
<1> QED BY <1>1, <1>3, <1>4, <1>6 DEF CfgInv, DeclRight

LEMMA CfgInvStep == RegionInv /\ ListsInv /\ CfgInv /\ [Next]_vars => CfgInv'
<1> SUFFICES ASSUME RegionInv, ListsInv, CfgInv, [Next]_vars PROVE CfgInv'
  OBVIOUS
<1>1. ASSUME prog' = prog, nodeIds' = nodeIds, cfg' = cfg, fun' = fun,
             pc' = pc \/ pc' = "build"
      PROVE  \A f \in DOMAIN cfg : DeclRight(f)'
  <2> SUFFICES ASSUME NEW f \in DOMAIN cfg PROVE DeclRight(f)'
    OBVIOUS
  <2>1. DeclRight(f)
    BY DEF CfgInv, DeclRight
  <2>2. IdsGrow
    BY <1>1 DEF IdsGrow
  <2>3. \A s : CallStmtRight(s) => CallStmtRight(s)'
    BY <1>1, <2>2, StmtStays
  <2>4. /\ Ins(fun[f])' = Ins(fun[f]) /\ OutRegions(fun[f])' = OutRegions(fun[f])
        /\ InOutRegions(fun[f])' = InOutRegions(fun[f])
    BY <1>1, InterfaceSame
  <2>5. DeclaredRight(f)'
    BY <1>1, <2>1, <2>4 DEF DeclRight, DeclaredRight
  <2>6. InitRight(f)'
    BY <1>1, <2>1, InitStays DEF DeclRight
  <2> QED BY <1>1, <2>1, <2>3, <2>5, <2>6 DEF DeclRight
<1>2. CASE UNCHANGED vars
  <2>1. /\ prog' = prog /\ nodeIds' = nodeIds /\ cfg' = cfg /\ fun' = fun /\ pc' = pc
        /\ todo' = todo
    BY <1>2 DEF vars, heap
  <2>2. \A f \in DOMAIN cfg : DeclRight(f)'
    BY <1>1, <2>1
  <2> QED BY <2>1, <2>2 DEF CfgInv, DeclRight
<1>3. ASSUME NEW f \in prog.funcs, ComputeFunction(f) \/ CheckFunction(f), cfg' = cfg
      PROVE  CfgInv'
  <2>1. pc \in {"compute", "check"} /\ pc' = pc
    BY <1>3 DEF ComputeFunction, CheckFunction
  <2>2. DOMAIN cfg' = {}
    BY <1>3, <2>1 DEF CfgInv
  <2> QED BY <2>1, <2>2 DEF CfgInv
<1>4. ASSUME NEW f \in prog.funcs, AddFunctionDeclaration(f) \/ BuildCfg(f) PROVE CfgInv'
  BY <1>4, DeclareKeepsCfg, BuildKeepsCfg
<1>5. CASE BeginCheck /\ cfg' = cfg
  <2>1. pc = "compute" /\ pc' = "check"
    BY <1>5 DEF BeginCheck
  <2>2. DOMAIN cfg' = {}
    BY <1>5, <2>1 DEF CfgInv
  <2> QED BY <2>1, <2>2 DEF CfgInv
<1>6. CASE BeginDeclare
  <2>1. /\ pc = "check" /\ pc' = "declare" /\ todo' = prog.funcs
        /\ prog' = prog /\ cfg' = cfg
    BY <1>6 DEF BeginDeclare, heap
  <2>2. DOMAIN cfg' = {}
    BY <2>1 DEF CfgInv
  <2> QED BY <2>1, <2>2 DEF CfgInv
<1>7. CASE BeginBuild
  <2>1. /\ pc = "declare" /\ todo = {} /\ pc' = "build" /\ prog' = prog
        /\ nodeIds' = nodeIds /\ cfg' = cfg /\ fun' = fun
    BY <1>7 DEF BeginBuild, heap
  <2>2. \A f \in DOMAIN cfg : DeclRight(f)'
    BY <1>1, <2>1
  <2>3. \A f \in prog.funcs : f \in DOMAIN cfg
    BY <2>1 DEF CfgInv
  <2> QED BY <2>1, <2>2, <2>3 DEF CfgInv, DeclRight
<1>8. CASE Done
  BY <1>2, <1>8 DEF Done
<1> QED BY <1>2, <1>3, <1>4, <1>5, <1>6, <1>7, <1>8 DEF Next

LEMMA CfgInvInit == InterfaceInit => CfgInv
<1> SUFFICES ASSUME InterfaceInit PROVE CfgInv
  OBVIOUS
<1>1. pc = "compute" /\ DOMAIN cfg = {}
  BY DEF InterfaceInit, Init
<1> QED BY <1>1 DEF CfgInv

LEMMA CallsAreRight == InterfaceSpec => [](RegionInv /\ ListsInv /\ CfgInv)
BY RegionInvInit, RegionInvStep, ListsInvInit, ListsInvStep, CfgInvInit, CfgInvStep, PTL
   DEF InterfaceSpec

(***************************************************************************)
(* doCallInst: a call gets back the region of every object of its caller   *)
(* that the callee may have written, or has created and returned, unless   *)
(* some call of the callee disagrees on the type of the field. Nothing is  *)
(* assumed about where regions are tracked.                                *)
(***************************************************************************)
THEOREM CallsGetEffects == InterfaceSpec => []EffectsReturned
<1>1. RegionInv /\ CfgInv => EffectsReturned
  <2> SUFFICES ASSUME RegionInv, CfgInv, NEW f \in prog.funcs, IsBuilt(f), NEW s \in CallsIn(f),
                      NEW k \in DOMAIN InterfaceCells(Callee(s.call))
               PROVE  LET cell == InterfaceCells(Callee(s.call))[k]
                          c == s.call
                          IsEffect == \/ cell[2] \in RetReach(Callee(c))
                                      \/ "mod" \in NodeOf(Callee(c), cell[2]).flags
                          AllAgree == \A d \in CallsTo(Callee(c)) :
                              HasCompatibleType(RegionInfo(cell), RegionInfo(Image(d, cell)))
                          caller == RegionAt(Ids, Image(c, cell))
                      IN  (IsEffect /\ AllAgree /\ Tracked(caller))
                              => \E v \in ToSet(s.lhs) : v.id = caller.id
    BY Zenon DEF EffectsReturned
  <2>1. PICK c, g, own, cell, x, r :
            /\ c = s.call /\ g = Callee(c) /\ own = InterfaceCells(g) /\ cell = own[k]
            /\ x = Image(c, cell) /\ r = RegionAt(Ids, x)
    OBVIOUS
  <2> SUFFICES ASSUME cell[2] \in RetReach(g) \/ "mod" \in NodeOf(g, cell[2]).flags,
                      Agrees(g, cell), Tracked(r)
               PROVE  \E v \in ToSet(s.lhs) : v.id = r.id
    BY <2>1, Zenon DEF Agrees
  <2>2. CallStmtRight(s)
    BY DEF CfgInv, IsBuilt, IsDeclared, CallsIn, StmtsOf
  <2>3. PICK images : images = ImagesOf(c, own)
    OBVIOUS
  <2>4. k \in DOMAIN own /\ images[k] = x
    BY <2>1, <2>3 DEF ImagesOf
  <2>5. TrackedCell(x)
    <3>1. PICK st : r = RegionAt(st, x)
      BY <2>1
    <3>2. /\ r.type = RegionInfo(x).type
          /\ r.heap = ("heap" \in NodeOf(x[1], x[2]).flags)
      BY <3>1, InfoOfRegion
    <3> QED BY <3>2 DEF Tracked, TrackedCell
  <2>6. k \in KeptAt("mods", g) \/ k \in KeptAt("news", g)
    BY <2>1, <2>4 DEF KeptAt, Listed, InList
  <2>7. k \in ModAt(g, images) \cup NewAt(g, images)
    BY <2>4, <2>5, <2>6 DEF ModAt, NewAt
  <2>8. Gets(s.lhs, images, ModAt(g, images) \cup NewAt(g, images))
    BY <2>1, <2>2, <2>3 DEF CallStmtRight
  <2>9. PICK v \in ToSet(s.lhs) : v.id = IdOf(x)
    BY <2>4, <2>7, <2>8 DEF Gets
  <2>10. r.id = IdOf(x)
    <3>1. r.id = Ids.ids[KeyOf(x)] + x[3]
      BY <2>1, IdOfRegion
    <3> QED BY <3>1 DEF Ids, IdOf, KeyOf
  <2> QED BY <2>9, <2>10
<1> QED BY <1>1, CallsAreRight, PTL

(***************************************************************************)
(* doCallInst: the k-th actual of a call that has been translated is the   *)
(* region of the caller's object that the callee knows by its k-th formal, *)
(* in every state in which no region is tracked in a caller and not in the *)
(* callee. With precision MEM all regions are tracked.                     *)
(***************************************************************************)
THEOREM ActualsAreImages == InterfaceSpec => [](TracksAlike => ActualsMatchFormals)
<1>1. RegionInv /\ CfgInv => (TracksAlike => ActualsMatchFormals)
  <2> SUFFICES ASSUME RegionInv, CfgInv, TracksAlike, NEW f \in prog.funcs, IsBuilt(f),
                      NEW s \in CallsIn(f)
               PROVE  LET callee == cfg[Callee(s.call)] IN
                      /\ \A k \in DOMAIN s.args : Corresponds(s.call, s.args[k], callee.ins[k])
                      /\ \A k \in DOMAIN s.lhs : Corresponds(s.call, s.lhs[k], callee.outs[k])
    BY DEF ActualsMatchFormals
  <2>1. CallStmtRight(s)
    BY DEF CfgInv, IsBuilt, IsDeclared, CallsIn, StmtsOf
  <2>2. ASSUME NEW a, NEW v, PairedAt(s.call, a, v) PROVE Corresponds(s.call, a, v)
    <3>1. CASE v.kind = "ref"
      BY <3>1 DEF Corresponds
    <3>2. CASE v.kind # "ref"
      <4> SUFFICES ASSUME NEW x \in given, x[1][1] = Callee(s.call), x[2].id = v.id
                   PROVE  a.id = IdOf(Image(s.call, x[1]))
        BY DEF Corresponds
      <4>1. PICK y \in ToSet(InterfaceCells(Callee(s.call))) :
                /\ KeyOf(y) \in DOMAIN nodeIds /\ v.id = IdOf(y)
                /\ a.id = IdOf(Image(s.call, y))
        BY <2>2, <3>2 DEF PairedAt
      <4>2. y \in Cells
        <5>1. Callee(s.call) \in prog.funcs /\ Fits(prog)
          BY <2>1, ProgramsFit, CallEnds DEF CallStmtRight, RegionInv
        <5>2. PICK n \in Nat : InterfaceCells(Callee(s.call)) \in
                  [1..n -> CellsIn(Callee(s.call), Reach(Callee(s.call)) \cup RetReach(Callee(s.call)))]
          BY <5>1, InterfaceShape
        <5> QED BY <4>1, <5>2 DEF ToSet, CellsIn
      <4>3. x[1] \in Cells /\ KeyOf(x[1]) \in DOMAIN nodeIds /\ x[2].id = IdOf(x[1])
        BY DEF RegionInv, GivenRight, IdOf, KeyOf
      <4>4. x[1] = y
        BY <4>1, <4>2, <4>3, IdsTellCells
      <4> QED BY <4>1, <4>4
    <3> QED BY <3>1, <3>2
  <2> QED BY <2>1, <2>2 DEF CallStmtRight
<1> QED BY <1>1, CallsAreRight, PTL

\* With precision MEM nothing needs to be assumed.
COROLLARY ActualsAreImagesInMem == InterfaceSpec => [](prog.mem => ActualsMatchFormals)
<1>1. prog.mem => TracksAlike
  BY DEF TracksAlike, TrackedCell
<1> QED BY <1>1, ActualsAreImages, PTL

(***************************************************************************)
(* initializeRegions: a region that a statement other than a cast uses, or *)
(* that the function returns, has a value from a parameter, from another   *)
(* statement or from an initialisation; no initialisation replaces what a  *)
(* parameter holds. Only with precision MEM are there regions to hold a    *)
(* value, and does initializeRegions do anything.                          *)
(***************************************************************************)
THEOREM RegionsGetValues == InterfaceSpec => [](prog.mem => RegionsInitialised)
<1>1. CfgInv => (prog.mem => RegionsInitialised)
  <2> SUFFICES ASSUME CfgInv, prog.mem, NEW f \in prog.funcs, IsBuilt(f)
               PROVE  LET code == cfg[f].code
                          inits == {s.lhs[1] : s \in cfg[f].init}
                          defined == inits \cup LhsOf(ToSet(code)) \cup RegionsIn(cfg[f].ins)
                          uses == {s \in ToSet(code) : s.op # "cast"}
                      IN  /\ ArgsOf(uses) \cup RegionsIn(cfg[f].outs) \subseteq defined
                          /\ inits \cap (RegionsIn(cfg[f].ins) \cup LhsOf(StmtsOf(code, "copy"))) = {}
                          /\ \A s \in StmtsOf(code, "call") :
                                 RegionsIn(s.args) \subseteq
                                     inits \cup RegionsIn(cfg[f].ins)
                                     \cup LhsOf({t \in ToSet(code) : t # s})
    BY Zenon DEF RegionsInitialised
  <2>0. PICK code, inits, ins : /\ code = cfg[f].code
                                /\ inits = {s.lhs[1] : s \in cfg[f].init}
                                /\ ins = RegionsIn(cfg[f].ins)
    OBVIOUS
  <2> SUFFICES /\ ArgsOf({s \in ToSet(code) : s.op # "cast"}) \cup RegionsIn(cfg[f].outs)
                      \subseteq inits \cup LhsOf(ToSet(code)) \cup ins
               /\ inits \cap (ins \cup LhsOf(StmtsOf(code, "copy"))) = {}
               /\ \A s \in StmtsOf(code, "call") :
                      RegionsIn(s.args) \subseteq
                          inits \cup ins \cup LhsOf({t \in ToSet(code) : t # s})
    BY <2>0
  <2>1. /\ cfg[f].init = InitStmts(f, code)
        /\ \A s \in ToSet(code) : SourceFits(s, cfg[f].ins)
    BY <2>0 DEF CfgInv, InitRight, IsBuilt, IsDeclared
  <2>2. PICK may, mustNot : may = MayInit(f, code) /\ mustNot = MustNotInit(f, code)
    OBVIOUS
  <2>3. inits = may \ mustNot
    <3>1. cfg[f].init = {Stmt("init", <<v>>, <<>>) : v \in may \ mustNot}
      BY <2>1, <2>2 DEF InitStmts
    <3>2. \A v : Stmt("init", <<v>>, <<>>).lhs[1] = v
      BY DEF Stmt
    <3>3. \A v \in inits : v \in may \ mustNot
      <4> SUFFICES ASSUME NEW v \in inits PROVE v \in may \ mustNot
        OBVIOUS
      <4>1. PICK s \in cfg[f].init : v = s.lhs[1]
        BY <2>0
      <4>2. PICK w \in may \ mustNot : s = Stmt("init", <<w>>, <<>>)
        BY <3>1, <4>1
      <4> QED BY <3>2, <4>1, <4>2
    <3>4. \A v \in may \ mustNot : Stmt("init", <<v>>, <<>>) \in cfg[f].init
      BY <3>1
    <3>5. \A v \in may \ mustNot : v \in inits
      BY <2>0, <3>2, <3>4
    <3> QED BY <3>3, <3>5
  <2>4. ASSUME NEW v \in mustNot
        PROVE  \/ v \in ins
               \/ \E s \in ToSet(code) : /\ v \in RegionsIn(s.lhs)
                                         /\ \/ s.op \in {"copy", "cast"}
                                            \/ s.op = "call" /\ v \notin RegionsIn(s.args)
    <3>1. \/ v \in ins \/ v \in LhsOf(StmtsOf(code, "copy"))
          \/ v \in LhsOf(StmtsOf(code, "cast"))
          \/ \E s \in StmtsOf(code, "call") : v \in RegionsIn(s.lhs) \ RegionsIn(s.args)
      <4> DEFINE S == {RegionsIn(s.lhs) \ RegionsIn(s.args) : s \in StmtsOf(code, "call")}
      <4>1. \/ v \in ins \/ v \in LhsOf(StmtsOf(code, "copy"))
            \/ v \in LhsOf(StmtsOf(code, "cast")) \/ v \in UNION S
        BY <2>0, <2>2 DEF MustNotInit
      <4>2. v \in UNION S => \E s \in StmtsOf(code, "call") :
                                 v \in RegionsIn(s.lhs) \ RegionsIn(s.args)
        OBVIOUS
      <4> HIDE DEF S
      <4> QED BY <4>1, <4>2
    <3> QED BY <3>1 DEF LhsOf, StmtsOf
  <2>5. \A s \in ToSet(code) : \A v \in RegionsIn(s.args) :
            s.op # "cast" => v \in may \/ v \in ins
    <3> SUFFICES ASSUME NEW s \in ToSet(code), NEW v \in RegionsIn(s.args), s.op # "cast"
                 PROVE  v \in may \/ v \in ins
      OBVIOUS
    <3>1. CASE s.op = "copy"
      BY <2>0, <2>1, <3>1 DEF SourceFits, Plain
    <3>2. CASE s.op \in {"use", "intrinsic", "call"}
      <4>1. s \in StmtsOf(code, s.op)
        BY DEF StmtsOf
      <4>2. v \in ArgsOf(UNION {StmtsOf(code, op) : op \in {"use", "intrinsic", "call"}})
        BY <3>2, <4>1 DEF ArgsOf
      <4> QED BY <2>2, <4>2 DEF MayInit
    <3> QED BY <2>1, <3>1, <3>2 DEF SourceFits, Plain
  <2>6. RegionsIn(cfg[f].outs) \subseteq may \cup ins
    BY <2>0, <2>2 DEF MayInit
  <2>7. \A v \in may : v \in inits \/ v \in ins \/ v \in LhsOf(ToSet(code))
    BY <2>3, <2>4 DEF LhsOf
  <2>8. ArgsOf({s \in ToSet(code) : s.op # "cast"}) \subseteq may \cup ins
    BY <2>5 DEF ArgsOf
  <2>9. inits \cap (ins \cup LhsOf(StmtsOf(code, "copy"))) = {}
    BY <2>0, <2>2, <2>3 DEF MustNotInit
  <2>10. ASSUME NEW s \in StmtsOf(code, "call"), NEW v \in RegionsIn(s.args)
         PROVE  v \in inits \cup ins \cup LhsOf({t \in ToSet(code) : t # s})
    <3>1. s \in ToSet(code) /\ s.op = "call"
      BY DEF StmtsOf
    <3>2. v \in may \/ v \in ins
      BY <2>5, <3>1
    <3>3. CASE v \in mustNot
      <4>1. CASE v \in ins
        BY <4>1
      <4>2. CASE v \notin ins
        <5>1. PICK t \in ToSet(code) : /\ v \in RegionsIn(t.lhs)
                                       /\ \/ t.op \in {"copy", "cast"}
                                          \/ t.op = "call" /\ v \notin RegionsIn(t.args)
          BY <2>4, <3>3, <4>2
        <5>2. t # s
          BY <3>1, <5>1
        <5> QED BY <5>1, <5>2 DEF LhsOf
      <4> QED BY <4>1, <4>2
    <3> QED BY <2>3, <3>2, <3>3
  <2> QED BY <2>6, <2>7, <2>8, <2>9, <2>10
<1> QED BY <1>1, CallsAreRight, PTL
=============================================================================

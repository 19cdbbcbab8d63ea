-------------------------- MODULE CfgBuilderProofs --------------------------
(***************************************************************************)
(* Proofs about CfgBuilder: the graph is well-formed at every moment of    *)
(* its construction; once built, the exit is its only dead end, it allows  *)
(* what the program does and no more, and its assertion fails where the    *)
(* program returns after a call of seahorn.fail. They are about the runs   *)
(* of CfgSimulation, which include those of CfgBuilder.                    *)
(***************************************************************************)
EXTENDS CfgSimulation, RunLemmas

Labels == {BlockLabel(b) : b \in Blocks}

\* A block that has been visited has a successor as soon as its first edge
\* has been processed.
Followed ==
    \A b \in visited :
        SuccsOf(b) # <<>> =>
            \/ succ[BlockLabel(b)] # {}
            \/ b = cur /\ work = SuccsVector(b)

Connected ==
    pc = "built" /\ exit # NoExit =>
        \A b \in visited :
            fn.term[b].op = "unreachable" =>
                BlockLabel(b) = exit \/ succ[BlockLabel(b)] # {}

(***************************************************************************)
(* The inductive invariant: with the type, which block is being processed, *)
(* that a visited block is in every set that cannot be left, and what has  *)
(* been connected so far.                                                  *)
(***************************************************************************)
GraphInv ==
    /\ TypeOK
    /\ exit = ExitOf
    /\ work \in Seq(Blocks)
    /\ work # <<>> => cur \in visited
    /\ pc # "blocks" => Labels \subseteq nodes
    /\ pc = "blocks" => visited = {} /\ work = <<>>
    /\ pc = "built" => work = <<>>
    /\ \A R \in Closed(fn) : visited \subseteq R
    /\ Followed
    /\ Connected

-----------------------------------------------------------------------------
(* The function *)

LEMMA LayoutType ==
    ASSUME fn \in Functions
    PROVE  /\ fn.layout \in Seq(Blocks) /\ Entry \in Blocks
           /\ \A k \in DOMAIN fn.layout : k \in Nat /\ fn.layout[k] \in Blocks
           /\ \A b \in Blocks : \E k \in DOMAIN fn.layout : fn.layout[k] = b
<1>1. fn.layout \in Seq(Blocks) /\ fn.layout # <<>>
  BY FunctionAssumption DEF WellFormed, Blocks
<1>2. \A b \in Blocks : \E k \in DOMAIN fn.layout : fn.layout[k] = b
  BY DEF Blocks, ToSet
<1> HIDE DEF Blocks
<1> QED BY <1>1, <1>2 DEF Entry

LEMMA TermType ==
    ASSUME fn \in Functions, NEW b \in Blocks
    PROVE  /\ SuccsOf(b) \in Seq(Blocks)
           /\ ToSet(SuccsOf(b)) \subseteq Blocks
           /\ SuccsOf(b) = <<>> <=> fn.term[b].op \in {"ret", "unreachable", "resume"}
           /\ SuccsVector(b) \in Seq(Blocks)
           /\ SuccsOf(b) # <<>> => SuccsVector(b) # <<>>
           /\ ToSet(SuccsVector(b)) \subseteq ToSet(SuccsOf(b))
<1>1. WellFormed(fn)
  BY FunctionAssumption
<1>2. SuccsOf(b) \in Seq(Blocks)
  BY <1>1 DEF WellFormed, SuccsOf, Blocks
<1>3. SuccsOf(b) = <<>> <=> fn.term[b].op \in {"ret", "unreachable", "resume"}
  <2>1. PICK B : B = Blocks
    OBVIOUS
  <2>2. PICK s \in Seq(B) : s = SuccsOf(b)
    BY <1>2, <2>1
  <2>3. PICK op : op = fn.term[b].op
    OBVIOUS
  <2>4. \/ op = "br" /\ Len(s) = 1
        \/ op = "condbr" /\ Len(s) = 2
        \/ op = "switch" /\ Len(s) >= 1
        \/ op \in {"ret", "unreachable", "resume"} /\ s = <<>>
    BY <1>1, <2>2, <2>3 DEF WellFormed, SuccsOf, Blocks
  <2>5. s = <<>> <=> op \in {"ret", "unreachable", "resume"}
    <3>1. s = <<>> <=> Len(s) = 0
      OBVIOUS
    <3>2. Len(s) \in Nat
      OBVIOUS
    <3> QED BY <2>4, <3>1, <3>2
  <2> QED BY <2>2, <2>3, <2>5
<1>4. fn.term[b].op = "switch" => SuccsOf(b) # <<>>
  BY <1>3
<1> HIDE DEF Blocks, SuccsOf
<1>5. ToSet(SuccsOf(b)) \subseteq Blocks
  BY <1>2 DEF ToSet
<1>6. SuccsVector(b) \in Seq(Blocks) /\ (SuccsOf(b) # <<>> => SuccsVector(b) # <<>>)
  BY <1>2, <1>4 DEF SuccsVector
<1>7. ToSet(SuccsVector(b)) \subseteq ToSet(SuccsOf(b))
  <2>1. PICK s \in Seq(Blocks) : s = SuccsOf(b)
    BY <1>2
  <2>2. CASE fn.term[b].op = "switch"
    <3>1. s # <<>> /\ SuccsVector(b) = Append(s, Head(s))
      BY <1>4, <2>1, <2>2 DEF SuccsVector
    <3>2. \A k \in DOMAIN Append(s, Head(s)) : \E j \in DOMAIN s : Append(s, Head(s))[k] = s[j]
      BY <3>1
    <3> QED BY <2>1, <3>1, <3>2 DEF ToSet
  <2>3. CASE fn.term[b].op # "switch"
    BY <2>3 DEF SuccsVector
  <2> QED BY <2>2, <2>3
<1> QED BY <1>2, <1>3, <1>5, <1>6, <1>7

LEMMA FirstLast ==
    ASSUME fn \in Functions, NEW S, S \subseteq Blocks, S # {}
    PROVE  FirstIn(S) \in S /\ LastIn(S) \in S
<1> DEFINE at == {k \in DOMAIN fn.layout : fn.layout[k] \in S}
<1>1. at # {} /\ at \subseteq Nat
  BY LayoutType
<1>2. \A k \in at : fn.layout[k] \in S
  OBVIOUS
<1>3. Min(at) \in at
  <2>1. PICK m \in at : \A n \in at : m <= n
    <3> HIDE DEF at
    <3> QED BY <1>1, Smallest
  <2> HIDE DEF at
  <2> QED BY <2>1 DEF Min
<1>4. Max(at) \in at
  <2>1. PICK l \in Nat : \A k \in at : k <= l
    <3>1. PICK s \in Seq(Blocks) : s = fn.layout
      BY LayoutType
    <3>2. DOMAIN s = 1..Len(s) /\ Len(s) \in Nat
      OBVIOUS
    <3> QED BY <3>1, <3>2
  <2> DEFINE gaps == {l - k : k \in at}
  <2>2. gaps \subseteq Nat /\ gaps # {}
    <3> HIDE DEF at
    <3>1. ASSUME NEW k \in at PROVE l - k \in Nat
      BY <1>1, <2>1
    <3> QED BY <1>1, <3>1
  <2>3. PICK g \in gaps : \A h \in gaps : g <= h
    <3> HIDE DEF gaps
    <3> QED BY <2>2, Smallest
  <2>4. PICK m \in at : g = l - m
    OBVIOUS
  <2>5. \A k \in at : k <= m
    <3> HIDE DEF at
    <3> QED BY <1>1, <2>1, <2>3, <2>4
  <2> HIDE DEF at
  <2> QED BY <2>5 DEF Max
<1> QED BY <1>2, <1>3, <1>4 DEF FirstIn, LastIn

LEMMA ExitType ==
    ASSUME fn \in Functions
    PROVE  ExitOf \in Labels \cup {NoExit}
<1>1. \A op : Ending(op) \subseteq Blocks
  BY DEF Ending
<1>2. EntryLoop \subseteq Blocks /\ Successorless \subseteq Blocks
  BY DEF EntryLoop, Successorless
<1>3. \A S : S \subseteq Blocks /\ S # {} => FirstIn(S) \in S /\ LastIn(S) \in S
  BY FirstLast
<1>4. Ending("ret") # {} => BlockLabel(FirstIn(Ending("ret"))) \in Labels
  BY <1>1, <1>3 DEF Labels
<1>5. Ending("unreachable") # {} => BlockLabel(FirstIn(Ending("unreachable"))) \in Labels
  BY <1>1, <1>3 DEF Labels
<1>6. Successorless # {} => BlockLabel(LastIn(Successorless)) \in Labels
  BY <1>2, <1>3 DEF Labels
<1>7. EntryLoop # {} => BlockLabel(CHOOSE d \in EntryLoop : TRUE) \in Labels
  BY <1>2 DEF Labels
<1> QED BY <1>4, <1>5, <1>6, <1>7 DEF ExitOf

-----------------------------------------------------------------------------
(* The construction *)

LEMMA FunctionStays ==
    ASSUME GraphInv, UNCHANGED <<fn, exit>>
    PROVE  /\ Blocks' = Blocks /\ Labels' = Labels /\ exit' = ExitOf'
           /\ Closed(fn)' = Closed(fn)
<1>1. Blocks' = Blocks /\ Entry' = Entry /\ Labels' = Labels /\ Closed(fn)' = Closed(fn)
  BY DEF Blocks, Entry, Labels, BlockLabel, Closed
<1>2. Ending("ret")' = Ending("ret") /\ Ending("unreachable")' = Ending("unreachable")
  BY DEF Ending, Blocks
<1>3. EntryLoop' = EntryLoop /\ Successorless' = Successorless
  BY DEF EntryLoop, Successorless, Blocks, Entry, SuccsOf
<1>4. ExitOf' = ExitOf
  <2>1. \A S : FirstIn(S)' = FirstIn(S) /\ LastIn(S)' = LastIn(S)
    BY DEF FirstIn, LastIn
  <2> QED BY <1>2, <1>3, <2>1 DEF ExitOf, BlockLabel, NoExit
<1> QED BY <1>1, <1>4 DEF GraphInv

LEMMA GraphInvInit == Init => GraphInv
<1> SUFFICES ASSUME Init PROVE GraphInv
  OBVIOUS
<1>1. fn \in Functions /\ exit = ExitOf /\ exit \in Labels \cup {NoExit}
  BY ExitType DEF Init
<1>2. TypeOK
  <2>1. succ \in [nodes -> SUBSET nodes]
    BY DEF Init
  <2>2. ToSet(work) = {} /\ DOMAIN edgeMap = {} /\ visited = {} /\ cur = NoBlock
    BY DEF Init, ToSet
  <2>3. exit \in nodes \cup {NoExit} /\ DOMAIN code = nodes
    BY DEF Init
  <2> QED BY <1>1, <2>1, <2>2, <2>3 DEF Init, TypeOK
<1> QED BY <1>1, <1>2 DEF Init, GraphInv, Followed, Connected

LEMMA AddBlocksInv == GraphInv /\ AddBlocks => GraphInv'
<1> SUFFICES ASSUME GraphInv, AddBlocks PROVE GraphInv'
  OBVIOUS
<1>1. TypeOK'
  BY DEF AddBlocks, GraphInv, TypeOK, Blocks
<1>2. Labels' \subseteq nodes'
  BY DEF AddBlocks, Labels, Blocks
<1>3. exit' = ExitOf'
  BY FunctionStays DEF AddBlocks
<1>4. visited' = {} /\ work' = <<>> /\ pc' = "translate"
  BY DEF AddBlocks, GraphInv
<1>5. Followed' /\ Connected'
  BY <1>4 DEF Followed, Connected
<1> QED BY <1>1, <1>2, <1>3, <1>4, <1>5 DEF GraphInv

LEMMA VisitBlockInv == \A b \in Blocks : GraphInv /\ VisitBlock(b) => GraphInv'
<1> SUFFICES ASSUME GraphInv, NEW b \in Blocks, VisitBlock(b) PROVE GraphInv'
  OBVIOUS
<1>0. fn \in Functions
  BY DEF GraphInv, TypeOK
<1>1. SuccsVector(b) \in Seq(Blocks) /\ ToSet(SuccsVector(b)) \subseteq Blocks
  BY <1>0, TermType
<1>2. /\ fn' = fn /\ pc' = "translate" /\ pc = "translate" /\ nodes' = nodes /\ succ' = succ
      /\ edgeMap' = edgeMap /\ exit' = exit /\ work = <<>> /\ cur' = b
      /\ work' = SuccsVector(b) /\ visited' = visited \cup {b} /\ DOMAIN code' = DOMAIN code
  BY DEF VisitBlock
<1>3. Blocks' = Blocks /\ Labels' = Labels /\ exit' = ExitOf' /\ Closed(fn)' = Closed(fn)
  BY <1>2, FunctionStays
<1>4. hasFail' \in BOOLEAN
  BY DEF VisitBlock, FailSeen, CallsFail, GraphInv, TypeOK
<1>5. TypeOK'
  BY <1>1, <1>2, <1>3, <1>4 DEF GraphInv, TypeOK
<1>6. \A R \in Closed(fn) : visited' \subseteq R
  <2> SUFFICES ASSUME NEW R \in Closed(fn) PROVE b \in R
    BY <1>2 DEF GraphInv
  <2>1. visited \subseteq R /\ Entry \in R
    BY DEF GraphInv, Closed, Entry
  <2>2. \A a \in R : ToSet(SuccsOf(a)) \subseteq R
    BY DEF Closed, SuccsOf
  <2>3. b = Entry \/ \E a \in visited : b \in ToSet(SuccsOf(a))
    BY DEF VisitBlock
  <2> QED BY <2>1, <2>2, <2>3
<1>7. Followed'
  <2> SUFFICES ASSUME NEW a \in visited', SuccsOf(a)' # <<>>
               PROVE  succ'[BlockLabel(a)] # {} \/ (a = cur' /\ work' = SuccsVector(a)')
    BY DEF Followed, BlockLabel
  <2>1. CASE a = b
    BY <1>2, <2>1 DEF SuccsVector, SuccsOf
  <2>2. CASE a # b
    <3>1. a \in visited /\ SuccsOf(a) # <<>>
      BY <1>2, <2>2 DEF SuccsOf
    <3>2. a \in Blocks /\ (succ[BlockLabel(a)] # {} \/ work = SuccsVector(a))
      BY <3>1 DEF GraphInv, TypeOK, Followed
    <3> QED BY <1>0, <1>2, <3>1, <3>2, TermType
  <2> QED BY <2>1, <2>2
<1> QED BY <1>1, <1>2, <1>3, <1>5, <1>6, <1>7 DEF GraphInv, Connected

\* What the two kinds of edges have in common: B gets a successor.
LEMMA EdgeInv ==
    ASSUME GraphInv, TypeOK', pc = "translate", work # <<>>, work' = Tail(work),
           Labels \subseteq nodes', UNCHANGED <<fn, pc, exit, visited, cur>>,
           succ'[BlockLabel(cur)] # {},
           \A b \in visited \ {cur} : succ'[BlockLabel(b)] = succ[BlockLabel(b)]
    PROVE  GraphInv'
<1>1. Blocks' = Blocks /\ Labels' = Labels /\ exit' = ExitOf' /\ Closed(fn)' = Closed(fn)
  BY FunctionStays
<1>2. work' \in Seq(Blocks)
  <2>1. PICK B : B = Blocks
    OBVIOUS
  <2>2. work \in Seq(B) /\ work # <<>>
    BY <2>1 DEF GraphInv
  <2> QED BY <2>1, <2>2
<1>3. Followed'
  <2> SUFFICES ASSUME NEW b \in visited, SuccsOf(b) # <<>>
               PROVE  succ'[BlockLabel(b)] # {}
    BY DEF Followed, BlockLabel, SuccsOf
  <2> QED BY DEF Followed, GraphInv
<1> QED BY <1>1, <1>2, <1>3 DEF GraphInv, Connected

LEMMA ConditionalEdgeInv == GraphInv /\ ConditionalEdge => GraphInv'
<1> SUFFICES ASSUME GraphInv, ConditionalEdge PROVE GraphInv'
  OBVIOUS
<1>1. PICK d : d = Head(work)
  OBVIOUS
<1>2. PICK mid : mid = EdgeLabel(cur, d)
  OBVIOUS
<1>3. PICK src : src = BlockLabel(cur)
  OBVIOUS
<1>4. /\ pc = "translate" /\ work # <<>> /\ work' = Tail(work)
      /\ UNCHANGED <<fn, pc, exit, visited, cur, hasFail>>
      /\ nodes' = nodes \cup {mid}
      /\ succ' = InBetween(src, mid, BlockLabel(d))
      /\ DOMAIN code' = DOMAIN code \cup {mid}
      /\ edgeMap' = Over(edgeMap, [e \in {<<cur, d>>} |-> mid])
  BY <1>1, <1>2, <1>3 DEF ConditionalEdge, With
<1>5. cur \in visited /\ cur \in Blocks /\ d \in Blocks /\ ToSet(Tail(work)) \subseteq Blocks
  <2>1. PICK B : B = Blocks
    OBVIOUS
  <2>2. work \in Seq(B) /\ work # <<>>
    BY <1>4, <2>1 DEF GraphInv
  <2>3. Head(work) \in B /\ ToSet(Tail(work)) \subseteq B
    BY <2>2 DEF ToSet
  <2> QED BY <1>1, <1>4, <2>1, <2>3 DEF GraphInv, TypeOK
<1>6. Labels \subseteq nodes /\ src \in nodes /\ BlockLabel(d) \in nodes
  BY <1>3, <1>4, <1>5 DEF GraphInv, Labels
<1>7. \A b : mid # BlockLabel(b)
  BY <1>2 DEF EdgeLabel, BlockLabel
<1>8. succ \in [nodes -> SUBSET nodes]
  BY DEF GraphInv, TypeOK
<1>9. /\ succ' \in [nodes' -> SUBSET nodes']
      /\ mid \in succ'[src]
      /\ \A l \in nodes \ {src, mid} : succ'[l] = succ[l]
  BY <1>3, <1>4, <1>6, <1>7, <1>8 DEF InBetween, With
<1>10. TypeOK'
  <2>1. /\ DOMAIN edgeMap' \subseteq Blocks \X Blocks
        /\ \A e \in DOMAIN edgeMap' : edgeMap'[e] \in nodes'
    BY <1>4, <1>5 DEF Over, GraphInv, TypeOK
  <2>2. Blocks' = Blocks
    BY <1>4 DEF Blocks
  <2> QED BY <1>4, <1>5, <1>9, <2>1, <2>2 DEF GraphInv, TypeOK
<1>11. \A b \in visited \ {cur} : succ'[BlockLabel(b)] = succ[BlockLabel(b)]
  <2> TAKE b \in visited \ {cur}
  <2>1. BlockLabel(b) \in nodes /\ BlockLabel(b) # src
    BY <1>3, <1>6 DEF GraphInv, TypeOK, Labels, BlockLabel
  <2> QED BY <1>7, <1>9, <2>1
<1>12. succ'[BlockLabel(cur)] # {}
  BY <1>3, <1>9
<1> QED BY <1>4, <1>6, <1>10, <1>11, <1>12, EdgeInv

LEMMA PlainEdgeInv == GraphInv /\ PlainEdge => GraphInv'
<1> SUFFICES ASSUME GraphInv, PlainEdge PROVE GraphInv'
  OBVIOUS
<1>1. PICK d : d = Head(work)
  OBVIOUS
<1>2. PICK src : src = BlockLabel(cur)
  OBVIOUS
<1>3. /\ pc = "translate" /\ work # <<>> /\ work' = Tail(work)
      /\ UNCHANGED <<fn, pc, nodes, edgeMap, exit, visited, cur, hasFail>>
      /\ succ' = [succ EXCEPT ![src] = @ \cup {BlockLabel(d)}]
      /\ DOMAIN code' = DOMAIN code
  BY <1>1, <1>2 DEF PlainEdge
<1>4. cur \in visited /\ cur \in Blocks /\ d \in Blocks /\ ToSet(Tail(work)) \subseteq Blocks
  <2>1. PICK B : B = Blocks
    OBVIOUS
  <2>2. work \in Seq(B) /\ work # <<>>
    BY <1>3, <2>1 DEF GraphInv
  <2>3. Head(work) \in B /\ ToSet(Tail(work)) \subseteq B
    BY <2>2 DEF ToSet
  <2> QED BY <1>1, <1>3, <2>1, <2>3 DEF GraphInv, TypeOK
<1>5. Labels \subseteq nodes /\ src \in nodes /\ BlockLabel(d) \in nodes
  BY <1>2, <1>3, <1>4 DEF GraphInv, Labels
<1>6. succ \in [nodes -> SUBSET nodes]
  BY DEF GraphInv, TypeOK
<1>7. /\ succ' \in [nodes' -> SUBSET nodes']
      /\ BlockLabel(d) \in succ'[src]
      /\ \A l \in nodes \ {src} : succ'[l] = succ[l]
  BY <1>3, <1>5, <1>6
<1>8. TypeOK'
  <2>1. Blocks' = Blocks
    BY <1>3 DEF Blocks
  <2> QED BY <1>3, <1>4, <1>7, <2>1 DEF GraphInv, TypeOK
<1>9. \A b \in visited \ {cur} : succ'[BlockLabel(b)] = succ[BlockLabel(b)]
  BY <1>2, <1>5, <1>7 DEF GraphInv, TypeOK, Labels, BlockLabel
<1>10. succ'[BlockLabel(cur)] # {}
  BY <1>2, <1>7
<1> QED BY <1>3, <1>5, <1>8, <1>9, <1>10, EdgeInv

LEMMA ConnectSinksInv == GraphInv /\ ConnectSinks => GraphInv'
<1> SUFFICES ASSUME GraphInv, ConnectSinks PROVE GraphInv'
  OBVIOUS
<1>1. /\ pc = "translate" /\ work = <<>> /\ pc' = "built"
      /\ UNCHANGED <<fn, nodes, edgeMap, exit, visited, cur, work, hasFail>>
      /\ DOMAIN code' = DOMAIN code
      /\ succ' = IF exit # NoExit
                 THEN [n \in nodes |-> IF n \in Sinks /\ succ[n] = {}
                                       THEN {exit} ELSE succ[n]]
                 ELSE succ
  BY DEF ConnectSinks
<1>2. Blocks' = Blocks /\ Labels' = Labels /\ exit' = ExitOf' /\ Closed(fn)' = Closed(fn)
  BY <1>1, FunctionStays
<1>3. succ \in [nodes -> SUBSET nodes] /\ exit \in nodes \cup {NoExit}
  BY DEF GraphInv, TypeOK
<1>4. /\ succ' \in [nodes -> SUBSET nodes]
      /\ \A l \in nodes : succ[l] # {} => succ'[l] # {}
      /\ exit # NoExit => \A l \in nodes \cap Sinks : succ'[l] # {}
  BY <1>1, <1>3
<1>5. TypeOK'
  BY <1>1, <1>2, <1>4 DEF GraphInv, TypeOK
<1>6. \A b \in visited : BlockLabel(b) \in nodes
  BY <1>1 DEF GraphInv, TypeOK, Labels
<1>7. Followed'
  <2> SUFFICES ASSUME NEW b \in visited, SuccsOf(b) # <<>>
               PROVE  succ'[BlockLabel(b)] # {}
    BY <1>1 DEF Followed, BlockLabel, SuccsOf
  <2>1. b \in Blocks /\ fn \in Functions
    BY DEF GraphInv, TypeOK
  <2>2. work # SuccsVector(b)
    BY <1>1, <2>1, TermType
  <2>3. succ[BlockLabel(b)] # {}
    BY <2>2 DEF Followed, GraphInv
  <2> QED BY <1>4, <1>6, <2>3
<1>8. Connected'
  <2> SUFFICES ASSUME NEW b \in visited, fn.term[b].op = "unreachable", exit # NoExit,
                      BlockLabel(b) # exit
               PROVE  succ'[BlockLabel(b)] # {}
    BY <1>1 DEF Connected, BlockLabel
  <2>1. BlockLabel(b) \in Sinks
    BY DEF Sinks, Ending, GraphInv, TypeOK
  <2> QED BY <1>4, <1>6, <2>1
<1> QED BY <1>1, <1>2, <1>5, <1>7, <1>8 DEF GraphInv

LEMMA GraphInvStep == GraphInv /\ [Next]_vars => GraphInv'
<1>1. GraphInv /\ UNCHANGED vars => GraphInv'
  <2> SUFFICES ASSUME GraphInv, UNCHANGED vars PROVE GraphInv'
    OBVIOUS
  <2>1. /\ Blocks' = Blocks /\ Labels' = Labels /\ exit' = ExitOf'
        /\ Closed(fn)' = Closed(fn)
    BY FunctionStays DEF vars
  <2>2. TypeOK'
    BY <2>1 DEF vars, GraphInv, TypeOK
  <2>3. Followed' /\ Connected'
    BY DEF vars, GraphInv, Followed, Connected, SuccsOf, SuccsVector, BlockLabel
  <2> QED BY <2>1, <2>2, <2>3 DEF vars, GraphInv
<1> QED BY <1>1, AddBlocksInv, VisitBlockInv, ConditionalEdgeInv, PlainEdgeInv,
           ConnectSinksInv DEF Next

LEMMA GraphInvAlways == SimSpec => []GraphInv
<1>1. SimInit => GraphInv
  BY GraphInvInit DEF SimInit
<1>2. GraphInv /\ [SimNext]_allVars => GraphInv'
  <2> SUFFICES ASSUME GraphInv, [SimNext]_allVars PROVE GraphInv'
    OBVIOUS
  <2>1. [Next]_vars
    BY DEF SimNext, allVars, Build, Call, Step
  <2> QED BY <2>1, GraphInvStep
<1> QED BY <1>1, <1>2, PTL DEF SimSpec

\* The graph under construction never has a dangling edge, and its exit is
\* one of its blocks.
THEOREM GraphTypeCorrect == SimSpec => []TypeOK
<1>1. GraphInv => TypeOK
  BY DEF GraphInv
<1> QED BY <1>1, GraphInvAlways, PTL

(***************************************************************************)
(* setExitBlock and the end of buildCfg: in a function with one return,    *)
(* where the search for the exit takes whatever comes first, the block it  *)
(* finds is the only dead end that can be reached.                         *)
(***************************************************************************)
THEOREM ExitIsTheOnlyEnd == SimSpec => []NoDeadEnd
<1>1. GraphInv => NoDeadEnd
  <2> SUFFICES ASSUME GraphInv, pc = "built", exit # NoExit, NEW b \in visited,
                      succ[BlockLabel(b)] = {}
               PROVE  BlockLabel(b) = exit
    BY DEF NoDeadEnd
  <2>1. fn \in Functions /\ b \in Blocks
    BY DEF GraphInv, TypeOK
  <2>2. fn.term[b].op \in {"ret", "unreachable", "resume"} /\ SuccsOf(b) = <<>>
    <3>1. work # SuccsVector(b) \/ SuccsOf(b) = <<>>
      BY <2>1, TermType DEF GraphInv
    <3>2. SuccsOf(b) = <<>>
      BY <3>1 DEF GraphInv, Followed
    <3> QED BY <2>1, <3>2, TermType
  <2>3. CASE fn.term[b].op = "ret"
    <3>1. \A d \in Ending("ret") : d = b
      BY <2>1, <2>3, FunctionAssumption DEF Unified, Ending, Blocks
    <3>2. FirstIn(Ending("ret")) \in Ending("ret") /\ Ending("ret") # {}
      BY <2>1, <2>3, FirstLast DEF Ending
    <3> QED BY <3>1, <3>2 DEF GraphInv, ExitOf
  <2>4. CASE fn.term[b].op = "unreachable"
    BY <2>4 DEF GraphInv, Connected
  <2>5. CASE fn.term[b].op = "resume"
    <3>1. \A d \in Blocks : fn.term[d].op \in {"ret", "unreachable", "resume"} => d = b
      <4>1. \A R \in Closed(fn) : b \in R
        BY DEF GraphInv
      <4> QED BY <2>1, <2>5, <4>1, FunctionAssumption DEF Unified, Blocks
    <3>2. Ending("ret") = {} /\ Ending("unreachable") = {}
      BY <2>5, <3>1 DEF Ending
    <3>3. EntryLoop = {}
      <4> SUFFICES ASSUME NEW d \in EntryLoop PROVE FALSE
        OBVIOUS
      <4>1. d \in Blocks /\ SuccsOf(Entry) = <<d>> /\ SuccsOf(d) = <<d>>
        BY DEF EntryLoop
      <4>2. {Entry, d} \in Closed(fn)
        <5>1. ToSet(<<d>>) = {d}
          BY DEF ToSet
        <5>2. Entry \in Blocks
          BY <2>1, LayoutType
        <5> QED BY <4>1, <5>1, <5>2 DEF Closed, Entry, SuccsOf, Blocks
      <4>3. b = Entry \/ b = d
        BY <4>2 DEF GraphInv
      <4>4. <<d>> # <<>>
        OBVIOUS
      <4> QED BY <2>2, <4>1, <4>3, <4>4
    <3>4. \A d \in Successorless : d = b
      BY <2>1, <3>1, TermType DEF Successorless
    <3>5. b \in Successorless
      BY <2>1, <2>2 DEF Successorless
    <3>6. LastIn(Successorless) = b
      BY <2>1, <3>4, <3>5, FirstLast
    <3>7. ExitOf = BlockLabel(b)
      BY <3>2, <3>3, <3>5, <3>6 DEF ExitOf
    <3> QED BY <3>7 DEF GraphInv
  <2> QED BY <2>2, <2>3, <2>4, <2>5
<1> QED BY <1>1, GraphInvAlways, PTL

-----------------------------------------------------------------------------
(* What is in the graph *)

\* How many members of succs_vector of a have been processed.
Processed(a) ==
    IF a = cur THEN Len(SuccsVector(a)) - Len(work) ELSE Len(SuccsVector(a))

\* The statements of the block of a. A switch has none for its edges.
CodeSoFar(a) ==
    IF fn.term[a].op = "br" /\ Processed(a) = 1
    THEN BodyCode(a) \o PhiCode(a, SuccsOf(a)[1]) ELSE BodyCode(a)

HasCode(a) ==
    \/ code[BlockLabel(a)] = CodeSoFar(a)
    \/ pc = "built" /\ code[BlockLabel(a)] = Append(CodeSoFar(a), AssertFalse)

\* The label of the block on the k-th edge of a conditional branch.
MidLabel(a, k) == <<a, SuccsOf(a)[k], 3 - k>>

HasEdgeBlock(a, k) ==
    LET d == SuccsOf(a)[k]
        mid == MidLabel(a, k)
    IN  /\ <<a, d>> \in DOMAIN edgeMap /\ edgeMap[<<a, d>>] = mid
        /\ mid \in nodes /\ code[mid] = EdgeCode(a, d)
        /\ succ[mid] = {BlockLabel(d)} /\ mid \in succ[BlockLabel(a)]

HasEdges(a) ==
    \A k \in 1..Processed(a) :
        IF fn.term[a].op = "condbr" THEN HasEdgeBlock(a, k)
        ELSE BlockLabel(SuccsVector(a)[k]) \in succ[BlockLabel(a)]

\* work is the part of succs_vector that has not been processed.
WorkIsLeft ==
    cur \in visited =>
        /\ Processed(cur) \in Nat
        /\ \A k \in 1..Len(work) : work[k] = SuccsVector(cur)[Processed(cur) + k]

(***************************************************************************)
(* The graph holds the code of the blocks that have been visited and of    *)
(* the edges that have been processed, each edge block once.               *)
(***************************************************************************)
CodeInv ==
    /\ \A a \in visited : HasCode(a) /\ HasEdges(a)
    /\ pc = "translate" => \A b \in Blocks \ visited : code[BlockLabel(b)] = <<>>
    /\ \A e \in DOMAIN edgeMap :
           /\ e[1] \in visited /\ fn.term[e[1]].op = "condbr"
           /\ \E k \in 1..Processed(e[1]) : e = <<e[1], SuccsOf(e[1])[k]>>
    /\ WorkIsLeft
    /\ visited # {} => Entry \in visited
    /\ pc = "built" => \A a \in visited : ToSet(SuccsOf(a)) \subseteq visited
    /\ pc = "built" => visited # {} /\ work = <<>>

IsCurrent(c, e) == e[c] = IF Holds(fn.cmps[c].cst, e) THEN 1 ELSE 0

(***************************************************************************)
(* The program and the graph: one store of the graph agrees with the       *)
(* program's, and comparisons that dominate a block are current in it.     *)
(***************************************************************************)
SimInv ==
    blk # NoBlock =>
        /\ pc = "built" /\ blk \in visited
        /\ env \in [fn.vars -> Val]
        /\ \E s \in stores : s \in [fn.vars -> Val] /\ Agree(s, env)
        /\ \A c \in DOMAIN fn.cmps : \A A \in SUBSET Blocks :
               CurrentIn(fn, c, A) /\ blk \in A => IsCurrent(c, env)

-----------------------------------------------------------------------------
(* Statements of the translation *)

LEMMA SuccsVectorType ==
    ASSUME fn \in Functions, NEW b \in Blocks
    PROVE  /\ Len(SuccsVector(b)) \in Nat
           /\ \A k \in 1..Len(SuccsVector(b)) :
                  SuccsVector(b)[k] \in Blocks /\ SuccsVector(b)[k] \in ToSet(SuccsOf(b))
           /\ \A d \in ToSet(SuccsOf(b)) : \E k \in 1..Len(SuccsVector(b)) : SuccsVector(b)[k] = d
           /\ fn.term[b].op = "br" => Len(SuccsVector(b)) = 1 /\ SuccsVector(b) = SuccsOf(b)
           /\ fn.term[b].op = "condbr" =>
                  /\ Len(SuccsVector(b)) = 2 /\ SuccsVector(b) = SuccsOf(b)
                  /\ SuccsOf(b)[1] # SuccsOf(b)[2]
           /\ fn.term[b].op \notin {"br", "condbr", "switch"} => SuccsVector(b) = <<>>
<1>1. WellFormed(fn) /\ Supported(fn)
  BY FunctionAssumption, SimulationAssumption
<1>2. PICK s \in Seq(Blocks) : s = SuccsOf(b)
  BY <1>1 DEF WellFormed, SuccsOf, Blocks
<1>3. PICK v \in Seq(Blocks) : v = SuccsVector(b)
  BY TermType
<1>4. \A k \in 1..Len(v) : v[k] \in Blocks /\ v[k] \in ToSet(s)
  <2>1. ToSet(v) \subseteq ToSet(s)
    BY <1>2, <1>3, TermType
  <2>2. \A k \in 1..Len(v) : v[k] \in Blocks /\ v[k] \in ToSet(v)
    BY <1>3 DEF ToSet
  <2> QED BY <2>1, <2>2
<1>5. PICK op : op = fn.term[b].op
  OBVIOUS
<1>6. \/ op = "br" /\ Len(s) = 1
      \/ op = "condbr" /\ Len(s) = 2
      \/ op = "switch" /\ Len(s) >= 1
      \/ op \in {"ret", "unreachable", "resume"} /\ s = <<>>
  BY <1>1, <1>2, <1>5 DEF WellFormed, SuccsOf, Blocks
<1>7. v = IF op = "switch" THEN Append(s, Head(s)) ELSE s
  BY <1>2, <1>3, <1>5 DEF SuccsVector
<1>8. \A d \in ToSet(s) : \E k \in 1..Len(v) : v[k] = d
  <2> SUFFICES ASSUME NEW k \in DOMAIN s PROVE k \in 1..Len(v) /\ v[k] = s[k]
    BY DEF ToSet
  <2>1. CASE op = "switch"
    <3>1. s # <<>> /\ Head(s) \in Blocks
      BY <1>6, <2>1
    <3> QED BY <1>7, <2>1, <3>1
  <2>2. CASE op # "switch"
    BY <1>7, <2>2
  <2> QED BY <2>1, <2>2
<1>9. op = "condbr" => s[1] # s[2]
  BY <1>1, <1>2, <1>5 DEF Supported, Blocks, SuccsOf
<1> QED BY <1>2, <1>3, <1>4, <1>5, <1>6, <1>7, <1>8, <1>9

LEMMA BlockFits ==
    ASSUME fn \in Functions, NEW b \in Blocks
    PROVE  /\ fn.body[b] \in Seq(ToSet(fn.body[b])) /\ fn.phis[b] \in Seq(ToSet(fn.phis[b]))
           /\ Len(fn.body[b]) \in Nat /\ DOMAIN fn.body[b] = 1..Len(fn.body[b])
           /\ Len(fn.phis[b]) \in Nat /\ DOMAIN fn.phis[b] = 1..Len(fn.phis[b])
           /\ \A k \in DOMAIN fn.body[b] : InstructionFits(fn, fn.body[b][k])
BY SimulationAssumption DEF Typed, Blocks

\* What Translate and Meaning make of the instructions of b: statements.
StatementsOf(b) ==
    ToSet(fn.body[b])
        \cup {Havoc(i.lhs) : i \in ToSet(fn.body[b])}
        \cup {BoolAssign(i.lhs, fn.cmps[i.lhs].cst) : i \in ToSet(fn.body[b])}
        \cup {Unreachable}

Translated(b) == [k \in DOMAIN fn.body[b] |-> Translate(fn.body[b][k])]
Meanings(b) == [k \in DOMAIN fn.body[b] |-> Meaning(fn, fn.body[b][k])]

LEMMA TranslatedType ==
    ASSUME fn \in Functions, NEW b \in Blocks
    PROVE  /\ Translated(b) \in Seq(Seq(StatementsOf(b)))
           /\ Meanings(b) \in Seq(Seq(StatementsOf(b)))
           /\ Len(Translated(b)) = Len(fn.body[b]) /\ Len(Meanings(b)) = Len(fn.body[b])
<1>1. ASSUME NEW k \in DOMAIN fn.body[b]
      PROVE  /\ Translate(fn.body[b][k]) \in Seq(StatementsOf(b))
             /\ Meaning(fn, fn.body[b][k]) \in Seq(StatementsOf(b))
  <2>1. PICK i : i = fn.body[b][k]
    OBVIOUS
  <2>2. InstructionFits(fn, i) /\ i \in ToSet(fn.body[b])
    BY <2>1, BlockFits DEF ToSet
  <2>3. {i, Havoc(i.lhs), BoolAssign(i.lhs, fn.cmps[i.lhs].cst)} \subseteq StatementsOf(b)
    BY <2>2 DEF StatementsOf
  <2>4. <<>> \in Seq(StatementsOf(b))
    OBVIOUS
  <2>5. \A st \in StatementsOf(b) : <<st>> \in Seq(StatementsOf(b))
    OBVIOUS
  <2>6. /\ Translate(i) \in {<<>>, <<i>>, <<Havoc(i.lhs)>>,
                             <<BoolAssign(i.lhs, fn.cmps[i.lhs].cst)>>}
        /\ Meaning(fn, i) \in {<<>>, <<i>>, <<Havoc(i.lhs)>>,
                               <<BoolAssign(i.lhs, fn.cmps[i.lhs].cst)>>}
    BY <2>2 DEF Translate, Meaning, InstructionFits
  <2> HIDE DEF StatementsOf
  <2> QED BY <2>1, <2>3, <2>4, <2>5, <2>6
<1>2. DOMAIN fn.body[b] = 1..Len(fn.body[b]) /\ Len(fn.body[b]) \in Nat
  BY BlockFits
<1>3. PICK S : S = Seq(StatementsOf(b))
  OBVIOUS
<1>4. Translated(b) \in [1..Len(fn.body[b]) -> S] /\ Meanings(b) \in [1..Len(fn.body[b]) -> S]
  BY <1>1, <1>2, <1>3 DEF Translated, Meanings
<1> QED BY <1>2, <1>3, <1>4, FunctionIsSeq

LEMMA BodyCodeType ==
    ASSUME fn \in Functions, NEW b \in Blocks
    PROVE  BodyCode(b) \in Seq(StatementsOf(b))
<1>1. FlattenSeq(Translated(b)) \in Seq(StatementsOf(b))
  BY TranslatedType, FlattenType
<1>2. <<Unreachable>> \in Seq(StatementsOf(b)) /\ <<>> \in Seq(StatementsOf(b))
  BY DEF StatementsOf
<1>3. BodyCode(b) = FlattenSeq(Translated(b))
                        \o (IF fn.term[b].op = "unreachable" THEN <<Unreachable>> ELSE <<>>)
  BY DEF BodyCode, Translated
<1> HIDE DEF StatementsOf
<1> QED BY <1>1, <1>2, <1>3

-----------------------------------------------------------------------------
(* The construction keeps CodeInv *)

LEMMA SameFunction ==
    ASSUME fn' = fn
    PROVE  /\ Blocks' = Blocks /\ Entry' = Entry
           /\ \A a, d : /\ BodyCode(a)' = BodyCode(a) /\ PhiCode(a, d)' = PhiCode(a, d)
                        /\ EdgeCode(a, d)' = EdgeCode(a, d)
                        /\ SuccsVector(a)' = SuccsVector(a) /\ SuccsOf(a)' = SuccsOf(a)
<1>1. Blocks' = Blocks /\ Entry' = Entry
  BY DEF Blocks, Entry
<1>2. ASSUME NEW a, NEW d
      PROVE  /\ BodyCode(a)' = BodyCode(a) /\ PhiCode(a, d)' = PhiCode(a, d)
             /\ SuccsVector(a)' = SuccsVector(a) /\ SuccsOf(a)' = SuccsOf(a)
             /\ BranchCode(a, d)' = BranchCode(a, d)
  <2>1. BodyCode(a)' = BodyCode(a)
    BY DEF BodyCode, Translate, Materialised
  <2>2. PhiCode(a, d)' = PhiCode(a, d)
    BY DEF PhiCode
  <2>3. BranchCode(a, d)' = BranchCode(a, d)
    BY DEF BranchCode, BranchOnVar, IsNegated, NeverTaken, SuccsOf
  <2> QED BY <2>1, <2>2, <2>3 DEF SuccsVector, SuccsOf
<1> QED BY <1>1, <1>2 DEF EdgeCode

\* What is said of a block stays true if nothing is taken away from it.
LEMMA EdgesKept ==
    ASSUME NEW a, fn' = fn, Processed(a)' = Processed(a), HasEdges(a),
           \A l \in succ[BlockLabel(a)] : l \in succ'[BlockLabel(a)],
           \A e \in DOMAIN edgeMap : e \in DOMAIN edgeMap' /\ edgeMap'[e] = edgeMap[e],
           \A k \in 1..Processed(a) :
               fn.term[a].op = "condbr" =>
                   LET mid == MidLabel(a, k) IN
                   mid \in nodes /\ succ[mid] # {} =>
                       mid \in nodes' /\ code'[mid] = code[mid] /\ succ'[mid] = succ[mid]
    PROVE  HasEdges(a)'
<1>1. \A d : /\ EdgeCode(a, d)' = EdgeCode(a, d)
             /\ SuccsVector(a)' = SuccsVector(a) /\ SuccsOf(a)' = SuccsOf(a)
  BY SameFunction
<1>2. ASSUME NEW k \in 1..Processed(a), fn.term[a].op = "condbr", HasEdgeBlock(a, k)
      PROVE  HasEdgeBlock(a, k)'
  <2>1. PICK d : d = SuccsOf(a)[k]
    OBVIOUS
  <2>2. PICK mid : mid = MidLabel(a, k)
    OBVIOUS
  <2>3. MidLabel(a, k)' = mid /\ SuccsOf(a)'[k] = d
    BY <1>1, <2>1, <2>2 DEF MidLabel
  <2>4. /\ <<a, d>> \in DOMAIN edgeMap /\ edgeMap[<<a, d>>] = mid
        /\ mid \in nodes /\ code[mid] = EdgeCode(a, d)
        /\ succ[mid] = {BlockLabel(d)} /\ mid \in succ[BlockLabel(a)]
    BY <1>2, <2>1, <2>2 DEF HasEdgeBlock
  <2>5. mid \in nodes' /\ code'[mid] = code[mid] /\ succ'[mid] = succ[mid]
    BY <1>2, <2>2, <2>4
  <2>6. EdgeCode(a, d)' = EdgeCode(a, d)
    BY <1>1
  <2> QED BY <2>3, <2>4, <2>5, <2>6 DEF HasEdgeBlock, BlockLabel
<1> QED BY <1>1, <1>2 DEF HasEdges, BlockLabel

LEMMA BlockKept ==
    ASSUME NEW a, fn' = fn, Processed(a)' = Processed(a), HasCode(a), HasEdges(a),
           code'[BlockLabel(a)] = code[BlockLabel(a)],
           pc = "built" => pc' = "built",
           \A l \in succ[BlockLabel(a)] : l \in succ'[BlockLabel(a)],
           \A e \in DOMAIN edgeMap : e \in DOMAIN edgeMap' /\ edgeMap'[e] = edgeMap[e],
           \A k : LET mid == MidLabel(a, k) IN
                  mid \in nodes =>
                      mid \in nodes' /\ code'[mid] = code[mid] /\ succ'[mid] = succ[mid]
    PROVE  HasCode(a)' /\ HasEdges(a)'
<1>1. \A d : BodyCode(a)' = BodyCode(a) /\ PhiCode(a, d)' = PhiCode(a, d)
             /\ SuccsOf(a)' = SuccsOf(a)
  BY SameFunction
<1>2. CodeSoFar(a)' = CodeSoFar(a)
  BY <1>1 DEF CodeSoFar
<1>3. HasCode(a)'
  BY <1>2 DEF HasCode, BlockLabel
<1>4. HasEdges(a)'
  BY EdgesKept
<1> QED BY <1>3, <1>4

LEMMA CodeInvInit == Init => CodeInv
<1> SUFFICES ASSUME Init PROVE CodeInv
  OBVIOUS
<1>1. visited = {} /\ work = <<>> /\ DOMAIN edgeMap = {} /\ pc = "blocks"
  BY DEF Init
<1> QED BY <1>1 DEF CodeInv, WorkIsLeft

LEMMA AddBlocksCode == GraphInv /\ CodeInv /\ AddBlocks => CodeInv'
<1> SUFFICES ASSUME GraphInv, CodeInv, AddBlocks PROVE CodeInv'
  OBVIOUS
<1>1. /\ visited = {} /\ visited' = {} /\ pc' = "translate" /\ fn' = fn /\ edgeMap' = edgeMap
      /\ code' = [l \in nodes' |-> <<>>] /\ nodes' = nodes \cup {BlockLabel(b) : b \in Blocks}
      /\ cur' = cur
  BY DEF GraphInv, AddBlocks
<1>2. \A b \in Blocks' : code'[BlockLabel(b)] = <<>>
  BY <1>1, SameFunction
<1>3. DOMAIN edgeMap' = {}
  BY <1>1 DEF CodeInv
<1> QED BY <1>1, <1>2, <1>3 DEF CodeInv, WorkIsLeft, BlockLabel

LEMMA VisitBlockCode ==
    ASSUME GraphInv, CodeInv, NEW b \in Blocks, VisitBlock(b)
    PROVE  CodeInv'
<1>1. /\ pc = "translate" /\ pc' = "translate" /\ work = <<>> /\ b \in Blocks \ visited
      /\ fn' = fn /\ nodes' = nodes /\ succ' = succ /\ edgeMap' = edgeMap
      /\ visited' = visited \cup {b} /\ cur' = b /\ work' = SuccsVector(b)
      /\ code' = [code EXCEPT ![BlockLabel(b)] = @ \o BodyCode(b)]
      /\ b = Entry \/ \E a \in visited : b \in ToSet(SuccsOf(a))
  BY DEF VisitBlock
<1>2. fn \in Functions /\ DOMAIN code = nodes /\ visited \subseteq Blocks /\ Labels \subseteq nodes
  BY <1>1 DEF GraphInv, TypeOK
<1>3. /\ Blocks' = Blocks /\ Entry' = Entry
      /\ \A a, d : /\ BodyCode(a)' = BodyCode(a) /\ PhiCode(a, d)' = PhiCode(a, d)
                   /\ SuccsVector(a)' = SuccsVector(a) /\ SuccsOf(a)' = SuccsOf(a)
  BY <1>1, SameFunction
<1>4. \A a : BlockLabel(a) = BlockLabel(b) <=> a = b
  BY DEF BlockLabel
<1>5. \A a, k : MidLabel(a, k) # BlockLabel(b)
  BY DEF MidLabel, BlockLabel
<1>6. ASSUME NEW a \in visited
      PROVE  Processed(a)' = Processed(a) /\ HasCode(a)' /\ HasEdges(a)'
  <2>1. a # b
    BY <1>1, <1>6
  <2>2. Processed(a) = Len(SuccsVector(a))
    <3>1. Len(SuccsVector(a)) \in Nat
      BY <1>2, SuccsVectorType
    <3>2. Len(work) = 0
      BY <1>1
    <3> QED BY <3>1, <3>2 DEF Processed
  <2>3. Processed(a)' = Processed(a)
    BY <1>1, <1>3, <2>1, <2>2 DEF Processed
  <2>4. code'[BlockLabel(a)] = code[BlockLabel(a)]
    BY <1>1, <1>2, <1>4, <2>1 DEF Labels
  <2>5. HasCode(a) /\ HasEdges(a)
    BY <1>6 DEF CodeInv
  <2>6. \A k : MidLabel(a, k) \in nodes => code'[MidLabel(a, k)] = code[MidLabel(a, k)]
    BY <1>1, <1>2, <1>5
  <2> QED BY <1>1, <2>3, <2>4, <2>5, <2>6, BlockKept
<1>7. HasCode(b)' /\ HasEdges(b)'
  <2>1. Len(SuccsVector(b)) \in Nat
    BY <1>2, SuccsVectorType
  <2>2. Processed(b)' = 0
    BY <1>1, <1>3, <2>1 DEF Processed
  <2>3. code[BlockLabel(b)] = <<>> /\ BlockLabel(b) \in nodes
    BY <1>1, <1>2 DEF CodeInv, Labels
  <2>4. code'[BlockLabel(b)] = BodyCode(b)
    <3>1. PICK c \in Seq(StatementsOf(b)) : c = BodyCode(b)
      BY <1>2, BodyCodeType
    <3>2. <<>> \o c = c
      OBVIOUS
    <3> QED BY <1>1, <1>2, <2>3, <3>1, <3>2
  <2>5. CodeSoFar(b)' = BodyCode(b)
    BY <1>3, <2>2 DEF CodeSoFar
  <2>6. HasCode(b)'
    BY <2>4, <2>5 DEF HasCode, BlockLabel
  <2>7. HasEdges(b)'
    BY <2>2 DEF HasEdges
  <2> QED BY <2>6, <2>7
<1>8. \A a \in Blocks' \ visited' : code'[BlockLabel(a)] = <<>>
  <2> SUFFICES ASSUME NEW a \in Blocks \ visited, a # b PROVE code'[BlockLabel(a)] = <<>>
    BY <1>1, <1>3
  <2> QED BY <1>1, <1>2, <1>4 DEF CodeInv, Labels
<1>9. ASSUME NEW e \in DOMAIN edgeMap'
      PROVE  /\ e[1] \in visited' /\ fn'.term[e[1]].op = "condbr"
             /\ \E k \in 1..Processed(e[1])' : e = <<e[1], SuccsOf(e[1])'[k]>>
  <2>1. PICK a : a = e[1]
    OBVIOUS
  <2>2. a \in visited /\ fn.term[a].op = "condbr" /\ \E k \in 1..Processed(a) : e = <<a, SuccsOf(a)[k]>>
    BY <1>1, <1>9, <2>1 DEF CodeInv
  <2>3. Processed(a)' = Processed(a) /\ SuccsOf(a)' = SuccsOf(a)
    BY <1>3, <1>6, <2>2
  <2> QED BY <1>1, <2>1, <2>2, <2>3
<1>10. WorkIsLeft'
  <2>1. PICK v : v = SuccsVector(b)
    OBVIOUS
  <2>2. Len(v) \in Nat
    BY <1>2, <2>1, SuccsVectorType
  <2>3. Processed(b)' = 0 /\ SuccsVector(b)' = v /\ work' = v /\ cur' = b
    BY <1>1, <1>3, <2>1, <2>2 DEF Processed
  <2>4. \A k \in 1..Len(v) : v[k] = v[0 + k]
    BY <2>2
  <2>5. Processed(cur)' = 0 /\ SuccsVector(cur)' = v
    BY <1>1, <1>3, <2>2, <2>3 DEF Processed, SuccsVector, SuccsOf
  <2> QED BY <2>3, <2>4, <2>5 DEF WorkIsLeft
<1>11. Entry' \in visited'
  BY <1>1, <1>3 DEF CodeInv
<1>12. \A a \in visited' : HasCode(a)' /\ HasEdges(a)'
  BY <1>1, <1>6, <1>7
<1> QED BY <1>1, <1>8, <1>9, <1>10, <1>11, <1>12 DEF CodeInv, BlockLabel

\* The next edge: its position in succs_vector, and what is left of work.
LEMMA NextEdge ==
    ASSUME GraphInv, CodeInv, work # <<>>, UNCHANGED <<fn, cur>>, work' = Tail(work)
    PROVE  /\ cur \in visited /\ cur \in Blocks /\ fn \in Functions
           /\ Processed(cur) \in Nat /\ Len(work) \in Nat
           /\ Processed(cur) + 1 \in 1..Len(SuccsVector(cur))
           /\ Head(work) = SuccsVector(cur)[Processed(cur) + 1]
           /\ Len(SuccsVector(cur)) = Processed(cur) + Len(work)
           /\ Processed(cur)' = Processed(cur) + 1
           /\ \A a : a # cur => Processed(a)' = Processed(a)
           /\ \A k \in 1..Len(work') : work'[k] = SuccsVector(cur)[Processed(cur) + 1 + k]
<1>1. cur \in visited /\ cur \in Blocks /\ fn \in Functions
  BY DEF GraphInv, TypeOK
<1>2. PICK w \in Seq(Blocks) : w = work
  BY DEF GraphInv
<1>3. PICK v : v = SuccsVector(cur)
  OBVIOUS
<1>4. PICK n : n = Len(v)
  OBVIOUS
<1>5. n \in Nat /\ SuccsVector(cur)' = v
  BY <1>1, <1>3, <1>4, SuccsVectorType, SameFunction DEF SuccsVector, SuccsOf
<1>6. PICK m : m = Processed(cur)
  OBVIOUS
<1>7. m = n - Len(w) /\ m \in Nat /\ \A k \in 1..Len(w) : w[k] = v[m + k]
  BY <1>1, <1>2, <1>3, <1>4, <1>6 DEF CodeInv, WorkIsLeft, Processed
<1>8. /\ w # <<>> /\ Len(w) \in Nat /\ Len(w) > 0 /\ Head(w) = w[1] /\ Len(Tail(w)) = Len(w) - 1
      /\ \A k \in 1..Len(Tail(w)) : Tail(w)[k] = w[k + 1]
  BY <1>2
<1>9. m + 1 \in 1..n /\ Head(w) = v[m + 1] /\ n = m + Len(w)
  BY <1>5, <1>7, <1>8
<1>10. Processed(cur)' = m + 1
  BY <1>2, <1>4, <1>5, <1>7, <1>8 DEF Processed
<1>11. \A a : a # cur => Processed(a)' = Processed(a)
  BY DEF Processed, SuccsVector, SuccsOf
<1>12. ASSUME NEW k \in 1..Len(Tail(w)) PROVE Tail(w)[k] = v[m + 1 + k]
  <2>1. k + 1 \in 1..Len(w) /\ m + (k + 1) = m + 1 + k
    BY <1>7, <1>8
  <2> QED BY <1>7, <1>8, <2>1
<1> QED BY <1>1, <1>2, <1>3, <1>4, <1>6, <1>7, <1>8, <1>9, <1>10, <1>11, <1>12

LEMMA WorkIsLeftAfter ==
    ASSUME GraphInv, CodeInv, work # <<>>, UNCHANGED <<fn, cur>>, work' = Tail(work)
    PROVE  WorkIsLeft'
<1>1. SuccsVector(cur)' = SuccsVector(cur)
  BY DEF SuccsVector, SuccsOf
<1>2. /\ Processed(cur) \in Nat /\ Processed(cur)' = Processed(cur) + 1
      /\ \A k \in 1..Len(work') : work'[k] = SuccsVector(cur)[Processed(cur) + 1 + k]
  BY NextEdge
<1> QED BY <1>1, <1>2 DEF WorkIsLeft

LEMMA ConditionalEdgeCode ==
    ASSUME GraphInv, CodeInv, ConditionalEdge
    PROVE  CodeInv'
<1>1. PICK d : d = Head(work)
  OBVIOUS
<1>2. PICK mid : mid = EdgeLabel(cur, d)
  OBVIOUS
<1>3. PICK src : src = BlockLabel(cur)
  OBVIOUS
<1>4. /\ pc = "translate" /\ work # <<>> /\ work' = Tail(work)
      /\ fn' = fn /\ pc' = pc /\ visited' = visited /\ cur' = cur
      /\ fn.term[cur].op = "condbr" /\ nodes' = nodes \cup {mid}
      /\ succ' = InBetween(src, mid, BlockLabel(d))
      /\ code' = With(code, mid, EdgeCode(cur, d))
      /\ edgeMap' = Over(edgeMap, [e \in {<<cur, d>>} |-> mid])
  BY <1>1, <1>2, <1>3 DEF ConditionalEdge
<1>5. PICK k : k = Processed(cur) + 1
  OBVIOUS
<1>6. /\ cur \in visited /\ cur \in Blocks /\ fn \in Functions
      /\ k \in 1..2 /\ d = SuccsOf(cur)[k] /\ Processed(cur) = k - 1 /\ Processed(cur)' = k
      /\ \A a : a # cur => Processed(a)' = Processed(a)
      /\ SuccsOf(cur)[1] # SuccsOf(cur)[2] /\ Len(work) = 3 - k
  <2>1. /\ cur \in visited /\ cur \in Blocks /\ fn \in Functions
        /\ Processed(cur) \in Nat /\ Len(work) \in Nat
        /\ Processed(cur) + 1 \in 1..Len(SuccsVector(cur))
        /\ Head(work) = SuccsVector(cur)[Processed(cur) + 1]
        /\ Len(SuccsVector(cur)) = Processed(cur) + Len(work)
        /\ Processed(cur)' = Processed(cur) + 1
        /\ \A a : a # cur => Processed(a)' = Processed(a)
    BY <1>4, NextEdge
  <2>2. /\ Len(SuccsVector(cur)) = 2 /\ SuccsVector(cur) = SuccsOf(cur)
        /\ SuccsOf(cur)[1] # SuccsOf(cur)[2]
    BY <1>4, <2>1, SuccsVectorType
  <2>3. PICK m \in Nat : m = Processed(cur)
    BY <2>1
  <2>4. PICK l \in Nat : l = Len(work)
    BY <2>1
  <2>5. m + 1 \in 1..2 /\ 2 = m + l
    BY <2>1, <2>2, <2>3, <2>4
  <2>6. k \in 1..2 /\ Processed(cur) = k - 1 /\ Processed(cur)' = k /\ Len(work) = 3 - k
    BY <1>5, <2>1, <2>3, <2>4, <2>5
  <2> QED BY <1>1, <1>5, <2>1, <2>2, <2>6
<1>7. mid = MidLabel(cur, k)
  BY <1>2, <1>6 DEF EdgeLabel, MidLabel
<1>8. \A a, l : /\ MidLabel(a, l) # BlockLabel(a) /\ mid # BlockLabel(a)
                /\ MidLabel(a, l) # BlockLabel(d) /\ MidLabel(a, l) # src
                /\ (a # cur \/ (l \in 1..2 /\ l # k)) => MidLabel(a, l) # mid
  <2>1. \A a, l, b : MidLabel(a, l) # BlockLabel(b)
    BY DEF MidLabel, BlockLabel
  <2>2. ASSUME NEW a, NEW l, a # cur \/ (l \in 1..2 /\ l # k) PROVE MidLabel(a, l) # mid
    <3>1. a # cur \/ 3 - l # 3 - k
      BY <1>6, <2>2
    <3> QED BY <1>7, <3>1 DEF MidLabel
  <2> QED BY <1>3, <1>7, <2>1, <2>2
<1>9. /\ \A a \in Blocks : BlockLabel(a) \in nodes
      /\ src \in nodes /\ DOMAIN code = nodes /\ DOMAIN succ = nodes
      /\ visited \subseteq Blocks
  BY <1>3, <1>4, <1>6 DEF GraphInv, TypeOK, Labels
<1>10. /\ \A l \in nodes : l # mid => code'[l] = code[l]
       /\ code'[mid] = EdgeCode(cur, d)
  BY <1>4, <1>9 DEF With
<1>11. /\ \A l \in nodes : l # mid /\ l # src => succ'[l] = succ[l]
       /\ succ'[src] = (succ[src] \ {BlockLabel(d)}) \cup {mid}
       /\ succ'[mid] = {BlockLabel(d)}
  BY <1>3, <1>4, <1>8, <1>9 DEF InBetween, With
<1>12. /\ \A e \in DOMAIN edgeMap : e \in DOMAIN edgeMap' /\ edgeMap'[e] = edgeMap[e]
       /\ DOMAIN edgeMap' = DOMAIN edgeMap \cup {<<cur, d>>}
  BY <1>4 DEF Over
<1>13. <<cur, d>> \notin DOMAIN edgeMap
  <2> SUFFICES ASSUME <<cur, d>> \in DOMAIN edgeMap PROVE FALSE
    OBVIOUS
  <2>1. PICK l \in 1..Processed(cur) : <<cur, d>> = <<cur, SuccsOf(cur)[l]>>
    BY DEF CodeInv
  <2>2. l = 1 /\ k = 2
    BY <1>6, <2>1
  <2> QED BY <1>6, <2>1, <2>2
<1>14. edgeMap'[<<cur, d>>] = mid /\ <<cur, d>> \in DOMAIN edgeMap'
  BY <1>4, <1>13 DEF Over
<1>15. /\ \A a, b : /\ EdgeCode(a, b)' = EdgeCode(a, b) /\ BodyCode(a)' = BodyCode(a)
                    /\ SuccsOf(a)' = SuccsOf(a)
       /\ Blocks' = Blocks /\ Entry' = Entry
  BY <1>4, SameFunction
<1>16. ASSUME NEW a \in visited, a # cur PROVE HasCode(a)' /\ HasEdges(a)'
  <2>1. HasCode(a) /\ HasEdges(a) /\ BlockLabel(a) \in nodes /\ BlockLabel(a) # src
    BY <1>3, <1>9, <1>16 DEF CodeInv, BlockLabel
  <2>2. code'[BlockLabel(a)] = code[BlockLabel(a)] /\ succ'[BlockLabel(a)] = succ[BlockLabel(a)]
    BY <1>8, <1>10, <1>11, <2>1
  <2>3. ASSUME NEW l, MidLabel(a, l) \in nodes
        PROVE  /\ MidLabel(a, l) \in nodes' /\ code'[MidLabel(a, l)] = code[MidLabel(a, l)]
               /\ succ'[MidLabel(a, l)] = succ[MidLabel(a, l)]
    BY <1>4, <1>8, <1>10, <1>11, <1>16, <2>3
  <2> QED BY <1>4, <1>6, <1>12, <1>16, <2>1, <2>2, <2>3, BlockKept
<1>17. HasCode(cur)'
  <2>1. code'[src] = code[src]
    BY <1>3, <1>8, <1>9, <1>10
  <2>2. code[src] = BodyCode(cur)
    BY <1>3, <1>4, <1>6 DEF CodeInv, HasCode, CodeSoFar
  <2>3. CodeSoFar(cur)' = BodyCode(cur)
    <3>1. BodyCode(cur)' = BodyCode(cur)
      BY <1>4 DEF BodyCode, Translate, Materialised
    <3> QED BY <1>4, <3>1 DEF CodeSoFar
  <2>4. BlockLabel(cur)' = src
    BY <1>3, <1>4 DEF BlockLabel
  <2> QED BY <2>1, <2>2, <2>3, <2>4 DEF HasCode
<1>18. HasEdges(cur)'
  <2> SUFFICES ASSUME NEW l \in 1..k PROVE HasEdgeBlock(cur, l)'
    BY <1>4, <1>6 DEF HasEdges
  <2>1. PICK c : c = cur
    OBVIOUS
  <2>2. PICK e : e = SuccsOf(c)[l]
    OBVIOUS
  <2>3. PICK m : m = MidLabel(c, l)
    OBVIOUS
  <2>4. /\ SuccsOf(cur)'[l] = e /\ MidLabel(cur, l)' = m /\ EdgeCode(cur, SuccsOf(cur)[l])' = EdgeCode(c, e)
        /\ BlockLabel(cur)' = src /\ cur' = c
    <3>1. SuccsOf(cur)' = SuccsOf(c)
      BY <1>4, <2>1 DEF SuccsOf
    <3>2. EdgeCode(c, e)' = EdgeCode(c, e)
      BY <1>15
    <3> QED BY <1>3, <1>4, <2>1, <2>2, <2>3, <3>1, <3>2 DEF MidLabel, BlockLabel
  <2>5. CASE l = k
    <3>1. e = d /\ m = mid
      BY <1>6, <1>7, <2>1, <2>2, <2>3, <2>5
    <3> QED BY <1>4, <1>10, <1>11, <1>14, <2>1, <2>4, <3>1 DEF HasEdgeBlock, BlockLabel
  <2>6. CASE l # k
    <3>1. l \in 1..Processed(cur) /\ l \in 1..2
      BY <1>6, <2>6
    <3>2. /\ <<c, e>> \in DOMAIN edgeMap /\ edgeMap[<<c, e>>] = m
          /\ m \in nodes /\ code[m] = EdgeCode(c, e)
          /\ succ[m] = {BlockLabel(e)} /\ m \in succ[src]
      BY <1>3, <1>4, <1>6, <2>1, <2>2, <2>3, <3>1 DEF CodeInv, HasEdges, HasEdgeBlock
    <3>3. m # mid /\ m # src /\ m # BlockLabel(d)
      BY <1>8, <2>3, <2>6, <3>1
    <3>4. m \in nodes' /\ code'[m] = code[m] /\ succ'[m] = succ[m] /\ m \in succ'[src]
      BY <1>4, <1>10, <1>11, <3>2, <3>3
    <3>5. <<c, e>> \in DOMAIN edgeMap' /\ edgeMap'[<<c, e>>] = m
      BY <1>12, <3>2
    <3> QED BY <2>4, <3>2, <3>4, <3>5 DEF HasEdgeBlock, BlockLabel
  <2> QED BY <2>5, <2>6
<1>19. ASSUME NEW e \in DOMAIN edgeMap'
       PROVE  /\ e[1] \in visited' /\ fn'.term[e[1]].op = "condbr"
              /\ \E l \in 1..Processed(e[1])' : e = <<e[1], SuccsOf(e[1])'[l]>>
  <2>1. PICK a : a = e[1]
    OBVIOUS
  <2>2. CASE e = <<cur, d>>
    <3>1. a = cur /\ k \in 1..k
      BY <1>6, <2>1, <2>2
    <3>2. Processed(a)' = k /\ SuccsOf(a)' = SuccsOf(a)
      <4>1. Processed(a)' = Processed(cur)'
        BY <1>4, <3>1 DEF Processed, SuccsVector, SuccsOf
      <4> QED BY <1>6, <1>15, <4>1
    <3> QED BY <1>4, <1>6, <2>1, <2>2, <3>1, <3>2
  <2>3. CASE e # <<cur, d>>
    <3>1. /\ e \in DOMAIN edgeMap /\ a \in visited /\ fn.term[a].op = "condbr"
          /\ \E l \in 1..Processed(a) : e = <<a, SuccsOf(a)[l]>>
      BY <1>12, <2>1, <2>3 DEF CodeInv
    <3>2. Processed(a)' \in Nat /\ 1..Processed(a) \subseteq 1..Processed(a)'
      <4>1. CASE a = cur
        <5>1. Processed(a)' = Processed(cur)'
          BY <1>4, <4>1 DEF Processed, SuccsVector, SuccsOf
        <5> QED BY <1>6, <4>1, <5>1
      <4>2. CASE a # cur
        <5>1. Len(SuccsVector(a)) \in Nat
          BY <1>6, <1>9, <3>1, SuccsVectorType
        <5> QED BY <1>6, <4>2, <5>1 DEF Processed
      <4> QED BY <4>1, <4>2
    <3> QED BY <1>4, <1>15, <2>1, <3>1, <3>2
  <2> QED BY <2>2, <2>3
<1>20. \A a \in Blocks' \ visited' : code'[BlockLabel(a)] = <<>>
  <2> SUFFICES ASSUME NEW a \in Blocks \ visited PROVE code'[BlockLabel(a)] = <<>>
    BY <1>4, <1>15
  <2> QED BY <1>4, <1>8, <1>9, <1>10 DEF CodeInv
<1>21. WorkIsLeft'
  BY <1>4, WorkIsLeftAfter
<1>22. \A a \in visited' : HasCode(a)' /\ HasEdges(a)'
  <2> SUFFICES ASSUME NEW a \in visited PROVE HasCode(a)' /\ HasEdges(a)'
    BY <1>4
  <2>1. CASE a = cur
    <3>1. HasCode(a)'
      BY <1>4, <1>17, <2>1 DEF HasCode, CodeSoFar, BlockLabel, Processed, BodyCode, SuccsVector, SuccsOf
    <3> QED BY <1>4, <1>18, <2>1, <3>1
  <2>2. CASE a # cur
    BY <1>16, <2>2
  <2> QED BY <2>1, <2>2
<1> QED BY <1>4, <1>15, <1>19, <1>20, <1>21, <1>22 DEF CodeInv, BlockLabel

LEMMA PhiCodeOfNone ==
    ASSUME NEW b, NEW d, fn.phis[d] = <<>>
    PROVE  PhiCode(b, d) = <<>>
<1> DEFINE phis == fn.phis[d]
           Operand(k) == phis[k].inc[b]
           PhiOperands == {V(phis[k].lhs) : k \in DOMAIN phis}
           ToSave == {k \in DOMAIN phis :
                         /\ Operand(k) \in PhiOperands
                         /\ \A j \in 1..(k - 1) : Operand(j) # Operand(k)}
           Save(k) == Assign(OldCopy(Operand(k)[2]), Operand(k))
           Read(k) == IF Operand(k) \in PhiOperands
                      THEN V(OldCopy(Operand(k)[2])) ELSE Operand(k)
           order == InOrder(ToSave)
           saves == [k \in DOMAIN order |-> Save(order[k])]
           copies == [k \in DOMAIN phis |-> Assign(phis[k].lhs, Read(k))]
<1>1. PhiCode(b, d) = saves \o copies
  BY DEF PhiCode
<1>2. DOMAIN phis = {} /\ ToSave = {}
  OBVIOUS
<1>3. Cardinality({}) = 0 /\ IsFiniteSet({})
  BY FS_EmptySet
<1>4. DOMAIN order = 1..0
  BY <1>2, <1>3 DEF InOrder
<1>5. saves = <<>> /\ copies = <<>>
  BY <1>2, <1>4
<1> QED BY <1>1, <1>5

LEMMA PlainEdgeCode ==
    ASSUME GraphInv, CodeInv, PlainEdge
    PROVE  CodeInv'
<1>1. PICK d : d = Head(work)
  OBVIOUS
<1>2. PICK src : src = BlockLabel(cur)
  OBVIOUS
<1>3. /\ pc = "translate" /\ work # <<>> /\ work' = Tail(work)
      /\ fn' = fn /\ pc' = pc /\ visited' = visited /\ cur' = cur /\ nodes' = nodes
      /\ edgeMap' = edgeMap /\ fn.term[cur].op \in {"br", "switch"}
      /\ succ' = [succ EXCEPT ![src] = @ \cup {BlockLabel(d)}]
      /\ code' = [code EXCEPT ![src] = @ \o PhiCode(cur, d)]
  BY <1>1, <1>2 DEF PlainEdge
<1>4. PICK k : k = Processed(cur) + 1
  OBVIOUS
<1>5. PICK n : n = Len(SuccsVector(cur))
  OBVIOUS
<1>6. /\ cur \in visited /\ cur \in Blocks /\ fn \in Functions
      /\ n \in Nat /\ k \in 1..n /\ d = SuccsVector(cur)[k]
      /\ Processed(cur) = k - 1 /\ Processed(cur)' = k
      /\ \A a : a # cur => Processed(a)' = Processed(a)
  <2>1. /\ cur \in visited /\ cur \in Blocks /\ fn \in Functions
        /\ Processed(cur) \in Nat
        /\ Processed(cur) + 1 \in 1..Len(SuccsVector(cur))
        /\ Head(work) = SuccsVector(cur)[Processed(cur) + 1]
        /\ Processed(cur)' = Processed(cur) + 1
        /\ \A a : a # cur => Processed(a)' = Processed(a)
    BY <1>3, NextEdge
  <2>2. Len(SuccsVector(cur)) \in Nat
    BY <2>1, SuccsVectorType
  <2> QED BY <1>1, <1>4, <1>5, <2>1, <2>2
<1>7. /\ \A a \in Blocks : BlockLabel(a) \in nodes
      /\ src \in nodes /\ DOMAIN code = nodes /\ DOMAIN succ = nodes
      /\ visited \subseteq Blocks
  BY <1>2, <1>3, <1>6 DEF GraphInv, TypeOK, Labels
<1>8. /\ \A l \in nodes : l # src => code'[l] = code[l] /\ succ'[l] = succ[l]
      /\ code'[src] = code[src] \o PhiCode(cur, d)
      /\ succ'[src] = succ[src] \cup {BlockLabel(d)}
  BY <1>3, <1>7
<1>9. /\ \A a, b : /\ PhiCode(a, b)' = PhiCode(a, b) /\ BodyCode(a)' = BodyCode(a)
                   /\ SuccsOf(a)' = SuccsOf(a)
      /\ Blocks' = Blocks /\ Entry' = Entry
  BY <1>3, SameFunction
<1>10. ASSUME NEW a \in visited, a # cur PROVE HasCode(a)' /\ HasEdges(a)'
  <2>1. HasCode(a) /\ HasEdges(a) /\ BlockLabel(a) \in nodes /\ BlockLabel(a) # src
    BY <1>2, <1>7, <1>10 DEF CodeInv, BlockLabel
  <2>2. code'[BlockLabel(a)] = code[BlockLabel(a)] /\ succ'[BlockLabel(a)] = succ[BlockLabel(a)]
    BY <1>8, <2>1
  <2>3. \A l : MidLabel(a, l) # src
    BY <1>2 DEF MidLabel, BlockLabel
  <2>4. \A l : MidLabel(a, l) \in nodes =>
               /\ MidLabel(a, l) \in nodes' /\ code'[MidLabel(a, l)] = code[MidLabel(a, l)]
               /\ succ'[MidLabel(a, l)] = succ[MidLabel(a, l)]
    BY <1>3, <1>8, <2>3
  <2> QED BY <1>3, <1>6, <1>10, <2>1, <2>2, <2>4, BlockKept
<1>11. HasCode(cur)'
  <2>1. PICK c : c = cur
    OBVIOUS
  <2>2. BodyCode(cur)' = BodyCode(c) /\ BlockLabel(cur)' = src /\ SuccsOf(cur)' = SuccsOf(c)
    BY <1>2, <1>3, <2>1 DEF BodyCode, Translate, Materialised, BlockLabel, SuccsOf
  <2>3. code[src] = CodeSoFar(cur)
    BY <1>2, <1>3, <1>6 DEF CodeInv, HasCode
  <2>4. CASE fn.term[cur].op = "br"
    <3>1. n = 1 /\ SuccsVector(cur) = SuccsOf(cur)
      BY <1>5, <1>6, <2>4, SuccsVectorType
    <3>2. k = 1 /\ d = SuccsOf(cur)[1]
      BY <1>6, <3>1
    <3>3. code[src] = BodyCode(cur)
      BY <1>6, <2>3, <3>2 DEF CodeSoFar
    <3>4. PhiCode(cur, SuccsOf(cur)[1])' = PhiCode(c, d)
      <4>1. PhiCode(c, d)' = PhiCode(c, d)
        BY <1>9
      <4>2. PhiCode(cur, SuccsOf(cur)[1])' = PhiCode(c, d)'
        <5>1. cur' = c /\ SuccsOf(cur)'[1] = d
          BY <1>3, <2>1, <3>2 DEF SuccsOf
        <5> QED BY <5>1
      <4> QED BY <4>1, <4>2
    <3>5. CodeSoFar(cur)' = BodyCode(c) \o PhiCode(c, d)
      BY <1>3, <1>6, <2>2, <2>4, <3>2, <3>4 DEF CodeSoFar
    <3> QED BY <1>8, <2>1, <2>2, <3>3, <3>5 DEF HasCode
  <2>5. CASE fn.term[cur].op = "switch"
    <3>1. code[src] = BodyCode(cur)
      BY <2>3, <2>5 DEF CodeSoFar
    <3>2. fn.phis[d] = <<>>
      <4>1. d \in ToSet(SuccsOf(cur))
        BY <1>5, <1>6, SuccsVectorType
      <4> QED BY <1>6, <2>5, <4>1, SimulationAssumption DEF Supported, Blocks, SuccsOf
    <3>3. PhiCode(cur, d) = <<>>
      BY <3>2, PhiCodeOfNone
    <3>4. code'[src] = BodyCode(cur)
      <4>1. PICK body \in Seq(StatementsOf(cur)) : body = BodyCode(cur)
        BY <1>6, BodyCodeType
      <4>2. body \o <<>> = body
        OBVIOUS
      <4> QED BY <1>8, <3>1, <3>3, <4>1, <4>2
    <3>5. CodeSoFar(cur)' = BodyCode(c)
      BY <1>3, <2>2, <2>5 DEF CodeSoFar
    <3> QED BY <2>1, <2>2, <3>4, <3>5 DEF HasCode
  <2> QED BY <1>3, <2>4, <2>5
<1>12. HasEdges(cur)'
  <2>1. PICK v : v = SuccsVector(cur)
    OBVIOUS
  <2>2. SuccsVector(cur)' = v /\ BlockLabel(cur)' = src
    BY <1>2, <1>3, <2>1 DEF SuccsVector, SuccsOf, BlockLabel
  <2>3. ASSUME NEW l \in 1..k PROVE BlockLabel(v[l]) \in succ'[src]
    <3>1. CASE l = k
      BY <1>6, <1>8, <2>1, <3>1
    <3>2. CASE l # k
      <4>1. l \in 1..Processed(cur)
        BY <1>6, <3>2
      <4> QED BY <1>2, <1>3, <1>6, <1>8, <2>1, <4>1 DEF CodeInv, HasEdges
    <3> QED BY <3>1, <3>2
  <2>4. fn'.term[cur'].op # "condbr"
    BY <1>3
  <2> QED BY <1>6, <2>2, <2>3, <2>4 DEF HasEdges, BlockLabel
<1>13. ASSUME NEW e \in DOMAIN edgeMap'
       PROVE  /\ e[1] \in visited' /\ fn'.term[e[1]].op = "condbr"
              /\ \E l \in 1..Processed(e[1])' : e = <<e[1], SuccsOf(e[1])'[l]>>
  <2>1. PICK a : a = e[1]
    OBVIOUS
  <2>2. /\ a \in visited /\ fn.term[a].op = "condbr"
        /\ \E l \in 1..Processed(a) : e = <<a, SuccsOf(a)[l]>>
    BY <1>3, <1>13, <2>1 DEF CodeInv
  <2>3. a # cur
    BY <1>3, <2>2
  <2> QED BY <1>3, <1>6, <1>9, <2>1, <2>2, <2>3
<1>14. \A a \in Blocks' \ visited' : code'[BlockLabel(a)] = <<>>
  <2> SUFFICES ASSUME NEW a \in Blocks \ visited PROVE code'[BlockLabel(a)] = <<>>
    BY <1>3, <1>9
  <2>1. BlockLabel(a) # src /\ BlockLabel(a) \in nodes
    BY <1>2, <1>6, <1>7 DEF BlockLabel
  <2> QED BY <1>3, <1>8, <2>1 DEF CodeInv
<1>15. WorkIsLeft'
  BY <1>3, WorkIsLeftAfter
<1>16. \A a \in visited' : HasCode(a)' /\ HasEdges(a)'
  <2> SUFFICES ASSUME NEW a \in visited PROVE HasCode(a)' /\ HasEdges(a)'
    BY <1>3
  <2>1. CASE a = cur
    <3>1. HasCode(a)'
      <4>1. a = cur'
        BY <1>3, <2>1
      <4> QED BY <1>11, <4>1
    <3>2. HasEdges(a)'
      BY <1>3, <1>12, <2>1 DEF HasEdges, HasEdgeBlock, MidLabel, Processed, SuccsVector, SuccsOf,
                                BlockLabel
    <3> QED BY <3>1, <3>2
  <2>2. CASE a # cur
    BY <1>10, <2>2
  <2> QED BY <2>1, <2>2
<1> QED BY <1>3, <1>9, <1>13, <1>14, <1>15, <1>16 DEF CodeInv, BlockLabel

LEMMA ConnectSinksCode ==
    ASSUME GraphInv, CodeInv, ConnectSinks
    PROVE  CodeInv'
<1>1. /\ pc = "translate" /\ pc' = "built" /\ work = <<>> /\ work' = work /\ visited # {}
      /\ fn' = fn /\ nodes' = nodes /\ edgeMap' = edgeMap /\ visited' = visited /\ cur' = cur
      /\ \A a \in visited : ToSet(SuccsOf(a)) \subseteq visited
      /\ code' = IF exit # NoExit /\ hasFail
                 THEN [code EXCEPT ![exit] = Append(@, AssertFalse)] ELSE code
      /\ succ' = IF exit # NoExit
                 THEN [n \in nodes |-> IF n \in Sinks /\ succ[n] = {}
                                       THEN {exit} ELSE succ[n]]
                 ELSE succ
  BY DEF ConnectSinks
<1>2. /\ fn \in Functions /\ DOMAIN code = nodes /\ DOMAIN succ = nodes /\ visited \subseteq Blocks
      /\ Labels \subseteq nodes
  BY <1>1 DEF GraphInv, TypeOK
<1>3. exit \in Labels \cup {NoExit}
  BY <1>2, ExitType DEF GraphInv
<1>4. \A a, k : MidLabel(a, k) \notin Labels
  BY DEF MidLabel, Labels, BlockLabel
<1>5. \A l \in nodes : /\ succ[l] # {} => succ'[l] = succ[l]
                       /\ l \notin Labels => code'[l] = code[l]
                       /\ code'[l] = code[l] \/ code'[l] = Append(code[l], AssertFalse)
  BY <1>1, <1>2, <1>3
<1>6. \A a, b : /\ PhiCode(a, b)' = PhiCode(a, b) /\ BodyCode(a)' = BodyCode(a)
                /\ SuccsOf(a)' = SuccsOf(a) /\ SuccsVector(a)' = SuccsVector(a)
                /\ Blocks' = Blocks /\ Entry' = Entry
  BY <1>1, SameFunction
<1>7. \A a : Processed(a)' = Processed(a)
  BY <1>1, <1>6 DEF Processed
<1>8. ASSUME NEW a \in visited PROVE HasCode(a)' /\ HasEdges(a)'
  <2>1. HasCode(a) /\ HasEdges(a) /\ BlockLabel(a) \in nodes
    BY <1>2 DEF CodeInv, Labels
  <2>2. CodeSoFar(a)' = CodeSoFar(a)
    BY <1>1, <1>6, <1>7 DEF CodeSoFar
  <2>3. code[BlockLabel(a)] = CodeSoFar(a)
    BY <1>1, <2>1 DEF HasCode
  <2>4. HasCode(a)'
    BY <1>1, <1>5, <2>1, <2>2, <2>3 DEF HasCode, BlockLabel
  <2>5. \A l \in succ[BlockLabel(a)] : l \in succ'[BlockLabel(a)]
    BY <1>5, <2>1
  <2>6. \A k : LET mid == MidLabel(a, k) IN
               mid \in nodes /\ succ[mid] # {} =>
                   mid \in nodes' /\ code'[mid] = code[mid] /\ succ'[mid] = succ[mid]
    BY <1>1, <1>4, <1>5
  <2>7. \A e \in DOMAIN edgeMap : e \in DOMAIN edgeMap' /\ edgeMap'[e] = edgeMap[e]
    BY <1>1
  <2>8. HasEdges(a)'
    BY <1>1, <1>7, <2>1, <2>5, <2>6, <2>7, EdgesKept
  <2> QED BY <2>4, <2>8
<1>9. ASSUME NEW e \in DOMAIN edgeMap'
      PROVE  /\ e[1] \in visited' /\ fn'.term[e[1]].op = "condbr"
             /\ \E l \in 1..Processed(e[1])' : e = <<e[1], SuccsOf(e[1])'[l]>>
  <2>1. PICK a : a = e[1]
    OBVIOUS
  <2>2. /\ a \in visited /\ fn.term[a].op = "condbr"
        /\ \E l \in 1..Processed(a) : e = <<a, SuccsOf(a)[l]>>
    BY <1>1, <1>9, <2>1 DEF CodeInv
  <2> QED BY <1>1, <1>6, <1>7, <2>1, <2>2
<1>10. WorkIsLeft'
  <2>1. Processed(cur)' = Processed(cur) /\ SuccsVector(cur)' = SuccsVector(cur)
    BY <1>1 DEF Processed, SuccsVector, SuccsOf
  <2> QED BY <1>1, <2>1 DEF CodeInv, WorkIsLeft
<1>11. Entry' \in visited'
  BY <1>1, <1>6 DEF CodeInv
<1>12. \A a \in visited' : ToSet(SuccsOf(a)') \subseteq visited'
  BY <1>1, <1>6 DEF ToSet
<1>13. \A a \in visited' : HasCode(a)' /\ HasEdges(a)'
  BY <1>1, <1>8
<1>14. pc' # "translate"
  BY <1>1
<1> QED BY <1>1, <1>9, <1>10, <1>11, <1>12, <1>13, <1>14 DEF CodeInv, ToSet

LEMMA CodeInvStep == GraphInv /\ CodeInv /\ [Next]_vars => CodeInv'
<1>1. ASSUME GraphInv, CodeInv, UNCHANGED vars PROVE CodeInv'
  <2>1. /\ fn' = fn /\ pc' = pc /\ nodes' = nodes /\ succ' = succ /\ code' = code
        /\ edgeMap' = edgeMap /\ visited' = visited /\ cur' = cur /\ work' = work
    BY <1>1 DEF vars
  <2>2. /\ Blocks' = Blocks /\ Entry' = Entry
        /\ \A a, d : /\ BodyCode(a)' = BodyCode(a) /\ PhiCode(a, d)' = PhiCode(a, d)
                     /\ EdgeCode(a, d)' = EdgeCode(a, d)
                     /\ SuccsVector(a)' = SuccsVector(a) /\ SuccsOf(a)' = SuccsOf(a)
    BY <2>1, SameFunction
  <2>3. \A a : Processed(a)' = Processed(a)
    BY <2>1, <2>2 DEF Processed
  <2>4. ASSUME NEW a \in visited PROVE HasCode(a)' /\ HasEdges(a)'
    <3>1. HasCode(a) /\ HasEdges(a)
      BY <1>1 DEF CodeInv
    <3> QED BY <2>1, <2>3, <3>1, BlockKept
  <2>5. WorkIsLeft'
    <3>1. Processed(cur)' = Processed(cur) /\ SuccsVector(cur)' = SuccsVector(cur)
      BY <2>1 DEF Processed, SuccsVector, SuccsOf
    <3> QED BY <1>1, <2>1, <3>1 DEF CodeInv, WorkIsLeft
  <2>6. \A e \in DOMAIN edgeMap' :
            /\ e[1] \in visited' /\ fn'.term[e[1]].op = "condbr"
            /\ \E k \in 1..Processed(e[1])' : e = <<e[1], SuccsOf(e[1])'[k]>>
    <3> SUFFICES ASSUME NEW e \in DOMAIN edgeMap, NEW a, a = e[1]
                 PROVE  /\ a \in visited /\ fn.term[a].op = "condbr"
                        /\ \E k \in 1..Processed(a)' : e = <<a, SuccsOf(a)'[k]>>
      BY <2>1
    <3> QED BY <1>1, <2>2, <2>3 DEF CodeInv
  <2> QED BY <1>1, <2>1, <2>2, <2>4, <2>5, <2>6 DEF CodeInv, BlockLabel, ToSet
<1> QED BY <1>1, AddBlocksCode, VisitBlockCode, ConditionalEdgeCode, PlainEdgeCode,
           ConnectSinksCode DEF Next

LEMMA CodeInvAlways == SimSpec => [](GraphInv /\ CodeInv)
<1>1. SimInit => CodeInv
  BY CodeInvInit DEF SimInit
<1>2. GraphInv /\ CodeInv /\ [SimNext]_allVars => CodeInv'
  <2> SUFFICES ASSUME GraphInv, CodeInv, [SimNext]_allVars PROVE CodeInv'
    OBVIOUS
  <2>1. [Next]_vars
    BY DEF SimNext, allVars, Build, Call, Step
  <2> QED BY <2>1, CodeInvStep
<1> QED BY <1>1, <1>2, GraphInvAlways, PTL DEF SimSpec

-----------------------------------------------------------------------------
(* Values *)

St == [fn.vars -> Val]

LEMMA KnownIsVar == Known \subseteq fn.vars
BY DEF Known, KnownIn

LEMMA ZeroOne == 0 \in Val /\ 1 \in Val
BY ValAssumption

LEMMA CmpFits ==
    ASSUME fn \in Functions, NEW c \in DOMAIN fn.cmps
    PROVE  LET cst == fn.cmps[c].cst IN
           /\ c \in fn.vars /\ cst = Constraint(cst.rel, cst.a, cst.b)
           /\ cst.rel \in {"lt", "ult", "ge", "eq", "ne"}
           /\ OperandFits(fn, cst.a) /\ OperandFits(fn, cst.b) /\ c \notin VarsOf(cst)
           /\ cst.rel = "ult" => fn.cmps[c].onlyBr
BY SimulationAssumption DEF Typed

LEMMA StoreWith ==
    ASSUME NEW e \in St, NEW x \in fn.vars, NEW v \in Val
    PROVE  /\ With(e, x, v) \in St /\ With(e, x, v)[x] = v
           /\ \A y \in fn.vars : y # x => With(e, x, v)[y] = e[y]
BY DEF With, St

LEMMA OperandValues ==
    ASSUME fn \in Functions, NEW e \in St, NEW operand, OperandFits(fn, operand)
    PROVE  ValuesOf(operand, e) \subseteq Val /\ ValuesOf(operand, e) # {}
<1>1. CASE operand = Undef
  BY <1>1, ZeroOne DEF ValuesOf, Undef
<1>2. CASE \E c \in Val : operand = K(c)
  BY <1>2 DEF ValuesOf, K
<1>3. CASE \E x \in KnownIn(fn) : operand = V(x)
  BY <1>3 DEF ValuesOf, KnownIn, St, V
<1> QED BY <1>1, <1>2, <1>3 DEF OperandFits

LEMMA SameOperand ==
    ASSUME fn \in Functions, NEW e, NEW t, NEW operand, OperandFits(fn, operand),
           \A x \in Reads(operand) : t[x] = e[x]
    PROVE  ValuesOf(operand, t) = ValuesOf(operand, e)
<1>1. CASE operand = Undef
  BY <1>1 DEF ValuesOf, Undef
<1>2. CASE \E c \in Val : operand = K(c)
  BY <1>2 DEF ValuesOf, K
<1>3. CASE \E x \in KnownIn(fn) : operand = V(x)
  BY <1>3 DEF ValuesOf, Reads, V
<1> QED BY <1>1, <1>2, <1>3 DEF OperandFits

LEMMA ReadsKnown ==
    ASSUME fn \in Functions, NEW operand, OperandFits(fn, operand)
    PROVE  Reads(operand) \subseteq Known
BY DEF OperandFits, Reads, Undef, Known, V, K

\* A comparison depends on its operands only.
LEMMA SameCmp ==
    ASSUME fn \in Functions, NEW c \in DOMAIN fn.cmps, NEW e, NEW t,
           \A x \in VarsOf(fn.cmps[c].cst) : t[x] = e[x]
    PROVE  /\ Holds(fn.cmps[c].cst, t) <=> Holds(fn.cmps[c].cst, e)
           /\ fn.cmps[c].cst.rel # "ult" =>
                  (Holds(Negation(fn.cmps[c].cst), t) <=> Holds(Negation(fn.cmps[c].cst), e))
<1>1. PICK cst : cst = fn.cmps[c].cst
  OBVIOUS
<1>2. ValuesOf(cst.a, t) = ValuesOf(cst.a, e) /\ ValuesOf(cst.b, t) = ValuesOf(cst.b, e)
  <2>1. OperandFits(fn, cst.a) /\ OperandFits(fn, cst.b)
    BY <1>1, CmpFits
  <2>2. \A x \in Reads(cst.a) \cup Reads(cst.b) : t[x] = e[x]
    BY <1>1 DEF VarsOf
  <2> QED BY <2>1, <2>2, SameOperand
<1>3. Negation(cst).a = cst.a /\ Negation(cst).b = cst.b
  BY <1>1, CmpFits DEF Negation, Constraint
<1> QED BY <1>1, <1>2, <1>3 DEF Holds

LEMMA NegationHolds ==
    ASSUME fn \in Functions, NEW c \in DOMAIN fn.cmps, fn.cmps[c].cst.rel # "ult",
           NEW e \in St, ~ Holds(fn.cmps[c].cst, e)
    PROVE  Holds(Negation(fn.cmps[c].cst), e)
<1>1. PICK cst : cst = fn.cmps[c].cst
  OBVIOUS
<1>2. /\ cst = Constraint(cst.rel, cst.a, cst.b) /\ cst.rel \in {"lt", "ge", "eq", "ne"}
      /\ OperandFits(fn, cst.a) /\ OperandFits(fn, cst.b)
  BY <1>1, CmpFits
<1>3. PICK x \in ValuesOf(cst.a, e), y \in ValuesOf(cst.b, e) : TRUE
  BY <1>2, OperandValues
<1>4. x \in Int /\ y \in Int
  BY <1>2, <1>3, OperandValues, ValAssumption
<1>5. /\ Negation(cst).a = cst.a /\ Negation(cst).b = cst.b
      /\ cst.rel = "eq" => Negation(cst).rel = "ne"
      /\ cst.rel = "ne" => Negation(cst).rel = "eq"
      /\ cst.rel = "lt" => Negation(cst).rel = "ge"
      /\ cst.rel = "ge" => Negation(cst).rel = "lt"
  BY <1>2 DEF Negation, Constraint
<1>6. PICK neg : neg = Negation(cst)
  OBVIOUS
<1>7. x \in ValuesOf(neg.a, e) /\ y \in ValuesOf(neg.b, e)
  BY <1>3, <1>5, <1>6
<1>8. ~ (CASE cst.rel \in {"lt", "ult"} -> x < y
           [] cst.rel = "ge" -> x >= y
           [] cst.rel = "eq" -> x = y
           [] cst.rel = "ne" -> x # y)
  BY <1>1, <1>3 DEF Holds
<1>9. ASSUME CASE neg.rel \in {"lt", "ult"} -> x < y
               [] neg.rel = "ge" -> x >= y
               [] neg.rel = "eq" -> x = y
               [] neg.rel = "ne" -> x # y
      PROVE  Holds(neg, e)
  BY <1>7, <1>9 DEF Holds
<1>10. CASE cst.rel = "eq"
  <2>1. x # y /\ neg.rel = "ne"
    BY <1>5, <1>6, <1>8, <1>10
  <2> QED BY <1>1, <1>6, <1>9, <2>1
<1>11. CASE cst.rel = "ne"
  <2>1. x = y /\ neg.rel = "eq"
    BY <1>5, <1>6, <1>8, <1>11
  <2> QED BY <1>1, <1>6, <1>9, <2>1
<1>12. CASE cst.rel = "lt"
  <2>1. ~ (x < y) /\ neg.rel = "ge"
    BY <1>5, <1>6, <1>8, <1>12
  <2>2. x >= y
    BY <1>4, <2>1
  <2> QED BY <1>1, <1>6, <1>9, <2>1, <2>2
<1>13. CASE cst.rel = "ge"
  <2>1. ~ (x >= y) /\ neg.rel = "lt"
    BY <1>5, <1>6, <1>8, <1>13
  <2>2. x < y
    BY <1>4, <2>1
  <2> QED BY <1>1, <1>6, <1>9, <2>1, <2>2
<1> QED BY <1>2, <1>10, <1>11, <1>12, <1>13

-----------------------------------------------------------------------------
(* Instructions *)

LEMMA RunStatement ==
    ASSUME NEW st, NEW e
    PROVE  Run(<<st>>, {e}) = Effect(st, e)
<1>1. Run(<<st>>, {e}) = Outcomes(st, {e})
  BY RunOne
<1>2. Outcomes(st, {e}) = Effect(st, e)
  BY DEF Outcomes
<1> QED BY <1>1, <1>2

\* One instruction on both sides. What LLVM can do, CrabIR can.
LEMMA InstructionRuns ==
    ASSUME fn \in Functions, IncludeUselessHavoc, NEW i, InstructionFits(fn, i),
           NEW e \in St, NEW s \in St, Agree(s, e), NEW e2 \in Run(Meaning(fn, i), {e})
    PROVE  /\ e2 \in St
           /\ \E s2 \in Run(Translate(i), {s}) : s2 \in St /\ Agree(s2, e2)
           /\ \A c \in DOMAIN fn.cmps :
                  /\ Computes(i, c) => IsCurrent(c, e2)
                  /\ ~ Changes(fn, i, c) /\ IsCurrent(c, e) => IsCurrent(c, e2)
<1> DEFINE Cmps == DOMAIN fn.cmps
<1>1. \A x \in Known : x \in fn.vars
  BY KnownIsVar
\* what is assigned on both sides
<1>2. ASSUME NEW x \in fn.vars, NEW v \in Val, NEW c \in Cmps,
             x \notin VarsOf(fn.cmps[c].cst), x # c, IsCurrent(c, e)
      PROVE  IsCurrent(c, With(e, x, v))
  <2>1. PICK u : u = With(e, x, v)
    OBVIOUS
  <2>2. \A y \in fn.vars : y # x => u[y] = e[y]
    BY <2>1, StoreWith
  <2>3. c \in fn.vars /\ VarsOf(fn.cmps[c].cst) \subseteq fn.vars
    <3>1. /\ c \in fn.vars
          /\ OperandFits(fn, fn.cmps[c].cst.a) /\ OperandFits(fn, fn.cmps[c].cst.b)
      BY CmpFits
    <3> QED BY <1>1, <3>1, ReadsKnown DEF VarsOf
  <2>4. Holds(fn.cmps[c].cst, u) <=> Holds(fn.cmps[c].cst, e)
    BY <1>2, <2>2, <2>3, SameCmp
  <2> QED BY <1>2, <2>1, <2>2, <2>3, <2>4 DEF IsCurrent
<1>3. ASSUME NEW x \in fn.vars, NEW v \in Val
      PROVE  Agree(With(s, x, v), With(e, x, v)) /\ With(s, x, v) \in St /\ With(e, x, v) \in St
  <2>1. With(s, x, v) \in St /\ With(e, x, v) \in St
    BY StoreWith
  <2>2. ASSUME NEW y \in Known PROVE With(s, x, v)[y] = With(e, x, v)[y]
    BY <1>1, StoreWith DEF Agree
  <2> QED BY <2>1, <2>2 DEF Agree
<1>4. CASE i.op \in {"assign", "add1", "nondet"}
  <2>1. i.lhs \in fn.vars /\ i.lhs \notin Cmps /\ (i.op # "nondet" => OperandFits(fn, i.rhs))
    BY <1>4 DEF InstructionFits
  <2>2. ASSUME NEW v \in Val, e2 = With(e, i.lhs, v), With(s, i.lhs, v) \in Run(Translate(i), {s})
        PROVE  /\ e2 \in St
               /\ \E s2 \in Run(Translate(i), {s}) : s2 \in St /\ Agree(s2, e2)
               /\ \A c \in DOMAIN fn.cmps :
                      /\ Computes(i, c) => IsCurrent(c, e2)
                      /\ ~ Changes(fn, i, c) /\ IsCurrent(c, e) => IsCurrent(c, e2)
    <3>1. \A c \in Cmps : ~ Computes(i, c)
      BY <1>4 DEF Computes
    <3>2. \A c \in Cmps : ~ Changes(fn, i, c) => i.lhs \notin VarsOf(fn.cmps[c].cst)
      BY <1>4 DEF Changes
    <3>3. \A c \in Cmps : ~ Changes(fn, i, c) /\ IsCurrent(c, e) => IsCurrent(c, e2)
      BY <1>2, <2>1, <2>2, <3>2
    <3> QED BY <1>3, <2>1, <2>2, <3>1, <3>3
  <2>3. CASE i.op = "nondet"
    <3>1. Meaning(fn, i) = <<Havoc(i.lhs)>> /\ Translate(i) = <<Havoc(i.lhs)>>
      BY <2>3 DEF Meaning, Translate
    <3>2. \A u : Run(<<Havoc(i.lhs)>>, {u}) = {With(u, i.lhs, v) : v \in Val}
      <4> TAKE u
      <4>1. PICK st : st = Havoc(i.lhs)
        OBVIOUS
      <4>2. st.op = "havoc" /\ st.lhs = i.lhs
        BY <4>1 DEF Havoc
      <4>3. Effect(st, u) = {With(u, st.lhs, v) : v \in Val}
        BY <4>2 DEF Effect
      <4> QED BY <4>1, <4>2, <4>3, RunStatement
    <3>3. PICK v \in Val : e2 = With(e, i.lhs, v)
      BY <3>1, <3>2
    <3> QED BY <2>2, <3>1, <3>2, <3>3
  <2>4. CASE i.op \in {"assign", "add1"}
    <3>1. Meaning(fn, i) = <<i>> /\ Translate(i) = <<i>>
      BY <2>4 DEF Meaning, Translate
    <3>2. e2 \in Effect(i, e) /\ Run(Translate(i), {s}) = Effect(i, s)
      BY <3>1, RunStatement
    <3>3. OperandFits(fn, i.rhs)
      BY <2>1, <2>4
    <3>4. ValuesOf(i.rhs, s) = ValuesOf(i.rhs, e) /\ ValuesOf(i.rhs, e) \subseteq Val
      <4>1. \A x \in Reads(i.rhs) : s[x] = e[x]
        BY <3>3, ReadsKnown DEF Agree
      <4> QED BY <3>3, <4>1, SameOperand, OperandValues
    <3>5. CASE i.op = "assign"
      <4>1. \A u : Effect(i, u) = {With(u, i.lhs, v) : v \in ValuesOf(i.rhs, u)}
        BY <3>5 DEF Effect
      <4>2. PICK v \in ValuesOf(i.rhs, e) : e2 = With(e, i.lhs, v)
        BY <3>2, <4>1
      <4>3. v \in Val /\ With(s, i.lhs, v) \in Run(Translate(i), {s})
        BY <3>2, <3>4, <4>1
      <4> QED BY <2>2, <4>2, <4>3
    <3>6. CASE i.op = "add1"
      <4>1. \A u : Effect(i, u) = {With(u, i.lhs, v + 1) :
                                       v \in {v \in ValuesOf(i.rhs, u) : v + 1 \in Val}}
        BY <3>6 DEF Effect
      <4>2. PICK v \in ValuesOf(i.rhs, e) : v + 1 \in Val /\ e2 = With(e, i.lhs, v + 1)
        BY <3>2, <4>1
      <4>3. With(s, i.lhs, v + 1) \in Effect(i, s)
        BY <3>4, <4>1, <4>2
      <4> QED BY <2>2, <3>2, <4>2, <4>3
    <3> QED BY <2>4, <3>5, <3>6
  <2> QED BY <1>4, <2>3, <2>4
<1>5. CASE i.op = "cmp"
  <2>1. PICK c : c = i.lhs
    OBVIOUS
  <2>2. PICK cst : cst = fn.cmps[c].cst
    OBVIOUS
  <2>3. c \in Cmps /\ c \in fn.vars /\ c \notin VarsOf(cst)
    BY <1>5, <2>1, <2>2, CmpFits DEF InstructionFits
  <2>4. \A x \in VarsOf(cst) : x \in Known
    BY <2>2, <2>3, CmpFits, ReadsKnown DEF VarsOf
  <2>5. PICK v \in {0, 1} : v = IF Holds(cst, e) THEN 1 ELSE 0
    OBVIOUS
  <2>6. v \in Val
    BY ZeroOne
  <2>7. \A u : Run(<<BoolAssign(c, cst)>>, {u}) = {With(u, c, IF Holds(cst, u) THEN 1 ELSE 0)}
    BY RunStatement DEF Effect, BoolAssign
  <2>8. e2 = With(e, c, v) /\ e2 \in St
    <3>1. Meaning(fn, i) = <<BoolAssign(c, cst)>>
      BY <1>5, <2>1, <2>2 DEF Meaning
    <3> QED BY <2>3, <2>5, <2>6, <2>7, <3>1, StoreWith
  <2>9. ASSUME NEW k \in Cmps
        PROVE  /\ Computes(i, k) => IsCurrent(k, e2)
               /\ ~ Changes(fn, i, k) /\ IsCurrent(k, e) => IsCurrent(k, e2)
    <3>1. IsCurrent(c, e2)
      <4>1. \A x \in VarsOf(cst) : e2[x] = e[x]
        BY <2>3, <2>4, <2>6, <2>8, KnownIsVar, StoreWith
      <4>2. Holds(cst, e2) <=> Holds(cst, e)
        BY <2>2, <2>3, <4>1, SameCmp
      <4>3. e2[c] = v
        BY <2>3, <2>6, <2>8, StoreWith
      <4> QED BY <2>2, <2>5, <4>2, <4>3 DEF IsCurrent
    <3>2. CASE k = c
      BY <3>1, <3>2
    <3>3. CASE k # c
      <4>1. ~ Computes(i, k)
        BY <2>1, <3>3 DEF Computes
      <4>2. ~ Changes(fn, i, k) => c \notin VarsOf(fn.cmps[k].cst)
        BY <1>5, <2>1 DEF Changes
      <4> QED BY <1>2, <2>3, <2>6, <2>8, <3>3, <4>1, <4>2
    <3> QED BY <3>2, <3>3
  <2>10. \E s2 \in Run(Translate(i), {s}) : s2 \in St /\ Agree(s2, e2)
    <3>1. CASE Materialised(c)
      <4>1. Translate(i) = <<BoolAssign(c, cst)>>
        BY <1>5, <2>1, <2>2, <3>1 DEF Translate
      <4>2. Holds(cst, s) <=> Holds(cst, e)
        BY <2>2, <2>3, <2>4, SameCmp DEF Agree
      <4>3. With(s, c, v) \in Run(Translate(i), {s})
        BY <2>5, <2>7, <4>1, <4>2
      <4> QED BY <1>3, <2>3, <2>6, <2>8, <4>3
    <3>2. CASE ~ Materialised(c)
      <4>1. Translate(i) = <<>>
        BY <1>5, <2>1, <3>2 DEF Translate
      <4>2. c \notin Known
        BY <2>3, <3>2 DEF Known, KnownIn, Materialised
      <4>3. Agree(s, e2)
        BY <1>1, <2>3, <2>6, <2>8, <4>2, StoreWith DEF Agree
      <4>4. s \in Run(Translate(i), {s})
        BY <4>1, RunEmpty
      <4> QED BY <4>3, <4>4
    <3> QED BY <3>1, <3>2
  <2> QED BY <2>8, <2>9, <2>10
<1>6. CASE i.op = "fail"
  <2>1. Meaning(fn, i) = <<>> /\ Translate(i) = <<>>
    BY <1>6 DEF Meaning, Translate
  <2>2. e2 = e /\ s \in Run(Translate(i), {s})
    BY <2>1, RunEmpty
  <2>3. \A c : ~ Computes(i, c)
    BY <1>6 DEF Computes
  <2> QED BY <2>2, <2>3
<1> QED BY <1>4, <1>5, <1>6 DEF InstructionFits

-----------------------------------------------------------------------------
(* Blocks *)

\* After k instructions of b, c was computed last, or was current before
\* them, and none of its operands has been assigned since.
CurrentAfter(c, b, k, before) ==
    \E j \in 0..k :
        /\ IF j = 0 THEN before ELSE Computes(fn.body[b][j], c)
        /\ \A i \in (j + 1)..k : ~ Changes(fn, fn.body[b][i], c)

\* The code f[k] of k instructions, from s, keeps up with g[k] from e.
KeepsUp(b, f, g, k, s, e) ==
    \A m \in Run(g[k], {e}) :
        /\ m \in St
        /\ \E t \in Run(f[k], {s}) : t \in St /\ Agree(t, m)
        /\ \A c \in DOMAIN fn.cmps : CurrentAfter(c, b, k, IsCurrent(c, e)) => IsCurrent(c, m)

LEMMA OneMore ==
    ASSUME NEW T, NEW ss \in Seq(Seq(T)), NEW f, Flattens(f, T, ss), NEW k \in 1..Len(ss)
    PROVE  f[k - 1] \in Seq(T) /\ ss[k] \in Seq(T) /\ f[k] = f[k - 1] \o ss[k]
<1>1. PICK U : U = Seq(T)
  OBVIOUS
<1>2. k - 1 \in 0..Len(ss) /\ ss[k] \in U
  BY <1>1
<1> QED BY <1>1, <1>2 DEF Flattens

LEMMA BodyStep ==
    ASSUME fn \in Functions, IncludeUselessHavoc, NEW b \in Blocks, NEW e \in St, NEW s \in St,
           NEW f, Flattens(f, StatementsOf(b), Translated(b)),
           NEW g, Flattens(g, StatementsOf(b), Meanings(b)),
           NEW k \in 1..Len(fn.body[b]), KeepsUp(b, f, g, k - 1, s, e)
    PROVE  KeepsUp(b, f, g, k, s, e)
<1> SUFFICES ASSUME NEW m2 \in Run(g[k], {e})
             PROVE  /\ m2 \in St
                    /\ \E t \in Run(f[k], {s}) : t \in St /\ Agree(t, m2)
                    /\ \A c \in DOMAIN fn.cmps :
                           CurrentAfter(c, b, k, IsCurrent(c, e)) => IsCurrent(c, m2)
  BY DEF KeepsUp
<1>1. PICK i : i = fn.body[b][k]
  OBVIOUS
<1>2. k \in DOMAIN fn.body[b] /\ InstructionFits(fn, i)
  BY <1>1, BlockFits
<1>3. /\ Translated(b)[k] = Translate(i) /\ Meanings(b)[k] = Meaning(fn, i)
      /\ Translated(b) \in Seq(Seq(StatementsOf(b))) /\ Meanings(b) \in Seq(Seq(StatementsOf(b)))
      /\ k \in 1..Len(Translated(b)) /\ k \in 1..Len(Meanings(b))
  BY <1>1, <1>2, TranslatedType DEF Translated, Meanings
<1>4. /\ f[k - 1] \in Seq(StatementsOf(b)) /\ Translate(i) \in Seq(StatementsOf(b))
      /\ f[k] = f[k - 1] \o Translate(i)
  <2>1. PICK T : T = StatementsOf(b)
    OBVIOUS
  <2>2. PICK ss \in Seq(Seq(T)) : ss = Translated(b)
    BY <1>3, <2>1
  <2>3. Flattens(f, T, ss) /\ k \in 1..Len(ss) /\ ss[k] = Translate(i)
    BY <1>3, <2>1, <2>2
  <2>4. f[k - 1] \in Seq(T) /\ ss[k] \in Seq(T) /\ f[k] = f[k - 1] \o ss[k]
    BY <2>3, OneMore
  <2> QED BY <2>1, <2>3, <2>4
<1>5. /\ Meaning(fn, i) \in Seq(StatementsOf(b))
      /\ Run(g[k], {e}) = Run(Meaning(fn, i), Run(g[k - 1], {e}))
  <2>1. PICK T : T = StatementsOf(b)
    OBVIOUS
  <2>2. PICK ss \in Seq(Seq(T)) : ss = Meanings(b)
    BY <1>3, <2>1
  <2>3. Flattens(g, T, ss) /\ k \in 1..Len(ss) /\ ss[k] = Meaning(fn, i)
    BY <1>3, <2>1, <2>2
  <2>4. PICK E : E = {e}
    OBVIOUS
  <2>5. g[k - 1] \in Seq(T) /\ ss[k] \in Seq(T) /\ g[k] = g[k - 1] \o ss[k]
    BY <2>3, OneMore
  <2>6. Run(g[k], E) = Run(ss[k], Run(g[k - 1], E))
    BY <2>5, RunConcat
  <2> QED BY <2>1, <2>3, <2>4, <2>5, <2>6
<1>6. PICK m \in Run(g[k - 1], {e}) : m2 \in Run(Meaning(fn, i), {m})
  <2>1. Len(Meaning(fn, i)) \in Nat
    BY <1>5
  <2> QED BY <1>5, <2>1, RunPointwise
<1>7. /\ m \in St
      /\ \E t \in Run(f[k - 1], {s}) : t \in St /\ Agree(t, m)
      /\ \A c \in DOMAIN fn.cmps : CurrentAfter(c, b, k - 1, IsCurrent(c, e)) => IsCurrent(c, m)
  BY DEF KeepsUp
<1>8. PICK t \in Run(f[k - 1], {s}) : t \in St /\ Agree(t, m)
  BY <1>7
<1>9. /\ m2 \in St
      /\ \E u \in Run(Translate(i), {t}) : u \in St /\ Agree(u, m2)
      /\ \A c \in DOMAIN fn.cmps :
             /\ Computes(i, c) => IsCurrent(c, m2)
             /\ ~ Changes(fn, i, c) /\ IsCurrent(c, m) => IsCurrent(c, m2)
  BY <1>2, <1>6, <1>7, <1>8, InstructionRuns
<1>10. PICK u \in Run(Translate(i), {t}) : u \in St /\ Agree(u, m2)
  BY <1>9
<1>11. u \in Run(f[k], {s})
  <2>1. PICK c1 \in Seq(StatementsOf(b)) : c1 = f[k - 1]
    BY <1>4
  <2>2. PICK c2 \in Seq(StatementsOf(b)) : c2 = Translate(i)
    BY <1>4
  <2>3. PICK T : T = StatementsOf(b)
    OBVIOUS
  <2>4. c1 \in Seq(T) /\ c2 \in Seq(T) /\ t \in Run(c1, {s}) /\ u \in Run(c2, {t})
    BY <1>8, <1>10, <2>1, <2>2, <2>3
  <2>5. u \in Run(c1 \o c2, {s})
    BY <2>4, RunInto
  <2> QED BY <1>4, <2>1, <2>2, <2>5
<1>12. ASSUME NEW c \in DOMAIN fn.cmps, CurrentAfter(c, b, k, IsCurrent(c, e))
       PROVE  IsCurrent(c, m2)
  <2>1. PICK j \in 0..k :
            /\ IF j = 0 THEN IsCurrent(c, e) ELSE Computes(fn.body[b][j], c)
            /\ \A l \in (j + 1)..k : ~ Changes(fn, fn.body[b][l], c)
    BY <1>12 DEF CurrentAfter
  <2>2. CASE j = k
    <3>1. Computes(i, c)
      BY <1>1, <2>1, <2>2
    <3> QED BY <1>9, <3>1
  <2>3. CASE j # k
    <3>1. j \in 0..(k - 1) /\ k \in (j + 1)..k /\ (j + 1)..(k - 1) \subseteq (j + 1)..k
      BY <2>3
    <3>2. CurrentAfter(c, b, k - 1, IsCurrent(c, e))
      BY <2>1, <3>1 DEF CurrentAfter
    <3>3. ~ Changes(fn, i, c)
      BY <1>1, <2>1, <3>1
    <3> QED BY <1>7, <1>9, <3>2, <3>3
  <2> QED BY <2>2, <2>3
<1> QED BY <1>9, <1>10, <1>11, <1>12

\* The instructions of a block: what LLVM can do, CrabIR can.
LEMMA BodyRuns ==
    ASSUME fn \in Functions, IncludeUselessHavoc, NEW b \in Blocks, NEW e \in St,
           NEW s \in St, Agree(s, e), NEW m \in RunBody(fn, b, e)
    PROVE  /\ m \in St
           /\ \E t \in Run(FlattenSeq(Translated(b)), {s}) : t \in St /\ Agree(t, m)
           /\ \A c \in DOMAIN fn.cmps, A \in SUBSET Blocks :
                  CurrentAtEnd(fn, c, A, b) /\ (b \in A => IsCurrent(c, e)) => IsCurrent(c, m)
<1>1. PICK n \in Nat : n = Len(fn.body[b])
  BY BlockFits
<1>2. /\ Translated(b) \in Seq(Seq(StatementsOf(b))) /\ Meanings(b) \in Seq(Seq(StatementsOf(b)))
      /\ Len(Translated(b)) = n /\ Len(Meanings(b)) = n
  BY <1>1, TranslatedType
<1>3. PICK f : Flattens(f, StatementsOf(b), Translated(b)) /\ FlattenSeq(Translated(b)) = f[n]
  BY <1>2, FlattenSteps
<1>4. PICK g : Flattens(g, StatementsOf(b), Meanings(b)) /\ FlattenSeq(Meanings(b)) = g[n]
  BY <1>2, FlattenSteps
<1>5. RunBody(fn, b, e) = Run(g[n], {e})
  BY <1>4 DEF RunBody, Meanings
<1> DEFINE P == {k \in 0..n : KeepsUp(b, f, g, k, s, e)}
<1>6. KeepsUp(b, f, g, 0, s, e)
  <2>1. f[0] = <<>> /\ g[0] = <<>>
    BY <1>3, <1>4 DEF Flattens
  <2>2. Run(g[0], {e}) = {e} /\ Run(f[0], {s}) = {s}
    BY <2>1, RunEmpty
  <2>3. ASSUME NEW c, CurrentAfter(c, b, 0, IsCurrent(c, e)) PROVE IsCurrent(c, e)
    BY <2>3 DEF CurrentAfter
  <2> QED BY <2>2, <2>3 DEF KeepsUp
<1>7. 0 \in P
  BY <1>6
<1>8. ASSUME NEW k \in 1..n, k - 1 \in P PROVE k \in P
  <2>1. KeepsUp(b, f, g, k - 1, s, e)
    BY <1>8
  <2>2. KeepsUp(b, f, g, k, s, e)
    BY <1>1, <1>3, <1>4, <2>1, BodyStep
  <2> QED BY <2>2
<1> HIDE DEF P
<1>9. \A k \in 0..n : k \in P
  BY <1>7, <1>8, UpTo
<1>10. KeepsUp(b, f, g, n, s, e)
  BY <1>9 DEF P
<1>11. ASSUME NEW c \in DOMAIN fn.cmps, NEW A \in SUBSET Blocks, CurrentAtEnd(fn, c, A, b),
              b \in A => IsCurrent(c, e)
       PROVE  IsCurrent(c, m)
  <2>1. CurrentAfter(c, b, n, IsCurrent(c, e))
    BY <1>1, <1>11 DEF CurrentAtEnd, CurrentAfter
  <2> QED BY <1>5, <1>10, <2>1 DEF KeepsUp
<1>12. /\ m \in St
       /\ \E t \in Run(f[n], {s}) : t \in St /\ Agree(t, m)
  BY <1>5, <1>10 DEF KeepsUp
<1> QED BY <1>3, <1>11, <1>12

-----------------------------------------------------------------------------
(* Phi nodes *)

\* The parts of PhiCode.
Operand(b, d, k) == fn.phis[d][k].inc[b]
PhiOperands(d) == {V(fn.phis[d][k].lhs) : k \in DOMAIN fn.phis[d]}
ToSave(b, d) ==
    {k \in DOMAIN fn.phis[d] :
        /\ Operand(b, d, k) \in PhiOperands(d)
        /\ \A j \in 1..(k - 1) : Operand(b, d, j) # Operand(b, d, k)}
Copied(b, d, k) == OldCopy(Operand(b, d, k)[2])
ReadBy(b, d, k) ==
    IF Operand(b, d, k) \in PhiOperands(d) THEN V(Copied(b, d, k)) ELSE Operand(b, d, k)
SaveCode(b, d) ==
    LET order == InOrder(ToSave(b, d))
    IN  [k \in DOMAIN order |-> Assign(Copied(b, d, order[k]), Operand(b, d, order[k]))]
AssignCode(b, d) ==
    [k \in DOMAIN fn.phis[d] |-> Assign(fn.phis[d][k].lhs, ReadBy(b, d, k))]

LEMMA PhiCodeParts == \A b, d : PhiCode(b, d) = SaveCode(b, d) \o AssignCode(b, d)
BY DEF PhiCode, SaveCode, AssignCode, ToSave, PhiOperands, Operand, Copied, ReadBy

LEMMA PhisFit ==
    ASSUME fn \in Functions, NEW b \in Blocks, NEW d \in ToSet(SuccsOf(b))
    PROVE  /\ d \in Blocks /\ Len(fn.phis[d]) \in Nat
           /\ DOMAIN fn.phis[d] = 1..Len(fn.phis[d])
           /\ \A k \in DOMAIN fn.phis[d] :
                  /\ fn.phis[d][k].lhs \in fn.vars /\ fn.phis[d][k].lhs \in Known
                  /\ OperandFits(fn, Operand(b, d, k))
           /\ \A k, l \in DOMAIN fn.phis[d] : fn.phis[d][k].lhs = fn.phis[d][l].lhs => k = l
<1>1. d \in Blocks
  BY TermType
<1>2. Len(fn.phis[d]) \in Nat /\ DOMAIN fn.phis[d] = 1..Len(fn.phis[d])
  BY <1>1, BlockFits
<1>3. b \in {x \in Blocks : d \in ToSet(fn.term[x].succs)}
  BY DEF SuccsOf
<1>4. Typed(fn)
  BY SimulationAssumption
<1>5. ASSUME NEW k \in DOMAIN fn.phis[d]
      PROVE  PhiFits(fn, fn.phis[d][k], {x \in Blocks : d \in ToSet(fn.term[x].succs)})
  BY <1>1, <1>4 DEF Typed, Blocks
<1>6. \A k \in DOMAIN fn.phis[d] :
          /\ fn.phis[d][k].lhs \in fn.vars \ DOMAIN fn.cmps
          /\ OperandFits(fn, Operand(b, d, k))
  BY <1>3, <1>5 DEF PhiFits, Operand
<1>7. \A k, l \in DOMAIN fn.phis[d] : fn.phis[d][k].lhs = fn.phis[d][l].lhs => k = l
  BY <1>1, <1>4 DEF Typed, Blocks
<1> QED BY <1>1, <1>2, <1>6, <1>7 DEF Known, KnownIn

LEMMA OldCopyFacts ==
    ASSUME fn \in Functions
    PROVE  /\ \A x \in fn.vars : OldCopy(x) \notin fn.vars
           /\ \A x, y \in fn.vars : OldCopy(x) = OldCopy(y) => x = y
<1>1. \A x \in fn.vars : x \in Seq(ToSet(x)) /\ OldCopy(x) \notin fn.vars
  BY SimulationAssumption DEF Typed
<1>2. ASSUME NEW x \in fn.vars, NEW y \in fn.vars, OldCopy(x) = OldCopy(y) PROVE x = y
  <2>1. PICK S : S = ToSet(x) \cup ToSet(y) \cup {"old"}
    OBVIOUS
  <2>2. x \in Seq(S) /\ y \in Seq(S) /\ "old" \in S
    BY <1>1, <2>1, SeqMonotone
  <2>3. Append(x, "old") = Append(y, "old")
    BY <1>2 DEF OldCopy
  <2>4. Len(x) = Len(y)
    <3>1. Len(Append(x, "old")) = Len(x) + 1 /\ Len(Append(y, "old")) = Len(y) + 1
      BY <2>2
    <3>2. Len(x) \in Nat /\ Len(y) \in Nat
      BY <2>2
    <3> QED BY <2>3, <3>1, <3>2
  <2>5. \A k \in 1..Len(x) : x[k] = y[k]
    <3> TAKE k \in 1..Len(x)
    <3>1. Append(x, "old")[k] = x[k]
      BY <2>2
    <3>2. Append(y, "old")[k] = y[k]
      BY <2>2, <2>4
    <3> QED BY <2>3, <3>1, <3>2
  <2>6. PICK n \in Nat : n = Len(x) /\ n = Len(y)
    BY <2>2, <2>4
  <2>7. x \in [1..n -> S] /\ y \in [1..n -> S]
    <3>1. x \in [1..Len(x) -> S] /\ y \in [1..Len(y) -> S]
      BY <2>2
    <3> QED BY <2>6, <3>1
  <2>8. \A k \in 1..n : x[k] = y[k]
    BY <2>5, <2>6
  <2> QED BY <2>7, <2>8
<1> QED BY <1>1, <1>2

\* A phi node that is an operand is copied by the first loop.
LEMMA SavedOperand ==
    ASSUME fn \in Functions, NEW b \in Blocks, NEW d \in ToSet(SuccsOf(b)),
           NEW k \in DOMAIN fn.phis[d], Operand(b, d, k) \in PhiOperands(d)
    PROVE  \E j \in ToSave(b, d) : Operand(b, d, j) = Operand(b, d, k)
<1>1. PICK n \in Nat : DOMAIN fn.phis[d] = 1..n
  BY PhisFit
<1> DEFINE Same == {j \in DOMAIN fn.phis[d] : Operand(b, d, j) = Operand(b, d, k)}
<1>2. Same \subseteq Nat /\ Same # {}
  BY <1>1
<1>3. PICK j \in Same : \A l \in Same : j <= l
  <2> HIDE DEF Same
  <2> QED BY <1>2, Smallest
<1>4. \A l \in 1..(j - 1) : Operand(b, d, l) # Operand(b, d, j)
  <2> TAKE l \in 1..(j - 1)
  <2>1. j \in 1..n /\ Operand(b, d, j) = Operand(b, d, k)
    BY <1>1
  <2>2. ~ (j <= l) /\ l \in DOMAIN fn.phis[d]
    BY <1>1, <2>1
  <2>3. l \notin Same
    BY <1>3, <2>2
  <2> QED BY <2>1, <2>2, <2>3
<1> QED BY <1>4 DEF ToSave

\* What the first loop leaves in store w, started in store t.
HasCopies(w, t, ks, b, d) ==
    /\ fn.vars \subseteq DOMAIN w /\ \A x \in fn.vars : w[x] = t[x]
    /\ \A k \in ks : /\ Copied(b, d, k) \in DOMAIN w
                     /\ w[Copied(b, d, k)] = t[Operand(b, d, k)[2]]

LEMMA SavedIsVar ==
    ASSUME fn \in Functions, NEW b \in Blocks, NEW d \in ToSet(SuccsOf(b)),
           NEW k \in DOMAIN fn.phis[d], Operand(b, d, k) \in PhiOperands(d)
    PROVE  LET y == Operand(b, d, k)[2] IN y \in fn.vars /\ Operand(b, d, k) = V(y)
<1>1. PICK l \in DOMAIN fn.phis[d] : Operand(b, d, k) = V(fn.phis[d][l].lhs)
  BY DEF PhiOperands
<1>2. fn.phis[d][l].lhs \in fn.vars
  BY PhisFit
<1> QED BY <1>1, <1>2 DEF V

LEMMA AssignEffect ==
    ASSUME NEW x, NEW a, NEW w
    PROVE  Effect(Assign(x, a), w) = {With(w, x, v) : v \in ValuesOf(a, w)}
<1>1. PICK st : st = Assign(x, a)
  OBVIOUS
<1>2. st.op = "assign" /\ st.lhs = x /\ st.rhs = a
  BY <1>1 DEF Assign
<1>3. Effect(st, w) = {With(w, st.lhs, v) : v \in ValuesOf(st.rhs, w)}
  BY <1>2 DEF Effect
<1> QED BY <1>1, <1>2, <1>3

LEMMA ValueOfVar == \A y, w : ValuesOf(V(y), w) = {w[y]}
BY DEF ValuesOf, V

LEMMA SaveRuns ==
    ASSUME fn \in Functions, NEW b \in Blocks, NEW d \in ToSet(SuccsOf(b)), NEW t \in St
    PROVE  /\ SaveCode(b, d) \in Seq(ToSet(SaveCode(b, d)))
           /\ \E w \in Run(SaveCode(b, d), {t}) : HasCopies(w, t, ToSave(b, d), b, d)
<1>1. PICK ts : ts = ToSave(b, d)
  OBVIOUS
<1>2. ts \subseteq DOMAIN fn.phis[d] /\ IsFiniteSet(ts) /\ ts \subseteq Int
  <2>1. PICK n \in Nat : DOMAIN fn.phis[d] = 1..n
    BY PhisFit
  <2>2. ts \in SUBSET (1..n)
    BY <1>1, <2>1 DEF ToSave
  <2>3. IsFiniteSet(ts)
    <3>1. IsFiniteSet(1..n)
      BY FS_Interval
    <3> QED BY <2>2, <3>1, FS_Subset
  <2> QED BY <2>1, <2>2, <2>3
<1>3. PICK q \in Nat : InOrder(ts) \in [1..q -> ts] /\ \A m \in ts : \E k \in 1..q : InOrder(ts)[k] = m
  BY <1>2, InOrderProperties
<1>4. PICK o : o = InOrder(ts)
  OBVIOUS
<1>5. PICK c : c = SaveCode(b, d)
  OBVIOUS
<1>6. c = [k \in 1..q |-> Assign(Copied(b, d, o[k]), Operand(b, d, o[k]))]
  BY <1>1, <1>3, <1>4, <1>5 DEF SaveCode
<1>7. c \in Seq(ToSet(c)) /\ Len(c) = q /\ DOMAIN c = 1..q
  <2>1. DOMAIN c = 1..q /\ c = [k \in 1..q |-> c[k]]
    BY <1>6
  <2>2. \A k \in 1..q : c[k] \in ToSet(c)
    BY <2>1 DEF ToSet
  <2>3. c \in [1..q -> ToSet(c)]
    BY <2>1, <2>2
  <2> QED BY <2>3, FunctionIsSeq
<1>8. PICK f : Traces(f, c, {t}) /\ Run(c, {t}) = f[q]
  BY <1>7, RunTraces
<1> DEFINE Done(k) == {o[j] : j \in 1..k}
           P == {k \in 0..q : \E w \in f[k] : HasCopies(w, t, Done(k), b, d)}
<1>9. 0 \in P
  <2>1. t \in f[0] /\ HasCopies(t, t, Done(0), b, d)
    BY <1>8 DEF Traces, HasCopies, St
  <2> QED BY <2>1
<1>10. ASSUME NEW k \in 1..q, k - 1 \in P PROVE k \in P
  <2>1. PICK w \in f[k - 1] : HasCopies(w, t, Done(k - 1), b, d)
    BY <1>10
  <2>2. o[k] \in ts
    BY <1>3, <1>4
  <2>3. PICK y : y = Operand(b, d, o[k])[2]
    OBVIOUS
  <2>4. y \in fn.vars /\ Operand(b, d, o[k]) = V(y) /\ Copied(b, d, o[k]) = OldCopy(y)
    BY <1>1, <1>2, <2>2, <2>3, SavedIsVar DEF ToSave, Copied
  <2>5. PICK u : u = With(w, OldCopy(y), w[y])
    OBVIOUS
  <2>6. u \in f[k]
    <3>1. f[k] = Outcomes(c[k], f[k - 1])
      BY <1>7, <1>8 DEF Traces
    <3>2. c[k] = Assign(OldCopy(y), V(y))
      BY <1>6, <2>4
    <3>3. u \in Effect(c[k], w)
      BY <2>5, <3>2, AssignEffect, ValueOfVar
    <3> QED BY <2>1, <3>1, <3>3 DEF Outcomes
  <2>7. /\ DOMAIN u = DOMAIN w \cup {OldCopy(y)} /\ u[OldCopy(y)] = w[y]
        /\ \A x \in DOMAIN w : x # OldCopy(y) => u[x] = w[x]
    BY <2>5 DEF With
  <2>8. w[y] = t[y] /\ fn.vars \subseteq DOMAIN w /\ \A x \in fn.vars : w[x] = t[x]
    BY <2>1, <2>4 DEF HasCopies
  <2>9. \A x \in fn.vars : x # OldCopy(y)
    BY <2>4, OldCopyFacts
  <2>10. ASSUME NEW j \in 1..k
         PROVE  /\ Copied(b, d, o[j]) \in DOMAIN u
                /\ u[Copied(b, d, o[j])] = t[Operand(b, d, o[j])[2]]
    <3>1. CASE j = k
      BY <2>3, <2>4, <2>7, <2>8, <3>1
    <3>2. CASE j # k
      <4>1. j \in 1..(k - 1) /\ j \in 1..q
        BY <3>2
      <4>2. o[j] \in Done(k - 1) /\ o[j] \in ts
        BY <1>3, <1>4, <4>1
      <4>3. PICK z : z = Operand(b, d, o[j])[2]
        OBVIOUS
      <4>4. z \in fn.vars /\ Copied(b, d, o[j]) = OldCopy(z)
        BY <1>1, <1>2, <4>2, <4>3, SavedIsVar DEF ToSave, Copied
      <4>5. OldCopy(z) \in DOMAIN w /\ w[OldCopy(z)] = t[z]
        BY <2>1, <4>2, <4>3, <4>4 DEF HasCopies
      <4>6. OldCopy(z) = OldCopy(y) => z = y
        BY <2>4, <4>4, OldCopyFacts
      <4> QED BY <2>7, <2>8, <4>3, <4>4, <4>5, <4>6
    <3> QED BY <3>1, <3>2
  <2>11. HasCopies(u, t, Done(k), b, d)
    BY <2>7, <2>8, <2>9, <2>10 DEF HasCopies
  <2>12. k \in 0..q
    OBVIOUS
  <2> HIDE DEF Done
  <2> QED BY <2>6, <2>11, <2>12
<1> HIDE DEF P
<1>11. \A k \in 0..q : k \in P
  BY <1>9, <1>10, UpTo
<1>12. Done(q) = ts
  BY <1>3, <1>4
<1> HIDE DEF Done
<1>13. PICK w \in f[q] : HasCopies(w, t, Done(q), b, d)
  <2>1. q \in P
    BY <1>11
  <2> QED BY <2>1 DEF P
<1> QED BY <1>1, <1>5, <1>7, <1>8, <1>12, <1>13

LEMMA EnterBlockValues ==
    ASSUME fn \in Functions, NEW b \in Blocks, NEW d \in ToSet(SuccsOf(b)), NEW m,
           NEW e2 \in EnterBlock(fn, b, d, m)
    PROVE  /\ e2 \in St
           /\ \A k \in DOMAIN fn.phis[d] :
                  e2[fn.phis[d][k].lhs] \in ValuesOf(Operand(b, d, k), m)
           /\ \A x \in fn.vars :
                  (\A k \in DOMAIN fn.phis[d] : fn.phis[d][k].lhs # x) => e2[x] = m[x]
<1>1. PICK phis : phis = fn.phis[d]
  OBVIOUS
<1> DEFINE PhiAt(x) == CHOOSE k \in DOMAIN phis : phis[k].lhs = x
           Lhs == {phis[k].lhs : k \in DOMAIN phis}
<1>2. /\ e2 \in St
      /\ \A x \in Lhs : e2[x] \in ValuesOf(phis[PhiAt(x)].inc[b], m)
      /\ \A x \in fn.vars \ Lhs : e2[x] = m[x]
  BY <1>1 DEF EnterBlock, St
<1>3. ASSUME NEW k \in DOMAIN phis PROVE PhiAt(phis[k].lhs) = k
  <2>1. \A l \in DOMAIN phis : phis[l].lhs = phis[k].lhs => l = k
    BY <1>1, <1>3, PhisFit
  <2> QED BY <2>1
<1>4. ASSUME NEW k \in DOMAIN phis PROVE e2[phis[k].lhs] \in ValuesOf(Operand(b, d, k), m)
  <2>1. PICK x : x = phis[k].lhs
    OBVIOUS
  <2>2. x \in Lhs /\ PhiAt(x) = k
    BY <1>3, <2>1
  <2>3. Operand(b, d, k) = phis[k].inc[b]
    BY <1>1 DEF Operand
  <2> HIDE DEF PhiAt, Lhs
  <2>4. e2[x] \in ValuesOf(phis[PhiAt(x)].inc[b], m)
    BY <1>2, <2>2
  <2> QED BY <2>1, <2>2, <2>3, <2>4
<1> QED BY <1>1, <1>2, <1>4

\* What the second loop has done after k phi nodes.
HasAssigned(u, t, e2, k, b, d) ==
    /\ fn.vars \subseteq DOMAIN u
    /\ \A x \in fn.vars :
           u[x] = IF \E j \in 1..k : fn.phis[d][j].lhs = x THEN e2[x] ELSE t[x]
    /\ \A j \in ToSave(b, d) : /\ Copied(b, d, j) \in DOMAIN u
                               /\ u[Copied(b, d, j)] = t[Operand(b, d, j)[2]]

LEMMA ReadByValues ==
    ASSUME fn \in Functions, NEW b \in Blocks, NEW d \in ToSet(SuccsOf(b)), NEW t \in St,
           NEW k \in DOMAIN fn.phis[d], NEW e2, NEW j, NEW u, HasAssigned(u, t, e2, j, b, d),
           j + 1 = k, j \in Nat
    PROVE  ValuesOf(ReadBy(b, d, k), u) = ValuesOf(Operand(b, d, k), t)
<1>1. PICK a : a = Operand(b, d, k)
  OBVIOUS
<1>2. CASE a \in PhiOperands(d)
  <2>1. PICK l \in ToSave(b, d) : Operand(b, d, l) = a
    BY <1>1, <1>2, SavedOperand
  <2>2. PICK y : y = a[2] /\ a = V(y)
    BY <1>1, <1>2, SavedIsVar
  <2>3. Copied(b, d, l) = Copied(b, d, k)
    BY <1>1, <2>1 DEF Copied
  <2>4. u[Copied(b, d, k)] = t[y]
    BY <2>1, <2>2, <2>3 DEF HasAssigned
  <2>5. ReadBy(b, d, k) = V(Copied(b, d, k))
    BY <1>1, <1>2 DEF ReadBy
  <2>6. ValuesOf(V(Copied(b, d, k)), u) = {t[y]}
    BY <2>4, ValueOfVar
  <2>7. ValuesOf(V(y), t) = {t[y]}
    BY ValueOfVar
  <2> QED BY <1>1, <2>2, <2>5, <2>6, <2>7
<1>3. CASE a \notin PhiOperands(d)
  <2>1. ReadBy(b, d, k) = a
    BY <1>1, <1>3 DEF ReadBy
  <2>2. OperandFits(fn, a)
    BY <1>1, PhisFit
  <2>3. ASSUME NEW x \in Reads(a) PROVE u[x] = t[x]
    <3>1. x \in Known /\ x \in fn.vars /\ a = V(x)
      BY <2>2, <2>3, KnownIsVar, ReadsKnown DEF OperandFits, Reads, Undef, K, V
    <3>2. 1..j \subseteq DOMAIN fn.phis[d]
      BY PhisFit
    <3>3. \A l \in 1..j : fn.phis[d][l].lhs # x
      BY <1>3, <3>1, <3>2 DEF PhiOperands
    <3> QED BY <3>1, <3>3 DEF HasAssigned
  <2>4. ValuesOf(a, u) = ValuesOf(a, t)
    BY <2>2, <2>3, SameOperand
  <2> QED BY <1>1, <2>1, <2>4
<1> QED BY <1>2, <1>3

LEMMA AssignRuns ==
    ASSUME fn \in Functions, NEW b \in Blocks, NEW d \in ToSet(SuccsOf(b)), NEW t \in St,
           NEW m, Agree(t, m), NEW e2 \in EnterBlock(fn, b, d, m),
           NEW w, HasCopies(w, t, ToSave(b, d), b, d)
    PROVE  /\ AssignCode(b, d) \in Seq(ToSet(AssignCode(b, d)))
           /\ \E u \in Run(AssignCode(b, d), {w}) :
                  HasAssigned(u, t, e2, Len(fn.phis[d]), b, d)
<1>1. PICK n \in Nat : n = Len(fn.phis[d]) /\ DOMAIN fn.phis[d] = 1..n
  BY PhisFit
<1>2. PICK c : c = AssignCode(b, d)
  OBVIOUS
<1>3. c = [k \in 1..n |-> Assign(fn.phis[d][k].lhs, ReadBy(b, d, k))]
  BY <1>1, <1>2 DEF AssignCode
<1>4. c \in Seq(ToSet(c)) /\ Len(c) = n /\ DOMAIN c = 1..n
  <2>1. DOMAIN c = 1..n /\ c = [k \in 1..n |-> c[k]]
    BY <1>3
  <2>2. \A k \in 1..n : c[k] \in ToSet(c)
    BY <2>1 DEF ToSet
  <2>3. c \in [1..n -> ToSet(c)]
    BY <2>1, <2>2
  <2> QED BY <2>3, FunctionIsSeq
<1>5. PICK f : Traces(f, c, {w}) /\ Run(c, {w}) = f[n]
  BY <1>4, RunTraces
<1> DEFINE P == {k \in 0..n : \E u \in f[k] : HasAssigned(u, t, e2, k, b, d)}
<1>6. 0 \in P
  <2>1. w \in f[0] /\ HasAssigned(w, t, e2, 0, b, d)
    BY <1>5 DEF Traces, HasCopies, HasAssigned
  <2> QED BY <2>1
<1>7. ASSUME NEW k \in 1..n, k - 1 \in P PROVE k \in P
  <2>1. PICK u \in f[k - 1] : HasAssigned(u, t, e2, k - 1, b, d)
    BY <1>7
  <2>2. PICK x : x = fn.phis[d][k].lhs
    OBVIOUS
  <2>3. PICK v : v = e2[x]
    OBVIOUS
  <2>4. PICK u2 : u2 = With(u, x, v)
    OBVIOUS
  <2>5. k \in DOMAIN fn.phis[d] /\ x \in fn.vars
    BY <1>1, <2>2, PhisFit
  <2>6. v \in ValuesOf(ReadBy(b, d, k), u)
    <3>1. v \in ValuesOf(Operand(b, d, k), m)
      BY <2>2, <2>3, <2>5, EnterBlockValues
    <3>2. ValuesOf(Operand(b, d, k), m) = ValuesOf(Operand(b, d, k), t)
      <4>1. OperandFits(fn, Operand(b, d, k))
        BY <2>5, PhisFit
      <4>2. \A y \in Reads(Operand(b, d, k)) : t[y] = m[y]
        BY <4>1, ReadsKnown DEF Agree
      <4> QED BY <4>1, <4>2, SameOperand
    <3>3. k - 1 \in Nat /\ (k - 1) + 1 = k
      OBVIOUS
    <3>4. ValuesOf(ReadBy(b, d, k), u) = ValuesOf(Operand(b, d, k), t)
      BY <2>1, <2>5, <3>3, ReadByValues
    <3> QED BY <3>1, <3>2, <3>4
  <2>7. u2 \in f[k]
    <3>1. f[k] = Outcomes(c[k], f[k - 1])
      BY <1>4, <1>5 DEF Traces
    <3>2. c[k] = Assign(x, ReadBy(b, d, k))
      BY <1>3, <2>2
    <3>3. u2 \in Effect(c[k], u)
      BY <2>4, <2>6, <3>2, AssignEffect
    <3> QED BY <2>1, <3>1, <3>3 DEF Outcomes
  <2>8. /\ DOMAIN u2 = DOMAIN u \cup {x} /\ u2[x] = v
        /\ \A y \in DOMAIN u : y # x => u2[y] = u[y]
    BY <2>4 DEF With
  <2>9. fn.vars \subseteq DOMAIN u
    BY <2>1 DEF HasAssigned
  <2>10. ASSUME NEW y \in fn.vars
         PROVE  u2[y] = IF \E j \in 1..k : fn.phis[d][j].lhs = y THEN e2[y] ELSE t[y]
    <3>1. CASE y = x
      <4>1. k \in 1..k
        OBVIOUS
      <4> QED BY <2>2, <2>3, <2>8, <3>1, <4>1
    <3>2. CASE y # x
      <4>1. u2[y] = u[y]
        BY <2>8, <2>9, <3>2
      <4>2. u[y] = IF \E j \in 1..(k - 1) : fn.phis[d][j].lhs = y THEN e2[y] ELSE t[y]
        BY <2>1 DEF HasAssigned
      <4>3. (\E j \in 1..k : fn.phis[d][j].lhs = y) <=> \E j \in 1..(k - 1) : fn.phis[d][j].lhs = y
        <5>1. \A j \in 1..k : j = k \/ j \in 1..(k - 1)
          OBVIOUS
        <5>2. 1..(k - 1) \subseteq 1..k
          OBVIOUS
        <5> QED BY <2>2, <3>2, <5>1, <5>2
      <4> QED BY <4>1, <4>2, <4>3
    <3> QED BY <3>1, <3>2
  <2>11. ASSUME NEW j \in ToSave(b, d)
         PROVE  /\ Copied(b, d, j) \in DOMAIN u2
                /\ u2[Copied(b, d, j)] = t[Operand(b, d, j)[2]]
    <3>1. /\ Copied(b, d, j) \in DOMAIN u
          /\ u[Copied(b, d, j)] = t[Operand(b, d, j)[2]]
      BY <2>1 DEF HasAssigned
    <3>2. Copied(b, d, j) # x
      <4>1. j \in DOMAIN fn.phis[d] /\ Operand(b, d, j) \in PhiOperands(d)
        BY DEF ToSave
      <4>2. Operand(b, d, j)[2] \in fn.vars
        BY <4>1, SavedIsVar
      <4> QED BY <2>5, <4>2, OldCopyFacts DEF Copied
    <3> QED BY <2>8, <3>1, <3>2
  <2>12. HasAssigned(u2, t, e2, k, b, d)
    BY <2>8, <2>9, <2>10, <2>11 DEF HasAssigned
  <2>13. k \in 0..n
    OBVIOUS
  <2> QED BY <2>7, <2>12, <2>13
<1> HIDE DEF P
<1>8. \A k \in 0..n : k \in P
  BY <1>6, <1>7, UpTo
<1>9. PICK u \in f[n] : HasAssigned(u, t, e2, n, b, d)
  <2>1. n \in P
    BY <1>8
  <2> QED BY <2>1 DEF P
<1> QED BY <1>1, <1>2, <1>4, <1>5, <1>9

\* u is a store of the graph for the program's e2 at the entry of a block.
Enters(u, e2) ==
    fn.vars \subseteq DOMAIN u /\ Agree(u, e2) /\ \A x \in fn.vars : u[x] \in Val

\* u and t differ in the phi nodes of d only.
SameOutside(u, t, d) ==
    \A x \in fn.vars :
        (\A k \in DOMAIN fn.phis[d] : fn.phis[d][k].lhs # x) => u[x] = t[x]

(***************************************************************************)
(* The statements of the phi nodes, from a store that agrees with the      *)
(* program's, can reach the values with which the program enters d.        *)
(***************************************************************************)
LEMMA PhiRuns ==
    ASSUME fn \in Functions, NEW b \in Blocks, NEW d \in ToSet(SuccsOf(b)), NEW t \in St,
           NEW m \in St, Agree(t, m), NEW e2 \in EnterBlock(fn, b, d, m)
    PROVE  /\ PhiCode(b, d) \in Seq(ToSet(SaveCode(b, d)) \cup ToSet(AssignCode(b, d)))
           /\ \E u \in Run(PhiCode(b, d), {t}) : Enters(u, e2) /\ SameOutside(u, t, d)
<1>1. PICK S1 : S1 = ToSet(SaveCode(b, d))
  OBVIOUS
<1>2. PICK S2 : S2 = ToSet(AssignCode(b, d))
  OBVIOUS
<1>3. PICK c1 \in Seq(S1) : c1 = SaveCode(b, d)
  BY <1>1, SaveRuns
<1>4. PICK w \in Run(c1, {t}) : HasCopies(w, t, ToSave(b, d), b, d)
  BY <1>3, SaveRuns
<1>5. PICK c2 \in Seq(S2) : c2 = AssignCode(b, d)
  BY <1>2, <1>4, AssignRuns
<1>6. PICK u \in Run(c2, {w}) : HasAssigned(u, t, e2, Len(fn.phis[d]), b, d)
  BY <1>4, <1>5, AssignRuns
<1>7. PhiCode(b, d) = c1 \o c2
  BY <1>3, <1>5, PhiCodeParts
<1>8. c1 \o c2 \in Seq(S1 \cup S2)
  <2>1. PICK S : S = S1 \cup S2
    OBVIOUS
  <2>2. c1 \in Seq(S) /\ c2 \in Seq(S)
    BY <2>1, SeqMonotone
  <2> QED BY <2>1, <2>2
<1>9. u \in Run(c1 \o c2, {t})
  BY <1>4, <1>6, RunInto
<1>10. DOMAIN fn.phis[d] = 1..Len(fn.phis[d])
  BY PhisFit
<1>11. /\ fn.vars \subseteq DOMAIN u
       /\ \A x \in fn.vars :
              u[x] = IF \E j \in DOMAIN fn.phis[d] : fn.phis[d][j].lhs = x THEN e2[x] ELSE t[x]
  BY <1>6, <1>10 DEF HasAssigned
<1>12. e2 \in St /\ \A x \in fn.vars :
              (\A k \in DOMAIN fn.phis[d] : fn.phis[d][k].lhs # x) => e2[x] = m[x]
  BY EnterBlockValues
<1>13. Agree(u, e2)
  BY <1>11, <1>12, KnownIsVar DEF Agree
<1>14. \A x \in fn.vars : u[x] \in Val
  BY <1>11, <1>12 DEF St
<1>15. Enters(u, e2) /\ SameOutside(u, t, d)
  BY <1>11, <1>13, <1>14 DEF Enters, SameOutside
<1>16. /\ u \in Run(PhiCode(b, d), {t})
       /\ PhiCode(b, d) \in Seq(ToSet(SaveCode(b, d)) \cup ToSet(AssignCode(b, d)))
  BY <1>1, <1>2, <1>7, <1>8, <1>9
<1> QED BY <1>15, <1>16

-----------------------------------------------------------------------------
(* Branches *)

LEMMA MaybeAssume ==
    ASSUME NEW p \in BOOLEAN, NEW c, NEW t, p => Holds(c, t)
    PROVE  LET stmts == IF p THEN <<Assume(c)>> ELSE <<>>
           IN  stmts \in Seq({Assume(c)}) /\ t \in Run(stmts, {t})
<1>1. CASE p
  <2>1. PICK st : st = Assume(c)
    OBVIOUS
  <2>2. st.op = "assume" /\ st.cst = c
    BY <2>1 DEF Assume
  <2>3. Effect(st, t) = IF Holds(c, t) THEN {t} ELSE {}
    BY <2>2 DEF Effect
  <2>4. t \in Run(<<st>>, {t})
    BY <1>1, <2>3, RunStatement
  <2>5. <<st>> \in Seq({st})
    OBVIOUS
  <2> QED BY <1>1, <2>1, <2>4, <2>5
<1>2. CASE ~p
  <2>1. t \in Run(<<>>, {t})
    BY RunEmpty
  <2> QED BY <1>2, <2>1
<1> QED BY <1>1, <1>2

LEMMA TruthHolds ==
    ASSUME NEW x, NEW t
    PROVE  /\ t[x] # 0 => Holds(IsTrue(x), t)
           /\ t[x] = 0 => Holds(IsFalse(x), t)
<1>1. PICK c : c = IsTrue(x)
  OBVIOUS
<1>2. PICK e : e = IsFalse(x)
  OBVIOUS
<1>3. c.rel = "ne" /\ c.a = V(x) /\ c.b = K(0) /\ e.rel = "eq" /\ e.a = V(x) /\ e.b = K(0)
  BY <1>1, <1>2 DEF IsTrue, IsFalse, Constraint
<1>4. ValuesOf(V(x), t) = {t[x]} /\ ValuesOf(K(0), t) = {0}
  BY DEF ValuesOf, V, K
<1> QED BY <1>1, <1>2, <1>3, <1>4 DEF Holds

\* The assumptions of a branch on variable x hold where it is taken.
LEMMA BranchOnVarRuns ==
    ASSUME fn \in Functions, NEW x \in fn.vars, NEW m \in St, m[x] \in {0, 1},
           x \in DOMAIN fn.cmps => IsCurrent(x, m),
           NEW t, x \in Known => t[x] = m[x],
           x \in DOMAIN fn.cmps => \A y \in VarsOf(fn.cmps[x].cst) : t[y] = m[y]
    PROVE  \E T : /\ BranchOnVar(x, m[x] = 0) \in Seq(T)
                  /\ t \in Run(BranchOnVar(x, m[x] = 0), {t})
<1>1. PICK neg \in BOOLEAN : neg <=> m[x] = 0
  OBVIOUS
<1>2. PICK cst : cst = fn.cmps[x].cst
  OBVIOUS
<1>3. PICK isCmp \in BOOLEAN : isCmp <=> x \in DOMAIN fn.cmps
  OBVIOUS
<1>4. PICK onOperands \in BOOLEAN : onOperands <=> (isCmp /\ cst.rel # "ult")
  OBVIOUS
<1>5. PICK onVariable \in BOOLEAN : onVariable <=> (~isCmp \/ ~fn.cmps[x].onlyBr)
  OBVIOUS
<1>6. PICK a1 : a1 = IF neg THEN Negation(cst) ELSE cst
  OBVIOUS
<1>7. PICK a2 : a2 = IF neg THEN IsFalse(x) ELSE IsTrue(x)
  OBVIOUS
<1>8. PICK c1 : c1 = IF onOperands THEN <<Assume(a1)>> ELSE <<>>
  OBVIOUS
<1>9. PICK c2 : c2 = IF onVariable THEN <<Assume(a2)>> ELSE <<>>
  OBVIOUS
<1>10. BranchOnVar(x, m[x] = 0) = c1 \o c2
  <2>1. c1 = IF x \in DOMAIN fn.cmps /\ cst.rel # "ult"
             THEN <<Assume(IF m[x] = 0 THEN Negation(cst) ELSE cst)>> ELSE <<>>
    BY <1>1, <1>3, <1>4, <1>6, <1>8
  <2>2. c2 = IF ~(x \in DOMAIN fn.cmps) \/ ~fn.cmps[x].onlyBr
             THEN <<Assume(IF m[x] = 0 THEN IsFalse(x) ELSE IsTrue(x))>> ELSE <<>>
    BY <1>1, <1>3, <1>5, <1>7, <1>9
  <2> QED BY <1>2, <2>1, <2>2 DEF BranchOnVar
<1>11. onOperands => Holds(a1, t)
  <2> SUFFICES ASSUME onOperands PROVE Holds(a1, t)
    OBVIOUS
  <2>1. x \in DOMAIN fn.cmps /\ cst.rel # "ult"
    BY <1>3, <1>4
  <2>2. m[x] = IF Holds(cst, m) THEN 1 ELSE 0
    BY <1>2, <2>1 DEF IsCurrent
  <2>3. /\ Holds(cst, t) <=> Holds(cst, m)
        /\ Holds(Negation(cst), t) <=> Holds(Negation(cst), m)
    BY <1>2, <2>1, SameCmp
  <2>4. ~ Holds(cst, m) => Holds(Negation(cst), m)
    BY <1>2, <2>1, NegationHolds
  <2>5. CASE neg
    <3>1. ~ Holds(cst, m)
      BY <1>1, <2>2, <2>5
    <3> QED BY <1>6, <2>3, <2>4, <2>5, <3>1
  <2>6. CASE ~neg
    <3>1. Holds(cst, m)
      BY <1>1, <2>2, <2>6
    <3> QED BY <1>6, <2>3, <2>6, <3>1
  <2> QED BY <2>5, <2>6
<1>12. onVariable => Holds(a2, t)
  <2> SUFFICES ASSUME onVariable PROVE Holds(a2, t)
    OBVIOUS
  <2>1. x \in Known
    <3>1. x \in DOMAIN fn.cmps => ~fn.cmps[x].onlyBr /\ fn.cmps[x].cst.rel # "ult"
      BY <1>3, <1>5, CmpFits
    <3> QED BY <3>1 DEF Known, KnownIn
  <2>2. t[x] = m[x]
    BY <2>1
  <2>3. neg => Holds(IsFalse(x), t)
    BY <1>1, <2>2, TruthHolds
  <2>4. ~neg => Holds(IsTrue(x), t)
    BY <1>1, <2>2, TruthHolds
  <2> QED BY <1>7, <2>3, <2>4
<1>13. c1 \in Seq({Assume(a1)}) /\ t \in Run(c1, {t})
  BY <1>8, <1>11, MaybeAssume
<1>14. c2 \in Seq({Assume(a2)}) /\ t \in Run(c2, {t})
  BY <1>9, <1>12, MaybeAssume
<1>15. PICK T1, T2, T : T1 = {Assume(a1)} /\ T2 = {Assume(a2)} /\ T = T1 \cup T2
  OBVIOUS
<1>16. c1 \in Seq(T1) /\ c2 \in Seq(T2) /\ c1 \in Seq(T) /\ c2 \in Seq(T)
  BY <1>13, <1>14, <1>15, SeqMonotone
<1>17. c1 \o c2 \in Seq(T)
  BY <1>16
<1>18. t \in Run(c1 \o c2, {t})
  BY <1>13, <1>14, <1>16, RunInto
<1> QED BY <1>10, <1>17, <1>18

LEMMA BranchRuns ==
    ASSUME fn \in Functions, NEW b \in Blocks, fn.term[b].op = "condbr", NEW m \in St,
           NEW d \in Targets(fn, b, m),
           \A c \in DOMAIN fn.cmps : b \in BranchesOn(fn, c) => IsCurrent(c, m),
           NEW t, \A x \in Tested(fn, b) \cap Known : t[x] = m[x]
    PROVE  \E T : BranchCode(b, d) \in Seq(T) /\ t \in Run(BranchCode(b, d), {t})
<1>1. PICK cond : cond = fn.term[b].cond
  OBVIOUS
<1>2. \/ cond \in {Undef, K(0), K(1)}
      \/ \E c \in fn.vars : cond = V(c)
  BY <1>1, SimulationAssumption DEF Typed, Blocks
<1>3. SuccsOf(b)[1] # SuccsOf(b)[2]
  BY SuccsVectorType
<1>4. PICK x \in ValuesOf(cond, m) \cap {0, 1} :
          d = IF x = 1 THEN SuccsOf(b)[1] ELSE SuccsOf(b)[2]
  BY <1>1 DEF Targets, SuccsOf
<1>5. BranchCode(b, d) = <<>> => \E T : BranchCode(b, d) \in Seq(T) /\ t \in Run(BranchCode(b, d), {t})
  BY RunEmpty
<1>6. CASE cond = Undef
  <2>1. cond[1] = "u"
    BY <1>6 DEF Undef
  <2>2. BranchCode(b, d) = <<>>
    BY <1>1, <2>1 DEF BranchCode
  <2> QED BY <1>5, <2>2
<1>7. CASE cond \in {K(0), K(1)}
  <2>1. cond = K(x) /\ cond[1] = "k" /\ (cond = K(1) <=> x = 1) /\ (cond = K(0) <=> x = 0)
    BY <1>4, <1>7 DEF ValuesOf, K
  <2>2. ~ NeverTaken(b, d)
    BY <1>1, <1>4, <2>1 DEF NeverTaken
  <2> QED BY <1>1, <1>5, <2>1, <2>2 DEF BranchCode
<1>8. CASE \E c \in fn.vars : cond = V(c)
  <2>1. PICK c \in fn.vars : cond = V(c)
    BY <1>8
  <2>2. m[c] = x /\ m[c] \in {0, 1}
    BY <1>4, <2>1, ValueOfVar
  <2>3. PICK neg \in BOOLEAN : neg = IsNegated(b, d)
    BY DEF IsNegated
  <2>4. neg = (m[c] = 0)
    BY <1>3, <1>4, <2>2, <2>3 DEF IsNegated
  <2>5. cond[1] = "v" /\ cond[2] = c
    BY <2>1 DEF V
  <2>6. BranchCode(b, d) = BranchOnVar(c, m[c] = 0)
    BY <1>1, <2>3, <2>4, <2>5 DEF BranchCode
  <2>7. Reads(cond) = {c}
    BY <2>5 DEF Reads
  <2>8. c \in DOMAIN fn.cmps => IsCurrent(c, m)
    BY <1>1, <2>1 DEF BranchesOn, Blocks
  <2>9. c \in Tested(fn, b) /\ (c \in DOMAIN fn.cmps => VarsOf(fn.cmps[c].cst) \subseteq Tested(fn, b))
    BY <1>1, <2>7 DEF Tested
  <2>10. c \in DOMAIN fn.cmps => VarsOf(fn.cmps[c].cst) \subseteq Known
    BY CmpFits, ReadsKnown DEF VarsOf
  <2>11. c \in DOMAIN fn.cmps => \A y \in VarsOf(fn.cmps[c].cst) : t[y] = m[y]
    BY <2>9, <2>10
  <2>12. c \in Known => t[c] = m[c]
    BY <2>9
  <2>13. PICK br : br = BranchOnVar(c, m[c] = 0)
    OBVIOUS
  <2>14. \E T : br \in Seq(T) /\ t \in Run(br, {t})
    BY <2>2, <2>8, <2>11, <2>12, <2>13, BranchOnVarRuns
  <2> QED BY <2>6, <2>13, <2>14
<1> QED BY <1>2, <1>6, <1>7, <1>8

-----------------------------------------------------------------------------
(* Edges *)

LEMMA EdgeCodeRuns ==
    ASSUME fn \in Functions, NEW b \in Blocks, fn.term[b].op = "condbr",
           NEW d \in ToSet(SuccsOf(b)), NEW m \in St, d \in Targets(fn, b, m),
           \A c \in DOMAIN fn.cmps : b \in BranchesOn(fn, c) => IsCurrent(c, m),
           NEW t \in St, Agree(t, m), NEW e2 \in EnterBlock(fn, b, d, m)
    PROVE  \E T : /\ EdgeCode(b, d) \in Seq(T)
                  /\ \E u \in Run(EdgeCode(b, d), {t}) : Enters(u, e2)
<1>1. PICK S : S = ToSet(SaveCode(b, d)) \cup ToSet(AssignCode(b, d))
  OBVIOUS
<1>2. PICK phi \in Seq(S) : phi = PhiCode(b, d)
  BY <1>1, PhiRuns
<1>3. PICK u \in Run(phi, {t}) : Enters(u, e2) /\ SameOutside(u, t, d)
  BY <1>2, PhiRuns
<1>4. CASE b # d
  <2>1. \A x \in Tested(fn, b) \cap Known : t[x] = m[x]
    BY DEF Agree
  <2>2. PICK T : BranchCode(b, d) \in Seq(T) /\ t \in Run(BranchCode(b, d), {t})
    BY <2>1, BranchRuns
  <2>3. PICK br \in Seq(T) : br = BranchCode(b, d)
    BY <2>2
  <2>4. EdgeCode(b, d) = br \o phi
    BY <1>2, <1>4, <2>3 DEF EdgeCode
  <2>5. u \in Run(br \o phi, {t})
    BY <1>3, <2>2, <2>3, RunInto
  <2>6. PICK U : U = T \cup S
    OBVIOUS
  <2>7. br \in Seq(U) /\ phi \in Seq(U)
    BY <2>6, SeqMonotone
  <2>8. br \o phi \in Seq(U)
    BY <2>7
  <2> QED BY <1>3, <2>4, <2>5, <2>8
<1>5. CASE b = d
  <2>1. \A k \in DOMAIN fn.phis[d] : fn.phis[d][k].lhs \notin Tested(fn, b)
    BY <1>5, SimulationAssumption DEF Supported, Blocks, SuccsOf
  <2>2. \A x \in Tested(fn, b) \cap Known : u[x] = m[x]
    <3> TAKE x \in Tested(fn, b) \cap Known
    <3>1. x \in fn.vars /\ \A k \in DOMAIN fn.phis[d] : fn.phis[d][k].lhs # x
      BY <2>1, KnownIsVar
    <3>2. u[x] = t[x] /\ t[x] = m[x]
      BY <1>3, <3>1 DEF Agree, SameOutside
    <3> QED BY <3>2
  <2>3. PICK T : BranchCode(b, d) \in Seq(T) /\ u \in Run(BranchCode(b, d), {u})
    BY <2>2, BranchRuns
  <2>4. PICK br \in Seq(T) : br = BranchCode(b, d)
    BY <2>3
  <2>5. EdgeCode(b, d) = phi \o br
    BY <1>2, <1>5, <2>4 DEF EdgeCode
  <2>6. u \in Run(phi \o br, {t})
    BY <1>3, <2>3, <2>4, RunInto
  <2>7. PICK U : U = T \cup S
    OBVIOUS
  <2>8. br \in Seq(U) /\ phi \in Seq(U)
    BY <2>7, SeqMonotone
  <2>9. phi \o br \in Seq(U)
    BY <2>8
  <2> QED BY <1>3, <2>5, <2>6, <2>9
<1> QED BY <1>4, <1>5

LEMMA AllProcessed ==
    ASSUME GraphInv, CodeInv, pc = "built", NEW a \in visited
    PROVE  a \in Blocks /\ fn \in Functions /\ Processed(a) = Len(SuccsVector(a))
<1>1. work = <<>> /\ Len(work) = 0
  BY DEF CodeInv
<1>2. a \in Blocks /\ fn \in Functions
  BY DEF GraphInv, TypeOK
<1>3. Len(SuccsVector(a)) \in Nat
  BY <1>2, SuccsVectorType
<1> QED BY <1>1, <1>2, <1>3 DEF Processed

\* An assertion that fails stops nothing.
LEMMA BlockRuns ==
    ASSUME CodeInv, NEW a \in visited, NEW T, CodeSoFar(a) \in Seq(T)
    PROVE  /\ \A S : Run(code[BlockLabel(a)], S) = Run(CodeSoFar(a), S)
           /\ code[BlockLabel(a)] \in Seq(T \cup {AssertFalse})
<1>1. PICK c \in Seq(T) : c = CodeSoFar(a)
  OBVIOUS
<1>2. PICK U : U = T \cup {AssertFalse}
  OBVIOUS
<1>3. PICK af : af = AssertFalse
  OBVIOUS
<1>4. c \in Seq(U) /\ af \in U
  BY <1>2, <1>3, SeqMonotone
<1>5. code[BlockLabel(a)] = c \/ code[BlockLabel(a)] = Append(c, af)
  BY <1>1, <1>3 DEF CodeInv, HasCode
<1>6. \A S : Run(Append(c, af), S) = Run(c, S)
  <2> TAKE S
  <2>1. Run(Append(c, af), S) = Outcomes(af, Run(c, S))
    BY <1>4, RunAppend
  <2>2. \A s : Effect(af, s) = {s}
    BY <1>3 DEF Effect, AssertFalse
  <2>3. \A R : Outcomes(af, R) = R
    BY <2>2 DEF Outcomes
  <2> QED BY <2>1, <2>3
<1>7. Append(c, af) \in Seq(U)
  BY <1>4
<1> QED BY <1>1, <1>2, <1>4, <1>5, <1>6, <1>7

\* From b to d in the graph: through an edge block, or directly.
Leads(b, d, s, u) ==
    IF fn.term[b].op = "condbr"
    THEN /\ <<b, d>> \in DOMAIN edgeMap
         /\ LET mid == edgeMap[<<b, d>>] IN
                /\ mid \in succ[BlockLabel(b)] /\ Len(mid) > 1 /\ BlockLabel(d) \in succ[mid]
                /\ \E t \in Run(code[BlockLabel(b)], {s}) : u \in Run(code[mid], {t})
                /\ u \in Run(code[BlockLabel(b)] \o code[mid], {s})
                /\ Len(code[mid]) \in Nat /\ Len(code[BlockLabel(b)] \o code[mid]) \in Nat
    ELSE /\ BlockLabel(d) \in succ[BlockLabel(b)]
         /\ u \in Run(code[BlockLabel(b)], {s})

(***************************************************************************)
(* The program goes from b to d: so does the graph, with a store that      *)
(* agrees with the program's.                                              *)
(***************************************************************************)
LEMMA EdgeRuns ==
    ASSUME GraphInv, CodeInv, pc = "built", IncludeUselessHavoc, NEW b \in visited,
           NEW e \in St, NEW s \in St, Agree(s, e), NEW m \in RunBody(fn, b, e),
           NEW d \in ToSet(SuccsOf(b)), d \in Targets(fn, b, m),
           \A c \in DOMAIN fn.cmps : b \in BranchesOn(fn, c) => IsCurrent(c, m),
           NEW e2 \in EnterBlock(fn, b, d, m)
    PROVE  /\ Len(code[BlockLabel(b)]) \in Nat
           /\ \E u : Enters(u, e2) /\ Leads(b, d, s, u)
<1>1. b \in Blocks /\ fn \in Functions /\ Processed(b) = Len(SuccsVector(b))
  BY AllProcessed
<1>2. HasEdges(b)
  BY DEF CodeInv
<1>3. PICK body \in Seq(StatementsOf(b)) : body = FlattenSeq(Translated(b))
  BY <1>1, TranslatedType, FlattenType
<1>4. m \in St /\ \E t \in Run(body, {s}) : t \in St /\ Agree(t, m)
  BY <1>1, <1>3, BodyRuns
<1>5. PICK t \in Run(body, {s}) : t \in St /\ Agree(t, m)
  BY <1>4
<1>6. PICK k \in 1..Len(SuccsVector(b)) : SuccsVector(b)[k] = d
  BY <1>1, SuccsVectorType
<1>7. fn.term[b].op \in {"br", "condbr", "switch"}
  <2>1. SuccsVector(b) # <<>>
    BY <1>6
  <2> QED BY <1>1, <2>1, SuccsVectorType
<1>8. BodyCode(b) = body
  <2>1. BodyCode(b) = body \o <<>>
    BY <1>3, <1>7 DEF BodyCode, Translated
  <2>2. body \o <<>> = body
    OBVIOUS
  <2> QED BY <2>1, <2>2
<1>9. CASE fn.term[b].op = "condbr"
  <2>1. CodeSoFar(b) = body
    BY <1>8, <1>9 DEF CodeSoFar
  <2>2. /\ Run(code[BlockLabel(b)], {s}) = Run(body, {s})
        /\ code[BlockLabel(b)] \in Seq(StatementsOf(b) \cup {AssertFalse})
    BY <2>1, BlockRuns
  <2>3. PICK c1 \in Seq(StatementsOf(b) \cup {AssertFalse}) : c1 = code[BlockLabel(b)]
    BY <2>2
  <2>4. SuccsVector(b) = SuccsOf(b) /\ HasEdgeBlock(b, k)
    BY <1>1, <1>2, <1>6, <1>9, SuccsVectorType DEF HasEdges
  <2>5. PICK mid : mid = MidLabel(b, k)
    OBVIOUS
  <2>6. /\ <<b, d>> \in DOMAIN edgeMap /\ edgeMap[<<b, d>>] = mid
        /\ mid \in nodes /\ code[mid] = EdgeCode(b, d)
        /\ succ[mid] = {BlockLabel(d)} /\ mid \in succ[BlockLabel(b)]
    BY <1>6, <2>4, <2>5 DEF HasEdgeBlock
  <2>7. Len(mid) > 1
    BY <2>5 DEF MidLabel
  <2>8. PICK T : /\ EdgeCode(b, d) \in Seq(T)
                 /\ \E u \in Run(EdgeCode(b, d), {t}) : Enters(u, e2)
    BY <1>1, <1>4, <1>5, <1>9, EdgeCodeRuns
  <2>9. PICK c2 \in Seq(T) : c2 = code[mid]
    BY <2>6, <2>8
  <2>10. PICK u \in Run(c2, {t}) : Enters(u, e2)
    BY <2>6, <2>8, <2>9
  <2>11. t \in Run(c1, {s})
    BY <1>5, <2>2, <2>3
  <2>12. u \in Run(c1 \o c2, {s})
    <3>1. PICK T1 : T1 = StatementsOf(b) \cup {AssertFalse}
      OBVIOUS
    <3>2. c1 \in Seq(T1)
      BY <3>1
    <3> QED BY <2>10, <2>11, <3>2, RunInto
  <2>13. Len(c1) \in Nat /\ Len(c2) \in Nat /\ Len(c1 \o c2) \in Nat
    <3>1. Len(c1) \in Nat /\ Len(c2) \in Nat
      OBVIOUS
    <3>2. Len(c1 \o c2) = Len(c1) + Len(c2)
      OBVIOUS
    <3> QED BY <3>1, <3>2
  <2>14. Leads(b, d, s, u)
    BY <1>9, <2>3, <2>6, <2>7, <2>9, <2>10, <2>11, <2>12, <2>13 DEF Leads
  <2> QED BY <2>3, <2>10, <2>13, <2>14
<1>10. CASE fn.term[b].op = "br"
  <2>1. SuccsVector(b) = SuccsOf(b) /\ Len(SuccsVector(b)) = 1
    BY <1>1, <1>10, SuccsVectorType
  <2>2. k = 1 /\ SuccsOf(b)[1] = d /\ BlockLabel(d) \in succ[BlockLabel(b)]
    BY <1>1, <1>2, <1>6, <1>10, <2>1 DEF HasEdges
  <2>3. PICK S : S = ToSet(SaveCode(b, d)) \cup ToSet(AssignCode(b, d))
    OBVIOUS
  <2>4. PICK phi \in Seq(S) : phi = PhiCode(b, d)
    BY <1>1, <1>4, <1>5, <2>3, PhiRuns
  <2>5. PICK u \in Run(phi, {t}) : Enters(u, e2)
    BY <1>1, <1>4, <1>5, <2>4, PhiRuns
  <2>6. CodeSoFar(b) = body \o phi
    BY <1>1, <1>8, <1>10, <2>1, <2>2, <2>4 DEF CodeSoFar
  <2>7. PICK T : T = StatementsOf(b) \cup S
    OBVIOUS
  <2>8. body \in Seq(T) /\ phi \in Seq(T)
    BY <2>7, SeqMonotone
  <2>9. body \o phi \in Seq(T)
    BY <2>8
  <2>10. u \in Run(body \o phi, {s})
    BY <1>5, <2>5, RunInto
  <2>11. /\ Run(code[BlockLabel(b)], {s}) = Run(body \o phi, {s})
         /\ code[BlockLabel(b)] \in Seq(T \cup {AssertFalse})
    BY <2>6, <2>9, BlockRuns
  <2>12. Leads(b, d, s, u)
    BY <1>10, <2>2, <2>10, <2>11 DEF Leads
  <2> QED BY <2>5, <2>11, <2>12
<1>11. CASE fn.term[b].op = "switch"
  <2>1. CodeSoFar(b) = body
    BY <1>8, <1>11 DEF CodeSoFar
  <2>2. /\ Run(code[BlockLabel(b)], {s}) = Run(body, {s})
        /\ code[BlockLabel(b)] \in Seq(StatementsOf(b) \cup {AssertFalse})
    BY <2>1, BlockRuns
  <2>3. BlockLabel(d) \in succ[BlockLabel(b)]
    BY <1>1, <1>2, <1>6, <1>11 DEF HasEdges
  <2>4. fn.phis[d] = <<>>
    BY <1>1, <1>11, SimulationAssumption DEF Supported, Blocks, SuccsOf
  <2>5. Enters(t, e2)
    <3>1. \A x \in fn.vars : e2[x] = m[x]
      BY <1>1, <2>4, EnterBlockValues
    <3> QED BY <1>5, <3>1, KnownIsVar DEF Enters, Agree, St
  <2>6. Leads(b, d, s, t)
    BY <1>5, <1>11, <2>2, <2>3 DEF Leads
  <2> QED BY <2>2, <2>5, <2>6
<1> QED BY <1>7, <1>9, <1>10, <1>11

-----------------------------------------------------------------------------
(* The simulation *)

\* The comparison that the program branches on is current at the branch.
LEMMA BranchIsCurrent ==
    ASSUME GraphInv, CodeInv, SimInv, blk # NoBlock, IncludeUselessHavoc,
           NEW m \in RunBody(fn, blk, env)
    PROVE  /\ m \in St
           /\ \A c \in DOMAIN fn.cmps : blk \in BranchesOn(fn, c) => IsCurrent(c, m)
           /\ \A c \in DOMAIN fn.cmps : \A A \in SUBSET Blocks :
                  CurrentIn(fn, c, A) /\ CurrentAtEnd(fn, c, A, blk) => IsCurrent(c, m)
<1>1. PICK b : b = blk
  OBVIOUS
<1>2. PICK s \in stores : s \in St /\ Agree(s, env)
  BY DEF SimInv, St
<1>3. pc = "built" /\ b \in visited /\ env \in St
  BY <1>1 DEF SimInv, St
<1>4. b \in Blocks /\ fn \in Functions
  BY <1>3, AllProcessed
<1>5. m \in RunBody(fn, b, env)
  BY <1>1
<1>6. /\ m \in St
      /\ \A c \in DOMAIN fn.cmps, A \in SUBSET Blocks :
             CurrentAtEnd(fn, c, A, b) /\ (b \in A => IsCurrent(c, env)) => IsCurrent(c, m)
  BY <1>2, <1>3, <1>4, <1>5, BodyRuns
<1>7. ASSUME NEW c \in DOMAIN fn.cmps, NEW A \in SUBSET Blocks, CurrentIn(fn, c, A),
             CurrentAtEnd(fn, c, A, b)
      PROVE  IsCurrent(c, m)
  <2>1. b \in A => IsCurrent(c, env)
    BY <1>1, <1>7 DEF SimInv
  <2> QED BY <1>6, <1>7, <2>1
<1>8. ASSUME NEW c \in DOMAIN fn.cmps, b \in BranchesOn(fn, c)
      PROVE  IsCurrent(c, m)
  <2>1. PICK A \in SUBSET Blocks : CurrentIn(fn, c, A) /\ CurrentAtEnd(fn, c, A, b)
    BY <1>4, <1>8, SimulationAssumption DEF Dominated, Blocks
  <2> QED BY <1>7, <2>1
<1> QED BY <1>1, <1>6, <1>7, <1>8

\* Wherever the program goes from blk, the graph goes too.
LEMMA ProgramStep ==
    ASSUME GraphInv, CodeInv, SimInv, blk # NoBlock, IncludeUselessHavoc,
           NEW d \in ToSet(SuccsOf(blk)), NEW e2 \in LlvmImage(fn, blk, d, env)
    PROVE  \E m \in St, s \in stores : \E u :
               /\ m \in RunBody(fn, blk, env) /\ e2 \in EnterBlock(fn, blk, d, m)
               /\ Len(code[BlockLabel(blk)]) \in Nat
               /\ Enters(u, e2) /\ Leads(blk, d, s, u)
<1>1. PICK b : b = blk
  OBVIOUS
<1>2. PICK s \in stores : s \in St /\ Agree(s, env)
  BY DEF SimInv, St
<1>3. pc = "built" /\ b \in visited /\ env \in St
  BY <1>1 DEF SimInv, St
<1>4. PICK m \in RunBody(fn, b, env) : d \in Targets(fn, b, m) /\ e2 \in EnterBlock(fn, b, d, m)
  BY <1>1 DEF LlvmImage
<1>5. m \in St /\ \A c \in DOMAIN fn.cmps : b \in BranchesOn(fn, c) => IsCurrent(c, m)
  BY <1>1, <1>4, BranchIsCurrent
<1>6. d \in ToSet(SuccsOf(b))
  BY <1>1
<1>7. Len(code[BlockLabel(b)]) \in Nat /\ \E u : Enters(u, e2) /\ Leads(b, d, s, u)
  BY <1>2, <1>3, <1>4, <1>5, <1>6, EdgeRuns
<1> QED BY <1>1, <1>2, <1>4, <1>5, <1>7

LEMMA LeadsToImage ==
    ASSUME NEW b, NEW d, NEW S, NEW s \in S, NEW u, Leads(b, d, s, u),
           Len(code[BlockLabel(b)]) \in Nat
    PROVE  [x \in fn.vars |-> u[x]] \in CrabImage(b, d, S)
<1>1. PICK atEnd : atEnd = Run(code[BlockLabel(b)], S)
  OBVIOUS
<1>2. Run(code[BlockLabel(b)], {s}) \subseteq atEnd
  <2>1. {s} \subseteq S
    OBVIOUS
  <2> QED BY <1>1, <2>1, RunMonotone
<1>3. CASE fn.term[b].op = "condbr"
  <2>1. PICK mid : mid = edgeMap[<<b, d>>]
    OBVIOUS
  <2>2. mid \in succ[BlockLabel(b)] /\ Len(mid) > 1 /\ BlockLabel(d) \in succ[mid]
    BY <1>3, <2>1 DEF Leads
  <2>3. PICK t \in Run(code[BlockLabel(b)], {s}) : u \in Run(code[mid], {t})
    BY <1>3, <2>1 DEF Leads
  <2>4. Len(code[mid]) \in Nat
    BY <1>3, <2>1 DEF Leads
  <2>5. {t} \subseteq atEnd
    BY <1>2, <2>3
  <2>6. u \in Run(code[mid], atEnd)
    BY <2>3, <2>4, <2>5, RunMonotone
  <2> QED BY <1>1, <2>2, <2>6 DEF CrabImage, OnVars
<1>4. CASE fn.term[b].op # "condbr"
  <2>1. BlockLabel(d) \in succ[BlockLabel(b)] /\ u \in atEnd
    BY <1>2, <1>4 DEF Leads
  <2> QED BY <1>1, <2>1 DEF CrabImage, OnVars
<1> QED BY <1>3, <1>4

LEMMA EntersAgrees ==
    ASSUME NEW u, NEW e2, Enters(u, e2), NEW s2, s2 = [x \in fn.vars |-> u[x]]
    PROVE  s2 \in St /\ Agree(s2, e2)
BY KnownIsVar DEF Enters, Agree, St

\* Entering d through its phi nodes leaves a comparison current.
LEMMA CurrentInNext ==
    ASSUME fn \in Functions, NEW b \in Blocks, NEW d \in ToSet(SuccsOf(b)), NEW m \in St,
           NEW e2 \in EnterBlock(fn, b, d, m), NEW c \in DOMAIN fn.cmps, IsCurrent(c, m),
           \A k \in DOMAIN fn.phis[d] : fn.phis[d][k].lhs \notin VarsOf(fn.cmps[c].cst)
    PROVE  IsCurrent(c, e2)
<1>1. \A x \in fn.vars : (\A k \in DOMAIN fn.phis[d] : fn.phis[d][k].lhs # x) => e2[x] = m[x]
  BY EnterBlockValues
<1>2. \A k \in DOMAIN fn.phis[d] : fn.phis[d][k].lhs # c
  <2> TAKE k \in DOMAIN fn.phis[d]
  <2>1. d \in Blocks
    BY TermType
  <2>2. PICK preds : PhiFits(fn, fn.phis[d][k], preds)
    BY <2>1, SimulationAssumption DEF Typed, Blocks
  <2> QED BY <2>2 DEF PhiFits
<1>3. c \in fn.vars /\ VarsOf(fn.cmps[c].cst) \subseteq fn.vars
  BY CmpFits, ReadsKnown, KnownIsVar DEF VarsOf
<1>4. e2[c] = m[c] /\ \A x \in VarsOf(fn.cmps[c].cst) : e2[x] = m[x]
  BY <1>1, <1>2, <1>3
<1>5. Holds(fn.cmps[c].cst, e2) <=> Holds(fn.cmps[c].cst, m)
  BY <1>4, SameCmp
<1> QED BY <1>4, <1>5 DEF IsCurrent

LEMMA SimStep ==
    ASSUME GraphInv, CodeInv, SimInv, IncludeUselessHavoc, Step
    PROVE  SimInv'
<1>1. PICK d \in ToSet(SuccsOf(blk)) :
          /\ blk' = d /\ env' \in LlvmImage(fn, blk, d, env)
          /\ stores' = CrabImage(blk, d, stores)
  BY DEF Step
<1>2. PICK b : b = blk
  OBVIOUS
<1>3. PICK e2 : e2 = env'
  OBVIOUS
<1>4. /\ blk # NoBlock /\ fn' = fn /\ pc' = pc /\ visited' = visited
      /\ Blocks' = Blocks /\ Known' = Known
  BY DEF Step, vars, Blocks, Known
<1>5. pc = "built" /\ b \in visited /\ b \in Blocks /\ fn \in Functions
  BY <1>2, <1>4, AllProcessed DEF SimInv
<1>6. PICK m \in St, s \in stores : \E u :
          /\ m \in RunBody(fn, b, env) /\ e2 \in EnterBlock(fn, b, d, m)
          /\ Len(code[BlockLabel(b)]) \in Nat
          /\ Enters(u, e2) /\ Leads(b, d, s, u)
  BY <1>1, <1>2, <1>3, <1>4, ProgramStep
<1>7. PICK u :
          /\ m \in RunBody(fn, b, env) /\ e2 \in EnterBlock(fn, b, d, m)
          /\ Len(code[BlockLabel(b)]) \in Nat
          /\ Enters(u, e2) /\ Leads(b, d, s, u)
  BY <1>6
<1>8. PICK s2 : s2 = [x \in fn.vars |-> u[x]]
  OBVIOUS
<1>9. s2 \in stores' /\ s2 \in St /\ Agree(s2, e2)
  BY <1>1, <1>2, <1>7, <1>8, LeadsToImage, EntersAgrees
<1>10. d \in ToSet(SuccsOf(b)) /\ d \in visited /\ e2 \in St
  BY <1>1, <1>2, <1>5, <1>7, EnterBlockValues DEF CodeInv
<1>11. ASSUME NEW c \in DOMAIN fn.cmps, NEW A \in SUBSET Blocks, CurrentIn(fn, c, A), d \in A
       PROVE  IsCurrent(c, e2)
  <2>1. /\ CurrentAtEnd(fn, c, A, b)
        /\ \A k \in DOMAIN fn.phis[d] : fn.phis[d][k].lhs \notin VarsOf(fn.cmps[c].cst)
    BY <1>5, <1>10, <1>11 DEF CurrentIn, Blocks, SuccsOf
  <2>2. IsCurrent(c, m)
    BY <1>2, <1>4, <1>7, <1>11, <2>1, BranchIsCurrent
  <2> QED BY <1>5, <1>7, <1>10, <2>1, <2>2, CurrentInNext
<1>12. \A x : Agree(x, env)' <=> Agree(x, e2)
  BY <1>3, <1>4 DEF Agree
<1> QED BY <1>1, <1>3, <1>4, <1>5, <1>9, <1>10, <1>11, <1>12 DEF SimInv, IsCurrent, Agree, St

LEMMA SimCall ==
    ASSUME GraphInv, CodeInv, Call
    PROVE  SimInv'
<1>1. PICK args \in Arguments(fn) :
          /\ env' = [x \in fn.vars |-> IF x \in fn.params THEN args[x] ELSE 0]
          /\ stores' = {s \in [fn.vars -> Val] : \A x \in fn.params : s[x] = args[x]}
  BY DEF Call
<1>2. PICK e2 : e2 = env'
  OBVIOUS
<1>3. /\ pc = "built" /\ blk' = Entry /\ fn' = fn /\ pc' = pc /\ visited' = visited
      /\ Blocks' = Blocks /\ Entry' = Entry /\ Known' = Known
  BY DEF Call, vars, Blocks, Known, Entry
<1>4. Entry \in visited
  BY <1>3 DEF CodeInv
<1>5. fn \in Functions /\ fn.params \subseteq fn.vars
  <2>1. fn \in Functions
    BY DEF GraphInv, TypeOK
  <2> QED BY <2>1, SimulationAssumption DEF Typed
<1>6. args \in [fn.params -> Val]
  BY DEF Arguments
<1>7. e2 \in St /\ e2 \in stores'
  BY <1>1, <1>2, <1>5, <1>6, ZeroOne DEF St
<1>8. Agree(e2, e2)
  BY DEF Agree
<1>9. \A c, A : CurrentIn(fn, c, A) => Entry \notin A
  BY DEF CurrentIn, Entry
<1> QED BY <1>2, <1>3, <1>4, <1>7, <1>8, <1>9 DEF SimInv, Agree, St

LEMMA SimInvStep ==
    IncludeUselessHavoc /\ GraphInv /\ CodeInv /\ SimInv /\ [SimNext]_allVars => SimInv'
<1> SUFFICES ASSUME IncludeUselessHavoc, GraphInv, CodeInv, SimInv, [SimNext]_allVars
             PROVE  SimInv'
  OBVIOUS
<1>1. CASE UNCHANGED allVars
  <2>1. /\ fn' = fn /\ pc' = pc /\ visited' = visited /\ blk' = blk /\ env' = env
        /\ stores' = stores /\ Blocks' = Blocks /\ Known' = Known
    BY <1>1 DEF allVars, vars, simVars, Blocks, Known
  <2> QED BY <2>1 DEF SimInv, IsCurrent, Agree
<1>2. CASE Build
  <2>1. pc # "built"
    BY <1>2 DEF Build, Next, AddBlocks, VisitBlock, ConditionalEdge, PlainEdge, ConnectSinks
  <2>2. blk' = NoBlock
    BY <1>2, <2>1 DEF Build, simVars, SimInv
  <2> QED BY <2>2 DEF SimInv
<1>3. CASE Call
  BY <1>3, SimCall
<1>4. CASE Step
  BY <1>4, SimStep
<1> QED BY <1>1, <1>2, <1>3, <1>4 DEF SimNext

LEMMA SimInvAlways ==
    ASSUME IncludeUselessHavoc
    PROVE  SimSpec => [](GraphInv /\ CodeInv /\ SimInv)
<1>1. SimInit => SimInv
  BY DEF SimInit, SimInv
<1>2. (GraphInv /\ CodeInv) /\ SimInv /\ [SimNext]_allVars => SimInv'
  BY SimInvStep
<1> QED BY <1>1, <1>2, CodeInvAlways, PTL DEF SimSpec

(***************************************************************************)
(* The translation is sound: wherever the program can be, CrabIR can be by *)
(* the same path of blocks with the same values of what Crab knows, so     *)
(* that no invariant Crab infers excludes a state the program reaches      *)
(* (CfgBuilderImpl::buildCfg with its block, edge and phi visitors). An    *)
(* unknown instruction has to become a havoc (include_useless_havoc).      *)
(***************************************************************************)
THEOREM TranslationIsSound ==
    ASSUME IncludeUselessHavoc
    PROVE  SimSpec => []Sound
<1>1. SimInv => Sound
  BY DEF SimInv, Sound
<1> QED BY <1>1, SimInvAlways, PTL

(***************************************************************************)
(* The edges of the graph that can be asked about are those of the         *)
(* program: if the program takes the edge of a conditional branch, the     *)
(* block getCrabBasicBlock(src, dst) names exists and is not unreachable   *)
(* (CfgBuilderImpl::execEdge, hasFeasibleEdge).                            *)
(***************************************************************************)
THEOREM EdgesAreFeasible ==
    ASSUME IncludeUselessHavoc
    PROVE  SimSpec => []TakenEdgesAreFeasible
<1>1. GraphInv /\ CodeInv /\ SimInv => TakenEdgesAreFeasible
  <2> SUFFICES ASSUME GraphInv, CodeInv, SimInv, blk # NoBlock, NEW d \in ToSet(SuccsOf(blk)),
                      LlvmImage(fn, blk, d, env) # {}, fn.term[blk].op = "condbr"
               PROVE  /\ <<blk, d>> \in DOMAIN edgeMap
                      /\ Run(code[BlockLabel(blk)] \o code[edgeMap[<<blk, d>>]], stores) # {}
    BY DEF TakenEdgesAreFeasible
  <2>1. PICK e2 : e2 \in LlvmImage(fn, blk, d, env)
    OBVIOUS
  <2>2. PICK s \in stores : \E u : Leads(blk, d, s, u)
    BY <2>1, ProgramStep
  <2>3. PICK u : Leads(blk, d, s, u)
    BY <2>2
  <2>4. PICK c : c = code[BlockLabel(blk)] \o code[edgeMap[<<blk, d>>]]
    OBVIOUS
  <2>5. <<blk, d>> \in DOMAIN edgeMap /\ u \in Run(c, {s}) /\ Len(c) \in Nat
    BY <2>4, <2>3 DEF Leads
  <2>6. Run(c, {s}) \subseteq Run(c, stores)
    <3>1. {s} \subseteq stores
      OBVIOUS
    <3> QED BY <2>5, <3>1, RunMonotone
  <2> QED BY <2>4, <2>5, <2>6
<1> QED BY <1>1, SimInvAlways, PTL

-----------------------------------------------------------------------------
(* seahorn.fail *)

(***************************************************************************)
(* m_has_seahorn_fail is set as soon as a block with a call has been       *)
(* visited, and the assertion is the last statement of the exit.           *)
(***************************************************************************)
AssertInv ==
    /\ hasFail <=> \E b \in visited : CallsFail(b)
    /\ pc = "built" =>
           \A a \in visited :
               code[BlockLabel(a)] = IF BlockLabel(a) = exit /\ hasFail
                                     THEN Append(CodeSoFar(a), AssertFalse) ELSE CodeSoFar(a)

LEMMA AssertInvStep == GraphInv /\ CodeInv /\ AssertInv /\ [Next]_vars => AssertInv'
<1> SUFFICES ASSUME GraphInv, CodeInv, AssertInv, [Next]_vars PROVE AssertInv'
  OBVIOUS
<1>1. fn' = fn /\ \A b : CallsFail(b)' <=> CallsFail(b)
  <2>1. fn' = fn
    BY DEF Next, AddBlocks, VisitBlock, ConditionalEdge, PlainEdge, ConnectSinks, vars
  <2> QED BY <2>1 DEF CallsFail
<1>2. hasFail' <=> \E b \in visited' : CallsFail(b)'
  <2>1. CASE \E b \in Blocks : VisitBlock(b)
    <3>1. PICK b : hasFail' = FailSeen(b) /\ visited' = visited \cup {b}
      BY <2>1 DEF VisitBlock
    <3> QED BY <1>1, <3>1 DEF AssertInv, FailSeen
  <2>2. CASE hasFail' = hasFail /\ visited' = visited
    BY <1>1, <2>2 DEF AssertInv
  <2> QED BY <2>1, <2>2 DEF Next, AddBlocks, ConditionalEdge, PlainEdge, ConnectSinks, vars
<1>3. ASSUME pc' = "built", NEW a \in visited'
      PROVE  code'[BlockLabel(a)] = IF BlockLabel(a) = exit' /\ hasFail'
                                    THEN Append(CodeSoFar(a)', AssertFalse) ELSE CodeSoFar(a)'
  <2>1. ConnectSinks \/ (pc = "built" /\ UNCHANGED vars)
    BY <1>3 DEF Next, AddBlocks, VisitBlock, ConditionalEdge, PlainEdge, vars
  <2>2. /\ visited' = visited /\ cur' = cur /\ work' = work /\ exit' = exit
        /\ hasFail' = hasFail
    BY <2>1 DEF ConnectSinks, vars
  <2>3. CodeSoFar(a)' = CodeSoFar(a)
    <3>1. \A d : /\ BodyCode(d)' = BodyCode(d) /\ SuccsOf(d)' = SuccsOf(d)
                 /\ SuccsVector(d)' = SuccsVector(d) /\ \A e : PhiCode(d, e)' = PhiCode(d, e)
      BY <1>1, SameFunction
    <3>2. Processed(a)' = Processed(a)
      BY <2>2, <3>1 DEF Processed
    <3> QED BY <1>1, <3>1, <3>2 DEF CodeSoFar
  <2>4. CASE ConnectSinks
    <3>1. /\ pc = "translate" /\ DOMAIN code = nodes /\ Labels \subseteq nodes
          /\ a \in visited /\ visited \subseteq Blocks
      BY <2>2, <2>4, <1>3 DEF ConnectSinks, GraphInv, TypeOK
    <3>2. BlockLabel(a) \in DOMAIN code /\ BlockLabel(a) # NoExit
      BY <3>1 DEF Labels, BlockLabel, NoExit
    <3>3. code[BlockLabel(a)] = CodeSoFar(a)
      BY <3>1 DEF CodeInv, HasCode
    <3>4. code' = IF exit # NoExit /\ hasFail
                  THEN [code EXCEPT ![exit] = Append(@, AssertFalse)] ELSE code
      BY <2>4 DEF ConnectSinks
    <3> QED BY <2>2, <2>3, <3>2, <3>3, <3>4
  <2>5. CASE pc = "built" /\ UNCHANGED vars
    <3>1. code' = code
      BY <2>5 DEF vars
    <3> QED BY <1>3, <2>2, <2>3, <2>5, <3>1 DEF AssertInv
  <2> QED BY <2>1, <2>4, <2>5
<1> QED BY <1>2, <1>3 DEF AssertInv, BlockLabel

LEMMA AssertInvAlways == SimSpec => []AssertInv
<1>1. SimInit => AssertInv
  BY DEF SimInit, Init, AssertInv
<1>2. (GraphInv /\ CodeInv) /\ AssertInv /\ [SimNext]_allVars => AssertInv'
  <2>1. [SimNext]_allVars => [Next]_vars
    BY DEF SimNext, allVars, Build, Call, Step
  <2> QED BY <2>1, AssertInvStep
<1> QED BY <1>1, <1>2, CodeInvAlways, PTL DEF SimSpec

LEMMA SaveCodeType ==
    ASSUME fn \in Functions, NEW b \in Blocks, NEW d \in ToSet(SuccsOf(b))
    PROVE  /\ SaveCode(b, d) \in Seq(ToSet(SaveCode(b, d)))
           /\ \A st \in ToSet(SaveCode(b, d)) : st.op = "assign"
<1>1. PICK ts : ts = ToSave(b, d)
  OBVIOUS
<1>2. IsFiniteSet(ts) /\ ts \subseteq Int
  <2>1. PICK n \in Nat : DOMAIN fn.phis[d] = 1..n
    BY PhisFit
  <2>2. ts \in SUBSET (1..n)
    BY <1>1, <2>1 DEF ToSave
  <2>3. IsFiniteSet(ts)
    <3>1. IsFiniteSet(1..n)
      BY FS_Interval
    <3> QED BY <2>2, <3>1, FS_Subset
  <2> QED BY <2>2, <2>3
<1>3. PICK q \in Nat : InOrder(ts) \in [1..q -> ts]
  BY <1>2, InOrderProperties
<1>4. PICK c : c = SaveCode(b, d)
  OBVIOUS
<1>5. DOMAIN c = 1..q /\ c = [k \in 1..q |-> c[k]] /\ \A k \in 1..q : c[k].op = "assign"
  BY <1>1, <1>3, <1>4 DEF SaveCode, Assign
<1>6. c \in [1..q -> ToSet(c)] /\ \A st \in ToSet(c) : st.op = "assign"
  BY <1>5 DEF ToSet
<1> QED BY <1>4, <1>6, FunctionIsSeq

LEMMA AssignCodeType ==
    ASSUME fn \in Functions, NEW b \in Blocks, NEW d \in ToSet(SuccsOf(b))
    PROVE  /\ AssignCode(b, d) \in Seq(ToSet(AssignCode(b, d)))
           /\ \A st \in ToSet(AssignCode(b, d)) : st.op = "assign"
<1>1. PICK n \in Nat : DOMAIN fn.phis[d] = 1..n
  BY PhisFit
<1>2. PICK c : c = AssignCode(b, d)
  OBVIOUS
<1>3. DOMAIN c = 1..n /\ c = [k \in 1..n |-> c[k]] /\ \A k \in 1..n : c[k].op = "assign"
  BY <1>1, <1>2 DEF AssignCode, Assign
<1>4. c \in [1..n -> ToSet(c)] /\ \A st \in ToSet(c) : st.op = "assign"
  BY <1>3 DEF ToSet
<1> QED BY <1>2, <1>4, FunctionIsSeq

\* What a block of the graph is made of, but for the last assertion.
StatementsIn(a) ==
    IF fn.term[a].op = "br"
    THEN LET d == SuccsOf(a)[1] IN
         StatementsOf(a) \cup ToSet(SaveCode(a, d)) \cup ToSet(AssignCode(a, d))
    ELSE StatementsOf(a)

\* The translation of a block contains no assertion.
LEMMA CodeSoFarType ==
    ASSUME fn \in Functions, NEW a \in Blocks
    PROVE  /\ CodeSoFar(a) \in Seq(StatementsIn(a))
           /\ \A st \in StatementsIn(a) : st.op # "assert_false"
<1>1. BodyCode(a) \in Seq(StatementsOf(a))
  BY BodyCodeType
<1>2. \A st \in StatementsOf(a) : st.op # "assert_false"
  <2>1. \A i \in ToSet(fn.body[a]) : InstructionFits(fn, i)
    BY BlockFits DEF ToSet
  <2>2. \A i \in ToSet(fn.body[a]) : i.op # "assert_false"
    BY <2>1 DEF InstructionFits
  <2>3. \A x : Havoc(x).op = "havoc" /\ \A c : BoolAssign(x, c).op = "bool_assign"
    BY DEF Havoc, BoolAssign
  <2>4. Unreachable.op = "unreachable"
    BY DEF Unreachable
  <2> QED BY <2>2, <2>3, <2>4 DEF StatementsOf
<1>3. CASE fn.term[a].op = "br"
  <2>1. PICK d : d = SuccsOf(a)[1]
    OBVIOUS
  <2>2. d \in ToSet(SuccsOf(a))
    <3>1. Len(SuccsVector(a)) = 1 /\ SuccsVector(a) = SuccsOf(a)
      BY <1>3, SuccsVectorType
    <3> QED BY <2>1, <3>1, SuccsVectorType
  <2>3. PICK S : S = StatementsIn(a)
    OBVIOUS
  <2>4. S = StatementsOf(a) \cup ToSet(SaveCode(a, d)) \cup ToSet(AssignCode(a, d))
    BY <1>3, <2>1, <2>3 DEF StatementsIn
  <2>5. SaveCode(a, d) \in Seq(S) /\ AssignCode(a, d) \in Seq(S) /\ BodyCode(a) \in Seq(S)
    BY <1>1, <2>2, <2>4, SaveCodeType, AssignCodeType, SeqMonotone
  <2>6. PhiCode(a, d) \in Seq(S)
    <3>1. PICK c1 \in Seq(S), c2 \in Seq(S) : c1 = SaveCode(a, d) /\ c2 = AssignCode(a, d)
      BY <2>5
    <3>2. PhiCode(a, d) = c1 \o c2
      BY <3>1, PhiCodeParts
    <3>3. c1 \o c2 \in Seq(S)
      OBVIOUS
    <3> QED BY <3>2, <3>3
  <2>7. CodeSoFar(a) \in Seq(S)
    <3>1. BodyCode(a) \o PhiCode(a, d) \in Seq(S)
      BY <2>5, <2>6
    <3> QED BY <2>1, <2>5, <3>1 DEF CodeSoFar
  <2>8. \A st \in S : st.op # "assert_false"
    BY <1>2, <2>2, <2>4, SaveCodeType, AssignCodeType
  <2> QED BY <2>3, <2>7, <2>8
<1>4. CASE fn.term[a].op # "br"
  BY <1>1, <1>2, <1>4 DEF CodeSoFar, StatementsIn
<1> QED BY <1>3, <1>4

\* The code of a block that ends in unreachable has no end.
LEMMA UnreachableRuns ==
    ASSUME fn \in Functions, NEW a \in Blocks, fn.term[a].op = "unreachable", NEW S
    PROVE  Run(CodeSoFar(a), S) = {}
<1>1. PICK body \in Seq(StatementsOf(a)) : body = FlattenSeq(Translated(a))
  BY TranslatedType, FlattenType
<1>2. PICK st : st = Unreachable
  OBVIOUS
<1>3. CodeSoFar(a) = body \o <<st>> /\ body \o <<st>> = Append(body, st)
  BY <1>1, <1>2 DEF CodeSoFar, BodyCode, Translated
<1>4. st \in StatementsOf(a) /\ \A s : Effect(st, s) = {}
  BY <1>2 DEF StatementsOf, Effect, Unreachable
<1>5. PICK T : T = StatementsOf(a)
  OBVIOUS
<1>6. Run(Append(body, st), S) = Outcomes(st, Run(body, S))
  BY <1>4, <1>5, RunAppend
<1> QED BY <1>3, <1>4, <1>6 DEF Outcomes

\* A return is the exit.
LEMMA ReturnIsExit ==
    ASSUME GraphInv, NEW a \in Blocks, fn.term[a].op = "ret"
    PROVE  exit = BlockLabel(a)
<1>1. fn \in Functions
  BY DEF GraphInv, TypeOK
<1>2. a \in Ending("ret") /\ Ending("ret") \subseteq Blocks
  BY DEF Ending
<1>3. FirstIn(Ending("ret")) \in Ending("ret")
  BY <1>1, <1>2, FirstLast
<1>4. FirstIn(Ending("ret")) = a
  BY <1>1, <1>2, <1>3, FunctionAssumption DEF Unified, Ending, Blocks
<1>5. exit = ExitOf
  BY DEF GraphInv
<1> QED BY <1>2, <1>4, <1>5 DEF ExitOf

\* Where an assertion of a block of the graph is reached.
LEMMA ReachesErrorIn ==
    ASSUME NEW T, NEW c \in Seq(T), NEW st, st.op = "assert_false",
           \A s \in T : s.op # "assert_false", NEW S
    PROVE  /\ ~ ReachesError(c, S)
           /\ ReachesError(Append(c, st), S) <=> Run(c, S) # {}
<1>1. PICK n \in Nat : n = Len(c) /\ DOMAIN c = 1..n /\ \A k \in 1..n : c[k] \in T
  OBVIOUS
<1>2. PICK c2 : c2 = Append(c, st)
  OBVIOUS
<1>3. /\ DOMAIN c2 = 1..(n + 1) /\ c2[n + 1] = st /\ \A k \in 1..n : c2[k] = c[k]
      /\ SubSeq(c2, 1, n) = c
  <2>1. PICK U : U = T \cup {st}
    OBVIOUS
  <2>2. c \in Seq(U) /\ st \in U
    BY <2>1, SeqMonotone
  <2>3. /\ DOMAIN Append(c, st) = 1..(n + 1) /\ Append(c, st)[n + 1] = st
        /\ \A k \in 1..n : Append(c, st)[k] = c[k]
    BY <1>1, <2>2
  <2>4. SubSeq(Append(c, st), 1, n) = c
    <3>1. SubSeq(Append(c, st), 1, n) = [k \in 1..n |-> Append(c, st)[k]]
      BY <1>1, <2>2
    <3>2. c = [k \in 1..n |-> c[k]]
      BY <1>1
    <3> QED BY <2>3, <3>1, <3>2
  <2> QED BY <1>2, <2>3, <2>4
<1>4. \A k \in 1..n : c[k].op # "assert_false"
  BY <1>1
<1>5. ~ ReachesError(c, S)
  BY <1>1, <1>4 DEF ReachesError
<1>6. ReachesError(c2, S) <=> Run(c, S) # {}
  <2>1. ASSUME NEW k \in 1..(n + 1) PROVE c2[k].op = "assert_false" <=> k = n + 1
    <3>1. k \in 1..n \/ k = n + 1
      BY <1>1
    <3>2. k \in 1..n => k # n + 1
      BY <1>1
    <3> QED BY <1>3, <1>4, <3>1, <3>2
  <2>2. n + 1 \in 1..(n + 1) /\ (n + 1) - 1 = n
    BY <1>1
  <2>3. SubSeq(c2, 1, (n + 1) - 1) = c
    BY <1>3, <2>2
  <2> QED BY <1>3, <2>1, <2>2, <2>3 DEF ReachesError
<1> QED BY <1>2, <1>5, <1>6

(***************************************************************************)
(* The assertion that stands for seahorn.fail: CrabIR reaches it only      *)
(* where main returns after a call, and it reaches it whenever main gets   *)
(* to the return, whichever the block of the call (m_has_seahorn_fail, the *)
(* end of buildCfg), unless the exit is no end of main.                    *)
(***************************************************************************)
THEOREM ErrorsAreReturns ==
    ASSUME IncludeUselessHavoc
    PROVE  SimSpec => []FailsIffReturns
<1>1. GraphInv /\ CodeInv /\ SimInv /\ AssertInv => FailsIffReturns
  <2> SUFFICES ASSUME GraphInv, CodeInv, SimInv, AssertInv, blk # NoBlock, ExitStops
               PROVE  LET fails == ReachesError(code[BlockLabel(blk)], stores)
                          returns == fn.term[blk].op = "ret" /\ \E b \in visited : CallsFail(b)
                      IN  /\ fails => returns
                          /\ returns /\ RunBody(fn, blk, env) # {} => fails
    BY DEF FailsIffReturns
  <2>1. PICK a : a = blk
    OBVIOUS
  <2>2. pc = "built" /\ a \in visited /\ a \in Blocks /\ fn \in Functions
    BY <2>1, AllProcessed DEF SimInv
  <2>3. PICK c \in Seq(StatementsIn(a)) : c = CodeSoFar(a)
    BY <2>2, CodeSoFarType
  <2>4. PICK st : st = AssertFalse
    OBVIOUS
  <2>5. /\ ~ ReachesError(c, stores)
        /\ ReachesError(Append(c, st), stores) <=> Run(c, stores) # {}
    <3>1. st.op = "assert_false"
      BY <2>4 DEF AssertFalse
    <3>2. PICK T : T = StatementsIn(a)
      OBVIOUS
    <3>3. PICK S : S = stores
      OBVIOUS
    <3>4. c \in Seq(T) /\ \A s \in T : s.op # "assert_false"
      BY <2>2, <3>2, CodeSoFarType
    <3> QED BY <3>1, <3>3, <3>4, ReachesErrorIn
  <2>6. code[BlockLabel(a)] = IF BlockLabel(a) = exit /\ hasFail THEN Append(c, st) ELSE c
    BY <2>2, <2>3, <2>4 DEF AssertInv
  <2>7. ASSUME ReachesError(code[BlockLabel(a)], stores)
        PROVE  fn.term[a].op = "ret" /\ \E b \in visited : CallsFail(b)
    <3>1. BlockLabel(a) = exit /\ hasFail /\ Run(c, stores) # {}
      BY <2>5, <2>6, <2>7
    <3>2. \E b \in visited : CallsFail(b)
      BY <3>1 DEF AssertInv
    <3>3. fn.term[a].op \in {"ret", "unreachable"}
      BY <2>2, <3>1 DEF ExitStops
    <3>4. fn.term[a].op # "unreachable"
      BY <2>2, <2>3, <3>1, UnreachableRuns
    <3> QED BY <3>2, <3>3, <3>4
  <2>8. ASSUME fn.term[a].op = "ret", NEW b \in visited, CallsFail(b), RunBody(fn, a, env) # {}
        PROVE  ReachesError(code[BlockLabel(a)], stores)
    <3>1. hasFail /\ BlockLabel(a) = exit
      BY <2>2, <2>8, ReturnIsExit DEF AssertInv
    <3>2. PICK body \in Seq(StatementsOf(a)) : body = FlattenSeq(Translated(a))
      BY <2>2, TranslatedType, FlattenType
    <3>3. c = body
      <4>1. CodeSoFar(a) = body \o <<>>
        BY <2>8, <3>2 DEF CodeSoFar, BodyCode, Translated
      <4>2. body \o <<>> = body
        OBVIOUS
      <4> QED BY <2>3, <4>1, <4>2
    <3>4. PICK s \in stores : s \in St /\ Agree(s, env)
      BY DEF SimInv, St
    <3>5. env \in St
      BY DEF SimInv, St
    <3>6. PICK m : m \in RunBody(fn, a, env)
      BY <2>8
    <3>7. \E t \in Run(body, {s}) : t \in St
      BY <2>2, <3>2, <3>4, <3>5, <3>6, BodyRuns
    <3>8. Run(body, {s}) \subseteq Run(body, stores)
      <4>1. {s} \subseteq stores /\ Len(body) \in Nat
        OBVIOUS
      <4> QED BY <4>1, RunMonotone
    <3> QED BY <2>5, <2>6, <3>1, <3>3, <3>7, <3>8
  <2> QED BY <2>1, <2>7, <2>8
<1> QED BY <1>1, AssertInvAlways, SimInvAlways, PTL

-----------------------------------------------------------------------------
(* The translation is exact: instructions *)

\* One instruction on both sides. What CrabIR can do, LLVM can.
LEMMA InstructionRunsBack ==
    ASSUME fn \in Functions, IncludeUselessHavoc, NEW i, InstructionFits(fn, i),
           NEW e \in St, NEW s \in St, Agree(s, e), NEW s2 \in Run(Translate(i), {s})
    PROVE  s2 \in St /\ \E e2 \in Run(Meaning(fn, i), {e}) : e2 \in St /\ Agree(s2, e2)
<1>1. \A x \in Known : x \in fn.vars
  BY KnownIsVar
<1>2. ASSUME NEW x \in fn.vars, NEW v \in Val
      PROVE  Agree(With(s, x, v), With(e, x, v)) /\ With(s, x, v) \in St /\ With(e, x, v) \in St
  <2>1. With(s, x, v) \in St /\ With(e, x, v) \in St
    BY StoreWith
  <2>2. ASSUME NEW y \in Known PROVE With(s, x, v)[y] = With(e, x, v)[y]
    BY <1>1, StoreWith DEF Agree
  <2> QED BY <2>1, <2>2 DEF Agree
<1>3. CASE i.op = "nondet"
  <2>1. i.lhs \in fn.vars
    BY <1>3 DEF InstructionFits
  <2>2. Meaning(fn, i) = <<Havoc(i.lhs)>> /\ Translate(i) = <<Havoc(i.lhs)>>
    BY <1>3 DEF Meaning, Translate
  <2>3. \A u : Run(<<Havoc(i.lhs)>>, {u}) = {With(u, i.lhs, v) : v \in Val}
    <3> TAKE u
    <3>1. PICK st : st = Havoc(i.lhs)
      OBVIOUS
    <3>2. st.op = "havoc" /\ st.lhs = i.lhs
      BY <3>1 DEF Havoc
    <3>3. Effect(st, u) = {With(u, st.lhs, v) : v \in Val}
      BY <3>2 DEF Effect
    <3> QED BY <3>1, <3>2, <3>3, RunStatement
  <2>4. PICK v \in Val : s2 = With(s, i.lhs, v)
    BY <2>2, <2>3
  <2>5. With(e, i.lhs, v) \in Run(Meaning(fn, i), {e})
    BY <2>2, <2>3
  <2> QED BY <1>2, <2>1, <2>4, <2>5
<1>4. CASE i.op \in {"assign", "add1"}
  <2>1. i.lhs \in fn.vars /\ OperandFits(fn, i.rhs)
    BY <1>4 DEF InstructionFits
  <2>2. Meaning(fn, i) = <<i>> /\ Translate(i) = <<i>>
    BY <1>4 DEF Meaning, Translate
  <2>3. s2 \in Effect(i, s) /\ Run(Meaning(fn, i), {e}) = Effect(i, e)
    BY <2>2, RunStatement
  <2>4. ValuesOf(i.rhs, s) = ValuesOf(i.rhs, e) /\ ValuesOf(i.rhs, e) \subseteq Val
    <3>1. \A x \in Reads(i.rhs) : s[x] = e[x]
      BY <2>1, ReadsKnown DEF Agree
    <3> QED BY <2>1, <3>1, SameOperand, OperandValues
  <2>5. CASE i.op = "assign"
    <3>1. \A u : Effect(i, u) = {With(u, i.lhs, v) : v \in ValuesOf(i.rhs, u)}
      BY <2>5 DEF Effect
    <3>2. PICK v \in ValuesOf(i.rhs, s) : s2 = With(s, i.lhs, v)
      BY <2>3, <3>1
    <3>3. v \in Val /\ With(e, i.lhs, v) \in Run(Meaning(fn, i), {e})
      BY <2>3, <2>4, <3>1
    <3> QED BY <1>2, <2>1, <3>2, <3>3
  <2>6. CASE i.op = "add1"
    <3>1. \A u : Effect(i, u) = {With(u, i.lhs, v + 1) :
                                     v \in {v \in ValuesOf(i.rhs, u) : v + 1 \in Val}}
      BY <2>6 DEF Effect
    <3>2. PICK v \in ValuesOf(i.rhs, s) : v + 1 \in Val /\ s2 = With(s, i.lhs, v + 1)
      BY <2>3, <3>1
    <3>3. With(e, i.lhs, v + 1) \in Effect(i, e)
      BY <2>4, <3>1, <3>2
    <3> QED BY <1>2, <2>1, <2>3, <3>2, <3>3
  <2> QED BY <1>4, <2>5, <2>6
<1>5. CASE i.op = "cmp"
  <2>1. PICK c : c = i.lhs
    OBVIOUS
  <2>2. PICK cst : cst = fn.cmps[c].cst
    OBVIOUS
  <2>3. c \in DOMAIN fn.cmps /\ c \in fn.vars
    BY <1>5, <2>1, <2>2, CmpFits DEF InstructionFits
  <2>4. \A x \in VarsOf(cst) : x \in Known
    BY <2>2, <2>3, CmpFits, ReadsKnown DEF VarsOf
  <2>5. PICK v \in {0, 1} : v = IF Holds(cst, e) THEN 1 ELSE 0
    OBVIOUS
  <2>6. v \in Val
    BY ZeroOne
  <2>7. \A u : Run(<<BoolAssign(c, cst)>>, {u}) = {With(u, c, IF Holds(cst, u) THEN 1 ELSE 0)}
    BY RunStatement DEF Effect, BoolAssign
  <2>8. With(e, c, v) \in Run(Meaning(fn, i), {e})
    <3>1. Meaning(fn, i) = <<BoolAssign(c, cst)>>
      BY <1>5, <2>1, <2>2 DEF Meaning
    <3> QED BY <2>5, <2>7, <3>1
  <2>9. CASE Materialised(c)
    <3>1. Translate(i) = <<BoolAssign(c, cst)>>
      BY <1>5, <2>1, <2>2, <2>9 DEF Translate
    <3>2. Holds(cst, s) <=> Holds(cst, e)
      BY <2>2, <2>3, <2>4, SameCmp DEF Agree
    <3>3. s2 = With(s, c, v)
      BY <2>5, <2>7, <3>1, <3>2
    <3> QED BY <1>2, <2>3, <2>6, <2>8, <3>3
  <2>10. CASE ~ Materialised(c)
    <3>1. Translate(i) = <<>>
      BY <1>5, <2>1, <2>10 DEF Translate
    <3>2. s2 = s
      BY <3>1, RunEmpty
    <3>3. c \notin Known
      BY <2>3, <2>10 DEF Known, KnownIn, Materialised
    <3>4. Agree(s, With(e, c, v))
      BY <1>1, <2>3, <2>6, <3>3, StoreWith DEF Agree
    <3> QED BY <1>2, <2>3, <2>6, <2>8, <3>2, <3>4
  <2> QED BY <2>9, <2>10
<1>6. CASE i.op = "fail"
  <2>1. Meaning(fn, i) = <<>> /\ Translate(i) = <<>>
    BY <1>6 DEF Meaning, Translate
  <2> QED BY <2>1, RunEmpty
<1> QED BY <1>3, <1>4, <1>5, <1>6 DEF InstructionFits

\* The code f[k] of k instructions, from s, does not outrun g[k] from e.
StaysBehind(f, g, k, s, e) ==
    \A t \in Run(f[k], {s}) :
        t \in St /\ \E m \in Run(g[k], {e}) : m \in St /\ Agree(t, m)

LEMMA BodyStepBack ==
    ASSUME fn \in Functions, IncludeUselessHavoc, NEW b \in Blocks, NEW e \in St, NEW s \in St,
           NEW f, Flattens(f, StatementsOf(b), Translated(b)),
           NEW g, Flattens(g, StatementsOf(b), Meanings(b)),
           NEW k \in 1..Len(fn.body[b]), StaysBehind(f, g, k - 1, s, e)
    PROVE  StaysBehind(f, g, k, s, e)
<1> SUFFICES ASSUME NEW t2 \in Run(f[k], {s})
             PROVE  t2 \in St /\ \E m2 \in Run(g[k], {e}) : m2 \in St /\ Agree(t2, m2)
  BY DEF StaysBehind
<1>1. PICK i : i = fn.body[b][k]
  OBVIOUS
<1>2. k \in DOMAIN fn.body[b] /\ InstructionFits(fn, i)
  BY <1>1, BlockFits
<1>3. PICK T : T = StatementsOf(b)
  OBVIOUS
<1>4. PICK ts \in Seq(Seq(T)), ms \in Seq(Seq(T)) : ts = Translated(b) /\ ms = Meanings(b)
  BY <1>3, TranslatedType
<1>5. /\ ts[k] = Translate(i) /\ ms[k] = Meaning(fn, i)
      /\ k \in 1..Len(ts) /\ k \in 1..Len(ms) /\ Flattens(f, T, ts) /\ Flattens(g, T, ms)
  BY <1>1, <1>2, <1>3, <1>4, TranslatedType DEF Translated, Meanings
<1>6. f[k - 1] \in Seq(T) /\ ts[k] \in Seq(T) /\ f[k] = f[k - 1] \o ts[k]
  BY <1>5, OneMore
<1>7. g[k - 1] \in Seq(T) /\ ms[k] \in Seq(T) /\ g[k] = g[k - 1] \o ms[k]
  BY <1>5, OneMore
<1>8. PICK S, E : S = {s} /\ E = {e}
  OBVIOUS
<1>9. Run(f[k], S) = Run(ts[k], Run(f[k - 1], S)) /\ Len(ts[k]) \in Nat
  BY <1>6, RunConcat
<1>10. PICK t \in Run(f[k - 1], S) : t2 \in Run(ts[k], {t})
  BY <1>8, <1>9, RunPointwise
<1>11. PICK m \in Run(g[k - 1], E) : t \in St /\ m \in St /\ Agree(t, m)
  BY <1>8, <1>10 DEF StaysBehind
<1>12. t2 \in St /\ \E m2 \in Run(ms[k], {m}) : m2 \in St /\ Agree(t2, m2)
  BY <1>2, <1>5, <1>10, <1>11, InstructionRunsBack
<1>13. PICK m2 \in Run(ms[k], {m}) : m2 \in St /\ Agree(t2, m2)
  BY <1>12
<1>14. m2 \in Run(g[k], {e})
  <2>1. m \in Run(g[k - 1], {e})
    BY <1>8, <1>11
  <2> QED BY <1>7, <1>13, <2>1, RunInto
<1> QED BY <1>12, <1>13, <1>14

\* The instructions of a block: what CrabIR can do, LLVM can.
LEMMA BodyRunsBack ==
    ASSUME fn \in Functions, IncludeUselessHavoc, NEW b \in Blocks, NEW e \in St,
           NEW s \in St, Agree(s, e), NEW t \in Run(FlattenSeq(Translated(b)), {s})
    PROVE  t \in St /\ \E m \in RunBody(fn, b, e) : m \in St /\ Agree(t, m)
<1>1. PICK n \in Nat : n = Len(fn.body[b])
  BY BlockFits
<1>2. /\ Translated(b) \in Seq(Seq(StatementsOf(b))) /\ Meanings(b) \in Seq(Seq(StatementsOf(b)))
      /\ Len(Translated(b)) = n /\ Len(Meanings(b)) = n
  BY <1>1, TranslatedType
<1>3. PICK f : Flattens(f, StatementsOf(b), Translated(b)) /\ FlattenSeq(Translated(b)) = f[n]
  BY <1>2, FlattenSteps
<1>4. PICK g : Flattens(g, StatementsOf(b), Meanings(b)) /\ FlattenSeq(Meanings(b)) = g[n]
  BY <1>2, FlattenSteps
<1>5. RunBody(fn, b, e) = Run(g[n], {e})
  BY <1>4 DEF RunBody, Meanings
<1> DEFINE P == {k \in 0..n : StaysBehind(f, g, k, s, e)}
<1>6. StaysBehind(f, g, 0, s, e)
  <2>1. f[0] = <<>> /\ g[0] = <<>>
    BY <1>3, <1>4 DEF Flattens
  <2>2. Run(g[0], {e}) = {e} /\ Run(f[0], {s}) = {s}
    BY <2>1, RunEmpty
  <2> QED BY <2>2 DEF StaysBehind
<1>7. 0 \in P
  BY <1>6
<1>8. ASSUME NEW k \in 1..n, k - 1 \in P PROVE k \in P
  <2>1. StaysBehind(f, g, k - 1, s, e)
    BY <1>8
  <2>2. StaysBehind(f, g, k, s, e)
    BY <1>1, <1>3, <1>4, <2>1, BodyStepBack
  <2> QED BY <2>2
<1> HIDE DEF P
<1>9. \A k \in 0..n : k \in P
  BY <1>7, <1>8, UpTo
<1>10. StaysBehind(f, g, n, s, e)
  BY <1>9 DEF P
<1> QED BY <1>3, <1>5, <1>10 DEF StaysBehind


LEMMA RunThrough ==
    ASSUME NEW T1, NEW c1 \in Seq(T1), NEW T2, NEW c2 \in Seq(T2), NEW S,
           NEW u \in Run(c1 \o c2, S)
    PROVE  \E t \in Run(c1, S) : u \in Run(c2, {t})
<1>1. PICK T : T = T1 \cup T2
  OBVIOUS
<1>2. c1 \in Seq(T) /\ c2 \in Seq(T)
  BY <1>1, SeqMonotone
<1>3. Run(c1 \o c2, S) = Run(c2, Run(c1, S)) /\ Len(c2) \in Nat
  BY <1>2, RunConcat
<1> QED BY <1>3, RunPointwise

-----------------------------------------------------------------------------
(* The translation is exact: phi nodes *)

LEMMA SaveRunsBack ==
    ASSUME fn \in Functions, NEW b \in Blocks, NEW d \in ToSet(SuccsOf(b)), NEW t \in St,
           NEW w \in Run(SaveCode(b, d), {t})
    PROVE  HasCopies(w, t, ToSave(b, d), b, d)
<1>1. PICK ts : ts = ToSave(b, d)
  OBVIOUS
<1>2. ts \subseteq DOMAIN fn.phis[d] /\ IsFiniteSet(ts) /\ ts \subseteq Int
  <2>1. PICK n \in Nat : DOMAIN fn.phis[d] = 1..n
    BY PhisFit
  <2>2. ts \in SUBSET (1..n)
    BY <1>1, <2>1 DEF ToSave
  <2>3. IsFiniteSet(ts)
    <3>1. IsFiniteSet(1..n)
      BY FS_Interval
    <3> QED BY <2>2, <3>1, FS_Subset
  <2> QED BY <2>1, <2>2, <2>3
<1>3. PICK q \in Nat : InOrder(ts) \in [1..q -> ts] /\ \A m \in ts : \E k \in 1..q : InOrder(ts)[k] = m
  BY <1>2, InOrderProperties
<1>4. PICK o : o = InOrder(ts)
  OBVIOUS
<1>5. PICK c : c = SaveCode(b, d)
  OBVIOUS
<1>6. c = [k \in 1..q |-> Assign(Copied(b, d, o[k]), Operand(b, d, o[k]))]
  BY <1>1, <1>3, <1>4, <1>5 DEF SaveCode
<1>7. Len(c) = q /\ DOMAIN c = 1..q
  <2>1. DOMAIN c = 1..q /\ c = [k \in 1..q |-> c[k]]
    BY <1>6
  <2>2. \A k \in 1..q : c[k] \in ToSet(c)
    BY <2>1 DEF ToSet
  <2>3. c \in [1..q -> ToSet(c)]
    BY <2>1, <2>2
  <2> QED BY <2>3, FunctionIsSeq
<1>8. PICK f : Traces(f, c, {t}) /\ Run(c, {t}) = f[q]
  BY <1>7, RunTraces
<1> DEFINE Done(k) == {o[j] : j \in 1..k}
           P == {k \in 0..q : \A u \in f[k] : HasCopies(u, t, Done(k), b, d)}
<1>9. 0 \in P
  <2>1. f[0] = {t} /\ HasCopies(t, t, Done(0), b, d)
    BY <1>8 DEF Traces, HasCopies, St
  <2> QED BY <2>1
<1>10. ASSUME NEW k \in 1..q, k - 1 \in P PROVE k \in P
  <2> SUFFICES ASSUME NEW u \in f[k] PROVE HasCopies(u, t, Done(k), b, d)
    OBVIOUS
  <2>1. o[k] \in ts
    BY <1>3, <1>4
  <2>2. PICK y : y = Operand(b, d, o[k])[2]
    OBVIOUS
  <2>3. y \in fn.vars /\ Operand(b, d, o[k]) = V(y) /\ Copied(b, d, o[k]) = OldCopy(y)
    BY <1>1, <1>2, <2>1, <2>2, SavedIsVar DEF ToSave, Copied
  <2>4. PICK v \in f[k - 1] : u = With(v, OldCopy(y), v[y])
    <3>1. f[k] = Outcomes(c[k], f[k - 1])
      BY <1>7, <1>8 DEF Traces
    <3>2. c[k] = Assign(OldCopy(y), V(y))
      BY <1>6, <2>3
    <3>3. PICK v \in f[k - 1] : u \in Effect(c[k], v)
      BY <3>1 DEF Outcomes
    <3> QED BY <3>2, <3>3, AssignEffect, ValueOfVar
  <2>5. HasCopies(v, t, Done(k - 1), b, d)
    BY <1>10, <2>4
  <2>6. /\ DOMAIN u = DOMAIN v \cup {OldCopy(y)} /\ u[OldCopy(y)] = v[y]
        /\ \A x \in DOMAIN v : x # OldCopy(y) => u[x] = v[x]
    BY <2>4 DEF With
  <2>7. v[y] = t[y] /\ fn.vars \subseteq DOMAIN v /\ \A x \in fn.vars : v[x] = t[x]
    BY <2>3, <2>5 DEF HasCopies
  <2>8. \A x \in fn.vars : x # OldCopy(y)
    BY <2>3, OldCopyFacts
  <2>9. ASSUME NEW j \in 1..k
        PROVE  /\ Copied(b, d, o[j]) \in DOMAIN u
               /\ u[Copied(b, d, o[j])] = t[Operand(b, d, o[j])[2]]
    <3>1. CASE j = k
      BY <2>2, <2>3, <2>6, <2>7, <3>1
    <3>2. CASE j # k
      <4>1. j \in 1..(k - 1) /\ j \in 1..q
        BY <3>2
      <4>2. o[j] \in Done(k - 1) /\ o[j] \in ts
        BY <1>3, <1>4, <4>1
      <4>3. PICK z : z = Operand(b, d, o[j])[2]
        OBVIOUS
      <4>4. z \in fn.vars /\ Copied(b, d, o[j]) = OldCopy(z)
        BY <1>1, <1>2, <4>2, <4>3, SavedIsVar DEF ToSave, Copied
      <4>5. OldCopy(z) \in DOMAIN v /\ v[OldCopy(z)] = t[z]
        BY <2>5, <4>2, <4>3, <4>4 DEF HasCopies
      <4>6. OldCopy(z) = OldCopy(y) => z = y
        BY <2>3, <4>4, OldCopyFacts
      <4> QED BY <2>6, <2>7, <4>3, <4>4, <4>5, <4>6
    <3> QED BY <3>1, <3>2
  <2> QED BY <2>6, <2>7, <2>8, <2>9 DEF HasCopies
<1> HIDE DEF P
<1>11. \A k \in 0..q : k \in P
  BY <1>9, <1>10, UpTo
<1>12. Done(q) = ts
  BY <1>3, <1>4
<1> HIDE DEF Done
<1>13. q \in P
  BY <1>11
<1> QED BY <1>1, <1>5, <1>8, <1>12, <1>13 DEF P

\* What the second loop has done after k phi nodes, from store t.
HasRead(u, t, k, b, d) ==
    /\ HasAssigned(u, t, u, k, b, d)
    /\ \A j \in 1..k : u[fn.phis[d][j].lhs] \in ValuesOf(Operand(b, d, j), t)

LEMMA AssignRunsBack ==
    ASSUME fn \in Functions, NEW b \in Blocks, NEW d \in ToSet(SuccsOf(b)), NEW t \in St,
           NEW w, HasCopies(w, t, ToSave(b, d), b, d), NEW u2 \in Run(AssignCode(b, d), {w})
    PROVE  HasRead(u2, t, Len(fn.phis[d]), b, d)
<1>1. PICK n \in Nat : n = Len(fn.phis[d]) /\ DOMAIN fn.phis[d] = 1..n
  BY PhisFit
<1>2. PICK c : c = AssignCode(b, d)
  OBVIOUS
<1>3. c = [k \in 1..n |-> Assign(fn.phis[d][k].lhs, ReadBy(b, d, k))]
  BY <1>1, <1>2 DEF AssignCode
<1>4. Len(c) = n /\ DOMAIN c = 1..n
  <2>1. DOMAIN c = 1..n /\ c = [k \in 1..n |-> c[k]]
    BY <1>3
  <2>2. \A k \in 1..n : c[k] \in ToSet(c)
    BY <2>1 DEF ToSet
  <2>3. c \in [1..n -> ToSet(c)]
    BY <2>1, <2>2
  <2> QED BY <2>3, FunctionIsSeq
<1>5. PICK f : Traces(f, c, {w}) /\ Run(c, {w}) = f[n]
  BY <1>4, RunTraces
<1> DEFINE P == {k \in 0..n : \A v \in f[k] : HasRead(v, t, k, b, d)}
<1>6. 0 \in P
  <2>1. f[0] = {w} /\ HasRead(w, t, 0, b, d)
    BY <1>5 DEF Traces, HasCopies, HasAssigned, HasRead
  <2> QED BY <2>1
<1>7. ASSUME NEW k \in 1..n, k - 1 \in P PROVE k \in P
  <2> SUFFICES ASSUME NEW v \in f[k] PROVE HasRead(v, t, k, b, d)
    OBVIOUS
  <2>1. PICK x : x = fn.phis[d][k].lhs
    OBVIOUS
  <2>2. PICK u \in f[k - 1] : \E z \in ValuesOf(ReadBy(b, d, k), u) : v = With(u, x, z)
    <3>1. f[k] = Outcomes(c[k], f[k - 1])
      BY <1>4, <1>5 DEF Traces
    <3>2. c[k] = Assign(x, ReadBy(b, d, k))
      BY <1>3, <2>1
    <3>3. PICK u \in f[k - 1] : v \in Effect(c[k], u)
      BY <3>1 DEF Outcomes
    <3> QED BY <3>2, <3>3, AssignEffect
  <2>3. HasAssigned(u, t, u, k - 1, b, d) /\ HasRead(u, t, k - 1, b, d)
    BY <1>7, <2>2 DEF HasRead
  <2>4. k \in DOMAIN fn.phis[d] /\ x \in fn.vars
    BY <1>1, <2>1, PhisFit
  <2>5. ValuesOf(ReadBy(b, d, k), u) = ValuesOf(Operand(b, d, k), t)
    <3>1. k - 1 \in Nat /\ (k - 1) + 1 = k
      OBVIOUS
    <3> QED BY <2>3, <2>4, <3>1, ReadByValues
  <2>6. PICK z \in ValuesOf(Operand(b, d, k), t) : v = With(u, x, z)
    BY <2>2, <2>5
  <2>7. /\ DOMAIN v = DOMAIN u \cup {x} /\ v[x] = z
        /\ \A y \in DOMAIN u : y # x => v[y] = u[y]
    BY <2>6 DEF With
  <2>8. fn.vars \subseteq DOMAIN u
    BY <2>3 DEF HasAssigned
  <2>9. ASSUME NEW y \in fn.vars, \A j \in 1..k : fn.phis[d][j].lhs # y
        PROVE  v[y] = t[y]
    <3>1. y # x /\ \A j \in 1..(k - 1) : fn.phis[d][j].lhs # y
      <4>1. k \in 1..k /\ 1..(k - 1) \subseteq 1..k
        OBVIOUS
      <4> QED BY <2>1, <2>9, <4>1
    <3>2. u[y] = t[y]
      BY <2>3, <3>1 DEF HasAssigned
    <3> QED BY <2>7, <2>8, <3>1, <3>2
  <2>10. ASSUME NEW j \in ToSave(b, d)
         PROVE  /\ Copied(b, d, j) \in DOMAIN v
                /\ v[Copied(b, d, j)] = t[Operand(b, d, j)[2]]
    <3>1. /\ Copied(b, d, j) \in DOMAIN u
          /\ u[Copied(b, d, j)] = t[Operand(b, d, j)[2]]
      BY <2>3 DEF HasAssigned
    <3>2. Copied(b, d, j) # x
      <4>1. j \in DOMAIN fn.phis[d] /\ Operand(b, d, j) \in PhiOperands(d)
        BY DEF ToSave
      <4>2. Operand(b, d, j)[2] \in fn.vars
        BY <4>1, SavedIsVar
      <4> QED BY <2>4, <4>2, OldCopyFacts DEF Copied
    <3> QED BY <2>7, <3>1, <3>2
  <2>11. HasAssigned(v, t, v, k, b, d)
    BY <2>7, <2>8, <2>9, <2>10 DEF HasAssigned
  <2>12. ASSUME NEW j \in 1..k PROVE v[fn.phis[d][j].lhs] \in ValuesOf(Operand(b, d, j), t)
    <3>1. CASE j = k
      BY <2>1, <2>6, <2>7, <3>1
    <3>2. CASE j # k
      <4>1. j \in 1..(k - 1) /\ j \in DOMAIN fn.phis[d]
        BY <1>1, <3>2
      <4>2. fn.phis[d][j].lhs # x /\ fn.phis[d][j].lhs \in fn.vars
        BY <2>1, <2>4, <3>2, <4>1, PhisFit
      <4>3. u[fn.phis[d][j].lhs] \in ValuesOf(Operand(b, d, j), t)
        BY <2>3, <4>1 DEF HasRead
      <4> QED BY <2>7, <2>8, <4>2, <4>3
    <3> QED BY <3>1, <3>2
  <2> QED BY <2>11, <2>12 DEF HasRead
<1> HIDE DEF P
<1>8. \A k \in 0..n : k \in P
  BY <1>6, <1>7, UpTo
<1>9. n \in P
  BY <1>8
<1> QED BY <1>1, <1>2, <1>5, <1>9 DEF P

(***************************************************************************)
(* The statements of the phi nodes, from a store that agrees with the      *)
(* program's, reach only values with which the program enters d.           *)
(***************************************************************************)
LEMMA PhiRunsBack ==
    ASSUME fn \in Functions, NEW b \in Blocks, NEW d \in ToSet(SuccsOf(b)), NEW t \in St,
           NEW m \in St, Agree(t, m), NEW u \in Run(PhiCode(b, d), {t})
    PROVE  SameOutside(u, t, d) /\ \E e2 \in EnterBlock(fn, b, d, m) : Enters(u, e2)
<1>1. PICK w \in Run(SaveCode(b, d), {t}) : u \in Run(AssignCode(b, d), {w})
  <2>0. PICK S1, S2, S : S1 = ToSet(SaveCode(b, d)) /\ S2 = ToSet(AssignCode(b, d)) /\ S = {t}
    OBVIOUS
  <2>1. PICK c1 \in Seq(S1) : c1 = SaveCode(b, d)
    BY <2>0, SaveCodeType
  <2>2. PICK c2 \in Seq(S2) : c2 = AssignCode(b, d)
    BY <2>0, AssignCodeType
  <2>4. u \in Run(c1 \o c2, S)
    BY <2>0, <2>1, <2>2, PhiCodeParts
  <2>5. \E w \in Run(c1, S) : u \in Run(c2, {w})
    BY <2>4, RunThrough
  <2> QED BY <2>0, <2>1, <2>2, <2>5
<1>2. HasRead(u, t, Len(fn.phis[d]), b, d)
  BY <1>1, SaveRunsBack, AssignRunsBack
<1>3. PICK phis : phis = fn.phis[d]
  OBVIOUS
<1>4. DOMAIN phis = 1..Len(phis) /\ \A k \in DOMAIN phis : phis[k].lhs \in fn.vars
  BY <1>3, PhisFit
<1>5. /\ fn.vars \subseteq DOMAIN u
      /\ \A x \in fn.vars : (\A k \in DOMAIN phis : phis[k].lhs # x) => u[x] = t[x]
      /\ \A k \in DOMAIN phis : u[phis[k].lhs] \in ValuesOf(Operand(b, d, k), t)
  BY <1>2, <1>3, <1>4 DEF HasRead, HasAssigned
<1>6. SameOutside(u, t, d)
  BY <1>3, <1>5 DEF SameOutside
<1>7. ASSUME NEW k \in DOMAIN phis
      PROVE  /\ u[phis[k].lhs] \in ValuesOf(Operand(b, d, k), m)
             /\ u[phis[k].lhs] \in Val
  <2>1. OperandFits(fn, Operand(b, d, k))
    BY <1>3, PhisFit
  <2>2. \A y \in Reads(Operand(b, d, k)) : t[y] = m[y]
    BY <2>1, ReadsKnown DEF Agree
  <2>3. /\ ValuesOf(Operand(b, d, k), t) = ValuesOf(Operand(b, d, k), m)
        /\ ValuesOf(Operand(b, d, k), m) \subseteq Val
    BY <2>1, <2>2, SameOperand, OperandValues
  <2> QED BY <1>5, <2>3
<1> DEFINE Lhs == {phis[k].lhs : k \in DOMAIN phis}
           PhiAt(x) == CHOOSE k \in DOMAIN phis : phis[k].lhs = x
<1>8. PICK e2 : e2 = [x \in fn.vars |-> IF x \in Lhs THEN u[x] ELSE m[x]]
  OBVIOUS
<1>9. e2 \in St
  <2>1. \A x \in fn.vars : m[x] \in Val
    BY DEF St
  <2>2. \A x \in Lhs : u[x] \in Val
    BY <1>7
  <2> HIDE DEF Lhs
  <2> QED BY <1>8, <2>1, <2>2 DEF St
<1>10. ASSUME NEW x \in Lhs PROVE e2[x] \in ValuesOf(phis[PhiAt(x)].inc[b], m)
  <2>1. PICK k \in DOMAIN phis : phis[k].lhs = x
    OBVIOUS
  <2>2. PhiAt(x) \in DOMAIN phis /\ phis[PhiAt(x)].lhs = x
    BY <2>1
  <2>3. PICK l \in DOMAIN phis : l = PhiAt(x) /\ phis[l].lhs = x
    BY <2>2
  <2>4. e2[x] = u[x]
    <3>1. x \in fn.vars
      BY <1>4, <2>1
    <3> HIDE DEF Lhs
    <3> QED BY <1>8, <1>10, <3>1
  <2>5. u[x] \in ValuesOf(phis[l].inc[b], m)
    BY <1>3, <1>7, <2>3 DEF Operand
  <2> QED BY <2>3, <2>4, <2>5
<1>11. \A x \in fn.vars \ Lhs : e2[x] = m[x]
  <2> HIDE DEF Lhs
  <2> QED BY <1>8
<1>12. e2 \in EnterBlock(fn, b, d, m)
  <2>1. EnterBlock(fn, b, d, m) =
            {x2 \in St : /\ \A x \in Lhs : x2[x] \in ValuesOf(phis[PhiAt(x)].inc[b], m)
                         /\ \A x \in fn.vars \ Lhs : x2[x] = m[x]}
    BY <1>3 DEF EnterBlock, St
  <2> HIDE DEF Lhs, PhiAt
  <2> QED BY <1>9, <1>10, <1>11, <2>1
<1>13. Enters(u, e2)
  <2>1. ASSUME NEW x \in fn.vars PROVE u[x] \in Val /\ (x \in Known => u[x] = e2[x])
    <3>1. CASE x \in Lhs
      <4>1. u[x] \in Val
        BY <1>7, <3>1
      <4> HIDE DEF Lhs
      <4> QED BY <1>8, <3>1, <4>1
    <3>2. CASE x \notin Lhs
      <4>1. u[x] = t[x] /\ t[x] \in Val
        BY <1>5, <3>2 DEF St
      <4>2. e2[x] = m[x]
        BY <1>11, <3>2
      <4> QED BY <4>1, <4>2 DEF Agree
    <3> QED BY <3>1, <3>2
  <2> QED BY <1>5, <2>1, KnownIsVar DEF Enters, Agree
<1> QED BY <1>6, <1>12, <1>13

-----------------------------------------------------------------------------
(* The translation is exact: branches *)

\* A comparison and its negation do not both hold.
LEMMA NegationExcludes ==
    ASSUME fn \in Functions, NEW c \in DOMAIN fn.cmps, fn.cmps[c].cst.rel # "ult",
           Undef \notin {fn.cmps[c].cst.a, fn.cmps[c].cst.b},
           NEW e \in St, Holds(fn.cmps[c].cst, e)
    PROVE  ~ Holds(Negation(fn.cmps[c].cst), e)
<1>1. PICK cst : cst = fn.cmps[c].cst
  OBVIOUS
<1>2. /\ cst = Constraint(cst.rel, cst.a, cst.b) /\ cst.rel \in {"lt", "ge", "eq", "ne"}
      /\ OperandFits(fn, cst.a) /\ OperandFits(fn, cst.b)
  BY <1>1, CmpFits
<1>3. ASSUME NEW a, OperandFits(fn, a), a # Undef
      PROVE  \E v \in Val : ValuesOf(a, e) = {v}
  <2>1. CASE \E k \in Val : a = K(k)
    BY <2>1 DEF ValuesOf, K
  <2>2. CASE \E x \in KnownIn(fn) : a = V(x)
    BY <2>2 DEF ValuesOf, KnownIn, St, V
  <2> QED BY <1>3, <2>1, <2>2 DEF OperandFits
<1>4. PICK x \in Val : ValuesOf(cst.a, e) = {x}
  BY <1>1, <1>2, <1>3
<1>5. PICK y \in Val : ValuesOf(cst.b, e) = {y}
  BY <1>1, <1>2, <1>3
<1>6. x \in Int /\ y \in Int
  BY <1>4, <1>5, ValAssumption
<1>7. PICK neg : neg = Negation(cst)
  OBVIOUS
<1>8. /\ neg.a = cst.a /\ neg.b = cst.b
      /\ cst.rel = "eq" => neg.rel = "ne"
      /\ cst.rel = "ne" => neg.rel = "eq"
      /\ cst.rel = "lt" => neg.rel = "ge"
      /\ cst.rel = "ge" => neg.rel = "lt"
  BY <1>2, <1>7 DEF Negation, Constraint
<1>9. ASSUME NEW d, d.a = cst.a, d.b = cst.b, Holds(d, e)
      PROVE  CASE d.rel \in {"lt", "ult"} -> x < y
               [] d.rel = "ge" -> x >= y
               [] d.rel = "eq" -> x = y
               [] d.rel = "ne" -> x # y
  <2>1. PICK v \in ValuesOf(d.a, e), w \in ValuesOf(d.b, e) :
            CASE d.rel \in {"lt", "ult"} -> v < w
              [] d.rel = "ge" -> v >= w
              [] d.rel = "eq" -> v = w
              [] d.rel = "ne" -> v # w
    BY <1>9 DEF Holds
  <2>2. v = x /\ w = y
    BY <1>4, <1>5, <1>9, <2>1
  <2> QED BY <2>1, <2>2
<1>10. CASE cst.rel = "eq"
  <2>1. x = y /\ (Holds(neg, e) => x # y)
    BY <1>1, <1>8, <1>9, <1>10
  <2> QED BY <1>1, <1>7, <2>1
<1>11. CASE cst.rel = "ne"
  <2>1. x # y /\ (Holds(neg, e) => x = y)
    BY <1>1, <1>8, <1>9, <1>11
  <2> QED BY <1>1, <1>7, <2>1
<1>12. CASE cst.rel = "lt"
  <2>1. x < y /\ (Holds(neg, e) => x >= y)
    BY <1>1, <1>8, <1>9, <1>12
  <2> QED BY <1>1, <1>6, <1>7, <2>1
<1>13. CASE cst.rel = "ge"
  <2>1. x >= y /\ (Holds(neg, e) => x < y)
    BY <1>1, <1>8, <1>9, <1>13
  <2> QED BY <1>1, <1>6, <1>7, <2>1
<1> QED BY <1>2, <1>10, <1>11, <1>12, <1>13

LEMMA AssumeRunsBack ==
    ASSUME NEW p \in BOOLEAN, NEW c, NEW t,
           NEW u \in Run(IF p THEN <<Assume(c)>> ELSE <<>>, {t})
    PROVE  u = t /\ (p => Holds(c, t))
<1>1. CASE p
  <2>1. PICK st : st = Assume(c)
    OBVIOUS
  <2>2. st.op = "assume" /\ st.cst = c
    BY <2>1 DEF Assume
  <2>3. Effect(st, t) = IF Holds(c, t) THEN {t} ELSE {}
    BY <2>2 DEF Effect
  <2>4. u \in Effect(st, t)
    BY <1>1, <2>1, RunStatement
  <2> QED BY <2>3, <2>4
<1>2. CASE ~p
  <2>1. Run(<<>>, {t}) = {t}
    BY RunEmpty
  <2> QED BY <1>2, <2>1
<1> QED BY <1>1, <1>2

LEMMA TruthNeeded ==
    ASSUME NEW x, NEW t
    PROVE  /\ Holds(IsTrue(x), t) => t[x] # 0
           /\ Holds(IsFalse(x), t) => t[x] = 0
<1>1. PICK c : c = IsTrue(x)
  OBVIOUS
<1>2. PICK e : e = IsFalse(x)
  OBVIOUS
<1>3. c.rel = "ne" /\ c.a = V(x) /\ c.b = K(0) /\ e.rel = "eq" /\ e.a = V(x) /\ e.b = K(0)
  BY <1>1, <1>2 DEF IsTrue, IsFalse, Constraint
<1>4. ValuesOf(V(x), t) = {t[x]} /\ ValuesOf(K(0), t) = {0}
  BY DEF ValuesOf, V, K
<1> QED BY <1>1, <1>2, <1>3, <1>4 DEF Holds

\* The assumptions of a branch on variable x hold only where it is taken.
LEMMA BranchOnVarBack ==
    ASSUME fn \in Functions, NEW x \in fn.vars, NEW m \in St, m[x] \in {0, 1},
           x \in DOMAIN fn.cmps =>
               /\ IsCurrent(x, m) /\ fn.cmps[x].cst.rel # "ult"
               /\ Undef \notin {fn.cmps[x].cst.a, fn.cmps[x].cst.b},
           NEW t, x \in Known => t[x] = m[x],
           x \in DOMAIN fn.cmps => \A y \in VarsOf(fn.cmps[x].cst) : t[y] = m[y],
           NEW neg \in BOOLEAN, NEW u \in Run(BranchOnVar(x, neg), {t})
    PROVE  u = t /\ (neg <=> m[x] = 0)
<1>2. PICK cst : cst = fn.cmps[x].cst
  OBVIOUS
<1>3. PICK isCmp \in BOOLEAN : isCmp <=> x \in DOMAIN fn.cmps
  OBVIOUS
<1>4. PICK onOperands \in BOOLEAN : onOperands <=> (isCmp /\ cst.rel # "ult")
  OBVIOUS
<1>5. PICK onVariable \in BOOLEAN : onVariable <=> (~isCmp \/ ~fn.cmps[x].onlyBr)
  OBVIOUS
<1>6. PICK a1 : a1 = IF neg THEN Negation(cst) ELSE cst
  OBVIOUS
<1>7. PICK a2 : a2 = IF neg THEN IsFalse(x) ELSE IsTrue(x)
  OBVIOUS
<1>8. PICK c1 : c1 = IF onOperands THEN <<Assume(a1)>> ELSE <<>>
  OBVIOUS
<1>9. PICK c2 : c2 = IF onVariable THEN <<Assume(a2)>> ELSE <<>>
  OBVIOUS
<1>10. BranchOnVar(x, neg) = c1 \o c2
  <2>1. c1 = IF x \in DOMAIN fn.cmps /\ cst.rel # "ult"
             THEN <<Assume(IF neg THEN Negation(cst) ELSE cst)>> ELSE <<>>
    BY <1>3, <1>4, <1>6, <1>8
  <2>2. c2 = IF ~(x \in DOMAIN fn.cmps) \/ ~fn.cmps[x].onlyBr
             THEN <<Assume(IF neg THEN IsFalse(x) ELSE IsTrue(x))>> ELSE <<>>
    BY <1>3, <1>5, <1>7, <1>9
  <2> QED BY <1>2, <2>1, <2>2 DEF BranchOnVar
<1>11. PICK T1, T2, S : T1 = {Assume(a1)} /\ T2 = {Assume(a2)} /\ S = {t}
  OBVIOUS
<1>12. c1 \in Seq(T1) /\ c2 \in Seq(T2)
  <2>1. <<Assume(a1)>> \in Seq(T1) /\ <<Assume(a2)>> \in Seq(T2)
    BY <1>11
  <2>2. <<>> \in Seq(T1) /\ <<>> \in Seq(T2)
    OBVIOUS
  <2> QED BY <1>8, <1>9, <2>1, <2>2
<1>13. PICK w \in Run(c1, S) : u \in Run(c2, {w})
  <2>1. u \in Run(c1 \o c2, S)
    BY <1>10, <1>11
  <2> QED BY <1>12, <2>1, RunThrough
<1>14. w = t /\ (onOperands => Holds(a1, t))
  <2>1. w \in Run(IF onOperands THEN <<Assume(a1)>> ELSE <<>>, {t})
    BY <1>8, <1>11, <1>13
  <2> QED BY <2>1, AssumeRunsBack, ZenonT(60)
<1>15. u = t /\ (onVariable => Holds(a2, t))
  <2>1. u \in Run(c2, {t})
    BY <1>13, <1>14
  <2>2. u \in Run(IF onVariable THEN <<Assume(a2)>> ELSE <<>>, {t})
    BY <1>9, <2>1
  <2> QED BY <2>2, AssumeRunsBack, ZenonT(60)
<1>16. CASE isCmp
  <2>1. x \in DOMAIN fn.cmps /\ cst.rel # "ult" /\ onOperands /\ Holds(a1, t)
    BY <1>2, <1>3, <1>4, <1>14, <1>16
  <2>2. m[x] = IF Holds(cst, m) THEN 1 ELSE 0
    BY <1>2, <2>1 DEF IsCurrent
  <2>3. /\ Holds(cst, t) <=> Holds(cst, m)
        /\ Holds(Negation(cst), t) <=> Holds(Negation(cst), m)
    BY <1>2, <2>1, SameCmp
  <2>4. Holds(Negation(cst), m) => ~ Holds(cst, m)
    BY <1>2, <2>1, NegationExcludes
  <2>5. CASE neg
    <3>1. Holds(Negation(cst), m)
      BY <1>6, <2>1, <2>3, <2>5
    <3> QED BY <1>15, <2>2, <2>4, <2>5, <3>1
  <2>6. CASE ~neg
    <3>1. Holds(cst, m)
      BY <1>6, <2>1, <2>3, <2>6
    <3> QED BY <1>15, <2>2, <2>6, <3>1
  <2> QED BY <2>5, <2>6
<1>17. CASE ~isCmp
  <2>1. Holds(a2, t) /\ x \in Known
    BY <1>3, <1>5, <1>15, <1>17 DEF Known, KnownIn
  <2>2. t[x] = m[x]
    BY <2>1
  <2>3. CASE neg
    <3>1. m[x] = 0
      BY <1>7, <2>1, <2>2, <2>3, TruthNeeded
    <3> QED BY <1>15, <2>3, <3>1
  <2>4. CASE ~neg
    <3>1. m[x] # 0
      BY <1>7, <2>1, <2>2, <2>4, TruthNeeded
    <3> QED BY <1>15, <2>4, <3>1
  <2> QED BY <2>3, <2>4
<1> QED BY <1>16, <1>17


\* What TranslatedExactly says of the conditional branch of b in store m.
ExactBranch(b, m) ==
    LET cond == fn.term[b].cond IN
    /\ cond # Undef
    /\ cond[1] = "v" =>
           /\ m[cond[2]] \in {0, 1}
           /\ cond[2] \in DOMAIN fn.cmps =>
                  LET cst == fn.cmps[cond[2]].cst
                  IN  cst.rel # "ult" /\ Undef \notin {cst.a, cst.b}

LEMMA BranchRunsBack ==
    ASSUME fn \in Functions, NEW b \in Blocks, fn.term[b].op = "condbr", NEW m \in St,
           NEW d \in ToSet(SuccsOf(b)), ExactBranch(b, m),
           \A c \in DOMAIN fn.cmps : b \in BranchesOn(fn, c) => IsCurrent(c, m),
           NEW t, \A x \in Tested(fn, b) \cap Known : t[x] = m[x],
           NEW u \in Run(BranchCode(b, d), {t})
    PROVE  u = t /\ d \in Targets(fn, b, m)
<1>1. PICK cond : cond = fn.term[b].cond
  OBVIOUS
<1>2. \/ cond \in {K(0), K(1)}
      \/ \E c \in fn.vars : cond = V(c)
  <2>1. cond # Undef
    BY <1>1 DEF ExactBranch
  <2>2. Typed(fn)
    BY SimulationAssumption
  <2>3. \/ fn.term[b].cond \in {Undef, K(0), K(1)}
        \/ \E c \in fn.vars : fn.term[b].cond = V(c)
    BY <2>2 DEF Typed, Blocks
  <2> QED BY <1>1, <2>1, <2>3
<1>3. PICK d1, d2 : d1 = SuccsOf(b)[1] /\ d2 = SuccsOf(b)[2]
  OBVIOUS
<1>4. d \in {d1, d2} /\ d1 # d2
  <2>1. \E k \in 1..Len(SuccsVector(b)) : SuccsVector(b)[k] = d
    BY SuccsVectorType
  <2>2. Len(SuccsVector(b)) = 2 /\ SuccsVector(b) = SuccsOf(b) /\ SuccsOf(b)[1] # SuccsOf(b)[2]
    BY SuccsVectorType
  <2>3. \A k \in 1..2 : k = 1 \/ k = 2
    OBVIOUS
  <2> QED BY <1>3, <2>1, <2>2, <2>3
<1>5. Targets(fn, b, m) = {IF x = 1 THEN d1 ELSE d2 : x \in ValuesOf(cond, m) \cap {0, 1}}
  BY <1>1, <1>3 DEF Targets, SuccsOf
<1>6. CASE cond \in {K(0), K(1)}
  <2>1. PICK x \in {0, 1} : cond = K(x)
    BY <1>6
  <2>2. /\ cond[1] = "k" /\ ValuesOf(cond, m) = {x}
        /\ cond = K(1) <=> x = 1
        /\ cond = K(0) <=> x = 0
    BY <2>1 DEF ValuesOf, K
  <2>3. BranchCode(b, d) = IF NeverTaken(b, d) THEN <<Unreachable>> ELSE <<>>
    BY <1>1, <2>2 DEF BranchCode
  <2>4. Run(<<Unreachable>>, {t}) = {}
    <3>1. PICK st : st = Unreachable
      OBVIOUS
    <3>2. st.op = "unreachable"
      BY <3>1 DEF Unreachable
    <3>3. Effect(st, t) = {}
      BY <3>2 DEF Effect
    <3> QED BY <3>1, <3>3, RunStatement
  <2>5. ~ NeverTaken(b, d) /\ u = t
    BY <2>3, <2>4, RunEmpty
  <2>6. (x = 1 => d = d1) /\ (x = 0 => d = d2)
    BY <1>1, <1>3, <2>2, <2>5 DEF NeverTaken
  <2> QED BY <1>5, <2>1, <2>2, <2>5, <2>6
<1>7. CASE \E c \in fn.vars : cond = V(c)
  <2>1. PICK c \in fn.vars : cond = V(c)
    BY <1>7
  <2>2. cond[1] = "v" /\ cond[2] = c /\ ValuesOf(cond, m) = {m[c]}
    BY <2>1, ValueOfVar DEF V
  <2>3. PICK neg \in BOOLEAN : neg <=> IsNegated(b, d)
    OBVIOUS
  <2>4. neg <=> d = d2
    BY <1>3, <2>3 DEF IsNegated
  <2>5. /\ m[c] \in {0, 1}
        /\ c \in DOMAIN fn.cmps =>
               fn.cmps[c].cst.rel # "ult" /\ Undef \notin {fn.cmps[c].cst.a, fn.cmps[c].cst.b}
    BY <1>1, <2>2 DEF ExactBranch
  <2>6. BranchCode(b, d) = BranchOnVar(c, neg)
    <3>1. BranchCode(b, d) = BranchOnVar(c, IsNegated(b, d))
      BY <1>1, <2>2 DEF BranchCode
    <3>2. neg = IsNegated(b, d)
      BY <2>3 DEF IsNegated
    <3> QED BY <3>1, <3>2
  <2>7. Reads(cond) = {c}
    BY <2>2 DEF Reads
  <2>8. c \in DOMAIN fn.cmps => IsCurrent(c, m)
    BY <1>1, <2>1 DEF BranchesOn, Blocks
  <2>9. c \in Tested(fn, b) /\ (c \in DOMAIN fn.cmps => VarsOf(fn.cmps[c].cst) \subseteq Tested(fn, b))
    BY <1>1, <2>7 DEF Tested
  <2>10. c \in DOMAIN fn.cmps => VarsOf(fn.cmps[c].cst) \subseteq Known
    BY CmpFits, ReadsKnown DEF VarsOf
  <2>11. c \in DOMAIN fn.cmps => \A y \in VarsOf(fn.cmps[c].cst) : t[y] = m[y]
    BY <2>9, <2>10
  <2>12. c \in Known => t[c] = m[c]
    BY <2>9
  <2>13. u \in Run(BranchOnVar(c, neg), {t})
    BY <2>6
  <2>14. u = t /\ (neg <=> m[c] = 0)
    <3>1. c \in DOMAIN fn.cmps =>
              /\ IsCurrent(c, m) /\ fn.cmps[c].cst.rel # "ult"
              /\ Undef \notin {fn.cmps[c].cst.a, fn.cmps[c].cst.b}
      BY <2>5, <2>8
    <3>2. m[c] \in {0, 1}
      BY <2>5
    <3> QED BY <2>11, <2>12, <2>13, <3>1, <3>2, BranchOnVarBack
  <2>15. PICK x \in {0, 1} : x = m[c]
    BY <2>5
  <2>16. d = IF x = 1 THEN d1 ELSE d2
    BY <1>4, <2>4, <2>14, <2>15
  <2> QED BY <1>5, <2>2, <2>14, <2>15, <2>16
<1> QED BY <1>2, <1>6, <1>7

-----------------------------------------------------------------------------
(* The translation is exact: edges *)

\* The type of the statements of an edge, whoever takes it.
LEMMA BranchCodeType ==
    ASSUME fn \in Functions, NEW b \in Blocks, fn.term[b].op = "condbr", NEW d
    PROVE  \E T : BranchCode(b, d) \in Seq(T)
<1>1. PICK cond : cond = fn.term[b].cond
  OBVIOUS
<1>2. \/ cond \in {Undef, K(0), K(1)}
      \/ \E c \in fn.vars : cond = V(c)
  BY <1>1, SimulationAssumption DEF Typed, Blocks
<1>3. <<>> \in Seq({Unreachable}) /\ <<Unreachable>> \in Seq({Unreachable})
  OBVIOUS
<1>4. CASE cond \in {Undef, K(0), K(1)}
  <2>1. cond[1] \in {"u", "k"}
    BY <1>4 DEF Undef, K
  <2>2. BranchCode(b, d) \in {<<>>, <<Unreachable>>}
    BY <1>1, <2>1 DEF BranchCode
  <2> QED BY <1>3, <2>2
<1>5. CASE \E c \in fn.vars : cond = V(c)
  <2>1. PICK c \in fn.vars : cond = V(c)
    BY <1>5
  <2>2. cond[1] = "v" /\ cond[2] = c
    BY <2>1 DEF V
  <2>3. PICK a1, a2 :
            /\ a1 = Assume(IF IsNegated(b, d) THEN Negation(fn.cmps[c].cst) ELSE fn.cmps[c].cst)
            /\ a2 = Assume(IF IsNegated(b, d) THEN IsFalse(c) ELSE IsTrue(c))
    OBVIOUS
  <2>4. PICK c1, c2 : /\ c1 \in {<<>>, <<a1>>} /\ c2 \in {<<>>, <<a2>>}
                      /\ BranchCode(b, d) = c1 \o c2
    BY <1>1, <2>2, <2>3 DEF BranchCode, BranchOnVar
  <2>5. PICK T : T = {a1, a2}
    OBVIOUS
  <2>6. <<>> \in Seq(T) /\ <<a1>> \in Seq(T) /\ <<a2>> \in Seq(T)
    BY <2>5
  <2>7. c1 \in Seq(T) /\ c2 \in Seq(T)
    BY <2>4, <2>6
  <2>8. c1 \o c2 \in Seq(T)
    BY <2>7
  <2> QED BY <2>4, <2>8
<1> QED BY <1>2, <1>4, <1>5

LEMMA PhiCodeType ==
    ASSUME fn \in Functions, NEW b \in Blocks, NEW d \in ToSet(SuccsOf(b))
    PROVE  PhiCode(b, d) \in Seq(ToSet(SaveCode(b, d)) \cup ToSet(AssignCode(b, d)))
<1>1. PICK S1, S2, S : S1 = ToSet(SaveCode(b, d)) /\ S2 = ToSet(AssignCode(b, d)) /\ S = S1 \cup S2
  OBVIOUS
<1>2. PICK c1 \in Seq(S1) : c1 = SaveCode(b, d)
  BY <1>1, SaveCodeType
<1>3. PICK c2 \in Seq(S2) : c2 = AssignCode(b, d)
  BY <1>1, AssignCodeType
<1>4. c1 \in Seq(S) /\ c2 \in Seq(S)
  BY <1>1, <1>2, <1>3, SeqMonotone
<1>5. c1 \o c2 \in Seq(S)
  BY <1>4
<1> QED BY <1>1, <1>2, <1>3, <1>5, PhiCodeParts

\* From t, which agrees with m, the statements of the edge from b to d run
\* to their end only if the program takes the edge, with the same values.
LEMMA EdgeCodeRunsBack ==
    ASSUME fn \in Functions, NEW b \in Blocks, fn.term[b].op = "condbr",
           NEW d \in ToSet(SuccsOf(b)), NEW m \in St, ExactBranch(b, m),
           \A c \in DOMAIN fn.cmps : b \in BranchesOn(fn, c) => IsCurrent(c, m),
           NEW t \in St, Agree(t, m), NEW u \in Run(EdgeCode(b, d), {t})
    PROVE  d \in Targets(fn, b, m) /\ \E e2 \in EnterBlock(fn, b, d, m) : Enters(u, e2)
<1>1. PICK S : S = ToSet(SaveCode(b, d)) \cup ToSet(AssignCode(b, d))
  OBVIOUS
<1>2. PICK phi \in Seq(S) : phi = PhiCode(b, d)
  BY <1>1, PhiCodeType
<1>3. PICK T : BranchCode(b, d) \in Seq(T)
  BY BranchCodeType
<1>4. PICK br \in Seq(T) : br = BranchCode(b, d)
  BY <1>3
<1>5. PICK Start : Start = {t}
  OBVIOUS
<1>6. CASE b # d
  <2>1. EdgeCode(b, d) = br \o phi
    BY <1>2, <1>4, <1>6 DEF EdgeCode
  <2>2. u \in Run(br \o phi, Start)
    BY <1>5, <2>1
  <2>3. PICK w \in Run(br, Start) : u \in Run(phi, {w})
    BY <2>2, RunThrough
  <2>4. \A x \in Tested(fn, b) \cap Known : t[x] = m[x]
    BY DEF Agree
  <2>5. w \in Run(BranchCode(b, d), {t})
    BY <1>4, <1>5, <2>3
  <2>6. w = t /\ d \in Targets(fn, b, m)
    BY <2>4, <2>5, BranchRunsBack
  <2>7. u \in Run(PhiCode(b, d), {t})
    BY <1>2, <2>3, <2>6
  <2> QED BY <2>6, <2>7, PhiRunsBack
<1>7. CASE b = d
  <2>1. EdgeCode(b, d) = phi \o br
    BY <1>2, <1>4, <1>7 DEF EdgeCode
  <2>2. u \in Run(phi \o br, Start)
    BY <1>5, <2>1
  <2>3. PICK w \in Run(phi, Start) : u \in Run(br, {w})
    BY <2>2, RunThrough
  <2>4. w \in Run(PhiCode(b, d), {t})
    BY <1>2, <1>5, <2>3
  <2>5. SameOutside(w, t, d) /\ \E e2 \in EnterBlock(fn, b, d, m) : Enters(w, e2)
    BY <2>4, PhiRunsBack
  <2>6. \A k \in DOMAIN fn.phis[d] : fn.phis[d][k].lhs \notin Tested(fn, b)
    BY <1>7, SimulationAssumption DEF Supported, Blocks, SuccsOf
  <2>7. \A x \in Tested(fn, b) \cap Known : w[x] = m[x]
    <3> TAKE x \in Tested(fn, b) \cap Known
    <3>1. x \in fn.vars /\ \A k \in DOMAIN fn.phis[d] : fn.phis[d][k].lhs # x
      BY <2>6, KnownIsVar
    <3>2. w[x] = t[x] /\ t[x] = m[x]
      BY <2>5, <3>1 DEF Agree, SameOutside
    <3> QED BY <3>2
  <2>8. u \in Run(BranchCode(b, d), {w})
    BY <1>4, <2>3
  <2>9. u = w /\ d \in Targets(fn, b, m)
    BY <2>7, <2>8, BranchRunsBack
  <2> QED BY <2>5, <2>9
<1> QED BY <1>6, <1>7

-----------------------------------------------------------------------------
(* The translation is exact: the graph has no other edges *)

(***************************************************************************)
(* The successors of the block of b are no others than the edge blocks of  *)
(* a conditional branch, or blocks of LLVM blocks for a plain branch.      *)
(***************************************************************************)
EdgesInv ==
    \A b \in Blocks : BlockLabel(b) \in nodes =>
        /\ fn.term[b].op = "condbr" => succ[BlockLabel(b)] \subseteq {MidLabel(b, k) : k \in 1..2}
        /\ fn.term[b].op = "br" => succ[BlockLabel(b)] \subseteq Labels

\* The label that a conditional branch gives its next edge.
LEMMA NextEdgeLabel ==
    ASSUME GraphInv, CodeInv, ConditionalEdge
    PROVE  \E k \in 1..2 : EdgeLabel(cur, Head(work)) = MidLabel(cur, k)
<1>1. work # <<>> /\ work' = Tail(work) /\ fn' = fn /\ cur' = cur /\ fn.term[cur].op = "condbr"
  BY DEF ConditionalEdge
<1>2. /\ cur \in Blocks /\ fn \in Functions
      /\ Processed(cur) \in Nat /\ Len(work) \in Nat
      /\ Processed(cur) + 1 \in 1..Len(SuccsVector(cur))
      /\ Head(work) = SuccsVector(cur)[Processed(cur) + 1]
      /\ Len(SuccsVector(cur)) = Processed(cur) + Len(work)
  BY <1>1, NextEdge
<1>3. Len(SuccsVector(cur)) = 2 /\ SuccsVector(cur) = SuccsOf(cur)
  BY <1>1, <1>2, SuccsVectorType
<1>4. PICK m \in Nat, l \in Nat : m = Processed(cur) /\ l = Len(work)
  BY <1>2
<1>5. m + 1 \in 1..2 /\ l = 3 - (m + 1)
  <2>1. m + 1 \in 1..2 /\ 2 = m + l
    <3>1. PICK n : n = Len(SuccsVector(cur))
      OBVIOUS
    <3>2. n = 2 /\ m + 1 \in 1..n /\ n = m + l
      BY <1>2, <1>3, <1>4, <3>1
    <3> QED BY <3>2
  <2> QED BY <2>1
<1>6. Head(work) = SuccsOf(cur)[m + 1]
  BY <1>2, <1>3, <1>4
<1>7. PICK k \in 1..2 : k = m + 1
  BY <1>5
<1>8. Head(work) = SuccsOf(cur)[k] /\ Len(work) = 3 - k
  BY <1>4, <1>5, <1>6, <1>7
<1>9. EdgeLabel(cur, Head(work)) = MidLabel(cur, k)
  BY <1>8 DEF EdgeLabel, MidLabel
<1> QED BY <1>9

LEMMA EdgesInvStep == GraphInv /\ CodeInv /\ EdgesInv /\ [Next]_vars => EdgesInv'
<1> SUFFICES ASSUME GraphInv, CodeInv, EdgesInv, [Next]_vars PROVE EdgesInv'
  OBVIOUS
<1>1. fn' = fn
  BY DEF Next, AddBlocks, VisitBlock, ConditionalEdge, PlainEdge, ConnectSinks, vars
<1>2. Blocks' = Blocks /\ Labels' = Labels /\ \A b, k : MidLabel(b, k)' = MidLabel(b, k)
  BY <1>1 DEF Blocks, Labels, BlockLabel, MidLabel, SuccsOf
<1> SUFFICES ASSUME NEW b \in Blocks, BlockLabel(b) \in nodes', fn.term[b].op \in {"condbr", "br"}
             PROVE  /\ fn.term[b].op = "condbr" =>
                           succ'[BlockLabel(b)] \subseteq {MidLabel(b, k) : k \in 1..2}
                    /\ fn.term[b].op = "br" => succ'[BlockLabel(b)] \subseteq Labels
  <2>1. ASSUME NEW b \in Blocks
        PROVE  {MidLabel(b, k) : k \in 1..2}' = {MidLabel(b, k) : k \in 1..2}
    BY <1>2
  <2>2. EdgesInv' = \A b \in Blocks :
            BlockLabel(b) \in nodes' =>
                /\ fn.term[b].op = "condbr" =>
                       succ'[BlockLabel(b)] \subseteq {MidLabel(b, k) : k \in 1..2}'
                /\ fn.term[b].op = "br" => succ'[BlockLabel(b)] \subseteq Labels
    BY <1>1, <1>2 DEF EdgesInv, BlockLabel
  <2> QED BY <2>1, <2>2
<1>3. PICK n : n = BlockLabel(b)
  OBVIOUS
<1>4. ASSUME n \in nodes, succ'[n] = succ[n]
      PROVE  /\ fn.term[b].op = "condbr" =>
                    succ'[n] \subseteq {MidLabel(b, k) : k \in 1..2}
             /\ fn.term[b].op = "br" => succ'[n] \subseteq Labels
  BY <1>3, <1>4 DEF EdgesInv
<1>5. \A a : BlockLabel(a) = n => a = b
  BY <1>3 DEF BlockLabel
<1>6. CASE AddBlocks
  <2>1. succ'[n] = {}
    BY <1>3, <1>6 DEF AddBlocks
  <2> QED BY <1>3, <2>1
<1>7. CASE \/ \E a \in Blocks : VisitBlock(a)
           \/ UNCHANGED vars
  <2>1. nodes' = nodes /\ succ' = succ
    BY <1>7 DEF VisitBlock, vars
  <2> QED BY <1>3, <1>4, <2>1
<1>8. CASE ConditionalEdge
  <2>1. PICK mid, d : mid = EdgeLabel(cur, Head(work)) /\ d = BlockLabel(Head(work))
    OBVIOUS
  <2>2. /\ nodes' = nodes \cup {mid} /\ fn.term[cur].op = "condbr"
        /\ succ' = InBetween(BlockLabel(cur), mid, d)
    BY <1>8, <2>1 DEF ConditionalEdge
  <2>3. PICK k \in 1..2 : mid = MidLabel(cur, k)
    BY <1>8, <2>1, NextEdgeLabel
  <2>4. mid # n
    BY <1>3, <2>3 DEF MidLabel, BlockLabel
  <2>5. n \in nodes /\ nodes = DOMAIN succ
    BY <1>3, <2>2, <2>4 DEF GraphInv, TypeOK
  <2>6. succ'[n] = [succ EXCEPT ![BlockLabel(cur)] = (@ \ {d}) \cup {mid}][n]
    BY <2>2, <2>4, <2>5 DEF InBetween, With
  <2>7. CASE b = cur
    <3>1. succ'[n] = (succ[n] \ {d}) \cup {mid}
      BY <1>3, <2>5, <2>6, <2>7
    <3>2. succ[n] \subseteq {MidLabel(b, j) : j \in 1..2}
      BY <1>3, <2>2, <2>5, <2>7 DEF EdgesInv
    <3> QED BY <1>3, <2>2, <2>3, <2>7, <3>1, <3>2
  <2>8. CASE b # cur
    <3>1. succ'[n] = succ[n]
      BY <1>5, <2>5, <2>6, <2>8
    <3> QED BY <1>3, <1>4, <2>5, <3>1
  <2> QED BY <2>7, <2>8
<1>9. CASE PlainEdge
  <2>1. PICK d : d = BlockLabel(Head(work))
    OBVIOUS
  <2>2. /\ nodes' = nodes /\ fn.term[cur].op \in {"br", "switch"} /\ work # <<>>
        /\ succ' = [succ EXCEPT ![BlockLabel(cur)] = @ \cup {d}]
    BY <1>9, <2>1 DEF PlainEdge
  <2>3. d \in Labels
    <3>1. PICK B : B = Blocks
      OBVIOUS
    <3>2. work \in Seq(B) /\ work # <<>>
      BY <2>2, <3>1 DEF GraphInv
    <3>3. Head(work) \in B
      BY <3>2
    <3> QED BY <2>1, <3>1, <3>3 DEF Labels
  <2>4. n \in nodes /\ nodes = DOMAIN succ
    BY <1>3, <2>2 DEF GraphInv, TypeOK
  <2>5. CASE b = cur
    <3>1. succ'[n] = succ[n] \cup {d}
      BY <1>3, <2>2, <2>4, <2>5
    <3>2. fn.term[b].op = "br" => succ[n] \subseteq Labels
      BY <1>3, <2>4 DEF EdgesInv
    <3> QED BY <1>3, <2>2, <2>3, <2>5, <3>1, <3>2
  <2>6. CASE b # cur
    <3>1. succ'[n] = succ[n]
      BY <1>5, <2>2, <2>4, <2>6
    <3> QED BY <1>3, <1>4, <2>4, <3>1
  <2> QED BY <2>5, <2>6
<1>10. CASE ConnectSinks
  <2>1. /\ nodes' = nodes
        /\ succ' = IF exit # NoExit
                   THEN [l \in nodes |-> IF l \in Sinks /\ succ[l] = {} THEN {exit} ELSE succ[l]]
                   ELSE succ
    BY <1>10 DEF ConnectSinks
  <2>2. n \notin Sinks
    BY <1>5 DEF Sinks, Ending
  <2>3. n \in nodes /\ succ'[n] = succ[n]
    BY <1>3, <2>1, <2>2
  <2> QED BY <1>3, <1>4, <2>3
<1> QED BY <1>6, <1>7, <1>8, <1>9, <1>10 DEF Next

LEMMA EdgesInvAlways == SimSpec => []EdgesInv
<1>1. SimInit => EdgesInv
  BY DEF SimInit, Init, EdgesInv
<1>2. (GraphInv /\ CodeInv) /\ EdgesInv /\ [SimNext]_allVars => EdgesInv'
  <2>1. [SimNext]_allVars => [Next]_vars
    BY DEF SimNext, allVars, Build, Call, Step
  <2> QED BY <2>1, EdgesInvStep
<1> QED BY <1>1, <1>2, CodeInvAlways, PTL DEF SimSpec

-----------------------------------------------------------------------------
(* The translation is exact *)

LEMMA EdgeCodeType ==
    ASSUME fn \in Functions, NEW b \in Blocks, fn.term[b].op = "condbr",
           NEW d \in ToSet(SuccsOf(b))
    PROVE  Len(EdgeCode(b, d)) \in Nat
<1>1. PICK T1 : BranchCode(b, d) \in Seq(T1)
  BY BranchCodeType
<1>2. PICK T2 : T2 = ToSet(SaveCode(b, d)) \cup ToSet(AssignCode(b, d))
  OBVIOUS
<1>3. PICK br \in Seq(T1) : br = BranchCode(b, d)
  BY <1>1
<1>4. PICK phi \in Seq(T2) : phi = PhiCode(b, d)
  BY <1>2, PhiCodeType
<1>5. PICK T : T = T1 \cup T2
  OBVIOUS
<1>6. br \in Seq(T) /\ phi \in Seq(T)
  BY <1>5, SeqMonotone
<1>7. Len(br \o phi) \in Nat /\ Len(phi \o br) \in Nat
  BY <1>6
<1> QED BY <1>3, <1>4, <1>7 DEF EdgeCode

\* The block of b up to its edges.
LEMMA BodyAlone ==
    ASSUME fn \in Functions, NEW b \in Blocks, fn.term[b].op # "unreachable"
    PROVE  /\ BodyCode(b) = FlattenSeq(Translated(b))
           /\ FlattenSeq(Translated(b)) \in Seq(StatementsOf(b))
<1>1. PICK T : T = StatementsOf(b)
  OBVIOUS
<1>2. PICK body \in Seq(T) : body = FlattenSeq(Translated(b))
  BY <1>1, TranslatedType, FlattenType
<1>3. BodyCode(b) = body \o <<>>
  BY <1>2 DEF BodyCode, Translated
<1>4. body \o <<>> = body
  OBVIOUS
<1> QED BY <1>1, <1>2, <1>3, <1>4

\* What the program does on an edge, CrabIR does from the same store.
LEMMA ImageReached ==
    ASSUME GraphInv, CodeInv, SimInv, blk # NoBlock, IncludeUselessHavoc,
           NEW d \in ToSet(SuccsOf(blk)), NEW e2 \in LlvmImage(fn, blk, d, env)
    PROVE  \E w \in CrabImage(blk, d, {env}) : Agree(w, e2)
<1>1. PICK b, e, S : b = blk /\ e = env /\ S = {env}
  OBVIOUS
<1>2. pc = "built" /\ b \in visited /\ e \in St /\ Agree(e, e)
  BY <1>1 DEF SimInv, St, Agree
<1>3. PICK m \in RunBody(fn, b, e) : d \in Targets(fn, b, m) /\ e2 \in EnterBlock(fn, b, d, m)
  BY <1>1 DEF LlvmImage
<1>4. \A c \in DOMAIN fn.cmps : b \in BranchesOn(fn, c) => IsCurrent(c, m)
  BY <1>1, <1>3, BranchIsCurrent
<1>5. d \in ToSet(SuccsOf(b))
  BY <1>1
<1>6. Len(code[BlockLabel(b)]) \in Nat /\ \E u : Enters(u, e2) /\ Leads(b, d, e, u)
  BY <1>2, <1>3, <1>4, <1>5, EdgeRuns
<1>7. PICK u : Enters(u, e2) /\ Leads(b, d, e, u)
  BY <1>6
<1>8. PICK w : w = [x \in fn.vars |-> u[x]]
  OBVIOUS
<1>9. e \in S
  BY <1>1
<1>10. w \in CrabImage(b, d, S)
  BY <1>6, <1>7, <1>8, <1>9, LeadsToImage
<1>11. Agree(w, e2)
  BY <1>7, <1>8, EntersAgrees
<1> QED BY <1>1, <1>10, <1>11

\* A store that the graph brings to d comes through an edge block or not.
LEMMA ImageParts ==
    ASSUME NEW b, NEW d, NEW S, NEW w \in CrabImage(b, d, S)
    PROVE  LET atEnd == Run(code[BlockLabel(b)], S) IN
           \/ \E mid \in succ[BlockLabel(b)] :
                  /\ Len(mid) > 1 /\ BlockLabel(d) \in succ[mid]
                  /\ \E v \in Run(code[mid], atEnd) : w = [x \in fn.vars |-> v[x]]
           \/ /\ BlockLabel(d) \in succ[BlockLabel(b)]
              /\ \E v \in atEnd : w = [x \in fn.vars |-> v[x]]
<1>1. PICK atEnd, l : atEnd = Run(code[BlockLabel(b)], S) /\ l = BlockLabel(b)
  OBVIOUS
<1>2. PICK through : through = {m \in succ[l] : Len(m) > 1 /\ BlockLabel(d) \in succ[m]}
  OBVIOUS
<1>3. PICK U : U = UNION {Run(code[m], atEnd) : m \in through}
  OBVIOUS
<1>4. CrabImage(b, d, S) = OnVars(U) \cup (IF BlockLabel(d) \in succ[l] THEN OnVars(atEnd) ELSE {})
  BY <1>1, <1>2, <1>3 DEF CrabImage
<1>5. CASE w \in OnVars(U)
  <2>1. PICK v \in U : w = [x \in fn.vars |-> v[x]]
    BY <1>5 DEF OnVars
  <2>2. PICK m \in through : v \in Run(code[m], atEnd)
    BY <1>3, <2>1
  <2> QED BY <1>1, <1>2, <2>1, <2>2
<1>6. CASE BlockLabel(d) \in succ[l] /\ w \in OnVars(atEnd)
  <2>1. PICK v \in atEnd : w = [x \in fn.vars |-> v[x]]
    BY <1>6 DEF OnVars
  <2> QED BY <1>1, <1>6, <2>1
<1> QED BY <1>4, <1>5, <1>6

\* What CrabIR does on a conditional edge, the program does.
LEMMA BranchFollowed ==
    ASSUME GraphInv, CodeInv, SimInv, EdgesInv, blk # NoBlock, IncludeUselessHavoc,
           fn.term[blk].op = "condbr", TranslatedExactly(blk),
           NEW d \in ToSet(SuccsOf(blk)), NEW w \in CrabImage(blk, d, {env})
    PROVE  \E e2 \in LlvmImage(fn, blk, d, env) : Agree(w, e2)
<1>1. PICK b, e, S : b = blk /\ e = env /\ S = {env}
  OBVIOUS
<1>2. pc = "built" /\ b \in visited /\ e \in St /\ Agree(e, e) /\ S = {e}
  BY <1>1 DEF SimInv, St, Agree
<1>3. b \in Blocks /\ fn \in Functions /\ Processed(b) = Len(SuccsVector(b)) /\ HasEdges(b)
  BY <1>2, AllProcessed DEF CodeInv
<1>4. fn.term[b].op = "condbr" /\ d \in ToSet(SuccsOf(b)) /\ BlockLabel(b) \in nodes
  BY <1>1, <1>2, <1>3 DEF GraphInv, Labels
<1>5. PICK atEnd : atEnd = Run(code[BlockLabel(b)], S)
  OBVIOUS
<1>6. atEnd = Run(FlattenSeq(Translated(b)), S)
  <2>1. CodeSoFar(b) = FlattenSeq(Translated(b)) /\ CodeSoFar(b) \in Seq(StatementsOf(b))
    BY <1>3, <1>4, BodyAlone DEF CodeSoFar
  <2> QED BY <1>2, <1>5, <2>1, BlockRuns
<1>7. succ[BlockLabel(b)] \subseteq {MidLabel(b, k) : k \in 1..2}
  BY <1>3, <1>4 DEF EdgesInv
<1>8. BlockLabel(d) \notin succ[BlockLabel(b)]
  <2>1. \A k : BlockLabel(d) # MidLabel(b, k)
    BY DEF BlockLabel, MidLabel
  <2> QED BY <1>7, <2>1
<1>9. PICK mid \in succ[BlockLabel(b)] :
          BlockLabel(d) \in succ[mid] /\ \E v \in Run(code[mid], atEnd) : w = [x \in fn.vars |-> v[x]]
  BY <1>1, <1>5, <1>8, ImageParts
<1>10. PICK v \in Run(code[mid], atEnd) : w = [x \in fn.vars |-> v[x]]
  BY <1>9
<1>11. code[mid] = EdgeCode(b, d)
  <2>1. PICK k \in 1..2 : mid = MidLabel(b, k)
    BY <1>7, <1>9
  <2>2. HasEdgeBlock(b, k)
    <3>1. Len(SuccsVector(b)) = 2
      BY <1>3, <1>4, SuccsVectorType
    <3> QED BY <1>3, <1>4, <3>1 DEF HasEdges
  <2>3. PICK d2 : d2 = SuccsOf(b)[k]
    OBVIOUS
  <2>4. code[mid] = EdgeCode(b, d2) /\ succ[mid] = {BlockLabel(d2)}
    BY <2>1, <2>2, <2>3 DEF HasEdgeBlock
  <2>5. d2 = d
    BY <1>9, <2>4 DEF BlockLabel
  <2> QED BY <2>4, <2>5
<1>12. PICK t \in atEnd : v \in Run(EdgeCode(b, d), {t})
  <2>1. Len(EdgeCode(b, d)) \in Nat
    BY <1>3, <1>4, EdgeCodeType
  <2>2. v \in Run(EdgeCode(b, d), atEnd)
    BY <1>10, <1>11
  <2> QED BY <2>1, <2>2, RunPointwise
<1>13. t \in St /\ \E m \in RunBody(fn, b, e) : m \in St /\ Agree(t, m)
  <2>1. t \in Run(FlattenSeq(Translated(b)), {e})
    BY <1>2, <1>6, <1>12
  <2> QED BY <1>2, <1>3, <2>1, BodyRunsBack
<1>14. PICK m \in RunBody(fn, b, e) : m \in St /\ Agree(t, m)
  BY <1>13
<1>15. \A c \in DOMAIN fn.cmps : b \in BranchesOn(fn, c) => IsCurrent(c, m)
  BY <1>1, <1>14, BranchIsCurrent
<1>16. ExactBranch(b, m)
  BY <1>1, <1>4, <1>14 DEF TranslatedExactly, ExactBranch
<1>17. d \in Targets(fn, b, m) /\ \E e2 \in EnterBlock(fn, b, d, m) : Enters(v, e2)
  BY <1>3, <1>4, <1>12, <1>13, <1>14, <1>15, <1>16, EdgeCodeRunsBack
<1>18. PICK e2 \in EnterBlock(fn, b, d, m) : Enters(v, e2)
  BY <1>17
<1>19. e2 \in LlvmImage(fn, b, d, e)
  BY <1>14, <1>17, <1>18 DEF LlvmImage
<1>20. Agree(w, e2)
  BY <1>10, <1>18, EntersAgrees
<1> QED BY <1>1, <1>19, <1>20

\* The same on the edge of an unconditional branch.
LEMMA JumpFollowed ==
    ASSUME GraphInv, CodeInv, SimInv, EdgesInv, blk # NoBlock, IncludeUselessHavoc,
           fn.term[blk].op = "br",
           NEW d \in ToSet(SuccsOf(blk)), NEW w \in CrabImage(blk, d, {env})
    PROVE  \E e2 \in LlvmImage(fn, blk, d, env) : Agree(w, e2)
<1>1. PICK b, e, S : b = blk /\ e = env /\ S = {env}
  OBVIOUS
<1>2. pc = "built" /\ b \in visited /\ e \in St /\ Agree(e, e) /\ S = {e}
  BY <1>1 DEF SimInv, St, Agree
<1>3. b \in Blocks /\ fn \in Functions /\ Processed(b) = Len(SuccsVector(b)) /\ HasEdges(b)
  BY <1>2, AllProcessed DEF CodeInv
<1>4. fn.term[b].op = "br" /\ d \in ToSet(SuccsOf(b)) /\ BlockLabel(b) \in nodes
  BY <1>1, <1>2, <1>3 DEF GraphInv, Labels
<1>5. PICK atEnd : atEnd = Run(code[BlockLabel(b)], S)
  OBVIOUS
<1>6. Len(SuccsVector(b)) = 1 /\ SuccsOf(b)[1] = d
  <2>1. Len(SuccsVector(b)) = 1 /\ SuccsVector(b) = SuccsOf(b)
    BY <1>3, <1>4, SuccsVectorType
  <2>2. PICK k \in 1..Len(SuccsVector(b)) : SuccsVector(b)[k] = d
    BY <1>3, <1>4, SuccsVectorType
  <2>3. k = 1
    BY <2>1, <2>2
  <2> QED BY <2>1, <2>2, <2>3
<1>7. PICK T1, T2, T : /\ T1 = StatementsOf(b) /\ T = T1 \cup T2
                       /\ T2 = ToSet(SaveCode(b, d)) \cup ToSet(AssignCode(b, d))
  OBVIOUS
<1>8. PICK body \in Seq(T1) : body = FlattenSeq(Translated(b)) /\ BodyCode(b) = body
  BY <1>3, <1>4, <1>7, BodyAlone
<1>9. PICK phi \in Seq(T2) : phi = PhiCode(b, d)
  BY <1>3, <1>4, <1>7, PhiCodeType
<1>10. body \in Seq(T) /\ phi \in Seq(T)
  BY <1>7, SeqMonotone
<1>11. atEnd = Run(body \o phi, S)
  <2>1. CodeSoFar(b) = body \o phi
    BY <1>3, <1>4, <1>6, <1>8, <1>9 DEF CodeSoFar
  <2>2. body \o phi \in Seq(T)
    BY <1>10
  <2> QED BY <1>2, <1>5, <2>1, <2>2, BlockRuns
<1>12. PICK v \in atEnd : w = [x \in fn.vars |-> v[x]]
  <2>1. \A mid \in succ[BlockLabel(b)] : ~ (Len(mid) > 1)
    <3>1. succ[BlockLabel(b)] \subseteq Labels
      BY <1>3, <1>4 DEF EdgesInv
    <3>2. \A l \in Labels : Len(l) = 1
      BY DEF Labels, BlockLabel
    <3>3. ASSUME NEW mid \in succ[BlockLabel(b)] PROVE ~ (Len(mid) > 1)
      <4>1. PICK n : n = Len(mid)
        OBVIOUS
      <4>2. n = 1
        BY <3>1, <3>2, <4>1
      <4> QED BY <4>1, <4>2
    <3> QED BY <3>3
  <2> QED BY <1>1, <1>5, <2>1, ImageParts
<1>13. PICK t \in Run(body, S) : v \in Run(phi, {t})
  <2>1. v \in Run(body \o phi, S)
    BY <1>11
  <2> QED BY <2>1, RunThrough
<1>14. t \in St /\ \E m \in RunBody(fn, b, e) : m \in St /\ Agree(t, m)
  <2>1. t \in Run(FlattenSeq(Translated(b)), {e})
    BY <1>2, <1>8, <1>13
  <2> QED BY <1>2, <1>3, <2>1, BodyRunsBack
<1>15. PICK m \in RunBody(fn, b, e) : m \in St /\ Agree(t, m)
  BY <1>14
<1>16. d \in Targets(fn, b, m)
  BY <1>4, <1>6 DEF Targets, SuccsOf
<1>17. PICK e2 \in EnterBlock(fn, b, d, m) : Enters(v, e2)
  <2>1. v \in Run(PhiCode(b, d), {t})
    BY <1>9, <1>13
  <2> QED BY <1>3, <1>4, <1>14, <1>15, <2>1, PhiRunsBack
<1>18. e2 \in LlvmImage(fn, b, d, e)
  BY <1>15, <1>16, <1>17 DEF LlvmImage
<1>19. Agree(w, e2)
  BY <1>12, <1>17, EntersAgrees
<1> QED BY <1>1, <1>18, <1>19

(***************************************************************************)
(* The translation is exact: from one store the graph goes to a block just *)
(* when the program does, with just the values the program can have there, *)
(* so that nothing is lost before Crab's domains come in (execEdge, the    *)
(* phi visitor, the instruction visitor).                                  *)
(***************************************************************************)
THEOREM TranslationIsExact ==
    ASSUME IncludeUselessHavoc
    PROVE  SimSpec => []Exact
<1>1. GraphInv /\ CodeInv /\ SimInv /\ EdgesInv => Exact
  <2> SUFFICES ASSUME GraphInv, CodeInv, SimInv, EdgesInv, blk # NoBlock,
                      TranslatedExactly(blk), NEW d \in ToSet(SuccsOf(blk))
               PROVE  OnKnown(CrabImage(blk, d, {env})) = OnKnown(LlvmImage(fn, blk, d, env))
    BY DEF Exact
  <2>1. PICK C, L : C = CrabImage(blk, d, {env}) /\ L = LlvmImage(fn, blk, d, env)
    OBVIOUS
  <2>2. \A e2 \in L : \E w \in C : Agree(w, e2)
    BY <2>1, ImageReached
  <2>3. ASSUME NEW w \in C PROVE \E e2 \in L : Agree(w, e2)
    <3>1. CASE fn.term[blk].op = "br"
      BY <2>1, <3>1, JumpFollowed
    <3>2. CASE fn.term[blk].op = "condbr"
      BY <2>1, <3>2, BranchFollowed
    <3> QED BY <3>1, <3>2 DEF TranslatedExactly
  <2>4. \A s, e : Agree(s, e) => [x \in Known |-> s[x]] = [x \in Known |-> e[x]]
    BY DEF Agree
  <2>5. OnKnown(C) = OnKnown(L)
    BY <2>2, <2>3, <2>4 DEF OnKnown
  <2> QED BY <2>1, <2>5
<1> QED BY <1>1, EdgesInvAlways, SimInvAlways, PTL
=============================================================================

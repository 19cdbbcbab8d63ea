----------------------------- MODULE Optimizer ------------------------------
(***************************************************************************)
(* lib/Clam/Optimizer/Optimizer.cc, runOnFunction: what Crab found out is  *)
(* used to rewrite the LLVM function. Its CrabIR graph is built first (by  *)
(* CfgBuilder) and analysed. One pass over the blocks marks dead blocks    *)
(* and edges, inserts invariants and replaces values by constants; then    *)
(* the dead edges are removed, and last the dead blocks. The function that *)
(* results is finally run beside the original.                             *)
(*                                                                         *)
(* Crab is external, and exact here: the invariants are the stores that    *)
(* CrabIR reaches, so that the optimizer is told as much as it can be.     *)
(***************************************************************************)
EXTENDS CfgBuilder, LlvmSemantics

CONSTANT
    Jobs        \* [fn, dce, invariants, constants]: functions, with options

\* dce is m_removeDeadCode, constants is m_replaceWithConstants; invariants
\* says what m_invLoc selects: "none", "block" or "loop_header".
ASSUME JobAssumption ==
    \A job \in Jobs :
        /\ job.fn \in Functions
        /\ {job.dce, job.constants} \subseteq BOOLEAN
        /\ job.invariants \in {"none", "block", "loop_header"}

VARIABLES
    options,    \* of the optimizer
    stage,      \* "build", "mark", "edges", "blocks" or "run"
    pre,        \* getPre of every LLVM block, as a set of stores
    infeasible, \* m_infeasible_edges of the analysis
    opt,        \* the function as rewritten so far
    i,          \* the next block of the marking loop
    deadBlocks, \* DeadBlocks
    deadEdges,  \* DeadEdges
    blk,        \* the block the original is about to run, or NoBlock
    env         \* its values at that point

marks == <<i, deadBlocks, deadEdges>>
optVars == <<options, stage, pre, infeasible, opt, marks>>
runVars == <<blk, env>>
allVars == <<vars, optVars, runVars>>

OptInit ==
    /\ Init
    /\ options \in {job \in Jobs : job.fn = fn}
    /\ stage = "build"
    /\ pre = [b \in {} |-> {}]
    /\ infeasible = {}
    /\ opt = fn
    /\ i = 1
    /\ deadBlocks = <<>>
    /\ deadEdges = <<>>
    /\ blk = NoBlock
    /\ env = [x \in {} |-> 0]

Build ==
    /\ stage = "build"
    /\ Next
    /\ UNCHANGED <<optVars, runVars>>

-----------------------------------------------------------------------------
(* The analysis *)

OnVars(S) == {[x \in fn.vars |-> s[x]] : s \in S}

\* Crab knows nothing of a variable that has not been assigned.
AtEntry ==
    {s \in [fn.vars -> Val] : \A x \in fn.bools : s[x] \in {0, 1}}

Flow(inv) ==
    [l \in nodes |->
        (IF l = BlockLabel(Entry) THEN AtEntry ELSE {})
        \cup UNION {OnVars(Run(code[m], inv[m])) :
                       m \in {m \in nodes : l \in succ[m]}}]

\* The least solution.
Reached ==
    LET f[inv \in [nodes -> SUBSET [fn.vars -> Val]]] ==
            IF Flow(inv) = inv THEN inv ELSE f[Flow(inv)]
    IN  f[[l \in nodes |-> {}]]

\* storeAndOutputResults: an edge is infeasible if nothing leaves its block.
Analyze ==
    /\ stage = "build"
    /\ pc = "built"
    /\ LET inv == Reached IN
           /\ pre' = [b \in Blocks |-> inv[BlockLabel(b)]]
           /\ infeasible' = {e \in DOMAIN edgeMap :
                                Run(code[edgeMap[e]], inv[edgeMap[e]]) = {}}
    /\ stage' = "mark"
    /\ UNCHANGED <<vars, options, opt, marks, runVars>>

hasFeasibleEdge(b, d) == <<b, d>> \notin infeasible

-----------------------------------------------------------------------------
(* Rewriting of functions *)

\* replaceAllUsesWith: every use of a variable in X becomes the operand o.
ReplaceUses(f, X, o) ==
    LET New(a) == IF a[1] = "v" /\ a[2] \in X THEN o ELSE a
        NewCst(c) == [c EXCEPT !.a = New(@), !.b = New(@)]
        NewIns(ins) ==
            CASE ins.op \in {"assign", "add1"} -> [ins EXCEPT !.rhs = New(@)]
              [] ins.op = "assume_in" ->
                     [ins EXCEPT !.args = [k \in DOMAIN @ |-> New(@[k])]]
              [] OTHER -> ins
    IN  [f EXCEPT
            !.term = [b \in DOMAIN @ |-> [@[b] EXCEPT !.cond = New(@)]],
            !.phis = [b \in DOMAIN @ |-> [k \in DOMAIN @[b] |->
                         [@[b][k] EXCEPT !.inc =
                             [a \in DOMAIN @ |-> New(@[a])]]]],
            !.body = [b \in DOMAIN @ |-> [k \in DOMAIN @[b] |->
                         NewIns(@[b][k])]],
            !.cmps = [c \in DOMAIN @ |-> [@[c] EXCEPT !.cst = NewCst(@)]]]

PhiVars(f, b) == {f.phis[b][k].lhs : k \in DOMAIN f.phis[b]}
Defines(ins) == "lhs" \in DOMAIN ins
BodyVars(f, b) ==
    {f.body[b][k].lhs : k \in {k \in DOMAIN f.body[b] : Defines(f.body[b][k])}}

-----------------------------------------------------------------------------
(* Dominators *)

\* The blocks that a path from the entry reaches without going through a.
ReachedAround(f, a) ==
    LET Onward(S) == S \cup
            UNION {ToSet(f.term[b].succs) : b \in S \ {a}}
        g[S \in SUBSET ToSet(f.layout)] ==
            IF Onward(S) = S THEN S \ {a} ELSE g[Onward(S)]
    IN  g[{f.layout[1]}]

Reachable(f) == ReachedAround(f, NoBlock)
Dominates(f, a, b) == b \notin ReachedAround(f, a)

\* The values defined on every path to the first instruction of b.
Available(f, b) ==
    f.params \cup PhiVars(f, b) \cup
    UNION {PhiVars(f, a) \cup BodyVars(f, a) :
              a \in {a \in ToSet(f.layout) \ {b} : Dominates(f, a, b)}}

IsLoopHeader(f, b) ==
    \E a \in ToSet(f.layout) :
        b \in ToSet(f.term[a].succs) /\ Dominates(f, b, a)

-----------------------------------------------------------------------------
(* The marking loop: one iteration for each block *)

\* What Crab has a variable with a value for.
Known == {x \in fn.vars : x \in DOMAIN fn.cmps => Materialised(x)}

\* Mutant of InvariantVars: the dominator tree is not asked.
InvariantVarsAll(f, b) == Known

\* The variables of the constraints that CodeExpander keeps.
InvariantVars(f, b) == Known \cap Available(f, b)

\* instrumentBlock: the invariant of b as a call of verifier.assume, after
\* the phi nodes; not in a block that returns. All constraints on the
\* variables are kept: arithmetic that wraps around is abstracted.
Instrumented(f, b) ==
    LET xs == SetToSeq(InvariantVars(f, b))
        call == AssumeIn([k \in DOMAIN xs |-> V(xs[k])],
                         {[k \in DOMAIN xs |-> s[xs[k]]] : s \in pre[b]})
    IN  IF f.term[b].op = "ret" THEN f
        ELSE [f EXCEPT !.body[b] = <<call>> \o @]

HasInvariants(b) ==
    \/ options.invariants = "block"
    \/ options.invariants = "loop_header" /\ IsLoopHeader(fn, b)

\* ConstantReplaceStmt, for statement k of the CrabIR block of b, after which
\* CrabIR can be in the stores inv. Only instructions have uses to replace.
ReplaceConstant(f, st, inv) ==
    LET values == {s[st.lhs] : s \in inv}
    IN  IF /\ st.op \in {"assign", "add1", "bool_assign"}
           /\ st.lhs \in fn.vars \ fn.params
           /\ Cardinality(values) = 1
        THEN ReplaceUses(f, {st.lhs}, K(CHOOSE v \in values : TRUE))
        ELSE f

\* GenericInstrumentStatement: the invariant at the entry is propagated.
WithConstants(f, b) ==
    LET stmts == code[BlockLabel(b)]
    IN  FoldLeft(LAMBDA g, k : ReplaceConstant(g, stmts[k],
                                    Run(SubSeq(stmts, 1, k), pre[b])),
                 f, [k \in DOMAIN stmts |-> k])

\* Mutant of InfeasibleFrom: only the first successor is looked at.
InfeasibleFirst(b) ==
    LET dead == SelectSeq(SuccsOf(b), LAMBDA d :
                    d = SuccsOf(b)[1] /\ ~hasFeasibleEdge(b, d))
    IN  [k \in DOMAIN dead |-> <<b, dead[k]>>]

\* markDeadBlocksAndEdges, on the edges.
InfeasibleFrom(b) ==
    LET dead == SelectSeq(SuccsOf(b), LAMBDA d : ~hasFeasibleEdge(b, d))
    IN  [k \in DOMAIN dead |-> <<b, dead[k]>>]

Marking(b) ==
    /\ stage = "mark"
    /\ i <= Len(fn.layout)
    /\ fn.layout[i] = b
    /\ i' = i + 1
    /\ UNCHANGED <<vars, options, stage, pre, infeasible, runVars>>

\* A block that cannot return is left alone.
SkipBlock(b) ==
    /\ Marking(b)
    /\ fn.term[b].op = "unreachable"
    /\ UNCHANGED <<opt, deadBlocks, deadEdges>>

MarkDeadBlock(b) ==
    /\ Marking(b)
    /\ fn.term[b].op # "unreachable"
    /\ options.dce
    /\ pre[b] = {}
    /\ deadBlocks' = Append(deadBlocks, b)
    /\ deadEdges' = deadEdges \o InfeasibleFrom(b)
    /\ UNCHANGED opt

ProcessBlock(b) ==
    /\ Marking(b)
    /\ fn.term[b].op # "unreachable"
    /\ options.dce => pre[b] # {}
    /\ deadEdges' = IF options.dce THEN deadEdges \o InfeasibleFrom(b)
                    ELSE deadEdges
    /\ opt' = LET f == IF HasInvariants(b) THEN Instrumented(opt, b) ELSE opt
              IN  IF options.constants THEN WithConstants(f, b) ELSE f
    /\ UNCHANGED deadBlocks

EndOfMarking ==
    /\ stage = "mark"
    /\ i > Len(fn.layout)
    /\ stage' = "edges"
    /\ UNCHANGED <<vars, options, pre, infeasible, opt, marks, runVars>>

-----------------------------------------------------------------------------
(* The removal, last mark first *)

\* LLVM deletes a phi node: o takes its place.
ErasePhi(f, d, x, o) ==
    ReplaceUses([f EXCEPT !.phis[d] = SelectSeq(@, LAMBDA p : p.lhs # x)],
                {x}, o)

\* PHINode::hasConstantValue: the operands other than the phi node itself.
Incomings(p) == {p.inc[a] : a \in DOMAIN p.inc} \ {V(p.lhs)}

\* PHINode::removeIncomingValue for the phi node x of d, and what
\* BasicBlock::removePredecessor does on top of it if fold is true.
RemoveIncoming(f, b, d, x, fold) ==
    LET k == CHOOSE k \in DOMAIN f.phis[d] : f.phis[d][k].lhs = x
        p == f.phis[d][k]
        q == [p EXCEPT !.inc = [a \in DOMAIN @ \ {b} |-> @[a]]]
    IN  CASE DOMAIN q.inc = {} -> ErasePhi(f, d, x, Undef)
          [] fold /\ DOMAIN q.inc # {} /\ Incomings(q) = {} ->
                 ErasePhi(f, d, x, Undef)
          [] fold /\ Cardinality(Incomings(q)) = 1 ->
                 ErasePhi(f, d, x, CHOOSE o \in Incomings(q) : TRUE)
          [] OTHER -> [f EXCEPT !.phis[d][k] = q]

RemovePhiEntries(f, b, d, fold) ==
    FoldLeft(LAMBDA g, p : RemoveIncoming(g, b, d, p.lhs, fold), f, f.phis[d])

\* Mutant of WithoutEdge: the phi nodes keep their operand.
WithoutEdgeButPhis(f, b, d) ==
    LET others == SelectSeq(f.term[b].succs, LAMBDA s : s # d)
    IN  IF f.term[b].op # "condbr" \/ Len(others) # 1 THEN f
        ELSE [f EXCEPT !.term[b] = [op |-> "br", succs |-> others,
                                    cond |-> Undef]]

\* Mutant of WithoutEdge: the successor that is kept is the dead one.
WithoutOtherEdge(f, b, d) ==
    LET others == SelectSeq(f.term[b].succs, LAMBDA s : s # d)
    IN  IF f.term[b].op # "condbr" \/ Len(others) # 1 THEN f
        ELSE RemovePhiEntries(
                 [f EXCEPT !.term[b] = [op |-> "br", succs |-> <<d>>,
                                        cond |-> Undef]],
                 b, others[1], FALSE)

\* removeDeadEdge. Nothing happens unless exactly one successor is left.
WithoutEdge(f, b, d) ==
    LET others == SelectSeq(f.term[b].succs, LAMBDA s : s # d)
    IN  IF f.term[b].op # "condbr" \/ Len(others) # 1 THEN f
        ELSE RemovePhiEntries(
                 [f EXCEPT !.term[b] = [op |-> "br", succs |-> others,
                                        cond |-> Undef]],
                 b, d, FALSE)

\* removeDeadBlock. The values of the block become undef wherever they are
\* still used.
WithoutBlock(f, b) ==
    LET g == FoldLeft(LAMBDA h, d : RemovePhiEntries(h, b, d, TRUE),
                      f, f.term[b].succs)
    IN  ReplaceUses([g EXCEPT !.phis[b] = <<>>, !.body[b] = <<>>,
                        !.term[b] = [op |-> "unreachable", succs |-> <<>>,
                                     cond |-> Undef]],
                    PhiVars(g, b) \cup BodyVars(g, b), Undef)

RemoveDeadEdge ==
    /\ stage = "edges"
    /\ deadEdges # <<>>
    /\ LET e == Last(deadEdges) IN opt' = WithoutEdge(opt, e[1], e[2])
    /\ deadEdges' = Front(deadEdges)
    /\ UNCHANGED <<vars, options, stage, pre, infeasible, i, deadBlocks, runVars>>

NoEdgesLeft ==
    /\ stage = "edges"
    /\ deadEdges = <<>>
    /\ stage' = "blocks"
    /\ UNCHANGED <<vars, options, pre, infeasible, opt, marks, runVars>>

RemoveDeadBlock ==
    /\ stage = "blocks"
    /\ deadBlocks # <<>>
    /\ opt' = WithoutBlock(opt, Last(deadBlocks))
    /\ deadBlocks' = Front(deadBlocks)
    /\ UNCHANGED <<vars, options, stage, pre, infeasible, i, deadEdges, runVars>>

EndOfRemoval ==
    /\ stage = "blocks"
    /\ deadBlocks = <<>>
    /\ stage' = "run"
    /\ UNCHANGED <<vars, options, pre, infeasible, opt, marks, runVars>>

-----------------------------------------------------------------------------
(* The original runs. *)

Call ==
    /\ stage = "run"
    /\ blk = NoBlock
    /\ blk' = Entry
    /\ \E args \in Arguments(fn) :
           env' = [x \in fn.vars |-> IF x \in fn.params THEN args[x] ELSE 0]
    /\ UNCHANGED <<vars, optVars>>

Step ==
    /\ blk # NoBlock
    /\ \E d \in ToSet(SuccsOf(blk)) :
           blk' = d /\ env' \in LlvmImage(fn, blk, d, env)
    /\ UNCHANGED <<vars, optVars>>

OptNext ==
    \/ Build
    \/ Analyze
    \/ \E b \in Blocks : SkipBlock(b) \/ MarkDeadBlock(b) \/ ProcessBlock(b)
    \/ EndOfMarking
    \/ RemoveDeadEdge
    \/ NoEdgesLeft
    \/ RemoveDeadBlock
    \/ EndOfRemoval
    \/ Call
    \/ Step

OptSpec == OptInit /\ [][OptNext]_allVars

-----------------------------------------------------------------------------
\* The variables that are still defined.
Kept == {x \in fn.vars : x \in fn.params \/
             \E b \in Blocks : x \in PhiVars(opt, b) \cup BodyVars(opt, b)}
OnKept(S) == {[x \in Kept |-> s[x]] : s \in S}

(***************************************************************************)
(* The optimized function does what the original does: wherever the        *)
(* original gets, and with the values it has there, both go on to the same *)
(* blocks with the same values, or end in the same way ("Optimize LLVM     *)
(* bitcode using invariants inferred by Clam", Optimizer.hh).              *)
(***************************************************************************)
SameSteps ==
    blk # NoBlock =>
        /\ opt.term[blk].succs = <<>> => opt.term[blk] = fn.term[blk]
        /\ \A d \in Blocks :
               OnKept(LlvmImage(opt, blk, d, env)) =
                   OnKept(LlvmImage(fn, blk, d, env))

(***************************************************************************)
(* The rule LLVM's verifier has for phi nodes, after every single removal: *)
(* an operand for each predecessor and for nothing else.                   *)
(***************************************************************************)
PhisMatchPreds ==
    \A d \in Blocks : \A k \in DOMAIN opt.phis[d] :
        DOMAIN opt.phis[d][k].inc =
            {b \in Blocks : d \in ToSet(opt.term[b].succs)}

VarOf(o) == IF o[1] = "v" THEN {o[2]} ELSE {}
UsedBy(f, ins) ==
    CASE ins.op \in {"assign", "add1"} -> VarOf(ins.rhs)
      [] ins.op = "assume_in" ->
             UNION {VarOf(ins.args[k]) : k \in DOMAIN ins.args}
      [] ins.op = "cmp" -> VarOf(f.cmps[ins.lhs].cst.a) \cup
                           VarOf(f.cmps[ins.lhs].cst.b)
      [] OTHER -> {}

(***************************************************************************)
(* The rule of SSA form: a definition dominates its uses, those in the     *)
(* code that is inserted ("check definition of invariant variable          *)
(* dominates the block where the invariant will be inserted") and those    *)
(* that move when a value is replaced by another.                          *)
(***************************************************************************)
DefsDominateUses ==
    \A b \in Reachable(opt) :
        LET atEnd == Available(opt, b) \cup BodyVars(opt, b) IN
        /\ \A k \in DOMAIN opt.body[b] :
               UsedBy(opt, opt.body[b][k]) \subseteq Available(opt, b) \cup
                   {opt.body[b][j].lhs :
                       j \in {j \in 1..(k - 1) : Defines(opt.body[b][j])}}
        /\ VarOf(opt.term[b].cond) \subseteq atEnd
        /\ \A d \in ToSet(opt.term[b].succs) : \A k \in DOMAIN opt.phis[d] :
               VarOf(opt.phis[d][k].inc[b]) \subseteq atEnd

(***************************************************************************)
(* removeDeadCode "removes dead blocks and edges". In the end nothing is   *)
(* left of a block that Crab found dead, phi nodes and operands in other   *)
(* blocks included, unless it ended in unreachable before: such a block is *)
(* not marked and keeps its instructions, though the edges into it are     *)
(* gone. An edge found dead is gone if another edge of its branch is       *)
(* feasible.                                                               *)
(***************************************************************************)
DeadCodeIsGone ==
    stage = "run" /\ options.dce =>
        LET dead == {b \in Blocks : pre[b] = {}}
            kept == {b \in dead : fn.term[b].op = "unreachable"}
            gone == UNION {PhiVars(fn, b) \cup BodyVars(fn, b) :
                              b \in dead \ kept}
        IN
        /\ \A b \in kept : Len(opt.body[b]) = Len(fn.body[b])
        /\ \A b \in dead \ kept :
               /\ opt.phis[b] = <<>> /\ opt.body[b] = <<>>
               /\ opt.term[b].op = "unreachable" /\ opt.term[b].succs = <<>>
        /\ \A b \in Blocks :
               /\ VarOf(opt.term[b].cond) \cap gone = {}
               /\ \A k \in DOMAIN opt.body[b] :
                      UsedBy(opt, opt.body[b][k]) \cap gone = {}
               /\ \A k \in DOMAIN opt.phis[b] :
                      LET inc == opt.phis[b][k].inc IN
                      \A a \in DOMAIN inc : VarOf(inc[a]) \cap gone = {}
        /\ \A e \in infeasible :
               (\E d \in ToSet(SuccsOf(e[1])) : hasFeasibleEdge(e[1], d))
               => e[2] \notin ToSet(opt.term[e[1]].succs)

(***************************************************************************)
(* Type invariant.                                                         *)
(***************************************************************************)
OptTypeOK ==
    /\ options \in Jobs
    /\ stage \in {"build", "mark", "edges", "blocks", "run"}
    /\ DOMAIN pre = IF stage = "build" THEN {} ELSE Blocks
    /\ infeasible \subseteq DOMAIN edgeMap
    /\ opt.layout = fn.layout
    /\ i \in 1..(Len(fn.layout) + 1)
    /\ ToSet(deadBlocks) \subseteq Blocks
    /\ ToSet(deadEdges) \subseteq infeasible
    /\ blk \in Blocks \cup {NoBlock}
=============================================================================

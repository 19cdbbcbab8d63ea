--------------------------- MODULE CfgSimulation ----------------------------
(***************************************************************************)
(* Is the CrabIR graph that CfgBuilder makes a sound picture of the LLVM   *)
(* function? Once the graph is built this module runs the function by the  *)
(* LLVM semantics and, next to it, follows in the graph the same path of   *)
(* blocks with every store CrabIR allows. Whatever Crab proves of those    *)
(* stores is true of the program only if they include the program's.       *)
(***************************************************************************)
EXTENDS CfgBuilder, LlvmSemantics

-----------------------------------------------------------------------------
(* The functions *)

\* The variables Crab is supposed to know: not the comparisons that the
\* translation lowers where they are used.
KnownIn(f) ==
    {x \in f.vars : x \in DOMAIN f.cmps =>
                        ~f.cmps[x].onlyBr /\ f.cmps[x].cst.rel # "ult"}

Reads(operand) == IF operand[1] = "v" THEN {operand[2]} ELSE {}
VarsOf(cst) == Reads(cst.a) \cup Reads(cst.b)

OperandFits(f, operand) ==
    \/ operand = Undef
    \/ \E c \in Val : operand = K(c)
    \/ \E x \in KnownIn(f) : operand = V(x)

InstructionFits(f, ins) ==
    \/ /\ ins.op \in {"assign", "add1", "nondet"}
       /\ ins.lhs \in f.vars \ DOMAIN f.cmps
       /\ ins.op # "nondet" => OperandFits(f, ins.rhs)
    \/ ins.op = "cmp" /\ ins.lhs \in DOMAIN f.cmps
    \/ ins.op = "fail"

PhiFits(f, phi, preds) ==
    /\ phi.lhs \in f.vars \ DOMAIN f.cmps
    /\ \A b \in preds : OperandFits(f, phi.inc[b])

(***************************************************************************)
(* LLVM's verifier again: instructions and phi nodes are typed, and no     *)
(* variable has the name of a copy. A comparison that something else than  *)
(* a branch reads is not onlyBr, by the meaning of onlyBr; that it is not  *)
(* an unsigned order either has to be required, as cmpInstToCrabBool only  *)
(* warns of those.                                                         *)
(***************************************************************************)
Typed(f) ==
    LET blocks == ToSet(f.layout) IN
    /\ \A x \in f.vars : x \in Seq(ToSet(x)) /\ OldCopy(x) \notin f.vars
    /\ f.params \subseteq f.vars /\ DOMAIN f.cmps \subseteq f.vars
    /\ \A c \in DOMAIN f.cmps :
           LET cst == f.cmps[c].cst IN
           /\ cst.rel \in {"lt", "ult", "ge", "eq", "ne"}
           /\ cst = Constraint(cst.rel, cst.a, cst.b)
           /\ OperandFits(f, cst.a) /\ OperandFits(f, cst.b) /\ c \notin VarsOf(cst)
           /\ cst.rel = "ult" => f.cmps[c].onlyBr
    /\ \A b \in blocks :
           LET cond == f.term[b].cond
               preds == {x \in blocks : b \in ToSet(f.term[x].succs)}
           IN  /\ f.body[b] \in Seq(ToSet(f.body[b]))
               /\ \A k \in DOMAIN f.body[b] : InstructionFits(f, f.body[b][k])
               /\ f.phis[b] \in Seq(ToSet(f.phis[b]))
               /\ \A k \in DOMAIN f.phis[b] : PhiFits(f, f.phis[b][k], preds)
               /\ \A k, l \in DOMAIN f.phis[b] :
                      f.phis[b][k].lhs = f.phis[b][l].lhs => k = l
               /\ f.term[b].op = "condbr" =>
                      \/ cond \in {Undef, K(0), K(1)}
                      \/ \E c \in f.vars : cond = V(c)

\* Instruction ins computes comparison c, or a variable that c compares.
Computes(ins, c) == ins.op = "cmp" /\ ins.lhs = c
Changes(f, ins, c) == ins.op # "fail" /\ ins.lhs \in VarsOf(f.cmps[c].cst)

\* At the end of b, c has the value that comparing its operands would give,
\* if it has that at the entry of the blocks in A.
CurrentAtEnd(f, c, A, b) ==
    LET body == f.body[b] IN
    \E j \in 0..Len(body) :
        /\ IF j = 0 THEN b \in A ELSE Computes(body[j], c)
        /\ \A i \in (j + 1)..Len(body) : ~Changes(f, body[i], c)

(***************************************************************************)
(* Definitions dominate uses. The operands of a comparison dominate it,    *)
(* and it dominates the branches on it: on every path from one of the      *)
(* operands to the branch it is computed again, so it is current there. A  *)
(* is the set of blocks at whose entry it is.                              *)
(***************************************************************************)
CurrentIn(f, c, A) ==
    /\ f.layout[1] \notin A
    /\ \A b \in ToSet(f.layout) : \A d \in A \cap ToSet(f.term[b].succs) :
           /\ CurrentAtEnd(f, c, A, b)
           /\ \A k \in DOMAIN f.phis[d] : f.phis[d][k].lhs \notin VarsOf(f.cmps[c].cst)

BranchesOn(f, c) ==
    {b \in ToSet(f.layout) : f.term[b].op = "condbr" /\ f.term[b].cond = V(c)}

Dominated(f) ==
    \A c \in DOMAIN f.cmps :
        \E A \in SUBSET ToSet(f.layout) :
            CurrentIn(f, c, A) /\ \A b \in BranchesOn(f, c) : CurrentAtEnd(f, c, A, b)

\* What the branch of b depends on.
Tested(f, b) ==
    LET cond == Reads(f.term[b].cond)
    IN  cond \cup UNION {VarsOf(f.cmps[c].cst) : c \in cond \cap DOMAIN f.cmps}

(***************************************************************************)
(* What the translation gets wrong otherwise: a branch has two successors, *)
(* the condition of a loop of one block does not read its phi nodes, and   *)
(* the successors of a switch have none (LowerSwitch runs before, unless   *)
(* it is told not to).                                                     *)
(***************************************************************************)
Supported(f) ==
    \A b \in ToSet(f.layout) :
        LET t == f.term[b]
        IN  /\ t.op = "condbr" => t.succs[1] # t.succs[2]
            /\ t.op = "condbr" /\ b \in ToSet(t.succs) =>
                   \A k \in DOMAIN f.phis[b] : f.phis[b][k].lhs \notin Tested(f, b)
            /\ t.op = "switch" => \A d \in ToSet(t.succs) : f.phis[d] = <<>>

ASSUME SimulationAssumption ==
    \A f \in Functions : Typed(f) /\ Dominated(f) /\ Supported(f)

VARIABLES
    blk,        \* the LLVM block about to run, or NoBlock
    env,        \* the LLVM values at that point
    stores      \* the stores CrabIR has there after the same path

simVars == <<blk, env, stores>>
allVars == <<vars, simVars>>

-----------------------------------------------------------------------------
(* CrabIR semantics *)

OnVars(S) == {[x \in fn.vars |-> s[x]] : s \in S}

\* The stores with which the graph goes from block b to block d: through
\* edge blocks or, for a plain edge, directly.
CrabImage(b, d, S) ==
    LET atEnd == Run(code[BlockLabel(b)], S)
        through == {m \in succ[BlockLabel(b)] :
                        Len(m) > 1 /\ BlockLabel(d) \in succ[m]}
    IN  OnVars(UNION {Run(code[m], atEnd) : m \in through})
        \cup (IF BlockLabel(d) \in succ[BlockLabel(b)]
              THEN OnVars(atEnd) ELSE {})

-----------------------------------------------------------------------------
SimInit ==
    /\ Init
    /\ blk = NoBlock
    /\ env = [x \in {} |-> 0]
    /\ stores = {}

Build ==
    /\ Next
    /\ UNCHANGED simVars

\* The function is called: its parameters are arbitrary. Crab knows nothing
\* of a variable that has not been assigned.
Call ==
    /\ pc = "built"
    /\ blk = NoBlock
    /\ blk' = Entry
    /\ \E args \in Arguments(fn) :
           /\ env' = [x \in fn.vars |-> IF x \in fn.params THEN args[x] ELSE 0]
           /\ stores' = {s \in [fn.vars -> Val] :
                            \A x \in fn.params : s[x] = args[x]}
    /\ UNCHANGED vars

\* The program runs block blk and takes an edge.
Step ==
    /\ blk # NoBlock
    /\ \E d \in ToSet(SuccsOf(blk)) :
           /\ blk' = d
           /\ env' \in LlvmImage(fn, blk, d, env)
           /\ stores' = CrabImage(blk, d, stores)
    /\ UNCHANGED vars

SimNext == Build \/ Call \/ Step

SimSpec == SimInit /\ [][SimNext]_allVars

-----------------------------------------------------------------------------
Known == KnownIn(fn)

Agree(s, e) == \A x \in Known : s[x] = e[x]

(***************************************************************************)
(* Soundness of the translation: wherever the program is, CrabIR can be    *)
(* there by the same path with the same values, so no invariant Crab       *)
(* infers for a block excludes a state the program reaches ("Clam ...      *)
(* computes inductive invariants for LLVM bitcode", README.md).            *)
(***************************************************************************)
Sound == blk # NoBlock => \E s \in stores : Agree(s, env)

(***************************************************************************)
(* Edge queries: if the program takes an edge that has a block of its own, *)
(* the block getCrabBasicBlock(src, dst) names is not unreachable in       *)
(* CrabIR. (hasFeasibleEdge and the dead edges of the optimizer look at no *)
(* other block.)                                                           *)
(***************************************************************************)
TakenEdgesAreFeasible ==
    blk # NoBlock =>
        \A d \in ToSet(SuccsOf(blk)) :
            /\ LlvmImage(fn, blk, d, env) # {}
            /\ fn.term[blk].op = "condbr"
            => /\ <<blk, d>> \in DOMAIN edgeMap
               /\ Run(code[BlockLabel(blk)] \o code[edgeMap[<<blk, d>>]],
                      stores) # {}

(***************************************************************************)
(* Precision of the translation: from one and the same store, the graph    *)
(* goes from a block to another exactly when the program does, with        *)
(* exactly the same values. It is not claimed of switches, of conditions   *)
(* that are constant expressions or of unsigned orders, whose conditions   *)
(* the code leaves out, nor of comparisons with undef, for which both the  *)
(* assumption and its negation can hold. A condition is an i1: 0 or 1.     *)
(***************************************************************************)
TranslatedExactly(b) ==
    LET t == fn.term[b] IN
    \/ t.op = "br"
    \/ /\ t.op = "condbr"
       /\ t.cond # Undef
       /\ t.cond[1] = "v" =>
              /\ t.cond[2] \in DOMAIN fn.cmps =>
                     LET cst == fn.cmps[t.cond[2]].cst
                     IN  cst.rel # "ult" /\ Undef \notin {cst.a, cst.b}
              /\ \A m \in RunBody(fn, b, env) : m[t.cond[2]] \in {0, 1}

OnKnown(S) == {[x \in Known |-> s[x]] : s \in S}

Exact ==
    blk # NoBlock /\ TranslatedExactly(blk) =>
        \A d \in ToSet(SuccsOf(blk)) :
            OnKnown(CrabImage(blk, d, {env})) = OnKnown(LlvmImage(fn, blk, d, env))

(***************************************************************************)
(* seahorn.fail: "the program is safe iff the function cannot return". The *)
(* assertion of CrabIR fails only where main returns after a call of       *)
(* seahorn.fail, and it can fail there whenever main gets to the return.   *)
(* It is not claimed if setExitBlock has found no return but the loop of   *)
(* an endless main, or a resume: the assertion is put there all the same.  *)
(***************************************************************************)
ExitStops ==
    \A b \in Blocks : BlockLabel(b) = exit => fn.term[b].op \in {"ret", "unreachable"}

FailsIffReturns ==
    blk # NoBlock /\ ExitStops =>
        LET fails == ReachesError(code[BlockLabel(blk)], stores)
            returns == fn.term[blk].op = "ret" /\ \E b \in visited : CallsFail(b)
        IN  /\ fails => returns
            /\ returns /\ RunBody(fn, blk, env) # {} => fails
=============================================================================

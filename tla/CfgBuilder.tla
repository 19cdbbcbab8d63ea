----------------------------- MODULE CfgBuilder -----------------------------
(***************************************************************************)
(* CfgBuilderImpl (lib/Clam/CfgBuilder.cc): the translation of the control *)
(* flow of one LLVM function into a CrabIR control-flow graph. A Crab      *)
(* block is made for every LLVM block and for every edge of a conditional  *)
(* branch; the edge block holds the branch condition as an assumption and  *)
(* the phi nodes of the destination as assignments.                        *)
(*                                                                         *)
(* An LLVM function is a record                                            *)
(*   layout  the blocks in the order of the function, the entry first      *)
(*   term    the terminator of every block: [op, succs, cond], where op is *)
(*           "br", "condbr", "switch", "ret", "unreachable" or "resume";   *)
(*           succs lists the successors (the default first in a switch);   *)
(*           cond is K(0), K(1), Undef (a constant expression) or V(c)     *)
(*   phis    the phi nodes of every block: [lhs, inc], inc giving the      *)
(*           operand for each predecessor                                  *)
(*   body    the other instructions: Assign, Add1, [op |-> "cmp", lhs],    *)
(*           [op |-> "nondet", lhs] (a value Crab knows nothing of) and    *)
(*           [op |-> "fail"] (a call to seahorn.fail in main)              *)
(*   cmps    c |-> [cst, onlyBr] for the c computed by an integer CmpInst; *)
(*           onlyBr: every use is a branch or an integer select            *)
(*   vars, params, bools  its variables, those that are its parameters,    *)
(*           and the parameters that are boolean                           *)
(***************************************************************************)
EXTENDS CrabIR

CONSTANTS
    Functions,              \* the functions that may be translated
    IncludeUselessHavoc     \* CrabBuilderParams::include_useless_havoc

ASSUME HavocAssumption == IncludeUselessHavoc \in BOOLEAN

(***************************************************************************)
(* LLVM's verifier: every block ends in a terminator, whose successors are *)
(* blocks of the function.                                                 *)
(***************************************************************************)
WellFormed(f) ==
    LET blocks == ToSet(f.layout) IN
    /\ f.layout # <<>> /\ f.layout \in Seq(blocks)
    /\ \A b \in blocks :
           LET t == f.term[b] IN
           /\ t.succs \in Seq(blocks)
           /\ \/ t.op = "br" /\ Len(t.succs) = 1
              \/ t.op = "condbr" /\ Len(t.succs) = 2
              \/ t.op = "switch" /\ Len(t.succs) >= 1
              \/ t.op \in {"ret", "unreachable", "resume"} /\ t.succs = <<>>

\* The sets of blocks that an execution of f cannot leave.
Closed(f) ==
    {R \in SUBSET ToSet(f.layout) :
        f.layout[1] \in R /\ \A b \in R : ToSet(f.term[b].succs) \subseteq R}

(***************************************************************************)
(* What the passes that must run before make of it (Clam.hh):              *)
(* UnifyFunctionExitNodes leaves at most one return, which setExitBlock    *)
(* insists on; once LowerInvoke has removed the landing pads, a resume can *)
(* be reached only where the function has no other end.                    *)
(***************************************************************************)
Unified(f) ==
    LET Ends(ops) == {b \in ToSet(f.layout) : f.term[b].op \in ops} IN
    /\ \A b, d \in Ends({"ret"}) : b = d
    /\ \A b \in Ends({"resume"}) :
           \/ Ends({"ret", "unreachable", "resume"}) = {b}
           \/ \E R \in Closed(f) : b \notin R

ASSUME FunctionAssumption == \A f \in Functions : WellFormed(f) /\ Unified(f)

VARIABLES
    fn,         \* m_func
    pc,         \* the part of the constructor or of buildCfg that is next
    nodes,      \* the labels of the blocks of m_cfg
    succ,       \* their successors
    code,       \* their statements
    edgeMap,    \* m_edge_to_crab_map: LLVM edge |-> Crab block
    exit,       \* the exit of m_cfg, or NoExit
    visited,    \* the LLVM blocks translated so far, in topoSort order
    cur,        \* the block B whose successors are being processed
    work,       \* succs_vector from the current position on
    hasFail     \* has_seahorn_fail

vars == <<fn, pc, nodes, succ, code, edgeMap, exit, visited, cur, work, hasFail>>

NoExit == <<>>
NoBlock == "none"

Blocks == ToSet(fn.layout)
Entry == fn.layout[1]
SuccsOf(b) == fn.term[b].succs

\* The labels made by the two makeCrabBasicBlockLabel. The position of an
\* edge in succs_vector stands for the m_id that keeps labels distinct.
BlockLabel(b) == <<b>>
EdgeLabel(b, d) == <<b, d, Len(work)>>

-----------------------------------------------------------------------------
(* setExitBlock *)

FirstIn(S) == fn.layout[Min({k \in DOMAIN fn.layout : fn.layout[k] \in S})]
LastIn(S) == fn.layout[Max({k \in DOMAIN fn.layout : fn.layout[k] \in S})]

Ending(op) == {b \in Blocks : fn.term[b].op = op}
Successorless == {b \in Blocks : SuccsOf(b) = <<>>}

\* entry: goto loop;  loop: goto loop;
EntryLoop == {d \in Blocks : SuccsOf(Entry) = <<d>> /\ SuccsOf(d) = <<d>>}

\* The search for a block without successors does not stop at the first.
ExitOf ==
    IF Ending("ret") # {} THEN BlockLabel(FirstIn(Ending("ret")))
    ELSE IF EntryLoop # {} THEN BlockLabel(CHOOSE d \in EntryLoop : TRUE)
    ELSE IF Ending("unreachable") # {}
         THEN BlockLabel(FirstIn(Ending("unreachable")))
    ELSE IF Successorless # {} THEN BlockLabel(LastIn(Successorless))
    ELSE NoExit

\* The constructor: a graph with its entry, and the exit found beforehand.
Init ==
    /\ fn \in Functions
    /\ pc = "blocks"
    /\ exit = ExitOf
    /\ nodes = {BlockLabel(Entry)} \cup ({exit} \ {NoExit})
    /\ succ = [n \in nodes |-> {}]
    /\ code = [n \in nodes |-> <<>>]
    /\ edgeMap = [e \in {} |-> NoExit]
    /\ visited = {}
    /\ cur = NoBlock
    /\ work = <<>>
    /\ hasFail = FALSE

\* buildCfg, first loop: a Crab block for every LLVM block.
AddBlocks ==
    /\ pc = "blocks"
    /\ nodes' = nodes \cup {BlockLabel(b) : b \in Blocks}
    /\ succ' = [n \in nodes' |-> {}]
    /\ code' = [n \in nodes' |-> <<>>]
    /\ pc' = "translate"
    /\ UNCHANGED <<fn, edgeMap, exit, visited, cur, work, hasFail>>

-----------------------------------------------------------------------------
(* CrabIntraBlockBuilder, reduced to what control flow depends on *)

\* Does visitCmpInst emit "c := (a rel b)"? Not if all uses are lowered
\* elsewhere, and not for an unsigned order (cmpInstToCrabBool only warns).
Materialised(c) == ~fn.cmps[c].onlyBr /\ fn.cmps[c].cst.rel # "ult"

Translate(ins) ==
    CASE ins.op \in {"assign", "add1"} -> <<ins>>
      [] ins.op = "nondet" ->
             IF IncludeUselessHavoc THEN <<Havoc(ins.lhs)>> ELSE <<>>
      [] ins.op = "cmp" ->
             IF Materialised(ins.lhs)
             THEN <<BoolAssign(ins.lhs, fn.cmps[ins.lhs].cst)>> ELSE <<>>
      [] ins.op = "fail" -> <<>>

BodyCode(b) ==
    FlattenSeq([k \in DOMAIN fn.body[b] |-> Translate(fn.body[b][k])])
        \o (IF fn.term[b].op = "unreachable" THEN <<Unreachable>> ELSE <<>>)

\* Successors of B. For a switch, succs(B) already lists the default
\* destination, and the code appends it once more.
SuccsVector(b) ==
    IF fn.term[b].op = "switch" THEN Append(SuccsOf(b), Head(SuccsOf(b)))
    ELSE SuccsOf(b)

CallsFail(b) == \E k \in DOMAIN fn.body[b] : fn.body[b][k].op = "fail"

\* Mutant of FailSeen: each block forgets what the previous ones called.
FailSeenInBlock(b) == CallsFail(b)

\* m_has_seahorn_fail is shared by the visitors of all the blocks.
FailSeen(b) == hasFail \/ CallsFail(b)

\* The main loop of buildCfg moves to the next block of topoSort. Any order
\* that visits a block after one of its predecessors is allowed here.
VisitBlock(b) ==
    /\ pc = "translate"
    /\ work = <<>>
    /\ b \in Blocks \ visited
    /\ b = Entry \/ \E a \in visited : b \in ToSet(SuccsOf(a))
    /\ code' = [code EXCEPT ![BlockLabel(b)] = @ \o BodyCode(b)]
    /\ hasFail' = FailSeen(b)
    /\ visited' = visited \cup {b}
    /\ cur' = b
    /\ work' = SuccsVector(b)
    /\ UNCHANGED <<fn, pc, nodes, succ, edgeMap, exit>>

-----------------------------------------------------------------------------
(* CrabInterBlockBuilder: the phi nodes of d on the edge from b *)

OldCopy(x) == Append(x, "old")

\* Mutant of PhiCode: the phi nodes are assigned one after the other.
PhiCodeInSequence(b, d) ==
    LET phis == fn.phis[d]
    IN  [k \in DOMAIN phis |-> Assign(phis[k].lhs, phis[k].inc[b])]

\* The statements of the two loops (one iteration each in PhiLowering).
PhiCode(b, d) ==
    LET phis == fn.phis[d]
        Operand(k) == phis[k].inc[b]
        PhiOperands == {V(phis[k].lhs) : k \in DOMAIN phis}
        ToSave == {k \in DOMAIN phis :
                      /\ Operand(k) \in PhiOperands
                      /\ \A j \in 1..(k - 1) : Operand(j) # Operand(k)}
        Save(k) == Assign(OldCopy(Operand(k)[2]), Operand(k))
        Read(k) == IF Operand(k) \in PhiOperands
                   THEN V(OldCopy(Operand(k)[2])) ELSE Operand(k)
        order == InOrder(ToSave)
    IN  [k \in DOMAIN order |-> Save(order[k])]
            \o [k \in DOMAIN phis |-> Assign(phis[k].lhs, Read(k))]

-----------------------------------------------------------------------------
(* execEdge *)

\* The assumptions of the edge block of a branch on variable c: on the
\* operands of its comparison when Crab can express it, and on c itself
\* unless the comparison is only used by branches. (c is not in cmps if the
\* operands are booleans: the assumption is then on c alone. A comparison of
\* references is one of cmps, with assume_ref. lower_unsigned_icmp is off, its
\* default; Instructions has what it does.)
BranchOnVar(c, isNegated) ==
    LET isCmp == c \in DOMAIN fn.cmps
        cst == fn.cmps[c].cst
        onOperands == isCmp /\ cst.rel # "ult"
        onVariable == ~isCmp \/ ~fn.cmps[c].onlyBr
    IN  (IF onOperands
         THEN <<Assume(IF isNegated THEN Negation(cst) ELSE cst)>> ELSE <<>>)
        \o (IF onVariable
            THEN <<Assume(IF isNegated THEN IsFalse(c) ELSE IsTrue(c))>>
            ELSE <<>>)

\* Mutant of IsNegated: the successors of the branch are swapped.
IsNegatedSwapped(b, d) == SuccsOf(b)[1] = d

IsNegated(b, d) == SuccsOf(b)[2] = d

\* Mutant of NeverTaken: "br false" is forgotten.
NeverTakenIfTrue(b, d) == fn.term[b].cond = K(1) /\ SuccsOf(b)[1] # d

NeverTaken(b, d) ==
    \/ fn.term[b].cond = K(1) /\ SuccsOf(b)[1] # d
    \/ fn.term[b].cond = K(0) /\ SuccsOf(b)[2] # d

BranchCode(b, d) ==
    LET cond == fn.term[b].cond
    IN  CASE cond[1] = "k" ->
                 IF NeverTaken(b, d) THEN <<Unreachable>> ELSE <<>>
          [] cond[1] = "u" -> <<>>
          [] cond[1] = "v" -> BranchOnVar(cond[2], IsNegated(b, d))

\* copy_front for a self-loop, copy_back otherwise.
EdgeCode(b, d) ==
    IF b = d THEN PhiCode(b, d) \o BranchCode(b, d)
    ELSE BranchCode(b, d) \o PhiCode(b, d)

\* addBlockInBetween
InBetween(src, mid, dst) ==
    With([succ EXCEPT ![src] = (@ \ {dst}) \cup {mid}], mid, {dst})

\* One iteration of the loop over succs_vector, B ending in a conditional
\* branch: a new block on the edge, which the phi nodes are part of.
ConditionalEdge ==
    /\ pc = "translate"
    /\ work # <<>>
    /\ fn.term[cur].op = "condbr"
    /\ LET d == Head(work)
           mid == EdgeLabel(cur, d)
       IN  /\ nodes' = nodes \cup {mid}
           /\ succ' = InBetween(BlockLabel(cur), mid, BlockLabel(d))
           /\ code' = With(code, mid, EdgeCode(cur, d))
           /\ edgeMap' = Over(edgeMap, [e \in {<<cur, d>>} |-> mid])
    /\ work' = Tail(work)
    /\ UNCHANGED <<fn, pc, exit, visited, cur, hasFail>>

\* The same for any other terminator with successors: addEdge, and the phi
\* nodes of the destination at the end of B itself.
PlainEdge ==
    /\ pc = "translate"
    /\ work # <<>>
    /\ fn.term[cur].op \in {"br", "switch"}
    /\ LET d == Head(work) IN
           /\ succ' = [succ EXCEPT ![BlockLabel(cur)] = @ \cup {BlockLabel(d)}]
           /\ code' = [code EXCEPT ![BlockLabel(cur)] = @ \o PhiCode(cur, d)]
    /\ work' = Tail(work)
    /\ UNCHANGED <<fn, pc, nodes, edgeMap, exit, visited, cur, hasFail>>

\* Mutant of Sinks: it looks for the wrong terminator.
ResumeSinks == {BlockLabel(b) : b \in Ending("resume")} \ {exit}

\* The blocks connected to the exit unless they have a successor.
Sinks == {BlockLabel(b) : b \in Ending("unreachable")} \ {exit}

\* The end of buildCfg: seahorn.fail makes reaching the exit an error, and
\* the sinks that end in unreachable are connected to the exit.
ConnectSinks ==
    /\ pc = "translate"
    /\ work = <<>>
    /\ visited # {}
    /\ \A a \in visited : ToSet(SuccsOf(a)) \subseteq visited
    /\ code' = IF exit # NoExit /\ hasFail
               THEN [code EXCEPT ![exit] = Append(@, AssertFalse)] ELSE code
    /\ succ' = IF exit # NoExit
               THEN [n \in nodes |-> IF n \in Sinks /\ succ[n] = {}
                                     THEN {exit} ELSE succ[n]]
               ELSE succ
    /\ pc' = "built"
    /\ UNCHANGED <<fn, nodes, edgeMap, exit, visited, cur, work, hasFail>>

Next ==
    \/ AddBlocks
    \/ \E b \in Blocks : VisitBlock(b)
    \/ ConditionalEdge
    \/ PlainEdge
    \/ ConnectSinks

Spec == Init /\ [][Next]_vars

-----------------------------------------------------------------------------
(***************************************************************************)
(* Type invariant of the graph under construction: no dangling edge, and   *)
(* the exit is one of its blocks.                                          *)
(***************************************************************************)
TypeOK ==
    /\ fn \in Functions
    /\ pc \in {"blocks", "translate", "built"}
    /\ exit \in nodes \cup {NoExit}
    /\ succ \in [nodes -> SUBSET nodes]
    /\ DOMAIN code = nodes
    /\ DOMAIN edgeMap \subseteq Blocks \X Blocks
    /\ \A e \in DOMAIN edgeMap : edgeMap[e] \in nodes
    /\ visited \subseteq Blocks
    /\ cur \in Blocks \cup {NoBlock}
    /\ ToSet(work) \subseteq Blocks
    /\ hasFail \in BOOLEAN

(***************************************************************************)
(* A backward analysis that starts at the exit reaches every block an      *)
(* execution can be in: once the graph is built, no block but the exit is  *)
(* a dead end ("Connect all sink blocks with an unreachable instruction to *)
(* the exit block").                                                       *)
(***************************************************************************)
NoDeadEnd ==
    pc = "built" /\ exit # NoExit =>
        \A b \in visited : succ[BlockLabel(b)] = {} => BlockLabel(b) = exit
=============================================================================

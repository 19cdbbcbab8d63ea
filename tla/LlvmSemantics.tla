--------------------------- MODULE LlvmSemantics ----------------------------
(***************************************************************************)
(* What an LLVM function does, as far as lib/Clam relies on it. A function *)
(* f is a record as described in CfgBuilder. A store gives the values of   *)
(* its variables at the entry of a block, after the phi nodes.             *)
(***************************************************************************)
EXTENDS CrabIR

\* An LLVM instruction, as a statement on the LLVM values.
Meaning(f, ins) ==
    CASE ins.op \in {"assign", "add1", "assume_in"} -> <<ins>>
      [] ins.op = "nondet" -> <<Havoc(ins.lhs)>>
      [] ins.op = "cmp" -> <<BoolAssign(ins.lhs, f.cmps[ins.lhs].cst)>>
      [] ins.op = "fail" -> <<>>

RunBody(f, b, e) ==
    Run(FlattenSeq([k \in DOMAIN f.body[b] |-> Meaning(f, f.body[b][k])]), {e})

\* The successors that the terminator of b may choose in store e. The value
\* of a constant expression is fixed but unknown here.
Targets(f, b, e) ==
    LET t == f.term[b] IN
    CASE t.op = "br" -> {t.succs[1]}
      [] t.op = "condbr" ->
             {IF x = 1 THEN t.succs[1] ELSE t.succs[2] :
                 x \in ValuesOf(t.cond, e) \cap {0, 1}}
      [] t.op = "switch" ->
             {IF x \in 1..(Len(t.succs) - 1) THEN t.succs[x + 1]
              ELSE t.succs[1] : x \in ValuesOf(t.cond, e)}
      [] OTHER -> {}

\* The phi nodes of d read their operands on the edge, all at once.
EnterBlock(f, b, d, e) ==
    LET phis == f.phis[d]
        PhiAt(x) == CHOOSE k \in DOMAIN phis : phis[k].lhs = x
        Lhs == {phis[k].lhs : k \in DOMAIN phis}
    IN  {e2 \in [f.vars -> Val] :
            /\ \A x \in Lhs : e2[x] \in ValuesOf(phis[PhiAt(x)].inc[b], e)
            /\ \A x \in f.vars \ Lhs : e2[x] = e[x]}

\* The stores in which f enters d from b, having entered b with store e.
LlvmImage(f, b, d, e) ==
    UNION {EnterBlock(f, b, d, m) :
               m \in {m \in RunBody(f, b, e) : d \in Targets(f, b, m)}}

\* Calls of f: the parameters are arbitrary.
Arguments(f) ==
    {args \in [f.params -> Val] : \A x \in f.bools : args[x] \in {0, 1}}
=============================================================================

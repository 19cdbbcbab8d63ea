---------------------------- MODULE MCCfgBuilder ----------------------------
(* Families of LLVM functions for CfgSimulation: every shape of control    *)
(* flow that buildCfg distinguishes, with the phi nodes and the conditions *)
(* varied.                                                                 *)
EXTENDS CfgSimulation, LlvmFunctions

Calls == {<<>>, <<CallFail>>}
-----------------------------------------------------------------------------
(* while loops *)

Tests == {Cmp("lt", V(a), K(2), TRUE), Cmp("ne", V(a), V(b), FALSE),
          Cmp("ult", V(a), V(n), TRUE)}
Conds == {V(c), K(1), Undef}

WhileLoops ==
    {WhileLoop(t, cond, na, nb, calls) :
        t \in Tests, cond \in Conds, na \in {V(a1), V(b)},
        nb \in {V(a), V(n), Undef}, calls \in Calls}

-----------------------------------------------------------------------------
(* loops of one block *)

\* The condition does not read a phi node of the loop.
SelfLoops ==
    {SelfLoop(t, cond, V(a1), nb, swapped) :
        t \in {Cmp("lt", V(a1), V(n), TRUE), Cmp("eq", V(a1), K(2), FALSE)},
        cond \in {V(c), K(0)}, nb \in {V(a), V(b)}, swapped \in BOOLEAN}

-----------------------------------------------------------------------------
(* joins *)

Diamonds ==
    {Diamond(cond, onElse, calls) :
        cond \in {V(p), K(1), K(0)},
        onElse \in {Jump("j"), Stop("unreachable")}, calls \in Calls}

SwitchJoin ==
    Fn(<<"e", "d0", "d1", "j">>,
       "e" :> Switch(n, <<"d0", "d1">>) @@ "d0" :> Jump("j") @@
           "d1" :> Jump("j") @@ "j" :> Return,
       "j" :> <<PhiNode(a, "d0" :> V(n) @@ "d1" :> K(0))>>,
       "e" :> <<Assign(b, K(2))>> @@ "d1" :> <<CallUnknown>>,
       NoCmps, {a, b, w})

-----------------------------------------------------------------------------
(* functions that never return                                             *)

EntryLoopFn(calls) ==
    Fn(<<"e", "l">>, "e" :> Jump("l") @@ "l" :> Jump("l"),
       "l" :> <<PhiNode(a, "e" :> K(0) @@ "l" :> V(b)),
                PhiNode(b, "e" :> V(n) @@ "l" :> V(a))>>,
       "e" :> calls, NoCmps, {a, b})

TwoBlockLoop ==
    Fn(<<"e", "h", "l">>,
       "e" :> Jump("h") @@ "h" :> Jump("l") @@ "l" :> Jump("h"),
       "h" :> <<PhiNode(a, "e" :> V(n) @@ "l" :> V(b))>>,
       "h" :> <<Assign(b, V(a))>>, NoCmps, {a, b})

Stops(op, calls) ==
    Fn(<<"e", "l", "u">>,
       "e" :> Branch(V(p), "l", "u") @@ "l" :> Jump("l") @@ "u" :> Stop(op),
       "l" :> <<PhiNode(a, "e" :> V(n) @@ "l" :> K(2))>>,
       "e" :> calls, NoCmps, {a, p})

EndlessFns ==
    {EntryLoopFn(calls) : calls \in Calls} \cup {TwoBlockLoop} \cup
    {Stops(op, calls) : op \in {"unreachable", "resume"}, calls \in Calls}

-----------------------------------------------------------------------------
MCFunctions ==
    WhileLoops \cup SelfLoops \cup Diamonds \cup {SwitchJoin} \cup EndlessFns
=============================================================================

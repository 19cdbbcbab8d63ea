---------------------------- MODULE MCOptimizer -----------------------------
(* Functions with dead blocks and dead edges of every kind, each with the  *)
(* options of the optimizer that apply to it.                              *)
EXTENDS Optimizer, LlvmFunctions

d == <<"d">>        \* another comparison
ComputeD == [op |-> "cmp", lhs |-> d]

-----------------------------------------------------------------------------
(* loops *)

\* A body or an exit that is dead by the condition or by the values, or none.
Loops ==
    {WhileLoop(t, cond, V(a1), nb, <<>>) :
        t \in {Cmp("lt", V(a), K(0), TRUE), Cmp("lt", V(a), K(2), FALSE)},
        cond \in {V(c), K(0), K(1)}, nb \in {V(a), V(b)}}

EndOfLoop ==
    {SelfLoop(Cmp("lt", V(a1), V(n), TRUE), cond, V(a1), V(b), swapped) :
        cond \in {V(c), K(0)}, swapped \in BOOLEAN}

-----------------------------------------------------------------------------
(* joins *)

Diamonds ==
    {Diamond(cond, onElse, <<>>) :
        cond \in {V(p), K(0), K(1)},
        onElse \in {Jump("j"), Stop("unreachable")}}

\* entry: b = 0; if (cond) ... goes straight to the join.
Triangle(test, cond) ==
    Fn(<<"e", "t", "j">>,
       "e" :> Branch(cond, "j", "t") @@ "t" :> Jump("j") @@ "j" :> Return,
       "j" :> <<PhiNode(a, "e" :> V(b) @@ "t" :> V(n))>>,
       "e" :> <<Assign(b, K(0)), ComputeC>> @@ "t" :> <<Add1(a1, V(n))>>,
       c :> test, {a, b, a1})

Triangles ==
    {Triangle(t, cond) :
        t \in {Cmp("lt", V(b), K(1), FALSE), Cmp("lt", V(b), V(n), TRUE)},
        cond \in {V(c), K(0), K(1)}}

\* A fork that may be dead, into two blocks that may not.
Fork(cond) ==
    Fn(<<"e", "t", "f", "j", "k">>,
       "e" :> Branch(cond, "t", "f") @@ "t" :> Jump("j") @@
           "f" :> Branch(V(p), "j", "k") @@ "j" :> Jump("k") @@ "k" :> Return,
       "j" :> <<PhiNode(a, "t" :> V(n) @@ "f" :> V(b))>> @@
           "k" :> <<PhiNode(a1, "f" :> V(b) @@ "j" :> V(a))>>,
       "f" :> <<Assign(b, K(1))>>,
       NoCmps, {a, b, a1, p})

\* The second test follows from the first one.
Correlated(second) ==
    Fn(<<"e", "t", "u", "f", "j">>,
       "e" :> Branch(V(c), "t", "f") @@ "t" :> Branch(V(d), "u", "j") @@
           "u" :> Jump("f") @@ "f" :> Jump("j") @@ "j" :> Return,
       "f" :> <<PhiNode(a, "e" :> K(2) @@ "u" :> V(n))>> @@
           "j" :> <<PhiNode(b, "t" :> V(n) @@ "f" :> V(a))>>,
       "e" :> <<ComputeC>> @@ "t" :> <<ComputeD>>,
       c :> Cmp("lt", V(n), K(1), TRUE) @@ d :> second, {a, b})

\* A block that stops, and is dead or entered in one way or in two.
StopAfter(first, second) ==
    Fn(<<"e", "j", "u", "r">>,
       "e" :> Branch(first, "j", "u") @@ "j" :> Branch(second, "r", "u") @@
           "u" :> Stop("unreachable") @@ "r" :> Return,
       "u" :> <<PhiNode(a, "e" :> V(b) @@ "j" :> V(n))>>,
       "e" :> <<Assign(b, K(0)), ComputeC>> @@ "u" :> <<Add1(a1, V(a))>>,
       c :> Cmp("lt", V(b), K(1), TRUE), {a, b, a1, p})

Stops ==
    {StopAfter(first, second) :
        first \in {V(c), K(0), V(p)}, second \in {V(p), K(1)}}

\* A switch, into a block that overflows and is left for a dead block.
SwitchThenDead ==
    Fn(<<"e", "s", "t", "u", "j">>,
       "e" :> Switch(n, <<"s", "t">>) @@ "s" :> Jump("t") @@
           "t" :> Branch(V(c), "j", "u") @@ "u" :> Jump("j") @@ "j" :> Return,
       "t" :> <<PhiNode(a, "e" :> K(1) @@ "s" :> V(a1))>> @@
           "j" :> <<PhiNode(b, "t" :> V(a) @@ "u" :> V(n))>>,
       "s" :> <<Assign(w, K(2)), Add1(a1, V(w))>> @@ "t" :> <<ComputeC>>,
       c :> Cmp("eq", V(a), K(1), FALSE), {a, b, a1, w})

-----------------------------------------------------------------------------
Forks == {Fork(cond) : cond \in {V(p), K(0), K(1)}}
CorrelatedTests ==
    {Correlated(t) : t \in {Cmp("lt", V(n), K(2), TRUE),
                            Cmp("ne", V(n), K(0), TRUE)}}

MCFunctions ==
    Loops \cup EndOfLoop \cup Diamonds \cup Triangles \cup Forks \cup
    CorrelatedTests \cup Stops \cup {SwitchThenDead}

Options(fns, constants) ==
    [fn : fns, dce : BOOLEAN, invariants : {"none", "block", "loop_header"},
     constants : constants]

\* Values are replaced in functions whose phi nodes have the same value from
\* all predecessors if Crab finds a constant at the end of one that jumps.
MCJobs ==
    Options(MCFunctions, {FALSE}) \cup Options(Triangles \cup Forks, {TRUE})
=============================================================================

--------------------------- MODULE LlvmFunctions ----------------------------
(* How the LLVM functions that the MC modules try are written down, and the *)
(* shapes they share.                                                      *)
EXTENDS CrabIR

\* A source variable is a sequence of names: OldCopy appends to it.
a == <<"a">>        \* phi nodes
b == <<"b">>
a1 == <<"a1">>      \* a + 1
c == <<"c">>        \* a comparison
n == <<"n">>        \* a parameter
p == <<"p">>        \* a boolean parameter
w == <<"w">>        \* the result of an unknown call

Jump(d) == [op |-> "br", succs |-> <<d>>, cond |-> Undef]
Branch(cond, d1, d2) ==
    [op |-> "condbr", succs |-> <<d1, d2>>, cond |-> cond]
Switch(x, ds) == [op |-> "switch", succs |-> ds, cond |-> V(x)]
Stop(op) == [op |-> op, succs |-> <<>>, cond |-> Undef]
Return == Stop("ret")

Cmp(rel, x, y, onlyBr) == [cst |-> Constraint(rel, x, y), onlyBr |-> onlyBr]
PhiNode(x, inc) == [lhs |-> x, inc |-> inc]
ComputeC == [op |-> "cmp", lhs |-> c]
CallUnknown == [op |-> "nondet", lhs |-> w]
CallFail == [op |-> "fail"]

NoCmps == [x \in {} |-> Cmp("eq", K(0), K(0), TRUE)]
AndNone(f, layout) ==
    [l \in ToSet(layout) |-> IF l \in DOMAIN f THEN f[l] ELSE <<>>]

Fn(layout, term, phis, body, cmps, names) ==
    [layout |-> layout, term |-> term,
     phis |-> AndNone(phis, layout), body |-> AndNone(body, layout),
     cmps |-> cmps, vars |-> names \cup DOMAIN cmps \cup {n},
     params |-> {n} \cup (names \cap {p}), bools |-> names \cap {p}]

-----------------------------------------------------------------------------
\* entry -> head; head: if (cond) body else exit; body -> head
WhileLoop(test, cond, nextA, nextB, calls) ==
    Fn(<<"e", "h", "l", "x">>,
       "e" :> Jump("h") @@ "h" :> Branch(cond, "l", "x") @@
           "l" :> Jump("h") @@ "x" :> Return,
       "h" :> <<PhiNode(a, "e" :> K(0) @@ "l" :> nextA),
                PhiNode(b, "e" :> V(n) @@ "l" :> nextB)>>,
       "e" :> calls @@ "h" :> <<ComputeC>> @@ "l" :> <<Add1(a1, V(a))>>,
       c :> test, {a, b, a1})

\* entry -> loop; loop: if (cond) loop else exit
SelfLoop(test, cond, nextA, nextB, swapped) ==
    Fn(<<"e", "l", "x">>,
       "e" :> Jump("l") @@ "x" :> Return @@
           "l" :> IF swapped THEN Branch(cond, "x", "l")
                             ELSE Branch(cond, "l", "x"),
       "l" :> <<PhiNode(a, "e" :> K(0) @@ "l" :> nextA),
                PhiNode(b, "e" :> V(n) @@ "l" :> nextB)>>,
       "l" :> <<Add1(a1, V(a)), ComputeC>>,
       c :> test, {a, b, a1})

\* if (cond) ... else ..., where the else part may not come back
Diamond(cond, onElse, calls) ==
    LET Join(x, fromT, fromF) ==
            PhiNode(x, IF onElse.succs = <<>> THEN "t" :> fromT
                       ELSE "t" :> fromT @@ "f" :> fromF)
    IN  Fn(<<"e", "t", "f", "j", "r">>,
           "e" :> Branch(cond, "t", "f") @@ "t" :> Jump("j") @@
               "f" :> onElse @@ "j" :> Return @@ "r" :> Stop("resume"),
           "j" :> <<Join(a, V(n), K(2)), Join(b, K(1), Undef)>>,
           "t" :> calls, NoCmps, {a, b, p})
=============================================================================

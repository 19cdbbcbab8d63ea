--------------------------- MODULE MCPathAnalyzer ---------------------------
(* Paths through a conditional (e -> m or f -> x), from the entry or from  *)
(* the middle, and through the body of a loop.                             *)
EXTENDS PathAnalyzer, TLC

i == "i"
j == "j"
n == "n"
b == "b"            \* booleans
c == "c"
False == Constraint("eq", K(0), K(1))
Lt(x, k) == Constraint("lt", V(x), K(k))
Ge(x, k) == Constraint("ge", V(x), K(k))

\* e defines i and perhaps b; both branches define j; x looks at the result.
EntryCode ==
    {<<def>> \o test :
        def \in {Assign(i, K(0)), Assign(i, V(n)), Havoc(i)},
        test \in {<<>>, <<BoolAssign(b, Lt(i, 1))>>}}
BranchCode ==
    {<<Assume(IsTrue(b)), Assign(j, V(i))>>, <<Assign(j, K(0)), AssertThat(Lt(i, 1))>>,
     <<Assume(Lt(i, 1)), Assign(j, V(n)), Assume(Ge(j, 1))>>,
     <<Assume(Ge(i, 1)), Assume(False), Assign(j, V(n))>>,
     <<Havoc(j), Unreachable>>}
OtherCode == {<<Assume(IsFalse(b)), Assign(j, K(1))>>, <<Assign(j, V(n))>>}
ExitCode ==
    {<<BoolAssign(c, Lt(j, 1)), Assume(IsFalse(c))>>,
     <<Assume(IsFalse(b)), Assume(Constraint("eq", V(j), V(i)))>>,
     <<Assume(Ge(n, 1)), Assume(Constraint("eq", V(j), V(n))), Assume(IsFalse(b))>>,
     <<AssertThat(IsFalse(b)), Assume(False)>>}

\* From the entry, a variable is defined once on a path.
Paths == {<<"e", "m", "x">>, <<"e", "f", "x">>, <<"m", "x">>, <<"e", "x">>, <<>>}

\* With several invariants to store, m stands for an edge of LLVM.
Conditional(ce, cm, cf, cx, path, layered, relational) ==
    [blocks |-> {"e", "m", "f", "x"}, edges |-> IF Len(path) = 3 THEN {"m"} ELSE {},
     next |-> "e" :> {"m", "f"} @@ "m" :> {"x"} @@ "f" :> {"x"} @@ "x" :> {},
     code |-> "e" :> ce @@ "m" :> cm @@ "f" :> cf @@ "x" :> cx,
     vars |-> {i, j, n, b, c}, bools |-> {b, c},
     path |-> path, layered |-> layered, relational |-> relational]

Conditionals ==
    {Conditional(ce, cm, cf, cx, path, layered, relational) :
        ce \in EntryCode, cm \in BranchCode, cf \in OtherCode, cx \in ExitCode,
        path \in Paths, layered \in BOOLEAN, relational \in BOOLEAN}

\* The loop "h: while (i < 1) l: i = ...", from its body through the test:
\* i is tested, and defined again, on the path.
Iteration(layered) ==
    [blocks |-> {"l", "h", "x"}, edges |-> {},
     next |-> "l" :> {"h"} @@ "h" :> {"l", "x"} @@ "x" :> {},
     code |-> "l" :> <<BoolAssign(b, Lt(i, 1)), Assume(IsTrue(b)), Havoc(j)>> @@
              "h" :> <<Assign(i, V(j)), BoolAssign(c, Lt(i, 1))>> @@
              "x" :> <<Assume(IsFalse(c))>>,
     vars |-> {i, j, b, c}, bools |-> {b, c},
     path |-> <<"l", "h", "x">>, layered |-> layered, relational |-> TRUE]

\* The boolean that i is made of is tested behind it. Without pre, it is an
\* input.
Extended(pre, layered, relational) ==
    [blocks |-> {"e", "x"}, edges |-> {}, next |-> "e" :> {"x"} @@ "x" :> {},
     code |-> "e" :> (pre \o <<Assign(i, V(b)), Assume(IsTrue(b))>>) @@
              "x" :> <<Assume(Lt(i, 1))>>,
     vars |-> {i, n, b}, bools |-> {b},
     path |-> <<"e", "x">>, layered |-> layered, relational |-> relational]
Extensions ==
    {Extended(pre, layered, relational) :
        pre \in {<<>>, <<BoolAssign(b, Lt(n, 1))>>},
        layered \in BOOLEAN, relational \in BOOLEAN}

\* Round the loop, with and without the edge back, and a missing edge before.
Around ==
    {[Iteration(TRUE) EXCEPT !.path = path] :
        path \in {<<"l", "h", "l">>, <<"l", "x", "l">>, <<"h", "x", "h">>, <<"h">>}}

\* The boolean layer leaves the path to the second one, which looks at i too.
LeftToAll == [Iteration(TRUE) EXCEPT !.code["x"] = <<Assume(Ge(i, 1)), Assume(Lt(i, 1))>>]

MCJobs == Conditionals \cup Extensions \cup Around \cup {LeftToAll}
              \cup {Iteration(layered) : layered \in BOOLEAN}
=============================================================================

--------------------------- MODULE MCInstructions ---------------------------
EXTENDS Instructions

V(x) == <<"v", x>>
K(n) == <<"k", n>>
Null == <<"null">>
Undef == <<"undef">>
Expr == <<"expr">>

I(op, lhs, ty, f, args) == [op |-> op, lhs |-> lhs, ty |-> ty, f |-> f, args |-> args, n |-> 0]
Icmp(lhs, f, a, b) == I("icmp", lhs, "int", f, <<a, b>>)
Call(f, ty, a) == I("verifier", "", ty, f, <<a>>)
SelectOf(lhs, ty, c, a, b) == I("select", lhs, ty, "", <<c, a, b>>)

VarTypes ==
    <<<<"x", "int">>, <<"y", "int">>, <<"z", "int">>, <<"w", "int">>,
      <<"a", "bool">>, <<"b", "bool">>, <<"c", "bool">>, <<"d", "bool">>,
      <<"p", "ref">>, <<"q", "ref">>, <<"r", "ref">>>>

AllValues == <<[int |-> Signed, bool |-> {0, 1}, ref |-> 0..MaxRef],
               [int |-> {-1, 1}, bool |-> {0, 1}, ref |-> {0, MaxRef}]>>
\* Where unsigned comparisons are lowered, and integers are conditions.
NonNegatives == <<[AllValues[1] EXCEPT !.int = 0..(2^(Width - 1) - 1)],
                  [AllValues[2] EXCEPT !.int = {0, 1}]>>

Base == [code |-> <<>>, types |-> VarTypes, inputs |-> <<"x", "y">>, values |-> AllValues,
         branch |-> {}, forward |-> TRUE, lower_unsigned_icmp |-> FALSE,
         avoid_boolean |-> TRUE, include_useless_havoc |-> TRUE, lower_overflow |-> FALSE]
P(code) == [Base EXCEPT !.code = code]
OnBools(code) == [P(code) EXCEPT !.inputs = <<"a", "b">>]
OnRefs(code) == [P(code) EXCEPT !.inputs = <<"p", "q">>]

Predicates == {"eq", "ne", "lt", "le", "gt", "ge"}
Fns == {"assert", "assume", "assume_not"}

\* A comparison that reaches a verifier call through a cast, and another way.
Verified ==
    {[P(<<Icmp("b", f, V("x"), a), I("cast", "z", "bool", "zext", <<V("b")>>),
          Call(fn, "int", V("z")), Icmp("c", "lt", V("x"), V("y")), Call("assert", "bool", V("c"))>>)
        EXCEPT !.avoid_boolean = avoid] :
       f \in Predicates, a \in {V("y"), K(-1)}, fn \in Fns, avoid \in BOOLEAN}

\* A comparison that is cast twice, with a branch as another user.
TwoCasts ==
    {[P(<<Icmp("b", "lt", V("x"), V("y")), I("cast", "z", "bool", "zext", <<V("b")>>),
          I("cast", "w", "int", "zext", <<V("z")>>), Call(fn, "int", V("w"))>>)
        EXCEPT !.branch = br, !.forward = fwd] :
       fn \in Fns, br \in {{}, {"b"}}, fwd \in BOOLEAN}

\* Uses of a comparison that cannot be left out, in both orders.
Shared ==
    {[P(<<Icmp("b", f, V("x"), V("y"))>> \o rest) EXCEPT !.forward = fwd, !.branch = br] :
       f \in {"lt", "ge"}, fwd \in BOOLEAN, br \in {{}, {"b"}},
       rest \in {<<Call("assume", "bool", V("b")), SelectOf("z", "int", V("b"), V("x"), V("y"))>>,
                 <<SelectOf("z", "int", V("b"), V("x"), K(1)), I("binop", "w", "int", "add", <<V("z"), K(1)>>)>>,
                 <<SelectOf("z", "int", V("b"), K(1), K(0)), Call("assume", "int", V("z"))>>,
                 <<I("cast", "z", "bool", "sext", <<V("b")>>), I("binop", "w", "int", "sub", <<V("z"), V("x")>>)>>}}

\* assume of a conjunction that was compiled into a select
Selected ==
    {[OnBools(<<I("cast", "z", "bool", "zext", <<V("b")>>), sel, Call(fn, "int", V("w")), rest>>)
        EXCEPT !.avoid_boolean = TRUE] :
       sel \in {SelectOf("w", "int", V("a"), V("z"), K(0)), SelectOf("w", "int", V("a"), K(0), V("z")),
                SelectOf("w", "int", V("a"), V("z"), K(1))},
       fn \in {"assume", "assert"}, rest \in {Call("assert", "bool", V("b")), Call("assert", "bool", V("a"))}}

Booleans ==
    {OnBools(<<i, I("cast", "z", "bool", "zext", <<V("c")>>), Call(fn, "int", V("z")),
               SelectOf("d", "bool", V("c"), V("a"), K(1)), Call("assert", "bool", V("d"))>>) :
       fn \in Fns,
       i \in {I("binop", "c", "bool", f, <<V("a"), v>>) : f \in {"and", "or", "xor"}, v \in {V("b"), K(1)}}
          \cup {I("icmp", "c", "bool", f, <<V("a"), V("b")>>) : f \in {"eq", "ne"}}}

Arithmetic ==
    {P(<<I("binop", "z", "int", f, args), Icmp("b", "lt", V("z"), V("x")), Call("assert", "bool", V("b"))>>) :
       f \in {"add", "sub", "mul", "sdiv", "srem", "udiv", "urem", "and", "or", "xor", "shl", "ashr", "lshr"},
       args \in {<<V("x"), V("y")>>, <<V("x"), K(-1)>>, <<V("x"), K(1)>>, <<K(2), V("y")>>, <<K(2), K(1)>>}}

Casts ==
    {P(<<I("cast", "b", "int", "trunc", <<V("x")>>), I("cast", "z", "bool", f, <<V("b")>>),
         I("binop", "w", "int", "add", <<V("z"), V("y")>>), SelectOf("w", "int", V("b"), V("w"), V("z"))>>) :
       f \in {"zext", "sext"}}

References ==
    {OnRefs(<<I("icmp", "b", "ref", f, <<V("p"), v>>), SelectOf("r", "ref", V("b"), V("p"), V("q"))>> \o rest) :
       f \in Predicates \cup {"ult", "ule", "ugt", "uge"}, v \in {V("q"), Null},
       rest \in {<<Call("assert", "bool", V("b"))>>,
                 <<I("cast", "z", "bool", "zext", <<V("b")>>), Call("assume_not", "int", V("z"))>>,
                 <<I("cast", "z", "ref", "ptrtoint", <<V("r")>>), Icmp("c", "gt", V("z"), K(0)),
                   Call("assume", "bool", V("c"))>>}}
    \cup {OnRefs(<<I("cast", "r", "ref", "bitcast", <<v>>), I("pass", "q", "ref", "", <<V("r")>>),
                   I("icmp", "b", "ref", "eq", <<V("q"), V("p")>>), Call("assume", "bool", V("b"))>>) :
            v \in {V("p"), Null, Expr}}

\* Unsigned comparisons that are lowered. (Of operands that differ in sign the
\* result is the wrong one.)
UnsignedComparisons ==
    {[P(<<Icmp("b", f, V("x"), a)>> \o rest)
        EXCEPT !.lower_unsigned_icmp = TRUE, !.avoid_boolean = FALSE, !.values = NonNegatives] :
       f \in {"ult", "ule", "ugt", "uge"}, a \in {V("y"), K(2)},
       rest \in {<<Call("assert", "bool", V("b"))>>,
                 <<I("cast", "z", "bool", "zext", <<V("b")>>), Call("assume_not", "int", V("z")),
                   Icmp("c", "le", V("x"), V("y")), Call("assert", "bool", V("c"))>>,
                 <<SelectOf("z", "int", V("b"), V("x"), V("y"))>>}}

Unsupported ==
    {[P(<<I("other", "z", "int", "", <<>>), I("binop", "w", "int", "and", <<Expr, V("z")>>),
          Icmp("b", "lt", V("w"), V("x")), Call("assume", "bool", V("b")),
          Icmp("c", "eq", V("x"), Expr), I("cast", "d", "bool", "bitcast", <<V("c")>>),
          Call("assert", "bool", V("d"))>>) EXCEPT !.inputs = <<"x">>],
     [P(<<I("pass", "z", "int", "", <<Expr>>), I("pass", "w", "int", "", <<K(-1)>>),
          I("pass", "b", "bool", "", <<V("a")>>), I("pass", "r", "ref", "", <<Null>>),
          I("binop", "y", "int", "xor", <<V("z"), V("w")>>), Icmp("c", "lt", V("y"), Undef)>>) EXCEPT !.inputs = <<"a">>],
     [P(<<I("binop", "z", "int", "or", <<V("x"), Undef>>), I("binop", "a", "bool", "and", <<Undef, K(1)>>),
          SelectOf("w", "int", V("a"), V("z"), K(1))>>)
        EXCEPT !.inputs = <<"x">>]}

Overflows ==
    {[P(<<[I("overflow", "z", "int", f, <<V("x"), a>>) EXCEPT !.n = 0],
          [I("overflow", "b", "int", f, <<V("x"), a>>) EXCEPT !.n = 1],
          Call("assume_not", "bool", V("b")), SelectOf("w", "int", V("b"), V("x"), V("z"))>>)
        EXCEPT !.lower_overflow = lower] :
       f \in {"add", "sub", "mul"}, a \in {V("y"), K(2)}, lower \in BOOLEAN}

Constants ==
    {[P(<<Call(fn, "int", K(n)), Icmp("b", "le", V("x"), K(0)), Call("assert", "bool", V("b"))>>) EXCEPT
        !.avoid_boolean = FALSE] : fn \in Fns, n \in {0, 1}}
    \cup {[P(<<Icmp("b", "eq", V("x"), V("y")), Call("assume", "bool", V("b")),
               I("verifier", "", "int", "error", <<>>)>>) EXCEPT !.avoid_boolean = FALSE],
          [P(<<Icmp("b", "lt", V("x"), V("y")), SelectOf("z", "int", V("b"), K(1), K(0)),
               Call("assert", "int", V("z"))>>) EXCEPT !.values = NonNegatives],
          [P(<<Call("assume", "int", V("x")), Call("assume_not", "int", V("y")),
               Icmp("b", "le", V("y"), V("x")), Call("assert", "bool", V("b"))>>)
             EXCEPT !.values = NonNegatives]}

MCPrograms ==
    Verified \cup TwoCasts \cup Shared \cup Selected \cup Booleans \cup Arithmetic \cup Casts \cup References
        \cup UnsignedComparisons \cup Unsupported \cup Overflows \cup Constants

=============================================================================

---------------------------- MODULE MCMemoryCode ----------------------------
EXTENDS MemoryCode

Base == [code |-> <<>>, types |-> <<>>, inputs |-> <<>>, objects |-> <<>>, globals |-> <<>>,
         regions |-> <<>>, isMain |-> FALSE, checks |-> {}, precision |-> "mem",
         check_only_typed |-> FALSE, pointer_assumptions |-> TRUE, allocate_globals |-> TRUE,
         lower_singleton |-> TRUE, zero_init |-> FALSE, include_useless_havoc |-> TRUE,
         add_is_deref |-> FALSE]

I(op, lhs, args) ==
    [op |-> op, lhs |-> lhs, ty |-> "int", args |-> args, parts |-> <<>>, inbounds |-> TRUE,
     obj |-> 0, n |-> 1, cells |-> <<>>, rgns |-> <<>>]
NullPtr == <<"null">>
Alloca(x, obj, n) == [I("alloca", x, <<K(1)>>) EXCEPT !.obj = obj, !.n = n]
AllocaOf(x, obj, nElts) == [I("alloca", x, <<nElts>>) EXCEPT !.obj = obj]
Malloc(x, obj, size) == [I("malloc", x, <<size>>) EXCEPT !.obj = obj]
Calloc(x, obj, n, size) == [I("calloc", x, <<n, size>>) EXCEPT !.obj = obj]
Realloc(x, obj, p, size) == [I("realloc", x, <<p, size>>) EXCEPT !.obj = obj]
Free(p) == I("free", "", <<p>>)
Part(idx, scale, field) == [idx |-> idx, scale |-> scale, field |-> field]
Gep(x, p, idx) == [I("gep", x, <<p>>) EXCEPT !.parts = <<Part(idx, 1, FALSE)>>]
GepParts(x, p, parts) == [I("gep", x, <<p>>) EXCEPT !.parts = parts]
Load(x, ty, p) == [I("load", x, <<p>>) EXCEPT !.ty = ty]
Store(ty, p, v) == [I("store", "", <<p, v>>) EXCEPT !.ty = ty]
Cast(x, p) == I("bitcast", x, <<p>>)
SelectPtr(x, c, p, q) == I("select", x, <<c, p, q>>)
Block == I("block", "", <<K(0)>>)
External(x, ty, cells, rgns) ==
    [I("call", x, <<K(0)>>) EXCEPT !.ty = ty, !.cells = cells, !.rgns = rgns]

Types ==
    <<<<"p", "ref">>, <<"q", "ref">>, <<"r", "ref">>, <<"s", "ref">>, <<"g", "ref">>,
      <<"h", "ref">>, <<"x", "int">>, <<"y", "int">>, <<"z", "int">>, <<"b", "bool">>, <<"c", "bool">>>>
Rgn(id, ty) == [id |-> id, ty |-> ty, singleton |-> FALSE]
Scalar(id, ty) == [id |-> id, ty |-> ty, singleton |-> TRUE]
Pointers == {"p", "q", "r", "s", "g", "h"}
All(rgn) == [x \in Pointers |-> rgn]

P(code) == [Base EXCEPT !.code = code, !.types = Types, !.regions = All(Rgn("A", "int"))]
Input(x, values) == [name |-> x, values |-> values, deref |-> FALSE]
ArgP == [name |-> "p", values |-> {Null, <<1, 0>>}, deref |-> FALSE]
InX == Input("x", {0, 1, 2})
InC == Input("c", {0, 1})
Obj(obj, size, cells) == [obj |-> obj, size |-> size, cells |-> cells]
With(p, inputs) == [p EXCEPT !.inputs = inputs, !.objects = <<Obj(1, 2, <<<<0, 1>>, <<1, 2>>>>)>>]

AllChecks == {"null", "uaf", "bounds"}
Checking(progs) ==
    {[p EXCEPT !.checks = ks] : p \in progs, ks \in SUBSET AllChecks}
Params(progs) ==
    {[p EXCEPT !.check_only_typed = t, !.pointer_assumptions = a, !.include_useless_havoc = h] :
       p \in progs, t \in BOOLEAN, a \in BOOLEAN, h \in BOOLEAN}

\* Objects made in the function. The pointer that is null is used first.
Made ==
    {With(P(<<Malloc("p", 2, V("x")), Gep("q", V("p"), K(1)), Store("int", V("p"), K(1))>> \o rest), <<InX, InC>>) :
        rest \in {<<Store("int", V("q"), V("x")), Load("y", "int", V("q")), Load("z", "int", V("p"))>>,
                  <<Free(V("p")), Load("y", "int", V("q"))>>,
                  <<Cast("r", V("q")), Alloca("s", 3, 1), SelectPtr("h", V("c"), V("s"), V("r")),
                    Store("int", V("h"), K(2)), Load("y", "int", V("s"))>>,
                  <<Gep("s", V("q"), V("x")), Load("y", "int", V("s"))>>}}
        \cup {With(P(<<Calloc("p", 2, V("x"), n), Store("int", V("p"), K(2)), Realloc("q", 3, V("p"), K(1)),
                       Store("int", V("q"), K(1)), Load("y", "int", V("q"))>>), <<InX>>) : n \in {K(1), K(2)}}
        \cup {With(P(<<Calloc("p", 2, K(1), K(2)), AllocaOf("q", 3, V("x")), SelectPtr("r", V("c"), V("p"), NullPtr),
                       Load("y", "int", V("r")), Block, Store("int", V("r"), K(1)), Load("z", "int", V("p"))>>),
                   <<InX, InC>>)}

\* Objects of the caller, checked once in a block. No bounds: they are not
\* known.
Passed ==
    {[With(P(<<Load("y", "int", V("p")), Gep("q", V("p"), K(1)), Store("int", V("q"), V("y"))>> \o rest), <<ArgP, InC>>)
        EXCEPT !.checks = ks] :
        ks \in SUBSET {"null", "uaf"},
        rest \in {<<Load("z", "int", V("p"))>>, <<Free(V("p")), Block, Load("z", "int", V("q"))>>,
                  <<Alloca("s", 2, 2), SelectPtr("r", V("c"), V("s"), V("p")), Free(V("p")), Block,
                    Store("int", V("r"), K(0)), Load("z", "int", V("s"))>>,
                  <<SelectPtr("r", K(0), V("q"), V("p")), Load("z", "int", V("r"))>>,
                  <<SelectPtr("r", K(1), NullPtr, V("p")), Load("z", "int", V("r"))>>,
                  <<SelectPtr("r", V("c"), NullPtr, NullPtr), Load("z", "int", V("r"))>>,
                  <<Cast("r", NullPtr), Store("int", V("r"), K(1))>>}}
        \cup {[With(P(<<SelectPtr("r", V("c"), V("s"), V("p")), Load("y", "int", V("r"))>>), <<ArgP, InC>>)
                EXCEPT !.code = <<Alloca("s", 2, 1)>> \o @, !.checks = ks] : ks \in SUBSET {"null", "uaf"}}

\* Pointers in memory, in regions that are typed or not.
Loaded ==
    {[With(P(<<Load("q", "ref", V("p")), Load("y", "int", V("q")), Gep("r", V("q"), K(0)), Load("z", "int", V("r"))>> \o rest),
           <<[ArgP EXCEPT !.deref = TRUE, !.values = {<<1, 0>>}]>>)
        EXCEPT !.objects = <<Obj(1, 1, <<<<0, v>>>>), Obj(2, 2, <<<<0, 1>>>>)>>, !.checks = ks,
               !.regions = [@ EXCEPT !["p"] = Rgn("B", ty)]] :
        v \in {Null, <<2, 0>>, <<2, 1>>}, ty \in {"ref", "unknown"}, ks \in SUBSET AllChecks,
        rest \in {<<>>, <<Store("ref", V("p"), NullPtr), Load("s", "ref", V("p")), Store("int", V("s"), K(1))>>,
                  <<Free(V("q")), Block, Gep("s", V("q"), K(1)), Store("int", V("s"), K(0)), Load("x", "int", V("s"))>>}}

\* Booleans in regions of integers, and the other way round.
Mixed ==
    {[With(P(<<Alloca("p", 2, 1), Store("bool", V("p"), V("c")), Load("b", "bool", V("p"))>>), <<InC>>)
        EXCEPT !.regions = All(Rgn("A", ty)), !.precision = prec] :
        ty \in {"int", "bool", "unknown"}, prec \in {"mem", "singleton", "num"}}
        \cup {[With(P(<<Alloca("p", 2, 1), Store("int", V("p"), K(1)), Load(l[1], l[2], V("p"))>>), <<>>)
                EXCEPT !.regions = All(Rgn("A", "int")), !.precision = prec] :
                l \in {<<"y", "int">>, <<"b", "bool">>}, prec \in {"mem", "singleton"}}

\* Symbolic indexes of several parts. (Not with bounds: their ghosts are wrong.)
Indexed ==
    {[With(P(<<Alloca("p", 2, 3), GepParts("q", V("p"), parts), Store("int", V("q"), V("x")), Load("y", "int", V("q")),
               Store("int", V("p"), K(1)), Load("z", "int", V("q"))>>), <<Input("x", {0, 1})>>)
        EXCEPT !.precision = prec, !.checks = ks] :
        prec \in {"mem", "singleton", "num"}, ks \in {{}, {"null", "uaf"}},
        parts \in {<<Part(V("x"), 1, FALSE), Part(K(1), 1, TRUE)>>, <<Part(K(0), 3, FALSE), Part(V("x"), 2, FALSE)>>,
                   <<Part(K(0), 3, FALSE), Part(K(1), 1, TRUE), Part(V("x"), 1, FALSE)>>,
                   <<Part(K(1), 1, FALSE), Part(K(1), 1, TRUE)>>}}

\* Globals, their initializers and functions without a body.
Global(x, obj, inits) ==
    [name |-> x, obj |-> obj, size |-> 2, inits |-> inits, cstring |-> FALSE]
Globals ==
    {[P(<<Load("y", "int", V("g")), Gep("q", V("g"), K(1)), Store("int", V("q"), V("y")), Load("z", "int", V("q"))>> \o rest)
        EXCEPT !.isMain = main, !.precision = prec, !.allocate_globals = alloc, !.pointer_assumptions = asm,
               !.globals = <<Global("g", 1, <<<<0, 2>>, <<1, 3>>>>), Global("h", 2, <<<<0, 1>>>>)>>,
               !.regions = [x \in Pointers |-> IF x = "h" THEN h ELSE Rgn("A", "int")], !.checks = {"null", "uaf"}] :
        main \in BOOLEAN, prec \in {"mem", "singleton"}, alloc \in BOOLEAN, asm \in BOOLEAN,
        h \in {Rgn("B", "int"), Scalar("B", "int"), Rgn("B", "unknown")},
        rest \in {<<Load("x", "int", V("h")), Store("int", V("h"), V("y")), Load("x", "int", V("h"))>>}}
        \cup {[P(<<Load("y", "int", V("h")), External("x", "int", <<<<2, 0>>>>, <<h>>), Load("z", "int", V("h"))>>)
                EXCEPT !.isMain = TRUE, !.precision = "singleton", !.globals = <<Global("h", 2, <<<<0, 1>>>>)>>,
                       !.regions = All(h)] : h \in {Rgn("B", "int"), Scalar("B", "int")}}
        \cup {[P(<<Load("y", "int", V("h"))>>)
                EXCEPT !.isMain = TRUE, !.globals = <<[Global("h", 2, <<>>) EXCEPT !.cstring = TRUE]>>]}
        \cup {[P(<<External("p", "ref", <<>>, <<Rgn("A", "int"), Scalar("B", "int")>>), Load("y", "int", V("p"))>>)
                EXCEPT !.checks = {"null", "uaf"}, !.pointer_assumptions = asm] : asm \in BOOLEAN}

\* Arrays: weak stores into a region that stands for two objects.
Arrays ==
    {[With(P(<<Alloca("p", 2, 2), Alloca("q", 3, 2), Store("int", V("p"), K(1)), Store("int", V("q"), V("x")),
               Load("y", "int", V("p"))>> \o rest), <<InX>>)
        EXCEPT !.precision = "singleton", !.isMain = main, !.zero_init = zero, !.regions = All(rgn)] :
        main \in BOOLEAN, zero \in BOOLEAN, rgn \in {Rgn("A", "int"), Rgn("A", "unknown")},
        rest \in {<<>>, <<Gep("r", V("p"), V("x")), Cast("s", V("r")), Store("int", V("s"), K(2))>>,
                  <<Gep("r", V("p"), V("x")), Gep("s", V("r"), K(0)), Store("int", V("r"), K(2)), Load("z", "int", V("s"))>>}}
        \cup {[With(P(<<Gep("r", V("p"), V("x")), Store("int", V("r"), K(2)), Load("y", "int", V("r"))>>),
                    <<Input("x", {0, 1}), Input("p", {<<1, 0>>})>>) EXCEPT !.precision = "singleton"]}

\* What is not translated, intrinsics and memset.
Others ==
    Params({With(P(<<Load("y", "int", NullPtr)>>), <<InX>>),
        With(P(<<Store("int", NullPtr, K(1))>>), <<InX>>)}) \cup
    {With(P(code), <<ArgP, InX>>) :
        code \in {<<Gep("q", NullPtr, K(0))>>, <<I("indirect", "y", <<K(0)>>), I("indirect", "", <<K(0)>>)>>,
                  <<I("is_unfreed_or_null", "b", <<V("p")>>), Free(V("p")), I("is_unfreed_or_null", "c", <<V("p")>>),
                    I("unfreed_or_null", "", <<V("p")>>)>>,
                  <<I("is_unfreed_or_null", "b", <<NullPtr>>)>>, <<Free(NullPtr)>>}}
        \cup {[With(P(<<Alloca("q", 2, 2), Gep("r", V("q"), V("x")), I("is_dereferenceable", "b", <<V("r"), K(n)>>)>>), <<InX>>)
                EXCEPT !.add_is_deref = d] : n \in {1, 2}, d \in BOOLEAN}
        \cup {[P(<<I(op, "b", <<V("h"), K(1)>>), Load("y", "int", V("h"))>>)
                EXCEPT !.isMain = TRUE, !.globals = <<[Global("h", 2, <<<<0, 1>>>>) EXCEPT !.size = 1]>>,
                       !.regions = All(Scalar("A", "int"))] :
                op \in {"is_dereferenceable", "is_unfreed_or_null"}}
        \cup {[With(P(<<Alloca("q", 2, 2), I("memset", "", <<V("q")>>), I("memcpy", "", <<V("p"), V("q")>>),
                       I("memcpy", "", <<V("q"), V("p")>>)>> \o rest), <<ArgP>>) EXCEPT !.checks = ks, !.precision = prec] :
                ks \in SUBSET {"null", "uaf"}, prec \in {"mem", "singleton"},
                rest \in {<<>>, <<Free(V("p")), Block, I("memset", "", <<V("p")>>)>>, <<I("memset", "", <<NullPtr>>)>>}}
        \cup {[With(P(<<Alloca("q", 2, 1), Store("int", V("q"), val), Store("int", <<"expr">>, K(1))>>), <<InX>>)
                EXCEPT !.precision = prec, !.regions = All(rgn)] :
                val \in {<<"none">>, <<"expr">>}, prec \in {"mem", "singleton"}, rgn \in {Rgn("A", "int")}}

\* What the emitters leave out: the object is freed between two accesses of
\* a block, the second access is at another offset, one of two selected
\* objects is freed; and what they leave out with reason.
UseFreeUse == <<Load("y", "int", V("p")), Free(V("p")), Load("z", "int", V("p"))>>
OnePastTheEnd == <<Alloca("s", 2, 1), Gep("q", V("s"), K(1)), Load("y", "int", V("q"))>>
OtherOffset ==
    <<Load("q", "ref", V("p")), Gep("r", V("q"), K(1)), Gep("s", V("q"), K(2)),
      Load("y", "int", V("r")), Load("z", "int", V("s"))>>
DerefP == [ArgP EXCEPT !.deref = TRUE, !.values = {<<1, 0>>}]
LeftOutPrograms ==
    {[With(P(code), <<ArgP>>) EXCEPT !.checks = ks, !.check_only_typed = typed, !.regions = All(Rgn("A", ty))] :
        ks \in SUBSET AllChecks, typed \in BOOLEAN, ty \in {"int", "unknown"},
        code \in {UseFreeUse, OnePastTheEnd,
                  <<Store("bool", V("p"), K(1)), Load("z", "int", V("p"))>>,
                  <<Load("y", "int", V("p")), Realloc("q", 2, V("p"), K(1)), Load("z", "int", V("p"))>>,
                  <<Free(V("p")), Load("y", "int", V("p"))>>}}
        \cup {[With(P(code), <<DerefP, InC>>)
                EXCEPT !.objects = <<Obj(1, 1, <<<<0, <<2, 0>>>>>>), Obj(2, 2, <<>>)>>, !.checks = ks,
                       !.regions = [@ EXCEPT !["p"] = Rgn("B", "ref")]] :
                ks \in SUBSET AllChecks,
                code \in {OtherOffset,
                          <<Load("q", "ref", V("p")), Gep("r", V("q"), K(1)), Load("y", "int", V("r")),
                            Free(V("q")), Load("z", "int", V("r"))>>}}
        \cup {[With(P(<<Alloca("s", 2, 1), SelectPtr("r", V("c"), a, b), Free(V("p")), Load("y", "int", V("r"))>>),
                   <<DerefP, InC>>) EXCEPT !.checks = ks] :
                ks \in SUBSET AllChecks, a \in {V("s"), V("p")}, b \in {V("s"), V("p")}}

MCPrograms ==
    LeftOutPrograms \cup Checking(Made) \cup Passed \cup Loaded \cup Mixed \cup Indexed \cup Globals \cup Arrays \cup Others
=============================================================================

---------------------------- MODULE Instructions ----------------------------
(***************************************************************************)
(* CrabIntraBlockBuilder and VerifierCallOptimizer (CfgBuilder.cc): the    *)
(* translation of comparisons, arithmetic, casts, selects and verifier     *)
(* calls. A block is translated one instruction after the other, then the  *)
(* LLVM block and its translation are run side by side, twice, with new    *)
(* inputs: the body of a loop. A variable that the translation forgets to  *)
(* assign keeps its value from the first round.                            *)
(*                                                                         *)
(* A program p is a record                                                 *)
(*   code    a sequence of [op, lhs, ty, f, args, n]: op is "icmp",        *)
(*           "binop", "cast", "select", "verifier", "overflow", "pass" or  *)
(*           "other"; f the predicate, opcode or function; ty the type of  *)
(*           the operands ("select": of the result); n the index of an     *)
(*           extractvalue. An operand is <<"v", x>>, <<"k", n>> (n is      *)
(*           signed), <<"null">>, <<"undef">> or <<"expr">> (a constant    *)
(*           expression)                                                   *)
(*   types   the variables, a sequence of <<name, type>>                   *)
(*   inputs  those that are defined outside, anew in every round           *)
(*   branch  the conditions of branches                                    *)
(*   forward the order of the users of a value                             *)
(*   lower_unsigned_icmp, avoid_boolean, include_useless_havoc,            *)
(*   lower_overflow   the parameters                                       *)
(***************************************************************************)
EXTENDS CrabStatements, TLC

CONSTANT Programs

VARIABLES
    prog,
    pc,         \* "translate", "run", "stopped" or "error"
    at,         \* the instruction that is next
    lits,       \* m_lit_cache, for constants and undef
    opt,        \* m_vericall_opt
    out,        \* for each instruction its statements
    llvm,       \* the store of the LLVM program
    crab,       \* the stores of the translation
    failed,     \* did an assertion fail: [llvm, crab]
    round

vars == <<prog, pc, at, lits, opt, out, llvm, crab, failed, round>>

Ins == prog.code[at]
Code == DOMAIN prog.code
TypeOfVar(x) == LET k == CHOOSE k \in DOMAIN prog.types : prog.types[k][1] = x
                IN  prog.types[k][2]

\* The n-th variable made for the instruction at hand.
Temp(n) == "t" \o ToString(10 * at + n)
UndefVar(ty) == "undef_" \o ty
Types ==
    prog.types \o <<<<UndefVar("int"), "int">>, <<UndefVar("bool"), "bool">>,
                    <<UndefVar("ref"), "ref">>>>

-----------------------------------------------------------------------------
(* Literals *)

NewLit(ty, a, signed) ==
    IF a[1] = "undef" THEN <<"v", UndefVar(ty)>>
    ELSE <<"k", IF ty = "int" /\ ~signed THEN Unsigned(a[2]) ELSE a[2]>>

\* getLit, for a sequence of operands: the first use of a constant decides
\* its value, and of undef its variable.
Remember(l, ty, args, signed) ==
    LET keys == {<<ty, a>> : a \in {a \in ToSet(args) : a[1] \in {"k", "undef"}}}
    IN  l @@ [key \in keys \ DOMAIN l |-> NewLit(key[1], key[2], signed)]

HasLit(a) == a[1] # "expr"
Lit(l, ty, a) == IF a[1] \in {"v", "null"} THEN a ELSE l[<<ty, a>>]
LitsOf(l, ty, args) == [k \in DOMAIN args |-> Lit(l, ty, args[k])]
IsVar(l) == l[1] = "v"

\* The operands that are looked at: the search ends at a missing literal.
Asked(args) ==
    SelectSeq(args, LAMBDA a : \A k \in DOMAIN args :
        (\E j \in DOMAIN args : j >= k /\ args[j] = a) => HasLit(args[k]))

UselessHavoc(x, ty) == IF prog.include_useless_havoc THEN <<Havoc(x, ty)>> ELSE <<>>

-----------------------------------------------------------------------------
(* Uses *)

Reads(i, x) == <<"v", x>> \in ToSet(i.args)
Users(x) ==
    LET us == SelectSeq([k \in Code |-> k], LAMBDA k : Reads(prog.code[k], x))
    IN  IF prog.forward THEN us ELSE Reverse(us)
HasOtherUse(x) == x \in prog.branch

IsVerifierCall(k) == prog.code[k].op = "verifier"
IsAssume(k) == IsVerifierCall(k) /\ prog.code[k].f \in {"assume", "assume_not"}
IsIntCast(k) == prog.code[k].op = "cast" /\ prog.code[k].f \in {"zext", "sext"}

\* AllUsesAreBrInst
AllUsesAreBr(x) == Users(x) = <<>>

AnyUseIsVerifierCall(x) == \E k \in ToSet(Users(x)) : IsVerifierCall(k)

\* AllUsesAreBrOrIntSelectCondInst, with its filter in visitCmpInst
AllUsesAreBrOrIntSelectCond(x) ==
    \A k \in ToSet(Users(x)) :
        LET i == prog.code[k] IN
        /\ i.op = "select" /\ i.ty = "int"
        /\ i.args[1] = <<"v", x>>
        /\ ~AnyUseIsVerifierCall(i.lhs)

\* AllUsesAreVerifierCalls: the calls, or none if there are other uses.
NoCalls == {0}
VerifierCalls(x, nonBool, onlyAssume) ==
    LET ok(k) == /\ IF onlyAssume THEN IsAssume(k) ELSE IsVerifierCall(k)
                 /\ nonBool => prog.code[k].ty # "bool"
    IN  IF HasOtherUse(x) \/ \E k \in ToSet(Users(x)) : ~ok(k) THEN NoCalls
        ELSE ToSet(Users(x))

\* The same through integer casts: the uses of the first cast decide, and no
\* user behind it is looked at. (A branch ends its block: it is the last user,
\* or the first one in the other order.)
RECURSIVE CallsThroughCasts(_)
CallsThroughCasts(x) ==
    LET us == Users(x)
        casts == {p \in DOMAIN us : IsIntCast(us[p])}
        first == Min(casts)
        before == {us[p] : p \in 1..(first - 1)}
        calls == CallsThroughCasts(prog.code[us[first]].lhs)
    IN  IF casts = {} THEN VerifierCalls(x, TRUE, FALSE)
        ELSE IF \/ calls = NoCalls
                \/ HasOtherUse(x) /\ ~prog.forward
                \/ \E k \in before : ~(IsVerifierCall(k) /\ prog.code[k].ty # "bool")
             THEN NoCalls ELSE before \cup calls

-----------------------------------------------------------------------------
(* VerifierCallOptimizer *)

NoOpt == [skipped |-> {}, int |-> <<>>, bool |-> <<>>, extra |-> <<>>]
Pending(map, calls, v) == map @@ [c \in calls |-> v]

\* Optimization #1: y = zext x; assume(y)
Opt1(i) == i.op = "cast" /\ i.f = "zext" /\ VerifierCalls(i.lhs, FALSE, FALSE) # NoCalls

\* Optimization #2: y = zext x; z = select c, y, 0 (or c, 0, y); assume(z)
Opt2Select(i) == Users(i.lhs)[1]
Opt2(i) ==
    /\ i.op = "cast" /\ i.f = "zext"
    /\ Len(Users(i.lhs)) = 1 /\ ~HasOtherUse(i.lhs)
    /\ LET s == prog.code[Opt2Select(i)] IN
       /\ s.op = "select"
       /\ <<"k", 0>> \in {s.args[2], s.args[3]}
       /\ VerifierCalls(s.lhs, FALSE, TRUE) # NoCalls

\* Optimization #3: b = icmp; assert(b), or through a cast
Opt3(i) == i.op = "icmp" /\ prog.avoid_boolean /\ CallsThroughCasts(i.lhs) # NoCalls

\* skipTranslation
Skips(k) ==
    LET i == prog.code[k] IN k \in opt.skipped \/ Opt1(i) \/ Opt2(i) \/ Opt3(i)

\* Mutant of OptAfter: the select of optimization #2 is taken to choose y.
OptAfterUnnegated(k) ==
    LET i == prog.code[k] IN
    IF k \in opt.skipped THEN opt
    ELSE IF Opt1(i)
    THEN [opt EXCEPT !.bool = Pending(@, VerifierCalls(i.lhs, FALSE, FALSE), i.args[1])]
    ELSE IF Opt2(i)
    THEN LET s == prog.code[Opt2Select(i)]
             calls == VerifierCalls(s.lhs, FALSE, TRUE)
         IN  [opt EXCEPT !.skipped = @ \cup {Opt2Select(i)},
                         !.bool = Pending(@, calls, i.args[1]),
                         !.extra = Pending(@, calls, <<s.args[1], FALSE>>)]
    ELSE IF Opt3(i) THEN [opt EXCEPT !.int = Pending(@, CallsThroughCasts(i.lhs), k)]
    ELSE opt

OptAfter(k) ==
    LET i == prog.code[k] IN
    IF k \in opt.skipped THEN opt
    ELSE IF Opt1(i)
    THEN [opt EXCEPT !.bool = Pending(@, VerifierCalls(i.lhs, FALSE, FALSE), i.args[1])]
    ELSE IF Opt2(i)
    THEN LET s == prog.code[Opt2Select(i)]
             calls == VerifierCalls(s.lhs, FALSE, TRUE)
         IN  [opt EXCEPT !.skipped = @ \cup {Opt2Select(i)},
                         !.bool = Pending(@, calls, i.args[1]),
                         !.extra = Pending(@, calls,
                                           <<s.args[1], s.args[2] = <<"k", 0>>>>)]
    ELSE IF Opt3(i) THEN [opt EXCEPT !.int = Pending(@, CallsThroughCasts(i.lhs), k)]
    ELSE opt

-----------------------------------------------------------------------------
(* Comparisons *)

Swapped == [gt |-> "lt", ge |-> "le", ugt |-> "ult", uge |-> "ule"]
IsUnsigned(i) == i.f \in {"ult", "ule", "ugt", "uge"}

\* Mutant of Normalized: the predicate changes, the operands do not.
NormalizedInPlace(i) ==
    IF i.f \in DOMAIN Swapped THEN [i EXCEPT !.f = Swapped[i.f]] ELSE i

\* normalizeCmpInst
Normalized(i) ==
    IF i.f \in DOMAIN Swapped
    THEN [i EXCEPT !.f = Swapped[i.f], !.args = <<i.args[2], i.args[1]>>] ELSE i

\* A constraint on the literals of a normalized comparison; not on unsigned
\* ones. On references, see cmpInstToCrabRef: null is 0.
Negation == [eq |-> "ne", ne |-> "eq", lt |-> "le", le |-> "lt"]
CmpCst(l, i, negated) ==
    LET j == Normalized(i)
        a == Lit(l, j.ty, j.args[1])
        b == Lit(l, j.ty, j.args[2])
    IN  IF ~negated THEN <<j.f, <<a, b>>>>
        ELSE <<Negation[j.f], IF j.f \in {"eq", "ne"} THEN <<a, b>> ELSE <<b, a>>>>

IsExpressible(i) ==
    /\ \A k \in DOMAIN i.args : HasLit(i.args[k])
    /\ i.ty = "ref" \/ ~IsUnsigned(i)

\* ref comparisons do not tell signed from unsigned
RefCst(l, i, negated) ==
    LET f == [ugt |-> "gt", uge |-> "ge", ult |-> "lt", ule |-> "le"]
    IN  CmpCst(l, IF i.f \in DOMAIN f THEN [i EXCEPT !.f = f[i.f]] ELSE i, negated)

Cst(l, i, negated) == IF i.ty = "ref" THEN RefCst(l, i, negated) ELSE CmpCst(l, i, negated)

\* unsignedCmpIntoSignOnes: res := a f b, by the signs of a and b. When
\* they differ the answer is that of the signed comparison.
SignOf(l) == IF IsVar(l) THEN "any" ELSE IF l[2] >= 0 THEN "pos" ELSE "neg"
NonNegative(l) == <<"le", <<<<"k", 0>>, l>>>>
BoolSet(x, cst) == Set(x, "bool", cst[1], cst[2])

UnsignedCmp(res, f, a, b) ==
    LET cmp == <<IF f = "ult" THEN "lt" ELSE "le", <<a, b>>>>
        \* a >= 0, or a < 0
        Decide(x, nonneg, n) ==
            CASE SignOf(b) = "pos" -> <<BoolSet(x, IF nonneg THEN cmp ELSE True)>>
              [] SignOf(b) = "neg" -> <<BoolSet(x, IF nonneg THEN False ELSE cmp)>>
              [] SignOf(b) = "any" ->
                    <<BoolSet(Temp(n), NonNegative(b)), BoolSet(Temp(n + 1), cmp),
                      BoolSet(Temp(n + 2), IF nonneg THEN False ELSE True),
                      Set(x, "bool", "ite",
                          <<<<"v", Temp(n)>>, <<"v", Temp(n + IF nonneg THEN 1 ELSE 2)>>,
                            <<"v", Temp(n + IF nonneg THEN 2 ELSE 1)>>>>)>>
    IN  IF SignOf(a) # "any" THEN Decide(res, SignOf(a) = "pos", 1)
        ELSE <<BoolSet(Temp(1), NonNegative(a))>>
                 \o Decide(Temp(2), TRUE, 4) \o Decide(Temp(3), FALSE, 7)
                 \o <<Set(res, "bool", "ite", <<<<"v", Temp(1)>>, <<"v", Temp(2)>>,
                                                <<"v", Temp(3)>>>>)>>

\* cmpInstToCrabBool
CmpToBool(l, i) ==
    LET j == Normalized(i) IN
    IF ~HasLit(j.args[1]) \/ ~HasLit(j.args[2]) THEN UselessHavoc(i.lhs, "bool")
    ELSE IF ~IsUnsigned(i) THEN <<BoolSet(i.lhs, CmpCst(l, i, FALSE))>>
    ELSE IF prog.lower_unsigned_icmp
         THEN UnsignedCmp(i.lhs, j.f, Lit(l, "int", j.args[1]), Lit(l, "int", j.args[2]))
    ELSE <<>>

\* The part of visitCmpInst about booleans: only equality.
BoolCmp(l, i) ==
    LET as == LitsOf(l, "bool", i.args) IN
    CASE i.f = "eq" -> <<Set(Temp(1), "bool", "xor", as),
                         Set(i.lhs, "bool", "not", <<<<"v", Temp(1)>>>>)>>
      [] i.f = "ne" -> <<Set(i.lhs, "bool", "xor", as)>>
      [] OTHER -> <<>>

Emit(stmts, l, o) ==
    /\ out' = Append(out, stmts)
    /\ lits' = l /\ opt' = o /\ at' = at + 1
    /\ UNCHANGED <<prog, pc, llvm, crab, failed, round>>

Visiting(op) == pc = "translate" /\ at \in Code /\ Ins.op = op

VisitCmpInst ==
    /\ Visiting("icmp")
    /\ LET i == Ins
           lowered == IF i.ty = "ref" THEN AllUsesAreBr(i.lhs)
                      ELSE i.ty = "int" /\ AllUsesAreBrOrIntSelectCond(i.lhs)
           skipped == i.ty # "bool" /\ ~lowered /\ Skips(at)
           l == Remember(lits, i.ty, Asked(Normalized(i).args), ~IsUnsigned(i))
       IN  IF lowered THEN Emit(<<>>, lits, opt)
           ELSE IF skipped THEN Emit(<<>>, lits, OptAfter(at))
           ELSE Emit(CASE i.ty = "int" -> CmpToBool(l, i)
                       [] i.ty = "bool" -> BoolCmp(l, i)
                       [] i.ty = "ref" ->
                             IF IsExpressible(i) THEN <<BoolSet(i.lhs, Cst(l, i, FALSE))>>
                             ELSE UselessHavoc(i.lhs, "bool"), l, opt)

-----------------------------------------------------------------------------
(* Arithmetic *)

\* doBinOp: a constant on the left needs a constant on the right.
BinOp(x, f, as) ==
    IF ~IsVar(as[1]) /\ IsVar(as[2]) THEN <<Havoc(x, "int")>>
    ELSE <<Set(x, "int", f, as)>>

IsLogic(f) == f \in {"and", "or", "xor"}

\* doArithmetic gives a constant on the left a variable; doIntLogicOp does
\* not; doBoolLogicOp handles all cases.
VisitBinaryOperator ==
    /\ Visiting("binop")
    /\ LET i == Ins
           l == Remember(lits, i.ty, Asked(i.args), TRUE)
           as == LitsOf(l, i.ty, i.args)
       IN  Emit(IF \E k \in DOMAIN i.args : ~HasLit(i.args[k])
                THEN UselessHavoc(i.lhs, i.ty)
                ELSE IF i.ty = "int" /\ IsLogic(i.f) THEN BinOp(i.lhs, i.f, as)
                ELSE <<Set(i.lhs, i.ty, i.f, as)>>, l, opt)

\* visitExtractValueInst on the result of an operation with overflow.
VisitExtractValue ==
    /\ Visiting("overflow")
    /\ LET i == Ins
           l == Remember(lits, "int", i.args, TRUE)
       IN  IF ~prog.lower_overflow
           THEN Emit(UselessHavoc(i.lhs, TypeOfVar(i.lhs)), lits, opt)
           ELSE IF i.n = 0 THEN Emit(BinOp(i.lhs, i.f, LitsOf(l, "int", i.args)), l, opt)
           ELSE Emit(<<BoolSet(i.lhs, False)>>, lits, opt)

-----------------------------------------------------------------------------
(* Casts, selects and parameters *)

\* visitCastInst. A cast that nobody uses is left out.
VisitCastInst ==
    /\ Visiting("cast")
    /\ LET i == Ins
           l == Remember(lits, i.ty, Asked(i.args), TRUE)
           a == i.args[1]
       IN  IF Users(i.lhs) = <<>> /\ ~HasOtherUse(i.lhs) THEN Emit(<<>>, lits, opt)
           ELSE IF Skips(at) THEN Emit(<<>>, lits, OptAfter(at))
           ELSE Emit(IF ~HasLit(a) \/ i.f \in {"ptrtoint", "inttoptr"}
                     THEN UselessHavoc(i.lhs, TypeOfVar(i.lhs))
                     ELSE IF i.f = "bitcast" /\ a[1] = "null"
                     THEN <<Assume(<<"eq", <<<<"v", i.lhs>>, <<"null">>>>>>)>>
                     ELSE <<Set(i.lhs, TypeOfVar(i.lhs),
                                IF i.f = "bitcast" THEN "id" ELSE i.f,
                                <<Lit(l, i.ty, a)>>)>>, l, opt)

\* The condition of an integer select as a constraint: the comparison, if
\* it can be expressed, otherwise the boolean.
SelectCst(l, c) ==
    LET defs == {k \in Code : prog.code[k].op = "icmp" /\ <<"v", prog.code[k].lhs>> = c}
        i == prog.code[CHOOSE k \in defs : TRUE]
    IN  IF defs # {} /\ i.ty = "int" /\ IsExpressible(i)
        THEN CmpCst(Remember(l, "int", Normalized(i).args, TRUE), i, FALSE)
        ELSE <<"eq", <<c, <<"k", 1>>>>>>

\* An unsigned comparison is lowered once more, for the select.
SelectUnsigned(c) ==
    prog.lower_unsigned_icmp /\
        \E k \in Code : /\ prog.code[k].op = "icmp" /\ prog.code[k].ty = "int"
                        /\ <<"v", prog.code[k].lhs>> = c /\ IsUnsigned(prog.code[k])
CmpDefining(c) ==
    prog.code[CHOOSE k \in Code : prog.code[k].op = "icmp" /\ <<"v", prog.code[k].lhs>> = c]

VisitSelectInst ==
    /\ Visiting("select")
    /\ LET i == Ins
           l1 == Remember(lits, "bool", <<i.args[1]>>, TRUE)
           l2 == Remember(l1, i.ty, <<i.args[2], i.args[3]>>, TRUE)
           c == Lit(l2, "bool", i.args[1])
           as == LitsOf(l2, i.ty, <<i.args[2], i.args[3]>>)
           j == Normalized(CmpDefining(c))
           l3 == IF i.ty = "int" /\ SelectUnsigned(c) THEN Remember(l2, "int", j.args, FALSE)
                 ELSE l2
       IN  IF Skips(at) THEN Emit(<<>>, lits, opt)
           ELSE IF \E k \in 1..3 : ~HasLit(i.args[k])
           THEN pc' = "error" /\ UNCHANGED <<prog, at, lits, opt, out, llvm, crab, failed, round>>
           ELSE Emit(
               IF ~IsVar(c) THEN <<Set(i.lhs, i.ty, "id", <<as[IF c[2] = 1 THEN 1 ELSE 2]>>)>>
               ELSE IF i.ty # "int" THEN <<Set(i.lhs, i.ty, "ite", <<c>> \o as)>>
               ELSE IF SelectUnsigned(c)
               THEN UnsignedCmp(Temp(0), j.f, Lit(l3, "int", j.args[1]), Lit(l3, "int", j.args[2]))
                        \o <<Select(i.lhs, "int", Is(Temp(0)), as)>>
               ELSE <<Select(i.lhs, "int", SelectCst(l2, c), as)>>, l3, opt)

\* normalizeFuncParamOrRet with renaming. The fresh variable made for a
\* constant expression is never assigned.
NormalizeFuncParamOrRet ==
    /\ Visiting("pass")
    /\ LET l == Remember(lits, Ins.ty, Asked(Ins.args), TRUE)
       IN  Emit(IF ~HasLit(Ins.args[1]) THEN <<>>
                ELSE IF Ins.ty = "ref"
                THEN <<Havoc(Ins.lhs, "ref"),
                       Assume(<<"eq", <<<<"v", Ins.lhs>>, Lit(l, "ref", Ins.args[1])>>>>)>>
                ELSE <<Set(Ins.lhs, Ins.ty, "id", <<Lit(l, Ins.ty, Ins.args[1])>>)>>, l, opt)

\* visitInstruction, and calls of functions without a body.
VisitInstruction ==
    /\ Visiting("other")
    /\ Emit(UselessHavoc(Ins.lhs, Ins.ty), lits, opt)

-----------------------------------------------------------------------------
(* Verifier calls *)

Verify(fn, cst) == IF fn = "assert" THEN <<AssertThat(cst)>> ELSE <<Assume(cst)>>

\* translateToBoolVerifierCall and translateToIntVerifierCall
\* Mutant of IntCall: a condition that may be 0.
IntCallOffByOne(fn, x) ==
    IF fn = "assume_not" THEN <<Assume(<<"le", <<<<"v", x>>, <<"k", 0>>>>>>)>>
    ELSE Verify(fn, <<"le", <<<<"k", 0>>, <<"v", x>>>>>>)

BoolCall(fn, x) == IF fn = "assume_not" THEN <<Assume(IsNot(x))>> ELSE Verify(fn, Is(x))
IntCall(fn, x) ==
    IF fn = "assume_not" THEN <<Assume(<<"le", <<<<"v", x>>, <<"k", 0>>>>>>)>>
    ELSE Verify(fn, <<"le", <<<<"k", 1>>, <<"v", x>>>>>>)

\* The calls whose condition is a constant.
ConstantCall(fn, n) ==
    IF (n > 0) = (fn # "assume_not") THEN <<>> ELSE Verify(fn, False)

\* doTranslation of the optimizer
IsPending(k) == k \in DOMAIN opt.int \/ k \in DOMAIN opt.bool
PendingCall(l, k) ==
    LET fn == prog.code[k].f IN
    IF k \in DOMAIN opt.int
    THEN LET i == prog.code[opt.int[k]]
         IN  IF IsExpressible(i) THEN Verify(fn, Cst(l, i, fn = "assume_not")) ELSE <<>>
    ELSE BoolCall(fn, opt.bool[k][2])
             \o (IF k \notin DOMAIN opt.extra THEN <<>>
                 ELSE <<Assume((IF opt.extra[k][2] THEN IsNot(opt.extra[k][1][2])
                                ELSE Is(opt.extra[k][1][2])))>>)

DoVerifierCall ==
    /\ Visiting("verifier")
    /\ LET i == Ins
           a == i.args[1]
           cmp == IF at \in DOMAIN opt.int THEN Normalized(prog.code[opt.int[at]]) ELSE i
           l == IF at \in DOMAIN opt.int THEN Remember(lits, cmp.ty, Asked(cmp.args), TRUE)
                ELSE Remember(lits, i.ty, Asked(i.args), TRUE)
       IN  IF i.f = "error" THEN Emit(<<AssertThat(False)>>, lits, opt)
           ELSE IF a[1] = "k" THEN Emit(ConstantCall(i.f, a[2]), lits, opt)
           ELSE Emit(IF IsPending(at) THEN PendingCall(l, at)
                     ELSE IF i.ty = "bool" THEN BoolCall(i.f, Lit(l, "bool", a)[2])
                     ELSE IntCall(i.f, Lit(l, "int", a)[2]), l, opt)

-----------------------------------------------------------------------------
(* Running both *)

\* The values of an operand in LLVM. Every use of undef has its own.
LlvmValues(a, ty) ==
    CASE a[1] = "v" -> {llvm[a[2]]}
      [] a[1] = "k" -> {a[2]}
      [] a[1] = "null" -> {0}
      [] a[1] \in {"undef", "expr"} -> ValuesOfType(ty)

ArgValues(i) ==
    LET ty(k) == IF i.op = "select" /\ k = 1 THEN "bool" ELSE i.ty
        V(k) == LlvmValues(i.args[k], ty(k))
    IN  CASE Len(i.args) = 0 -> {<<>>}
          [] Len(i.args) = 1 -> {<<u>> : u \in V(1)}
          [] Len(i.args) = 2 -> {<<u, v>> : u \in V(1), v \in V(2)}
          [] Len(i.args) = 3 -> {<<u, v, w>> : u \in V(1), v \in V(2), w \in V(3)}

\* The results of an instruction. What overflows is undefined ("nsw"); a
\* program that uses the operations with overflow does not overflow.
Compare(i, a) ==
    LET f == IF i.ty = "ref"
             THEN CASE i.f = "ult" -> "lt" [] i.f = "ule" -> "le" [] i.f = "ugt" -> "gt"
                    [] i.f = "uge" -> "ge" [] OTHER -> i.f
             ELSE i.f
    IN  IF f \in {"gt", "ge", "ugt", "uge"} THEN Apply(Swapped[f], <<a[2], a[1]>>)
        ELSE Apply(f, a)

Results(i) ==
    LET ty == TypeOfVar(i.lhs)
        f == CASE i.op = "select" -> "ite"
               [] i.op = "pass" \/ i.f \in {"bitcast", "ptrtoint", "inttoptr"} -> "id"
               [] OTHER -> i.f
        As == ArgValues(i)
    IN  IF i.op = "other" THEN ValuesOfType(ty)
        ELSE IF i.op = "icmp" THEN UNION {Compare(i, a) : a \in As}
        ELSE IF i.op = "overflow" /\ i.n = 1
        THEN {0 : a \in {a \in As : Apply(f, a) \cap Signed # {}}}
        ELSE (UNION {Apply(f, a) : a \in As}) \cap ValuesOfType(ty)

Passes(i) ==
    CASE i.f = "error" -> FALSE
      [] i.f = "assume_not" -> \E a \in ArgValues(i) : a[1] = 0
      [] OTHER -> \E a \in ArgValues(i) : a[1] # 0

Inputs(r) == {s \in [ToSet(prog.inputs) -> UNION {ValuesOfType(ty) : ty \in {"int", "bool", "ref"}}] :
                  \A x \in DOMAIN s : s[x] \in prog.values[r][TypeOfVar(x)]}

StartRound(r, stores) ==
    \E s \in Inputs(r) :
        /\ round' = r /\ at' = 1 /\ pc' = "run"
        /\ llvm' = s /\ crab' = {s @@ c : c \in stores}
        /\ UNCHANGED <<prog, lits, opt, out, failed>>

BeginRun == pc = "translate" /\ at \notin Code /\ StartRound(1, {<<>>})

NextRound == pc = "run" /\ at \notin Code /\ round = 1 /\ StartRound(2, crab)

RunTranslation ==
    /\ pc = "run" /\ at \in Code
    /\ at' = at + 1 /\ crab' = Run(out[at], crab, Types)
    /\ UNCHANGED <<prog, lits, opt, out, round>>
NoteFailure(failing) ==
    failed' = [llvm |-> failing, crab |-> failed.crab \/ CanFail(out[at], crab, Types)]

ExecuteValue ==
    /\ RunTranslation
    /\ Ins.op # "verifier" /\ NoteFailure(FALSE)
    /\ \E v \in Results(Ins) : llvm' = (Ins.lhs :> v) @@ llvm /\ pc' = pc

ExecuteUndefined ==
    /\ RunTranslation
    /\ Ins.op # "verifier" /\ NoteFailure(FALSE)
    /\ Results(Ins) = {} /\ pc' = "undefined" /\ UNCHANGED llvm

ExecuteCall ==
    /\ RunTranslation
    /\ Ins.op = "verifier"
    /\ NoteFailure(~Passes(Ins) /\ Ins.f \in {"assert", "error"})
    /\ pc' = IF Passes(Ins) THEN pc ELSE "stopped"
    /\ UNCHANGED llvm

Done == pc # "translate" /\ (pc = "run" => at \notin Code /\ round = 2) /\ UNCHANGED vars

Init ==
    /\ prog \in Programs
    /\ pc = "translate" /\ at = 1 /\ lits = <<>> /\ opt = NoOpt /\ out = <<>>
    /\ llvm = <<>> /\ crab = {} /\ failed = [llvm |-> FALSE, crab |-> FALSE] /\ round = 0

Next ==
    \/ VisitCmpInst \/ VisitBinaryOperator \/ VisitExtractValue \/ VisitCastInst
    \/ VisitSelectInst \/ NormalizeFuncParamOrRet \/ VisitInstruction \/ DoVerifierCall
    \/ BeginRun \/ NextRound \/ ExecuteValue \/ ExecuteUndefined \/ ExecuteCall \/ Done

Spec == Init /\ [][Next]_vars

-----------------------------------------------------------------------------
(* Properties *)

\* The translation has one entry per instruction, never stops with an error,
\* and leaves only verifier calls for later.
TypeOK ==
    /\ pc \in {"translate", "run", "stopped", "undefined"}
    /\ at \in 1..(Len(prog.code) + 1) /\ round \in 0..2
    /\ pc = "translate" => Len(out) = at - 1
    /\ \A k \in DOMAIN opt.int \cup DOMAIN opt.bool : IsVerifierCall(k)
    /\ opt.skipped \subseteq Code

Agrees(s) == \A x \in DOMAIN llvm \cap DOMAIN s : s[x] = llvm[x]

\* Whatever the block computes, in any round, its translation can compute:
\* comparisons, casts and selects that are left out because their uses are
\* translated for them, boolean and unsigned operations and the simplified
\* verifier calls exclude no value.
Sound == pc = "run" => \E s \in crab : Agrees(s)

\* An assertion that fails in the program can fail in CrabIR, however its
\* condition reaches it (directly, by a cast, a select or a comparison).
AssertsPreserved == failed.llvm => failed.crab

\* For programs of supported instructions the translation adds nothing: its
\* variables have the values of the block, a false assumption leaves no
\* store, and no other assertion can fail. (Of two casts in a row the first
\* one may be translated although the comparison it reads is not.)
IsExact(i) ==
    /\ i.op \notin {"other", "overflow"}
    /\ \A a \in ToSet(i.args) : a[1] \notin {"undef", "expr"}
    /\ i.op = "binop" => IsVar(i.args[1]) \/ ~IsVar(i.args[2]) \/ ~IsLogic(i.f)
    /\ i.op = "cast" =>
           /\ i.f \notin {"ptrtoint", "inttoptr"}
           /\ \A k \in ToSet(Users(i.lhs)) : ~IsIntCast(k)
Exact ==
    (\A k \in Code : IsExact(prog.code[k])) =>
        /\ pc = "run" => \A s \in crab : Agrees(s)
        /\ pc = "stopped" => crab = {}
        /\ failed.crab => failed.llvm
=============================================================================

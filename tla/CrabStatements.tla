--------------------------- MODULE CrabStatements ---------------------------
(***************************************************************************)
(* What the CrabIR statements mean that the translation of instructions    *)
(* produces. Crab is not in this repository: the meaning is the one        *)
(* lib/Clam/CfgBuilder.cc relies on. A Crab integer is a mathematical one; *)
(* the operations that LLVM defines on bits read its Width lowest bits.    *)
(*                                                                         *)
(* A literal is <<"v", x>> (variable x), <<"k", n>> (a number, or a        *)
(* boolean 0 or 1) or <<"null">>. A constraint is <<function, literals>>.  *)
(***************************************************************************)
EXTENDS Integers, SequencesExt, Bitwise

CONSTANTS
    Width,      \* of the integers of the program, in bits
    MaxRef      \* references are numbers, 0 is null

ASSUME WidthAssumption == Width \in Nat \ {0}
ASSUME RefAssumption == MaxRef \in Nat \ {0}

Signed == -(2^(Width - 1))..(2^(Width - 1) - 1)
Unsigned(n) == n % 2^Width
ToSigned(n) == LET u == Unsigned(n) IN IF u < 2^(Width - 1) THEN u ELSE u - 2^Width

ValuesOfType(ty) ==
    CASE ty = "int" -> Signed [] ty = "bool" -> {0, 1} [] ty = "ref" -> 0..MaxRef

Truth(p) == IF p THEN 1 ELSE 0

\* Division rounds towards zero.
Abs(n) == IF n < 0 THEN -n ELSE n
Quotient(a, b) ==
    LET q == Abs(a) \div Abs(b) IN IF (a < 0) = (b < 0) THEN q ELSE -q

\* The values of f at a sequence of values: none where it is undefined.
Apply(f, a) ==
    CASE f = "id" -> {a[1]}
      [] f = "not" -> {1 - a[1]}
      [] f = "eq" -> {Truth(a[1] = a[2])}
      [] f = "ne" -> {Truth(a[1] # a[2])}
      [] f = "lt" -> {Truth(a[1] < a[2])}
      [] f = "le" -> {Truth(a[1] <= a[2])}
      [] f = "ult" -> {Truth(Unsigned(a[1]) < Unsigned(a[2]))}
      [] f = "ule" -> {Truth(Unsigned(a[1]) <= Unsigned(a[2]))}
      [] f = "ite" -> {IF a[1] = 1 THEN a[2] ELSE a[3]}
      [] f = "zext" -> {a[1]}
      [] f = "sext" -> {-a[1]}
      [] f = "trunc" -> {a[1] % 2}
      [] f = "add" -> {a[1] + a[2]}
      [] f = "sub" -> {a[1] - a[2]}
      [] f = "mul" -> {a[1] * a[2]}
      [] f = "sdiv" -> IF a[2] = 0 THEN {} ELSE {Quotient(a[1], a[2])}
      [] f = "srem" -> IF a[2] = 0 THEN {} ELSE {a[1] - a[2] * Quotient(a[1], a[2])}
      [] f = "udiv" -> IF Unsigned(a[2]) = 0 THEN {}
                       ELSE {ToSigned(Unsigned(a[1]) \div Unsigned(a[2]))}
      [] f = "urem" -> IF Unsigned(a[2]) = 0 THEN {}
                       ELSE {ToSigned(Unsigned(a[1]) % Unsigned(a[2]))}
      [] f = "and" -> {ToSigned(Unsigned(a[1]) & Unsigned(a[2]))}
      [] f = "or" -> {ToSigned(Unsigned(a[1]) | Unsigned(a[2]))}
      [] f = "xor" -> {ToSigned(Unsigned(a[1]) ^^ Unsigned(a[2]))}
      [] f = "shl" -> IF a[2] \notin 0..(Width - 1) THEN {} ELSE {a[1] * 2^a[2]}
      [] f = "ashr" -> IF a[2] \notin 0..(Width - 1) THEN {} ELSE {a[1] \div 2^a[2]}
      [] f = "lshr" -> IF a[2] \notin 0..(Width - 1) THEN {}
                       ELSE {ToSigned(Unsigned(a[1]) \div 2^a[2])}

-----------------------------------------------------------------------------
(* Statements, on variables of type ty *)

True == <<"eq", <<<<"k", 0>>, <<"k", 0>>>>>>
False == <<"ne", <<<<"k", 0>>, <<"k", 0>>>>>>
Is(x) == <<"eq", <<<<"v", x>>, <<"k", 1>>>>>>
IsNot(x) == <<"eq", <<<<"v", x>>, <<"k", 0>>>>>>

\* x := f(args), for assignments, arithmetic, casts and boolean operations.
Set(x, ty, f, args) == [op |-> "set", x |-> x, ty |-> ty, cst |-> True, f |-> f, args |-> args]
\* x := IF cst THEN args[1] ELSE args[2]
Select(x, ty, cst, args) ==
    [op |-> "select", x |-> x, ty |-> ty, cst |-> cst, f |-> "id", args |-> args]
Havoc(x, ty) == [op |-> "havoc", x |-> x, ty |-> ty, cst |-> True, f |-> "id", args |-> <<>>]
Assume(cst) == [op |-> "assume", x |-> "", ty |-> "", cst |-> cst, f |-> "id", args |-> <<>>]
AssertThat(cst) ==
    [op |-> "assert", x |-> "", ty |-> "", cst |-> cst, f |-> "id", args |-> <<>>]

\* The variables a statement reads, with their type.
ReadsOf(st) == {l[2] : l \in {l \in ToSet(st.args) \cup ToSet(st.cst[2]) : l[1] = "v"}}

\* A variable nobody has assigned has any value, the same one from then on.
Bind(S, x, ty) ==
    {s \in S : x \in DOMAIN s}
        \cup {(x :> v) @@ s : s \in {s \in S : x \notin DOMAIN s}, v \in ValuesOfType(ty)}

BindReads(S, st, types) ==
    LET new == {x \in ReadsOf(st) : \E s \in S : x \notin DOMAIN s}
        xs == SelectSeq(types, LAMBDA t : t[1] \in new)
    IN  FoldLeft(LAMBDA T, t : Bind(T, t[1], t[2]), S, xs)

ValueOf(l, s) ==
    CASE l[1] = "v" -> s[l[2]] [] l[1] = "k" -> l[2] [] l[1] = "null" -> 0
ValuesIn(ls, s) == [k \in DOMAIN ls |-> ValueOf(ls[k], s)]
Satisfies(s, cst) == Apply(cst[1], ValuesIn(cst[2], s)) = {1}

Effect(st, s) ==
    CASE st.op = "set" -> {(st.x :> v) @@ s : v \in Apply(st.f, ValuesIn(st.args, s))}
      [] st.op = "select" ->
             {(st.x :> ValueOf(st.args[IF Satisfies(s, st.cst) THEN 1 ELSE 2], s)) @@ s}
      [] st.op = "havoc" -> {(st.x :> v) @@ s : v \in ValuesOfType(st.ty)}
      [] st.op \in {"assume", "assert"} -> IF Satisfies(s, st.cst) THEN {s} ELSE {}

\* The stores after the statements, from the stores S. types lists the
\* variables with their types.
Run(code, S, types) ==
    FoldLeft(LAMBDA T, st : UNION {Effect(st, s) : s \in BindReads(T, st, types)}, S, code)

\* Can an assertion of the statements fail?
CanFail(code, S, types) ==
    \E k \in DOMAIN code :
        /\ code[k].op = "assert"
        /\ \E s \in BindReads(Run(SubSeq(code, 1, k - 1), S, types), code[k], types) :
               ~Satisfies(s, code[k].cst)
=============================================================================

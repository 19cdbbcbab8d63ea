------------------------------- MODULE CrabIR -------------------------------
(***************************************************************************)
(* The part of CrabIR that the translation of control flow uses, and what  *)
(* its statements mean. The Crab library itself is not in this repository: *)
(* the meaning is the one lib/Clam/CfgBuilder.cc relies on. LLVM           *)
(* instructions are written in the same vocabulary.                        *)
(*                                                                         *)
(* An operand is <<"v", x>> (variable x), <<"k", c>> (constant c) or       *)
(* <<"u">> (undef or a constant expression: any value). A constraint is a  *)
(* record [rel, a, b]; a boolean is 0 or 1.                                *)
(***************************************************************************)
EXTENDS Collections, SequencesExt

CONSTANT Val        \* values of variables: an interval 0..n with n > 0

ASSUME ValAssumption == \E n \in Val : n > 0 /\ Val = 0..n

V(x) == <<"v", x>>
K(c) == <<"k", c>>
Undef == <<"u">>

Constraint(rel, a, b) == [rel |-> rel, a |-> a, b |-> b]
IsTrue(x) == Constraint("ne", V(x), K(0))
IsFalse(x) == Constraint("eq", V(x), K(0))

\* cmpInstToCrabInt with isNegated. There is no Crab constraint for "ult".
Negation(c) ==
    [c EXCEPT !.rel = CASE c.rel = "eq" -> "ne" [] c.rel = "ne" -> "eq"
                        [] c.rel = "lt" -> "ge" [] c.rel = "ge" -> "lt"]

Assign(x, a) == [op |-> "assign", lhs |-> x, rhs |-> a]
Add1(x, a) == [op |-> "add1", lhs |-> x, rhs |-> a]
Havoc(x) == [op |-> "havoc", lhs |-> x]
BoolAssign(x, c) == [op |-> "bool_assign", lhs |-> x, cst |-> c]
Assume(c) == [op |-> "assume", cst |-> c]
AssertThat(c) == [op |-> "assert", cst |-> c]
Unreachable == [op |-> "unreachable"]
AssertFalse == [op |-> "assert_false"]

\* A call of verifier.assume: the operands have one of the values allowed.
AssumeIn(args, allowed) ==
    [op |-> "assume_in", args |-> args, allowed |-> allowed]

-----------------------------------------------------------------------------
\* The values of an operand in store s.
ValuesOf(a, s) ==
    CASE a[1] = "v" -> {s[a[2]]}
      [] a[1] = "k" -> {a[2]}
      [] a[1] = "u" -> Val

Holds(c, s) ==
    \E x \in ValuesOf(c.a, s), y \in ValuesOf(c.b, s) :
        CASE c.rel \in {"lt", "ult"} -> x < y
          [] c.rel = "ge" -> x >= y
          [] c.rel = "eq" -> x = y
          [] c.rel = "ne" -> x # y

\* The stores in which statement st can end when started in store s. An
\* addition that overflows is undefined ("add nsw"): the run stops there.
Effect(st, s) ==
    CASE st.op = "assign" -> {With(s, st.lhs, v) : v \in ValuesOf(st.rhs, s)}
      [] st.op = "add1" ->
             {With(s, st.lhs, v + 1) :
                 v \in {v \in ValuesOf(st.rhs, s) : v + 1 \in Val}}
      [] st.op = "havoc" -> {With(s, st.lhs, v) : v \in Val}
      [] st.op = "bool_assign" ->
             {With(s, st.lhs, IF Holds(st.cst, s) THEN 1 ELSE 0)}
      \* an analysis goes on with the stores in which the assertion holds
      [] st.op \in {"assume", "assert"} -> IF Holds(st.cst, s) THEN {s} ELSE {}
      [] st.op = "assume_in" ->
             IF \E t \in st.allowed : \A k \in DOMAIN st.args :
                    t[k] \in ValuesOf(st.args[k], s)
             THEN {s} ELSE {}
      [] st.op = "unreachable" -> {}
      [] st.op = "assert_false" -> {s}

\* The stores in which st can end when it is started in one of S.
Outcomes(st, S) == UNION {Effect(st, s) : s \in S}

\* The stores reached by running a sequence of statements from the stores S.
Run(code, S) ==
    LET after[k \in 0..Len(code)] ==
            IF k = 0 THEN S ELSE Outcomes(code[k], after[k - 1])
    IN  after[Len(code)]

\* Does a run of code from S reach an assertion that fails?
ReachesError(code, S) ==
    \E k \in DOMAIN code :
        code[k].op = "assert_false" /\ Run(SubSeq(code, 1, k - 1), S) # {}
=============================================================================

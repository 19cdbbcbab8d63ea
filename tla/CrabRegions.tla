---------------------------- MODULE CrabRegions ----------------------------
(***************************************************************************)
(* What the CrabIR statements on references, regions and arrays mean. Crab *)
(* is not in this repository: the meaning is the one lib/Clam/CfgBuilder.cc*)
(* relies on.                                                              *)
(*                                                                         *)
(* A reference is a pair <<object, offset>>; an object is named by the     *)
(* statement that makes it. A store is a record                            *)
(*   vars   variables (ghost ones too)                                     *)
(*   cells  <<region, reference>> -> value, and for arrays <<array, index>>*)
(*   freed  the objects that were removed                                  *)
(* A literal is <<"v", x>>, <<"k", value>> or <<"null">>.                  *)
(***************************************************************************)
EXTENDS Integers, SequencesExt, TLC

CONSTANTS
    Width,      \* of integers, in bits
    MaxObject,  \* objects are 1..MaxObject
    MaxOffset   \* of a reference that may be any

ASSUME WidthAssumption == Width \in Nat \ {0}
ASSUME ObjectAssumption == MaxObject \in Nat \ {0} /\ MaxOffset \in Nat

Null == <<0, 0>>
Signed == -(2^(Width - 1))..(2^(Width - 1) - 1)
ValuesOfType(ty) ==
    CASE ty = "int" -> Signed [] ty = "bool" -> {0, 1}
      [] ty = "ref" -> {Null} \cup ((1..MaxObject) \X (0..MaxOffset))
Shift(ref, n) == <<ref[1], ref[2] + n>>

Stmt == [op |-> "", x |-> "", ty |-> "", f |-> "", args |-> <<>>, rgn |-> "", n |-> 0]

\* x := f(args)
Assign(x, f, args) == [Stmt EXCEPT !.op = "assign", !.x = x, !.f = f, !.args = args]
Havoc(x, ty) == [Stmt EXCEPT !.op = "havoc", !.x = x, !.ty = ty]
AssumeThat(f, args) == [Stmt EXCEPT !.op = "assume", !.f = f, !.args = args]
AssertThat(f, args) == [Stmt EXCEPT !.op = "assert", !.f = f, !.args = args]
MakeRef(x, obj) == [Stmt EXCEPT !.op = "make_ref", !.x = x, !.n = obj]
RemoveRef(x) == [Stmt EXCEPT !.op = "remove_ref", !.args = <<<<"v", x>>>>]
\* x := b, where b says that the reference is null or not removed
IsUnfreed(x, ref) == [Stmt EXCEPT !.op = "is_unfreed", !.x = x, !.args = <<ref>>]
AssumeUnfreed(ref) == [Stmt EXCEPT !.op = "unfreed", !.args = <<ref>>]
StoreTo(rgn, at, val) == [Stmt EXCEPT !.op = "store", !.rgn = rgn, !.args = <<at, val>>]
\* A store that may or may not happen: the array stands for several objects.
WeakStoreTo(rgn, at, val) == [StoreTo(rgn, at, val) EXCEPT !.op = "weak_store"]
LoadFrom(x, ty, rgn, at) ==
    [Stmt EXCEPT !.op = "load", !.x = x, !.ty = ty, !.rgn = rgn, !.args = <<at>>]
HavocCells(rgn) == [Stmt EXCEPT !.op = "havoc_cells", !.rgn = rgn]

Apply(f, a) ==
    CASE f = "id" -> a[1]
      [] f = "plus" -> a[1] + a[2]
      [] f = "times" -> a[1] * a[2]
      [] f = "shift" -> Shift(a[1], a[2])
      [] f = "ite" -> IF a[1] = 1 THEN a[2] ELSE a[3]
      [] f = "sext" -> -a[1]
      [] f = "trunc" -> a[1] % 2
      [] f = "and" -> a[1] * a[2]
      [] f = "true" -> a[1] = 1
      [] f = "nonneg" -> a[1] >= 0
      [] f = "covers" -> a[1] >= a[2] + a[3]
      [] f = "isnonneg" -> IF a[1] >= 0 THEN 1 ELSE 0
      [] f = "iscovered" -> IF a[1] >= a[2] + a[3] THEN 1 ELSE 0
      [] f = "null" -> a[1] = Null
      [] f = "nonnull" -> a[1] # Null

\* A variable nobody assigned has any value; types lists their types.
TypeIn(types, x) ==
    LET ks == {k \in DOMAIN types : types[k][1] = x}
    IN  IF ks = {} THEN "int" ELSE types[CHOOSE k \in ks : TRUE][2]
Bind(S, x, ty) ==
    {s \in S : x \in DOMAIN s.vars}
        \cup {[s EXCEPT !.vars = (x :> v) @@ @] :
                s \in {s \in S : x \notin DOMAIN s.vars}, v \in ValuesOfType(ty)}
BindReads(S, st, types) ==
    FoldLeft(LAMBDA T, l : IF l[1] = "v" THEN Bind(T, l[2], TypeIn(types, l[2])) ELSE T,
             S, st.args)

ValueOf(l, s) ==
    CASE l[1] = "v" -> s.vars[l[2]] [] l[1] = "k" -> l[2] [] l[1] = "null" -> Null
ValuesIn(ls, s) == [k \in DOMAIN ls |-> ValueOf(ls[k], s)]
SetVar(s, x, v) == [s EXCEPT !.vars = (x :> v) @@ @]
SetCell(s, c, v) == [s EXCEPT !.cells = (c :> v) @@ @]
IsFreed(s, ref) == ref[1] \in s.freed
Holds(st, s) == Apply(st.f, ValuesIn(st.args, s))

Effect(st, s) ==
    LET a == ValuesIn(st.args, s)
        cell == <<st.rgn, a[1]>>
    IN  CASE st.op = "assign" -> {SetVar(s, st.x, Apply(st.f, a))}
          [] st.op = "havoc" -> {SetVar(s, st.x, v) : v \in ValuesOfType(st.ty)}
          [] st.op \in {"assume", "assert"} -> IF Holds(st, s) THEN {s} ELSE {}
          [] st.op = "make_ref" -> {SetVar(s, st.x, r) : r \in {Null, <<st.n, 0>>}}
          [] st.op = "remove_ref" -> {[s EXCEPT !.freed = @ \cup ({a[1][1]} \ {0})]}
          [] st.op = "is_unfreed" -> {SetVar(s, st.x, IF IsFreed(s, a[1]) THEN 0 ELSE 1)}
          [] st.op = "unfreed" -> IF IsFreed(s, a[1]) THEN {} ELSE {s}
          [] st.op = "store" -> {SetCell(s, cell, a[2])}
          [] st.op = "weak_store" ->
                 {SetCell(s, cell, a[2])}
                     \cup {IF cell \in DOMAIN s.cells THEN s ELSE SetCell(s, cell, v) :
                              v \in ValuesOfType("int")}
          [] st.op = "load" ->
                 IF cell \in DOMAIN s.cells THEN {SetVar(s, st.x, s.cells[cell])}
                 ELSE {SetVar(SetCell(s, cell, v), st.x, v) : v \in ValuesOfType(st.ty)}
          [] st.op = "havoc_cells" ->
                 {[s EXCEPT !.cells =
                      [c \in {c \in DOMAIN s.cells : c[1] # st.rgn} |-> s.cells[c]]]}

Run(code, S, types) ==
    FoldLeft(LAMBDA T, st : UNION {Effect(st, s) : s \in BindReads(T, st, types)}, S, code)

CanFail(code, S, types) ==
    \E k \in DOMAIN code :
        /\ code[k].op = "assert"
        /\ \E s \in BindReads(Run(SubSeq(code, 1, k - 1), S, types), code[k], types) :
               ~Holds(code[k], s)
=============================================================================

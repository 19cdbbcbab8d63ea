------------------------- MODULE PathAnalyzerProofs -------------------------
(***************************************************************************)
(* What the analyzer says of a path is right, for every path, code and     *)
(* domain of values, as long as the layer it stopped in is fit for the     *)
(* path (LayerIsFit: it looked at everything, or what it passed over       *)
(* defines variables that are new): the abstract value covers what runs of *)
(* the path reach, at every statement. Without that condition, the core    *)
(* that explains why a path is infeasible is contradictory, rules out      *)
(* other paths, and is minimal.                                            *)
(***************************************************************************)
EXTENDS PathAnalyzer, RunLemmas, SequenceTheorems

\* What runs of the path reach before its k-th block, and before the i-th
\* statement of it.
EntryOf(k) == Run(CodeOf(SubSeq(job.path, 1, k - 1)), Stores)
At(k, i) == Run(SubSeq(job.code[job.path[k]], 1, i - 1), EntryOf(k))

\* The variables that no statement before that one mentions.
Unseen(k, i) ==
    {x \in job.vars :
        \A l \in 1..k : \A o \in DOMAIN job.code[job.path[l]] :
            (l < k \/ o < i) =>
                x \notin Defs(job.code[job.path[l]][o]) \cup Uses(job.code[job.path[l]][o])}

\* S says nothing of x.
Open(S, x) == \A s \in S : \A v \in Val : With(s, x, v) \in Stores => With(s, x, v) \in S

Located ==
    /\ job.path # <<>> /\ IsPath(job)
    /\ layer \in {"bool", "all"} /\ (layer = "bool" => job.layered)
    /\ block \in 1..Len(job.path)
    /\ stmt \in 1..(Len(job.code[job.path[block]]) + 1)

Exact == job.relational /\ layer = "all"

\* The abstract value. The first layer knows nothing of the variables that
\* the path has not mentioned yet.
Reached ==
    /\ state \subseteq Stores
    /\ LayerIsFit => At(block, stmt) \subseteq state
    /\ Exact => At(block, stmt) = state
    /\ (LayerIsFit /\ layer = "bool") => \A x \in Unseen(block, stmt) : Open(state, x)

Recorded ==
    /\ DOMAIN fwd = {job.path[k] : k \in 1..block}
    /\ \A k \in 1..block :
           /\ LayerIsFit => EntryOf(k) \subseteq fwd[job.path[k]]
           /\ Exact => EntryOf(k) = fwd[job.path[k]]

\* No run comes to the end of the block.
Refuted == LayerIsFit => EntryOf(block + 1) = {}

PathInv ==
    /\ job \in Jobs
    /\ pc \in {"start", "solve", "slice", "recheck", "drop", "done", "error", "cyclic"}
    /\ trace \in Seq(Refs) /\ core \in Seq(Refs)
    /\ pc = "start" => result = TRUE
    /\ pc = "solve" => Located /\ Recorded /\ Reached
    /\ pc \in {"slice", "recheck"} => trace # <<>>
    /\ pc = "slice" => core = trace
    /\ pc \in {"slice", "recheck", "drop", "error"} => Located /\ Recorded /\ Refuted
    /\ pc = "done" =>
           \/ result = TRUE /\ (job.path = <<>> \/ ~IsPath(job))
           \/ result = TRUE /\ Located /\ Recorded /\ block = Len(job.path)
           \/ Located /\ Recorded /\ Refuted
    /\ (pc = "done" /\ ~result) => Contradictory(core)

-----------------------------------------------------------------------------
(* Statements *)

LEMMA StoreWith ==
    ASSUME JobFits(job), NEW s \in Stores, NEW x \in job.vars, NEW v \in Val,
           x \in job.bools => v \in {0, 1}
    PROVE  With(s, x, v) \in Stores
<1>1. DOMAIN s = job.vars /\ s \in [job.vars -> Val]
  BY DEF Stores
<1>2. With(s, x, v) = [y \in job.vars |-> IF y = x THEN v ELSE s[y]]
  BY <1>1 DEF With
<1>3. With(s, x, v) \in [job.vars -> Val]
  BY <1>1, <1>2
<1>4. \A y \in job.bools \cap job.vars : With(s, x, v)[y] \in {0, 1}
  BY <1>2 DEF Stores
<1>5. \A y \in job.bools : y \in job.vars
  BY DEF JobFits
<1> QED BY <1>3, <1>4, <1>5 DEF Stores

LEMMA WithTwice ==
    ASSUME NEW s, NEW x, NEW y, x # y, NEW v, NEW w
    PROVE  With(With(s, x, v), y, w) = With(With(s, y, w), x, v)
BY DEF With

\* Truth values are values.
LEMMA ZeroOne == 0 \in Val /\ 1 \in Val
BY ValAssumption

LEMMA OperandValues ==
    ASSUME NEW s \in Stores, NEW a, OperandFits(job, a)
    PROVE  /\ ValuesOf(a, s) \subseteq Val
           /\ IsBoolOperand(job, a) => ValuesOf(a, s) \subseteq {0, 1}
           /\ \A x, v : x \notin OperandVars(a) => ValuesOf(a, With(s, x, v)) = ValuesOf(a, s)
<1>1. CASE a[1] = "v"
  <2>1. a[2] \in job.vars /\ ValuesOf(a, s) = {s[a[2]]} /\ OperandVars(a) = {a[2]}
    BY <1>1 DEF OperandFits, ValuesOf, OperandVars
  <2>2. \A x, v : ValuesOf(a, With(s, x, v)) = {With(s, x, v)[a[2]]}
    BY <1>1 DEF ValuesOf
  <2>3. \A x, v : x # a[2] => With(s, x, v)[a[2]] = s[a[2]]
    BY <2>1 DEF With, Stores
  <2>4. s[a[2]] \in Val /\ (a[2] \in job.bools => s[a[2]] \in {0, 1})
    BY <2>1 DEF Stores
  <2> QED BY <1>1, <2>1, <2>2, <2>3, <2>4 DEF IsBoolOperand
<1>2. CASE a[1] = "k"
  BY <1>2 DEF OperandFits, ValuesOf, IsBoolOperand
<1>3. CASE a[1] = "u"
  BY <1>3 DEF OperandFits, ValuesOf, IsBoolOperand
<1> QED BY <1>1, <1>2, <1>3 DEF OperandFits

LEMMA ConstraintHolds ==
    ASSUME NEW s \in Stores, NEW c, ConstraintFits(job, c)
    PROVE  \A x, v : x \notin ConstraintVars(c) => (Holds(c, With(s, x, v)) <=> Holds(c, s))
<1> TAKE x, v
<1> HAVE x \notin ConstraintVars(c)
<1>1. ValuesOf(c.a, With(s, x, v)) = ValuesOf(c.a, s) /\ ValuesOf(c.b, With(s, x, v)) = ValuesOf(c.b, s)
  BY OperandValues DEF ConstraintVars, ConstraintFits
<1> QED BY <1>1 DEF Holds

(***************************************************************************)
(* A statement changes what it defines only, and what it does does not     *)
(* depend on the variables it does not mention.                            *)
(***************************************************************************)
LEMMA EffectOf ==
    ASSUME JobFits(job), NEW s \in Stores, NEW st, StatementFits(job, st), NEW t \in Effect(st, s)
    PROVE  /\ t \in Stores
           /\ t = s \/ \E x \in Defs(st), w \in Val : t = With(s, x, w)
           /\ \A x, v : (x \notin Defs(st) \cup Uses(st) /\ With(s, x, v) \in Stores) =>
                  With(t, x, v) \in Effect(st, With(s, x, v))
<1> DEFINE Commutes(u) ==
               \A x, v : (x \notin Defs(st) \cup Uses(st) /\ With(s, x, v) \in Stores) =>
                   With(u, x, v) \in Effect(st, With(s, x, v))
<1>1. CASE st.op \in {"assign", "add1"}
  <2>1. /\ DOMAIN st = {"op", "lhs", "rhs"} /\ st.lhs \in job.vars
        /\ OperandFits(job, st.rhs)
        /\ st.lhs \in job.bools => (st.op = "assign" /\ IsBoolOperand(job, st.rhs))
    BY <1>1 DEF StatementFits
  <2>2. Defs(st) = {st.lhs} /\ Uses(st) = OperandVars(st.rhs)
    BY <2>1 DEF Defs, Uses
  <2>3. PICK w \in ValuesOf(st.rhs, s) :
            t = With(s, st.lhs, IF st.op = "assign" THEN w ELSE w + 1)
    BY <1>1 DEF Effect
  <2>4. PICK w2 : w2 = IF st.op = "assign" THEN w ELSE w + 1
    OBVIOUS
  <2>5. w2 \in Val /\ (st.lhs \in job.bools => w2 \in {0, 1})
    <3>1. CASE st.op = "assign"
      BY <2>1, <2>4, <3>1, OperandValues
    <3>2. CASE st.op = "add1"
      <4>1. st.op # "assign"
        BY <3>2
      <4>2. Effect(st, s) = {With(s, st.lhs, u + 1) : u \in {u \in ValuesOf(st.rhs, s) : u + 1 \in Val}}
        BY <3>2 DEF Effect
      <4>3. PICK u : u + 1 \in Val /\ t = With(s, st.lhs, u + 1)
        BY <4>2
      <4>4. t[st.lhs] = w2 /\ t[st.lhs] = u + 1
        BY <2>3, <2>4, <4>3 DEF With
      <4> QED BY <2>1, <4>1, <4>3, <4>4
    <3> QED BY <1>1, <3>1, <3>2
  <2>6. t = With(s, st.lhs, w2) /\ t \in Stores
    BY <2>1, <2>3, <2>4, <2>5, StoreWith
  <2>7. ASSUME NEW x, NEW v, x \notin Defs(st) \cup Uses(st), With(s, x, v) \in Stores
        PROVE  With(t, x, v) \in Effect(st, With(s, x, v))
    <3>1. w \in ValuesOf(st.rhs, With(s, x, v))
      BY <2>1, <2>2, <2>7, OperandValues
    <3>2. With(t, x, v) = With(With(s, x, v), st.lhs, w2)
      BY <2>2, <2>6, <2>7, WithTwice
    <3> QED BY <1>1, <2>4, <2>5, <3>1, <3>2 DEF Effect
  <2> QED BY <2>2, <2>5, <2>6, <2>7
<1>2. CASE st.op = "havoc"
  <2>1. /\ DOMAIN st = {"op", "lhs"} /\ st.lhs \in job.vars
        /\ st.lhs \in job.bools => Val = {0, 1}
    BY <1>2 DEF StatementFits
  <2>2. Defs(st) = {st.lhs} /\ Uses(st) = {}
    BY <2>1 DEF Defs, Uses
  <2>3. \A u : Effect(st, u) = {With(u, st.lhs, w) : w \in Val}
    BY <1>2 DEF Effect
  <2>4. PICK w \in Val : t = With(s, st.lhs, w)
    BY <2>3
  <2>5. t \in Stores
    BY <2>1, <2>4, StoreWith
  <2>6. Commutes(t)
    BY <2>2, <2>3, <2>4, WithTwice
  <2> QED BY <2>2, <2>4, <2>5, <2>6
<1>3. CASE st.op = "bool_assign"
  <2>1. /\ DOMAIN st = {"op", "lhs", "cst"} /\ st.lhs \in job.bools
        /\ st.lhs \in job.vars /\ ConstraintFits(job, st.cst)
    BY <1>3 DEF StatementFits, JobFits
  <2>2. Defs(st) = {st.lhs} /\ Uses(st) = ConstraintVars(st.cst)
    BY <2>1 DEF Defs, Uses
  <2>3. \A u : Effect(st, u) = {With(u, st.lhs, IF Holds(st.cst, u) THEN 1 ELSE 0)}
    BY <1>3 DEF Effect
  <2>4. PICK w \in {0, 1} : w = IF Holds(st.cst, s) THEN 1 ELSE 0
    OBVIOUS
  <2>5. t = With(s, st.lhs, w) /\ w \in Val
    BY <2>3, <2>4, ZeroOne
  <2>6. t \in Stores
    BY <2>1, <2>5, StoreWith
  <2>7. Commutes(t)
    BY <2>1, <2>2, <2>3, <2>4, <2>5, WithTwice, ConstraintHolds
  <2> QED BY <2>2, <2>5, <2>6, <2>7
<1>4. CASE st.op \in {"assume", "assert"}
  <2>1. DOMAIN st = {"op", "cst"} /\ ConstraintFits(job, st.cst)
    BY <1>4 DEF StatementFits
  <2>2. Uses(st) = ConstraintVars(st.cst)
    BY <2>1 DEF Uses
  <2>3. \A u : Effect(st, u) = IF Holds(st.cst, u) THEN {u} ELSE {}
    BY <1>4 DEF Effect
  <2>4. t = s /\ Holds(st.cst, s)
    BY <2>3
  <2>5. Commutes(t)
    BY <2>1, <2>2, <2>3, <2>4, ConstraintHolds
  <2> QED BY <2>4, <2>5
<1>5. CASE st.op = "unreachable"
  BY <1>5 DEF Effect
<1> QED BY <1>1, <1>2, <1>3, <1>4, <1>5 DEF StatementFits

-----------------------------------------------------------------------------
(* The abstract domain *)

LEMMA AbstractCovers ==
    ASSUME JobFits(job), NEW S, S \subseteq Stores
    PROVE  /\ S \subseteq Abstract(S) /\ Abstract(S) \subseteq Stores
           /\ job.relational => Abstract(S) = S
           /\ \A x \in job.vars : Open(S, x) => Open(Abstract(S), x)
<1>1. CASE job.relational \/ S = {}
  BY <1>1 DEF Abstract
<1>2. CASE ~(job.relational \/ S = {})
  <2>1. Abstract(S) = {s \in Stores : \A x \in job.vars : \E t \in S : s[x] = t[x]}
    BY <1>2 DEF Abstract
  <2>2. ASSUME NEW x \in job.vars, Open(S, x), NEW s \in Abstract(S), NEW v \in Val,
               With(s, x, v) \in Stores, NEW y \in job.vars
        PROVE  \E t \in S : With(s, x, v)[y] = t[y]
    <3>1. DOMAIN s = job.vars /\ \E t \in S : s[y] = t[y]
      BY <2>1, <2>2 DEF Stores
    <3>2. CASE y # x
      BY <3>1, <3>2 DEF With
    <3>3. CASE y = x
      <4>1. PICK t \in S : TRUE
        BY <1>2
      <4>2. t \in [job.vars -> Val] /\ DOMAIN t = job.vars /\ \A z \in job.bools : t[z] \in {0, 1}
        BY DEF Stores
      <4>3. With(s, x, v)[x] = v /\ With(t, x, v)[x] = v
        BY DEF With
      <4>4. x \in job.bools => v \in {0, 1}
        BY <2>2, <4>3 DEF Stores
      <4>8. With(t, x, v) \in Stores
        BY <4>2, <4>4, StoreWith
      <4>9. With(t, x, v) \in S
        BY <2>2, <4>8 DEF Open
      <4> QED BY <3>3, <4>3, <4>9
    <3> QED BY <3>2, <3>3
  <2>3. \A x \in job.vars : Open(S, x) => Open(Abstract(S), x)
    BY <2>1, <2>2 DEF Open
  <2> QED BY <1>2, <2>1, <2>3
<1> QED BY <1>1, <1>2

LEMMA OutcomesFit ==
    ASSUME JobFits(job), NEW st, StatementFits(job, st), NEW S, S \subseteq Stores
    PROVE  Outcomes(st, S) \subseteq Stores
BY EffectOf DEF Outcomes

\* A statement that the layer looks at.
LEMMA TransformCovers ==
    ASSUME JobFits(job), NEW st, StatementFits(job, st), NEW S, S \subseteq Stores
    PROVE  /\ Outcomes(st, S) \subseteq Transform(S, st) /\ Transform(S, st) \subseteq Stores
           /\ job.relational => Transform(S, st) = Outcomes(st, S)
           /\ \A x \in job.vars : Open(S, x) /\ x \notin Defs(st) \cup Uses(st) =>
                  Open(Transform(S, st), x)
<1>1. Outcomes(st, S) \subseteq Stores
  BY OutcomesFit
<1>2. ASSUME NEW x \in job.vars, Open(S, x), x \notin Defs(st) \cup Uses(st)
      PROVE  Open(Outcomes(st, S), x)
  <2>1. ASSUME NEW t \in Outcomes(st, S), NEW v \in Val, With(t, x, v) \in Stores
        PROVE  With(t, x, v) \in Outcomes(st, S)
    <3>1. PICK s \in S : t \in Effect(st, s)
      BY DEF Outcomes
    <3>2. With(s, x, v) \in Stores
      <4>1. With(t, x, v)[x] = v
        BY DEF With
      <4>2. x \in job.bools => v \in {0, 1}
        BY <2>1, <4>1 DEF Stores
      <4> QED BY <4>2, StoreWith
    <3>3. With(t, x, v) \in Effect(st, With(s, x, v))
      BY <1>2, <3>1, <3>2, EffectOf
    <3>4. With(s, x, v) \in S
      BY <1>2, <3>2 DEF Open
    <3> QED BY <3>3, <3>4 DEF Outcomes
  <2> QED BY <2>1 DEF Open
<1> QED BY <1>1, <1>2, AbstractCovers DEF Transform

\* One that it passes over, if the value says nothing of what it defines.
LEMMA SkipCovers ==
    ASSUME JobFits(job), NEW st, StatementFits(job, st), NEW S, S \subseteq Stores,
           \A x \in Defs(st) : Open(S, x)
    PROVE  Outcomes(st, S) \subseteq S
<1> SUFFICES ASSUME NEW s \in S, NEW t \in Effect(st, s) PROVE t \in S
  BY DEF Outcomes
<1> QED BY EffectOf DEF Open

-----------------------------------------------------------------------------
(* The explanation *)

LEMMA RefsFit ==
    ASSUME JobFits(job), NEW ref \in Refs
    PROVE  StatementFits(job, StatementAt(ref))
<1>1. PICK k \in DOMAIN job.path : ref \in {<<job.path[k], i>> : i \in DOMAIN job.code[job.path[k]]}
  BY DEF Refs, ToSet
<1>2. job.path[k] \in job.blocks
  BY DEF JobFits
<1> QED BY <1>1, <1>2 DEF JobFits, StatementAt

\* The function that Infer defines.
IsInference(f, refs) ==
    f = [k \in 0..Len(refs) |->
            IF k = 0 THEN Stores ELSE Transform(f[k - 1], StatementAt(refs[k]))]

LEMMA InferenceExists ==
    ASSUME JobFits(job), NEW refs \in Seq(Refs)
    PROVE  \E f \in [0..Len(refs) -> SUBSET Stores] : IsInference(f, refs)
<1> DEFINE n == Len(refs)
           g == [p \in (1..n) \X SUBSET Stores |-> Transform(p[2], StatementAt(refs[p[1]]))]
<1>1. g \in [(1..n) \X SUBSET Stores -> SUBSET Stores]
  <2>1. ASSUME NEW p \in (1..n) \X SUBSET Stores
        PROVE  Transform(p[2], StatementAt(refs[p[1]])) \in SUBSET Stores
    BY RefsFit, TransformCovers
  <2> QED BY <2>1
<1>2. n \in Nat /\ Stores \in SUBSET Stores
  OBVIOUS
<1>3. \A k \in 1..n, S \in SUBSET Stores : g[<<k, S>>] = Transform(S, StatementAt(refs[k]))
  OBVIOUS
<1> HIDE DEF g
<1>4. PICK f \in [0..n -> SUBSET Stores] : Iterates(f, n, Stores, g)
  BY <1>1, <1>2, Recursion
<1>5. ASSUME NEW k \in 0..n
      PROVE  f[k] = IF k = 0 THEN Stores ELSE Transform(f[k - 1], StatementAt(refs[k]))
  <2>1. CASE k = 0
    BY <1>4, <2>1 DEF Iterates
  <2>2. CASE k # 0
    <3>1. k \in 1..n /\ f[k - 1] \in SUBSET Stores
      BY <1>2, <2>2
    <3>2. f[k] = g[<<k, f[k - 1]>>]
      BY <1>4, <3>1 DEF Iterates
    <3> QED BY <1>3, <2>2, <3>1, <3>2
  <2> QED BY <2>1, <2>2
<1> QED BY <1>5 DEF IsInference

LEMMA InferCovers ==
    ASSUME JobFits(job), NEW refs \in Seq(Refs)
    PROVE  Run(StatementsAt(refs), Stores) \subseteq Infer(refs)
<1> DEFINE n == Len(refs)
           after == CHOOSE f : IsInference(f, refs)
           code == StatementsAt(refs)
<1>1. /\ Len(code) = n /\ n \in Nat
      /\ \A k \in 1..n : code[k] = StatementAt(refs[k]) /\ StatementFits(job, code[k])
  BY RefsFit DEF StatementsAt
<1>2. IsInference(after, refs)
  BY InferenceExists
<1>3. Infer(refs) = after[n]
  BY DEF Infer, IsInference
<1> HIDE DEF after, code
<1>4. PICK f : Traces(f, code, Stores) /\ Run(code, Stores) = f[n]
  BY <1>1, RunTraces
<1> DEFINE P == {k \in 0..n : f[k] \subseteq after[k] /\ after[k] \subseteq Stores}
<1>5. 0 \in P
  BY <1>1, <1>2, <1>4 DEF Traces, IsInference
<1>6. ASSUME NEW k \in 1..n, k - 1 \in P PROVE k \in P
  <2>1. after[k] = Transform(after[k - 1], code[k])
    <3>1. k \in 0..n /\ k # 0 /\ code[k] = StatementAt(refs[k])
      BY <1>1
    <3> QED BY <1>2, <3>1 DEF IsInference
  <2>4. f[k] = Outcomes(code[k], f[k - 1])
    BY <1>1, <1>4 DEF Traces
  <2>2. Outcomes(code[k], f[k - 1]) \subseteq Outcomes(code[k], after[k - 1])
    BY <1>6 DEF Outcomes
  <2>3. /\ Outcomes(code[k], after[k - 1]) \subseteq Transform(after[k - 1], code[k])
        /\ Transform(after[k - 1], code[k]) \subseteq Stores
    BY <1>1, <1>6, TransformCovers
  <2> QED BY <2>1, <2>2, <2>3, <2>4
<1> HIDE DEF P
<1>7. \A k \in 0..n : k \in P
  BY <1>1, <1>5, <1>6, UpTo
<1> QED BY <1>1, <1>3, <1>4, <1>7 DEF P, code

\* An assumption that is false whatever the store.
LEMMA FalseExplains ==
    ASSUME NEW st, StatementFits(job, st), IsAssumeFalse(st)
    PROVE  Outcomes(st, Stores) = {}
<1>1. st.op = "assume" /\ ConstraintVars(st.cst) = {} /\ ConstraintFits(job, st.cst)
  BY DEF IsAssumeFalse, StatementFits
<1>2. \A a, s, t : OperandFits(job, a) /\ OperandVars(a) = {} => ValuesOf(a, s) = ValuesOf(a, t)
  BY DEF OperandFits, OperandVars, ValuesOf
<1>3. \A s : /\ ValuesOf(st.cst.a, s) = ValuesOf(st.cst.a, <<>>)
             /\ ValuesOf(st.cst.b, s) = ValuesOf(st.cst.b, <<>>)
  BY <1>1, <1>2 DEF ConstraintVars, ConstraintFits
<1>4. \A s : ~Holds(st.cst, s)
  BY <1>3 DEF Holds, IsAssumeFalse
<1> QED BY <1>1, <1>4 DEF Effect, Outcomes

-----------------------------------------------------------------------------
(* Runs of the path *)

LEMMA PrefixNext ==
    ASSUME NEW T, NEW c \in Seq(T), NEW i \in 1..Len(c)
    PROVE  /\ SubSeq(c, 1, i - 1) \in Seq(T)
           /\ SubSeq(c, 1, (i + 1) - 1) = Append(SubSeq(c, 1, i - 1), c[i])
<1>1. SubSeq(c, 1, i - 1) \in Seq(T)
  <2>1. \A k \in 1..(i - 1) : c[k] \in T
    OBVIOUS
  <2> QED BY <2>1, SubSeqProperties
<1>2. SubSeq(c, 1, i) = SubSeq(c, 1, i - 1) \o <<c[i]>>
  BY SubSeqRecursiveSecond
<1>3. SubSeq(c, 1, i - 1) \o <<c[i]>> = Append(SubSeq(c, 1, i - 1), c[i])
  BY <1>1
<1>4. (i + 1) - 1 = i
  OBVIOUS
<1> QED BY <1>1, <1>2, <1>3, <1>4

LEMMA PrefixRest ==
    ASSUME NEW T, NEW c \in Seq(T), NEW i \in 1..(Len(c) + 1)
    PROVE  /\ SubSeq(c, 1, i - 1) \in Seq(T) /\ SubSeq(c, i, Len(c)) \in Seq(T)
           /\ c = SubSeq(c, 1, i - 1) \o SubSeq(c, i, Len(c))
<1>1. PICK n \in Nat : n = Len(c)
  OBVIOUS
<1>2. (\A k \in 1..(i - 1) : c[k] \in T) /\ (\A k \in i..n : c[k] \in T)
  BY <1>1
<1>3. SubSeq(c, 1, i - 1) \in Seq(T) /\ SubSeq(c, i, n) \in Seq(T)
  BY <1>1, <1>2, SubSeqProperties
<1>4. PICK k \in 0..n : k = i - 1
  BY <1>1
<1>5. SubSeq(c, 1, k) \o SubSeq(c, k + 1, n) = SubSeq(c, 1, n)
  <2>1. 1 \in 1..(Len(c) + 1) /\ k \in (1 - 1)..Len(c) /\ n \in k..Len(c)
    BY <1>1
  <2> QED BY <2>1, ConcatAdjacentSubSeq
<1>6. k + 1 = i
  BY <1>4
<1> QED BY <1>1, <1>3, <1>4, <1>5, <1>6, SubSeqFull

\* Every statement of the blocks.
Statements == UNION {ToSet(job.code[b]) : b \in job.blocks}

LEMMA CodeType ==
    ASSUME JobFits(job), NEW p \in Seq(job.blocks)
    PROVE  CodeOf(p) \in Seq(Statements)
<1>1. \A b \in job.blocks : job.code[b] \in Seq(Statements)
  <2> TAKE b \in job.blocks
  <2>1. job.code[b] \in Seq(ToSet(job.code[b])) /\ ToSet(job.code[b]) \subseteq Statements
    BY DEF JobFits, Statements
  <2> QED BY <2>1, SeqMonotone
<1>2. [k \in DOMAIN p |-> job.code[p[k]]] \in Seq(Seq(Statements))
  BY <1>1
<1> QED BY <1>2, FlattenType DEF CodeOf

LEMMA CodeAppend ==
    ASSUME JobFits(job), NEW p \in Seq(job.blocks), NEW b \in job.blocks, NEW S
    PROVE  Run(CodeOf(Append(p, b)), S) = Run(job.code[b], Run(CodeOf(p), S))
<1> DEFINE ss == [k \in DOMAIN p |-> job.code[p[k]]]
<1>1. \A c \in job.blocks : job.code[c] \in Seq(Statements)
  <2> TAKE c \in job.blocks
  <2>1. job.code[c] \in Seq(ToSet(job.code[c])) /\ ToSet(job.code[c]) \subseteq Statements
    BY DEF JobFits, Statements
  <2> QED BY <2>1, SeqMonotone
<1>2. ss \in Seq(Seq(Statements))
  BY <1>1
<1>3. [k \in DOMAIN Append(p, b) |-> job.code[Append(p, b)[k]]] = Append(ss, job.code[b])
  OBVIOUS
<1>4. FlattenSeq(Append(ss, job.code[b])) = FlattenSeq(ss) \o job.code[b]
  BY <1>1, <1>2, FlattenAppend
<1>5. CodeOf(Append(p, b)) = CodeOf(p) \o job.code[b]
  BY <1>3, <1>4 DEF CodeOf
<1> QED BY <1>1, <1>5, CodeType, RunConcat

LEMMA NoBlocks == \A S : Run(CodeOf(<<>>), S) = S
<1>1. PICK ss : ss = [k \in DOMAIN <<>> |-> job.code[<<>>[k]]]
  OBVIOUS
<1>2. ss = <<>> /\ ss \in Seq(Seq(Statements))
  BY <1>1
<1>3. PICK f : Flattens(f, Statements, ss) /\ FlattenSeq(ss) = f[Len(ss)]
  BY <1>2, FlattenSteps
<1>4. CodeOf(<<>>) = <<>>
  BY <1>1, <1>2, <1>3 DEF CodeOf, Flattens
<1> QED BY <1>4, RunEmpty

LEMMA EntryFirst ==
    ASSUME JobFits(job)
    PROVE  EntryOf(1) = Stores
<1>1. SubSeq(job.path, 1, 1 - 1) = <<>>
  BY DEF JobFits
<1> QED BY <1>1, NoBlocks DEF EntryOf

LEMMA AtFirst ==
    ASSUME JobFits(job), NEW k \in 1..Len(job.path)
    PROVE  At(k, 1) = EntryOf(k)
<1>1. job.path[k] \in job.blocks
  BY DEF JobFits
<1>2. SubSeq(job.code[job.path[k]], 1, 1 - 1) = <<>>
  BY <1>1 DEF JobFits
<1> QED BY <1>2, RunEmpty DEF At

LEMMA AtNext ==
    ASSUME JobFits(job), NEW k \in 1..Len(job.path), NEW i \in DOMAIN job.code[job.path[k]]
    PROVE  At(k, i + 1) = Outcomes(job.code[job.path[k]][i], At(k, i))
<1>1. PICK c : c = job.code[job.path[k]]
  OBVIOUS
<1>2. job.path[k] \in job.blocks
  BY DEF JobFits
<1>3. PICK T : c \in Seq(T)
  BY <1>1, <1>2 DEF JobFits
<1>4. i \in 1..Len(c) /\ c[i] \in T
  BY <1>1, <1>3
<1>5. SubSeq(c, 1, i - 1) \in Seq(T) /\ SubSeq(c, 1, (i + 1) - 1) = Append(SubSeq(c, 1, i - 1), c[i])
  BY <1>3, <1>4, PrefixNext
<1>6. Run(SubSeq(c, 1, (i + 1) - 1), EntryOf(k)) = Outcomes(c[i], Run(SubSeq(c, 1, i - 1), EntryOf(k)))
  BY <1>4, <1>5, RunAppend
<1> QED BY <1>1, <1>6 DEF At

LEMMA EntryNext ==
    ASSUME JobFits(job), NEW k \in 1..Len(job.path)
    PROVE  /\ EntryOf(k + 1) = Run(job.code[job.path[k]], EntryOf(k))
           /\ EntryOf(k + 1) = At(k, Len(job.code[job.path[k]]) + 1)
<1>1. PICK p : p = job.path
  OBVIOUS
<1>2. p \in Seq(job.blocks) /\ p[k] \in job.blocks
  BY <1>1 DEF JobFits
<1>3. /\ SubSeq(p, 1, k - 1) \in Seq(job.blocks)
      /\ SubSeq(p, 1, (k + 1) - 1) = Append(SubSeq(p, 1, k - 1), p[k])
  <2>1. k \in 1..Len(p)
    BY <1>1
  <2> QED BY <1>2, <2>1, PrefixNext
<1>4. EntryOf(k + 1) = Run(job.code[p[k]], EntryOf(k))
  <2>1. PICK q : q = SubSeq(p, 1, k - 1)
    OBVIOUS
  <2>2. q \in Seq(job.blocks) /\ SubSeq(p, 1, (k + 1) - 1) = Append(q, p[k])
    BY <1>3, <2>1
  <2>3. Run(CodeOf(Append(q, p[k])), Stores) = Run(job.code[p[k]], Run(CodeOf(q), Stores))
    BY <1>2, <2>2, CodeAppend
  <2>4. EntryOf(k + 1) = Run(CodeOf(SubSeq(p, 1, (k + 1) - 1)), Stores)
    BY <1>1 DEF EntryOf
  <2>5. EntryOf(k) = Run(CodeOf(q), Stores)
    BY <1>1, <2>1 DEF EntryOf
  <2> QED BY <2>2, <2>3, <2>4, <2>5
<1>5. PICK c : c = job.code[p[k]]
  OBVIOUS
<1>6. SubSeq(c, 1, (Len(c) + 1) - 1) = c
  BY <1>2, <1>5 DEF JobFits
<1> QED BY <1>1, <1>4, <1>5, <1>6 DEF At

\* When no run gets to a statement, none gets to the end of the block.
LEMMA NoneAfter ==
    ASSUME JobFits(job), NEW k \in 1..Len(job.path),
           NEW i \in 1..(Len(job.code[job.path[k]]) + 1), At(k, i) = {}
    PROVE  EntryOf(k + 1) = {}
<1>1. PICK c : c = job.code[job.path[k]]
  OBVIOUS
<1>2. job.path[k] \in job.blocks
  BY DEF JobFits
<1>3. PICK T : c \in Seq(T)
  BY <1>1, <1>2 DEF JobFits
<1>4. PICK c1, c2 : c1 = SubSeq(c, 1, i - 1) /\ c2 = SubSeq(c, i, Len(c))
  OBVIOUS
<1>5. c1 \in Seq(T) /\ c2 \in Seq(T) /\ c = c1 \o c2
  <2>1. i \in 1..(Len(c) + 1)
    BY <1>1
  <2> QED BY <1>3, <1>4, <2>1, PrefixRest
<1>6. Run(c, EntryOf(k)) = Run(c2, Run(c1, EntryOf(k)))
  BY <1>5, RunConcat
<1>7. Run(c1, EntryOf(k)) = {}
  BY <1>1, <1>4 DEF At
<1>8. Run(c2, {}) = {}
  BY <1>5, RunFromNone
<1> QED BY <1>1, <1>6, <1>7, <1>8, EntryNext

\* And when none gets to a block, none gets to those behind it.
LEMMA NoneForGood ==
    ASSUME JobFits(job), NEW m \in 1..(Len(job.path) + 1), EntryOf(m) = {}
    PROVE  \A k \in m..(Len(job.path) + 1) : EntryOf(k) = {}
<1>1. Len(job.path) \in Nat
  BY DEF JobFits
<1>2. PICK n \in Nat : n = Len(job.path) + 1 - m
  <2>1. Len(job.path) + 1 - m \in Nat
    BY <1>1
  <2> QED BY <2>1
<1> DEFINE P == {d \in 0..n : EntryOf(m + d) = {}}
<1>3. 0 \in P
  BY <1>1
<1>4. ASSUME NEW d \in 1..n, d - 1 \in P PROVE d \in P
  <2>1. PICK k : k = m + (d - 1)
    OBVIOUS
  <2>2. k \in 1..Len(job.path) /\ m + d = k + 1
    BY <1>1, <1>2, <2>1
  <2>3. EntryOf(k) = {}
    BY <1>4, <2>1
  <2>4. Len(job.code[job.path[k]]) \in Nat
    BY <2>2 DEF JobFits
  <2>5. EntryOf(k + 1) = {}
    BY <2>2, <2>3, <2>4, EntryNext, RunFromNone
  <2> QED BY <2>2, <2>5
<1> HIDE DEF P
<1>5. \A d \in 0..n : d \in P
  BY <1>3, <1>4, UpTo
<1> TAKE k \in m..(Len(job.path) + 1)
<1>6. k - m \in 0..n /\ k = m + (k - m)
  BY <1>1, <1>2
<1>7. PICK d \in 0..n : k = m + d
  BY <1>6
<1> QED BY <1>5, <1>7 DEF P

LEMMA RefutedForGood ==
    ASSUME JobFits(job), Located, Refuted, LayerIsFit
    PROVE  \A k \in (block + 1)..(Len(job.path) + 1) : EntryOf(k) = {}
<1>1. PICK m : m = block + 1
  OBVIOUS
<1>2. m \in 1..(Len(job.path) + 1) /\ EntryOf(m) = {}
  BY <1>1 DEF Located, JobFits, Refuted
<1> QED BY <1>1, <1>2, NoneForGood

-----------------------------------------------------------------------------
(* The invariant *)

LEMMA CodeFits ==
    ASSUME JobFits(job), NEW k \in 1..Len(job.path)
    PROVE  /\ Len(job.code[job.path[k]]) \in Nat
           /\ DOMAIN job.code[job.path[k]] = 1..Len(job.code[job.path[k]])
           /\ \A i \in DOMAIN job.code[job.path[k]] :
                  /\ StatementFits(job, job.code[job.path[k]][i])
                  /\ <<job.path[k], i>> \in Refs
<1>1. job.path[k] \in job.blocks /\ job.path[k] \in ToSet(job.path)
  BY DEF JobFits, ToSet
<1>2. job.code[job.path[k]] \in Seq(ToSet(job.code[job.path[k]]))
  BY <1>1 DEF JobFits
<1> QED BY <1>1, <1>2 DEF JobFits, Refs

\* What the job alone determines.
LEMMA Frame ==
    ASSUME job' = job
    PROVE  /\ Stores' = Stores /\ Refs' = Refs /\ (Contradictory(core)' <=> Contradictory(core'))
           /\ layer' = layer => (LayerIsFit' <=> LayerIsFit)
           /\ \A k : EntryOf(k)' = EntryOf(k)
           /\ EntryOf(block + 1)' = EntryOf(block' + 1)
           /\ At(block, stmt)' = At(block', stmt')
           /\ Unseen(block, stmt)' = Unseen(block', stmt')
           /\ \A x : Open(state, x)' <=> Open(state', x)
<1>1. Stores' = Stores
  BY DEF Stores
<1>2. StatementsAt(core)' = StatementsAt(core')
  BY DEF StatementsAt, StatementAt
<1>3. Contradictory(core)' <=> Contradictory(core')
  BY <1>1, <1>2 DEF Contradictory
<1>4. \A k : EntryOf(k)' = EntryOf(k)
  BY <1>1 DEF EntryOf, CodeOf
<1>5. EntryOf(block + 1)' = EntryOf(block' + 1)
  BY <1>1 DEF EntryOf, CodeOf
<1>6. At(block, stmt)' = At(block', stmt')
  BY <1>1 DEF At, EntryOf, CodeOf
<1>7. Unseen(block, stmt)' = Unseen(block', stmt')
  BY DEF Unseen
<1>8. \A x : Open(state, x)' <=> Open(state', x)
  BY <1>1 DEF Open
<1>9. SkippedAreNew(job)' <=> SkippedAreNew(job)
  OBVIOUS
<1> QED
  BY <1>1, <1>3, <1>4, <1>5, <1>6, <1>7, <1>8, <1>9 DEF Refs, LayerIsFit

LEMMA UnseenShrinks ==
    ASSUME JobFits(job), NEW k \in 1..Len(job.path), NEW i \in DOMAIN job.code[job.path[k]],
           NEW x \in Unseen(k, i + 1)
    PROVE  /\ x \in Unseen(k, i)
           /\ x \notin Defs(job.code[job.path[k]][i]) \cup Uses(job.code[job.path[k]][i])
<1>1. i \in Nat /\ k \in Nat
  BY CodeFits
<1>2. \A l \in 1..k : \A o \in DOMAIN job.code[job.path[l]] : o \in Nat
  <2> TAKE l \in 1..k
  <2>1. l \in 1..Len(job.path)
    BY DEF JobFits
  <2> QED BY <2>1, CodeFits
<1>3. x \in Unseen(k, i)
  <2>1. ASSUME NEW l \in 1..k, NEW o \in DOMAIN job.code[job.path[l]], l < k \/ o < i
        PROVE  x \notin Defs(job.code[job.path[l]][o]) \cup Uses(job.code[job.path[l]][o])
    <3>1. o \in Nat
      BY <1>2
    <3>2. l < k \/ o < i + 1
      BY <1>1, <2>1, <3>1
    <3> QED BY <3>2 DEF Unseen
  <2> QED BY <2>1 DEF Unseen
<1>4. i < i + 1 /\ k \in 1..k
  BY <1>1
<1> QED BY <1>3, <1>4 DEF Unseen

LEMMA Position ==
    ASSUME JobFits(job), Located
    PROVE  /\ block \in 1..Len(job.path) /\ Len(job.path) \in Nat
           /\ stmt \in 1..(Len(Code) + 1) /\ Len(Code) \in Nat
           /\ stmt <= Len(Code) =>
                  /\ stmt \in DOMAIN Code /\ stmt + 1 \in 1..(Len(Code) + 1)
                  /\ StatementFits(job, Code[stmt])
                  /\ <<job.path[block], stmt>> \in Refs
<1>1. block \in 1..Len(job.path) /\ Len(job.path) \in Nat /\ stmt \in 1..(Len(Code) + 1)
  BY DEF Located, JobFits, Code
<1>2. /\ Len(Code) \in Nat /\ DOMAIN Code = 1..Len(Code)
      /\ \A i \in DOMAIN Code : StatementFits(job, Code[i]) /\ <<job.path[block], i>> \in Refs
  BY <1>1, CodeFits DEF Code
<1> QED BY <1>1, <1>2

LEMMA LayerBegins ==
    ASSUME JobFits(job), job.path # <<>>, IsPath(job), job' = job,
           NEW which \in {"bool", "all"}, which = "bool" => job.layered, BeginLayer(which)
    PROVE  Located' /\ Recorded' /\ Reached'
<1>1. 1 \in 1..Len(job.path)
  BY DEF JobFits
<1>2. Located'
  <2>1. 1 \in 1..(Len(job.code[job.path[1]]) + 1)
    BY <1>1, CodeFits
  <2>2. IsPath(job)'
    BY DEF IsPath
  <2> QED BY <1>1, <2>1, <2>2 DEF BeginLayer, Located
<1>3. EntryOf(1) = Stores /\ At(1, 1) = Stores
  BY <1>1, EntryFirst, AtFirst
<1>4. Recorded'
  BY <1>3, Frame DEF BeginLayer, Recorded
<1>5. \A x : Open(Stores, x)
  BY DEF Open
<1>6. Reached'
  BY <1>3, <1>5, Frame DEF BeginLayer, Reached
<1> QED BY <1>2, <1>4, <1>6

LEMMA StartStep ==
    ASSUME PathInv, JobFits(job), Start
    PROVE  PathInv'
<1>1. job' = job /\ trace' = trace /\ core' = core /\ pc = "start" /\ result = TRUE
  BY DEF Start, PathInv
<1>4. CASE IsCyclic(job)
  BY <1>1, <1>4, Frame DEF Start, PathInv
<1>2. CASE ~IsCyclic(job) /\ (job.path = <<>> \/ ~IsPath(job))
  BY <1>1, <1>2, Frame DEF Start, Return, PathInv
<1>3. CASE ~IsCyclic(job) /\ ~(job.path = <<>> \/ ~IsPath(job))
  <2>1. pc' = "solve" /\ BeginLayer(IF job.layered THEN "bool" ELSE "all")
    BY <1>3 DEF Start
  <2>2. Located' /\ Recorded' /\ Reached'
    BY <1>1, <1>3, <2>1, LayerBegins
  <2> QED BY <1>1, <2>1, <2>2, Frame DEF PathInv
<1> QED BY <1>2, <1>3, <1>4

LEMMA InterpretStep ==
    ASSUME PathInv, JobFits(job), Interpret
    PROVE  PathInv'
<1> DEFINE st == Code[stmt]
<1>1. /\ pc = "solve" /\ Located /\ Recorded /\ Reached
      /\ job' = job /\ layer' = layer /\ block' = block /\ fwd' = fwd
      /\ trace' = Append(trace, <<job.path[block], stmt>>)
      /\ state' = Transform(state, st)
  BY DEF Interpret, PathInv
<1>2. /\ block \in 1..Len(job.path) /\ stmt \in DOMAIN Code
      /\ StatementFits(job, st) /\ <<job.path[block], stmt>> \in Refs
      /\ stmt + 1 \in 1..(Len(Code) + 1) /\ stmt \in 1..(Len(Code) + 1)
  BY <1>1, Position DEF Interpret
<1>3. At(block, stmt + 1) = Outcomes(st, At(block, stmt))
  BY <1>2, AtNext DEF Code
<1>4. LayerIsFit => Outcomes(st, At(block, stmt)) \subseteq Outcomes(st, state)
  BY <1>1 DEF Outcomes, Reached
<1>5. /\ Outcomes(st, state) \subseteq state' /\ state' \subseteq Stores
      /\ job.relational => state' = Outcomes(st, state)
      /\ \A x \in job.vars : Open(state, x) /\ x \notin Defs(st) \cup Uses(st) => Open(state', x)
  BY <1>1, <1>2, TransformCovers DEF Reached
<1>6. trace' \in Seq(Refs) /\ trace' # <<>>
  BY <1>1, <1>2 DEF PathInv
<1>7. Recorded'
  BY <1>1, Frame DEF Recorded, Exact
<1>8. CASE state' = {}
  <2>1. pc' = "slice" /\ core' = trace' /\ stmt' = stmt
    BY <1>8 DEF Interpret
  <2>2. Located'
    BY <1>1, <2>1 DEF Located, IsPath
  <2>3. LayerIsFit => EntryOf(block + 1) = {}
    BY <1>2, <1>3, <1>4, <1>5, <1>8, NoneAfter DEF Code
  <2>4. Refuted'
    BY <1>1, <2>3, Frame DEF Refuted
  <2> QED BY <1>1, <1>6, <1>7, <2>1, <2>2, <2>4, Frame DEF PathInv
<1>9. CASE state' # {}
  <2>1. pc' = pc /\ core' = core /\ stmt' = stmt + 1
    BY <1>9 DEF Interpret
  <2>2. Located'
    BY <1>1, <1>2, <2>1 DEF Located, IsPath, Code
  <2>3. ASSUME LayerIsFit, layer = "bool", NEW x \in Unseen(block, stmt + 1)
        PROVE  Open(state', x)
    <3>1. x \in Unseen(block, stmt) /\ x \notin Defs(st) \cup Uses(st)
      BY <1>2, <2>3, UnseenShrinks DEF Code
    <3>2. x \in job.vars
      BY <3>1 DEF Unseen
    <3> QED BY <1>1, <1>5, <2>3, <3>1, <3>2 DEF Reached
  <2>4. (LayerIsFit => At(block, stmt + 1) \subseteq state') /\ (Exact => At(block, stmt + 1) = state')
    BY <1>1, <1>3, <1>4, <1>5 DEF Reached, Exact
  <2>5. Reached'
    BY <1>1, <1>5, <2>1, <2>3, <2>4, Frame DEF Reached, Exact
  <2> QED BY <1>1, <1>6, <1>7, <2>1, <2>2, <2>5, Frame DEF PathInv
<1> QED BY <1>8, <1>9

LEMMA SkipStep ==
    ASSUME PathInv, JobFits(job), Skip
    PROVE  PathInv'
<1> DEFINE st == Code[stmt]
<1>1. /\ pc = "solve" /\ Located /\ Recorded /\ Reached /\ layer = "bool"
      /\ job' = job /\ layer' = layer /\ block' = block /\ fwd' = fwd /\ state' = state
      /\ trace' = trace /\ core' = core /\ pc' = pc /\ stmt' = stmt + 1 /\ result' = result
      /\ ~IsBoolean(job, st)
  BY DEF Skip, PathInv
<1>2. /\ block \in 1..Len(job.path) /\ stmt \in DOMAIN Code
      /\ StatementFits(job, st)
      /\ stmt + 1 \in 1..(Len(Code) + 1)
  BY <1>1, Position DEF Skip
<1>3. At(block, stmt + 1) = Outcomes(st, At(block, stmt))
  BY <1>2, AtNext DEF Code
<1>4. LayerIsFit => Outcomes(st, At(block, stmt)) \subseteq Outcomes(st, state)
  BY <1>1 DEF Outcomes, Reached
\* What the statement defines is new.
<1>5. ASSUME LayerIsFit PROVE Defs(st) \subseteq Unseen(block, stmt)
  <2>1. SkippedAreNew(job)
    BY <1>1, <1>5 DEF LayerIsFit
  <2>2. Defs(st) \subseteq job.vars
    BY <1>2 DEF StatementFits, Defs, JobFits
  <2>3. block \in DOMAIN job.path
    BY <1>2 DEF JobFits
  <2>4. \A l \in 1..block : \A o \in DOMAIN job.code[job.path[l]] :
            (l < block \/ o < stmt) =>
                Defs(st) \cap (Defs(job.code[job.path[l]][o]) \cup Uses(job.code[job.path[l]][o])) = {}
    <3>1. DefinesNew(job, block, stmt)
      BY <1>1, <1>2, <2>1, <2>3 DEF SkippedAreNew, Code
    <3> QED BY <3>1 DEF DefinesNew, Code
  <2> QED BY <2>2, <2>4 DEF Unseen
<1>6. LayerIsFit => Outcomes(st, state) \subseteq state
  BY <1>1, <1>2, <1>5, SkipCovers DEF Reached
<1>7. Unseen(block, stmt + 1) \subseteq Unseen(block, stmt)
  BY <1>2, UnseenShrinks DEF Code
<1>8. Recorded'
  BY <1>1, Frame DEF Recorded, Exact
<1>9. Located'
  BY <1>1, <1>2 DEF Located, IsPath, Code
<1>10. Reached'
  BY <1>1, <1>3, <1>4, <1>6, <1>7, Frame DEF Reached, Exact
<1> QED BY <1>1, <1>8, <1>9, <1>10, Frame DEF PathInv

LEMMA NextBlockStep ==
    ASSUME PathInv, JobFits(job), NextBlock
    PROVE  PathInv'
<1>1. /\ pc = "solve" /\ Located /\ Recorded /\ Reached
      /\ job' = job /\ layer' = layer /\ block' = block + 1 /\ stmt' = 1 /\ state' = state
      /\ trace' = trace /\ core' = core /\ pc' = pc /\ result' = result
      /\ stmt > Len(Code) /\ block < Len(job.path)
      /\ fwd' = Over(fwd, [b \in {job.path[block + 1]} |-> state])
  BY DEF NextBlock, PathInv
<1>2. /\ block \in 1..Len(job.path) /\ block + 1 \in 1..Len(job.path) /\ stmt = Len(Code) + 1
      /\ 1 \in 1..(Len(job.code[job.path[block + 1]]) + 1)
  <2>1. /\ block \in 1..Len(job.path) /\ Len(job.path) \in Nat
        /\ stmt \in 1..(Len(Code) + 1) /\ Len(Code) \in Nat
    BY <1>1, Position
  <2>2. block + 1 \in 1..Len(job.path) /\ stmt = Len(Code) + 1
    BY <1>1, <2>1
  <2>3. PICK k \in 1..Len(job.path) : k = block + 1
    BY <2>2
  <2>4. Len(job.code[job.path[k]]) \in Nat
    BY CodeFits
  <2>5. Len(job.code[job.path[block + 1]]) \in Nat
    BY <2>3, <2>4
  <2> QED BY <2>1, <2>2, <2>5, SMTT(30)
<1>3. EntryOf(block + 1) = At(block, stmt) /\ At(block + 1, 1) = EntryOf(block + 1)
  <2>1. EntryOf(block + 1) = At(block, Len(Code) + 1)
    BY <1>2, EntryNext DEF Code
  <2>2. PICK k \in 1..Len(job.path) : k = block + 1
    BY <1>2
  <2> QED BY <1>2, <2>1, <2>2, AtFirst
<1>4. Located'
  BY <1>1, <1>2 DEF Located, IsPath
<1>5. Unseen(block + 1, 1) \subseteq Unseen(block, stmt)
  <2>1. ASSUME NEW x \in Unseen(block + 1, 1),
               NEW l \in 1..block, NEW o \in DOMAIN job.code[job.path[l]]
        PROVE  x \notin Defs(job.code[job.path[l]][o]) \cup Uses(job.code[job.path[l]][o])
    <3>1. l \in 1..(block + 1) /\ l < block + 1
      BY <1>2
    <3> QED BY <3>1 DEF Unseen
  <2> QED BY <2>1 DEF Unseen
<1>6. Reached'
  BY <1>1, <1>3, <1>5, Frame DEF Reached, Exact
<1>7. Recorded'
  <2>1. \A k \in 1..block : job.path[k] # job.path[block + 1]
    <3>1. \A k, l \in 1..Len(job.path) : job.path[k] = job.path[l] => k = l
      BY <1>1 DEF Located, IsPath, JobFits
    <3>2. \A k \in 1..block : k \in 1..Len(job.path) /\ k # block + 1
      BY <1>2, Position, <1>1
    <3> QED BY <1>2, <3>1, <3>2
  <2>2. 1..(block + 1) = 1..block \cup {block + 1}
    BY <1>2
  <2>3. DOMAIN fwd' = DOMAIN fwd \cup {job.path[block + 1]}
    BY <1>1 DEF Over
  <2>4. DOMAIN fwd' = {job.path[k] : k \in 1..(block + 1)}
    BY <1>1, <2>2, <2>3 DEF Recorded
  <2>5. \A k \in 1..block : fwd'[job.path[k]] = fwd[job.path[k]]
    BY <1>1 DEF Over, Recorded
  <2>6. fwd'[job.path[block + 1]] = state
    <3>1. job.path[block + 1] \notin DOMAIN fwd
      BY <1>1, <2>1 DEF Recorded
    <3> QED BY <1>1, <3>1 DEF Over
  <2>7. /\ LayerIsFit => EntryOf(block + 1) \subseteq fwd'[job.path[block + 1]]
        /\ Exact => EntryOf(block + 1) = fwd'[job.path[block + 1]]
    BY <1>1, <1>3, <2>6 DEF Reached
  <2>8. \A k \in 1..(block + 1) :
            /\ LayerIsFit => EntryOf(k) \subseteq fwd'[job.path[k]]
            /\ Exact => EntryOf(k) = fwd'[job.path[k]]
    BY <1>1, <2>2, <2>5, <2>7 DEF Recorded
  <2> QED BY <1>1, <2>4, <2>8, Frame, SMTT(30) DEF Recorded, Exact
<1> QED BY <1>1, <1>4, <1>6, <1>7, Frame DEF PathInv

LEMMA EndOfPathStep ==
    ASSUME PathInv, JobFits(job), EndOfPath
    PROVE  PathInv'
<1>1. /\ pc = "solve" /\ Located /\ Recorded /\ Reached
      /\ job' = job /\ trace' = trace /\ core' = core /\ block = Len(job.path)
  BY DEF EndOfPath, PathInv
<1>2. CASE layer = "bool"
  <2>1. BeginLayer("all") /\ pc' = pc /\ result' = result
    BY <1>2 DEF EndOfPath
  <2>2. Located' /\ Recorded' /\ Reached'
    BY <1>1, <2>1, LayerBegins DEF Located
  <2> QED BY <1>1, <2>1, <2>2, Frame DEF PathInv
<1>3. CASE layer # "bool"
  <2>1. /\ pc' = "done" /\ result' = TRUE
        /\ layer' = layer /\ block' = block /\ stmt' = stmt /\ fwd' = fwd
    BY <1>3 DEF EndOfPath, Return
  <2>2. Located'
    BY <1>1, <2>1 DEF Located, IsPath
  <2>3. Recorded'
    BY <1>1, <2>1, Frame DEF Recorded, Exact
  <2> QED BY <1>1, <2>1, <2>2, <2>3, Frame DEF PathInv
<1> QED BY <1>2, <1>3

\* The statements minimize_path works on.
LEMMA MinimizeFrame ==
    ASSUME PathInv, pc \in {"slice", "recheck", "drop", "error"}, job' = job,
           layer' = layer, block' = block, stmt' = stmt, fwd' = fwd
    PROVE  Located' /\ Recorded' /\ Refuted'
<1>1. Located /\ Recorded /\ Refuted
  BY DEF PathInv
<1>2. Located'
  BY <1>1 DEF Located, IsPath
<1>3. Recorded'
  BY <1>1, Frame DEF Recorded, Exact
<1> QED BY <1>1, <1>2, <1>3, Frame DEF Refuted

LEMMA Explained ==
    ASSUME JobFits(job), NEW refs \in Seq(Refs), refs # <<>>, NEW last, NEW dataOnly
    PROVE  LET e == Explanation(refs, last, dataOnly)
           IN  /\ e.kind \in {"none", "trivial", "explanation"}
               /\ e.core \in Seq(Refs)
               /\ e.kind = "trivial" => Contradictory(e.core)
<1> DEFINE b == Last(refs)[1]
           false == {k \in DOMAIN job.code[b] : IsAssumeFalse(job.code[b][k])}
<1>1. ASSUME NEW ref \in Refs, IsAssumeFalse(StatementAt(ref))
      PROVE  Contradictory(<<ref>>)
  <2>1. StatementsAt(<<ref>>) = <<StatementAt(ref)>>
    BY DEF StatementsAt
  <2>2. Outcomes(StatementAt(ref), Stores) = {}
    BY <1>1, RefsFit, FalseExplains
  <2> QED BY <2>1, <2>2, RunOne DEF Contradictory
<1>2. Len(refs) \in Nat \ {0}
  OBVIOUS
<1>3. CASE Len(refs) = 1
  <2>1. refs[1] \in Refs /\ refs = <<refs[1]>>
    BY <1>3
  <2>2. Explanation(refs, last, dataOnly) =
            [kind |-> IF IsAssumeFalse(StatementAt(refs[1])) THEN "trivial" ELSE "explanation",
             core |-> refs]
    BY <1>3 DEF Explanation
  <2> QED BY <1>1, <2>1, <2>2
<1>4. CASE Len(refs) > 1 /\ false # {}
  <2> DEFINE k == CHOOSE k \in false : \A l \in false : l <= k
  <2>1. Explanation(refs, last, dataOnly) = [kind |-> "trivial", core |-> <<<<b, k>>>>]
    BY <1>4 DEF Explanation
  <2>2. b \in ToSet(job.path) /\ DOMAIN job.code[b] \subseteq Nat
    <3>1. PICK ref \in Refs : ref = Last(refs)
      BY <1>2 DEF Last
    <3>2. PICK c \in ToSet(job.path) : ref \in {<<c, i>> : i \in DOMAIN job.code[c]}
      BY DEF Refs
    <3>3. b = c
      BY <3>1, <3>2
    <3>4. PICK i \in 1..Len(job.path) : c = job.path[i]
      BY DEF JobFits, ToSet
    <3> QED BY <3>3, <3>4, CodeFits
  <2>3. \E m \in false : \A l \in false : l <= m
    <3>1. PICK n \in Nat : \A l \in false : l <= n
      <4>1. PICK i \in 1..Len(job.path) : b = job.path[i]
        BY <2>2 DEF JobFits, ToSet
      <4> QED BY <4>1, CodeFits
    <3>2. PICK d \in {n - l : l \in false} : \A d2 \in {n - l : l \in false} : d <= d2
      <4>1. {n - l : l \in false} \subseteq Nat
        BY <2>2, <3>1
      <4>2. {n - l : l \in false} # {}
        BY <1>4
      <4> QED BY <4>1, <4>2, Smallest
    <3>3. PICK m \in false : d = n - m
      BY <3>2
    <3>4. \A l \in false : n - m <= n - l /\ l \in Nat /\ m \in Nat
      BY <2>2, <3>2, <3>3
    <3>5. \A l \in false : l <= m
      BY <3>4
    <3> QED BY <3>5
  <2>4. k \in false
    BY <2>3
  <2> HIDE DEF k
  <2>5. IsAssumeFalse(StatementAt(<<b, k>>))
    BY <2>4 DEF StatementAt
  <2>6. <<b, k>> \in Refs
    BY <2>2, <2>4 DEF Refs
  <2> QED BY <1>1, <2>1, <2>5, <2>6
<1>5. CASE Len(refs) > 1 /\ false = {}
  <2>1. \/ Explanation(refs, last, dataOnly) = [kind |-> "none", core |-> refs]
        \/ Explanation(refs, last, dataOnly) =
               [kind |-> "explanation", core |-> Sliced(refs, <<b, last>>, dataOnly)]
    <3>1. CASE CriterionVars(StatementAt(<<b, last>>)) = {}
      BY <1>5, <3>1 DEF Explanation
    <3>2. CASE CriterionVars(StatementAt(<<b, last>>)) # {}
      <4>1. PICK e : e = [kind |-> "explanation", core |-> Sliced(refs, <<b, last>>, dataOnly)]
        OBVIOUS
      <4>2. Len(refs) # 1
        <5>1. \A n \in Nat : n > 1 => n # 1
          OBVIOUS
        <5> QED BY <1>2, <1>5, <5>1
      <4>3. Explanation(refs, last, dataOnly) = e
        BY <1>5, <3>2, <4>1, <4>2 DEF Explanation
      <4> QED BY <4>1, <4>3
    <3> QED BY <3>1, <3>2
  <2>2. \A ps : Pick(refs, ps) \in Seq(Refs)
    BY PickType
  <2>3. Sliced(refs, <<b, last>>, dataOnly) \in Seq(Refs)
    BY <2>2 DEF Sliced
  <2> QED BY <2>1, <2>3
<1>6. Len(refs) = 1 \/ Len(refs) > 1
  <2>1. PICK n \in Nat \ {0} : n = Len(refs)
    BY <1>2
  <2>2. n = 1 \/ n > 1
    OBVIOUS
  <2> QED BY <2>1, <2>2
<1> HIDE DEF false
<1> QED BY <1>3, <1>4, <1>5, <1>6

LEMMA SliceStepInv ==
    ASSUME PathInv, JobFits(job), Slice
    PROVE  PathInv'
<1> DEFINE e == Explanation(core, stmt, onlyData)
<1>1. /\ pc = "slice" /\ core = trace /\ trace # <<>> /\ core \in Seq(Refs)
      /\ job' = job /\ trace' = trace
      /\ layer' = layer /\ block' = block /\ stmt' = stmt /\ fwd' = fwd
  BY DEF Slice, PathInv
<1>2. Located' /\ Recorded' /\ Refuted'
  BY <1>1, MinimizeFrame
<1>3. /\ e.kind \in {"none", "trivial", "explanation"} /\ e.core \in Seq(Refs)
      /\ e.kind = "trivial" => Contradictory(e.core)
  BY <1>1, Explained
<1>4. CASE e.kind = "none"
  <2>1. pc' = "done" /\ result' = TRUE /\ core' = <<>>
    BY <1>4 DEF Slice, Return
  <2> QED BY <1>1, <1>2, <2>1, Frame DEF PathInv
<1>5. CASE e.kind = "trivial"
  <2>1. pc' = "done" /\ core' = e.core
    BY <1>5 DEF Slice, Return
  <2>2. Contradictory(core') /\ core' \in Seq(Refs)
    BY <1>3, <1>5, <2>1
  <2> QED BY <1>1, <1>2, <2>1, <2>2, Frame DEF PathInv
<1>6. CASE e.kind = "explanation"
  <2>1. pc' \in {"recheck", "drop"} /\ core' = e.core
    BY <1>6 DEF Slice
  <2> QED BY <1>1, <1>2, <1>3, <2>1, Frame DEF PathInv
<1> QED BY <1>3, <1>4, <1>5, <1>6

LEMMA RecheckStep ==
    ASSUME PathInv, Recheck
    PROVE  PathInv'
<1>1. /\ pc = "recheck" /\ trace # <<>> /\ core \in Seq(Refs) /\ trace \in Seq(Refs)
      /\ job' = job /\ trace' = trace /\ pc' \in {"drop", "slice"}
      /\ pc' = "slice" => core' = trace
      /\ pc' = "drop" => core' = core
      /\ layer' = layer /\ block' = block /\ stmt' = stmt /\ fwd' = fwd
  BY DEF Recheck, PathInv
<1>2. Located' /\ Recorded' /\ Refuted'
  BY <1>1, MinimizeFrame
<1> QED BY <1>1, <1>2, Frame DEF PathInv

LEMMA DropStep ==
    ASSUME PathInv, Drop
    PROVE  PathInv'
<1>1. /\ pc = "drop" /\ pc' = pc /\ job' = job /\ trace' = trace /\ core' = core
      /\ layer' = layer /\ block' = block /\ stmt' = stmt /\ fwd' = fwd
  BY DEF Drop, PathInv
<1>2. Located' /\ Recorded' /\ Refuted'
  BY <1>1, MinimizeFrame
<1> QED BY <1>1, <1>2, Frame DEF PathInv

LEMMA SanityCheckStep ==
    ASSUME PathInv, JobFits(job), SanityCheck
    PROVE  PathInv'
<1>1. /\ pc = "drop" /\ pc' \in {"done", "error"} /\ job' = job /\ trace' = trace
      /\ core \in Seq(Refs) /\ core' = Pick(core, enabled)
      /\ pc' = "done" => Infer(core') = {}
      /\ layer' = layer /\ block' = block /\ stmt' = stmt /\ fwd' = fwd
  BY DEF SanityCheck, Return, PathInv
<1>2. Located' /\ Recorded' /\ Refuted'
  BY <1>1, MinimizeFrame
<1>3. PICK c : c = core'
  OBVIOUS
<1>4. c \in Seq(Refs)
  BY <1>1, <1>3, PickType
<1>5. pc' = "done" => Contradictory(c)
  BY <1>1, <1>3, <1>4, InferCovers DEF Contradictory
<1>6. core' \in Seq(Refs) /\ (pc' = "done" => Contradictory(core'))
  BY <1>3, <1>4, <1>5
<1> QED BY <1>1, <1>2, <1>6, Frame DEF PathInv

LEMMA Inductive == Spec => []PathInv
<1>1. Init => PathInv
  BY DEF Init, PathInv
<1>2. PathInv /\ [Next]_vars => PathInv'
  <2> SUFFICES ASSUME PathInv, [Next]_vars PROVE PathInv'
    OBVIOUS
  <2>1. JobFits(job)
    BY JobAssumption DEF PathInv
  <2>2. CASE UNCHANGED vars
    <3>1. /\ job' = job /\ layer' = layer /\ block' = block /\ stmt' = stmt
          /\ fwd' = fwd /\ state' = state /\ core' = core
      BY <2>2 DEF vars
    <3>2. Located' <=> Located
      BY <3>1 DEF Located, IsPath
    <3>3. Recorded' <=> Recorded
      BY <3>1, Frame DEF Recorded, Exact
    <3>4. Reached' <=> Reached
      BY <3>1, Frame DEF Reached, Exact
    <3> QED BY <2>2, <3>1, <3>2, <3>3, <3>4, Frame DEF PathInv, Refuted, vars
  <2>3. CASE Start
    BY <2>1, <2>3, StartStep
  <2>4. CASE Interpret
    BY <2>1, <2>4, InterpretStep
  <2>5. CASE Skip
    BY <2>1, <2>5, SkipStep
  <2>6. CASE NextBlock
    BY <2>1, <2>6, NextBlockStep
  <2>7. CASE EndOfPath
    BY <2>1, <2>7, EndOfPathStep
  <2>8. CASE Slice
    BY <2>1, <2>8, SliceStepInv
  <2>9. CASE Recheck
    BY <2>9, RecheckStep
  <2>10. CASE Drop
    BY <2>10, DropStep
  <2>11. CASE SanityCheck
    BY <2>1, <2>11, SanityCheckStep
  <2> QED
    BY <2>2, <2>3, <2>4, <2>5, <2>6, <2>7, <2>8, <2>9, <2>10, <2>11 DEF Next
<1> QED BY <1>1, <1>2, PTL DEF Spec

-----------------------------------------------------------------------------
(* The theorems *)

\* The type invariant of the analyzer.
THEOREM AnalyzerTypeCorrect == Spec => []TypeOK
<1>1. Init => TypeOK
  BY DEF Init, TypeOK
<1>2. TypeOK /\ PathInv /\ PathInv' /\ [Next]_vars => TypeOK'
  <2> SUFFICES ASSUME TypeOK, PathInv, PathInv', [Next]_vars PROVE TypeOK'
    OBVIOUS
  <2>1. job' = job /\ JobFits(job)
    BY JobAssumption
       DEF PathInv, Next, Start, Interpret, Skip, NextBlock, EndOfPath, Slice, Recheck, Drop,
           SanityCheck, vars
  <2>2. Stores' = Stores /\ Refs' = Refs
    BY <2>1, Frame
  <2>3. job' \in Jobs /\ trace' \in Seq(Refs') /\ core' \in Seq(Refs')
    BY DEF PathInv
  <2>4. \A which \in {"bool", "all"} : job.path # <<>> /\ BeginLayer(which) =>
            /\ layer' \in {"none", "bool", "all"} /\ block' \in Nat /\ stmt' \in Nat
            /\ state' \subseteq Stores
            /\ \A b \in DOMAIN fwd' : b \in job.blocks /\ fwd'[b] \subseteq Stores
    BY <2>1 DEF BeginLayer, JobFits
  <2>5. CASE Start
    BY <2>1, <2>2, <2>3, <2>4, <2>5 DEF Start, Return, TypeOK
  <2>6. CASE Interpret
    <3>1. state' \subseteq Stores
      <4>1. StatementFits(job, Code[stmt])
        BY <2>1, <2>6, Position DEF Interpret, PathInv
      <4> QED BY <2>1, <2>6, <4>1, TransformCovers DEF Interpret, TypeOK
    <3> QED BY <2>1, <2>2, <2>3, <2>6, <3>1 DEF Interpret, TypeOK
  <2>7. CASE Skip
    BY <2>1, <2>2, <2>3, <2>7 DEF Skip, TypeOK
  <2>8. CASE NextBlock
    <3>1. job.path[block + 1] \in job.blocks
      BY <2>1, <2>8, Position, SMTT(30) DEF NextBlock, PathInv, JobFits
    <3>2. fwd' = Over(fwd, [b \in {job.path[block + 1]} |-> state])
      BY <2>8 DEF NextBlock
    <3>3. \A b \in DOMAIN fwd' : b \in job.blocks /\ fwd'[b] \subseteq Stores
      BY <3>1, <3>2 DEF Over, TypeOK
    <3> QED BY <2>1, <2>2, <2>3, <2>8, <3>3 DEF NextBlock, TypeOK
  <2>9. CASE EndOfPath
    <3>1. job.path # <<>>
      BY <2>9 DEF EndOfPath, PathInv, Located
    <3> QED BY <2>1, <2>2, <2>3, <2>4, <2>9, <3>1 DEF EndOfPath, Return, TypeOK
  <2>10. DOMAIN core' \subseteq Nat
    BY <2>3
  <2>11. CASE Slice
    <3>1. core \in Seq(Refs) /\ core # <<>>
      BY <2>11 DEF Slice, PathInv
    <3>2. Explanation(core, stmt, onlyData).kind \in {"none", "trivial", "explanation"}
      BY <2>1, <3>1, Explained
    <3>3. pc' \in {"recheck", "drop", "done"} /\ result' \in BOOLEAN
      BY <2>11, <3>2 DEF Slice, Return, TypeOK
    <3>4. enabled' \subseteq Nat
      BY <2>10, <2>11 DEF Slice
    <3>5. UNCHANGED <<layer, block, stmt, state, fwd, onlyData, tried>>
      BY <2>11 DEF Slice
    <3> QED BY <2>1, <2>2, <2>3, <3>3, <3>4, <3>5 DEF TypeOK
  <2>12. CASE Recheck
    BY <2>1, <2>2, <2>3, <2>12 DEF Recheck, TypeOK
  <2>13. CASE Drop
    <3>1. enabled' \subseteq Nat
      BY <2>13 DEF Drop, TypeOK
    <3>2. /\ tried' \in Nat
          /\ UNCHANGED <<pc, layer, block, stmt, state, fwd, onlyData, result>>
      BY <2>13 DEF Drop, TypeOK
    <3> QED BY <2>1, <2>2, <2>3, <3>1, <3>2 DEF TypeOK
  <2>14. CASE SanityCheck
    BY <2>1, <2>2, <2>3, <2>10, <2>14 DEF SanityCheck, Return, TypeOK
  <2>15. CASE UNCHANGED vars
    BY <2>1, <2>2, <2>3, <2>15 DEF vars, TypeOK
  <2> QED
    BY <2>5, <2>6, <2>7, <2>8, <2>9, <2>11, <2>12, <2>13, <2>14, <2>15 DEF Next
<1> QED BY <1>1, <1>2, Inductive, PTL DEF Spec

\* path_analyzer::solve says that a path is infeasible only when no run
\* takes it, for every path and abstract domain: without layers and in the
\* second layer always, in the first one if what it passes over is new.
THEOREM RefutationIsSound == Spec => []RefutedIsInfeasible
<1>1. PathInv => RefutedIsInfeasible
  <2> SUFFICES ASSUME PathInv, pc = "done", ~result, LayerIsFit PROVE ~Feasible(job.path)
    BY DEF RefutedIsInfeasible
  <2>1. JobFits(job)
    BY JobAssumption DEF PathInv
  <2>2. Located /\ Refuted
    BY DEF PathInv
  <2>3. EntryOf(Len(job.path) + 1) = {}
    <3>1. Len(job.path) + 1 \in (block + 1)..(Len(job.path) + 1)
      BY <2>1, <2>2, Position
    <3> QED BY <2>1, <2>2, <3>1, RefutedForGood
  <2>4. SubSeq(job.path, 1, (Len(job.path) + 1) - 1) = job.path
    BY <2>1 DEF JobFits
  <2> QED BY <2>3, <2>4 DEF EntryOf, Feasible
<1> QED BY <1>1, Inductive, PTL

\* What a client of the analysis reads of a block covers every run of the
\* path, unless the first layer was the last and passed over something old;
\* behind the last layer of a domain that loses nothing it is what the runs
\* reach, always. No run gets to a block that has no entry.
THEOREM PostCoversRuns == Spec => []PostIsStrongest
<1>1. PathInv => PostIsStrongest
  <2> SUFFICES ASSUME PathInv, pc = "done", job.path # <<>>, IsPath(job), NEW k \in DOMAIN job.path
               PROVE  /\ (LayerIsFit /\ job.path[k] \in DOMAIN Post) => EntryOf(k) \subseteq Post[job.path[k]]
                      /\ (Exact /\ job.path[k] \in DOMAIN Post) => EntryOf(k) = Post[job.path[k]]
                      /\ (LayerIsFit /\ job.path[k] \notin DOMAIN Post /\ job.path[k] \notin job.edges)
                             => EntryOf(k) = {}
    BY DEF PostIsStrongest, EntryOf, Exact
  <2>1. JobFits(job)
    BY JobAssumption DEF PathInv
  <2>2. Located /\ Recorded /\ (Refuted \/ block = Len(job.path))
    BY DEF PathInv
  <2>3. block \in 1..Len(job.path) /\ Len(job.path) \in Nat /\ k \in 1..Len(job.path)
    BY <2>1, <2>2, Position DEF JobFits
  <2>4. Exact => LayerIsFit
    BY DEF Exact, LayerIsFit
  \* What was recorded, of any block.
  <2>5. ASSUME NEW l \in 1..Len(job.path)
        PROVE  /\ LayerIsFit => EntryOf(l) \subseteq FwdConstraints(job.path[l])
               /\ Exact => EntryOf(l) = FwdConstraints(job.path[l])
    <3>1. CASE l <= block
      <4>1. l \in 1..block /\ job.path[l] \in DOMAIN fwd
        BY <2>2, <2>3, <3>1 DEF Recorded
      <4> QED BY <2>2, <4>1 DEF Recorded, FwdConstraints
    <3>2. CASE l > block
      <4>1. job.path[l] \notin DOMAIN fwd
        <5>1. \A m \in 1..block : m \in DOMAIN job.path /\ m # l
          BY <2>1, <2>3, <3>2 DEF JobFits
        <5>2. l \in DOMAIN job.path
          BY <2>1 DEF JobFits
        <5> QED BY <2>2, <5>1, <5>2 DEF Recorded, IsPath
      <4>2. FwdConstraints(job.path[l]) = {}
        BY <4>1 DEF FwdConstraints
      <4>3. Refuted /\ l \in (block + 1)..(Len(job.path) + 1)
        BY <2>2, <2>3, <3>2
      <4>4. LayerIsFit => EntryOf(l) = {}
        BY <2>1, <2>2, <4>3, RefutedForGood
      <4> QED BY <2>4, <4>2, <4>4
    <3> QED BY <2>3, <3>1, <3>2
  <2>6. job.path[k] \in DOMAIN Post => Post[job.path[k]] = FwdConstraints(job.path[k])
    BY DEF Post
  <2>7. ASSUME LayerIsFit, job.path[k] \notin DOMAIN Post, job.path[k] \notin job.edges
        PROVE  EntryOf(k) = {}
    <3>1. ~IsStored(k)
      BY <2>7 DEF Post
    <3>2. PICK l \in 1..(k - 1) : FwdConstraints(job.path[l]) = {}
      BY <2>7, <3>1 DEF IsStored
    <3>3. l \in 1..Len(job.path) /\ l \in 1..(Len(job.path) + 1) /\ k \in l..(Len(job.path) + 1)
      BY <2>3
    <3>4. EntryOf(l) = {}
      BY <2>5, <2>7, <3>2, <3>3
    <3> QED BY <2>1, <3>3, <3>4, NoneForGood
  <2> QED BY <2>3, <2>5, <2>6, <2>7
<1> QED BY <1>1, Inductive, PTL

\* The statements that a refuted path is explained with are statements of
\* the path, and no run gets through them.
THEOREM CoreIsContradictory ==
    Spec => []((pc = "done" /\ ~result) => (core \in Seq(Refs) /\ Contradictory(core)))
<1>1. PathInv => ((pc = "done" /\ ~result) => (core \in Seq(Refs) /\ Contradictory(core)))
  BY DEF PathInv
<1> QED BY <1>1, Inductive, PTL

-----------------------------------------------------------------------------
(***************************************************************************)
(* Other paths. A variable that is defined once on a path keeps what its   *)
(* definition said of it: in the store at the end of the path, every       *)
(* statement of the path can be executed again and change nothing.         *)
(***************************************************************************)
Settled(e, t) == t \in Effect(e, t)

LEMMA EffectSettles ==
    ASSUME JobFits(job), NEW s \in Stores, NEW st, StatementFits(job, st),
           Defs(st) \cap Uses(st) = {}, NEW t \in Effect(st, s)
    PROVE  Settled(st, t)
<1>1. \A x, v : With(With(s, x, v), x, v) = With(s, x, v)
  BY DEF With
<1>2. \A x, v, w : With(With(s, x, v), x, w) = With(s, x, w)
  BY DEF With
<1>3. CASE st.op \in {"assign", "add1"}
  <2>1. DOMAIN st = {"op", "lhs", "rhs"} /\ OperandFits(job, st.rhs)
    BY <1>3 DEF StatementFits
  <2>2. st.lhs \notin OperandVars(st.rhs)
    BY <2>1 DEF Defs, Uses
  <2>3. \A v : ValuesOf(st.rhs, With(s, st.lhs, v)) = ValuesOf(st.rhs, s)
    BY <2>1, <2>2, OperandValues
  <2>4. CASE st.op = "assign"
    <3>1. PICK w \in ValuesOf(st.rhs, s) : t = With(s, st.lhs, w)
      BY <2>4 DEF Effect
    <3>2. w \in ValuesOf(st.rhs, t) /\ With(t, st.lhs, w) = t
      BY <1>1, <2>3, <3>1
    <3> QED BY <2>4, <3>2 DEF Effect, Settled
  <2>5. CASE st.op = "add1"
    <3>1. \A u : Effect(st, u) = {With(u, st.lhs, w + 1) : w \in {w \in ValuesOf(st.rhs, u) : w + 1 \in Val}}
      BY <2>5 DEF Effect
    <3>2. PICK w \in ValuesOf(st.rhs, s) : w + 1 \in Val /\ t = With(s, st.lhs, w + 1)
      BY <3>1
    <3>3. w \in ValuesOf(st.rhs, t) /\ With(t, st.lhs, w + 1) = t
      BY <1>1, <2>3, <3>2
    <3> QED BY <3>1, <3>2, <3>3 DEF Settled
  <2> QED BY <1>3, <2>4, <2>5
<1>4. CASE st.op = "havoc"
  <2>1. \A u : Effect(st, u) = {With(u, st.lhs, w) : w \in Val}
    BY <1>4 DEF Effect
  <2> QED BY <1>1, <2>1 DEF Settled
<1>5. CASE st.op = "bool_assign"
  <2>1. DOMAIN st = {"op", "lhs", "cst"} /\ ConstraintFits(job, st.cst)
    BY <1>5 DEF StatementFits
  <2>2. st.lhs \notin ConstraintVars(st.cst)
    BY <2>1 DEF Defs, Uses
  <2>3. \A v : Holds(st.cst, With(s, st.lhs, v)) <=> Holds(st.cst, s)
    BY <2>1, <2>2, ConstraintHolds
  <2>4. \A u : Effect(st, u) = {With(u, st.lhs, IF Holds(st.cst, u) THEN 1 ELSE 0)}
    BY <1>5 DEF Effect
  <2>5. PICK w : w = IF Holds(st.cst, s) THEN 1 ELSE 0
    OBVIOUS
  <2>6. t = With(s, st.lhs, w)
    BY <2>4, <2>5
  <2>7. w = IF Holds(st.cst, t) THEN 1 ELSE 0
    BY <2>3, <2>5, <2>6
  <2> QED BY <1>1, <2>4, <2>6, <2>7 DEF Settled
<1>6. CASE st.op \in {"assume", "assert"}
  BY <1>6 DEF Effect, Settled
<1>7. CASE st.op = "unreachable"
  BY <1>7 DEF Effect
<1> QED BY <1>3, <1>4, <1>5, <1>6, <1>7 DEF StatementFits

\* What defines a variable that e does not mention does not unsettle e.
LEMMA StaysSettled ==
    ASSUME JobFits(job), NEW s \in Stores, NEW st, StatementFits(job, st), NEW t \in Effect(st, s),
           NEW e, StatementFits(job, e), Settled(e, s),
           Defs(st) \cap (Defs(e) \cup Uses(e)) = {}
    PROVE  Settled(e, t)
<1>1. t \in Stores /\ (t = s \/ \E x \in Defs(st), w \in Val : t = With(s, x, w))
  BY EffectOf
<1>2. ASSUME NEW x \in Defs(st), NEW w \in Val, t = With(s, x, w)
      PROVE  Settled(e, t)
  <2>1. x \notin Defs(e) \cup Uses(e) /\ With(s, x, w) \in Stores /\ s \in Effect(e, s)
    BY <1>1, <1>2 DEF Settled
  <2>2. With(s, x, w) \in Effect(e, With(s, x, w))
    BY <2>1, EffectOf
  <2> QED BY <1>2, <2>2 DEF Settled
<1> QED BY <1>1, <1>2

LEMMA CodeSettles ==
    ASSUME JobFits(job), NEW c, Len(c) \in Nat, NEW E, NEW S, S \subseteq Stores,
           \A e \in E : StatementFits(job, e),
           \A s \in S, e \in E : Settled(e, s),
           \A m \in 1..Len(c) :
               /\ StatementFits(job, c[m]) /\ Defs(c[m]) \cap Uses(c[m]) = {}
               /\ \A e \in E : Defs(c[m]) \cap (Defs(e) \cup Uses(e)) = {}
               /\ \A o \in 1..(m - 1) : Defs(c[m]) \cap (Defs(c[o]) \cup Uses(c[o])) = {}
    PROVE  \A t \in Run(c, S) :
               t \in Stores /\ (\A e \in E : Settled(e, t)) /\ (\A m \in 1..Len(c) : Settled(c[m], t))
<1>1. PICK n \in Nat : n = Len(c)
  OBVIOUS
<1>2. PICK f : Traces(f, c, S) /\ Run(c, S) = f[n]
  BY <1>1, RunTraces
<1> DEFINE P == {k \in 0..n : \A t \in f[k] :
                     /\ t \in Stores
                     /\ \A e \in E : Settled(e, t)
                     /\ \A m \in 1..k : Settled(c[m], t)}
<1>3. 0 \in P
  BY <1>2 DEF Traces
<1>4. ASSUME NEW k \in 1..n, k - 1 \in P PROVE k \in P
  <2> SUFFICES ASSUME NEW t \in f[k]
               PROVE  t \in Stores /\ (\A e \in E : Settled(e, t)) /\ (\A m \in 1..k : Settled(c[m], t))
    OBVIOUS
  <2>1. PICK s \in f[k - 1] : t \in Effect(c[k], s)
    <3>1. f[k] = Outcomes(c[k], f[k - 1])
      BY <1>1, <1>2 DEF Traces
    <3> QED BY <3>1 DEF Outcomes
  <2>2. s \in Stores /\ (\A e \in E : Settled(e, s)) /\ \A m \in 1..(k - 1) : Settled(c[m], s)
    BY <1>4
  <2>3. StatementFits(job, c[k]) /\ Defs(c[k]) \cap Uses(c[k]) = {}
    BY <1>1
  <2>4. t \in Stores
    BY <2>1, <2>2, <2>3, EffectOf
  <2>5. Settled(c[k], t)
    BY <2>1, <2>2, <2>3, EffectSettles
  <2>6. ASSUME NEW e \in E PROVE Settled(e, t)
    <3>1. StatementFits(job, e) /\ Defs(c[k]) \cap (Defs(e) \cup Uses(e)) = {} /\ Settled(e, s)
      BY <1>1, <2>2
    <3> QED BY <2>1, <2>2, <2>3, <3>1, StaysSettled
  <2>7. ASSUME NEW m \in 1..(k - 1) PROVE Settled(c[m], t)
    <3>1. m \in 1..Len(c) /\ k \in 1..Len(c)
      BY <1>1
    <3>2. StatementFits(job, c[m]) /\ Settled(c[m], s)
      BY <2>2, <3>1
    <3>3. Defs(c[k]) \cap (Defs(c[m]) \cup Uses(c[m])) = {}
      BY <3>1
    <3> QED BY <2>1, <2>2, <2>3, <3>2, <3>3, StaysSettled
  <2>8. \A m \in 1..k : m = k \/ m \in 1..(k - 1)
    OBVIOUS
  <2> QED BY <2>4, <2>5, <2>6, <2>7, <2>8
<1> HIDE DEF P
<1>5. \A k \in 0..n : k \in P
  BY <1>3, <1>4, UpTo
<1> QED BY <1>1, <1>2, <1>5 DEF P

\* What the first k blocks of p settle.
LEMMA PathSettles ==
    ASSUME JobFits(job), NEW p \in Seq(job.blocks),
           \A l \in DOMAIN p : \A m \in DOMAIN job.code[p[l]] :
               LET st == job.code[p[l]][m] IN
               /\ Defs(st) \cap Uses(st) = {}
               /\ \A q \in 1..l : \A o \in DOMAIN job.code[p[q]] :
                      (q < l \/ o < m) =>
                          LET earlier == job.code[p[q]][o]
                          IN  Defs(st) \cap (Defs(earlier) \cup Uses(earlier)) = {}
    PROVE  \A t \in Run(CodeOf(p), Stores) :
               t \in Stores /\ \A l \in DOMAIN p : \A o \in DOMAIN job.code[p[l]] :
                                  Settled(job.code[p[l]][o], t)
<1>1. PICK n \in Nat : n = Len(p) /\ DOMAIN p = 1..n
  OBVIOUS
<1> DEFINE After(k) == Run(CodeOf(SubSeq(p, 1, k)), Stores)
           Before(k) == UNION {ToSet(job.code[p[l]]) : l \in 1..k}
           P == {k \in 0..n : \A t \in After(k) :
                     t \in Stores /\ \A e \in Before(k) : Settled(e, t)}
<1>2. ASSUME NEW l \in 1..n
      PROVE  /\ p[l] \in job.blocks /\ Len(job.code[p[l]]) \in Nat
             /\ DOMAIN job.code[p[l]] = 1..Len(job.code[p[l]])
             /\ \A o \in 1..Len(job.code[p[l]]) : StatementFits(job, job.code[p[l]][o])
  <2>1. p[l] \in job.blocks
    BY <1>1
  <2>2. job.code[p[l]] \in Seq(ToSet(job.code[p[l]]))
    BY <2>1 DEF JobFits
  <2> QED BY <2>1, <2>2 DEF JobFits
<1>3. 0 \in P
  <2>1. SubSeq(p, 1, 0) = <<>>
    OBVIOUS
  <2>2. Run(CodeOf(<<>>), Stores) = Stores
    BY NoBlocks
  <2>3. After(0) = Stores
    BY <2>1, <2>2
  <2>4. Before(0) = {}
    OBVIOUS
  <2> HIDE DEF After, Before
  <2> QED BY <2>3, <2>4
<1>4. ASSUME NEW k \in 1..n, k - 1 \in P PROVE k \in P
  <2> DEFINE c == job.code[p[k]]
             E == Before(k - 1)
  <2>1. After(k) = Run(c, After(k - 1))
    <3>1. k \in 1..Len(p)
      BY <1>1
    <3>2. SubSeq(p, 1, k - 1) \in Seq(job.blocks)
          /\ SubSeq(p, 1, (k + 1) - 1) = Append(SubSeq(p, 1, k - 1), p[k])
      BY <3>1, PrefixNext
    <3>3. SubSeq(p, 1, k) = Append(SubSeq(p, 1, k - 1), p[k])
      <4>1. (k + 1) - 1 = k
        OBVIOUS
      <4> QED BY <3>2, <4>1
    <3>4. PICK q \in Seq(job.blocks) : q = SubSeq(p, 1, k - 1)
      BY <3>2
    <3>5. p[k] \in job.blocks
      BY <1>2
    <3>6. Run(CodeOf(Append(q, p[k])), Stores) = Run(job.code[p[k]], Run(CodeOf(q), Stores))
      BY <3>5, CodeAppend
    <3> QED BY <3>3, <3>4, <3>6
  <2>2. After(k - 1) \subseteq Stores /\ \A s \in After(k - 1), e \in E : Settled(e, s)
    BY <1>4
  <2>3. \A e \in E : \E q \in 1..(k - 1) : \E o \in DOMAIN job.code[p[q]] : e = job.code[p[q]][o]
    BY DEF ToSet
  <2>4. \A e \in E : StatementFits(job, e)
    <3> TAKE e \in E
    <3>1. PICK q \in 1..(k - 1) : \E o \in DOMAIN job.code[p[q]] : e = job.code[p[q]][o]
      BY <2>3
    <3>2. q \in 1..n
      OBVIOUS
    <3>3. PICK o \in DOMAIN job.code[p[q]] : e = job.code[p[q]][o]
      BY <3>1
    <3>4. o \in 1..Len(job.code[p[q]])
      BY <1>2, <3>2
    <3> QED BY <1>2, <3>2, <3>3, <3>4
  <2>5. k \in DOMAIN p /\ Len(c) \in Nat /\ DOMAIN c = 1..Len(c)
    BY <1>1, <1>2
  <2>6. ASSUME NEW m \in 1..Len(c)
        PROVE  /\ StatementFits(job, c[m]) /\ Defs(c[m]) \cap Uses(c[m]) = {}
               /\ \A e \in E : Defs(c[m]) \cap (Defs(e) \cup Uses(e)) = {}
               /\ \A o \in 1..(m - 1) : Defs(c[m]) \cap (Defs(c[o]) \cup Uses(c[o])) = {}
    <3>1. StatementFits(job, c[m]) /\ Defs(c[m]) \cap Uses(c[m]) = {}
      BY <1>2, <2>5
    <3>2. \A q \in 1..k : \A o \in DOMAIN job.code[p[q]] : (q < k \/ o < m) =>
              Defs(c[m]) \cap (Defs(job.code[p[q]][o]) \cup Uses(job.code[p[q]][o])) = {}
      BY <2>5
    <3>3. \A q \in 1..(k - 1) : q \in 1..k /\ q < k
      OBVIOUS
    <3>4. \A e \in E : Defs(c[m]) \cap (Defs(e) \cup Uses(e)) = {}
      BY <2>3, <3>2, <3>3
    <3>5. ASSUME NEW o \in 1..(m - 1)
          PROVE  Defs(c[m]) \cap (Defs(c[o]) \cup Uses(c[o])) = {}
      <4>1. k \in 1..k /\ o \in DOMAIN c /\ o < m
        BY <2>5
      <4> QED BY <3>2, <4>1
    <3> QED BY <3>1, <3>4, <3>5
  <2> HIDE DEF c, E, After
  <2>7. \A t \in Run(c, After(k - 1)) :
            t \in Stores /\ (\A e \in E : Settled(e, t)) /\ (\A m \in 1..Len(c) : Settled(c[m], t))
    BY <2>2, <2>4, <2>5, <2>6, CodeSettles
  <2>8. \A e \in Before(k) : e \in E \/ \E m \in 1..Len(c) : e = c[m]
    <3>1. \A q \in 1..k : q \in 1..(k - 1) \/ q = k
      OBVIOUS
    <3> QED BY <2>5, <3>1 DEF E, c, ToSet
  <2> HIDE DEF Before
  <2> QED BY <2>1, <2>7, <2>8
<1> HIDE DEF P
<1>5. n \in P
  <2>1. \A k \in 0..n : k \in P
    BY <1>3, <1>4, UpTo
  <2> QED BY <2>1
<1>6. SubSeq(p, 1, n) = p
  BY <1>1
<1>7. \A l \in DOMAIN p : \A o \in DOMAIN job.code[p[l]] : job.code[p[l]][o] \in Before(n)
  <2> TAKE l \in DOMAIN p
  <2> TAKE o \in DOMAIN job.code[p[l]]
  <2>1. job.code[p[l]][o] \in ToSet(job.code[p[l]]) /\ l \in 1..n
    BY <1>1 DEF ToSet
  <2> QED BY <2>1
<1> QED BY <1>5, <1>6, <1>7 DEF P

\* In a store where the statements are settled they are a run.
LEMMA SettledRuns ==
    ASSUME NEW c, Len(c) \in Nat, NEW t, \A m \in 1..Len(c) : Settled(c[m], t)
    PROVE  t \in Run(c, {t})
<1>1. PICK n \in Nat : n = Len(c)
  OBVIOUS
<1>2. PICK f : Traces(f, c, {t}) /\ Run(c, {t}) = f[n]
  BY <1>1, RunTraces
<1> DEFINE P == {k \in 0..n : t \in f[k]}
<1>3. 0 \in P
  BY <1>2 DEF Traces
<1>4. ASSUME NEW k \in 1..n, k - 1 \in P PROVE k \in P
  <2>1. f[k] = Outcomes(c[k], f[k - 1])
    BY <1>1, <1>2 DEF Traces
  <2>2. t \in Effect(c[k], t) /\ t \in f[k - 1]
    BY <1>1, <1>4 DEF Settled
  <2> QED BY <2>1, <2>2 DEF Outcomes
<1> HIDE DEF P
<1>5. \A k \in 0..n : k \in P
  BY <1>3, <1>4, UpTo
<1> QED BY <1>1, <1>2, <1>5 DEF P

\* An explanation rules out every path through its blocks that defines its
\* variables once.
THEOREM CoreRulesOutPaths == Spec => []CoreBlocksOtherPaths
<1>1. PathInv => CoreBlocksOtherPaths
  <2> SUFFICES ASSUME PathInv, pc = "done", ~result, NEW n \in 1..Cardinality(job.blocks),
                      NEW p \in [1..n -> job.blocks],
                      PassesThrough(p, core), DefinedOnce([job EXCEPT !.path = p]),
                      Feasible(p)
               PROVE  FALSE
    BY DEF CoreBlocksOtherPaths
  <2>1. JobFits(job)
    BY JobAssumption DEF PathInv
  <2>2. core \in Seq(Refs) /\ Contradictory(core)
    BY DEF PathInv
  <2>3. p \in Seq(job.blocks) /\ DOMAIN p = 1..n
    BY <2>1
  <2>4. PICK other : other = [job EXCEPT !.path = p]
    OBVIOUS
  <2>5. other.path = p /\ other.code = job.code
    BY <2>1, <2>4 DEF JobFits
  <2>6. \A l \in DOMAIN p : \A m \in DOMAIN job.code[p[l]] :
            LET st == job.code[p[l]][m] IN
            /\ Defs(st) \cap Uses(st) = {}
            /\ \A q \in 1..l : \A o \in DOMAIN job.code[p[q]] :
                   (q < l \/ o < m) =>
                       LET earlier == job.code[p[q]][o]
                       IN  Defs(st) \cap (Defs(earlier) \cup Uses(earlier)) = {}
    BY <2>4, <2>5 DEF DefinedOnce, DefinesNew
  <2>7. PICK t \in Run(CodeOf(p), Stores) : TRUE
    BY DEF Feasible
  <2>8. t \in Stores /\ \A l \in DOMAIN p : \A o \in DOMAIN job.code[p[l]] : Settled(job.code[p[l]][o], t)
    BY <2>1, <2>3, <2>6, <2>7, PathSettles
  <2>9. PICK c : c = StatementsAt(core)
    OBVIOUS
  <2>10. Len(c) = Len(core) /\ Len(c) \in Nat /\ \A m \in 1..Len(c) : c[m] = StatementAt(core[m])
    BY <2>2, <2>9 DEF StatementsAt
  <2>11. ASSUME NEW m \in 1..Len(c) PROVE Settled(c[m], t)
    <3>1. core[m] \in Refs /\ core[m][1] \in ToSet(p)
      BY <2>2, <2>10 DEF PassesThrough
    <3>2. PICK b \in ToSet(job.path) : core[m] \in {<<b, o>> : o \in DOMAIN job.code[b]}
      BY <3>1 DEF Refs
    <3>3. PICK o \in DOMAIN job.code[b] : core[m] = <<b, o>>
      BY <3>2
    <3>4. PICK l \in DOMAIN p : p[l] = b
      BY <3>1, <3>3 DEF ToSet
    <3>5. c[m] = job.code[p[l]][o]
      BY <2>10, <3>3, <3>4 DEF StatementAt
    <3> QED BY <2>8, <3>3, <3>4, <3>5
  <2>12. t \in Run(c, {t})
    BY <2>10, <2>11, SettledRuns
  <2>13. Run(c, {t}) \subseteq Run(c, Stores)
    BY <2>8, <2>10, RunMonotone
  <2> QED BY <2>2, <2>9, <2>12, <2>13 DEF Contradictory
<1> QED BY <1>1, Inductive, PTL

-----------------------------------------------------------------------------
(***************************************************************************)
(* What the domain infers from some of the statements of a list. f[k] is   *)
(* the value behind the k-th, if those at the positions ps are looked at.  *)
(***************************************************************************)
Follows(f, refs, ps, S) ==
    /\ f[0] = S
    /\ \A k \in 1..Len(refs) :
           f[k] = IF k \in ps THEN Transform(f[k - 1], StatementAt(refs[k])) ELSE f[k - 1]

LEMMA InferSteps ==
    ASSUME JobFits(job), NEW refs \in Seq(Refs)
    PROVE  \E f \in [0..Len(refs) -> SUBSET Stores] :
               /\ Infer(refs) = f[Len(refs)]
               /\ Follows(f, refs, 1..Len(refs), Stores)
<1>1. PICK n \in Nat : n = Len(refs)
  OBVIOUS
<1> DEFINE after == CHOOSE f : IsInference(f, refs)
<1>2. PICK f \in [0..n -> SUBSET Stores] : IsInference(f, refs)
  BY <1>1, InferenceExists
<1>3. IsInference(after, refs)
  BY <1>2
<1>4. Infer(refs) = after[n]
  BY <1>1 DEF Infer, IsInference
<1> HIDE DEF after
<1>5. after[0] = Stores /\ f[0] = Stores
      /\ \A k \in 1..n : /\ after[k] = Transform(after[k - 1], StatementAt(refs[k]))
                         /\ f[k] = Transform(f[k - 1], StatementAt(refs[k]))
  <2>1. 0 \in 0..n /\ \A k \in 1..n : k \in 0..n /\ k # 0
    BY <1>1
  <2>2. after[0] = Stores /\ f[0] = Stores
    BY <1>1, <1>2, <1>3, <2>1 DEF IsInference
  <2>3. \A k \in 1..n : after[k] = Transform(after[k - 1], StatementAt(refs[k]))
    BY <1>1, <1>3, <2>1 DEF IsInference
  <2>4. \A k \in 1..n : f[k] = Transform(f[k - 1], StatementAt(refs[k]))
    BY <1>1, <1>2, <2>1 DEF IsInference
  <2> QED BY <2>2, <2>3, <2>4
<1> DEFINE P == {k \in 0..n : f[k] = after[k]}
<1>6. 0 \in P
  BY <1>5
<1>7. \A k \in 1..n : k - 1 \in P => k \in P
  BY <1>5
<1> HIDE DEF P
<1>8. \A k \in 0..n : k \in P
  BY <1>6, <1>7, UpTo
<1>9. f[n] = after[n]
  BY <1>8 DEF P
<1>10. Follows(f, refs, 1..n, Stores)
  BY <1>1, <1>5 DEF Follows
<1> QED BY <1>1, <1>2, <1>4, <1>9, <1>10

\* There is one way to follow a list.
LEMMA FollowsOnce ==
    ASSUME NEW r1, NEW r2, NEW n \in Nat, NEW S, Len(r1) \in Nat, Len(r2) \in Nat,
           n <= Len(r1), n <= Len(r2), \A k \in 1..n : r1[k] = r2[k],
           NEW f, NEW g, Follows(f, r1, 1..Len(r1), S), Follows(g, r2, 1..Len(r2), S)
    PROVE  f[n] = g[n]
<1> DEFINE P == {k \in 0..n : f[k] = g[k]}
<1>1. 0 \in P
  BY DEF Follows
<1>2. ASSUME NEW k \in 1..n, k - 1 \in P PROVE k \in P
  <2>1. k \in 1..Len(r1) /\ k \in 1..Len(r2) /\ r1[k] = r2[k]
    OBVIOUS
  <2>2. f[k] = Transform(f[k - 1], StatementAt(r1[k])) /\ g[k] = Transform(g[k - 1], StatementAt(r2[k]))
    BY <2>1 DEF Follows
  <2>3. f[k - 1] = g[k - 1]
    BY <1>2
  <2> QED BY <2>1, <2>2, <2>3
<1> HIDE DEF P
<1>3. \A k \in 0..n : k \in P
  BY <1>1, <1>2, UpTo
<1> QED BY <1>3 DEF P

LEMMA InferNothing ==
    ASSUME JobFits(job)
    PROVE  Infer(<<>>) = Stores
<1>1. <<>> \in Seq(Refs) /\ Len(<<>>) = 0
  OBVIOUS
<1>2. PICK f : Infer(<<>>) = f[Len(<<>>)] /\ Follows(f, <<>>, 1..Len(<<>>), Stores)
  BY <1>1, InferSteps
<1> QED BY <1>1, <1>2 DEF Follows

LEMMA InferAppend ==
    ASSUME JobFits(job), NEW refs \in Seq(Refs), NEW ref \in Refs
    PROVE  Infer(Append(refs, ref)) = Transform(Infer(refs), StatementAt(ref))
<1>1. PICK n \in Nat : n = Len(refs)
  OBVIOUS
<1>2. PICK more : more = Append(refs, ref)
  OBVIOUS
<1>3. more \in Seq(Refs) /\ Len(more) = n + 1 /\ more[n + 1] = ref /\ \A k \in 1..n : more[k] = refs[k]
  BY <1>1, <1>2
<1>4. PICK f : Infer(refs) = f[Len(refs)] /\ Follows(f, refs, 1..Len(refs), Stores)
  BY InferSteps
<1>5. PICK g : Infer(more) = g[Len(more)] /\ Follows(g, more, 1..Len(more), Stores)
  BY <1>3, InferSteps
<1>6. f[n] = g[n]
  <2>1. n <= Len(refs) /\ n <= Len(more) /\ Len(more) \in Nat /\ Len(refs) \in Nat
    BY <1>1, <1>3
  <2>2. \A k \in 1..n : refs[k] = more[k]
    BY <1>3
  <2> QED BY <1>4, <1>5, <2>1, <2>2, FollowsOnce
<1>7. g[n + 1] = Transform(g[n], StatementAt(more[n + 1]))
  <2>1. n + 1 \in 1..Len(more) /\ (n + 1) - 1 = n
    BY <1>3
  <2>2. g[n + 1] = Transform(g[(n + 1) - 1], StatementAt(more[n + 1]))
    BY <1>5, <2>1 DEF Follows
  <2> QED BY <2>1, <2>2
<1> QED BY <1>1, <1>2, <1>3, <1>4, <1>5, <1>6, <1>7

LEMMA SeqIsList ==
    ASSUME NEW T, NEW s \in Seq(T)
    PROVE  IsList(s, Len(s)) /\ Len(s) \in Nat /\ DOMAIN s = 1..Len(s)
BY DEF IsList

\* The statements at some positions only.
LEMMA InferPicked ==
    ASSUME JobFits(job), NEW refs \in Seq(Refs), NEW ps, ps \subseteq DOMAIN refs
    PROVE  \E f : Follows(f, refs, ps, Stores) /\ Infer(Pick(refs, ps)) = f[Len(refs)]
<1>1. PICK n \in Nat : n = Len(refs)
  OBVIOUS
<1>2. IsList(refs, n) /\ ps \subseteq 1..n
  BY <1>1, SeqIsList
<1>3. PICK f : f = [k \in 0..n |-> Infer(Pick(refs, ps \cap 1..k))]
  OBVIOUS
<1>4. f[0] = Stores
  <2>1. ps \cap 1..0 = {}
    OBVIOUS
  <2>2. f[0] = Infer(Pick(refs, ps \cap 1..0))
    BY <1>3
  <2>3. Pick(refs, {}) = <<>>
    BY <1>2, PickNone
  <2> QED BY <2>1, <2>2, <2>3, InferNothing
<1>5. ASSUME NEW k \in 1..n
      PROVE  f[k] = IF k \in ps THEN Transform(f[k - 1], StatementAt(refs[k])) ELSE f[k - 1]
  <2>1. k \in 0..n /\ k - 1 \in 0..n
    OBVIOUS
  <2>2. f[k] = Infer(Pick(refs, ps \cap 1..k)) /\ f[k - 1] = Infer(Pick(refs, ps \cap 1..(k - 1)))
    BY <1>3, <2>1
  <2>3. CASE k \notin ps
    <3>1. ps \cap 1..k = ps \cap 1..(k - 1)
      BY <2>3
    <3> QED BY <2>2, <2>3, <3>1
  <2>4. CASE k \in ps
    <3>1. PICK q : q = ps \cap 1..(k - 1)
      OBVIOUS
    <3>2. ps \cap 1..k = q \cup {k} /\ q \subseteq 1..n /\ \A j \in q : j < k
      BY <2>4, <3>1
    <3>3. Pick(refs, q \cup {k}) = Append(Pick(refs, q), refs[k])
      <4>1. q \subseteq 1..n
        BY <3>2
      <4>2. \A j \in q : j < k
        BY <3>2
      <4> QED BY <1>2, <4>1, <4>2, PickNext, Zenon
    <3>4. PICK c : c = Pick(refs, q)
      OBVIOUS
    <3>5. c \in Seq(Refs) /\ refs[k] \in Refs
      <4>1. \A qs : Pick(refs, qs) \in Seq(Refs)
        BY PickType
      <4> QED BY <1>1, <3>4, <4>1
    <3>6. Infer(Append(c, refs[k])) = Transform(Infer(c), StatementAt(refs[k]))
      BY <3>5, InferAppend
    <3> QED BY <2>2, <2>4, <3>1, <3>2, <3>3, <3>4, <3>6
  <2> QED BY <2>3, <2>4
<1>6. f[n] = Infer(Pick(refs, ps))
  <2>1. ps \cap 1..n = ps /\ n \in 0..n
    BY <1>2
  <2> QED BY <1>3, <2>1
<1>7. Follows(f, refs, ps, Stores)
  BY <1>1, <1>4, <1>5 DEF Follows
<1> QED BY <1>1, <1>6, <1>7

-----------------------------------------------------------------------------
(* Less code says less *)

LEMMA AbstractMonotone ==
    ASSUME NEW S, NEW T, S \subseteq T, T \subseteq Stores
    PROVE  Abstract(S) \subseteq Abstract(T)
<1>1. CASE job.relational
  BY <1>1 DEF Abstract
<1>2. CASE S = {}
  BY <1>2 DEF Abstract
<1>3. CASE ~job.relational /\ S # {}
  <2>1. Abstract(S) = {s \in Stores : \A x \in job.vars : \E t \in S : s[x] = t[x]}
    BY <1>3 DEF Abstract
  <2>2. T # {}
    BY <1>3
  <2>3. Abstract(T) = {s \in Stores : \A x \in job.vars : \E t \in T : s[x] = t[x]}
    BY <1>3, <2>2 DEF Abstract
  <2> QED BY <2>1, <2>3
<1> QED BY <1>1, <1>2, <1>3

LEMMA AbstractTwice ==
    ASSUME NEW S, S \subseteq Stores
    PROVE  Abstract(Abstract(S)) = Abstract(S)
<1>1. CASE job.relational \/ S = {}
  BY <1>1 DEF Abstract
<1>2. CASE ~job.relational /\ S # {}
  <2>1. PICK T : T = Abstract(S)
    OBVIOUS
  <2>2. T = {s \in Stores : \A x \in job.vars : \E t \in S : s[x] = t[x]}
    BY <1>2, <2>1 DEF Abstract
  <2>3. T # {}
    BY <1>2, <2>2
  <2>4. Abstract(T) = {s \in Stores : \A x \in job.vars : \E t \in T : s[x] = t[x]}
    BY <1>2, <2>3 DEF Abstract
  <2>5. T \subseteq Abstract(T)
    BY <2>2, <2>4
  <2>6. Abstract(T) \subseteq T
    <3> SUFFICES ASSUME NEW s \in Abstract(T), NEW x \in job.vars
                 PROVE  \E u \in S : s[x] = u[x]
      BY <2>2, <2>4
    <3>1. PICK t \in T : s[x] = t[x]
      BY <2>4
    <3> QED BY <2>2, <3>1
  <2> QED BY <2>1, <2>5, <2>6
<1> QED BY <1>1, <1>2

LEMMA AbstractTop ==
    ASSUME JobFits(job)
    PROVE  Abstract(Stores) = Stores
BY AbstractCovers

LEMMA TransformMonotone ==
    ASSUME JobFits(job), NEW st, StatementFits(job, st), NEW S, NEW T, S \subseteq T, T \subseteq Stores
    PROVE  Transform(S, st) \subseteq Transform(T, st)
<1>1. Outcomes(st, S) \subseteq Outcomes(st, T)
  BY DEF Outcomes
<1>2. Outcomes(st, T) \subseteq Stores
  BY OutcomesFit
<1> QED BY <1>1, <1>2, AbstractMonotone DEF Transform

\* At the positions qs, a statement defines what those before it do not mention.
Fresh(refs, qs) ==
    \A k, l \in qs : l < k =>
        Defs(StatementAt(refs[k])) \cap (Defs(StatementAt(refs[l])) \cup Uses(StatementAt(refs[l]))) = {}

Unmentioned(refs, qs, k) ==
    {x \in job.vars : \A l \in qs : l <= k => x \notin Defs(StatementAt(refs[l])) \cup Uses(StatementAt(refs[l]))}

LEMMA DefsAreVars ==
    ASSUME JobFits(job), NEW st, StatementFits(job, st)
    PROVE  Defs(st) \subseteq job.vars
BY DEF StatementFits, Defs, JobFits

LEMMA LessSaysLess ==
    ASSUME JobFits(job), NEW refs \in Seq(Refs), NEW ps, NEW qs, ps \subseteq qs,
           qs \subseteq DOMAIN refs, Fresh(refs, qs)
    PROVE  Infer(Pick(refs, qs)) \subseteq Infer(Pick(refs, ps))
<1>1. PICK n \in Nat : n = Len(refs)
  OBVIOUS
<1>2. PICK f : Follows(f, refs, qs, Stores) /\ Infer(Pick(refs, qs)) = f[n]
  BY <1>1, InferPicked
<1>3. PICK g : Follows(g, refs, ps, Stores) /\ Infer(Pick(refs, ps)) = g[n]
  BY <1>1, InferPicked
<1> DEFINE P == {k \in 0..n : /\ f[k] \subseteq g[k] /\ g[k] \subseteq Stores
                              /\ Abstract(g[k]) = g[k]
                              /\ \A x \in Unmentioned(refs, qs, k) : Open(g[k], x)}
<1>4. 0 \in P
  <2>1. \A x : Open(Stores, x)
    BY DEF Open
  <2> QED BY <1>2, <1>3, <2>1, AbstractTop DEF Follows
<1>5. ASSUME NEW k \in 1..n, k - 1 \in P PROVE k \in P
  <2>1. PICK st : st = StatementAt(refs[k])
    OBVIOUS
  <2>2. PICK F : F = f[k - 1]
    OBVIOUS
  <2>3. PICK G : G = g[k - 1]
    OBVIOUS
  <2>4. F \subseteq G /\ G \subseteq Stores /\ Abstract(G) = G
        /\ \A x \in Unmentioned(refs, qs, k - 1) : Open(G, x)
    BY <1>5, <2>2, <2>3
  <2>5. StatementFits(job, st)
    BY <1>1, <2>1, RefsFit
  <2>6. /\ f[k] = IF k \in qs THEN Transform(F, st) ELSE F
        /\ g[k] = IF k \in ps THEN Transform(G, st) ELSE G
    BY <1>1, <1>2, <1>3, <2>1, <2>2, <2>3 DEF Follows
  <2>7. Unmentioned(refs, qs, k) \subseteq Unmentioned(refs, qs, k - 1)
        /\ \A x \in Unmentioned(refs, qs, k) :
               x \in job.vars /\ (k \in qs => x \notin Defs(st) \cup Uses(st))
    <3>1. \A l \in qs : l <= k - 1 => l <= k
      <4>1. \A l \in qs : l \in Int
        BY <1>1
      <4> QED BY <4>1
    <3>2. k <= k
      OBVIOUS
    <3>3. Unmentioned(refs, qs, k) \subseteq Unmentioned(refs, qs, k - 1)
      BY <3>1 DEF Unmentioned
    <3>4. \A x \in Unmentioned(refs, qs, k) :
               x \in job.vars /\ (k \in qs => x \notin Defs(st) \cup Uses(st))
      BY <2>1, <3>2 DEF Unmentioned
    <3> QED BY <3>3, <3>4
  <2>8. CASE k \in ps
    <3>1. Transform(F, st) \subseteq Transform(G, st)
      BY <2>4, <2>5, TransformMonotone
    <3>2. Transform(G, st) \subseteq Stores /\ \A x \in Unmentioned(refs, qs, k) : Open(Transform(G, st), x)
      <4>1. \A x \in Unmentioned(refs, qs, k) : x \in job.vars /\ Open(G, x) /\ x \notin Defs(st) \cup Uses(st)
        BY <2>4, <2>7, <2>8
      <4> QED BY <2>4, <2>5, <4>1, TransformCovers
    <3>3. Abstract(Transform(G, st)) = Transform(G, st)
      BY <2>4, <2>5, OutcomesFit, AbstractTwice DEF Transform
    <3> QED BY <2>6, <2>8, <3>1, <3>2, <3>3
  <2>9. CASE k \in qs \ ps
    <3>1. Transform(F, st) \subseteq G
      <4>1. Defs(st) \subseteq Unmentioned(refs, qs, k - 1)
        <5>1. Defs(st) \subseteq job.vars
          BY <2>5, DefsAreVars
        <5>2. \A l \in qs : l <= k - 1 =>
                  Defs(st) \cap (Defs(StatementAt(refs[l])) \cup Uses(StatementAt(refs[l]))) = {}
          <6>1. \A l \in qs : l <= k - 1 => l < k
            <7>1. \A l \in qs : l \in Int
              BY <1>1
            <7> QED BY <7>1
          <6> QED BY <2>1, <2>9, <6>1 DEF Fresh
        <5> QED BY <5>1, <5>2 DEF Unmentioned
      <4>2. Outcomes(st, G) \subseteq G
        BY <2>4, <2>5, <4>1, SkipCovers
      <4>3. Outcomes(st, F) \subseteq G
        BY <2>4, <4>2 DEF Outcomes
      <4> QED BY <2>4, <4>3, AbstractMonotone DEF Transform
    <3>2. \A x \in Unmentioned(refs, qs, k) : Open(G, x)
      BY <2>4, <2>7
    <3> QED BY <2>4, <2>6, <2>9, <3>1, <3>2
  <2>10. CASE k \notin qs
    BY <2>4, <2>6, <2>7, <2>10
  <2> QED BY <2>8, <2>9, <2>10
<1> HIDE DEF P
<1>6. \A k \in 0..n : k \in P
  BY <1>4, <1>5, UpTo
<1> QED BY <1>2, <1>3, <1>6 DEF P

-----------------------------------------------------------------------------
(***************************************************************************)
(* Slicing. What the domain infers from the slice is no more than what it  *)
(* infers from the whole, as far as the variables go that matter behind.   *)
(***************************************************************************)

\* Every store of T looks, at X, like one of S.
SameOn(s, t, X) == \A x \in job.vars : x \in X => s[x] = t[x]
Like(S, T, X) == \A t \in T : \E s \in S : SameOn(s, t, X)

LEMMA VarsFit ==
    ASSUME JobFits(job), NEW st, StatementFits(job, st)
    PROVE  Defs(st) \subseteq job.vars /\ Uses(st) \subseteq job.vars
<1>1. \A a : OperandFits(job, a) => OperandVars(a) \subseteq job.vars
  BY DEF OperandFits, OperandVars
<1>2. \A c : ConstraintFits(job, c) => ConstraintVars(c) \subseteq job.vars
  BY <1>1 DEF ConstraintFits, ConstraintVars
<1>3. Uses(st) \subseteq job.vars
  BY <1>1, <1>2 DEF StatementFits, Uses
<1> QED BY <1>3, DefsAreVars

LEMMA ValuesAgree ==
    ASSUME NEW s, NEW t, NEW a, OperandFits(job, a), \A x \in OperandVars(a) : s[x] = t[x]
    PROVE  ValuesOf(a, s) = ValuesOf(a, t)
BY DEF OperandFits, OperandVars, ValuesOf

LEMMA HoldsAgree ==
    ASSUME NEW s, NEW t, NEW c, ConstraintFits(job, c), \A x \in ConstraintVars(c) : s[x] = t[x]
    PROVE  Holds(c, s) <=> Holds(c, t)
<1>1. ValuesOf(c.a, s) = ValuesOf(c.a, t) /\ ValuesOf(c.b, s) = ValuesOf(c.b, t)
  BY ValuesAgree DEF ConstraintFits, ConstraintVars
<1> QED BY <1>1 DEF Holds

LEMMA EffectAgrees ==
    ASSUME JobFits(job), NEW s \in Stores, NEW t \in Stores, NEW st, StatementFits(job, st),
           NEW X, SameOn(s, t, (X \ Defs(st)) \cup Uses(st)),
           NEW t2 \in Effect(st, t)
    PROVE  \E s2 \in Effect(st, s) : SameOn(s2, t2, X)
<1>1. DOMAIN s = job.vars /\ DOMAIN t = job.vars
  BY DEF Stores
<1>2. \A x \in Uses(st) : s[x] = t[x]
  BY VarsFit DEF SameOn
<1>3. ASSUME NEW y, Defs(st) = {y}, NEW w
      PROVE  SameOn(With(s, y, w), With(t, y, w), X)
  BY <1>1, <1>3 DEF With, SameOn
<1>4. CASE st.op \in {"assign", "add1"}
  <2>1. DOMAIN st = {"op", "lhs", "rhs"} /\ OperandFits(job, st.rhs)
    BY <1>4 DEF StatementFits
  <2>2. Defs(st) = {st.lhs} /\ Uses(st) = OperandVars(st.rhs)
    BY <2>1 DEF Defs, Uses
  <2>3. ValuesOf(st.rhs, s) = ValuesOf(st.rhs, t)
    BY <1>2, <2>1, <2>2, ValuesAgree
  <2>4. CASE st.op = "assign"
    <3>1. PICK w \in ValuesOf(st.rhs, t) : t2 = With(t, st.lhs, w)
      BY <2>4 DEF Effect
    <3>2. With(s, st.lhs, w) \in Effect(st, s)
      BY <2>3, <2>4, <3>1 DEF Effect
    <3> QED BY <1>3, <2>2, <3>1, <3>2
  <2>5. CASE st.op = "add1"
    <3>1. \A u : Effect(st, u) = {With(u, st.lhs, w + 1) : w \in {w \in ValuesOf(st.rhs, u) : w + 1 \in Val}}
      BY <2>5 DEF Effect
    <3>2. PICK w \in ValuesOf(st.rhs, t) : w + 1 \in Val /\ t2 = With(t, st.lhs, w + 1)
      BY <3>1
    <3>3. With(s, st.lhs, w + 1) \in Effect(st, s)
      BY <2>3, <3>1, <3>2
    <3> QED BY <1>3, <2>2, <3>2, <3>3
  <2> QED BY <1>4, <2>4, <2>5
<1>5. CASE st.op = "havoc"
  <2>1. DOMAIN st = {"op", "lhs"}
    BY <1>5 DEF StatementFits
  <2>2. Defs(st) = {st.lhs}
    BY <2>1 DEF Defs
  <2>3. \A u : Effect(st, u) = {With(u, st.lhs, w) : w \in Val}
    BY <1>5 DEF Effect
  <2>4. PICK w \in Val : t2 = With(t, st.lhs, w)
    BY <2>3
  <2>5. With(s, st.lhs, w) \in Effect(st, s)
    BY <2>3
  <2> QED BY <1>3, <2>2, <2>4, <2>5
<1>6. CASE st.op = "bool_assign"
  <2>1. DOMAIN st = {"op", "lhs", "cst"} /\ ConstraintFits(job, st.cst)
    BY <1>6 DEF StatementFits
  <2>2. Defs(st) = {st.lhs} /\ Uses(st) = ConstraintVars(st.cst)
    BY <2>1 DEF Defs, Uses
  <2>3. Holds(st.cst, s) <=> Holds(st.cst, t)
    BY <1>2, <2>1, <2>2, HoldsAgree
  <2>4. \A u : Effect(st, u) = {With(u, st.lhs, IF Holds(st.cst, u) THEN 1 ELSE 0)}
    BY <1>6 DEF Effect
  <2>5. PICK w : w = IF Holds(st.cst, t) THEN 1 ELSE 0
    OBVIOUS
  <2>6. w = IF Holds(st.cst, s) THEN 1 ELSE 0
    BY <2>3, <2>5
  <2>7. t2 = With(t, st.lhs, w) /\ With(s, st.lhs, w) \in Effect(st, s)
    BY <2>4, <2>5, <2>6
  <2> QED BY <1>3, <2>2, <2>7
<1>7. CASE st.op \in {"assume", "assert"}
  <2>1. DOMAIN st = {"op", "cst"} /\ ConstraintFits(job, st.cst)
    BY <1>7 DEF StatementFits
  <2>2. Defs(st) = {} /\ Uses(st) = ConstraintVars(st.cst)
    BY <2>1 DEF Defs, Uses
  <2>3. Holds(st.cst, s) <=> Holds(st.cst, t)
    BY <1>2, <2>1, <2>2, HoldsAgree
  <2>4. \A u : Effect(st, u) = IF Holds(st.cst, u) THEN {u} ELSE {}
    BY <1>7 DEF Effect
  <2>5. SameOn(s, t, X)
    BY <2>2 DEF SameOn
  <2> QED BY <2>3, <2>4, <2>5
<1>8. CASE st.op = "unreachable"
  BY <1>8 DEF Effect
<1> QED BY <1>4, <1>5, <1>6, <1>7, <1>8 DEF StatementFits

\* What defines a variable can always be executed.
LEMMA EffectTotal ==
    ASSUME JobFits(job), NEW s \in Stores, NEW st, StatementFits(job, st),
           st.op # "add1", Defs(st) # {}
    PROVE  \E s2 \in Effect(st, s) : \A x \in job.vars : x \notin Defs(st) => s2[x] = s[x]
<1>1. DOMAIN s = job.vars
  BY DEF Stores
<1>2. ASSUME NEW y, Defs(st) = {y}, NEW w
      PROVE  \A x \in job.vars : x \notin Defs(st) => With(s, y, w)[x] = s[x]
  BY <1>1, <1>2 DEF With
<1>3. CASE st.op = "assign"
  <2>1. DOMAIN st = {"op", "lhs", "rhs"} /\ OperandFits(job, st.rhs)
    BY <1>3 DEF StatementFits
  <2>2. Defs(st) = {st.lhs}
    BY <2>1 DEF Defs
  <2>3. ValuesOf(st.rhs, s) # {}
    BY <2>1, ZeroOne DEF OperandFits, ValuesOf
  <2>4. PICK w \in ValuesOf(st.rhs, s) : TRUE
    BY <2>3
  <2>5. With(s, st.lhs, w) \in Effect(st, s)
    BY <1>3 DEF Effect
  <2> QED BY <1>2, <2>2, <2>5
<1>4. CASE st.op = "havoc"
  <2>1. DOMAIN st = {"op", "lhs"}
    BY <1>4 DEF StatementFits
  <2>2. Defs(st) = {st.lhs}
    BY <2>1 DEF Defs
  <2>3. With(s, st.lhs, 0) \in Effect(st, s)
    BY <1>4, ZeroOne DEF Effect
  <2> QED BY <1>2, <2>2, <2>3
<1>5. CASE st.op = "bool_assign"
  <2>1. DOMAIN st = {"op", "lhs", "cst"}
    BY <1>5 DEF StatementFits
  <2>2. Defs(st) = {st.lhs}
    BY <2>1 DEF Defs
  <2>3. PICK w : w = IF Holds(st.cst, s) THEN 1 ELSE 0
    OBVIOUS
  <2>4. With(s, st.lhs, w) \in Effect(st, s)
    BY <1>5, <2>3 DEF Effect
  <2> QED BY <1>2, <2>2, <2>4
<1>6. CASE st.op \in {"assume", "assert", "unreachable"}
  BY <1>6 DEF StatementFits, Defs
<1> QED BY <1>3, <1>4, <1>5, <1>6 DEF StatementFits

LEMMA AbstractLike ==
    ASSUME JobFits(job), NEW S, NEW T, S \subseteq Stores, T \subseteq Stores, NEW X, Like(S, T, X)
    PROVE  Like(Abstract(S), Abstract(T), X)
<1>1. CASE job.relational \/ T = {}
  <2>1. Abstract(T) = T
    BY <1>1 DEF Abstract
  <2>2. S \subseteq Abstract(S)
    BY AbstractCovers
  <2> QED BY <2>1, <2>2 DEF Like
<1>2. CASE ~(job.relational \/ T = {})
  <2>1. S # {}
    BY <1>2 DEF Like
  <2>2. /\ Abstract(S) = {s \in Stores : \A x \in job.vars : \E u \in S : s[x] = u[x]}
        /\ Abstract(T) = {s \in Stores : \A x \in job.vars : \E u \in T : s[x] = u[x]}
    BY <1>2, <2>1 DEF Abstract
  <2> SUFFICES ASSUME NEW t \in Abstract(T)
               PROVE  \E s \in Abstract(S) : SameOn(s, t, X)
    BY DEF Like
  <2>3. PICK u \in S : TRUE
    BY <2>1
  <2>4. PICK s : s = [x \in job.vars |-> IF x \in X THEN t[x] ELSE u[x]]
    OBVIOUS
  <2>5. t \in Stores /\ u \in Stores
    BY <2>2
  <2>6. s \in Stores
    <3>1. t \in [job.vars -> Val] /\ u \in [job.vars -> Val]
          /\ \A x \in job.bools : x \in job.vars /\ t[x] \in {0, 1} /\ u[x] \in {0, 1}
      BY <2>5 DEF Stores, JobFits
    <3>2. s \in [job.vars -> Val]
      BY <2>4, <3>1
    <3>3. \A x \in job.bools : s[x] \in {0, 1}
      BY <2>4, <3>1
    <3> QED BY <3>2, <3>3 DEF Stores
  <2>7. ASSUME NEW x \in job.vars PROVE \E v \in S : s[x] = v[x]
    <3>1. CASE x \notin X
      BY <2>4, <3>1
    <3>2. CASE x \in X
      <4>1. PICK v \in T : t[x] = v[x]
        BY <2>2
      <4>2. PICK v2 \in S : v2[x] = v[x]
        BY <3>2 DEF Like, SameOn
      <4> QED BY <2>4, <3>2, <4>1, <4>2
    <3> QED BY <3>1, <3>2
  <2>8. s \in Abstract(S)
    BY <2>2, <2>6, <2>7
  <2>9. SameOn(s, t, X)
    BY <2>4 DEF SameOn
  <2> QED BY <2>8, <2>9
<1> QED BY <1>1, <1>2

\* A statement that is kept.
LEMMA KeptLike ==
    ASSUME JobFits(job), NEW st, StatementFits(job, st), NEW S, NEW T,
           S \subseteq Stores, T \subseteq Stores, NEW X, Like(S, T, (X \ Defs(st)) \cup Uses(st))
    PROVE  Like(Transform(S, st), Transform(T, st), X)
<1>1. Like(Outcomes(st, S), Outcomes(st, T), X)
  <2> SUFFICES ASSUME NEW t \in T, NEW t2 \in Effect(st, t)
               PROVE  \E s2 \in Outcomes(st, S) : SameOn(s2, t2, X)
    BY DEF Like, Outcomes
  <2>1. PICK s \in S : SameOn(s, t, (X \ Defs(st)) \cup Uses(st))
    BY DEF Like
  <2>2. PICK s2 \in Effect(st, s) : SameOn(s2, t2, X)
    <3>1. s \in Stores /\ t \in Stores
      OBVIOUS
    <3> QED BY <2>1, <3>1, EffectAgrees
  <2>3. s2 \in Outcomes(st, S)
    BY <2>2 DEF Outcomes
  <2> QED BY <2>2, <2>3
<1>2. Outcomes(st, S) \subseteq Stores /\ Outcomes(st, T) \subseteq Stores
  BY OutcomesFit
<1> QED BY <1>1, <1>2, AbstractLike DEF Transform

\* One that is left out: a definition that does not matter, or a test of constants.
LEMMA OmittedLike ==
    ASSUME JobFits(job), NEW st, StatementFits(job, st), st.op # "add1", NEW S, NEW T,
           S \subseteq Stores, T \subseteq Stores, NEW X, Like(S, T, X),
           ~Matters(st, X, FALSE), Transform(S, st) # {}
    PROVE  Like(Transform(S, st), T, X)
<1>1. Outcomes(st, S) \subseteq Stores
  BY OutcomesFit
<1>2. Outcomes(st, S) \subseteq Transform(S, st)
  BY TransformCovers
<1>3. ASSUME NEW s \in S
      PROVE  \E s2 \in Effect(st, s) : SameOn(s2, s, X)
  <2>1. CASE Defs(st) # {}
    <3>1. Defs(st) \cap X = {}
      BY <2>1 DEF Matters
    <3>2. PICK s2 \in Effect(st, s) : \A x \in job.vars : x \notin Defs(st) => s2[x] = s[x]
      BY <2>1, EffectTotal
    <3> QED BY <3>1, <3>2 DEF SameOn
  <2>2. CASE Defs(st) = {}
    <3>1. Uses(st) = {}
      BY <2>2 DEF Matters
    <3>2. PICK s0 \in S : Effect(st, s0) # {}
      <4>1. Outcomes(st, S) # {}
        BY DEF Transform, Abstract
      <4> QED BY <4>1 DEF Outcomes
    <3>3. st.op # "unreachable"
      BY <3>2 DEF Effect
    <3>4. st.op \in {"assume", "assert"} /\ DOMAIN st = {"op", "cst"} /\ ConstraintFits(job, st.cst)
      <4>1. st.op \notin {"assign", "add1", "havoc", "bool_assign"}
        BY <2>2 DEF StatementFits, Defs
      <4> QED BY <3>3, <4>1 DEF StatementFits
    <3>5. ConstraintVars(st.cst) = {}
      BY <3>1, <3>4 DEF Uses
    <3>6. Holds(st.cst, s0) /\ (Holds(st.cst, s) <=> Holds(st.cst, s0))
      <4>1. Holds(st.cst, s0)
        BY <3>2, <3>4 DEF Effect
      <4>2. Holds(st.cst, s) <=> Holds(st.cst, s0)
        BY <3>4, <3>5, HoldsAgree
      <4> QED BY <4>1, <4>2
    <3>7. s \in Effect(st, s)
      BY <3>4, <3>6 DEF Effect
    <3> QED BY <3>7 DEF SameOn
  <2> QED BY <2>1, <2>2
<1> SUFFICES ASSUME NEW t \in T
             PROVE  \E s2 \in Transform(S, st) : SameOn(s2, t, X)
  BY DEF Like
<1>4. PICK s \in S : SameOn(s, t, X)
  BY DEF Like
<1>5. PICK s2 \in Effect(st, s) : SameOn(s2, s, X)
  BY <1>3
<1>6. s2 \in Transform(S, st)
  BY <1>2, <1>5 DEF Outcomes
<1> QED BY <1>4, <1>5, <1>6 DEF SameOn

-----------------------------------------------------------------------------
\* The function that Kept defines.
IsSlicing(f, refs, last, dataOnly, j) ==
    f = [k \in 0..(j - 1) |->
            IF k = 0 THEN [live |-> CriterionVars(StatementAt(last)), keep |-> {j}]
            ELSE SliceStep(refs, dataOnly, f[k - 1], j - k)]

LEMMA SlicingExists ==
    ASSUME NEW refs, NEW last, NEW dataOnly, NEW j \in Nat \ {0}
    PROVE  \E f : IsSlicing(f, refs, last, dataOnly, j)
<1> DEFINE z == [live |-> CriterionVars(StatementAt(last)), keep |-> {j}]
           Is(f, m) == f = [k \in 0..m |-> IF k = 0 THEN z ELSE SliceStep(refs, dataOnly, f[k - 1], j - k)]
           P == {m \in 0..(j - 1) : \E f : Is(f, m)}
<1> HIDE DEF z
<1>1. 0 \in P
  <2>1. PICK f : f = [k \in 0..0 |-> z]
    OBVIOUS
  <2>2. Is(f, 0)
    BY <2>1
  <2> QED BY <2>2
<1>2. ASSUME NEW m \in 1..(j - 1), m - 1 \in P PROVE m \in P
  <2>1. PICK f : Is(f, m - 1)
    BY <1>2
  <2>2. PICK g : g = [k \in 0..m |-> IF k = m THEN SliceStep(refs, dataOnly, f[m - 1], j - m) ELSE f[k]]
    OBVIOUS
  <2>3. ASSUME NEW k \in 0..m
        PROVE  g[k] = IF k = 0 THEN z ELSE SliceStep(refs, dataOnly, g[k - 1], j - k)
    <3>1. CASE k = m
      <4>1. k # 0 /\ g[k] = SliceStep(refs, dataOnly, f[k - 1], j - k)
        BY <2>2, <3>1
      <4>2. k - 1 \in 0..m /\ k - 1 # m
        BY <3>1
      <4>3. g[k - 1] = f[k - 1]
        BY <2>2, <4>2
      <4> QED BY <4>1, <4>3
    <3>2. CASE k # m
      <4>1. k \in 0..(m - 1) /\ g[k] = f[k]
        BY <2>2, <3>2
      <4>2. f[k] = IF k = 0 THEN z ELSE SliceStep(refs, dataOnly, f[k - 1], j - k)
        BY <2>1, <4>1
      <4>3. k # 0 => g[k - 1] = f[k - 1]
        <5>1. k # 0 => k - 1 \in 0..m /\ k - 1 # m
          BY <4>1
        <5> QED BY <2>2, <5>1
      <4> QED BY <4>1, <4>2, <4>3
    <3> QED BY <3>1, <3>2
  <2>4. Is(g, m)
    BY <2>2, <2>3
  <2> QED BY <2>4
<1>3. j - 1 \in P
  <2>1. j - 1 \in Nat /\ j - 1 \in 0..(j - 1)
    OBVIOUS
  <2> HIDE DEF P
  <2>2. \A k \in 0..(j - 1) : k \in P
    BY <1>1, <1>2, <2>1, UpTo
  <2> QED BY <2>1, <2>2
<1> QED BY <1>3 DEF IsSlicing, z

(***************************************************************************)
(* The positions ks, the last among them, are those that matter: live[k]   *)
(* are the variables that matter behind the k-th statement.                *)
(***************************************************************************)
Slices(live, ks, refs, dataOnly) ==
    LET n == Len(refs)
    IN  /\ n \in ks /\ ks \subseteq 1..n
        /\ live[n - 1] = CriterionVars(StatementAt(refs[n]))
        /\ \A k \in 1..(n - 1) :
               LET st == StatementAt(refs[k])
               IN  IF Matters(st, live[k], dataOnly)
                   THEN k \in ks /\ live[k - 1] = (live[k] \ Defs(st)) \cup Uses(st)
                   ELSE k \notin ks /\ live[k - 1] = live[k]

LEMMA KeptSlices ==
    ASSUME NEW refs \in Seq(Refs), refs # <<>>, NEW dataOnly
    PROVE  \E live : Slices(live, Kept(refs, refs[Len(refs)], dataOnly), refs, dataOnly)
<1>1. PICK n \in Nat \ {0} : n = Len(refs) /\ DOMAIN refs = 1..n
  OBVIOUS
<1>2. PICK last : last = refs[n]
  OBVIOUS
<1>3. LastIndex(refs, last) = n
  <2>1. n \in DOMAIN refs /\ refs[n] = last /\ \A k \in DOMAIN refs : k <= n
    BY <1>1, <1>2
  <2>2. \A j \in DOMAIN refs : (\A k \in DOMAIN refs : refs[k] = last => k <= j) => j = n
    <3> SUFFICES ASSUME NEW j \in DOMAIN refs, \A k \in DOMAIN refs : refs[k] = last => k <= j
                 PROVE  j = n
      OBVIOUS
    <3>1. n <= j /\ j <= n
      BY <2>1
    <3> QED BY <1>1, <3>1
  <2> QED BY <2>1, <2>2 DEF LastIndex
<1> DEFINE after == CHOOSE f : IsSlicing(f, refs, last, dataOnly, n)
<1>4. IsSlicing(after, refs, last, dataOnly, n)
  BY SlicingExists
<1>5. Kept(refs, last, dataOnly) = after[n - 1].keep
  BY <1>3 DEF Kept, IsSlicing
<1> HIDE DEF after
<1>6. after[0] = [live |-> CriterionVars(StatementAt(last)), keep |-> {n}]
  BY <1>1, <1>4 DEF IsSlicing
<1>7. \A k \in 1..(n - 1) : after[k] = SliceStep(refs, dataOnly, after[k - 1], n - k)
  <2>1. \A k \in 1..(n - 1) : k \in 0..(n - 1) /\ k # 0
    OBVIOUS
  <2> QED BY <1>4, <2>1 DEF IsSlicing
<1>8. PICK live : live = [k \in 0..(n - 1) |-> after[(n - 1) - k].live]
  OBVIOUS
<1>9. ASSUME NEW k \in 1..(n - 1)
      PROVE  LET st == StatementAt(refs[n - k])
             IN  IF Matters(st, after[k - 1].live, dataOnly)
                 THEN /\ after[k].live = (after[k - 1].live \ Defs(st)) \cup Uses(st)
                      /\ after[k].keep = after[k - 1].keep \cup {n - k}
                 ELSE after[k].live = after[k - 1].live /\ after[k].keep = after[k - 1].keep
  <2>1. PICK acc : acc = after[k - 1]
    OBVIOUS
  <2>2. after[k] = SliceStep(refs, dataOnly, acc, n - k)
    BY <1>7, <2>1
  <2>3. CASE Matters(StatementAt(refs[n - k]), acc.live, dataOnly)
    <3>1. after[k] = [live |-> (acc.live \ Defs(StatementAt(refs[n - k]))) \cup Uses(StatementAt(refs[n - k])),
                      keep |-> acc.keep \cup {n - k}]
      BY <2>2, <2>3 DEF SliceStep
    <3> QED BY <2>1, <2>3, <3>1
  <2>4. CASE ~Matters(StatementAt(refs[n - k]), acc.live, dataOnly)
    <3>1. after[k] = acc
      BY <2>2, <2>4 DEF SliceStep
    <3> QED BY <2>1, <2>4, <3>1
  <2> QED BY <2>3, <2>4
<1> DEFINE mattering(k) ==
               {i \in (n - k)..(n - 1) : Matters(StatementAt(refs[i]), after[(n - 1) - i].live, dataOnly)}
           P == {k \in 0..(n - 1) : after[k].keep = {n} \cup mattering(k)}
<1>10. 0 \in P
  <2>1. mattering(0) = {}
    OBVIOUS
  <2> QED BY <1>6, <2>1
<1>11. ASSUME NEW k \in 1..(n - 1), k - 1 \in P PROVE k \in P
  <2>1. (n - 1) - (n - k) = k - 1
    OBVIOUS
  <2>2. \A i \in Int : i \in (n - k)..(n - 1) <=> (i = n - k \/ i \in (n - (k - 1))..(n - 1))
    OBVIOUS
  <2>3. mattering(k) = IF Matters(StatementAt(refs[n - k]), after[k - 1].live, dataOnly)
                       THEN mattering(k - 1) \cup {n - k} ELSE mattering(k - 1)
    BY <2>1, <2>2
  <2>4. after[k - 1].keep = {n} \cup mattering(k - 1)
    BY <1>11
  <2> HIDE DEF mattering
  <2> QED BY <1>9, <2>3, <2>4
<1>12. after[n - 1].keep = {n} \cup mattering(n - 1)
  <2> HIDE DEF P
  <2>1. n - 1 \in Nat /\ n - 1 \in 0..(n - 1)
    OBVIOUS
  <2>2. \A k \in 0..(n - 1) : k \in P
    BY <1>10, <1>11, <2>1, UpTo
  <2> QED BY <2>1, <2>2 DEF P
<1>13. PICK ks : ks = Kept(refs, last, dataOnly)
  OBVIOUS
<1>14. ks = {n} \cup mattering(n - 1) /\ n - (n - 1) = 1
  BY <1>5, <1>12, <1>13
<1>15. live[n - 1] = CriterionVars(StatementAt(refs[n]))
  BY <1>2, <1>6, <1>8
<1>16. ASSUME NEW k \in 1..(n - 1)
       PROVE  LET st == StatementAt(refs[k])
              IN  IF Matters(st, live[k], dataOnly)
                  THEN k \in ks /\ live[k - 1] = (live[k] \ Defs(st)) \cup Uses(st)
                  ELSE k \notin ks /\ live[k - 1] = live[k]
  <2>1. PICK h \in 1..(n - 1) : h = n - k
    OBVIOUS
  <2>2. /\ n - h = k /\ (n - 1) - k = h - 1 /\ (n - 1) - (k - 1) = h /\ k # n
        /\ k \in 0..(n - 1) /\ k - 1 \in 0..(n - 1)
    BY <2>1
  <2>3. live[k] = after[h - 1].live /\ live[k - 1] = after[h].live
    BY <1>8, <2>2
  <2>4. k \in ks <=> Matters(StatementAt(refs[k]), live[k], dataOnly)
    BY <1>14, <2>2, <2>3
  <2> HIDE DEF mattering
  <2> QED BY <1>9, <2>2, <2>3, <2>4
<1>17. n \in ks /\ ks \subseteq 1..n
  BY <1>14
<1>18. Slices(live, ks, refs, dataOnly)
  BY <1>1, <1>15, <1>16, <1>17 DEF Slices
<1> QED BY <1>1, <1>2, <1>13, <1>18

-----------------------------------------------------------------------------
(***************************************************************************)
(* f[k] is the abstract value behind the k-th statement of refs, in the    *)
(* layer that begins behind the o-th. There is one before the last.        *)
(***************************************************************************)
Passes(f, refs, o) ==
    /\ o \in 0..Len(refs)
    /\ f[o] = Stores
    /\ \A k \in (o + 1)..Len(refs) : f[k] = Transform(f[k - 1], StatementAt(refs[k]))
    /\ \A k \in o..Len(refs) : f[k] \subseteq Stores
    /\ \A k \in o..(Len(refs) - 1) : f[k] # {}

LEMMA FollowsFit ==
    ASSUME JobFits(job), NEW refs \in Seq(Refs), NEW ps, NEW f, Follows(f, refs, ps, Stores)
    PROVE  \A k \in 0..Len(refs) : f[k] \subseteq Stores
<1>1. PICK n \in Nat : n = Len(refs)
  OBVIOUS
<1> DEFINE P == {k \in 0..n : f[k] \subseteq Stores}
<1>2. 0 \in P
  BY DEF Follows
<1>3. ASSUME NEW k \in 1..n, k - 1 \in P PROVE k \in P
  <2>1. f[k] = IF k \in ps THEN Transform(f[k - 1], StatementAt(refs[k])) ELSE f[k - 1]
    BY <1>1 DEF Follows
  <2>2. StatementFits(job, StatementAt(refs[k])) /\ f[k - 1] \subseteq Stores
    BY <1>1, <1>3, RefsFit
  <2>3. Transform(f[k - 1], StatementAt(refs[k])) \subseteq Stores
    BY <2>2, TransformCovers
  <2> QED BY <2>1, <2>2, <2>3
<1> HIDE DEF P
<1>4. \A k \in 0..n : k \in P
  BY <1>2, <1>3, UpTo
<1> QED BY <1>1, <1>4 DEF P

LEMMA SomeStore ==
    ASSUME JobFits(job)
    PROVE  Stores # {}
<1>1. PICK s : s = [x \in job.vars |-> 0]
  OBVIOUS
<1>2. s \in [job.vars -> Val] /\ \A x \in job.bools : s[x] \in {0, 1}
  BY <1>1, ZeroOne DEF JobFits
<1> QED BY <1>2 DEF Stores

\* All statements together: what the earlier layer looked at does no harm.
LEMMA WholeIsBottom ==
    ASSUME JobFits(job), NEW refs \in Seq(Refs), NEW f, NEW o, Passes(f, refs, o),
           f[Len(refs)] = {}
    PROVE  Infer(refs) = {}
<1>1. PICK n \in Nat : n = Len(refs)
  OBVIOUS
<1>2. PICK g : Infer(refs) = g[n] /\ Follows(g, refs, 1..n, Stores)
  BY <1>1, InferSteps
<1>3. \A k \in 0..n : g[k] \subseteq Stores
  BY <1>1, <1>2, FollowsFit
<1> DEFINE P == {k \in 0..n : k >= o => g[k] \subseteq f[k]}
<1>4. 0 \in P
  BY <1>1, <1>2 DEF Passes, Follows
<1>5. ASSUME NEW k \in 1..n, k - 1 \in P PROVE k \in P
  <2>1. CASE k <= o
    <3>1. k >= o => k = o
      BY <1>1, <2>1 DEF Passes
    <3>2. g[k] \subseteq Stores
      BY <1>3
    <3> QED BY <3>1, <3>2 DEF Passes
  <2>2. CASE k > o
    <3>1. k \in (o + 1)..Len(refs) /\ k - 1 >= o /\ k - 1 \in o..Len(refs)
      BY <1>1, <2>2 DEF Passes
    <3>2. f[k] = Transform(f[k - 1], StatementAt(refs[k])) /\ f[k - 1] \subseteq Stores
      BY <3>1 DEF Passes
    <3>3. g[k] = Transform(g[k - 1], StatementAt(refs[k])) /\ g[k - 1] \subseteq f[k - 1]
      BY <1>1, <1>2, <1>5, <3>1 DEF Follows
    <3>4. StatementFits(job, StatementAt(refs[k]))
      BY <1>1, RefsFit
    <3>5. Transform(g[k - 1], StatementAt(refs[k])) \subseteq Transform(f[k - 1], StatementAt(refs[k]))
      BY <3>2, <3>3, <3>4, TransformMonotone
    <3> QED BY <3>2, <3>3, <3>5
  <2> QED BY <1>1, <2>1, <2>2 DEF Passes
<1> HIDE DEF P
<1>6. \A k \in 0..n : k \in P
  BY <1>4, <1>5, UpTo
<1>7. n >= o
  BY <1>1 DEF Passes
<1> QED BY <1>1, <1>2, <1>6, <1>7 DEF P

\* The slice with control dependencies, of what ends with a test; what is
\* left of the earlier layer does not matter.
LEMMA SliceIsBottom ==
    ASSUME JobFits(job), NEW refs \in Seq(Refs), NEW f, NEW o, Passes(f, refs, o),
           f[Len(refs)] = {},
           \A k \in 1..Len(refs) : StatementAt(refs[k]).op # "add1",
           CriterionVars(StatementAt(refs[Len(refs)])) # {},
           NEW ps, ps \subseteq DOMAIN refs,
           \A k \in (o + 1)..Len(refs) : k \in ps <=> k \in Kept(refs, refs[Len(refs)], FALSE)
    PROVE  Infer(Pick(refs, ps)) = {}
<1>1. PICK n \in Nat : n = Len(refs)
  OBVIOUS
<1>2. o \in 0..(n - 1) /\ o \in Nat
  <2>1. o # n
    BY <1>1, SomeStore DEF Passes
  <2> QED BY <1>1, <2>1 DEF Passes
<1>3. PICK ks : ks = Kept(refs, refs[n], FALSE)
  OBVIOUS
<1>4. PICK live : Slices(live, ks, refs, FALSE)
  <2>1. refs # <<>>
    BY <1>1, <1>2
  <2> QED BY <1>1, <1>3, <2>1, KeptSlices
<1>5. n \in ks /\ ks \subseteq DOMAIN refs /\ live[n - 1] = CriterionVars(StatementAt(refs[n]))
  BY <1>1, <1>4 DEF Slices
<1>6. PICK g : Follows(g, refs, ps, Stores) /\ Infer(Pick(refs, ps)) = g[n]
  BY <1>1, <1>5, InferPicked
<1>7. \A k \in 0..n : g[k] \subseteq Stores
  BY <1>1, <1>6, FollowsFit
<1> DEFINE P == {k \in 0..(n - 1) : k >= o => Like(f[k], g[k], live[k])}
<1>8. \A k \in 0..n : k = o => Like(f[k], g[k], live[k])
  <2> SUFFICES ASSUME NEW k \in 0..n, k = o, NEW t \in g[k]
               PROVE  \E s \in f[k] : SameOn(s, t, live[k])
    BY DEF Like
  <2>1. t \in f[k]
    BY <1>7 DEF Passes
  <2> QED BY <2>1 DEF SameOn
<1>9. 0 \in P
  BY <1>2, <1>8
<1>10. ASSUME NEW k \in 1..(n - 1), k - 1 \in P PROVE k \in P
  <2>1. CASE k <= o
    BY <1>2, <1>8, <2>1
  <2>2. CASE k > o
    <3>1. k \in (o + 1)..n /\ k - 1 >= o /\ k - 1 \in o..n /\ k \in o..(n - 1) /\ k \in 1..n /\ k - 1 \in 0..n
      BY <1>2, <2>2
    <3>2. PICK st : st = StatementAt(refs[k])
      OBVIOUS
    <3>3. f[k] = Transform(f[k - 1], st) /\ f[k - 1] \subseteq Stores /\ f[k] # {}
      BY <1>1, <3>1, <3>2 DEF Passes
    <3>4. g[k] = (IF k \in ks THEN Transform(g[k - 1], st) ELSE g[k - 1]) /\ g[k - 1] \subseteq Stores
      <4>1. k \in ps <=> k \in ks
        BY <1>1, <1>3, <3>1
      <4>2. g[k] = IF k \in ps THEN Transform(g[k - 1], st) ELSE g[k - 1]
        BY <1>1, <1>6, <3>1, <3>2 DEF Follows
      <4> QED BY <1>7, <3>1, <4>1, <4>2
    <3>5. Like(f[k - 1], g[k - 1], live[k - 1])
      BY <1>10, <3>1
    <3>6. StatementFits(job, st) /\ st.op # "add1"
      BY <1>1, <3>1, <3>2, RefsFit
    <3>7. IF Matters(st, live[k], FALSE)
          THEN k \in ks /\ live[k - 1] = (live[k] \ Defs(st)) \cup Uses(st)
          ELSE k \notin ks /\ live[k - 1] = live[k]
      BY <1>1, <1>4, <3>2 DEF Slices
    <3>8. CASE Matters(st, live[k], FALSE)
      <4>1. g[k] = Transform(g[k - 1], st) /\ Like(f[k - 1], g[k - 1], (live[k] \ Defs(st)) \cup Uses(st))
        BY <3>4, <3>5, <3>7, <3>8
      <4>2. Like(Transform(f[k - 1], st), Transform(g[k - 1], st), live[k])
        BY <3>3, <3>4, <3>6, <4>1, KeptLike
      <4> QED BY <3>3, <4>1, <4>2
    <3>9. CASE ~Matters(st, live[k], FALSE)
      <4>1. g[k] = g[k - 1] /\ Like(f[k - 1], g[k - 1], live[k])
        BY <3>4, <3>5, <3>7, <3>9
      <4>2. Like(Transform(f[k - 1], st), g[k - 1], live[k])
        BY <3>3, <3>4, <3>6, <3>9, <4>1, OmittedLike
      <4> QED BY <3>3, <4>1, <4>2
    <3> QED BY <3>8, <3>9
  <2> QED BY <1>2, <2>1, <2>2
<1>11. Like(f[n - 1], g[n - 1], live[n - 1])
  <2> HIDE DEF P
  <2>1. n - 1 \in Nat /\ n - 1 \in 0..(n - 1) /\ n - 1 >= o
    BY <1>2
  <2>2. \A k \in 0..(n - 1) : k \in P
    BY <1>9, <1>10, <2>1, UpTo
  <2> QED BY <2>1, <2>2 DEF P
<1>12. PICK st : st = StatementAt(refs[n])
  OBVIOUS
<1>13. /\ n \in 1..n /\ n \in (o + 1)..n /\ n - 1 \in o..n /\ n - 1 \in 0..n
  BY <1>2
<1>14. /\ StatementFits(job, st) /\ st.op \in {"assume", "assert"} /\ live[n - 1] = CriterionVars(st)
       /\ CriterionVars(st) = ConstraintVars(st.cst)
  BY <1>1, <1>5, <1>12, <1>13, RefsFit DEF CriterionVars
<1>15. DOMAIN st = {"op", "cst"} /\ ConstraintFits(job, st.cst)
  BY <1>14 DEF StatementFits
<1>16. (live[n - 1] \ Defs(st)) \cup Uses(st) = live[n - 1]
  BY <1>14, <1>15 DEF Defs, Uses
<1>17. Transform(f[n - 1], st) = {} /\ f[n - 1] \subseteq Stores
  BY <1>1, <1>12, <1>13 DEF Passes
<1>18. g[n] = Transform(g[n - 1], st) /\ g[n - 1] \subseteq Stores
  <2>1. n \in ps
    BY <1>1, <1>3, <1>5, <1>13
  <2> QED BY <1>1, <1>6, <1>7, <1>12, <1>13, <2>1 DEF Follows
<1>19. Like(Transform(f[n - 1], st), Transform(g[n - 1], st), live[n - 1])
  BY <1>11, <1>14, <1>16, <1>17, <1>18, KeptLike
<1>20. Transform(g[n - 1], st) = {}
  BY <1>17, <1>19 DEF Like
<1> QED BY <1>6, <1>18, <1>20

-----------------------------------------------------------------------------
(* The order of the path *)

\* The statement stands before the i-th one of the k-th block.
Comes(ref, k, i) ==
    \E q \in DOMAIN job.path, m \in Nat :
        ref = <<job.path[q], m>> /\ (q < k \/ (q = k /\ m < i))

\* What follows the o-th statement of refs is in the order of the path.
Ordered(refs, o) ==
    \A l \in (o + 1)..Len(refs) : \A k \in (o + 1)..(l - 1) : Precedes(refs[k], refs[l])

LEMMA PrecedesIs ==
    ASSUME IsPath(job), NEW p \in DOMAIN job.path, NEW q \in DOMAIN job.path, NEW m, NEW i
    PROVE  Precedes(<<job.path[p], m>>, <<job.path[q], i>>) <=> (p < q \/ (p = q /\ m < i))
<1>1. \A k \in DOMAIN job.path : (CHOOSE l \in DOMAIN job.path : job.path[l] = job.path[k]) = k
  BY DEF IsPath
<1>2. PICK r1 : r1 = <<job.path[p], m>>
  OBVIOUS
<1>3. PICK r2 : r2 = <<job.path[q], i>>
  OBVIOUS
<1>4. r1[1] = job.path[p] /\ r1[2] = m /\ r2[1] = job.path[q] /\ r2[2] = i
  BY <1>2, <1>3
<1>5. (CHOOSE k \in DOMAIN job.path : job.path[k] = r1[1]) = p
      /\ (CHOOSE k \in DOMAIN job.path : job.path[k] = r2[1]) = q
  BY <1>1, <1>4
<1>6. Precedes(r1, r2) <=> (p < q \/ (p = q /\ m < i))
  BY <1>4, <1>5 DEF Precedes
<1> QED BY <1>2, <1>3, <1>6

LEMMA ComesPrecedes ==
    ASSUME IsPath(job), NEW ref, NEW k \in DOMAIN job.path, NEW i, Comes(ref, k, i)
    PROVE  Precedes(ref, <<job.path[k], i>>)
<1>1. PICK q \in DOMAIN job.path : \E m \in Nat :
          ref = <<job.path[q], m>> /\ (q < k \/ (q = k /\ m < i))
  BY DEF Comes
<1>2. PICK m \in Nat : ref = <<job.path[q], m>> /\ (q < k \/ (q = k /\ m < i))
  BY <1>1
<1> QED BY <1>2, PrecedesIs

LEMMA RefIs ==
    ASSUME JobFits(job), NEW ref \in Refs
    PROVE  \E q \in DOMAIN job.path, m \in Nat :
               ref = <<job.path[q], m>> /\ m \in DOMAIN job.code[job.path[q]]
<1>1. PICK b \in ToSet(job.path) : ref \in {<<b, i>> : i \in DOMAIN job.code[b]}
  BY DEF Refs
<1>2. PICK i \in DOMAIN job.code[b] : ref = <<b, i>>
  BY <1>1
<1>3. PICK q \in DOMAIN job.path : b = job.path[q]
  BY DEF ToSet
<1>4. i \in Nat
  BY <1>2, <1>3, CodeFits DEF JobFits
<1> QED BY <1>2, <1>3, <1>4

\* What is left of a list in order is in order.
LEMMA PickOrdered ==
    ASSUME NEW refs \in Seq(Refs), Ordered(refs, 0), NEW ps, ps \subseteq DOMAIN refs
    PROVE  Ordered(Pick(refs, ps), 0)
<1>1. PICK n \in Nat : n = Len(refs)
  OBVIOUS
<1>2. IsList(refs, n) /\ ps \subseteq 1..n
  BY <1>1, SeqIsList
<1>3. PICK at, m, c : Selects(c, refs, ps, at, m) /\ c = Pick(refs, ps)
  BY <1>2, PickSelects
<1>4. /\ m \in Nat /\ IsList(c, m) /\ at \in [1..m -> ps]
      /\ \A k, l \in 1..m : k < l => at[k] < at[l]
      /\ \A k \in 1..m : c[k] = refs[at[k]]
  BY <1>3 DEF Selects
<1>5. Len(c) = m
  <2>1. c = [k \in 1..m |-> c[k]]
    BY <1>4 DEF IsList
  <2> QED BY <1>4, <2>1
<1>6. ASSUME NEW l \in 1..m, NEW k \in 1..(l - 1)
      PROVE  Precedes(c[k], c[l])
  <2>1. k \in 1..m /\ k < l
    BY <1>4
  <2>2. at[k] \in 1..n /\ at[l] \in 1..n
    BY <1>2, <1>4, <2>1
  <2>3. at[k] < at[l]
    BY <1>4, <2>1
  <2>4. at[l] \in (0 + 1)..Len(refs) /\ at[k] \in (0 + 1)..(at[l] - 1)
    BY <1>1, <2>2, <2>3
  <2>5. Precedes(refs[at[k]], refs[at[l]])
    BY <2>4 DEF Ordered
  <2> QED BY <1>4, <2>1, <2>5
<1>7. Ordered(c, 0)
  BY <1>5, <1>6 DEF Ordered
<1> QED BY <1>3, <1>7

\* Every statement of a layer is new if the job defines each variable once.
LEMMA OrderedFresh ==
    ASSUME JobFits(job), IsPath(job), DefinedOnce(job), NEW refs \in Seq(Refs), NEW o \in Nat,
           Ordered(refs, o)
    PROVE  Fresh(refs, (o + 1)..Len(refs))
<1> SUFFICES ASSUME NEW l \in (o + 1)..Len(refs), NEW k \in (o + 1)..Len(refs), k < l
             PROVE  Defs(StatementAt(refs[l])) \cap
                        (Defs(StatementAt(refs[k])) \cup Uses(StatementAt(refs[k]))) = {}
  BY DEF Fresh
<1>1. k \in 1..Len(refs) /\ l \in 1..Len(refs) /\ k \in (o + 1)..(l - 1)
  OBVIOUS
<1>2. Precedes(refs[k], refs[l])
  BY <1>1 DEF Ordered
<1>3. refs[k] \in Refs /\ refs[l] \in Refs
  BY <1>1
<1>4. PICK p \in DOMAIN job.path : \E m \in Nat :
          refs[k] = <<job.path[p], m>> /\ m \in DOMAIN job.code[job.path[p]]
  BY <1>3, RefIs
<1>5. PICK m \in Nat : refs[k] = <<job.path[p], m>> /\ m \in DOMAIN job.code[job.path[p]]
  BY <1>4
<1>6. PICK q \in DOMAIN job.path : \E i \in Nat :
          refs[l] = <<job.path[q], i>> /\ i \in DOMAIN job.code[job.path[q]]
  BY <1>3, RefIs
<1>7. PICK i \in Nat : refs[l] = <<job.path[q], i>> /\ i \in DOMAIN job.code[job.path[q]]
  BY <1>6
<1>8. p < q \/ (p = q /\ m < i)
  BY <1>2, <1>5, <1>7, PrecedesIs
<1>9. p \in 1..q /\ (p < q \/ m < i)
  <2>1. p \in Nat \ {0} /\ q \in Nat
    BY DEF JobFits
  <2> QED BY <1>8, <2>1
<1>10. DefinesNew(job, q, i)
  BY <1>7 DEF DefinedOnce
<1>11. Defs(job.code[job.path[q]][i]) \cap
           (Defs(job.code[job.path[p]][m]) \cup Uses(job.code[job.path[p]][m])) = {}
  BY <1>5, <1>9, <1>10 DEF DefinesNew
<1> QED BY <1>5, <1>7, <1>11 DEF StatementAt

-----------------------------------------------------------------------------
(* How the statements are collected *)

\* Those before the i-th statement of block b, in the layer that begins
\* behind the o-th.
Collects(f, refs, o, b, i) ==
    /\ Passes(f, refs, o) /\ Ordered(refs, o)
    /\ f[Len(refs)] # {}
    /\ \A k \in (o + 1)..Len(refs) : Comes(refs[k], b, i)

\* All of them; the last one, which is the i-th of block b, was too much.
Collected(f, refs, o, b, i) ==
    /\ Passes(f, refs, o) /\ Ordered(refs, o)
    /\ refs # <<>> /\ f[Len(refs)] = {} /\ refs[Len(refs)] = <<job.path[b], i>>

LEMMA CollectsNothing ==
    ASSUME JobFits(job), NEW refs \in Seq(Refs), NEW b, NEW i
    PROVE  \E f : Collects(f, refs, Len(refs), b, i) /\ f[Len(refs)] = Stores
<1>1. PICK n \in Nat : n = Len(refs)
  OBVIOUS
<1>2. PICK f : f = [k \in {n} |-> Stores]
  OBVIOUS
<1>3. f[n] = Stores
  BY <1>2
<1>4. \A k : k \notin (n + 1)..n /\ k \notin n..(n - 1) /\ (k \in n..n => k = n)
  BY <1>1
<1>5. Passes(f, refs, n)
  BY <1>1, <1>3, <1>4 DEF Passes
<1>6. Ordered(refs, n)
  BY <1>1, <1>4 DEF Ordered
<1>7. Collects(f, refs, n, b, i)
  BY <1>1, <1>3, <1>4, <1>5, <1>6, SomeStore DEF Collects
<1> QED BY <1>1, <1>3, <1>7

Place(ref, b, i) == ref = <<job.path[b], i>>
Ends(f, refs, S) == f[Len(refs)] = S

LEMMA PassesMore ==
    ASSUME NEW refs \in Seq(Refs), NEW ref \in Refs, NEW f, NEW o, Passes(f, refs, o),
           NEW R, Ends(f, refs, R), R # {}, NEW S, S = Transform(R, StatementAt(ref)),
           S \subseteq Stores
    PROVE  \E g : Passes(g, Append(refs, ref), o) /\ g[Len(refs) + 1] = S
<1>1. PICK n \in Nat : n = Len(refs) /\ f[n] = R
  BY DEF Ends
<1>2. PICK more : more = Append(refs, ref)
  OBVIOUS
<1>3. Len(more) = n + 1 /\ more[n + 1] = ref /\ \A k \in 1..n : more[k] = refs[k]
  BY <1>1, <1>2
<1>4. o \in 0..n
  BY <1>1 DEF Passes
<1>5. PICK g : g = [k \in 0..(n + 1) |-> IF k = n + 1 THEN S ELSE f[k]]
  OBVIOUS
<1>6. g[n + 1] = S /\ \A k \in 0..n : g[k] = f[k]
  BY <1>1, <1>5
<1>7. g[o] = Stores /\ o \in 0..(n + 1)
  BY <1>4, <1>6 DEF Passes
<1>8. ASSUME NEW k \in (o + 1)..(n + 1)
      PROVE  g[k] = Transform(g[k - 1], StatementAt(more[k]))
  <2>1. CASE k = n + 1
    <3>1. k - 1 = n /\ n \in 0..n
      BY <2>1
    <3> QED BY <1>1, <1>3, <1>6, <2>1, <3>1
  <2>2. CASE k # n + 1
    <3>1. k \in (o + 1)..n /\ k \in 0..n /\ k - 1 \in 0..n /\ k \in 1..n
      BY <1>4, <2>2
    <3>2. f[k] = Transform(f[k - 1], StatementAt(refs[k]))
      BY <1>1, <3>1 DEF Passes
    <3> QED BY <1>3, <1>6, <3>1, <3>2
  <2> QED BY <2>1, <2>2
<1>9. ASSUME NEW k \in o..(n + 1) PROVE g[k] \subseteq Stores
  <2>1. CASE k = n + 1
    BY <1>6, <2>1
  <2>2. CASE k # n + 1
    <3>1. k \in o..n /\ k \in 0..n
      BY <1>4, <2>2
    <3> QED BY <1>1, <1>6, <3>1 DEF Passes
  <2> QED BY <2>1, <2>2
<1>10. ASSUME NEW k \in o..n PROVE g[k] # {}
  <2>1. k \in 0..n
    BY <1>4
  <2>2. CASE k = n
    BY <1>1, <1>6, <2>1, <2>2
  <2>3. CASE k # n
    <3>1. k \in o..(n - 1)
      BY <1>4, <2>3
    <3> QED BY <1>1, <1>6, <2>1, <3>1 DEF Passes
  <2> QED BY <2>2, <2>3
<1>11. (n + 1) - 1 = n
  OBVIOUS
<1>12. Passes(g, more, o)
  BY <1>3, <1>7, <1>8, <1>9, <1>10, <1>11 DEF Passes
<1> QED BY <1>1, <1>2, <1>6, <1>12

LEMMA CollectsMore ==
    ASSUME JobFits(job), IsPath(job), NEW refs \in Seq(Refs), NEW f, NEW o,
           NEW b \in DOMAIN job.path, NEW i \in Nat,
           Collects(f, refs, o, b, i), NEW ref \in Refs, Place(ref, b, i),
           NEW R, Ends(f, refs, R), NEW S, S = Transform(R, StatementAt(ref))
    PROVE  \E g : /\ Ends(g, Append(refs, ref), S)
                  /\ S # {} => Collects(g, Append(refs, ref), o, b, i + 1)
                  /\ S = {} => Collected(g, Append(refs, ref), o, b, i)
<1>1. ref = <<job.path[b], i>> /\ S = Transform(f[Len(refs)], StatementAt(ref))
  BY DEF Place, Ends
<1>2. PICK n \in Nat : n = Len(refs)
  OBVIOUS
<1>3. PICK more : more = Append(refs, ref)
  OBVIOUS
<1>4. /\ Len(more) = n + 1 /\ more[n + 1] = ref /\ \A k \in 1..n : more[k] = refs[k]
      /\ more # <<>> /\ n + 1 = Len(more)
  BY <1>2, <1>3
<1>5. Passes(f, refs, o) /\ o \in 0..n /\ f[Len(refs)] # {} /\ f[n] \subseteq Stores
  BY <1>2 DEF Collects, Passes
<1>6. S \subseteq Stores
  BY <1>1, <1>2, <1>5, RefsFit, TransformCovers
<1>7. PICK g : Passes(g, more, o) /\ g[n + 1] = S
  <2>1. \E g : Passes(g, Append(refs, ref), o) /\ g[Len(refs) + 1] = S
    <3>1. R # {}
      BY <1>5 DEF Ends
    <3> QED BY <1>5, <1>6, <3>1, PassesMore
  <2> QED BY <1>2, <1>3, <2>1
<1>8. Ordered(more, o)
  <2> SUFFICES ASSUME NEW l \in (o + 1)..(n + 1), NEW k \in (o + 1)..(l - 1)
               PROVE  Precedes(more[k], more[l])
    BY <1>4 DEF Ordered
  <2>1. k \in 1..n /\ k \in (o + 1)..n
    BY <1>5
  <2>2. CASE l = n + 1
    <3>1. Comes(refs[k], b, i)
      BY <1>2, <2>1 DEF Collects
    <3>2. Precedes(refs[k], ref)
      BY <1>1, <3>1, ComesPrecedes
    <3> QED BY <1>4, <2>1, <2>2, <3>2
  <2>3. CASE l # n + 1
    <3>1. l \in (o + 1)..n /\ l \in 1..n
      BY <1>5, <2>3
    <3>2. Precedes(refs[k], refs[l])
      BY <1>2, <3>1 DEF Collects, Ordered
    <3> QED BY <1>4, <2>1, <3>1, <3>2
  <2> QED BY <2>2, <2>3
<1>9. ASSUME NEW k \in (o + 1)..(n + 1) PROVE Comes(more[k], b, i + 1)
  <2>1. CASE k = n + 1
    BY <1>1, <1>4, <2>1 DEF Comes
  <2>2. CASE k # n + 1
    <3>1. k \in (o + 1)..n /\ k \in 1..n
      BY <1>5, <2>2
    <3>2. Comes(refs[k], b, i)
      BY <1>2, <3>1 DEF Collects
    <3>3. PICK q \in DOMAIN job.path : \E m \in Nat :
              refs[k] = <<job.path[q], m>> /\ (q < b \/ (q = b /\ m < i))
      BY <3>2 DEF Comes
    <3>4. PICK m \in Nat : refs[k] = <<job.path[q], m>> /\ (q < b \/ (q = b /\ m < i))
      BY <3>3
    <3>5. m < i => m < i + 1
      OBVIOUS
    <3> QED BY <1>4, <3>1, <3>4, <3>5 DEF Comes
  <2> QED BY <2>1, <2>2
<1>10. S # {} => Collects(g, more, o, b, i + 1)
  BY <1>4, <1>7, <1>8, <1>9 DEF Collects
<1>11. S = {} => Collected(g, more, o, b, i)
  BY <1>1, <1>4, <1>7, <1>8 DEF Collected
<1> QED BY <1>3, <1>4, <1>7, <1>10, <1>11 DEF Ends

\* The position moves on.
LEMMA CollectsLater ==
    ASSUME JobFits(job), NEW refs, NEW f, NEW o, NEW b \in Nat, NEW i, NEW c \in Nat, NEW j \in Nat,
           Collects(f, refs, o, b, i), (c = b /\ i \in Nat /\ j = i + 1) \/ c = b + 1
    PROVE  Collects(f, refs, o, c, j)
<1>1. ASSUME NEW ref, Comes(ref, b, i) PROVE Comes(ref, c, j)
  <2>1. PICK q \in DOMAIN job.path : \E m \in Nat :
            ref = <<job.path[q], m>> /\ (q < b \/ (q = b /\ m < i))
    BY <1>1 DEF Comes
  <2>2. PICK m \in Nat : ref = <<job.path[q], m>> /\ (q < b \/ (q = b /\ m < i))
    BY <2>1
  <2>3. q \in Nat
    BY DEF JobFits
  <2>4. q < c \/ (q = c /\ m < j)
    BY <2>2, <2>3
  <2> QED BY <2>2, <2>4 DEF Comes
<1> QED BY <1>1 DEF Collects

-----------------------------------------------------------------------------
(* Statements that are picked from picked ones *)

LEMMA LengthOfList ==
    ASSUME NEW c, NEW n \in Nat, IsList(c, n)
    PROVE  Len(c) = n /\ DOMAIN c = 1..n
<1>1. c = [k \in 1..n |-> c[k]]
  BY DEF IsList
<1> QED BY <1>1

Targets(at, T) == {at[k] : k \in T}
Within(ps, n) == ps \subseteq 1..n
Behind(ps, o, n) == ps \cap (o + 1)..n

LEMMA PickPick ==
    ASSUME NEW refs, NEW n \in Nat, IsList(refs, n), NEW ps, Within(ps, n),
           NEW c, NEW at, NEW m, Selects(c, refs, ps, at, m), NEW T, Within(T, m)
    PROVE  Pick(c, T) = Pick(refs, Targets(at, T))
<1>1. ps \subseteq 1..n /\ T \subseteq 1..m
  BY DEF Within
<1>2. /\ m \in Nat /\ IsList(c, m) /\ at \in [1..m -> ps]
      /\ \A k, l \in 1..m : k < l => at[k] < at[l]
      /\ \A k \in 1..m : c[k] = refs[at[k]]
  BY DEF Selects
<1>3. PICK of, i, d : Selects(d, c, T, of, i) /\ d = Pick(c, T)
  BY <1>1, <1>2, PickSelects
<1>4. /\ i \in Nat /\ IsList(d, i) /\ of \in [1..i -> T]
      /\ \A j \in T : \E k \in 1..i : of[k] = j
      /\ \A k, l \in 1..i : k < l => of[k] < of[l]
      /\ \A k \in 1..i : d[k] = c[of[k]]
  BY <1>3 DEF Selects
<1>5. PICK S : S = Targets(at, T) /\ S = {at[k] : k \in T}
  BY DEF Targets
<1>6. PICK to : to = [k \in 1..i |-> at[of[k]]]
  OBVIOUS
<1>7. S \subseteq 1..n
  BY <1>1, <1>2, <1>5
<1>8. to \in [1..i -> S]
  BY <1>4, <1>5, <1>6
<1>9. ASSUME NEW j \in S PROVE \E k \in 1..i : to[k] = j
  <2>1. PICK l \in T : j = at[l]
    BY <1>5
  <2>2. PICK k \in 1..i : of[k] = l
    BY <1>4
  <2> QED BY <1>6, <2>1, <2>2
<1>10. ASSUME NEW k \in 1..i, NEW l \in 1..i, k < l PROVE to[k] < to[l]
  <2>1. of[k] \in 1..m /\ of[l] \in 1..m /\ of[k] < of[l]
    BY <1>1, <1>4, <1>10
  <2>2. at[of[k]] < at[of[l]]
    BY <1>2, <2>1
  <2> QED BY <1>6, <2>2
<1>11. ASSUME NEW k \in 1..i PROVE d[k] = refs[to[k]]
  <2>1. of[k] \in 1..m
    BY <1>1, <1>4
  <2> QED BY <1>2, <1>4, <1>6, <2>1
<1>12. Selects(d, refs, S, to, i)
  BY <1>4, <1>8, <1>9, <1>10, <1>11 DEF Selects
<1>13. d = Pick(refs, S)
  BY <1>7, <1>12, SelectsUnique
<1> QED BY <1>3, <1>5, <1>13

\* Where the positions behind the o-th begin in the list of the picked ones.
LEMMA PickedTail ==
    ASSUME NEW refs, NEW n \in Nat, NEW ps, Within(ps, n),
           NEW c, NEW at, NEW m, Selects(c, refs, ps, at, m), NEW o \in Nat
    PROVE  \E t \in 0..m : Targets(at, (t + 1)..m) = Behind(ps, o, n)
<1>1. ps \subseteq 1..n
  BY DEF Within
<1>2. /\ m \in Nat /\ at \in [1..m -> ps]
      /\ \A j \in ps : \E k \in 1..m : at[k] = j
      /\ \A k, l \in 1..m : k < l => at[k] < at[l]
  BY DEF Selects
<1> DEFINE B == {k \in 1..(m + 1) : k = m + 1 \/ at[k] > o}
<1>3. B \subseteq Nat /\ m + 1 \in B
  BY <1>2
<1>4. PICK s \in B : \A k \in B : s <= k
  <2>1. B # {}
    BY <1>3
  <2> QED BY <1>3, <2>1, Smallest
<1>5. PICK t : t = s - 1
  OBVIOUS
<1>6. t \in 0..m /\ t + 1 = s /\ s \in 1..(m + 1)
  BY <1>2, <1>3, <1>4, <1>5
<1>7. ASSUME NEW k \in (t + 1)..m PROVE k \in 1..m /\ at[k] > o
  <2>1. k \in 1..m /\ s \in 1..m
    BY <1>2, <1>6
  <2>2. at[s] > o
    BY <1>2, <1>4, <2>1
  <2>3. at[s] \in Int /\ at[k] \in Int
    <3>1. at[s] \in ps /\ at[k] \in ps
      BY <1>2, <2>1
    <3>2. \A j \in ps : j \in Int
      BY <1>1
    <3> QED BY <3>1, <3>2
  <2>4. s = k \/ at[s] < at[k]
    <3>1. s = k \/ s < k
      BY <1>2, <1>6, <2>1
    <3> QED BY <1>2, <2>1, <3>1
  <2> QED BY <2>1, <2>2, <2>3, <2>4
<1>8. ASSUME NEW j \in ps, j > o PROVE \E k \in (t + 1)..m : j = at[k]
  <2>1. PICK k \in 1..m : at[k] = j
    BY <1>2
  <2>2. k \in B
    BY <1>2, <1>8, <2>1
  <2>3. s <= k
    BY <1>4, <2>2
  <2>4. k \in (t + 1)..m
    BY <1>2, <1>6, <2>1, <2>3
  <2> QED BY <2>1, <2>4
<1>9. \A j \in ps : j \in (o + 1)..n <=> j > o
  BY <1>1
<1>10. \A k \in (t + 1)..m : at[k] \in ps \cap (o + 1)..n
  <2> TAKE k \in (t + 1)..m
  <2>1. k \in 1..m /\ at[k] > o
    BY <1>7
  <2>2. at[k] \in ps
    BY <1>2, <2>1
  <2> QED BY <1>9, <2>1, <2>2
<1>11. Targets(at, (t + 1)..m) = Behind(ps, o, n)
  BY <1>8, <1>9, <1>10 DEF Targets, Behind
<1> QED BY <1>6, <1>11

LEMMA FreshPicked ==
    ASSUME NEW refs, NEW ps, NEW c, NEW at, NEW m, Selects(c, refs, ps, at, m),
           NEW T, Within(T, m), Fresh(refs, Targets(at, T))
    PROVE  Fresh(c, T)
<1>1. /\ at \in [1..m -> ps]
      /\ \A k, l \in 1..m : k < l => at[k] < at[l]
      /\ \A k \in 1..m : c[k] = refs[at[k]]
  BY DEF Selects
<1> SUFFICES ASSUME NEW k \in T, NEW l \in T, l < k
             PROVE  Defs(StatementAt(c[k])) \cap (Defs(StatementAt(c[l])) \cup Uses(StatementAt(c[l]))) = {}
  BY DEF Fresh
<1>2. at[l] < at[k] /\ c[k] = refs[at[k]] /\ c[l] = refs[at[l]]
  BY <1>1 DEF Within
<1>3. at[k] \in Targets(at, T) /\ at[l] \in Targets(at, T)
  BY DEF Targets
<1>4. Defs(StatementAt(refs[at[k]])) \cap (Defs(StatementAt(refs[at[l]])) \cup Uses(StatementAt(refs[at[l]]))) = {}
  BY <1>2, <1>3 DEF Fresh
<1> QED BY <1>2, <1>4

-----------------------------------------------------------------------------
(* What comes first can be left out if the rest is bottom. *)

LEMMA RestIsBottom ==
    ASSUME JobFits(job), NEW refs \in Seq(Refs), NEW ps, NEW qs, qs \subseteq ps,
           ps \subseteq DOMAIN refs,
           \A k \in ps \ qs, l \in qs : k < l
    PROVE  Infer(Pick(refs, ps)) \subseteq Infer(Pick(refs, qs))
<1>1. PICK n \in Nat : n = Len(refs)
  OBVIOUS
<1>2. PICK f : Follows(f, refs, ps, Stores) /\ Infer(Pick(refs, ps)) = f[n]
  BY <1>1, InferPicked
<1>3. PICK g : Follows(g, refs, qs, Stores) /\ Infer(Pick(refs, qs)) = g[n]
  BY <1>1, InferPicked
<1>4. (\A k \in 0..n : f[k] \subseteq Stores) /\ (\A k \in 0..n : g[k] \subseteq Stores)
  BY <1>1, <1>2, <1>3, FollowsFit
<1> DEFINE P == {k \in 0..n : f[k] \subseteq g[k] /\ ((\A l \in qs : k < l) => g[k] = Stores)}
<1>5. 0 \in P
  BY <1>2, <1>3 DEF Follows
<1>6. ASSUME NEW k \in 1..n, k - 1 \in P PROVE k \in P
  <2>1. PICK st : st = StatementAt(refs[k])
    OBVIOUS
  <2>2. /\ f[k] = IF k \in ps THEN Transform(f[k - 1], st) ELSE f[k - 1]
        /\ g[k] = IF k \in qs THEN Transform(g[k - 1], st) ELSE g[k - 1]
    BY <1>1, <1>2, <1>3, <2>1 DEF Follows
  <2>3. StatementFits(job, st)
    BY <1>1, <2>1, RefsFit
  <2>4. f[k - 1] \subseteq g[k - 1] /\ g[k - 1] \subseteq Stores /\ ((\A l \in qs : k - 1 < l) => g[k - 1] = Stores)
    BY <1>4, <1>6
  <2>5. qs \subseteq Int
    BY <1>1
  <2>6. (\A l \in qs : k < l) => k \notin qs /\ \A l \in qs : k - 1 < l
    BY <2>5
  <2>7. (\A l \in qs : k < l) => g[k] = Stores
    BY <2>2, <2>4, <2>6
  <2>8. CASE k \in qs
    <3>1. Transform(f[k - 1], st) \subseteq Transform(g[k - 1], st)
      BY <2>3, <2>4, TransformMonotone
    <3> QED BY <2>2, <2>7, <2>8, <3>1
  <2>9. CASE k \in ps \ qs
    <3>1. g[k] = Stores
      BY <2>7, <2>9
    <3> QED BY <1>4, <2>7, <3>1
  <2>10. CASE k \notin ps
    BY <2>2, <2>4, <2>7, <2>10
  <2> QED BY <2>8, <2>9, <2>10
<1> HIDE DEF P
<1>7. \A k \in 0..n : k \in P
  BY <1>5, <1>6, UpTo
<1> QED BY <1>2, <1>3, <1>7 DEF P

(***************************************************************************)
(* The greedy pass over refs: on are the positions that are left, tr is    *)
(* the next one. Behind the t-th position, every statement is new; those   *)
(* are bottom on their own, and so the others are dropped, one by one.     *)
(***************************************************************************)
Greedy(refs, on, tr, t) ==
    /\ t \in 0..Len(refs)
    /\ Fresh(refs, (t + 1)..Len(refs))
    /\ Infer(Pick(refs, (t + 1)..Len(refs))) = {}
    /\ IF tr <= t THEN on = tr..Len(refs) ELSE on \subseteq (t + 1)..Len(refs)
    /\ \A k \in on : k < tr => Infer(Pick(refs, on \ {k})) # {}

\* No statement can be left out.
Minimal(refs) == \A k \in DOMAIN refs : Infer(RemoveAt(refs, k)) # {}

LEMMA GreedyBegins ==
    ASSUME NEW refs \in Seq(Refs), NEW t \in 0..Len(refs),
           Fresh(refs, (t + 1)..Len(refs)), Infer(Pick(refs, (t + 1)..Len(refs))) = {}
    PROVE  Greedy(refs, DOMAIN refs, 1, t)
<1>1. PICK n \in Nat : n = Len(refs)
  OBVIOUS
<1>2. DOMAIN refs = 1..n
  BY <1>1
<1>3. ~(1 <= t) => 1..n \subseteq (t + 1)..n
  BY <1>1
<1>4. \A k \in 1..n : ~(k < 1)
  OBVIOUS
<1> QED BY <1>1, <1>2, <1>3, <1>4 DEF Greedy

LEMMA GreedyStep ==
    ASSUME JobFits(job), NEW refs \in Seq(Refs), NEW tr \in DOMAIN refs, NEW t, NEW on,
           Greedy(refs, on, tr, t), Infer(Pick(refs, on)) = {},
           NEW less, less = IF Infer(Pick(refs, on \ {tr})) = {} THEN on \ {tr} ELSE on
    PROVE  Greedy(refs, less, tr + 1, t)
<1>1. PICK n \in Nat : n = Len(refs)
  OBVIOUS
<1>2. tr \in 1..n /\ t \in 0..n
  BY <1>1 DEF Greedy
<1>3. /\ Fresh(refs, (t + 1)..n) /\ Infer(Pick(refs, (t + 1)..n)) = {}
      /\ IF tr <= t THEN on = tr..n ELSE on \subseteq (t + 1)..n
      /\ \A k \in on : k < tr => Infer(Pick(refs, on \ {k})) # {}
  BY <1>1 DEF Greedy
<1>4. CASE tr <= t
  <2>1. on \ {tr} = (tr + 1)..n
    BY <1>2, <1>3, <1>4
  <2>2. Infer(Pick(refs, (tr + 1)..n)) = {}
    <3>1. PICK ps, qs : ps = (tr + 1)..n /\ qs = (t + 1)..n
      OBVIOUS
    <3>2. qs \subseteq ps /\ ps \subseteq DOMAIN refs /\ \A k \in ps \ qs, l \in qs : k < l
      BY <1>1, <1>2, <1>4, <3>1
    <3>3. Infer(Pick(refs, ps)) \subseteq Infer(Pick(refs, qs))
      BY <3>2, RestIsBottom
    <3> QED BY <1>3, <3>1, <3>3
  <2>3. less = (tr + 1)..n
    BY <2>1, <2>2
  <2>4. ~(tr + 1 <= t) => (tr + 1)..n \subseteq (t + 1)..n
    BY <1>2
  <2>5. \A k \in (tr + 1)..n : ~(k < tr + 1)
    BY <1>2
  <2> QED BY <1>1, <1>2, <1>3, <2>3, <2>4, <2>5 DEF Greedy
<1>5. CASE ~(tr <= t)
  <2>1. on \subseteq (t + 1)..n /\ ~(tr + 1 <= t)
    BY <1>2, <1>3, <1>5
  <2>2. less \subseteq on
    OBVIOUS
  <2>3. ASSUME NEW k \in less, k < tr + 1 PROVE Infer(Pick(refs, less \ {k})) # {}
    <3>1. k \in 1..n /\ k \in on
      BY <1>2, <2>1, <2>2
    <3>2. CASE k = tr
      BY <2>3, <3>2
    <3>3. CASE k # tr
      <4>1. k < tr
        BY <1>2, <2>3, <3>1, <3>3
      <4>2. Infer(Pick(refs, on \ {k})) # {}
        BY <1>3, <3>1, <4>1
      <4>3. PICK ps, qs : ps = less \ {k} /\ qs = on \ {k}
        OBVIOUS
      <4>4. ps \subseteq qs /\ qs \subseteq DOMAIN refs /\ qs \subseteq (t + 1)..n
        BY <1>1, <1>2, <2>1, <2>2, <4>3
      <4>5. Fresh(refs, qs)
        BY <1>3, <4>4 DEF Fresh
      <4>6. Infer(Pick(refs, qs)) \subseteq Infer(Pick(refs, ps))
        BY <4>4, <4>5, LessSaysLess
      <4> QED BY <4>2, <4>3, <4>6
    <3> QED BY <3>2, <3>3
  <2> QED BY <1>1, <1>2, <1>3, <2>1, <2>2, <2>3 DEF Greedy
<1> QED BY <1>4, <1>5

LEMMA GreedyEnds ==
    ASSUME JobFits(job), NEW refs \in Seq(Refs), NEW tr \in Nat \ {0}, tr \notin DOMAIN refs,
           NEW t, NEW on,
           on \subseteq DOMAIN refs, Greedy(refs, on, tr, t)
    PROVE  Minimal(Pick(refs, on))
<1>1. PICK n \in Nat : n = Len(refs)
  OBVIOUS
<1>2. IsList(refs, n) /\ on \subseteq 1..n
  BY <1>1, SeqIsList
<1>3. PICK at, m, c : Selects(c, refs, on, at, m) /\ c = Pick(refs, on)
  BY <1>2, PickSelects
<1>4. m \in Nat /\ at \in [1..m -> on] /\ DOMAIN c = 1..m
  BY <1>3, LengthOfList DEF Selects
<1>5. ASSUME NEW k \in 1..m PROVE Infer(RemoveAt(c, k)) # {}
  <2>1. at[k] \in on /\ at[k] < tr
    BY <1>1, <1>2, <1>4
  <2>2. Infer(Pick(refs, on \ {at[k]})) # {}
    BY <2>1 DEF Greedy
  <2>3. RemoveAt(c, k) = Pick(refs, on \ {at[k]})
    BY <1>2, <1>3, PickWithout
  <2> QED BY <2>2, <2>3
<1> QED BY <1>3, <1>4, <1>5 DEF Minimal

-----------------------------------------------------------------------------
(* Two layers: what the first one collects is there twice. *)

Booleans(refs, n) == \A k \in 1..n : IsBoolean(job, StatementAt(refs[k]))

\* Everything before the i-th statement of block b is behind the o-th.
Complete(refs, o, b, i) ==
    \A q \in DOMAIN job.path : \A m \in DOMAIN job.code[job.path[q]] :
        (q < b \/ (q = b /\ m < i)) => \E k \in (o + 1)..Len(refs) : refs[k] = <<job.path[q], m>>

TwoLayers(refs, o, b, i) == o > 0 => Booleans(refs, o) /\ Complete(refs, o, b, i)

\* x is used, but not defined behind the k-th statement.
Given(refs, k, x) ==
    /\ \A l \in (k + 1)..Len(refs) : x \notin Defs(StatementAt(refs[l]))
    /\ \E l \in (k + 1)..Len(refs) : x \in Uses(StatementAt(refs[l]))

LEMMA SingleDefinition ==
    ASSUME JobFits(job), DefinedOnce(job), NEW ref \in Refs
    PROVE  Defs(StatementAt(ref)) \cap Uses(StatementAt(ref)) = {}
<1>1. PICK q \in DOMAIN job.path : \E m \in Nat :
          ref = <<job.path[q], m>> /\ m \in DOMAIN job.code[job.path[q]]
  BY RefIs
<1>2. PICK m \in Nat : ref = <<job.path[q], m>> /\ m \in DOMAIN job.code[job.path[q]]
  BY <1>1
<1> QED BY <1>2 DEF DefinedOnce, StatementAt

\* Of a variable that is live, the layer has no definition.
LEMMA LiveIsGiven ==
    ASSUME JobFits(job), DefinedOnce(job), NEW refs \in Seq(Refs), NEW o \in Nat, NEW n \in Nat,
           n = Len(refs), o < n,
           Fresh(refs, (o + 1)..n), NEW live, NEW ks, NEW dataOnly, Slices(live, ks, refs, dataOnly)
    PROVE  \A x \in live[o] : Given(refs, o, x)
<1> DEFINE P == {d \in 0..(n - 1 - o) : \A x \in live[n - 1 - d] : Given(refs, n - 1 - d, x)}
<1>1. 0 \in P
  <2>1. PICK st : st = StatementAt(refs[n])
    OBVIOUS
  <2>2. live[n - 1] = CriterionVars(st)
    BY <2>1 DEF Slices
  <2>3. StatementFits(job, st)
    BY <2>1, RefsFit
  <2>4. ASSUME NEW x \in CriterionVars(st) PROVE x \in Uses(st) /\ x \notin Defs(st)
    <3>1. st.op \in {"assume", "assert"} /\ x \in ConstraintVars(st.cst)
      BY <2>4 DEF CriterionVars
    <3>2. DOMAIN st = {"op", "cst"}
      BY <2>3, <3>1 DEF StatementFits
    <3> QED BY <3>1, <3>2 DEF Uses, Defs
  <2>5. \A l \in ((n - 1) + 1)..n : l = n
    OBVIOUS
  <2>6. n \in ((n - 1) + 1)..n
    OBVIOUS
  <2>7. \A x \in live[n - 1] : Given(refs, n - 1, x)
    BY <2>1, <2>2, <2>4, <2>5, <2>6 DEF Given
  <2>8. n - 1 - 0 = n - 1 /\ 0 \in 0..(n - 1 - o)
    OBVIOUS
  <2> QED BY <2>7, <2>8
<1>2. ASSUME NEW d \in 1..(n - 1 - o), d - 1 \in P PROVE d \in P
  <2>1. PICK k : k = n - d
    OBVIOUS
  <2>2. k \in (o + 1)..n /\ k \in 1..n /\ n - 1 - (d - 1) = k /\ n - 1 - d = k - 1 /\ k < n
    BY <2>1
  <2>3. \A x \in live[k] : Given(refs, k, x)
    BY <1>2, <2>2
  <2>4. PICK st : st = StatementAt(refs[k])
    OBVIOUS
  <2>5. IF Matters(st, live[k], dataOnly)
        THEN live[k - 1] = (live[k] \ Defs(st)) \cup Uses(st)
        ELSE live[k - 1] = live[k]
    <3>1. k \in 1..(n - 1)
      BY <2>2
    <3> QED BY <2>4, <3>1 DEF Slices
  <2>6. ASSUME NEW x \in live[k], x \notin Defs(st) PROVE Given(refs, k - 1, x)
    <3>1. Given(refs, k, x)
      BY <2>3, <2>6
    <3>2. \A l \in ((k - 1) + 1)..n : l = k \/ l \in (k + 1)..n
      BY <2>2
    <3>3. \A l \in (k + 1)..n : l \in ((k - 1) + 1)..n
      BY <2>2
    <3> QED BY <2>4, <2>6, <3>1, <3>2, <3>3 DEF Given
  <2>7. ASSUME NEW x \in Uses(st) PROVE Given(refs, k - 1, x)
    <3>1. x \notin Defs(st)
      BY <2>2, <2>4, <2>7, SingleDefinition
    <3>2. \A l \in ((k - 1) + 1)..n : l = k \/ (l \in (o + 1)..n /\ k < l)
      BY <2>2
    <3>3. \A l \in (o + 1)..n : k < l => x \notin Defs(StatementAt(refs[l]))
      BY <2>2, <2>4, <2>7 DEF Fresh
    <3>4. k \in ((k - 1) + 1)..n
      BY <2>2
    <3> QED BY <2>4, <2>7, <3>1, <3>2, <3>3, <3>4 DEF Given
  <2>8. ~Matters(st, live[k], dataOnly) => \A x \in live[k] : x \notin Defs(st)
    BY DEF Matters
  <2>9. \A x \in live[k - 1] : Given(refs, k - 1, x)
    BY <2>5, <2>6, <2>7, <2>8
  <2>10. \A j : j = k - 1 => \A x \in live[j] : Given(refs, j, x)
    BY <2>9
  <2>11. \A x \in live[n - 1 - d] : Given(refs, n - 1 - d, x)
    BY <2>2, <2>10
  <2> QED BY <2>11
<1> HIDE DEF P
<1>3. n - 1 - o \in Nat /\ n - 1 - o \in 0..(n - 1 - o) /\ n - 1 - (n - 1 - o) = o
  OBVIOUS
<1>4. \A d \in 0..(n - 1 - o) : d \in P
  BY <1>1, <1>2, <1>3, UpTo
<1>5. \A x \in live[n - 1 - (n - 1 - o)] : Given(refs, n - 1 - (n - 1 - o), x)
  BY <1>3, <1>4 DEF P
<1> QED BY <1>3, <1>5

\* So the path has none.
LEMMA GivenIsUndefined ==
    ASSUME JobFits(job), IsPath(job), DefinedOnce(job), NEW refs \in Seq(Refs), NEW o \in Nat,
           NEW n \in Nat, n = Len(refs),
           Ordered(refs, o), NEW b \in DOMAIN job.path, NEW i \in Nat, refs[n] = <<job.path[b],
           i>>, o < n,
           Complete(refs, o, b, i), NEW x, Given(refs, o, x), NEW ref \in Refs
    PROVE  x \notin Defs(StatementAt(ref))
<1>1. PICK q \in DOMAIN job.path : \E m \in Nat :
          ref = <<job.path[q], m>> /\ m \in DOMAIN job.code[job.path[q]]
  BY RefIs
<1>2. PICK m \in Nat : ref = <<job.path[q], m>> /\ m \in DOMAIN job.code[job.path[q]]
  BY <1>1
<1>3. q \in Nat /\ b \in Nat
  BY DEF JobFits
<1>4. CASE q < b \/ (q = b /\ m < i)
  <2>1. PICK k \in (o + 1)..n : refs[k] = ref
    BY <1>2, <1>4 DEF Complete
  <2> QED BY <2>1 DEF Given
<1>5. CASE q = b /\ m = i
  <2>1. ref = refs[n] /\ n \in (o + 1)..n
    BY <1>2, <1>5
  <2> QED BY <2>1 DEF Given
<1>6. CASE b < q \/ (q = b /\ i < m)
  <2>1. PICK l \in (o + 1)..n : x \in Uses(StatementAt(refs[l]))
    BY DEF Given
  <2>2. refs[l] \in Refs
    BY <2>1
  <2>3. PICK p \in DOMAIN job.path : \E j \in Nat :
            refs[l] = <<job.path[p], j>> /\ j \in DOMAIN job.code[job.path[p]]
    BY <2>2, RefIs
  <2>4. PICK j \in Nat : refs[l] = <<job.path[p], j>> /\ j \in DOMAIN job.code[job.path[p]]
    BY <2>3
  <2>5. p < b \/ (p = b /\ j <= i)
    <3>1. CASE l = n
      <4>1. job.path[p] = job.path[b] /\ j = i
        BY <2>4, <3>1
      <4>2. p = b
        BY <4>1 DEF IsPath
      <4> QED BY <4>1, <4>2
    <3>2. CASE l # n
      <4>1. n \in (o + 1)..n /\ l \in (o + 1)..(n - 1)
        BY <2>1, <3>2
      <4>2. Precedes(refs[l], refs[n])
        BY <4>1 DEF Ordered
      <4>3. Precedes(<<job.path[p], j>>, <<job.path[b], i>>)
        BY <2>4, <4>2
      <4>4. p < b \/ (p = b /\ j < i)
        BY <4>3, PrecedesIs
      <4> QED BY <4>4
    <3> QED BY <3>1, <3>2
  <2>6. p \in 1..q /\ (p < q \/ j < m)
    <3>1. p \in Nat \ {0}
      BY DEF JobFits
    <3> QED BY <1>3, <1>6, <2>5, <3>1
  <2>7. DefinesNew(job, q, m)
    BY <1>2 DEF DefinedOnce
  <2>8. Defs(job.code[job.path[q]][m]) \cap
            (Defs(job.code[job.path[p]][j]) \cup Uses(job.code[job.path[p]][j])) = {}
    BY <2>4, <2>6, <2>7 DEF DefinesNew
  <2>9. StatementAt(ref) = job.code[job.path[q]][m] /\ StatementAt(refs[l]) = job.code[job.path[p]][j]
    BY <1>2, <2>4 DEF StatementAt
  <2> QED BY <2>1, <2>8, <2>9
<1>7. q < b \/ b < q \/ q = b
  BY <1>3
<1>8. m < i \/ i < m \/ m = i
  OBVIOUS
<1> QED BY <1>4, <1>5, <1>6, <1>7, <1>8

\* A statement of the first layer that uses a boolean but defines nothing.
LEMMA BooleanTest ==
    ASSUME JobFits(job), NEW st, StatementFits(job, st), IsBoolean(job, st), Defs(st) = {}
    PROVE  \E x : Uses(st) = {x}
<1>1. st.op \in {"assume", "assert"} /\ ConstraintVars(st.cst) \cap job.bools # {}
  <2>1. st.op = "bool_assign" \/ st.op = "assign" => "lhs" \in DOMAIN st
    BY DEF StatementFits
  <2>2. "lhs" \notin DOMAIN st
    BY DEF Defs
  <2> QED BY <2>1, <2>2 DEF IsBoolean
<1>2. DOMAIN st = {"op", "cst"} /\ ConstraintFits(job, st.cst)
  BY <1>1 DEF StatementFits
<1>3. Uses(st) = ConstraintVars(st.cst)
  BY <1>2 DEF Uses
<1>4. PICK x \in ConstraintVars(st.cst) \cap job.bools : TRUE
  BY <1>1
<1>5. ConstraintVars(st.cst) = {x}
  BY <1>2, <1>4 DEF ConstraintFits
<1> QED BY <1>3, <1>5

-----------------------------------------------------------------------------
\* Of the first layer, the slice along data dependencies keeps tests of
\* variables that the path does not define.
LEMMA EarlierTests ==
    ASSUME JobFits(job), NEW refs \in Seq(Refs), NEW o \in Nat, NEW n \in Nat, n = Len(refs),
           o < n, Booleans(refs, o),
           NEW live, NEW ks, Slices(live, ks, refs, TRUE),
           \A x \in live[o] : \A ref \in Refs : x \notin Defs(StatementAt(ref))
    PROVE  \A k \in ks : k <= o =>
               Defs(StatementAt(refs[k])) = {} /\ Uses(StatementAt(refs[k])) \subseteq live[o]
<1>1. ASSUME NEW k \in 1..o, live[k] = live[o]
      PROVE  /\ live[k - 1] = live[o]
             /\ k \in ks => Defs(StatementAt(refs[k])) = {} /\ Uses(StatementAt(refs[k])) \subseteq live[o]
  <2>1. PICK st : st = StatementAt(refs[k])
    OBVIOUS
  <2>2. k \in 1..n /\ k \in 1..(n - 1) /\ refs[k] \in Refs
    <3>1. k \in 1..n /\ k \in 1..(n - 1)
      OBVIOUS
    <3> QED BY <3>1
  <2>3. StatementFits(job, st) /\ IsBoolean(job, st)
    BY <2>1, <2>2, RefsFit DEF Booleans
  <2>4. IF Matters(st, live[o], TRUE)
        THEN k \in ks /\ live[k - 1] = (live[o] \ Defs(st)) \cup Uses(st)
        ELSE k \notin ks /\ live[k - 1] = live[o]
    BY <1>1, <2>1, <2>2 DEF Slices
  <2>5. Defs(st) \cap live[o] = {}
    BY <2>1, <2>2
  <2>6. CASE Matters(st, live[o], TRUE)
    <3>1. Defs(st) = {} /\ Uses(st) \cap live[o] # {}
      BY <2>5, <2>6 DEF Matters
    <3>2. PICK x : Uses(st) = {x}
      BY <2>3, <3>1, BooleanTest
    <3> QED BY <2>1, <2>4, <2>6, <3>1, <3>2
  <2>7. CASE ~Matters(st, live[o], TRUE)
    BY <2>4, <2>7
  <2> QED BY <2>6, <2>7
<1> DEFINE P == {d \in 0..o : \A j : j = o - d => live[j] = live[o]}
<1>2. 0 \in P
  <2>1. o - 0 = o
    OBVIOUS
  <2> QED BY <2>1
<1>3. ASSUME NEW d \in 1..o, d - 1 \in P PROVE d \in P
  <2>1. PICK k : k = o - (d - 1)
    OBVIOUS
  <2>2. k \in 1..o /\ o - d = k - 1 /\ live[k] = live[o]
    BY <1>3, <2>1
  <2>3. live[k - 1] = live[o]
    BY <1>1, <2>2
  <2> QED BY <2>2, <2>3
<1> HIDE DEF P
<1>4. \A d \in 0..o : d \in P
  BY <1>2, <1>3, UpTo
<1> SUFFICES ASSUME NEW k \in ks, k <= o
             PROVE  Defs(StatementAt(refs[k])) = {} /\ Uses(StatementAt(refs[k])) \subseteq live[o]
  OBVIOUS
<1>5. k \in 1..o /\ o - k \in 0..o /\ k = o - (o - k)
  <2>1. k \in 1..n
    BY DEF Slices
  <2> QED BY <2>1
<1>6. live[k] = live[o]
  BY <1>4, <1>5 DEF P
<1> QED BY <1>1, <1>5, <1>6

LEMMA DataSliceFresh ==
    ASSUME JobFits(job), IsPath(job), DefinedOnce(job), NEW refs \in Seq(Refs), NEW o \in Nat,
           NEW n \in Nat, n = Len(refs),
           Ordered(refs, o), NEW b \in DOMAIN job.path, NEW i \in Nat, refs[n] = <<job.path[b],
           i>>, o < n,
           TwoLayers(refs, o, b, i), NEW live, NEW ks, Slices(live, ks, refs, TRUE)
    PROVE  Fresh(refs, ks)
<1>1. Fresh(refs, (o + 1)..n)
  BY OrderedFresh
<1>2. ks \subseteq 1..n
  BY DEF Slices
<1>3. \A x \in live[o] : Given(refs, o, x)
  BY <1>1, LiveIsGiven
<1>4. ASSUME o > 0 
      PROVE  /\ \A x \in live[o] : \A ref \in Refs : x \notin Defs(StatementAt(ref))
             /\ \A k \in ks : k <= o =>
                    Defs(StatementAt(refs[k])) = {} /\ Uses(StatementAt(refs[k])) \subseteq live[o]
  <2>1. Booleans(refs, o) /\ Complete(refs, o, b, i)
    BY <1>4 DEF TwoLayers
  <2>2. \A x \in live[o] : \A ref \in Refs : x \notin Defs(StatementAt(ref))
    BY <1>3, <2>1, GivenIsUndefined
  <2>3. \A k \in ks : k <= o =>
            Defs(StatementAt(refs[k])) = {} /\ Uses(StatementAt(refs[k])) \subseteq live[o]
    BY <2>1, <2>2, EarlierTests
  <2> QED BY <2>2, <2>3
<1> SUFFICES ASSUME NEW k \in ks, NEW l \in ks, l < k
             PROVE  Defs(StatementAt(refs[k])) \cap
                        (Defs(StatementAt(refs[l])) \cup Uses(StatementAt(refs[l]))) = {}
  BY DEF Fresh
<1>5. k \in 1..n /\ l \in 1..n /\ refs[k] \in Refs
  <2>1. k \in 1..n /\ l \in 1..n
    BY <1>2
  <2> QED BY <2>1
<1>6. CASE k <= o
  <2>1. o > 0
    BY <1>5, <1>6
  <2> QED BY <1>4, <1>6, <2>1
<1>7. CASE l <= o /\ k > o
  <2>1. o > 0
    BY <1>5, <1>7
  <2>2. Defs(StatementAt(refs[l])) = {} /\ Uses(StatementAt(refs[l])) \subseteq live[o]
    BY <1>4, <1>7, <2>1
  <2>3. \A x \in live[o] : x \notin Defs(StatementAt(refs[k]))
    BY <1>4, <1>5, <2>1
  <2> QED BY <2>2, <2>3
<1>8. CASE l > o
  <2>1. l \in (o + 1)..n /\ k \in (o + 1)..n
    BY <1>5, <1>8
  <2> QED BY <1>1, <2>1 DEF Fresh
<1> QED BY <1>5, <1>6, <1>7, <1>8

-----------------------------------------------------------------------------
(* The explanations *)

Gives(refs, i, dataOnly, kind, c) ==
    LET e == Explanation(refs, i, dataOnly) IN e.kind = kind /\ e.core = c

\* What Explanation returns, if it is to be minimised, ...
LEMMA ToMinimise ==
    ASSUME JobFits(job), NEW refs \in Seq(Refs), refs # <<>>, NEW b, NEW i,
           refs[Len(refs)] = <<job.path[b], i>>,
           NEW dataOnly, NEW c, Gives(refs, i, dataOnly, "explanation", c)
    PROVE  \/ Len(refs) = 1 /\ c = refs
           \/ /\ CriterionVars(StatementAt(refs[Len(refs)])) # {}
              /\ c = Pick(refs, Kept(refs, refs[Len(refs)], dataOnly))
<1>1. Explanation(refs, i, dataOnly).kind = "explanation" /\ Explanation(refs, i, dataOnly).core = c
  BY DEF Gives
<1>2. PICK n \in Nat : n = Len(refs) /\ n > 0
  OBVIOUS
<1> DEFINE blk == Last(refs)[1]
           false == {k \in DOMAIN job.code[blk] : IsAssumeFalse(job.code[blk][k])}
<1>3. blk = job.path[b] /\ <<blk, i>> = refs[n]
  BY <1>2 DEF Last
<1>4. CASE n = 1
  BY <1>1, <1>2, <1>4 DEF Explanation
<1>5. CASE n > 1
  <2>1. Len(refs) > 1 /\ Len(refs) # 1
    BY <1>2, <1>5
  <2>2. CASE false # {}
    <3>1. Explanation(refs, i, dataOnly).kind = "trivial"
      BY <2>1, <2>2 DEF Explanation
    <3> QED BY <1>1, <3>1
  <2>3. CASE false = {}
    <3> HIDE DEF blk
    <3>1. CriterionVars(StatementAt(<<blk, i>>)) # {}
      <4>1. CASE CriterionVars(StatementAt(<<blk, i>>)) = {}
        <5>1. Explanation(refs, i, dataOnly).kind = "none"
          BY <2>1, <2>3, <4>1 DEF Explanation, blk
        <5> QED BY <1>1, <5>1
      <4> QED BY <4>1
    <3>2. Explanation(refs, i, dataOnly).core = Sliced(refs, <<blk, i>>, dataOnly)
      BY <2>1, <2>3, <3>1 DEF Explanation, blk
    <3> QED BY <1>1, <1>2, <1>3, <3>1, <3>2 DEF Sliced
  <2> QED BY <2>2, <2>3
<1> QED BY <1>2, <1>4, <1>5

\* ... or if it is not.
LEMMA Trivial ==
    ASSUME JobFits(job), NEW refs \in Seq(Refs), refs # <<>>, NEW i, NEW dataOnly, NEW c,
           Gives(refs, i, dataOnly, "trivial", c)
    PROVE  Len(c) = 1
<1>1. Explanation(refs, i, dataOnly).kind = "trivial" /\ Explanation(refs, i, dataOnly).core = c
  BY DEF Gives
<1>2. PICK n \in Nat : n = Len(refs) /\ n > 0
  OBVIOUS
<1> DEFINE blk == Last(refs)[1]
           false == {k \in DOMAIN job.code[blk] : IsAssumeFalse(job.code[blk][k])}
<1>3. CASE n = 1
  <2>1. Explanation(refs, i, dataOnly).core = refs
    BY <1>2, <1>3 DEF Explanation
  <2> QED BY <1>1, <1>2, <1>3, <2>1
<1>4. CASE n > 1
  <2>1. Len(refs) > 1 /\ Len(refs) # 1
    <3>1. \A m \in Nat : m > 1 => m # 1
      OBVIOUS
    <3> QED BY <1>2, <1>4, <3>1
  <2>2. CASE false # {}
    <3>1. PICK r : Explanation(refs, i, dataOnly).core = <<r>>
      BY <2>1, <2>2 DEF Explanation
    <3> QED BY <1>1, <3>1
  <2>3. CASE false = {}
    <3>1. Explanation(refs, i, dataOnly).kind \in {"none", "explanation"}
      <4>1. CASE CriterionVars(StatementAt(<<blk, i>>)) = {}
        BY <2>1, <2>3, <4>1 DEF Explanation
      <4>2. CASE CriterionVars(StatementAt(<<blk, i>>)) # {}
        BY <2>1, <2>3, <4>2 DEF Explanation
      <4> QED BY <4>1, <4>2
    <3> QED BY <1>1, <3>1
  <2> QED BY <2>2, <2>3
<1> QED BY <1>2, <1>3, <1>4

-----------------------------------------------------------------------------
\* Addition always has a result (that is in Val).
NoOverflow == \A b \in job.blocks : \A k \in DOMAIN job.code[b] : job.code[b][k].op # "add1"

LEMMA NoneOverflows ==
    ASSUME JobFits(job), NoOverflow, NEW ref \in Refs
    PROVE  StatementAt(ref).op # "add1"
<1>1. PICK q \in DOMAIN job.path : \E m \in Nat :
          ref = <<job.path[q], m>> /\ m \in DOMAIN job.code[job.path[q]]
  BY RefIs
<1>2. PICK m \in Nat : ref = <<job.path[q], m>> /\ m \in DOMAIN job.code[job.path[q]]
  BY <1>1
<1>3. job.path[q] \in job.blocks
  BY DEF JobFits
<1> QED BY <1>2, <1>3 DEF NoOverflow, StatementAt

\* A single statement is in order, and new.
LEMMA SingleFresh ==
    ASSUME NEW refs \in Seq(Refs), Len(refs) = 1
    PROVE  Ordered(refs, 0) /\ Fresh(refs, DOMAIN refs)
<1>1. \A k : k \in DOMAIN refs => k = 1
  OBVIOUS
<1>2. \A k : k \in 1..1 => 1..(k - 1) = {}
  OBVIOUS
<1>3. Ordered(refs, 0)
  BY <1>2 DEF Ordered
<1>4. Fresh(refs, DOMAIN refs)
  BY <1>1 DEF Fresh
<1> QED BY <1>3, <1>4

LEMMA CollectedBefore ==
    ASSUME JobFits(job), NEW refs \in Seq(Refs), NEW f, NEW o, NEW b, NEW i, Collected(f, refs, o, b, i)
    PROVE  /\ o \in Nat /\ o < Len(refs) /\ Len(refs) \in Nat \ {0}
           /\ Passes(f, refs, o) /\ Ordered(refs, o) /\ refs # <<>>
           /\ f[Len(refs)] = {} /\ refs[Len(refs)] = <<job.path[b], i>>
<1>1. /\ Passes(f, refs, o) /\ Ordered(refs, o) /\ refs # <<>>
      /\ f[Len(refs)] = {} /\ refs[Len(refs)] = <<job.path[b], i>>
  BY DEF Collected
<1>2. PICK n \in Nat : n = Len(refs) /\ n # 0
  BY <1>1
<1>3. o \in 0..n /\ f[o] = Stores
  BY <1>1, <1>2 DEF Passes
<1>4. o # n
  BY <1>1, <1>2, <1>3, SomeStore
<1>5. o \in Nat /\ o < n
  BY <1>3, <1>4
<1> QED BY <1>1, <1>2, <1>5

\* Behind the t-th position, the statements are new, and bottom on their own.
FreshRest(c, t) ==
    /\ t \in 0..Len(c)
    /\ Fresh(c, (t + 1)..Len(c)) /\ Infer(Pick(c, (t + 1)..Len(c))) = {}

(***************************************************************************)
(* With control dependencies, the slice is bottom, and so is what the last *)
(* layer contributes to it.                                                *)
(***************************************************************************)
LEMMA ControlSlice ==
    ASSUME JobFits(job), IsPath(job), NoOverflow, NEW refs \in Seq(Refs), NEW f, NEW o, NEW b, NEW i,
           Collected(f, refs, o, b, i), CriterionVars(StatementAt(refs[Len(refs)])) # {},
           NEW c, c = Pick(refs, Kept(refs, refs[Len(refs)], FALSE))
    PROVE  /\ Infer(c) = {}
           /\ DefinedOnce(job) => \E t : FreshRest(c, t)
<1>1. PICK n \in Nat : n = Len(refs)
  OBVIOUS
<1>2. /\ o \in Nat /\ o < n /\ refs # <<>>
      /\ Passes(f, refs, o) /\ Ordered(refs, o) /\ f[Len(refs)] = {}
  BY <1>1, CollectedBefore
<1>3. PICK ks : ks = Kept(refs, refs[Len(refs)], FALSE)
  OBVIOUS
<1>4. PICK live : Slices(live, ks, refs, FALSE)
  BY <1>2, <1>3, KeptSlices
<1>5. ks \subseteq 1..n /\ ks \subseteq DOMAIN refs
  BY <1>1, <1>4 DEF Slices
<1>6. \A k \in 1..Len(refs) : StatementAt(refs[k]).op # "add1"
  BY NoneOverflows
<1>7. ASSUME NEW ps, ps \subseteq DOMAIN refs, \A k \in (o + 1)..Len(refs) : k \in ps <=> k \in ks
      PROVE  Infer(Pick(refs, ps)) = {}
  BY <1>2, <1>3, <1>6, <1>7, SliceIsBottom
<1>8. Infer(c) = {}
  BY <1>3, <1>5, <1>7
<1>9. ASSUME DefinedOnce(job)
      PROVE  \E t : FreshRest(c, t)
  <2>1. IsList(refs, n)
    BY <1>1, SeqIsList
  <2>2. PICK at, m, d : Selects(d, refs, ks, at, m) /\ d = Pick(refs, ks)
    BY <1>5, <2>1, PickSelects
  <2>3. /\ m \in Nat /\ at \in [1..m -> ks] /\ Len(d) = m
        /\ \A j \in ks : \E k \in 1..m : at[k] = j
        /\ \A k, l \in 1..m : k < l => at[k] < at[l]
    BY <2>2, LengthOfList DEF Selects
  <2>4. PICK t \in 0..m : Targets(at, (t + 1)..m) = Behind(ks, o, n)
    <3>1. Within(ks, n)
      BY <1>5 DEF Within
    <3> QED BY <1>2, <2>2, <3>1, PickedTail
  <2>5. PICK T : T = (t + 1)..m
    OBVIOUS
  <2>6. Within(T, m)
    BY <2>3, <2>5 DEF Within
  <2>7. PICK qs : qs = Targets(at, T)
    OBVIOUS
  <2>8. qs = ks \cap (o + 1)..n
    BY <2>4, <2>5, <2>7 DEF Behind
  <2>9. Pick(d, T) = Pick(refs, qs)
    <3>1. Within(ks, n)
      BY <1>5 DEF Within
    <3>2. Pick(d, T) = Pick(refs, Targets(at, T))
      BY <2>1, <2>2, <2>6, <3>1, PickPick
    <3> QED BY <2>7, <3>2
  <2>10. Infer(Pick(refs, qs)) = {}
    BY <1>1, <1>5, <1>7, <2>8
  <2>11. Fresh(refs, qs)
    <3>1. Fresh(refs, (o + 1)..n)
      BY <1>1, <1>2, <1>9, OrderedFresh
    <3> QED BY <2>8, <3>1 DEF Fresh
  <2>12. Fresh(d, T)
    BY <2>2, <2>6, <2>7, <2>11, FreshPicked
  <2>13. c = d
    BY <1>3, <2>2
  <2> QED BY <2>3, <2>5, <2>9, <2>10, <2>12, <2>13 DEF FreshRest
<1> QED BY <1>8, <1>9

LEMMA DataSlice ==
    ASSUME JobFits(job), IsPath(job), DefinedOnce(job), NEW refs \in Seq(Refs), NEW f, NEW o,
           NEW b \in DOMAIN job.path, NEW i \in Nat, Collected(f, refs, o, b, i),
           TwoLayers(refs, o, b, i),
           NEW c, c = Pick(refs, Kept(refs, refs[Len(refs)], TRUE))
    PROVE  Fresh(c, DOMAIN c)
<1>1. PICK n \in Nat : n = Len(refs)
  OBVIOUS
<1>2. /\ o \in Nat /\ o < n /\ refs # <<>> /\ Ordered(refs, o) /\ refs[n] = <<job.path[b], i>>
  BY <1>1, CollectedBefore
<1>3. PICK ks : ks = Kept(refs, refs[Len(refs)], TRUE)
  OBVIOUS
<1>4. PICK live : Slices(live, ks, refs, TRUE)
  BY <1>2, <1>3, KeptSlices
<1>5. ks \subseteq 1..n
  BY <1>1, <1>4 DEF Slices
<1>6. Fresh(refs, ks)
  BY <1>1, <1>2, <1>4, DataSliceFresh
<1>7. IsList(refs, n)
  BY <1>1, SeqIsList
<1>8. PICK at, m, d : Selects(d, refs, ks, at, m) /\ d = Pick(refs, ks)
  BY <1>5, <1>7, PickSelects
<1>9. m \in Nat /\ at \in [1..m -> ks] /\ DOMAIN d = 1..m
  BY <1>8, LengthOfList DEF Selects
<1>10. Targets(at, 1..m) \subseteq ks
  BY <1>9 DEF Targets
<1>11. Fresh(refs, Targets(at, 1..m))
  BY <1>6, <1>10 DEF Fresh
<1>12. Fresh(d, 1..m)
  <2>1. Within(1..m, m)
    BY DEF Within
  <2> QED BY <1>8, <1>11, <2>1, FreshPicked
<1> QED BY <1>3, <1>8, <1>9, <1>12

\* What Slice hands on.
LEMMA Handed ==
    ASSUME JobFits(job), IsPath(job), NEW refs \in Seq(Refs), NEW f, NEW o,
           NEW b \in DOMAIN job.path, NEW i \in Nat, Collected(f, refs, o, b, i),
           TwoLayers(refs, o, b, i),
           NEW dataOnly \in BOOLEAN, NEW c, Gives(refs, i, dataOnly, "explanation", c)
    PROVE  /\ o = 0 => Ordered(c, 0)
           /\ (dataOnly /\ DefinedOnce(job)) => Fresh(c, DOMAIN c)
           /\ (~dataOnly /\ NoOverflow) => Infer(c) = {}
           /\ (~dataOnly /\ NoOverflow /\ DefinedOnce(job)) => \E t : FreshRest(c, t)
<1>1. PICK n \in Nat \ {0} : n = Len(refs)
  BY CollectedBefore
<1>2. /\ o \in Nat /\ o < n /\ refs # <<>>
      /\ Passes(f, refs, o) /\ Ordered(refs, o) /\ f[Len(refs)] = {} /\ refs[Len(refs)] = <<job.path[b], i>>
  BY <1>1, CollectedBefore
<1>3. CASE Len(refs) = 1 /\ c = refs
  <2>1. Ordered(c, 0) /\ Fresh(c, DOMAIN c)
    BY <1>3, SingleFresh
  <2>2. Infer(c) = {}
    BY <1>2, <1>3, WholeIsBottom
  <2>3. IsList(c, 1) /\ 0 \in 0..Len(c) /\ (0 + 1)..Len(c) = 1..1 /\ DOMAIN c = 1..1
    <3>1. IsList(refs, n)
      BY <1>1, SeqIsList
    <3>2. n = 1
      BY <1>1, <1>3
    <3>3. IsList(c, 1)
      BY <1>3, <3>1, <3>2
    <3>4. Len(c) = 1 /\ DOMAIN c = 1..1
      BY <3>3, LengthOfList
    <3> QED BY <3>3, <3>4
  <2>4. Pick(c, 1..1) = c
    BY <2>3, PickWhole
  <2>5. FreshRest(c, 0)
    BY <2>1, <2>2, <2>3, <2>4 DEF FreshRest
  <2> QED BY <2>1, <2>2, <2>5
<1>4. CASE /\ CriterionVars(StatementAt(refs[Len(refs)])) # {}
           /\ c = Pick(refs, Kept(refs, refs[Len(refs)], dataOnly))
  <2>1. ASSUME o = 0 PROVE Ordered(c, 0)
    <3>1. PICK live : Slices(live, Kept(refs, refs[Len(refs)], dataOnly), refs, dataOnly)
      BY <1>2, KeptSlices
    <3>2. PICK ks : ks = Kept(refs, refs[Len(refs)], dataOnly)
      OBVIOUS
    <3>3. ks \subseteq DOMAIN refs
      BY <1>1, <3>1, <3>2 DEF Slices
    <3>4. Ordered(Pick(refs, ks), 0)
      BY <1>2, <2>1, <3>3, PickOrdered
    <3> QED BY <1>4, <3>2, <3>4
  <2>2. (dataOnly /\ DefinedOnce(job)) => Fresh(c, DOMAIN c)
    BY <1>4, DataSlice
  <2>3. CASE dataOnly = FALSE /\ NoOverflow
    BY <1>4, <2>1, <2>2, <2>3, ControlSlice
  <2> QED BY <2>1, <2>2, <2>3
<1>5. \/ Len(refs) = 1 /\ c = refs
      \/ /\ CriterionVars(StatementAt(refs[Len(refs)])) # {}
         /\ c = Pick(refs, Kept(refs, refs[Len(refs)], dataOnly))
  BY <1>2, ToMinimise
<1> QED BY <1>3, <1>4, <1>5

-----------------------------------------------------------------------------
(* The invariant of the explanation *)

Alone(l) == ~job.layered \/ l = "bool"

\* While the layer l is solved: refs are collected, and S is the value.
Solving(refs, S, l, b, i) ==
    \E o, f : /\ Collects(f, refs, o, b, i) /\ TwoLayers(refs, o, b, i)
              /\ f[Len(refs)] = S
              /\ Alone(l) => o = 0
              /\ l = "bool" => Booleans(refs, Len(refs))

\* When it has come to bottom.
Solved(refs, l, b, i) ==
    \E o, f : /\ Collected(f, refs, o, b, i) /\ TwoLayers(refs, o, b, i)
              /\ Alone(l) => o = 0

\* c is what data dependencies leave.
DataSliced(c, l) ==
    /\ Alone(l) => Ordered(c, 0)
    /\ DefinedOnce(job) => Fresh(c, DOMAIN c)

\* The positions on of c are left, and tr is tried next.
Dropping(c, on, tr, l) ==
    /\ tr \in Nat \ {0} /\ on \subseteq DOMAIN c
    /\ Alone(l) => Ordered(c, 0)
    /\ NoOverflow => Infer(Pick(c, on)) = {}
    /\ (NoOverflow /\ DefinedOnce(job)) => \E t : Greedy(c, on, tr, t)

\* c is returned.
Explains(c, l) ==
    /\ Alone(l) => Ordered(c, 0)
    /\ (NoOverflow /\ DefinedOnce(job)) => Minimal(c)

CoreInv ==
    /\ onlyData \in BOOLEAN
    /\ pc = "start" => trace = <<>>
    /\ pc \in {"start", "solve", "slice", "recheck"} => tried = 1
    /\ pc = "solve" => Solving(trace, state, layer, block, stmt)
    /\ pc \in {"slice", "recheck"} => Solved(trace, layer, block, stmt)
    /\ pc = "recheck" => onlyData /\ enabled = DOMAIN core /\ DataSliced(core, layer)
    /\ pc = "drop" => Dropping(core, enabled, tried, layer)
    /\ pc = "error" => ~NoOverflow
    /\ (pc = "done" /\ ~result) => Explains(core, layer)

LEMMA InferFrame ==
    ASSUME job' = job
    PROVE  /\ \A refs : Infer(refs)' = Infer(refs)
           /\ \A refs, o : Ordered(refs, o)' <=> Ordered(refs, o)
           /\ \A refs, qs : Fresh(refs, qs)' <=> Fresh(refs, qs)
           /\ NoOverflow' <=> NoOverflow
           /\ DefinedOnce(job)' <=> DefinedOnce(job)
           /\ \A l : Alone(l)' <=> Alone(l)
<1>1. \A refs : Infer(refs)' = Infer(refs)
  BY DEF Infer, Stores, Transform, Abstract, StatementAt
<1>2. \A refs, o : Ordered(refs, o)' <=> Ordered(refs, o)
  BY DEF Ordered, Precedes
<1>3. \A refs, qs : Fresh(refs, qs)' <=> Fresh(refs, qs)
  BY DEF Fresh, StatementAt
<1>4. NoOverflow' <=> NoOverflow
  BY DEF NoOverflow
<1>5. DefinedOnce(job)' <=> DefinedOnce(job)
  OBVIOUS
<1>6. \A l : Alone(l)' <=> Alone(l)
  BY DEF Alone
<1> QED BY <1>1, <1>2, <1>3, <1>4, <1>5, <1>6

LEMMA CollectFrame ==
    ASSUME job' = job
    PROVE  /\ \A f, refs, o, b, i : Collects(f, refs, o, b, i)' <=> Collects(f, refs, o, b, i)
           /\ \A f, refs, o, b, i : Collected(f, refs, o, b, i)' <=> Collected(f, refs, o, b, i)
           /\ \A refs, o, b, i : TwoLayers(refs, o, b, i)' <=> TwoLayers(refs, o, b, i)
           /\ \A refs, n : Booleans(refs, n)' <=> Booleans(refs, n)
<1>1. \A f, refs, o : Passes(f, refs, o)' <=> Passes(f, refs, o)
  BY DEF Passes, Stores, Transform, Abstract, StatementAt
<1>2. \A refs, o : Ordered(refs, o)' <=> Ordered(refs, o)
  BY InferFrame
<1>3. \A f, refs, o, b, i : Collects(f, refs, o, b, i)' <=> Collects(f, refs, o, b, i)
  BY <1>1, <1>2 DEF Collects, Comes
<1>4. \A f, refs, o, b, i : Collected(f, refs, o, b, i)' <=> Collected(f, refs, o, b, i)
  BY <1>1, <1>2 DEF Collected
<1>5. \A refs, n : Booleans(refs, n)' <=> Booleans(refs, n)
  BY DEF Booleans, StatementAt
<1>6. \A refs, o, b, i : Complete(refs, o, b, i)' <=> Complete(refs, o, b, i)
  BY DEF Complete
<1>7. \A refs, o, b, i : TwoLayers(refs, o, b, i)' <=> TwoLayers(refs, o, b, i)
  BY <1>5, <1>6 DEF TwoLayers
<1> QED BY <1>3, <1>4, <1>5, <1>7

LEMMA CoreFrame ==
    ASSUME job' = job
    PROVE  /\ Solving(trace, state, layer, block, stmt)' <=> Solving(trace', state', layer', block', stmt')
           /\ Solved(trace, layer, block, stmt)' <=> Solved(trace', layer', block', stmt')
           /\ DataSliced(core, layer)' <=> DataSliced(core', layer')
           /\ Dropping(core, enabled, tried, layer)' <=> Dropping(core', enabled', tried', layer')
           /\ NoOverflow' <=> NoOverflow
           /\ Explains(core, layer)' <=> Explains(core', layer')
<1>1. Solving(trace, state, layer, block, stmt)' <=> Solving(trace', state', layer', block', stmt')
  BY CollectFrame, InferFrame DEF Solving
<1>2. Solved(trace, layer, block, stmt)' <=> Solved(trace', layer', block', stmt')
  BY CollectFrame, InferFrame DEF Solved
<1>3. DataSliced(core, layer)' <=> DataSliced(core', layer')
  BY InferFrame DEF DataSliced
<1>4. \A refs, on, tr, t : Greedy(refs, on, tr, t)' <=> Greedy(refs, on, tr, t)
  <2> TAKE refs, on, tr, t
  <2>1. Fresh(refs, (t + 1)..Len(refs))' <=> Fresh(refs, (t + 1)..Len(refs))
    BY InferFrame
  <2>2. Infer(Pick(refs, (t + 1)..Len(refs)))' = Infer(Pick(refs, (t + 1)..Len(refs)))
    BY InferFrame
  <2>3. \A k : Infer(Pick(refs, on \ {k}))' = Infer(Pick(refs, on \ {k}))
    BY InferFrame
  <2> QED BY <2>1, <2>2, <2>3 DEF Greedy
<1>5. Dropping(core, enabled, tried, layer)' <=> Dropping(core', enabled', tried', layer')
  BY <1>4, InferFrame DEF Dropping
<1>6. \A refs : Minimal(refs)' <=> Minimal(refs)
  BY InferFrame DEF Minimal
<1>7. Explains(core, layer)' <=> Explains(core', layer')
  BY <1>6, InferFrame DEF Explains
<1> QED BY <1>1, <1>2, <1>3, <1>5, <1>7, InferFrame

-----------------------------------------------------------------------------
LEMMA SolvingBegins ==
    ASSUME JobFits(job), NEW refs \in Seq(Refs), NEW l, Alone(l) => refs = <<>>,
           Booleans(refs, Len(refs))
    PROVE  Solving(refs, Stores, l, 1, 1)
<1>1. PICK o \in Nat : o = Len(refs)
  OBVIOUS
<1>2. PICK f : Collects(f, refs, o, 1, 1) /\ f[Len(refs)] = Stores
  BY <1>1, CollectsNothing
<1>3. Complete(refs, o, 1, 1)
  <2>1. \A q \in DOMAIN job.path : ~(q < 1)
    BY DEF JobFits
  <2>2. \A q \in DOMAIN job.path : \A m \in DOMAIN job.code[job.path[q]] : ~(m < 1)
    <3> TAKE q \in DOMAIN job.path
    <3>1. q \in 1..Len(job.path)
      BY DEF JobFits
    <3> QED BY <3>1, CodeFits
  <2> QED BY <2>1, <2>2 DEF Complete
<1>4. TwoLayers(refs, o, 1, 1)
  BY <1>1, <1>3 DEF TwoLayers
<1>5. Alone(l) => o = 0
  BY <1>1
<1> QED BY <1>2, <1>4, <1>5 DEF Solving

LEMMA BooleansMore ==
    ASSUME NEW refs \in Seq(Refs), NEW ref \in Refs, NEW n \in 0..Len(refs), Booleans(refs, n)
    PROVE  /\ Booleans(Append(refs, ref), n)
           /\ (n = Len(refs) /\ IsBoolean(job, StatementAt(ref))) =>
                  Booleans(Append(refs, ref), Len(Append(refs, ref)))
<1>1. PICK m \in Nat : m = Len(refs)
  OBVIOUS
<1>2. PICK more : more = Append(refs, ref)
  OBVIOUS
<1>3. Len(more) = m + 1 /\ more[m + 1] = ref /\ \A k \in 1..m : more[k] = refs[k]
  BY <1>1, <1>2
<1>4. \A k \in 1..n : k \in 1..m
  BY <1>1
<1>5. Booleans(more, n)
  BY <1>3, <1>4 DEF Booleans
<1>6. ASSUME n = m, IsBoolean(job, StatementAt(ref)), NEW k \in 1..(m + 1)
      PROVE  IsBoolean(job, StatementAt(more[k]))
  <2>1. k = m + 1 \/ k \in 1..m
    OBVIOUS
  <2> QED BY <1>3, <1>5, <1>6, <2>1 DEF Booleans
<1> QED BY <1>1, <1>2, <1>3, <1>5, <1>6 DEF Booleans

LEMMA TwoLayersMore ==
    ASSUME JobFits(job), NEW refs \in Seq(Refs), NEW ref \in Refs, NEW o \in 0..Len(refs),
           NEW b \in DOMAIN job.path, NEW i \in Nat, ref = <<job.path[b], i>>, TwoLayers(refs, o, b, i)
    PROVE  TwoLayers(Append(refs, ref), o, b, i) /\ TwoLayers(Append(refs, ref), o, b, i + 1)
<1>1. PICK n \in Nat : n = Len(refs)
  OBVIOUS
<1>2. PICK more : more = Append(refs, ref)
  OBVIOUS
<1>3. Len(more) = n + 1 /\ more[n + 1] = ref /\ \A k \in 1..n : more[k] = refs[k]
  BY <1>1, <1>2
<1> SUFFICES ASSUME o > 0
             PROVE  Booleans(more, o) /\ Complete(more, o, b, i) /\ Complete(more, o, b, i + 1)
  BY <1>2 DEF TwoLayers
<1>4. Booleans(refs, o) /\ Complete(refs, o, b, i)
  BY DEF TwoLayers
<1>5. Booleans(more, o)
  BY <1>2, <1>4, BooleansMore
<1>6. ASSUME NEW q \in DOMAIN job.path, NEW m \in DOMAIN job.code[job.path[q]], q < b \/ (q = b /\ m < i)
      PROVE  \E k \in (o + 1)..(n + 1) : more[k] = <<job.path[q], m>>
  <2>1. PICK k \in (o + 1)..n : refs[k] = <<job.path[q], m>>
    BY <1>1, <1>4, <1>6 DEF Complete
  <2>2. k \in (o + 1)..(n + 1) /\ k \in 1..n
    BY <1>1, <2>1
  <2> QED BY <1>3, <2>1, <2>2
<1>7. Complete(more, o, b, i)
  BY <1>3, <1>6 DEF Complete
<1>8. ASSUME NEW q \in DOMAIN job.path, NEW m \in DOMAIN job.code[job.path[q]], q < b \/ (q = b /\ m < i + 1)
      PROVE  \E k \in (o + 1)..(n + 1) : more[k] = <<job.path[q], m>>
  <2>1. m \in Nat
    <3>1. q \in 1..Len(job.path)
      BY DEF JobFits
    <3>2. /\ Len(job.code[job.path[q]]) \in Nat
          /\ DOMAIN job.code[job.path[q]] = 1..Len(job.code[job.path[q]])
      BY <3>1, CodeFits
    <3> QED BY <3>2
  <2>2. CASE q = b /\ m = i
    <3>1. n + 1 \in (o + 1)..(n + 1)
      BY <1>1
    <3> QED BY <1>3, <2>2, <3>1
  <2>3. CASE ~(q = b /\ m = i)
    <3>1. q < b \/ (q = b /\ m < i)
      BY <1>8, <2>1, <2>3
    <3> QED BY <1>6, <3>1
  <2> QED BY <2>2, <2>3
<1>9. Complete(more, o, b, i + 1)
  BY <1>3, <1>8 DEF Complete
<1> QED BY <1>5, <1>7, <1>9

LEMMA SolvingMore ==
    ASSUME JobFits(job), IsPath(job), NEW refs \in Seq(Refs), NEW ref \in Refs,
           NEW b \in DOMAIN job.path, NEW i \in Nat, ref = <<job.path[b], i>>,
           NEW S, NEW l, Solving(refs, S, l, b, i), l = "bool" => IsBoolean(job, StatementAt(ref)),
           NEW T, T = Transform(S, StatementAt(ref))
    PROVE  /\ T # {} => Solving(Append(refs, ref), T, l, b, i + 1)
           /\ T = {} => Solved(Append(refs, ref), l, b, i)
<1>1. PICK o, f : /\ Collects(f, refs, o, b, i) /\ TwoLayers(refs, o, b, i)
                  /\ f[Len(refs)] = S
                  /\ Alone(l) => o = 0
                  /\ l = "bool" => Booleans(refs, Len(refs))
  BY DEF Solving
<1>2. PICK more : more = Append(refs, ref)
  OBVIOUS
<1>3. PICK g : /\ g[Len(more)] = T
               /\ T # {} => Collects(g, more, o, b, i + 1)
               /\ T = {} => Collected(g, more, o, b, i)
  <2>1. Collects(f, refs, o, b, i) /\ Place(ref, b, i) /\ Ends(f, refs, S)
    BY <1>1 DEF Place, Ends
  <2>2. \E g : /\ Ends(g, Append(refs, ref), T)
               /\ T # {} => Collects(g, Append(refs, ref), o, b, i + 1)
               /\ T = {} => Collected(g, Append(refs, ref), o, b, i)
    BY <2>1, CollectsMore
  <2> QED BY <1>2, <2>2 DEF Ends
<1>4. o \in 0..Len(refs)
  BY <1>1 DEF Collects, Passes
<1>5. TwoLayers(more, o, b, i) /\ TwoLayers(more, o, b, i + 1)
  BY <1>1, <1>2, <1>4, TwoLayersMore
<1>6. l = "bool" => Booleans(more, Len(more))
  <2>1. Len(refs) \in 0..Len(refs)
    OBVIOUS
  <2> QED BY <1>1, <1>2, <2>1, BooleansMore
<1>7. T # {} => Solving(more, T, l, b, i + 1)
  BY <1>1, <1>3, <1>5, <1>6 DEF Solving
<1>8. T = {} => Solved(more, l, b, i)
  BY <1>1, <1>3, <1>5 DEF Solved
<1> QED BY <1>2, <1>7, <1>8

\* The first layer passes over a statement.
LEMMA SolvingPasses ==
    ASSUME JobFits(job), NEW refs \in Seq(Refs), NEW S, NEW b \in Nat, NEW i \in Nat,
           Solving(refs, S, "bool", b, i)
    PROVE  Solving(refs, S, "bool", b, i + 1)
<1>1. PICK o, f : /\ Collects(f, refs, o, b, i) /\ f[Len(refs)] = S
                  /\ o = 0 /\ Booleans(refs, Len(refs))
  BY DEF Solving, Alone
<1>2. Collects(f, refs, o, b, i + 1)
  BY <1>1, CollectsLater
<1>3. TwoLayers(refs, o, b, i + 1)
  BY <1>1 DEF TwoLayers
<1> QED BY <1>1, <1>2, <1>3 DEF Solving

LEMMA SolvingNext ==
    ASSUME JobFits(job), NEW refs \in Seq(Refs), NEW S, NEW l, NEW b \in DOMAIN job.path, NEW i \in Nat,
           i > Len(job.code[job.path[b]]), Solving(refs, S, l, b, i)
    PROVE  Solving(refs, S, l, b + 1, 1)
<1>1. PICK o, f : /\ Collects(f, refs, o, b, i) /\ TwoLayers(refs, o, b, i)
                  /\ f[Len(refs)] = S
                  /\ Alone(l) => o = 0
                  /\ l = "bool" => Booleans(refs, Len(refs))
  BY DEF Solving
<1>2. b \in Nat /\ b + 1 \in Nat
  BY DEF JobFits
<1>3. Collects(f, refs, o, b + 1, 1)
  BY <1>1, <1>2, CollectsLater
<1>4. ASSUME Complete(refs, o, b, i) PROVE Complete(refs, o, b + 1, 1)
  <2> SUFFICES ASSUME NEW q \in DOMAIN job.path, NEW m \in DOMAIN job.code[job.path[q]],
                      q < b + 1 \/ (q = b + 1 /\ m < 1)
               PROVE  q < b \/ (q = b /\ m < i)
    BY <1>4 DEF Complete
  <2>1. q \in 1..Len(job.path)
    BY DEF JobFits
  <2>2. m \in 1..Len(job.code[job.path[q]]) /\ Len(job.code[job.path[q]]) \in Nat
    BY <2>1, CodeFits
  <2>3. m \in Nat /\ m >= 1
    BY <2>2
  <2>4. q < b \/ q = b
    BY <1>2, <2>1, <2>3
  <2>5. q = b => m < i
    BY <2>2
  <2> QED BY <2>4, <2>5
<1>5. TwoLayers(refs, o, b + 1, 1)
  BY <1>1, <1>4 DEF TwoLayers
<1> QED BY <1>1, <1>3, <1>5 DEF Solving

-----------------------------------------------------------------------------
(* What the steps of minimize_path do to it *)

LEMMA PickDomain ==
    ASSUME NEW c \in Seq(Refs)
    PROVE  Pick(c, DOMAIN c) = c
<1>1. PICK n \in Nat : n = Len(c)
  OBVIOUS
<1>2. IsList(c, n) /\ DOMAIN c = 1..n
  BY <1>1, SeqIsList
<1> QED BY <1>2, PickWhole

LEMMA DroppingBegins ==
    ASSUME NEW c \in Seq(Refs), NEW l, Alone(l) => Ordered(c, 0), NoOverflow => Infer(c) = {},
           (NoOverflow /\ DefinedOnce(job)) => \E t : FreshRest(c, t)
    PROVE  Dropping(c, DOMAIN c, 1, l)
<1>1. NoOverflow => Infer(Pick(c, DOMAIN c)) = {}
  BY PickDomain
<1>2. ASSUME NoOverflow, DefinedOnce(job) PROVE \E t : Greedy(c, DOMAIN c, 1, t)
  <2>1. PICK t : FreshRest(c, t)
    BY <1>2
  <2>2. Greedy(c, DOMAIN c, 1, t)
    BY <2>1, GreedyBegins DEF FreshRest
  <2> QED BY <2>2
<1> QED BY <1>1, <1>2 DEF Dropping

LEMMA ConfirmedSlice ==
    ASSUME NEW c \in Seq(Refs), NEW l, DataSliced(c, l), Infer(c) = {}
    PROVE  Dropping(c, DOMAIN c, 1, l)
<1>1. ASSUME DefinedOnce(job) PROVE FreshRest(c, 0)
  <2>1. PICK n \in Nat : n = Len(c)
    OBVIOUS
  <2>2. 0 \in 0..n /\ (0 + 1)..n = DOMAIN c
    BY <2>1
  <2>3. Fresh(c, DOMAIN c) /\ Infer(Pick(c, DOMAIN c)) = {}
    BY <1>1, PickDomain DEF DataSliced
  <2> QED BY <2>1, <2>2, <2>3 DEF FreshRest
<1>2. DefinedOnce(job) => \E t : FreshRest(c, t)
  BY <1>1
<1>3. Alone(l) => Ordered(c, 0)
  BY DEF DataSliced
<1> QED BY <1>2, <1>3, DroppingBegins

LEMMA SlicedWell ==
    ASSUME JobFits(job), IsPath(job), NEW refs \in Seq(Refs), NEW b \in DOMAIN job.path, NEW i \in Nat,
           NEW l, Solved(refs, l, b, i), NEW dataOnly \in BOOLEAN,
           NEW c \in Seq(Refs), Gives(refs, i, dataOnly, "explanation", c)
    PROVE  /\ dataOnly => DataSliced(c, l)
           /\ ~dataOnly => Dropping(c, DOMAIN c, 1, l)
<1>1. PICK o, f : /\ Collected(f, refs, o, b, i) /\ TwoLayers(refs, o, b, i)
                  /\ Alone(l) => o = 0
  BY DEF Solved
<1>2. /\ o = 0 => Ordered(c, 0)
      /\ (dataOnly /\ DefinedOnce(job)) => Fresh(c, DOMAIN c)
      /\ (~dataOnly /\ NoOverflow) => Infer(c) = {}
      /\ (~dataOnly /\ NoOverflow /\ DefinedOnce(job)) => \E t : FreshRest(c, t)
  BY <1>1, Handed
<1>3. Alone(l) => Ordered(c, 0)
  BY <1>1, <1>2
<1>4. dataOnly => DataSliced(c, l)
  BY <1>2, <1>3 DEF DataSliced
<1>5. ~dataOnly => Dropping(c, DOMAIN c, 1, l)
  BY <1>2, <1>3, DroppingBegins
<1> QED BY <1>4, <1>5

LEMMA DroppingStep ==
    ASSUME JobFits(job), NEW c \in Seq(Refs), NEW on, NEW tr \in DOMAIN c, NEW l,
           Dropping(c, on, tr, l),
           NEW less, less = IF Infer(Pick(c, on \ {tr})) = {} THEN on \ {tr} ELSE on
    PROVE  Dropping(c, less, tr + 1, l)
<1>1. tr + 1 \in Nat \ {0}
  BY DEF Dropping
<1>2. less \subseteq DOMAIN c /\ (NoOverflow => Infer(Pick(c, less)) = {})
  BY DEF Dropping
<1>3. ASSUME NoOverflow, DefinedOnce(job) PROVE \E t : Greedy(c, less, tr + 1, t)
  <2>1. PICK t : Greedy(c, on, tr, t)
    BY <1>3 DEF Dropping
  <2>2. Infer(Pick(c, on)) = {}
    BY <1>3 DEF Dropping
  <2>3. Greedy(c, less, tr + 1, t)
    BY <2>1, <2>2, GreedyStep
  <2> QED BY <2>3
<1>4. Alone(l) => Ordered(c, 0)
  BY DEF Dropping
<1> QED BY <1>1, <1>2, <1>3, <1>4 DEF Dropping

LEMMA DroppingEnds ==
    ASSUME JobFits(job), NEW c \in Seq(Refs), NEW on, NEW tr, tr \notin DOMAIN c, NEW l,
           Dropping(c, on, tr, l)
    PROVE  Explains(Pick(c, on), l) /\ (NoOverflow => Infer(Pick(c, on)) = {})
<1>1. /\ tr \in Nat \ {0} /\ on \subseteq DOMAIN c
      /\ NoOverflow => Infer(Pick(c, on)) = {}
      /\ Alone(l) => Ordered(c, 0)
  BY DEF Dropping
<1>2. Alone(l) => Ordered(Pick(c, on), 0)
  BY <1>1, PickOrdered
<1>3. ASSUME NoOverflow, DefinedOnce(job) PROVE Minimal(Pick(c, on))
  <2>1. PICK t : Greedy(c, on, tr, t)
    BY <1>3 DEF Dropping
  <2> QED BY <1>1, <2>1, GreedyEnds
<1> QED BY <1>1, <1>2, <1>3 DEF Explains

\* One statement alone.
LEMMA SingleExplains ==
    ASSUME JobFits(job), NEW c \in Seq(Refs), Len(c) = 1, NEW l
    PROVE  Explains(c, l)
<1>1. Ordered(c, 0)
  BY SingleFresh
<1>2. ASSUME NEW k \in DOMAIN c PROVE Infer(RemoveAt(c, k)) # {}
  <2>1. k = 1
    OBVIOUS
  <2>2. RemoveAt(c, k) = <<>>
    BY <2>1 DEF RemoveAt
  <2> QED BY <2>2, InferNothing, SomeStore
<1> QED BY <1>1, <1>2 DEF Explains, Minimal

-----------------------------------------------------------------------------
(* The invariant is inductive, relative to PathInv. *)

\* Before the explanation.
LEMMA CoreStays ==
    ASSUME CoreInv, job' = job, pc' = "solve", pc \in {"start", "solve"},
           Solving(trace', state', layer', block', stmt'),
           UNCHANGED <<onlyData, tried>>
    PROVE  CoreInv'
<1>1. Solving(trace, state, layer, block, stmt)'
  BY CoreFrame
<1>2. onlyData' \in BOOLEAN /\ tried' = 1
  BY DEF CoreInv
<1> QED BY <1>1, <1>2 DEF CoreInv

LEMMA CoreOfNone ==
    ASSUME CoreInv, pc' = "done", result' = TRUE, UNCHANGED onlyData
    PROVE  CoreInv'
BY DEF CoreInv

LEMMA CoreStart ==
    ASSUME PathInv, CoreInv, JobFits(job), Start
    PROVE  CoreInv'
<1>1. /\ job' = job /\ trace' = trace /\ trace = <<>> /\ pc = "start"
      /\ UNCHANGED <<onlyData, tried>>
  BY DEF Start, CoreInv
<1>4. CASE IsCyclic(job)
  BY <1>1, <1>4 DEF Start, CoreInv
<1>2. CASE ~IsCyclic(job) /\ (job.path = <<>> \/ ~IsPath(job))
  BY <1>1, <1>2, CoreOfNone DEF Start, Return
<1>3. CASE ~IsCyclic(job) /\ ~(job.path = <<>> \/ ~IsPath(job))
  <2>1. pc' = "solve" /\ state' = Stores /\ block' = 1 /\ stmt' = 1
    BY <1>3 DEF Start, BeginLayer
  <2>2. PICK refs, l : refs = <<>> /\ l = layer'
    OBVIOUS
  <2>3. refs \in Seq(Refs) /\ Len(refs) = 0
    BY <2>2
  <2>4. Booleans(refs, Len(refs))
    BY <2>3 DEF Booleans
  <2>5. Solving(refs, Stores, l, 1, 1)
    BY <2>2, <2>3, <2>4, SolvingBegins
  <2> QED BY <1>1, <2>1, <2>2, <2>5, CoreStays
<1> QED BY <1>2, <1>3, <1>4

LEMMA CoreInterpret ==
    ASSUME PathInv, CoreInv, JobFits(job), Interpret
    PROVE  CoreInv'
<1>1. /\ pc = "solve" /\ job' = job /\ layer' = layer /\ block' = block
      /\ trace' = Append(trace, <<job.path[block], stmt>>)
      /\ state' = Transform(state, Code[stmt])
      /\ layer = "bool" => IsBoolean(job, Code[stmt])
      /\ UNCHANGED <<onlyData, tried>>
  BY DEF Interpret, PathInv, Located
<1>2. /\ trace \in Seq(Refs) /\ Located /\ IsPath(job)
      /\ Solving(trace, state, layer, block, stmt)
  BY <1>1 DEF PathInv, CoreInv, Located
<1>3. /\ block \in DOMAIN job.path /\ stmt \in Nat /\ <<job.path[block], stmt>> \in Refs
  BY <1>2, Position DEF Interpret, JobFits
<1>4. PICK ref : ref = <<job.path[block], stmt>>
  OBVIOUS
<1>5. StatementAt(ref) = Code[stmt]
  BY <1>4 DEF StatementAt, Code
<1>6. PICK T : T = Transform(state, StatementAt(ref))
  OBVIOUS
<1>7. /\ T # {} => Solving(Append(trace, ref), T, layer, block, stmt + 1)
      /\ T = {} => Solved(Append(trace, ref), layer, block, stmt)
  BY <1>1, <1>2, <1>3, <1>4, <1>5, <1>6, SolvingMore
<1>8. trace' = Append(trace, ref) /\ state' = T
  BY <1>1, <1>4, <1>5, <1>6
<1>9. CASE T = {}
  <2>1. pc' = "slice" /\ stmt' = stmt
    BY <1>8, <1>9 DEF Interpret
  <2>2. Solved(trace', layer', block', stmt')
    BY <1>1, <1>7, <1>8, <1>9, <2>1
  <2>3. Solved(trace, layer, block, stmt)'
    BY <1>1, <2>2, CoreFrame
  <2> QED BY <1>1, <2>1, <2>3 DEF CoreInv
<1>10. CASE T # {}
  <2>1. pc' = "solve" /\ stmt' = stmt + 1
    BY <1>1, <1>8, <1>10 DEF Interpret
  <2>2. Solving(trace', state', layer', block', stmt')
    BY <1>1, <1>7, <1>8, <1>10, <2>1
  <2> QED BY <1>1, <2>1, <2>2, CoreStays
<1> QED BY <1>9, <1>10

LEMMA CoreSkip ==
    ASSUME PathInv, CoreInv, JobFits(job), Skip
    PROVE  CoreInv'
<1>1. /\ pc = "solve" /\ pc' = "solve" /\ job' = job /\ layer = "bool" /\ layer' = layer /\ block' = block
      /\ trace' = trace /\ state' = state /\ stmt' = stmt + 1
      /\ UNCHANGED <<onlyData, tried>>
  BY DEF Skip
<1>2. /\ trace \in Seq(Refs) /\ Located
      /\ Solving(trace, state, "bool", block, stmt)
  BY <1>1 DEF PathInv, CoreInv
<1>3. block \in Nat /\ stmt \in Nat
  BY <1>2, Position
<1>4. Solving(trace, state, "bool", block, stmt + 1)
  BY <1>2, <1>3, SolvingPasses
<1> QED BY <1>1, <1>4, CoreStays

LEMMA CoreNextBlock ==
    ASSUME PathInv, CoreInv, JobFits(job), NextBlock
    PROVE  CoreInv'
<1>1. /\ pc = "solve" /\ pc' = "solve" /\ job' = job /\ layer' = layer /\ block' = block + 1
      /\ trace' = trace /\ state' = state /\ stmt' = 1 /\ stmt > Len(Code)
      /\ UNCHANGED <<onlyData, tried>>
  BY DEF NextBlock
<1>2. /\ trace \in Seq(Refs) /\ Located
      /\ Solving(trace, state, layer, block, stmt)
  BY <1>1 DEF PathInv, CoreInv
<1>3. block \in DOMAIN job.path /\ stmt \in Nat /\ stmt > Len(job.code[job.path[block]])
  BY <1>1, <1>2, Position DEF JobFits, Code
<1>4. Solving(trace, state, layer, block + 1, 1)
  BY <1>2, <1>3, SolvingNext
<1> QED BY <1>1, <1>4, CoreStays

LEMMA CoreEndOfPath ==
    ASSUME PathInv, CoreInv, JobFits(job), EndOfPath
    PROVE  CoreInv'
<1>1. pc = "solve" /\ job' = job /\ trace' = trace /\ UNCHANGED <<onlyData, tried>>
  BY DEF EndOfPath
<1>2. /\ trace \in Seq(Refs) /\ Located
      /\ Solving(trace, state, layer, block, stmt)
  BY <1>1 DEF PathInv, CoreInv
<1>3. CASE layer = "bool"
  <2>1. pc' = "solve" /\ layer' = "all" /\ state' = Stores /\ block' = 1 /\ stmt' = 1
    BY <1>1, <1>3 DEF EndOfPath, BeginLayer
  <2>2. Booleans(trace, Len(trace))
    BY <1>2, <1>3 DEF Solving
  <2>3. ~Alone("all")
    BY <1>2, <1>3 DEF Alone, Located
  <2>4. Solving(trace, Stores, "all", 1, 1)
    BY <1>2, <2>2, <2>3, SolvingBegins
  <2> QED BY <1>1, <2>1, <2>4, CoreStays
<1>4. CASE layer # "bool"
  BY <1>1, <1>4, CoreOfNone DEF EndOfPath, Return
<1> QED BY <1>3, <1>4

-----------------------------------------------------------------------------
LEMMA CoreDrops ==
    ASSUME CoreInv, job' = job, pc' = "drop", Dropping(core', enabled', tried', layer'),
           UNCHANGED onlyData
    PROVE  CoreInv'
<1>1. Dropping(core, enabled, tried, layer)'
  BY CoreFrame
<1> QED BY <1>1 DEF CoreInv

LEMMA CoreReturns ==
    ASSUME CoreInv, job' = job, pc' = "done", Explains(core', layer'), UNCHANGED onlyData
    PROVE  CoreInv'
<1>1. Explains(core, layer)'
  BY CoreFrame
<1> QED BY <1>1 DEF CoreInv

LEMMA CoreSlice ==
    ASSUME PathInv, CoreInv, JobFits(job), Slice
    PROVE  CoreInv'
<1>1. /\ pc = "slice" /\ job' = job /\ trace' = trace /\ layer' = layer /\ block' = block
      /\ stmt' = stmt /\ UNCHANGED <<onlyData, tried>>
      /\ enabled' = DOMAIN core'
  BY DEF Slice
<1>2. /\ trace \in Seq(Refs) /\ trace # <<>> /\ core = trace /\ Located /\ IsPath(job)
      /\ Solved(trace, layer, block, stmt) /\ onlyData \in BOOLEAN /\ tried = 1
  BY <1>1 DEF PathInv, CoreInv, Located
<1>3. block \in DOMAIN job.path /\ stmt \in Nat
  BY <1>2, Position DEF JobFits
<1>4. PICK e : e = Explanation(core, stmt, onlyData)
  OBVIOUS
<1>5. e.kind \in {"none", "trivial", "explanation"} /\ e.core \in Seq(Refs)
  BY <1>2, <1>4, Explained
<1>6. PICK c : c = e.core
  OBVIOUS
<1>7. Gives(trace, stmt, onlyData, e.kind, c)
  BY <1>2, <1>4, <1>6 DEF Gives
<1>8. CASE e.kind = "none"
  <2>1. pc' = "done" /\ result' = TRUE
    BY <1>4, <1>8 DEF Slice, Return
  <2> QED BY <1>1, <2>1, CoreOfNone
<1>9. CASE e.kind = "trivial"
  <2>1. pc' = "done" /\ core' = c
    BY <1>4, <1>6, <1>9 DEF Slice, Return
  <2>2. Len(c) = 1
    BY <1>2, <1>7, <1>9, Trivial
  <2>3. Explains(c, layer)
    BY <1>5, <1>6, <2>2, SingleExplains
  <2> QED BY <1>1, <2>1, <2>3, CoreReturns
<1>10. CASE e.kind = "explanation"
  <2>1. core' = c /\ pc' = IF onlyData THEN "recheck" ELSE "drop"
    BY <1>4, <1>6, <1>10 DEF Slice
  <2>2. /\ onlyData => DataSliced(c, layer)
        /\ ~onlyData => Dropping(c, DOMAIN c, 1, layer)
    <3>1. Gives(trace, stmt, onlyData, "explanation", c)
      BY <1>7, <1>10
    <3> QED BY <1>2, <1>3, <1>5, <1>6, <3>1, SlicedWell
  <2>3. CASE onlyData
    <3>1. DataSliced(core, layer)'
      BY <1>1, <2>1, <2>2, <2>3, CoreFrame
    <3>2. Solved(trace, layer, block, stmt)'
      BY <1>1, <1>2, CoreFrame
    <3>3. pc' = "recheck"
      BY <2>1, <2>3
    <3> QED BY <1>1, <1>2, <2>3, <3>1, <3>2, <3>3 DEF CoreInv
  <2>4. CASE ~onlyData
    <3>1. pc' = "drop"
      BY <2>1, <2>4
    <3>2. Dropping(core', enabled', tried', layer')
      BY <1>1, <1>2, <2>1, <2>2, <2>4
    <3> QED BY <1>1, <3>1, <3>2, CoreDrops
  <2> QED BY <2>3, <2>4
<1> QED BY <1>5, <1>8, <1>9, <1>10

LEMMA CoreRecheck ==
    ASSUME PathInv, CoreInv, JobFits(job), Recheck
    PROVE  CoreInv'
<1>1. /\ pc = "recheck" /\ job' = job /\ trace' = trace /\ layer' = layer /\ block' = block
      /\ stmt' = stmt /\ UNCHANGED <<enabled, tried>>
  BY DEF Recheck
<1>2. /\ core \in Seq(Refs) /\ Solved(trace, layer, block, stmt) /\ tried = 1
      /\ enabled = DOMAIN core /\ DataSliced(core, layer)
  BY <1>1 DEF PathInv, CoreInv
<1>3. CASE Infer(core) = {}
  <2>1. pc' = "drop" /\ core' = core /\ onlyData' = onlyData
    BY <1>3 DEF Recheck
  <2>2. Dropping(core, DOMAIN core, 1, layer)
    BY <1>2, <1>3, ConfirmedSlice
  <2>3. Dropping(core', enabled', tried', layer')
    BY <1>1, <1>2, <2>1, <2>2
  <2> QED BY <1>1, <2>1, <2>3, CoreDrops
<1>4. CASE Infer(core) # {}
  <2>1. pc' = "slice" /\ onlyData' = FALSE
    BY <1>4 DEF Recheck
  <2>2. Solved(trace, layer, block, stmt)'
    BY <1>1, <1>2, CoreFrame
  <2> QED BY <1>1, <1>2, <2>1, <2>2 DEF CoreInv
<1> QED BY <1>3, <1>4

LEMMA CoreDrop ==
    ASSUME PathInv, CoreInv, JobFits(job), Drop
    PROVE  CoreInv'
<1>1. /\ pc = "drop" /\ pc' = "drop" /\ job' = job /\ layer' = layer /\ core' = core
      /\ tried \in DOMAIN core /\ tried' = tried + 1 /\ UNCHANGED onlyData
      /\ enabled' = IF Infer(Pick(core, enabled \ {tried})) = {} THEN enabled \ {tried} ELSE enabled
  BY DEF Drop
<1>2. core \in Seq(Refs) /\ Dropping(core, enabled, tried, layer)
  BY <1>1 DEF PathInv, CoreInv
<1>3. PICK less : less = IF Infer(Pick(core, enabled \ {tried})) = {} THEN enabled \ {tried} ELSE enabled
  OBVIOUS
<1>4. Dropping(core, less, tried + 1, layer)
  BY <1>1, <1>2, <1>3, DroppingStep
<1>5. Dropping(core', enabled', tried', layer')
  BY <1>1, <1>3, <1>4
<1> QED BY <1>1, <1>5, CoreDrops

LEMMA CoreSanityCheck ==
    ASSUME PathInv, CoreInv, JobFits(job), SanityCheck
    PROVE  CoreInv'
<1>1. /\ pc = "drop" /\ job' = job /\ layer' = layer /\ tried \notin DOMAIN core
      /\ UNCHANGED onlyData /\ core' = Pick(core, enabled)
  BY DEF SanityCheck
<1>2. core \in Seq(Refs) /\ Dropping(core, enabled, tried, layer)
  BY <1>1 DEF PathInv, CoreInv
<1>3. Explains(Pick(core, enabled), layer) /\ (NoOverflow => Infer(Pick(core, enabled)) = {})
  BY <1>1, <1>2, DroppingEnds
<1>4. CASE Infer(core') = {}
  <2>1. pc' = "done"
    BY <1>4 DEF SanityCheck, Return
  <2> QED BY <1>1, <1>3, <2>1, CoreReturns
<1>5. CASE Infer(core') # {}
  <2>1. pc' = "error"
    BY <1>5 DEF SanityCheck
  <2>2. ~NoOverflow'
    BY <1>1, <1>3, <1>5, CoreFrame
  <2> QED BY <1>1, <2>1, <2>2 DEF CoreInv
<1> QED BY <1>4, <1>5

LEMMA CoreInductive == Spec => []CoreInv
<1>1. Init => CoreInv
  BY DEF Init, CoreInv
<1>2. PathInv /\ CoreInv /\ [Next]_vars => CoreInv'
  <2> SUFFICES ASSUME PathInv, CoreInv, [Next]_vars PROVE CoreInv'
    OBVIOUS
  <2>1. JobFits(job)
    BY JobAssumption DEF PathInv
  <2>2. CASE UNCHANGED vars
    BY <2>2, CoreFrame DEF CoreInv, vars
  <2> QED
    BY <2>1, <2>2, CoreStart, CoreInterpret, CoreSkip, CoreNextBlock, CoreEndOfPath, CoreSlice, CoreRecheck,
       CoreDrop, CoreSanityCheck DEF Next
<1> QED BY <1>1, <1>2, Inductive, PTL DEF Spec

\* The explanation of a refuted path is made of statements of the path that
\* are contradictory on their own, in the order of the path if one layer was
\* enough, and the sanity check of minimize_path never ends the program.
THEOREM CoreIsExplanation == Spec => [](NoOverflow => CoreExplains)
<1>1. PathInv /\ CoreInv => (NoOverflow => CoreExplains)
  <2> SUFFICES ASSUME PathInv, CoreInv, NoOverflow PROVE CoreExplains
    OBVIOUS
  <2>1. pc # "error"
    BY DEF CoreInv
  <2> SUFFICES ASSUME pc = "done", ~result
               PROVE  /\ core \in Seq(Refs) /\ Contradictory(core)
                      /\ OneLayer => \A k, l \in DOMAIN core : k < l => Precedes(core[k], core[l])
    BY <2>1 DEF CoreExplains
  <2>2. core \in Seq(Refs) /\ Contradictory(core)
    BY DEF PathInv
  <2>3. ASSUME OneLayer, NEW k \in DOMAIN core, NEW l \in DOMAIN core, k < l
        PROVE  Precedes(core[k], core[l])
    <3>1. Ordered(core, 0)
      BY <2>3 DEF CoreInv, Explains, Alone, OneLayer
    <3>2. l \in (0 + 1)..Len(core) /\ k \in (0 + 1)..(l - 1)
      BY <2>2, <2>3
    <3> QED BY <3>1, <3>2 DEF Ordered
  <2> QED BY <2>2, <2>3
<1> QED BY <1>1, Inductive, CoreInductive, PTL

\* The greedy pass of minimize_path, which tries every statement once, finds
\* a minimal explanation of a path that defines its variables once.
THEOREM CoreIsMinimised == Spec => [](NoOverflow => CoreIsMinimal)
<1>1. CoreInv => (NoOverflow => CoreIsMinimal)
  BY DEF CoreInv, Explains, Minimal, CoreIsMinimal
<1> QED BY <1>1, CoreInductive, PTL
=============================================================================

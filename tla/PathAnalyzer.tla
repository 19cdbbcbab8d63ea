---------------------------- MODULE PathAnalyzer ----------------------------
(***************************************************************************)
(* The analysis of one acyclic path (crab/path_analysis/path_analyzer.cc): *)
(* the strongest post-condition of the statements along the path, computed *)
(* in one or two layers, and, if it is bottom, a core of statements that   *)
(* explains why. One action per iteration of a loop of the code.           *)
(*                                                                         *)
(* The abstract domain is modelled by sets of stores: all of them          *)
(* (relational), or only the sets that are products of their projections.  *)
(* A statement of the path is <<block, position>>, as the code handles     *)
(* pointers.                                                               *)
(***************************************************************************)
EXTENDS CrabIR

CONSTANT Jobs
\* What is asked: [blocks, edges, next, code, vars, bools, path, layered,
\* relational]. code[b] is a sequence of statements of CrabIR; edges are the
\* blocks that stand for an edge of LLVM.

IsPath(j) ==
    /\ \A k, l \in DOMAIN j.path : j.path[k] = j.path[l] => k = l
    /\ \A k \in 1..(Len(j.path) - 1) : j.path[k + 1] \in j.next[j.path[k]]

\* solve walks along the path until it meets a block again or misses an edge.
IsCyclic(j) ==
    \E k \in DOMAIN j.path :
        /\ \E l \in 1..(k - 1) : j.path[l] = j.path[k]
        /\ \A l \in 1..(k - 1) : j.path[l + 1] \in j.next[j.path[l]]

-----------------------------------------------------------------------------
(* Statements *)

OperandVars(a) == IF a[1] = "v" THEN {a[2]} ELSE {}
ConstraintVars(c) == OperandVars(c.a) \cup OperandVars(c.b)

Defs(st) == IF "lhs" \in DOMAIN st THEN {st.lhs} ELSE {}
Uses(st) == (IF "rhs" \in DOMAIN st THEN OperandVars(st.rhs) ELSE {}) \cup
            (IF "cst" \in DOMAIN st THEN ConstraintVars(st.cst) ELSE {})

\* What the first layer looks at.
IsBoolean(j, st) ==
    \/ st.op = "bool_assign"
    \/ st.op = "assign" /\ st.lhs \in j.bools
    \/ /\ st.op \in {"assume", "assert"}
       /\ ConstraintVars(st.cst) \cap j.bools # {}

(***************************************************************************)
(* CrabIR is typed: a boolean only gets the value of a boolean, and a      *)
(* constraint is about one boolean or about integers. (The values of       *)
(* booleans are 0 and 1 of Val.)                                           *)
(***************************************************************************)
OperandFits(j, a) ==
    \/ a[1] = "v" /\ a[2] \in j.vars
    \/ a[1] = "k" /\ a[2] \in Val
    \/ a[1] = "u"
ConstraintFits(j, c) ==
    /\ OperandFits(j, c.a) /\ OperandFits(j, c.b) /\ c.rel \in {"lt", "ge", "eq", "ne"}
    /\ \A x \in ConstraintVars(c) \cap j.bools : ConstraintVars(c) = {x}
IsBoolOperand(j, a) ==
    \/ a[1] = "v" /\ a[2] \in j.bools
    \/ a[1] = "k" /\ a[2] \in {0, 1}

StatementFits(j, st) ==
    \/ /\ st.op \in {"assign", "add1"} /\ DOMAIN st = {"op", "lhs", "rhs"}
       /\ st.lhs \in j.vars /\ OperandFits(j, st.rhs)
       /\ st.lhs \in j.bools => (st.op = "assign" /\ IsBoolOperand(j, st.rhs))
    \/ /\ st.op = "havoc" /\ DOMAIN st = {"op", "lhs"}
       /\ st.lhs \in j.vars
       /\ st.lhs \in j.bools => Val = {0, 1}
    \/ /\ st.op = "bool_assign" /\ DOMAIN st = {"op", "lhs", "cst"}
       /\ st.lhs \in j.bools /\ ConstraintFits(j, st.cst)
    \/ /\ st.op \in {"assume", "assert"} /\ DOMAIN st = {"op", "cst"}
       /\ ConstraintFits(j, st.cst)
    \/ st.op = "unreachable" /\ DOMAIN st = {"op"}

\* The m-th statement of the k-th block of the path defines nothing that an
\* earlier one mentions.
DefinesNew(j, k, m) ==
    \A l \in 1..k : \A o \in DOMAIN j.code[j.path[l]] :
        (l < k \/ o < m) =>
            LET st == j.code[j.path[k]][m]
                earlier == j.code[j.path[l]][o]
            IN  Defs(st) \cap (Defs(earlier) \cup Uses(earlier)) = {}

(***************************************************************************)
(* So it is on the acyclic paths from the entry, as the translation of     *)
(* LLVM assigns every variable once, and before it is used. (Not if the    *)
(* path ends on the way back to the head of a loop: the phi assignments    *)
(* there are the second ones.)                                             *)
(***************************************************************************)
DefinedOnce(j) ==
    \A k \in DOMAIN j.path : \A m \in DOMAIN j.code[j.path[k]] :
        /\ DefinesNew(j, k, m)
        /\ LET st == j.code[j.path[k]][m] IN Defs(st) \cap Uses(st) = {}

\* What the first layer may rely on: all that it passes over defines
\* variables that have not been seen before on the path.
SkippedAreNew(j) ==
    \A k \in DOMAIN j.path : \A m \in DOMAIN j.code[j.path[k]] :
        ~IsBoolean(j, j.code[j.path[k]][m]) => DefinesNew(j, k, m)

JobFits(j) ==
    /\ DOMAIN j = {"blocks", "edges", "next", "code", "vars", "bools", "path", "layered", "relational"}
    /\ j.path \in Seq(j.blocks) /\ j.bools \subseteq j.vars
    /\ \A b \in j.blocks :
           /\ j.code[b] \in Seq(ToSet(j.code[b]))
           /\ \A k \in DOMAIN j.code[b] : StatementFits(j, j.code[b][k])

ASSUME JobAssumption == \A j \in Jobs : JobFits(j)

VARIABLES
    job,
    pc,         \* "start", "solve", "slice", "recheck", "drop", "check",
                \* "done", "error" (the sanity check) or "cyclic"
    layer,      \* "bool" or "all"
    block,      \* position in the path
    stmt,       \* position in the block: bottom_stmt
    state,      \* the abstract value
    trace,      \* path_statements
    fwd,        \* m_fwd_dom_map
    core,       \* statements the explanation is to be made of
    onlyData,   \* only_data of minimize_path
    enabled,    \* positions of core that are kept
    tried,      \* the position that is tried next
    result      \* what solve returns

vars == <<job, pc, layer, block, stmt, state, trace, fwd, core, onlyData,
          enabled, tried, result>>

-----------------------------------------------------------------------------
(* The abstract domain *)

\* Booleans are 0 or 1.
Stores == {s \in [job.vars -> Val] : \A x \in job.bools : s[x] \in {0, 1}}

\* The best approximation of S in the domain.
Abstract(S) ==
    IF job.relational \/ S = {} THEN S
    ELSE {s \in Stores : \A x \in job.vars : \E t \in S : s[x] = t[x]}

Transform(S, st) == Abstract(Outcomes(st, S))

StatementAt(ref) == job.code[ref[1]][ref[2]]
StatementsAt(refs) == [k \in DOMAIN refs |-> StatementAt(refs[k])]

\* What the domain infers from the statements refs, starting from top.
Infer(refs) ==
    LET after[k \in 0..Len(refs)] ==
            IF k = 0 THEN Stores ELSE Transform(after[k - 1], StatementAt(refs[k]))
    IN  after[Len(refs)]

\* is_contradiction: a constraint on constants that is false.
IsAssumeFalse(st) ==
    /\ st.op = "assume"
    /\ ConstraintVars(st.cst) = {}
    /\ ~Holds(st.cst, <<>>)

\* getSliceCriteriaVariables
CriterionVars(st) ==
    IF st.op \in {"assume", "assert"} THEN ConstraintVars(st.cst) ELSE {}

-----------------------------------------------------------------------------
(* remove_irrelevant_statements *)

\* The last position of ref in refs.
LastIndex(refs, ref) ==
    CHOOSE j \in DOMAIN refs :
        /\ refs[j] = ref
        /\ \A k \in DOMAIN refs : refs[k] = ref => k <= j

\* A mutant: the second slice does not look at control dependencies either.
MattersAsData(st, live, dataOnly) ==
    IF Defs(st) = {} /\ Uses(st) # {}
    THEN Uses(st) \cap live # {}
    ELSE Defs(st) \cap live # {}

\* Is the statement kept, if the variables live matter behind it?
Matters(st, live, dataOnly) ==
    IF Defs(st) = {} /\ Uses(st) # {}
    THEN ~dataOnly \/ Uses(st) \cap live # {}
    ELSE Defs(st) \cap live # {}

\* One statement of the backward traversal. acc.live is d, acc.keep the
\* enabled positions.
SliceStep(refs, dataOnly, acc, i) ==
    LET st == StatementAt(refs[i])
    IN  IF Matters(st, acc.live, dataOnly)
        THEN [live |-> (acc.live \ Defs(st)) \cup Uses(st), keep |-> acc.keep \cup {i}]
        ELSE acc

\* The positions of what last, the criterion, depends on.
Kept(refs, last, dataOnly) ==
    LET j == LastIndex(refs, last)
        after[k \in 0..(j - 1)] ==
            IF k = 0 THEN [live |-> CriterionVars(StatementAt(last)), keep |-> {j}]
            ELSE SliceStep(refs, dataOnly, after[k - 1], j - k)
    IN  after[j - 1].keep

Sliced(refs, last, dataOnly) == Pick(refs, Kept(refs, last, dataOnly))

\* [kind, core]: FalsePathInfo, and the statements that are left.
Explanation(refs, bottomStmt, dataOnly) ==
    LET b == Last(refs)[1]
        false == {k \in DOMAIN job.code[b] : IsAssumeFalse(job.code[b][k])}
        last == <<b, bottomStmt>>
    IN  CASE Len(refs) = 1 ->
               [kind |-> IF IsAssumeFalse(StatementAt(refs[1])) THEN "trivial"
                         ELSE "explanation",
                core |-> refs]
          [] Len(refs) > 1 /\ false # {} ->
               [kind |-> "trivial",
                core |-> <<<<b, CHOOSE k \in false : \A l \in false : l <= k>>>>]
          [] Len(refs) > 1 /\ false = {} /\ CriterionVars(StatementAt(last)) = {} ->
               [kind |-> "none", core |-> refs]
          [] Len(refs) > 1 /\ false = {} /\ CriterionVars(StatementAt(last)) # {} ->
               [kind |-> "explanation", core |-> Sliced(refs, last, dataOnly)]

-----------------------------------------------------------------------------
Init ==
    /\ job \in Jobs
    /\ pc = "start" /\ layer = "none" /\ block = 1 /\ stmt = 1
    /\ state = {} /\ trace = <<>> /\ fwd = <<>> /\ core = <<>>
    /\ onlyData = TRUE /\ enabled = {} /\ tried = 1 /\ result = TRUE

Return(res) == pc' = "done" /\ result' = res

\* A mutant: what the first layer recorded is kept.
BeginLayerKeepsFwd(which) ==
    /\ layer' = which
    /\ block' = 1 /\ stmt' = 1
    /\ state' = Stores
    /\ fwd' = Over(fwd, [b \in {job.path[1]} |-> Stores])

\* The beginning of a solve_path: everything starts from top again, except
\* for the statements collected.
BeginLayer(which) ==
    /\ layer' = which
    /\ block' = 1 /\ stmt' = 1
    /\ state' = Stores
    /\ fwd' = [b \in {job.path[1]} |-> Stores]

\* solve, up to its first call of solve_path. A cycle is a CRAB_ERROR;
\* neither an empty path nor one without an edge is analysed.
Start ==
    /\ pc = "start"
    /\ IF IsCyclic(job)
       THEN pc' = "cyclic" /\ UNCHANGED <<layer, block, stmt, state, fwd, result>>
       ELSE IF job.path = <<>> \/ ~IsPath(job)
       THEN Return(TRUE) /\ UNCHANGED <<layer, block, stmt, state, fwd>>
       ELSE /\ pc' = "solve" /\ UNCHANGED result
            /\ BeginLayer(IF job.layered THEN "bool" ELSE "all")
    /\ UNCHANGED <<job, trace, core, onlyData, enabled, tried>>

Code == job.code[job.path[block]]

\* A mutant: the switch that passes over everything but booleans stays on.
InterpretBooleans ==
    /\ pc = "solve"
    /\ stmt <= Len(Code)
    /\ layer = "all" \/ IsBoolean(job, Code[stmt])
    /\ trace' = Append(trace, <<job.path[block], stmt>>)
    /\ state' = IF IsBoolean(job, Code[stmt])
                THEN Transform(state, Code[stmt]) ELSE state
    /\ IF state' = {}
       THEN pc' = "slice" /\ core' = trace' /\ UNCHANGED stmt
       ELSE stmt' = stmt + 1 /\ UNCHANGED <<pc, core>>
    /\ UNCHANGED <<job, layer, block, fwd, onlyData, enabled, tried, result>>

\* A statement that the layer looks at.
Interpret ==
    /\ pc = "solve"
    /\ stmt <= Len(Code)
    /\ layer = "all" \/ IsBoolean(job, Code[stmt])
    /\ trace' = Append(trace, <<job.path[block], stmt>>)
    /\ state' = Transform(state, Code[stmt])
    /\ IF state' = {}
       THEN pc' = "slice" /\ core' = trace' /\ UNCHANGED stmt
       ELSE stmt' = stmt + 1 /\ UNCHANGED <<pc, core>>
    /\ UNCHANGED <<job, layer, block, fwd, onlyData, enabled, tried, result>>

\* A statement that it does not.
Skip ==
    /\ pc = "solve"
    /\ stmt <= Len(Code)
    /\ layer = "bool" /\ ~IsBoolean(job, Code[stmt])
    /\ stmt' = stmt + 1
    /\ UNCHANGED <<job, pc, layer, block, state, trace, fwd, core, onlyData,
                   enabled, tried, result>>

\* The next block of the path; what holds at its entry is recorded.
NextBlock ==
    /\ pc = "solve"
    /\ stmt > Len(Code) /\ block < Len(job.path)
    /\ block' = block + 1 /\ stmt' = 1
    /\ fwd' = Over(fwd, [b \in {job.path[block']} |-> state])
    /\ UNCHANGED <<job, pc, layer, state, trace, core, onlyData, enabled,
                   tried, result>>

\* The end of the path: all over again with every statement, or done.
EndOfPath ==
    /\ pc = "solve"
    /\ stmt > Len(Code) /\ block = Len(job.path)
    /\ IF layer = "bool"
       THEN BeginLayer("all") /\ UNCHANGED <<pc, result>>
       ELSE Return(TRUE) /\ UNCHANGED <<layer, block, stmt, state, fwd>>
    /\ UNCHANGED <<job, trace, core, onlyData, enabled, tried>>

\* A mutant: a path that ends in "unreachable" needs no explanation.
SliceExplainsNothing ==
    /\ pc = "slice"
    /\ LET e == Explanation(core, stmt, onlyData)
       IN  CASE e.kind = "none" -> Return(FALSE) /\ core' = <<>>
             [] e.kind = "trivial" -> Return(FALSE) /\ core' = e.core
             [] e.kind = "explanation" ->
                    /\ pc' = IF onlyData THEN "recheck" ELSE "drop"
                    /\ core' = e.core
                    /\ UNCHANGED result
    /\ enabled' = DOMAIN core'
    /\ UNCHANGED <<job, layer, block, stmt, state, trace, fwd, onlyData,
                   tried>>

\* minimize_path calls remove_irrelevant_statements, with the statements of
\* the path as core.
Slice ==
    /\ pc = "slice"
    /\ LET e == Explanation(core, stmt, onlyData)
       IN  CASE e.kind = "none" -> Return(TRUE) /\ core' = <<>>
             [] e.kind = "trivial" -> Return(FALSE) /\ core' = e.core
             [] e.kind = "explanation" ->
                    /\ pc' = IF onlyData THEN "recheck" ELSE "drop"
                    /\ core' = e.core
                    /\ UNCHANGED result
    /\ enabled' = DOMAIN core'
    /\ UNCHANGED <<job, layer, block, stmt, state, trace, fwd, onlyData,
                   tried>>

\* Data dependencies alone may leave out an assumption that matters. Then
\* the whole path is sliced again, with control dependencies.
Recheck ==
    /\ pc = "recheck"
    /\ IF Infer(core) = {}
       THEN pc' = "drop" /\ UNCHANGED <<core, onlyData>>
       ELSE pc' = "slice" /\ core' = trace /\ onlyData' = FALSE
    /\ UNCHANGED <<job, layer, block, stmt, state, trace, fwd, enabled, tried,
                   result>>

\* A mutant: the first statement is not tried.
DropButFirst ==
    /\ pc = "drop"
    /\ tried \in DOMAIN core
    /\ enabled' = IF tried # 1 /\ Infer(Pick(core, enabled \ {tried})) = {}
                  THEN enabled \ {tried} ELSE enabled
    /\ tried' = tried + 1
    /\ UNCHANGED <<job, pc, layer, block, stmt, state, trace, fwd, core,
                   onlyData, result>>

\* A statement is dropped if the others are bottom without it.
Drop ==
    /\ pc = "drop"
    /\ tried \in DOMAIN core
    /\ enabled' = IF Infer(Pick(core, enabled \ {tried})) = {} THEN enabled \ {tried}
                  ELSE enabled
    /\ tried' = tried + 1
    /\ UNCHANGED <<job, pc, layer, block, stmt, state, trace, fwd, core,
                   onlyData, result>>

\* do_sanity_check; "error" is CRAB_ERROR, which ends the program.
SanityCheck ==
    /\ pc = "drop"
    /\ tried \notin DOMAIN core
    /\ core' = Pick(core, enabled) /\ enabled' = DOMAIN core'
    /\ IF Infer(core') = {} THEN Return(FALSE)
       ELSE pc' = "error" /\ UNCHANGED result
    /\ UNCHANGED <<job, layer, block, stmt, state, trace, fwd, onlyData,
                   tried>>

Next == Start \/ Interpret \/ Skip \/ NextBlock \/ EndOfPath
            \/ Slice \/ Recheck \/ Drop \/ SanityCheck

Spec == Init /\ [][Next]_vars

-----------------------------------------------------------------------------
(* What a client gets *)

\* get_fwd_constraints
FwdConstraints(b) == IF b \in DOMAIN fwd THEN fwd[b] ELSE {}

\* pathAnalyzeImpl copies those of the blocks of LLVM for its caller, up to
\* the first bottom.
IsStored(k) ==
    /\ job.path[k] \notin job.edges
    /\ \A l \in 1..(k - 1) :
           job.path[l] \notin job.edges => FwdConstraints(job.path[l]) # {}
Post == [b \in {job.path[k] : k \in {l \in DOMAIN job.path : IsStored(l)}} |-> FwdConstraints(b)]

-----------------------------------------------------------------------------
(* Properties *)

CodeOf(p) == FlattenSeq([k \in DOMAIN p |-> job.code[p[k]]])

\* Can p be executed, from some store?
Feasible(p) == Run(CodeOf(p), Stores) # {}

\* The statements of the path.
Refs == UNION {{<<b, k>> : k \in DOMAIN job.code[b]} : b \in ToSet(job.path)}

\* Type invariant of the analyzer.
TypeOK ==
    /\ job \in Jobs
    /\ pc \in {"start", "solve", "slice", "recheck", "drop", "done", "error", "cyclic"}
    /\ layer \in {"none", "bool", "all"}
    /\ block \in Nat /\ stmt \in Nat /\ tried \in Nat
    /\ state \subseteq Stores
    /\ trace \in Seq(Refs) /\ core \in Seq(Refs)
    /\ \A b \in DOMAIN fwd : b \in job.blocks /\ fwd[b] \subseteq Stores
    /\ onlyData \in BOOLEAN /\ result \in BOOLEAN
    /\ enabled \subseteq Nat

\* The first layer that refutes a path passed over nothing that the path had
\* spoken of before; a second layer looks at everything.
LayerIsFit == layer = "bool" => SkippedAreNew(job)

\* solve returns false only for paths that no execution takes, although the
\* boolean layer looks at some of the statements only.
RefutedIsInfeasible == (pc = "done" /\ ~result /\ LayerIsFit) => ~Feasible(job.path)

\* An explanation is made of statements of the path that are contradictory
\* on their own, each at most once and in the order of the path if one layer
\* was enough. (The statements of both layers are minimised together.) The
\* sanity check of minimize_path never ends the program.
Precedes(r1, r2) ==
    LET At(r) == CHOOSE k \in DOMAIN job.path : job.path[k] = r[1]
    IN  At(r1) < At(r2) \/ (At(r1) = At(r2) /\ r1[2] < r2[2])
Contradictory(refs) == Run(StatementsAt(refs), Stores) = {}
OneLayer == ~job.layered \/ layer = "bool"
CoreExplains ==
    /\ pc # "error"
    /\ (pc = "done" /\ ~result) =>
           /\ core \in Seq(Refs) /\ Contradictory(core)
           /\ OneLayer => \A k, l \in DOMAIN core : k < l => Precedes(core[k], core[l])

\* The explanation of a path that defines its variables once is a minimal
\* one: the greedy pass of minimize_path tries every statement once, and that
\* is enough.
CoreIsMinimal ==
    (pc = "done" /\ ~result /\ DefinedOnce(job)) =>
        \A k \in DOMAIN core : Infer(RemoveAt(core, k)) # {}

\* It rules out every other such path through the blocks of its statements,
\* which is what a client that enumerates paths uses it for.
PassesThrough(p, refs) == \A k \in DOMAIN refs : refs[k][1] \in ToSet(p)
CoreBlocksOtherPaths ==
    (pc = "done" /\ ~result) =>
        \A p \in UNION {[1..k -> job.blocks] : k \in 1..Cardinality(job.blocks)} :
            LET other == [job EXCEPT !.path = p]
            IN  (IsPath(other) /\ PassesThrough(p, core) /\ DefinedOnce(other)) =>
                    ~Feasible(p)

\* What the client finds in post covers every execution of the path, and is
\* the strongest post-condition if the domain can express it and the boolean
\* layer was not the last; no execution gets to a block that is left out.
PostIsStrongest ==
    (pc = "done" /\ job.path # <<>> /\ IsPath(job)) =>
        \A k \in DOMAIN job.path :
            LET b == job.path[k]
                entry == Run(CodeOf(SubSeq(job.path, 1, k - 1)), Stores)
            IN  /\ (LayerIsFit /\ b \in DOMAIN Post) => entry \subseteq Post[b]
                /\ (job.relational /\ layer = "all" /\ b \in DOMAIN Post) => entry = Post[b]
                /\ (LayerIsFit /\ b \notin DOMAIN Post /\ b \notin job.edges) => entry = {}
=============================================================================

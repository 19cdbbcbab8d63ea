--------------------------- MODULE GlobalAnalysis ---------------------------
(***************************************************************************)
(* Clam.cc and ClamQueryCache.cc: one object of class IntraGlobalClam or   *)
(* InterGlobalClam, from its construction on. Clients call analyze, clear, *)
(* getPre, hasFeasibleEdge, range and tags, one call at a time.            *)
(*                                                                         *)
(* A function of the module has one edge, one instruction and one value of *)
(* interest. What Crab finds out about a function in a domain and under    *)
(* assumptions is the constant Outcome: Crab is external.                  *)
(***************************************************************************)
EXTENDS Integers, Sequences, FiniteSets

CONSTANTS
    Functions,      \* the functions of the module, in its order
    Trackable,      \* those with a body that are not variadic
    MaxLive,        \* the largest number of live variables of their blocks
    Threshold,      \* params.relational_threshold
    Domain,         \* the abstract domains
    Relational,     \* those that are relational
    Intervals,      \* CrabDomain::INTERVALS
    Assumption,     \* what analyze can be told to assume
    NoAssumption,
    Outcome,        \* [function, domain, assumption -> invariants and check]
    Analysers,      \* the classes of the object: "intra", "inter" or both
    Reanalysis,     \* clients use the object again: clear, second analyze
    MaxAnalyses     \* bound on the calls of analyze

Function == {Functions[i] : i \in 1..Len(Functions)}
Status == {"safe", "error", "warning", "none"}
\* "only" is CrabBuildOnlyCFG, a command line option.
Params == [dom : Domain, check : BOOLEAN, store : BOOLEAN, only : BOOLEAN]

\* What can be asked about a function: the range or the tags of a value at
\* the entry of its block, or of the result of the instruction.
Kind == {"value", "inst", "tagsValue", "tagsInst"}
Query == Kind \X Trackable
NoInvariants == [known |-> FALSE]
NotUsed == "not analysed"

ASSUME GlobalAssumption ==
    /\ Functions \in Seq(Function) /\ Len(Functions) > 0
    /\ \A i, j \in 1..Len(Functions) : Functions[i] = Functions[j] => i = j
    /\ Trackable \subseteq Function
    /\ MaxLive \in [Function -> Nat] /\ Threshold \in Nat
    /\ Relational \subseteq Domain /\ Intervals \in Domain \ Relational
    /\ NotUsed \notin Domain
    /\ NoAssumption \in Assumption
    /\ Analysers # {} /\ Analysers \subseteq {"intra", "inter"}
    /\ Reanalysis \in BOOLEAN /\ MaxAnalyses \in Nat
    /\ \A f \in Function, d \in Domain, a \in Assumption :
           /\ Outcome[<<f, d, a>>].known
           /\ Outcome[<<f, d, a>>].feasible \in BOOLEAN
           /\ Outcome[<<f, d, a>>].check \in Status

VARIABLES
    analyser,       \* InterGlobalClam ("inter") or IntraGlobalClam ("intra")
    at,             \* the function being analysed, 0 when no call is active
    params,         \* the AnalysisParams of the caller, passed by reference
    asked,          \* the domain they named when analyze was called
    assumed,        \* the assumptions of the call
    used,           \* the domain every function was analysed with, or NotUsed
    pre,            \* m_pre_map and m_post_map
    infeasible,     \* m_infeasible_edges: the functions whose edge is in it
    checks,         \* m_checks_db: the number of checks with each status
    cache,          \* m_query_cache: queries with their answers
    answer,         \* the last query and its answer
    calls,          \* the number of calls of analyze
    since           \* those completed since construction or clear

results == <<pre, infeasible, checks>>
call == <<analyser, at, params, asked, assumed, used, calls, since>>
vars == <<call, results, cache, answer>>

NoChecks == [s \in Status |-> 0]
EmptyCache == [q \in {} |-> "full"]

Init ==
    /\ analyser \in Analysers
    /\ at = 0
    /\ params \in Params
    /\ asked = params.dom
    /\ assumed = NoAssumption
    /\ used = [f \in Trackable |-> NotUsed]
    /\ pre = [f \in Trackable |-> NoInvariants]
    /\ infeasible = {}
    /\ checks = NoChecks
    /\ cache = EmptyCache
    /\ answer = <<>>
    /\ calls = 0
    /\ since = 0

-----------------------------------------------------------------------------
(* analyze *)

Analyze ==
    /\ at = 0
    /\ calls < (IF Reanalysis THEN MaxAnalyses ELSE 1)
    /\ params' \in Params
    /\ asked' = params'.dom
    /\ assumed' \in Assumption
    /\ used' = [f \in Trackable |-> NotUsed]
    /\ at' = 1
    /\ calls' = calls + 1
    /\ UNCHANGED <<analyser, results, cache, answer, since>>

TooManyLive(f) == MaxLive[f] > Threshold

\* Mutant of ChosenDomain: the comparison with the threshold is swapped.
ChosenDomainSwapped(d, f) ==
    IF d \in Relational /\ ~TooManyLive(f) THEN Intervals ELSE d

\* IntraClamImpl::analyze: the domain for a function, given params.dom.
ChosenDomain(d, f) ==
    IF d \in Relational /\ TooManyLive(f) THEN Intervals ELSE d

\* checks_db += ; "none" stands for a function without assertions.
Count(db, found) ==
    [s \in Status |-> IF found.check = s THEN db[s] + 1 ELSE db[s]]

\* Edges are only ever inserted.
StoreEdge(edges, f, found) ==
    IF found.feasible THEN edges ELSE edges \cup {f}

\* The next function, and the return after the last one.
NextFunction ==
    /\ at' = (at + 1) % (Len(Functions) + 1)
    /\ since' = IF at' = 0 THEN since + 1 ELSE since

\* IntraClamImpl::analyze writes the domain it chooses to the parameters of
\* the caller, where the next function finds it.
AnalyzeFunction ==
    /\ analyser = "intra"
    /\ at # 0
    /\ LET f == Functions[at]
           d == ChosenDomain(params.dom, f)
           found == Outcome[<<f, d, assumed>>]
       IN IF f \notin Trackable
          THEN UNCHANGED <<params, used, results>>
          ELSE /\ params' = [params EXCEPT !.dom = d]
               /\ IF params.only
                  THEN UNCHANGED <<used, results>>
                  ELSE /\ used' = [used EXCEPT ![f] = d]
                       /\ checks' = IF params.check THEN Count(checks, found)
                                    ELSE checks
                       /\ IF params.store
                          THEN /\ pre' = [pre EXCEPT ![f] = found]
                               /\ infeasible' = StoreEdge(infeasible, f, found)
                          ELSE UNCHANGED <<pre, infeasible>>
    /\ NextFunction
    /\ UNCHANGED <<analyser, asked, assumed, cache, answer, calls>>

\* InterGlobalClamImpl::analyze chooses the domain in a local variable, but
\* runs with params.dom; it takes no notice of the assumptions.
AnalyzeCallGraph ==
    /\ analyser = "inter"
    /\ at # 0
    /\ at' = 0
    /\ since' = since + 1
    /\ LET found == [f \in Trackable |->
                        Outcome[<<f, params.dom, NoAssumption>>]]
       IN IF params.only
          THEN UNCHANGED <<used, results>>
          ELSE /\ used' = [f \in Trackable |-> params.dom]
               /\ checks' = IF params.check
                            THEN [s \in Status |-> checks[s] +
                                     Cardinality({f \in Trackable :
                                                     found[f].check = s})]
                            ELSE checks
               /\ IF params.store
                  THEN /\ pre' = found
                       /\ infeasible' = infeasible \cup
                              {f \in Trackable : ~found[f].feasible}
                  ELSE UNCHANGED <<pre, infeasible>>
    /\ UNCHANGED <<analyser, params, asked, assumed, cache, answer, calls>>

-----------------------------------------------------------------------------
(* clear, and ClamPass::releaseMemory, which calls it *)

\* Mutant of Clear: the infeasible edges are kept.
ClearKeepsEdges ==
    /\ Reanalysis
    /\ at = 0
    /\ pre' = [f \in Trackable |-> NoInvariants]
    /\ infeasible' = infeasible
    /\ checks' = NoChecks
    /\ since' = 0
    /\ UNCHANGED <<analyser, at, params, asked, assumed, used, calls>>
    /\ UNCHANGED <<cache, answer>>

\* The query cache is not cleared.
Clear ==
    /\ Reanalysis
    /\ at = 0
    /\ pre' = [f \in Trackable |-> NoInvariants]
    /\ infeasible' = {}
    /\ checks' = NoChecks
    /\ since' = 0
    /\ UNCHANGED <<analyser, at, params, asked, assumed, used, calls>>
    /\ UNCHANGED <<cache, answer>>

-----------------------------------------------------------------------------
(* getPre, and the queries *)

Unknown(kind) == IF kind \in {"value", "inst"} THEN "full" ELSE "no tags"

\* What the invariants say: a range or tags, as found for the value or the
\* instruction.
AnswerFrom(tbl, q) ==
    LET inv == tbl[q[2]] IN
    IF ~inv.known THEN Unknown(q[1]) ELSE inv[q[1]]

\* Mutant of Kept: every answer is cached.
KeptAlways(q, a) == TRUE

\* Which answers are cached. An empty range is, but only for instructions.
Kept(q, a) ==
    /\ a # Unknown(q[1])
    /\ q[1] = "value" => a # "empty"

Ask(q) ==
    /\ at = 0
    /\ LET a == IF q \in DOMAIN cache THEN cache[q] ELSE AnswerFrom(pre, q)
       IN /\ answer' = <<q, a>>
          /\ cache' = IF Kept(q, a)
                      THEN [r \in DOMAIN cache \cup {q} |->
                               IF r = q THEN a ELSE cache[r]]
                      ELSE cache
    /\ UNCHANGED <<call, results>>

hasFeasibleEdge(f) == f \notin infeasible

-----------------------------------------------------------------------------
Next ==
    \/ Analyze
    \/ AnalyzeFunction
    \/ AnalyzeCallGraph
    \/ Clear
    \/ \E q \in Query : Ask(q)

Spec == Init /\ [][Next]_vars

(* ClamPass::runOnModule: the result reported for the checks. *)

\* Mutant of Verdict: warnings are only looked at when nothing was proved.
VerdictSafeFirst ==
    CASE checks["error"] > 0 -> "FALSE"
      [] checks["error"] = 0 /\ checks["safe"] > 0 -> "TRUE"
      [] checks["error"] = 0 /\ checks["safe"] = 0 /\ checks["warning"] > 0
            -> "INCONCLUSIVE"
      [] OTHER -> "NOCHECKS"

Verdict ==
    IF checks["safe"] + checks["error"] + checks["warning"] = 0 THEN "NOCHECKS"
    ELSE IF checks["error"] > 0 THEN "FALSE"
    ELSE IF checks["warning"] = 0 THEN "TRUE"
    ELSE "INCONCLUSIVE"

-----------------------------------------------------------------------------
(***************************************************************************)
(* Type invariant. Only the domain is ever written to the parameters.      *)
(***************************************************************************)
TypeOK ==
    /\ at \in 0..Len(Functions)
    /\ params \in Params
    /\ asked \in Domain
    /\ analyser \in Analysers
    /\ assumed \in Assumption
    /\ used \in [Trackable -> Domain \cup {NotUsed}]
    /\ DOMAIN pre = Trackable
    /\ infeasible \subseteq Trackable
    /\ checks \in [Status -> Nat]
    /\ DOMAIN cache \subseteq Query
    /\ calls \in 0..MaxAnalyses
    /\ since \in 0..MaxAnalyses

(***************************************************************************)
(* As long as the object is analysed once, the caching of ClamQueryCache   *)
(* is invisible: queries are answered as AnalysisQueries answers them,     *)
(* those made before the analysis too.                                     *)
(***************************************************************************)
Uncached == INSTANCE AnalysisQueries WITH
    Table <- [Trackable -> {NoInvariants} \cup
                 {Outcome[key] : key \in Trackable \X Domain \X Assumption}],
    table <- pre
ImplementsUncached == Uncached!Spec

(***************************************************************************)
(* "Clear all the internal state": the answers after clear and a new       *)
(* analysis are those of the new analysis.                                 *)
(***************************************************************************)
AnswersAreCurrent ==
    [][\A q \in Query : Ask(q) => answer'[2] = AnswerFrom(pre, q)]_vars

\* What a construction and one analysis with the same parameters give.
Fresh(f) ==
    Outcome[<<f, used[f],
               IF analyser = "inter" THEN NoAssumption ELSE assumed>>]

(***************************************************************************)
(* After clear and one analysis, the invariants, the infeasible edges and  *)
(* the checks are those of a new object, whatever was analysed before.     *)
(***************************************************************************)
FreshAfterClear ==
    (at = 0 /\ since = 1) =>
        LET stored == ~params.only /\ params.store
            checked == ~params.only /\ params.check
        IN /\ pre = [f \in Trackable |->
                        IF stored THEN Fresh(f) ELSE NoInvariants]
           /\ infeasible = {f \in Trackable : stored /\ ~Fresh(f).feasible}
           /\ checks = [s \in Status |->
                           Cardinality({f \in Trackable :
                               checked /\ Fresh(f).check = s})]

(***************************************************************************)
(* The parameters are shared by the functions of a module and by the calls *)
(* of analyze, and the choice for one function overwrites them. Still, a   *)
(* function is analysed in another domain than the caller of this analysis *)
(* asked for only after a function above the threshold, and then in        *)
(* intervals: nothing an earlier analysis chose comes back, and a module   *)
(* without such functions keeps its domain.                                *)
(***************************************************************************)
SwitchedOnlyAfterBig ==
    \A i \in 1..Len(Functions) :
        LET f == Functions[i] IN
        f \in Trackable =>
            \/ used[f] \in {NotUsed, asked}
            \/ /\ used[f] = Intervals
               /\ asked \in Relational
               /\ \E k \in 1..i : /\ Functions[k] \in Trackable
                                 /\ TooManyLive(Functions[k])

(***************************************************************************)
(* BRUNCH_STAT Result: TRUE is only reported if every assertion of every   *)
(* function that is analysed was proved, and FALSE only for an error.      *)
(***************************************************************************)
VerdictIsJustified ==
    (at = 0 /\ since = 1 /\ params.check /\ ~params.only) =>
        LET found == {Fresh(f).check : f \in Trackable} \ {"none"} IN
        /\ Verdict = "TRUE" <=> found = {"safe"}
        /\ Verdict = "FALSE" <=> "error" \in found
        /\ Verdict = "NOCHECKS" <=> found = {}
=============================================================================

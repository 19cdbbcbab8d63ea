------------------------ MODULE GlobalAnalysisProofs ------------------------
(***************************************************************************)
(* Proofs about GlobalAnalysis, for every module, every domain and         *)
(* whatever Crab finds: the cache of an object that is analysed once is    *)
(* invisible, clear forgets, the verdict is that of the functions, and the *)
(* domain asked for is lost only to a function above the threshold.        *)
(***************************************************************************)
EXTENDS GlobalAnalysis, FiniteSetTheorems, TLAPS

AllFound == {Outcome[key] : key \in Trackable \X Domain \X Assumption}
Tables == [Trackable -> {NoInvariants} \cup AllFound]
NoTable == [f \in Trackable |-> NoInvariants]

(***************************************************************************)
(* What is true of the control state and of the tables.                    *)
(***************************************************************************)
Control ==
    /\ at \in 0..Len(Functions)
    /\ params \in Params
    /\ asked \in Domain
    /\ analyser \in Analysers
    /\ assumed \in Assumption
    /\ used \in [Trackable -> Domain \cup {NotUsed}]
    /\ pre \in Tables
    /\ calls \in Nat
    /\ DOMAIN cache \subseteq Query

LEMMA Constants ==
    /\ Len(Functions) \in Nat
    /\ Len(Functions) > 0
    /\ Intervals \in Domain
    /\ Intervals \notin Relational
    /\ NotUsed \notin Relational
    /\ NoAssumption \in Assumption
BY GlobalAssumption DEF GlobalAssumption

LEMMA OutcomeIsFound ==
    ASSUME NEW f \in Trackable, NEW d \in Domain, NEW a \in Assumption
    PROVE  Outcome[<<f, d, a>>] \in AllFound
BY DEF AllFound

LEMMA ControlInit == Init => Control
<1> SUFFICES ASSUME Init PROVE Control
  OBVIOUS
<1> USE Constants DEF Init
<1>1. at \in 0..Len(Functions)
  OBVIOUS
<1>2. params \in Params
  OBVIOUS
<1>3. used \in [Trackable -> Domain \cup {NotUsed}]
  OBVIOUS
<1>4. pre \in Tables
  BY DEF Tables
<1>5. DOMAIN cache \subseteq Query
  BY DEF EmptyCache
<1>6. asked \in Domain
  BY <1>2 DEF Params
<1> QED
  BY <1>1, <1>2, <1>3, <1>4, <1>5, <1>6 DEF Control

LEMMA NextIndex ==
    ASSUME at \in 0..Len(Functions), NextFunction
    PROVE  at' \in 0..Len(Functions)
BY Constants DEF NextFunction

LEMMA ChosenIsDomain ==
    ASSUME NEW d \in Domain, NEW f
    PROVE  ChosenDomain(d, f) \in Domain
BY Constants DEF ChosenDomain

LEMMA ControlStep == Control /\ [Next]_vars => Control'
<1> SUFFICES ASSUME Control, [Next]_vars PROVE Control'
  OBVIOUS
<1>1. CASE Analyze
  <2>1. params' \in Params
    BY <1>1 DEF Analyze
  <2>2. used' \in [Trackable -> Domain \cup {NotUsed}]
    BY <1>1 DEF Analyze
  <2>3. at' \in 0..Len(Functions)
    BY <1>1, Constants DEF Analyze
  <2>4. asked' \in Domain
    BY <1>1, <2>1 DEF Analyze, Params
  <2> QED
    BY <1>1, <2>1, <2>2, <2>3, <2>4 DEF Analyze, results, Control
<1>2. CASE AnalyzeFunction
  <2> DEFINE f == Functions[at]
             d == ChosenDomain(params.dom, f)
             found == Outcome[<<f, d, assumed>>]
  <2>1. at' \in 0..Len(Functions)
    BY <1>2, NextIndex DEF AnalyzeFunction, Control
  <2>2. params.dom \in Domain
    BY DEF Control, Params
  <2>3. d \in Domain
    BY <2>2, ChosenIsDomain
  <2>4. params' \in Params
    BY <1>2, <2>3 DEF AnalyzeFunction, Control, Params
  <2>5. used' \in [Trackable -> Domain \cup {NotUsed}]
    <3>1. used' = used \/ used' = [used EXCEPT ![f] = d]
      BY <1>2 DEF AnalyzeFunction, results
    <3> HIDE DEF d, f
    <3> QED
      BY <2>3, <3>1 DEF Control
  <2>6. pre' \in Tables
    <3>1. CASE f \in Trackable
      <4>1. found \in AllFound
        BY <2>3, <3>1, OutcomeIsFound DEF Control
      <4>2. pre' = pre \/ pre' = [pre EXCEPT ![f] = found]
        BY <1>2, <3>1 DEF AnalyzeFunction, results
      <4> HIDE DEF found, f
      <4> QED
        BY <4>1, <4>2 DEF Control, Tables
    <3>2. CASE f \notin Trackable
      BY <1>2, <3>2 DEF AnalyzeFunction, results, Control
    <3> QED
      BY <3>1, <3>2
  <2> QED
    BY <1>2, <2>1, <2>4, <2>5, <2>6 DEF AnalyzeFunction, Control
<1>3. CASE AnalyzeCallGraph
  <2> DEFINE found == [f \in Trackable |->
                          Outcome[<<f, params.dom, NoAssumption>>]]
  <2>1. params.dom \in Domain
    BY DEF Control, Params
  <2>2. found \in Tables
    BY <2>1, Constants, OutcomeIsFound DEF Tables
  <2>3. pre' = pre \/ pre' = found
    BY <1>3 DEF AnalyzeCallGraph, results
  <2>4. used' = used \/ used' = [f \in Trackable |-> params.dom]
    BY <1>3 DEF AnalyzeCallGraph
  <2>5. used' \in [Trackable -> Domain \cup {NotUsed}]
    BY <2>1, <2>4 DEF Control
  <2> QED
    <3>1. at' \in 0..Len(Functions)
      BY <1>3, Constants DEF AnalyzeCallGraph
    <3>2. UNCHANGED <<analyser, params, asked, assumed, calls, cache>>
      BY <1>3 DEF AnalyzeCallGraph
    <3>3. pre' \in Tables
      <4> HIDE DEF found
      <4> QED
        BY <2>2, <2>3 DEF Control
    <3> QED
      BY <2>5, <3>1, <3>2, <3>3 DEF Control
<1>4. CASE Clear
  <2>1. pre' \in Tables
    BY <1>4 DEF Clear, Tables
  <2> QED
    BY <1>4, <2>1 DEF Clear, Control
<1>5. ASSUME NEW q \in Query, Ask(q)
      PROVE  Control'
  <2>1. DOMAIN cache' \subseteq Query
    BY <1>5 DEF Ask, Control
  <2> QED
    BY <1>5, <2>1 DEF Ask, call, results, Control
<1>6. CASE UNCHANGED vars
  BY <1>6 DEF vars, call, results, Control
<1> QED
  BY <1>1, <1>2, <1>3, <1>4, <1>5, <1>6 DEF Next

(***************************************************************************)
(* AnalyzeFunction and AnalyzeCallGraph touch neither cache nor answer.    *)
(***************************************************************************)
Run == AnalyzeFunction \/ AnalyzeCallGraph
LEMMA RunKeepsCache ==
    Run => at # 0 /\ UNCHANGED <<cache, answer, calls>>
BY DEF Run, AnalyzeFunction, AnalyzeCallGraph

-----------------------------------------------------------------------------
(***************************************************************************)
(* The cache is empty until the only analysis is complete, and then holds  *)
(* what the invariants say. Answers given before it are never kept.        *)
(***************************************************************************)
CacheInv ==
    /\ calls = 0 \/ calls = 1
    /\ calls = 0 => at = 0 /\ pre = NoTable
    /\ calls = 0 \/ at # 0 => cache = EmptyCache
    /\ \A q \in DOMAIN cache : cache[q] = AnswerFrom(pre, q)

LEMMA NothingKnown ==
    ASSUME NEW q \in Query
    PROVE  AnswerFrom(NoTable, q) = Unknown(q[1])
<1>1. q[2] \in Trackable
  BY DEF Query
<1>2. NoTable[q[2]] = NoInvariants
  BY <1>1 DEF NoTable
<1> QED
  BY <1>2 DEF AnswerFrom, NoInvariants

LEMMA CacheInit == Init => CacheInv
BY DEF Init, CacheInv, EmptyCache, NoTable

LEMMA CacheStep ==
    ASSUME ~Reanalysis, Control, CacheInv, [Next]_vars
    PROVE  CacheInv'
<1>1. CASE Analyze
  <2>1. calls = 0 /\ calls' = 1 /\ cache' = cache /\ at' = 1
    BY <1>1 DEF Analyze, CacheInv, Control
  <2> QED
    BY <2>1 DEF CacheInv, EmptyCache
<1>2. CASE Run
  <2>1. at # 0 /\ cache' = cache /\ calls' = calls
    BY <1>2, RunKeepsCache
  <2> QED
    BY <2>1 DEF CacheInv, EmptyCache
<1>3. CASE Clear
  BY <1>3 DEF Clear
<1>4. ASSUME NEW q \in Query, Ask(q)
      PROVE  CacheInv'
  <2> DEFINE a == IF q \in DOMAIN cache THEN cache[q] ELSE AnswerFrom(pre, q)
             extended == [r \in DOMAIN cache \cup {q} |->
                             IF r = q THEN a ELSE cache[r]]
  <2>1. a = AnswerFrom(pre, q)
    BY DEF CacheInv
  <2>2. UNCHANGED <<calls, at, pre>>
    BY <1>4 DEF Ask, call, results
  <2>3. cache' = IF Kept(q, a) THEN extended ELSE cache
    BY <1>4 DEF Ask
  <2>4. CASE calls = 0
    <3>1. ~Kept(q, a)
      BY <2>1, <2>4, NothingKnown DEF CacheInv, Kept
    <3> QED
      BY <2>2, <2>3, <3>1 DEF CacheInv
  <2>5. CASE calls = 1
    <3>1. at = 0
      BY <1>4 DEF Ask
    <3>2. \A r \in DOMAIN extended : extended[r] = AnswerFrom(pre, r)
      BY <2>1 DEF CacheInv
    <3>3. \A r \in DOMAIN cache' : cache'[r] = AnswerFrom(pre, r)
      <4> HIDE DEF extended
      <4> QED
        BY <2>3, <3>2 DEF CacheInv
    <3>4. \A r \in DOMAIN cache' : cache'[r] = AnswerFrom(pre', r)
      BY <2>2, <3>3
    <3> QED
      BY <2>2, <2>5, <3>1, <3>4 DEF CacheInv
  <2> QED
    BY <2>4, <2>5 DEF CacheInv
<1>5. CASE UNCHANGED vars
  <2>1. UNCHANGED <<calls, at, pre, cache>>
    BY <1>5 DEF vars, call, results
  <2> QED
    BY <2>1 DEF CacheInv
<1> QED
  BY <1>1, <1>2, <1>3, <1>4, <1>5 DEF Next, Run

(***************************************************************************)
(* Every step of an object that is analysed once is a step of the service  *)
(* without a cache.                                                        *)
(***************************************************************************)
LEMMA StepRefines ==
    ASSUME ~Reanalysis, Control, Control', CacheInv, [Next]_vars
    PROVE  [Uncached!Next]_(Uncached!vars)
<1> USE DEF Uncached!vars
<1>1. CASE Analyze
  BY <1>1 DEF Analyze, results
<1>2. CASE Run
  <2>1. pre' \in Tables
    BY DEF Control
  <2>2. UNCHANGED answer
    BY <1>2, RunKeepsCache
  <2>3. Uncached!Replace
    BY <2>1, <2>2 DEF Uncached!Replace, Tables, AllFound
  <2> QED
    BY <2>3 DEF Uncached!Next
<1>3. CASE Clear
  BY <1>3 DEF Clear
<1>4. ASSUME NEW q \in Query, Ask(q)
      PROVE  Uncached!Next
  <2>1. answer' = <<q, AnswerFrom(pre, q)>>
    BY <1>4 DEF Ask, CacheInv
  <2>2. UNCHANGED pre
    BY <1>4 DEF Ask, results
  <2>3. Uncached!Ask(q)
    BY <2>1, <2>2 DEF Uncached!Ask
  <2> QED
    BY <2>3 DEF Uncached!Next
<1>5. CASE UNCHANGED vars
  BY <1>5 DEF vars, results
<1> QED
  BY <1>1, <1>2, <1>3, <1>4, <1>5 DEF Next, Run

(***************************************************************************)
(* As long as the object is analysed once, ClamQueryCache is invisible:    *)
(* clients see the service that reads every answer off the invariants.     *)
(***************************************************************************)
THEOREM CacheIsTransparent ==
    ASSUME ~Reanalysis
    PROVE  Spec => ImplementsUncached
<1>1. Init => Control /\ CacheInv
  BY ControlInit, CacheInit
<1>2. Control /\ CacheInv /\ [Next]_vars => (Control /\ CacheInv)'
  BY ControlStep, CacheStep
<1>3. Init => Uncached!Init
  BY ControlInit DEF Init, Uncached!Init, Uncached!NoAnswer, Control, Tables,
                     AllFound
<1>4. /\ Control /\ CacheInv
      /\ (Control /\ CacheInv)'
      /\ [Next]_vars
      => [Uncached!Next]_(Uncached!vars)
  BY StepRefines
<1> QED
  BY <1>1, <1>2, <1>3, <1>4, PTL DEF Spec, ImplementsUncached, Uncached!Spec

-----------------------------------------------------------------------------
Stored == ~params.only /\ params.store
Checked == ~params.only /\ params.check

(***************************************************************************)
(* The functions whose results are there: those before "at" during an      *)
(* analysis, all of them after it.                                         *)
(***************************************************************************)
Processed ==
    IF at # 0 THEN {f \in Trackable : \E i \in 1..(at - 1) : Functions[i] = f}
    ELSE IF since = 0 THEN {} ELSE Trackable

ResultsOf(S) ==
    /\ pre = [f \in Trackable |->
                 IF Stored /\ f \in S THEN Fresh(f) ELSE NoInvariants]
    /\ infeasible = {f \in S : Stored /\ ~Fresh(f).feasible}
    /\ checks = [s \in Status |->
                    Cardinality({f \in S : Checked /\ Fresh(f).check = s})]
    /\ ~params.only => \A f \in S : used[f] \in Domain

(***************************************************************************)
(* Until a second analysis starts, the tables hold the results of the      *)
(* functions analysed since construction or clear, and nothing else: each  *)
(* is counted once.                                                        *)
(***************************************************************************)
FirstAnalysis == since = 0 \/ (since = 1 /\ at = 0)

Counting ==
    /\ since \in Nat
    /\ analyser = "inter" => at \in {0, 1}
    /\ FirstAnalysis => ResultsOf(Processed)

LEMMA FunctionsAreFinite ==
    /\ IsFiniteSet(Trackable)
    /\ \A S : S \subseteq Trackable => IsFiniteSet(S)
<1> DEFINE n == Len(Functions)
<1>1. n \in Nat /\ Functions \in [1..n -> Function]
  BY GlobalAssumption DEF GlobalAssumption
<1>2. Functions \in Surjection(1..n, Function)
  BY <1>1 DEF Surjection, Function
<1>3. IsFiniteSet(Function)
  <2>1. IsFiniteSet(1..n)
    BY <1>1, FS_Interval
  <2> QED
    BY <1>2, <2>1, FS_Surjection
<1>4. Trackable \subseteq Function
  BY GlobalAssumption DEF GlobalAssumption
<1> QED
  BY <1>3, <1>4, FS_Subset

LEMMA NextFunctionCases ==
    ASSUME at \in 1..Len(Functions), NextFunction
    PROVE  \/ at < Len(Functions) /\ at' = at + 1 /\ since' = since
           \/ at = Len(Functions) /\ at' = 0 /\ since' = since + 1
<1> DEFINE n == Len(Functions)
<1>1. n \in Nat /\ n > 0
  BY Constants
<1>2. at < n => (at + 1) % (n + 1) = at + 1
  BY <1>1
<1>3. (n + 1) % (n + 1) = 0
  BY <1>1
<1> QED
  BY <1>1, <1>2, <1>3 DEF NextFunction

LEMMA NothingProcessed ==
    ResultsOf({}) <=> pre = NoTable /\ infeasible = {} /\ checks = NoChecks
<1>1. \A s \in Status : {f \in {} : Checked /\ Fresh(f).check = s} = {}
  OBVIOUS
<1>2. NoChecks = [s \in Status |->
                     Cardinality({f \in {} : Checked /\ Fresh(f).check = s})]
  BY <1>1, FS_EmptySet DEF NoChecks
<1> QED
  BY <1>2 DEF ResultsOf, NoTable

LEMMA CountingInit == Init => Counting
<1> SUFFICES ASSUME Init PROVE Counting
  OBVIOUS
<1>1. Processed = {}
  BY DEF Init, Processed
<1>2. ResultsOf({})
  BY NothingProcessed DEF Init, NoTable
<1> QED
  BY <1>1, <1>2 DEF Init, Counting

(***************************************************************************)
(* The functions processed after one more; no function occurs twice.       *)
(***************************************************************************)
LEMMA OneMore ==
    ASSUME Control, at # 0, since = 0, NextFunction
    PROVE  /\ Processed' = Processed \cup ({Functions[at]} \cap Trackable)
           /\ Functions[at] \notin Processed
<1> DEFINE n == Len(Functions)
<1>1. at \in 1..n /\ n \in Nat
  BY Constants DEF Control
<1>2. Functions[at] \notin Processed
  BY <1>1, GlobalAssumption DEF GlobalAssumption, Processed
<1>3. CASE at < n /\ at' = at + 1
  <2>1. Processed' = {f \in Trackable : \E i \in 1..at : Functions[i] = f}
    BY <1>1, <1>3 DEF Processed
  <2>2. 1..at = 1..(at - 1) \cup {at}
    BY <1>1
  <2> QED
    BY <1>1, <1>2, <2>1, <2>2 DEF Processed
<1>4. CASE at = n /\ at' = 0 /\ since' = since + 1
  <2>1. Processed' = Trackable
    BY <1>4 DEF Processed
  <2>2. \A f \in Trackable : \E i \in 1..n : Functions[i] = f
    BY GlobalAssumption DEF GlobalAssumption, Function
  <2>3. 1..n = 1..(at - 1) \cup {at}
    BY <1>1, <1>4
  <2> QED
    BY <1>1, <1>2, <2>1, <2>2, <2>3 DEF Processed
<1> QED
  BY <1>1, <1>2, <1>3, <1>4, NextFunctionCases

LEMMA SameResults ==
    ASSUME NEW S, ResultsOf(S),
           UNCHANGED <<analyser, assumed, results>>,
           params'.store = params.store, params'.check = params.check,
           params'.only = params.only,
           params.only \/ \A f \in S : used'[f] = used[f]
    PROVE  ResultsOf(S)'
<1>1. Stored' = Stored /\ Checked' = Checked
  BY DEF Stored, Checked
<1>2. CASE params.only
  BY <1>1, <1>2 DEF ResultsOf, Stored, Checked, results
<1>3. CASE ~params.only /\ \A f \in S : used'[f] = used[f]
  <2>1. \A f \in S : Fresh(f)' = Fresh(f)
    BY <1>3 DEF Fresh
  <2>2. [s \in Status |->
            Cardinality({f \in S : Checked' /\ Fresh(f)'.check = s})]
        = [s \in Status |-> Cardinality({f \in S : Checked /\ Fresh(f).check = s})]
    <3>1. \A s \in Status : {f \in S : Checked' /\ Fresh(f)'.check = s}
                            = {f \in S : Checked /\ Fresh(f).check = s}
      BY <1>1, <2>1
    <3> QED
      BY <3>1
  <2>3. {f \in S : Stored' /\ ~Fresh(f)'.feasible}
        = {f \in S : Stored /\ ~Fresh(f).feasible}
    BY <1>1, <2>1
  <2>4. [f \in Trackable |-> IF Stored' /\ f \in S THEN Fresh(f)' ELSE NoInvariants]
        = [f \in Trackable |-> IF Stored /\ f \in S THEN Fresh(f) ELSE NoInvariants]
    BY <1>1, <2>1
  <2>5. \A f \in S : used'[f] \in Domain
    BY <1>3 DEF ResultsOf
  <2> QED
    BY <2>2, <2>3, <2>4, <2>5 DEF ResultsOf, results
<1> QED
  BY <1>2, <1>3

(***************************************************************************)
(* One function more: its results are added to those of the others, which  *)
(* were analysed with parameters that are not looked at again.             *)
(***************************************************************************)
LEMMA OneMoreResult ==
    ASSUME Control, NEW S, S \subseteq Trackable, ResultsOf(S),
           AnalyzeFunction, NEW f \in Trackable, f = Functions[at], f \notin S
    PROVE  ResultsOf(S \cup {f})'
<1> DEFINE d == ChosenDomain(params.dom, f)
           found == Outcome[<<f, d, assumed>>]
           T == S \cup {f}
<1>1. /\ params' = [params EXCEPT !.dom = d]
      /\ analyser = "intra"
      /\ UNCHANGED <<analyser, assumed>>
  BY DEF AnalyzeFunction
<1>2. /\ params'.store = params.store /\ params'.check = params.check
      /\ params'.only = params.only
  BY <1>1 DEF Control, Params
<1>3. Stored' = Stored /\ Checked' = Checked
  BY <1>2 DEF Stored, Checked
<1>4. CASE params.only
  <2>1. UNCHANGED results /\ UNCHANGED used
    BY <1>4 DEF AnalyzeFunction
  <2>2. \A s \in Status : {g \in T : Checked /\ Fresh(g)'.check = s}
                          = {g \in S : Checked /\ Fresh(g).check = s}
    BY <1>4 DEF Checked
  <2> QED
    BY <1>3, <1>4, <1>2, <2>1, <2>2 DEF ResultsOf, Stored, results
<1>5. CASE ~params.only
  <2>1. /\ used' = [used EXCEPT ![f] = d]
        /\ checks' = IF params.check THEN Count(checks, found) ELSE checks
        /\ IF params.store
           THEN pre' = [pre EXCEPT ![f] = found]
                /\ infeasible' = StoreEdge(infeasible, f, found)
           ELSE UNCHANGED <<pre, infeasible>>
    BY <1>5 DEF AnalyzeFunction
  <2>2. d \in Domain
    BY ChosenIsDomain DEF Control, Params
  <2>3. Stored = params.store /\ Checked = params.check
    BY <1>5 DEF Stored, Checked, Control, Params
  <2>4. \A g \in S : g # f /\ g \in Trackable
    OBVIOUS
  <2>5. used \in [Trackable -> Domain \cup {NotUsed}] /\ f \in Trackable
    BY DEF Control
  <2>6. Fresh(f)' = found
    <3>1. used'[f] = d
      <4> HIDE DEF d
      <4> QED
        BY <2>1, <2>5
    <3> QED
      BY <1>1, <3>1 DEF Fresh
  <2>7. \A g \in S : used'[g] = used[g]
    <3> HIDE DEF d
    <3> QED
      BY <2>1, <2>4, <2>5
  <2>8. \A g \in S : Fresh(g)' = Fresh(g)
    BY <1>1, <2>7 DEF Fresh
  <2> HIDE DEF d, found, T
  <2>0. T = S \cup {f}
    BY DEF T
  <2>9. \A g \in T : used'[g] \in Domain
    BY <1>5, <2>0, <2>1, <2>2, <2>5, <2>7 DEF ResultsOf
  <2>10. pre' = [g \in Trackable |->
                    IF Stored' /\ g \in T THEN Fresh(g)' ELSE NoInvariants]
    BY <1>3, <2>0, <2>1, <2>3, <2>4, <2>5, <2>6, <2>8 DEF ResultsOf
  <2>11. infeasible' = {g \in T : Stored' /\ ~Fresh(g)'.feasible}
    <3>1. infeasible = {g \in S : Stored /\ ~Fresh(g).feasible}
      BY DEF ResultsOf
    <3> QED
      BY <1>3, <2>0, <2>1, <2>3, <2>6, <2>8, <3>1 DEF StoreEdge
  <2>12. checks' = [s \in Status |->
                       Cardinality({g \in T : Checked' /\ Fresh(g)'.check = s})]
    <3> DEFINE Was(s) == {g \in S : Checked /\ Fresh(g).check = s}
               Is(s) == {g \in T : Checked' /\ Fresh(g)'.check = s}
    <3>1. checks = [s \in Status |-> Cardinality(Was(s))]
      BY DEF ResultsOf
    <3>2. checks' = [s \in Status |-> IF Checked /\ found.check = s
                                      THEN checks[s] + 1 ELSE checks[s]]
      BY <2>1, <2>3, <3>1 DEF Count
    <3>3. ASSUME NEW s \in Status
          PROVE  Cardinality(Is(s)) = IF Checked /\ found.check = s
                                      THEN Cardinality(Was(s)) + 1
                                      ELSE Cardinality(Was(s))
      <4>1. IsFiniteSet(Was(s))
        BY <2>4, FunctionsAreFinite
      <4>2. f \notin Was(s)
        BY <2>4
      <4>3. Is(s) = IF Checked /\ found.check = s THEN Was(s) \cup {f} ELSE Was(s)
        BY <1>3, <2>0, <2>6, <2>8
      <4> HIDE DEF Was, Is
      <4> QED
        BY <4>1, <4>2, <4>3, FS_AddElement
    <3> HIDE DEF Was
    <3>4. checks' = [s \in Status |-> Cardinality(Is(s))]
      <4> HIDE DEF Is
      <4> QED
        BY <3>1, <3>2, <3>3
    <3> QED
      BY <3>4
  <2> QED
    BY <1>2, <2>0, <2>9, <2>10, <2>11, <2>12 DEF ResultsOf
<1> QED
  BY <1>4, <1>5

LEMMA CallGraphResults ==
    ASSUME Control, ResultsOf({}), AnalyzeCallGraph
    PROVE  ResultsOf(Trackable)'
<1> DEFINE found == [f \in Trackable |->
                        Outcome[<<f, params.dom, NoAssumption>>]]
<1>1. /\ analyser = "inter"
      /\ UNCHANGED <<analyser, params, assumed>>
  BY DEF AnalyzeCallGraph
<1>2. pre = NoTable /\ infeasible = {} /\ checks = NoChecks
  BY NothingProcessed
<1>3. Stored' = Stored /\ Checked' = Checked
  BY <1>1 DEF Stored, Checked
<1>4. CASE params.only
  <2>1. UNCHANGED results
    BY <1>4 DEF AnalyzeCallGraph
  <2>2. \A s \in Status : {f \in Trackable : Checked /\ Fresh(f)'.check = s} = {}
    BY <1>4 DEF Checked
  <2>3. checks = [s \in Status |->
                     Cardinality({f \in Trackable : Checked /\ Fresh(f)'.check = s})]
    BY <1>2, <2>2, FS_EmptySet DEF NoChecks
  <2> QED
    BY <1>1, <1>2, <1>3, <1>4, <2>1, <2>3 DEF ResultsOf, Stored, results, NoTable
<1>5. CASE ~params.only
  <2>1. /\ used' = [f \in Trackable |-> params.dom]
        /\ checks' = IF params.check
                     THEN [s \in Status |-> checks[s] +
                              Cardinality({f \in Trackable : found[f].check = s})]
                     ELSE checks
        /\ IF params.store
           THEN /\ pre' = found
                /\ infeasible' = infeasible \cup
                                    {f \in Trackable : ~found[f].feasible}
           ELSE UNCHANGED <<pre, infeasible>>
    BY <1>5 DEF AnalyzeCallGraph
  <2>2. Stored = params.store /\ Checked = params.check
    BY <1>5 DEF Stored, Checked, Control, Params
  <2>3. \A f \in Trackable : Fresh(f)' = found[f]
    BY <1>1, <2>1 DEF Fresh
  <2>4. DOMAIN found = Trackable /\ found = [f \in Trackable |-> found[f]]
    OBVIOUS
  <2> HIDE DEF found
  <2>5. \A f \in Trackable : used'[f] \in Domain
    BY <2>1 DEF Control, Params
  <2>6. pre' = [f \in Trackable |-> IF Stored' THEN Fresh(f)' ELSE NoInvariants]
    BY <1>2, <1>3, <2>1, <2>2, <2>3, <2>4 DEF NoTable
  <2>7. infeasible' = {f \in Trackable : Stored' /\ ~Fresh(f)'.feasible}
    BY <1>2, <1>3, <2>1, <2>2, <2>3
  <2>8. checks' = [s \in Status |->
                      Cardinality({f \in Trackable : Checked' /\ Fresh(f)'.check = s})]
    <3> DEFINE Is(s) == {f \in Trackable : Checked' /\ Fresh(f)'.check = s}
    <3>1. CASE Checked
      <4>1. \A s \in Status : Is(s) = {f \in Trackable : found[f].check = s}
        BY <1>3, <2>3, <3>1
      <4>2. \A s \in Status : Cardinality(Is(s)) \in Nat
        BY FunctionsAreFinite, FS_CardinalityType
      <4> HIDE DEF Is
      <4>3. checks' = [s \in Status |-> 0 + Cardinality(Is(s))]
        BY <1>2, <2>1, <2>2, <3>1, <4>1 DEF NoChecks
      <4>4. checks' = [s \in Status |-> Cardinality(Is(s))]
        BY <4>2, <4>3
      <4> QED
        BY <4>4 DEF Is
    <3>2. CASE ~Checked
      <4>1. \A s \in Status : Is(s) = {}
        BY <1>3, <3>2
      <4> HIDE DEF Is
      <4>2. checks' = [s \in Status |-> Cardinality(Is(s))]
        BY <1>2, <2>1, <2>2, <3>2, <4>1, FS_EmptySet DEF NoChecks
      <4> QED
        BY <4>2 DEF Is
    <3> QED
      BY <3>1, <3>2
  <2> QED
    BY <2>5, <2>6, <2>7, <2>8 DEF ResultsOf
<1> QED
  BY <1>4, <1>5

LEMMA NothingThen ==
    pre' = NoTable /\ infeasible' = {} /\ checks' = NoChecks => ResultsOf({})'
<1>1. (pre = NoTable /\ infeasible = {} /\ checks = NoChecks => ResultsOf({}))'
  BY NothingProcessed, PTL
<1> QED
  BY <1>1 DEF NoTable, NoChecks

LEMMA CountingStep ==
    ASSUME Control, Counting, [Next]_vars
    PROVE  Counting'
<1> USE DEF call
<1>1. CASE Analyze
  <2>1. at = 0 /\ at' = 1 /\ UNCHANGED <<since, results>>
    BY <1>1 DEF Analyze
  <2>2. CASE since = 0
    <3>1. pre = NoTable /\ infeasible = {} /\ checks = NoChecks
      BY <2>1, <2>2, NothingProcessed DEF Counting, FirstAnalysis, Processed
    <3>2. ResultsOf({})'
      BY <2>1, <3>1, NothingThen DEF results
    <3>3. Processed' = {}
      BY <2>1 DEF Processed
    <3> QED
      BY <2>1, <2>2, <3>2, <3>3 DEF Counting
  <2>3. CASE since # 0
    BY <2>1, <2>3 DEF Counting, FirstAnalysis
  <2> QED
    BY <2>2, <2>3
<1>2. CASE AnalyzeFunction
  <2>1. at # 0 /\ analyser = "intra" /\ analyser' = analyser /\ NextFunction
    BY <1>2 DEF AnalyzeFunction
  <2>2. at \in 1..Len(Functions)
    BY <2>1, Constants DEF Control
  <2>3. \/ at' # 0 /\ since' = since
        \/ at' = 0 /\ since' = since + 1
    BY <2>1, <2>2, NextFunctionCases
  <2>4. CASE since # 0
    BY <2>1, <2>3, <2>4 DEF Counting, FirstAnalysis
  <2>5. CASE since = 0
    <3>1. ResultsOf(Processed)
      BY <2>5 DEF Counting, FirstAnalysis
    <3>2. /\ Processed' = Processed \cup ({Functions[at]} \cap Trackable)
          /\ Functions[at] \notin Processed
      BY <2>1, <2>5, OneMore
    <3>3. PICK S : S = Processed /\ S \subseteq Trackable
      <4>1. Processed \subseteq Trackable
        BY DEF Processed
      <4> QED
        BY <4>1
    <3>4. PICK f : f = Functions[at]
      OBVIOUS
    <3>5. ResultsOf(S)
      BY <3>1, <3>3
    <3>6. CASE f \in Trackable
      <4>1. ResultsOf(S \cup {f})'
        BY <1>2, <3>2, <3>3, <3>4, <3>5, <3>6, OneMoreResult
      <4>2. Processed' = S \cup {f}
        BY <3>2, <3>3, <3>4, <3>6
      <4> QED
        BY <2>1, <2>3, <2>5, <4>1, <4>2 DEF Counting
    <3>7. CASE f \notin Trackable
      <4>1. UNCHANGED <<params, used, results, analyser, assumed>>
        BY <1>2, <3>4, <3>7 DEF AnalyzeFunction
      <4>2. ResultsOf(S)'
        BY <3>5, <4>1, SameResults
      <4>3. Processed' = S
        BY <3>2, <3>3, <3>4, <3>7
      <4> QED
        BY <2>1, <2>3, <2>5, <4>2, <4>3 DEF Counting
    <3> QED
      BY <3>6, <3>7
  <2> QED
    BY <2>4, <2>5
<1>3. CASE AnalyzeCallGraph
  <2>1. /\ analyser = "inter" /\ at # 0 /\ at' = 0 /\ since' = since + 1
        /\ analyser' = analyser
    BY <1>3 DEF AnalyzeCallGraph
  <2>2. CASE since = 0
    <3>1. Processed = {}
      BY <2>1 DEF Counting, Processed
    <3>2. ResultsOf({})
      BY <2>2, <3>1 DEF Counting, FirstAnalysis
    <3>3. ResultsOf(Trackable)'
      BY <1>3, <3>2, CallGraphResults
    <3>4. Processed' = Trackable
      BY <2>1, <2>2 DEF Processed
    <3> QED
      BY <2>1, <2>2, <3>3, <3>4 DEF Counting
  <2>3. CASE since # 0
    BY <2>1, <2>3 DEF Counting, FirstAnalysis
  <2> QED
    BY <2>2, <2>3
<1>4. CASE Clear
  <2>1. /\ pre' = NoTable /\ infeasible' = {} /\ checks' = NoChecks
        /\ since' = 0 /\ at' = 0
    BY <1>4 DEF Clear, NoTable
  <2>2. ResultsOf({})'
    BY <2>1, NothingThen
  <2>3. Processed' = {}
    BY <2>1 DEF Processed
  <2> QED
    BY <2>1, <2>2, <2>3 DEF Counting
<1>5. CASE UNCHANGED <<call, results>>
  <2>1. Processed' = Processed /\ FirstAnalysis' = FirstAnalysis
    BY <1>5 DEF Processed, FirstAnalysis
  <2>2. PICK S : S = Processed
    OBVIOUS
  <2>3. ResultsOf(S) => ResultsOf(S)'
    BY <1>5, SameResults
  <2> QED
    BY <1>5, <2>1, <2>2, <2>3 DEF Counting
<1>6. ASSUME NEW q \in Query, Ask(q)
      PROVE  UNCHANGED <<call, results>>
  BY <1>6 DEF Ask
<1>7. CASE UNCHANGED vars
  BY <1>5, <1>7 DEF vars
<1> QED
  BY <1>1, <1>2, <1>3, <1>4, <1>5, <1>6, <1>7 DEF Next

LEMMA CountingInvariant == Spec => [](Control /\ Counting)
<1>1. Init => Control /\ Counting
  BY ControlInit, CountingInit
<1>2. Control /\ Counting /\ [Next]_vars => (Control /\ Counting)'
  BY ControlStep, CountingStep
<1> QED
  BY <1>1, <1>2, PTL DEF Spec

LEMMA AllProcessed ==
    ASSUME Counting, at = 0, since = 1
    PROVE  ResultsOf(Trackable)
BY DEF Counting, FirstAnalysis, Processed

(***************************************************************************)
(* After construction or clear, one analysis leaves the results of this    *)
(* analysis: every function is looked at once, in the domain that is       *)
(* chosen for it, whatever was in the tables before clear.                 *)
(***************************************************************************)
THEOREM ClearForgets == Spec => []FreshAfterClear
<1>1. Counting => FreshAfterClear
  BY AllProcessed DEF FreshAfterClear, ResultsOf, Stored, Checked
<1> QED
  BY <1>1, CountingInvariant, PTL

LEMMA OutcomeStatus ==
    ASSUME Control, NEW f \in Trackable, used[f] \in Domain
    PROVE  Fresh(f).check \in Status
<1>1. f \in Function
  BY GlobalAssumption DEF GlobalAssumption
<1> QED
  BY <1>1, GlobalAssumption DEF GlobalAssumption, Fresh, Control

(***************************************************************************)
(* The verdict is that of the functions: TRUE exactly if there is an       *)
(* assertion and all are proved, FALSE exactly if one has an error, and    *)
(* NOCHECKS exactly if there is none.                                      *)
(***************************************************************************)
THEOREM VerdictIsRight == Spec => []VerdictIsJustified
<1>1. Control /\ Counting => VerdictIsJustified
  <2> DEFINE found == {Fresh(f).check : f \in Trackable} \ {"none"}
             With(s) == {f \in Trackable : Fresh(f).check = s}
  <2> SUFFICES ASSUME Control, Counting, at = 0, since = 1, params.check,
                      ~params.only
               PROVE  /\ Verdict = "TRUE" <=> found = {"safe"}
                      /\ Verdict = "FALSE" <=> "error" \in found
                      /\ Verdict = "NOCHECKS" <=> found = {}
    BY DEF VerdictIsJustified
  <2>1. ResultsOf(Trackable)
    BY AllProcessed
  <2>2. \A s \in Status : checks[s] = Cardinality(With(s))
    <3>1. Checked
      BY DEF Checked
    <3>2. \A s \in Status : With(s) = {f \in Trackable : Checked /\ Fresh(f).check = s}
      BY <3>1
    <3> QED
      BY <2>1, <3>2 DEF ResultsOf
  <2>3. \A s \in Status : IsFiniteSet(With(s))
    BY FunctionsAreFinite
  <2>4. \A s \in Status : /\ checks[s] \in Nat
                          /\ checks[s] = 0 <=> With(s) = {}
    <3> HIDE DEF With
    <3> QED
      BY <2>2, <2>3, FS_CardinalityType, FS_EmptySet
  <2>5. \A f \in Trackable : Fresh(f).check \in Status
    BY <2>1, OutcomeStatus DEF ResultsOf
  <2>6. \A s \in Status \ {"none"} : s \in found <=> checks[s] # 0
    BY <2>4 DEF Status
  <2>7. found \subseteq {"safe", "error", "warning"}
    BY <2>5 DEF Status
  <2> HIDE DEF found, With
  <2>8. /\ "safe" \in found <=> checks["safe"] # 0
        /\ "error" \in found <=> checks["error"] # 0
        /\ "warning" \in found <=> checks["warning"] # 0
    BY <2>6 DEF Status
  <2>9. checks["safe"] \in Nat /\ checks["error"] \in Nat /\ checks["warning"] \in Nat
    BY <2>4 DEF Status
  <2>10. Verdict = "TRUE" <=> found = {"safe"}
    <3>1. Verdict = "TRUE" <=> /\ checks["safe"] # 0
                               /\ checks["error"] = 0
                               /\ checks["warning"] = 0
      BY <2>9 DEF Verdict
    <3>2. found = {"safe"} <=> /\ "safe" \in found
                               /\ "error" \notin found
                               /\ "warning" \notin found
      BY <2>7
    <3> QED
      BY <2>8, <3>1, <3>2
  <2>11. Verdict = "FALSE" <=> "error" \in found
    BY <2>7, <2>8, <2>9 DEF Verdict
  <2>12. Verdict = "NOCHECKS" <=> found = {}
    BY <2>7, <2>8, <2>9 DEF Verdict
  <2> QED
    BY <2>10, <2>11, <2>12
<1> QED
  BY <1>1, CountingInvariant, PTL

-----------------------------------------------------------------------------
Big(k) == Functions[k] \in Trackable /\ TooManyLive(Functions[k])

(***************************************************************************)
(* The domain d differs from what was asked for only because of one of the *)
(* first i functions.                                                      *)
(***************************************************************************)
Switched(d, i) ==
    d = Intervals /\ asked \in Relational /\ \E k \in 1..i : Big(k)

(***************************************************************************)
(* The same of the domain that the next function finds in the parameters.  *)
(***************************************************************************)
SharedDomain ==
    at # 0 => \/ params.dom = asked
              \/ analyser = "intra" /\ Switched(params.dom, at - 1)

SwitchInv == SharedDomain /\ SwitchedOnlyAfterBig

LEMMA SwitchDefined ==
    SwitchedOnlyAfterBig <=>
        \A i \in 1..Len(Functions) :
            Functions[i] \in Trackable =>
                \/ used[Functions[i]] \in {NotUsed, asked}
                \/ Switched(used[Functions[i]], i)
BY DEF SwitchedOnlyAfterBig, Switched, Big

LEMMA Distinct ==
    \A i, j \in 1..Len(Functions) : Functions[i] = Functions[j] => i = j
BY GlobalAssumption DEF GlobalAssumption

LEMMA SwitchSame ==
    ASSUME SwitchInv, UNCHANGED <<at, params, asked, analyser, used>>
    PROVE  SwitchInv'
BY DEF SwitchInv, SharedDomain, SwitchedOnlyAfterBig, Switched, Big, TooManyLive

LEMMA FunctionSwitch ==
    ASSUME Control, SwitchInv, AnalyzeFunction
    PROVE  SwitchInv'
<1> DEFINE n == Len(Functions)
           f == Functions[at]
           d == ChosenDomain(params.dom, f)
<1>1. /\ at # 0 /\ analyser = "intra" /\ NextFunction
      /\ UNCHANGED <<analyser, asked>>
  BY DEF AnalyzeFunction
<1>2. n \in Nat /\ at \in 1..n
  BY <1>1, Constants DEF Control
<1>3. at' # 0 => at' = at + 1
  BY <1>1, <1>2, NextFunctionCases
<1>4. params.dom = asked \/ Switched(params.dom, at - 1)
  BY <1>1 DEF SwitchInv, SharedDomain
<1>5. CASE f \notin Trackable
  <2>1. UNCHANGED <<params, used>>
    BY <1>5 DEF AnalyzeFunction
  <2>2. Switched(params.dom, at - 1) => Switched(params.dom, at)
    BY <1>2 DEF Switched
  <2>3. SharedDomain'
    BY <1>1, <1>2, <1>3, <1>4, <2>1, <2>2 DEF SharedDomain, Switched, Big,
                                              TooManyLive
  <2>4. SwitchedOnlyAfterBig'
    BY <1>1, <2>1 DEF SwitchInv, SwitchedOnlyAfterBig, TooManyLive
  <2> QED
    BY <2>3, <2>4 DEF SwitchInv
<1>6. CASE f \in Trackable
  <2>1. d = asked \/ Switched(d, at)
    <3>1. CASE params.dom \in Relational /\ TooManyLive(f)
      <4>1. d = Intervals /\ Big(at)
        BY <1>6, <3>1 DEF ChosenDomain, Big
      <4>2. asked \in Relational
        BY <1>4, <3>1, Constants DEF Switched
      <4> QED
        BY <1>2, <4>1, <4>2 DEF Switched
    <3>2. CASE ~(params.dom \in Relational /\ TooManyLive(f))
      <4>1. d = params.dom
        BY <3>2 DEF ChosenDomain
      <4> QED
        BY <1>2, <1>4, <4>1 DEF Switched
    <3> QED
      BY <3>1, <3>2
  <2>2. /\ params' = [params EXCEPT !.dom = d]
        /\ used' = used \/ used' = [used EXCEPT ![f] = d]
    BY <1>6 DEF AnalyzeFunction
  <2>3. params'.dom = d
    <3> HIDE DEF d
    <3> QED
      BY <2>2 DEF Control, Params
  <2>4. SharedDomain'
    <3> HIDE DEF d
    <3> QED
      BY <1>1, <1>2, <1>3, <2>1, <2>3 DEF SharedDomain, Switched, Big, TooManyLive
  <2>5. ASSUME NEW i \in 1..n, Functions[i] \in Trackable
        PROVE  \/ used'[Functions[i]] \in {NotUsed, asked}
               \/ Switched(used'[Functions[i]], i)
    <3>1. \/ used[Functions[i]] \in {NotUsed, asked}
          \/ Switched(used[Functions[i]], i)
      BY <2>5, SwitchDefined DEF SwitchInv
    <3>2. CASE used'[Functions[i]] = used[Functions[i]]
      BY <3>1, <3>2
    <3>3. CASE i = at /\ used' = [used EXCEPT ![f] = d]
      <4>1. used'[Functions[i]] = d
        <5> HIDE DEF d
        <5> QED
          BY <1>6, <3>3 DEF Control
      <4> HIDE DEF d
      <4> QED
        BY <2>1, <3>3, <4>1
    <3>4. CASE i # at
      <4>1. Functions[i] # f
        BY <1>2, <3>4, Distinct
      <4> HIDE DEF d, f
      <4> QED
        BY <2>2, <2>5, <3>2, <4>1 DEF Control
    <3> QED
      BY <2>2, <3>2, <3>3, <3>4
  <2>6. SwitchedOnlyAfterBig'
    BY <1>1, <2>5 DEF SwitchedOnlyAfterBig, Switched, Big, TooManyLive
  <2> QED
    BY <2>4, <2>6 DEF SwitchInv
<1> QED
  BY <1>5, <1>6

LEMMA SwitchStep ==
    ASSUME Control, SwitchInv, [Next]_vars
    PROVE  SwitchInv'
<1>1. CASE Analyze
  BY <1>1 DEF Analyze, SwitchInv, SharedDomain, SwitchedOnlyAfterBig
<1>2. CASE AnalyzeFunction
  BY <1>2, FunctionSwitch
<1>3. CASE AnalyzeCallGraph
  <2>1. /\ at # 0 /\ at' = 0 /\ analyser = "inter"
        /\ UNCHANGED <<params, asked>>
        /\ used' = used \/ used' = [f \in Trackable |-> params.dom]
    BY <1>3 DEF AnalyzeCallGraph
  <2>2. params.dom = asked
    BY <2>1 DEF SwitchInv, SharedDomain
  <2>3. SharedDomain'
    BY <2>1 DEF SharedDomain
  <2>4. SwitchedOnlyAfterBig'
    BY <2>1, <2>2 DEF SwitchInv, SwitchedOnlyAfterBig, TooManyLive
  <2> QED
    BY <2>3, <2>4 DEF SwitchInv
<1>4. CASE Clear
  BY <1>4, SwitchSame DEF Clear
<1>5. CASE \E q \in Query : Ask(q)
  BY <1>5, SwitchSame DEF Ask, call
<1>6. CASE UNCHANGED vars
  BY <1>6, SwitchSame DEF vars, call
<1> QED
  BY <1>1, <1>2, <1>3, <1>4, <1>5, <1>6 DEF Next

(***************************************************************************)
(* Although all functions of a module share the parameters, which every    *)
(* one may overwrite, a function is analysed in another domain than asked  *)
(* for only if a function above the threshold was analysed before it in    *)
(* the same analysis, however often the object is used.                    *)
(***************************************************************************)
THEOREM SharedParameters == Spec => []SwitchedOnlyAfterBig
<1>1. Init => Control /\ SwitchInv
  BY ControlInit DEF Init, SwitchInv, SharedDomain, SwitchedOnlyAfterBig
<1>2. Control /\ SwitchInv /\ [Next]_vars => (Control /\ SwitchInv)'
  BY ControlStep, SwitchStep
<1>3. SwitchInv => SwitchedOnlyAfterBig
  BY DEF SwitchInv
<1> QED
  BY <1>1, <1>2, <1>3, PTL DEF Spec
=============================================================================

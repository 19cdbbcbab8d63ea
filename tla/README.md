# Clam, modelled in TLA+

Clam translates LLVM bitcode to CrabIR, runs the abstract interpreter Crab on
the result, and gives the invariants back to its clients: a printer, an
optimizer, a query interface. This directory holds TLA+ models of the parts of
Clam where order, staleness or concurrency decide whether the result is right,
the TLC runs that check them, and TLAPS proofs about the ones that matter most.

Crab and SeaDsa are submodules of the repository whose sources are absent. What
the models need of them is stated as external: the effect of a CrabIR statement,
what an analysis of a function finds.

## The system

| Component | State | Operations | Interacts with |
|---|---|---|---|
| Driver, `py/clam.py` | `running_process`, one child and one timer thread per stage | run a stage, time limit, SIGTERM, exit | child processes, by signals and wait |
| CFG construction, `CfgBuilder.cc` | Crab blocks, edge blocks, exit block, assertion at the exit | `setExitBlock`, `buildCfg`, `execEdge`, one visitor per instruction | LLVM function in, CrabIR out |
| Phi lowering, `visitBasicBlock` | saved phis, emitted copies and assignments | two passes over the phis of a successor | called once per edge by `buildCfg` |
| Instruction visitors, `CfgBuilder.cc` | comparisons left for later, ghost variables, checked pointers | one per instruction | literals, regions, emitters |
| Literals, `CfgBuilderLit.cc` | caches from values to Crab literals | `getLit` | the visitors |
| Heap abstraction, `SeaDsa*` | ids of nodes; regions read, modified, created per function and call | `initialize`, `getRegion`, `getAccessedRegions` ... | the visitors for memory |
| Analyses, `Clam.cc` | invariants, infeasible edges, checks, parameters | `analyze`, `clear`, `getPre`, `hasFeasibleEdge` | Crab; the pass; the optimizer |
| Query cache, `ClamQueryCache.cc` | four caches | `range`, `tags`, `alias` | invariants of the analysis |
| Path analysis, `path_analyzer.cc` | forward invariants on a path, core | `solve`, `get_unsat_core` | Crab |
| Optimizer, `Optimizer.cc` | dead blocks and edges | insert invariants, replace constants, remove dead code | invariants; LLVM functions |
| Property instrumentation, `Properties/`, `PropertyInstrumentation/` | checked pointers per block | emit or skip a check | the visitors |
| Transformations, `lib/Transforms` | the LLVM module | lower unsigned comparisons, peel, devirtualise, externalise ... | run by `clam-pp` before the analysis |
| Tools, scripts, printers, JSON | none of their own | pipelines, formatting | - |

What is hard in them, and hard to test: phi nodes are simultaneous and CrabIR is
sequential; a branch condition and the phi nodes of its edge compete for the
order in one block; a comparison is translated where it is used, after its
operands may have changed; parameters of a call correspond by position, although
the two lists are made at different times from different graphs; a removal changes what the next removal refers to; a cache
and an analysis can be out of step; parameters are passed by reference and
changed on the way; three kinds of actors of the driver share one global
variable and one process. `PROJECT.json` lists these hazards with the line where
each bites.

Correct means, component by component:

* phi lowering: what is emitted is a simultaneous assignment;
* CFG construction: every execution of the LLVM function has a counterpart in
  CrabIR, and the branch conditions cut off what is infeasible;
* analyses: answers are those of the current analysis, parameters mean what their
  documentation says, the verdict follows from the checks;
* optimizer: a removal leaves valid LLVM, and the function does what it did before;
* path analysis: a path is refuted only if it is infeasible, and the core alone
  refutes it;
* heap abstraction: a region is a field, whatever a function touches is in its read,
  modified or new regions, and the regions at a call match those of the callee;
* visitors: the translation of an instruction can do what the instruction does, and
  no failing assertion is lost;
* property instrumentation: a check is skipped only if an earlier one covers it;
* transformations: an unsigned comparison keeps its meaning, a devirtualised call
  still reaches every callee, a pass finds what it relies on;
* driver: with limits it ends; without, no child survives it; no stage runs on the
  output of a failed one.

## The modules

| Module | Models | Role |
|---|---|---|
| `Collections` | | functions with some values replaced, sets of numbers in order: what the others write with |
| `ParallelCopy` | simultaneous assignment | abstract specification |
| `PhiLowering` | `visitBasicBlock`, `CfgBuilder.cc:634-777` | implements `ParallelCopy` |
| `PhiLoweringProofs` | | proofs about `PhiLowering` |
| `CrabIR` | statements of Crab that control flow needs | external |
| `LlvmSemantics` | what LLVM instructions and terminators do | external |
| `CfgBuilder` | `setExitBlock`, `buildCfg`, `execEdge`, comparisons | the translation, one action per loop iteration |
| `CfgSimulation` | an execution of the LLVM function beside the graph | composes `CfgBuilder` with `LlvmSemantics` |
| `CfgBuilderProofs` | | proofs about `CfgBuilder` and `CfgSimulation` |
| `CrabStatements` | assignments, casts, arithmetic, assertions of Crab over integers of some width | external |
| `Instructions` | `CrabIntraBlockBuilder` and the verifier-call optimizer: comparisons, arithmetic, casts, selects, verifier calls | runs the LLVM block beside its translation |
| `CrabRegions` | references, regions and arrays of Crab | external |
| `MemoryCode` | the visitors for pointers and memory, the emitters of `Properties/`, globals | runs LLVM beside the translation |
| `HeapAbstraction` | `SeaDsaHeapAbstraction.cc`, `SeaDsaToRegion.cc` | which cells become regions, and whose |
| `FunctionInterface` | `addFunctionDeclaration`, `doCallInst`, `initializeRegions`, `CfgBuilderMemRegions.cc` | composes `HeapAbstraction` with the translation of functions and calls |
| `FunctionInterfaceProofs` | | proofs about `HeapAbstraction` and `FunctionInterface` |
| `PathAnalyzer` | `path_analyzer.cc`, `pathAnalyzeImpl` | |
| `PathAnalyzerProofs` | | proofs about `PathAnalyzer` |
| `Devirt` | `DevirtFunctions.cc` | runs the old function beside the new one |
| `Optimizer` | `Optimizer::runOnFunction` and what it calls | composes `CfgBuilder`, an exact analysis of the graph, and the rewriting |
| `AnalysisQueries` | what `ClamQueryAPI` promises | abstract specification |
| `GlobalAnalysis` | `IntraGlobalClam`, `InterGlobalClam`, `ClamQueryCache`, the verdict | implements `AnalysisQueries` when it is used once |
| `GlobalAnalysisProofs` | | proofs about `GlobalAnalysis` |
| `ClamDriver` | `run_command_with_limits`, timers, `killall`, `main` | |
| `ClamDriverProofs` | | proofs about `ClamDriver` |
| `SequenceLemmas` | | induction over positions; sequences that are ordered, filtered or flattened |
| `RunLemmas` | | runs of CrabIR statements: one after the other, from more stores |
| `LlvmFunctions` | notation for the functions that are tried | used by `MCCfgBuilder`, `MCOptimizer` |
| `MC*` | | instances for TLC |

### PhiLowering

One action for a phi node in each of the two loops. `SavePhi` (lines 648-705)
looks at the operand of *this* phi: if it is a phi node of the same block that has
no copy yet, a copy of it is emitted. `AssignPhi` (707-776) emits the assignment
of the phi, from the copy of its operand if there is one. `Rewind` and `Finish`
are the ends of the loops. The variable `store` holds the values of the variables
after the statements emitted so far, so that the sequence itself need not be
stored; `saved` holds the contents of the copies. An operand is what `getLit`
can return: a phi node of the block, another variable, a constant, or no literal
at all (`NoLit`), for which the code emits a havoc. `Shadow` and `Untracked` are
the phi nodes that the loops pass over. Under the refinement mapping nothing is
assigned until the second loop is over, and then everything at once.

### CfgBuilder, CfgSimulation

`CfgBuilder` has one action per iteration of the loops of `buildCfg`: `AddBlocks`,
`VisitBlock` (the instructions of a block), `ConditionalEdge` and `PlainEdge` (one
successor), and `ConnectSinks`. A Crab block is a sequence of statements of
`CrabIR`. The phi nodes of an edge are the sequence that both loops of
`PhiLowering` emit. Of the instructions, those that control flow depends on are
translated; the others appear as one that Crab knows nothing of.

`CfgSimulation` then runs the LLVM function and, in step with it, every store CrabIR
can have on the same path of blocks: `Sound` says one of these is the program's,
`Exact` that from the same store both do the same where the translation has no
reason to lose anything, `TakenEdgesAreFeasible` that an edge is only cut off if it
cannot be taken. `TranslatedExactly` names the exceptions of `Exact`: switches,
constant expressions, unsigned orders, and comparisons with undef, where a fresh value makes
both the condition and its negation possible. A condition is an i1, 0 or 1. `FailsIffReturns` is
about the assertion for `seahorn.fail`; `ExitStops` leaves out the exits that are not a
return or a block that ends in unreachable (Observed). Values are 0, 1 and 2; "ult" is an order
for which there is no Crab constraint. An addition that overflows stops the run,
as `add nsw` may.

### Instructions

`VisitCmpInst`, `VisitBinaryOperator`, `VisitCastInst`, `VisitSelectInst`,
`VisitExtractValue`, `NormalizeFuncParamOrRet`, `VisitInstruction` and `DoVerifierCall`
are the visitors, one instruction per step. `opt` is the optimizer of verifier calls
(`m_vericall_opt`): with `avoid_boolean`, a comparison whose uses are all verifier calls
is skipped, and the call gets the constraint instead of a boolean. Uses are looked at one
after the other, and through casts (`CallsThroughCasts`, `AllUsesAreVerifierCalls`), where the
first one decides; `forward` says in which order they come, as LLVM does not. `lits` is the
literal cache. When the block is translated, it is run by `ExecuteValue`,
`ExecuteUndefined` and `ExecuteCall` next to its translation: `llvm` is one store, `crab` the
set of all stores CrabIR may have. There are two rounds with new inputs, so that a
variable that the translation forgets to assign is found with the value it had in
the round before. Crab integers are unbounded, those of the program have
`Width` bits; a step that overflows where LLVM leaves the result undefined ends
the run.

### MemoryCode

One action translates one instruction (`Translate`), one runs it on both sides
(`Execute`). A reference is an object and an offset. `tr` is what the translation
keeps on the way: the pointers checked in this block (`m_seen`), the ghost variables
for size and offset, the pointers that were written. The operators before and after
an emission are the hooks of `CrabIREmitter`; `Checks`, for one, is what the
null, use-after-free and bounds emitters put before a load or store. What they leave out
goes wrong in some cases, which `IsMissed` names: a free or another access in between, another
offset of a base that counts as trivial, an object whose size is not known. `ErrorsCaught` says that
every other fault is asserted; that every fault is, as the documentation promises, is false (Observed). The three
precisions are numbers only, arrays for singletons, and regions; a region of
unknown type forgets what is stored, an array that stands for several objects is
stored to weakly. `failed` says whether an assertion could fail at the instruction
LLVM is about to run.

### HeapAbstraction, FunctionInterface

The points-to graphs of sea-dsa, one for each function that has a body (the others have no
graph, no regions, and their calls are not looked at), and the maps from nodes of a
callee to cells of a caller are inputs. `ComputeFunction` is an iteration of the first
pass of `initialize`: ids for the nodes, the lists of regions a function reads,
modifies and creates, and the lists of all calls of it. `CheckFunction` is an iteration
of the second, which drops the regions whose types a call and its callee disagree
on, from the lists of the function and of its calls, by position.
`FunctionInterface` then declares every function (`AddFunctionDeclaration`) and builds
the bodies in any order (`BuildCfg`): accesses, calls with their regions, and the
initialisation of regions at the entry. A field of the graph of the callee is an
integer of 8, 16 or 5 bits; the last has the storage size of the first without
its type. A node that is a scalar is accessed as an integer or a boolean (`GraphFits`): a global of
another type would be declared as a region (`CfgBuilder.cc:4664-4704`) and passed as a
scalar (5208), which ends the translation with an error.

### PathAnalyzer

One action per iteration of the loops of `solve_path` (`Interpret`, `Skip`, `NextBlock`,
`EndOfPath`), of the slicing (`Slice`) and of `minimize_path` (`Recheck`, `Drop`,
`SanityCheck`). With `layered` the booleans come first, then everything. The abstract
domain is exact: sets of stores, all of them or (not `relational`) only those that are
products, so that what is wrong is wrong because of the analyzer. Statements are typed, as in
CrabIR: a constraint is about one boolean or about integers. A path with a cycle ends the analyzer
with an error, as in the code (`IsCyclic`). A path is one of CrabIR blocks, some of which stand for an edge
of LLVM (`edges`). The second layer appends to
the statements of the first (`trace`), and both are sliced and minimised together.
`Post` is what `pathAnalyzeImpl` returns to the client: the blocks of LLVM on the path, up to the first that is
bottom.

The first layer passes over statements that are not boolean. `LayerIsFit` says when that does no harm to
what it concludes: all it passed over defines variables the path had not spoken of. The paths from the
entry of a function are so, as its variables are assigned once; a path from the middle of a loop
need not be. `RefutedIsInfeasible` and the covering of `PostIsStrongest` are claimed of layers that fit;
of other paths it is false (Observed).

### Devirt

`ResolveByTypes` and `ResolveByDsa` fill the table of targets; `VisitCallBase` collects the
calls, `MkDirectCall` takes the last one, `Promote` is one comparison with a direct
call (LLVM splits the block), and `RemoveOriginal` removes the block that the
indirect call is in by then. A function is a graph of blocks with calls, phi nodes and
terminators, invokes among them. In the last stages the old function runs, then the
new one, with the same arguments and the same results of the functions they call
(`oracle`). A function that calls what its types, or a complete call graph, rule out has
no meaning, and nothing is claimed of it. The new function has no call left to a callee that the
resolver left out; `SameCalls` lets it stop there (Observed).

### Optimizer

`Build` is `CfgBuilder`, `Analyze` is Crab and the storing of its results: `pre` of
every LLVM block and the infeasible edges. Crab is exact here, the strongest
analysis there can be, so the optimizer gets every chance to remove, insert and
replace. The marking loop has one action per block (`SkipBlock`, `MarkDeadBlock`,
`ProcessBlock`), and each removal is a step (`RemoveDeadEdge`, `RemoveDeadBlock`).
`opt` is the function as rewritten so far, in the notation of `CfgBuilder`. What
LLVM does on its own is part of the removal: a phi node that loses its last entry
is deleted, `removePredecessor` folds phi nodes that have one value left, and the
values of a deleted block become undef. In the last stage the original function
runs, and `SameSteps` compares it with `opt` at every block it gets to.

The invariant of a block is inserted as one call of `verifier.assume` on the
variables that `CodeExpander` keeps. The linear constraints, and whether their
terms overflow, are abstracted; invariants after loads are not modelled.

### GlobalAnalysis

One object, from construction on, used by a client that calls `analyze` (with any
parameters and assumptions), `clear` and the queries. `AnalyzeFunction` is one
iteration of `IntraGlobalClamImpl::analyze`; `AnalyzeCallGraph` is the whole
interprocedural analysis. What Crab finds is the constant `Outcome`, for every
function, domain and assumption. `analyser` is the class of the object, chosen
among `Analysers`; `Reanalysis` says whether it may be used more than once. `params` is shared, as in the
code: the analysis of a function above the threshold overwrites `params.dom`, and the
functions after it get what it left. `asked` keeps what the caller named, and `SwitchedOnlyAfterBig` relates
the two. The
path analysis is `PathAnalyzer`, the pretty printers are not modelled; `pre` stands for the
invariants at the entry and at the exit, which are always stored together.

### ClamDriver

The main thread, one timer thread per limited stage, the SIGTERM handler (which
suspends the main thread, as Python runs it there) and the children are
interleaved. Every read of `running_process` is a step of its own: `killall`
reads it four times. `handler` is a stack of activations of `killall`: one that the
`finally` clause of the script calls, and one for each SIGTERM, which may interrupt any other.
`Popen` may fail with an OSError, which leaves `main` for the `finally` clause (`PopenFails`).
`Popen.terminate`, `kill` and `wait` are external, with the
facts that matter: they poll, and a poll collects a child that has ended, so the
main thread's `wait4` fails with ECHILD; and an activation that is interrupted in `wait` keeps
the lock, so that the one above it waits for ever if the child was not collected (`HandlerWaits`). `limited`,
chosen at the start among `Limits`, says which stages have a time limit.

## Runs

| Run | Instance | Shows |
|---|---|---|
| `phi_lowering` | three phi nodes and a skipped one, every choice of operands | the two loops implement a simultaneous assignment |
| `cfg_translation` | 144 functions of up to five blocks | soundness, precision, no dead end but the exit, the assertion for `seahorn.fail` |
| `instructions` | straight-line blocks of up to seven instructions over integers of 3 bits, two rounds | no value and no failing assertion is lost, none is added |
| `memory` | straight-line code with up to three objects, all precisions and checks | loads find what was stored; a fault is asserted unless it is one the emitters miss, and nothing else is; ghosts describe the object |
| `regions` | main and one or two callees, both precisions | regions are fields; formal and actual regions correspond; effects come back; what is used is initialised |
| `path_analyzer` | paths through a conditional and a loop, one or two layers, both kinds of domain | if the last layer is fit for the path, a refuted path is infeasible and the invariants cover its executions; the core explains it and is minimal |
| `devirt` | 7 shapes of functions with up to two indirect calls, both resolvers | the same calls before and after, up to one left out; phi nodes match predecessors; the statistics are right |
| `optimizer` | 40 functions of up to five blocks, with up to 12 choices of options | well formed after every removal, same behaviour, dead code gone except what stands before an unreachable |
| `analysis_once` | both classes, one analysis, any parameters, any queries | the cache is invisible, the verdict agrees with what was found |
| `analysis_again` | both classes, two analyses, clears in between | a cleared object is as good as new, except for its cache; a function loses its domain only to a big one before it |
| `driver` | `clam-pp`, `opt` and `clam`, all or no limits, at most one SIGTERM, a stage that cannot be started | it ends with limits; without, no orphans; a failed stage is the last; so is one that `killall` finds while it is waited for |

One more run, `stale_answer`, shows a disagreement between the code and what it says of
itself: `clear()` is to "clear all the internal state" (`Clam.hh:55`), but those of the two classes keep the query
cache (`Clam.cc:687-692`, `881-886`), and TLC finds an answer of an earlier analysis that survives.

### Bounds

* `phi_lowering`: three phi nodes are the least number with a cycle, a chain and a
  bystander; two values tell a variable from another. The proofs cover any number.
* `cfg_translation`, `optimizer`: the functions cover straight lines, joins, loops
  of one and two blocks, switches, endless loops, unreachable and resume, with
  all kinds of conditions. For the optimizer, blocks and edges are dead by a constant
  condition, by the values, by a test that follows from an earlier one, because an
  addition always overflows, or not at all; one edge of a branch is dead, both
  are, or the block with the branch is. Three values let a loop run twice.
  Functions that the translation gets wrong are left out, since one would hide the
  others (they are listed under Observed, and `Supported` says which they are); constants are replaced (`constants` of a job)
  in the functions without phi nodes.
* `instructions`: integers of 3 bits have room for overflows of each operation, for
  negative numbers and for signed and unsigned orders that differ; references are
  null and two others. Every predicate, opcode, cast and verifier function
  is tried; comparisons reach verifier calls directly, through casts and through
  selects, with one user or several, in both orders of the users. In the second
  round integers have two values: all it needs is that they can differ from the
  first. Where unsigned comparisons are lowered, and where an integer is itself a
  condition, inputs are not negative. No user stands behind a cast that is only asserted. The others are under Observed.
* `memory`: objects of up to three cells (`MaxObject` = 3 of them); `MaxOffset` = 1, the largest
  offset of a reference of which nothing is known; every subset of the checks that
  matters for an instruction; both kinds of regions, typed and unknown. There are programs for each case
  that the emitters leave out, with reason or without: a free or a realloc between two accesses, another
  offset or another size of a base that was checked or is trivial, two objects selected from, a block that
  ends in between. With bounds checks, no gep has several indices of which one is symbolic (Observed).
* `regions`: fields at offsets 0 and 1, of sizes that do or do not overlap; callers that
  agree with the callee, swap its arguments, alias them, pass a field, or access the
  field with another type or size. Two calls let the mismatch of one meet the
  other; a chain of two calls hands regions through a function that does not use
  them itself. Where the arguments are aliased, main accesses none of its objects, and
  they are only handed on. sea-dsa never maps a node that the callee writes and another
  one to one node of a caller: `ImageFits` assumes it of every program, here and in the proofs.
* `path_analyzer`: two values; a boolean, integer or mixed contradiction, with the
  statements that matter in the first or the last block; paths from the entry, from
  the middle, without an edge between their blocks, with a cycle, and empty ones; a boolean that is
  read before it is defined again, where `LayerIsFit` is false.
* `devirt`: functions of two types, one with its address not taken, one without a body, one
  of the verifier; straight code, chained calls, joins, loops, invokes, a call that
  is retried, inline assembly. With `MaxCalls` = 3 calls a loop is entered again with
  the values of its own second round.
* `analysis_*`: a function above the threshold between two below it, a variadic one; two
  domains; an assumption that makes an edge infeasible. Two analyses
  (`MaxAnalyses`) are enough for any state left behind by the first to meet the
  second.
* `driver`: three stages, so that a late timer of the first meets the second, and a
  third is left to be started after it; one SIGTERM (`MaxSignals`), which may also interrupt the
  `killall` of the `finally` clause. With a second one the driver need not terminate
  (Observed); the theorems hold for any number.

### Fairness

Only `ClamDriver` has liveness properties. Its fairness is weak: the threads are
scheduled, a timer that is armed expires, and a child that was sent SIGKILL dies.
Nothing is assumed of a child otherwise: a stage may run for ever, which is why
`Terminates` needs a limit for every stage. The other modules are sequential
code without waiting; they state safety only.

`CHECK_DEADLOCK FALSE` is set where a model stops: the translation is finished, the
function has returned, the driver has exited. The models of `instructions`, `memory` and
`regions` end in a step that stutters, so that TLC reports every other stop.

### Observed, without a run of its own

Reading, and exploratory runs of these models, showed more than `stale_answer`. The passing runs
avoid these cases; where a property is weakened because of one, its comment says so.

Eight contradict what a comment, a header or an option says. TLC finds a counterexample to each as soon as
the property is stated without its exception, or the inputs without theirs:

| What happens | What is said |
|---|---|
| A cheaper domain that the interprocedural analysis chooses is not used (`Clam.cc:966`, 981). | "we switch to a cheap domain regardless what the user wants" (929-930) |
| A base that was checked is not checked again after a free in the same block (`UafCheck.cc:44`). | "Emit crabIR to perform use-after-free checks" (`CfgBuilderParams.hh:52`) |
| A bounds check is trivial for a base that is an alloca, a global or a dereferenceable argument, at whatever offset (`BndCheck.cc:40`), and for one that was checked before in the block (47). | "at all memory accesses" (`CfgBuilderParams.hh:54-55`) |
| The ghost offset of a gep with several indices, one of them symbolic, is that of the first (`BndCheck.cc:254`). | "p_offset indicates the offset of element pointer" (219-222) |
| The first layer of the path analyzer keeps the old value of a variable that is defined again (`path_analyzer.cc:57`): a path from the middle of a loop is refuted though it has an execution. | "Return false if the path implies false" (`Clam.hh:427`) |
| Unsigned comparisons of operands of different signs are lowered the wrong way round: for x >= 0 > y, x is said not to be below y (`CfgBuilder.cc:209`, 222; the pass `LowerUnsignedICmp.cc:56` has the same cases). | "Lower unsigned comparison operators into signed one" (`CfgBuilderParams.hh:30`) |
| The first user that is a cast decides for all users (`CfgBuilderUtils.cc:363`): a comparison that another instruction reads is not translated. | "Return true if all uses are verifier calls" (347) |
| The original call is removed whatever the options say (`DevirtFunctions.cc:138`; `DevirtFunctionsPass.cc:28-30`), and no bounce function is made: a run that reaches a callee nobody resolved, or one without a body, ends in unreachable code. | "resolved implicitly by calling through the function pointer argument in the default case of bounce function" (213-215) |

And the others, by component:

Control flow (`CfgBuilder.cc`):

* In a loop of one block the phi nodes are assigned before the branch condition is
  assumed (4359): if the condition reads one of them, CrabIR misses executions.
* The phi assignments of a switch's successors are all put into the block of the
  switch (4341): if a successor is a block the switch can come back to, CrabIR assigns
  its phi nodes on the other paths too.
* When both successors of a conditional branch are the same block, both edges are
  taken for the same one (4122).
* Terminators other than branches and switches get no edges for their successors (4187).
* The search for an exit among blocks without successors ends with the last one,
  and in an endless `main` the assertion for `seahorn.fail` is put into the loop
  that serves as the exit, or into a block that ends in a resume if there is nothing
  better (4258, 4377): it can fail though `main` does not return.

Instructions:

* An unsigned comparison that Crab has no constraint for leaves its boolean as it was
  (332, 337), and so does a signed order of booleans.
* An integer condition is tested by "v >= 1", so a negative one counts as false.
* With `avoid_boolean`, which is the default, an assertion of an
  unsigned comparison that reaches it through a cast disappears.
* The literal of undef is cached although the comment says it is nondeterministic, and
  the cache of integers has no key for the sign.
* Without useless havocs (171) a variable defined by an unknown instruction keeps the
  value of the previous iteration.
* The lowering of `llvm.*.with.overflow` assumes that nothing overflows.

Memory and checks:

* Pointers that are arguments or globals have no ghosts. Of a phi node only the first
  operand is looked at (`BndCheck.cc:233`).
* With `check_only_typed` a base counts as checked even if the check was left out.
* Checks exist in the precision for regions only. An access through the literal null is
  not translated, with a warning.
* A call of a function without a body does not havoc its regions in that precision (a
  "TODO" in the code); an indirect call only havocs its result. A constant that does not have
  the width of a typed region is not stored (`CfgBuilder.cc:3098`). A boolean stored and
  loaded as an integer becomes -1.
* The initialisation of each global makes the first store of that global strong, also in an
  array that several globals share. `realloc` keeps the old object.

Regions and calls:

* The search for overlapping fields ends at a field that is accessed with two sizes
  (`SeaDsaToRegion.cc:116`): a region gets a type although another field reaches into it,
  where `HeapAbstraction.hh:158-161` promises that this cannot be.
* A node of size zero, or an offset beyond the size, gives two cells the same id
  (`SeaDsaHeapAbstraction.cc:50`).
* In the precision for arrays the types of a call and its callee may differ although "the
  sanity check should always pass" (`SeaDsaHeapAbstraction.cc:389`): the caller does
  not track a field that it accesses with another size, and the translation ends with
  an error. So it does for a global that is a scalar in the callee and merged in the
  caller, and for a recursive `main`.
* In that precision a caller can also track a field that its callee does not, because it accesses an
  earlier field with two sizes and the search ends there. If it tracks as few others, of the
  same types, lengths and types agree, and the call passes the regions of other objects:
  TLC finds `ActualsMatchFormals` violated for a callee with three arguments of this kind. The run has
  no such program; the theorem excludes it by `TracksAlike`.
* A region that a call creates overwrites a region of the caller that already holds
  objects. One that is used before that call is not initialised.
* A region whose only use is to be cast for a call, because the callee knows it by
  another type, is not initialised either: the sources of casts are collected
  (`CfgBuilder.cc:4008`) but not added to what may be initialised, although "any region should
  be initialized before used" (3898). `RegionsInitialised` exempts the sources of casts.
* `initialization_done` is static (`CfgBuilder.cc:4977`): a second manager in the same process
  finds no declarations.

Analyses:

* `IntraClamImpl::analyze` writes the cheaper domain to the parameters of its
  caller, and the functions after a big one are analysed with it too
  (`Clam.cc:292`). The threshold is printed as ">=" (212) and compared with ">" (290, 964). `run_liveness` has no effect for the domains that are not
  relational (279). Infeasible edges are only ever added (391), so an edge that a
  second analysis finds feasible stays infeasible without `clear`.
* For an empty path, or one whose blocks are not connected, the path analyzer returns true,
  but the invariants of its blocks are bottom (`path_analyzer.cc:55`).
* If the first layer does not refute the path, the second appends to the statements it collected
  (`path_analyzer.cc:135`, 157): the core may have a statement twice, or out of the order of the
  path. Only with one layer it is a part of the path (`OneLayer`). The comment at 133
  says that `path_statements` contains the statements along the path.

Optimizer and devirtualisation:

* A phi node is replaced by the constant that one of its predecessors gives it
  (`Optimizer.cc:476`).
* `Optimizer::runOnFunction` overwrites `change` before the removal (761): a function that
  only got invariants or constants is reported as unchanged.
* Invariants after loads are inserted without a dominator tree (507-514), so they
  may use values that do not dominate them.
* A limit of 0 targets is documented as unlimited (`DevirtFunctions.hh`) and resolves
  nothing. With the resolver by types, the number of unresolved calls is zero minus
  the calls of inline assembly, unsigned.

Driver:

* A stage that ended by itself can be reported as a timeout (`clam.py:127`): the timer's
  `terminate` polls and collects it, and the main thread's `wait4` then fails.
* `clang` is run without a time limit (675).
* A late timer of a stage that is over sets `running_process` to None (91)
  when the next stage is running already; `killall` then fails with an
  AttributeError between its test and its reads, or finds nothing to kill, the
  driver exits with code 1, and the stage is orphaned. This is why `NoOrphans` is
  claimed without limits. A SIGTERM that finds nothing is lost: the driver goes on with
  the stages that are left, though it was waiting for a child. `SigtermStopsPipeline`
  therefore starts when `killall` has found a process, not when the signal arrives; the
  stronger form holds of two stages and fails with three, which came out of its proof.
* A second SIGTERM while `killall` is in `Popen.wait` (1117) runs `killall` again, whose `wait` needs the
  lock that the first one holds: both stop for ever, and the main thread below them.

## Proofs

Eight modules hold theorems; `PROJECT.json` lists the ones to know. Each has an
inductive invariant, given at its head and checked by TLC on the runs before it was
proved, one lemma per action, and the theorems that follow.

`SequenceLemmas` makes induction possible: no number is the smallest counterexample
(`Smallest`), so a set of positions that holds 0 and with every position the next one
holds them all (`UpTo`). From it come that a recursive function satisfies its
equations (`Recursion`) and what `InOrder`, `Pick` and `Flatten` return. `RunLemmas` has what
running CrabIR composes of: `Run` of one statement, of two sequences, from more stores, from
none.

`PhiLoweringProofs`: `PhiInv` is the inductive invariant of the two loops. It says
that copies hold the values on the edge, that what has not been assigned yet is
unchanged, and that a phi node that reads another one has its copy once the first
loop has passed it; without the last part what is assigned need not be right
(`AssignedAreRight`). `Refinement`
follows from it, for any number of phis and any operands, under
`PhiLoweringAssumption` alone.

`CfgBuilderProofs`: `GraphInv` says that a block that was visited has an edge in the graph as soon as its
first successor was processed (`Followed`), and that a visited block that ends in unreachable is
connected (`Connected`). `ExitIsTheOnlyEnd` needs
`FunctionAssumption`: the verifier of LLVM, at most one return, and a resume only where
nothing else ends the function. The last is what `UnifyFunctionExitNodes` and `LowerInvoke`, which
run before, leave; without it a resume can be a dead end. That a resume in a block that cannot be reached
does no harm is an argument about sets of blocks that cannot be left (`Closed`): what is
visited is in all of them.

The other half of the module proves that the translation is sound. `CodeInv` says what the graph
holds while it is built: the code of every block that was visited, and for every edge that was
processed its block with the phi code and the assumption, each once and in that order.
`SimInv` says that one store of CrabIR agrees with the program, and that
a comparison that dominates the current block is current: its value is that of comparing its
operands now. The second part is needed because a branch on a comparison is translated by its
operands, where LLVM reads its value. A step of the program is followed in three parts: `BodyRuns`
(the instructions of a block, by induction over them), `PhiRuns` (the copies of all old values, then the
assignments, are what LLVM does at once) and `BranchRuns` (what the edge assumes is true when
the program takes it). `TranslationIsSound` and `EdgesAreFeasible` conclude `Sound` and
`TakenEdgesAreFeasible` for any functions and values, under `FunctionAssumption` and two hypotheses more:

* `IncludeUselessHavoc`: without it both are wrong (Observed, 171).
* `SimulationAssumption`, which TLC evaluates on the functions of the run. `Typed` and `Dominated` are
  what LLVM's verifier guarantees: types, and definitions that dominate uses, here that a comparison
  is computed again between a change of its operands and a branch on it. `Typed` also requires
  an unsigned order to be used by branches only, since `cmpInstToCrabBool` leaves the boolean
  of the others as it was (332). `Supported` leaves out the first three cases under Observed,
  for which `Sound` is false: a loop of one block whose condition reads its phi
  nodes, a branch with equal successors, and phi nodes in a successor of a
  switch. The last does not occur if `LowerSwitch` ran before, which `Clam.hh:10` asks for; nothing
  prevents the others.

`ErrorsAreReturns` (`FailsIffReturns`) needs in addition where the assertion is: `AssertInv` says that
`hasFail` is set as soon as a block with a call was visited, and that the assertion is the last
statement of the exit and of no other block. An exit that ends in unreachable
has a statement before it that nothing passes, and a return is the exit because there is only one.

`TranslationIsExact` (`Exact`) is the other direction of the simulation: from a store that agrees with the
program's, what the statements reach is what the program reaches (`BodyRunsBack`, `PhiRunsBack`), and the
assumptions of an edge hold only where the program takes it (`BranchRunsBack`). This direction needs that a
comparison and its negation exclude each other, which is wrong for undef
(`NegationExcludes`), and `EdgesInv`: the graph has no edges but those `CodeInv` speaks of.

`FunctionInterfaceProofs` has three invariants, one on top of the other. `RegionInv` says that
the ranges of ids two nodes take do not overlap, below `maxId`, and that what `getId` was
asked for is in them; a node asked for again gets the id it has. `RegionsAreFields` follows.
`RegionsDoNotOverlap` needs little more than that what was given is a cell of the program: the search in
`SeaDsaToRegion.cc` is right for any offsets where each field has one size.

`ListsInv` says what the lists of a function and of its calls are. The code filters both in two
passes, sorts what is left into read, modified and new, and drops what is not tracked;
a call and its callee must do this alike, or positions shift. So the invariant is about
positions in `InterfaceCells`, of which every list is a selection in order: `Listed` before the sanity check of a
function, `KeptAt` after it, the same set for a function and for all calls of it. The
difference that `OnlyRead` and `New` take by region is one of positions because two positions with
one region are of one node, and a node that is modified is nobody else's image
(`SameRegion`, `StableDifferenceIs`).

`CfgInv` says of the CFGs that a function is declared with the regions of its lists, that a call
that was translated passes and gets those of its own, and that ids have not changed since. The
references to globals come first in a list of parameters, but the code compares lengths and kinds only;
`PassesBoth`, `RefsFirst` and `SameEnd` show that where the check passes, the two lists turn from references to
regions at the same position. `CallsAreRight` is the conjunction of the three, and what follows from it is:

* `CallsGetEffects`: what a callee writes comes back. Nothing is assumed about tracking.
* `ActualsAreImages`: actual and formal regions correspond, as long as a region tracked in a
  caller is tracked in the callee (`TracksAlike`). Without it the theorem is false (Observed). With
  precision MEM everything is tracked (`ActualsAreImagesInMem`); for arrays it is a hypothesis, which
  holds in all states of the run.
* `RegionsGetValues`: what is used has a value, with precision MEM; the others have no regions.

All hold for every program that fits (`ProgramsFit`): offsets in a node lie below its
size (a cell beyond it is under Observed), what is reachable is in the graph, a call maps cells of the
callee to cells the caller has, and no other node to that of one the callee modifies. These are
guarantees of sea-dsa.

`PathAnalyzerProofs`: `PathInv` says that the abstract value covers what runs of the path reach
before the current statement if the layer fits the path (`LayerIsFit`), and is equal to it for a relational domain in
the layer that looks at everything. The first layer passes over statements; that this loses nothing needs that the
variables they define have not been mentioned before on the path, of which the state then says
nothing (`Open`, `Unseen`). This is a condition of `RefutationIsSound` and of the first half of `PostCoversRuns`, not an
assumption on the jobs: of a path that a first layer refutes after passing over a redefinition nothing is claimed, and
nothing could be (Observed); a path that came to the second layer needs no condition. `JobAssumption` only
says that jobs are typed. `CoreIsContradictory` goes through slicing and minimisation, and has no condition either: what is
left when `solve` refutes a path has no run.

From that alone follows `CoreRulesOutPaths`, for any path through the blocks of the core that defines its
variables once. At the end of such a path every statement of it could be executed
again and change nothing (`Settled`): an assignment keeps what it said, as neither its
variable nor its operands are defined later. So the store at the end passes the
core, in whatever order it is, and there is none.

`CoreIsExplanation` (`CoreExplains`) and `CoreIsMinimised` (`CoreIsMinimal`) need what the two slices keep, and have an
inductive invariant of their own, `CoreInv`, on top of `PathInv`. While a layer is solved, the statements it
collected lead to its abstract value (`Passes`) and are in the order of the path (`Ordered`); what is before them is of the
first layer, all boolean, and collected once more as the second layer proceeds (`TwoLayers`). The argument then is:

* The slice with control dependencies keeps all tests, and leaves out what defines variables
  that do not matter behind it. With and without it, the abstract values agree on
  the variables that are live (`KeptLike`, `OmittedLike`), so the slice is bottom because
  everything is (`SliceIsBottom`): the sanity check at the end of `minimize_path` passes.
* Where every statement defines variables that the earlier ones do not mention (`Fresh`), fewer statements
  say less (`LessSaysLess`). Then one greedy pass is enough: what could not be left out at
  first cannot be left out later (`Greedy`). On a path that defines its variables
  once, this is so of what one layer collects (`OrderedFresh`).
* The statements of two layers are not `Fresh`. The slice along data dependencies keeps of the first only
  tests of variables that the path does not define (`DataSliceFresh`). The slice with control dependencies keeps
  more, but its second part is bottom without the first, so the greedy pass, which
  starts at the front, drops the first part entirely and then goes on in the second (`GreedyStep`).

Both theorems have the hypothesis `NoOverflow`, that the code of the job has no `add1`. The values of the model are
bounded, and an addition without a result in `Val` ends the run; a statement that can end
a run must not be sliced away. The integers of Crab are not bounded and additions always have
a result, so this is about the model. The jobs of the run meet it. Nothing else is assumed; that
`CoreIsMinimal` is about paths that define their variables once is part of the property.

`GlobalAnalysisProofs`: `Control` is what the type invariant says and a little more;
`CacheInv` says that the cache is empty until the only analysis is complete and
agrees with the invariants from then on. The first part is needed because
queries before the analysis must not leave anything behind: they do not, as the
code never keeps a full range. `CacheIsTransparent` concludes that an object used
once (`~Reanalysis`) implements `AnalysisQueries`. `stale_answer` shows that the hypothesis is needed. `SharedParameters`
is about what the functions of one analysis do to each other: `SwitchInv` follows the shared `params.dom` from function
to function, which is the domain the caller asked for, or intervals after a function above the
threshold (`Switched`), for either class and however often the object is used. `Counting` says that until a
second analysis starts, the tables hold the results of the functions analysed since
construction or `clear`, each counted once, and nothing else: from it come
`ClearForgets` and `VerdictIsRight`. All hold for any module that lists a function
once, any domains and whatever Crab finds.

`ClamDriverProofs`: `Control` is the typing of the three kinds of threads; `Pipeline` says who may
collect a child and when: the children before the current stage are collected and returned 0, those
after it are not started, and the current one is collected before anybody looks at its result.
`NoStageAfterFailure` follows for any pipeline, time limits and number of signals. `Activated` is about all
activations of `killall`, interrupted or not: what one waits for is the current stage, and behind its `wait` that is collected. Without
limits, `Unlimited` says that only `killall` clears `running_process` while it runs, so it never fails
halfway: `NoChildSurvives`. `AimedAreDoomed` follows a child from the moment `killall` finds it to the
end of the driver: `SignalsStopThePipeline`.

Only model-checked:

* liveness under fairness (`Terminates`), which TLAPS cannot prove;
* the visitors (`Instructions`, `MemoryCode`): bits are those of the module `Bitwise`, which the provers do not have,
  and a run of the program is a fold;
* the optimizer and the devirtualisation: dominance, reachability and the exact analysis are fixpoints
  written as folds or recursive operators, which the runs need to be fast.

## Not modelled, and the plan

Parts of modelled components that are left out:

* `CfgBuilder.cc`: terminators other than branches, switches, returns and unreachable;
  `AllUsesAreNonTrackMem` (1333-1373) and `skipAssertionIfUntypedOrCyclic` (1640-1721),
  which only skip work; structures and nested arrays with initial values; the contents of
  memset and memcpy; vectors and floating point, which become havocs.
* Query cache: the conversion of intervals to ranges of LLVM.
* Optimizer: invariants after loads.
* Devirtualisation: bounce functions, which are compiled out, and musttail calls.
* Driver: command lines, KeyboardInterrupt.

Components that are left out: `LowerUnsignedICmp` (its cases are those of
`unsignedCmpIntoSignOnes`, which `Instructions` has) and the other transformations, which
rewrite one instruction at a time; the LLVM passes of `PropertyInstrumentation/`, whose
properties the emitters in `MemoryCode` check; the pipelines of the tools.

Proofs that are planned, in this order:

1. `PhisMatchPreds` of `Devirt`, whose steps are local to a block, and then of `Optimizer`.

Left out for good: formatting and parsing (printers, JSON), the registration
tables of the domains, command line options, statistics, naming of values. They
have no state that a property could relate. Crab and SeaDsa are not in the
repository.

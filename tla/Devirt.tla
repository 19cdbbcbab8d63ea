-------------------------------- MODULE Devirt --------------------------------
(***************************************************************************)
(* DevirtFunctions.cc: indirect calls become chains of comparisons and     *)
(* direct calls. A resolver says which functions a call may reach, from    *)
(* the types of the functions or from the call graph of sea-dsa; the calls *)
(* are collected in a first pass over the module and rewritten from the    *)
(* last to the first, each rewriting splitting blocks the others are in.   *)
(* Afterwards the old and the new function are run with the same arguments *)
(* and the same results of the functions they call.                        *)
(*                                                                         *)
(* A program p is a record                                                 *)
(*   funcs     the functions of the module, a sequence ordered by address  *)
(*   info      for each [type, local, taken, decl, name], where name is    *)
(*             "plain", "intrinsic", "seahorn", "verifier" or "main"       *)
(*   fn        the function with the calls: [code, phis, term], each for   *)
(*             every block. A label is a sequence of names, <<"entry">>    *)
(*             for the first. code is a sequence of calls [op, id, lhs,    *)
(*             callee, args] and comparisons [op, lhs, args]; a phi node   *)
(*             is [lhs, inc]; a terminator [op, succs, cond], with op      *)
(*             "br", "condbr", "ret", "unreachable" or "invoke" (then with *)
(*             call; succs are the normal and the unwind destination).     *)
(*             An operand is V(x), F(f), Undef or Asm. Variables and the   *)
(*             names of calls are sequences of names as well               *)
(*   order     the names of the calls, in the order of the module          *)
(*   site      for each indirect call [type, cast, asm, complete, dsa]:    *)
(*             its type; the type of the variable that a bitcast hides, or *)
(*             ""; is it inline assembly; what CompleteCallGraph says      *)
(*   resolver, incomplete, max   the options                               *)
(*   params, results   the arguments that are tried, as values of the      *)
(*             parameters, and what calls may return ("throw": they do not)*)
(***************************************************************************)
EXTENDS Integers, SequencesExt, FiniteSetsExt

CONSTANTS
    Programs,
    MaxCalls    \* calls in a run

VARIABLES
    prog,
    pc,         \* "resolver", "visit", "resolve", "promote", "remove", "old", "new", "end"
    todo,       \* calls the pass at hand has not looked at, or callees
    targets,    \* m_targets_map: type or call |-> sequence of functions
    worklist,   \* m_worklist
    stats,      \* m_stats
    fn,         \* the function, as rewritten so far
    cur,        \* the call that is being promoted
    oracle,     \* what the calls of a run return
    run         \* [old, new], each [blk, at, store, trace, end]

rewriting == <<targets, worklist, stats, fn, cur>>
vars == <<prog, pc, todo, targets, worklist, stats, fn, cur, oracle, run>>

V(x) == <<"v", x>>
F(f) == <<"f", f>>
Undef == <<"undef">>
Asm == <<"asm">>

Blocks(g) == DOMAIN g.code
Entry == <<"entry">>

\* The calls of g at their places: [blk, at, call]; an invoke is at the end.
Calls(g) ==
    UNION {{[blk |-> b, at |-> k, call |-> g.code[b][k]] :
               k \in {k \in DOMAIN g.code[b] : g.code[b][k].op = "call"}}
           \cup (IF g.term[b].op = "invoke"
                 THEN {[blk |-> b, at |-> Len(g.code[b]) + 1, call |-> g.term[b].call]}
                 ELSE {}) : b \in Blocks(g)}
PlaceOf(g, id) == CHOOSE c \in Calls(g) : c.call.id = id

IsIndirectCall(c) == c.callee[1] # "f"
IndirectCalls(g) == {c.call.id : c \in {c \in Calls(g) : IsIndirectCall(c.call)}}
IsInvoke(id) == \E b \in Blocks(prog.fn) :
    prog.fn.term[b].op = "invoke" /\ prog.fn.term[b].call.id = id

-----------------------------------------------------------------------------
(* Resolvers *)

\* populateTypeAliasSets: the functions that a pointer may point to.
IsCandidate(f) ==
    LET i == prog.info[f] IN
    /\ i.name = "plain"
    /\ ~(i.local /\ ~i.taken)
    /\ ~i.decl

\* Mutant of SiteId: the cast is not looked through.
SiteIdOfCall(id) == prog.site[id].type

\* typeAliasId of a call.
SiteId(id) ==
    IF prog.site[id].cast # "" THEN prog.site[id].cast ELSE prog.site[id].type

TypeTargets ==
    LET candidates == SelectSeq(prog.funcs, IsCandidate)
        types == {prog.info[f].type : f \in ToSet(candidates)}
    IN  [t \in types |-> SelectSeq(candidates, LAMBDA f : prog.info[f].type = t)]

\* The constructor of CallSiteResolverByTypes.
ResolveByTypes ==
    /\ pc = "resolver" /\ prog.resolver = "types"
    /\ targets' = TypeTargets
    /\ pc' = "visit" /\ todo' = prog.order
    /\ UNCHANGED <<prog, worklist, stats, fn, cur, oracle, run>>

\* One call of the loop in the constructor of CallSiteResolverByDsa.
ResolveByDsa ==
    /\ pc = "resolver" /\ prog.resolver = "sea-dsa"
    /\ todo # <<>>
    /\ todo' = Tail(todo)
    /\ LET id == Head(todo)
           s == prog.site[id]
           found == SelectSeq(prog.funcs, LAMBDA f : f \in s.dsa)
       IN  IF id \notin IndirectCalls(prog.fn) THEN UNCHANGED <<targets, stats>>
           ELSE IF (prog.incomplete \/ s.complete) /\ found # <<>>
                        /\ Len(found) <= prog.max
           THEN targets' = (id :> found) @@ targets /\ UNCHANGED stats
           ELSE stats' = [stats EXCEPT !.unresolved = @ + 1] /\ UNCHANGED targets
    /\ UNCHANGED <<prog, pc, worklist, fn, cur, oracle, run>>

BeginVisit ==
    /\ pc = "resolver" /\ prog.resolver = "sea-dsa" /\ todo = <<>>
    /\ pc' = "visit" /\ todo' = prog.order
    /\ UNCHANGED <<prog, rewriting, oracle, run>>

\* getTargets, empty for nullptr.
GetTargets(id) ==
    LET key == IF prog.resolver = "types" THEN SiteId(id) ELSE id
    IN  IF key \in DOMAIN targets THEN targets[key] ELSE <<>>

-----------------------------------------------------------------------------
(* resolveCallSites *)

\* Mutant of Visit: inline assembly is counted, and resolved all the same.
VisitAsmToo(id) ==
    /\ stats' = [stats EXCEPT !.asm = @ + IF prog.site[id].asm THEN 1 ELSE 0]
    /\ worklist' = Append(worklist, id)

\* visitCallInst and visitInvokeInst, for indirect calls.
Visit(id) ==
    IF prog.site[id].asm /\ ~IsInvoke(id)
    THEN stats' = [stats EXCEPT !.asm = @ + 1] /\ UNCHANGED worklist
    ELSE worklist' = Append(worklist, id) /\ UNCHANGED stats

VisitCallBase ==
    /\ pc = "visit" /\ todo # <<>>
    /\ todo' = Tail(todo)
    /\ IF Head(todo) \in IndirectCalls(fn) THEN Visit(Head(todo))
       ELSE UNCHANGED <<worklist, stats>>
    /\ UNCHANGED <<prog, pc, targets, fn, cur, oracle, run>>

EndVisit ==
    /\ pc = "visit" /\ todo = <<>>
    /\ pc' = "resolve"
    /\ UNCHANGED <<prog, todo, rewriting, oracle, run>>

\* mkDirectCall, up to promoteIndirectCall.
MkDirectCall ==
    /\ pc = "resolve" /\ worklist # <<>>
    /\ worklist' = Front(worklist)
    /\ LET callees == GetTargets(Last(worklist)) IN
       IF callees = <<>>
       THEN /\ stats' = [stats EXCEPT !.indirect = @ + 1]
            /\ UNCHANGED <<pc, todo, cur>>
       ELSE /\ stats' = [stats EXCEPT !.indirect = @ + 1, !.resolved = @ + 1]
            /\ pc' = "promote" /\ todo' = callees /\ cur' = Last(worklist)
    /\ UNCHANGED <<prog, targets, fn, oracle, run>>

-----------------------------------------------------------------------------
(* LLVM: rewriting a function *)

Replaced(o, x, new) == IF o = V(x) THEN new ELSE o
InIns(i, x, new) ==
    LET j == [i EXCEPT !.args = [k \in DOMAIN @ |-> Replaced(@[k], x, new)]]
    IN  IF i.op = "call" THEN [j EXCEPT !.callee = Replaced(@, x, new)] ELSE j
InTerm(t, x, new) ==
    LET u == [t EXCEPT !.cond = Replaced(@, x, new)]
    IN  IF t.op = "invoke" THEN [u EXCEPT !.call = InIns(@, x, new)] ELSE u
InPhi(q, x, new) == [q EXCEPT !.inc = [b \in DOMAIN @ |-> Replaced(@[b], x, new)]]

\* replaceAllUsesWith
ReplaceUses(g, x, new) ==
    [code |-> [b \in Blocks(g) |-> [k \in DOMAIN g.code[b] |-> InIns(g.code[b][k], x, new)]],
     phis |-> [b \in Blocks(g) |-> [k \in DOMAIN g.phis[b] |-> InPhi(g.phis[b][k], x, new)]],
     term |-> [b \in Blocks(g) |-> InTerm(g.term[b], x, new)]]

HasUse(g, x) == ReplaceUses(g, x, Undef) # g

\* In the phi nodes of block d, the entries of a stand for those of each
\* block in new.
Repointed(phis, a, new) ==
    [k \in DOMAIN phis |->
        IF a \in DOMAIN phis[k].inc
        THEN [phis[k] EXCEPT !.inc =
                 [b \in (DOMAIN @ \ {a}) \cup new |-> IF b \in new THEN @[a] ELSE @[b]]]
        ELSE phis[k]]

Br(d) == [op |-> "br", succs |-> <<d>>, cond |-> Undef]
Unreachable == [op |-> "unreachable", succs |-> <<>>, cond |-> Undef]

\* promoteCallWithIfThenElse for the call id and callee f: compare the
\* pointer, call f in one block and the pointer in the other.
Promoted(g, id, f) ==
    LET place == PlaceOf(g, id)
        b == place.blk
        c == place.call
        t == g.term[b]
        then == id \o <<"then", f>>
        else == id \o <<"else", f>>
        merge == id \o <<"merge", f>>
        cond == id \o <<"cond", f>>
        result == id \o <<"result", f>>
        direct == [c EXCEPT !.id = @ \o <<f>>, !.lhs = @ \o <<f>>, !.callee = F(f)]
        needsPhi == HasUse(g, c.lhs)
        h == IF needsPhi THEN ReplaceUses(g, c.lhs, V(result)) ELSE g
        phi == [lhs |-> result, inc |-> (then :> V(direct.lhs)) @@ (else :> V(c.lhs))]
        head == Append(SubSeq(h.code[b], 1, place.at - 1),
                       [op |-> "icmp", lhs |-> cond, args |-> <<c.callee, F(f)>>])
        invoke == t.op = "invoke" /\ t.call.id = id
        rest == IF invoke THEN <<>> ELSE SubSeq(h.code[b], place.at + 1, Len(h.code[b]))
        Ends(call) == IF invoke THEN [t EXCEPT !.call = call, !.succs[1] = merge] ELSE Br(merge)
        Body(call) == IF invoke THEN <<>> ELSE <<call>>
        \* a successor of the block is one of its last part, or of both calls
        After(d) == LET ps == IF invoke /\ d = t.succs[2]
                              THEN Repointed(h.phis[d], b, {then, else})
                              ELSE Repointed(h.phis[d], b, {merge})
                    IN  IF d \in ToSet(t.succs) THEN ps ELSE h.phis[d]
    IN  [code |-> (b :> head) @@ (then :> Body(direct)) @@ (else :> Body(c))
                      @@ (merge :> rest) @@ h.code,
         phis |-> (merge :> IF needsPhi THEN <<phi>> ELSE <<>>)
                      @@ (then :> <<>>) @@ (else :> <<>>)
                      @@ [d \in Blocks(h) |-> After(d)],
         term |-> (b :> [op |-> "condbr", succs |-> <<then, else>>, cond |-> V(cond)])
                      @@ (then :> Ends(direct)) @@ (else :> Ends(c))
                      @@ (merge :> IF invoke THEN Br(t.succs[1]) ELSE h.term[b]) @@ h.term]

\* One iteration of the loop of promoteIndirectCall.
Promote ==
    /\ pc = "promote"
    /\ fn' = Promoted(fn, cur, Head(todo))
    /\ todo' = Tail(todo)
    /\ pc' = IF Tail(todo) = <<>> THEN "remove" ELSE pc
    /\ UNCHANGED <<prog, targets, worklist, stats, cur, oracle, run>>

\* removePredecessor: a phi node with one value left is replaced by it.
WithoutEntry(g, d, b, q) ==
    LET k == CHOOSE k \in DOMAIN g.phis[d] : g.phis[d][k].lhs = q
        phi == g.phis[d][k]
        inc == [a \in DOMAIN phi.inc \ {b} |-> phi.inc[a]]
        values == {inc[a] : a \in DOMAIN inc} \ {V(q)}
        erased == [g EXCEPT !.phis[d] = SelectSeq(@, LAMBDA p : p.lhs # q)]
    IN  IF b \notin DOMAIN phi.inc THEN g
        ELSE IF values = {} THEN ReplaceUses(erased, q, Undef)
        ELSE IF Cardinality(values) = 1
             THEN ReplaceUses(erased, q, CHOOSE v \in values : TRUE)
        ELSE [g EXCEPT !.phis[d][k].inc = inc]

RemovePredecessor(g, d, b) ==
    FoldLeft(LAMBDA h, q : WithoutEntry(h, d, b, q.lhs), g, g.phis[d])

Lhs(g, b) ==
    {g.code[b][k].lhs : k \in DOMAIN g.code[b]}
        \cup (IF g.term[b].op = "invoke" THEN {g.term[b].call.lhs} ELSE {})

\* Mutant of RemoveBlock: the successors are not told.
RemoveBlockKeepsPhis(g, b) ==
    LET dead == FoldSet(LAMBDA x, h : ReplaceUses(h, x, Undef), g, Lhs(g, b))
    IN  [dead EXCEPT !.code[b] = <<>>, !.phis[b] = <<>>, !.term[b] = Unreachable]

\* removeBlock
RemoveBlock(g, b) ==
    LET told == FoldLeft(LAMBDA h, d : RemovePredecessor(h, d, b), g, g.term[b].succs)
        dead == FoldSet(LAMBDA x, h : ReplaceUses(h, x, Undef), told, Lhs(told, b))
    IN  [dead EXCEPT !.code[b] = <<>>, !.phis[b] = <<>>, !.term[b] = Unreachable]

\* The end of promoteIndirectCall: the block that the indirect call is in
\* by now goes, whether indirect calls are allowed or not.
RemoveOriginal ==
    /\ pc = "remove"
    /\ fn' = RemoveBlock(fn, PlaceOf(fn, cur).blk)
    /\ pc' = "resolve"
    /\ UNCHANGED <<prog, todo, targets, worklist, stats, cur, oracle, run>>

-----------------------------------------------------------------------------
(* Runs of the old and the new function *)

Start(args) == [blk |-> Entry, at |-> 1, store |-> args, trace |-> <<>>, end |-> ""]

\* The arguments and the results, once the rewriting is over.
BeginRun ==
    /\ pc = "resolve" /\ worklist = <<>>
    /\ pc' = "old"
    /\ \E args \in prog.params : run' = [old |-> Start(args), new |-> Start(args)]
    /\ \E rs \in [1..MaxCalls -> prog.results] : oracle' = rs
    /\ UNCHANGED <<prog, todo, rewriting>>

Value(r, o) == CASE o[1] = "v" -> r.store[o[2]]
                 [] o[1] = "f" -> o[2]
                 [] OTHER -> o[1]

Goto(g, r, d) ==
    LET phis == g.phis[d]
        at(x) == CHOOSE k \in DOMAIN phis : phis[k].lhs = x
        new == [x \in {phis[k].lhs : k \in DOMAIN phis} |->
                   Value(r, phis[at(x)].inc[r.blk])]
    IN  [r EXCEPT !.blk = d, !.at = 1, !.store = new @@ @]

\* Can the program call f here? Functions have the type of the variable
\* they are in, and the call graph is right where it is complete.
CanReach(id, f) ==
    LET s == prog.site[id] IN
    /\ f \in DOMAIN prog.info
    /\ prog.info[f].type = IF s.cast # "" THEN s.cast ELSE s.type
    /\ prog.info[f].taken \/ ~prog.info[f].local
    /\ prog.info[f].name # "intrinsic"
    /\ s.complete => f \in s.dsa

\* What is called, with which arguments, and where.
Event(r, c) ==
    [f |-> Value(r, c.callee), site |-> c.id,
     args |-> [k \in DOMAIN c.args |-> Value(r, c.args[k])]]

End(r, how) == [r EXCEPT !.end = how]

\* The call c and what it returns, if it does.
AfterCall(r, c) ==
    LET n == Len(r.trace) + 1
    IN  IF n > MaxCalls THEN End(r, "cut")
        ELSE [r EXCEPT !.trace = Append(@, Event(r, c)),
                       !.store = IF oracle[n] = "throw" THEN @ ELSE (c.lhs :> oracle[n]) @@ @]

Threw(r) == oracle[Len(r.trace)] = "throw"

StepOf(g, r) ==
    LET i == g.code[r.blk][r.at]
        t == g.term[r.blk]
        inBlock == r.at <= Len(g.code[r.blk])
        s == AfterCall(r, IF inBlock THEN i ELSE t.call)
        Further(q) == [q EXCEPT !.at = @ + 1]
    IN  IF inBlock /\ i.op = "icmp"
        THEN Further([r EXCEPT !.store = (i.lhs :> IF Value(r, i.args[1]) = Value(r, i.args[2])
                                                   THEN "1" ELSE "0") @@ @])
        ELSE IF inBlock
        THEN CASE s.end # "" -> s
               [] s.end = "" /\ Threw(s) -> End(s, "thrown")
               [] OTHER -> Further(s)
        ELSE CASE t.op = "br" -> Goto(g, r, t.succs[1])
               [] t.op = "condbr" ->
                      Goto(g, r, t.succs[IF Value(r, t.cond) = "1" THEN 1 ELSE 2])
               [] t.op = "ret" -> End(r, Value(r, t.cond))
               [] t.op = "unreachable" -> End(r, "unreachable")
               [] t.op = "invoke" ->
                      IF s.end # "" THEN s ELSE Goto(g, s, t.succs[IF Threw(s) THEN 2 ELSE 1])

\* The call that r is about to make, if any.
IsAtCall(g, r) == \E c \in Calls(g) : c.blk = r.blk /\ c.at = r.at
CallAt(g, r) == (CHOOSE c \in Calls(g) : c.blk = r.blk /\ c.at = r.at).call

\* A program that calls what it cannot has no meaning.
HasMeaning(r) ==
    IsAtCall(prog.fn, r) =>
        LET c == CallAt(prog.fn, r) IN
        IsIndirectCall(c) /\ ~prog.site[c.id].asm => CanReach(c.id, Value(r, c.callee))

StepOld ==
    /\ pc = "old"
    /\ run.old.end = ""
    /\ run' = [run EXCEPT !.old =
                  IF HasMeaning(@) THEN StepOf(prog.fn, @) ELSE End(@, "undefined")]
    /\ UNCHANGED <<prog, pc, todo, rewriting, oracle>>

SwitchToNew ==
    /\ pc = "old" /\ run.old.end # ""
    /\ pc' = "new"
    /\ UNCHANGED <<prog, todo, rewriting, oracle, run>>

StepNew ==
    /\ pc = "new"
    /\ run.new.end = ""
    /\ run' = [run EXCEPT !.new = StepOf(fn, @)]
    /\ UNCHANGED <<prog, pc, todo, rewriting, oracle>>

Finish ==
    /\ pc = "new" /\ run.new.end # ""
    /\ pc' = "end"
    /\ UNCHANGED <<prog, todo, rewriting, oracle, run>>

-----------------------------------------------------------------------------

Init ==
    /\ prog \in Programs
    /\ pc = "resolver"
    /\ todo = prog.order
    /\ targets = <<>> /\ worklist = <<>>
    /\ stats = [indirect |-> 0, resolved |-> 0, unresolved |-> 0, asm |-> 0]
    /\ fn = prog.fn /\ cur = <<>>
    /\ oracle = <<>> /\ run = <<>>

Next ==
    \/ ResolveByTypes \/ ResolveByDsa \/ BeginVisit
    \/ VisitCallBase \/ EndVisit \/ MkDirectCall \/ Promote \/ RemoveOriginal
    \/ BeginRun \/ StepOld \/ SwitchToNew \/ StepNew \/ Finish

Spec == Init /\ [][Next]_vars

-----------------------------------------------------------------------------
(* Properties *)

Seen(r) == [k \in DOMAIN r.trace |-> [f |-> r.trace[k].f, args |-> r.trace[k].args]]

\* Functions that the documentation of the resolvers leaves out: those
\* that have no body here, main and the functions of the verifier; with an
\* incomplete call graph, all that it does not know of.
LeftOut(e) ==
    /\ GetTargets(e.site) # <<>>
    /\ IF prog.resolver = "types"
       THEN prog.info[e.f].decl \/ prog.info[e.f].name # "plain"
       ELSE ~prog.site[e.site].complete /\ e.f \notin prog.site[e.site].dsa

\* The new function makes the calls of the old one, with the same arguments,
\* and ends as it does. It only stops short at an indirect call of a
\* function that is left out.
SameCalls ==
    pc = "end" =>
        LET old == Seen(run.old)
            new == Seen(run.new)
        IN  \/ new = old /\ run.new.end = run.old.end
            \/ run.old.end = "undefined" /\ IsPrefix(old, new)
            \/ /\ IsStrictPrefix(new, old)
               /\ run.new.end = "unreachable"
               /\ LeftOut(run.old.trace[Len(new) + 1])

\* After every step of the rewriting the phi nodes of a block have one
\* value for each of its predecessors.
PhisMatchPreds ==
    \A b \in Blocks(fn) : \A k \in DOMAIN fn.phis[b] :
        DOMAIN fn.phis[b][k].inc = {a \in Blocks(fn) : b \in ToSet(fn.term[a].succs)}

\* The statistics that dump prints are about the calls of the module: all
\* indirect calls, those that are gone and, by sea-dsa, those that are left.
\* Calls of inline assembly do not count.
StatsAreTrue ==
    (pc \in {"old", "new", "end"}) =>
        LET Counted(g) == {id \in IndirectCalls(g) : ~prog.site[id].asm \/ IsInvoke(id)}
            left == Cardinality(Counted(fn))
        IN  /\ stats.indirect = Cardinality(Counted(prog.fn))
            /\ stats.resolved = stats.indirect - left
            /\ prog.resolver = "sea-dsa" => stats.unresolved - stats.asm = left
=============================================================================

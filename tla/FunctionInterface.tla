-------------------------- MODULE FunctionInterface --------------------------
(***************************************************************************)
(* How CrabIR functions pass memory (CfgBuilder.cc addFunctionDeclaration, *)
(* doCallInst and initializeRegions, CfgBuilderMemRegions.cc). Every       *)
(* function gets the regions it reads, modifies and creates as parameters, *)
(* in the order in which HeapAbstraction lists them; every call passes the *)
(* corresponding regions of the caller. Nothing but the positions says     *)
(* which actual belongs to which formal. All declarations are made at the  *)
(* first request for a CFG; the bodies come after, in any order.           *)
(*                                                                         *)
(* A program of HeapAbstraction has besides                                *)
(*   mem      precision MEM, otherwise SINGLETON_MEM                       *)
(*   aliases  lower_singleton_aliases                                      *)
(*   globals  for each function the nodes of the globals it accesses       *)
(*   body     for each function a sequence of [op: "access", cell] and     *)
(*            [op: "call", call]                                           *)
(***************************************************************************)
EXTENDS HeapAbstraction

VARIABLE cfg    \* m_cfg_builder_map: function |-> [ins, outs, code]

vars == <<heap, todo, pc, cfg>>

-----------------------------------------------------------------------------
(* Variables for regions *)

Tracked(r) == prog.mem \/ (r.type \in {"int", "bool"} /\ ~r.heap)

IsSingleton(r) == prog.aliases /\ ~IsUnknown(r) /\ r.singleton

\* mkScalarVar, mkRegionVar and mkArrayVar: one variable per id and type.
\* fresh tells the variables apart that are made for a region otherwise.
Var(r, fresh) ==
    [id |-> r.id, fresh |-> fresh, type |-> r.type, width |-> r.width,
     kind |-> IF IsSingleton(r) THEN "scalar"
              ELSE IF prog.mem THEN "region" ELSE "array"]

RefVar(id) == [id |-> id, fresh |-> 0, type |-> "ptr", width |-> 32, kind |-> "ref"]

TypeOf(v) == <<v.kind, v.type, v.width>>
IsUnknownRegion(v) == v.kind = "region" /\ v.type = "unknown"
IsTypedRegion(v) == v.kind = "region" /\ v.type # "unknown"

\* hasCompatibleTypes
Compatible(v, w) ==
    \/ TypeOf(v) = TypeOf(w)
    \/ IsUnknownRegion(v) /\ IsTypedRegion(w)
    \/ IsUnknownRegion(w) /\ IsTypedRegion(v)

TrackedIn(regions) == Pick(regions, {k \in DOMAIN regions : Tracked(regions[k])})

\* The regions that go in and come out: those that are only read, those
\* that are modified, and those that are created.
InRegions(lists) == TrackedIn(OnlyRead(lists))
OutRegions(lists) == TrackedIn(New(lists))
InOutRegions(lists) ==
    LET mods == TrackedIn(Modified(lists))
        outs == OutRegions(lists)
    IN  Pick(mods, {j \in DOMAIN mods : \A k \in DOMAIN outs : outs[k].id # mods[j].id})

Ins(lists) == InRegions(lists) \o InOutRegions(lists)

\* What is created is never taken for a scalar.
OutVars(lists) ==
    LET Own(r) == [Var(r, 0) EXCEPT !.kind = IF prog.mem THEN "region" ELSE "array"]
    IN  [k \in DOMAIN InOutRegions(lists) |-> Var(InOutRegions(lists)[k], 0)]
            \o [k \in DOMAIN OutRegions(lists) |-> Own(OutRegions(lists)[k])]

\* A reference for every global of f that was not made a scalar; the cells
\* are those of the function that asks.
GlobalCells(f) ==
    LET ns == InOrder(prog.globals[f]) IN [k \in DOMAIN ns |-> <<f, ns[k], 0>>]

GlobalRefs(st, cells) ==
    IF prog.mem
    THEN LET kept == Pick(cells, {k \in DOMAIN cells : ~IsSingleton(RegionAt(st, cells[k]))})
         IN  [k \in DOMAIN kept |-> RefVar(RegionAt(st, kept[k]).id)]
    ELSE <<>>

-----------------------------------------------------------------------------
(* addFunctionDeclaration *)

Stmt(op, lhs, args) == [op |-> op, lhs |-> lhs, args |-> args]

IsDeclared(f) == f \in DOMAIN cfg

\* The fields of one node that is accessed, if there are several, are named
\* by the intrinsic regions_from_memory_object.
EquivClasses(f) ==
    LET all == AllCells(f)
        Of(n) == Pick(all, {k \in DOMAIN all : all[k][2] = n})
        ns == InOrder({n \in Nodes(f) : Len(Of(n)) > 1})
    IN  [k \in DOMAIN ns |-> Of(ns[k])]

ClassStmts(st, f) ==
    IF ~prog.mem THEN <<>>
    ELSE LET classes == EquivClasses(f)
             Regions(class) ==
                 LET rs == [k \in DOMAIN class |-> RegionAt(st, class[k])]
                 IN  Pick(rs, {k \in DOMAIN rs : ~IsSingleton(rs[k])})
             Args(class) == [j \in DOMAIN Regions(class) |-> Var(Regions(class)[j], 0)]
             all == [k \in DOMAIN classes |-> Stmt("intrinsic", <<>>, Args(classes[k]))]
         IN  Pick(all, {k \in DOMAIN all : Len(all[k].args) > 1})

\* Every input gets a fresh name, and is copied at the entry. main has no
\* regions for parameters.
AddFunctionDeclaration(f) ==
    /\ pc = "declare"
    /\ f \in todo
    /\ todo' = todo \ {f}
    /\ LET cells == IF f = "main" \/ ~prog.mem THEN <<>> ELSE GlobalCells(f)
           st == MkRegions(Ids, cells)
           ins == IF f = "main" THEN <<>> ELSE Ins(fun[f])
           outs == IF f = "main" THEN <<>> ELSE OutVars(fun[f])
           formals == [k \in DOMAIN ins |-> Var(ins[k], k)]
           copies == [k \in DOMAIN ins |->
                         Stmt("copy", <<Var(ins[k], 0)>>, <<formals[k]>>)]
       IN  /\ Take(st, ToSet(cells))
           /\ cfg' = With(cfg, f, [ins |-> GlobalRefs(st, cells) \o formals,
                                   outs |-> outs,
                                   code |-> copies \o ClassStmts(st, f)])
    /\ UNCHANGED <<prog, pc, fun, call>>

\* mkCfgBuilder, when it is asked for the first CFG.
BeginDeclare ==
    /\ pc = "check" /\ todo = {}
    /\ pc' = "declare" /\ todo' = prog.funcs
    /\ UNCHANGED <<heap, cfg>>

BeginBuild ==
    /\ pc = "declare" /\ todo = {}
    /\ pc' = "build" /\ todo' = prog.funcs
    /\ UNCHANGED <<heap, cfg>>

-----------------------------------------------------------------------------
(* doCallInst *)

Callee(c) == prog.calls[c].callee

\* Mutant of ActualIns: modified regions are passed before those only read.
ActualInsSwapped(st, c) ==
    GlobalRefs(st, IF Callee(c) = "main" THEN <<>>
                   ELSE ImagesOf(c, GlobalCells(Callee(c))))
        \o LET ins == InOutRegions(call[c]) \o InRegions(call[c])
           IN  [k \in DOMAIN ins |-> Var(ins[k], 0)]

\* What the call passes and gets before types are unified.
ActualIns(st, c) ==
    GlobalRefs(st, IF Callee(c) = "main" THEN <<>>
                   ELSE ImagesOf(c, GlobalCells(Callee(c))))
        \o LET ins == Ins(call[c]) IN [k \in DOMAIN ins |-> Var(ins[k], 0)]
ActualOuts(c) == OutVars(call[c])

Match(actuals, formals) ==
    /\ Len(actuals) = Len(formals)
    /\ \A k \in DOMAIN actuals : Compatible(actuals[k], formals[k])

\* Otherwise the translation ends with an error.
CallMatches(st, c) ==
    /\ Match(ActualIns(st, c), cfg[Callee(c)].ins)
    /\ Match(ActualOuts(c), cfg[Callee(c)].outs)

\* A variable for the k-th parameter, of the formal's type; unifyRgnType.
AuxVar(actual, formal, k) == [formal EXCEPT !.id = actual.id, !.fresh = k]
Unified(actuals, formals, base) ==
    [k \in DOMAIN actuals |->
        IF TypeOf(actuals[k]) = TypeOf(formals[k]) THEN actuals[k]
        ELSE AuxVar(actuals[k], formals[k], base + k)]

\* Casts from the members of one sequence to those of the other.
Casts(from, to) ==
    LET ks == InOrder({k \in DOMAIN from : from[k] # to[k]})
    IN  [j \in DOMAIN ks |-> Stmt("cast", <<to[ks[j]]>>, <<from[ks[j]]>>)]

CallStmts(st, c) ==
    LET ins == ActualIns(st, c)
        outs == ActualOuts(c)
        insU == Unified(ins, cfg[Callee(c)].ins, 20 * c)
        outsU == Unified(outs, cfg[Callee(c)].outs, 20 * c + 10)
    IN  Casts(ins, insU)
            \o <<[op |-> "call", lhs |-> outsU, args |-> insU, call |-> c]>>
            \o Casts(outsU, outs)

-----------------------------------------------------------------------------
(* initializeRegions *)

RegionsIn(seq) == {v \in ToSet(seq) : v.kind = "region"}
StmtsOf(code, op) == {s \in ToSet(code) : s.op = op}
ArgsOf(ss) == UNION {RegionsIn(s.args) : s \in ss}
LhsOf(ss) == UNION {RegionsIn(s.lhs) : s \in ss}

MayInit(f, code) ==
    (RegionsIn(cfg[f].outs) \ RegionsIn(cfg[f].ins))
        \cup ArgsOf(UNION {StmtsOf(code, op) : op \in {"use", "intrinsic", "call"}})

\* Mutant of MustNotInit: every region a call returns is left alone.
MustNotInitReturned(f, code) ==
    RegionsIn(cfg[f].ins) \cup LhsOf(StmtsOf(code, "copy"))
        \cup LhsOf(StmtsOf(code, "call"))
        \cup (LhsOf(StmtsOf(code, "cast")) \ ArgsOf(StmtsOf(code, "cast")))

MustNotInit(f, code) ==
    RegionsIn(cfg[f].ins) \cup LhsOf(StmtsOf(code, "copy"))
        \cup (UNION {RegionsIn(s.lhs) \ RegionsIn(s.args) : s \in StmtsOf(code, "call")})
        \cup (LhsOf(StmtsOf(code, "cast")) \ ArgsOf(StmtsOf(code, "cast")))

InitStmts(f, code) ==
    IF prog.mem
    THEN {Stmt("init", <<v>>, <<>>) : v \in MayInit(f, code) \ MustNotInit(f, code)}
    ELSE {}

-----------------------------------------------------------------------------
(* buildCfg *)

AccessedCells(f) ==
    LET body == prog.body[f]
        items == Pick(body, {k \in DOMAIN body : body[k].op = "access"})
    IN  [k \in DOMAIN items |-> <<f, items[k].cell[1], items[k].cell[2]>>]

BuildCfg(f) ==
    /\ pc = "build"
    /\ f \in todo
    /\ todo' = todo \ {f}
    /\ LET calls == {c \in Calls : prog.calls[c].caller = f}
           asked == AccessedCells(f) \o
                    FlattenSeq([k \in DOMAIN CallsFrom(f) |->
                        ImagesOf(CallsFrom(f)[k], GlobalCells(Callee(CallsFrom(f)[k])))])
           st == MkRegions(Ids, asked)
           Translated(item) ==
               IF item.op = "call" THEN CallStmts(st, item.call)
               ELSE LET r == RegionAt(st, <<f, item.cell[1], item.cell[2]>>)
                    IN  IF Tracked(r) THEN <<Stmt("use", <<>>, <<Var(r, 0)>>)>>
                        ELSE <<>>
           code == cfg[f].code \o FlattenSeq([k \in DOMAIN prog.body[f] |->
                                                 Translated(prog.body[f][k])])
       IN  /\ Take(st, ToSet(asked))
           /\ IF \A c \in calls : CallMatches(st, c)
              THEN /\ cfg' = [cfg EXCEPT ![f] =
                         [ins |-> @.ins, outs |-> @.outs, code |-> code,
                          init |-> InitStmts(f, code)]]
                   /\ UNCHANGED pc
              ELSE pc' = "error" /\ UNCHANGED cfg
    /\ UNCHANGED <<prog, fun, call>>

\* All functions are translated.
Done ==
    /\ pc = "build" /\ todo = {}
    /\ UNCHANGED vars

-----------------------------------------------------------------------------

InterfaceInit == Init /\ cfg = <<>>

Next ==
    \/ \E f \in prog.funcs :
           \/ (ComputeFunction(f) \/ CheckFunction(f)) /\ UNCHANGED cfg
           \/ AddFunctionDeclaration(f)
           \/ BuildCfg(f)
    \/ BeginCheck /\ UNCHANGED cfg
    \/ BeginDeclare \/ BeginBuild \/ Done

InterfaceSpec == InterfaceInit /\ [][Next]_vars

-----------------------------------------------------------------------------
(* Properties *)

IsBuilt(f) == IsDeclared(f) /\ "init" \in DOMAIN cfg[f]
CallsIn(f) == StmtsOf(cfg[f].code, "call")
IdOf(cell) == nodeIds[<<cell[1], cell[2]>>] + cell[3]

\* The translation never ends with an error: the regions of every call
\* have the number and the types of the callee's.
InterfaceTypeOK ==
    /\ pc \in {"compute", "check", "declare", "build"}
    /\ todo \subseteq prog.funcs
    /\ maxId \in Nat
    /\ singletons \subseteq 0..maxId
    /\ DOMAIN nodeIds \subseteq UNION {{f} \X Nodes(f) : f \in prog.funcs}
    /\ DOMAIN cfg \subseteq prog.funcs

\* Two fields, of the same node or of different ones, have the same region
\* only if they are the same field.
RegionsIdentifyCells ==
    \A x, y \in given : x[2].id = y[2].id => x[1] = y[1]

\* The bytes accessed at offset o, whatever the type.
Bytes(node, o) ==
    o..(o + (CHOOSE s \in 1..2 : /\ \E t \in node.types[o] : StorageSize(t) = s
                                 /\ \A t \in node.types[o] : StorageSize(t) <= s) - 1)

\* A region with a type stands for bytes that no other field of the object
\* reaches into (Region, HeapAbstraction.hh), where every field is accessed
\* with one size only.
UniformRegionsAreDisjoint ==
    \A x \in given :
        LET node == NodeOf(x[1][1], x[1][2]) IN
        (~IsUnknown(x[2]) /\ \A o \in DOMAIN node.types : SizeOf(node.types[o]) # 0)
            => \A o \in DOMAIN node.types \ {x[1][3]} :
                   Bytes(node, o) \cap Bytes(node, x[1][3]) = {}

\* The k-th actual parameter of a call is the region of the caller's object
\* that the callee knows by its k-th formal parameter.
Corresponds(c, actual, formal) ==
    formal.kind = "ref"
    \/ \A x \in given : (x[1][1] = Callee(c) /\ x[2].id = formal.id)
                            => actual.id = IdOf(Image(c, x[1]))

ActualsMatchFormals ==
    \A f \in prog.funcs : IsBuilt(f) => \A s \in CallsIn(f) :
        LET callee == cfg[Callee(s.call)] IN
        /\ \A k \in DOMAIN s.args : Corresponds(s.call, s.args[k], callee.ins[k])
        /\ \A k \in DOMAIN s.lhs : Corresponds(s.call, s.lhs[k], callee.outs[k])

\* Whatever the callee may write, or creates and returns, comes back to the
\* caller, unless some call disagrees on the type of the region.
EffectsReturned ==
    \A f \in prog.funcs : IsBuilt(f) => \A s \in CallsIn(f) :
        \A k \in DOMAIN InterfaceCells(Callee(s.call)) :
            LET cell == InterfaceCells(Callee(s.call))[k]
                c == s.call
                IsEffect == \/ cell[2] \in RetReach(Callee(c))
                            \/ "mod" \in NodeOf(Callee(c), cell[2]).flags
                AllAgree == \A d \in CallsTo(Callee(c)) :
                    HasCompatibleType(RegionInfo(cell), RegionInfo(Image(d, cell)))
                caller == RegionAt(Ids, Image(c, cell))
            IN  (IsEffect /\ AllAgree /\ Tracked(caller))
                    => \E v \in ToSet(s.lhs) : v.id = caller.id

\* A region that is used has a value from a parameter, from a call or from
\* an initialisation, and an initialisation never replaces a parameter. The
\* source of a cast is exempt: a region that is only cast for a call is not
\* initialised (README, Observed).
RegionsInitialised ==
    \A f \in prog.funcs : IsBuilt(f) =>
        LET code == cfg[f].code
            inits == {s.lhs[1] : s \in cfg[f].init}
            defined == inits \cup LhsOf(ToSet(code)) \cup RegionsIn(cfg[f].ins)
            uses == {s \in ToSet(code) : s.op # "cast"}
        IN  /\ ArgsOf(uses) \cup RegionsIn(cfg[f].outs) \subseteq defined
            /\ inits \cap (RegionsIn(cfg[f].ins) \cup LhsOf(StmtsOf(code, "copy"))) = {}
            /\ \A s \in StmtsOf(code, "call") :
                   RegionsIn(s.args) \subseteq
                       inits \cup RegionsIn(cfg[f].ins)
                       \cup LhsOf({t \in ToSet(code) : t # s})
=============================================================================

----------------------------- MODULE MemoryCode -----------------------------
(***************************************************************************)
(* The translation of the instructions that make, move and use pointers    *)
(* (CrabIntraBlockBuilder, MemoryInitializer, initializeGlobalsAtMain of   *)
(* CfgBuilder.cc) and the checks that the property emitters add to it      *)
(* (Properties/NullCheck.cc, UafCheck.cc, BndCheck.cc). Straight-line code *)
(* is translated one instruction after the other; then LLVM and the        *)
(* translation are run side by side.                                       *)
(*                                                                         *)
(* A program p is a record                                                 *)
(*   code     a sequence of [op, lhs, ty, args, parts, inbounds, obj, n,   *)
(*            cells, rgns]; op is "alloca", "malloc", "calloc", "realloc", *)
(*            "free", "gep", "bitcast", "select", "load", "store",         *)
(*            "memset", "memcpy", "call" (a function without a body),      *)
(*            "indirect", "is_dereferenceable", "is_unfreed_or_null",      *)
(*            "unfreed_or_null" or "block" (a basic block begins). obj is  *)
(*            the object that is made, n a size in bytes, cells what an    *)
(*            external function writes and rgns its regions; parts are the *)
(*            indexes of a gep, [idx, scale, field]. An operand is         *)
(*            <<"v", x>>, <<"k", n>>, <<"null">>, <<"none">> (no literal)  *)
(*            or <<"expr">> (a constant expression)                        *)
(*   types    the variables, a sequence of <<name, type>>                  *)
(*   inputs   those defined outside: [name, values, deref]; deref: an      *)
(*            argument with the attribute nonnull or dereferenceable       *)
(*   objects  the objects of the caller: [obj, size, cells]                *)
(*   globals  [name, obj, size, inits, cstring]; inits: <<offset, value>>  *)
(*   regions  the pointers' regions: [id, ty, singleton]; ty "unknown" or  *)
(*            the type of a region's cells                                 *)
(*   isMain, checks (some of "null", "uaf", "bounds") and the parameters   *)
(*   precision ("num", "singleton", "mem"), check_only_typed,              *)
(*   pointer_assumptions, allocate_globals, lower_singleton, zero_init,    *)
(*   include_useless_havoc, add_is_deref                                   *)
(***************************************************************************)
EXTENDS CrabRegions

CONSTANT Programs

VARIABLES
    prog,
    pc,     \* "translate", "run", "error" (CLAM_ERROR), or the error of LLVM
    at,     \* the instruction that is next; 0: the globals
    tr,     \* [seen, bounds, geps, written]: see TrInit
    out,    \* for each instruction its statements; first those of the globals
    llvm,   \* [vars, cells, freed, sizes]
    crab,   \* the stores of the translation that agree with llvm
    failed  \* could an assertion of the last instruction fail?

vars == <<prog, pc, at, tr, out, llvm, crab, failed>>

Code == DOMAIN prog.code
Ins == prog.code[at]
Mem == prog.precision = "mem"
Singleton == prog.precision = "singleton"
V(x) == <<"v", x>>
K(n) == <<"k", n>>
IsVar(a) == a[1] = "v"

Temp(n) == "t" \o ToString(10 * at + n)
SizeOf(x) == x \o ".size"
OffsetOf(x) == x \o ".offset"

TypeOfVar(x) == TypeIn(prog.types, x)
UselessHavoc(x) ==
    IF prog.include_useless_havoc THEN <<Havoc(x, TypeOfVar(x))>> ELSE <<>>

\* getRegion, of the region of a pointer: what is not tracked is unknown.
NoRegion == [id |-> "unknown", ty |-> "unknown", singleton |-> FALSE]
Region(a) ==
    IF ~IsVar(a) \/ a[2] \notin DOMAIN prog.regions THEN NoRegion
    ELSE LET r == prog.regions[a[2]]
         IN  IF Singleton /\ r.ty \notin {"int", "bool"} THEN NoRegion ELSE r

\* getSingletonValue, and the names made for a region
IsLowered(r) == prog.lower_singleton /\ r.ty # "unknown" /\ r.singleton
ScalarVar(r) == r.id \o ".scalar"

-----------------------------------------------------------------------------
(* Property emitters *)

\* seen: the bases each emitter has checked in this block (m_seen); bounds:
\* the size and offset of a pointer (m_ref_bnd_map); geps: m_gep_map;
\* written: m_regions_with_store.
NothingSeen == [null |-> {}, uaf |-> {}, bounds |-> {}]
TrInit == [seen |-> NothingSeen, bounds |-> <<>>, geps |-> <<>>, written |-> {}]

\* getBasePtr: <<base, dereferenceable>>; the base "" is none.
NoBase == <<"", FALSE>>
IsGlobal(x) == \E k \in DOMAIN prog.globals : prog.globals[k].name = x
Definition(x) == {k \in Code : prog.code[k].lhs = x}
IsZeroGep(i) == i.op = "gep" /\ \A k \in DOMAIN i.parts : i.parts[k].idx = K(0)
IsDereferenceable(x) ==
    \E k \in DOMAIN prog.inputs : prog.inputs[k].name = x /\ prog.inputs[k].deref

\* Mutant of BasePtr: the base of a select is that of its first operand.
BasePtrOfTrueOp(a) ==
    LET base[k \in Code] ==
            LET i == prog.code[k]
                Of(b) == CASE b[1] # "v" -> <<b[1], FALSE>>
                           [] IsGlobal(b[2]) -> <<b[2], TRUE>>
                           [] Definition(b[2]) = {} -> <<b[2], IsDereferenceable(b[2])>>
                           [] OTHER -> base[CHOOSE j \in Definition(b[2]) : TRUE]
            IN  CASE i.op \in {"bitcast", "gep"} -> Of(i.args[1])
                  [] i.op = "alloca" -> <<i.lhs, TRUE>>
                  [] i.op = "select" -> Of(i.args[2])
                  [] OTHER -> NoBase
    IN  CASE a[1] # "v" -> <<a[1], FALSE>>
          [] IsGlobal(a[2]) -> <<a[2], TRUE>>
          [] Definition(a[2]) = {} -> <<a[2], IsDereferenceable(a[2])>>
          [] OTHER -> base[CHOOSE j \in Definition(a[2]) : TRUE]

BasePtr(a) ==
    LET Known(b) == CASE b[1] # "v" -> <<b[1], FALSE>>
                      [] IsGlobal(b[2]) -> <<b[2], TRUE>>
                      [] OTHER -> <<b[2], IsDereferenceable(b[2])>>
        IsKnown(b) == b[1] # "v" \/ Definition(b[2]) = {}
        base[k \in Code] ==
            LET i == prog.code[k]
                Of(b) == IF IsKnown(b) THEN Known(b)
                         ELSE base[CHOOSE j \in Definition(b[2]) : TRUE]
                isLoad(b) == ~IsKnown(b) /\ \E j \in Definition(b[2]) : prog.code[j].op = "load"
            IN  CASE i.op = "bitcast" \/ IsZeroGep(i) -> Of(i.args[1])
                  [] i.op = "gep" /\ ~IsZeroGep(i) ->
                        IF ~i.inbounds THEN NoBase
                        ELSE IF isLoad(i.args[1]) THEN <<i.args[1][2], FALSE>>
                        ELSE Of(i.args[1])
                  [] i.op = "alloca" -> <<i.lhs, TRUE>>
                  [] i.op = "select" ->
                        IF Of(i.args[2])[2] /\ Of(i.args[3])[2] THEN Of(i.args[2]) ELSE NoBase
                  [] OTHER -> NoBase
    IN  IF IsKnown(a) THEN Known(a) ELSE base[CHOOSE j \in Definition(a[2]) : TRUE]

\* The assertion an emitter adds before an access of n bytes at p.
Assertion(kind, p, n, bounds) ==
    IF prog.check_only_typed /\ Region(p).ty = "unknown" THEN <<>>
    ELSE CASE kind = "null" -> <<AssertThat("nonnull", <<p>>)>>
           [] kind = "uaf" -> <<IsUnfreed(Temp(8), p), AssertThat("true", <<V(Temp(8))>>)>>
           [] kind = "bounds" ->
                 IF p[2] \notin DOMAIN bounds THEN <<>>
                 ELSE LET b == bounds[p[2]]
                      IN  <<AssertThat("nonneg", <<b.offset>>),
                            AssertThat("covers", <<b.size, b.offset, K(n)>>)>>

\* isRelevantCheck: st is [code, seen]
IsTrivial(kind, base) ==
    IF kind = "uaf"
    THEN IsGlobal(base[1]) \/ \E k \in Definition(base[1]) : prog.code[k].op = "alloca"
    ELSE base[2]

Check(kind, p, n, bounds, st) ==
    LET b == BasePtr(p)
    IN  IF b[1] # "" /\ (IsTrivial(kind, b) \/ b[1] \in st.seen[kind]) THEN st
        ELSE [code |-> st.code \o Assertion(kind, p, n, bounds),
              seen |-> IF b[1] = "" THEN st.seen
                       ELSE [st.seen EXCEPT ![kind] = @ \cup {b[1]}]]

\* visitBeforeLoad, visitBeforeStore, ... of the emitters that are on
Emitters(kinds) == SelectSeq(kinds, LAMBDA kind : kind \in prog.checks)
Checks(kinds, pointers, n) ==
    FoldLeft(LAMBDA st, kind :
                 FoldLeft(LAMBDA s, p : Check(kind, p, n, tr.bounds, s), st, pointers),
             [code |-> <<>>, seen |-> tr.seen], Emitters(kinds))

\* Are sizes and offsets kept?
HasGhosts == Mem /\ ("bounds" \in prog.checks \/ prog.add_is_deref)
\* insert, of a map of LLVM: what is there stays.
Insert(map, x, v) == map @@ (x :> v)

\* visitAfterAlloc
\* Mutant of GhostsAfterAlloc: the pointer is at the end of the object.
GhostsAfterAllocAtEnd(x, size) ==
    <<Assign(SizeOf(x), "id", <<size>>), Assign(OffsetOf(x), "id", <<size>>)>>
GhostsAfterAlloc(x, size) ==
    <<Assign(SizeOf(x), "id", <<size>>), Assign(OffsetOf(x), "id", <<K(0)>>)>>
OwnGhosts(x) == [size |-> V(SizeOf(x)), offset |-> V(OffsetOf(x))]

\* visitAfterGep, for each gep_ref x := p + off: the first one is the one
\* that stays in the map. A null operand gets size and offset 0 there, which
\* only a phi node can reach: a gep of null is not translated and a bitcast
\* of null is an assumption. There are no phi nodes in straight-line code.
GhostsAfterGep(x, p, k, off) ==
    IF ~HasGhosts \/ p[2] \notin DOMAIN tr.bounds \/ off = K(0) THEN <<>>
    ELSE <<Assign(IF k = 1 THEN OffsetOf(x) ELSE Temp(4), "plus",
                  <<off, tr.bounds[p[2]].offset>>)>>
BoundsAfterGep(x, p, off) ==
    IF ~HasGhosts \/ p[2] \notin DOMAIN tr.bounds THEN tr.bounds
    ELSE Insert(tr.bounds, x,
                IF off = K(0) THEN tr.bounds[p[2]]
                ELSE [size |-> tr.bounds[p[2]].size, offset |-> V(OffsetOf(x))])

\* visitAfterRefSelect
\* Mutant of GhostsAfterSelect: the operands are swapped.
GhostsAfterSelectSwapped(x, c, p, q) ==
    LET Ghost(a, g) == IF a = <<"null">> THEN K(0) ELSE tr.bounds[a[2]][g]
        Of(g) == <<c, Ghost(q, g), Ghost(p, g)>>
    IN  <<Assign(OffsetOf(x), "ite", Of("offset")), Assign(SizeOf(x), "ite", Of("size"))>>
GhostsAfterSelect(x, c, p, q) ==
    LET Ghost(a, g) == IF a = <<"null">> THEN K(0) ELSE tr.bounds[a[2]][g]
        Of(g) == <<c, Ghost(p, g), Ghost(q, g)>>
    IN  <<Assign(OffsetOf(x), "ite", Of("offset")), Assign(SizeOf(x), "ite", Of("size"))>>
HasBounds(a) == a = <<"null">> \/ a[2] \in DOMAIN tr.bounds

-----------------------------------------------------------------------------
(* Translation *)

Translating == pc = "translate" /\ at \in Code
Visiting(ops) == Translating /\ Ins.op \in ops

EmitWith(stmts, t) ==
    /\ out' = Append(out, stmts)
    /\ tr' = t
    /\ at' = at + 1
    /\ UNCHANGED <<prog, pc, llvm, crab, failed>>
Emit(stmts) == EmitWith(stmts, tr)

ClamError == pc' = "error" /\ UNCHANGED <<prog, at, tr, out, llvm, crab, failed>>

\* insertCrabIRWithEmitter::make_ref
MakeRefOf(x, before, size, after) ==
    EmitWith(before \o <<MakeRef(x, Ins.obj)>>
                 \o (IF HasGhosts THEN GhostsAfterAlloc(x, size) ELSE <<>>) \o after,
             IF HasGhosts THEN [tr EXCEPT !.bounds = Insert(@, x, OwnGhosts(x))] ELSE tr)

\* InitZeroInitializer, for the cells of an array on the stack: the first
\* store is strong.
ZeroStores(r, n) ==
    [k \in 1..n |-> IF k = 1 THEN StoreTo(r.id, K(0), K(0)) ELSE WeakStoreTo(r.id, K(k - 1), K(0))]

\* n is the size of an element, and also the number of elements of an array.
VisitAllocaInst ==
    /\ Visiting({"alloca"})
    /\ LET i == Ins
           nElts == i.args[1]
           r == Region(V(i.lhs))
           size == IF IsVar(nElts) THEN V(Temp(1)) ELSE K(i.n * nElts[2])
       IN  IF Mem
           THEN MakeRefOf(i.lhs,
                    IF IsVar(nElts) THEN <<Assign(Temp(1), "times", <<nElts, K(i.n)>>)>> ELSE <<>>,
                    size,
                    IF prog.pointer_assumptions THEN <<AssumeThat("nonnull", <<V(i.lhs)>>)>>
                    ELSE <<>>)
           ELSE Emit(IF prog.zero_init /\ Singleton /\ r.ty # "unknown" /\ ~IsLowered(r)
                     THEN ZeroStores(r, i.n) ELSE <<>>)

\* The old object of realloc is not removed.
DoAllocFn ==
    /\ Visiting({"malloc", "calloc", "realloc"})
    /\ LET i == Ins
           last == Last(i.args)
           constant == i.op = "calloc" /\ ~IsVar(i.args[1]) /\ ~IsVar(last)
       IN  IF ~Mem THEN Emit(<<>>)
           ELSE IF i.op # "calloc" THEN MakeRefOf(i.lhs, <<>>, last, <<>>)
           ELSE IF constant THEN MakeRefOf(i.lhs, <<>>, K(i.args[1][2] * last[2]), <<>>)
           ELSE MakeRefOf(i.lhs, <<Assign(Temp(1), "times", i.args)>>, V(Temp(1)), <<>>)

DoFreeFn ==
    /\ Visiting({"free"})
    /\ Emit(IF Mem /\ IsVar(Ins.args[1]) THEN <<RemoveRef(Ins.args[1][2])>> ELSE <<>>)

\* memset and memcpy (args: source, destination) are checked, not
\* translated. A null pointer ends the visit. (A new variable is havocked:
\* left out, nobody reads it.)
DoMemIntrinsic ==
    /\ Visiting({"memset", "memcpy"})
    /\ LET st == Checks(<<"null", "uaf">>, Ins.args, Ins.n)
       IN  IF ~Mem \/ \E k \in DOMAIN Ins.args : ~IsVar(Ins.args[k]) THEN Emit(<<>>)
           ELSE EmitWith(st.code, [tr EXCEPT !.seen = st.seen])

\* doGep. The offset of a part; a constant 0 that is not a field is skipped.
IsConstantGep(i) == \A k \in DOMAIN i.parts : ~IsVar(i.parts[k].idx)
ConstantOffset(i) ==
    FoldLeft(LAMBDA sum, part : sum + part.scale * part.idx[2], 0, i.parts)
PartOffset(k, part) ==
    IF IsVar(part.idx) THEN V(Temp(k)) ELSE K(part.scale * part.idx[2])
Scaling(k, part) ==
    IF IsVar(part.idx) THEN <<Assign(Temp(k), "times", <<part.idx, K(part.scale)>>)>> ELSE <<>>
Offsets(i) ==
    IF IsConstantGep(i) THEN <<[code |-> <<>>, by |-> K(ConstantOffset(i))]>>
    ELSE LET ks == SelectSeq([k \in DOMAIN i.parts |-> k],
                             LAMBDA k : i.parts[k].field \/ i.parts[k].idx # K(0))
         IN  [n \in DOMAIN ks |-> [code |-> Scaling(ks[n], i.parts[ks[n]]),
                                   by |-> PartOffset(ks[n], i.parts[ks[n]])]]

\* Mutant of RefGep: every part starts at the base.
RefGepFromBase(x, p, offs) ==
    FlattenSeq([k \in DOMAIN offs |->
        offs[k].code \o <<Assign(x, "shift", <<p, offs[k].by>>)>>
            \o GhostsAfterGep(x, p, k, offs[k].by)])
RefGep(x, p, offs) ==
    FlattenSeq([k \in DOMAIN offs |->
        offs[k].code \o <<Assign(x, "shift", <<IF k = 1 THEN p ELSE V(x), offs[k].by>>)>>
            \o GhostsAfterGep(x, p, k, offs[k].by)])
IntGep(x, offs) ==
    FlattenSeq([k \in DOMAIN offs |->
        offs[k].code \o <<IF k = 1 THEN Assign(x, "id", <<offs[k].by>>)
                          ELSE Assign(x, "plus", <<V(x), offs[k].by>>)>>])

\* evalOffset: the constant offset of a pointer in an object of a known size
KnownOffset(a) ==
    LET none == <<>>
        IsBase(x) == IsGlobal(x) \/ \E k \in Definition(x) : prog.code[k].op \in {"alloca", "malloc"}
        off[k \in Code] ==
            LET i == prog.code[k]
                Of(b) == IF ~IsVar(b) THEN none
                         ELSE IF IsBase(b[2]) THEN <<0>>
                         ELSE IF Definition(b[2]) = {} THEN none
                         ELSE off[CHOOSE j \in Definition(b[2]) : TRUE]
            IN  CASE i.op = "bitcast" -> Of(i.args[1])
                  [] i.op = "gep" /\ IsConstantGep(i) /\ Of(i.args[1]) # none ->
                        <<Of(i.args[1])[1] + ConstantOffset(i)>>
                  [] OTHER -> none
    IN  IF IsBase(a[2]) THEN <<0>>
        ELSE IF Definition(a[2]) = {} THEN none ELSE off[CHOOSE j \in Definition(a[2]) : TRUE]

\* The pointer operand without casts: all-zero geps count as casts.
Stripped(a) ==
    LET to[k \in Code] ==
            LET i == prog.code[k]
            IN  IF ~(i.op = "bitcast" \/ IsZeroGep(i)) THEN i.lhs
                ELSE IF Definition(i.args[1][2]) = {} THEN i.args[1][2]
                ELSE to[CHOOSE j \in Definition(i.args[1][2]) : TRUE]
    IN  IF Definition(a[2]) = {} THEN a[2] ELSE to[CHOOSE j \in Definition(a[2]) : TRUE]
IsSingletonMemory(x) == IsGlobal(x) \/ \E k \in Definition(x) : prog.code[k].op = "alloca"

\* In singleton precision a gep becomes arithmetic if its base is an object
\* on the stack or a global, and otherwise a variable nobody assigns.
VisitGetElementPtrInst ==
    /\ Visiting({"gep"})
    /\ LET i == Ins
           p == i.args[1]
           r == Region(V(i.lhs))
           offs == Offsets(i)
           shadow == Temp(9)
           arithmetic == IsSingletonMemory(Stripped(p)) /\ Region(p).ty # "unknown"
       IN  IF ~(Mem \/ Singleton) \/ (Singleton /\ r.ty = "unknown") \/ IsLowered(r) THEN Emit(<<>>)
           ELSE IF Singleton
           THEN IF KnownOffset(V(i.lhs)) # <<>> THEN Emit(<<>>)
                ELSE EmitWith(IF arithmetic THEN IntGep(shadow, offs) ELSE <<>>,
                              [tr EXCEPT !.geps = Insert(@, i.lhs, shadow)])
           ELSE IF ~IsVar(p) THEN Emit(UselessHavoc(i.lhs))
           ELSE EmitWith(RefGep(i.lhs, p, offs),
                         [tr EXCEPT !.bounds = BoundsAfterGep(i.lhs, p, offs[1].by)])

\* The part of visitCastInst about pointers: a gep_ref with offset 0.
VisitBitCast ==
    /\ Visiting({"bitcast"})
    /\ LET i == Ins
           p == i.args[1]
       IN  IF ~Mem THEN Emit(<<>>)
           ELSE IF p = <<"null">> THEN Emit(<<AssumeThat("null", <<V(i.lhs)>>)>>)
           ELSE EmitWith(RefGep(i.lhs, p, <<[code |-> <<>>, by |-> K(0)]>>),
                         [tr EXCEPT !.bounds = BoundsAfterGep(i.lhs, p, K(0))])

\* The part of visitSelectInst about pointers.
VisitRefSelect ==
    /\ Visiting({"select"})
    /\ LET i == Ins
           c == i.args[1]
           p == i.args[2]
           q == i.args[3]
           chosen == IF c = K(1) THEN p ELSE q
           isNull == <<Havoc(i.lhs, "ref"), AssumeThat("null", <<V(i.lhs)>>)>>
       IN  IF ~Mem THEN Emit(<<>>)
           ELSE IF ~IsVar(c)
           THEN Emit(IF IsVar(chosen) THEN <<Assign(i.lhs, "shift", <<chosen, K(0)>>)>> ELSE isNull)
           ELSE IF ~IsVar(p) /\ ~IsVar(q) THEN Emit(isNull)
           ELSE IF HasGhosts /\ HasBounds(p) /\ HasBounds(q)
           THEN EmitWith(<<Assign(i.lhs, "ite", <<c, p, q>>)>> \o GhostsAfterSelect(i.lhs, c, p, q),
                         [tr EXCEPT !.bounds = Insert(@, i.lhs, OwnGhosts(i.lhs))])
           ELSE Emit(<<Assign(i.lhs, "ite", <<c, p, q>>)>>)

-----------------------------------------------------------------------------
(* Loads and stores *)

\* inferArrayIndex. The last case is a variable nobody assigns.
ArrayIndex(a) ==
    IF KnownOffset(a) # <<>> THEN K(KnownOffset(a)[1])
    ELSE IF a[2] \in DOMAIN tr.geps THEN V(tr.geps[a[2]])
    ELSE V(Temp(7))

\* The types of a region and of a value may differ. References are as wide
\* as the integers here.
Bits(ty) == IF ty = "bool" THEN 1 ELSE Width
Conversion(from, to) == IF Bits(to) < Bits(from) THEN "trunc" ELSE "sext"
Converted(val, from, to) ==
    IF Bits(from) = Bits(to) THEN [code |-> <<>>, val |-> val]
    ELSE [code |-> <<Assign(Temp(5), Conversion(from, to), <<val>>)>>, val |-> V(Temp(5))]

\* StoreIntoSingletonMem
StoreIntoSingletonMem(i, r) ==
    LET strong == r.singleton \/ (prog.isMain /\ r.id \notin tr.written
                                  /\ ~\E k \in 1..at : prog.code[k].op = "block")
        idx == ArrayIndex(i.args[1])
        c == IF IsVar(i.args[2]) THEN Converted(i.args[2], i.ty, r.ty)
             ELSE [code |-> <<>>, val |-> i.args[2]]
    IN  EmitWith(c.code \o <<IF strong THEN StoreTo(r.id, idx, c.val)
                             ELSE WeakStoreTo(r.id, idx, c.val)>>,
                 [tr EXCEPT !.written = @ \cup {r.id}])

\* A constant of another width than the region's is not stored.
StoreToRef(i, r) ==
    LET st == Checks(<<"null", "uaf", "bounds">>, <<i.args[1]>>, i.n)
        typed == r.ty # "unknown"
        c == IF typed THEN Converted(i.args[2], i.ty, r.ty) ELSE [code |-> <<>>, val |-> i.args[2]]
    IN  IF typed /\ ~IsVar(i.args[2]) /\ Bits(i.ty) # Bits(r.ty) THEN Emit(<<>>)
        ELSE EmitWith(c.code \o st.code \o <<StoreTo(r.id, i.args[1], c.val)>>,
                      [tr EXCEPT !.seen = st.seen])

VisitStoreInst ==
    /\ Visiting({"store"})
    /\ LET i == Ins
           p == i.args[1]
           val == i.args[2]
           r == Region(p)
       IN  IF \/ ~(Mem \/ Singleton) \/ <<"expr">> \in {p, val}
              \/ (Singleton /\ r.ty = "unknown") \/ p = <<"null">>
           THEN Emit(<<>>)
           ELSE IF val = <<"none">> THEN IF Singleton THEN ClamError ELSE Emit(<<>>)
           ELSE IF IsLowered(r) /\ i.ty \in {"int", "bool"}
           THEN Emit(<<Assign(ScalarVar(r), "id", <<val>>)>>)
           ELSE IF Singleton THEN StoreIntoSingletonMem(i, r)
           ELSE StoreToRef(i, r)

\* What is loaded goes to a variable of the type of the region first.
LoadInto(i, r, ref) ==
    IF r.ty = "unknown" \/ Bits(r.ty) = Bits(i.ty) THEN <<LoadFrom(i.lhs, i.ty, r.id, ref)>>
    ELSE <<LoadFrom(Temp(6), r.ty, r.id, ref),
           Assign(i.lhs, Conversion(r.ty, i.ty), <<V(Temp(6))>>)>>

\* visitAfterLoad: a pointer that was loaded may be anywhere in an object.
GhostsAfterLoad(x) == <<Havoc(SizeOf(x), "int"), Havoc(OffsetOf(x), "int")>>
LoadFromRef(i, r) ==
    LET st == Checks(<<"null", "uaf", "bounds">>, <<i.args[1]>>, i.n)
        ghosts == HasGhosts /\ i.ty = "ref"
    IN  EmitWith(st.code \o LoadInto(i, r, i.args[1])
                     \o (IF ghosts THEN GhostsAfterLoad(i.lhs) ELSE <<>>),
                 [tr EXCEPT !.seen = st.seen,
                            !.bounds = IF ghosts THEN Insert(@, i.lhs, OwnGhosts(i.lhs)) ELSE @])

IsTracked(ty) == ty \in {"int", "bool"} \/ Mem

VisitLoadInst ==
    /\ Visiting({"load"})
    /\ LET i == Ins
           p == i.args[1]
           r == Region(p)
       IN  IF ~IsTracked(i.ty) \/ (Singleton /\ r.ty = "unknown") THEN Emit(<<>>)
           ELSE IF ~IsVar(p) \/ ~(Mem \/ Singleton) THEN Emit(UselessHavoc(i.lhs))
           ELSE IF IsLowered(r) /\ i.ty \in {"int", "bool"}
           THEN Emit(<<Assign(i.lhs, "id", <<V(ScalarVar(r))>>)>>)
           ELSE IF Singleton THEN Emit(LoadInto(i, r, ArrayIndex(p)))
           ELSE LoadFromRef(i, r)

-----------------------------------------------------------------------------
(* Calls that are not translated into calls *)

\* A function without a body. In precision "mem" its regions keep their
\* contents (a warning, "TODO havoc").
VisitExternalCall ==
    /\ Visiting({"call"})
    /\ LET i == Ins
           returns == i.lhs # "" /\ IsTracked(i.ty)
           pointer == returns /\ i.ty = "ref"
           HavocRegion(r) == IF IsLowered(r) THEN <<Havoc(ScalarVar(r), r.ty)>>
                             ELSE IF Singleton THEN <<HavocCells(r.id)>> ELSE <<>>
       IN  Emit((IF returns THEN UselessHavoc(i.lhs) ELSE <<>>)
                \o (IF pointer /\ prog.pointer_assumptions THEN <<AssumeUnfreed(V(i.lhs))>> ELSE <<>>)
                \o FlattenSeq([k \in DOMAIN i.rgns |-> HavocRegion(i.rgns[k])]))

VisitIndirectCall ==
    /\ Visiting({"indirect"})
    /\ Emit(IF Ins.lhs # "" /\ IsTracked(Ins.ty) THEN UselessHavoc(Ins.lhs) ELSE <<>>)

\* doCrabSpecialIntrinsic
DoCrabSpecialIntrinsic ==
    /\ Visiting({"is_dereferenceable", "is_unfreed_or_null", "unfreed_or_null"})
    /\ LET i == Ins
           p == i.args[1]
           first == V(Temp(1))
           second == V(Temp(2))
           DerefChecks(b) ==
               <<Assign(Temp(1), "isnonneg", <<b.offset>>),
                 Assign(Temp(2), "iscovered", <<b.size, b.offset, i.args[2]>>),
                 Assign(i.lhs, "and", <<first, second>>), AssertThat("true", <<V(i.lhs)>>)>>
       IN  IF ~Mem THEN Emit(<<>>)
           ELSE IF ~IsVar(p) THEN ClamError
           ELSE IF IsLowered(Region(p))
           THEN Emit(IF i.lhs = "" THEN <<>> ELSE <<Havoc(i.lhs, "bool")>>)
           ELSE IF i.op = "unfreed_or_null" THEN Emit(<<AssumeUnfreed(p)>>)
           ELSE IF i.op = "is_unfreed_or_null" THEN Emit(<<IsUnfreed(i.lhs, p)>>)
           ELSE Emit(<<Havoc(i.lhs, "bool")>>
                     \o (IF prog.add_is_deref /\ p[2] \in DOMAIN tr.bounds
                         THEN DerefChecks(tr.bounds[p[2]]) ELSE <<>>))

\* visitBeforeBasicBlock
VisitBasicBlock ==
    /\ Visiting({"block"})
    /\ EmitWith(<<>>, [tr EXCEPT !.seen = NothingSeen])

-----------------------------------------------------------------------------
(* Globals *)

\* InitInteger, of cell k of a global: every global has an initializer of
\* its own, whose first store into an array is strong.
InitInteger(g, k, r) ==
    LET off == g.inits[k][1]
        val == K(g.inits[k][2])
        ref == g.name \o ToString(k)
    IN  IF IsLowered(r) THEN <<Assign(ScalarVar(r), "id", <<val>>)>>
        ELSE IF Singleton /\ r.ty # "unknown"
        THEN <<IF k = 1 THEN StoreTo(r.id, K(off), val) ELSE WeakStoreTo(r.id, K(off), val)>>
        ELSE IF Mem /\ prog.allocate_globals /\ r.ty # "unknown"
        THEN <<Assign(ref, "shift", <<V(g.name), K(off)>>), StoreTo(r.id, V(ref), val)>>
        ELSE <<>>

InitGlobal(g) ==
    LET r == Region(V(g.name))
        allocate == IF IsLowered(r)
                    THEN IF prog.pointer_assumptions THEN <<Havoc(g.name, "ref")>> ELSE <<>>
                    ELSE IF g.cstring THEN <<Havoc(g.name, "ref")>>
                    ELSE <<MakeRef(g.name, g.obj)>>
        nonnull == IF prog.pointer_assumptions /\ ~g.cstring
                   THEN <<AssumeThat("nonnull", <<V(g.name)>>)>> ELSE <<>>
    IN  (IF prog.allocate_globals /\ Mem THEN allocate \o nonnull ELSE <<>>)
            \o FlattenSeq([k \in DOMAIN g.inits |-> InitInteger(g, k, r)])

InitializeGlobalsAtMain ==
    /\ pc = "translate" /\ at = 0
    /\ out' = <<IF prog.isMain
                THEN FlattenSeq([k \in DOMAIN prog.globals |-> InitGlobal(prog.globals[k])])
                ELSE <<>>>>
    /\ at' = 1
    /\ UNCHANGED <<prog, pc, tr, llvm, crab, failed>>

-----------------------------------------------------------------------------
(* Running both *)

Agrees(c, m) == \A x \in DOMAIN c.vars \cap DOMAIN m.vars : c.vars[x] = m.vars[x]
Agreeing(S, m) == {c \in S : Agrees(c, m)}

\* Objects of the caller, and globals; the inputs have one of their values.
Objects ==
    prog.objects \o [k \in DOMAIN prog.globals |->
        LET g == prog.globals[k]
        IN  [obj |-> g.obj, size |-> g.size, cells |-> g.inits]]
InitialCells ==
    FoldLeft(LAMBDA f, o :
                 FoldLeft(LAMBDA h, c : h @@ (<<o.obj, c[1]>> :> c[2]), f, o.cells),
             <<>>, Objects)
InitialSizes == FoldLeft(LAMBDA f, o : f @@ (o.obj :> o.size), <<>>, Objects)
GlobalRefs == FoldLeft(LAMBDA f, g : f @@ (g.name :> <<g.obj, 0>>), <<>>, prog.globals)
InputValues ==
    FoldLeft(LAMBDA F, i : {f @@ (i.name :> v) : f \in F, v \in i.values}, {<<>>}, prog.inputs)

BeginRun ==
    /\ pc = "translate" /\ at > Len(prog.code)
    /\ pc' = "run" /\ at' = 1
    /\ \E args \in InputValues :
           LET m == [vars |-> args @@ GlobalRefs, cells |-> InitialCells,
                     freed |-> {}, sizes |-> InitialSizes]
               start == {[vars |-> args, cells |-> <<>>, freed |-> {}]}
           IN  llvm' = m /\ crab' = Agreeing(Run(out[1], start, prog.types), m)
    /\ UNCHANGED <<prog, tr, out, failed>>

LlvmValues(a, ty) ==
    CASE a[1] = "v" -> {llvm.vars[a[2]]}
      [] a[1] = "k" -> {a[2]}
      [] a[1] = "null" -> {Null}
      [] a[1] \in {"none", "expr"} -> ValuesOfType(ty)
Value(a) == CHOOSE v \in LlvmValues(a, "ref") : TRUE
Bound(x, v) == [llvm EXCEPT !.vars = (x :> v) @@ @]

\* What an access of n bytes does.
Fault(ref, n) ==
    CASE ref[1] = 0 -> "null"
      [] ref[1] \in llvm.freed -> "uaf"
      [] ref[1] # 0 /\ ref[1] \notin llvm.freed ->
            IF ref[2] < 0 \/ ref[2] + n > llvm.sizes[ref[1]] THEN "bounds" ELSE "run"

\* The new memories of an instruction that does not fault.
NewObject(x, obj, size) ==
    [Bound(x, <<obj, 0>>) EXCEPT !.sizes = (obj :> size) @@ @]
ReadAs(ty, v) == IF ty = "bool" THEN v % 2 ELSE v
Moved(i) ==
    FoldLeft(LAMBDA r, part : Shift(r, part.scale * Value(part.idx)), Value(i.args[1]), i.parts)
IsInBounds(ref, n) ==
    ref[2] >= 0 /\ ref[2] + n <= (IF ref[1] = 0 THEN 0 ELSE llvm.sizes[ref[1]])

Memories(i) ==
    LET ref == Value(i.args[1])
    IN  CASE i.op = "alloca" ->
                LET m == NewObject(i.lhs, i.obj, i.n * Value(i.args[1]))
                IN  {IF prog.zero_init
                     THEN [m EXCEPT !.cells = [c \in {i.obj} \X (0..(i.n - 1)) |-> 0] @@ @]
                     ELSE m}
          [] i.op \in {"malloc", "calloc"} ->
                {Bound(i.lhs, Null),
                 NewObject(i.lhs, i.obj, IF i.op = "malloc" THEN ref ELSE ref * Value(i.args[2]))}
          [] i.op = "realloc" ->
                {Bound(i.lhs, Null),
                 [NewObject(i.lhs, i.obj, Value(i.args[2])) EXCEPT !.freed = @ \cup ({ref[1]} \ {0})]}
          [] i.op = "free" -> {[llvm EXCEPT !.freed = @ \cup ({ref[1]} \ {0})]}
          [] i.op = "gep" -> {Bound(i.lhs, Moved(i))}
          [] i.op = "bitcast" -> {Bound(i.lhs, ref)}
          [] i.op = "select" -> {Bound(i.lhs, Value(i.args[IF ref = 1 THEN 2 ELSE 3]))}
          [] i.op = "load" ->
                IF ref \in DOMAIN llvm.cells THEN {Bound(i.lhs, ReadAs(i.ty, llvm.cells[ref]))}
                ELSE {[Bound(i.lhs, v) EXCEPT !.cells = @ @@ (ref :> v)] : v \in ValuesOfType(i.ty)}
          [] i.op = "store" ->
                {[llvm EXCEPT !.cells = (ref :> v) @@ @] : v \in LlvmValues(i.args[2], i.ty)}
          [] i.op \in {"memset", "memcpy"} -> {llvm}
          [] i.op \in {"call", "indirect"} ->
                LET writes == [ToSet(i.cells) -> ValuesOfType("int")]
                    after == {[llvm EXCEPT !.cells = w @@ @] : w \in writes}
                IN  IF i.lhs = "" THEN after
                    ELSE {[m EXCEPT !.vars = (i.lhs :> v) @@ @] :
                             m \in after, v \in IF i.ty = "ref" THEN {Null} ELSE ValuesOfType(i.ty)}
          [] i.op = "is_dereferenceable" ->
                {Bound(i.lhs, IF IsInBounds(ref, Value(i.args[2])) THEN 1 ELSE 0)}
          [] i.op = "is_unfreed_or_null" -> {Bound(i.lhs, IF ref[1] \in llvm.freed THEN 0 ELSE 1)}
          [] i.op = "unfreed_or_null" -> IF ref[1] \in llvm.freed THEN {} ELSE {llvm}
          [] i.op = "block" -> {llvm}

Faults(i) ==
    IF i.op \in {"load", "store", "memset", "memcpy"}
    THEN LET as == IF i.op = "memcpy" THEN i.args ELSE <<i.args[1]>>
         IN  {Fault(Value(as[k]), i.n) : k \in DOMAIN as} \ {"run"}
    ELSE IF i.op = "is_dereferenceable" /\ ~IsInBounds(Value(i.args[1]), Value(i.args[2]))
    THEN {"bounds"} ELSE {}

Executing == pc = "run" /\ at \in Code
Translated == out[at + 1]

ExecuteInstruction ==
    /\ Executing
    /\ Faults(Ins) = {} /\ Memories(Ins) # {}
    /\ \E m \in Memories(Ins) :
           /\ llvm' = m
           /\ crab' = Agreeing(Run(Translated, crab, prog.types), m)
           /\ failed' = CanFail(Translated, crab, prog.types)
    /\ at' = at + 1 /\ UNCHANGED <<prog, pc, tr, out>>

ExecuteFault ==
    /\ Executing
    /\ \E fault \in Faults(Ins) : pc' = fault
    /\ failed' = CanFail(Translated, crab, prog.types)
    /\ UNCHANGED <<prog, at, tr, out, llvm, crab>>

\* unfreed_or_null that does not hold
ExecuteAssumption ==
    /\ Executing
    /\ Faults(Ins) = {} /\ Memories(Ins) = {}
    /\ pc' = "stopped" /\ UNCHANGED <<prog, at, tr, out, llvm, crab, failed>>

Done == (pc = "run" => at \notin Code) /\ pc # "translate" /\ UNCHANGED vars

Init ==
    /\ prog \in Programs
    /\ pc = "translate" /\ at = 0 /\ tr = TrInit /\ out = <<>>
    /\ llvm = [vars |-> <<>>, cells |-> <<>>, freed |-> {}, sizes |-> <<>>]
    /\ crab = {} /\ failed = FALSE

Translate ==
    \/ InitializeGlobalsAtMain \/ VisitAllocaInst \/ DoAllocFn \/ DoFreeFn \/ DoMemIntrinsic
    \/ VisitGetElementPtrInst \/ VisitBitCast \/ VisitRefSelect \/ VisitStoreInst
    \/ VisitLoadInst \/ VisitExternalCall \/ VisitIndirectCall \/ DoCrabSpecialIntrinsic
    \/ VisitBasicBlock
Execute == BeginRun \/ ExecuteInstruction \/ ExecuteFault \/ ExecuteAssumption
Next == Translate \/ Execute \/ Done

Spec == Init /\ [][Next]_vars

-----------------------------------------------------------------------------
(* Properties *)

\* What LLVM computes, the translation can compute too: every load finds
\* what was stored, through every address (regions, arrays and scalars).
Sound == pc = "run" => crab # {}

\* The checks that were asked for, on the accesses that are translated (a
\* literal null, or a constant of another width than its region, gives a
\* warning).
AccessedBy(i) ==
    IF i.op = "memcpy" THEN ToSet(i.args)
    ELSE IF i.op \in {"load", "store", "memset"} THEN {i.args[1]} ELSE {}
IsChecked(fault) ==
    /\ Mem
    /\ IF Ins.op = "is_dereferenceable" THEN prog.add_is_deref ELSE fault \in prog.checks
    /\ Translated # <<>> /\ <<"null">> \notin ToSet(Ins.args)
    /\ ~(prog.check_only_typed /\ \E p \in AccessedBy(Ins) : Region(p).ty = "unknown")

\* The faults the emitters miss. A base that is known is checked once in a
\* block: free or realloc may stand between, and for bounds another access
\* with this base may be at another offset or of another size. A select
\* between two dereferenceable pointers has the base of its first, and a
\* dereferenceable base stands for every pointer computed from it. The sizes
\* of arguments and globals are not known, memset and memcpy have no hook.
CheckedBefore(p) ==
    {k \in 1..(at - 1) :
        /\ \A j \in k..at : prog.code[j].op # "block"
        /\ \E q \in AccessedBy(prog.code[k]) : BasePtr(q)[1] = BasePtr(p)[1]}
FreedSince(k, p) ==
    \E j \in k..(at - 1) : /\ prog.code[j].op \in {"free", "realloc"}
                           /\ Value(prog.code[j].args[1])[1] = Value(p)[1]
IsMissed(fault, p) ==
    LET b == BasePtr(p)
        before == IF b[1] = "" THEN {} ELSE CheckedBefore(p)
    IN  CASE fault = "null" -> FALSE
          [] fault = "uaf" -> IsTrivial("uaf", b) \/ \E k \in before : FreedSince(k, p)
          [] fault = "bounds" -> \/ b[2] \/ before # {} \/ Ins.op \in {"memset", "memcpy"}
                                 \/ (IsVar(p) /\ p[2] \notin DOMAIN tr.bounds)

\* An access that faults is preceded by an assertion that fails, if checks
\* of its kind were asked for and the fault is not one that the emitters
\* miss: whatever else is left out as trivial or as done before in the block
\* is left out with reason.
IsFault == pc \in {"null", "uaf", "bounds"}
ErrorsCaught ==
    IsFault /\ IsChecked(pc) => failed \/ \E p \in AccessedBy(Ins) : IsMissed(pc, p)

\* An assertion fails only before a fault, unless the bounds of a pointer
\* that was loaded had to be guessed.
GuessesBounds == HasGhosts /\ \E k \in Code : prog.code[k].op = "load" /\ prog.code[k].ty = "ref"
NoFalseAlarm == pc = "run" /\ ~GuessesBounds => ~failed

\* The ghost size and offset of a pointer are those of the object it points
\* into, whichever way it was computed.
LitIn(l, c) == IF IsVar(l) THEN c.vars[l[2]] ELSE l[2]
GhostsTrackObjects ==
    pc = "run" =>
        \E c \in crab : \A x \in DOMAIN tr.bounds \cap DOMAIN llvm.vars :
            LET ref == llvm.vars[x]
                b == tr.bounds[x]
            IN  ref[1] # 0 => /\ LitIn(b.size, c) = llvm.sizes[ref[1]]
                              /\ LitIn(b.offset, c) = ref[2]
=============================================================================

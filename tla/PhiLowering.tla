---------------------------- MODULE PhiLowering -----------------------------
(***************************************************************************)
(* CrabInterBlockBuilder::visitBasicBlock (lib/Clam/CfgBuilder.cc): the    *)
(* phi nodes of a block BB become assignments in the Crab block that       *)
(* stands for the edge from m_inc_BB to BB. Two loops walk the phi nodes   *)
(* in program order. The first copies into a fresh variable every incoming *)
(* value that is itself a phi of BB; the second assigns the phis, reading  *)
(* the copy when there is one.                                             *)
(*                                                                         *)
(* A step of this specification is one iteration of one loop. The emitted  *)
(* statement is represented by its effect on "store".                      *)
(***************************************************************************)
EXTENDS Integers, Sequences

CONSTANTS
    PhiSeq,     \* the phi nodes of BB in program order
    Other,      \* the other LLVM values that have a Crab variable
    Shadow,     \* the phis named shadow.mem*
    Untracked,  \* the phis whose type isTracked rejects
    Val,        \* values of variables; as an operand, a literal
    NoLit       \* operand without a fixed value: undef, constant expression

Phi == {PhiSeq[k] : k \in DOMAIN PhiSeq}
Var == Phi \cup Other

ASSUME PhiLoweringAssumption ==
    /\ PhiSeq \in Seq(Phi)
    /\ \A j, k \in DOMAIN PhiSeq : PhiSeq[j] = PhiSeq[k] => j = k
    /\ Phi \cap Other = {}
    /\ Var \cap Val = {}
    /\ NoLit \notin Var \cup Val
    /\ Val # {}

VARIABLES
    inc,        \* getIncomingValueForBlock(&m_inc_BB) of every phi
    start,      \* the values of the variables when the edge is taken
    store,      \* their values after the statements emitted so far
    saved,      \* old_val_map: phi |-> the content of its fresh copy
    pc,         \* "save" (first loop), "assign" (second loop) or "done"
    i           \* the iterator curr: position in PhiSeq

vars == <<inc, start, store, saved, pc, i>>

Operand == Var \cup Val \cup {NoLit}

\* The phis that the second loop turns into an assignment.
Lowered == Phi \ (Shadow \cup Untracked)

Atomic == INSTANCE ParallelCopy WITH
    Target <- Lowered,
    store <- IF pc = "done" THEN store ELSE start,
    copied <- (pc = "done")

\* getLit: a variable, a constant, or (undef, no literal) any value.
Values(v, s) ==
    IF v \in Var THEN {s[v]} ELSE IF v \in Val THEN {v} ELSE Val

-----------------------------------------------------------------------------
\* A phi and its operands have the same type.
WellTyped ==
    \A p \in Phi : inc[p] \in Phi => (p \in Untracked <=> inc[p] \in Untracked)

Init ==
    /\ inc \in [Phi -> Operand]
    /\ WellTyped
    /\ start \in [Var -> Val]
    /\ store = start
    /\ saved = [p \in {} |-> start[p]]
    /\ pc = "save"
    /\ i = 1

\* Mutant of NeedsSave: nothing is copied.
NeedsSaveNever(p) == FALSE

\* The incoming value of p is a phi of the same block, not copied yet.
NeedsSave(p) ==
    /\ inc[p] \notin Untracked
    /\ inc[p] \in Phi
    /\ inc[p] \notin DOMAIN saved
    /\ p \notin Shadow

\* One iteration of the first loop.
SavePhi ==
    /\ pc = "save"
    /\ i <= Len(PhiSeq)
    /\ saved' = LET v == inc[PhiSeq[i]] IN
                IF NeedsSave(PhiSeq[i])
                THEN [q \in DOMAIN saved \cup {v} |->
                         IF q \in DOMAIN saved THEN saved[q] ELSE store[v]]
                ELSE saved
    /\ i' = i + 1
    /\ UNCHANGED <<inc, start, store, pc>>

\* The second loop starts again at the first instruction of the block.
Rewind ==
    /\ pc = "save"
    /\ i = Len(PhiSeq) + 1
    /\ pc' = "assign"
    /\ i' = 1
    /\ UNCHANGED <<inc, start, store, saved>>

\* Mutant of Incoming: the copies are not used.
IncomingNow(p) == Values(inc[p], store)

\* What the second loop assigns to p: the copy of its operand if there is
\* one, otherwise the operand itself.
Incoming(p) ==
    IF inc[p] \in DOMAIN saved THEN {saved[inc[p]]} ELSE Values(inc[p], store)

\* One iteration of the second loop.
AssignPhi ==
    /\ pc = "assign"
    /\ i <= Len(PhiSeq)
    /\ IF PhiSeq[i] \in Lowered
       THEN \E x \in Incoming(PhiSeq[i]) :
               store' = [store EXCEPT ![PhiSeq[i]] = x]
       ELSE store' = store
    /\ i' = i + 1
    /\ UNCHANGED <<inc, start, saved, pc>>

Finish ==
    /\ pc = "assign"
    /\ i = Len(PhiSeq) + 1
    /\ pc' = "done"
    /\ UNCHANGED <<inc, start, store, saved, i>>

Next == SavePhi \/ Rewind \/ AssignPhi \/ Finish

Spec == Init /\ [][Next]_vars

-----------------------------------------------------------------------------
(***************************************************************************)
(* Type invariant. Only phis of the block are ever copied (the test        *)
(* phi_v->getParent() == &BB).                                             *)
(***************************************************************************)
TypeOK ==
    /\ inc \in [Phi -> Operand]
    /\ WellTyped
    /\ start \in [Var -> Val]
    /\ store \in [Var -> Val]
    /\ DOMAIN saved \subseteq Phi
    /\ saved \in [DOMAIN saved -> Val]
    /\ pc \in {"save", "assign", "done"}
    /\ i \in 1..(Len(PhiSeq) + 1)

\* The phis already visited by the loop that is running.
Visited == {PhiSeq[k] : k \in 1..(i - 1)}

(***************************************************************************)
(* The inductive invariant. A copy holds the value on the edge; a variable *)
(* that the second loop has not reached still has that value; and every    *)
(* phi that reads another phi of the block has its copy by the time the    *)
(* second loop starts.                                                     *)
(***************************************************************************)
CopiesAreOld == \A q \in DOMAIN saved : saved[q] = start[q]

PendingAreOld ==
    LET Written == IF pc = "save" THEN {} ELSE Visited \cap Lowered
    IN  \A v \in Var \ Written : store[v] = start[v]

ReadersHaveCopies ==
    \A p \in (IF pc = "save" THEN Visited ELSE Phi) \cap Lowered :
        inc[p] \in Phi => inc[p] \in DOMAIN saved

AssignedAreRight ==
    pc # "save" =>
        \A p \in Visited \cap Lowered : store[p] \in Values(inc[p], start)

DoneIsComplete == pc = "done" => i = Len(PhiSeq) + 1

PhiInv ==
    /\ CopiesAreOld
    /\ PendingAreOld
    /\ ReadersHaveCopies
    /\ AssignedAreRight
    /\ DoneIsComplete

(***************************************************************************)
(* The two loops implement the simultaneous assignment of ParallelCopy:    *)
(* once both are over, every lowered phi has the value its operand had on  *)
(* the edge, whatever cycles of phis reading phis the block contains, and  *)
(* nothing else changed.                                                   *)
(***************************************************************************)
ImplementsParallelCopy == Atomic!Spec
=============================================================================

---------------------------- MODULE ParallelCopy ----------------------------
(***************************************************************************)
(* What entering an LLVM basic block means: every phi node of the block    *)
(* takes, in one step, the value its incoming operand had on the edge.     *)
(* The comment of CrabInterBlockBuilder::visitBasicBlock promises this:    *)
(* "All the phi-nodes must be evaluated atomically."                       *)
(***************************************************************************)
CONSTANTS
    Var,        \* the LLVM values that have a Crab variable
    Target,     \* the phi nodes that must be evaluated
    Val         \* the values a variable ranges over

VARIABLES
    inc,        \* incoming operand of every phi on the edge being taken
    store,      \* the value of every variable
    copied      \* TRUE once the edge has been taken

vars == <<inc, store, copied>>

(***************************************************************************)
(* The values operand v may have in store s. An operand that is neither a  *)
(* variable nor a literal (undef, a constant expression) may have any.     *)
(***************************************************************************)
Values(v, s) ==
    IF v \in Var THEN {s[v]} ELSE IF v \in Val THEN {v} ELSE Val

Init ==
    /\ store \in [Var -> Val]
    /\ copied = FALSE

Copy ==
    /\ ~copied
    /\ copied' = TRUE
    /\ store' \in [Var -> Val]
    /\ \A p \in Target : store'[p] \in Values(inc[p], store)
    /\ \A v \in Var \ Target : store'[v] = store[v]
    /\ inc' = inc

Next == Copy

Spec == Init /\ [][Next]_vars
=============================================================================

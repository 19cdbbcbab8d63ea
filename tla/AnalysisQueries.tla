-------------------------- MODULE AnalysisQueries --------------------------
(***************************************************************************)
(* What ClamQueryAPI promises its clients: an answer is read off the       *)
(* invariants the analysis holds at that time. No query has a memory.      *)
(***************************************************************************)
CONSTANTS
    Query,          \* what can be asked
    Table,          \* the tables of invariants an analysis can hold
    AnswerFrom(_,_) \* the answer a table gives to a query

VARIABLES
    table,          \* the invariants now held
    answer          \* the last query and its answer, or NoAnswer

vars == <<table, answer>>
NoAnswer == <<>>

Init == table \in Table /\ answer = NoAnswer

\* An analysis, or clear, replaces the invariants.
Replace ==
    /\ table' \in Table
    /\ UNCHANGED answer

Ask(q) ==
    /\ answer' = <<q, AnswerFrom(table, q)>>
    /\ UNCHANGED table

Next == Replace \/ \E q \in Query : Ask(q)

Spec == Init /\ [][Next]_vars
=============================================================================

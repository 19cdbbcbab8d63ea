-------------------------- MODULE MCGlobalAnalysis --------------------------
(* A module with a function that nothing is found out about, one above the *)
(* threshold, a variadic one and a small one, in that order. Zones find    *)
(* more than intervals, and both find more under an assumption; then the   *)
(* edge of "small" is infeasible.                                          *)
EXTENDS GlobalAnalysis

Module == <<"first", "big", "variadic", "small">>
Bodies == {"first", "big", "small"}
Lives == [f \in Function |-> IF f = "big" THEN 9 ELSE 2]
Domains == {"intervals", "zones"}
Zones == {"zones"}
Assumptions == {"none", "strong"}
OnlyIntra == {"intra"}
Both == {"intra", "inter"}

Finds(value, inst, tags, feasible, check) ==
    [known |-> TRUE, value |-> value, inst |-> inst, tagsValue |-> tags,
     tagsInst |-> tags, feasible |-> feasible, check |-> check]

Outcomes == [f \in Function, d \in Domains, a \in Assumptions |->
    CASE f = "first" -> Finds("full", "full", "no tags", TRUE, "none")
      [] f = "small" /\ a = "strong" ->
             Finds("0..1", "empty", "{1}", FALSE, "safe")
      [] f = "small" /\ a = "none" /\ d = "zones" ->
             Finds("0..9", "1..10", "{1}", TRUE, "none")
      [] f = "small" /\ a = "none" /\ d = "intervals" ->
             Finds("full", "1..99", "no tags", TRUE, "safe")
      [] f = "big" /\ a = "strong" ->
             Finds("empty", "empty", "no tags", FALSE, "error")
      [] f = "big" /\ a = "none" /\ d = "zones" ->
             Finds("0..5", "full", "{2}", TRUE, "none")
      [] OTHER -> Finds("0..7", "full", "no tags", TRUE, "warning")]
=============================================================================

---------------------------- MODULE Collections ----------------------------
(***************************************************************************)
(* Maps that are updated, and parts of a sequence in its order, as loops   *)
(* that filter a vector leave them. They are defined here, and not taken   *)
(* from the library, where a proof has to look into them.                  *)
(***************************************************************************)
EXTENDS Integers, FiniteSets, Sequences

\* The map f where it is defined, and g elsewhere.
Over(f, g) ==
    [x \in DOMAIN f \cup DOMAIN g |-> IF x \in DOMAIN f THEN f[x] ELSE g[x]]

\* f, but v at x.
With(f, x, v) == [y \in DOMAIN f \cup {x} |-> IF y = x THEN v ELSE f[y]]

\* How many members of S are at most m.
Rank(S, m) == Cardinality({j \in S : j <= m})

\* The members of a finite set of integers in increasing order.
InOrder(S) ==
    [k \in 1..Cardinality(S) |-> CHOOSE m \in S : Rank(S, m) = k]

\* The members of seq at the positions ps, in order.
Pick(seq, ps) ==
    LET at == InOrder(ps \cap DOMAIN seq) IN [k \in DOMAIN at |-> seq[at[k]]]
=============================================================================

--------------------------- MODULE SequenceLemmas ---------------------------
(***************************************************************************)
(* Facts about recursion over positions and about the operators that the   *)
(* models build sequences with.                                            *)
(***************************************************************************)
EXTENDS Collections, SequencesExt, FiniteSetTheorems, TLAPS

(***************************************************************************)
(* A set of natural numbers that is not empty has a smallest member: a     *)
(* proof by induction takes the smallest counterexample.                   *)
(***************************************************************************)
LEMMA Smallest ==
    ASSUME NEW T, T \subseteq Nat, T # {}
    PROVE  \E m \in T : \A n \in T : m <= n
<1> DEFINE R == OpToRel(<, Nat)
<1>1. IsWellFoundedOn(R, Nat)
  BY NatLessThanWellFounded
<1>2. \A x, y \in Nat : x < y => <<x, y>> \in R
  BY DEF OpToRel
<1> HIDE DEF R
<1>3. PICK m \in T : \A n \in T : ~ (<<n, m>> \in R)
  BY <1>1, WFMin
<1>4. ASSUME NEW n \in T PROVE m <= n
  <2>1. n \in Nat /\ m \in Nat
    OBVIOUS
  <2>2. ~ (n < m)
    BY <1>2, <1>3, <2>1
  <2> QED BY <2>1, <2>2
<1> QED BY <1>4

(***************************************************************************)
(* Induction up to n, the property being given as a set of positions.      *)
(***************************************************************************)
LEMMA UpTo ==
    ASSUME NEW n \in Nat, NEW P, 0 \in P, \A k \in 1..n : k - 1 \in P => k \in P
    PROVE  \A k \in 0..n : k \in P
<1> DEFINE Bad == {k \in 0..n : k \notin P}
<1>1. SUFFICES ASSUME Bad # {} PROVE FALSE
  OBVIOUS
<1>2. Bad \subseteq Nat
  OBVIOUS
<1>3. PICK m \in Bad : \A k \in Bad : m <= k
  <2> HIDE DEF Bad
  <2> QED BY <1>1, <1>2, Smallest
<1>4. m \in 1..n /\ m - 1 \in 0..n /\ m - 1 < m
  BY <1>3
<1>5. m - 1 \in P
  <2>1. m - 1 \notin Bad
    BY <1>3, <1>4
  <2> QED BY <1>4, <2>1
<1> QED BY <1>3, <1>4, <1>5

(***************************************************************************)
(* The sequences over T are the functions from 1..n to T.                  *)
(***************************************************************************)
LEMMA FunctionIsSeq ==
    ASSUME NEW T, NEW n \in Nat, NEW s \in [1..n -> T]
    PROVE  s \in Seq(T) /\ Len(s) = n /\ DOMAIN s = 1..n
OBVIOUS

LEMMA SeqMonotone ==
    ASSUME NEW T, NEW U, T \subseteq U, NEW s \in Seq(T)
    PROVE  s \in Seq(U)
OBVIOUS

(***************************************************************************)
(* f is z at 0, and at every position up to n what the step g makes of the *)
(* position and of the value before it. Whatever the step, such a function *)
(* exists.                                                                 *)
(***************************************************************************)
Iterates(f, n, z, g) ==
    f[0] = z /\ \A k \in 1..n : f[k] = g[<<k, f[k - 1]>>]

LEMMA Recursion ==
    ASSUME NEW n \in Nat, NEW S, NEW z \in S, NEW g \in [(1..n) \X S -> S]
    PROVE  \E f \in [0..n -> S] : Iterates(f, n, z, g)
<1> USE DEF Iterates
<1> DEFINE Fits(f, m) == Iterates(f, m, z, g)
           Bad == {m \in 0..n : ~ \E f \in [0..m -> S] : Fits(f, m)}
<1>1. SUFFICES ASSUME Bad # {} PROVE FALSE
  <2>1. n \notin Bad
    BY <1>1
  <2>2. n \in 0..n
    OBVIOUS
  <2> QED BY <2>1, <2>2
<1>2. Bad \subseteq Nat
  OBVIOUS
<1>3. PICK m \in Bad : \A k \in Bad : m <= k
  <2> HIDE DEF Bad
  <2> QED BY <1>1, <1>2, Smallest
<1>4. m # 0
  <2>1. [k \in 0..0 |-> z] \in [0..0 -> S] /\ Fits([k \in 0..0 |-> z], 0)
    OBVIOUS
  <2> QED BY <1>3, <2>1
<1>5. m - 1 \in 0..n /\ m - 1 \notin Bad
  BY <1>3, <1>4
<1>6. PICK f \in [0..(m - 1) -> S] : Fits(f, m - 1)
  BY <1>5
<1> DEFINE h == [k \in 0..m |-> IF k = m THEN g[<<m, f[m - 1]>>] ELSE f[k]]
<1>7. m \in 1..n /\ f[m - 1] \in S
  BY <1>3, <1>4, <1>6
<1>8. g[<<m, f[m - 1]>>] \in S
  BY <1>7
<1>9. h \in [0..m -> S]
  BY <1>6, <1>7, <1>8
<1>10. Fits(h, m)
  <2>1. h[0] = z
    <3>1. 0 \in 0..m /\ 0 # m
      BY <1>7
    <3> QED BY <1>6, <3>1
  <2>2. ASSUME NEW k \in 1..m PROVE h[k] = g[<<k, h[k - 1]>>]
    <3>1. k \in 0..m /\ k - 1 \in 0..m /\ k - 1 # m
      BY <1>7
    <3>2. h[k - 1] = f[k - 1]
      BY <3>1
    <3>3. h[k] = IF k = m THEN g[<<m, f[m - 1]>>] ELSE f[k]
      BY <3>1
    <3> HIDE DEF h
    <3>4. CASE k = m
      BY <3>2, <3>3, <3>4
    <3>5. CASE k # m
      <4>1. k \in 1..(m - 1)
        BY <1>7, <3>5
      <4> QED BY <1>6, <3>2, <3>3, <3>5, <4>1
    <3> QED BY <3>4, <3>5
  <2> QED BY <2>1, <2>2
<1> QED BY <1>3, <1>9, <1>10

(***************************************************************************)
(* InOrder enumerates a finite set of integers: its values are the members *)
(* of the set, every one of them occurs, and they increase.                *)
(***************************************************************************)
LEMMA InOrderProperties ==
    ASSUME NEW S, IsFiniteSet(S), S \subseteq Int
    PROVE  /\ Cardinality(S) \in Nat
           /\ InOrder(S) \in [1..Cardinality(S) -> S]
           /\ \A m \in S : \E k \in 1..Cardinality(S) : InOrder(S)[k] = m
           /\ \A k, l \in 1..Cardinality(S) :
                  k < l => InOrder(S)[k] < InOrder(S)[l]
<1> DEFINE n == Cardinality(S)
           Below(m) == {j \in S : j <= m}
<1>1. n \in Nat
  BY FS_CardinalityType
<1> HIDE DEF n
<1>2. \A m \in S : /\ IsFiniteSet(Below(m))
                   /\ Rank(S, m) \in Nat
                   /\ Rank(S, m) <= n
  <2> TAKE m \in S
  <2>1. Below(m) \in SUBSET S
    OBVIOUS
  <2>2. IsFiniteSet(Below(m)) /\ Cardinality(Below(m)) <= Cardinality(S)
    BY <2>1, FS_Subset
  <2>3. Cardinality(Below(m)) \in Nat
    BY <2>2, FS_CardinalityType
  <2> QED BY <2>2, <2>3 DEF Rank, n
<1>3. \A m \in S : Rank(S, m) # 0
  <2> TAKE m \in S
  <2>1. m \in Below(m)
    OBVIOUS
  <2>2. Cardinality(Below(m)) # 0
    <3>1. Below(m) # {}
      BY <2>1
    <3> HIDE DEF Below
    <3> QED BY <1>2, <3>1, FS_EmptySet
  <2> QED BY <2>2 DEF Rank
<1>4. \A m, p \in S : p < m => Rank(S, p) < Rank(S, m)
  <2> SUFFICES ASSUME NEW m \in S, NEW p \in S, p < m
               PROVE  Rank(S, p) < Rank(S, m)
    OBVIOUS
  <2>0. m \in Int /\ p \in Int
    OBVIOUS
  <2>1. Below(p) \in SUBSET Below(m)
    <3> SUFFICES ASSUME NEW j \in S, j <= p PROVE j <= m
      OBVIOUS
    <3> QED BY <2>0
  <2>2. m \in Below(m) /\ m \notin Below(p)
    OBVIOUS
  <2>3. Below(p) # Below(m)
    BY <2>2
  <2> HIDE DEF Below
  <2>4. Cardinality(Below(p)) <= Cardinality(Below(m))
    BY <1>2, <2>1, FS_Subset
  <2>5. Cardinality(Below(m)) # Cardinality(Below(p))
    BY <1>2, <2>1, <2>3, FS_Subset
  <2>6. Rank(S, p) = Cardinality(Below(p)) /\ Rank(S, m) = Cardinality(Below(m))
    BY DEF Rank, Below
  <2> QED BY <1>2, <2>4, <2>5, <2>6
<1> HIDE DEF Below
<1> DEFINE r == [m \in S |-> Rank(S, m)]
<1>5. r \in [S -> 1..n] /\ \A m \in S : r[m] = Rank(S, m)
  <2>1. ASSUME NEW m \in S PROVE Rank(S, m) \in 1..n
    <3>1. Rank(S, m) \in Nat /\ Rank(S, m) <= n /\ Rank(S, m) # 0
      BY <1>2, <1>3
    <3> QED BY <1>1, <3>1
  <2> QED BY <2>1
<1> HIDE DEF r
<1>6. \A m, p \in S : r[m] = r[p] => m = p
  <2> SUFFICES ASSUME NEW m \in S, NEW p \in S, m # p PROVE r[m] # r[p]
    OBVIOUS
  <2>1. m < p \/ p < m
    OBVIOUS
  <2>2. Rank(S, m) # Rank(S, p)
    <3>1. Rank(S, m) \in Nat /\ Rank(S, p) \in Nat
      BY <1>2
    <3>2. Rank(S, m) < Rank(S, p) \/ Rank(S, p) < Rank(S, m)
      BY <1>4, <2>1
    <3> QED BY <3>1, <3>2
  <2> QED BY <1>5, <2>2
<1>7. \A k \in 1..n : \E m \in S : r[m] = k
  <2>1. r \in Injection(S, 1..n)
    <3> QED BY <1>5, <1>6, Z3 DEF Injection, IsInjective
  <2>2. IsFiniteSet(1..n) /\ Cardinality(1..n) = n
    BY <1>1, FS_Interval
  <2>3. r \in Surjection(S, 1..n)
    <3> QED BY <1>1, <2>1, <2>2, FS_Injection DEF n
  <2> QED BY <2>3 DEF Surjection
<1>8. \A k \in 1..n : InOrder(S)[k] \in S /\ Rank(S, InOrder(S)[k]) = k
  <2> TAKE k \in 1..n
  <2>1. \E m \in S : Rank(S, m) = k
    BY <1>5, <1>7
  <2> QED BY <2>1 DEF InOrder, n
<1>9. InOrder(S) \in [1..n -> S]
  BY <1>8 DEF InOrder, n
<1>10. ASSUME NEW m \in S PROVE \E k \in 1..n : InOrder(S)[k] = m
  <2>1. r[m] \in 1..n
    BY <1>5
  <2>2. r[InOrder(S)[r[m]]] = r[m] /\ InOrder(S)[r[m]] \in S
    BY <1>5, <1>8, <2>1
  <2> QED BY <1>6, <2>1, <2>2
<1>11. ASSUME NEW k \in 1..n, NEW l \in 1..n, k < l
       PROVE  InOrder(S)[k] < InOrder(S)[l]
  <2> DEFINE a == InOrder(S)[k]
             b == InOrder(S)[l]
  <2>1. a \in S /\ b \in S /\ Rank(S, a) = k /\ Rank(S, b) = l
    BY <1>8
  <2> HIDE DEF a, b
  <2>2. ~ (b < a) /\ a # b
    BY <1>4, <1>11, <2>1
  <2>3. a < b
    BY <2>1, <2>2
  <2> QED BY <2>3 DEF a, b
<1> QED BY <1>1, <1>9, <1>10, <1>11 DEF n

(***************************************************************************)
(* InOrder(S) is the only increasing enumeration of S.                     *)
(***************************************************************************)
LEMMA InOrderUnique ==
    ASSUME NEW S, IsFiniteSet(S), S \subseteq Int, NEW n \in Nat, NEW g \in [1..n -> S],
           \A m \in S : \E k \in 1..n : g[k] = m,
           \A k, l \in 1..n : k < l => g[k] < g[l]
    PROVE  Cardinality(S) = n /\ InOrder(S) = g
<1>1. Cardinality(S) = n
  <2>1. \A k, l \in 1..n : g[k] = g[l] => k = l
    <3> SUFFICES ASSUME NEW k \in 1..n, NEW l \in 1..n, g[k] = g[l], k # l PROVE FALSE
      OBVIOUS
    <3>1. g[k] \in Int /\ g[l] \in Int
      OBVIOUS
    <3> QED BY <3>1
  <2>2. g \in Bijection(1..n, S)
    <3>1. g \in Injection(1..n, S)
      BY <2>1, Z3 DEF Injection, IsInjective
    <3>2. g \in Surjection(1..n, S)
      BY Z3 DEF Surjection
    <3> QED BY <3>1, <3>2 DEF Bijection
  <2>3. ExistsBijection(1..n, S)
    BY <2>2 DEF ExistsBijection
  <2> QED BY <2>3, FS_CountingElements
<1> DEFINE h == InOrder(S)
<1>2. /\ h \in [1..n -> S] /\ \A m \in S : \E k \in 1..n : h[k] = m
      /\ \A k, l \in 1..n : k < l => h[k] < h[l]
  BY <1>1, InOrderProperties
<1> HIDE DEF h
<1> DEFINE Bad == {k \in 1..n : g[k] # h[k]}
<1>3. CASE Bad = {}
  BY <1>1, <1>2, <1>3 DEF h
<1>4. CASE Bad # {}
  <2>1. Bad \subseteq Nat
    OBVIOUS
  <2>2. PICK m \in Bad : \A k \in Bad : m <= k
    <3> HIDE DEF Bad
    <3> QED BY <1>4, <2>1, Smallest
  <2>3. m \in 1..n /\ g[m] # h[m] /\ \A k \in 1..n : k < m => g[k] = h[k]
    <3>1. \A k \in 1..n : k < m => k \notin Bad
      <4> HIDE DEF Bad
      <4> QED BY <2>1, <2>2
    <3> QED BY <2>2, <3>1
  <2>4. g[m] \in S /\ h[m] \in S /\ g[m] \in Int /\ h[m] \in Int
    BY <1>2, <2>3
  <2>5. CASE g[m] < h[m]
    <3>1. PICK k \in 1..n : h[k] = g[m]
      BY <1>2, <2>4
    <3>2. k < m
      <4>1. ~ (m < k) /\ k # m
        BY <1>2, <2>3, <2>4, <2>5, <3>1
      <4> QED BY <2>3, <4>1
    <3>3. g[k] = g[m] /\ g[k] < g[m]
      BY <2>3, <3>1, <3>2
    <3> QED BY <2>4, <3>3
  <2>6. CASE h[m] < g[m]
    <3>1. PICK k \in 1..n : g[k] = h[m]
      BY <2>4
    <3>2. k < m
      <4>1. ~ (m < k) /\ k # m
        BY <2>3, <2>4, <2>6, <3>1
      <4> QED BY <2>3, <4>1
    <3>3. h[k] = h[m] /\ h[k] < h[m]
      BY <1>2, <2>3, <3>1, <3>2
    <3> QED BY <2>4, <3>3
  <2> QED BY <2>3, <2>4, <2>5, <2>6
<1> QED BY <1>3, <1>4

(***************************************************************************)
(* The members of T, a part of S, in order: those at the positions qs.     *)
(***************************************************************************)
\* T is the part of S that the positions qs of S's order select.
Select(qs, S, T) ==
    /\ IsFiniteSet(S) /\ S \subseteq Int
    /\ T \subseteq S /\ qs \subseteq 1..Cardinality(S)
    /\ \A j \in 1..Cardinality(S) : j \in qs <=> InOrder(S)[j] \in T

LEMMA InOrderOfSome ==
    ASSUME NEW S, NEW qs, NEW T, Select(qs, S, T)
    PROVE  /\ IsFiniteSet(T) /\ IsFiniteSet(qs) /\ qs \subseteq Int
           /\ Cardinality(T) = Cardinality(qs) /\ Cardinality(qs) \in Nat
           /\ \A j \in 1..Cardinality(qs) :
                  InOrder(qs)[j] \in qs /\ InOrder(T)[j] = InOrder(S)[InOrder(qs)[j]]
<1> DEFINE at == InOrder(S)
           to == InOrder(qs)
<1>0. /\ IsFiniteSet(S) /\ S \subseteq Int
      /\ T \subseteq S /\ qs \subseteq 1..Cardinality(S)
      /\ \A j \in 1..Cardinality(S) : j \in qs <=> at[j] \in T
  BY DEF Select
<1>1. PICK n \in Nat : n = Cardinality(S)
  BY <1>0, InOrderProperties
<1>2. /\ at \in [1..n -> S] /\ \A k, l \in 1..n : k < l => at[k] < at[l]
      /\ \A x \in S : \E k \in 1..n : at[k] = x
      /\ \A k \in 1..n : k \in qs <=> at[k] \in T
  BY <1>0, <1>1, InOrderProperties
<1>3. IsFiniteSet(qs) /\ qs \subseteq Int /\ qs \subseteq 1..n
  <2>1. IsFiniteSet(1..n) /\ qs \in SUBSET (1..n)
    BY <1>0, <1>1, FS_Interval
  <2>2. IsFiniteSet(qs)
    BY <2>1, FS_Subset
  <2> QED BY <2>1, <2>2
<1>4. PICK m \in Nat : m = Cardinality(qs)
  BY <1>3, FS_CardinalityType
<1>5. /\ to \in [1..m -> qs] /\ \A j \in qs : \E k \in 1..m : to[k] = j
      /\ \A k, l \in 1..m : k < l => to[k] < to[l]
  BY <1>3, <1>4, InOrderProperties
<1> HIDE DEF at, to
<1>6. IsFiniteSet(T) /\ T \subseteq Int
  <2>1. T \in SUBSET S /\ T \subseteq Int
    BY <1>0
  <2> QED BY <1>0, <2>1, FS_Subset
<1> DEFINE g == [k \in 1..m |-> at[to[k]]]
<1>7. g \in [1..m -> T]
  BY <1>2, <1>3, <1>5
<1>8. \A x \in T : \E k \in 1..m : g[k] = x
  <2> TAKE x \in T
  <2>0. PICK j \in qs : at[j] = x
    BY <1>0, <1>2
  <2>1. PICK k \in 1..m : to[k] = j
    BY <1>5
  <2> QED BY <2>0, <2>1
<1>9. \A k, l \in 1..m : k < l => g[k] < g[l]
  <2> SUFFICES ASSUME NEW k \in 1..m, NEW l \in 1..m, k < l PROVE g[k] < g[l]
    OBVIOUS
  <2>1. to[k] \in 1..n /\ to[l] \in 1..n /\ to[k] < to[l]
    BY <1>3, <1>5
  <2> QED BY <1>2, <2>1
<1> HIDE DEF g
<1>10. Cardinality(T) = m /\ InOrder(T) = g
  BY <1>6, <1>7, <1>8, <1>9, InOrderUnique
<1>11. \A j \in 1..m : to[j] \in qs /\ InOrder(T)[j] = at[to[j]]
  BY <1>5, <1>10 DEF g
<1> QED BY <1>3, <1>4, <1>6, <1>10, <1>11 DEF at, to

(***************************************************************************)
(* Picking twice is picking once: from a sequence rs that stands for the   *)
(* positions ps, those that stand for the positions ts are picked.         *)
(***************************************************************************)
\* rs is a sequence of n members.
IsList(rs, n) == rs = [j \in 1..n |-> rs[j]]

\* t is the list r of m members, followed by the list s of n members.
Joins(t, r, s, m, n) ==
    /\ IsList(t, m + n) /\ Len(t) = m + n /\ Len(r) = m /\ Len(s) = n
    /\ \A k \in 1..m : t[k] = r[k]
    /\ \A k \in 1..n : t[m + k] = s[k]

LEMMA ListConcat ==
    ASSUME NEW m \in Nat, NEW n \in Nat, NEW r, NEW s, IsList(r, m), IsList(s, n)
    PROVE  Joins(r \o s, r, s, m, n)
<1> DEFINE U == {r[k] : k \in 1..m} \cup {s[k] : k \in 1..n}
<1>1. r \in [1..m -> U] /\ s \in [1..n -> U]
  <2>1. r = [k \in 1..m |-> r[k]] /\ s = [k \in 1..n |-> s[k]]
    BY DEF IsList
  <2>2. (\A k \in 1..m : r[k] \in U) /\ (\A k \in 1..n : s[k] \in U)
    OBVIOUS
  <2> HIDE DEF U
  <2> QED BY <2>1, <2>2
<1> HIDE DEF U
<1>2. r \in Seq(U) /\ Len(r) = m /\ s \in Seq(U) /\ Len(s) = n
  BY <1>1, FunctionIsSeq
<1> DEFINE t == r \o s
<1>3. t \in [1..(m + n) -> U] /\ Len(t) = m + n
  <2>1. t \in Seq(U)
    BY <1>2
  <2>2. Len(t) = m + n
    BY <1>2
  <2> HIDE DEF t
  <2> QED BY <2>1, <2>2
<1>4. /\ \A k \in 1..m : t[k] = r[k]
      /\ \A k \in 1..n : t[m + k] = s[k]
  BY <1>2
<1> HIDE DEF t
<1>5. t = [k \in 1..(m + n) |-> t[k]]
  BY <1>3
<1> QED BY <1>2, <1>3, <1>4, <1>5 DEF IsList, Joins, t

\* The members of s are those of rs that stand for the positions ts of ps.
StandsFor(s, rs, ps, ts) ==
    /\ Cardinality(ts) \in Nat /\ IsList(s, Cardinality(ts))
    /\ \A j \in 1..Cardinality(ts) : \E i \in DOMAIN rs :
           s[j] = rs[i] /\ InOrder(ps)[i] = InOrder(ts)[j]

LEMMA PickSome ==
    ASSUME NEW ps, NEW ts, NEW qs, Select(qs, ps, ts), NEW rs, DOMAIN rs = 1..Cardinality(ps)
    PROVE  StandsFor(Pick(rs, qs), rs, ps, ts)
<1> DEFINE at == InOrder(ps)
<1>1. /\ Cardinality(ts) = Cardinality(qs) /\ Cardinality(qs) \in Nat
      /\ \A j \in 1..Cardinality(qs) :
             InOrder(qs)[j] \in qs /\ InOrder(ts)[j] = at[InOrder(qs)[j]]
  BY InOrderOfSome
<1> HIDE DEF at
<1>2. Pick(rs, qs) = [j \in DOMAIN InOrder(qs) |-> rs[InOrder(qs)[j]]]
  <2>1. qs \cap DOMAIN rs = qs
    BY DEF Select
  <2> QED BY <2>1 DEF Pick
<1>3. DOMAIN InOrder(qs) = 1..Cardinality(qs)
  BY DEF InOrder
<1>4. \A j \in 1..Cardinality(ts) : Pick(rs, qs)[j] = rs[InOrder(qs)[j]]
  BY <1>1, <1>2, <1>3
<1>5. IsList(Pick(rs, qs), Cardinality(ts))
  BY <1>1, <1>2, <1>3 DEF IsList
<1>6. qs \subseteq DOMAIN rs
  BY DEF Select
<1> QED BY <1>1, <1>4, <1>5, <1>6 DEF at, StandsFor

(***************************************************************************)
(* What is picked from a sequence comes from the positions asked for.      *)
(***************************************************************************)
LEMMA PickType ==
    ASSUME NEW T, NEW seq, NEW ps, Len(seq) \in Nat, DOMAIN seq = 1..Len(seq),
           \A k \in ps \cap DOMAIN seq : seq[k] \in T
    PROVE  Pick(seq, ps) \in Seq(T)
<1> DEFINE S == ps \cap DOMAIN seq
           at == InOrder(S)
<1>1. IsFiniteSet(S) /\ S \subseteq Int
  <2>1. IsFiniteSet(1..Len(seq))
    BY FS_Interval
  <2>2. S \in SUBSET (1..Len(seq))
    OBVIOUS
  <2> HIDE DEF S
  <2>3. IsFiniteSet(S)
    BY <2>1, <2>2, FS_Subset
  <2>4. S \subseteq Int
    BY <2>2
  <2> QED BY <2>3, <2>4
<1>2. PICK n \in Nat : at \in [1..n -> S]
  <2> HIDE DEF S
  <2> QED BY <1>1, InOrderProperties
<1>3. Pick(seq, ps) = [k \in 1..n |-> seq[at[k]]]
  <2>1. DOMAIN at = 1..n
    BY <1>2
  <2> QED BY <2>1 DEF Pick
<1>4. \A k \in 1..n : seq[at[k]] \in T
  BY <1>2
<1>5. [k \in 1..n |-> seq[at[k]]] \in [1..n -> T]
  <2> HIDE DEF at
  <2> QED BY <1>4
<1> HIDE DEF at
<1> QED BY <1>3, <1>5, FunctionIsSeq

(***************************************************************************)
(* FlattenSeq of sequences over T is a sequence over T.                    *)
(***************************************************************************)
\* f[k] is what FlattenSeq makes of the first k members of ss.
Flattens(f, T, ss) ==
    /\ f \in [0..Len(ss) -> Seq(T)]
    /\ f[0] = <<>> /\ \A k \in 1..Len(ss) : f[k] = f[k - 1] \o ss[k]

LEMMA FlattenSteps ==
    ASSUME NEW T, NEW ss \in Seq(Seq(T))
    PROVE  \E f : Flattens(f, T, ss) /\ FlattenSeq(ss) = f[Len(ss)]
<1>1. CASE Len(ss) = 0
  <2>1. PICK f : f = [k \in 0..0 |-> <<>>]
    OBVIOUS
  <2>2. <<>> \in Seq(T)
    OBVIOUS
  <2>3. Flattens(f, T, ss)
    BY <1>1, <2>1, <2>2 DEF Flattens
  <2>4. FlattenSeq(ss) = <<>>
    BY <1>1 DEF FlattenSeq
  <2>5. f[0] = <<>>
    BY <2>1
  <2> QED BY <1>1, <2>3, <2>4, <2>5
<1>2. CASE Len(ss) # 0
  <2>1. PICK n \in Nat : n = Len(ss) /\ n >= 1
    BY <1>2
  <2>2. PICK S : S = Seq(T)
    OBVIOUS
  <2>3. <<>> \in S /\ \A k \in 1..n : ss[k] \in S
    BY <2>1, <2>2
  <2>4. \A s, t \in S : s \o t \in S
    BY <2>2
  <2> DEFINE g == [p \in (1..n) \X S |-> p[2] \o ss[p[1]]]
  <2>5. g \in [(1..n) \X S -> S]
    <3> SUFFICES ASSUME NEW p \in (1..n) \X S PROVE p[2] \o ss[p[1]] \in S
      OBVIOUS
    <3>1. p[1] \in 1..n /\ p[2] \in S
      OBVIOUS
    <3> QED BY <2>3, <2>4, <3>1
  <2>6. \A k \in 1..n, s \in S : g[<<k, s>>] = s \o ss[k]
    OBVIOUS
  <2> HIDE DEF g
  <2>7. PICK f \in [0..n -> S] : Iterates(f, n, <<>>, g)
    BY <2>3, <2>5, Recursion, Zenon
  <2>8. \A k \in 1..n : f[k] = f[k - 1] \o ss[k]
    <3> TAKE k \in 1..n
    <3>1. k - 1 \in 0..n
      OBVIOUS
    <3> QED BY <2>6, <2>7, <3>1 DEF Iterates
  <2>9. f[1] = ss[1]
    <3>0. 1 \in 1..n /\ 1 - 1 = 0
      BY <2>1
    <3>1. f[1] = f[0] \o ss[1]
      BY <2>8, <3>0
    <3>2. ss[1] \in Seq(T)
      BY <2>1, <2>2, <2>3
    <3> QED BY <2>7, <3>1, <3>2 DEF Iterates
  <2> DEFINE Fits(h) == h = [i \in 1..n |-> IF i = 1 THEN ss[i] ELSE h[i - 1] \o ss[i]]
             h0 == [i \in 1..n |-> f[i]]
             flatten == CHOOSE h : Fits(h)
  <2>10. Fits(h0)
    <3>1. \A i \in 1..n : h0[i] = IF i = 1 THEN ss[i] ELSE h0[i - 1] \o ss[i]
      <4> TAKE i \in 1..n
      <4>1. CASE i = 1
        BY <2>9, <4>1
      <4>2. CASE i # 1
        <5>1. i - 1 \in 1..n
          BY <4>2
        <5>2. h0[i - 1] = f[i - 1] /\ h0[i] = f[i]
          BY <5>1
        <5> HIDE DEF h0
        <5> QED BY <2>8, <4>2, <5>2
      <4> QED BY <4>1, <4>2
    <3>2. h0 = [i \in 1..n |-> h0[i]]
      OBVIOUS
    <3> HIDE DEF h0
    <3> QED BY <3>1, <3>2
  <2>11. Fits(flatten)
    BY <2>10
  <2>12. FlattenSeq(ss) = flatten[n]
    BY <1>2, <2>1 DEF FlattenSeq
  <2> HIDE DEF flatten
  <2>13. \A i \in 1..n : flatten[i] = IF i = 1 THEN ss[i] ELSE flatten[i - 1] \o ss[i]
    BY <2>11
  <2> DEFINE P == {i \in 0..n : i # 0 => flatten[i] = f[i]}
  <2>14. \A i \in 0..n : i \in P
    <3>1. 0 \in P
      OBVIOUS
    <3>2. ASSUME NEW i \in 1..n, i - 1 \in P PROVE i \in P
      <4>1. CASE i = 1
        BY <2>9, <2>13, <4>1
      <4>2. CASE i # 1
        <5>1. i - 1 # 0 /\ i \in 0..n
          BY <4>2
        <5>2. flatten[i - 1] = f[i - 1]
          BY <3>2, <5>1
        <5>3. flatten[i] = flatten[i - 1] \o ss[i]
          BY <2>13, <4>2
        <5>4. f[i] = f[i - 1] \o ss[i]
          BY <2>8
        <5> QED BY <5>1, <5>2, <5>3, <5>4
      <4> QED BY <4>1, <4>2
    <3> HIDE DEF P
    <3> QED BY <3>1, <3>2, UpTo
  <2>15. flatten[n] = f[n]
    BY <2>1, <2>14
  <2>16. Flattens(f, T, ss)
    <3>1. f[0] = <<>>
      BY <2>7 DEF Iterates
    <3> QED BY <2>1, <2>2, <2>8, <3>1 DEF Flattens
  <2> QED BY <2>1, <2>12, <2>15, <2>16
<1> QED BY <1>1, <1>2

LEMMA FlattenType ==
    ASSUME NEW T, NEW ss \in Seq(Seq(T))
    PROVE  FlattenSeq(ss) \in Seq(T)
<1>1. PICK f : Flattens(f, T, ss) /\ FlattenSeq(ss) = f[Len(ss)]
  BY FlattenSteps
<1>2. Len(ss) \in 0..Len(ss)
  OBVIOUS
<1> QED BY <1>1, <1>2 DEF Flattens

(***************************************************************************)
(* Every member of FlattenSeq(ss) is one of a member of ss.                *)
(***************************************************************************)
LEMMA FlattenMembers ==
    ASSUME NEW n \in Nat, NEW ss, IsList(ss, n),
           \A k \in 1..n : \E U : ss[k] \in Seq(U)
    PROVE  /\ \E U : FlattenSeq(ss) \in Seq(U)
           /\ \A s \in ToSet(FlattenSeq(ss)) : \E k \in 1..n : s \in ToSet(ss[k])
<1> DEFINE T == UNION {ToSet(ss[k]) : k \in 1..n}
<1>1. ASSUME NEW k \in 1..n PROVE ss[k] \in Seq(T)
  <2>1. PICK U : ss[k] \in Seq(U)
    OBVIOUS
  <2>2. PICK m \in Nat : ss[k] \in [1..m -> U]
    BY <2>1
  <2>3. \A j \in 1..m : ss[k][j] \in T
    <3> DEFINE sk == ss[k]
    <3>1. DOMAIN sk = 1..m
      BY <2>2
    <3> HIDE DEF sk
    <3>2. \A j \in 1..m : sk[j] \in ToSet(sk)
      BY <3>1 DEF ToSet
    <3> QED BY <3>2 DEF sk
  <2> HIDE DEF T
  <2>4. ss[k] \in [1..m -> T]
    BY <2>2, <2>3
  <2> QED BY <2>4, FunctionIsSeq
<1> HIDE DEF T
<1>2. ss \in [1..n -> Seq(T)]
  BY <1>1 DEF IsList
<1>3. ss \in Seq(Seq(T))
  BY <1>2, FunctionIsSeq
<1>4. FlattenSeq(ss) \in Seq(T)
  BY <1>3, FlattenType
<1>5. ToSet(FlattenSeq(ss)) \subseteq T
  <2> DEFINE fl == FlattenSeq(ss)
  <2>0. fl \in Seq(T)
    BY <1>4
  <2> HIDE DEF fl
  <2>1. PICK m \in Nat : fl \in [1..m -> T]
    BY <2>0
  <2>2. \A k \in DOMAIN fl : fl[k] \in T
    BY <2>1
  <2> QED BY <2>2 DEF ToSet, fl
<1> QED BY <1>4, <1>5 DEF T

(***************************************************************************)
(* Every member of a member of ss is one of FlattenSeq(ss).                *)
(***************************************************************************)
LEMMA FlattenHas ==
    ASSUME NEW T, NEW ss \in Seq(Seq(T)), NEW k \in 1..Len(ss)
    PROVE  ToSet(ss[k]) \subseteq ToSet(FlattenSeq(ss))
<1>1. PICK n \in Nat : n = Len(ss) /\ ss \in [1..n -> Seq(T)]
  OBVIOUS
<1>2. PICK f : Flattens(f, T, ss) /\ FlattenSeq(ss) = f[Len(ss)]
  BY FlattenSteps
<1>3. f \in [0..n -> Seq(T)] /\ \A m \in 1..n : f[m] = f[m - 1] \o ss[m]
  BY <1>1, <1>2 DEF Flattens
<1>4. \A a, b \in Seq(T) : ToSet(a) \subseteq ToSet(a \o b) /\ ToSet(b) \subseteq ToSet(a \o b)
  <2> TAKE a, b \in Seq(T)
  <2> DEFINE ab == a \o b
  <2>1. ASSUME NEW i \in DOMAIN a PROVE i \in DOMAIN ab /\ ab[i] = a[i]
    OBVIOUS
  <2>2. ASSUME NEW i \in DOMAIN b PROVE Len(a) + i \in DOMAIN ab /\ ab[Len(a) + i] = b[i]
    OBVIOUS
  <2> HIDE DEF ab
  <2>3. \A x \in ToSet(a) : x \in ToSet(ab)
    BY <2>1 DEF ToSet
  <2>4. \A x \in ToSet(b) : x \in ToSet(ab)
    BY <2>2 DEF ToSet
  <2> QED BY <2>3, <2>4 DEF ab
<1> DEFINE P == {m \in 0..n : k <= m => ToSet(ss[k]) \subseteq ToSet(f[m])}
<1>5. 0 \in P
  BY <1>1
<1>6. ASSUME NEW m \in 1..n, m - 1 \in P PROVE m \in P
  <2>1. m - 1 \in 0..n
    OBVIOUS
  <2>2. f[m - 1] \in Seq(T) /\ ss[m] \in Seq(T) /\ f[m] = f[m - 1] \o ss[m]
    BY <1>1, <1>3, <2>1
  <2>3. ToSet(f[m - 1]) \subseteq ToSet(f[m]) /\ ToSet(ss[m]) \subseteq ToSet(f[m])
    BY <1>4, <2>2
  <2>4. k <= m => k = m \/ k <= m - 1
    BY <1>1
  <2> QED BY <1>6, <2>3, <2>4
<1>7. n \in P
  <2>1. \A m \in 0..n : m \in P
    <3> HIDE DEF P
    <3> QED BY <1>5, <1>6, UpTo
  <2> QED BY <2>1
<1> QED BY <1>1, <1>2, <1>7

LEMMA FlattenAppend ==
    ASSUME NEW T, NEW ss \in Seq(Seq(T)), NEW s \in Seq(T)
    PROVE  FlattenSeq(Append(ss, s)) = FlattenSeq(ss) \o s
<1> DEFINE n == Len(ss)
           more == Append(ss, s)
<1>1. PICK f : Flattens(f, T, ss) /\ FlattenSeq(ss) = f[n]
  BY FlattenSteps
<1>2. PICK S : S = Seq(T)
  OBVIOUS
<1>3. /\ more \in Seq(S) /\ Len(more) = n + 1 /\ n \in Nat
      /\ \A k \in 1..n : more[k] = ss[k]
      /\ more[n + 1] = s
  BY <1>2
<1>4. PICK g : Flattens(g, T, more) /\ FlattenSeq(more) = g[n + 1]
  BY <1>2, <1>3, FlattenSteps
<1> HIDE DEF n, more
<1> DEFINE P == {k \in 0..n : g[k] = f[k]}
<1>5. 0 \in P
  BY <1>1, <1>3, <1>4 DEF Flattens
<1>6. ASSUME NEW k \in 1..n, k - 1 \in P PROVE k \in P
  <2>1. k \in 1..Len(more) /\ k \in 0..n
    BY <1>3
  <2>2. g[k] = g[k - 1] \o more[k]
    BY <1>4, <2>1 DEF Flattens
  <2>3. f[k] = f[k - 1] \o ss[k]
    BY <1>1 DEF Flattens, n
  <2> QED BY <1>3, <1>6, <2>1, <2>2, <2>3
<1> HIDE DEF P
<1>7. \A k \in 0..n : k \in P
  BY <1>3, <1>5, <1>6, UpTo
<1>8. g[n] = f[n]
  BY <1>3, <1>7 DEF P
<1>9. g[n + 1] = g[n] \o more[n + 1]
  <2>1. n + 1 \in 1..Len(more) /\ (n + 1) - 1 = n
    BY <1>3
  <2> QED BY <1>4, <2>1 DEF Flattens
<1> QED BY <1>1, <1>3, <1>4, <1>8, <1>9 DEF more

-----------------------------------------------------------------------------
(***************************************************************************)
(* Parts of a sequence, by position: c lists what seq has at the positions *)
(* S, the k-th of which is at[k].                                          *)
(***************************************************************************)
Selects(c, seq, S, at, n) ==
    /\ n \in Nat /\ IsList(c, n)
    /\ at \in [1..n -> S]
    /\ \A m \in S : \E k \in 1..n : at[k] = m
    /\ \A k, l \in 1..n : k < l => at[k] < at[l]
    /\ \A k \in 1..n : c[k] = seq[at[k]]

LEMMA PositionsFinite ==
    ASSUME NEW N \in Nat, NEW S, S \subseteq 1..N
    PROVE  IsFiniteSet(S) /\ S \subseteq Int
<1>1. IsFiniteSet(1..N)
  BY FS_Interval
<1>2. IsFiniteSet(S)
  BY <1>1, FS_Subset
<1> QED BY <1>2

LEMMA PickSelects ==
    ASSUME NEW seq, NEW N \in Nat, IsList(seq, N), NEW S, S \subseteq 1..N
    PROVE  Selects(Pick(seq, S), seq, S, InOrder(S), Cardinality(S))
<1>1. PICK at : at = InOrder(S)
  OBVIOUS
<1>2. PICK n : n = Cardinality(S)
  OBVIOUS
<1>3. IsFiniteSet(S) /\ S \subseteq Int
  BY PositionsFinite
<1>4. /\ n \in Nat /\ at \in [1..n -> S]
      /\ \A m \in S : \E k \in 1..n : at[k] = m
      /\ \A k, l \in 1..n : k < l => at[k] < at[l]
  BY <1>1, <1>2, <1>3, InOrderProperties
<1>5. S \cap DOMAIN seq = S
  BY DEF IsList
<1>6. PICK c : c = Pick(seq, S)
  OBVIOUS
<1>7. c = [k \in 1..n |-> seq[at[k]]]
  BY <1>1, <1>4, <1>5, <1>6 DEF Pick
<1>8. Selects(c, seq, S, at, n)
  BY <1>4, <1>7 DEF Selects, IsList
<1> QED BY <1>1, <1>2, <1>6, <1>8

LEMMA SelectsUnique ==
    ASSUME NEW seq, NEW N \in Nat, IsList(seq, N), NEW S, S \subseteq 1..N,
           NEW c, NEW at, NEW n, Selects(c, seq, S, at, n)
    PROVE  c = Pick(seq, S)
<1>1. IsFiniteSet(S) /\ S \subseteq Int
  BY PositionsFinite
<1>2. n \in Nat /\ at \in [1..n -> S] /\ (\A m \in S : \E k \in 1..n : at[k] = m)
      /\ (\A k, l \in 1..n : k < l => at[k] < at[l])
  BY DEF Selects
<1>3. InOrder(S) = at
  BY <1>1, <1>2, InOrderUnique
<1>4. S \cap DOMAIN seq = S
  BY DEF IsList
<1>5. Pick(seq, S) = [k \in 1..n |-> seq[at[k]]]
  BY <1>2, <1>3, <1>4 DEF Pick
<1>6. c = [k \in 1..n |-> c[k]] /\ \A k \in 1..n : c[k] = seq[at[k]]
  BY DEF Selects, IsList
<1> QED BY <1>5, <1>6

LEMMA PickWhole ==
    ASSUME NEW seq, NEW N \in Nat, IsList(seq, N)
    PROVE  Pick(seq, 1..N) = seq
<1>1. PICK g : g = [k \in 1..N |-> k]
  OBVIOUS
<1>2. Selects(seq, seq, 1..N, g, N)
  BY <1>1 DEF Selects
<1> QED BY <1>2, SelectsUnique

LEMMA PickNone ==
    ASSUME NEW seq, NEW N \in Nat, IsList(seq, N)
    PROVE  Pick(seq, {}) = <<>>
<1>1. PICK g : g = [k \in 1..0 |-> k]
  OBVIOUS
<1>2. IsList(<<>>, 0)
  BY DEF IsList
<1>3. Selects(<<>>, seq, {}, g, 0)
  BY <1>1, <1>2 DEF Selects
<1> QED BY <1>3, SelectsUnique

\* One position more.
LEMMA PickNext ==
    ASSUME NEW seq, NEW N \in Nat, IsList(seq, N), NEW S, S \subseteq 1..N, NEW m \in 1..N,
           \A j \in S : j < m
    PROVE  Pick(seq, S \cup {m}) = Append(Pick(seq, S), seq[m])
<1>1. PICK at, n, c : Selects(c, seq, S, at, n) /\ c = Pick(seq, S)
  BY PickSelects
<1>2. /\ n \in Nat /\ IsList(c, n) /\ at \in [1..n -> S]
      /\ \A j \in S : \E k \in 1..n : at[k] = j
      /\ \A k, l \in 1..n : k < l => at[k] < at[l]
      /\ \A k \in 1..n : c[k] = seq[at[k]]
  BY <1>1 DEF Selects
<1>3. PICK g : g = [k \in 1..(n + 1) |-> IF k = n + 1 THEN m ELSE at[k]]
  OBVIOUS
<1>4. n + 1 \in Nat /\ n + 1 \in 1..(n + 1) /\ \A k \in 1..(n + 1) : k = n + 1 \/ k \in 1..n
  BY <1>2
<1>5. \A k \in 1..n : k \in 1..(n + 1) /\ k # n + 1
  BY <1>2
<1>6. (\A k \in 1..n : g[k] = at[k] /\ at[k] \in S) /\ g[n + 1] = m
  BY <1>2, <1>3, <1>4, <1>5
<1>7. PICK U : U = S \cup {m}
  OBVIOUS
<1>8. g \in [1..(n + 1) -> U]
  BY <1>3, <1>4, <1>6, <1>7
<1>9. \A j \in U : \E k \in 1..(n + 1) : g[k] = j
  BY <1>2, <1>4, <1>5, <1>6, <1>7
<1>10. \A k, l \in 1..(n + 1) : k < l => g[k] < g[l]
  <2> SUFFICES ASSUME NEW k \in 1..(n + 1), NEW l \in 1..(n + 1), k < l PROVE g[k] < g[l]
    OBVIOUS
  <2>1. k \in 1..n
    BY <1>2
  <2>2. CASE l = n + 1
    BY <1>6, <2>1, <2>2
  <2>3. CASE l \in 1..n
    BY <1>2, <1>6, <2>1, <2>3
  <2> QED BY <1>4, <2>2, <2>3
<1>11. PICK r : r = Append(c, seq[m])
  OBVIOUS
<1>12. IsList(r, n + 1) /\ \A k \in 1..(n + 1) : r[k] = IF k = n + 1 THEN seq[m] ELSE c[k]
  <2>1. c = [k \in 1..n |-> c[k]]
    BY <1>2 DEF IsList
  <2>2. Len(c) = n
    BY <1>2, <2>1
  <2>3. r = [k \in 1..(n + 1) |-> IF k = n + 1 THEN seq[m] ELSE c[k]]
    BY <1>2, <1>11, <2>1, <2>2
  <2> QED BY <2>3 DEF IsList
<1>13. \A k \in 1..(n + 1) : r[k] = seq[g[k]]
  BY <1>2, <1>4, <1>5, <1>6, <1>12
<1>14. Selects(r, seq, U, g, n + 1)
  BY <1>4, <1>8, <1>9, <1>10, <1>12, <1>13 DEF Selects
<1>15. U \subseteq 1..N
  BY <1>7
<1>16. r = Pick(seq, U)
  BY <1>14, <1>15, SelectsUnique
<1> QED BY <1>1, <1>7, <1>11, <1>16

\* One less.
LEMMA PickWithout ==
    ASSUME NEW seq, NEW N \in Nat, IsList(seq, N), NEW S, S \subseteq 1..N,
           NEW c, NEW at, NEW n, Selects(c, seq, S, at, n), NEW k \in 1..n
    PROVE  RemoveAt(c, k) = Pick(seq, S \ {at[k]})
<1>1. /\ n \in Nat /\ IsList(c, n) /\ at \in [1..n -> S]
      /\ \A j \in S : \E i \in 1..n : at[i] = j
      /\ \A i, l \in 1..n : i < l => at[i] < at[l]
      /\ \A i \in 1..n : c[i] = seq[at[i]]
  BY DEF Selects
<1>2. PICK g : g = [i \in 1..(n - 1) |-> IF i < k THEN at[i] ELSE at[i + 1]]
  OBVIOUS
<1>3. n - 1 \in Nat /\ \A i \in 1..(n - 1) : i \in 1..n /\ i + 1 \in 1..n /\ (i < k => i # k) /\ (~(i < k) => i + 1 # k /\ i + 1 > k)
  BY <1>1
<1>4. PICK U : U = S \ {at[k]}
  OBVIOUS
<1>5. \A i, l \in 1..n : at[i] = at[l] => i = l
  <2> SUFFICES ASSUME NEW i \in 1..n, NEW l \in 1..n, i < l PROVE at[i] # at[l]
    <3>1. \A i, l \in 1..n : i # l => i < l \/ l < i
      BY <1>1
    <3> QED BY <3>1
  <2>1. at[i] \in 1..N /\ at[l] \in 1..N
    BY <1>1
  <2>2. at[i] < at[l]
    BY <1>1
  <2> QED BY <2>1, <2>2
<1>6. \A i \in 1..(n - 1) : g[i] = IF i < k THEN at[i] ELSE at[i + 1]
  BY <1>2
<1>7. \A i \in 1..(n - 1) : g[i] \in U
  <2> TAKE i \in 1..(n - 1)
  <2>1. CASE i < k
    BY <1>1, <1>3, <1>4, <1>5, <1>6, <2>1
  <2>2. CASE ~(i < k)
    BY <1>1, <1>3, <1>4, <1>5, <1>6, <2>2
  <2> QED BY <2>1, <2>2
<1>8. g \in [1..(n - 1) -> U]
  BY <1>2, <1>7
<1>9. \A j \in U : \E i \in 1..(n - 1) : g[i] = j
  <2> TAKE j \in U
  <2>1. PICK i \in 1..n : at[i] = j
    BY <1>1, <1>4
  <2>2. i # k
    BY <1>4, <2>1
  <2>3. CASE i < k
    <3>1. i \in 1..(n - 1)
      BY <1>1, <2>3
    <3> QED BY <1>6, <2>1, <2>3, <3>1
  <2>4. CASE i > k
    <3>1. i - 1 \in 1..(n - 1) /\ ~(i - 1 < k) /\ (i - 1) + 1 = i
      BY <1>1, <2>4
    <3> QED BY <1>6, <2>1, <3>1
  <2> QED BY <2>2, <2>3, <2>4
<1>10. \A i, l \in 1..(n - 1) : i < l => g[i] < g[l]
  <2> SUFFICES ASSUME NEW i \in 1..(n - 1), NEW l \in 1..(n - 1), i < l PROVE g[i] < g[l]
    OBVIOUS
  <2>1. i \in 1..n /\ l \in 1..n /\ i + 1 \in 1..n /\ l + 1 \in 1..n /\ i < l + 1 /\ i + 1 < l + 1
    BY <1>3
  <2>2. at[i] < at[l] /\ at[i] < at[l + 1] /\ at[i + 1] < at[l + 1]
    BY <1>1, <2>1
  <2>3. l < k => i < k
    BY <1>1
  <2> QED BY <1>6, <2>2, <2>3
<1>11. PICK r : r = RemoveAt(c, k)
  OBVIOUS
<1>12. Len(c) = n
  <2>1. c = [i \in 1..n |-> c[i]]
    BY <1>1 DEF IsList
  <2> QED BY <1>1, <2>1
<1>13. r = [i \in 1..(n - 1) |-> IF i < k THEN c[i] ELSE c[i + 1]]
  <2>1. c = [i \in 1..n |-> c[i]]
    BY <1>1 DEF IsList
  <2>2. r = SubSeq(c, 1, k - 1) \o SubSeq(c, k + 1, Len(c))
    BY <1>11 DEF RemoveAt
  <2>3. PICK c1 : c1 = SubSeq(c, 1, k - 1)
    OBVIOUS
  <2>4. PICK c2 : c2 = SubSeq(c, k + 1, n)
    OBVIOUS
  <2>5. IsList(c1, k - 1) /\ \A i \in 1..(k - 1) : c1[i] = c[i]
    <3>1. c1 = [i \in 1..(k - 1) |-> c[i]]
      BY <1>1, <1>12, <2>1, <2>3
    <3> QED BY <3>1 DEF IsList
  <2>6. IsList(c2, n - k) /\ \A i \in 1..(n - k) : c2[i] = c[k + i]
    <3>1. c2 = [i \in 1..(n - k) |-> c[k + i]]
      BY <1>1, <1>12, <2>1, <2>4
    <3> QED BY <3>1 DEF IsList
  <2>7. r = c1 \o c2
    BY <1>12, <2>2, <2>3, <2>4
  <2>8. Joins(r, c1, c2, k - 1, n - k)
    <3>1. k - 1 \in Nat /\ n - k \in Nat
      BY <1>1
    <3> QED BY <2>5, <2>6, <2>7, <3>1, ListConcat
  <2>9. (k - 1) + (n - k) = n - 1
    BY <1>1
  <2>10. IsList(r, n - 1) /\ (\A i \in 1..(k - 1) : r[i] = c1[i]) /\ \A i \in 1..(n - k) : r[(k - 1) + i] = c2[i]
    BY <2>8, <2>9 DEF Joins
  <2>11. \A i \in 1..(n - 1) : r[i] = IF i < k THEN c[i] ELSE c[i + 1]
    <3> TAKE i \in 1..(n - 1)
    <3>1. CASE i < k
      BY <2>5, <2>10, <3>1
    <3>2. CASE ~(i < k)
      <4>1. PICK h \in 1..(n - k) : h = i - (k - 1)
        BY <1>1, <3>2
      <4>2. k + h = i + 1 /\ (k - 1) + h = i
        BY <4>1
      <4>3. r[(k - 1) + h] = c[k + h]
        BY <2>6, <2>10
      <4> QED BY <3>2, <4>2, <4>3
    <3> QED BY <3>1, <3>2
  <2> QED BY <2>10, <2>11 DEF IsList
<1>14. \A i \in 1..(n - 1) : r[i] = seq[g[i]]
  BY <1>1, <1>3, <1>6, <1>13
<1>15. IsList(r, n - 1)
  BY <1>13 DEF IsList
<1>16. Selects(r, seq, U, g, n - 1)
  BY <1>3, <1>8, <1>9, <1>10, <1>14, <1>15 DEF Selects
<1>17. r = Pick(seq, U)
  <2>1. U \subseteq 1..N
    BY <1>4
  <2> QED BY <1>16, <2>1, SelectsUnique
<1> QED BY <1>4, <1>11, <1>17
=============================================================================

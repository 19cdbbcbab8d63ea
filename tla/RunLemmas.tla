----------------------------- MODULE RunLemmas ------------------------------
(***************************************************************************)
(* What runs of CrabIR code do, whatever the statements: how they are      *)
(* composed, and that they are monotonic.                                  *)
(***************************************************************************)
EXTENDS CrabIR, SequenceLemmas

\* f[k] is what a run of code from S has reached after k statements.
Traces(f, code, S) ==
    /\ f[0] = S
    /\ \A k \in 1..Len(code) : f[k] = Outcomes(code[k], f[k - 1])

\* The function that Run defines.
IsTrace(f, code, S) ==
    f = [k \in 0..Len(code) |-> IF k = 0 THEN S ELSE Outcomes(code[k], f[k - 1])]

LEMMA TraceExists ==
    ASSUME NEW code, NEW S, Len(code) \in Nat
    PROVE  \E f : IsTrace(f, code, S)
<1> DEFINE n == Len(code)
           Is(f, m) == f = [k \in 0..m |-> IF k = 0 THEN S ELSE Outcomes(code[k], f[k - 1])]
           P == {m \in 0..n : \E f : Is(f, m)}
<1>1. 0 \in P
  <2>1. PICK f : f = [k \in 0..0 |-> S]
    OBVIOUS
  <2>2. Is(f, 0)
    BY <2>1
  <2> QED BY <2>2
<1>2. ASSUME NEW m \in 1..n, m - 1 \in P PROVE m \in P
  <2>1. PICK f : Is(f, m - 1)
    BY <1>2
  <2>2. PICK g : g = [k \in 0..m |-> IF k = m THEN Outcomes(code[m], f[m - 1]) ELSE f[k]]
    OBVIOUS
  <2>3. DOMAIN f = 0..(m - 1)
    BY <2>1
  <2>4. ASSUME NEW k \in 0..m
        PROVE  g[k] = IF k = 0 THEN S ELSE Outcomes(code[k], g[k - 1])
    <3>1. CASE k = m
      <4>1. k # 0 /\ g[k] = Outcomes(code[k], f[k - 1])
        BY <2>2, <3>1
      <4>2. k - 1 \in 0..m /\ k - 1 # m
        BY <3>1
      <4>3. g[k - 1] = f[k - 1]
        BY <2>2, <4>2
      <4> QED BY <4>1, <4>3
    <3>2. CASE k # m
      <4>1. k \in 0..(m - 1) /\ g[k] = f[k]
        BY <2>2, <3>2
      <4>2. f[k] = IF k = 0 THEN S ELSE Outcomes(code[k], f[k - 1])
        BY <2>1, <4>1
      <4>3. k # 0 => g[k - 1] = f[k - 1]
        <5>1. k # 0 => k - 1 \in 0..m /\ k - 1 # m
          BY <4>1
        <5> QED BY <2>2, <5>1
      <4> QED BY <4>1, <4>2, <4>3
    <3> QED BY <3>1, <3>2
  <2>5. Is(g, m)
    BY <2>2, <2>4
  <2> QED BY <2>5
<1>3. n \in P
  <2>1. n \in Nat
    OBVIOUS
  <2> HIDE DEF P, n
  <2>2. \A k \in 0..n : k \in P
    BY <1>1, <1>2, <2>1, UpTo
  <2> QED BY <2>1, <2>2
<1> QED BY <1>3 DEF IsTrace

LEMMA RunTraces ==
    ASSUME NEW code, NEW S, Len(code) \in Nat
    PROVE  \E f : Traces(f, code, S) /\ Run(code, S) = f[Len(code)]
<1> DEFINE after == CHOOSE f : IsTrace(f, code, S)
<1>1. IsTrace(after, code, S)
  BY TraceExists
<1>2. Run(code, S) = after[Len(code)]
  BY DEF Run, IsTrace
<1> HIDE DEF after
<1>3. Traces(after, code, S)
  BY <1>1 DEF Traces, IsTrace
<1> QED BY <1>2, <1>3

\* A trace is determined by the statements.
LEMMA TraceUnique ==
    ASSUME NEW c1, NEW c2, NEW S, NEW n \in Nat, n <= Len(c1), n <= Len(c2),
           Len(c1) \in Nat, Len(c2) \in Nat, \A k \in 1..n : c1[k] = c2[k],
           NEW f, NEW g, Traces(f, c1, S), Traces(g, c2, S)
    PROVE  \A k \in 0..n : f[k] = g[k]
<1> DEFINE P == {k \in 0..n : f[k] = g[k]}
<1>1. 0 \in P
  BY DEF Traces
<1>2. \A k \in 1..n : k - 1 \in P => k \in P
  BY DEF Traces
<1> HIDE DEF P
<1>3. \A k \in 0..n : k \in P
  BY <1>1, <1>2, UpTo
<1> QED BY <1>3 DEF P

LEMMA RunEmpty == \A S : Run(<<>>, S) = S
<1> TAKE S
<1>1. PICK f : Traces(f, <<>>, S) /\ Run(<<>>, S) = f[Len(<<>>)]
  BY RunTraces
<1> QED BY <1>1 DEF Traces

LEMMA RunOne == \A st, S : Run(<<st>>, S) = Outcomes(st, S)
<1> TAKE st, S
<1>1. Len(<<st>>) = 1 /\ <<st>>[1] = st
  OBVIOUS
<1>2. PICK f : Traces(f, <<st>>, S) /\ Run(<<st>>, S) = f[1]
  BY <1>1, RunTraces
<1>3. f[0] = S /\ f[1] = Outcomes(st, f[0])
  <2>1. 1 \in 1..Len(<<st>>) /\ 1 - 1 = 0
    BY <1>1
  <2> QED BY <1>1, <1>2, <2>1 DEF Traces
<1> QED BY <1>2, <1>3

LEMMA RunConcat ==
    ASSUME NEW T, NEW c1 \in Seq(T), NEW c2 \in Seq(T), NEW S
    PROVE  Run(c1 \o c2, S) = Run(c2, Run(c1, S))
<1> DEFINE c == c1 \o c2
           n1 == Len(c1)
           n2 == Len(c2)
<1>1. /\ n1 \in Nat /\ n2 \in Nat /\ Len(c) = n1 + n2 /\ Len(c) \in Nat
      /\ \A k \in 1..n1 : c[k] = c1[k]
      /\ \A k \in 1..n2 : c[n1 + k] = c2[k]
  OBVIOUS
<1> HIDE DEF c, n1, n2
<1>2. PICK f : Traces(f, c, S) /\ Run(c, S) = f[n1 + n2]
  BY <1>1, RunTraces
<1>3. PICK f1 : Traces(f1, c1, S) /\ Run(c1, S) = f1[n1]
  BY <1>1, RunTraces DEF n1
<1>4. PICK f2 : Traces(f2, c2, f1[n1]) /\ Run(c2, f1[n1]) = f2[n2]
  BY <1>1, RunTraces DEF n2
<1>5. \A k \in 0..n1 : f[k] = f1[k]
  <2>1. n1 = Len(c1)
    BY DEF n1
  <2>2. n1 \in Nat /\ Len(c) \in Nat /\ Len(c1) \in Nat /\ n1 <= Len(c) /\ n1 <= Len(c1)
    BY <1>1, <2>1
  <2>3. \A k \in 1..n1 : c[k] = c1[k]
    BY <1>1
  <2>4. Traces(f, c, S) /\ Traces(f1, c1, S)
    BY <1>2, <1>3
  <2>5. \A n \in Nat : n <= Len(c) /\ n <= Len(c1) /\ (\A k \in 1..n : c[k] = c1[k])
            => \A k \in 0..n : f[k] = f1[k]
    BY <2>2, <2>4, TraceUnique
  <2> QED BY <2>2, <2>3, <2>5
<1> DEFINE P == {k \in 0..n2 : f[n1 + k] = f2[k]}
<1>6. 0 \in P
  BY <1>1, <1>4, <1>5 DEF Traces
<1>7. ASSUME NEW k \in 1..n2, k - 1 \in P PROVE k \in P
  <2>1. f[n1 + (k - 1)] = f2[k - 1]
    BY <1>7
  <2>2. n1 + k \in 1..Len(c) /\ n1 + k - 1 = n1 + (k - 1) /\ k \in 0..n2
    BY <1>1
  <2>3. f[n1 + k] = Outcomes(c[n1 + k], f[n1 + (k - 1)])
    <3>1. PICK m \in 1..Len(c) : m = n1 + k
      BY <2>2
    <3>2. f[m] = Outcomes(c[m], f[m - 1])
      BY <1>2 DEF Traces
    <3>3. m - 1 = n1 + (k - 1)
      BY <1>1, <3>1
    <3> QED BY <3>1, <3>2, <3>3
  <2>4. f2[k] = Outcomes(c2[k], f2[k - 1])
    BY <1>4 DEF Traces, n2
  <2> QED BY <1>1, <2>1, <2>2, <2>3, <2>4
<1> HIDE DEF P
<1>8. \A k \in 0..n2 : k \in P
  BY <1>1, <1>6, <1>7, UpTo
<1>9. f[n1 + n2] = f2[n2]
  BY <1>1, <1>8 DEF P
<1> QED BY <1>2, <1>3, <1>4, <1>9 DEF c

\* A run after which one more statement is executed.
LEMMA RunAppend ==
    ASSUME NEW T, NEW code \in Seq(T), NEW st \in T, NEW S
    PROVE  Run(Append(code, st), S) = Outcomes(st, Run(code, S))
<1>1. Append(code, st) = code \o <<st>> /\ <<st>> \in Seq(T)
  OBVIOUS
<1>2. Run(code \o <<st>>, S) = Run(<<st>>, Run(code, S))
  <2>1. PICK one \in Seq(T) : one = <<st>>
    BY <1>1
  <2>2. Run(code \o one, S) = Run(one, Run(code, S))
    BY RunConcat
  <2> QED BY <2>1, <2>2
<1> QED BY <1>1, <1>2, RunOne

LEMMA RunMonotone ==
    ASSUME NEW code, Len(code) \in Nat, NEW S1, NEW S2, S1 \subseteq S2
    PROVE  Run(code, S1) \subseteq Run(code, S2)
<1>1. PICK f1 : Traces(f1, code, S1) /\ Run(code, S1) = f1[Len(code)]
  BY RunTraces
<1>2. PICK f2 : Traces(f2, code, S2) /\ Run(code, S2) = f2[Len(code)]
  BY RunTraces
<1>3. PICK n \in Nat : n = Len(code)
  OBVIOUS
<1> DEFINE P == {k \in 0..n : f1[k] \subseteq f2[k]}
<1>4. 0 \in P
  BY <1>1, <1>2, <1>3 DEF Traces
<1>5. \A k \in 1..n : k - 1 \in P => k \in P
  BY <1>1, <1>2, <1>3 DEF Traces, Outcomes
<1> HIDE DEF P
<1>6. \A k \in 0..n : k \in P
  BY <1>4, <1>5, UpTo
<1> QED BY <1>1, <1>2, <1>3, <1>6 DEF P

LEMMA RunFromNone ==
    ASSUME NEW code, Len(code) \in Nat
    PROVE  Run(code, {}) = {}
<1>1. PICK f : Traces(f, code, {}) /\ Run(code, {}) = f[Len(code)]
  BY RunTraces
<1>2. PICK n \in Nat : n = Len(code)
  OBVIOUS
<1> DEFINE P == {k \in 0..n : f[k] = {}}
<1>3. 0 \in P
  BY <1>1, <1>2 DEF Traces
<1>4. \A k \in 1..n : k - 1 \in P => k \in P
  BY <1>1, <1>2 DEF Traces, Outcomes
<1> HIDE DEF P
<1>5. \A k \in 0..n : k \in P
  BY <1>3, <1>4, UpTo
<1> QED BY <1>1, <1>2, <1>5 DEF P

\* What a run can reach it reaches from one of the stores.
LEMMA RunPointwise ==
    ASSUME NEW code, Len(code) \in Nat, NEW S, NEW u \in Run(code, S)
    PROVE  \E s \in S : u \in Run(code, {s})
<1>1. PICK f : Traces(f, code, S) /\ Run(code, S) = f[Len(code)]
  BY RunTraces
<1>2. PICK n \in Nat : n = Len(code)
  OBVIOUS
<1> DEFINE Reaches(v, k) == \E s \in S : \A g : Traces(g, code, {s}) => v \in g[k]
           P == {k \in 0..n : \A v \in f[k] : Reaches(v, k)}
<1>3. 0 \in P
  BY <1>1 DEF Traces
<1>4. ASSUME NEW k \in 1..n, k - 1 \in P PROVE k \in P
  <2>1. ASSUME NEW v \in f[k] PROVE Reaches(v, k)
    <3>1. f[k] = Outcomes(code[k], f[k - 1])
      BY <1>1, <1>2 DEF Traces
    <3>2. PICK w \in f[k - 1] : v \in Effect(code[k], w)
      BY <3>1 DEF Outcomes
    <3>3. Reaches(w, k - 1)
      BY <1>4
    <3>4. PICK s \in S : \A g : Traces(g, code, {s}) => w \in g[k - 1]
      BY <3>3
    <3>5. ASSUME NEW g, Traces(g, code, {s}) PROVE v \in g[k]
      <4>1. g[k] = Outcomes(code[k], g[k - 1]) /\ w \in g[k - 1]
        BY <1>2, <3>4, <3>5 DEF Traces
      <4> QED BY <3>2, <4>1 DEF Outcomes
    <3> QED BY <3>5
  <2> HIDE DEF Reaches
  <2>2. k \in 0..n
    OBVIOUS
  <2> QED BY <2>1, <2>2
<1> HIDE DEF P
<1>5. \A k \in 0..n : k \in P
  BY <1>3, <1>4, UpTo
<1>6. Reaches(u, n)
  <2>1. n \in P /\ u \in f[n]
    BY <1>1, <1>2, <1>5
  <2> HIDE DEF Reaches
  <2> QED BY <2>1 DEF P
<1>7. PICK s \in S : \A g : Traces(g, code, {s}) => u \in g[n]
  BY <1>6
<1>8. PICK g : Traces(g, code, {s}) /\ Run(code, {s}) = g[Len(code)]
  BY RunTraces
<1> QED BY <1>2, <1>7, <1>8

\* Two runs, one after the other.
LEMMA RunInto ==
    ASSUME NEW T1, NEW c1 \in Seq(T1), NEW T2, NEW c2 \in Seq(T2), NEW S,
           NEW t \in Run(c1, S), NEW u \in Run(c2, {t})
    PROVE  u \in Run(c1 \o c2, S)
<1>1. PICK T : T = T1 \cup T2
  OBVIOUS
<1>2. c1 \in Seq(T) /\ c2 \in Seq(T)
  BY <1>1, SeqMonotone
<1>3. Run(c1 \o c2, S) = Run(c2, Run(c1, S))
  BY <1>2, RunConcat
<1>4. Run(c2, {t}) \subseteq Run(c2, Run(c1, S))
  <2>1. {t} \subseteq Run(c1, S) /\ Len(c2) \in Nat
    OBVIOUS
  <2> QED BY <2>1, RunMonotone
<1> QED BY <1>3, <1>4
=============================================================================

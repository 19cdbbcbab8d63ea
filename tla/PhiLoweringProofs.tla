------------------------- MODULE PhiLoweringProofs --------------------------
(***************************************************************************)
(* The phi lowering is atomic for every block, every incoming edge and     *)
(* every set of values: type correctness, the inductive invariant, and     *)
(* the refinement of ParallelCopy.                                         *)
(***************************************************************************)
EXTENDS PhiLowering, TLAPS

\* Positions and phis correspond: the facts about PhiSeq that the two loops
\* of visitBasicBlock rely on.
LEMMA PhiSeqFacts ==
    /\ Len(PhiSeq) \in Nat
    /\ DOMAIN PhiSeq = 1..Len(PhiSeq)
    /\ \A k \in 1..Len(PhiSeq) : PhiSeq[k] \in Phi
    /\ \A p \in Phi : \E k \in 1..Len(PhiSeq) : PhiSeq[k] = p
    /\ \A j, k \in 1..Len(PhiSeq) : PhiSeq[j] = PhiSeq[k] => j = k
  <1>1. PhiSeq \in Seq(Phi)
    BY PhiLoweringAssumption
  <1>2. Len(PhiSeq) \in Nat /\ DOMAIN PhiSeq = 1..Len(PhiSeq)
    BY <1>1
  <1>3. QED
    BY <1>2, PhiLoweringAssumption DEF Phi

\* One iteration of either loop visits exactly the phi under the iterator.
LEMMA VisitedGrows ==
    ASSUME TypeOK, i <= Len(PhiSeq), i' = i + 1
    PROVE  /\ Visited' = Visited \cup {PhiSeq[i]}
           /\ PhiSeq[i] \in Phi
           /\ PhiSeq[i] \notin Visited
  <1>1. i \in 1..Len(PhiSeq) /\ i' - 1 = i
    BY PhiSeqFacts DEF TypeOK
  <1>2. 1..(i' - 1) = 1..(i - 1) \cup {i}
    BY <1>1
  <1>3. PhiSeq[i] \notin Visited
    BY <1>1, PhiSeqFacts DEF Visited
  <1>4. QED
    BY <1>1, <1>2, <1>3, PhiSeqFacts DEF Visited

\* When the iterator is past the last phi, every phi has been visited.
LEMMA AllVisited ==
    ASSUME i = Len(PhiSeq) + 1
    PROVE  Visited = Phi
  <1>1. 1..(i - 1) = 1..Len(PhiSeq)
    BY PhiSeqFacts
  <1>2. QED
    BY <1>1, PhiSeqFacts DEF Visited

\* An operand always evaluates to values.
LEMMA ValuesType ==
    ASSUME NEW s \in [Var -> Val], NEW v \in Operand
    PROVE  Values(v, s) \subseteq Val
  BY DEF Values

-----------------------------------------------------------------------------
\* TypeOK holds of the phi lowering: in particular the iterator stays inside
\* the block and only phis of the block are copied.
THEOREM TypeCorrect == Spec => []TypeOK
  <1>1. Init => TypeOK
    <2> SUFFICES ASSUME Init PROVE TypeOK
      OBVIOUS
    <2>1. 1 \in 1..(Len(PhiSeq) + 1)
      BY PhiSeqFacts
    <2>2. QED
      BY <2>1 DEF Init, TypeOK, WellTyped
  <1>2. TypeOK /\ [Next]_vars => TypeOK'
    <2> SUFFICES ASSUME TypeOK, [Next]_vars PROVE TypeOK'
      OBVIOUS
    <2>1. CASE SavePhi
      <3>1. i \in 1..Len(PhiSeq) /\ PhiSeq[i] \in Phi
        BY <2>1, PhiSeqFacts DEF SavePhi, TypeOK
      <3>2. i' \in 1..(Len(PhiSeq) + 1)
        BY <2>1, <3>1, PhiSeqFacts DEF SavePhi
      <3>3. DOMAIN saved' \subseteq Phi /\ saved' \in [DOMAIN saved' -> Val]
        <4>1. CASE NeedsSave(PhiSeq[i])
          <5> DEFINE v == inc[PhiSeq[i]]
          <5>1. v \in Phi /\ store[v] \in Val
            BY <4>1 DEF NeedsSave, TypeOK, Var
          <5>2. saved' = [q \in DOMAIN saved \cup {v} |->
                             IF q \in DOMAIN saved THEN saved[q] ELSE store[v]]
            BY <2>1, <4>1 DEF SavePhi
          <5>3. QED
            BY <5>1, <5>2 DEF TypeOK
        <4>2. CASE ~NeedsSave(PhiSeq[i])
          BY <2>1, <4>2 DEF SavePhi, TypeOK
        <4>3. QED
          BY <4>1, <4>2
      <3>4. QED
        BY <2>1, <3>2, <3>3 DEF SavePhi, TypeOK, WellTyped
    <2>2. CASE Rewind
      <3>1. 1 \in 1..(Len(PhiSeq) + 1)
        BY PhiSeqFacts
      <3>2. QED
        BY <2>2, <3>1 DEF Rewind, TypeOK, WellTyped
    <2>3. CASE AssignPhi
      <3>1. i \in 1..Len(PhiSeq) /\ PhiSeq[i] \in Phi
        BY <2>3, PhiSeqFacts DEF AssignPhi, TypeOK
      <3>2. i' \in 1..(Len(PhiSeq) + 1)
        BY <2>3, <3>1, PhiSeqFacts DEF AssignPhi
      <3>3. store' \in [Var -> Val]
        <4>1. Incoming(PhiSeq[i]) \subseteq Val
          BY <3>1, ValuesType DEF Incoming, TypeOK
        <4>2. QED
          BY <2>3, <3>1, <4>1 DEF AssignPhi, TypeOK
      <3>4. QED
        BY <2>3, <3>2, <3>3 DEF AssignPhi, TypeOK, WellTyped
    <2>4. CASE Finish
      BY <2>4 DEF Finish, TypeOK, WellTyped
    <2>5. CASE UNCHANGED vars
      BY <2>5 DEF vars, TypeOK, WellTyped
    <2>6. QED
      BY <2>1, <2>2, <2>3, <2>4, <2>5 DEF Next
  <1>3. QED
    BY <1>1, <1>2, PTL DEF Spec

-----------------------------------------------------------------------------
\* PhiInv is inductive: between and inside the two loops, copies hold the
\* values on the edge, pending phis are untouched, and no phi is overwritten
\* before every reader of it has a copy.
LEMMA PhiInvInit == Init => PhiInv
  <1> SUFFICES ASSUME Init PROVE PhiInv
    OBVIOUS
  <1>1. 1..(i - 1) = {}
    BY DEF Init
  <1>2. Visited = {}
    BY <1>1 DEF Visited
  <1>3. QED
    BY <1>2 DEF Init, PhiInv, CopiesAreOld, PendingAreOld, ReadersHaveCopies,
                AssignedAreRight, DoneIsComplete

LEMMA SavePreservesPhiInv ==
    ASSUME TypeOK, PhiInv, SavePhi
    PROVE  PhiInv'
  <1> DEFINE p == PhiSeq[i]
             v == inc[p]
  <1>1. /\ pc = "save" /\ pc' = "save"
        /\ inc' = inc /\ start' = start /\ store' = store
        /\ i <= Len(PhiSeq) /\ i' = i + 1
    BY DEF SavePhi
  <1>2. Visited' = Visited \cup {p} /\ p \in Phi
    BY <1>1, VisitedGrows
  <1>3. \A q \in Var : store[q] = start[q]
    BY <1>1 DEF PhiInv, PendingAreOld
  <1>4. DOMAIN saved \subseteq DOMAIN saved' /\ CopiesAreOld'
    <2>1. CASE NeedsSave(p)
      <3>1. v \in Var
        BY <2>1 DEF NeedsSave, Var
      <3>2. saved' = [q \in DOMAIN saved \cup {v} |->
                         IF q \in DOMAIN saved THEN saved[q] ELSE store[v]]
        BY <2>1 DEF SavePhi
      <3>3. QED
        BY <1>1, <1>3, <3>1, <3>2 DEF PhiInv, CopiesAreOld
    <2>2. CASE ~NeedsSave(p)
      <3>1. saved' = saved
        BY <2>2 DEF SavePhi
      <3>2. QED
        BY <1>1, <3>1 DEF PhiInv, CopiesAreOld
    <2>3. QED
      BY <2>1, <2>2
  <1>5. PendingAreOld'
    BY <1>1, <1>3 DEF PendingAreOld
  <1>6. ReadersHaveCopies'
    <2> SUFFICES ASSUME NEW r \in Visited' \cap Lowered, inc[r] \in Phi
                 PROVE  inc[r] \in DOMAIN saved'
      BY <1>1 DEF ReadersHaveCopies
    <2>1. CASE r = p
      <3>1. CASE NeedsSave(p)
        <4>1. saved' = [q \in DOMAIN saved \cup {v} |->
                           IF q \in DOMAIN saved THEN saved[q] ELSE store[v]]
          BY <3>1 DEF SavePhi
        <4>2. QED
          BY <2>1, <4>1
      <3>2. CASE ~NeedsSave(p)
        BY <1>2, <1>4, <2>1, <3>2 DEF NeedsSave, Lowered, TypeOK, WellTyped
      <3>3. QED
        BY <3>1, <3>2
    <2>2. CASE r \in Visited
      BY <1>1, <1>4, <2>2 DEF PhiInv, ReadersHaveCopies
    <2>3. QED
      BY <1>2, <2>1, <2>2
  <1>7. AssignedAreRight' /\ DoneIsComplete'
    BY <1>1 DEF AssignedAreRight, DoneIsComplete
  <1>8. QED
    BY <1>4, <1>5, <1>6, <1>7 DEF PhiInv

LEMMA RewindPreservesPhiInv ==
    ASSUME TypeOK, PhiInv, Rewind
    PROVE  PhiInv'
  <1>1. /\ pc = "save" /\ pc' = "assign" /\ i' = 1 /\ i = Len(PhiSeq) + 1
        /\ inc' = inc /\ start' = start /\ store' = store /\ saved' = saved
    BY DEF Rewind
  <1>2. 1..(i' - 1) = {}
    BY <1>1
  <1>3. Visited' = {} /\ Visited = Phi
    BY <1>1, <1>2, AllVisited DEF Visited
  <1>4. CopiesAreOld' /\ PendingAreOld'
    BY <1>1, <1>3 DEF PhiInv, CopiesAreOld, PendingAreOld
  <1>5. ReadersHaveCopies'
    BY <1>1, <1>3 DEF PhiInv, ReadersHaveCopies
  <1>6. AssignedAreRight' /\ DoneIsComplete'
    BY <1>1, <1>3 DEF AssignedAreRight, DoneIsComplete
  <1>7. QED
    BY <1>4, <1>5, <1>6 DEF PhiInv

LEMMA AssignPreservesPhiInv ==
    ASSUME TypeOK, PhiInv, AssignPhi
    PROVE  PhiInv'
  <1> DEFINE p == PhiSeq[i]
  <1>1. /\ pc = "assign" /\ pc' = "assign"
        /\ inc' = inc /\ start' = start /\ saved' = saved
        /\ i <= Len(PhiSeq) /\ i' = i + 1
    BY DEF AssignPhi
  <1>2. Visited' = Visited \cup {p} /\ p \in Phi /\ p \notin Visited
    BY <1>1, VisitedGrows
  <1>3. \A q \in Var \ {p} : store'[q] = store[q]
    BY DEF AssignPhi, TypeOK
  <1>4. CopiesAreOld'
    BY <1>1 DEF PhiInv, CopiesAreOld
  <1>5. PendingAreOld'
    <2>1. CASE p \in Lowered
      BY <1>1, <1>2, <1>3, <2>1 DEF PhiInv, PendingAreOld
    <2>2. CASE p \notin Lowered
      <3>1. store' = store
        BY <2>2 DEF AssignPhi
      <3>2. QED
        BY <1>1, <1>2, <2>2, <3>1 DEF PhiInv, PendingAreOld
    <2>3. QED
      BY <2>1, <2>2
  <1>6. ReadersHaveCopies'
    BY <1>1 DEF PhiInv, ReadersHaveCopies
  <1>7. ASSUME p \in Lowered
        PROVE  store'[p] \in Values(inc[p], start)
    <2>1. store'[p] \in Incoming(p)
      BY <1>2, <1>7 DEF AssignPhi, TypeOK, Var
    <2>2. CASE inc[p] \in DOMAIN saved
      <3>1. store'[p] = start[inc[p]] /\ inc[p] \in Var
        BY <2>1, <2>2 DEF Incoming, PhiInv, CopiesAreOld, TypeOK, Var
      <3>2. QED
        BY <3>1 DEF Values
    <2>3. CASE inc[p] \notin DOMAIN saved
      <3>1. inc[p] \notin Phi
        BY <1>1, <1>2, <1>7, <2>3 DEF PhiInv, ReadersHaveCopies
      <3>2. inc[p] \in Var => store[inc[p]] = start[inc[p]]
        BY <1>1, <3>1 DEF PhiInv, PendingAreOld, Lowered
      <3>3. Incoming(p) = Values(inc[p], start)
        BY <2>3, <3>2 DEF Incoming, Values
      <3>4. QED
        BY <2>1, <3>3
    <2>4. QED
      BY <2>2, <2>3
  <1>8. AssignedAreRight'
    <2> SUFFICES ASSUME NEW r \in Visited' \cap Lowered
                 PROVE  store'[r] \in Values(inc[r], start)
      BY <1>1 DEF AssignedAreRight, Values
    <2>1. CASE r = p
      BY <1>7, <2>1
    <2>2. CASE r # p
      <3>1. r \in Visited /\ store'[r] = store[r]
        BY <1>2, <1>3, <2>2 DEF Lowered, Var
      <3>2. QED
        BY <1>1, <3>1 DEF PhiInv, AssignedAreRight
    <2>3. QED
      BY <2>1, <2>2
  <1>9. DoneIsComplete'
    BY <1>1 DEF DoneIsComplete
  <1>10. QED
    BY <1>4, <1>5, <1>6, <1>8, <1>9 DEF PhiInv

LEMMA FinishPreservesPhiInv ==
    ASSUME TypeOK, PhiInv, Finish
    PROVE  PhiInv'
  <1>1. /\ pc = "assign" /\ pc' = "done" /\ i' = i /\ i = Len(PhiSeq) + 1
        /\ inc' = inc /\ start' = start /\ store' = store /\ saved' = saved
    BY DEF Finish
  <1>2. Visited' = Visited
    BY <1>1 DEF Visited
  <1>3. CopiesAreOld' /\ PendingAreOld' /\ ReadersHaveCopies'
    BY <1>1, <1>2 DEF PhiInv, CopiesAreOld, PendingAreOld, ReadersHaveCopies
  <1>4. AssignedAreRight' /\ DoneIsComplete'
    BY <1>1, <1>2 DEF PhiInv, AssignedAreRight, DoneIsComplete, Values
  <1>5. QED
    BY <1>3, <1>4 DEF PhiInv

\* The inductive invariant holds in every reachable state.
THEOREM Inductive == Spec => []PhiInv
  <1>1. TypeOK /\ PhiInv /\ [Next]_vars => PhiInv'
    <2> SUFFICES ASSUME TypeOK, PhiInv, [Next]_vars PROVE PhiInv'
      OBVIOUS
    <2>1. CASE SavePhi
      BY <2>1, SavePreservesPhiInv
    <2>2. CASE Rewind
      BY <2>2, RewindPreservesPhiInv
    <2>3. CASE AssignPhi
      BY <2>3, AssignPreservesPhiInv
    <2>4. CASE Finish
      BY <2>4, FinishPreservesPhiInv
    <2>5. CASE UNCHANGED vars
      <3>1. Visited' = Visited
        BY <2>5 DEF vars, Visited
      <3>2. QED
        BY <2>5, <3>1 DEF vars, PhiInv, CopiesAreOld, PendingAreOld,
             ReadersHaveCopies, AssignedAreRight, DoneIsComplete, Values
    <2>6. QED
      BY <2>1, <2>2, <2>3, <2>4, <2>5 DEF Next
  <1>2. QED
    BY <1>1, PhiInvInit, TypeCorrect, PTL DEF Spec

\* The two loops implement the simultaneous assignment: every step but
\* Finish is invisible, and Finish is ParallelCopy's step.
THEOREM Refinement == Spec => ImplementsParallelCopy
  <1>1. Init => Atomic!Init
    BY DEF Init, Atomic!Init
  <1>2. TypeOK /\ PhiInv /\ [Next]_vars => [Atomic!Next]_(Atomic!vars)
    <2> SUFFICES ASSUME TypeOK, PhiInv, [Next]_vars
                 PROVE  [Atomic!Next]_(Atomic!vars)
      OBVIOUS
    <2>1. CASE SavePhi
      BY <2>1 DEF SavePhi, Atomic!vars
    <2>2. CASE Rewind
      BY <2>2 DEF Rewind, Atomic!vars
    <2>3. CASE AssignPhi
      BY <2>3 DEF AssignPhi, Atomic!vars
    <2>4. CASE Finish
      <3>1. /\ pc # "done" /\ pc' = "done"
            /\ inc' = inc /\ start' = start /\ store' = store
        BY <2>4 DEF Finish
      <3>2. Visited = Phi
        BY <2>4, AllVisited DEF Finish
      <3>3. \A p \in Lowered : store[p] \in Values(inc[p], start)
        BY <2>4, <3>2 DEF Finish, PhiInv, AssignedAreRight, Lowered
      <3>4. \A v \in Var \ Lowered : store[v] = start[v]
        BY <2>4, <3>2 DEF Finish, PhiInv, PendingAreOld
      <3>5. Atomic!Copy
        BY <3>1, <3>3, <3>4 DEF Atomic!Copy, Values, Atomic!Values, TypeOK
      <3>6. QED
        BY <3>5 DEF Atomic!Next
    <2>5. CASE UNCHANGED vars
      BY <2>5 DEF vars, Atomic!vars
    <2>6. QED
      BY <2>1, <2>2, <2>3, <2>4, <2>5 DEF Next
  <1>3. QED
    BY <1>1, <1>2, TypeCorrect, Inductive, PTL
       DEF Spec, ImplementsParallelCopy, Atomic!Spec
=============================================================================

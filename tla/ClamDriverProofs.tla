-------------------------- MODULE ClamDriverProofs --------------------------
(***************************************************************************)
(* Proofs about ClamDriver, for any pipeline, any choice of time limits    *)
(* and any number of signals: no stage works on the output of a failed     *)
(* one, no child survives a driver without limits, and a SIGTERM that has  *)
(* found the child stops the pipeline.                                     *)
(***************************************************************************)
EXTENDS ClamDriver, SequenceTheorems, TLAPS

MainAt ==
    {"popen", "track", "start", "wait", "untrack", "report", "finally", "exiting",
     "exited"}
Steps == {"check", "term", "kill", "object", "wait", "clear"}
TimerAt == {"off", "armed", "term", "kill", "wait", "clear", "over"}

(***************************************************************************)
(* The control state of the three kinds of threads.                        *)
(***************************************************************************)
Control ==
    /\ pc \in MainAt
    /\ timer \in [Stage -> TimerAt]

Succeeded == result.flag = "none" /\ result.rv = 0

(***************************************************************************)
(* Who may collect a child, and when: those before the current stage are   *)
(* collected and returned 0, those after it are not started, and the       *)
(* current one is collected before its result is looked at. Only the       *)
(* current stage is ever tracked.                                          *)
(***************************************************************************)
Pipeline ==
    /\ \A j \in Stage : j > k => child[j] = "none"
    /\ \A j \in Stage : j < k => child[j] = "gone" /\ ending[j] = Ok
    /\ \A j \in Stage : known[j] => child[j] = "gone"
    /\ pc = "popen" => child[k] = "none"
    /\ pc \in {"untrack", "report"} =>
           child[k] = "gone" /\ (Succeeded => ending[k] = Ok)
    /\ tracked \in {0, k}
    /\ pc \in {"popen", "track"} => tracked = 0
    /\ pc = "report" /\ Succeeded => tracked = 0

(***************************************************************************)
(* killall waits for the current stage, and has collected it when it       *)
(* clears running_process.                                                 *)
(***************************************************************************)
Activated ==
    \A i \in DOMAIN handler :
        /\ handler[i].step \in {"wait", "clear"} => handler[i].target = k
        /\ handler[i].step = "clear" => child[k] = "gone"

(***************************************************************************)
(* Without time limits nobody but killall itself clears running_process    *)
(* while it runs: if it fails between its test and its reads, another      *)
(* activation has collected the child.                                     *)
(***************************************************************************)
Unlimited ==
    limited = {} =>
        /\ \A j \in Stage : timer[j] = "off"
        /\ \A i \in DOMAIN handler :
               handler[i].step \in {"term", "kill", "object"} =>
                   tracked # 0 \/ child[k] = "gone"
        /\ pc \in {"untrack", "report"} => child[k] = "gone"
        /\ pc \in {"finally", "exiting", "exited"} => child[k] \in {"none", "gone"}

(***************************************************************************)
(* A stage waited for when killall found it: killall still runs, or has    *)
(* collected the child, so that wait4 fails and the stage is a timeout.    *)
(***************************************************************************)
Doomed ==
    \/ /\ pc = "wait"
       /\ \/ \E i \in DOMAIN handler :
                 handler[i].step \in {"term", "kill", "object", "wait"}
          \/ child[k] = "gone"
    \/ pc = "report" /\ result.flag = "timeout"
    \/ pc \in {"finally", "exiting", "exited"}

AimedAreDoomed == aimed \subseteq {k} /\ (aimed # {} => Doomed)

-----------------------------------------------------------------------------
LEMMA Constants ==
    /\ Len(Stages) \in Nat
    /\ Len(Stages) > 0
    /\ \A j \in Stage : Stages[j] \in {"clang", "pp", "opt", "clam"}
    /\ \A l \in Limits : l \subseteq {Stages[j] : j \in Stage}
<1>1. \A j \in 1..4 : AllStages[j] \in {"clang", "pp", "opt", "clam"}
  BY DEF AllStages
<1>2. Stages \in Seq({"clang", "pp", "opt", "clam"})
  BY <1>1, DriverAssumption DEF DriverAssumption
<1> QED
  BY <1>2, DriverAssumption DEF DriverAssumption, Stage

LEMMA StageType == 1 \in Stage /\ Stage \subseteq Nat
BY Constants DEF Stage

LEMMA OutcomeType ==
    /\ {Ok, Fail, Aborted(TRUE), Aborted(FALSE)} \subseteq Outcome
    /\ {KilledBy(9), KilledBy(15)} \subseteq Outcome
BY DEF Outcome

LEMMA ClassifyType ==
    ASSUME NEW o \in Outcome
    PROVE  /\ Classify(o).flag \in Flag
           /\ Classify(o).rv \in {NoneValue, 0, 1}
           /\ Classify(o).flag = "none" <=> Classify(o).rv # NoneValue
           /\ Classify(o).flag = "none" /\ Classify(o).rv = 0 => o = Ok
<1> USE DEF Classify, Flag, NoneValue
<1>1. CASE o = Ok
  BY <1>1 DEF Ok
<1>2. CASE o = Fail
  BY <1>2 DEF Fail
<1>3. CASE o = Aborted(TRUE) \/ o = Aborted(FALSE)
  BY <1>3 DEF Aborted
<1>4. CASE o = KilledBy(9) \/ o = KilledBy(15)
  BY <1>4 DEF KilledBy
<1> QED
  BY <1>1, <1>2, <1>3, <1>4 DEF Outcome

LEMMA ExitCodeType ==
    ASSUME NEW stage \in {"clang", "pp", "opt", "clam"}, NEW r
    PROVE  ExitCode(stage, r) \in SpecialCodes \cup {"none"}
<1>1. ErrorCode[stage] \in SpecialCodes
  BY DEF ErrorCode, SpecialCodes
<1> QED
  BY <1>1 DEF ExitCode, SpecialCodes

(***************************************************************************)
(* Only a stage that returned 0 lets the driver go on.                     *)
(***************************************************************************)
LEMMA GoesOnAfterSuccess ==
    ASSUME NEW j \in Stage, ExitCode(Stages[j], result) = "none"
    PROVE  Succeeded
<1>1. Stages[j] \in {"clang", "pp", "opt", "clam"}
  BY Constants
<1>2. ErrorCode[Stages[j]] # "none"
  BY <1>1 DEF ErrorCode
<1> QED
  BY <1>2 DEF ExitCode, Succeeded

LEMMA EndType ==
    ASSUME TypeOK, NEW j \in Stage, NEW how \in Outcome, End(j, how)
    PROVE  /\ child' \in [Stage -> {"none", "running", "zombie", "gone"}]
           /\ ending' \in [Stage -> Outcome]
BY DEF End, TypeOK

LEMMA SendSignalType ==
    ASSUME TypeOK, NEW j, NEW s \in {9, 15}, SendSignal(j, s)
    PROVE  /\ child' \in [Stage -> {"none", "running", "zombie", "gone"}]
           /\ ending' \in [Stage -> Outcome]
           /\ sent' \in [Stage -> {0, 9, 15}]
           /\ known' \in [Stage -> BOOLEAN]
BY DEF SendSignal, TypeOK

LEMMA WaitForType ==
    ASSUME TypeOK, NEW j, WaitFor(j)
    PROVE  /\ child' \in [Stage -> {"none", "running", "zombie", "gone"}]
           /\ ending' \in [Stage -> Outcome]
           /\ sent' \in [Stage -> {0, 9, 15}]
           /\ known' \in [Stage -> BOOLEAN]
BY DEF WaitFor, TypeOK

(***************************************************************************)
(* The activations of killall.                                             *)
(***************************************************************************)
LEMMA Suspending ==
    ASSUME TypeOK, handler # <<>>
    PROVE  /\ Len(handler) \in Nat \ {0} /\ DOMAIN handler = 1..Len(handler)
           /\ Top \in Activations /\ Top = handler[Len(handler)]
           /\ Len(handler) \in DOMAIN handler
           /\ Suspended \in Seq(Activations) /\ Len(Suspended) = Len(handler) - 1
           /\ \A i \in 1..Len(Suspended) : Suspended[i] = handler[i]
<1>1. handler \in Seq(Activations)
  BY DEF TypeOK
<1>2. Len(handler) \in Nat \ {0} /\ DOMAIN handler = 1..Len(handler)
  BY <1>1, EmptySeq, LenProperties
<1>3. \A i \in 1..Len(handler) : handler[i] \in Activations
  BY <1>1, ElementOfSeq
<1> DEFINE n == Len(handler) - 1
<1>4. n \in Nat /\ n + 1 = Len(handler)
  BY <1>2
<1>5. \A i \in 1..n : handler[i] \in Activations
  BY <1>2, <1>3
<1>6. /\ SubSeq(handler, 1, n) \in Seq(Activations)
      /\ Len(SubSeq(handler, 1, n)) = IF 1 <= n THEN n - 1 + 1 ELSE 0
      /\ \A i \in 1..(n - 1 + 1) : SubSeq(handler, 1, n)[i] = handler[1 + i - 1]
  <2> HIDE DEF n
  <2>1. 1 \in Int /\ n \in Int
    BY <1>4
  <2> QED BY <1>5, <2>1, SubSeqProperties
<1>7. Suspended = SubSeq(handler, 1, n)
  BY DEF Suspended
<1> HIDE DEF n
<1>8. Len(Suspended) = n /\ \A i \in 1..n : Suspended[i] = handler[i]
  BY <1>4, <1>6, <1>7
<1>9. Top \in Activations
  BY <1>2, <1>3 DEF Top
<1>10. Len(handler) \in DOMAIN handler /\ n = Len(handler) - 1
  BY <1>2 DEF n
<1>11. Suspended \in Seq(Activations) /\ Top = handler[Len(handler)]
  BY <1>6, <1>7 DEF Top
<1>12. Len(Suspended) = Len(handler) - 1
  BY <1>8, <1>10
<1>13. \A i \in 1..Len(Suspended) : Suspended[i] = handler[i]
  BY <1>8
<1> QED BY <1>2, <1>9, <1>10, <1>11, <1>12, <1>13

LEMMA GoingOn ==
    ASSUME TypeOK, handler # <<>>, NEW next \in Steps, NEW j \in {0} \cup Stage, GoTo(next, j)
    PROVE  /\ handler' \in Seq(Activations) /\ DOMAIN handler' = DOMAIN handler
           /\ Len(handler) \in DOMAIN handler'
           /\ handler'[Len(handler)] = [step |-> next, target |-> j]
           /\ \A i \in DOMAIN handler :
                  i = Len(handler) \/ handler'[i] = handler[i]
<1> DEFINE a == [step |-> next, target |-> j]
<1>1. a \in Activations
  BY DEF Activations, Steps
<1>2. handler' = Append(Suspended, a)
  BY DEF GoTo
<1> HIDE DEF a
<1>3. /\ handler' \in Seq(Activations)
      /\ Len(handler') = Len(Suspended) + 1
      /\ \A i \in 1..Len(Suspended) : handler'[i] = Suspended[i]
      /\ handler'[Len(Suspended) + 1] = a
  BY <1>1, <1>2, Suspending, AppendProperties
<1>4. Len(Suspended) + 1 = Len(handler)
  <2>1. Len(Suspended) = Len(handler) - 1 /\ Len(handler) \in Nat
    BY Suspending
  <2> HIDE DEF Suspended
  <2> QED BY <2>1
<1>5. DOMAIN handler' = 1..Len(handler')
  BY <1>3, LenProperties
<1>6. \A i \in DOMAIN handler : i = Len(handler) \/ i \in 1..Len(Suspended)
  BY <1>4, Suspending
<1>7. \A i \in DOMAIN handler : i = Len(handler) \/ handler'[i] = handler[i]
  BY <1>3, <1>6, Suspending
<1> QED BY <1>3, <1>4, <1>5, <1>7, Suspending DEF a

LEMMA GoneOn ==
    ASSUME TypeOK, handler # <<>>, NEW next \in Steps, NEW j \in {0} \cup Stage, GoTo(next, j)
    PROVE  \E i \in DOMAIN handler' : handler'[i].step = next
<1>1. Len(handler) \in DOMAIN handler' /\ handler'[Len(handler)] = [step |-> next, target |-> j]
  BY GoingOn
<1>2. handler'[Len(handler)].step = next
  BY <1>1
<1> QED BY <1>1, <1>2

LEMMA Returning ==
    ASSUME TypeOK, handler # <<>>, Return
    PROVE  /\ handler' \in Seq(Activations) /\ DOMAIN handler' = 1..(Len(handler) - 1)
           /\ \A i \in DOMAIN handler' : i \in DOMAIN handler /\ handler'[i] = handler[i]
           /\ \A i \in DOMAIN handler : i = Len(handler) \/ i \in DOMAIN handler'
<1>1. handler' = Suspended
  BY DEF Return
<1>2. DOMAIN handler' = 1..(Len(handler) - 1)
  BY <1>1, Suspending, LenProperties
<1> QED BY <1>1, <1>2, Suspending

LEMMA Interrupting ==
    ASSUME TypeOK, Sigterm
    PROVE  /\ handler' \in Seq(Activations)
           /\ \A i \in DOMAIN handler' :
                  \/ handler'[i] = Activation
                  \/ i \in DOMAIN handler /\ handler'[i] = handler[i]
           /\ \A i \in DOMAIN handler : i \in DOMAIN handler' /\ handler'[i] = handler[i]
<1>1. handler \in Seq(Activations) /\ handler' = Append(handler, Activation)
  BY DEF Sigterm, TypeOK
<1>2. Activation \in Activations
  BY DEF Activation, Activations
<1>3. /\ handler' \in Seq(Activations)
      /\ Len(handler') = Len(handler) + 1
      /\ \A i \in 1..Len(handler) : handler'[i] = handler[i]
      /\ handler'[Len(handler) + 1] = Activation
  BY <1>1, <1>2, AppendProperties
<1>4. DOMAIN handler = 1..Len(handler) /\ DOMAIN handler' = 1..Len(handler')
      /\ Len(handler) \in Nat
  BY <1>1, <1>3, LenProperties
<1> QED BY <1>3, <1>4

LEMMA TypingInit == Init => TypeOK /\ Control
BY StageType, OutcomeType, DriverAssumption
   DEF Init, TypeOK, Control, NoResult, Flag, NoneValue, MainAt, TimerAt,
       DriverAssumption, SpecialCodes

LEMMA TypingStep ==
    ASSUME TypeOK, Control, [Next]_vars
    PROVE  TypeOK' /\ Control'
<1> USE DEF procVars, mainVars, handlerVars
<1>1. CASE Popen \/ PopenFails
  BY <1>1 DEF Popen, PopenFails, Main, TypeOK, Control, MainAt
<1>2. CASE Track
  BY <1>2 DEF Track, Main, TypeOK, Control, MainAt
<1>3. CASE StartTimer
  BY <1>3 DEF StartTimer, Main, TypeOK, Control, MainAt, TimerAt
<1>4. CASE Wait4
  <2>1. /\ result'.flag \in Flag
        /\ result'.rv \in {NoneValue, 0, 1}
        /\ result'.flag = "none" <=> result'.rv # NoneValue
    BY <1>4, ClassifyType DEF Wait4, TypeOK
  <2> QED
    BY <1>4, <2>1 DEF Wait4, Main, TypeOK, Control, MainAt
<1>5. CASE Wait4Fails
  BY <1>5 DEF Wait4Fails, Main, TypeOK, Control, MainAt, Flag
<1>6. CASE Untrack
  BY <1>6 DEF Untrack, Main, TypeOK, Control, MainAt
<1>7. CASE Report
  <2> DEFINE c == ExitCode(Stages[k], result)
  <2>1. c \in SpecialCodes \cup {"none"}
    BY Constants, ExitCodeType DEF TypeOK
  <2>2. /\ k' \in Stage
        /\ code' \in SpecialCodes \cup {"none", "1"}
        /\ pc' \in MainAt
    <3>1. \/ k < Len(Stages) /\ k' = k + 1 /\ pc' = "popen" /\ code' = code
          \/ k' = k /\ pc' = "finally" /\ code' = (IF c = "none" THEN "OK" ELSE c)
      BY <1>7 DEF Report
    <3> HIDE DEF c
    <3> QED
      BY <2>1, <3>1, Constants DEF TypeOK, Stage, MainAt, SpecialCodes
  <2>3. timer' \in [Stage -> TimerAt]
    BY <1>7 DEF Report, Control, TimerAt
  <2> QED
    BY <1>7, <2>2, <2>3 DEF Report, TypeOK, Control
<1>8. CASE Finally
  BY <1>8 DEF Finally, Main, TypeOK, Control, MainAt, Activation, Activations
<1>9. CASE Exit
  BY <1>9 DEF Exit, Main, TypeOK, Control, MainAt
<1>10. CASE Check
  <2>1. aimed' \subseteq Stage
    BY <1>10 DEF Check, Aim, TypeOK
  <2>2. handler' \in Seq(Activations)
    BY <1>10, GoingOn, Returning DEF Check, At, Steps
  <2> QED
    BY <1>10, <2>1, <2>2 DEF Check, TypeOK, Control
<1>11. ASSUME NEW step, NEW s \in {9, 15}, NEW next \in Steps,
              HandlerSignals(step, s, next)
       PROVE  TypeOK' /\ Control'
  <2>1. handler' \in Seq(Activations)
    BY <1>11, GoingOn DEF HandlerSignals, At
  <2> QED
    BY <1>11, <2>1, SendSignalType DEF HandlerSignals, TypeOK, Control
<1>12. CASE HandlerGetsObject
  <2>1. handler' \in Seq(Activations)
    BY <1>12, GoingOn DEF HandlerGetsObject, At, Steps, TypeOK
  <2> QED
    BY <1>12, <2>1 DEF HandlerGetsObject, TypeOK, Control
<1>13. CASE HandlerWaits
  <2>1. handler' \in Seq(Activations)
    <3>1. handler # <<>> /\ GoTo("clear", Top.target)
      BY <1>13 DEF HandlerWaits, At
    <3>2. Top.target \in {0} \cup Stage
      BY <3>1, Suspending DEF Activations
    <3> QED
      BY <3>1, <3>2, GoingOn DEF Steps
  <2> QED
    BY <1>13, <2>1, WaitForType DEF HandlerWaits, TypeOK, Control
<1>14. CASE HandlerClears
  <2>1. handler' \in Seq(Activations)
    BY <1>14, Returning DEF HandlerClears, At
  <2> QED
    BY <1>14, <2>1 DEF HandlerClears, TypeOK, Control
<1>15. CASE HandlerRaises
  <2>1. timer' \in [Stage -> TimerAt]
    BY <1>15 DEF HandlerRaises, Control, TimerAt
  <2> QED
    BY <1>15, <2>1 DEF HandlerRaises, TypeOK, Control, MainAt
<1>16. CASE Sigterm
  BY <1>16, Interrupting, DriverAssumption DEF Sigterm, TypeOK, Control, DriverAssumption
<1>17. ASSUME NEW j \in Stage, TimerThread(j)
       PROVE  TypeOK' /\ Control'
  <2>1. /\ timer' \in [Stage -> TimerAt]
        /\ UNCHANGED <<mainVars, handlerVars>>
    BY <1>17 DEF TimerThread, Expire, TimerTerminates, TimerKills, TimerWaits,
                 TimerClears, Timer, Control, TimerAt
  <2>2. tracked' \in {0} \cup Stage
    BY <1>17 DEF TimerThread, Expire, TimerTerminates, TimerKills, TimerWaits,
                 TimerClears, TypeOK
  <2>3. UNCHANGED procVars \/ SendSignal(j, 15) \/ SendSignal(j, 9) \/ WaitFor(j)
    BY <1>17 DEF TimerThread, Expire, TimerTerminates, TimerKills, TimerWaits,
                 TimerClears
  <2>4. /\ child' \in [Stage -> {"none", "running", "zombie", "gone"}]
        /\ ending' \in [Stage -> Outcome]
        /\ sent' \in [Stage -> {0, 9, 15}]
        /\ known' \in [Stage -> BOOLEAN]
    BY <2>3, SendSignalType, WaitForType DEF TypeOK
  <2> QED
    BY <2>1, <2>2, <2>4 DEF TypeOK, Control
<1>18. ASSUME NEW j \in Stage, NEW how \in Outcome, End(j, how)
       PROVE  TypeOK' /\ Control'
  BY <1>18, EndType DEF End, TypeOK, Control
<1>19. CASE UNCHANGED vars
  BY <1>19 DEF vars, TypeOK, Control
<1>20. ASSUME NEW j \in Stage, ChildEnds(j) \/ ChildIsKilled(j)
       PROVE  TypeOK' /\ Control'
  BY <1>18, <1>20, OutcomeType DEF ChildEnds, ChildIsKilled, TypeOK
<1>21. CASE Handler
  BY <1>10, <1>11, <1>12, <1>13, <1>14, <1>15, <1>21 DEF Handler, Steps
<1>22. CASE MainThread
  BY <1>1, <1>2, <1>3, <1>4, <1>5, <1>6, <1>7, <1>8, <1>9, <1>22 DEF MainThread
<1> QED
  BY <1>16, <1>17, <1>19, <1>20, <1>21, <1>22 DEF Next

(***************************************************************************)
(* The driver is type-correct; in particular, the value a stage returned   *)
(* is None exactly if one of the flags is set.                             *)
(***************************************************************************)
THEOREM TypeCorrect == Spec => [](TypeOK /\ Control)
BY TypingInit, TypingStep, PTL DEF Spec

-----------------------------------------------------------------------------
(***************************************************************************)
(* Whoever signals a child or waits for it may collect it, if it has       *)
(* ended, and does nothing else to any child.                              *)
(***************************************************************************)
Collects ==
    /\ \A j \in Stage : \/ child'[j] = child[j]
                        \/ child[j] = "zombie" /\ child'[j] = "gone"
    /\ \A j \in Stage : known'[j] => child'[j] = "gone"
    /\ ending' = ending

LEMMA SignalCollects ==
    ASSUME TypeOK, Pipeline, NEW j, NEW s, SendSignal(j, s)
    PROVE  Collects
BY DEF SendSignal, TypeOK, Pipeline, Collects

LEMMA WaitCollects ==
    ASSUME TypeOK, Pipeline, NEW j, WaitFor(j)
    PROVE  Collects
BY DEF WaitFor, TypeOK, Pipeline, Collects

LEMMA NothingCollects ==
    ASSUME Pipeline, UNCHANGED procVars
    PROVE  Collects
BY DEF Pipeline, procVars, Collects

(***************************************************************************)
(* Collecting children disturbs none of it: a child that is not started    *)
(* cannot be collected, and one that is stays so.                          *)
(***************************************************************************)
LEMMA CollectingKeepsPipeline ==
    ASSUME TypeOK, Pipeline, Collects,
           UNCHANGED <<k, result>>, pc' \in {pc, "finally", "exiting", "exited"},
           tracked' \in {0, tracked}
    PROVE  Pipeline'
BY StageType DEF Collects, Pipeline, Succeeded, TypeOK

LEMMA TimerSteps ==
    ASSUME TypeOK, Pipeline, NEW j \in Stage, TimerThread(j)
    PROVE  /\ Collects
           /\ tracked' \in {0, tracked}
           /\ UNCHANGED <<mainVars, handlerVars>>
<1>1. UNCHANGED procVars \/ SendSignal(j, 15) \/ SendSignal(j, 9) \/ WaitFor(j)
  BY DEF TimerThread, Expire, TimerTerminates, TimerKills, TimerWaits, TimerClears
<1>2. tracked' \in {0, tracked} /\ UNCHANGED <<mainVars, handlerVars>>
  BY DEF TimerThread, Expire, TimerTerminates, TimerKills, TimerWaits, TimerClears,
         Timer
<1> QED
  BY <1>1, <1>2, SignalCollects, WaitCollects, NothingCollects

LEMMA HandlerSteps ==
    ASSUME TypeOK, Pipeline, Handler \/ Sigterm
    PROVE  /\ Collects
           /\ tracked' \in {0, tracked}
           /\ UNCHANGED <<k, result, limited>>
           /\ pc' \in {pc, "finally", "exiting"}
<1> USE DEF mainVars
<1>1. CASE HandlerSignals("term", 15, "kill") \/ HandlerSignals("kill", 9, "object")
  BY <1>1, SignalCollects DEF HandlerSignals
<1>2. CASE HandlerWaits
  BY <1>2, WaitCollects DEF HandlerWaits
<1>3. CASE Check \/ HandlerGetsObject \/ HandlerClears \/ HandlerRaises \/ Sigterm
  <2>1. UNCHANGED procVars
    BY <1>3 DEF Check, HandlerGetsObject, HandlerClears, HandlerRaises, Sigterm
  <2> QED
    BY <1>3, <2>1, NothingCollects
       DEF Check, HandlerGetsObject, HandlerClears, HandlerRaises, Sigterm
<1> QED
  BY <1>1, <1>2, <1>3 DEF Handler

LEMMA PipelineInit == Init => Pipeline
BY StageType DEF Init, Pipeline, Stage

LEMMA PipelineStep ==
    ASSUME TypeOK, Pipeline, [Next]_vars
    PROVE  Pipeline'
<1> USE StageType DEF procVars, mainVars, TypeOK
<1>1. CASE Popen
  BY <1>1 DEF Popen, Main, Pipeline
<1>2. CASE Track \/ StartTimer \/ PopenFails
  BY <1>2 DEF Track, StartTimer, PopenFails, Main, Pipeline
<1>3. CASE Wait4
  <2>1. Succeeded' => ending[k] = Ok
    BY <1>3, ClassifyType DEF Wait4, Succeeded
  <2> QED
    BY <1>3, <2>1 DEF Wait4, Main, Pipeline
<1>4. CASE Wait4Fails
  <2>1. ~Succeeded'
    BY <1>4 DEF Wait4Fails, Succeeded
  <2> QED
    BY <1>4, <2>1 DEF Wait4Fails, Main, Pipeline
<1>5. CASE Untrack
  BY <1>5 DEF Untrack, Main, Pipeline, Succeeded
<1>6. CASE Report
  <2>1. CASE k' = k /\ pc' = "finally"
    BY <1>6, <2>1 DEF Report, Pipeline
  <2>2. CASE ExitCode(Stages[k], result) = "none" /\ k' = k + 1 /\ pc' = "popen"
    <3>1. Succeeded
      BY <2>2, GoesOnAfterSuccess
    <3>2. pc = "report" /\ UNCHANGED <<procVars, tracked>>
      BY <1>6 DEF Report, Main
    <3>3. k' \in Stage
      BY <1>6, <2>2, Constants DEF Report, Stage
    <3> QED
      BY <2>2, <3>1, <3>2, <3>3 DEF Pipeline
  <2> QED
    BY <1>6, <2>1, <2>2 DEF Report
<1>7. CASE Finally \/ Exit
  BY <1>7 DEF Finally, Exit, Main, Pipeline
<1>8. CASE Handler \/ Sigterm
  BY <1>8, HandlerSteps, CollectingKeepsPipeline
<1>9. ASSUME NEW j \in Stage, TimerThread(j)
      PROVE  Pipeline'
  BY <1>9, TimerSteps, CollectingKeepsPipeline
<1>10. ASSUME NEW j \in Stage, ChildEnds(j) \/ ChildIsKilled(j)
       PROVE  Pipeline'
  <2>1. PICK how : child[j] = "running" /\ End(j, how)
    BY <1>10 DEF ChildEnds, ChildIsKilled
  <2> QED
    BY <2>1 DEF End, Pipeline, Succeeded
<1>11. CASE UNCHANGED vars
  BY <1>11 DEF vars, Pipeline, Succeeded
<1> QED
  BY <1>1, <1>2, <1>3, <1>4, <1>5, <1>6, <1>7, <1>8, <1>9, <1>10, <1>11
     DEF Next, MainThread

LEMMA ActivatedGoingOn ==
    ASSUME TypeOK, Activated, handler # <<>>, k' = k,
           \A i \in DOMAIN handler : handler[i].step = "clear" => child'[k] = "gone",
           NEW next \in Steps, NEW j \in {0} \cup Stage, GoTo(next, j),
           next \in {"wait", "clear"} => j = k,
           next = "clear" => child'[k] = "gone"
    PROVE  Activated'
<1> SUFFICES ASSUME NEW i \in DOMAIN handler'
             PROVE  /\ handler'[i].step \in {"wait", "clear"} => handler'[i].target = k
                    /\ handler'[i].step = "clear" => child'[k] = "gone"
  BY DEF Activated
<1>1. i \in DOMAIN handler
  BY GoingOn
<1>2. CASE i = Len(handler)
  <2>1. handler'[i] = [step |-> next, target |-> j]
    BY <1>2, GoingOn
  <2> QED BY <2>1
<1>3. CASE handler'[i] = handler[i]
  BY <1>1, <1>3 DEF Activated
<1> QED BY <1>1, <1>2, <1>3, GoingOn

LEMMA ActivatedStep ==
    ASSUME TypeOK, Pipeline, Activated, [Next]_vars
    PROVE  Activated'
<1> USE StageType DEF procVars, mainVars, TypeOK
<1>1. CASE MainThread
  <2>1. handler = <<>> /\ handler' \in {<<>>, <<Activation>>}
    BY <1>1 DEF MainThread, Popen, PopenFails, Track, StartTimer, Wait4, Wait4Fails, Untrack,
                Report, Finally, Exit, Main, handlerVars
  <2> QED
    BY <2>1 DEF Activated, Activation
<1>2. CASE Handler \/ Sigterm
  <2>1. Collects /\ k' = k
    BY <1>2, HandlerSteps
  <2>2. \A i \in DOMAIN handler : handler[i].step = "clear" => child'[k] = "gone"
    BY <2>1 DEF Activated, Collects
  <2>3. CASE Check \/ HandlerClears
    <3>1. handler # <<>> /\ (Return \/ GoTo("term", 0))
      BY <2>3 DEF Check, HandlerClears, At
    <3>2. CASE Return
      BY <2>1, <2>2, <3>1, <3>2, Suspending, Returning DEF Activated
    <3>3. CASE GoTo("term", 0)
      BY <2>1, <2>2, <3>1, <3>3, ActivatedGoingOn DEF Steps
    <3> QED
      BY <3>1, <3>2, <3>3
  <2>4. ASSUME NEW step, NEW s, NEW next \in {"kill", "object"}, HandlerSignals(step, s, next)
        PROVE  Activated'
    BY <2>1, <2>2, <2>4, ActivatedGoingOn DEF HandlerSignals, At, Steps
  <2>5. CASE HandlerGetsObject
    <3>1. handler # <<>> /\ GoTo("wait", k)
      BY <2>5 DEF HandlerGetsObject, At, Pipeline
    <3> QED
      BY <2>1, <2>2, <3>1, ActivatedGoingOn DEF Steps
  <2>6. CASE HandlerWaits
    <3>1. handler # <<>> /\ Top.step = "wait" /\ GoTo("clear", Top.target)
      BY <2>6 DEF HandlerWaits, At
    <3>2. Top.target = k
      BY <3>1, Suspending DEF Activated, Top
    <3>3. child'[k] = "gone"
      BY <2>6, <3>2 DEF HandlerWaits, WaitFor
    <3> QED
      BY <2>1, <2>2, <3>1, <3>2, <3>3, ActivatedGoingOn DEF Steps
  <2>7. CASE HandlerRaises
    BY <2>7 DEF HandlerRaises, Activated
  <2>8. CASE Sigterm
    <3>1. Activation.step = "check"
      BY DEF Activation
    <3>2. \A i \in DOMAIN handler' :
              \/ handler'[i].step = "check"
              \/ i \in DOMAIN handler /\ handler'[i] = handler[i]
      BY <2>8, <3>1, Interrupting
    <3> QED
      BY <2>1, <2>2, <3>2 DEF Activated
  <2> QED
    BY <1>2, <2>3, <2>4, <2>5, <2>6, <2>7, <2>8 DEF Handler
<1>3. ASSUME NEW j \in Stage, TimerThread(j)
      PROVE  Activated'
  BY <1>3, TimerSteps DEF Collects, Activated, handlerVars
<1>4. ASSUME NEW j \in Stage, ChildEnds(j) \/ ChildIsKilled(j)
      PROVE  Activated'
  <2>1. PICK how : child[j] = "running" /\ End(j, how)
    BY <1>4 DEF ChildEnds, ChildIsKilled
  <2> QED
    BY <2>1 DEF End, Activated, handlerVars
<1>5. CASE UNCHANGED vars
  BY <1>5 DEF vars, Activated, handlerVars
<1> QED
  BY <1>1, <1>2, <1>3, <1>4, <1>5 DEF Next

Inv == TypeOK /\ Control /\ Pipeline /\ Activated

LEMMA Invariant == Spec => []Inv
<1>1. Init => Inv
  BY TypingInit, PipelineInit DEF Inv, Init, Activated
<1>2. Inv /\ [Next]_vars => Inv'
  BY TypingStep, PipelineStep, ActivatedStep DEF Inv
<1> QED
  BY <1>1, <1>2, PTL DEF Spec

(***************************************************************************)
(* No stage is started unless every stage before it returned 0, however    *)
(* many stages there are, whichever have time limits, and whenever timers  *)
(* expire and signals arrive.                                              *)
(***************************************************************************)
THEOREM NoStageAfterFailure == Spec => []StartsAfterSuccess
<1>1. Inv => StartsAfterSuccess
  <2> SUFFICES ASSUME Inv, NEW j \in Stage, child[j] # "none",
                      NEW i \in 1..(j - 1)
               PROVE  child[i] = "gone" /\ ending[i] = Ok
    BY DEF StartsAfterSuccess
  <2>1. j <= k
    BY StageType DEF Inv, Pipeline, TypeOK
  <2>2. i \in Stage /\ i < k
    BY <2>1, Constants DEF Inv, TypeOK, Stage
  <2> QED
    BY <2>2 DEF Inv, Pipeline
<1> QED
  BY <1>1, Invariant, PTL

-----------------------------------------------------------------------------
LEMMA UnlimitedInit == Init => Unlimited
BY DEF Init, Unlimited

LEMMA UnlimitedStep ==
    ASSUME Inv, Unlimited, [Next]_vars
    PROVE  Unlimited'
<1> SUFFICES ASSUME limited' = {}
             PROVE  /\ \A j \in Stage : timer'[j] = "off"
                    /\ \A i \in DOMAIN handler' :
                           handler'[i].step \in {"term", "kill", "object"} =>
                               tracked' # 0 \/ child'[k'] = "gone"
                    /\ pc' \in {"untrack", "report"} => child'[k'] = "gone"
                    /\ pc' \in {"finally", "exiting", "exited"} =>
                           child'[k'] \in {"none", "gone"}
  BY DEF Unlimited
<1>0. limited = {}
  BY DEF Next, MainThread, Popen, PopenFails, Track, StartTimer, Wait4, Wait4Fails,
         Untrack, Report, Finally, Exit, Handler, Check, HandlerSignals, HandlerGetsObject,
         HandlerWaits, HandlerClears, HandlerRaises, Sigterm, TimerThread, Expire,
         TimerTerminates, TimerKills, TimerWaits, TimerClears, Timer, ChildEnds,
         ChildIsKilled, End, mainVars, vars
<1> USE <1>0, StageType DEF procVars, mainVars, handlerVars, Inv, TypeOK
<1>1. CASE Popen \/ PopenFails \/ Track \/ StartTimer
  BY <1>1 DEF Popen, PopenFails, Track, StartTimer, Main, Unlimited, Pipeline
<1>2. CASE Wait4 \/ Wait4Fails
  BY <1>2 DEF Wait4, Wait4Fails, Main, Unlimited
<1>3. CASE Untrack
  BY <1>3 DEF Untrack, Main, Unlimited
<1>4. CASE Report
  <2>1. child[k] = "gone"
    BY <1>4 DEF Report, Main, Unlimited
  <2>2. \A j \in Stage : timer'[j] = "off"
    BY <1>4 DEF Report, Main, Unlimited, Control
  <2> QED
    BY <1>4, <2>1, <2>2 DEF Report, Main, Unlimited
<1>5. CASE Finally \/ Exit
  BY <1>5 DEF Finally, Exit, Main, Unlimited, Activation
<1>6. CASE Handler \/ Sigterm
  <2>1. Collects /\ k' = k
    BY <1>6, HandlerSteps
  <2>2. /\ child[k] = "gone" => child'[k] = "gone"
        /\ child[k] = "none" => child'[k] = "none"
    BY <2>1 DEF Collects
  <2>3. \A j \in Stage : timer'[j] = "off"
    BY <1>6 DEF Handler, Check, HandlerSignals, HandlerGetsObject, HandlerWaits,
                HandlerClears, HandlerRaises, Sigterm, Unlimited
  <2>4. CASE HandlerRaises
    <3>1. handler # <<>> /\ Top.step \in {"term", "kill", "object"} /\ tracked = 0
      BY <2>4 DEF HandlerRaises, At
    <3>2. child[k] = "gone"
      BY <3>1, Suspending DEF Top, Unlimited
    <3> QED
      BY <2>1, <2>2, <2>3, <2>4, <3>2 DEF HandlerRaises
  <2>5. CASE HandlerClears
    <3>1. handler # <<>> /\ Top.step = "clear" /\ Return /\ pc' = pc
      BY <2>5 DEF HandlerClears, At
    <3>2. child[k] = "gone"
      BY <3>1, Suspending DEF Top, Activated
    <3> QED
      BY <2>1, <2>2, <2>3, <3>1, <3>2, Returning DEF Unlimited
  <2>6. CASE Check
    <3>1. handler # <<>> /\ pc' = pc /\ tracked' = tracked
      BY <2>6 DEF Check, At
    <3>2. CASE tracked = 0
      BY <2>1, <2>2, <2>3, <2>6, <3>1, <3>2, Suspending, Returning DEF Check, Unlimited
    <3>3. CASE tracked # 0
      BY <2>1, <2>2, <2>3, <3>1, <3>3 DEF Unlimited
    <3> QED
      BY <3>2, <3>3
  <2>7. CASE HandlerSignals("term", 15, "kill") \/ HandlerSignals("kill", 9, "object")
             \/ HandlerGetsObject
    <3>1. tracked' = tracked /\ tracked # 0 /\ pc' = pc
      BY <2>7 DEF HandlerSignals, HandlerGetsObject
    <3> QED
      BY <2>1, <2>2, <2>3, <3>1 DEF Unlimited
  <2>8. CASE HandlerWaits
    <3>1. /\ handler # <<>> /\ Top.step = "wait" /\ GoTo("clear", Top.target)
          /\ pc' = pc /\ tracked' = tracked
      BY <2>8 DEF HandlerWaits, At
    <3>2. Top.target = k
      BY <3>1, Suspending DEF Activated, Top
    <3>3. child'[k] = "gone"
      BY <2>8, <3>2 DEF HandlerWaits, WaitFor
    <3> QED
      BY <2>1, <2>2, <2>3, <3>1, <3>3 DEF Unlimited
  <2>9. CASE Sigterm
    <3>1. pc' = pc /\ tracked' = tracked
      BY <2>9 DEF Sigterm
    <3>2. Activation.step = "check"
      BY DEF Activation
    <3>3. \A i \in DOMAIN handler' :
              \/ handler'[i].step = "check"
              \/ i \in DOMAIN handler /\ handler'[i] = handler[i]
      BY <2>9, <3>2, Interrupting
    <3> QED
      BY <2>1, <2>2, <2>3, <3>1, <3>3 DEF Unlimited
  <2> QED
    BY <1>6, <2>4, <2>5, <2>6, <2>7, <2>8, <2>9 DEF Handler, Unlimited
<1>7. ASSUME NEW j \in Stage, TimerThread(j)
      PROVE  FALSE
  BY <1>7 DEF TimerThread, Expire, TimerTerminates, TimerKills, TimerWaits,
              TimerClears, Timer, Unlimited
<1>8. ASSUME NEW j \in Stage, ChildEnds(j) \/ ChildIsKilled(j)
      PROVE  Unlimited'
  <2>1. PICK how : child[j] = "running" /\ End(j, how)
    BY <1>8 DEF ChildEnds, ChildIsKilled
  <2> QED
    BY <2>1 DEF End, Unlimited
<1>9. CASE UNCHANGED vars
  BY <1>9 DEF vars, Unlimited
<1> QED
  BY <1>1, <1>2, <1>3, <1>4, <1>5, <1>6, <1>7, <1>8, <1>9
     DEF Next, MainThread, Unlimited

(***************************************************************************)
(* Without time limits, every child is collected when the driver exits,    *)
(* also if signals arrived while it was starting or collecting one.        *)
(***************************************************************************)
THEOREM NoChildSurvives == Spec => []NoOrphans
<1>1. Init => Unlimited
  BY UnlimitedInit
<1>2. Inv /\ Unlimited /\ [Next]_vars => Unlimited'
  BY UnlimitedStep
<1>3. Inv /\ Unlimited => NoOrphans
  <2> SUFFICES ASSUME Inv, Unlimited, pc = "exited", limited = {}, NEW j \in Stage
               PROVE  child[j] # "running"
    BY DEF NoOrphans
  <2>1. j < k \/ j = k \/ j > k
    BY StageType DEF Inv, TypeOK
  <2> QED
    BY <2>1 DEF Inv, Pipeline, Unlimited
<1> QED
  BY <1>1, <1>2, <1>3, Invariant, PTL DEF Spec

-----------------------------------------------------------------------------
LEMMA AimedInit == Init => AimedAreDoomed
BY DEF Init, AimedAreDoomed

LEMMA AimedStep ==
    ASSUME Inv, AimedAreDoomed, [Next]_vars
    PROVE  AimedAreDoomed'
<1> USE StageType DEF procVars, mainVars, handlerVars, Inv, TypeOK
<1>1. CASE Popen \/ PopenFails \/ Track \/ StartTimer
  BY <1>1 DEF Popen, PopenFails, Track, StartTimer, Main, AimedAreDoomed, Doomed
<1>2. CASE Wait4 \/ Wait4Fails
  <2>1. aimed # {} => child[k] = "gone"
    BY <1>2 DEF Wait4, Wait4Fails, Main, AimedAreDoomed, Doomed
  <2>2. CASE Wait4
    BY <2>1, <2>2 DEF Wait4, AimedAreDoomed
  <2>3. CASE Wait4Fails
    BY <2>3 DEF Wait4Fails, AimedAreDoomed, Doomed
  <2> QED
    BY <1>2, <2>2, <2>3
<1>3. CASE Untrack
  BY <1>3 DEF Untrack, Main, AimedAreDoomed, Doomed
<1>4. CASE Report
  <2>1. pc = "report" /\ aimed' = aimed
    BY <1>4 DEF Report, Main
  <2>2. CASE aimed = {}
    BY <2>1, <2>2 DEF AimedAreDoomed
  <2>3. CASE aimed # {}
    <3>1. result.flag = "timeout"
      BY <2>1, <2>3 DEF AimedAreDoomed, Doomed
    <3>2. ExitCode(Stages[k], result) # "none"
      BY <3>1 DEF ExitCode
    <3>3. k' = k /\ pc' = "finally"
      BY <1>4, <3>2 DEF Report
    <3> QED
      BY <2>1, <3>3 DEF AimedAreDoomed, Doomed
  <2> QED
    BY <2>2, <2>3
<1>5. CASE Finally \/ Exit
  BY <1>5 DEF Finally, Exit, Main, AimedAreDoomed, Doomed
<1>6. CASE Handler \/ Sigterm
  <2>1. Collects /\ k' = k /\ result' = result /\ pc' \in {pc, "finally", "exiting"}
    BY <1>6, HandlerSteps
  <2>2. child[k] = "gone" => child'[k] = "gone"
    BY <2>1 DEF Collects
  <2>3. CASE Check
    <3>1. handler # <<>> /\ Top.step = "check" /\ pc' = pc
      BY <2>3 DEF Check, At
    <3>2. CASE tracked = 0
      <4>1. aimed' = aimed
        BY <2>3, <3>2 DEF Check, Aim
      <4>2. Return
        BY <2>3, <3>2 DEF Check
      <4>3. \A i \in DOMAIN handler : handler[i].step # "check" =>
                i \in DOMAIN handler' /\ handler'[i] = handler[i]
        BY <3>1, <4>2, Suspending, Returning DEF Top
      <4> QED
        BY <2>1, <2>2, <3>1, <4>1, <4>3 DEF AimedAreDoomed, Doomed
    <3>3. CASE tracked # 0
      <4>1. GoTo("term", 0)
        BY <2>3, <3>3 DEF Check
      <4>2. \E i \in DOMAIN handler' : handler'[i].step = "term"
        BY <3>1, <4>1, GoneOn DEF Steps
      <4>3. aimed' \subseteq {k} /\ (aimed' # {} => aimed # {} \/ pc = "wait")
        BY <2>3 DEF Check, Aim, AimedAreDoomed
      <4> QED
        BY <2>1, <2>2, <3>1, <4>2, <4>3 DEF AimedAreDoomed, Doomed
    <3> QED
      BY <3>2, <3>3
  <2>4. ASSUME NEW step, NEW s, NEW next \in {"kill", "object"}, HandlerSignals(step, s, next)
        PROVE  AimedAreDoomed'
    <3>1. handler # <<>> /\ GoTo(next, 0) /\ pc' = pc /\ aimed' = aimed
      BY <2>4 DEF HandlerSignals, At
    <3>2. \E i \in DOMAIN handler' : handler'[i].step = next
      BY <3>1, GoneOn DEF Steps
    <3> QED
      BY <2>1, <2>2, <3>1, <3>2 DEF AimedAreDoomed, Doomed
  <2>5. CASE HandlerGetsObject
    <3>1. handler # <<>> /\ GoTo("wait", tracked) /\ pc' = pc /\ aimed' = aimed
      BY <2>5 DEF HandlerGetsObject, At
    <3>2. \E i \in DOMAIN handler' : handler'[i].step = "wait"
      BY <3>1, GoneOn DEF Steps
    <3> QED
      BY <2>1, <2>2, <3>1, <3>2 DEF AimedAreDoomed, Doomed
  <2>6. CASE HandlerWaits
    <3>1. handler # <<>> /\ Top.step = "wait" /\ pc' = pc /\ aimed' = aimed
      BY <2>6 DEF HandlerWaits, At
    <3>2. Top.target = k
      BY <3>1, Suspending DEF Activated, Top
    <3>3. child'[k] = "gone"
      BY <2>6, <3>2 DEF HandlerWaits, WaitFor
    <3> QED
      BY <2>1, <3>1, <3>3 DEF AimedAreDoomed, Doomed
  <2>7. CASE HandlerClears
    <3>1. handler # <<>> /\ Top.step = "clear" /\ pc' = pc /\ aimed' = aimed
      BY <2>7 DEF HandlerClears, At
    <3>2. child[k] = "gone"
      BY <3>1, Suspending DEF Top, Activated
    <3> QED
      BY <2>1, <2>2, <3>1, <3>2 DEF AimedAreDoomed, Doomed
  <2>8. CASE HandlerRaises
    BY <2>1, <2>8 DEF HandlerRaises, AimedAreDoomed, Doomed
  <2>9. CASE Sigterm
    <3>1. pc' = pc /\ aimed' = aimed
      BY <2>9 DEF Sigterm
    <3>2. \A i \in DOMAIN handler : i \in DOMAIN handler' /\ handler'[i] = handler[i]
      BY <2>9, Interrupting
    <3> QED
      BY <2>1, <2>2, <3>1, <3>2 DEF AimedAreDoomed, Doomed
  <2> QED
    BY <1>6, <2>3, <2>4, <2>5, <2>6, <2>7, <2>8, <2>9 DEF Handler
<1>7. ASSUME NEW j \in Stage, TimerThread(j)
       PROVE  AimedAreDoomed'
  BY <1>7, TimerSteps DEF Collects, AimedAreDoomed, Doomed
<1>8. ASSUME NEW j \in Stage, ChildEnds(j) \/ ChildIsKilled(j)
       PROVE  AimedAreDoomed'
  <2>1. PICK how : child[j] = "running" /\ End(j, how)
    BY <1>8 DEF ChildEnds, ChildIsKilled
  <2> QED
    BY <2>1 DEF End, AimedAreDoomed, Doomed
<1>9. CASE UNCHANGED vars
  BY <1>9 DEF vars, AimedAreDoomed, Doomed
<1> QED
  BY <1>1, <1>2, <1>3, <1>4, <1>5, <1>6, <1>7, <1>8, <1>9 DEF Next, MainThread

(***************************************************************************)
(* A SIGTERM whose handler finds a process while the driver waits stops    *)
(* the pipeline, whatever the timer threads do to running_process          *)
(* meanwhile: the child is collected, so that wait4 fails and the stage    *)
(* is a timeout, or the handler fails and the driver exits.                *)
(***************************************************************************)
THEOREM SignalsStopThePipeline == Spec => []SigtermStopsPipeline
<1>1. Init => AimedAreDoomed
  BY AimedInit
<1>2. Inv /\ AimedAreDoomed /\ [Next]_vars => AimedAreDoomed'
  BY AimedStep
<1>3. AimedAreDoomed => SigtermStopsPipeline
  BY DEF AimedAreDoomed, SigtermStopsPipeline
<1> QED
  BY <1>1, <1>2, <1>3, Invariant, PTL DEF Spec
=============================================================================

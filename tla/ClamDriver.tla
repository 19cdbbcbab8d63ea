----------------------------- MODULE ClamDriver -----------------------------
(***************************************************************************)
(* py/clam.py: the driver that runs clang, clam-pp, opt and clam one after *)
(* the other, each as a child process with an optional time limit. Three   *)
(* kinds of actors share the global running_process and the child: the     *)
(* main thread, one timer thread for each limited stage, and the SIGTERM   *)
(* handler, which suspends the main thread.                                *)
(*                                                                         *)
(* Popen and the kernel are external: subprocess.Popen.terminate and kill  *)
(* first poll the child, which collects the status of one that has ended.  *)
(***************************************************************************)
EXTENDS Integers, Sequences

CONSTANTS
    Stages,         \* the stages to run, out of AllStages, in that order
    Limits,         \* which stages may have a time limit: with --cpu, without
    MaxSignals      \* how many SIGTERMs the driver receives at most

AllStages == <<"clang", "pp", "opt", "clam">>
Stage == 1..Len(Stages)

ASSUME DriverAssumption ==
    /\ Stages \in Seq({AllStages[j] : j \in 1..4})
    /\ Len(Stages) > 0
    /\ Limits # {} /\ \A l \in Limits : l \subseteq {Stages[j] : j \in Stage}
    /\ MaxSignals \in Nat

VARIABLES
    limited,    \* the stages run with a time limit (cpu > 0)
    k,          \* the current stage
    pc,         \* the main thread
    child,      \* every stage's process: "none", "running", "zombie", "gone"
    ending,     \* how it ended, for wait4
    sent,       \* the strongest signal sent to it: 0, 15 or 9
    known,      \* Popen.returncode is set
    tracked,    \* running_process: a stage, or 0 for None
    timer,      \* the timer thread of every stage
    result,     \* what run_command_with_limits found: [rv, flag]
    code,       \* the exit code of the driver, or "none"
    handler,    \* the activations of killall, the running one last: their
                \* next step, and the process they are waiting for
    signals,    \* SIGTERMs received
    aimed       \* stages waited for when killall found a process

procVars == <<child, ending, sent, known>>
mainVars == <<limited, k, pc, result, code>>
handlerVars == <<handler, signals, aimed>>
vars == <<procVars, mainVars, handlerVars, tracked, timer>>

NoResult == [rv |-> 0, flag |-> "none"]
NoneValue == -1

\* The outcomes of a process, as wait4 reports them. A signal with a core
\* dump has bit 7 of the status set.
Ok == [sig |-> 0, core |-> FALSE, rv |-> 0]
Fail == [sig |-> 0, core |-> FALSE, rv |-> 1]
Aborted(core) == [sig |-> 6, core |-> core, rv |-> 0]
KilledBy(s) == [sig |-> s, core |-> FALSE, rv |-> 0]
Outcome == {Ok, Fail, Aborted(TRUE), Aborted(FALSE), KilledBy(9), KilledBy(15)}

-----------------------------------------------------------------------------
Init ==
    /\ limited \in Limits
    /\ k = 1
    /\ pc = "popen"
    /\ child = [j \in Stage |-> "none"]
    /\ ending = [j \in Stage |-> Ok]
    /\ sent = [j \in Stage |-> 0]
    /\ known = [j \in Stage |-> FALSE]
    /\ tracked = 0
    /\ timer = [j \in Stage |-> "off"]
    /\ result = NoResult
    /\ code = "none"
    /\ handler = <<>>
    /\ signals = 0
    /\ aimed = {}

-----------------------------------------------------------------------------
(* The child processes *)

End(j, how) ==
    /\ child' = [child EXCEPT ![j] = "zombie"]
    /\ ending' = [ending EXCEPT ![j] = how]
    /\ UNCHANGED <<sent, known, mainVars, handlerVars, tracked, timer>>

ChildEnds(j) ==
    /\ child[j] = "running"
    /\ \E how \in {Ok, Fail, Aborted(TRUE), Aborted(FALSE)} : End(j, how)

\* SIGKILL cannot be ignored; a process may take its time over SIGTERM.
ChildIsKilled(j) ==
    /\ child[j] = "running"
    /\ sent[j] # 0
    /\ End(j, KilledBy(sent[j]))

\* Popen.poll, then os.kill if the process is not known to be over.
SendSignal(j, s) ==
    /\ child' = [child EXCEPT ![j] = IF @ = "zombie" /\ ~known[j]
                                     THEN "gone" ELSE @]
    /\ known' = [known EXCEPT ![j] = @ \/ child[j] \in {"zombie", "gone"}]
    /\ sent' = [sent EXCEPT ![j] = IF child[j] = "running" THEN s ELSE @]
    /\ UNCHANGED ending

\* Popen.wait: it returns when the process is over, whoever collects it.
WaitFor(j) ==
    /\ known[j] \/ child[j] \in {"zombie", "gone"}
    /\ child' = [child EXCEPT ![j] = "gone"]
    /\ known' = [known EXCEPT ![j] = TRUE]
    /\ UNCHANGED <<ending, sent>>

-----------------------------------------------------------------------------
(* The main thread: run_command_with_limits and the calls of main. It does *)
(* not run while the handler does.                                         *)

Main(from) == pc = from /\ handler = <<>>

Popen ==
    /\ Main("popen")
    /\ child' = [child EXCEPT ![k] = "running"]
    /\ pc' = "track"
    /\ UNCHANGED <<ending, sent, known, limited, k, result, code, handlerVars, tracked,
                   timer>>

\* An OSError: the exception leaves main, for the finally clause of the script.
PopenFails ==
    /\ Main("popen")
    /\ code' = "1"
    /\ pc' = "finally"
    /\ UNCHANGED <<procVars, limited, k, result, handlerVars, tracked, timer>>

Track ==
    /\ Main("track")
    /\ tracked' = k
    /\ pc' = "start"
    /\ UNCHANGED <<procVars, limited, k, result, code, handlerVars, timer>>

StartTimer ==
    /\ Main("start")
    /\ timer' = IF Stages[k] \in limited
                THEN [timer EXCEPT ![k] = "armed"] ELSE timer
    /\ pc' = "wait"
    /\ UNCHANGED <<procVars, limited, k, result, code, handlerVars, tracked>>

\* Mutant of Classify: an abnormal end keeps the return value 0.
ClassifyKeepsValue(o) ==
    IF o.sig = 0 THEN [rv |-> o.rv, flag |-> "none"]
    ELSE [rv |-> 0,
          flag |-> IF o.sig \in {9, 14, 15} THEN "timeout" ELSE "none"]

\* The status of the child, sorted into the flags of the returned tuple.
Classify(o) ==
    IF o.sig = 0 THEN [rv |-> o.rv, flag |-> "none"]
    ELSE [rv |-> NoneValue,
          flag |-> IF o.core THEN "segfault"
                   ELSE IF o.sig \in {9, 14, 15} THEN "timeout" ELSE "unknown"]

Wait4 ==
    /\ Main("wait")
    /\ child[k] = "zombie"
    /\ child' = [child EXCEPT ![k] = "gone"]
    /\ result' = Classify(ending[k])
    /\ pc' = "untrack"
    /\ UNCHANGED <<ending, sent, known, limited, k, code, handlerVars, tracked, timer>>

\* Mutant of Wait4Fails: a child collected by somebody else is fine.
Wait4FailsQuietly ==
    /\ Main("wait")
    /\ child[k] = "gone"
    /\ result' = NoResult
    /\ pc' = "report"
    /\ UNCHANGED <<procVars, limited, k, code, handlerVars, tracked, timer>>

\* ECHILD: somebody else has collected the child. running_process is kept.
Wait4Fails ==
    /\ Main("wait")
    /\ child[k] = "gone"
    /\ result' = [rv |-> NoneValue, flag |-> "timeout"]
    /\ pc' = "report"
    /\ UNCHANGED <<procVars, limited, k, code, handlerVars, tracked, timer>>

Untrack ==
    /\ Main("untrack")
    /\ tracked' = 0
    /\ pc' = "report"
    /\ UNCHANGED <<procVars, limited, k, result, code, handlerVars, timer>>

\* How clang, crabpp, optLlvm and clam turn the result into an exit code,
\* "none" to go on. Only clam tells a segmentation fault from an error.
ErrorCode ==
    [clang |-> "CLANG_ERROR", pp |-> "PP_ERROR", opt |-> "OPT_ERROR",
     clam |-> "CRAB_ERROR"]

ExitCode(stage, r) ==
    IF r.flag = "timeout"
    THEN IF stage = "clam" THEN "CRAB_TIMEOUT" ELSE "FRONTEND_TIMEOUT"
    ELSE IF r.flag = "segfault" /\ stage = "clam" THEN "CRAB_SEGFAULT"
    ELSE IF r.flag = "none" /\ r.rv = 0 THEN "none"
    ELSE ErrorCode[stage]

\* The timer is cancelled if it has not expired; then the next stage.
Report ==
    /\ Main("report")
    /\ timer' = [timer EXCEPT ![k] = IF @ = "armed" THEN "off" ELSE @]
    /\ LET c == ExitCode(Stages[k], result) IN
       IF c = "none" /\ k < Len(Stages)
       THEN k' = k + 1 /\ pc' = "popen" /\ code' = code
       ELSE /\ k' = k
            /\ pc' = "finally"
            /\ code' = IF c = "none" THEN "OK" ELSE c
    /\ UNCHANGED <<procVars, limited, result, handlerVars, tracked>>

Activation == [step |-> "check", target |-> 0]
Activations == [step : {"check", "term", "kill", "object", "wait", "clear"},
                target : {0} \cup Stage]

\* The finally clause of the script calls killall too.
Finally ==
    /\ Main("finally")
    /\ handler' = <<Activation>>
    /\ pc' = "exiting"
    /\ UNCHANGED <<procVars, limited, k, result, code, signals, aimed, tracked, timer>>

Exit ==
    /\ Main("exiting")
    /\ pc' = "exited"
    /\ UNCHANGED <<procVars, limited, k, result, code, handlerVars, tracked, timer>>

-----------------------------------------------------------------------------
(* killall, run by the handler of SIGTERM and by the finally clause. It    *)
(* reads running_process again at every step.                              *)

\* A signal interrupts killall as well.
Sigterm ==
    /\ signals < MaxSignals
    /\ pc # "exited"
    /\ signals' = signals + 1
    /\ handler' = Append(handler, Activation)
    /\ UNCHANGED <<procVars, mainVars, aimed, tracked, timer>>

Top == handler[Len(handler)]
At(step) == handler # <<>> /\ Top.step = step
Suspended == SubSeq(handler, 1, Len(handler) - 1)
GoTo(next, j) == handler' = Append(Suspended, [step |-> next, target |-> j])
Return == handler' = Suspended

\* The history: killall has found a process while the driver waits for one.
Aim == aimed' = IF pc = "wait" /\ tracked # 0 THEN aimed \cup {k} ELSE aimed

\* Mutant of Check: running_process is not compared with None.
CheckMissing ==
    /\ At("check")
    /\ GoTo("term", 0)
    /\ Aim
    /\ UNCHANGED <<procVars, mainVars, signals, tracked, timer>>

Check ==
    /\ At("check")
    /\ IF tracked = 0 THEN Return ELSE GoTo("term", 0)
    /\ Aim
    /\ UNCHANGED <<procVars, mainVars, signals, tracked, timer>>

HandlerSignals(step, s, next) ==
    /\ At(step)
    /\ tracked # 0
    /\ SendSignal(tracked, s)
    /\ GoTo(next, 0)
    /\ UNCHANGED <<mainVars, signals, aimed, tracked, timer>>

HandlerGetsObject ==
    /\ At("object")
    /\ tracked # 0
    /\ GoTo("wait", tracked)
    /\ UNCHANGED <<procVars, mainVars, signals, aimed, tracked, timer>>

\* An activation that is interrupted while it waits holds the lock of Popen,
\* which takes a second signal. (The timer threads need that lock as well, which
\* is left out: they can collect more than in the code.)
HandlerWaits ==
    /\ At("wait")
    /\ known[Top.target] \/ \A i \in DOMAIN Suspended : Suspended[i].step # "wait"
    /\ WaitFor(Top.target)
    /\ GoTo("clear", Top.target)
    /\ UNCHANGED <<mainVars, signals, aimed, tracked, timer>>

HandlerClears ==
    /\ At("clear")
    /\ tracked' = 0
    /\ Return
    /\ UNCHANGED <<procVars, mainVars, signals, aimed, timer>>

\* running_process has become None since the check: AttributeError, which
\* only the finally clauses see. The timer of the stage is cancelled if the
\* main thread was interrupted inside the try statement.
HandlerRaises ==
    /\ \E step \in {"term", "kill", "object"} : At(step)
    /\ tracked = 0
    /\ code' = "1"
    /\ pc' = IF pc = "exiting" THEN pc ELSE "finally"
    /\ timer' = IF pc \in {"wait", "untrack", "report"} /\ timer[k] = "armed"
                THEN [timer EXCEPT ![k] = "off"] ELSE timer
    /\ handler' = <<>>
    /\ UNCHANGED <<procVars, limited, k, result, signals, aimed, tracked>>

Handler ==
    \/ Check
    \/ HandlerSignals("term", 15, "kill")
    \/ HandlerSignals("kill", 9, "object")
    \/ HandlerGetsObject
    \/ HandlerWaits
    \/ HandlerClears
    \/ HandlerRaises

-----------------------------------------------------------------------------
(* The timer thread of stage j: kill(proc) of run_command_with_limits.     *)

Timer(j, from, to) ==
    /\ timer[j] = from
    /\ timer' = [timer EXCEPT ![j] = to]
    /\ UNCHANGED <<mainVars, handlerVars>>

Expire(j) == Timer(j, "armed", "term") /\ UNCHANGED <<procVars, tracked>>
TimerTerminates(j) ==
    Timer(j, "term", "kill") /\ SendSignal(j, 15) /\ UNCHANGED tracked
\* Mutant of TimerKills: SIGTERM again.
TimerTerminatesAgain(j) ==
    Timer(j, "kill", "wait") /\ SendSignal(j, 15) /\ UNCHANGED tracked

TimerKills(j) ==
    Timer(j, "kill", "wait") /\ SendSignal(j, 9) /\ UNCHANGED tracked
TimerWaits(j) == Timer(j, "wait", "clear") /\ WaitFor(j) /\ UNCHANGED tracked
TimerClears(j) ==
    Timer(j, "clear", "over") /\ tracked' = 0 /\ UNCHANGED procVars

TimerThread(j) ==
    \/ Expire(j)
    \/ TimerTerminates(j)
    \/ TimerKills(j)
    \/ TimerWaits(j)
    \/ TimerClears(j)

-----------------------------------------------------------------------------
MainThread ==
    \/ Popen
    \/ PopenFails
    \/ Track
    \/ StartTimer
    \/ Wait4
    \/ Wait4Fails
    \/ Untrack
    \/ Report
    \/ Finally
    \/ Exit

Next ==
    \/ MainThread
    \/ Handler
    \/ Sigterm
    \/ \E j \in Stage : TimerThread(j) \/ ChildEnds(j) \/ ChildIsKilled(j)

(***************************************************************************)
(* The threads are scheduled, a timer expires, and a process that was sent *)
(* SIGKILL dies. Nothing else makes a process end: it may run for ever.    *)
(***************************************************************************)
Fairness ==
    /\ WF_vars(MainThread)
    /\ WF_vars(Handler)
    /\ \A j \in Stage :
           /\ WF_vars(TimerThread(j))
           /\ WF_vars(sent[j] = 9 /\ ChildIsKilled(j))

Spec == Init /\ [][Next]_vars /\ Fairness

-----------------------------------------------------------------------------
Flag == {"none", "timeout", "segfault", "unknown"}
SpecialCodes ==
    {"OK", "FRONTEND_TIMEOUT", "CLANG_ERROR", "OPT_ERROR", "PP_ERROR",
     "CRAB_ERROR", "CRAB_TIMEOUT", "CRAB_SEGFAULT"}

(***************************************************************************)
(* Type invariant. "If all flags are false then returnvalue cannot be      *)
(* None", and otherwise it is (the comment of run_command_with_limits).    *)
(***************************************************************************)
TypeOK ==
    /\ limited \in Limits
    /\ k \in Stage
    /\ child \in [Stage -> {"none", "running", "zombie", "gone"}]
    /\ ending \in [Stage -> Outcome]
    /\ sent \in [Stage -> {0, 9, 15}]
    /\ known \in [Stage -> BOOLEAN]
    /\ tracked \in {0} \cup Stage
    /\ result.flag \in Flag
    /\ result.rv \in {NoneValue, 0, 1}
    /\ result.flag = "none" <=> result.rv # NoneValue
    /\ code \in SpecialCodes \cup {"none", "1"}
    /\ handler \in Seq(Activations)
    /\ signals \in 0..MaxSignals
    /\ aimed \subseteq Stage

(***************************************************************************)
(* A stage is started only if every stage before it returned 0, whoever    *)
(* collected its status: no stage works on the output of a failed one.     *)
(***************************************************************************)
StartsAfterSuccess ==
    \A j \in Stage : child[j] # "none" =>
        \A i \in 1..(j - 1) : child[i] = "gone" /\ ending[i] = Ok

(***************************************************************************)
(* When a driver without time limits exits, no child is left running, even *)
(* if a SIGTERM has arrived. (With limits, the timer thread of a stage     *)
(* that is over can make killall give up on the next one.)                 *)
(***************************************************************************)
NoOrphans ==
    pc = "exited" /\ limited = {} => \A j \in Stage : child[j] # "running"

(***************************************************************************)
(* Once the handler of SIGTERM has found a process while the driver waits  *)
(* for a stage, no other stage is started. (It finds none if the timer     *)
(* thread of an earlier stage has cleared running_process meanwhile: then  *)
(* the signal is lost.)                                                    *)
(***************************************************************************)
SigtermStopsPipeline == aimed # {} => \A j \in aimed : k = j

(***************************************************************************)
(* If every stage has a time limit ("CPU time limit (seconds)"), the       *)
(* driver terminates, whatever its children do and whenever it is told to. *)
(***************************************************************************)
Terminates ==
    (limited = {Stages[j] : j \in Stage}) => <>(pc = "exited")
=============================================================================

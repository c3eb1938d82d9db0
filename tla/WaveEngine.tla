----------------------------- MODULE WaveEngine -----------------------------
(***************************************************************************)
(* The parallel wave engine (smorx_runtime/waves.py): run_wave() starts    *)
(* one executor per task on the event loop, waits for them or for the      *)
(* cancel event, and composes the wave's results, failures and telemetry.  *)
(*                                                                         *)
(* Every step between two awaits is one action.  wait_for() is the one of  *)
(* the repository's target, Python 3.11: when its timeout fires it cancels *)
(* the executor and waits for it to stop; when it is itself cancelled      *)
(* during that wait it leaves the executor behind, still running.          *)
(***************************************************************************)
EXTENDS Integers, FiniteSets

CONSTANTS
  TaskIds,   \* tasks a wave may contain
  WaveIds,   \* wave numbers; 0 is no wave
  Results,   \* what execute() may return (an AgentResult, by what its reader tells apart)
  Errors     \* what execute() may raise

ASSUME WaveIdsAssumption == WaveIds \subseteq Nat \ {0}
ASSUME OutcomesAssumption ==
  /\ Results \cap Errors = {}
  /\ {"none", "timeout"} \cap (Results \cup Errors) = {}

VARIABLES
  request,      \* the tasks of the wave being run, and
  waveId,       \* its id
  engine,       \* where run_wave() is ("draining": gathering after a cancellation)
  exec,         \* the executor of each task
  got,          \* per task: its entry in results or failures, "none" for neither
  timing,       \* per task: the status of its TaskTiming, "none" before there is one
  cancelEvent,  \* the caller's event: "absent", "clear" or "set"
  waveStatus,   \* status of the composed WaveResult, "none" before it exists
  telemetry,    \* last_wave_telemetry: the id of the last composed wave
  leftBehind    \* tasks with an executor nobody waits for any more

engineVars == <<request, waveId, engine, exec, got, timing, cancelEvent,
                waveStatus, telemetry, leftBehind>>

Live == {"running", "timingOut", "cancelling"}

EngineTypeOK ==
  /\ request \subseteq TaskIds
  /\ waveId \in WaveIds \cup {0}
  /\ engine \in {"idle", "waiting", "gathering", "draining", "composed", "abandoned"}
  /\ exec \in [TaskIds -> Live \cup {"absent", "done"}]
  /\ got \in [TaskIds -> Results \cup Errors \cup {"none", "timeout"}]
  /\ timing \in [TaskIds -> {"none", "SUCCEEDED", "TIMEOUT", "CANCELLED", "FAILED"}]
  /\ cancelEvent \in {"absent", "clear", "set"}
  /\ waveStatus \in {"none", "COMPLETED", "PARTIAL", "FAILED", "CANCELLED"}
  /\ telemetry \in WaveIds \cup {0}
  /\ leftBehind \subseteq TaskIds

EngineInit ==
  /\ request = {} /\ waveId = 0
  /\ engine = "idle"
  /\ exec = [t \in TaskIds |-> "absent"]
  /\ got = [t \in TaskIds |-> "none"]
  /\ timing = [t \in TaskIds |-> "none"]
  /\ cancelEvent = "absent"
  /\ waveStatus = "none"
  /\ telemetry = 0
  /\ leftBehind = {}

NotInWave == engine \in {"idle", "composed", "abandoned"}

-----------------------------------------------------------------------------
(* run_wave(): the call, with an event ev that is absent, clear or already set *)

RunWave(w, id, ev) ==
  /\ NotInWave
  /\ w # {}
  /\ request' = w /\ waveId' = id
  /\ cancelEvent' = ev
  /\ got' = [t \in TaskIds |-> "none"]
  /\ timing' = [t \in TaskIds |-> "none"]
  /\ \/ /\ ev # "set"
        /\ engine' = IF ev = "absent" THEN "gathering" ELSE "waiting"
        /\ exec' = [t \in TaskIds |-> IF t \in w THEN "running" ELSE "absent"]
        /\ waveStatus' = "none"
        /\ UNCHANGED telemetry
     \/ /\ ev = "set"
        /\ engine' = "composed"
        /\ exec' = [t \in TaskIds |-> "absent"]
        /\ waveStatus' = "CANCELLED"
        /\ telemetry' = id
  /\ UNCHANGED leftBehind

-----------------------------------------------------------------------------
(* run_task(): how the coroutine of one task ends *)

Ends(t, entry, status) ==
  /\ exec' = [exec EXCEPT ![t] = "done"]
  /\ got' = [got EXCEPT ![t] = entry]
  /\ timing' = [timing EXCEPT ![t] = status]
  /\ UNCHANGED <<request, waveId, engine, cancelEvent, waveStatus, telemetry, leftBehind>>

\* wait_for() hands on what the executor did: also when the executor swallowed the
\* cancellation of its timeout, and when it was done just before it was cancelled.
ExecutorReturns(t, r) == exec[t] \in Live /\ Ends(t, r, "SUCCEEDED")

ExecutorRaises(t, e) == exec[t] \in Live /\ Ends(t, e, "FAILED")

\* Faulty variant: a swallowed cancellation leaves no timing.
CancelledUntimed(t) == exec[t] = "running" /\ Ends(t, "none", "none")

\* The executor's own awaitable was cancelled: swallowed, no result and no failure.
ExecutorCancelled(t) == exec[t] = "running" /\ Ends(t, "none", "CANCELLED")

TaskTimesOut(t) ==
  /\ exec[t] = "running"
  /\ exec' = [exec EXCEPT ![t] = "timingOut"]
  /\ UNCHANGED <<request, waveId, engine, got, timing, cancelEvent, waveStatus,
                 telemetry, leftBehind>>

TimedOutStops(t) == exec[t] = "timingOut" /\ Ends(t, "timeout", "TIMEOUT")

CancelledStops(t) == exec[t] = "cancelling" /\ Ends(t, "none", "CANCELLED")

\* Faulty variant: also the futures that are done are cancelled and timed anew.
CancelAllTasks(S) ==
  /\ exec' = [t \in TaskIds |-> IF t \in S /\ exec[t] = "running" THEN "cancelling"
                                ELSE IF t \in S THEN "done" ELSE exec[t]]
  /\ timing' = [t \in TaskIds |-> IF t \in S /\ exec[t] # "running" THEN "CANCELLED" ELSE timing[t]]
  /\ UNCHANGED leftBehind

\* future.cancel() on the tasks in S: a running executor is cancelled and waited
\* for; one that is already stopping after its timeout is left behind.
CancelTasks(S) ==
  LET stopping == {t \in S : exec[t] = "timingOut"}
      running == {t \in S : exec[t] = "running"}
  IN /\ exec' = [t \in TaskIds |-> IF t \in stopping THEN "done"
                                   ELSE IF t \in running THEN "cancelling" ELSE exec[t]]
     /\ timing' = [t \in TaskIds |-> IF t \in stopping THEN "CANCELLED" ELSE timing[t]]
     /\ leftBehind' = leftBehind \cup stopping

-----------------------------------------------------------------------------
(* The body of run_wave() after the tasks were created *)

Done == {t \in request : exec[t] = "done"}

SetCancelEvent ==
  /\ cancelEvent = "clear"
  /\ cancelEvent' = "set"
  /\ UNCHANGED <<request, waveId, engine, exec, got, timing, waveStatus, telemetry, leftBehind>>

\* asyncio.wait(FIRST_COMPLETED) returned because of the event: cancel what is left.
WakeCancelled ==
  /\ engine = "waiting"
  /\ cancelEvent = "set"
  /\ engine' = "draining"
  /\ CancelTasks(request)
  /\ UNCHANGED <<request, waveId, got, cancelEvent, waveStatus, telemetry>>

\* Faulty variant: the event is not looked at once a task has ended.
WakeUnaware ==
  /\ engine = "waiting"
  /\ Done # {}
  /\ engine' = "gathering"
  /\ UNCHANGED <<request, waveId, exec, got, timing, cancelEvent, waveStatus,
                 telemetry, leftBehind>>

\* It returned because a task ended first: the event is not looked at again.
WakeCompleted ==
  /\ engine = "waiting"
  /\ cancelEvent = "clear"
  /\ Done # {}
  /\ engine' = "gathering"
  /\ UNCHANGED <<request, waveId, exec, got, timing, cancelEvent, waveStatus,
                 telemetry, leftBehind>>

ResultsOf(w) == {t \in w : got[t] \in Results}

FailuresOf(w) == {t \in w : got[t] \in Errors \cup {"timeout"}}

DerivedStatus ==
  IF engine = "draining" THEN "CANCELLED"
  ELSE IF FailuresOf(request) = {} THEN "COMPLETED"
  ELSE IF ResultsOf(request) # {} THEN "PARTIAL" ELSE "FAILED"

\* Faulty variants: the wave waits until every task has a result or a failure; the
\* telemetry is filed under the next wave.
ComposeAnswered ==
  /\ engine \in {"gathering", "draining"}
  /\ Done = request
  /\ \A t \in request : got[t] # "none"
  /\ engine' = "composed"
  /\ waveStatus' = DerivedStatus
  /\ telemetry' = waveId
  /\ UNCHANGED <<request, waveId, exec, got, timing, cancelEvent, leftBehind>>

ComposeNextId ==
  /\ engine \in {"gathering", "draining"}
  /\ Done = request
  /\ engine' = "composed"
  /\ waveStatus' = DerivedStatus
  /\ telemetry' = waveId + 1
  /\ UNCHANGED <<request, waveId, exec, got, timing, cancelEvent, leftBehind>>

Compose ==
  /\ engine \in {"gathering", "draining"}
  /\ Done = request
  /\ engine' = "composed"
  /\ waveStatus' = DerivedStatus
  /\ telemetry' = waveId
  /\ UNCHANGED <<request, waveId, exec, got, timing, cancelEvent, leftBehind>>

\* The caller's wait_for() around run_wave() runs out of its budget, which is longer
\* than any task's timeout: what is not done has timed out and is still stopping.
\* run_wave() is cancelled before it composes anything.
Abandon ==
  /\ engine = "gathering"
  /\ Done # request
  /\ \A t \in request : exec[t] \in {"done", "timingOut"}
  /\ engine' = "abandoned"
  /\ CancelTasks(request)
  /\ UNCHANGED <<request, waveId, got, cancelEvent, waveStatus, telemetry>>

\* The last executor left behind for t stops at last; nobody sees what it returns.
LeftBehindEnds(t) ==
  /\ t \in leftBehind
  /\ leftBehind' = leftBehind \ {t}
  /\ UNCHANGED <<request, waveId, engine, exec, got, timing, cancelEvent, waveStatus, telemetry>>

-----------------------------------------------------------------------------

ExecutorStep ==
  \E t \in TaskIds :
    \/ \E r \in Results : ExecutorReturns(t, r)
    \/ \E e \in Errors : ExecutorRaises(t, e)
    \/ ExecutorCancelled(t)
    \/ LeftBehindEnds(t)

\* What the event loop does by itself, whatever the executors do.
LoopStep ==
  \/ \E t \in TaskIds : TaskTimesOut(t)
  \/ WakeCancelled
  \/ WakeCompleted
  \/ Compose

\* A cancelled executor stops when it chooses to.
StopStep == \E t \in TaskIds : TimedOutStops(t) \/ CancelledStops(t)

\* The engine with a caller that runs one wave after another.
EngineNext ==
  \/ \E w \in SUBSET TaskIds, ev \in {"absent", "clear", "set"} :
       waveId + 1 \in WaveIds /\ RunWave(w, waveId + 1, ev)
  \/ SetCancelEvent
  \/ ExecutorStep
  \/ LoopStep
  \/ StopStep
  \/ Abandon

EngineSpec == EngineInit /\ [][EngineNext]_engineVars

\* Timers fire and the loop runs ready coroutines; executors stop once cancelled.
\* Nothing is assumed of an executor that was not cancelled.
FairEngineSpec == EngineSpec /\ WF_engineVars(LoopStep) /\ WF_engineVars(StopStep)

-----------------------------------------------------------------------------

\* A composed wave accounts for every task it started: it has a timing, and the
\* timing agrees with the results and failures maps, after any race of completion,
\* timeout and cancellation.  The one exception is the wave cancelled before it began.
WaveAccounted ==
  engine = "composed" /\ (\E t \in request : exec[t] # "absent") =>
    \A t \in request :
      /\ exec[t] = "done"
      /\ timing[t] = "SUCCEEDED" <=> t \in ResultsOf(request)
      /\ timing[t] \in {"FAILED", "TIMEOUT"} <=> t \in FailuresOf(request)
      /\ timing[t] # "none"

\* What a task ended with is final for its wave: neither the cancellation of the
\* wave nor a later answer of its executor replaces it.
OutcomeFinal ==
  [][\A t \in TaskIds : timing[t] # "none" /\ waveId' = waveId =>
       timing'[t] = timing[t] /\ got'[t] = got[t]]_engineVars

\* An event set before run_wave() looks at it ends the wave as CANCELLED.
CancelTakesEffect ==
  (engine = "waiting" /\ cancelEvent = "set") ~> (waveStatus = "CANCELLED")

\* Every wave ends although its executors may never answer: the per-task timeouts
\* and the cancellation get it to its end.
WaveEnds == (engine \in {"waiting", "gathering", "draining"}) ~> NotInWave

=============================================================================

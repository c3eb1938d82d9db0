---------------------------- MODULE Orchestrator ----------------------------
(***************************************************************************)
(* One run of the orchestrator (smorx_runtime/orchestrator.py) over a task *)
(* graph: plan the waves, dispatch them one after another through the wave *)
(* engine, collect what each task ended with, and retry, replace or block. *)
(*                                                                         *)
(* The plan is made by the actions of TaskGraph, each wave is run by the   *)
(* actions of WaveEngine; the code between two awaits is split into the    *)
(* methods it calls (_execute_wave, _collect_wave, the loop of run()).     *)
(*                                                                         *)
(* The content of results is abstracted to what collection tells apart.    *)
(* Evidence, claims, decisions and summaries, which no step of the run     *)
(* reads, are left out.                                                    *)
(***************************************************************************)
EXTENDS TaskGraph

CONSTANTS
  Graphs,            \* the graphs a caller may pass to run()
  MaxRetries,        \* RetryPolicy.max_retries_per_task
  AllowReplacement,  \* RetryPolicy.allow_replacement
  Threshold,         \* no_progress_threshold, of the policy or of the loop controls
  FailedResults,     \* the failure signatures a result with status FAILED may carry
  Errors             \* the failure signatures of exceptions an executor may raise

\* What execute() may return: a result that is accepted, one that names another
\* assignment, one that claims success but breaks validate_result(), or a failed one.
Results == {"ok", "stale", "invalid"} \cup FailedResults

\* Signatures that collection itself makes up.
OwnSignatures == {"timeout", "waveTimeout", "noResult"}

ASSUME GraphsAssumption ==
  \A g \in Graphs : DOMAIN g \subseteq TaskIds /\ g \in [DOMAIN g -> TaskSpecs]
ASSUME RetryPolicyAssumption ==
  /\ MaxRetries \in Nat
  /\ AllowReplacement \in BOOLEAN
  /\ Threshold \in Nat
ASSUME SignaturesAssumption ==
  /\ FailedResults \cap ({"none", "ok", "stale", "invalid"} \cup OwnSignatures) = {}
  /\ Errors \cap ({"none"} \cup OwnSignatures \cup Results) = {}

VARIABLES
  \* the run
  pc,          \* which part of run() comes next
  phase,       \* state.phase
  outcome,     \* the report's status; "ERROR" when run() raised before it had a plan
  nextTransition,
  wave,        \* wave_tasks
  waveIndex,   \* waves of the plan already taken
  staged,      \* follow_ups: task -> the wave that staged it, 0 when not queued
  status,      \* state.task_statuses, "absent" before the run has a plan
  runs,        \* _run_counts
  replaced,    \* _replaced
  failure,     \* failures_by_task of the wave just collected, "none" for no failure
  lastSig,     \* last_signature
  sigCount,    \* signature_consecutive
  conflicts,   \* tasks whose result was flagged stale or invalid, in any attempt
  recorded,    \* ids of the wave telemetry records in _telemetry, in order
  \* the wave engine
  request, waveId, engine, exec, got, timing, cancelEvent, waveStatus, telemetry, leftBehind

Engine == INSTANCE WaveEngine WITH WaveIds <- Nat \ {0}

engineVars == <<request, waveId, engine, exec, got, timing, cancelEvent, waveStatus,
                telemetry, leftBehind>>
queueVars == <<wave, waveIndex, staged>>
taskVars == <<status, runs, replaced, failure, lastSig, sigCount, conflicts>>
endVars == <<outcome, nextTransition>>
runVars == <<pc, phase, endVars, queueVars, taskVars, recorded>>
vars == <<graphVars, runVars, engineVars>>

Phases == {"IDLE", "INSPECTING", "PLANNING", "DISPATCHING", "EXECUTING", "COLLECTING",
           "RECONCILING", "COMPLETED", "BLOCKED"}

Tasks == DOMAIN graph

Init ==
  /\ graph \in Graphs
  /\ planState = "building" /\ unscheduled = {} /\ layer = {} /\ plan = <<>>
  /\ pc = "planning" /\ phase = "IDLE"
  /\ outcome = "none" /\ nextTransition = "none"
  /\ wave = {} /\ waveIndex = 0
  /\ staged = [t \in Tasks |-> 0]
  /\ status = [t \in Tasks |-> "absent"]
  /\ runs = [t \in Tasks |-> 0]
  /\ replaced = {}
  /\ failure = [t \in Tasks |-> "none"]
  /\ lastSig = [t \in Tasks |-> "none"]
  /\ sigCount = [t \in Tasks |-> 0]
  /\ conflicts = {}
  /\ recorded = <<>>
  /\ Engine!EngineInit

-----------------------------------------------------------------------------
(* plan_waves(), and the transitions to DISPATCHING *)

Plan ==
  /\ pc = "planning"
  /\ BeginPlanning \/ PlanStep
  /\ UNCHANGED <<runVars, engineVars>>

\* TaskGraphError leaves run(): no report, and the phase is still IDLE.
PlanRaises ==
  /\ pc = "planning"
  /\ planState = "error"
  /\ pc' = "ended" /\ outcome' = "ERROR"
  /\ UNCHANGED <<graphVars, phase, nextTransition, queueVars, taskVars, recorded, engineVars>>

StartRun ==
  /\ pc = "planning"
  /\ planState = "planned"
  /\ pc' = "loop" /\ phase' = "DISPATCHING"
  /\ status' = [t \in Tasks |-> "QUEUED"]
  /\ UNCHANGED <<graphVars, endVars, queueVars, runs, replaced, failure, lastSig, sigCount,
                 conflicts, recorded, engineVars>>

-----------------------------------------------------------------------------
(* The head of the loop of run(), with _ensure_dispatch_ready and _execute_wave *)

Execute(w) ==
  /\ wave' = w
  /\ status' = [t \in Tasks |-> IF t \in w THEN "RUNNING" ELSE status[t]]
  /\ runs' = [t \in Tasks |-> IF t \in w THEN runs[t] + 1 ELSE runs[t]]
  /\ pc' = "executing" /\ phase' = "EXECUTING"
  /\ Engine!RunWave(w, waveId + 1, "absent")
  /\ UNCHANGED <<graphVars, endVars, replaced, failure, lastSig, sigCount, conflicts, recorded>>

Queued == {t \in Tasks : staged[t] # 0}

\* Follow-ups come first, one at a time, in the order they were staged.
FirstQueued(t) ==
  /\ t \in Queued
  /\ \A u \in Queued \ {t} : staged[t] < staged[u] \/ (staged[t] = staged[u] /\ Before(t, u))

DispatchFollowUp ==
  /\ pc = "loop"
  /\ \E t \in Tasks :
       /\ FirstQueued(t)
       /\ staged' = [staged EXCEPT ![t] = 0]
       /\ Execute({t})
  /\ UNCHANGED waveIndex

\* Faulty variant: the next wave does not wait for the queue to empty.
DispatchWaveFirst ==
  /\ pc = "loop"
  /\ waveIndex < Len(plan)
  /\ waveIndex' = waveIndex + 1
  /\ Execute(plan[waveIndex + 1])
  /\ UNCHANGED staged

DispatchWave ==
  /\ pc = "loop"
  /\ Queued = {}
  /\ waveIndex < Len(plan)
  /\ waveIndex' = waveIndex + 1
  /\ Execute(plan[waveIndex + 1])
  /\ UNCHANGED staged

\* Neither a follow-up nor a wave is left at the head of the loop: an empty plan.
\* run() reports COMPLETED without a transition.
NothingToDispatch ==
  /\ pc = "loop"
  /\ Queued = {} /\ waveIndex >= Len(plan)
  /\ pc' = "ended" /\ outcome' = "COMPLETED"
  /\ UNCHANGED <<graphVars, phase, nextTransition, queueVars, taskVars, recorded, engineVars>>

-----------------------------------------------------------------------------
(* run_wave() under the wave's budget: the orchestrator passes no cancel event *)

EngineStep ==
  /\ Engine!ExecutorStep \/ Engine!LoopStep \/ Engine!StopStep \/ Engine!Abandon
  /\ UNCHANGED <<graphVars, runVars>>

-----------------------------------------------------------------------------
(* The end of _execute_wave, and _collect_wave *)

\* Faulty variant: a result of another assignment counts as a failure.
FailureOfAnyResult(t) ==
  IF engine = "abandoned" THEN "waveTimeout"
  ELSE IF got[t] = "ok" THEN "none"
  ELSE IF got[t] = "none" THEN "noResult"
  ELSE got[t]

\* The failure that collection finds for a task of the wave.
FailureOf(t) ==
  IF engine = "abandoned" THEN "waveTimeout"
  ELSE IF got[t] \in {"ok", "stale"} THEN "none"
  ELSE IF got[t] = "none" THEN "noResult"
  ELSE got[t]

\* A result of another assignment is set aside before its status is looked at.
IsStale(t) == engine # "abandoned" /\ got[t] = "stale"

CollectedStatus(t) ==
  IF IsStale(t) THEN "CANCELLED"
  ELSE IF FailureOf(t) = "none" THEN "SUCCEEDED" ELSE "FAILED"

\* Faulty variant: a wave that ran out of its budget is never collected.
CollectComposed ==
  /\ pc = "executing"
  /\ engine = "composed"
  /\ recorded' = IF telemetry = 0 THEN recorded ELSE Append(recorded, telemetry)
  /\ pc' = "deciding" /\ phase' = "COLLECTING"
  /\ failure' = [t \in Tasks |-> IF t \in wave THEN FailureOf(t) ELSE "none"]
  /\ status' = [t \in Tasks |-> IF t \in wave THEN CollectedStatus(t) ELSE status[t]]
  /\ conflicts' = conflicts \cup {t \in wave : IsStale(t) \/ FailureOf(t) = "invalid"}
  /\ UNCHANGED <<graphVars, endVars, queueVars, runs, replaced, lastSig, sigCount, engineVars>>

Collect ==
  /\ pc = "executing"
  /\ Engine!NotInWave
  /\ recorded' = IF telemetry = 0 THEN recorded ELSE Append(recorded, telemetry)
  /\ pc' = "deciding" /\ phase' = "COLLECTING"
  /\ failure' = [t \in Tasks |-> IF t \in wave THEN FailureOf(t) ELSE "none"]
  /\ status' = [t \in Tasks |-> IF t \in wave THEN CollectedStatus(t) ELSE status[t]]
  /\ conflicts' = conflicts \cup {t \in wave : IsStale(t) \/ FailureOf(t) = "invalid"}
  /\ UNCHANGED <<graphVars, endVars, queueVars, runs, replaced, lastSig, sigCount, engineVars>>

-----------------------------------------------------------------------------
(* The loop over the wave's failed tasks *)

Failed == {t \in wave : failure[t] # "none"}

Consecutive(t) == IF lastSig[t] = failure[t] THEN sigCount[t] + 1 ELSE 1

\* Faulty variants: the threshold is off by one in either direction, the retry limit
\* is, and an agent may be replaced again and again.
NoProgressEarly(t) == Consecutive(t) >= Threshold - 1

NoProgressLate(t) == Consecutive(t) > Threshold

MayRetryOnceMore(t) == runs[t] <= MaxRetries + 1

MayReplaceAgain(t) == AllowReplacement

NoProgress(t) == Consecutive(t) >= Threshold

MayRetry(t) == runs[t] <= MaxRetries

MayReplace(t) == AllowReplacement /\ t \notin replaced

Blockers == {t \in Failed : NoProgress(t) \/ ~ (MayRetry(t) \/ MayReplace(t))}

\* Bookkeeping of the failed tasks S the loop goes through.
CountFailures(S) ==
  /\ lastSig' = [t \in Tasks |-> IF t \in S THEN failure[t] ELSE lastSig[t]]
  /\ sigCount' = [t \in Tasks |-> IF t \in S THEN Consecutive(t) ELSE sigCount[t]]

\* The first blocker in wave order ends the run; what was staged before it is dropped.
Block ==
  /\ pc = "deciding"
  /\ \E b \in Blockers :
       LET passed == {t \in Failed : Before(t, b)} IN
       /\ \A t \in Blockers \ {b} : Before(b, t)
       /\ CountFailures(passed \cup {b})
       /\ replaced' = replaced \cup {t \in passed : ~ MayRetry(t)}
       /\ nextTransition' = IF failure[b] = "invalid" THEN "HUMAN_REVIEW" ELSE "BLOCKED"
  /\ pc' = "ended" /\ phase' = "BLOCKED" /\ outcome' = "BLOCKED"
  /\ UNCHANGED <<graphVars, queueVars, status, runs, failure, conflicts, recorded, engineVars>>

\* Every failed task gets its retry or its replacement.
Reconcile ==
  /\ pc = "deciding"
  /\ Failed # {} /\ Blockers = {}
  /\ CountFailures(Failed)
  /\ replaced' = replaced \cup {t \in Failed : ~ MayRetry(t)}
  /\ staged' = [t \in Tasks |-> IF t \in Failed THEN waveId ELSE staged[t]]
  /\ pc' = "loop"
  /\ UNCHANGED <<graphVars, phase, endVars, wave, waveIndex, status, runs, failure, conflicts,
                 recorded, engineVars>>

\* Faulty variants: the run goes on past a failure; it completes before the last wave.
AdvancePastFailure ==
  /\ pc = "deciding"
  /\ waveIndex < Len(plan) \/ Queued # {}
  /\ pc' = "loop"
  /\ UNCHANGED <<graphVars, phase, endVars, queueVars, taskVars, recorded, engineVars>>

CompleteEarly ==
  /\ pc = "deciding"
  /\ Failed = {} /\ Queued = {}
  /\ pc' = "ended" /\ phase' = "COMPLETED"
  /\ outcome' = "COMPLETED" /\ nextTransition' = "COMPLETED"
  /\ UNCHANGED <<graphVars, queueVars, taskVars, recorded, engineVars>>

Advance ==
  /\ pc = "deciding"
  /\ Failed = {}
  /\ waveIndex < Len(plan) \/ Queued # {}
  /\ pc' = "loop"
  /\ UNCHANGED <<graphVars, phase, endVars, queueVars, taskVars, recorded, engineVars>>

Complete ==
  /\ pc = "deciding"
  /\ Failed = {}
  /\ waveIndex >= Len(plan) /\ Queued = {}
  /\ pc' = "ended" /\ phase' = "COMPLETED"
  /\ outcome' = "COMPLETED" /\ nextTransition' = "COMPLETED"
  /\ UNCHANGED <<graphVars, queueVars, taskVars, recorded, engineVars>>

-----------------------------------------------------------------------------

RunStep ==
  \/ Plan \/ PlanRaises \/ StartRun
  \/ DispatchFollowUp \/ DispatchWave \/ NothingToDispatch
  \/ Collect
  \/ Block \/ Reconcile \/ Advance \/ Complete

Next == RunStep \/ EngineStep

Spec == Init /\ [][Next]_vars

\* run() goes on when it can, timers fire, and the wave's budget runs out.  Nothing is
\* assumed of executors: they may never answer and never stop.
Fairness ==
  /\ WF_vars(RunStep)
  /\ WF_vars(Engine!LoopStep /\ UNCHANGED <<graphVars, runVars>>)
  /\ WF_vars(Engine!Abandon /\ UNCHANGED <<graphVars, runVars>>)

FairSpec == Spec /\ Fairness

-----------------------------------------------------------------------------

SettledStatuses == {"SUCCEEDED", "CANCELLED"}

Signatures == {"none", "invalid"} \cup FailedResults \cup Errors \cup OwnSignatures

\* The variables of the run hold what the code's fields can hold.
RunTypeOK ==
  /\ pc \in {"planning", "loop", "executing", "deciding", "ended"}
  /\ phase \in Phases
  /\ outcome \in {"none", "COMPLETED", "BLOCKED", "ERROR"}
  /\ nextTransition \in {"none", "COMPLETED", "BLOCKED", "HUMAN_REVIEW"}
  /\ wave \subseteq Tasks
  /\ waveIndex \in 0 .. Len(plan)
  /\ staged \in [Tasks -> Nat]
  /\ status \in [Tasks -> {"absent", "QUEUED", "RUNNING", "FAILED"} \cup SettledStatuses]
  /\ runs \in [Tasks -> Nat]
  /\ replaced \subseteq Tasks
  /\ failure \in [Tasks -> Signatures]
  /\ lastSig \in [Tasks -> Signatures]
  /\ sigCount \in [Tasks -> Nat]
  /\ conflicts \subseteq Tasks
  /\ recorded \in Seq(Nat)

TypeOK == GraphTypeOK /\ RunTypeOK /\ Engine!EngineTypeOK

\* A task runs only when everything it depends on is settled: also when it is a
\* follow-up, and although a dependency may itself have been retried meanwhile.
DependenciesSettled ==
  \A t \in Tasks : status[t] = "RUNNING" => \A d \in graph[t].deps :
    d \in Tasks /\ status[d] \in SettledStatuses

\* The retry policy bounds the attempts at one task: the first, the retries, and one
\* replacement agent, whatever its failures were.
MaxAttempts == MaxRetries + IF AllowReplacement THEN 2 ELSE 1

AttemptBound == \A t \in Tasks : runs[t] <= MaxAttempts

\* No failure is dropped while the run goes on: at the head of the loop exactly the
\* failed tasks wait for another attempt, so no later wave is taken past a failure.
NothingForgotten ==
  pc = "loop" => \A t \in Tasks : status[t] = "FAILED" <=> staged[t] # 0

\* What the next dispatch finds (orchestrator.py: the follow-up queue before the plan): no
\* task runs before its dependencies, and none that failed is left behind.
DispatchSound == DependenciesSettled /\ NothingForgotten

\* A run is reported COMPLETED only when no task is failed, unfinished or never run.
CompletedMeansSettled ==
  outcome = "COMPLETED" => \A t \in Tasks : status[t] \in SettledStatuses

\* A run is BLOCKED only for a task that is failed, and that either repeated one
\* failure Threshold times in a row or used up its retries and its replacement.
BlockedIsEarned ==
  outcome = "BLOCKED" => \E t \in Tasks :
    /\ status[t] = "FAILED"
    /\ sigCount[t] >= Threshold \/ runs[t] = MaxAttempts

\* The verdict of a run is earned either way (orchestrator.py: the end of run()).
VerdictEarned == CompletedMeansSettled /\ BlockedIsEarned

\* No task fails more often than the threshold in a row with one signature.
RepeatsBounded == \A t \in Tasks : sigCount[t] <= IF Threshold = 0 THEN 1 ELSE Threshold

\* The two bounds of a task's retries together (orchestrator.py: _run_counts and
\* signature_consecutive): however it fails, a task neither runs nor repeats itself further.
RetriesBounded == AttemptBound /\ RepeatsBounded

\* What a task settled as is final: no later wave, left-behind executor or reconcile
\* step runs it again or changes it.
SettledIsFinal ==
  [][\A t \in Tasks : status[t] \in SettledStatuses => status'[t] = status[t]]_vars

\* The run implements the ledger of its tasks (module TaskLedger).
Ledger == INSTANCE TaskLedger WITH
  tasks <- [t \in Tasks |-> graph[t].deps],
  status <- [t \in Tasks |-> IF status[t] = "absent" THEN "QUEUED" ELSE status[t]],
  attempts <- runs

LedgerSpec == Ledger!Spec

\* Every run ends, although executors may hang and may never stop once cancelled.
RunEnds == <>(outcome # "none")

-----------------------------------------------------------------------------
(* Statements of the documentation that the code does not keep *)

Alive(t) == exec[t] \in Engine!Live \/ t \in leftBehind

\* graph.py:13-14: a SERIALIZED task "must never run concurrently with anything", nor
\* does it run twice at once.
SerializedNeverConcurrent ==
  \A t \in Tasks : graph[t].kind = "SERIALIZED" /\ exec[t] \in Engine!Live =>
    leftBehind = {} /\ \A u \in Tasks \ {t} : ~ Alive(u)

\* telemetry.py:63: record_wave appends "one completed wave's telemetry", so no wave is
\* recorded twice.
RecordedOnce == \A i, j \in DOMAIN recorded : recorded[i] = recorded[j] => i = j

=============================================================================

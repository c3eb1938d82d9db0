# Smorx in TLA+

Specifications, model-checking runs and machine-checked proofs for Smorx, the
monorepo of a "behavioral certification" service: agents analyse and change a
repository, tools act under a policy gate, a coding agent repairs a candidate
in a sandbox, verification compares the candidate with the protected behavior,
and a certificate gates the merge. The code is asyncio Python on one event loop,
so every step between two awaits is atomic and every await is a point where
others may act. Worker threads (`asyncio.to_thread`) only resolve a path and wait for
the sandbox SDK; what their calls return is applied on the event loop.

Paths are relative to the repository; `rt/` stands for
`packages/agent-runtime/src/smorx_runtime/`, `tools/` for
`packages/tools/src/smorx_tools/`, `develop/` for
`packages/develop/src/smorx_develop/`, `workflow/` for
`packages/workflow/src/smorx_workflow/`, `certification/` for
`packages/certification/src/smorx_certification/`, `precode/`, `behavior/`,
`verification/` and `delta/` likewise for those packages, and `api/` for
`apps/api/app/`.

    tlc -config MCOrchestrator.cfg MCOrchestrator     # a run
    tlapm OrchestratorProofs.tla                      # a proof module

`PROJECT.json` lists runs, the faulty variants each property must catch, the
source lines of every definition, the hazards and the theorems.

## 1. The system and its hazards

| Part | State | Operations | Hard about it | Correct when |
| --- | --- | --- | --- | --- |
| Task graph, `rt/graph.py` | task specs by id | `add`, `add_dependency`, `waves` | `add` checks nothing about the dependencies it takes, `add_dependency` only its own edge; the greedy layering reads what it has just scheduled | waves respect dependencies, a SERIALIZED task is alone, nothing is lost or planned twice, an order is found exactly when there is one |
| Wave engine, `rt/waves.py` | one coroutine per task, results, failures, timings, cancel event, last telemetry | `run_wave` | completion, exception, timeout, cancellation and the caller's budget race | one final outcome per task, every wave ends |
| Orchestrator, `rt/orchestrator.py` | state per task, staged follow-ups, failure signatures and counts, replaced agents, phase | `plan_waves`, `run` | partial failure of a wave, retry, replacement and no-progress threshold at their limits, stale results, abandoned executors | dependencies settle first, attempts are bounded, failures are not forgotten, COMPLETED and BLOCKED are deserved, every run ends |
| Tool control plane, `tools/control.py`, `audit.py`, `policies.py` | the audit trail | `authorize`, `execute` | calls of one operation interleave, handlers fail, time out or are cancelled | the trail accounts for every call; duplicates are denied |
| Human control plane, `tools/human.py` | control state, approval requests with expiry | `pause`, `resume`, `abort`, `request_approval`, `approve`, `deny` | expiry races the decision and the call it is for | only a timely human approval lets a reviewed call through |
| Coding loop, `develop/agent.py`, `bounds.py`, `barrier.py`, `sandbox.py` | counters, signature window, sandbox workspace, records | `run` and its primitives | bounds are checked in two places, mutation and its test are steps apart, the decider may hang | reports are evidenced and current, budgets hold, the loop ends |
| Workflow, `workflow/orchestrate.py`, `reliability.py`, `failure_inject.py`, `chaining.py` | the run's status and event chain, evidence, scenario | `run_e2e_workflow`, `run_phases`, `resume_workflow`, `reset_workflow`, `inject_failure`, `cleanup_stale_sandboxes`, `replay` | interrupted and repeated segments over rows that earlier calls left, errors swallowed half way | the chain stays valid, COMPLETE is honest, a change merges once |
| Certification, `certification/` | certificate, statuses of task, change and candidate, memory | `run_reverification`, `build_certificate`, `evaluate_merge_gate`, `verify_certificate_integrity`, `run_memory_pipeline` | the certificate binds statuses the merge changes; an existing certificate is returned as it is | no merge of what failed or was not certified, no memory without a certificate |
| Delta and decision, `delta/` | deltas, alignment, decision, repair packages | `compute_behavioral_deltas`, `decide_certification`, `run_repair_loop` | the loop's inputs never change between its iterations; what may continue rests on other modules keeping their word | a candidate continues only when it has earned it; repair stays in bounds |
| Pre-coding, `precode/`, `develop/handoff.py`, `barrier.py` | task, ledger, impact map and plan rows with version and lock; the context of a verdict | `define_change`, `build`, `lock`, `bump`, `pre_coding_gate`, `pre_coding_handoff`, `ExecutionBarrier.evaluate` | readers take the first row in key order, which a bump may have superseded; the context is old when it is used | an agent starts on a locked, current contract and the contract stays |
| Behavioral store, `behavior/` | versioned rows, evidence; tables, migration stamp | `bump`, `lock`, `get_lineage`, `record_evidence`, `create_all`, `build_seed`, `alembic` | two bumps of one row, in-place bump of an unlocked one; two processes create and seed one database while a migration runs; resets delete rows that refer to each other | lineage is a history, locked rows do not change, no reference dangles, the seed is whole |
| Verification, `verification/` | the collector's records and a session shared by a wave's modules | `run_verification_wave`, six modules, `fuse_claim_evidence` | one module raises while the others still write; evidence is deduplicated across waves | a wave's result is whole and says what its modules found |
| Tool execution, `tools/execution.py`, `sandbox.py`, `repo.py`, `assembly.py` | processes, one provider | `CommandRunner.run`, `SandboxControl` | timeout and kill, cancellation of the runner itself | processes end, failures are classified once |
| Agent state and loop controls, `rt/state.py`, `loop_controls.py`, `toolgate.py`, `capabilities.py` | state, budgets, capabilities | transitions, budget checks, gates | counters at their limits | illegal transitions are refused |
| HTTP service and providers, `api/` | table of sandboxes, configuration | `POST` of the proof, `route`, retry, the sandbox adapter's calls | a call reads a sandbox's state before it awaits and moves the sandbox afterwards; the last retry; a late answer | failed calls leave nothing, proofs do not see each other, every proof is answered |
| Wire contracts, web console, scripts, infrastructure | none at run time | | | not modelled |

How they interact: the orchestrator calls the wave engine, which calls agent
executors; agents call tools through the control plane, which asks the human
control plane about high-risk operations. The gate reads the pre-coding rows of
the behavioral store and hands a context to the coding loop, whose barrier reads
the rows again; the loop acts on a sandbox. A candidate goes through a
verification wave, the decision on it and perhaps the repair loop; the workflow
package chains re-verification, certification and merge over one database
session. API workers prepare the store as they start and serve the
infrastructure proof over the model and sandbox providers. Calls are awaits in
one process; shared are the audit trail, the approval list, the engine's last
telemetry, the evidence collector, the adapter's table of sandboxes and the
database, which alone is shared by several processes.

## 2. Modules

| Module | Models | Proofs |
| --- | --- | --- |
| `TaskGraph` | `rt/graph.py` | with the orchestrator |
| `WaveEngine` | `rt/waves.py` with the semantics of `asyncio.wait_for` | `WaveEngineProofs` |
| `TaskLedger` | what a run promises of its tasks: the abstract specification | |
| `Orchestrator` | `rt/orchestrator.py`; EXTENDS `TaskGraph`, INSTANCE `WaveEngine`, refines `TaskLedger` | `OrchestratorProofs` |
| `ControlPlane` | `tools/control.py`, `human.py`, `audit.py`, `policies.py` | `GovernanceProofs` |
| `LoopBounds` | `develop/bounds.py` | with the coding loop |
| `CodingLoop` | `develop/agent.py` with its barrier and sandbox; EXTENDS `LoopBounds` | `CodingLoopProofs` |
| `Certification` | `certification/`: the rows a certificate binds, gate and memory | with the workflow |
| `ChangeLedger` | what certification promises of a task's change: the abstract specification | |
| `Workflow` | `workflow/`; EXTENDS `Certification`, refines `ChangeLedger` | `WorkflowProofs` |
| `Versioning` | `behavior/versioning/`, the repository's writes | with pre-coding |
| `PreCoding` | `precode/`, `develop/handoff.py`, `barrier.py`; EXTENDS `Versioning` | `GovernanceProofs` |
| `Verification` | `verification/`: the wave and its modules | with the assessment |
| `Assessment` | `delta/` and the fusion of evidence; EXTENDS `Verification`, `LoopBounds` | `AssessmentProofs` |
| `Schema` | `behavior/models/entities.py`, the initial migration, the rows of `behavior/seed/demo.py` | with the store |
| `Store` | database set-up, seed, migration, injected failures and reset; EXTENDS `Schema` | `StoreProofs` |
| `Routing` | `api/model/router.py`, `nemotron.py` | with the providers |
| `Sandboxes` | `api/providers/sandbox/adapter.py` | with the providers |
| `Providers` | the infrastructure proof with retry and failure taxonomy; EXTENDS `Routing`, `Sandboxes` | `ProvidersProofs` |
| `MC...` | instances for TLC | |

Definitions named after a mistake (`ReadyOnAny`, `CompleteEarly`, ...) and
commented "Faulty variant" are not used by the specifications. Each differs
from the definition below it by one plausible bug, and the property it is
listed with in `PROJECT.json` must fail when it takes that definition's place:
that is how the properties are kept from being vacuous.

### TaskGraph

State: `graph`, a function from the ids added so far to kind and dependencies,
and the planner's `unscheduled`, `layer` and `plan`. `Add` and `AddDependency`
are the methods with their checks (unknown ids, self-edges and the reachability
test of `_creates_cycle`, stated without its search: a set of tasks that holds the
new dependency and everything its members depend on does not hold the task). `waves()` is one action per wave: `PlanLayer`
computes what is ready, `PlanWave` takes the next wave from the layer by kind
and id, `PlanFails` is the ValueError of a layer that is empty, or of a
`max_parallelism` below one. `add()` accepts dependencies on ids that do not
exist and circular ones, so both occur.

### WaveEngine

State: the wave being run, what each executor does (`exec`), its entry in the
results and failures maps (`got`), its timing, the cancel event, the composed
status, `last_wave_telemetry`, and `leftBehind`: the tasks with an executor that
runs on although nobody waits for it. An executor may return, raise, see its
own awaitable cancelled, or do nothing for ever. `wait_for` is that of Python
3.11: at its timeout it cancels the executor and waits for it to stop;
cancelled during that wait, it leaves the executor running. `RunWave` is
`run_wave()` up to its first await, including the early return for an event
that is already set; `WakeCancelled` and `WakeCompleted` are the two ways the
first wait ends, `Compose` builds the result. `Abandon` is the caller's budget
running out; its guard says that what is unfinished has timed out already,
because the budget (`timeout * n + 2`) exceeds every task's timeout.

### Orchestrator and TaskLedger

State: per task its status, number of runs, staged attempt, failure signatures
and their count, replacement; the wave cursor, phase and outcome; beside it
graph and engine. One action per stretch of `run()` between awaits:
`Plan`/`PlanRaises`, `StartRun`, `DispatchFollowUp`, `DispatchWave` (follow-ups
first), `Collect` (all of `_collect_wave`, for composed and abandoned waves),
then `Reconcile`, `Block`, `Advance` and `Complete`, which cover the failure
handling with its thresholds as one step since nothing in it awaits. Results
are abstracted to what `_collect_wave` tells apart: a valid success, a failed
status, a malformed result, one that answers another assignment.

`TaskLedger` knows only a status and an attempt count per task: a task starts
when what it depends on is settled, settles or fails, and the run completes,
blocks or refuses. `Orchestrator!LedgerSpec` is the ledger under the mapping of
task states and attempt counts; waves, engine, staging and signatures are hidden.

### ControlPlane

State: stage and operation of each call, the audit trail, the plane's control
state and the approval requests. A policy decides per operation and is a
constant function; `DeniedByRule` stands for the static validations before it.
A call has one authorization step (`DeniedByRule`, `DeniedAsDuplicate`,
`DecidedByPolicy`, `HeldForReview`, `Reviewed`), then, since `execute` awaits the
handler, a separate end (`HandlerEnds` with any result status, `CallDropped` when
the call is cancelled while its handler runs). Requests expire as time passes
(`TimePasses`) and are only marked so when somebody reads them (`Pruned`), as in
the code.

### LoopBounds and CodingLoop

State: the budget, chosen at the start like the frozen `LoopBounds`; the four
counters, the elapsed time as whether it has expired, the signature window; the
place in `run()`, the records of the plan's current execution (how many, the
failures among them, the revision of the workspace they ran on), the number of
mutations, the result. A command's result is "passed" or one of a set of
failures (failure code and exit code); a signature is the sequence of the
failures. `FirstPlanEnds` and `PlanEnds` are the ends of the first and of the
later executions: only the later ones record a signature. Errors that leave
`run()` are results of their own: a failed checkpoint, a command that cannot be
started, a refused write, a directive without diagnosis, and the
BoundsExhaustedError that only the head of the loop catches. The barrier is its
verdict here (`PreCoding` has its reads): an unsound context or a missing
authorization blocks, which makes the later denial by `decide()` unreachable; its
branch is kept in `Repair`.

### Certification and Workflow

State: of the rows of one task those that something changes: the statuses of
task, change and candidate, the authorized intent items, the certificate with
what it bound of them, the memory entry; the run's status and events, the exit
codes of the task's verification evidence (its own and the injected); the
scenario a caller keeps between calls; the segment being executed with its
verdict and whether it has its certificate. `opened`, `merges` and
`lastReverify` are history variables for the properties.

The calls `RunE2E`, `Resume` and `RunPhases` start a segment, each phase of the
segment is one action, and `LockIntentLedger`, which belongs to another service,
may come between any two of them. `InjectFailure` and `Reset` are one action
each. Calls follow one another, as they do in one database session.
`Reverify` to `PreserveArchaeology` in `Certification` are the calls a phase
makes; the phases in `Workflow` add the event, the block, or the error. A call
that raises leaves what it has written, as `resume_workflow` does, which
swallows the error; when its caller rolls back, the state is one without that
call. An existing certificate is returned as it is, and a segment that has no
`certify` phase has none. The evidence reader returns the scenario's evidence or
nothing.

`ChangeLedger` has no phases, segments, evidence or events: the rows that a
certificate binds are one variable, there is at most one certificate and it stays
as it was issued, CERTIFIED needs an intent that explains every delta, a merge
takes the rows that are certified, with an intent that explains the deltas still,
and memory is applied under a certified certificate. The refinement mapping reads
the bound rows and the certificate off `Certification`'s variables. The status of the
task is left out of it, which finding 2 is about.

### Versioning and PreCoding

State: `rows`, the rows by primary key with kind, version, lock, parent
reference and unique identity; beside it whether the task is defined, the items
of each ledger, the cases of each plan, `offered`, the context of the last
verdict that passed, and `running`, the context a coding loop runs on. Primary
keys are random and readers sort by them, so a new row takes any free key.

`Versioning` has the store's writes: `Create`, `LockAs`, `BumpInPlace` for a row
that is not locked, `BumpNewIdentity` (clone, version + 1, unlocked, parent
reference, `@version` suffix of the identity) for one that is, refused by the
unique constraint or for want of a column for the reference. `PreCoding` has one
action per call of the packages: `DefineChange`, `BuildLedger`, `LockLedger`
(which authorizes the items), `BuildImpact`, `LockImpact` (the first map in key
order), `BuildPlan` with `_validate`, `LockPlan`, `BumpRow`; certificates live
under the same rules and have the unique identity that ledgers lack. `AskGate`
is `pre_coding_gate`, `Start` is the handoff and the barrier, which compare the
old context with the rows as they are. All of them go on while a loop runs.

### Verification and Assessment

State: per wave its configuration, its caller's state, and of each module its
stage, how many probes it has done and whether one failed; the records of the
shared collector, the evidence rows by content hash, and what the wave returned.
`Begin` is a module's early returns, `Report` the end of one probe: what it
emits and its status after the last one; `Analyse`, `Attack`, `Probe` and
`Mutate` say what the six modules emit on each outcome. `Raise` is an exception:
it ends the wave for its caller, and the other modules go on, as `gather` leaves
them. `Return` is a wave whose modules have all ended; a later wave starts on
the same session. Mutations pile up in one temporary copy (`altered`).

`Assessment` adds the operators of the decision: `Verdict` is fusion and
`classify_claim`, `Classify` the delta, `Alignment` the ledger's say, `Code` the
decision with its order of tests. `Decide` is the caller's computation,
`StartRepair`, `StopRepair`, `Repair` the iterations of `run_repair_loop()` under
the controller of `LoopBounds`; `Expire` is the clock, the only thing beside a
loop that awaits nothing.

### Schema and Store

`Schema` writes each table twice, as the source does: the targets of the foreign
keys of the model classes (owned, linked and cited say whether a column may be NULL
and whether the ORM knows the way back), and the statements of the migration in
their order; and the rows of the demo scenario with what each refers to. A row has
its name in a scope: the scenario, another task, or an injected failure.

State of `Store`: the tables there are, the migration's stamp, the migration at
work; per process where it is between schema and seed, with the tables
`create_all` found missing and the ids it has looked up; the write lock, the rows
as its holder sees them (`view`) and as committed (`disk`). A process is
`StartWorker`, `CreateTable`, `CountProjects`, then `LookUp` and `InsertRow` per
row of `build_seed`, and `CommitSeed`; it may crash or time out on the lock at
every step. A migration runs statement by statement (`RunStatement`), stamps at
the end (`EndJob`), and may be killed. `InjectFailure` and `ResetWorkflow` write
what the workflow package writes, over tables with foreign keys that are
enforced or not.

### Routing, Sandboxes and Providers

`Routing` is the router as operators: `Decide` for a capability, `TierForModel`
for a model id, `Route` for either. State of `Sandboxes`: the server's immutable
states, the adapter's table of sandboxes, and the call each caller waits for. A
call reads the handle in `Begin` and moves the sandbox in `Return`; between the
two others may run, roll back or destroy it, and nothing locks it. `Fail` is a
refusal, a timeout or a cancelled caller. `told`, `saved`, `serial` and `sure`
are history: what callers were told, and which sandboxes one caller at a time has
used. A state is the set of the calls whose effects it has.

`Providers` adds the configuration and the requests of the proof endpoint:
`Submit` (credentials, route), `Answer`, `Fault`, `EmptyAnswer`, `Breaks` and
`Backoff` for the model with its retries, `Create`, `Command` and `Execute` for the
sandbox; `Status` and `Category` are the failure taxonomy. Other clients of the
adapter create, run, checkpoint, roll back and destroy beside them.

## 3. What is checked

| Run | Instance | States | Question |
| --- | --- | --- | --- |
| `task_graph` | 3 ids, width 2 | 140 000 | every graph the two methods can build is planned properly or refused |
| `wave_engine` | 2 tasks, 2 waves | 3 100 | every race inside a wave is accounted for, and waves end |
| `orchestrator` | fork and join, a task behind a serialized one, a pair, an empty graph, a cycle; retry 1, replacement, threshold 2 | 915 000 | safety of a run, that it implements the ledger, and that it ends |
| `control_plane` | 2 calls, 2 operations, 2 approval requests | 300 000 | trail and approvals |
| `coding_loop` | plan of 2 commands, 2 failures, 256 budgets | 85 000 | reports, budgets, window, termination |
| `workflow` | whole workflow and 4 segments, 2 intent items, 2 failures, 3 calls | 814 000 | merges and completion over any sequence of calls, and that the rows implement the ledger of a change |
| `precoding` | 4 keys, versions to 2, 2 rows of a kind, 3 certificates | 414 000 | lineages, locks and the contract of a loop under any order of builds, locks and bumps |
| `assessment` | 2 waves, 6 configurations of the first, 2 claims, 2 cases, 2 requests, 2 budgets | 64 000 | what a wave returns, the decision on it, the repair loop |
| `store` | 2 processes and starts, 1 migration, 1 injected failure, 1 reset, foreign keys on and off | 451 000 | schema, seed and reset |
| `providers` | 2 proofs, 2 clients with 3 calls, 2 attempts, 3 configurations | 521 000 | sandboxes under overlapping and failed calls, retries, isolation |
| `duplicate_allowed`, `merged_fabricated` | as `control_plane`, `workflow` | until violated | see Findings |

Why the bounds are enough. Three tasks give every shape in which kinds, layers
and dependencies meet: chain, fork, join, cycle of two and of three, unknown id;
width 2 makes layers split. Two waves show what one leaves for the next
(telemetry, executors left behind), two tasks every pair of outcomes. One retry
with one replacement and a threshold of two let each of the three limits be the
one that blocks; the fork has both a failing and a succeeding task in a wave and
a reconciler that must wait for both. Two calls may share an operation or not,
and two requests are what "newest request" needs. The budgets of the coding loop
(up to 4 iterations, 8 commands, 4 repairs, thresholds 0 to 3) make each bound
the first to run out, between two executions of the plan and within one, and
windows shorter and longer than the loop. Three calls of the workflow are one
that certifies, one that changes what was certified, and one that tries to merge;
resets, scenarios and ledgers are not counted. One injected failure fails the
candidate, the other one has no exit code; of two intent items one explains the
delta and the other one carries the alignment, so that each may be missing.

Four keys hold a complete context and one more row, which is enough for a row
that is first in key order and superseded, and for a second bump of one row;
three certificates are a row and two successors that compete for one identity. A
loop needs one claim in conflict and one behavior to cover. Of the two
verification waves the second meets the rows and the stray modules of the first;
the six configurations have each module run, block and skip, in the pairs that
interact (a planted hole beside a mutation, two probes of one mutation run, an
empty list of claims). One budget of the repair loop ends it by its window, the
other by its iterations. Two processes are all that race for the schema, the lock
and the rows; one migration with a kill reaches every prefix of its statements,
and one injected failure has the longest chain of references (execution,
evidence, failure, event). Two proofs and two clients give a sandbox two callers
besides the proof whose command runs in it; three calls of theirs are a read, a
move in between, and what comes after (a checkpoint and a rollback to it). Two
attempts tell the last one from one that is not.

`MaxCalls`, `MaxRequests`, `MaxVersion`, `Quota`, `MaxStarts`, `MaxJobs`, `MaxResets`
and `MaxClientCalls` are the only bounds on behaviours: retries, waves and counters
end by the code's own limits. Deadlock is not checked where the system stops: a
run, plan, wave or loop that has ended, a store nobody starts any more. Symmetry
is used for the calls of the gateway and for the processes of the store, which
are interchangeable, and in runs without liveness properties only.

### Properties

* Graph: `WaveShape` (the width, and a serialized task alone), `PlanSound` (waves
  respect dependencies, nothing is lost or planned twice, and the planner refuses
  exactly when no order exists); `DependencyKeepsPlannable` says that
  `add_dependency`'s check is enough.
* Engine: `WaveAccounted` (timings agree with results and failures),
  `OutcomeFinal` (no later event rewrites a task's outcome), `CancelTakesEffect`
  and `WaveEnds` (liveness).
* Orchestrator: `DispatchSound` (dependencies settle first, no failure is left
  behind), `VerdictEarned` (COMPLETED and BLOCKED are deserved), `RetriesBounded`,
  the refinement `LedgerSpec`, and `RunEnds` (liveness).
* Gateway: `TrailSound` (one authorization per call, one outcome exactly when its
  execution ended, no duplicate right after an execution), `HumanApproved`,
  `ApprovedInTime`.
* Coding loop: `ReportIsCurrent` (what is reported was executed after the last
  mutation), `VerdictIsEvidenced`, `BoundsHold` (the budget, and the window against
  a count of equal signatures kept beside it), `OnlyDeciderHangs` (liveness).
* Workflow: `MergeIsEarned` (the gate merges nothing that failed its last
  re-verification or differs from what was certified), `MergedOnce`,
  `CompleteIsHonest`, and the refinement `ChangeSpec` (the rows implement
  `ChangeLedger`; that memory is applied under a certified certificate,
  `MemoryIsCertified`, follows from it and is a theorem of its own).
* Pre-coding: `LineageSound` (a parent reference names a locked row at its version,
  and an identity has one successor), `LockedForever`, `ContractFrozen` (a context
  offered or run on says what its rows say, whatever happens meanwhile),
  `StartsOnCurrent` (no loop starts on a contract a newer version has replaced).
* Assessment: `ResultWhole` (what a wave returns has all its modules' probes, and
  no record of it comes later), `EvidenceSpeaks` (no module fails without a record
  against its claim, nothing ineligible supports one), `EligibleIsEarned`,
  `RepairsBounded`, `AssessmentEnds` (liveness).
* Store: `SchemaSound` (a table's keys always have their targets, the migration
  gives what the models declare, a stamp means a whole schema), `SeedWhole` (the
  scenario is there whole or not at all, and nothing dangles), `ResetOrderSafe`.
* Providers: `FailuresLeaveNoTrace`, `SerialUseIsExact` (a sandbox that one caller
  at a time uses holds what its callers were told, checkpoints included),
  `ProofsIsolated`, `RequestsHonest` (retries and routing), `ProofEnds` (liveness).

### Fairness

* Waves: weak fairness of what the event loop does by itself (timers, wakeups,
  composing) and of executors that were cancelled coming to a stop
  (`FairEngineSpec`). Nothing is assumed of an executor that was not cancelled:
  it may never answer, and the timeout has to do the work.
* Runs: weak fairness of `run()`'s own steps, of the event loop, and of the
  budget; cancelled executors may even keep running (`FairSpec` of
  `Orchestrator`). Timeouts are finite, as the assignments' defaults are: an
  assignment without a timeout could hang its wave.
* Coding loop: weak fairness of the loop and of its commands, which the command
  runner kills at their timeout. Nothing is assumed of the decider, which is
  awaited without a timeout; so the property says that the loop ends unless it
  waits for its decider for ever.
* Assessment: weak fairness per wave of its modules' steps together (a probe's
  command is killed at its timeout, and the event loop runs some module that is
  ready) and of the repair loop's steps, which await nothing. Nothing is assumed
  of the caller, who need not start, decide or repair.
* Providers: weak fairness of each request that was submitted; the SDKs bound
  every wait by their timeouts. Other clients may do nothing at all.
* Pre-coding, store, workflow: none. Nobody need call anything, so they have
  safety properties only.

## 4. What is proved

TLAPS proves the theorems below for every value of the constants: any set of
tasks and graphs, any width, policy, number of calls, budget and plan length, any
keys, claims, configurations of a wave, clients and faults. Assumptions are the
named ASSUMEs of the modules (numbers are naturals, a plan has a command as
`plan.py` requires, markers are no results, segments are sets of known phases, as
`_validate_phases` requires, no model is named like a capability); TLC evaluates
them.

* `OrchestratorProofs`, the graph: `GraphTypeCorrect`, `PlanShapesWaves`, `PlanIsSound`
  and the action property `DependenciesKeepPlannable`. The invariant relates the
  parts of the planner's state: planned waves, current layer and unscheduled tasks
  partition the graph, a layer's dependencies are all planned, a refusal leaves
  unscheduled tasks of which none is ready (or comes from a `max_parallelism` below
  one), and every planned graph is plannable. In a refusal the unscheduled tasks wait
  for each other or for unknown ids, so no order exists; in a plan no set of tasks
  can, by the first wave that has one of them. That a wave is neither empty nor too
  wide follows from the ranks of the sort order. That `add_dependency` keeps a graph
  plannable: tasks that would wait for each other after the new edge did so before
  it, within the set that `_creates_cycle` searched.
* `WaveEngineProofs`: `EngineTypeCorrect`, `WavesAreAccounted` and the action property
  `OutcomesAreFinal`, for any caller: any tasks, any waves one after the other, with or
  without a cancel event. The invariant (`EngineRecord`) ties what is noted of a task to
  where its executor is: nothing while it lives, an outcome once it is done.
* `OrchestratorProofs`, the run: `TypesCorrect`, `DispatchIsSound`, `RetriesAreBounded`,
  `VerdictIsSound`, `SettledStaysSettled`, and `RunImplementsLedger`, the
  refinement. The safety properties are not inductive: the invariant adds which
  tasks are in the current wave, that waves before the cursor are settled or
  staged, and how runs, retries, replacement and signature counts bound each
  other at each place of `run()`. `RunDrivesEngine` says that a run is one of the
  engine's callers, its steps being steps of the engine or none; from it and the
  engine's theorems follow `RunWavesAreAccounted` and `RunOutcomesAreFinal`.
* `GovernanceProofs`, the control plane: `PlaneTypeCorrect`, `TrailIsSound`,
  `ApprovalsAreHuman`, and the action property `ApprovalIsInTime`. The lemma
  `AuthorizeGrows` says once what an authorization adds to the trail; every
  authorizing step cites it.
* `CodingLoopProofs`: `LoopTypeCorrect`, `ReportsAreCurrent`,
  `VerdictsAreEvidenced`, `BoundsAreHeld`. `CodingInv` adds what holds at each place
  of `run()`: records of the current revision while the plan is executed, a
  complete failed execution between two of them, and that what `check()` found is
  still so when it is used. `StallInv` relates the window to the streak: the window
  ends with exactly the streak's signatures.
* `WorkflowProofs`: `WorkflowTypeCorrect`, `MergesAreEarned`, `ChangesMergeOnce`,
  `CompletionIsHonest`, `MemoryIsUnderCertificate`, `ChainsAreValid`, and
  `WorkflowImplementsLedger`, the refinement. `RowsMove`
  names the ways a step may change certification's rows, so that what is about the
  rows alone (`RowsInv`) is proved once over seven moves instead of over every
  action. `MergedOnce` needs what the certificate of a merged change bound
  (`OpenChange`); `CompleteIsHonest` needs what the phases behind a segment have
  done (`SegmentSoFar`). `ChainsAreValid` follows from events being numbered
  without a gap: `next_sequence` counts them, and a reset deletes them all. The
  refinement maps each of the moves to a step of `ChangeLedger` or none. It needs that
  an aligned verdict is never stale (`VerdictHolds`): the gate trusts the verdict of
  the segment's `decide` phase, ledgers may be locked since, and locking only adds
  items.
* `GovernanceProofs`, pre-coding: `TypesHold`, `LineagesAreSound`, `LocksHold`, `ContractsFrozen`,
  `StartsAreCurrent`. `RowsMove` reduces every action to a new row, a lock, a bump
  in place or a new version. One successor per version is not inductive: it needs
  that a child's identity is its parent's base with the child's version at birth,
  that identities are unique, and that a base belongs to one line. The contract
  stands because the rows of a context are locked, and a locked row is not touched.
* `AssessmentProofs`: `WavesAreWhole`, `EvidenceHolds`, `EligibilityIsEarned`,
  `RepairsAreBounded`. The invariant says what each module has reported for the
  probes it has done (`Reported`), that a wave that returned has nothing left that
  could write (`Returned`), and hence that decisions rest on all there is. The
  repair loop's part (`LoopInv`) says that at most one loop runs, for the last wave
  that has begun, and that iterations, repairs, packages and the window grow
  together, all on one claim.
* `ProvidersProofs`: `ProvidersTypeCorrect`, `FailuresAreTraceless`,
  `SerialUseIsFaithful`, `ProofsAreIsolated`, `RequestsAreHonest`. Every call brings a
  number of its own, so a state that a call is about to make is none that exists
  (`Placed`), what a call holds is what its sandbox held when it began (`Working`),
  and in a sandbox used serially that is what callers were told (`Exact`).

* `StoreProofs`: `StoreTypesCorrect`, `SchemaStaysSound`, `SeedIsWhole`,
  `ResetOrderIsSafe`, for any processes, starts, migrations, injected failures and
  resets. First the schema and the rows, which are data: the migration gives each of
  the 31 tables the targets its model declares, after the tables these are, and drops
  them in the reverse order (`EachStatement`, `UpgradeClosed`, `ModelsMigrated`); a row
  refers to earlier rows, of tables its own one targets (`EachSeed`, `SeedRefs`). The invariant (`StoreInv`) then says why
  each statement finds what it needs. `WorkLeft`: who creates tables has every missing
  one on its list, so the first of the list finds its targets, whoever made them.
  `RowsSound`: stored rows refer along the keys of their table, and to rows there are
  unless a reset has run without enforced keys. `WriterSound` and `SeenSound`: the
  writer overwrites no committed row, and what a process looked up before it held the
  lock is still so, since only resets remove rows while a process seeds; hence a commit
  has the whole scenario (`SeedComplete`). `ResetOrderSafe` needs that a failure's
  evidence is never of a run the failure is not of, so that it goes first. The models
  and the rows are those of the source, not parameters; SMT enumerates them. TLC has checked `StoreInv` on the
  instance of `store` as well.

Model-checked only: the liveness properties (`WaveEnds`, `RunEnds`,
`OnlyDeciderHangs`, `AssessmentEnds`, `ProofEnds`) with `CancelTakesEffect`: fairness is
outside the prover's reach. Every other property of a run that passes is stated by a
theorem. The counterexamples of the other runs are TLC's.

## 5. Findings

Checked as runs:

1. `duplicate_allowed`: the duplicate guard reads the latest record only
   (`control.py:295`); the denial of a first duplicate hides the execution, and
   the second duplicate is allowed. That none is allowed right after an execution
   is what does hold (in `TrailSound`).
2. `merged_fabricated`: `resume_workflow` marks the task MERGED after every segment
   that completed, also one without a merge phase (`reliability.py:326`), although
   the workflow "never fabricates evidence, certification, or merge state"
   (`orchestrate.py:8-9`). On a run that was reset, resuming the single phase
   `discover` is enough.

Stated in the modules and refuted when added to the INVARIANTS of the run named
(they are not runs of their own, because they ask the same instance):

3. `SerializedNeverConcurrent` (`MCOrchestrator`): `graph.py:13-14` says a SERIALIZED
   task "must never run concurrently with anything". An executor that does not
   stop when its timeout cancels it is left behind by the wave's budget
   (`orchestrator.py:523`); the retry of its own task then runs beside it.
4. `RecordedOnce` (`MCOrchestrator`): after such a wave `_execute_wave` reads the
   engine's last telemetry, which is the previous wave's, and records it again
   (`orchestrator.py:535`; `telemetry.py:63` records "one completed wave's
   telemetry").
5. `ExhaustionBlocks` (`MCCodingLoop`): a repair that uses up `max_repair_attempts`
   is applied to the workspace, and the execution that should test it raises
   BoundsExhaustedError out of `run()` (`agent.py:237`), although "exhaustion and
   no-progress BLOCK the loop and are reported, never hidden" (`agent.py:22-23`). A
   plan that meets `max_commands` half way, or the end of its time, does the same.
6. `HistoryKept` (`MCStore`): `reset_workflow()` deletes every evidence and failure
   row of the run (`reliability.py:445`); for the seeded run, without foreign keys
   enforced, these are the test evidence the certified delta cites and the failure
   the seed preserves, although "historical evidence, archaeology, certificates,
   and memory rows are NEVER deleted" (`reliability.py:359-360`).
7. `RenewalPasses` (`MCPreCoding`): gate and barrier read the first row of a task in
   primary-key order. After a bump, or a second build, that may be the old row, and
   a task whose newest rows are all there and locked is refused.
8. `RepairsWhatFailed` (`MCAssessment`): every delta is PENDING as it was computed, so
   the repair loop packages the first claim of the request, also when evidence
   supports that claim and contradicts another.
9. `ChainTraversable` (`MCAssessment`): evidence with a known content hash is the row
   that was recorded first, with the claim it has; a record of a later wave for
   another claim is not found from its own claim. `ResultWhole` and
   `EvidenceSpeaks` do not see this: they speak of the records a wave returns, not
   of the rows that are stored for them.

Observed beside the runs, without a property of their own.

* Runtime: a reconciler is dispatched after a dependency that was settled as stale
  (`orchestrator.py:596-617` against `graph.py:11-12`); an empty plan reports
  COMPLETED in phase DISPATCHING; an executor's own CancelledError is swallowed and
  its wave COMPLETED (`waves.py:179-180`); a cancel event set after a task of the
  wave has ended cancels nothing, as `run_wave` looks at it when its first wait ends
  only (`waves.py:210`); a coding loop whose decider hangs outlives its runtime
  budget.
* Workflow: a candidate whose re-verification failed stays FAILED through
  `reset_workflow`, and `build_demo_scenario` then finds none, so that the task cannot
  be run again (`reliability.py:8-9` promises a re-execution); a task stays MERGED
  through a reset and cannot be resumed; a DRAFT certificate is never upgraded, and a
  certificate is CERTIFIED although the candidate has just failed, the gate being
  what refuses it; a resumed segment starts from its first phase, not "from the
  resume point" (`reliability.py:248`).
* Pre-coding: a bumped ledger or plan keeps the status LOCKED while it is unlocked,
  and has no items or cases; the verdict BLOCKED can carry a context that says
  locked; an in-place bump makes a child's version exceed its parent's by more than
  one; two bumps of one ledger fork its lineage, which only a unique identity
  forbids; conflicts of REPLACE items are lost by a bump
  (`intent_ledger.py:233-236`); no production code calls the gate or a bump.
* Verification: evidence is only ever bound to the first claim of the caller's list;
  mutations pile up in one copy, so that a later one may be killed by an earlier
  one; a mutation killed by a crash contradicts the claim although its module
  PASSED, and so does a differential, ghost or metamorphic probe whose command
  exits with another code than 0; mutation testing without mutations has PASSED
  without evidence; modules of a wave that raised write on; candidates of a second
  repair loop are numbered from 2 again; `INELIGIBLE:NO_CLAIM_BINDING` is never
  produced; the kinds of `delta/intent.py` match no compiled item.
* Store: of two workers that start together one may die in `create_all` ("table
  already exists") or in the seed (IntegrityError), although both are called
  idempotent; a killed `upgrade` leaves tables without a stamp, so that the next one
  fails, as it does on a database `create_all` made; a bootstrap that drops leaves the
  stamp, so that `upgrade` does nothing; seeding after a reset restores evidence
  under a new id while the delta keeps the old one.
* Providers: overlapping durable calls of one sandbox lose all updates but the last
  (`SerialUseIsExact` asks for serial use); a destroyed sandbox is put back by a call
  that was pending; with a base image given by its uuid all sandboxes share one key
  and creating one resets it; nothing destroys a proof's sandbox;
  `model_max_retries` counts attempts; one tier without a model refuses every explicit
  model id; a completion without choices is not retried, nor is status 408.
* The application of `apps/api/app/main.py` cannot be imported, as its routers need
  `app/clients/`, whose modules import a `.config` that package does not have; and it
  has no `create_app`, which `tests/test_api.py` imports. The proof endpoint is
  modelled from its own route module and what that calls.

## 6. Abstractions

* Payloads, messages, confidence, evidence references, times and durations are
  left out; statuses, ids and counts stay.
* One `run()` per orchestrator and per coding loop, which is how their callers
  use them; a second run would inherit telemetry and counters.
* An executor factory that raises leaves `run()` and is not modelled, nor is the
  `except Exception` around `run_wave`, which composes its failures instead of
  raising. In the state "cancelling", returning a result also stands for an
  executor that was done just before it was cancelled.
* Rollback, deletion and destruction of a sandbox are not part of the coding loop's
  model (they are in `Sandboxes`). Database failures are in `Store` only.
* Workflow: one task with one run and one claim. Rows that nothing in the workflow
  changes (claim, deltas, evidence of the claim) are left out of what a certificate
  binds; deltas that are recorded after it was built are not modelled. Hashes are
  taken to be collision-free and rows to be changed by this code only, so the hash
  and key checks hold and are left out of `Intact`. Two sessions at work on one run
  are not modelled, except that ledgers are locked by others.
* Pre-coding: constitution and claims do not change; texts are reduced to the
  dimension of a statement, whether its wording is accepted, and the claims it
  shares terms with. Lengths of columns are left out.
* Assessment: callers are sequential, as the tests and the workflow are; the
  outcome of a probe's command and of its oracle are free; within one wave, records
  with one id have one exit code and severity.
* Store: SQLite, as the default URLs have it, with one write lock; tables are dropped
  only while no process starts; an injection or a reset is one step with its
  caller's commit; columns that are no key, and indexes, are left out.
* Providers: contents of files, outputs, usage figures and health probes are left
  out; `_states` of the adapter is written and never read; ids the server gives are
  fresh.

## 7. Not modelled, and what is left

Not modelled, because there is no behaviour a model checker would add to:

* Wire contracts (`packages/contracts`): declarations and a registry that does not
  change after import. Web console, scripts (`phase_gate.py` audits the repository),
  infrastructure, the placeholder packages.
* Routers of the HTTP service that project rows of the store (the read adapters), and
  the application and clients that cannot be imported.
* Agent state machine, loop controls, runtime tool gates and capabilities: tables,
  two counters and set inclusions that nothing in `run()` or in another package uses.
* Tool execution, development sandbox control and the wiring in `assembly.py`: one
  awaited process with a timeout; what would be left without the text handling is
  the `HandlerEnds` of `ControlPlane`.
* `replay` reads a chain and reports; conflict detection writes to the decision log
  only; `force_set` is called by a test only; the queries of provenance and snapshots
  change nothing.

Left to do, in the order of importance: two sessions on one run of the workflow, with
`cleanup_stale_sandboxes` and the run looked up by its task; an abstract specification
of a change's way from its request to its certificate, across `PreCoding` and
`Assessment`, to which `ChangeLedger` would be joined; concurrent `activate()` calls.

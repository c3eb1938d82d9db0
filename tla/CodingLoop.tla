----------------------------- MODULE CodingLoop -----------------------------
(***************************************************************************)
(* The Coding Agent's loop (smorx_develop/agent.py): behind the execution  *)
(* barrier it takes a checkpoint, executes the plan's commands, and then   *)
(* asks its decider for repairs, each of which is applied to the workspace *)
(* and followed by another execution of the plan, until the plan passes, a *)
(* bound or the no-progress window ends it, or the decider stops.          *)
(*                                                                         *)
(* Every step between two awaits is one action; time passes between any    *)
(* two of them.  One run() of one loop object is modelled.                 *)
(***************************************************************************)
EXTENDS LoopBounds

CONSTANTS
  PlanLength,  \* number of plan.tests_to_run
  Failures     \* failure code and exit code of a failing record

\* build_development_plan() refuses a plan without tests.
ASSUME PlanAssumption == PlanLength \in Nat \ {0}

VARIABLES
  authorized,  \* run()'s argument
  pc,          \* where run() is
  ran,         \* records of the plan's current execution, and
  failing,     \* the failures among them, and
  ranOn,       \* the revisions of the workspace they ran on
  revision,    \* mutations applied to the workspace
  result,      \* final state and termination, or what run() raised
  streak       \* history: equal signatures in a row, and the last one

loopVars == <<authorized, pc, ran, failing, ranOn, revision, result, streak>>
vars == <<boundsVars, loopVars>>

NoResult == [state |-> "none", kind |-> "none"]
Passed == [state |-> "CANDIDATE_PASSED", kind |-> "SUCCESS_EVIDENCED"]
Stopped == [state |-> "CANDIDATE_FAILED", kind |-> "STOP_REQUESTED"]
Blocked(kind) == [state |-> "BLOCKED", kind |-> kind]
Raised(error) == [state |-> "raised", kind |-> error]

Outcomes ==
  {NoResult, Passed, Stopped,
   Blocked("POLICY_STOP"), Blocked("BOUNDS_EXHAUSTED"), Blocked("NO_PROGRESS"),
   Raised("SandboxError"), Raised("DirectiveError"), Raised("BoundsExhaustedError")}

TypeOK ==
  /\ BoundsTypeOK
  /\ signatures \in Seq(Seq(Failures))
  /\ authorized \in BOOLEAN
  /\ pc \in {"barrier", "checkpoint", "executing", "running", "checking", "deciding", "ended"}
  /\ ran \in 0 .. PlanLength
  /\ failing \in Seq(Failures) /\ Len(failing) <= ran
  /\ ranOn \subseteq Nat
  /\ revision \in Nat
  /\ result \in Outcomes
  /\ streak \in [count : Nat, of : Seq(Failures)]

Init ==
  /\ BoundsInit
  /\ authorized \in BOOLEAN
  /\ pc = "barrier"
  /\ ran = 0 /\ failing = <<>> /\ ranOn = {}
  /\ revision = 0
  /\ result = NoResult
  /\ streak = [count |-> 0, of |-> <<>>]

EndWith(r) == pc' = "ended" /\ result' = r

-----------------------------------------------------------------------------
(* Before the loop *)

\* barrier.evaluate(): it blocks an unsound context and an unauthorized task.
EvaluateBarrier ==
  /\ pc = "barrier"
  /\ \E sound \in BOOLEAN :
       IF sound /\ authorized
         THEN pc' = "checkpoint" /\ UNCHANGED result
         ELSE EndWith(Blocked("POLICY_STOP"))
  /\ UNCHANGED <<boundsVars, authorized, ran, failing, ranOn, revision, streak>>

\* checkpoint("pre-candidate"): the provider's may fail.
Checkpoint ==
  /\ pc = "checkpoint"
  /\ \/ pc' = "executing" /\ UNCHANGED result
     \/ EndWith(Raised("SandboxError"))
  /\ UNCHANGED <<boundsVars, authorized, ran, failing, ranOn, revision, streak>>

-----------------------------------------------------------------------------
(* _execute_plan(): one command after another *)

\* Faulty variant: the error is swallowed and the command tried again.
StartCommandAgain ==
  /\ pc = "executing"
  /\ ~Exhausted
  /\ pc' = "running" /\ commands' = commands + 1
  /\ UNCHANGED <<bounds, iteration, repairs, expired, signatures, authorized, ran, failing,
                 ranOn, revision, result, streak>>

\* execute_command() up to the sandbox: nothing catches what check() raises here.
StartCommand ==
  /\ pc = "executing"
  /\ IF Exhausted
       THEN EndWith(Raised("BoundsExhaustedError")) /\ UNCHANGED commands
       ELSE pc' = "running" /\ commands' = commands + 1 /\ UNCHANGED result
  /\ UNCHANGED <<bounds, iteration, repairs, expired, signatures, authorized, ran, failing,
                 ranOn, revision, streak>>

\* The program does not exist, or the sandbox is gone.
CommandRaises ==
  /\ pc = "running"
  /\ EndWith(Raised("SandboxError"))
  /\ UNCHANGED <<boundsVars, authorized, ran, failing, ranOn, revision, streak>>

\* A command of the plan's execution ends before the plan does.
CommandEnds(fails) ==
  /\ pc = "running"
  /\ ran + 1 < PlanLength
  /\ pc' = "executing"
  /\ ran' = ran + 1
  /\ failing' = failing \o fails
  /\ ranOn' = ranOn \cup {revision}
  /\ UNCHANGED <<boundsVars, authorized, revision, result, streak>>

CountSignature(sig) ==
  streak' = [count |-> IF streak.count > 0 /\ streak.of = sig THEN streak.count + 1 ELSE 1,
             of |-> sig]

\* The last command of the plan ends, and run() counts the iteration and draws its
\* conclusion before it awaits anything.
PlanRan(fails) ==
  /\ pc = "running"
  /\ ran + 1 = PlanLength
  /\ ran' = ran + 1
  /\ failing' = failing \o fails
  /\ ranOn' = ranOn \cup {revision}
  /\ iteration' = iteration + 1
  /\ UNCHANGED <<bounds, commands, repairs, expired, authorized, revision>>

\* The plan's first execution: the signature of its failures is not recorded.
FirstPlanEnds(fails) ==
  /\ iteration = 0
  /\ PlanRan(fails)
  /\ IF failing' = <<>>
       THEN EndWith(Passed)
       ELSE pc' = "checking" /\ UNCHANGED result
  /\ UNCHANGED <<signatures, streak>>

\* Faulty variant: only the last command's record is looked at.
PlanEndsOnLast(fails) ==
  /\ iteration > 0
  /\ PlanRan(fails)
  /\ IF fails = <<>>
       THEN EndWith(Passed)
       ELSE pc' = "checking" /\ UNCHANGED result
  /\ UNCHANGED <<signatures, streak>>

\* An execution after a repair.
PlanEnds(fails) ==
  LET sig == failing \o fails
  IN /\ iteration > 0
     /\ PlanRan(fails)
     /\ IF sig = <<>>
          THEN EndWith(Passed) /\ UNCHANGED <<signatures, streak>>
          ELSE /\ RecordSignature(sig)
               /\ CountSignature(sig)
               /\ IF StalledOn(sig)
                    THEN EndWith(Blocked("NO_PROGRESS"))
                    ELSE pc' = "checking" /\ UNCHANGED result

-----------------------------------------------------------------------------
(* The head of the loop and the decider's directive *)

CheckBounds ==
  /\ pc = "checking"
  /\ IF Exhausted
       THEN EndWith(Blocked("BOUNDS_EXHAUSTED"))
       ELSE pc' = "deciding" /\ UNCHANGED result
  /\ UNCHANGED <<boundsVars, authorized, ran, failing, ranOn, revision, streak>>

\* The decider raises, or decide() refuses its directive: an unknown action, or a
\* repair without a diagnosis.
DirectiveRaises ==
  /\ pc = "deciding"
  /\ EndWith(Raised("DirectiveError"))
  /\ UNCHANGED <<boundsVars, authorized, ran, failing, ranOn, revision, streak>>

Stop ==
  /\ pc = "deciding"
  /\ EndWith(Stopped)
  /\ UNCHANGED <<boundsVars, authorized, ran, failing, ranOn, revision, streak>>

\* Faulty variants: the plan is not executed again; the last execution's failures stay.
RepairUnexecuted(mutated) ==
  /\ pc = "deciding"
  /\ authorized
  /\ repairs' = repairs + 1
  /\ revision' = IF mutated THEN revision + 1 ELSE revision
  /\ pc' = "checking"
  /\ UNCHANGED <<bounds, iteration, commands, expired, signatures, authorized, ran, failing,
                 ranOn, result, streak>>

RepairOnTop(mutated) ==
  /\ pc = "deciding"
  /\ authorized
  /\ repairs' = repairs + 1
  /\ revision' = IF mutated THEN revision + 1 ELSE revision
  /\ pc' = "executing"
  /\ ran' = 0 /\ ranOn' = {}
  /\ UNCHANGED <<bounds, iteration, commands, expired, signatures, authorized, failing,
                 result, streak>>

\* An allowed repair, with a mutation or without one, and the start of the plan's
\* next execution.  decide() denies one without authorization.
Repair(mutated) ==
  /\ pc = "deciding"
  /\ IF authorized
       THEN /\ repairs' = repairs + 1
            /\ revision' = IF mutated THEN revision + 1 ELSE revision
            /\ pc' = "executing"
            /\ ran' = 0 /\ failing' = <<>> /\ ranOn' = {}
            /\ UNCHANGED result
       ELSE /\ EndWith(Blocked("POLICY_STOP"))
            /\ UNCHANGED <<repairs, ran, failing, ranOn, revision>>
  /\ UNCHANGED <<bounds, iteration, commands, expired, signatures, authorized, streak>>

\* The mutation is refused: its path leaves the workspace, or the write fails.
RepairRaises ==
  /\ pc = "deciding"
  /\ authorized
  /\ repairs' = repairs + 1
  /\ EndWith(Raised("SandboxError"))
  /\ UNCHANGED <<bounds, iteration, commands, expired, signatures, authorized, ran, failing,
                 ranOn, revision, streak>>

TimeExpires ==
  /\ pc # "ended"
  /\ ~expired
  /\ expired' = TRUE
  /\ UNCHANGED <<bounds, iteration, commands, repairs, signatures, loopVars>>

-----------------------------------------------------------------------------

Verdicts == {<<>>} \cup {<<f>> : f \in Failures}

\* Commands end: the runner kills one that exceeds its timeout.
CommandStep ==
  \/ CommandRaises
  \/ \E fails \in Verdicts : CommandEnds(fails) \/ FirstPlanEnds(fails) \/ PlanEnds(fails)

OwnStep == EvaluateBarrier \/ Checkpoint \/ StartCommand \/ CommandStep \/ CheckBounds

DeciderStep == DirectiveRaises \/ Stop \/ (\E m \in BOOLEAN : Repair(m)) \/ RepairRaises

Next == OwnStep \/ DeciderStep \/ TimeExpires

Spec == Init /\ [][Next]_vars

\* The loop runs and its commands end; nothing is assumed of the decider, which
\* run() awaits without a timeout.
FairSpec == Spec /\ WF_vars(OwnStep)

-----------------------------------------------------------------------------

\* LoopResult speaks of the candidate as it is: every command of the plan was executed
\* on the workspace with its last mutation, whatever ended the loop.
ReportIsCurrent ==
  result \in {Passed, Stopped} \cup {Blocked("NO_PROGRESS"), Blocked("BOUNDS_EXHAUSTED")} =>
    ran = PlanLength /\ ranOn = {revision}

\* CANDIDATE_PASSED is never reported without a complete execution in which nothing
\* failed, and no failed candidate is reported as one.
VerdictIsEvidenced ==
  pc \in {"checking", "deciding", "ended"} /\ result \in {NoResult, Passed, Stopped} =>
    (result = Passed <=> ran = PlanLength /\ failing = <<>>)

\* The budget is never overdrawn, and no mutation escapes it.
BudgetKept ==
  /\ iteration <= bounds.max_iterations
  /\ commands <= bounds.max_commands
  /\ repairs <= bounds.max_repair_attempts
  /\ revision <= repairs

\* NO_PROGRESS is reported exactly when as many executions in a row as the threshold
\* says have failed alike.
StallIsReported == result = Blocked("NO_PROGRESS") <=> streak.count >= Threshold

\* The bounds controller as a whole (bounds.py): no budget is overdrawn, and the window
\* ends the loop neither early nor late.
BoundsHold == BudgetKept /\ StallIsReported

\* The loop ends, unless it waits for its decider for ever.
OnlyDeciderHangs == <>[](pc = "ended") \/ <>[](pc = "deciding")

\* agent.py:22-23 "exhaustion and no-progress BLOCK the loop and are reported, never
\* hidden": a bound that runs out while there is time left is no error of run().
ExhaustionBlocks == ~expired => result # Raised("BoundsExhaustedError")

=============================================================================

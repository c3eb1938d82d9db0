----------------------------- MODULE TaskLedger -----------------------------
(***************************************************************************)
(* What the orchestrator promises about the tasks of a run, without waves, *)
(* timeouts, retries' reasons or telemetry: groups of tasks are started    *)
(* when what they depend on is settled, every started group is settled     *)
(* before the next one starts, a failed task is tried again at most a      *)
(* bounded number of times, and the run ends COMPLETED only when no task   *)
(* is left behind and BLOCKED only because a task failed.                  *)
(***************************************************************************)
EXTENDS Naturals

CONSTANTS
  MaxAttempts   \* how often one task may be started, a number

VARIABLES
  tasks,      \* task id -> the set of ids it depends on; never changes
  status,     \* task id -> its status
  attempts,   \* task id -> how often it was started
  outcome     \* how the run ended, "none" while it runs

vars == <<tasks, status, attempts, outcome>>

Statuses == {"QUEUED", "RUNNING", "SUCCEEDED", "FAILED", "CANCELLED"}

\* A task that will not run again.  A result that is not of the issued assignment
\* settles its task as CANCELLED: it is ignored and not retried.
Settled(t) == status[t] \in {"SUCCEEDED", "CANCELLED"}

Init ==
  /\ status = [t \in DOMAIN tasks |-> "QUEUED"]
  /\ attempts = [t \in DOMAIN tasks |-> 0]
  /\ outcome = "none"

Start(S) ==
  /\ outcome = "none"
  /\ S # {}
  /\ \A t \in DOMAIN tasks : status[t] # "RUNNING"
  /\ \A t \in S :
       /\ status[t] \in {"QUEUED", "FAILED"}
       /\ attempts[t] < MaxAttempts
       /\ \A d \in tasks[t] : d \in DOMAIN tasks /\ Settled(d)
  /\ status' = [t \in DOMAIN tasks |-> IF t \in S THEN "RUNNING" ELSE status[t]]
  /\ attempts' = [t \in DOMAIN tasks |-> IF t \in S THEN attempts[t] + 1 ELSE attempts[t]]
  /\ UNCHANGED <<tasks, outcome>>

Settle ==
  /\ outcome = "none"
  /\ \E t \in DOMAIN tasks : status[t] = "RUNNING"
  /\ status' \in [DOMAIN tasks -> Statuses]
  /\ \A t \in DOMAIN tasks :
       IF status[t] = "RUNNING" THEN status'[t] \in {"SUCCEEDED", "FAILED", "CANCELLED"}
       ELSE status'[t] = status[t]
  /\ UNCHANGED <<tasks, attempts, outcome>>

Complete ==
  /\ outcome = "none"
  /\ \A t \in DOMAIN tasks : Settled(t)
  /\ outcome' = "COMPLETED"
  /\ UNCHANGED <<tasks, status, attempts>>

Block ==
  /\ outcome = "none"
  /\ \A t \in DOMAIN tasks : status[t] # "RUNNING"
  /\ \E t \in DOMAIN tasks : status[t] = "FAILED"
  /\ outcome' = "BLOCKED"
  /\ UNCHANGED <<tasks, status, attempts>>

\* The graph cannot be planned: nothing is started.
Refuse ==
  /\ outcome = "none"
  /\ \A t \in DOMAIN tasks : attempts[t] = 0
  /\ outcome' = "ERROR"
  /\ UNCHANGED <<tasks, status, attempts>>

Next ==
  \/ \E S \in SUBSET DOMAIN tasks : Start(S)
  \/ Settle
  \/ Complete
  \/ Block
  \/ Refuse

Spec == Init /\ [][Next]_vars

=============================================================================

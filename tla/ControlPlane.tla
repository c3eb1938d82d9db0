---------------------------- MODULE ControlPlane ----------------------------
(***************************************************************************)
(* The policy-controlled tool gateway (smorx_tools/control.py) with its    *)
(* human approval plane (human.py) and its audit trail (audit.py): agents  *)
(* call tools concurrently, a human requests, decides, pauses and aborts   *)
(* meanwhile, and approvals expire with time.                              *)
(*                                                                         *)
(* The gateway runs on one event loop: a call is authorised in one step,   *)
(* up to the await of its handler, and its outcome is recorded in another. *)
(* An operation is identified by its (action_id, tool_name) pair.  What    *)
(* the rules of the policy engine say of a pair is a constant; arguments,  *)
(* results and the fields of records that no decision reads are left out.  *)
(***************************************************************************)
EXTENDS Integers, Sequences

CONSTANTS
  Calls,        \* invocations of authorize(), execute() or execute_request()
  Operations,   \* the (action_id, tool_name) pairs they name
  Verdicts,     \* operation -> the policy decisions its callers may get
  Statuses,     \* statuses a handler's result may have (ERROR also when it raises)
  MaxRequests   \* bound: approval requests ever opened

PolicyDecisions == {"ALLOW", "DENY", "REQUIRE_REVIEW", "BLOCK"}

ResultStatuses ==
  {"SUCCEEDED", "FAILED", "TIMEOUT", "ERROR", "DENIED", "BLOCKED", "UNAVAILABLE", "PENDING_REVIEW"}

ASSUME VerdictsAssumption == Verdicts \in [Operations -> SUBSET PolicyDecisions]
ASSUME StatusesAssumption == Statuses \subseteq ResultStatuses

VARIABLES
  stage,      \* where each call is
  operation,  \* the operation each call named
  audit,      \* the audit trail, oldest record first
  control,    \* state of the human control plane
  requests    \* its approval requests, oldest first

planeVars == <<stage, operation, audit, control, requests>>

AuditDecisions ==
  {"ALLOWED", "DENIED", "REVIEW", "BLOCKED", "EXECUTED", "FAILED", "TIMEOUT", "CANCELLED"}

\* A record of an authorization has an empty status in the code, one of an execution has not.
Records == [call : Calls, operation : Operations, decision : AuditDecisions,
            reason : {"rule", "policy", "human", "outcome"}]

Approvals == [operation : Operations, status : {"PENDING", "APPROVED", "DENIED", "EXPIRED"},
              decided : BOOLEAN,     \* decided_at is set
              overdue : BOOLEAN]     \* expires_at is in the past

PlaneInit ==
  /\ stage = [c \in Calls |-> "idle"]
  /\ operation \in [Calls -> Operations]
  /\ audit = <<>>
  /\ control = "RUNNING"
  /\ requests = <<>>

-----------------------------------------------------------------------------
(* The human control plane *)

\* Faulty variant: an approval once given does not expire.
PrunedPending ==
  [i \in DOMAIN requests |->
     IF requests[i].status = "PENDING" /\ requests[i].overdue
     THEN [requests[i] EXCEPT !.status = "EXPIRED"] ELSE requests[i]]

\* _prune(): requests are marked EXPIRED when somebody looks, not when time passes.
Pruned ==
  [i \in DOMAIN requests |->
     IF requests[i].status \in {"PENDING", "APPROVED"} /\ requests[i].overdue
     THEN [requests[i] EXCEPT !.status = "EXPIRED"] ELSE requests[i]]

\* r is the request approval_for() returns: the latest of its operation, in any status.
LatestFor(op, r) ==
  /\ r \in DOMAIN requests /\ requests[r].operation = op
  /\ \A q \in DOMAIN requests : requests[q].operation = op => q <= r

\* Faulty variant: a request counts as soon as it is open.
RequestedFor(op) == \E r \in DOMAIN requests :
  LatestFor(op, r) /\ Pruned[r].status \in {"PENDING", "APPROVED"}

ApprovedFor(op) == \E r \in DOMAIN requests : LatestFor(op, r) /\ Pruned[r].status = "APPROVED"

RequestApproval(op) ==
  /\ Len(requests) < MaxRequests
  /\ requests' = Append(requests, [operation |-> op, status |-> "PENDING",
                                   decided |-> FALSE, overdue |-> FALSE])
  /\ UNCHANGED <<stage, operation, audit, control>>

\* approve() and deny() look at the status only: an overdue request that nobody pruned
\* is still PENDING for them.
Decide(r, status) ==
  /\ r \in DOMAIN requests /\ requests[r].status = "PENDING"
  /\ requests' = [requests EXCEPT ![r] =
                    [operation |-> @.operation, status |-> status, decided |-> TRUE, overdue |-> @.overdue]]
  /\ UNCHANGED <<stage, operation, audit, control>>

\* The clock passes expires_at.
TimePasses(r) ==
  /\ r \in DOMAIN requests /\ ~ requests[r].overdue
  /\ requests' = [requests EXCEPT ![r] = [operation |-> @.operation, status |-> @.status,
                                           decided |-> @.decided, overdue |-> TRUE]]
  /\ UNCHANGED <<stage, operation, audit, control>>

\* pending_approvals(), approval_for() and is_approved_for() prune for any reader.
ReadApprovals ==
  /\ requests' = Pruned
  /\ UNCHANGED <<stage, operation, audit, control>>

\* Neither pause() nor resume() gets the plane out of ABORTED.
Pause ==
  /\ control # "ABORTED"
  /\ control' = "PAUSED"
  /\ UNCHANGED <<stage, operation, audit, requests>>

Resume ==
  /\ control = "PAUSED"
  /\ control' = "RUNNING"
  /\ UNCHANGED <<stage, operation, audit, requests>>

Abort ==
  /\ control' = "ABORTED"
  /\ UNCHANGED <<stage, operation, audit, requests>>

-----------------------------------------------------------------------------
(* _authorize(), and execution up to the await of the handler *)

Entry(c, d, why) == [call |-> c, operation |-> operation[c], decision |-> d, reason |-> why]

\* A refused call ends here, and so does an allowed one of authorize().  Execution ends
\* at once without the sandbox the tool requires, and without a handler.
Authorize(c, d, why) ==
  /\ stage[c] = "idle"
  /\ \/ /\ d # "ALLOWED"
        /\ stage' = [stage EXCEPT ![c] = "refused"]
        /\ audit' = Append(audit, Entry(c, d, why))
     \/ /\ d = "ALLOWED"
        /\ \E s \in {"authorized", "handling"} : stage' = [stage EXCEPT ![c] = s]
        /\ audit' = Append(audit, Entry(c, d, why))
     \/ /\ d = "ALLOWED"
        /\ stage' = [stage EXCEPT ![c] = "finished"]
        /\ \E missing \in {"CANCELLED", "FAILED"} :
             audit' = Append(Append(audit, Entry(c, d, why)), Entry(c, missing, "outcome"))
  /\ UNCHANGED <<operation, control>>

\* Faulty variant: the guard looks at the oldest record of the operation.
DuplicateOfOldest(op) == \E i \in DOMAIN audit :
  /\ audit[i].operation = op /\ audit[i].decision = "EXECUTED"
  /\ \A j \in DOMAIN audit : audit[j].operation = op => i <= j

\* The duplicate guard looks at the latest record of the operation (_latest_for).
Duplicate(op) == \E i \in DOMAIN audit :
  /\ audit[i].operation = op /\ audit[i].decision = "EXECUTED"
  /\ \A j \in DOMAIN audit : audit[j].operation = op => j <= i

\* The unknown tool, the missing capability and the tool the assignment does not list:
\* a caller may always be one of these.
DeniedByRule(c) ==
  /\ Authorize(c, "DENIED", "rule")
  /\ UNCHANGED requests

DeniedAsDuplicate(c) ==
  /\ Duplicate(operation[c])
  /\ Authorize(c, "DENIED", "rule")
  /\ UNCHANGED requests

Disposition == [ALLOW |-> "ALLOWED", DENY |-> "DENIED", BLOCK |-> "BLOCKED"]

DecidedByPolicy(c) ==
  /\ ~ Duplicate(operation[c])
  /\ \E v \in Verdicts[operation[c]] \cap DOMAIN Disposition :
       Authorize(c, Disposition[v], "policy")
  /\ UNCHANGED requests

\* _resolve_review() without a human plane, or with one that is paused or aborted: the
\* requests are not even looked at.
HeldForReview(c) ==
  /\ ~ Duplicate(operation[c])
  /\ "REQUIRE_REVIEW" \in Verdicts[operation[c]]
  /\ control # "RUNNING"
  /\ Authorize(c, "REVIEW", "policy")
  /\ UNCHANGED requests

Reviewed(c) ==
  /\ ~ Duplicate(operation[c])
  /\ "REQUIRE_REVIEW" \in Verdicts[operation[c]]
  /\ control = "RUNNING"
  /\ IF ApprovedFor(operation[c]) THEN Authorize(c, "ALLOWED", "human")
     ELSE Authorize(c, "REVIEW", "policy")
  /\ requests' = Pruned

-----------------------------------------------------------------------------
(* _execute_authorized() after the await *)

\* Faulty variant: the status goes into the trail as it is.
AuditDecisionAsIs == [s \in ResultStatuses |-> s]

AuditDecisionFor ==
  [SUCCEEDED |-> "EXECUTED", FAILED |-> "FAILED", TIMEOUT |-> "TIMEOUT", ERROR |-> "FAILED",
   DENIED |-> "DENIED", BLOCKED |-> "BLOCKED", UNAVAILABLE |-> "CANCELLED",
   PENDING_REVIEW |-> "REVIEW"]

\* Faulty variant: the timeout is answered without a record.
HandlerEndsUnlogged(c, status) ==
  /\ stage[c] = "handling"
  /\ stage' = [stage EXCEPT ![c] = "finished"]
  /\ audit' = IF status = "TIMEOUT" THEN audit
              ELSE Append(audit, Entry(c, AuditDecisionFor[status], "outcome"))
  /\ UNCHANGED <<operation, control, requests>>

\* The handler returned a result of any status, raised (ERROR) or timed out (TIMEOUT).
HandlerEnds(c, status) ==
  /\ stage[c] = "handling"
  /\ stage' = [stage EXCEPT ![c] = "finished"]
  /\ audit' = Append(audit, Entry(c, AuditDecisionFor[status], "outcome"))
  /\ UNCHANGED <<operation, control, requests>>

\* The caller is cancelled while it awaits the handler: CancelledError is no Exception,
\* so it passes _execute_authorized() without a record.
CallDropped(c) ==
  /\ stage[c] = "handling"
  /\ stage' = [stage EXCEPT ![c] = "dropped"]
  /\ UNCHANGED <<operation, audit, control, requests>>

-----------------------------------------------------------------------------

HumanStep ==
  \/ \E op \in Operations : RequestApproval(op)
  \/ \E r \in DOMAIN requests : \E s \in {"APPROVED", "DENIED"} : Decide(r, s)
  \/ \E r \in DOMAIN requests : TimePasses(r)
  \/ ReadApprovals
  \/ Pause \/ Resume \/ Abort

CallStep ==
  \E c \in Calls :
    \/ DeniedByRule(c) \/ DeniedAsDuplicate(c) \/ DecidedByPolicy(c)
    \/ HeldForReview(c) \/ Reviewed(c)
    \/ \E status \in Statuses : HandlerEnds(c, status)
    \/ CallDropped(c)

PlaneNext == HumanStep \/ CallStep

PlaneSpec == PlaneInit /\ [][PlaneNext]_planeVars

-----------------------------------------------------------------------------

Stages == {"idle", "refused", "authorized", "handling", "finished", "dropped"}

\* The gateway's state is what its containers can hold; outcomes enter the trail as
\* audit decisions, never as result statuses (_audit_decision_for).
PlaneTypeOK ==
  /\ stage \in [Calls -> Stages]
  /\ operation \in [Calls -> Operations]
  /\ audit \in Seq(Records)
  /\ control \in {"RUNNING", "PAUSED", "ABORTED"}
  /\ requests \in Seq(Approvals)

DecisionsOf(c) == {i \in DOMAIN audit : audit[i].call = c /\ audit[i].reason # "outcome"}

OutcomesOf(c) == {i \in DOMAIN audit : audit[i].call = c /\ audit[i].reason = "outcome"}

\* audit.py: "one record per authorization and one per execution".  However calls and
\* human decisions interleave, each call has one authorization record, an outcome record
\* exactly when its execution ended, and an outcome only after an ALLOWED record.
CallAccounted ==
  \A c \in Calls :
    /\ DecisionsOf(c) = {} <=> stage[c] = "idle"
    /\ OutcomesOf(c) # {} <=> stage[c] = "finished"
    /\ \A i, j \in DecisionsOf(c) : i = j
    /\ \A i, j \in OutcomesOf(c) : i = j
    /\ \A i \in DecisionsOf(c) : audit[i].decision = "ALLOWED" <=> stage[c] # "refused"
    /\ \A i \in DecisionsOf(c), j \in OutcomesOf(c) :
         i < j /\ audit[i].operation = audit[j].operation

\* Whatever was allowed as human approved was approved by a human decision, one that may
\* have expired since but was never a denial (human.py: every high-risk operation must
\* pass the gate).
HumanApproved ==
  \A i \in DOMAIN audit : audit[i].reason = "human" =>
    \E r \in DOMAIN requests :
      /\ requests[r].operation = audit[i].operation
      /\ requests[r].decided /\ requests[r].status \in {"APPROVED", "EXPIRED"}

\* At the moment a call is allowed as human approved the plane runs, and the newest
\* request of its operation is approved and within its time: an approval given after
\* expiry, or overtaken by a newer request, authorises nothing.
ApprovedInTime ==
  [][\A i \in DOMAIN audit' \ DOMAIN audit : audit'[i].reason = "human" =>
       /\ control = "RUNNING"
       /\ \E r \in DOMAIN requests :
            /\ LatestFor(audit'[i].operation, r)
            /\ requests[r].status = "APPROVED" /\ ~ requests[r].overdue]_planeVars

Follows(i, j) ==
  /\ i < j /\ audit[i].operation = audit[j].operation
  /\ \A k \in i + 1 .. j - 1 : audit[k].operation # audit[i].operation

\* The record of a successful execution is never followed at once by a new permission
\* for the same operation.
NoImmediateRepeat ==
  \A i, j \in DOMAIN audit : Follows(i, j) /\ audit[i].decision = "EXECUTED" =>
    audit[j].decision # "ALLOWED"

\* What the trail shows (audit.py, the records of control.py): every call and its outcome,
\* and no permission on the heels of an execution.
TrailSound == CallAccounted /\ NoImmediateRepeat

-----------------------------------------------------------------------------
(* A statement of the documentation that the code does not keep *)

\* control.py:11-13: "an earlier record for the same (action_id, tool_name) with decision
\* EXECUTED -> DENY": no permission after any earlier execution.
DuplicatesDenied ==
  \A i, j \in DOMAIN audit :
    i < j /\ audit[i].operation = audit[j].operation /\ audit[i].decision = "EXECUTED" =>
      audit[j].decision # "ALLOWED"

=============================================================================

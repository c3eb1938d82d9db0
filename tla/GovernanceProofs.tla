-------------------------- MODULE GovernanceProofs --------------------------
(***************************************************************************)
(* Proofs about what keeps a run within bounds that were agreed: the tool   *)
(* gateway, for any number of calls, operations, approval requests and      *)
(* policies, and the pre-coding contract with its versioned rows, for any   *)
(* number of keys, claims, behaviors and versions.  The two share no state. *)
(***************************************************************************)
EXTENDS ControlPlane, PreCoding, TLAPS, WellFoundedInduction

\* Records name the operation of their call, and approved requests were decided.
OperationKept == \A i \in DOMAIN audit : audit[i].operation = operation[audit[i].call]

ApprovedDecided == \A r \in DOMAIN requests : requests[r].status = "APPROVED" => requests[r].decided

PlaneInv ==
  /\ PlaneTypeOK
  /\ OperationKept
  /\ ApprovedDecided
  /\ CallAccounted
  /\ HumanApproved
  /\ NoImmediateRepeat

Reasons == {"rule", "policy", "human"}

\* What authorising a call adds to the trail: its decision, and the outcome right after
\* it when execution ends before it began.
LEMMA AuthorizeGrows ==
  ASSUME PlaneTypeOK, NEW c \in Calls, NEW d \in AuditDecisions, NEW why \in Reasons,
         Authorize(c, d, why)
  PROVE  /\ stage[c] = "idle" /\ operation' = operation /\ control' = control
         /\ \E s \in {"refused", "authorized", "handling", "finished"} :
              /\ stage' = [stage EXCEPT ![c] = s]
              /\ s = "refused" <=> d # "ALLOWED"
              /\ Len(audit') = Len(audit) + (IF s = "finished" THEN 2 ELSE 1)
              /\ audit'[Len(audit) + 1] = Entry(c, d, why)
              /\ s = "finished" => \E m \in {"CANCELLED", "FAILED"} :
                   audit'[Len(audit) + 2] = Entry(c, m, "outcome")
         /\ \A i \in 1 .. Len(audit) : audit'[i] = audit[i]
         /\ audit' \in Seq(Records)
<1>1. /\ Entry(c, d, why) \in Records
      /\ \A m \in {"CANCELLED", "FAILED"} : Entry(c, m, "outcome") \in Records
  BY DEF Entry, Records, Reasons, PlaneTypeOK, AuditDecisions
<1>2. stage[c] = "idle" /\ operation' = operation /\ control' = control /\ audit \in Seq(Records)
  BY DEF Authorize, PlaneTypeOK
<1>3. CASE d # "ALLOWED"
  <2>1. audit' = Append(audit, Entry(c, d, why)) /\ stage' = [stage EXCEPT ![c] = "refused"]
    BY <1>3 DEF Authorize
  <2> QED BY <1>1, <1>2, <1>3, <2>1
<1>4. CASE d = "ALLOWED" /\ \E s \in {"authorized", "handling"} :
             stage' = [stage EXCEPT ![c] = s] /\ audit' = Append(audit, Entry(c, d, why))
  <2>1. PICK s \in {"authorized", "handling"} :
          stage' = [stage EXCEPT ![c] = s] /\ audit' = Append(audit, Entry(c, d, why))
    BY <1>4
  <2>2. /\ Len(audit') = Len(audit) + 1 /\ audit'[Len(audit) + 1] = Entry(c, d, why)
        /\ \A i \in 1 .. Len(audit) : audit'[i] = audit[i]
        /\ audit' \in Seq(Records)
    BY <1>1, <1>2, <2>1
  <2>3. s # "finished" /\ s # "refused"
    BY <2>1
  <2> QED BY <1>2, <1>4, <2>1, <2>2, <2>3
<1>5. CASE d = "ALLOWED" /\ stage' = [stage EXCEPT ![c] = "finished"]
           /\ \E m \in {"CANCELLED", "FAILED"} :
                audit' = Append(Append(audit, Entry(c, d, why)), Entry(c, m, "outcome"))
  BY <1>1, <1>2, <1>5
<1> QED BY <1>3, <1>4, <1>5 DEF Authorize

\* An authorization keeps the books: the gateway has no record of an idle call.
LEMMA AuthorizeAccounted ==
  ASSUME PlaneInv, NEW c \in Calls, NEW d \in AuditDecisions, NEW why \in Reasons,
         Authorize(c, d, why)
  PROVE  /\ requests' \in Seq(Approvals) => PlaneTypeOK'
         /\ OperationKept'
         /\ CallAccounted'
<1> DEFINE n == Len(audit)
<1> USE DEF PlaneInv
<1>1. /\ stage[c] = "idle" /\ operation' = operation /\ control' = control
      /\ \A i \in 1 .. n : audit'[i] = audit[i]
      /\ audit' \in Seq(Records) /\ n \in Nat
      /\ DOMAIN audit = 1 .. n /\ DOMAIN audit' = 1 .. Len(audit')
  BY AuthorizeGrows DEF PlaneTypeOK
<1>2. PICK s \in {"refused", "authorized", "handling", "finished"} :
        /\ stage' = [stage EXCEPT ![c] = s]
        /\ s = "refused" <=> d # "ALLOWED"
        /\ Len(audit') = n + (IF s = "finished" THEN 2 ELSE 1)
        /\ audit'[n + 1] = Entry(c, d, why)
        /\ s = "finished" => \E m \in {"CANCELLED", "FAILED"} : audit'[n + 2] = Entry(c, m, "outcome")
  BY AuthorizeGrows
<1>3. requests' \in Seq(Approvals) => PlaneTypeOK'
  BY <1>1, <1>2 DEF PlaneTypeOK, Stages
<1>4. OperationKept'
  BY <1>1, <1>2 DEF OperationKept, Entry
<1>5. DecisionsOf(c) = {} /\ OutcomesOf(c) = {}
  BY <1>1 DEF CallAccounted
<1>6. /\ DecisionsOf(c)' = {n + 1}
      /\ OutcomesOf(c)' = IF s = "finished" THEN {n + 2} ELSE {}
  BY SMTT(60), <1>1, <1>2, <1>5 DEF DecisionsOf, OutcomesOf, Entry, Reasons
<1>7. ASSUME NEW b \in Calls, b # c
      PROVE  DecisionsOf(b)' = DecisionsOf(b) /\ OutcomesOf(b)' = OutcomesOf(b)
  BY <1>1, <1>2, <1>7 DEF DecisionsOf, OutcomesOf, Entry
<1>8. \A b \in Calls : DecisionsOf(b) \subseteq 1 .. n /\ OutcomesOf(b) \subseteq 1 .. n
  BY <1>1 DEF DecisionsOf, OutcomesOf
<1>9. CallAccounted'
  <2> SUFFICES ASSUME NEW b \in Calls
               PROVE  /\ DecisionsOf(b)' = {} <=> stage'[b] = "idle"
                      /\ OutcomesOf(b)' # {} <=> stage'[b] = "finished"
                      /\ \A i, j \in DecisionsOf(b)' : i = j
                      /\ \A i, j \in OutcomesOf(b)' : i = j
                      /\ \A i \in DecisionsOf(b)' :
                           audit'[i].decision = "ALLOWED" <=> stage'[b] # "refused"
                      /\ \A i \in DecisionsOf(b)', j \in OutcomesOf(b)' :
                           i < j /\ audit'[i].operation = audit'[j].operation
    BY DEF CallAccounted
  <2>1. CASE b = c
    <3>1. stage'[b] = s /\ s # "idle"
      BY <1>2, <2>1 DEF PlaneTypeOK
    <3>2. /\ DecisionsOf(b)' = {n + 1}
          /\ OutcomesOf(b)' = IF s = "finished" THEN {n + 2} ELSE {}
      BY <1>6, <2>1
    <3>3. audit'[n + 1].decision = d /\ audit'[n + 1].operation = operation[c]
      BY <1>2 DEF Entry
    <3>4. s = "finished" => audit'[n + 2].operation = operation[c]
      BY <1>2 DEF Entry
    <3> QED BY <1>1, <1>2, <3>1, <3>2, <3>3, <3>4
  <2>2. CASE b # c
    BY <1>1, <1>2, <1>7, <1>8, <2>2 DEF CallAccounted, PlaneTypeOK
  <2> QED BY <2>1, <2>2
<1> QED BY <1>3, <1>4, <1>9

\* A permission for an operation whose latest record is no execution.
LEMMA AuthorizeNoRepeat ==
  ASSUME PlaneInv, NEW c \in Calls, NEW d \in AuditDecisions, NEW why \in Reasons,
         Authorize(c, d, why), d = "ALLOWED" => ~ Duplicate(operation[c])
  PROVE  NoImmediateRepeat'
<1> DEFINE n == Len(audit)
<1> USE DEF PlaneInv
<1>1. /\ \A i \in 1 .. n : audit'[i] = audit[i]
      /\ audit \in Seq(Records) /\ n \in Nat /\ DOMAIN audit = 1 .. n
      /\ audit' \in Seq(Records) /\ DOMAIN audit' = 1 .. Len(audit')
  BY AuthorizeGrows DEF PlaneTypeOK
<1>2. PICK s \in {"refused", "authorized", "handling", "finished"} :
        /\ s = "refused" <=> d # "ALLOWED"
        /\ Len(audit') = n + (IF s = "finished" THEN 2 ELSE 1)
        /\ audit'[n + 1] = Entry(c, d, why)
        /\ s = "finished" => \E m \in {"CANCELLED", "FAILED"} : audit'[n + 2] = Entry(c, m, "outcome")
  BY AuthorizeGrows
<1> SUFFICES ASSUME NEW i \in DOMAIN audit', NEW j \in DOMAIN audit', Follows(i, j)',
                    audit'[i].decision = "EXECUTED", audit'[j].decision = "ALLOWED"
             PROVE  FALSE
  BY DEF NoImmediateRepeat
<1>3. i < j /\ audit'[i].operation = audit'[j].operation
      /\ \A k \in i + 1 .. j - 1 : audit'[k].operation # audit'[i].operation
  BY DEF Follows
<1>4. CASE j <= n
  <2>1. i \in DOMAIN audit /\ j \in DOMAIN audit /\ Follows(i, j)
    BY <1>1, <1>3, <1>4 DEF Follows
  <2> QED BY <1>1, <2>1 DEF NoImmediateRepeat
<1>5. CASE j = n + 1
  <2>1. i \in 1 .. n /\ audit[i].operation = operation[c] /\ audit[i].decision = "EXECUTED"
    BY <1>1, <1>2, <1>3, <1>5 DEF Entry
  <2>2. \A k \in 1 .. n : audit[k].operation = operation[c] => k <= i
    BY SMTT(60), <1>1, <1>2, <1>3, <1>5, <2>1 DEF Entry
  <2>3. Duplicate(operation[c])
    BY <1>1, <2>1, <2>2 DEF Duplicate
  <2>4. d = "ALLOWED"
    BY <1>2, <1>5 DEF Entry
  <2> QED BY <2>3, <2>4
<1>6. CASE j = n + 2
  BY <1>1, <1>2, <1>6 DEF Entry
<1> QED BY <1>1, <1>2, <1>4, <1>5, <1>6

\* Pruning only ever turns an active request into an expired one.
LEMMA PrunedRequests ==
  ASSUME PlaneInv
  PROVE  /\ Pruned \in Seq(Approvals) /\ DOMAIN Pruned = DOMAIN requests
         /\ \A r \in DOMAIN requests :
              /\ Pruned[r].operation = requests[r].operation
              /\ Pruned[r].decided = requests[r].decided
              /\ Pruned[r].status = requests[r].status \/ Pruned[r].status = "EXPIRED"
              /\ Pruned[r].status = "APPROVED" =>
                   requests[r].status = "APPROVED" /\ ~ requests[r].overdue
              /\ requests[r].status \in {"APPROVED", "EXPIRED"} =>
                   Pruned[r].status \in {"APPROVED", "EXPIRED"}
<1>1. requests \in Seq(Approvals) /\ DOMAIN requests = 1 .. Len(requests) /\ Len(requests) \in Nat
  BY DEF PlaneInv, PlaneTypeOK
<1>2. ASSUME NEW r \in DOMAIN requests PROVE requests[r] \in Approvals /\ Pruned[r] \in Approvals
  <2>1. requests[r] \in Approvals
    BY <1>1
  <2> QED BY <2>1 DEF Pruned, Approvals
<1>3. Pruned \in [1 .. Len(requests) -> Approvals]
  BY <1>1, <1>2 DEF Pruned
<1>4. Pruned \in Seq(Approvals)
  BY <1>1, <1>3
<1> QED BY <1>1, <1>2, <1>4 DEF Pruned, Approvals

\* Requests that only grow older, expire or are decided keep what was approved.
RequestsKept ==
  /\ requests' \in Seq(Approvals)
  /\ DOMAIN requests \subseteq DOMAIN requests'
  /\ \A r \in DOMAIN requests :
       /\ requests'[r].operation = requests[r].operation
       /\ requests[r].decided => requests'[r].decided
       /\ requests[r].status \in {"APPROVED", "EXPIRED"} =>
            requests'[r].status \in {"APPROVED", "EXPIRED"}
  /\ ApprovedDecided'

LEMMA RequestsStay == ASSUME PlaneInv, UNCHANGED requests PROVE RequestsKept
BY DEF RequestsKept, PlaneInv, PlaneTypeOK, ApprovedDecided

LEMMA RequestsPrunedKept == ASSUME PlaneInv, requests' = Pruned PROVE RequestsKept
BY PrunedRequests DEF RequestsKept, PlaneInv, ApprovedDecided

LEMMA RequestReplaced ==
  ASSUME PlaneInv, NEW r \in DOMAIN requests, NEW e \in Approvals,
         e.operation = requests[r].operation,
         requests[r].decided => e.decided,
         e.status = requests[r].status \/ (requests[r].status = "PENDING" /\ e.decided),
         e.status = "APPROVED" => e.decided,
         requests' = [requests EXCEPT ![r] = e]
  PROVE  RequestsKept
<1>1. requests \in Seq(Approvals)
  BY DEF PlaneInv, PlaneTypeOK
<1>2. requests' \in Seq(Approvals) /\ DOMAIN requests' = DOMAIN requests
  BY <1>1
<1>3. \A q \in DOMAIN requests : requests'[q] = IF q = r THEN e ELSE requests[q]
  BY <1>1
<1> QED BY <1>2, <1>3 DEF RequestsKept, PlaneInv, ApprovedDecided

\* The steps of the human plane leave calls and trail alone.
LEMMA HumanStepInv ==
  ASSUME PlaneInv, UNCHANGED <<stage, operation, audit>>, control' \in {"RUNNING", "PAUSED", "ABORTED"},
         RequestsKept
  PROVE  PlaneInv'
<1>1. PlaneTypeOK' /\ OperationKept' /\ CallAccounted' /\ NoImmediateRepeat'
  BY DEF PlaneInv, PlaneTypeOK, OperationKept, CallAccounted, NoImmediateRepeat, RequestsKept,
     DecisionsOf, OutcomesOf, Follows
<1>2. HumanApproved'
  <2> SUFFICES ASSUME NEW i \in DOMAIN audit, audit[i].reason = "human"
               PROVE  \E r \in DOMAIN requests' :
                        /\ requests'[r].operation = audit[i].operation
                        /\ requests'[r].decided /\ requests'[r].status \in {"APPROVED", "EXPIRED"}
    BY DEF HumanApproved
  <2>1. PICK r \in DOMAIN requests :
          /\ requests[r].operation = audit[i].operation
          /\ requests[r].decided /\ requests[r].status \in {"APPROVED", "EXPIRED"}
    BY DEF PlaneInv, HumanApproved
  <2> QED BY <2>1 DEF RequestsKept
<1> QED BY <1>1, <1>2 DEF PlaneInv, RequestsKept

LEMMA HumanInv == PlaneInv /\ HumanStep => PlaneInv'
<1> SUFFICES ASSUME PlaneInv, HumanStep PROVE PlaneInv'
  OBVIOUS
<1>1. requests \in Seq(Approvals) /\ control \in {"RUNNING", "PAUSED", "ABORTED"}
  BY DEF PlaneInv, PlaneTypeOK
<1>2. CASE \E op \in Operations : RequestApproval(op)
  <2>1. PICK op \in Operations : RequestApproval(op)
    BY <1>2
  <2> DEFINE new == [operation |-> op, status |-> "PENDING", decided |-> FALSE, overdue |-> FALSE]
  <2>2. new \in Approvals /\ requests' = Append(requests, new)
        /\ UNCHANGED <<stage, operation, audit, control>>
    BY <2>1 DEF RequestApproval, Approvals
  <2>3. RequestsKept
    BY <1>1, <2>2 DEF RequestsKept, PlaneInv, ApprovedDecided
  <2> QED BY <1>1, <2>2, <2>3, HumanStepInv
<1>3. CASE \E r \in DOMAIN requests : \E s \in {"APPROVED", "DENIED"} : Decide(r, s)
  <2>1. PICK r \in DOMAIN requests, s \in {"APPROVED", "DENIED"} : Decide(r, s)
    BY <1>3
  <2>2. /\ requests[r].status = "PENDING" /\ requests[r] \in Approvals
        /\ requests' = [requests EXCEPT ![r] =
             [operation |-> @.operation, status |-> s, decided |-> TRUE, overdue |-> @.overdue]]
        /\ UNCHANGED <<stage, operation, audit, control>>
    BY <1>1, <2>1 DEF Decide
  <2> DEFINE e == [operation |-> requests[r].operation, status |-> s, decided |-> TRUE,
                   overdue |-> requests[r].overdue]
  <2>3. e \in Approvals /\ e.operation = requests[r].operation /\ e.decided = TRUE
    BY <2>2 DEF Approvals
  <2>4. requests' = [requests EXCEPT ![r] = e]
    BY <2>2
  <2> HIDE DEF e
  <2>5. RequestsKept
    BY <2>2, <2>3, <2>4, RequestReplaced
  <2> QED BY <1>1, <2>2, <2>5, HumanStepInv
<1>4. CASE \E r \in DOMAIN requests : TimePasses(r)
  <2>1. PICK r \in DOMAIN requests : TimePasses(r)
    BY <1>4
  <2> DEFINE e == [operation |-> requests[r].operation, status |-> requests[r].status,
                   decided |-> requests[r].decided, overdue |-> TRUE]
  <2>2. requests[r] \in Approvals /\ UNCHANGED <<stage, operation, audit, control>>
    BY <1>1, <2>1 DEF TimePasses
  <2>3. e \in Approvals /\ e.operation = requests[r].operation /\ e.status = requests[r].status
        /\ e.decided = requests[r].decided
    BY <2>2 DEF Approvals
  <2>4. requests' = [requests EXCEPT ![r] = e]
    BY <2>1 DEF TimePasses
  <2> HIDE DEF e
  <2>5. RequestsKept
    BY <2>3, <2>4, RequestReplaced DEF PlaneInv, ApprovedDecided
  <2> QED BY <1>1, <2>2, <2>5, HumanStepInv
<1>5. CASE ReadApprovals
  BY <1>1, <1>5, RequestsPrunedKept, HumanStepInv DEF ReadApprovals
<1>6. CASE Pause \/ Resume \/ Abort
  BY <1>1, <1>6, RequestsStay, HumanStepInv DEF Pause, Resume, Abort
<1> QED BY <1>2, <1>3, <1>4, <1>5, <1>6 DEF HumanStep

\* Calls that are authorised without or with a look at the requests.
LEMMA AuthorizeInv ==
  ASSUME PlaneInv, NEW c \in Calls, NEW d \in AuditDecisions, NEW why \in Reasons,
         Authorize(c, d, why), d = "ALLOWED" => ~ Duplicate(operation[c]),
         RequestsKept,
         why = "human" => ApprovedFor(operation[c]) /\ requests' = Pruned
  PROVE  PlaneInv'
<1>1. PlaneTypeOK' /\ OperationKept' /\ CallAccounted'
  BY AuthorizeAccounted DEF RequestsKept
<1>2. NoImmediateRepeat'
  BY AuthorizeNoRepeat
<1>3. HumanApproved'
  <2> DEFINE n == Len(audit)
  <2> SUFFICES ASSUME NEW i \in DOMAIN audit', audit'[i].reason = "human"
               PROVE  \E r \in DOMAIN requests' :
                        /\ requests'[r].operation = audit'[i].operation
                        /\ requests'[r].decided /\ requests'[r].status \in {"APPROVED", "EXPIRED"}
    BY DEF HumanApproved
  <2>1. /\ \A j \in 1 .. n : audit'[j] = audit[j]
        /\ n \in Nat /\ DOMAIN audit = 1 .. n /\ DOMAIN audit' = 1 .. Len(audit')
    BY AuthorizeGrows DEF PlaneInv, PlaneTypeOK
  <2>2. /\ Len(audit') \in {n + 1, n + 2}
        /\ audit'[n + 1] = Entry(c, d, why)
        /\ Len(audit') = n + 2 => audit'[n + 2].reason = "outcome"
    <3>1. PICK s \in {"refused", "authorized", "handling", "finished"} :
            /\ Len(audit') = n + (IF s = "finished" THEN 2 ELSE 1)
            /\ audit'[n + 1] = Entry(c, d, why)
            /\ s = "finished" => \E m \in {"CANCELLED", "FAILED"} :
                 audit'[n + 2] = Entry(c, m, "outcome")
      BY AuthorizeGrows DEF PlaneInv
    <3> QED BY <2>1, <3>1 DEF Entry
  <2>3. CASE i \in 1 .. n
    <3>1. PICK r \in DOMAIN requests :
            /\ requests[r].operation = audit[i].operation
            /\ requests[r].decided /\ requests[r].status \in {"APPROVED", "EXPIRED"}
      BY <2>1, <2>3 DEF PlaneInv, HumanApproved
    <3> QED BY <2>1, <2>3, <3>1 DEF RequestsKept
  <2>4. CASE i = n + 1
    <3>1. why = "human" /\ audit'[i].operation = operation[c]
      BY <2>2, <2>4 DEF Entry
    <3>2. PICK r \in DOMAIN requests :
            requests[r].operation = operation[c] /\ Pruned[r].status = "APPROVED"
      BY <3>1 DEF ApprovedFor, LatestFor
    <3>3. requests[r].status = "APPROVED"
      BY <3>2, PrunedRequests
    <3>4. requests[r].decided
      BY <3>2, <3>3 DEF PlaneInv, ApprovedDecided
    <3>5. /\ r \in DOMAIN requests' /\ requests'[r].operation = requests[r].operation
          /\ requests'[r].decided /\ requests'[r].status \in {"APPROVED", "EXPIRED"}
      BY <3>2, <3>3, <3>4 DEF RequestsKept
    <3> QED BY <3>1, <3>2, <3>5
  <2>5. CASE i = n + 2 /\ Len(audit') = n + 2
    BY <2>2, <2>5
  <2>6. i \in 1 .. n \/ i = n + 1 \/ (i = n + 2 /\ Len(audit') = n + 2)
    <3> DEFINE m == Len(audit')
    <3>1. n \in Nat /\ i \in 1 .. m /\ (m = n + 1 \/ m = n + 2)
      BY <2>1, <2>2
    <3> HIDE DEF n, m
    <3>2. i \in 1 .. n \/ i = n + 1 \/ (i = n + 2 /\ m = n + 2)
      BY <3>1
    <3> QED BY <3>2 DEF m
  <2> QED BY <2>3, <2>4, <2>5, <2>6
<1> QED BY <1>1, <1>2, <1>3 DEF PlaneInv, RequestsKept

LEMMA HandlerEndsInv ==
  ASSUME PlaneInv, NEW c \in Calls, NEW status \in Statuses, HandlerEnds(c, status)
  PROVE  PlaneInv'
<1> DEFINE n == Len(audit)
           e == Entry(c, AuditDecisionFor[status], "outcome")
<1> USE DEF PlaneInv
<1>1. /\ stage[c] = "handling" /\ stage' = [stage EXCEPT ![c] = "finished"]
      /\ audit' = Append(audit, e) /\ UNCHANGED <<operation, control, requests>>
  BY DEF HandlerEnds
<1>2. /\ e \in Records /\ e.call = c /\ e.operation = operation[c] /\ e.reason = "outcome"
      /\ e.decision \notin {"ALLOWED"}
  BY StatusesAssumption
  DEF Entry, Records, PlaneTypeOK, AuditDecisions, AuditDecisionFor, ResultStatuses
<1> HIDE DEF e
<1>3. /\ audit' \in Seq(Records) /\ Len(audit') = n + 1 /\ audit'[n + 1] = e /\ n \in Nat
      /\ \A i \in 1 .. n : audit'[i] = audit[i]
      /\ DOMAIN audit = 1 .. n /\ DOMAIN audit' = 1 .. n + 1
  BY <1>1, <1>2 DEF PlaneTypeOK
<1>4. PlaneTypeOK'
  BY <1>1, <1>3 DEF PlaneTypeOK, Stages
<1>5. OperationKept' /\ ApprovedDecided'
  BY <1>1, <1>2, <1>3 DEF OperationKept, ApprovedDecided
<1>6. HumanApproved'
  BY <1>1, <1>2, <1>3 DEF HumanApproved
<1>7. NoImmediateRepeat'
  BY <1>2, <1>3 DEF NoImmediateRepeat, Follows
<1>8. /\ DecisionsOf(c)' = DecisionsOf(c) /\ OutcomesOf(c)' = OutcomesOf(c) \cup {n + 1}
      /\ \A b \in Calls \ {c} :
           DecisionsOf(b)' = DecisionsOf(b) /\ OutcomesOf(b)' = OutcomesOf(b)
      /\ \A b \in Calls : DecisionsOf(b) \subseteq 1 .. n /\ OutcomesOf(b) \subseteq 1 .. n
  BY <1>2, <1>3 DEF DecisionsOf, OutcomesOf
<1>9. OutcomesOf(c) = {}
  BY <1>1 DEF CallAccounted
<1>10. \A i \in DecisionsOf(c) : audit[i].operation = operation[c]
  BY DEF OperationKept, DecisionsOf
<1>11. CallAccounted'
  <2> SUFFICES ASSUME NEW b \in Calls
               PROVE  /\ DecisionsOf(b)' = {} <=> stage'[b] = "idle"
                      /\ OutcomesOf(b)' # {} <=> stage'[b] = "finished"
                      /\ \A i, j \in DecisionsOf(b)' : i = j
                      /\ \A i, j \in OutcomesOf(b)' : i = j
                      /\ \A i \in DecisionsOf(b)' :
                           audit'[i].decision = "ALLOWED" <=> stage'[b] # "refused"
                      /\ \A i \in DecisionsOf(b)', j \in OutcomesOf(b)' :
                           i < j /\ audit'[i].operation = audit'[j].operation
    BY DEF CallAccounted
  <2>1. CASE b = c
    <3>1. stage'[b] = "finished" /\ OutcomesOf(b)' = {n + 1} /\ DecisionsOf(b)' = DecisionsOf(c)
      BY <1>1, <1>8, <1>9, <2>1 DEF PlaneTypeOK
    <3>2. \A i \in DecisionsOf(c) : audit'[i] = audit[i] /\ i < n + 1
      BY <1>3, <1>8
    <3>3. /\ DecisionsOf(c) # {} /\ \A i, j \in DecisionsOf(c) : i = j
          /\ \A i \in DecisionsOf(c) : audit[i].decision = "ALLOWED"
      BY <1>1 DEF CallAccounted
    <3> QED BY <1>2, <1>3, <1>10, <3>1, <3>2, <3>3
  <2>2. CASE b # c
    BY <1>1, <1>3, <1>8, <2>2 DEF CallAccounted, PlaneTypeOK
  <2> QED BY <2>1, <2>2
<1> QED BY <1>4, <1>5, <1>6, <1>7, <1>11

LEMMA CallDroppedInv == ASSUME PlaneInv, NEW c \in Calls, CallDropped(c) PROVE PlaneInv'
<1>1. /\ stage[c] = "handling" /\ stage' = [stage EXCEPT ![c] = "dropped"]
      /\ UNCHANGED <<operation, audit, control, requests>>
  BY DEF CallDropped
<1>2. PlaneTypeOK'
  BY <1>1 DEF PlaneInv, PlaneTypeOK, Stages
<1>3. CallAccounted'
  BY <1>1 DEF PlaneInv, PlaneTypeOK, CallAccounted, DecisionsOf, OutcomesOf
<1>4. OperationKept' /\ ApprovedDecided' /\ HumanApproved' /\ NoImmediateRepeat'
  BY <1>1 DEF PlaneInv, OperationKept, ApprovedDecided, HumanApproved, NoImmediateRepeat, Follows
<1> QED BY <1>2, <1>3, <1>4 DEF PlaneInv

LEMMA CallInv == PlaneInv /\ CallStep => PlaneInv'
<1> SUFFICES ASSUME PlaneInv, NEW c \in Calls,
                    \/ DeniedByRule(c) \/ DeniedAsDuplicate(c) \/ DecidedByPolicy(c)
                    \/ HeldForReview(c) \/ Reviewed(c)
                    \/ \E status \in Statuses : HandlerEnds(c, status)
                    \/ CallDropped(c)
             PROVE  PlaneInv'
  BY DEF CallStep
<1>1. CASE DeniedByRule(c) \/ DeniedAsDuplicate(c)
  <2>1. Authorize(c, "DENIED", "rule") /\ UNCHANGED requests
    BY <1>1 DEF DeniedByRule, DeniedAsDuplicate
  <2> QED BY <2>1, RequestsStay, AuthorizeInv DEF AuditDecisions, Reasons
<1>2. CASE DecidedByPolicy(c)
  <2>1. PICK v \in {"ALLOW", "DENY", "BLOCK"} : Authorize(c, Disposition[v], "policy")
    BY <1>2 DEF DecidedByPolicy, Disposition
  <2>2. Disposition[v] \in AuditDecisions
    BY DEF Disposition, AuditDecisions
  <2>3. ~ Duplicate(operation[c]) /\ UNCHANGED requests
    BY <1>2 DEF DecidedByPolicy
  <2> QED BY <2>1, <2>2, <2>3, RequestsStay, AuthorizeInv DEF Reasons
<1>3. CASE HeldForReview(c)
  <2>1. Authorize(c, "REVIEW", "policy") /\ UNCHANGED requests
    BY <1>3 DEF HeldForReview
  <2> QED BY <2>1, RequestsStay, AuthorizeInv DEF AuditDecisions, Reasons
<1>4. CASE Reviewed(c)
  <2>1. ~ Duplicate(operation[c]) /\ requests' = Pruned /\ RequestsKept
    BY <1>4, RequestsPrunedKept DEF Reviewed
  <2>2. CASE ApprovedFor(operation[c]) /\ Authorize(c, "ALLOWED", "human")
    BY <2>1, <2>2, AuthorizeInv DEF AuditDecisions, Reasons
  <2>3. CASE Authorize(c, "REVIEW", "policy")
    BY <2>1, <2>3, AuthorizeInv DEF AuditDecisions, Reasons
  <2> QED BY <1>4, <2>2, <2>3 DEF Reviewed
<1>5. CASE \E status \in Statuses : HandlerEnds(c, status)
  BY <1>5, HandlerEndsInv
<1>6. CASE CallDropped(c)
  BY <1>6, CallDroppedInv
<1> QED BY <1>1, <1>2, <1>3, <1>4, <1>5, <1>6

LEMMA PlaneInvariant == PlaneSpec => []PlaneInv
<1>1. PlaneInit => PlaneInv
  BY DEF PlaneInit, PlaneInv, PlaneTypeOK, Stages, OperationKept, ApprovedDecided, CallAccounted,
     DecisionsOf, OutcomesOf, HumanApproved, NoImmediateRepeat
<1>2. PlaneInv /\ [PlaneNext]_planeVars => PlaneInv'
  <2> SUFFICES ASSUME PlaneInv, [PlaneNext]_planeVars PROVE PlaneInv'
    OBVIOUS
  <2>1. CASE PlaneNext
    BY <2>1, HumanInv, CallInv DEF PlaneNext
  <2>2. CASE UNCHANGED planeVars
    BY <2>2, RequestsStay, HumanStepInv DEF planeVars, PlaneInv, PlaneTypeOK
  <2> QED BY <2>1, <2>2
<1> QED BY <1>1, <1>2, PTL DEF PlaneSpec

-----------------------------------------------------------------------------

\* For any set of calls and any policy: the gateway's state keeps its types, and the
\* outcomes it records are audit decisions.
THEOREM PlaneTypeCorrect == PlaneSpec => []PlaneTypeOK
BY PlaneInvariant, PTL DEF PlaneInv

\* For any number of concurrent calls: one authorization record per call, one outcome
\* record exactly when its execution ended, never an outcome without permission.
THEOREM CallsAreAccounted == PlaneSpec => []CallAccounted
BY PlaneInvariant, PTL DEF PlaneInv

\* For any number of requests: whatever was allowed as human approved had been approved.
THEOREM ApprovalsAreHuman == PlaneSpec => []HumanApproved
BY PlaneInvariant, PTL DEF PlaneInv

\* For any trail: no permission right after the record of a successful execution of the
\* same operation.
THEOREM NoRepeatRightAway == PlaneSpec => []NoImmediateRepeat
BY PlaneInvariant, PTL DEF PlaneInv

\* Both together: what the trail shows, for any calls and any policy.
THEOREM TrailIsSound == PlaneSpec => []TrailSound
BY CallsAreAccounted, NoRepeatRightAway, PTL DEF TrailSound

InTime ==
  \A i \in DOMAIN audit' \ DOMAIN audit : audit'[i].reason = "human" =>
    /\ control = "RUNNING"
    /\ \E r \in DOMAIN requests :
         /\ LatestFor(audit'[i].operation, r)
         /\ requests[r].status = "APPROVED" /\ ~ requests[r].overdue

\* An authorization for a reason other than a human's adds no record with that reason.
LEMMA AuthorizeInTime ==
  ASSUME PlaneInv, NEW c \in Calls, NEW d \in AuditDecisions, NEW why \in Reasons,
         Authorize(c, d, why),
         why = "human" => control = "RUNNING" /\ ApprovedFor(operation[c])
  PROVE  InTime
<1> DEFINE n == Len(audit)
<1> SUFFICES ASSUME NEW i \in DOMAIN audit' \ DOMAIN audit, audit'[i].reason = "human"
             PROVE  /\ control = "RUNNING"
                    /\ \E r \in DOMAIN requests :
                         /\ LatestFor(audit'[i].operation, r)
                         /\ requests[r].status = "APPROVED" /\ ~ requests[r].overdue
  BY DEF InTime
<1>1. PICK s \in {"refused", "authorized", "handling", "finished"} :
        /\ Len(audit') = n + (IF s = "finished" THEN 2 ELSE 1)
        /\ audit'[n + 1] = Entry(c, d, why)
        /\ s = "finished" => \E m \in {"CANCELLED", "FAILED"} :
             audit'[n + 2] = Entry(c, m, "outcome")
  BY AuthorizeGrows DEF PlaneInv
<1>2. n \in Nat /\ DOMAIN audit = 1 .. n /\ DOMAIN audit' = 1 .. Len(audit')
  BY AuthorizeGrows DEF PlaneInv, PlaneTypeOK
<1>3. s = "finished" => audit'[n + 2].reason = "outcome"
  BY <1>1 DEF Entry
<1>4. i = n + 1
  BY <1>1, <1>2, <1>3
<1>5. why = "human" /\ audit'[i].operation = operation[c]
  BY <1>1, <1>4 DEF Entry
<1>6. PICK r \in DOMAIN requests : LatestFor(operation[c], r) /\ Pruned[r].status = "APPROVED"
  BY <1>5 DEF ApprovedFor, LatestFor
<1>7. requests[r].status = "APPROVED" /\ ~ requests[r].overdue
  BY <1>6, PrunedRequests
<1> QED BY <1>5, <1>6, <1>7

\* For any number of calls and requests, no step authorises a reviewed call unless the
\* plane runs and the newest request of its operation is approved and within its time.
THEOREM ApprovalIsInTime == PlaneSpec => ApprovedInTime
<1>1. PlaneInv /\ [PlaneNext]_planeVars => [InTime]_planeVars
  <2> SUFFICES ASSUME PlaneInv, PlaneNext PROVE InTime
    OBVIOUS
  <2>1. CASE HumanStep
    <3>1. audit' = audit
      BY <2>1 DEF HumanStep, RequestApproval, Decide, TimePasses, ReadApprovals, Pause, Resume, Abort
    <3> QED BY <3>1 DEF InTime
  <2>2. CASE CallStep
    <3> SUFFICES ASSUME NEW c \in Calls,
                        \/ DeniedByRule(c) \/ DeniedAsDuplicate(c) \/ DecidedByPolicy(c)
                        \/ HeldForReview(c) \/ Reviewed(c)
                        \/ \E status \in Statuses : HandlerEnds(c, status)
                        \/ CallDropped(c)
                 PROVE  InTime
      BY <2>2 DEF CallStep
    <3>1. CASE DeniedByRule(c) \/ DeniedAsDuplicate(c)
      BY <3>1, AuthorizeInTime DEF DeniedByRule, DeniedAsDuplicate, AuditDecisions, Reasons
    <3>2. CASE DecidedByPolicy(c)
      <4>1. PICK v \in {"ALLOW", "DENY", "BLOCK"} : Authorize(c, Disposition[v], "policy")
        BY <3>2 DEF DecidedByPolicy, Disposition
      <4>2. Disposition[v] \in AuditDecisions
        BY DEF Disposition, AuditDecisions
      <4> QED BY <4>1, <4>2, AuthorizeInTime DEF Reasons
    <3>3. CASE HeldForReview(c)
      BY <3>3, AuthorizeInTime DEF HeldForReview, AuditDecisions, Reasons
    <3>4. CASE Reviewed(c)
      <4>1. control = "RUNNING"
        BY <3>4 DEF Reviewed
      <4>2. CASE ApprovedFor(operation[c]) /\ Authorize(c, "ALLOWED", "human")
        BY <4>1, <4>2, AuthorizeInTime DEF AuditDecisions, Reasons
      <4>3. CASE Authorize(c, "REVIEW", "policy")
        BY <4>3, AuthorizeInTime DEF AuditDecisions, Reasons
      <4> QED BY <3>4, <4>2, <4>3 DEF Reviewed
    <3>5. CASE \E status \in Statuses : HandlerEnds(c, status)
      <4>1. PICK e : audit' = Append(audit, e) /\ e.reason = "outcome"
        BY <3>5 DEF HandlerEnds, Entry
      <4>2. audit \in Seq(Records)
        BY DEF PlaneInv, PlaneTypeOK
      <4>3. \A i \in DOMAIN audit' \ DOMAIN audit : audit'[i] = e
        BY <4>1, <4>2
      <4> QED BY <4>1, <4>3 DEF InTime
    <3>6. CASE CallDropped(c)
      BY <3>6 DEF CallDropped, InTime
    <3> QED BY <3>1, <3>2, <3>3, <3>4, <3>5, <3>6
  <2> QED BY <2>1, <2>2 DEF PlaneNext
<1>2. [][InTime]_planeVars <=> ApprovedInTime
  BY DEF InTime, ApprovedInTime
<1> QED BY <1>1, <1>2, PlaneInvariant, PTL DEF PlaneSpec

-----------------------------------------------------------------------------
(* The contract: versioned rows. *)

\* A set of keys that is not empty has a first one.
LEMMA FirstIn ==
  ASSUME NEW S, S \subseteq Keys, S # {}
  PROVE  First(S) \in S
<1>1. S \subseteq Nat
  BY KeysAssumption
<1>2. PICK x \in S : \A y \in S : ~(<<y, x>> \in OpToRel(<, Nat))
  BY <1>1, WFMin, NatLessThanWellFounded
<1>3. \A y \in S : ~(y < x)
  BY <1>1, <1>2 DEF OpToRel
<1>4. \A y \in S : x <= y
  BY <1>1, <1>3
<1> QED BY <1>4 DEF First

-----------------------------------------------------------------------------
(* What an operation does to the rows *)

RowsMove ==
  \/ UNCHANGED rows
  \/ \E k \in Keys, kind \in Kinds, data \in Data : Create(k, kind, data)
  \/ \E k \in Stored, data \in Data : LockAs(k, data)
  \/ \E k \in Stored : BumpInPlace(k)
  \/ \E k \in Stored, new \in Keys : BumpNewIdentity(k, new)

\* A child's identity is made from its parent's.
ChildIdentity ==
  \A j \in Stored :
    rows[j].kind \in IdentityKinds /\ rows[j].parent # NoParent =>
      rows[j].identity = <<rows[rows[j].parent.id].identity[1], rows[j].parent.version + 1>>

\* The unique constraint holds, and a row without suffix is the one its base was made for.
IdentityUnique ==
  \A i, j \in Stored :
    rows[i].kind \in IdentityKinds /\ rows[i].kind = rows[j].kind
    /\ rows[i].identity = rows[j].identity => i = j

BaseIsOwn ==
  \A j \in Stored :
    rows[j].kind \in IdentityKinds /\ rows[j].identity[2] = 0 => rows[j].identity[1] = j

RowsInv == RowsTypeOK /\ ParentStands /\ ChildIdentity /\ IdentityUnique /\ BaseIsOwn

\* A new row is one of the row type, and so is a clone.
LEMMA NewRowTyped ==
  ASSUME NEW k \in Keys, NEW kind \in Kinds, NEW data \in Data
  PROVE  NewRow(k, kind, data) \in Row
BY KeysAssumption DEF NewRow, Row, NoParent, NoRow, Parent

LEMMA CloneTyped ==
  ASSUME RowsTypeOK, NEW k \in Stored
  PROVE  /\ Clone(k) \in Row
         /\ Clone(k).kind = rows[k].kind /\ Clone(k).data = rows[k].data
         /\ Clone(k).version = rows[k].version + 1 /\ ~Clone(k).locked
         /\ Clone(k).identity = NextIdentity(k)
         /\ Clone(k).parent = [id |-> k, version |-> rows[k].version]
         /\ Clone(k).parent # NoParent
<1>1. rows[k] \in Row /\ k \in Keys /\ k # NoRow
  BY KeysAssumption DEF RowsTypeOK
<1>2. NextIdentity(k) \in Keys \X Nat
  BY <1>1 DEF NextIdentity, Row
<1>3. [id |-> k, version |-> rows[k].version] \in Parent
  BY <1>1 DEF Row, Parent
<1>4. [id |-> k, version |-> rows[k].version] # NoParent
  BY <1>1 DEF NoParent
<1>5. rows[k].version + 1 \in Nat \ {0}
  BY <1>1 DEF Row
<1>6. /\ Clone(k).kind = rows[k].kind /\ Clone(k).data = rows[k].data
      /\ Clone(k).version = rows[k].version + 1 /\ ~Clone(k).locked
      /\ Clone(k).identity = NextIdentity(k)
      /\ Clone(k).parent = [id |-> k, version |-> rows[k].version]
  BY <1>1 DEF Clone, Row
<1>7. Clone(k) \in Row
  BY <1>1, <1>2, <1>3, <1>5 DEF Clone, Row
<1> QED BY <1>4, <1>6, <1>7

\* A row of its own under a new key.
LEMMA Inserted ==
  ASSUME RowsTypeOK, NEW k, NEW row \in Row, Insert(k, row)
  PROVE  /\ k \in Keys /\ k \notin Stored /\ DOMAIN rows' = Stored \cup {k} /\ rows'[k] = row
         /\ \A j \in Stored : rows'[j] = rows[j]
         /\ RowsTypeOK'
<1>1. /\ k \in Keys /\ k \notin Stored /\ DOMAIN rows' = Stored \cup {k} /\ rows'[k] = row
      /\ \A j \in Stored : rows'[j] = rows[j]
  BY DEF Insert, Stored
<1>2. \A j \in DOMAIN rows' : rows'[j] \in Row
  BY <1>1 DEF RowsTypeOK
<1> QED BY <1>1, <1>2 DEF RowsTypeOK, Stored, Insert

\* A lock and a bump in place each touch one row, which is not locked.
LEMMA Locked ==
  ASSUME RowsTypeOK, NEW k \in Stored, NEW data \in Data, LockAs(k, data)
  PROVE  /\ DOMAIN rows' = Stored /\ ~IsLocked(k) /\ IsLocked(k)'
         /\ \A j \in Stored \ {k} : rows'[j] = rows[j]
         /\ rows'[k].kind = rows[k].kind /\ rows'[k].version = rows[k].version
         /\ rows'[k].parent = rows[k].parent /\ rows'[k].identity = rows[k].identity
         /\ RowsTypeOK'
<1>1. rows[k] \in Row /\ rows' = [rows EXCEPT ![k] = [rows[k] EXCEPT !.locked = TRUE, !.data = data]]
  BY DEF RowsTypeOK, LockAs
<1>2. /\ DOMAIN rows' = Stored
      /\ rows'[k] = [rows[k] EXCEPT !.locked = TRUE, !.data = data]
      /\ \A j \in Stored \ {k} : rows'[j] = rows[j]
  BY <1>1 DEF Stored
<1>3. /\ rows'[k] \in Row /\ rows'[k].locked
      /\ rows'[k].kind = rows[k].kind /\ rows'[k].version = rows[k].version
      /\ rows'[k].parent = rows[k].parent /\ rows'[k].identity = rows[k].identity
  BY <1>1, <1>2 DEF Row
<1>4. ~IsLocked(k) /\ IsLocked(k)'
  BY <1>3 DEF LockAs, IsLocked
<1>5. RowsTypeOK'
  BY <1>1, <1>2, <1>3 DEF RowsTypeOK, Stored
<1> QED BY <1>2, <1>3, <1>4, <1>5

LEMMA Bumped ==
  ASSUME RowsTypeOK, NEW k \in Stored, BumpInPlace(k)
  PROVE  /\ DOMAIN rows' = Stored /\ ~IsLocked(k) /\ ~IsLocked(k)'
         /\ \A j \in Stored \ {k} : rows'[j] = rows[j]
         /\ rows'[k].kind = rows[k].kind /\ rows'[k].version = rows[k].version + 1
         /\ rows'[k].data = rows[k].data
         /\ rows'[k].parent = rows[k].parent /\ rows'[k].identity = rows[k].identity
         /\ RowsTypeOK'
<1>1. rows[k] \in Row /\ rows' = [rows EXCEPT ![k] = [rows[k] EXCEPT !.version = rows[k].version + 1]]
  BY DEF RowsTypeOK, BumpInPlace
<1>2. /\ DOMAIN rows' = Stored
      /\ rows'[k] = [rows[k] EXCEPT !.version = rows[k].version + 1]
      /\ \A j \in Stored \ {k} : rows'[j] = rows[j]
  BY <1>1 DEF Stored
<1>3. /\ rows'[k] \in Row /\ rows'[k].locked = rows[k].locked /\ rows'[k].data = rows[k].data
      /\ rows'[k].kind = rows[k].kind /\ rows'[k].version = rows[k].version + 1
      /\ rows'[k].parent = rows[k].parent /\ rows'[k].identity = rows[k].identity
  BY <1>1, <1>2 DEF Row
<1>4. ~IsLocked(k) /\ ~IsLocked(k)'
  BY <1>3 DEF BumpInPlace, IsLocked
<1>5. RowsTypeOK'
  BY <1>1, <1>2, <1>3 DEF RowsTypeOK, Stored
<1> QED BY <1>2, <1>3, <1>4, <1>5

\* No step of the rows changes a locked row or takes it away.
LEMMA LockedKept ==
  ASSUME RowsTypeOK, RowsMove, NEW k \in Stored, IsLocked(k)
  PROVE  k \in Stored' /\ rows'[k] = rows[k] /\ IsLocked(k)'
<1>1. k \in DOMAIN rows' /\ rows'[k] = rows[k]
  <2>1. CASE UNCHANGED rows
    BY <2>1 DEF Stored
  <2>2. ASSUME NEW j \in Keys, NEW kind \in Kinds, NEW data \in Data, Create(j, kind, data)
        PROVE  k \in DOMAIN rows' /\ rows'[k] = rows[k]
    BY <2>2, NewRowTyped, Inserted DEF Create
  <2>3. ASSUME NEW j \in Stored, NEW data \in Data, LockAs(j, data)
        PROVE  k \in DOMAIN rows' /\ rows'[k] = rows[k]
    BY <2>3, Locked
  <2>4. ASSUME NEW j \in Stored, BumpInPlace(j)
        PROVE  k \in DOMAIN rows' /\ rows'[k] = rows[k]
    BY <2>4, Bumped
  <2>5. ASSUME NEW j \in Stored, NEW new \in Keys, BumpNewIdentity(j, new)
        PROVE  k \in DOMAIN rows' /\ rows'[k] = rows[k]
    BY <2>5, CloneTyped, Inserted DEF BumpNewIdentity
  <2> QED BY <2>1, <2>2, <2>3, <2>4, <2>5 DEF RowsMove
<1> QED BY <1>1 DEF IsLocked, Stored

\* Versions, parents and identities stay consistent.
LEMMA RowsKeep ==
  ASSUME RowsInv, RowsMove
  PROVE  RowsInv'
<1> USE DEF RowsInv
<1>1. CASE UNCHANGED rows
  BY <1>1 DEF RowsTypeOK, ParentStands, ChildIdentity, IdentityUnique, BaseIsOwn, Stored, IsLocked
<1>2. ASSUME NEW k \in Keys, NEW kind \in Kinds, NEW data \in Data, Create(k, kind, data)
      PROVE  RowsInv'
  <2> DEFINE row == NewRow(k, kind, data)
  <2>1. /\ k \notin Stored /\ Stored' = Stored \cup {k} /\ rows'[k] = row
        /\ \A j \in Stored : rows'[j] = rows[j]
        /\ RowsTypeOK'
    BY <1>2, NewRowTyped, Inserted DEF Create, Stored
  <2>2. row.parent = NoParent /\ row.identity = <<k, 0>> /\ row.kind = kind
    BY DEF NewRow
  <2>3. ParentStands'
    <3>1. \A j \in Stored : IsLocked(j)' = IsLocked(j)
      BY <2>1 DEF IsLocked
    <3> HIDE DEF row
    <3> QED BY <2>1, <2>2, <3>1 DEF ParentStands
  <2>4. \A j \in Stored : rows[j].kind \in IdentityKinds => rows[j].identity # <<k, 0>>
    BY <2>1 DEF BaseIsOwn
  <2> HIDE DEF row
  <2>5. ChildIdentity'
    BY <2>1, <2>2 DEF ChildIdentity, ParentStands
  <2>6. IdentityUnique'
    BY <2>1, <2>2, <2>4 DEF IdentityUnique
  <2>7. BaseIsOwn'
    BY <2>1, <2>2 DEF BaseIsOwn
  <2> QED BY <2>1, <2>3, <2>5, <2>6, <2>7
<1>3. ASSUME NEW k \in Stored, NEW data \in Data, LockAs(k, data)
      PROVE  RowsInv'
  <2>1. /\ Stored' = Stored /\ ~IsLocked(k) /\ IsLocked(k)'
        /\ \A j \in Stored \ {k} : rows'[j] = rows[j]
        /\ RowsTypeOK'
    BY <1>3, Locked DEF Stored
  <2>2. \A j \in Stored :
          /\ rows'[j].kind = rows[j].kind /\ rows'[j].version = rows[j].version
          /\ rows'[j].parent = rows[j].parent /\ rows'[j].identity = rows[j].identity
          /\ IsLocked(j) => IsLocked(j)'
    <3>1. /\ rows'[k].kind = rows[k].kind /\ rows'[k].version = rows[k].version
          /\ rows'[k].parent = rows[k].parent /\ rows'[k].identity = rows[k].identity
      BY <1>3, Locked
    <3> QED BY <2>1, <3>1 DEF IsLocked
  <2>3. ParentStands'
    BY <2>1, <2>2 DEF ParentStands
  <2>4. ChildIdentity'
    BY <2>1, <2>2 DEF ChildIdentity, ParentStands
  <2>5. IdentityUnique' /\ BaseIsOwn'
    BY <2>1, <2>2 DEF IdentityUnique, BaseIsOwn
  <2> QED BY <2>1, <2>3, <2>4, <2>5
<1>4. ASSUME NEW k \in Stored, BumpInPlace(k)
      PROVE  RowsInv'
  <2>1. /\ Stored' = Stored /\ ~IsLocked(k)
        /\ \A j \in Stored \ {k} : rows'[j] = rows[j]
        /\ RowsTypeOK' /\ rows'[k].version = rows[k].version + 1
    BY <1>4, Bumped DEF Stored
  <2>2. \A j \in Stored :
          /\ rows'[j].kind = rows[j].kind
          /\ rows'[j].parent = rows[j].parent /\ rows'[j].identity = rows[j].identity
          /\ IsLocked(j) => IsLocked(j)' /\ rows'[j].version = rows[j].version
    <3>1. /\ rows'[k].kind = rows[k].kind
          /\ rows'[k].parent = rows[k].parent /\ rows'[k].identity = rows[k].identity
      BY <1>4, Bumped
    <3> QED BY <2>1, <3>1 DEF IsLocked
  <2>3. ParentStands'
    <3> SUFFICES ASSUME NEW j \in Stored, rows[j].parent # NoParent
                 PROVE  LET p == rows[j].parent.id
                        IN /\ p \in Stored /\ IsLocked(p)' /\ rows'[p].kind = rows'[j].kind
                           /\ rows'[p].version = rows[j].parent.version
                           /\ rows'[p].version < rows'[j].version
      BY <2>1, <2>2 DEF ParentStands
    <3> DEFINE p == rows[j].parent.id
    <3>1. /\ p \in Stored /\ IsLocked(p) /\ rows[p].kind = rows[j].kind
          /\ rows[p].version = rows[j].parent.version /\ rows[p].version < rows[j].version
      BY DEF ParentStands
    <3>2. rows[j].version <= rows'[j].version /\ rows[j].version \in Nat /\ rows[p].version \in Nat
          /\ rows'[j].version \in Nat
      BY <2>1, <3>1 DEF RowsTypeOK, Row, Stored
    <3> QED BY <2>2, <3>1, <3>2
  <2>4. ChildIdentity'
    BY <2>1, <2>2 DEF ChildIdentity, ParentStands
  <2>5. IdentityUnique' /\ BaseIsOwn'
    BY <2>1, <2>2 DEF IdentityUnique, BaseIsOwn
  <2> QED BY <2>1, <2>3, <2>4, <2>5
<1>5. ASSUME NEW k \in Stored, NEW new \in Keys, BumpNewIdentity(k, new)
      PROVE  RowsInv'
  <2> DEFINE row == Clone(k)
  <2>1. /\ row.kind = rows[k].kind /\ row.version = rows[k].version + 1 /\ ~row.locked
        /\ row.identity = NextIdentity(k)
        /\ row.parent = [id |-> k, version |-> rows[k].version]
        /\ row.parent # NoParent /\ row \in Row
    BY CloneTyped
  <2> HIDE DEF row
  <2>2. /\ new \notin Stored /\ Stored' = Stored \cup {new} /\ rows'[new] = row
        /\ \A j \in Stored : rows'[j] = rows[j]
        /\ RowsTypeOK' /\ IsLocked(k) /\ IdentityFree(k)
    BY <1>5, <2>1, Inserted DEF BumpNewIdentity, Stored, row
  <2>3. rows[k] \in Row /\ rows[k].version \in Nat \ {0} /\ rows[k].version < rows[k].version + 1
    BY DEF RowsTypeOK, Row
  <2>4. \A j \in Stored : IsLocked(j)' = IsLocked(j)
    BY <2>2 DEF IsLocked
  <2>5. row.parent.id = k /\ row.parent.version = rows[k].version
    BY <2>1
  <2>6. ParentStands'
    BY <2>1, <2>2, <2>3, <2>4, <2>5 DEF ParentStands
  <2>7. rows[k].kind \in IdentityKinds =>
          /\ row.identity = <<rows[k].identity[1], rows[k].version + 1>>
          /\ \A j \in Stored : rows[j].kind = rows[k].kind => rows[j].identity # row.identity
    BY <2>1, <2>2 DEF NextIdentity, IdentityFree
  <2>8. ChildIdentity'
    BY <2>1, <2>2, <2>5, <2>7 DEF ChildIdentity, ParentStands
  <2>9. IdentityUnique'
    BY <2>1, <2>2, <2>7 DEF IdentityUnique
  <2>10. BaseIsOwn'
    BY <2>1, <2>2, <2>3, <2>7 DEF BaseIsOwn
  <2> QED BY <2>2, <2>6, <2>8, <2>9, <2>10
<1> QED BY <1>1, <1>2, <1>3, <1>4, <1>5 DEF RowsMove

\* Two successors of one row would have one identity.
LEMMA SuccessorsAgree ==
  ASSUME RowsInv
  PROVE  OneSuccessor
BY DEF RowsInv, ChildIdentity, IdentityUnique, OneSuccessor

-----------------------------------------------------------------------------
(* The contract *)

\* The items of a locked ledger are authorized.
LockedConfirmed ==
  \A k \in Stored :
    rows[k].kind = "ledger" /\ IsLocked(k) => \A i \in ItemsOf(k) : i.authorized

ContractInv == TypeOK /\ RowsInv /\ LockedConfirmed /\ ContractFrozen

\* Every operation moves the rows by the rules of Versioning.
LEMMA NextMovesRows ==
  ASSUME TypeOK, Next
  PROVE  RowsMove
<1> USE DEF RowsMove
<1>1. CASE Build
  <2>1. ASSUME NEW k \in Keys, NEW task \in LedgerTasks, NEW s \in Statements,
               BuildLedger(k, task, s)
        PROVE  RowsMove
    <3>1. [task |-> task, ledger |-> NoRow, status |-> "PROPOSED"] \in Data
      BY RowKinds, LedgerTasksAssumption
    <3> QED BY <2>1, <3>1, RowKinds DEF BuildLedger
  <2>2. ASSUME NEW k \in Keys, NEW affected \in SUBSET Behaviors, BuildImpact(k, affected)
        PROVE  RowsMove
    <3>1. [task |-> Task, ledger |-> NoRow, status |-> "DRAFT"] \in Data
      BY RowKinds
    <3> QED BY <2>2, <3>1, RowKinds DEF BuildImpact
  <2>3. ASSUME NEW k \in Keys, NEW ledger \in Keys \cup {NoRow},
               NEW affected \in SUBSET Behaviors, NEW targets \in SUBSET SUBSET Behaviors,
               BuildPlan(k, ledger, affected, targets)
        PROVE  RowsMove
    <3>1. [task |-> Task, ledger |-> ledger, status |-> "DRAFT"] \in Data
      BY RowKinds
    <3> QED BY <2>3, <3>1, RowKinds DEF BuildPlan
  <2>4. ASSUME NEW k \in Keys, IssueCertificate(k)
        PROVE  RowsMove
    <3>1. [task |-> NoTask, ledger |-> NoRow, status |-> "DRAFT"] \in Data
      BY RowKinds
    <3> QED BY <2>4, <3>1, RowKinds DEF IssueCertificate
  <2>5. ASSUME NEW r \in Requests, DefineChange(r)
        PROVE  RowsMove
    BY <2>5 DEF DefineChange
  <2> QED BY <1>1, <2>1, <2>2, <2>3, <2>4, <2>5 DEF Build
<1>2. CASE Lock
  <2>1. \A k \in Stored : rows[k].data \in Data /\ [rows[k].data EXCEPT !.status = "LOCKED"] \in Data
    <3>1. \A k \in Stored : rows[k].data \in Data
      BY DEF TypeOK, RowsTypeOK, Row
    <3>2. \A d \in Data : [d EXCEPT !.status = "LOCKED"] \in Data
      BY RowKinds
    <3> QED BY <3>1, <3>2
  <2>2. OfTask("impact") # {} => First(OfTask("impact")) \in Stored
    <3>1. OfTask("impact") \subseteq Keys /\ OfTask("impact") \subseteq Stored
      BY DEF OfTask, Of, TypeOK, RowsTypeOK
    <3> QED BY <3>1, FirstIn
  <2>3. CASE LockImpact
    BY <2>1, <2>2, <2>3 DEF LockImpact
  <2>4. ASSUME NEW k \in Stored, LockLedger(k) \/ LockPlan(k) \/ LockCertificate(k)
        PROVE  RowsMove
    BY <2>1, <2>4 DEF LockLedger, LockPlan, LockCertificate
  <2> QED BY <1>2, <2>3, <2>4 DEF Lock
<1>3. CASE Bump
  BY <1>3 DEF Bump, BumpRow
<1>4. CASE Gate
  BY <1>4 DEF Gate, AskGate
<1>5. CASE Loop
  BY <1>5 DEF Loop, Start, Finish
<1> QED BY <1>1, <1>2, <1>3, <1>4, <1>5 DEF Next

\* A ledger is compiled to items of the item type.
LEMMA CompiledTyped ==
  ASSUME NEW s \in Statements, ~Refused(s)
  PROVE  Compiled(s) \in SUBSET Item
<1>1. \A x \in s : [type |-> x.type, touches |-> x.touches, authorized |-> FALSE] \in Item
  BY StatementsAssumption DEF Refused, Item
<1>2. [type |-> "PRESERVE", touches |-> {}, authorized |-> FALSE] \in Item
  BY DEF Item, Dimensions
<1> QED BY <1>1, <1>2 DEF Compiled

\* The items of a locked ledger do not change.
LEMMA ItemsKept ==
  ASSUME TypeOK, Next, NEW k \in Stored, IsLocked(k)
  PROVE  ItemsOf(k)' = ItemsOf(k)
<1>1. CASE UNCHANGED items
  BY <1>1 DEF ItemsOf
<1>2. ASSUME NEW j \in Keys, NEW task \in LedgerTasks, NEW s \in Statements,
             BuildLedger(j, task, s)
      PROVE  ItemsOf(k)' = ItemsOf(k)
  <2>1. j # k
    BY <1>2 DEF BuildLedger, Create, Insert
  <2> QED BY <1>2, <2>1 DEF BuildLedger, ItemsOf
<1>3. ASSUME NEW j \in Stored, LockLedger(j)
      PROVE  ItemsOf(k)' = ItemsOf(k)
  <2>1. j # k
    BY <1>3 DEF LockLedger, LockAs
  <2> QED BY <1>3, <2>1 DEF LockLedger, ItemsOf
<1>4. \/ UNCHANGED items
      \/ \E j \in Keys, task \in LedgerTasks, s \in Statements : BuildLedger(j, task, s)
      \/ \E j \in Stored : LockLedger(j)
  BY DEF Next, Build, Lock, Bump, Gate, Loop, DefineChange, BuildImpact, BuildPlan,
         IssueCertificate, LockPlan, LockCertificate, LockImpact, BumpRow, AskGate, Start, Finish
<1> QED BY <1>1, <1>2, <1>3, <1>4

\* What a context says stays true.
LEMMA StandsKept ==
  ASSUME TypeOK, Next, NEW c, Stands(c)
  PROVE  Stands(c)'
<1> SUFFICES ASSUME c # NoContext PROVE Stands(c)'
  BY DEF Stands
<1>1. \A k \in {c.ledger, c.impact, c.plan} :
        k \in Stored' /\ rows'[k] = rows[k] /\ IsLocked(k)'
  BY NextMovesRows, LockedKept DEF Stands, TypeOK
<1>2. ItemsOf(c.ledger)' = ItemsOf(c.ledger)
  BY ItemsKept DEF Stands
<1>3. Conflicts(c.ledger)' = Conflicts(c.ledger)
  BY <1>2 DEF Conflicts
<1> QED BY <1>1, <1>2, <1>3 DEF Stands

\* A verdict that passes speaks of the rows as they are.
LEMMA OfferStands ==
  ASSUME TypeOK, LockedConfirmed, NEW ledger \in Keys, NEW constitution,
         AskGate(ledger, constitution)
  PROVE  Stands(offered)' /\ offered' \in Context
<1> DEFINE impact == First(OfTask("impact"))
           plan == First(OfTask("plan"))
           c == ContextOf(ledger)
<1>1. /\ ledger \in Stored /\ rows[ledger].kind = "ledger" /\ c.locked
      /\ OfTask("impact") # {} /\ OfTask("plan") # {}
  BY DEF AskGate, GatePasses, ComponentsSound, Of
<1>2. OfTask("impact") \subseteq Stored /\ OfTask("plan") \subseteq Stored /\ Stored \subseteq Keys
  BY DEF OfTask, Of, TypeOK, RowsTypeOK
<1>3. impact \in Stored /\ plan \in Stored
  BY <1>1, <1>2, FirstIn
<1>4. \A k \in Stored : rows[k].version \in Nat
  BY DEF TypeOK, RowsTypeOK, Row
<1> HIDE DEF impact, plan
<1>5. /\ c.ledger = ledger /\ c.impact = impact /\ c.plan = plan
      /\ c.versions["ledger"] = rows[ledger].version
      /\ c.versions["impact"] = rows[impact].version
      /\ c.versions["plan"] = rows[plan].version
      /\ c.conflicts = Conflicts(ledger)
      /\ c.locked = (IsLocked(ledger) /\ IsLocked(impact) /\ IsLocked(plan))
  BY RowKinds DEF ContextOf, impact, plan
<1>6. c \in Context
  <2> DEFINE v == [kind \in Kinds |->
                     CASE kind = "ledger" -> rows[ledger].version
                       [] kind = "impact" -> rows[impact].version
                       [] kind = "plan" -> rows[plan].version
                       [] OTHER -> 0]
             whole == IsLocked(ledger) /\ IsLocked(impact) /\ IsLocked(plan)
  <2>1. v \in [Kinds -> Nat]
    BY <1>1, <1>3, <1>4
  <2>2. whole \in BOOLEAN
    OBVIOUS
  <2>3. Conflicts(ledger) \in SUBSET Claims
    BY DEF Conflicts
  <2>4. c = [ledger |-> ledger, impact |-> impact, plan |-> plan, versions |-> v,
             locked |-> whole, conflicts |-> Conflicts(ledger)]
    BY DEF ContextOf, impact, plan
  <2> HIDE DEF v, whole, c
  <2> QED BY <1>1, <1>2, <1>3, <2>1, <2>2, <2>3, <2>4 DEF Context
<1> HIDE DEF c
<1>7. offered' = c /\ UNCHANGED <<rows, items>>
  BY DEF AskGate, c
<1>8. \A k \in Stored : k \in Stored' /\ IsLocked(k)' = IsLocked(k) /\ ItemsOf(k)' = ItemsOf(k)
  BY <1>7 DEF Stored, IsLocked, ItemsOf
<1>9. Conflicts(ledger)' = Conflicts(ledger)
  BY <1>1, <1>8 DEF Conflicts
<1>10. \A i \in ItemsOf(ledger) : i.authorized
  BY <1>1, <1>5 DEF LockedConfirmed
<1> QED BY <1>1, <1>3, <1>5, <1>6, <1>7, <1>8, <1>9, <1>10 DEF Stands

\* Locking a ledger authorizes all of it, and a new or bumped one is not locked.
LEMMA ConfirmedKept ==
  ASSUME TypeOK, LockedConfirmed, Next
  PROVE  LockedConfirmed'
<1> SUFFICES ASSUME NEW k \in Stored', (rows[k].kind = "ledger" /\ IsLocked(k))'
             PROVE  \A i \in ItemsOf(k)' : i.authorized
  BY DEF LockedConfirmed
<1>1. CASE k \in Stored /\ IsLocked(k)
  <2>1. rows'[k] = rows[k] /\ ItemsOf(k)' = ItemsOf(k)
    BY <1>1, NextMovesRows, LockedKept, ItemsKept DEF TypeOK
  <2> QED BY <1>1, <2>1 DEF LockedConfirmed
<1>2. CASE ~(k \in Stored /\ IsLocked(k))
  <2>1. \E data \in Data : k \in Stored /\ LockAs(k, data)
    <3> USE DEF TypeOK
    <3>1. ASSUME UNCHANGED rows
          PROVE  FALSE
      BY <1>2, <3>1 DEF Stored, IsLocked
    <3>2. ASSUME NEW j \in Keys, NEW kind \in Kinds, NEW data \in Data, Create(j, kind, data)
          PROVE  FALSE
      <4>1. /\ j \notin Stored /\ Stored' = Stored \cup {j} /\ rows'[j] = NewRow(j, kind, data)
            /\ \A i \in Stored : rows'[i] = rows[i]
        BY <3>2, NewRowTyped, Inserted DEF Create, Stored
      <4> QED BY <1>2, <4>1 DEF IsLocked, NewRow
    <3>3. ASSUME NEW j \in Stored, BumpInPlace(j)
          PROVE  FALSE
      BY <1>2, <3>3, Bumped DEF IsLocked, Stored
    <3>4. ASSUME NEW j \in Stored, NEW new \in Keys, BumpNewIdentity(j, new)
          PROVE  FALSE
      <4>1. /\ new \notin Stored /\ Stored' = Stored \cup {new} /\ rows'[new] = Clone(j)
            /\ \A i \in Stored : rows'[i] = rows[i] /\ ~Clone(j).locked
        BY <3>4, CloneTyped, Inserted DEF BumpNewIdentity, Stored
      <4> QED BY <1>2, <4>1 DEF IsLocked
    <3>5. ASSUME NEW j \in Stored, NEW data \in Data, LockAs(j, data), j # k
          PROVE  FALSE
      BY <1>2, <3>5, Locked DEF IsLocked, Stored
    <3> QED BY <3>1, <3>2, <3>3, <3>4, <3>5, NextMovesRows DEF RowsMove
  <2>2. rows[k].kind = "ledger" /\ ~IsLocked(k) /\ k \in Stored
    BY <2>1, Locked DEF TypeOK, LockAs
  <2>3. LockLedger(k)
    <3>1. rows' # rows /\ \A j \in Stored \ {k} : rows'[j] = rows[j]
      BY <1>2, <2>1, <2>2, Locked DEF TypeOK, IsLocked
    <3>2. IsLocked(k)' /\ Stored' = Stored
      BY <2>1, Locked DEF TypeOK, Stored
    <3>3. ASSUME NEW j \in Stored, NEW data, LockAs(j, data)
          PROVE  j = k
      BY <1>2, <2>2, <3>2, <3>3 DEF LockAs, IsLocked, TypeOK, RowsTypeOK
    <3>4. ~Build
      <4>1. ASSUME NEW j, NEW row, Insert(j, row) PROVE FALSE
        BY <3>2, <4>1 DEF Insert, Stored
      <4> QED BY <3>1, <4>1 DEF Build, BuildLedger, BuildImpact, BuildPlan, IssueCertificate,
                                DefineChange, Create
    <3>5. ~Bump
      <4>1. ASSUME NEW j \in Stored, BumpInPlace(j) PROVE FALSE
        BY <2>2, <3>2, <4>1, Bumped DEF TypeOK, IsLocked
      <4>2. ASSUME NEW j \in Stored, NEW new \in Keys, BumpNewIdentity(j, new) PROVE FALSE
        BY <3>2, <4>2 DEF BumpNewIdentity, Insert, Stored
      <4> QED BY <4>1, <4>2 DEF Bump, BumpRow
    <3>6. ~Gate /\ ~Loop
      BY <3>1 DEF Gate, AskGate, Loop, Start, Finish
    <3>7. ~LockImpact
      <4>1. OfTask("impact") # {} => First(OfTask("impact")) \in OfTask("impact")
        BY FirstIn DEF OfTask, Of, TypeOK, RowsTypeOK
      <4>2. k \notin OfTask("impact") /\ OfTask("impact") \subseteq Stored
        BY <2>2 DEF OfTask, Of
      <4> QED BY <3>3, <4>1, <4>2 DEF LockImpact
    <3>8. \A j \in Stored : ~LockPlan(j) /\ ~LockCertificate(j)
      BY <2>2, <3>3 DEF LockPlan, LockCertificate, Of
    <3>9. PICK j \in Stored : LockLedger(j)
      BY <3>4, <3>5, <3>6, <3>7, <3>8 DEF Next, Lock
    <3> QED BY <3>3, <3>9 DEF LockLedger
  <2>4. items' = [j \in DOMAIN items |->
                   IF j = k THEN {[i EXCEPT !.authorized = TRUE] : i \in items[j]} ELSE items[j]]
    BY <2>3 DEF LockLedger
  <2>5. ASSUME k \in DOMAIN items
        PROVE  ItemsOf(k)' = {[i EXCEPT !.authorized = TRUE] : i \in items[k]}
    BY <2>4, <2>5 DEF ItemsOf
  <2>6. k \in DOMAIN items => items[k] \subseteq Item
    BY DEF TypeOK
  <2>7. k \notin DOMAIN items => ItemsOf(k)' = {}
    BY <2>4 DEF ItemsOf
  <2> QED BY <2>5, <2>6, <2>7 DEF Item
<1> QED BY <1>1, <1>2

\* The types are kept.
LEMMA TypesKeep ==
  ASSUME ContractInv, Next
  PROVE  TypeOK'
<1> USE DEF ContractInv
<1>1. RowsTypeOK'
  BY NextMovesRows, RowsKeep DEF RowsInv
<1>2. defined' \in BOOLEAN
  BY DEF TypeOK, Next, Build, Lock, Bump, Gate, Loop, DefineChange, BuildLedger, BuildImpact,
         BuildPlan, IssueCertificate, LockLedger, LockPlan, LockCertificate, LockImpact, BumpRow,
         AskGate, Start, Finish
<1>3. Stored \subseteq Stored'
  <2>1. ASSUME NEW k, NEW row, Insert(k, row) PROVE Stored \subseteq Stored'
    BY <2>1 DEF Insert, Stored
  <2>2. ASSUME NEW k, NEW data, LockAs(k, data) PROVE Stored \subseteq Stored'
    BY <2>2 DEF LockAs, Stored
  <2>3. ASSUME NEW k, BumpInPlace(k) PROVE Stored \subseteq Stored'
    BY <2>3 DEF BumpInPlace, Stored
  <2> QED BY <2>1, <2>2, <2>3, NextMovesRows
          DEF RowsMove, Create, BumpNewIdentity, Stored
<1>4. DOMAIN items' \subseteq Stored' /\ items' \in [DOMAIN items' -> SUBSET Item]
  <2>1. CASE UNCHANGED items
    BY <1>3, <2>1 DEF TypeOK
  <2>2. ASSUME NEW k \in Keys, NEW task \in LedgerTasks, NEW s \in Statements,
               BuildLedger(k, task, s)
        PROVE  DOMAIN items' \subseteq Stored' /\ items' \in [DOMAIN items' -> SUBSET Item]
    <3>1. Compiled(s) \in SUBSET Item
      BY <2>2, CompiledTyped DEF BuildLedger
    <3>2. k \in Stored'
      BY <2>2 DEF BuildLedger, Create, Insert, Stored
    <3>3. items' = [j \in DOMAIN items \cup {k} |-> IF j = k THEN Compiled(s) ELSE items[j]]
      BY <2>2 DEF BuildLedger
    <3> HIDE DEF Compiled
    <3> QED BY <1>3, <3>1, <3>2, <3>3 DEF TypeOK
  <2>3. ASSUME NEW k \in Stored, LockLedger(k)
        PROVE  DOMAIN items' \subseteq Stored' /\ items' \in [DOMAIN items' -> SUBSET Item]
    <3>1. \A i \in Item : [i EXCEPT !.authorized = TRUE] \in Item
      BY DEF Item
    <3>2. items' = [j \in DOMAIN items |->
                     IF j = k THEN {[i EXCEPT !.authorized = TRUE] : i \in items[j]}
                     ELSE items[j]]
      BY <2>3 DEF LockLedger
    <3>3. \A j \in DOMAIN items : items[j] \subseteq Item
      BY DEF TypeOK
    <3>4. \A j \in DOMAIN items : items'[j] \subseteq Item
      BY <3>1, <3>2, <3>3
    <3> QED BY <1>3, <3>2, <3>4 DEF TypeOK
  <2>4. \/ UNCHANGED items
        \/ \E j \in Keys, task \in LedgerTasks, s \in Statements : BuildLedger(j, task, s)
        \/ \E j \in Stored : LockLedger(j)
    BY DEF Next, Build, Lock, Bump, Gate, Loop, DefineChange, BuildImpact, BuildPlan,
           IssueCertificate, LockPlan, LockCertificate, LockImpact, BumpRow, AskGate, Start,
           Finish
  <2> QED BY <2>1, <2>2, <2>3, <2>4
<1>5. DOMAIN cases' \subseteq Stored' /\ cases' \in [DOMAIN cases' -> SUBSET SUBSET Behaviors]
  <2>1. CASE UNCHANGED cases
    BY <1>3, <2>1 DEF TypeOK
  <2>2. ASSUME NEW k \in Keys, NEW ledger, NEW affected \in SUBSET Behaviors,
               NEW targets \in SUBSET SUBSET Behaviors, BuildPlan(k, ledger, affected, targets)
        PROVE  DOMAIN cases' \subseteq Stored'
               /\ cases' \in [DOMAIN cases' -> SUBSET SUBSET Behaviors]
    <3>1. k \in Stored'
      BY <2>2 DEF BuildPlan, Create, Insert, Stored
    <3>2. cases' = [j \in DOMAIN cases \cup {k} |-> IF j = k THEN targets ELSE cases[j]]
      BY <2>2 DEF BuildPlan
    <3> QED BY <1>3, <3>1, <3>2 DEF TypeOK
  <2>3. \/ UNCHANGED cases
        \/ \E k \in Keys, ledger \in Keys \cup {NoRow}, affected \in SUBSET Behaviors,
              targets \in SUBSET SUBSET Behaviors : BuildPlan(k, ledger, affected, targets)
    BY DEF Next, Build, Lock, Bump, Gate, Loop, DefineChange, BuildLedger, BuildImpact,
           IssueCertificate, LockLedger, LockPlan, LockCertificate, LockImpact, BumpRow,
           AskGate, Start, Finish
  <2> QED BY <2>1, <2>2, <2>3
<1>6. offered' \in Context \cup {NoContext} /\ running' \in Context \cup {NoContext}
  <2>1. CASE Gate
    BY <2>1, OfferStands DEF Gate, AskGate, TypeOK
  <2>2. CASE Loop
    BY <2>2 DEF Loop, Start, Finish, TypeOK
  <2>3. CASE UNCHANGED <<offered, running>>
    BY <2>3 DEF TypeOK
  <2>4. Gate \/ Loop \/ UNCHANGED <<offered, running>>
    BY DEF Next, Build, Lock, Bump, DefineChange, BuildLedger, BuildImpact, BuildPlan,
           IssueCertificate, LockLedger, LockPlan, LockCertificate, LockImpact, BumpRow
  <2> QED BY <2>1, <2>2, <2>3, <2>4
<1> QED BY <1>1, <1>2, <1>4, <1>5, <1>6 DEF TypeOK

\* The contract stays frozen.
LEMMA FrozenKept ==
  ASSUME ContractInv, Next
  PROVE  ContractFrozen'
<1> USE DEF ContractInv
<1>1. Stands(NoContext)'
  BY DEF Stands
<1>2. ASSUME NEW c \in {offered, running} PROVE Stands(c)'
  BY StandsKept DEF ContractFrozen
<1>3. CASE Gate
  BY <1>2, <1>3, OfferStands DEF Gate, AskGate, ContractFrozen
<1>4. CASE Loop
  BY <1>1, <1>2, <1>4 DEF Loop, Start, Finish, ContractFrozen
<1>5. CASE UNCHANGED <<offered, running>>
  BY <1>2, <1>5 DEF ContractFrozen
<1>6. Gate \/ Loop \/ UNCHANGED <<offered, running>>
  BY DEF Next, Build, Lock, Bump, DefineChange, BuildLedger, BuildImpact, BuildPlan,
         IssueCertificate, LockLedger, LockPlan, LockCertificate, LockImpact, BumpRow
<1> QED BY <1>3, <1>4, <1>5, <1>6

\* The store is empty at first, and no context is offered.
LEMMA InitHolds == Init => ContractInv
<1> SUFFICES ASSUME Init PROVE ContractInv
  OBVIOUS
<1>1. DOMAIN rows = {} /\ DOMAIN items = {} /\ DOMAIN cases = {}
  BY DEF Init
<1>2. Stored = {}
  BY <1>1 DEF Stored
<1>3. RowsInv
  BY <1>1, <1>2 DEF Init, RowsInv, RowsTypeOK, ParentStands, ChildIdentity, IdentityUnique,
                    BaseIsOwn
<1>4. TypeOK
  BY <1>1, <1>2, <1>3 DEF Init, TypeOK, RowsInv
<1> QED BY <1>2, <1>3, <1>4 DEF Init, ContractInv, LockedConfirmed, ContractFrozen, Stands

LEMMA StutterKeeps ==
  ASSUME ContractInv, UNCHANGED vars
  PROVE  ContractInv'
<1>1. /\ rows' = rows /\ defined' = defined /\ items' = items /\ cases' = cases
      /\ offered' = offered /\ running' = running
  BY DEF vars
<1>2. TypeOK'
  BY <1>1 DEF ContractInv, TypeOK, RowsTypeOK, Stored
<1>3. RowsInv'
  BY <1>1, RowsKeep DEF ContractInv, RowsMove
<1>4. LockedConfirmed'
  BY <1>1 DEF ContractInv, LockedConfirmed, Stored, IsLocked, ItemsOf
<1>5. ContractFrozen'
  BY <1>1 DEF ContractInv, ContractFrozen, Stands, Stored, IsLocked, ItemsOf, Conflicts
<1> QED BY <1>2, <1>3, <1>4, <1>5 DEF ContractInv

\* Every step keeps the invariant of the pre-coding rows.
THEOREM ContractInvariant == Spec => []ContractInv
<1>1. ContractInv /\ [Next]_vars => ContractInv'
  <2> SUFFICES ASSUME ContractInv, [Next]_vars PROVE ContractInv'
    OBVIOUS
  <2>1. CASE Next
    BY <2>1, TypesKeep, RowsKeep, NextMovesRows, ConfirmedKept, FrozenKept DEF ContractInv
  <2>2. CASE UNCHANGED vars
    BY <2>2, StutterKeeps
  <2> QED BY <2>1, <2>2
<1> QED BY <1>1, InitHolds, PTL DEF Spec

\* Every variable of the pre-coding objects has its type.
THEOREM TypesHold == Spec => []TypeOK
<1>1. ContractInv => TypeOK
  BY DEF ContractInv
<1> QED BY <1>1, ContractInvariant, PTL

\* A parent reference names a locked row of a lower version, as it was.
THEOREM ParentsStand == Spec => []ParentStands
<1>1. ContractInv => ParentStands
  BY DEF ContractInv, RowsInv
<1> QED BY <1>1, ContractInvariant, PTL

\* A row with a unique identity has at most one successor.
THEOREM SuccessorsUnique == Spec => []OneSuccessor
<1>1. ContractInv => OneSuccessor
  BY SuccessorsAgree DEF ContractInv
<1> QED BY <1>1, ContractInvariant, PTL

\* Every lineage is a history of locked versions.
THEOREM LineagesAreSound == Spec => []LineageSound
<1>1. ParentStands /\ OneSuccessor => LineageSound
  BY DEF LineageSound
<1> QED BY <1>1, ParentsStand, SuccessorsUnique, PTL

\* The contract an agent waits for or runs on is frozen.
THEOREM ContractsFrozen == Spec => []ContractFrozen
<1>1. ContractInv => ContractFrozen
  BY DEF ContractInv
<1> QED BY <1>1, ContractInvariant, PTL

\* A locked row is never changed.
THEOREM LocksHold == Spec => LockedForever
<1>1. ContractInv /\ [Next]_vars =>
        [\A k \in Stored : IsLocked(k) => k \in DOMAIN rows' /\ rows'[k] = rows[k]]_rows
  <2> SUFFICES ASSUME ContractInv, Next, NEW k \in Stored, IsLocked(k)
               PROVE  k \in DOMAIN rows' /\ rows'[k] = rows[k]
    BY DEF vars
  <2> QED BY NextMovesRows, LockedKept DEF ContractInv, TypeOK, Stored
<1> QED BY <1>1, ContractInvariant, PTL DEF Spec, LockedForever

\* No loop starts on a contract that was replaced.
THEOREM StartsAreCurrent == Spec => StartsOnCurrent
<1>1. [Next]_vars =>
        [running = NoContext /\ running' # NoContext =>
           ~HasSuccessor(running'.ledger) /\ ~HasSuccessor(running'.plan)]_vars
  <2> SUFFICES ASSUME Next, running = NoContext, running' # NoContext
               PROVE  ~HasSuccessor(running'.ledger) /\ ~HasSuccessor(running'.plan)
    OBVIOUS
  <2>1. PICK authorized \in BOOLEAN : Start(authorized)
    BY DEF Next, Build, Lock, Bump, Gate, Loop, DefineChange, BuildLedger, BuildImpact,
           BuildPlan, IssueCertificate, LockLedger, LockPlan, LockCertificate, LockImpact,
           BumpRow, AskGate, Finish
  <2> QED BY <2>1 DEF Start, BarrierPasses, HandoffAccepts
<1> QED BY <1>1, PTL DEF Spec, StartsOnCurrent

=============================================================================

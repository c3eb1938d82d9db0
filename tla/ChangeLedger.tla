---------------------------- MODULE ChangeLedger ----------------------------
(***************************************************************************)
(* What certification promises of the change of a task, without phases,    *)
(* segments, evidence or events: a certificate is issued once and is       *)
(* final, it is CERTIFIED only when the authorized intent explained what   *)
(* was observed, a merge is of the rows that are certified, and memory is  *)
(* applied under a certified certificate.                                  *)
(*                                                                         *)
(* The status of the task is not among the promises: a resumption marks    *)
(* the task as merged without asking certification.                        *)
(***************************************************************************)
EXTENDS Naturals

CONSTANTS
  Items,        \* what may be authorized
  Explaining,   \* the sets of items that explain every observed delta
  Sufficient    \* those that authorize the protected behaviors as well

VARIABLES
  bound,         \* what a certificate binds: statuses of change and candidate, the intent
  certificates,  \* none, or the only one
  memory,
  merges         \* how often the change was merged

vars == <<bound, certificates, memory, merges>>

Init ==
  /\ bound \in [change : {"OPEN", "MERGED"}, candidate : {"VERIFIED"}, intent : SUBSET Items]
  /\ certificates = {}
  /\ memory = "none"
  /\ merges = 0

Reconsider ==
  /\ \E s \in {"VERIFIED", "FAILED"} : bound' = [bound EXCEPT !.candidate = s]
  /\ UNCHANGED <<certificates, memory, merges>>

Authorize ==
  /\ \E i \in SUBSET Items :
       /\ bound.intent \subseteq i
       /\ bound' = [bound EXCEPT !.intent = i]
  /\ UNCHANGED <<certificates, memory, merges>>

Certify ==
  /\ certificates = {}
  /\ \E s \in {"DRAFT", "CERTIFIED"} :
       /\ s = "CERTIFIED" => bound.intent \in Explaining
       /\ certificates' = {[status |-> s, rows |-> bound]}
  /\ UNCHANGED <<bound, memory, merges>>

Merge ==
  /\ [status |-> "CERTIFIED", rows |-> bound] \in certificates
  /\ bound.candidate = "VERIFIED"
  /\ bound.intent \in Sufficient
  /\ bound' = [bound EXCEPT !.change = "MERGED"]
  /\ merges' = merges + 1
  /\ UNCHANGED <<certificates, memory>>

Preserve ==
  /\ memory = "none" /\ memory' = "preserved"
  /\ UNCHANGED <<bound, certificates, merges>>

Apply ==
  /\ \E c \in certificates : c.status = "CERTIFIED"
  /\ memory' = "applied"
  /\ UNCHANGED <<bound, certificates, merges>>

Next == Reconsider \/ Authorize \/ Certify \/ Merge \/ Preserve \/ Apply

Spec == Init /\ [][Next]_vars

=============================================================================

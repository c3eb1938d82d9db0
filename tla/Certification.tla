---------------------------- MODULE Certification ----------------------------
(***************************************************************************)
(* What certification does to the rows of one task (smorx_certification):  *)
(* re-verification decides the candidate's status, the certificate binds   *)
(* the rows as they are when it is built, the merge gate recomputes that   *)
(* binding, and memory is applied under a certified certificate.           *)
(*                                                                         *)
(* Of the rows a certificate binds, those that something changes later are *)
(* kept: the change's status, the candidate's and the authorized intent.   *)
(***************************************************************************)
EXTENDS Naturals

CONSTANTS
  Items,            \* intent items of the task's ledgers
  Deltas,           \* its observed behavioral deltas
  ProtectedDeltas,  \* those of a protected behavior
  Covers,           \* pairs of an item and a delta its statement covers
  AlignedItems      \* the items with an ALIGNED intent alignment

ASSUME IntentAssumption ==
  /\ ProtectedDeltas \subseteq Deltas
  /\ Covers \subseteq Items \X Deltas
  /\ AlignedItems \subseteq Items

VARIABLES
  taskStatus, change, candidate,  \* statuses of the task, its change, its candidate patch
  intent,                         \* the items that are authorized now
  certificate,                    \* the certificate of the task's claim
  memory,                         \* the archaeology's memory entry
  opened,                         \* history: the change had not been merged before
  merges,                         \* history: merges the gate performed
  lastReverify                    \* history: the last eligible re-verification

certVars == <<taskStatus, change, candidate, intent, certificate, memory, opened, merges,
              lastReverify>>

NoCertificate ==
  [status |-> "none", change |-> "none", candidate |-> "none", intent |-> {}]

ChangeStatuses == {"OPEN", "MERGED"}
CandidateStatuses == {"VERIFIED", "FAILED"}

Certificates ==
  [status : {"DRAFT", "CERTIFIED"}, change : ChangeStatuses, candidate : CandidateStatuses,
   intent : SUBSET Items]

\* What a piece of verification evidence says: its exit code, or that it has none.
Exits == {"pass", "fail", "null"}

CertTypeOK ==
  /\ taskStatus \in {"VERIFIED", "MERGED"}
  /\ change \in ChangeStatuses
  /\ candidate \in CandidateStatuses
  /\ intent \subseteq Items
  /\ certificate \in Certificates \cup {NoCertificate}
  /\ memory \in {"none", "preserved", "applied"}
  /\ opened \in BOOLEAN
  /\ merges \in Nat
  /\ lastReverify \in {"none", "passed", "failed"}

\* The seeded change is MERGED already; a caller's is not.
CertInit ==
  /\ taskStatus = "VERIFIED"
  /\ opened \in BOOLEAN
  /\ change = IF opened THEN "OPEN" ELSE "MERGED"
  /\ candidate = "VERIFIED"
  /\ intent \in SUBSET Items
  /\ certificate = NoCertificate
  /\ memory = "none"
  /\ merges = 0
  /\ lastReverify = "none"

-----------------------------------------------------------------------------

\* evaluate_alignment(): every observed delta is covered by an authorized item.
ExplainedBy(items) == \A d \in Deltas : \E i \in items : <<i, d>> \in Covers

Explained == ExplainedBy(intent)

\* _protected_behaviors_authorized(): an authorized item is aligned, if one has to be.
ProtectedAuthorizedBy(items) == ProtectedDeltas # {} => items \cap AlignedItems # {}

ProtectedAuthorized == ProtectedAuthorizedBy(intent)

\* Faulty variant: a failed re-verification leaves the candidate's status alone.
ReverifyPassedOnly(evidence) ==
  /\ lastReverify' = IF "fail" \in evidence THEN "failed"
                     ELSE IF "pass" \in evidence THEN "passed" ELSE lastReverify
  /\ candidate' = IF "pass" \in evidence THEN "VERIFIED" ELSE candidate
  /\ UNCHANGED <<taskStatus, change, intent, certificate, memory, opened, merges>>

\* run_reverification(): evidence without an exit code decides nothing.
Reverify(evidence) ==
  /\ lastReverify' = IF "fail" \in evidence THEN "failed"
                     ELSE IF "pass" \in evidence THEN "passed" ELSE lastReverify
  /\ candidate' = IF "fail" \in evidence THEN "FAILED"
                  ELSE IF "pass" \in evidence THEN "VERIFIED" ELSE candidate
  /\ UNCHANGED <<taskStatus, change, intent, certificate, memory, opened, merges>>

\* Faulty variant: a DRAFT certificate is built anew.
BuildCertificateAnew(aligned, evidence) ==
  /\ certificate' =
       IF certificate.status = "CERTIFIED"
         THEN certificate
         ELSE [status |-> IF aligned /\ evidence # {} THEN "CERTIFIED" ELSE "DRAFT",
               change |-> change, candidate |-> candidate, intent |-> intent]
  /\ UNCHANGED <<taskStatus, change, candidate, intent, memory, opened, merges, lastReverify>>

\* build_certificate(): there is one certificate for a task's claim, and an existing one
\* is returned as it is, a DRAFT as well.
BuildCertificate(aligned, evidence) ==
  /\ certificate' =
       IF certificate # NoCertificate
         THEN certificate
         ELSE [status |-> IF aligned /\ evidence # {} THEN "CERTIFIED" ELSE "DRAFT",
               change |-> change, candidate |-> candidate, intent |-> intent]
  /\ UNCHANGED <<taskStatus, change, candidate, intent, memory, opened, merges, lastReverify>>

\* Faulty variant: the change is not among the chunks that are compared.
IntactApartFromChange == certificate.candidate = candidate /\ certificate.intent = intent

\* verify_certificate_integrity(): the rows are those that were bound.
Intact ==
  /\ certificate.change = change
  /\ certificate.candidate = candidate
  /\ certificate.intent = intent

\* evaluate_merge_gate(): all checks pass, given the segment's verdict.
MergeAllowed(aligned) ==
  /\ certificate.status = "CERTIFIED"
  /\ aligned
  /\ candidate = "VERIFIED"
  /\ Intact
  /\ ProtectedAuthorized

PerformMerge ==
  /\ taskStatus' = "MERGED"
  /\ change' = "MERGED"
  /\ merges' = merges + 1
  /\ UNCHANGED <<candidate, intent, certificate, memory, opened, lastReverify>>

\* persist_archaeology(): the summary is preserved, unapplied, once.
Archaeology == IF memory = "none" THEN "preserved" ELSE memory

\* persist_archaeology() and then run_memory_pipeline(), which applies the summary.
UpdateMemory ==
  /\ memory' = IF certificate.status = "CERTIFIED" THEN "applied" ELSE Archaeology
  /\ UNCHANGED <<taskStatus, change, candidate, intent, certificate, opened, merges,
                 lastReverify>>

\* persist_archaeology() alone: run_memory_pipeline() raised.
PreserveArchaeology ==
  /\ memory' = Archaeology
  /\ UNCHANGED <<taskStatus, change, candidate, intent, certificate, opened, merges,
                 lastReverify>>

\* lock_intent_ledger(): locking a further ledger of the task authorizes its items.
LockIntentLedger ==
  /\ \E more \in SUBSET (Items \ intent) : more # {} /\ intent' = intent \cup more
  /\ UNCHANGED <<taskStatus, change, candidate, certificate, memory, opened, merges,
                 lastReverify>>

=============================================================================

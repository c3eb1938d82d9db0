------------------------------ MODULE Workflow ------------------------------
(***************************************************************************)
(* The end-to-end workflow of one task (smorx_workflow): run_e2e_workflow()*)
(* executes a segment of the phases and records each in the event chain of *)
(* the task's run; resume_workflow() executes one again after a block,     *)
(* run_phases() replays one without effects, inject_failure() adds         *)
(* evidence of a failure and reset_workflow() clears the run.              *)
(*                                                                         *)
(* Calls of one session follow each other; each iteration of the segment's *)
(* loop is one action, and an intent ledger may be locked between any two. *)
(* A call that raises leaves what it wrote; rolled back by its caller, it  *)
(* is as if it had not been made, and so is no step.                       *)
(***************************************************************************)
EXTENDS Certification, Sequences

CONSTANTS
  Segments,  \* the sets of phases callers ask for
  Faults,    \* modes and phases of the failures that are injected
  MaxCalls   \* bound: calls that start a segment or inject a failure

DEFAULT_PHASES ==
  <<"discover", "govern", "define", "analyze", "lock", "develop", "verify", "decide",
    "reverify", "certify", "merge", "memory">>

Phases == {DEFAULT_PHASES[i] : i \in 1 .. 12}

\* _validate_phases(): a segment is ordered and without repetition, so it is a set.
ASSUME SegmentAssumption == \A s \in Segments : s \subseteq Phases /\ s # {}

FailingModes == {"SYNTAX_BUILD", "UNIT_TEST", "TEST_FAILURE", "INTEGRATION", "TOOL_FAILURE"}
BlockingModes == {"POLICY_BLOCK", "NO_PROGRESS"}
Modes ==
  FailingModes \cup BlockingModes \cup {"TIMEOUT", "AMBIGUOUS_RESULT", "CONFLICTING_EVIDENCE"}

ASSUME FaultAssumption == Faults \subseteq [mode : Modes, phase : Phases \cup {"none"}]

VARIABLES
  run,       \* status of the task's run
  events,    \* the run's events
  seeded,    \* exits of the task's own verification evidence
  injected,  \* exits of the evidence failures were injected with
  held,      \* scenario a caller keeps: the verification evidence it was built with
  pc,        \* "segment" while a segment is executed
  op,        \* the call that executes it
  segment, todo,  \* its phases, and those that remain
  evidence,  \* scenario.verification_evidence
  reader,    \* the evidence_reader of the call
  required,  \* require_certification
  verdict,   \* the segment's alignment verdict
  bundled,   \* the segment has its certificate
  outcome,   \* how the last segment ended
  calls

rows == <<run, events, seeded, injected>>
callVars == <<pc, op, segment, todo, evidence, reader, required, verdict, bundled, outcome>>
vars == <<certVars, rows, held, callVars, calls>>

NotHeld == {"not held"}

EventKinds == {"phase", "BLOCKED", "resume"} \cup Modes

TypeOK ==
  /\ CertTypeOK
  /\ run \in {"absent", "QUEUED", "RUNNING", "COMPLETED", "BLOCKED"}
  /\ events \in Seq([sequence : Nat, kind : EventKinds, phase : Phases \cup {"none"}])
  /\ seeded \subseteq Exits /\ injected \subseteq Exits
  /\ held \in (SUBSET Exits) \cup {NotHeld}
  /\ pc \in {"idle", "segment"}
  /\ op \in {"none", "run", "resume", "replay"}
  /\ segment \subseteq Phases /\ todo \subseteq segment
  /\ evidence \subseteq Exits
  /\ reader \in {"scenario", "empty"}
  /\ required \in BOOLEAN
  /\ verdict \in {"none", "aligned", "misaligned"}
  /\ bundled \in BOOLEAN
  /\ outcome \in {"none", "COMPLETE", "BLOCKED", "IN_PROGRESS", "refused"}
  /\ pc = "segment" => outcome = "none" /\ run # "absent"
  /\ calls \in Nat

Init ==
  /\ CertInit
  /\ run = "absent" /\ events = <<>>
  /\ seeded \in {{}, {"pass"}} /\ injected = {}
  /\ held = NotHeld
  /\ pc = "idle" /\ op = "none"
  /\ segment = {} /\ todo = {}
  /\ evidence = {} /\ reader = "scenario" /\ required = TRUE
  /\ verdict = "none" /\ bundled = FALSE
  /\ outcome = "none"
  /\ calls = 0

\* _record_event() with a run: next_sequence() counts the run's events.
Recorded(kind, phase) ==
  Append(events, [sequence |-> Len(events) + 1, kind |-> kind, phase |-> phase])

Position(p) == CHOOSE i \in 1 .. 12 : DEFAULT_PHASES[i] = p

-----------------------------------------------------------------------------
(* Calls *)

\* build_demo_scenario() finds the candidate by its status.
ScenarioExists == candidate = "VERIFIED"

BuildScenario ==
  /\ pc = "idle"
  /\ ScenarioExists
  /\ held' = seeded \cup injected
  /\ UNCHANGED <<certVars, rows, callVars, calls>>

Start(by, s, ev, rd, rq) ==
  /\ calls < MaxCalls
  /\ calls' = calls + 1
  /\ pc' = "segment" /\ op' = by
  /\ segment' = s /\ todo' = s
  /\ evidence' = ev /\ reader' = rd /\ required' = rq
  /\ verdict' = "none" /\ bundled' = FALSE
  /\ outcome' = "none"

\* run_e2e_workflow(), with a scenario of the caller's or one of its own.
RunE2E(s, rd, rq) ==
  /\ pc = "idle"
  /\ "discover" \in s
  /\ \/ held # NotHeld /\ Start("run", s, held, rd, rq)
     \/ ScenarioExists /\ Start("run", s, seeded \cup injected, rd, rq)
  /\ run' = IF run = "absent" THEN "RUNNING" ELSE run
  /\ UNCHANGED <<certVars, events, seeded, injected, held>>

\* _validate_run_scoped_chain()
ChainIsValid ==
  \A i, j \in 1 .. Len(events) : i < j => events[i].sequence < events[j].sequence

Unrecorded == Phases \ {events[i].phase : i \in 1 .. Len(events)}

\* _resume_point(): whatever event names a phase counts it as done.
IsResumePoint(p) == p \in Unrecorded /\ \A q \in Unrecorded : Position(p) <= Position(q)

\* resume_workflow(): nothing for a completed run or a merged task, and nothing when the
\* resume point is outside the requested phases.  The segment starts from its beginning.
Resume(s) ==
  /\ pc = "idle"
  /\ run \notin {"absent", "COMPLETED"} /\ taskStatus # "MERGED"
  /\ ChainIsValid
  /\ \A p \in Phases : IsResumePoint(p) => p \in s
  /\ ScenarioExists
  /\ "discover" \in s
  /\ Start("resume", s, seeded \cup injected, "scenario", TRUE)
  /\ UNCHANGED <<certVars, rows, held>>

\* run_phases(): it has neither scenario nor options.
RunPhases(s) ==
  /\ pc = "idle"
  /\ run # "absent"
  /\ Start("replay", s, {}, "scenario", TRUE)
  /\ UNCHANGED <<certVars, rows, held>>

\* The exit codes of the evidence that inject_failure() records.
InjectedExits(mode) ==
  IF mode \in FailingModes THEN {"fail"}
  ELSE IF mode = "CONFLICTING_EVIDENCE" THEN {"pass", "fail"}
  ELSE IF mode = "AMBIGUOUS_RESULT" THEN {"null"}
  ELSE {}

AlreadyInjected(f) ==
  \E i \in 1 .. Len(events) : events[i].kind = f.mode /\ events[i].phase = f.phase

\* inject_failure(): its rows have deterministic keys, so a second one changes nothing.
InjectFailure(f) ==
  /\ pc = "idle"
  /\ run # "absent"
  /\ ~AlreadyInjected(f)
  /\ calls < MaxCalls /\ calls' = calls + 1
  /\ injected' = injected \cup InjectedExits(f.mode)
  /\ events' = Recorded(f.mode, f.phase)
  /\ UNCHANGED <<certVars, run, seeded, held, callVars>>

\* reset_workflow(): the rows of the run go; task, candidate and certificate stay.
Reset ==
  /\ pc = "idle"
  /\ run # "absent"
  /\ run' = "QUEUED" /\ events' = <<>> /\ injected' = {}
  /\ UNCHANGED <<certVars, seeded, held, callVars, calls>>

-----------------------------------------------------------------------------
(* _run_segment(): one iteration of its loop each *)

AtPhase(p) ==
  /\ pc = "segment"
  /\ p \in todo /\ \A q \in todo : Position(p) <= Position(q)

\* Faulty variant: the block is recorded, but the segment goes on.
BlockGoesOn(p) ==
  /\ events' = Append(Recorded("phase", p),
                      [sequence |-> Len(events) + 2, kind |-> "BLOCKED", phase |-> "none"])
  /\ run' = "BLOCKED" /\ outcome' = "BLOCKED"
  /\ todo' = todo \ {p}
  /\ UNCHANGED pc

\* The phase is recorded, then _blocked() records the block and the segment is over.
Block(p) ==
  /\ events' = Append(Recorded("phase", p),
                      [sequence |-> Len(events) + 2, kind |-> "BLOCKED", phase |-> "none"])
  /\ run' = "BLOCKED" /\ outcome' = "BLOCKED"
  /\ pc' = "idle" /\ todo' = {}

Continue(p) ==
  /\ events' = Recorded("phase", p)
  /\ todo' = todo \ {p}
  /\ UNCHANGED <<run, outcome, pc>>

Kept == <<seeded, injected, held, op, segment, evidence, reader, required, calls>>

PlainPhase(p) ==
  /\ AtPhase(p)
  /\ op = "replay" \/ p \notin {"decide", "reverify", "certify", "merge", "memory"}
  /\ Continue(p)
  /\ UNCHANGED <<certVars, Kept, verdict, bundled>>

DecidePhase ==
  /\ AtPhase("decide") /\ op # "replay"
  /\ verdict' = IF Explained THEN "aligned" ELSE "misaligned"
  /\ IF required /\ Explained THEN Continue("decide") ELSE Block("decide")
  /\ UNCHANGED <<certVars, Kept, bundled>>

\* Without evidence the phase is blocked; a failure of the candidate does not block it.
ReverifyPhase ==
  /\ AtPhase("reverify") /\ op # "replay"
  /\ IF reader = "empty" \/ evidence = {}
       THEN Block("reverify") /\ UNCHANGED certVars
       ELSE Continue("reverify") /\ Reverify(evidence)
  /\ UNCHANGED <<Kept, verdict, bundled>>

CertifyPhase ==
  /\ AtPhase("certify") /\ op # "replay"
  /\ BuildCertificate(verdict = "aligned", evidence)
  /\ bundled' = TRUE
  /\ IF certificate'.status = "CERTIFIED" THEN Continue("certify") ELSE Block("certify")
  /\ UNCHANGED <<Kept, verdict>>

\* Faulty variant: the gate's verdict is recorded, but nothing acts on it.
MergePhaseHeedless ==
  /\ AtPhase("merge") /\ op # "replay"
  /\ Continue("merge")
  /\ IF bundled /\ MergeAllowed(verdict = "aligned") THEN PerformMerge ELSE UNCHANGED certVars
  /\ UNCHANGED <<Kept, verdict, bundled>>

MergePhase ==
  /\ AtPhase("merge") /\ op # "replay"
  /\ IF bundled /\ MergeAllowed(verdict = "aligned")
       THEN Continue("merge") /\ PerformMerge
       ELSE Block("merge") /\ UNCHANGED certVars
  /\ UNCHANGED <<Kept, verdict, bundled>>

MemoryPhase ==
  /\ AtPhase("memory") /\ op # "replay"
  /\ bundled
  /\ UpdateMemory
  /\ Continue("memory")
  /\ UNCHANGED <<Kept, verdict, bundled>>

\* Without a certificate the pipeline raises; resume_workflow() catches it, and what has
\* been written stays.
MemoryRaises ==
  /\ AtPhase("memory") /\ op # "replay"
  /\ ~bundled
  /\ PreserveArchaeology
  /\ pc' = "idle" /\ todo' = {} /\ outcome' = "refused"
  /\ UNCHANGED <<run, events, Kept, verdict, bundled>>

\* The segment is complete; a resumption then marks the task as merged.
Complete ==
  /\ pc = "segment" /\ todo = {}
  /\ pc' = "idle"
  /\ IF op = "replay"
       THEN outcome' = "IN_PROGRESS" /\ UNCHANGED run
       ELSE outcome' = "COMPLETE" /\ run' = "COMPLETED"
  /\ IF op = "resume"
       THEN taskStatus' = "MERGED" /\ events' = Recorded("resume", "none")
       ELSE UNCHANGED <<taskStatus, events>>
  /\ UNCHANGED <<change, candidate, intent, certificate, memory, opened, merges, lastReverify,
                 todo, Kept, verdict, bundled>>

-----------------------------------------------------------------------------

Call ==
  \/ BuildScenario
  \/ \E s \in Segments : \/ \E rd \in {"scenario", "empty"}, rq \in BOOLEAN : RunE2E(s, rd, rq)
                         \/ Resume(s) \/ RunPhases(s)
  \/ \E f \in Faults : InjectFailure(f)
  \/ Reset

SegmentStep ==
  \/ \E p \in Phases : PlainPhase(p)
  \/ DecidePhase \/ ReverifyPhase \/ CertifyPhase \/ MergePhase \/ MemoryPhase \/ MemoryRaises
  \/ Complete

LedgerLocked == LockIntentLedger /\ UNCHANGED <<rows, held, callVars, calls>>

Next == Call \/ SegmentStep \/ LedgerLocked

Spec == Init /\ [][Next]_vars

-----------------------------------------------------------------------------

\* A merge is earned: whatever calls came before, the candidate did not fail when it was
\* last re-verified, and the change, the candidate and the intent are those that were
\* certified.
MergeIsEarned ==
  [][merges' # merges =>
       /\ lastReverify # "failed"
       /\ certificate.status = "CERTIFIED"
       /\ certificate.change = change /\ certificate.candidate = candidate
       /\ certificate.intent = intent]_vars

\* A change is merged at most once, however often its workflow is run, resumed or reset:
\* its merge makes the only certificate it can have stale.
MergedOnce == opened => merges <= 1

\* COMPLETE is said of a segment with a merge only after the gate merged the task, and of
\* one with memory only after the memory was applied.
CompleteIsHonest ==
  outcome = "COMPLETE" =>
    /\ "merge" \in segment =>
         merges > 0 /\ change = "MERGED" /\ taskStatus = "MERGED"
    /\ "memory" \in segment => memory = "applied"

\* Memory is applied under a certified certificate only, whatever calls fail half way.
MemoryIsCertified == memory = "applied" => certificate.status = "CERTIFIED"

\* The rows of the task implement the ledger of its change: in particular only an intent
\* that explains every delta, now as when it was certified, is merged, and a certificate is
\* issued once and stays as it was.
Ledger == INSTANCE ChangeLedger WITH
  bound <- [change |-> change, candidate |-> candidate, intent |-> intent],
  certificates <-
    IF certificate = NoCertificate THEN {}
    ELSE {[status |-> certificate.status,
           rows |-> [change |-> certificate.change, candidate |-> certificate.candidate,
                     intent |-> certificate.intent]]},
  Explaining <- {i \in SUBSET Items : ExplainedBy(i)},
  Sufficient <- {i \in SUBSET Items : ExplainedBy(i) /\ ProtectedAuthorizedBy(i)}

ChangeSpec == Ledger!Spec

\* orchestrate.py:8-9 "it never fabricates evidence, certification, or merge state": a
\* task is MERGED because the merge gate merged it.
MergedIsGated == taskStatus = "MERGED" => merges > 0

=============================================================================

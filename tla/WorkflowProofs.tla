--------------------------- MODULE WorkflowProofs ---------------------------
(***************************************************************************)
(* Proofs about the workflow, for any segments, failures and intents and   *)
(* any number of calls.                                                    *)
(***************************************************************************)
EXTENDS Workflow, SequenceTheorems, TLAPS

\* A failed candidate is known to be one.
FailureIsKept == lastReverify = "failed" => candidate = "FAILED"

\* An open change is merged by the gate alone, and its certificate bound it as it was.
OpenChange ==
  opened =>
    \/ merges = 0 /\ change = "OPEN"
    \/ /\ merges = 1 /\ change = "MERGED"
       /\ certificate # NoCertificate /\ certificate.change = "OPEN"

MergeShows == merges > 0 => change = "MERGED" /\ taskStatus = "MERGED"

RowsInv == CertTypeOK /\ FailureIsKept /\ OpenChange /\ MergeShows /\ MemoryIsCertified

\* What the phases of a segment that are behind it have done.
SegmentSoFar ==
  pc = "segment" =>
    /\ bundled => certificate.status = "CERTIFIED"
    /\ op # "replay" =>
         /\ "merge" \in segment \ todo => merges > 0
         /\ "memory" \in segment \ todo => memory = "applied"

WorkflowInv == TypeOK /\ RowsInv /\ SegmentSoFar /\ CompleteIsHonest

\* next_sequence() numbers the run's events without a gap.
Numbered == \A i \in 1 .. Len(events) : events[i].sequence = i

-----------------------------------------------------------------------------
(* The rows certification works on *)

\* How a step of the workflow may change the rows.
RowsMove ==
  \/ UNCHANGED certVars
  \/ \E ev \in SUBSET Exits : Reverify(ev)
  \/ \E ev \in SUBSET Exits : BuildCertificate(verdict = "aligned", ev)
  \/ MergeAllowed(verdict = "aligned") /\ PerformMerge
  \/ UpdateMemory
  \/ PreserveArchaeology
  \/ LockIntentLedger
  \/ /\ taskStatus' = "MERGED"
     /\ UNCHANGED <<change, candidate, intent, certificate, memory, opened, merges, lastReverify>>

\* Every step of the workflow is one of those moves.
LEMMA StepsMoveRows == TypeOK /\ [Next]_vars => RowsMove
<1> SUFFICES ASSUME TypeOK, [Next]_vars PROVE RowsMove
  OBVIOUS
<1>1. evidence \in SUBSET Exits
  BY DEF TypeOK
<1>2. CASE Call
  BY <1>2 DEF Call, BuildScenario, RunE2E, Resume, RunPhases, InjectFailure, Reset, RowsMove
<1>3. CASE SegmentStep
  <2>1. ASSUME NEW p \in Phases, PlainPhase(p) PROVE RowsMove
    BY <2>1 DEF PlainPhase, RowsMove
  <2>2. CASE DecidePhase
    BY <2>2 DEF DecidePhase, RowsMove
  <2>3. CASE ReverifyPhase
    BY <1>1, <2>3 DEF ReverifyPhase, RowsMove
  <2>4. CASE CertifyPhase
    BY <1>1, <2>4 DEF CertifyPhase, RowsMove
  <2>5. CASE MergePhase
    BY <2>5 DEF MergePhase, RowsMove
  <2>6. CASE MemoryPhase
    BY <2>6 DEF MemoryPhase, RowsMove
  <2>7. CASE MemoryRaises
    BY <2>7 DEF MemoryRaises, RowsMove
  <2>8. CASE Complete
    BY <2>8 DEF Complete, RowsMove, certVars
  <2> QED BY <1>3, <2>1, <2>2, <2>3, <2>4, <2>5, <2>6, <2>7, <2>8 DEF SegmentStep
<1>4. CASE LedgerLocked
  BY <1>4 DEF LedgerLocked, RowsMove
<1>5. CASE UNCHANGED vars
  BY <1>5 DEF vars, RowsMove
<1> QED BY <1>2, <1>3, <1>4, <1>5 DEF Next

\* A certificate is final, and so are a merge and an applied memory.
LEMMA RowsGrow ==
  ASSUME RowsInv, RowsMove
  PROVE  /\ certificate # NoCertificate => certificate' = certificate
         /\ merges > 0 => merges' > 0
         /\ memory = "applied" => memory' = "applied"
         /\ merges' \in Nat
<1>1. merges \in Nat
  BY DEF RowsInv, CertTypeOK
<1>2. merges' = merges \/ merges' = merges + 1
  BY DEF RowsMove, certVars, Reverify, BuildCertificate, PerformMerge, UpdateMemory,
         PreserveArchaeology, LockIntentLedger
<1>3. certificate # NoCertificate => certificate' = certificate
  BY DEF RowsMove, certVars, Reverify, BuildCertificate, PerformMerge, UpdateMemory,
         PreserveArchaeology, LockIntentLedger
<1>4. memory = "applied" => memory' = "applied"
  BY DEF RowsMove, certVars, Reverify, BuildCertificate, PerformMerge, UpdateMemory,
         PreserveArchaeology, LockIntentLedger, Archaeology
<1> QED BY <1>1, <1>2, <1>3, <1>4

\* Every move keeps the invariant of the rows.
LEMMA RowsStep ==
  ASSUME RowsInv, RowsMove
  PROVE  RowsInv'
<1>1. /\ CertTypeOK /\ FailureIsKept /\ OpenChange /\ MergeShows /\ MemoryIsCertified
  BY DEF RowsInv
<1>2. NoCertificate.status = "none" /\ NoCertificate.status # "CERTIFIED"
  BY DEF NoCertificate
<1>3. CASE UNCHANGED certVars
  BY <1>1, <1>3 DEF RowsInv, CertTypeOK, FailureIsKept, OpenChange, MergeShows, MemoryIsCertified,
                    certVars
<1>4. ASSUME NEW ev \in SUBSET Exits, Reverify(ev) PROVE RowsInv'
  <2>1. CertTypeOK'
    BY <1>1, <1>4 DEF Reverify, CertTypeOK, CandidateStatuses
  <2>2. FailureIsKept'
    BY <1>1, <1>4 DEF Reverify, FailureIsKept
  <2> QED BY <1>1, <1>4, <2>1, <2>2 DEF Reverify, RowsInv, OpenChange, MergeShows, MemoryIsCertified
<1>5. ASSUME NEW a, NEW ev, BuildCertificate(a, ev) PROVE RowsInv'
  <2>1. /\ UNCHANGED <<taskStatus, change, candidate, intent, memory, opened, merges, lastReverify>>
        /\ certificate # NoCertificate => certificate' = certificate
        /\ certificate' \in Certificates \cup {NoCertificate}
    BY <1>1, <1>5 DEF BuildCertificate, CertTypeOK, Certificates
  <2>2. CertTypeOK'
    BY <1>1, <2>1 DEF CertTypeOK
  <2>3. OpenChange'
    BY <1>1, <2>1 DEF OpenChange
  <2>4. MemoryIsCertified'
    BY <1>1, <1>2, <2>1 DEF MemoryIsCertified
  <2> QED BY <1>1, <2>1, <2>2, <2>3, <2>4 DEF RowsInv, FailureIsKept, MergeShows
<1>6. ASSUME NEW a, MergeAllowed(a), PerformMerge PROVE RowsInv'
  <2>1. /\ certificate # NoCertificate /\ certificate.change = change
    BY <1>2, <1>6 DEF MergeAllowed, Intact
  <2>2. CertTypeOK'
    BY <1>1, <1>6 DEF PerformMerge, CertTypeOK, ChangeStatuses
  <2>3. OpenChange'
    <3>1. opened => merges = 0 /\ change = "OPEN"
      BY <1>1, <2>1 DEF OpenChange
    <3> QED BY <1>6, <2>1, <3>1 DEF PerformMerge, OpenChange
  <2> QED BY <1>1, <1>6, <2>2, <2>3 DEF PerformMerge, RowsInv, FailureIsKept, MergeShows,
                                      MemoryIsCertified
<1>7. CASE UpdateMemory \/ PreserveArchaeology
  <2>1. CertTypeOK'
    BY <1>1, <1>7 DEF UpdateMemory, PreserveArchaeology, Archaeology, CertTypeOK
  <2>2. MemoryIsCertified'
    BY <1>1, <1>7 DEF UpdateMemory, PreserveArchaeology, Archaeology, MemoryIsCertified
  <2> QED BY <1>1, <1>7, <2>1, <2>2 DEF UpdateMemory, PreserveArchaeology, RowsInv, FailureIsKept,
                                        OpenChange, MergeShows
<1>8. CASE LockIntentLedger
  BY <1>1, <1>8 DEF LockIntentLedger, RowsInv, CertTypeOK, FailureIsKept, OpenChange, MergeShows,
                    MemoryIsCertified
<1>9. CASE /\ taskStatus' = "MERGED"
           /\ UNCHANGED <<change, candidate, intent, certificate, memory, opened, merges,
                          lastReverify>>
  BY <1>1, <1>9 DEF RowsInv, CertTypeOK, FailureIsKept, OpenChange, MergeShows, MemoryIsCertified
<1> QED BY <1>3, <1>4, <1>5, <1>6, <1>7, <1>8, <1>9 DEF RowsMove

-----------------------------------------------------------------------------
(* The run and its events *)

EventRecords == [sequence : Nat, kind : EventKinds, phase : Phases \cup {"none"}]

\* Recording an event keeps the chain typed and numbered.
LEMMA Recording ==
  ASSUME events \in Seq(EventRecords), NEW kind \in EventKinds, NEW phase \in Phases \cup {"none"}
  PROVE  /\ Recorded(kind, phase) \in Seq(EventRecords)
         /\ Len(Recorded(kind, phase)) = Len(events) + 1
         /\ Numbered => \A i \in 1 .. Len(events) + 1 : Recorded(kind, phase)[i].sequence = i
<1> DEFINE e == [sequence |-> Len(events) + 1, kind |-> kind, phase |-> phase]
<1>1. Len(events) \in Nat
  BY LenProperties
<1>2. e \in EventRecords /\ e.sequence = Len(events) + 1
  BY <1>1 DEF EventRecords
<1>3. Recorded(kind, phase) = Append(events, e)
  BY DEF Recorded
<1> HIDE DEF e
<1>4. /\ Append(events, e) \in Seq(EventRecords)
      /\ Len(Append(events, e)) = Len(events) + 1
      /\ \A i \in 1 .. Len(events) : Append(events, e)[i] = events[i]
      /\ Append(events, e)[Len(events) + 1] = e
  BY <1>2, AppendProperties
<1>5. ASSUME Numbered, NEW i \in 1 .. Len(events) + 1 PROVE Append(events, e)[i].sequence = i
  <2>1. CASE i \in 1 .. Len(events)
    BY <1>4, <1>5, <2>1 DEF Numbered
  <2>2. CASE i = Len(events) + 1
    BY <1>2, <1>4, <2>2
  <2> QED BY <1>1, <2>1, <2>2
<1> QED BY <1>3, <1>4, <1>5

\* A phase and the block that follows it.
LEMMA RecordingBlock ==
  ASSUME events \in Seq(EventRecords), NEW p \in Phases, Block(p)
  PROVE  /\ events' \in Seq(EventRecords)
         /\ Numbered => Numbered'
<1> DEFINE es == Recorded("phase", p)
           e == [sequence |-> Len(events) + 2, kind |-> "BLOCKED", phase |-> "none"]
<1>1. Len(events) \in Nat
  BY LenProperties
<1>2. e \in EventRecords /\ e.sequence = Len(events) + 2
  BY <1>1 DEF EventRecords, EventKinds
<1>3. events' = Append(es, e)
  BY DEF Block
<1>4. "phase" \in EventKinds
  BY DEF EventKinds
<1>5. /\ es \in Seq(EventRecords) /\ Len(es) = Len(events) + 1
      /\ Numbered => \A i \in 1 .. Len(events) + 1 : es[i].sequence = i
  BY <1>4, Recording
<1> HIDE DEF e, es
<1>6. /\ Append(es, e) \in Seq(EventRecords)
      /\ Len(Append(es, e)) = Len(es) + 1
      /\ \A i \in 1 .. Len(es) : Append(es, e)[i] = es[i]
      /\ Append(es, e)[Len(es) + 1] = e
  BY <1>2, <1>5, AppendProperties
<1>7. ASSUME Numbered, NEW i \in 1 .. Len(events) + 2 PROVE Append(es, e)[i].sequence = i
  <2>1. CASE i \in 1 .. Len(es)
    BY <1>5, <1>6, <1>7, <2>1
  <2>2. CASE i = Len(es) + 1
    BY <1>1, <1>2, <1>5, <1>6, <2>2
  <2> QED BY <1>1, <1>5, <2>1, <2>2
<1>8. Len(events') = Len(events) + 2
  BY <1>1, <1>3, <1>5, <1>6
<1> QED BY <1>3, <1>6, <1>7, <1>8 DEF Numbered

\* Every step of the workflow keeps the chain typed, and numbered.
LEMMA ChainStep ==
  ASSUME TypeOK, [Next]_vars
  PROVE  events' \in Seq(EventRecords) /\ (Numbered => Numbered')
<1> DEFINE Goal == events' \in Seq(EventRecords) /\ (Numbered => Numbered')
<1>1. events \in Seq(EventRecords)
  BY DEF TypeOK, EventRecords
<1>2. "phase" \in EventKinds /\ "resume" \in EventKinds
  BY DEF EventKinds
<1>3. ASSUME UNCHANGED events PROVE Goal
  BY <1>1, <1>3 DEF Numbered
<1>4. ASSUME NEW kind \in EventKinds, NEW phase \in Phases \cup {"none"},
             events' = Recorded(kind, phase)
      PROVE  Goal
  BY <1>1, <1>4, Recording DEF Numbered
<1>5. ASSUME NEW p \in Phases, Continue(p) PROVE Goal
  BY <1>2, <1>4, <1>5 DEF Continue
<1>6. ASSUME NEW p \in Phases, Block(p) PROVE Goal
  BY <1>1, <1>6, RecordingBlock
<1>7. ASSUME NEW p, AtPhase(p) PROVE p \in Phases
  BY <1>7 DEF AtPhase, TypeOK
<1>8. CASE Call
  <2>1. ASSUME NEW f \in Faults, InjectFailure(f) PROVE Goal
    <3>1. f.mode \in EventKinds /\ f.phase \in Phases \cup {"none"}
      BY FaultAssumption DEF EventKinds
    <3> QED BY <1>4, <2>1, <3>1 DEF InjectFailure
  <2>2. CASE Reset
    <3>1. events' = <<>>
      BY <2>2 DEF Reset
    <3> QED BY <3>1, EmptySeq DEF Numbered
  <2>3. ASSUME NEW s \in Segments, NEW rd \in {"scenario", "empty"}, NEW rq \in BOOLEAN,
               RunE2E(s, rd, rq)
        PROVE  UNCHANGED events
    BY <2>3 DEF RunE2E
  <2>4. CASE BuildScenario
    BY <1>3, <2>4 DEF BuildScenario, rows
  <2>5. ASSUME NEW s \in Segments, Resume(s) \/ RunPhases(s) PROVE UNCHANGED events
    BY <2>5 DEF Resume, RunPhases, rows
  <2> QED BY <1>3, <1>8, <2>1, <2>2, <2>3, <2>4, <2>5 DEF Call
<1>9. CASE SegmentStep
  <2>1. ASSUME NEW p \in Phases, PlainPhase(p) PROVE Goal
    BY <1>5, <2>1 DEF PlainPhase
  <2>2. CASE DecidePhase
    BY <1>5, <1>6, <1>7, <2>2 DEF DecidePhase
  <2>3. CASE ReverifyPhase
    BY <1>5, <1>6, <1>7, <2>3 DEF ReverifyPhase
  <2>4. CASE CertifyPhase
    BY <1>5, <1>6, <1>7, <2>4 DEF CertifyPhase
  <2>5. CASE MergePhase
    BY <1>5, <1>6, <1>7, <2>5 DEF MergePhase
  <2>6. CASE MemoryPhase
    BY <1>5, <1>7, <2>6 DEF MemoryPhase
  <2>7. CASE MemoryRaises
    BY <1>3, <2>7 DEF MemoryRaises
  <2>8. CASE Complete
    BY <1>2, <1>3, <1>4, <2>8 DEF Complete
  <2> QED BY <1>9, <2>1, <2>2, <2>3, <2>4, <2>5, <2>6, <2>7, <2>8 DEF SegmentStep
<1>10. CASE LedgerLocked \/ UNCHANGED vars
  BY <1>3, <1>10 DEF LedgerLocked, vars, rows
<1> QED BY <1>8, <1>9, <1>10 DEF Next

-----------------------------------------------------------------------------
(* The calls and the segment *)

\* The part of TypeOK that is neither certification's nor the chain's.
CallTypeOK ==
  /\ run \in {"absent", "QUEUED", "RUNNING", "COMPLETED", "BLOCKED"}
  /\ seeded \subseteq Exits /\ injected \subseteq Exits
  /\ held \in (SUBSET Exits) \cup {NotHeld}
  /\ pc \in {"idle", "segment"}
  /\ op \in {"none", "run", "resume", "replay"}
  /\ segment \subseteq Phases /\ todo \subseteq segment
  /\ evidence \subseteq Exits
  /\ reader \in {"scenario", "empty"}
  /\ required \in BOOLEAN
  /\ verdict \in {"none", "aligned", "misaligned"}
  /\ bundled \in BOOLEAN
  /\ outcome \in {"none", "COMPLETE", "BLOCKED", "IN_PROGRESS", "refused"}
  /\ pc = "segment" => outcome = "none" /\ run # "absent"
  /\ calls \in Nat

\* How a segment may end or go on at a phase.
LEMMA PhaseSteps ==
  ASSUME CallTypeOK, pc = "segment", NEW p, Block(p) \/ Continue(p), UNCHANGED Kept,
         verdict' \in {"none", "aligned", "misaligned"}, bundled' \in BOOLEAN
  PROVE  CallTypeOK'
<1>1. CASE Block(p)
  BY <1>1 DEF Block, Kept, CallTypeOK
<1>2. CASE Continue(p)
  BY <1>2 DEF Continue, Kept, CallTypeOK
<1> QED BY <1>1, <1>2

\* Every step of the workflow keeps the types of its calls and its segment.
LEMMA CallTypeStep ==
  ASSUME CallTypeOK, [Next]_vars
  PROVE  CallTypeOK'
<1>1. ASSUME NEW by \in {"run", "resume", "replay"}, NEW s \in Segments, NEW ev \in SUBSET Exits,
             NEW rd \in {"scenario", "empty"}, NEW rq \in BOOLEAN, Start(by, s, ev, rd, rq),
             run' \in {"QUEUED", "RUNNING", "COMPLETED", "BLOCKED"},
             UNCHANGED <<seeded, injected, held>>
      PROVE  CallTypeOK'
  <2>1. s \subseteq Phases
    BY SegmentAssumption
  <2>2. /\ segment' = s /\ todo' = s /\ evidence' = ev /\ reader' = rd /\ required' = rq
        /\ calls' = calls + 1 /\ pc' = "segment" /\ op' = by
        /\ verdict' = "none" /\ bundled' = FALSE /\ outcome' = "none"
    BY <1>1 DEF Start
  <2>3. /\ run' \in {"absent", "QUEUED", "RUNNING", "COMPLETED", "BLOCKED"} /\ run' # "absent"
        /\ seeded' \subseteq Exits /\ injected' \subseteq Exits
        /\ held' \in (SUBSET Exits) \cup {NotHeld}
    BY <1>1 DEF CallTypeOK
  <2>4. /\ segment' \subseteq Phases /\ todo' \subseteq segment'
        /\ evidence' \subseteq Exits /\ calls' \in Nat
    BY <2>1, <2>2 DEF CallTypeOK
  <2> QED BY <2>2, <2>3, <2>4 DEF CallTypeOK
<1>2. seeded \cup injected \in SUBSET Exits
  BY DEF CallTypeOK
<1>3. CASE Call
  <2>1. CASE BuildScenario
    BY <1>2, <2>1 DEF BuildScenario, rows, callVars, CallTypeOK
  <2>2. ASSUME NEW s \in Segments, NEW rd \in {"scenario", "empty"}, NEW rq \in BOOLEAN,
               RunE2E(s, rd, rq)
        PROVE  CallTypeOK'
    <3>1. /\ run' \in {"QUEUED", "RUNNING", "COMPLETED", "BLOCKED"}
          /\ UNCHANGED <<seeded, injected, held>>
      BY <2>2 DEF RunE2E, CallTypeOK
    <3>2. CASE held # NotHeld /\ Start("run", s, held, rd, rq)
      <4>1. held \in SUBSET Exits
        BY <3>2 DEF CallTypeOK
      <4> QED BY <1>1, <3>1, <3>2, <4>1
    <3>3. CASE Start("run", s, seeded \cup injected, rd, rq)
      BY <1>1, <1>2, <3>1, <3>3
    <3> QED BY <2>2, <3>2, <3>3 DEF RunE2E
  <2>3. ASSUME NEW s \in Segments, Resume(s) PROVE CallTypeOK'
    <3>1. /\ Start("resume", s, seeded \cup injected, "scenario", TRUE)
          /\ run' \in {"QUEUED", "RUNNING", "COMPLETED", "BLOCKED"}
          /\ UNCHANGED <<seeded, injected, held>>
      BY <2>3 DEF Resume, rows, CallTypeOK
    <3> QED BY <1>1, <1>2, <3>1
  <2>4. ASSUME NEW s \in Segments, RunPhases(s) PROVE CallTypeOK'
    <3>1. /\ Start("replay", s, {}, "scenario", TRUE)
          /\ run' \in {"QUEUED", "RUNNING", "COMPLETED", "BLOCKED"}
          /\ UNCHANGED <<seeded, injected, held>>
      BY <2>4 DEF RunPhases, rows, CallTypeOK
    <3> QED BY <1>1, <3>1
  <2>5. ASSUME NEW f \in Faults, InjectFailure(f) PROVE CallTypeOK'
    <3>1. InjectedExits(f.mode) \subseteq Exits
      BY DEF InjectedExits, Exits
    <3> QED BY <2>5, <3>1 DEF InjectFailure, callVars, CallTypeOK
  <2>6. CASE Reset
    BY <2>6 DEF Reset, callVars, CallTypeOK
  <2> QED BY <1>3, <2>1, <2>2, <2>3, <2>4, <2>5, <2>6 DEF Call
<1>4. CASE SegmentStep
  <2>1. ASSUME NEW p \in Phases, PlainPhase(p) PROVE CallTypeOK'
    BY <2>1, PhaseSteps DEF PlainPhase, AtPhase, CallTypeOK
  <2>2. CASE DecidePhase
    BY <2>2, PhaseSteps DEF DecidePhase, AtPhase, CallTypeOK
  <2>3. CASE ReverifyPhase
    BY <2>3, PhaseSteps DEF ReverifyPhase, AtPhase, CallTypeOK
  <2>4. CASE CertifyPhase
    BY <2>4, PhaseSteps DEF CertifyPhase, AtPhase, CallTypeOK
  <2>5. CASE MergePhase
    BY <2>5, PhaseSteps DEF MergePhase, AtPhase, CallTypeOK
  <2>6. CASE MemoryPhase
    BY <2>6, PhaseSteps DEF MemoryPhase, AtPhase, CallTypeOK
  <2>7. CASE MemoryRaises
    BY <2>7 DEF MemoryRaises, Kept, CallTypeOK
  <2>8. CASE Complete
    BY <2>8 DEF Complete, Kept, CallTypeOK
  <2> QED BY <1>4, <2>1, <2>2, <2>3, <2>4, <2>5, <2>6, <2>7, <2>8 DEF SegmentStep
<1>5. CASE LedgerLocked
  BY <1>5 DEF LedgerLocked, rows, callVars, CallTypeOK
<1>6. CASE UNCHANGED vars
  BY <1>6 DEF vars, rows, callVars, CallTypeOK
<1> QED BY <1>3, <1>4, <1>5, <1>6 DEF Next

\* A segment keeps account of its merge, its certificate and its memory.
LEMMA SegmentStepped ==
  ASSUME WorkflowInv, [Next]_vars
  PROVE  SegmentSoFar'
<1>1. RowsInv /\ RowsMove /\ SegmentSoFar /\ merges \in Nat
  BY StepsMoveRows DEF WorkflowInv, RowsInv, CertTypeOK
<1>2. NoCertificate.status # "CERTIFIED"
  BY DEF NoCertificate
<1>3. /\ certificate.status = "CERTIFIED" => certificate' = certificate
      /\ merges > 0 => merges' > 0
      /\ memory = "applied" => memory' = "applied"
  BY <1>1, <1>2, RowsGrow
<1>4. ASSUME NEW by, NEW s, NEW ev, NEW rd, NEW rq, Start(by, s, ev, rd, rq) PROVE SegmentSoFar'
  BY <1>4 DEF Start, SegmentSoFar
<1>5. ASSUME UNCHANGED <<pc, op, segment, todo, bundled>> PROVE SegmentSoFar'
  BY <1>1, <1>3, <1>5 DEF SegmentSoFar
<1>6. ASSUME pc' = "idle" PROVE SegmentSoFar'
  BY <1>6 DEF SegmentSoFar
<1>7. ASSUME NEW p, Block(p) PROVE SegmentSoFar'
  BY <1>6, <1>7 DEF Block
<1>8. ASSUME NEW p, AtPhase(p), Continue(p), UNCHANGED <<op, segment>>,
             bundled' => bundled \/ certificate'.status = "CERTIFIED",
             p = "merge" => op = "replay" \/ merges' > 0,
             p = "memory" => op = "replay" \/ memory' = "applied"
      PROVE  SegmentSoFar'
  BY <1>1, <1>3, <1>8 DEF AtPhase, Continue, SegmentSoFar
<1>9. CASE Call
  BY <1>4, <1>5, <1>9 DEF Call, BuildScenario, RunE2E, Resume, RunPhases, InjectFailure, Reset,
                          callVars
<1>10. CASE SegmentStep
  <2>1. ASSUME NEW p \in Phases, PlainPhase(p) PROVE SegmentSoFar'
    BY <1>8, <2>1 DEF PlainPhase, Kept
  <2>2. CASE DecidePhase
    BY <1>7, <1>8, <2>2 DEF DecidePhase, Kept
  <2>3. CASE ReverifyPhase
    BY <1>7, <1>8, <2>3 DEF ReverifyPhase, Kept
  <2>4. CASE CertifyPhase
    BY <1>7, <1>8, <2>4 DEF CertifyPhase, Kept
  <2>5. CASE MergePhase
    <3>1. CASE Block("merge")
      BY <1>7, <3>1
    <3>2. CASE Continue("merge") /\ PerformMerge
      BY <1>1, <1>8, <2>5, <3>2 DEF MergePhase, PerformMerge, Kept
    <3> QED BY <2>5, <3>1, <3>2 DEF MergePhase
  <2>6. CASE MemoryPhase
    <3>1. memory' = "applied"
      BY <1>1, <2>6 DEF MemoryPhase, AtPhase, SegmentSoFar, UpdateMemory
    <3> QED BY <1>8, <2>6, <3>1 DEF MemoryPhase, Kept
  <2>7. CASE MemoryRaises \/ Complete
    BY <1>6, <2>7 DEF MemoryRaises, Complete
  <2> QED BY <1>10, <2>1, <2>2, <2>3, <2>4, <2>5, <2>6, <2>7 DEF SegmentStep
<1>11. CASE LedgerLocked \/ UNCHANGED vars
  BY <1>5, <1>11 DEF LedgerLocked, vars, callVars
<1> QED BY <1>9, <1>10, <1>11 DEF Next

\* COMPLETE is said by Complete alone, and the rows only grow.
LEMMA HonestStep ==
  ASSUME WorkflowInv, [Next]_vars
  PROVE  CompleteIsHonest'
<1>1. TypeOK /\ RowsInv /\ RowsMove /\ SegmentSoFar /\ CompleteIsHonest /\ RowsInv'
  BY StepsMoveRows, RowsStep DEF WorkflowInv
<1>2. /\ merges > 0 => merges' > 0
      /\ memory = "applied" => memory' = "applied"
      /\ merges' > 0 => change' = "MERGED" /\ taskStatus' = "MERGED"
  BY <1>1, RowsGrow DEF RowsInv, MergeShows
<1>3. ASSUME UNCHANGED <<outcome, segment>> PROVE CompleteIsHonest'
  BY <1>1, <1>2, <1>3 DEF CompleteIsHonest
<1>4. ASSUME outcome' # "COMPLETE" PROVE CompleteIsHonest'
  BY <1>4 DEF CompleteIsHonest
<1>5. ASSUME NEW p, Block(p) \/ Continue(p), UNCHANGED segment PROVE CompleteIsHonest'
  BY <1>3, <1>4, <1>5 DEF Block, Continue
<1>6. ASSUME NEW by, NEW s, NEW ev, NEW rd, NEW rq, Start(by, s, ev, rd, rq)
      PROVE  CompleteIsHonest'
  BY <1>4, <1>6 DEF Start
<1>7. CASE Call
  BY <1>3, <1>6, <1>7 DEF Call, BuildScenario, RunE2E, Resume, RunPhases, InjectFailure, Reset,
                          callVars
<1>8. CASE SegmentStep
  <2>1. CASE Complete
    <3>1. CASE op = "replay"
      BY <1>4, <2>1, <3>1 DEF Complete
    <3>2. CASE op # "replay"
      <4>1. /\ "merge" \in segment => merges > 0
            /\ "memory" \in segment => memory = "applied"
        BY <1>1, <2>1, <3>2 DEF Complete, SegmentSoFar
      <4>2. segment' = segment
        BY <2>1 DEF Complete, Kept
      <4> QED BY <1>2, <4>1, <4>2 DEF CompleteIsHonest
    <3> QED BY <3>1, <3>2
  <2>2. CASE MemoryRaises
    BY <1>4, <2>2 DEF MemoryRaises
  <2>3. ASSUME NEW p \in Phases, PlainPhase(p) PROVE CompleteIsHonest'
    BY <1>5, <2>3 DEF PlainPhase, Kept
  <2>4. CASE DecidePhase \/ ReverifyPhase \/ CertifyPhase \/ MergePhase \/ MemoryPhase
    BY <1>5, <2>4 DEF DecidePhase, ReverifyPhase, CertifyPhase, MergePhase, MemoryPhase, Kept
  <2> QED BY <1>8, <2>1, <2>2, <2>3, <2>4 DEF SegmentStep
<1>9. CASE LedgerLocked \/ UNCHANGED vars
  BY <1>3, <1>9 DEF LedgerLocked, vars, callVars
<1> QED BY <1>7, <1>8, <1>9 DEF Next

-----------------------------------------------------------------------------
(* The invariant and the theorems *)

\* The invariant holds before the first call.
LEMMA WorkflowInitial == Init => WorkflowInv /\ Numbered
<1> SUFFICES ASSUME Init PROVE WorkflowInv /\ Numbered
  OBVIOUS
<1>1. RowsInv
  BY DEF Init, CertInit, RowsInv, CertTypeOK, FailureIsKept, OpenChange, MergeShows,
         MemoryIsCertified, ChangeStatuses, CandidateStatuses
<1>2. events \in Seq(EventRecords) /\ Numbered
  BY EmptySeq DEF Init, Numbered
<1>3. CallTypeOK
  BY DEF Init, CallTypeOK, Exits, NotHeld
<1>4. TypeOK
  BY <1>1, <1>2, <1>3 DEF TypeOK, RowsInv, CallTypeOK, EventRecords
<1>5. SegmentSoFar /\ CompleteIsHonest
  BY DEF Init, SegmentSoFar, CompleteIsHonest
<1> QED BY <1>1, <1>2, <1>4, <1>5 DEF WorkflowInv

\* Every step keeps the invariant, and with it the numbering of the chain.
LEMMA WorkflowInductive == WorkflowInv /\ [Next]_vars => WorkflowInv' /\ (Numbered => Numbered')
<1> SUFFICES ASSUME WorkflowInv, [Next]_vars PROVE WorkflowInv' /\ (Numbered => Numbered')
  OBVIOUS
<1>1. TypeOK /\ RowsInv
  BY DEF WorkflowInv
<1>2. RowsInv'
  BY <1>1, StepsMoveRows, RowsStep
<1>3. events' \in Seq(EventRecords) /\ (Numbered => Numbered')
  BY <1>1, ChainStep
<1>4. CallTypeOK'
  <2>1. CallTypeOK
    BY <1>1 DEF TypeOK, CallTypeOK
  <2> QED BY <2>1, CallTypeStep
<1>5. TypeOK'
  BY <1>2, <1>3, <1>4 DEF TypeOK, RowsInv, CallTypeOK, EventRecords
<1> QED BY <1>2, <1>3, <1>5, SegmentStepped, HonestStep DEF WorkflowInv

\* The invariant holds in every state of the workflow.
LEMMA WorkflowInvariant == Spec => [](WorkflowInv /\ Numbered)
<1>1. Init => WorkflowInv /\ Numbered
  BY WorkflowInitial
<1>2. (WorkflowInv /\ Numbered) /\ [Next]_vars => (WorkflowInv /\ Numbered)'
  BY WorkflowInductive
<1> QED BY <1>1, <1>2, PTL DEF Spec

\* The rows of a task and of its run keep their types, whatever is called.
THEOREM WorkflowTypeCorrect == Spec => []TypeOK
<1>1. WorkflowInv => TypeOK
  BY DEF WorkflowInv
<1> QED BY <1>1, WorkflowInvariant, PTL

\* The merge gate merges only a candidate that did not fail its last re-verification, under
\* a certificate that binds the rows as they are.
THEOREM MergesAreEarned == Spec => MergeIsEarned
<1> DEFINE Earned ==
      merges' # merges =>
        /\ lastReverify # "failed"
        /\ certificate.status = "CERTIFIED"
        /\ certificate.change = change /\ certificate.candidate = candidate
        /\ certificate.intent = intent
<1>1. ASSUME WorkflowInv, [Next]_vars PROVE [Earned]_vars
  <2>1. RowsMove /\ FailureIsKept
    BY <1>1, StepsMoveRows DEF WorkflowInv, RowsInv
  <2>2. CASE merges' = merges
    BY <2>2
  <2>3. CASE merges' # merges
    <3>1. MergeAllowed(verdict = "aligned")
      BY <2>1, <2>3 DEF RowsMove, certVars, Reverify, BuildCertificate, UpdateMemory,
                        PreserveArchaeology, LockIntentLedger
    <3>2. candidate = "VERIFIED" /\ certificate.status = "CERTIFIED" /\ Intact
      BY <3>1 DEF MergeAllowed
    <3> QED BY <2>1, <3>2 DEF FailureIsKept, Intact
  <2> QED BY <2>2, <2>3
<1> QED BY <1>1, WorkflowInvariant, PTL DEF Spec, MergeIsEarned

\* The gate merges a change that was open at most once: its merge makes the certificate
\* stale, and there is never another.
THEOREM ChangesMergeOnce == Spec => []MergedOnce
<1>1. WorkflowInv => MergedOnce
  BY DEF WorkflowInv, RowsInv, OpenChange, MergedOnce
<1> QED BY <1>1, WorkflowInvariant, PTL

\* COMPLETE is only said of a segment whose merge and memory phases did their work.
THEOREM CompletionIsHonest == Spec => []CompleteIsHonest
<1>1. WorkflowInv => CompleteIsHonest
  BY DEF WorkflowInv
<1> QED BY <1>1, WorkflowInvariant, PTL

\* Memory is applied under a certified certificate only.
THEOREM MemoryIsUnderCertificate == Spec => []MemoryIsCertified
<1>1. WorkflowInv => MemoryIsCertified
  BY DEF WorkflowInv, RowsInv
<1> QED BY <1>1, WorkflowInvariant, PTL

\* The sequence numbers of a run's events increase, through resets and injected failures:
\* resume_workflow() never refuses a run for its chain.
THEOREM ChainsAreValid == Spec => []ChainIsValid
<1>1. Numbered => ChainIsValid
  BY DEF Numbered, ChainIsValid
<1> QED BY <1>1, WorkflowInvariant, PTL

-----------------------------------------------------------------------------
(* The rows implement the ledger of a change *)

\* An aligned verdict is never stale: the intent it was found with only grows.
VerdictHolds == verdict = "aligned" => Explained

\* No row loses an item that was authorized.
LEMMA IntentGrows == RowsMove => intent \subseteq intent'
BY DEF RowsMove, certVars, Reverify, BuildCertificate, PerformMerge, UpdateMemory,
       PreserveArchaeology, LockIntentLedger

\* A step keeps the verdict, forgets it or decides it anew.
LEMMA VerdictMoves ==
  ASSUME [Next]_vars
  PROVE  \/ verdict' = verdict
         \/ verdict' = "none"
         \/ verdict' = (IF Explained THEN "aligned" ELSE "misaligned") /\ UNCHANGED certVars
<1> DEFINE Goal == \/ verdict' = verdict
                   \/ verdict' = "none"
                   \/ /\ verdict' = (IF Explained THEN "aligned" ELSE "misaligned")
                      /\ UNCHANGED certVars
<1>1. ASSUME NEW by, NEW s, NEW ev, NEW rd, NEW rq, Start(by, s, ev, rd, rq) PROVE Goal
  BY <1>1 DEF Start
<1>2. CASE Call
  BY <1>1, <1>2 DEF Call, BuildScenario, RunE2E, Resume, RunPhases, InjectFailure, Reset, callVars
<1>3. CASE SegmentStep
  <2>1. CASE DecidePhase
    BY <2>1 DEF DecidePhase
  <2>2. CASE \E p \in Phases : PlainPhase(p)
    BY <2>2 DEF PlainPhase
  <2>3. CASE ReverifyPhase \/ CertifyPhase \/ MergePhase \/ MemoryPhase
    BY <2>3 DEF ReverifyPhase, CertifyPhase, MergePhase, MemoryPhase
  <2>4. CASE MemoryRaises \/ Complete
    BY <2>4 DEF MemoryRaises, Complete
  <2> QED BY <1>3, <2>1, <2>2, <2>3, <2>4 DEF SegmentStep
<1>4. CASE LedgerLocked \/ UNCHANGED vars
  BY <1>4 DEF LedgerLocked, vars, callVars
<1> QED BY <1>2, <1>3, <1>4 DEF Next

\* Every step keeps an aligned verdict true.
LEMMA VerdictStep ==
  ASSUME TypeOK, VerdictHolds, [Next]_vars
  PROVE  VerdictHolds'
<1>1. intent \subseteq intent'
  BY StepsMoveRows, IntentGrows
<1>2. Explained => Explained'
  BY <1>1 DEF Explained, ExplainedBy
<1>3. CASE verdict' = verdict \/ verdict' = "none"
  BY <1>2, <1>3 DEF VerdictHolds
<1>4. CASE verdict' = (IF Explained THEN "aligned" ELSE "misaligned")
  BY <1>2, <1>4 DEF VerdictHolds
<1> QED BY <1>3, <1>4, VerdictMoves

\* The seeded or given rows are a ledger without a certificate.
LEMMA LedgerInitial == Init => Ledger!Init
<1> SUFFICES ASSUME Init PROVE Ledger!Init
  OBVIOUS
<1>1. /\ change \in {"OPEN", "MERGED"} /\ candidate = "VERIFIED" /\ intent \in SUBSET Items
      /\ certificate = NoCertificate /\ memory = "none" /\ merges = 0
  BY DEF Init, CertInit
<1> QED BY <1>1 DEF Ledger!Init

\* run_reverification() reconsiders the candidate.
LEMMA ReverifyReconsiders ==
  ASSUME CertTypeOK, NEW ev, Reverify(ev)
  PROVE  Ledger!Reconsider
<1>1. candidate' \in {"VERIFIED", "FAILED"}
  BY DEF Reverify, CertTypeOK, CandidateStatuses
<1>2. UNCHANGED <<change, intent, certificate, memory, merges>>
  BY DEF Reverify
<1> QED BY <1>1, <1>2 DEF Ledger!Reconsider

\* lock_intent_ledger() authorizes.
LEMMA LockingAuthorizes ==
  ASSUME CertTypeOK, LockIntentLedger
  PROVE  Ledger!Authorize
<1>1. intent \subseteq intent' /\ intent' \in SUBSET Items
  BY DEF LockIntentLedger, CertTypeOK
<1>2. UNCHANGED <<change, candidate, certificate, memory, merges>>
  BY DEF LockIntentLedger
<1> QED BY <1>1, <1>2 DEF Ledger!Authorize

\* build_certificate() certifies once, and then returns what is there.
LEMMA BuildingCertifies ==
  ASSUME CertTypeOK, VerdictHolds, NEW ev, BuildCertificate(verdict = "aligned", ev)
  PROVE  Ledger!Certify \/ UNCHANGED Ledger!vars
<1>1. UNCHANGED <<change, candidate, intent, memory, merges>>
  BY DEF BuildCertificate
<1>2. CASE certificate # NoCertificate
  <2>1. certificate' = certificate
    BY <1>2 DEF BuildCertificate
  <2> QED BY <1>1, <2>1 DEF Ledger!vars
<1>3. CASE certificate = NoCertificate
  <2> DEFINE s == IF verdict = "aligned" /\ ev # {} THEN "CERTIFIED" ELSE "DRAFT"
  <2>1. certificate' =
          [status |-> s, change |-> change, candidate |-> candidate, intent |-> intent]
    BY <1>3 DEF BuildCertificate
  <2>2. s \in {"DRAFT", "CERTIFIED"}
    OBVIOUS
  <2>3. s = "CERTIFIED" => intent \in {i \in SUBSET Items : ExplainedBy(i)}
    BY DEF VerdictHolds, Explained, CertTypeOK
  <2> HIDE DEF s
  <2>4. certificate' # NoCertificate
    BY <2>1, <2>2 DEF NoCertificate
  <2>5. /\ certificate'.status = s /\ certificate'.change = change
        /\ certificate'.candidate = candidate /\ certificate'.intent = intent
    BY <2>1
  <2> QED BY <1>1, <1>3, <2>2, <2>3, <2>4, <2>5 DEF Ledger!Certify
<1> QED BY <1>2, <1>3

\* evaluate_merge_gate() merges what the ledger lets merge.
LEMMA GateMerges ==
  ASSUME CertTypeOK, VerdictHolds, MergeAllowed(verdict = "aligned"), PerformMerge
  PROVE  Ledger!Merge
<1>1. /\ certificate.status = "CERTIFIED" /\ certificate.change = change
      /\ certificate.candidate = candidate /\ certificate.intent = intent
      /\ candidate = "VERIFIED" /\ verdict = "aligned" /\ ProtectedAuthorized
  BY DEF MergeAllowed, Intact
<1>2. certificate # NoCertificate
  BY <1>1 DEF NoCertificate
<1>3. intent \in {i \in SUBSET Items : ExplainedBy(i) /\ ProtectedAuthorizedBy(i)}
  BY <1>1 DEF VerdictHolds, Explained, ProtectedAuthorized, CertTypeOK
<1>4. /\ change' = "MERGED" /\ merges' = merges + 1
      /\ UNCHANGED <<candidate, intent, certificate, memory>>
  BY DEF PerformMerge
<1> QED BY <1>1, <1>2, <1>3, <1>4 DEF Ledger!Merge

\* The memory phase preserves the summary or applies it, the latter when it is certified.
LEMMA MemoryFollows ==
  ASSUME CertTypeOK, UpdateMemory \/ PreserveArchaeology
  PROVE  Ledger!Preserve \/ Ledger!Apply \/ UNCHANGED Ledger!vars
<1>1. UNCHANGED <<change, candidate, intent, certificate, merges>>
  BY DEF UpdateMemory, PreserveArchaeology
<1>2. CASE memory' = memory
  BY <1>1, <1>2 DEF Ledger!vars
<1>3. CASE memory = "none" /\ memory' = "preserved"
  BY <1>1, <1>3 DEF Ledger!Preserve
<1>4. CASE certificate.status = "CERTIFIED" /\ memory' = "applied"
  <2>1. certificate # NoCertificate
    BY <1>4 DEF NoCertificate
  <2> QED BY <1>1, <1>4, <2>1 DEF Ledger!Apply
<1> QED BY <1>2, <1>3, <1>4 DEF UpdateMemory, PreserveArchaeology, Archaeology

\* Every step of the workflow is a step of the ledger, or none.
LEMMA LedgerStep ==
  ASSUME TypeOK, VerdictHolds, [Next]_vars
  PROVE  [Ledger!Next]_(Ledger!vars)
<1>1. RowsMove /\ CertTypeOK
  BY StepsMoveRows DEF TypeOK
<1>2. ASSUME UNCHANGED <<change, candidate, intent, certificate, memory, merges>>
      PROVE  UNCHANGED Ledger!vars
  BY <1>2 DEF Ledger!vars
<1>3. CASE UNCHANGED certVars
  BY <1>2, <1>3 DEF certVars
<1>4. ASSUME NEW ev \in SUBSET Exits, Reverify(ev) PROVE Ledger!Next
  BY <1>1, <1>4, ReverifyReconsiders DEF Ledger!Next
<1>5. ASSUME NEW ev \in SUBSET Exits, BuildCertificate(verdict = "aligned", ev)
      PROVE  [Ledger!Next]_(Ledger!vars)
  BY <1>1, <1>5, BuildingCertifies DEF Ledger!Next
<1>6. CASE MergeAllowed(verdict = "aligned") /\ PerformMerge
  BY <1>1, <1>6, GateMerges DEF Ledger!Next
<1>7. CASE UpdateMemory \/ PreserveArchaeology
  BY <1>1, <1>7, MemoryFollows DEF Ledger!Next
<1>8. CASE LockIntentLedger
  BY <1>1, <1>8, LockingAuthorizes DEF Ledger!Next
<1>9. CASE /\ taskStatus' = "MERGED"
           /\ UNCHANGED <<change, candidate, intent, certificate, memory, opened, merges,
                          lastReverify>>
  BY <1>2, <1>9
<1> QED BY <1>1, <1>3, <1>4, <1>5, <1>6, <1>7, <1>8, <1>9 DEF RowsMove

\* What certification promises of a change holds through every workflow: whatever is run,
\* resumed, replayed, reset or locked in between, its rows move as the ledger's do.
THEOREM WorkflowImplementsLedger == Spec => ChangeSpec
<1>1. Init => VerdictHolds
  BY DEF Init, VerdictHolds
<1>2. TypeOK /\ VerdictHolds /\ [Next]_vars => VerdictHolds'
  BY VerdictStep
<1>3. TypeOK /\ VerdictHolds /\ [Next]_vars => [Ledger!Next]_(Ledger!vars)
  BY LedgerStep
<1> QED BY <1>1, <1>2, <1>3, LedgerInitial, WorkflowTypeCorrect, PTL
        DEF Spec, ChangeSpec, Ledger!Spec

=============================================================================

-------------------------- MODULE WaveEngineProofs --------------------------
(***************************************************************************)
(* Proofs about the wave engine, for every set of tasks, every caller and  *)
(* every order of completion, timeout, cancellation and budget.            *)
(***************************************************************************)
EXTENDS WaveEngine, TLAPS

\* What the engine has noted of a task goes with where its executor is: nothing while
\* it lives, an outcome once it is done; and executors live only in a wave at work.
EngineRecord ==
  /\ \A t \in TaskIds : exec[t] # "done" => timing[t] = "none" /\ got[t] = "none"
  /\ \A t \in TaskIds : exec[t] = "done" =>
       /\ timing[t] # "none"
       /\ timing[t] = "SUCCEEDED" <=> got[t] \in Results
       /\ timing[t] \in {"FAILED", "TIMEOUT"} <=> got[t] \in Errors \cup {"timeout"}
  /\ \A t \in TaskIds : exec[t] \in Live =>
       t \in request /\ engine \in {"waiting", "gathering", "draining"}
  /\ engine = "composed" =>
       (\A t \in request : exec[t] = "absent") \/ (\A t \in request : exec[t] = "done")

\* Outcomes that are there stay while the wave does.
Stays == \A t \in TaskIds : timing[t] # "none" => timing'[t] = timing[t] /\ got'[t] = got[t]

EngineInv == EngineTypeOK /\ EngineRecord

\* The four ways run_task() ends, by what it leaves in the maps and in the timing.
Entry(entry, st) ==
  \/ entry \in Results /\ st = "SUCCEEDED"
  \/ entry \in Errors /\ st = "FAILED"
  \/ entry = "timeout" /\ st = "TIMEOUT"
  \/ entry = "none" /\ st = "CANCELLED"

LEMMA EndsInv ==
  ASSUME EngineInv, NEW t \in TaskIds, exec[t] \in Live, NEW entry, NEW st, Entry(entry, st),
         Ends(t, entry, st)
  PROVE  EngineInv' /\ waveId' = waveId /\ Stays
<1> USE DEF EngineInv
<1>1. /\ exec' = [exec EXCEPT ![t] = "done"] /\ got' = [got EXCEPT ![t] = entry]
      /\ timing' = [timing EXCEPT ![t] = st]
      /\ UNCHANGED <<request, waveId, engine, cancelEvent, waveStatus, telemetry, leftBehind>>
  BY DEF Ends
<1>2. EngineTypeOK'
  BY <1>1 DEF EngineTypeOK, Live, Entry
<1>3. EngineRecord' /\ Stays
  BY <1>1, OutcomesAssumption DEF EngineTypeOK, EngineRecord, Entry, Live, Stays
<1> QED BY <1>1, <1>2, <1>3

\* Cancelling the wave's tasks, by the event or by the caller's budget.
LEMMA CancelInv ==
  ASSUME EngineInv, CancelTasks(request),
         UNCHANGED <<request, waveId, got, cancelEvent, waveStatus, telemetry>>,
         engine \in {"waiting", "gathering", "draining"},
         \/ engine' = "draining"
         \/ engine' = "abandoned" /\ \A t \in request : exec[t] \in {"done", "timingOut"}
  PROVE  EngineInv' /\ Stays
<1> USE DEF EngineInv
<1>1. /\ exec' \in [TaskIds -> Live \cup {"absent", "done"}]
      /\ timing' \in [TaskIds -> {"none", "SUCCEEDED", "TIMEOUT", "CANCELLED", "FAILED"}]
      /\ leftBehind' \subseteq TaskIds
  BY DEF CancelTasks, EngineTypeOK, Live
<1>2. \A t \in TaskIds :
        IF t \in request /\ exec[t] = "timingOut" THEN exec'[t] = "done" /\ timing'[t] = "CANCELLED"
        ELSE /\ timing'[t] = timing[t]
             /\ exec'[t] = IF t \in request /\ exec[t] = "running" THEN "cancelling" ELSE exec[t]
  BY DEF CancelTasks
<1>3. EngineTypeOK'
  BY <1>1 DEF EngineTypeOK
<1>4. EngineRecord' /\ Stays
  BY <1>2, OutcomesAssumption DEF EngineTypeOK, EngineRecord, Live, Stays
<1> QED BY <1>3, <1>4

\* What happens while a wave is at work.
LEMMA AtWorkInv ==
  ASSUME EngineInv, ExecutorStep \/ LoopStep \/ StopStep \/ Abandon
  PROVE  EngineInv' /\ waveId' = waveId /\ Stays
<1>1. CASE ExecutorStep
  <2>1. PICK t \in TaskIds :
          \/ \E r \in Results : ExecutorReturns(t, r)
          \/ \E e \in Errors : ExecutorRaises(t, e)
          \/ ExecutorCancelled(t)
          \/ LeftBehindEnds(t)
    BY <1>1 DEF ExecutorStep
  <2>2. CASE \E r \in Results : ExecutorReturns(t, r)
    BY <2>2, EndsInv DEF ExecutorReturns, Entry
  <2>3. CASE \E e \in Errors : ExecutorRaises(t, e)
    BY <2>3, EndsInv DEF ExecutorRaises, Entry
  <2>4. CASE ExecutorCancelled(t)
    BY <2>4, EndsInv DEF ExecutorCancelled, Entry, Live
  <2>5. CASE LeftBehindEnds(t)
    BY <2>5 DEF LeftBehindEnds, EngineInv, EngineTypeOK, EngineRecord, Stays
  <2> QED BY <2>1, <2>2, <2>3, <2>4, <2>5
<1>2. CASE LoopStep
  <2>1. CASE \E t \in TaskIds : TaskTimesOut(t)
    BY <2>1 DEF TaskTimesOut, EngineInv, EngineTypeOK, EngineRecord, Live, Stays
  <2>2. CASE WakeCancelled
    BY <2>2, CancelInv DEF WakeCancelled
  <2>3. CASE WakeCompleted
    BY <2>3 DEF WakeCompleted, EngineInv, EngineTypeOK, EngineRecord, Stays
  <2>4. CASE Compose
    BY <2>4 DEF Compose, DerivedStatus, Done, EngineInv, EngineTypeOK, EngineRecord, Live, Stays
  <2> QED BY <1>2, <2>1, <2>2, <2>3, <2>4 DEF LoopStep
<1>3. CASE StopStep
  <2>1. PICK t \in TaskIds : TimedOutStops(t) \/ CancelledStops(t)
    BY <1>3 DEF StopStep
  <2> QED BY <2>1, EndsInv DEF TimedOutStops, CancelledStops, Entry, Live
<1>4. CASE Abandon
  BY <1>4, CancelInv DEF Abandon
<1> QED BY <1>1, <1>2, <1>3, <1>4

\* The call itself, also with an event that is set already.
LEMMA RunWaveInv ==
  ASSUME EngineInv, NEW w \in SUBSET TaskIds, NEW ev \in {"absent", "clear", "set"},
         waveId + 1 \in WaveIds, RunWave(w, waveId + 1, ev)
  PROVE  EngineInv' /\ waveId' # waveId
<1>1. waveId' = waveId + 1 /\ waveId \in Nat
  BY WaveIdsAssumption DEF RunWave, EngineInv, EngineTypeOK
<1>2. EngineTypeOK'
  BY <1>1 DEF RunWave, EngineInv, EngineTypeOK, Live
<1>3. EngineRecord'
  BY DEF RunWave, EngineInv, EngineRecord, Live
<1> QED BY <1>1, <1>2, <1>3 DEF EngineInv

LEMMA EngineStepInv ==
  ASSUME EngineInv, [EngineNext]_engineVars
  PROVE  EngineInv' /\ (waveId' = waveId => Stays)
<1>1. CASE \E w \in SUBSET TaskIds, ev \in {"absent", "clear", "set"} :
             waveId + 1 \in WaveIds /\ RunWave(w, waveId + 1, ev)
  BY <1>1, RunWaveInv
<1>2. CASE SetCancelEvent
  BY <1>2 DEF SetCancelEvent, EngineInv, EngineTypeOK, EngineRecord, Stays
<1>3. CASE ExecutorStep \/ LoopStep \/ StopStep \/ Abandon
  BY <1>3, AtWorkInv
<1>4. CASE UNCHANGED engineVars
  BY <1>4 DEF engineVars, EngineInv, EngineTypeOK, EngineRecord, Stays
<1> QED BY <1>1, <1>2, <1>3, <1>4 DEF EngineNext

LEMMA EngineInvariant == EngineSpec => []EngineInv
<1>1. EngineInit => EngineInv
  BY DEF EngineInit, EngineInv, EngineTypeOK, EngineRecord, Live
<1> QED BY <1>1, EngineStepInv, PTL DEF EngineSpec

\* The engine's variables stay typed, whatever its caller and its executors do.
THEOREM EngineTypeCorrect == EngineSpec => []EngineTypeOK
<1>1. EngineInv => EngineTypeOK
  BY DEF EngineInv
<1> QED BY <1>1, EngineInvariant, PTL

\* Whatever completed, timed out or was cancelled in whatever order, a composed wave has
\* a timing of every task it started, and the timings agree with results and failures.
THEOREM WavesAreAccounted == EngineSpec => []WaveAccounted
<1>1. EngineInv => WaveAccounted
  <2>1. SUFFICES ASSUME EngineInv, engine = "composed", \E t \in request : exec[t] # "absent"
                 PROVE  \A t \in request :
                          /\ exec[t] = "done"
                          /\ timing[t] = "SUCCEEDED" <=> t \in ResultsOf(request)
                          /\ timing[t] \in {"FAILED", "TIMEOUT"} <=> t \in FailuresOf(request)
                          /\ timing[t] # "none"
    BY DEF WaveAccounted
  <2>2. request \subseteq TaskIds /\ \A t \in request : exec[t] = "done"
    BY <2>1 DEF EngineInv, EngineTypeOK, EngineRecord
  <2> QED BY <2>1, <2>2 DEF EngineInv, EngineRecord, ResultsOf, FailuresOf
<1> QED BY <1>1, EngineInvariant, PTL

\* No later answer, timeout or cancellation replaces what a task of a wave ended with.
THEOREM OutcomesAreFinal == EngineSpec => OutcomeFinal
<1>1. EngineInv /\ [EngineNext]_engineVars
        => [\A t \in TaskIds : timing[t] # "none" /\ waveId' = waveId =>
              timing'[t] = timing[t] /\ got'[t] = got[t]]_engineVars
  BY EngineStepInv DEF Stays
<1> QED BY <1>1, EngineInvariant, PTL DEF EngineSpec, OutcomeFinal

=============================================================================

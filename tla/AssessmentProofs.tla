-------------------------- MODULE AssessmentProofs --------------------------
(***************************************************************************)
(* Proofs about Assessment.  The inductive invariant says of each module   *)
(* what it has reported, of each wave that what it returned is all there   *)
(* will be, of each decision that it was taken on that, and of the repair  *)
(* loop how its iterations, repairs and packages count each other.         *)
(***************************************************************************)
EXTENDS Assessment, FiniteSetTheorems, TLAPS

Opened ==
  /\ \A w \in Waves, m \in ModuleTypes :
       run[w][m].stage # "none" => m \in config[w].modules /\ state[w] # "idle"
  /\ \A r \in records : state[r.wave] # "idle"
  /\ \A w \in Waves : state[w] = "idle" => config[w] = NoConfig
  /\ \A w \in Waves : state[w] # "idle" => config[w] \in Config

Reported ==
  \A w \in Waves, m \in ModuleTypes :
    /\ m # "ADVERSARIAL_SCENARIO" =>
         \A p \in 1 .. run[w][m].probes :
           \E r \in records : r.wave = w /\ r.module = m /\ r.probe = p
    /\ run[w][m].stage \in {"PASSED", "FAILED"} => Steps(m, config[w]) <= run[w][m].probes
    /\ run[w][m].stage = "working" =>
         config[w].claims # <<>> /\ run[w][m].probes < Steps(m, config[w])
    /\ run[w][m].stage \in {"none", "ready"} => run[w][m].probes = 0 /\ ~run[w][m].failed

Returned ==
  \A w \in Waves :
    /\ state[w] = "returned" =>
         /\ result[w].evidence = Of(w)
         /\ \A m \in config[w].modules :
              run[w][m].stage \in Ended /\ result[w].modules[m] = run[w][m].stage
    /\ decision[w] # NoDecision => state[w] = "returned"

IInv ==
  /\ WaveTypeOK
  /\ Opened
  /\ Reported
  /\ Returned
  /\ EvidenceSpeaks
  /\ EligibleIsEarned

-----------------------------------------------------------------------------
(* Operators *)

\* The number of probes is a natural number.
LEMMA StepsNat == ASSUME NEW m \in ModuleTypes, NEW c \in Config PROVE Steps(m, c) \in Nat
BY DEF Steps, Config

\* A claim is spoken against exactly when one of its records does not support it.
LEMMA VerdictOf ==
  ASSUME NEW E, NEW c
  PROVE  /\ (Verdict(E, c) \in Contradicted) <=> \E r \in E : r.claim = c /\ ~Supports(r)
         /\ Verdict(E, c) = "INSUFFICIENT" <=> ~\E r \in E : r.claim = c
<1> DEFINE of == {r \in E : r.claim = c}
           supporting == {r \in of : Supports(r)}
<1>1. CASE of = {}
  <2>1. Verdict(E, c) = "INSUFFICIENT"
    BY <1>1 DEF Verdict
  <2> QED BY <1>1, <2>1 DEF Contradicted
<1>2. CASE of # {} /\ supporting = of
  <2>1. Verdict(E, c) = "SUPPORTING"
    BY <1>2 DEF Verdict
  <2>2. \A r \in E : r.claim = c => Supports(r)
    BY <1>2
  <2> QED BY <1>2, <2>1, <2>2 DEF Contradicted
<1>3. CASE of # {} /\ supporting # of
  <2>1. Verdict(E, c) \in {"CONTRADICTING", "CONFLICTING"}
    BY <1>3 DEF Verdict
  <2>2. \E r \in E : r.claim = c /\ ~Supports(r)
    BY <1>3
  <2> QED BY <1>3, <2>1, <2>2 DEF Contradicted
<1> QED BY <1>1, <1>2, <1>3

\* Evidence is bound to the first claim of the wave's caller.
LEMMA FirstClaim ==
  ASSUME NEW c \in Config, c.claims # <<>> PROVE c.claims[1] \in Claims
BY DEF Config

-----------------------------------------------------------------------------
(* Steps *)

\* A module whose wave has returned is over.
LEMMA WorkingIsOpen ==
  ASSUME IInv, NEW w \in Waves, NEW m \in ModuleTypes,
         run[w][m].stage \in {"ready", "working"}
  PROVE  /\ state[w] \in {"running", "raised"} /\ decision[w] = NoDecision
         /\ m \in config[w].modules /\ config[w] \in Config
<1>1. state[w] # "idle" /\ m \in config[w].modules /\ config[w] \in Config
  BY DEF IInv, Opened
<1>2. state[w] # "returned"
  BY <1>1 DEF IInv, Returned, Ended
<1>3. state[w] \in {"idle", "running", "returned", "raised"}
  BY DEF IInv, WaveTypeOK
<1> QED BY <1>1, <1>2, <1>3 DEF IInv, Returned

\* A probe's report keeps the invariant, whichever module makes it.
LEMMA ReportKeeps ==
  ASSUME IInv, NEW w \in Waves, NEW m \in ModuleTypes, NEW emitted \in SUBSET Record,
         NEW fails \in BOOLEAN, Report(w, m, emitted, fails),
         altered' \in [Waves -> BOOLEAN], decision' = decision,
         \A r \in emitted : r.wave = w /\ r.module = m /\ (Supports(r) => r.eligible),
         m # "ADVERSARIAL_SCENARIO" => \E r \in emitted : r.probe = run[w][m].probes + 1,
         fails => \E r \in emitted : ~Supports(r)
  PROVE  IInv'
<1> DEFINE p == run[w][m].probes + 1
           failed == run[w][m].failed \/ fails
           ended == IF failed THEN "FAILED" ELSE "PASSED"
           new == [stage |-> IF p < Steps(m, config[w]) THEN "working" ELSE ended,
                   probes |-> p, failed |-> failed]
<1>1. /\ run[w][m].stage = "working"
      /\ records' = records \cup emitted
      /\ rows' = Stored(emitted)
      /\ run' = [run EXCEPT ![w][m] = new]
      /\ config' = config /\ state' = state /\ result' = result
  BY DEF Report
<1>2. run \in [Waves -> [ModuleTypes -> Runs]]
  BY DEF IInv, WaveTypeOK
<1>3. run[w][m] \in Runs /\ p \in Nat \ {0} /\ failed \in BOOLEAN
  BY <1>2 DEF Runs
<1>4. new \in Runs
  BY <1>3 DEF Runs, Ended
<1>5. run' \in [Waves -> [ModuleTypes -> Runs]]
  BY <1>1, <1>2, <1>4
<1>6. run'[w][m] = new
  BY <1>1, <1>2
<1>7. \A v \in Waves, n \in ModuleTypes :
        ~(v = w /\ n = m) => run'[v][n] = run[v][n]
  BY <1>1, <1>2
<1>8. state[w] \in {"running", "raised"} /\ decision[w] = NoDecision
      /\ m \in config[w].modules /\ config[w] \in Config
  BY <1>1, WorkingIsOpen
<1>9. \A v \in Waves : v # w => Of(v)' = Of(v)
  BY <1>1 DEF Of
<1>10. WaveTypeOK'
  <2>1. records' \subseteq Record
    BY <1>1 DEF IInv, WaveTypeOK
  <2>2. DOMAIN rows' \subseteq Content /\ rows' \in [DOMAIN rows' -> Claims]
    <3> DEFINE stored == {r.row : r \in emitted} \ DOMAIN rows
               at(x) == IF x \in DOMAIN rows THEN rows[x]
                        ELSE (CHOOSE r \in emitted : r.row = x).claim
    <3>1. rows' = [x \in DOMAIN rows \cup stored |-> at(x)]
      BY <1>1 DEF Stored
    <3>2. DOMAIN rows \subseteq Content /\ \A x \in DOMAIN rows : rows[x] \in Claims
      BY DEF IInv, WaveTypeOK
    <3>3. stored \subseteq Content
      BY DEF Record
    <3>4. ASSUME NEW x \in stored PROVE (CHOOSE r \in emitted : r.row = x).claim \in Claims
      <4>1. \E r \in emitted : r.row = x
        BY <3>4
      <4>2. (CHOOSE r \in emitted : r.row = x) \in emitted
        BY <4>1
      <4> QED BY <4>2 DEF Record
    <3>5. \A x \in DOMAIN rows \cup stored : at(x) \in Claims
      BY <3>2, <3>4
    <3> HIDE DEF stored, at
    <3>6. DOMAIN rows' = DOMAIN rows \cup stored
      BY <3>1
    <3> QED BY <3>1, <3>2, <3>3, <3>5, <3>6
  <2> QED BY <1>1, <1>5, <2>1, <2>2 DEF IInv, WaveTypeOK
<1>11. Opened'
  <2>1. \A v \in Waves, n \in ModuleTypes :
          run'[v][n].stage # "none" => n \in config[v].modules /\ state[v] # "idle"
    BY <1>7, <1>8 DEF IInv, Opened
  <2>2. \A r \in records' : state[r.wave] # "idle"
    BY <1>1, <1>8 DEF IInv, Opened
  <2> QED BY <1>1, <2>1, <2>2 DEF IInv, Opened
<1>12. Reported'
  <2> SUFFICES ASSUME NEW v \in Waves, NEW n \in ModuleTypes
               PROVE  /\ n # "ADVERSARIAL_SCENARIO" =>
                           \A q \in 1 .. run'[v][n].probes :
                             \E r \in records' : r.wave = v /\ r.module = n /\ r.probe = q
                      /\ run'[v][n].stage \in {"PASSED", "FAILED"} =>
                           Steps(n, config[v]) <= run'[v][n].probes
                      /\ run'[v][n].stage = "working" =>
                           config[v].claims # <<>> /\ run'[v][n].probes < Steps(n, config[v])
                      /\ run'[v][n].stage \in {"none", "ready"} =>
                           run'[v][n].probes = 0 /\ ~run'[v][n].failed
    BY <1>1 DEF Reported, Steps
  <2>1. CASE ~(v = w /\ n = m)
    BY <2>1, <1>1, <1>7 DEF IInv, Reported
  <2>2. CASE v = w /\ n = m
    <3>1. run'[v][n] = new /\ run'[v][n].probes = p
      BY <2>2, <1>6
    <3>2. ASSUME n # "ADVERSARIAL_SCENARIO", NEW q \in 1 .. p
          PROVE  \E r \in records' : r.wave = v /\ r.module = n /\ r.probe = q
      <4>1. CASE q = p
        BY <4>1, <3>2, <2>2, <1>1
      <4>2. CASE q # p
        <5>1. q \in 1 .. run[w][m].probes
          BY <4>2, <3>2, <1>3 DEF Runs
        <5> QED BY <5>1, <3>2, <2>2, <1>1 DEF IInv, Reported
      <4> QED BY <4>1, <4>2
    <3>3. run'[v][n].stage \in {"PASSED", "FAILED"} => Steps(n, config[v]) <= p
      BY <2>2, <3>1, <1>3, <1>8, StepsNat
    <3>4. config[v].claims # <<>>
      BY <2>2, <1>1 DEF IInv, Reported
    <3>5. run'[v][n].stage \notin {"none", "ready"}
          /\ (run'[v][n].stage = "working" => p < Steps(n, config[v]))
      BY <2>2, <3>1
    <3> QED BY <3>1, <3>2, <3>3, <3>4, <3>5
  <2> QED BY <2>1, <2>2
<1>13. Returned'
  <2> SUFFICES ASSUME NEW v \in Waves
               PROVE  /\ state[v] = "returned" =>
                           /\ result[v].evidence = Of(v)'
                           /\ \A n \in config[v].modules :
                                /\ run'[v][n].stage \in Ended
                                /\ result[v].modules[n] = run'[v][n].stage
                      /\ decision[v] # NoDecision => state[v] = "returned"
    BY <1>1 DEF Returned
  <2>1. CASE v = w
    BY <2>1, <1>8
  <2>2. CASE v # w
    <3>1. state[v] = "returned" => config[v].modules \subseteq ModuleTypes
      BY DEF IInv, Opened, Config
    <3>2. \A n \in ModuleTypes : run'[v][n] = run[v][n]
      BY <2>2, <1>7
    <3>3. Of(v)' = Of(v)
      BY <2>2, <1>9
    <3> QED BY <3>1, <3>2, <3>3 DEF IInv, Returned
  <2> QED BY <2>1, <2>2
<1>14. EvidenceSpeaks'
  <2>1. IneligibleNeverSupports'
    BY <1>1 DEF IInv, EvidenceSpeaks, IneligibleNeverSupports, Supports
  <2>2. ASSUME NEW v \in Waves, NEW n \in ModuleTypes,
               run'[v][n].failed \/ run'[v][n].stage = "FAILED"
        PROVE  \E r \in records' : r.wave = v /\ r.module = n /\ ~Supports(r)
    <3>1. CASE ~(v = w /\ n = m)
      BY <3>1, <2>2, <1>1, <1>7 DEF IInv, EvidenceSpeaks, FailureLeavesTrace
    <3>2. CASE v = w /\ n = m
      <4>1. failed
        BY <3>2, <2>2, <1>6
      <4> QED BY <4>1, <3>2, <1>1 DEF IInv, EvidenceSpeaks, FailureLeavesTrace
    <3> QED BY <3>1, <3>2
  <2> QED BY <2>1, <2>2 DEF EvidenceSpeaks, FailureLeavesTrace, Supports
<1>15. EligibleIsEarned'
  <2> SUFFICES ASSUME NEW v \in Waves, decision[v].code = "ELIGIBLE_TO_CONTINUE"
               PROVE  /\ \A n \in config[v].modules :
                           run'[v][n].stage \in {"PASSED", "SKIPPED"}
                      /\ Of(v)' # {}
                      /\ \A r \in records' : r.wave = v => Supports(r)
                      /\ \A c \in decision[v].request.deltas :
                           /\ \E r \in records' : r.wave = v /\ r.claim = c
                           /\ \/ decision[v].delta[c] = "UNCHANGED"
                              \/ c \in decision[v].request.mentioned
    BY <1>1 DEF EligibleIsEarned, Supports
  <2>1. v # w
    BY <1>8 DEF NoDecision
  <2>2. state[v] = "returned" /\ config[v].modules \subseteq ModuleTypes
    BY DEF IInv, Returned, Opened, Config, NoDecision
  <2>3. \A n \in ModuleTypes : run'[v][n] = run[v][n]
    BY <2>1, <1>7
  <2>4. Of(v)' = Of(v) /\ \A r \in records' : r.wave = v => r \in records
    BY <2>1, <1>1, <1>9
  <2> QED BY <2>2, <2>3, <2>4, <1>1 DEF IInv, EligibleIsEarned
<1> QED BY <1>10, <1>11, <1>12, <1>13, <1>14, <1>15 DEF IInv

\* Each module reports what a report must be.
LEMMA ModuleKeeps ==
  ASSUME IInv, NEW w \in Waves, NEW m \in ModuleTypes, ModuleStep(w, m),
         UNCHANGED <<decision, packages>>
  PROVE  IInv'
<1> USE WavesAssumption, ClaimsAssumption
<1>1. CASE Begin(w, m)
  <2>1. /\ run[w][m].stage = "ready"
        /\ UNCHANGED <<config, state, altered, records, rows, result>>
    BY <1>1 DEF Begin
  <2> DEFINE next == FirstStage(m, config[w])
  <2>2. run' = [run EXCEPT ![w][m].stage = next]
    BY <1>1 DEF Begin
  <2>3. next \in {"BLOCKED", "SKIPPED", "PASSED", "working"}
    BY DEF FirstStage
  <2>4. (next = "PASSED" => Steps(m, config[w]) = 0) /\ (next = "working" => Steps(m, config[w]) # 0)
    BY DEF FirstStage
  <2>5. next = "working" => config[w].claims # <<>>
    BY DEF FirstStage, Skips
  <2> HIDE DEF next
  <2>6. run \in [Waves -> [ModuleTypes -> Runs]]
    BY DEF IInv, WaveTypeOK
  <2>7. run[w][m] \in Runs
    BY <2>6
  <2>8. /\ run'[w][m].stage = next /\ run'[w][m].probes = run[w][m].probes
        /\ run'[w][m].failed = run[w][m].failed
        /\ run'[w][m] \in Runs
    BY <2>2, <2>3, <2>6, <2>7 DEF Runs, Ended
  <2>9. \A v \in Waves, n \in ModuleTypes : ~(v = w /\ n = m) => run'[v][n] = run[v][n]
    BY <2>2, <2>6
  <2>10. run' \in [Waves -> [ModuleTypes -> Runs]]
    BY <2>2, <2>6, <2>8, <2>9
  <2>11. state[w] \in {"running", "raised"} /\ decision[w] = NoDecision
         /\ m \in config[w].modules /\ config[w] \in Config
    BY <2>1, WorkingIsOpen
  <2>12. WaveTypeOK'
    BY <2>1, <2>10 DEF IInv, WaveTypeOK
  <2>13. Opened'
    BY <2>1, <2>9, <2>11 DEF IInv, Opened
  <2>14. Reported'
    <3> SUFFICES ASSUME NEW v \in Waves, NEW n \in ModuleTypes
                 PROVE  /\ n # "ADVERSARIAL_SCENARIO" =>
                             \A q \in 1 .. run'[v][n].probes :
                               \E r \in records' : r.wave = v /\ r.module = n /\ r.probe = q
                        /\ run'[v][n].stage \in {"PASSED", "FAILED"} =>
                             Steps(n, config[v]) <= run'[v][n].probes
                        /\ run'[v][n].stage = "working" =>
                             config[v].claims # <<>> /\ run'[v][n].probes < Steps(n, config[v])
                        /\ run'[v][n].stage \in {"none", "ready"} =>
                             run'[v][n].probes = 0 /\ ~run'[v][n].failed
      BY <2>1 DEF Reported, Steps
    <3>1. CASE ~(v = w /\ n = m)
      BY <3>1, <2>1, <2>9 DEF IInv, Reported
    <3>2. CASE v = w /\ n = m
      <4>1. run[w][m].probes = 0 /\ ~run[w][m].failed /\ Steps(m, config[w]) \in Nat
        BY <2>1, <2>11, StepsNat DEF IInv, Reported
      <4> QED BY <3>2, <4>1, <2>1, <2>3, <2>4, <2>5, <2>8
    <3> QED BY <3>1, <3>2
  <2>15. Of(w)' = Of(w) /\ \A v \in Waves : Of(v)' = Of(v)
    BY <2>1 DEF Of
  <2>16. \A v \in Waves : decision[v] # NoDecision => state[v] = "returned" /\ v # w
    BY <2>11 DEF IInv, Returned
  <2>17. \A v \in Waves : state[v] = "returned" =>
           v # w /\ config[v].modules \subseteq ModuleTypes
    BY <2>11 DEF IInv, Opened, Config
  <2>18. Returned'
    BY <2>1, <2>9, <2>15, <2>16, <2>17 DEF IInv, Returned
  <2>19. EvidenceSpeaks'
    <3>1. IneligibleNeverSupports'
      BY <2>1 DEF IInv, EvidenceSpeaks, IneligibleNeverSupports, Supports
    <3>2. ASSUME NEW v \in Waves, NEW n \in ModuleTypes,
                 run'[v][n].failed \/ run'[v][n].stage = "FAILED"
          PROVE  run[v][n].failed \/ run[v][n].stage = "FAILED"
      BY <3>2, <2>3, <2>8, <2>9
    <3> QED BY <3>1, <3>2, <2>1 DEF IInv, EvidenceSpeaks, FailureLeavesTrace, Supports
  <2>20. EligibleIsEarned'
    <3> SUFFICES ASSUME NEW v \in Waves, decision[v].code = "ELIGIBLE_TO_CONTINUE"
                 PROVE  /\ \A n \in config[v].modules :
                             run'[v][n].stage \in {"PASSED", "SKIPPED"}
                        /\ Of(v)' # {}
                        /\ \A r \in records' : r.wave = v => Supports(r)
                        /\ \A c \in decision[v].request.deltas :
                             /\ \E r \in records' : r.wave = v /\ r.claim = c
                             /\ \/ decision[v].delta[c] = "UNCHANGED"
                                \/ c \in decision[v].request.mentioned
      BY <2>1 DEF EligibleIsEarned, Supports
    <3>1. v # w /\ config[v].modules \subseteq ModuleTypes
      BY <2>16, <2>17 DEF NoDecision
    <3> QED BY <3>1, <2>1, <2>9, <2>15 DEF IInv, EligibleIsEarned
  <2> QED BY <2>12, <2>13, <2>14, <2>18, <2>19, <2>20 DEF IInv
<1>2. ASSUME run[w][m].stage = "working"
      PROVE  /\ config[w] \in Config /\ config[w].claims # <<>> /\ run[w][m].probes + 1 \in Nat
             /\ run[w][m].probes < Steps(m, config[w])
             /\ altered \in [Waves -> BOOLEAN]
  <2>1. run[w][m] \in Runs
    BY DEF IInv, WaveTypeOK
  <2> QED BY <1>2, <2>1, WorkingIsOpen DEF IInv, Reported, WaveTypeOK, Runs
<1>3. ASSUME NEW broken \in BOOLEAN, NEW banned \in BOOLEAN, Analyse(w, broken, banned),
             m = "STATIC_ANALYSIS"
      PROVE  IInv'
  <2> DEFINE compiled == Entry(w, m, 1, broken, broken, TRUE, 0)
             scan == Entry(w, m, 2, FALSE, TRUE, FALSE, 0)
             E == {compiled} \cup IF banned THEN {scan} ELSE {}
  <2>1. Report(w, m, E, broken \/ banned) /\ altered' = altered
    BY <1>3 DEF Analyse, StaticEmits
  <2>2. run[w][m].stage = "working"
    BY <2>1 DEF Report
  <2>3. /\ compiled \in Record /\ compiled.wave = w /\ compiled.module = m
        /\ compiled.probe = 1 /\ compiled.failing = broken /\ compiled.eligible
        /\ scan \in Record /\ scan.wave = w /\ scan.module = m /\ scan.high
    BY <2>2, <1>2, FirstClaim DEF Entry, Record, Content
  <2>4. run[w][m].probes + 1 = 1
    <3>1. Steps(m, config[w]) = 1
      BY <1>3 DEF Steps
    <3>2. run[w][m].probes \in Nat
      BY DEF IInv, WaveTypeOK, Runs
    <3> QED BY <2>2, <1>2, <3>1, <3>2
  <2> HIDE DEF compiled, scan
  <2>5. E \in SUBSET Record
    BY <2>3
  <2>6. \A r \in E : r.wave = w /\ r.module = m /\ (Supports(r) => r.eligible)
    BY <2>3 DEF Supports
  <2>7. broken \/ banned => \E r \in E : ~Supports(r)
    BY <2>3 DEF Supports
  <2>8. \E r \in E : r.probe = run[w][m].probes + 1
    BY <2>3, <2>4
  <2> HIDE DEF E
  <2> QED BY <2>1, <2>2, <2>5, <2>6, <2>7, <2>8, <1>2, ReportKeeps
<1>4. ASSUME NEW failing \in BOOLEAN, NEW refuted \in BOOLEAN, NEW duration \in {0, w},
             Probe(w, m, failing, refuted, duration)
      PROVE  IInv'
  <2> DEFINE q == run[w][m].probes + 1
             answer == Entry(w, m, q, failing, refuted, TRUE, duration)
  <2>1. Report(w, m, {answer}, refuted) /\ altered' = altered
    BY <1>4 DEF Probe
  <2>2. run[w][m].stage = "working"
    BY <2>1 DEF Report
  <2>3. /\ answer \in Record /\ answer.wave = w /\ answer.module = m /\ answer.probe = q
        /\ answer.high = refuted /\ answer.eligible
    BY <2>2, <1>2, FirstClaim DEF Entry, Record, Content
  <2> HIDE DEF answer
  <2>4. \A r \in {answer} : r.wave = w /\ r.module = m /\ (Supports(r) => r.eligible)
    BY <2>3
  <2>5. refuted => \E r \in {answer} : ~Supports(r)
    BY <2>3 DEF Supports
  <2>6. {answer} \in SUBSET Record /\ \E r \in {answer} : r.probe = run[w][m].probes + 1
    BY <2>3
  <2>7. altered' \in [Waves -> BOOLEAN]
    BY <2>1, <2>2, <1>2
  <2> QED BY <2>1, <2>4, <2>5, <2>6, <2>7, ReportKeeps
<1>5. ASSUME Attack(w), m = "ADVERSARIAL_SCENARIO"
      PROVE  IInv'
  <2> DEFINE tried(i) == Entry(w, m, i, i \in config[w].holes, i \in config[w].holes, TRUE,
                               config[w].actor)
             E == {tried(i) : i \in Cases}
  <2>1. Report(w, m, E, config[w].holes \cap Cases # {}) /\ altered' = altered
    BY <1>5 DEF Attack
  <2>2. run[w][m].stage = "working"
    BY <2>1 DEF Report
  <2>3. config[w].actor \in Nat
    BY <2>2, <1>2 DEF Config
  <2>4. ASSUME NEW i \in Cases
        PROVE  /\ tried(i) \in Record /\ tried(i).wave = w /\ tried(i).module = m
               /\ tried(i).eligible /\ tried(i).high = (i \in config[w].holes)
    BY <2>2, <2>3, <1>2, FirstClaim DEF Entry, Record, Content
  <2> HIDE DEF tried
  <2>5. E \in SUBSET Record
    BY <2>4
  <2>6. \A r \in E : r.wave = w /\ r.module = m /\ (Supports(r) => r.eligible)
    BY <2>4
  <2>7. config[w].holes \cap Cases # {} => \E r \in E : ~Supports(r)
    BY <2>4 DEF Supports
  <2> HIDE DEF E
  <2> QED BY <2>1, <2>2, <2>5, <2>6, <2>7, <1>2, <1>5, ReportKeeps
<1>6. ASSUME NEW mutation \in {"alters", "inert", "missing"}, NEW failing \in BOOLEAN,
             Mutate(w, mutation, failing), m = "MUTATION_TEST"
      PROVE  IInv'
  <2> DEFINE survives == mutation = "missing" \/ (mutation = "inert" /\ ~altered[w])
             q == run[w][m].probes + 1
             answer == Entry(w, m, q, survives \/ failing, survives, TRUE, config[w].actor)
  <2>1. /\ Report(w, m, {answer}, survives)
        /\ altered' = [altered EXCEPT ![w] = @ \/ mutation = "alters"]
    BY <1>6 DEF Mutate
  <2>2. run[w][m].stage = "working"
    BY <2>1 DEF Report
  <2>3. config[w].actor \in Nat /\ altered[w] \in BOOLEAN
    BY <2>2, <1>2 DEF Config
  <2>4. survives \in BOOLEAN /\ (survives \/ failing) \in BOOLEAN
    BY <2>3
  <2>5. altered' \in [Waves -> BOOLEAN]
    BY <2>1, <2>2, <2>3, <1>2
  <2> HIDE DEF survives
  <2>6. /\ answer \in Record /\ answer.wave = w /\ answer.module = m /\ answer.probe = q
        /\ answer.high = survives /\ answer.eligible
    BY <2>2, <2>3, <2>4, <1>2, FirstClaim DEF Entry, Record, Content
  <2> HIDE DEF answer
  <2>7. \A r \in {answer} : r.wave = w /\ r.module = m /\ (Supports(r) => r.eligible)
    BY <2>6
  <2>8. survives => \E r \in {answer} : ~Supports(r)
    BY <2>6 DEF Supports
  <2> QED BY <2>1, <2>4, <2>5, <2>6, <2>7, <2>8, ReportKeeps
<1> QED BY <1>1, <1>3, <1>4, <1>5, <1>6 DEF ModuleStep

\* The steps of the caller.
LEMMA CallerKeeps ==
  ASSUME IInv, NEW w \in Waves,
         \/ \E c \in Configs[w] : StartWave(w, c)
         \/ Return(w)
         \/ \E m \in ModuleTypes : Raise(w, m),
         UNCHANGED <<decision, packages>>
  PROVE  IInv'
<1> USE WavesAssumption, ClaimsAssumption, ConfigsAssumption
<1>1. /\ config \in [Waves -> Config \cup {NoConfig}]
      /\ state \in [Waves -> {"idle", "running", "returned", "raised"}]
      /\ run \in [Waves -> [ModuleTypes -> Runs]]
      /\ result \in [Waves -> Result \cup {NoResult}]
      /\ records \subseteq Record
  BY DEF IInv, WaveTypeOK
<1>2. \A v \in Waves : decision[v].code = "ELIGIBLE_TO_CONTINUE" => decision[v] # NoDecision
  BY DEF NoDecision
<1>3. ASSUME NEW c \in Configs[w], StartWave(w, c)
      PROVE  IInv'
  <2>1. /\ state[w] = "idle"
        /\ config' = [config EXCEPT ![w] = c]
        /\ state' = [state EXCEPT ![w] = "running"]
        /\ UNCHANGED <<altered, records, rows, result>>
    BY <1>3 DEF StartWave
  <2>2. c \in Config /\ c.modules \subseteq ModuleTypes
    BY DEF Config
  <2>3. \A n \in ModuleTypes : run[w][n].stage = "none" /\ run[w][n] \in Runs
    BY <2>1, <1>1 DEF IInv, Opened
  <2>4. \A n \in ModuleTypes :
          /\ run'[w][n] \in Runs
          /\ run'[w][n].stage = IF n \in c.modules THEN "ready" ELSE "none"
          /\ run'[w][n].probes = run[w][n].probes
          /\ run'[w][n].failed = run[w][n].failed
    <3> SUFFICES ASSUME NEW n \in ModuleTypes
                 PROVE  /\ run'[w][n] \in Runs
                        /\ run'[w][n].stage = IF n \in c.modules THEN "ready" ELSE "none"
                        /\ run'[w][n].probes = run[w][n].probes
                        /\ run'[w][n].failed = run[w][n].failed
      OBVIOUS
    <3>1. run'[w][n] = IF n \in c.modules THEN [run[w][n] EXCEPT !.stage = "ready"]
                       ELSE run[w][n]
      BY <1>3, <1>1 DEF StartWave
    <3> QED BY <3>1, <2>3 DEF Runs
  <2>5. \A v \in Waves : v # w => run'[v] = run[v] /\ config'[v] = config[v] /\ state'[v] = state[v]
    BY <1>3, <1>1 DEF StartWave
  <2>6. run' = [run EXCEPT ![w] = [n \in ModuleTypes |-> run'[w][n]]]
    BY <1>3, <1>1 DEF StartWave
  <2>7. run' \in [Waves -> [ModuleTypes -> Runs]]
    BY <2>6, <2>4, <1>1
  <2>8. config'[w] = c /\ state'[w] = "running"
    BY <2>1, <1>1
  <2>9. WaveTypeOK'
    BY <2>1, <2>2, <2>7, <1>1 DEF IInv, WaveTypeOK
  <2>10. Opened'
    <3>1. \A v \in Waves, n \in ModuleTypes :
            run'[v][n].stage # "none" => n \in config'[v].modules /\ state'[v] # "idle"
      BY <2>4, <2>5, <2>8 DEF IInv, Opened
    <3>2. \A v \in Waves : (state'[v] = "idle" => config'[v] = NoConfig)
                           /\ (state'[v] # "idle" => config'[v] \in Config)
      BY <2>2, <2>5, <2>8 DEF IInv, Opened
    <3>3. \A r \in records : r.wave \in Waves
      BY <1>1 DEF Record
    <3>4. \A r \in records' : state'[r.wave] # "idle"
      BY <3>3, <2>1, <2>5, <2>8 DEF IInv, Opened
    <3> QED BY <3>1, <3>2, <3>4 DEF Opened
  <2>11. Reported'
    <3> SUFFICES ASSUME NEW v \in Waves, NEW n \in ModuleTypes
                 PROVE  /\ n # "ADVERSARIAL_SCENARIO" =>
                             \A q \in 1 .. run'[v][n].probes :
                               \E r \in records' : r.wave = v /\ r.module = n /\ r.probe = q
                        /\ run'[v][n].stage \in {"PASSED", "FAILED"} =>
                             Steps(n, config'[v]) <= run'[v][n].probes
                        /\ run'[v][n].stage = "working" =>
                             config'[v].claims # <<>> /\ run'[v][n].probes < Steps(n, config'[v])
                        /\ run'[v][n].stage \in {"none", "ready"} =>
                             run'[v][n].probes = 0 /\ ~run'[v][n].failed
      BY <2>1 DEF Reported, Steps
    <3>1. CASE v # w
      BY <3>1, <2>1, <2>5 DEF IInv, Reported
    <3>2. CASE v = w
      <4>1. run[w][n].probes = 0 /\ ~run[w][n].failed
        BY <2>3 DEF IInv, Reported
      <4> QED BY <3>2, <4>1, <2>4
    <3> QED BY <3>1, <3>2
  <2>12. \A v \in Waves : Of(v)' = Of(v)
    BY <2>1 DEF Of
  <2>13. \A v \in Waves : decision[v] # NoDecision \/ state'[v] = "returned" => v # w
    BY <2>1, <2>8 DEF IInv, Returned
  <2>14. Returned'
    BY <2>1, <2>5, <2>12, <2>13 DEF IInv, Returned
  <2>15. EvidenceSpeaks'
    <3>1. IneligibleNeverSupports'
      BY <2>1 DEF IInv, EvidenceSpeaks, IneligibleNeverSupports, Supports
    <3>2. \A v \in Waves, n \in ModuleTypes :
            run'[v][n].failed \/ run'[v][n].stage = "FAILED" =>
              run[v][n].failed \/ run[v][n].stage = "FAILED"
      BY <2>4, <2>5
    <3> QED BY <3>1, <3>2, <2>1 DEF IInv, EvidenceSpeaks, FailureLeavesTrace, Supports
  <2>16. EligibleIsEarned'
    <3> SUFFICES ASSUME NEW v \in Waves, decision[v].code = "ELIGIBLE_TO_CONTINUE"
                 PROVE  /\ \A n \in config'[v].modules :
                             run'[v][n].stage \in {"PASSED", "SKIPPED"}
                        /\ Of(v)' # {}
                        /\ \A r \in records' : r.wave = v => Supports(r)
                        /\ \A c2 \in decision[v].request.deltas :
                             /\ \E r \in records' : r.wave = v /\ r.claim = c2
                             /\ \/ decision[v].delta[c2] = "UNCHANGED"
                                \/ c2 \in decision[v].request.mentioned
      BY <2>1 DEF EligibleIsEarned, Supports
    <3>1. v # w
      BY <2>13, <1>2
    <3> QED BY <3>1, <2>1, <2>5, <2>12 DEF IInv, EligibleIsEarned
  <2> QED BY <2>9, <2>10, <2>11, <2>14, <2>15, <2>16 DEF IInv
<1>4. ASSUME Return(w)
      PROVE  IInv'
  <2> DEFINE new == [state |-> Overall(w, Of(w)), evidence |-> Of(w),
                     modules |-> [m \in ModuleTypes |-> run[w][m].stage]]
  <2>1. /\ state[w] = "running"
        /\ \A m \in config[w].modules : run[w][m].stage \in Ended
        /\ state' = [state EXCEPT ![w] = "returned"]
        /\ result' = [result EXCEPT ![w] = new]
        /\ UNCHANGED <<config, run, altered, records, rows>>
    BY <1>4 DEF Return
  <2>2. config[w].modules \subseteq ModuleTypes
    BY <2>1 DEF IInv, Opened, Config
  <2>3. new \in Result
    <3>1. Overall(w, Of(w)) \in {"COMPLETED", "BLOCKED", "INSUFFICIENT_EVIDENCE"}
      BY DEF Overall
    <3>2. Of(w) \subseteq Record
      BY <1>1 DEF Of
    <3>3. [m \in ModuleTypes |-> run[w][m].stage]
            \in [ModuleTypes -> Ended \cup {"none", "ready", "working", "raised"}]
      BY <1>1 DEF Runs
    <3> QED BY <3>1, <3>2, <3>3 DEF Result
  <2>4. /\ new.evidence = Of(w)
        /\ \A m \in ModuleTypes : new.modules[m] = run[w][m].stage
    OBVIOUS
  <2> HIDE DEF new
  <2>5. result'[w] = new /\ state'[w] = "returned"
        /\ \A v \in Waves : v # w => result'[v] = result[v] /\ state'[v] = state[v]
    BY <2>1, <1>1
  <2>6. WaveTypeOK'
    BY <2>1, <2>3, <1>1 DEF IInv, WaveTypeOK
  <2>7. Opened'
    <3>1. \A r \in records : r.wave \in Waves
      BY <1>1 DEF Record
    <3> QED BY <3>1, <2>1, <2>5 DEF IInv, Opened
  <2>8. Reported' /\ EvidenceSpeaks' /\ EligibleIsEarned'
    BY <2>1 DEF IInv, Reported, Steps, EvidenceSpeaks, IneligibleNeverSupports,
                FailureLeavesTrace, EligibleIsEarned, Of, Supports
  <2>9. \A v \in Waves : Of(v)' = Of(v)
    BY <2>1 DEF Of
  <2>10. Returned'
    BY <2>1, <2>2, <2>4, <2>5, <2>9 DEF IInv, Returned
  <2> QED BY <2>6, <2>7, <2>8, <2>10 DEF IInv
<1>5. ASSUME NEW m \in ModuleTypes, Raise(w, m)
      PROVE  IInv'
  <2>1. /\ run[w][m].stage \in {"ready", "working"}
        /\ run' = [run EXCEPT ![w][m].stage = "raised"]
        /\ state' = [state EXCEPT ![w] = IF @ = "running" THEN "raised" ELSE @]
        /\ UNCHANGED <<config, altered, records, rows, result>>
    BY <1>5 DEF Raise
  <2>2. state[w] \in {"running", "raised"} /\ decision[w] = NoDecision
        /\ m \in config[w].modules /\ config[w] \in Config
    BY <2>1, WorkingIsOpen
  <2>3. state'[w] = "raised" /\ \A v \in Waves : v # w => state'[v] = state[v]
    BY <2>1, <2>2, <1>1
  <2>4. run'[w][m] = [run[w][m] EXCEPT !.stage = "raised"]
    BY <2>1, <1>1
  <2>5. run[w][m] \in Runs
    BY <1>1
  <2>6. /\ run'[w][m].stage = "raised" /\ run'[w][m].probes = run[w][m].probes
        /\ run'[w][m].failed = run[w][m].failed /\ run'[w][m] \in Runs
    BY <2>4, <2>5 DEF Runs
  <2>7. \A v \in Waves, n \in ModuleTypes : ~(v = w /\ n = m) => run'[v][n] = run[v][n]
    BY <2>1, <1>1
  <2>8. run' \in [Waves -> [ModuleTypes -> Runs]]
    BY <2>1, <2>6, <2>7, <1>1
  <2>9. WaveTypeOK'
    BY <2>1, <2>8, <1>1 DEF IInv, WaveTypeOK
  <2>10. Opened'
    <3>1. \A r \in records : r.wave \in Waves
      BY <1>1 DEF Record
    <3> QED BY <3>1, <2>1, <2>2, <2>3, <2>7 DEF IInv, Opened
  <2>11. Reported'
    BY <2>1, <2>6, <2>7 DEF IInv, Reported, Steps
  <2>12. \A v \in Waves : Of(v)' = Of(v)
    BY <2>1 DEF Of
  <2>13. \A v \in Waves : decision[v] # NoDecision \/ state'[v] = "returned" =>
           v # w /\ config[v].modules \subseteq ModuleTypes
    BY <2>2, <2>3 DEF IInv, Returned, Opened, Config
  <2>14. Returned'
    BY <2>1, <2>3, <2>7, <2>12, <2>13 DEF IInv, Returned
  <2>15. EvidenceSpeaks'
    BY <2>1, <2>6, <2>7 DEF IInv, EvidenceSpeaks, IneligibleNeverSupports, FailureLeavesTrace,
                            Supports
  <2>16. EligibleIsEarned'
    <3> SUFFICES ASSUME NEW v \in Waves, decision[v].code = "ELIGIBLE_TO_CONTINUE"
                 PROVE  /\ \A n \in config[v].modules :
                             run'[v][n].stage \in {"PASSED", "SKIPPED"}
                        /\ Of(v)' # {}
                        /\ \A r \in records' : r.wave = v => Supports(r)
                        /\ \A c \in decision[v].request.deltas :
                             /\ \E r \in records' : r.wave = v /\ r.claim = c
                             /\ \/ decision[v].delta[c] = "UNCHANGED"
                                \/ c \in decision[v].request.mentioned
      BY <2>1 DEF EligibleIsEarned, Supports
    <3>1. v # w /\ config[v].modules \subseteq ModuleTypes
      BY <2>13, <1>2
    <3> QED BY <3>1, <2>1, <2>7, <2>12 DEF IInv, EligibleIsEarned
  <2> QED BY <2>9, <2>10, <2>11, <2>14, <2>15, <2>16 DEF IInv
<1> QED BY <1>3, <1>4, <1>5

\* A decision rests on what the wave returned.
LEMMA DecideKeeps ==
  ASSUME IInv, NEW w \in Waves, NEW request \in Requests, Decide(w, request)
  PROVE  IInv'
<1> DEFINE E == result[w].evidence
           new == [code |-> Code(result[w], request), request |-> request,
                   delta |-> [c \in request.deltas |-> Classify(E, c, request)]]
<1>1. /\ state[w] = "returned" /\ decision[w] = NoDecision
      /\ decision' = [decision EXCEPT ![w] = new]
      /\ UNCHANGED waveVars
  BY DEF Decide
<1>2. WaveTypeOK' /\ Opened' /\ Reported' /\ EvidenceSpeaks'
  BY <1>1 DEF IInv, waveVars, WaveTypeOK, Opened, Reported, Steps, EvidenceSpeaks,
              IneligibleNeverSupports, FailureLeavesTrace, Supports
<1>3. \A v \in Waves : v # w => decision'[v] = decision[v]
  BY <1>1
<1>4. Returned'
  BY <1>1, <1>3 DEF IInv, Returned, waveVars, Of
<1>5. E = Of(w) /\ \A m \in config[w].modules :
        run[w][m].stage \in Ended /\ result[w].modules[m] = run[w][m].stage
  BY <1>1 DEF IInv, Returned
<1>6. config[w].modules \subseteq ModuleTypes
  BY <1>1 DEF IInv, Opened, Config
<1>7. request.deltas \subseteq Claims
  BY RequestsAssumption DEF Request
<1>8. ASSUME new.code = "ELIGIBLE_TO_CONTINUE"
      PROVE  /\ \A m \in config[w].modules : run[w][m].stage \in {"PASSED", "SKIPPED"}
             /\ Of(w) # {}
             /\ \A r \in records : r.wave = w => Supports(r)
             /\ \A c \in request.deltas :
                  /\ \E r \in records : r.wave = w /\ r.claim = c
                  /\ Classify(E, c, request) = "UNCHANGED" \/ c \in request.mentioned
  <2>1. Code(result[w], request) = "ELIGIBLE_TO_CONTINUE"
    BY <1>8
  <2>2. /\ E # {}
        /\ ~\E c \in Claims : Verdict(E, c) \in Contradicted
        /\ ~\E m \in ModuleTypes : result[w].modules[m] \in {"FAILED", "BLOCKED"}
        /\ ~Unresolved(E, request)
    BY <2>1 DEF Code
  <2>3. \A m \in config[w].modules : run[w][m].stage \in {"PASSED", "SKIPPED"}
    BY <2>2, <1>5, <1>6 DEF Ended
  <2>4. ASSUME NEW r \in records, r.wave = w
        PROVE  Supports(r)
    <3>1. r \in E /\ r.claim \in Claims
      BY <2>4, <1>5 DEF Of, IInv, WaveTypeOK, Record
    <3> QED BY <3>1, <2>2, VerdictOf
  <2>5. ASSUME NEW c \in request.deltas
        PROVE  /\ \E r \in records : r.wave = w /\ r.claim = c
               /\ Classify(E, c, request) = "UNCHANGED" \/ c \in request.mentioned
    <3>1. Alignment(Classify(E, c, request), c, request) = "AUTHORIZED"
      BY <2>2 DEF Unresolved
    <3>2. Classify(E, c, request) # "UNEXPLAINED"
          /\ (Classify(E, c, request) = "UNCHANGED" \/ c \in request.mentioned)
      BY <3>1 DEF Alignment
    <3>3. Verdict(E, c) # "INSUFFICIENT"
      BY <3>2 DEF Classify, Contradicted
    <3>4. \E r \in E : r.claim = c
      BY <3>3, VerdictOf
    <3> QED BY <3>2, <3>4, <1>5 DEF Of
  <2> QED BY <2>2, <2>3, <2>4, <2>5, <1>5
<1>9. EligibleIsEarned'
  <2> SUFFICES ASSUME NEW v \in Waves, decision'[v].code = "ELIGIBLE_TO_CONTINUE"
               PROVE  /\ \A n \in config[v].modules :
                           run[v][n].stage \in {"PASSED", "SKIPPED"}
                      /\ Of(v) # {}
                      /\ \A r \in records : r.wave = v => Supports(r)
                      /\ \A c \in decision'[v].request.deltas :
                           /\ \E r \in records : r.wave = v /\ r.claim = c
                           /\ \/ decision'[v].delta[c] = "UNCHANGED"
                              \/ c \in decision'[v].request.mentioned
    BY <1>1 DEF EligibleIsEarned, Supports, Of, waveVars
  <2>1. CASE v # w
    BY <2>1, <1>3 DEF IInv, EligibleIsEarned
  <2>2. CASE v = w
    <3>1. decision'[w] = new
      BY <1>1, <2>2 DEF NoDecision
    <3>2. new.request = request /\ \A c \in request.deltas :
            new.delta[c] = Classify(E, c, request)
      OBVIOUS
    <3> HIDE DEF new
    <3> QED BY <3>1, <3>2, <2>2, <1>8
  <2> QED BY <2>1, <2>2
<1> QED BY <1>2, <1>4, <1>9 DEF IInv

-----------------------------------------------------------------------------
(* Theorems *)

\* The inductive invariant holds: what the modules, the waves and the decisions have said of
\* each other stays true whatever the rest of the session does.
THEOREM AssessmentInvariant == Spec => []IInv
<1>1. Init => IInv
  <2> SUFFICES ASSUME Init PROVE IInv
    OBVIOUS
  <2>1. WaveInit /\ decision = [w \in Waves |-> NoDecision]
    BY DEF Init
  <2>2. WaveTypeOK
    BY <2>1 DEF WaveInit, WaveTypeOK, Runs
  <2>3. Opened /\ Reported /\ Returned
    BY <2>1 DEF WaveInit, Opened, Reported, Returned
  <2>4. EvidenceSpeaks
    BY <2>1 DEF WaveInit, EvidenceSpeaks, IneligibleNeverSupports, FailureLeavesTrace
  <2>5. EligibleIsEarned
    BY <2>1 DEF EligibleIsEarned, NoDecision
  <2> QED BY <2>2, <2>3, <2>4, <2>5 DEF IInv
<1>2. IInv /\ [Next]_vars => IInv'
  <2> SUFFICES ASSUME IInv, [Next]_vars PROVE IInv'
    OBVIOUS
  <2>1. ASSUME UNCHANGED <<waveVars, decision>> PROVE IInv'
    BY <2>1 DEF IInv, waveVars, WaveTypeOK, Opened, Reported, Steps, Returned, Of,
                EvidenceSpeaks, IneligibleNeverSupports, FailureLeavesTrace, EligibleIsEarned,
                Supports
  <2>2. CASE WaveNext /\ UNCHANGED <<boundsVars, decision, loop, packages>>
    BY <2>2, ModuleKeeps, CallerKeeps DEF WaveNext
  <2>3. CASE \E w \in Waves, request \in Requests : Decide(w, request)
    BY <2>3, DecideKeeps
  <2>4. CASE \E w \in Waves, b \in Budgets : StartRepair(w, b)
    BY <2>4, <2>1 DEF StartRepair
  <2>5. CASE \E w \in Waves : RepairStep(w)
    BY <2>5, <2>1 DEF RepairStep, StopRepair, Repair
  <2>6. CASE Expire
    BY <2>6, <2>1 DEF Expire
  <2>7. CASE UNCHANGED vars
    BY <2>7, <2>1 DEF vars
  <2> QED BY <2>2, <2>3, <2>4, <2>5, <2>6, <2>7 DEF Next
<1> QED BY <1>1, <1>2, PTL DEF Spec

\* run_verification_wave() returns whole waves, whichever modules of earlier waves still write.
THEOREM WavesAreWhole == Spec => []ResultWhole
<1>1. IInv => ResultWhole
  <2> SUFFICES ASSUME IInv, NEW w \in Waves, state[w] = "returned"
               PROVE  /\ result[w].evidence = Of(w)
                      /\ \A m \in config[w].modules :
                           /\ run[w][m].stage \in Ended
                           /\ result[w].modules[m] = run[w][m].stage
                           /\ run[w][m].stage \in {"PASSED", "FAILED"}
                                /\ m # "ADVERSARIAL_SCENARIO" =>
                              \A p \in 1 .. Steps(m, config[w]) :
                                \E r \in result[w].evidence : r.module = m /\ r.probe = p
    BY DEF ResultWhole
  <2>1. result[w].evidence = Of(w) /\ config[w] \in Config
        /\ config[w].modules \subseteq ModuleTypes
    BY DEF IInv, Returned, Opened, Config
  <2>2. ASSUME NEW m \in config[w].modules, run[w][m].stage \in {"PASSED", "FAILED"},
               m # "ADVERSARIAL_SCENARIO", NEW p \in 1 .. Steps(m, config[w])
        PROVE  \E r \in Of(w) : r.module = m /\ r.probe = p
    <3>1. Steps(m, config[w]) <= run[w][m].probes /\ Steps(m, config[w]) \in Nat
          /\ run[w][m].probes \in Nat
      BY <2>1, <2>2, StepsNat DEF IInv, Reported, WaveTypeOK, Runs
    <3>2. p \in 1 .. run[w][m].probes
      BY <3>1
    <3> QED BY <3>2, <2>1, <2>2 DEF IInv, Reported, Of
  <2> QED BY <2>1, <2>2 DEF IInv, Returned
<1> QED BY <1>1, AssessmentInvariant, PTL

\* The records say what the modules found: an ineligible one supports nothing, and a failed
\* module has one that contradicts.
THEOREM EvidenceHolds == Spec => []EvidenceSpeaks
BY AssessmentInvariant, PTL DEF IInv

\* decide_certification() lets nothing continue that has not earned it.
THEOREM EligibilityIsEarned == Spec => []EligibleIsEarned
BY AssessmentInvariant, PTL DEF IInv

-----------------------------------------------------------------------------
(* The repair loop.  At most one is running, for the last wave that has     *)
(* begun, and the controller's counters are those of the last one started:  *)
(* every iteration adds one package, one repair and one more of the same    *)
(* signature.                                                               *)

Mine(w) == {p \in packages : p.wave = w}

LoopTypes ==
  /\ DOMAIN decision = Waves /\ DOMAIN loop = Waves
  /\ BoundsTypeOK
  /\ signatures \in Seq(Claims)
  /\ \A w \in Waves : decision[w] # NoDecision => decision[w].request \in Request

LoopOrder ==
  \A w \in Waves :
    /\ loop[w] # "none" => decision[w] # NoDecision
    /\ loop[w] = "none" => Mine(w) = {}
    /\ loop[w] = "running" => \A v \in Waves : v > w => state[v] = "idle"

Packed ==
  \A w \in Waves :
    /\ IsFiniteSet(Mine(w))
    /\ \A i \in Int : i \in 2 .. Cardinality(Mine(w)) + 1 => \E p \in Mine(w) : p.index = i
    /\ \A p \in Mine(w) :
         /\ p.index \in 2 .. Cardinality(Mine(w)) + 1
         /\ p.evidence # {} /\ p.claim \in Affected(w)
         /\ \A x \in p.evidence : \E r \in result[w].evidence : x = r.row

Counted ==
  \A w \in Waves : loop[w] # "none" /\ (\A v \in Waves : v > w => loop[v] = "none") =>
    /\ Cardinality(Mine(w)) = iteration /\ repairs = iteration
    /\ iteration <= bounds.max_iterations /\ iteration <= bounds.max_repair_attempts
    /\ iteration <= Threshold
    /\ loop[w] = "running" =>
         /\ iteration < Threshold
         /\ Len(signatures) = iteration
         /\ \A i \in 1 .. Len(signatures) : signatures[i] \in Affected(w)

LoopInv == LoopTypes /\ LoopOrder /\ Packed /\ Counted

LEMMA BudgetNumbers ==
  ASSUME BoundsTypeOK
  PROVE  /\ bounds.max_iterations \in Nat /\ bounds.max_repair_attempts \in Nat
         /\ Threshold \in Nat \ {0}
BY BudgetsAssumption DEF BoundsTypeOK, Threshold

\* The claim a loop repairs is one and the same.
LEMMA OneAffected ==
  ASSUME LoopTypes, NEW w \in Waves, decision[w] # NoDecision,
         NEW c \in Affected(w), NEW d \in Affected(w)
  PROVE  c = d /\ c \in Claims
<1>1. decision[w].request.deltas \subseteq Nat /\ decision[w].request.deltas \subseteq Claims
  BY ClaimsAssumption DEF LoopTypes, Request
<1>2. \A e \in Affected(w) : e \in Claims /\ e \in Nat /\ e \in decision[w].request.deltas
                             /\ \A a \in decision[w].request.deltas : e <= a
  BY <1>1 DEF Affected
<1>3. c <= d /\ d <= c /\ c \in Nat /\ d \in Nat
  BY <1>2
<1> QED BY <1>2, <1>3

\* What a wave returned stays as it is.
LEMMA ReturnedStays ==
  ASSUME WaveTypeOK, WaveNext, NEW w \in Waves, state[w] = "returned"
  PROVE  state'[w] = "returned" /\ result'[w] = result[w]
<1>1. ASSUME NEW v \in Waves, NEW c, StartWave(v, c) PROVE state'[w] = "returned" /\ result'[w] = result[w]
  BY <1>1 DEF StartWave, WaveTypeOK
<1>2. ASSUME NEW v \in Waves, NEW m \in ModuleTypes, ModuleStep(v, m)
      PROVE state'[w] = "returned" /\ result'[w] = result[w]
  BY <1>2 DEF ModuleStep, Begin, Analyse, Attack, Mutate, Probe, Report
<1>3. ASSUME NEW v \in Waves, NEW m \in ModuleTypes, Raise(v, m)
      PROVE state'[w] = "returned" /\ result'[w] = result[w]
  BY <1>3 DEF Raise, WaveTypeOK
<1>4. ASSUME NEW v \in Waves, Return(v) PROVE state'[w] = "returned" /\ result'[w] = result[w]
  BY <1>4 DEF Return, WaveTypeOK
<1> QED BY <1>1, <1>2, <1>3, <1>4 DEF WaveNext

LEMMA WaveKeepsLoop ==
  ASSUME IInv, LoopInv, WaveNext, \A w \in Waves : loop[w] # "running",
         UNCHANGED <<boundsVars, decision, loop, packages>>
  PROVE  LoopInv'
<1>1. \A w \in Waves : Mine(w)' = Mine(w) /\ Affected(w)' = Affected(w)
  BY DEF Mine, Affected
<1>2. \A w \in Waves : Mine(w) # {} => result'[w] = result[w]
  BY ReturnedStays DEF LoopInv, LoopOrder, IInv, Returned
<1>3. LoopTypes'
  BY DEF LoopInv, LoopTypes, BoundsTypeOK, boundsVars
<1>4. LoopOrder'
  BY <1>1 DEF LoopInv, LoopOrder
<1>5. Packed'
  <2> SUFFICES ASSUME NEW w \in Waves
               PROVE  /\ IsFiniteSet(Mine(w))
                      /\ \A i \in Int : i \in 2 .. Cardinality(Mine(w)) + 1 =>
                           \E p \in Mine(w) : p.index = i
                      /\ \A p \in Mine(w) :
                           /\ p.index \in 2 .. Cardinality(Mine(w)) + 1
                           /\ p.evidence # {} /\ p.claim \in Affected(w)
                           /\ \A x \in p.evidence : \E r \in result'[w].evidence : x = r.row
    BY <1>1 DEF Packed
  <2>1. CASE Mine(w) = {}
    BY <2>1 DEF LoopInv, Packed
  <2>2. CASE Mine(w) # {}
    BY <2>2, <1>2 DEF LoopInv, Packed
  <2> QED BY <2>1, <2>2
<1>6. Counted'
  BY <1>1 DEF LoopInv, Counted, boundsVars, Threshold
<1> QED BY <1>3, <1>4, <1>5, <1>6 DEF LoopInv

LEMMA DecideKeepsLoop ==
  ASSUME IInv, LoopInv, NEW w \in Waves, NEW request \in Requests, Decide(w, request)
  PROVE  LoopInv'
<1> DEFINE new == [code |-> Code(result[w], request), request |-> request,
                   delta |-> [c \in request.deltas |->
                                Classify(result[w].evidence, c, request)]]
<1>1. /\ decision[w] = NoDecision /\ decision' = [decision EXCEPT ![w] = new]
      /\ UNCHANGED <<waveVars, boundsVars, loop, packages>>
  BY DEF Decide
<1>2. loop[w] = "none" /\ Mine(w) = {}
  BY <1>1 DEF LoopInv, LoopOrder
<1>3. new.request \in Request
  BY RequestsAssumption
<1>4. decision'[w] = new /\ DOMAIN decision' = Waves
  BY <1>1 DEF LoopInv, LoopTypes
<1> HIDE DEF new
<1>5. \A v \in Waves : v # w => decision'[v] = decision[v]
  BY <1>1
<1>6. \A v \in Waves : Mine(v)' = Mine(v) /\ (v # w => Affected(v)' = Affected(v))
  BY <1>1, <1>5 DEF Mine, Affected
<1>7. LoopTypes'
  BY <1>1, <1>3, <1>4, <1>5 DEF LoopInv, LoopTypes, BoundsTypeOK, boundsVars
<1>8. LoopOrder'
  BY <1>1, <1>2, <1>5, <1>6 DEF LoopInv, LoopOrder, waveVars
<1>9. Packed'
  BY <1>1, <1>2, <1>6 DEF LoopInv, Packed, waveVars
<1>10. Counted'
  BY <1>1, <1>2, <1>6 DEF LoopInv, Counted, boundsVars, Threshold
<1> QED BY <1>7, <1>8, <1>9, <1>10 DEF LoopInv

LEMMA StartKeepsLoop ==
  ASSUME IInv, LoopInv, NEW w \in Waves, NEW b \in Budgets, StartRepair(w, b)
  PROVE  LoopInv'
<1>1. /\ decision[w] # NoDecision /\ loop[w] = "none"
      /\ \A v \in Waves : v > w => state[v] = "idle"
      /\ loop'[w] \in {"running", "no_repair"} /\ DOMAIN loop' = Waves
      /\ \A v \in Waves : v # w => loop'[v] = loop[v]
  BY DEF StartRepair, LoopInv, LoopTypes
<1>2. /\ bounds' = b /\ iteration' = 0 /\ commands' = 0 /\ repairs' = 0
      /\ expired' = FALSE /\ signatures' = <<>>
      /\ UNCHANGED <<waveVars, decision, packages>>
  BY DEF StartRepair
<1>3. \A v \in Waves : v > w => loop[v] = "none"
  BY <1>1 DEF LoopInv, LoopOrder, IInv, Returned
<1>4. \A v \in Waves : Mine(v)' = Mine(v) /\ Affected(v)' = Affected(v)
  BY <1>2 DEF Mine, Affected
<1>5. LoopTypes'
  <2>1. <<>> \in Seq(Claims)
    OBVIOUS
  <2>2. BoundsTypeOK' /\ DOMAIN decision' = Waves
    BY <1>2 DEF BoundsTypeOK, LoopInv, LoopTypes
  <2>3. \A v \in Waves : decision'[v] # NoDecision => decision'[v].request \in Request
    BY <1>2 DEF LoopInv, LoopTypes
  <2> QED BY <1>1, <1>2, <2>1, <2>2, <2>3 DEF LoopTypes
<1>6. LoopOrder'
  BY <1>1, <1>2, <1>4 DEF LoopInv, LoopOrder, waveVars
<1>7. Packed'
  BY <1>2, <1>4 DEF LoopInv, Packed, waveVars
<1>8. Counted'
  <2>1. /\ bounds'.max_iterations \in Nat /\ bounds'.max_repair_attempts \in Nat
        /\ Threshold' \in Nat \ {0}
    BY <1>5, BudgetsAssumption DEF LoopTypes, BoundsTypeOK, Threshold
  <2>2. Mine(w) = {} /\ Cardinality(Mine(w)) = 0
    BY <1>1, FS_EmptySet DEF LoopInv, LoopOrder
  <2>3. \A v \in Waves : loop'[v] # "none" /\ (\A u \in Waves : u > v => loop'[u] = "none") => v = w
    BY <1>1, <1>3, WavesAssumption
  <2>4. \A i \in 1 .. Len(signatures') : signatures'[i] \in Affected(w)'
    BY <1>2
  <2>5. /\ Cardinality(Mine(w)') = iteration' /\ repairs' = iteration'
        /\ iteration' <= bounds'.max_iterations /\ iteration' <= bounds'.max_repair_attempts
        /\ iteration' <= Threshold' /\ iteration' < Threshold'
        /\ Len(signatures') = iteration'
    <3>1. Len(<<>>) = 0
      OBVIOUS
    <3>2. Cardinality(Mine(w)') = 0 /\ repairs' = 0 /\ iteration' = 0 /\ Len(signatures') = 0
      BY <1>2, <1>4, <2>2, <3>1
    <3> QED BY <2>1, <3>2
  <2> QED BY <2>3, <2>4, <2>5 DEF Counted
<1> QED BY <1>5, <1>6, <1>7, <1>8 DEF LoopInv

LEMMA StopKeepsLoop ==
  ASSUME IInv, LoopInv, NEW w \in Waves, StopRepair(w)
  PROVE  LoopInv'
<1>1. /\ loop[w] = "running" /\ loop'[w] \notin {"none", "running"} /\ DOMAIN loop' = Waves
      /\ \A v \in Waves : v # w => loop'[v] = loop[v]
      /\ UNCHANGED <<waveVars, boundsVars, decision, packages>>
  BY DEF StopRepair, Stops, LoopInv, LoopTypes
<1>2. \A v \in Waves : Mine(v)' = Mine(v) /\ Affected(v)' = Affected(v)
  BY <1>1 DEF Mine, Affected
<1>3. LoopTypes'
  BY <1>1 DEF LoopInv, LoopTypes, BoundsTypeOK, boundsVars
<1>4. LoopOrder'
  BY <1>1, <1>2 DEF LoopInv, LoopOrder, waveVars
<1>5. Packed'
  BY <1>1, <1>2 DEF LoopInv, Packed, waveVars
<1>6. Counted'
  BY <1>1, <1>2 DEF LoopInv, Counted, boundsVars, Threshold
<1> QED BY <1>3, <1>4, <1>5, <1>6 DEF LoopInv

\* With a window that holds nothing but c, the loop stalls when it is full.
LEMMA StallsWhenFull ==
  ASSUME BoundsTypeOK, signatures \in Seq(Claims), NEW c \in Claims,
         \A i \in 1 .. Len(signatures) : signatures[i] = c
  PROVE  /\ StalledOn(c) <=> Len(signatures) + 1 >= Threshold
         /\ ~StalledOn(c) =>
              /\ Len(Append(signatures, c)) = Len(signatures) + 1
              /\ \A i \in 1 .. Len(signatures) + 1 : Append(signatures, c)[i] = c
<1> DEFINE recent == Append(signatures, c)
<1>1. /\ Len(recent) = Len(signatures) + 1 /\ Len(signatures) \in Nat
      /\ \A i \in 1 .. Len(signatures) + 1 : recent[i] = c
  OBVIOUS
<1>2. Threshold \in Nat \ {0}
  BY BudgetNumbers
<1> HIDE DEF recent
<1>3. StalledOn(c) <=> /\ Len(recent) >= Threshold
                       /\ \A i \in Len(recent) - Threshold + 1 .. Len(recent) : recent[i] = c
  BY DEF StalledOn, recent
<1> QED BY <1>1, <1>2, <1>3 DEF recent

LEMMA RepairKeepsLoop ==
  ASSUME IInv, LoopInv, NEW w \in Waves, NEW c \in Claims, Repair(w, c)
  PROVE  LoopInv'
<1> DEFINE new == [wave |-> w, claim |-> c, evidence |-> Bound(w, c), index |-> iteration + 2]
<1>1. /\ loop[w] = "running" /\ Stops(w) = "none" /\ c \in Affected(w)
      /\ packages' = packages \cup {new}
      /\ repairs' = repairs + 1 /\ iteration' = iteration + 1
      /\ RecordSignature(c)
      /\ UNCHANGED <<waveVars, bounds, commands, expired, decision>>
  BY DEF Repair
<1>2. /\ loop'[w] = IF StalledOn(c) THEN "no_progress" ELSE "running"
      /\ DOMAIN loop' = Waves /\ \A v \in Waves : v # w => loop'[v] = loop[v]
  BY <1>1 DEF Repair, LoopInv, LoopTypes
<1>3. decision[w] # NoDecision /\ \A v \in Waves : v > w => loop[v] = "none" /\ state[v] = "idle"
  BY <1>1 DEF LoopInv, LoopOrder, IInv, Returned
<1>4. /\ Cardinality(Mine(w)) = iteration /\ repairs = iteration /\ iteration < Threshold
      /\ Len(signatures) = iteration
      /\ \A i \in 1 .. Len(signatures) : signatures[i] = c
  BY <1>1, <1>3, OneAffected DEF LoopInv, Counted
<1>5. iteration \in Nat /\ BoundsTypeOK /\ signatures \in Seq(Claims)
  BY DEF LoopInv, LoopTypes, BoundsTypeOK
<1>6. iteration < bounds.max_iterations /\ repairs < bounds.max_repair_attempts
  BY <1>1, <1>4, <1>5, BudgetNumbers DEF Stops, Exhausted
<1>7. Bound(w, c) # {}
  <2>1. \A d \in Affected(w) : d = c
    BY <1>1, <1>3, OneAffected DEF LoopInv
  <2>2. Affected(w) # {} /\ ~(iteration >= bounds.max_iterations) /\ ~Exhausted
    BY <1>1, <1>5, <1>6, BudgetNumbers DEF Stops
  <2>3. ~(\A d \in Affected(w) : Bound(w, d) = {})
    <3> DEFINE idle == \A d \in Affected(w) : Bound(w, d) = {}
    <3>1. Stops(w) = CASE iteration >= bounds.max_iterations -> "range"
                       [] iteration < bounds.max_iterations /\ Exhausted -> "exhausted"
                       [] ~Exhausted /\ Affected(w) = {} -> "nothing"
                       [] ~Exhausted /\ Affected(w) # {} /\ idle -> "no_evidence"
                       [] OTHER -> "none"
      BY DEF Stops
    <3> HIDE DEF idle
    <3>2. ~idle
      BY <3>1, <2>2, <1>1
    <3> QED BY <3>2 DEF idle
  <2> QED BY <2>1, <2>3
<1>8. \A v \in Waves : Affected(v)' = Affected(v)
  BY <1>1 DEF Affected
<1>9. Mine(w)' = Mine(w) \cup {new} /\ \A v \in Waves : v # w => Mine(v)' = Mine(v)
  BY <1>1 DEF Mine
<1>10. new \notin Mine(w)
  <2>1. \A p \in Mine(w) : p.index # iteration + 2
    BY <1>4, <1>5 DEF LoopInv, Packed
  <2> QED BY <2>1
<1>11. IsFiniteSet(Mine(w)') /\ Cardinality(Mine(w)') = iteration + 1
  <2>1. IsFiniteSet(Mine(w))
    BY DEF LoopInv, Packed
  <2> HIDE DEF new
  <2>2. /\ IsFiniteSet(Mine(w) \cup {new})
        /\ Cardinality(Mine(w) \cup {new}) = Cardinality(Mine(w)) + 1
    BY <1>10, <2>1, FS_AddElement
  <2> QED BY <1>4, <1>9, <2>2
<1>12. /\ \A i \in Int : i \in 2 .. iteration + 2 => \E p \in Mine(w)' : p.index = i
       /\ \A p \in Mine(w)' : p.index \in 2 .. iteration + 2
  <2>1. /\ \A i \in Int : i \in 2 .. iteration + 1 => \E p \in Mine(w) : p.index = i
        /\ \A p \in Mine(w) : p.index \in 2 .. iteration + 1
    BY <1>4 DEF LoopInv, Packed
  <2>2. new \in Mine(w)' /\ new.index = iteration + 2 /\ Mine(w) \subseteq Mine(w)'
    BY <1>9
  <2>3. \A i \in Int : i \in 2 .. iteration + 2 => i \in 2 .. iteration + 1 \/ i = iteration + 2
    BY <1>5
  <2>4. \A p \in Mine(w)' : p \in Mine(w) \/ p.index = iteration + 2
    BY <1>9, <2>2
  <2>5. \A i \in 2 .. iteration + 1 : i \in 2 .. iteration + 2
    BY <1>5
  <2>6. iteration + 2 \in 2 .. iteration + 2
    BY <1>5
  <2> HIDE DEF new
  <2> QED BY <2>1, <2>2, <2>3, <2>4, <2>5, <2>6
<1>13. LoopTypes'
  <2>1. signatures' \in Seq(Claims)
    BY <1>1, <1>5 DEF RecordSignature
  <2> QED BY <1>1, <1>2, <1>4, <1>5, <2>1 DEF LoopInv, LoopTypes, BoundsTypeOK
<1>14. LoopOrder'
  BY <1>1, <1>2, <1>3, <1>9 DEF LoopInv, LoopOrder, waveVars
<1>15. Packed'
  <2>1. ASSUME NEW v \in Waves, v # w
        PROVE  /\ IsFiniteSet(Mine(v)')
               /\ \A i \in Int : i \in 2 .. Cardinality(Mine(v)') + 1 =>
                    \E p \in Mine(v)' : p.index = i
               /\ \A p \in Mine(v)' :
                    /\ p.index \in 2 .. Cardinality(Mine(v)') + 1
                    /\ p.evidence # {} /\ p.claim \in Affected(v)
                    /\ \A x \in p.evidence : \E r \in result[v].evidence : x = r.row
    BY <2>1, <1>9 DEF LoopInv, Packed
  <2>2. \A p \in Mine(w)' :
          /\ p.evidence # {} /\ p.claim \in Affected(w)
          /\ \A x \in p.evidence : \E r \in result[w].evidence : x = r.row
    <3>1. new.evidence = Bound(w, c) /\ new.claim = c
      OBVIOUS
    <3>2. \A x \in Bound(w, c) : \E r \in result[w].evidence : x = r.row
      BY DEF Bound
    <3> HIDE DEF new
    <3> QED BY <1>1, <1>7, <1>9, <3>1, <3>2 DEF LoopInv, Packed
  <2>3. result' = result
    BY <1>1 DEF waveVars
  <2>4. iteration + 1 + 1 = iteration + 2
    BY <1>5
  <2> QED BY <1>8, <1>11, <1>12, <2>1, <2>2, <2>3, <2>4 DEF Packed
<1>16. Counted'
  <2>1. \A v \in Waves : loop'[v] # "none" /\ (\A u \in Waves : u > v => loop'[u] = "none") => v = w
    BY <1>2, <1>3, WavesAssumption
  <2>2. Threshold' = Threshold /\ bounds' = bounds
    BY <1>1 DEF Threshold
  <2>3. /\ StalledOn(c) <=> iteration + 1 >= Threshold
        /\ ~StalledOn(c) =>
             /\ Len(signatures') = iteration + 1
             /\ \A i \in 1 .. Len(signatures') : signatures'[i] \in Affected(w)
    <3>1. ~StalledOn(c) => signatures' = Append(signatures, c)
      BY <1>1 DEF RecordSignature
    <3> QED BY <3>1, <1>1, <1>4, <1>5, StallsWhenFull
  <2>4. Threshold \in Nat
    BY <1>5, BudgetNumbers
  <2> QED BY <1>1, <1>2, <1>4, <1>5, <1>6, <1>8, <1>11, <2>1, <2>2, <2>3, <2>4, BudgetNumbers DEF Counted
<1> QED BY <1>13, <1>14, <1>15, <1>16 DEF LoopInv

LEMMA IdleKeepsLoop ==
  ASSUME LoopInv, UNCHANGED <<state, result, bounds, iteration, commands, repairs, signatures,
                              decision, loop, packages>>,
         expired' \in BOOLEAN
  PROVE  LoopInv'
<1>1. \A w \in Waves : Mine(w)' = Mine(w) /\ Affected(w)' = Affected(w)
  BY DEF Mine, Affected
<1>2. LoopTypes' /\ LoopOrder'
  BY <1>1 DEF LoopInv, LoopTypes, LoopOrder, BoundsTypeOK
<1>3. Packed'
  BY <1>1 DEF LoopInv, Packed
<1>4. Counted'
  BY <1>1 DEF LoopInv, Counted, Threshold
<1> QED BY <1>2, <1>3, <1>4 DEF LoopInv

\* A repair loop stays within the tightest of its bounds (run_repair_loop()), for every
\* budget, decision and number of waves.
THEOREM RepairsAreBounded == Spec => []RepairsBounded
<1>1. Init => LoopInv
  <2> SUFFICES ASSUME Init PROVE LoopInv
    OBVIOUS
  <2>1. LoopTypes
    <3>1. <<>> \in Seq(Claims)
      OBVIOUS
    <3>2. BoundsTypeOK /\ signatures = <<>>
      BY DEF Init, BoundsInit, BoundsTypeOK
    <3>3. decision = [w \in Waves |-> NoDecision] /\ loop = [w \in Waves |-> "none"]
      BY DEF Init
    <3> QED BY <3>1, <3>2, <3>3 DEF LoopTypes
  <2>2. \A w \in Waves : loop[w] = "none" /\ Mine(w) = {}
    BY DEF Init, Mine
  <2>3. LoopOrder /\ Counted
    BY <2>2 DEF LoopOrder, Counted
  <2>4. Packed
    <3>1. IsFiniteSet({}) /\ Cardinality({}) = 0
      BY FS_EmptySet
    <3>2. \A i \in Int : i \notin 2 .. 0 + 1
      OBVIOUS
    <3>3. \A w \in Waves : IsFiniteSet(Mine(w)) /\ Cardinality(Mine(w)) = 0
      BY <2>2, <3>1
    <3>4. \A w \in Waves : \A i \in Int : i \notin 2 .. Cardinality(Mine(w)) + 1
      BY <3>2, <3>3
    <3> QED BY <2>2, <3>3, <3>4 DEF Packed
  <2> QED BY <2>1, <2>3, <2>4 DEF LoopInv
<1>2. IInv /\ LoopInv /\ [Next]_vars => LoopInv'
  <2> SUFFICES ASSUME IInv, LoopInv, [Next]_vars PROVE LoopInv'
    OBVIOUS
  <2>1. CASE /\ \A w \in Waves : loop[w] # "running"
             /\ WaveNext
             /\ UNCHANGED <<boundsVars, decision, loop, packages>>
    BY <2>1, WaveKeepsLoop
  <2>2. CASE \E w \in Waves, request \in Requests : Decide(w, request)
    BY <2>2, DecideKeepsLoop
  <2>3. CASE \E w \in Waves, b \in Budgets : StartRepair(w, b)
    BY <2>3, StartKeepsLoop
  <2>4. CASE \E w \in Waves : RepairStep(w)
    BY <2>4, StopKeepsLoop, RepairKeepsLoop DEF RepairStep
  <2>5. CASE Expire
    BY <2>5, IdleKeepsLoop DEF Expire, waveVars
  <2>6. CASE UNCHANGED vars
    BY <2>6, IdleKeepsLoop DEF vars, waveVars, boundsVars, LoopInv, LoopTypes, BoundsTypeOK
  <2> QED BY <2>1, <2>2, <2>3, <2>4, <2>5, <2>6 DEF Next
<1>3. IInv /\ LoopInv => RepairsBounded
  <2> SUFFICES ASSUME IInv, LoopInv, NEW w \in Waves
               PROVE  /\ {p.index : p \in Mine(w)} = 2 .. Cardinality(Mine(w)) + 1
                      /\ loop[w] # "none" /\ (\A v \in Waves : v > w => loop[v] = "none") =>
                           Cardinality(Mine(w)) <=
                             Min2(Min2(bounds.max_iterations, bounds.max_repair_attempts),
                                  Threshold)
                      /\ \A p \in Mine(w) :
                           /\ p.evidence # {} /\ \A q \in Mine(w) : q.claim = p.claim
                           /\ p.evidence \subseteq {r.row : r \in Of(w)}
    BY DEF RepairsBounded, Mine
  <2>1. Mine(w) # {} => decision[w] # NoDecision /\ result[w].evidence = Of(w)
    BY DEF LoopInv, LoopOrder, IInv, Returned
  <2>2. \A p, q \in Mine(w) : q.claim = p.claim
    BY <2>1, OneAffected DEF LoopInv, Packed
  <2> QED BY <2>1, <2>2, BudgetNumbers DEF LoopInv, LoopTypes, Packed, Counted, Min2
<1> QED BY <1>1, <1>2, <1>3, AssessmentInvariant, PTL DEF Spec

=============================================================================

---------------------------- MODULE Verification ----------------------------
(***************************************************************************)
(* The verification wave (smorx_verification/runner.py): the modules of a  *)
(* wave run concurrently over one collector and one session, each emits    *)
(* its own evidence, and the first exception ends the wave for its caller  *)
(* but not for the other modules.                                          *)
(*                                                                         *)
(* A step of a module is one probe: the command it awaits, what it emits   *)
(* on the answer, and its return after the last one.  Waves follow each    *)
(* other on one session and one candidate tree.                            *)
(***************************************************************************)
EXTENDS Naturals, Sequences

CONSTANTS
  Waves,    \* calls of run_verification_wave(), in their order
  Claims,   \* the claims, in the order of their ids
  Configs,  \* what each wave may be run with
  Cases     \* the adversarial registry

ModuleTypes ==
  {"STATIC_ANALYSIS", "DIFFERENTIAL_EXECUTION", "HISTORICAL_GHOST_REPLAY",
   "METAMORPHIC_CHECK", "ADVERSARIAL_SCENARIO", "MUTATION_TEST"}

Ended == {"PASSED", "FAILED", "BLOCKED", "SKIPPED"}

\* claims are in the caller's order; candidate says whether the root is a directory with
\* python sources; probes counts the scenarios, checks and mutations of the settings, and
\* holes are the planted vulnerabilities.
Config ==
  [claims : Seq(Claims), modules : SUBSET ModuleTypes,
   candidate : {"sources", "bare", "missing"}, baseline : BOOLEAN,
   probes : [ModuleTypes -> Nat], holes : SUBSET Cases, actor : Nat]

ASSUME WavesAssumption == Waves \subseteq Nat \ {0}

ASSUME ClaimsAssumption == Claims \subseteq Nat /\ Cases \subseteq Nat

ASSUME ConfigsAssumption == Configs \in [Waves -> SUBSET Config]

VARIABLES
  config,   \* configuration by wave
  state,    \* of the caller of each wave: idle, running, returned, raised
  run,      \* of each module of each wave: its stage, its probes done, a probe failed
  altered,  \* by wave: a mutation has changed what the temp copy prints
  records,  \* the collectors' records
  rows,     \* the evidence table: the claim by content hash
  result    \* what a wave returned

waveVars == <<config, state, run, altered, records, rows, result>>

\* What the content hash covers; the stamp is the actor's run id, or a measured duration.
Content ==
  [module : ModuleTypes, probe : Nat, failing : BOOLEAN, high : BOOLEAN, stamp : Nat]

\* failing: the exit code is not 0; high: the severity is HIGH; eligible: of its row.
Record ==
  [wave : Waves, module : ModuleTypes, probe : Nat, claim : Claims, failing : BOOLEAN,
   high : BOOLEAN, eligible : BOOLEAN, row : Content]

NoConfig == [modules |-> {}]

NoResult == [state |-> "none"]

Result ==
  [state : {"COMPLETED", "BLOCKED", "INSUFFICIENT_EVIDENCE"}, evidence : SUBSET Record,
   modules : [ModuleTypes -> Ended \cup {"none", "ready", "working", "raised"}]]

Runs ==
  [stage : Ended \cup {"none", "ready", "working", "raised"}, probes : Nat, failed : BOOLEAN]

WaveTypeOK ==
  /\ config \in [Waves -> Config \cup {NoConfig}]
  /\ state \in [Waves -> {"idle", "running", "returned", "raised"}]
  /\ run \in [Waves -> [ModuleTypes -> Runs]]
  /\ altered \in [Waves -> BOOLEAN]
  /\ records \subseteq Record
  /\ DOMAIN rows \subseteq Content /\ rows \in [DOMAIN rows -> Claims]
  /\ result \in [Waves -> Result \cup {NoResult}]

WaveInit ==
  /\ config = [w \in Waves |-> NoConfig]
  /\ state = [w \in Waves |-> "idle"]
  /\ run = [w \in Waves |->
              [m \in ModuleTypes |-> [stage |-> "none", probes |-> 0, failed |-> FALSE]]]
  /\ altered = [w \in Waves |-> FALSE]
  /\ records = {}
  /\ rows = [x \in {} |-> 0]
  /\ result = [w \in Waves |-> NoResult]

-----------------------------------------------------------------------------
(* The modules *)

\* Early returns: there is nothing to act on.
Blocks(m, c) ==
  \/ m = "STATIC_ANALYSIS" /\ c.claims # <<>> /\ c.candidate = "missing"
  \/ m = "DIFFERENTIAL_EXECUTION" /\ ~c.baseline
  \/ m = "DIFFERENTIAL_EXECUTION" /\ c.claims # <<>> /\ c.candidate = "missing"

Skips(m, c) ==
  \/ c.claims = <<>>
  \/ m = "STATIC_ANALYSIS" /\ c.candidate = "bare"
  \/ m \in {"HISTORICAL_GHOST_REPLAY", "METAMORPHIC_CHECK"} /\ c.probes[m] = 0

\* Probes of a module; the adversarial suite is one step, as it awaits nothing, and
\* differential execution has a default probe.
Steps(m, c) ==
  CASE m \in {"STATIC_ANALYSIS", "ADVERSARIAL_SCENARIO"} -> 1
    [] m = "DIFFERENTIAL_EXECUTION" /\ c.probes[m] = 0 -> 1
    [] OTHER -> c.probes[m]

Entry(w, m, p, failing, high, eligible, stamp) ==
  [wave |-> w, module |-> m, probe |-> p, claim |-> config[w].claims[1],
   failing |-> failing, high |-> high, eligible |-> eligible,
   row |-> [module |-> m, probe |-> p, failing |-> failing, high |-> high,
            stamp |-> stamp]]

\* record_evidence(): a known hash is the row there is, with the claim it has.
Stored(emitted) ==
  LET new == {r.row : r \in emitted} \ DOMAIN rows
  IN [x \in DOMAIN rows \cup new |->
        IF x \in DOMAIN rows THEN rows[x] ELSE (CHOOSE r \in emitted : r.row = x).claim]

-----------------------------------------------------------------------------
(* Actions *)

\* The caller awaits one wave at a time; gather() schedules its modules.
StartWave(w, c) ==
  /\ state[w] = "idle"
  /\ \A v \in Waves : state[v] # "running" /\ (v < w => state[v] # "idle")
  /\ config' = [config EXCEPT ![w] = c]
  /\ state' = [state EXCEPT ![w] = "running"]
  /\ run' = [run EXCEPT ![w] =
               [m \in ModuleTypes |->
                  IF m \in c.modules THEN [@[m] EXCEPT !.stage = "ready"] ELSE @[m]]]
  /\ UNCHANGED <<altered, records, rows, result>>

FirstStage(m, c) ==
  IF Blocks(m, c) THEN "BLOCKED"
  ELSE IF Skips(m, c) THEN "SKIPPED"
  ELSE IF Steps(m, c) = 0 THEN "PASSED" ELSE "working"

\* A module begins: it returns early, has nothing to probe, or goes to its first probe.
Begin(w, m) ==
  /\ run[w][m].stage = "ready"
  /\ run' = [run EXCEPT ![w][m].stage = FirstStage(m, config[w])]
  /\ UNCHANGED <<config, state, altered, records, rows, result>>

\* Faulty variant: a probe that fails is repeated until it does not.
ReportRepeated(w, m, emitted, fails) ==
  LET p == run[w][m].probes + 1
  IN /\ run[w][m].stage = "working"
     /\ records' = records \cup emitted
     /\ rows' = Stored(emitted)
     /\ run' = IF fails THEN run
               ELSE [run EXCEPT ![w][m].stage = IF p < Steps(m, config[w]) THEN "working"
                                                ELSE "PASSED",
                                ![w][m].probes = p]
     /\ UNCHANGED <<config, state, result>>

\* A probe is over: what the module emits for it, and its status after the last one.
Report(w, m, emitted, fails) ==
  LET p == run[w][m].probes + 1
      failed == run[w][m].failed \/ fails
  IN /\ run[w][m].stage = "working"
     /\ records' = records \cup emitted
     /\ rows' = Stored(emitted)
     /\ run' = [run EXCEPT ![w][m] =
                  [stage |-> IF p < Steps(m, config[w]) THEN "working"
                             ELSE IF failed THEN "FAILED" ELSE "PASSED",
                   probes |-> p, failed |-> failed]]
     /\ UNCHANGED <<config, state, result>>

\* Faulty variant: the scan for banned tokens reports without a severity.
StaticEmitsInfo(w, broken, banned) ==
  {Entry(w, "STATIC_ANALYSIS", 1, broken, broken, TRUE, 0)}
  \cup IF banned THEN {Entry(w, "STATIC_ANALYSIS", 2, FALSE, FALSE, FALSE, 0)} ELSE {}

\* The compile check, and the scan's record, which has no exit code of its own and so is
\* not eligible.
StaticEmits(w, broken, banned) ==
  {Entry(w, "STATIC_ANALYSIS", 1, broken, broken, TRUE, 0)}
  \cup IF banned THEN {Entry(w, "STATIC_ANALYSIS", 2, FALSE, TRUE, FALSE, 0)} ELSE {}

\* run_static_analysis(): the sources do not compile, or hold a banned token.
Analyse(w, broken, banned) ==
  /\ Report(w, "STATIC_ANALYSIS", StaticEmits(w, broken, banned), broken \/ banned)
  /\ UNCHANGED altered

\* run_differential_execution(), run_historical_ghost_replay() and run_metamorphic_checks():
\* the command's exit code is not 0, and the oracle says no; a replay's content holds how
\* long it took.
Probe(w, m, failing, refuted, duration) ==
  /\ m \in {"DIFFERENTIAL_EXECUTION", "HISTORICAL_GHOST_REPLAY", "METAMORPHIC_CHECK"}
  /\ m # "HISTORICAL_GHOST_REPLAY" => duration = 0
  /\ Report(w, m, {Entry(w, m, run[w][m].probes + 1, failing, refuted, TRUE, duration)},
            refuted)
  /\ UNCHANGED altered

\* Faulty variant: the suite fails without saying which case did.
AttackQuietly(w) ==
  /\ Report(w, "ADVERSARIAL_SCENARIO",
            {Entry(w, "ADVERSARIAL_SCENARIO", i, FALSE, FALSE, TRUE, config[w].actor)
               : i \in Cases},
            config[w].holes \cap Cases # {})
  /\ UNCHANGED altered

\* run_adversarial_scenarios() awaits nothing between its cases.
Attack(w) ==
  /\ Report(w, "ADVERSARIAL_SCENARIO",
            {Entry(w, "ADVERSARIAL_SCENARIO", i, i \in config[w].holes, i \in config[w].holes,
                   TRUE, config[w].actor) : i \in Cases},
            config[w].holes \cap Cases # {})
  /\ UNCHANGED altered

\* run_mutation_testing(): mutations pile up in one copy, and one is killed when the copy
\* does not print what was expected; its target may be missing.  A survivor is emitted with
\* exit code 1, a killed one with its command's.
Mutate(w, mutation, failing) ==
  LET survives == mutation = "missing" \/ (mutation = "inert" /\ ~altered[w])
  IN /\ Report(w, "MUTATION_TEST",
               {Entry(w, "MUTATION_TEST", run[w]["MUTATION_TEST"].probes + 1,
                      survives \/ failing, survives, TRUE, config[w].actor)},
               survives)
     /\ altered' = [altered EXCEPT ![w] = @ \/ mutation = "alters"]

\* A command that cannot be launched, a missing tree to copy, a bad scenario, an error of
\* the database: the exception reaches the caller who still waits.
Raise(w, m) ==
  /\ run[w][m].stage \in {"ready", "working"}
  /\ run' = [run EXCEPT ![w][m].stage = "raised"]
  /\ state' = [state EXCEPT ![w] = IF @ = "running" THEN "raised" ELSE @]
  /\ UNCHANGED <<config, altered, records, rows, result>>

\* _overall_state()
Overall(w, emitted) ==
  CASE \E m \in config[w].modules : run[w][m].stage = "BLOCKED" -> "BLOCKED"
    [] emitted = {} /\ ~\E m \in config[w].modules : run[w][m].stage = "BLOCKED"
         -> "INSUFFICIENT_EVIDENCE"
    [] OTHER -> "COMPLETED"

Of(w) == {r \in records : r.wave = w}

\* Faulty variant: the first module that ends ends the wave.
ReturnEarly(w) ==
  /\ state[w] = "running"
  /\ config[w].modules # {} => \E m \in config[w].modules : run[w][m].stage \in Ended
  /\ state' = [state EXCEPT ![w] = "returned"]
  /\ result' = [result EXCEPT ![w] =
                  [state |-> Overall(w, Of(w)), evidence |-> Of(w),
                   modules |-> [m \in ModuleTypes |-> run[w][m].stage]]]
  /\ UNCHANGED <<config, run, altered, records, rows>>

\* gather() has every outcome.
Return(w) ==
  /\ state[w] = "running"
  /\ \A m \in config[w].modules : run[w][m].stage \in Ended
  /\ state' = [state EXCEPT ![w] = "returned"]
  /\ result' = [result EXCEPT ![w] =
                  [state |-> Overall(w, Of(w)), evidence |-> Of(w),
                   modules |-> [m \in ModuleTypes |-> run[w][m].stage]]]
  /\ UNCHANGED <<config, run, altered, records, rows>>

ModuleStep(w, m) ==
  \/ Begin(w, m)
  \/ m = "STATIC_ANALYSIS" /\ \E broken, banned \in BOOLEAN : Analyse(w, broken, banned)
  \/ m = "ADVERSARIAL_SCENARIO" /\ Attack(w)
  \/ m = "MUTATION_TEST" /\ \E mutation \in {"alters", "inert", "missing"},
                               failing \in BOOLEAN : Mutate(w, mutation, failing)
  \/ \E failing, refuted \in BOOLEAN, duration \in {0, w} :
       Probe(w, m, failing, refuted, duration)

WaveNext ==
  \/ \E w \in Waves : \E c \in Configs[w] : StartWave(w, c)
  \/ \E w \in Waves, m \in ModuleTypes : ModuleStep(w, m) \/ Raise(w, m)
  \/ \E w \in Waves : Return(w)

=============================================================================

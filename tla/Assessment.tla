----------------------------- MODULE Assessment -----------------------------
(***************************************************************************)
(* What follows a verification wave (smorx_delta): the delta of each       *)
(* claim, its alignment with the ledger, the decision, and the loop that   *)
(* packages repairs (run_repair_loop(), under LoopBounds).                 *)
(*                                                                         *)
(* Evidence of one wave with one id has one exit code and severity, so     *)
(* that _claim_evidence()'s last record of an id is any of them.           *)
(***************************************************************************)
EXTENDS Verification, LoopBounds, FiniteSets

CONSTANT Requests  \* what a caller may ask the decision about

\* The claims to compute deltas for, the two sets they are compared with, and the claims that
\* a requirement, constraint or criterion of the ledger mentions.
Request ==
  [deltas : SUBSET Claims, baseline : SUBSET Claims, candidates : SUBSET Claims,
   mentioned : SUBSET Claims]

ASSUME RequestsAssumption == Requests \subseteq Request

VARIABLES
  decision,  \* by wave: its request, its deltas and its code
  loop,      \* by wave: the stage of its repair loop, and why it ended
  packages   \* the repair packages, each with its new candidate

vars == <<waveVars, boundsVars, decision, loop, packages>>

NoDecision == [code |-> "none"]

Init ==
  /\ WaveInit
  /\ BoundsInit /\ bounds = CHOOSE b \in Budgets : TRUE  \* none is in use yet
  /\ decision = [w \in Waves |-> NoDecision]
  /\ loop = [w \in Waves |-> "none"]
  /\ packages = {}

-----------------------------------------------------------------------------
(* Fusion, deltas and the decision *)

\* _classify_signal(): a status of the collector's makes no difference to it.
Supports(r) == ~r.failing /\ ~r.high

\* fuse_claim_evidence() and classify_claim()
Verdict(E, c) ==
  LET of == {r \in E : r.claim = c}
      supporting == {r \in of : Supports(r)}
  IN CASE of = {} -> "INSUFFICIENT"
       [] of # {} /\ supporting = of -> "SUPPORTING"
       [] of # {} /\ supporting = {} -> "CONTRADICTING"
       [] OTHER -> "CONFLICTING"

Contradicted == {"CONTRADICTING", "CONFLICTING"}

\* Faulty variant: a claim nobody looked at has not changed.
ClassifyUnseen(E, c, request) ==
  CASE Verdict(E, c) \in Contradicted -> "ALTERED"
    [] Verdict(E, c) \notin Contradicted /\ c \in request.candidates \ request.baseline
         -> "ADDED"
    [] Verdict(E, c) \notin Contradicted /\ c \in request.baseline \ request.candidates
         -> "REMOVED"
    [] OTHER -> "UNCHANGED"

\* _classify_delta()
Classify(E, c, request) ==
  CASE Verdict(E, c) = "INSUFFICIENT" -> "UNEXPLAINED"
    [] Verdict(E, c) \in Contradicted -> "ALTERED"
    [] Verdict(E, c) = "SUPPORTING" /\ c \in request.candidates \ request.baseline -> "ADDED"
    [] Verdict(E, c) = "SUPPORTING" /\ c \in request.baseline \ request.candidates
         -> "REMOVED"
    [] OTHER -> "UNCHANGED"

\* _align_delta()
Alignment(class, c, request) ==
  CASE class = "UNCHANGED" -> "AUTHORIZED"
    [] class = "UNEXPLAINED" -> "UNEXPLAINED"
    [] OTHER -> IF c \in request.mentioned THEN "AUTHORIZED" ELSE "UNAUTHORIZED"

Unresolved(E, request) ==
  \E c \in request.deltas :
    Alignment(Classify(E, c, request), c, request) # "AUTHORIZED"

\* decide_certification()
Code(res, request) ==
  CASE res.state # "COMPLETED" -> "BLOCKED"
    [] res.state = "COMPLETED" /\ res.evidence = {} -> "INSUFFICIENT_EVIDENCE"
    [] /\ res.state = "COMPLETED" /\ res.evidence # {}
       /\ \/ \E c \in Claims : Verdict(res.evidence, c) \in Contradicted
          \/ \E m \in ModuleTypes : res.modules[m] = "FAILED"
          \/ Unresolved(res.evidence, request)
         -> "REPAIR_REQUIRED"
    [] OTHER -> IF \E m \in ModuleTypes : res.modules[m] = "BLOCKED" THEN "BLOCKED"
                ELSE "ELIGIBLE_TO_CONTINUE"

\* The caller of a wave that returned computes deltas, alignments and the decision, before it
\* starts another.
Decide(w, request) ==
  /\ state[w] = "returned"
  /\ \A v \in Waves : v > w => state[v] = "idle"
  /\ decision[w] = NoDecision
  /\ decision' = [decision EXCEPT ![w] =
       [code |-> Code(result[w], request), request |-> request,
        delta |-> [c \in request.deltas |-> Classify(result[w].evidence, c, request)]]]
  /\ UNCHANGED <<waveVars, boundsVars, loop, packages>>

-----------------------------------------------------------------------------
(* The repair loop *)

\* run_repair_loop() makes a controller of its own and awaits nothing before it returns, so
\* that only the clock is beside it.
StartRepair(w, b) ==
  /\ decision[w] # NoDecision
  /\ loop[w] = "none"
  /\ \A v \in Waves : v > w => state[v] = "idle"
  /\ loop' = [loop EXCEPT ![w] =
                IF decision[w].code = "REPAIR_REQUIRED" THEN "running"
                ELSE "no_repair"]
  /\ bounds' = b
  /\ iteration' = 0 /\ commands' = 0 /\ repairs' = 0
  /\ expired' = FALSE
  /\ signatures' = <<>>
  /\ UNCHANGED <<waveVars, decision, packages>>

\* _find_affected_claim(): each delta is PENDING as it was computed, so the first one is.
Affected(w) ==
  {c \in decision[w].request.deltas : \A d \in decision[w].request.deltas : c <= d}

\* _gather_evidence_ids()
Bound(w, c) == {r.row : r \in {q \in result[w].evidence : q.claim = c}}

\* Why an iteration ends the loop before it packages anything, in the order of the tests.
Stops(w) ==
  CASE iteration >= bounds.max_iterations -> "range"
    [] iteration < bounds.max_iterations /\ Exhausted -> "exhausted"
    [] ~Exhausted /\ Affected(w) = {} -> "nothing"
    [] ~Exhausted /\ Affected(w) # {} /\ \A c \in Affected(w) : Bound(w, c) = {}
         -> "no_evidence"
    [] OTHER -> "none"

StopRepair(w) ==
  /\ loop[w] = "running"
  /\ Stops(w) # "none"
  /\ loop' = [loop EXCEPT ![w] = Stops(w)]
  /\ UNCHANGED <<waveVars, boundsVars, decision, packages>>

\* Faulty variant: an iteration that is not counted.
RepairUncounted(w, c) ==
  /\ loop[w] = "running"
  /\ Stops(w) = "none"
  /\ c \in Affected(w)
  /\ packages' = packages \cup
       {[wave |-> w, claim |-> c, evidence |-> Bound(w, c), index |-> iteration + 2]}
  /\ UNCHANGED <<waveVars, boundsVars, decision, loop>>

\* The package and the candidate it proposes; what the signature covers never changes.
Repair(w, c) ==
  /\ loop[w] = "running"
  /\ Stops(w) = "none"
  /\ c \in Affected(w)
  /\ repairs' = repairs + 1
  /\ RecordSignature(c)
  /\ iteration' = iteration + 1
  /\ packages' = packages \cup
       {[wave |-> w, claim |-> c, evidence |-> Bound(w, c), index |-> iteration + 2]}
  /\ loop' = [loop EXCEPT ![w] = IF StalledOn(c) THEN "no_progress" ELSE @]
  /\ UNCHANGED <<waveVars, bounds, commands, expired, decision>>

\* max_runtime_seconds pass.
Expire ==
  /\ \E w \in Waves : loop[w] = "running"
  /\ ~expired
  /\ expired' = TRUE
  /\ UNCHANGED <<waveVars, bounds, iteration, commands, repairs, signatures, decision, loop,
                 packages>>

RepairStep(w) == StopRepair(w) \/ \E c \in Claims : Repair(w, c)

Next ==
  \/ /\ \A w \in Waves : loop[w] # "running"
     /\ WaveNext
     /\ UNCHANGED <<boundsVars, decision, loop, packages>>
  \/ \E w \in Waves, request \in Requests : Decide(w, request)
  \/ \E w \in Waves, b \in Budgets : StartRepair(w, b)
  \/ \E w \in Waves : RepairStep(w)
  \/ Expire

Spec == Init /\ [][Next]_vars

\* The loop awaits nothing once it has begun; a command is killed when its timeout expires,
\* and the event loop runs some module that is ready.
Fairness ==
  \A w \in Waves :
    /\ WF_vars((\E m \in ModuleTypes : ModuleStep(w, m))
               /\ UNCHANGED <<boundsVars, decision, loop, packages>>)
    /\ WF_vars(RepairStep(w))

FairSpec == Spec /\ Fairness

-----------------------------------------------------------------------------
(* Properties *)

\* What a wave returns is whole: every module of it has ended, no record of it is stored
\* later, and a module that passed or failed is there with all its probes.
ResultWhole ==
  \A w \in Waves : state[w] = "returned" =>
    /\ result[w].evidence = Of(w)
    /\ \A m \in config[w].modules :
         /\ run[w][m].stage \in Ended /\ result[w].modules[m] = run[w][m].stage
         /\ run[w][m].stage \in {"PASSED", "FAILED"} /\ m # "ADVERSARIAL_SCENARIO" =>
              \A p \in 1 .. Steps(m, config[w]) :
                \E r \in result[w].evidence : r.module = m /\ r.probe = p

\* A record that is not eligible never supports its claim, as _classify_signal() says of
\* itself, although the status it looks for is one the collector never gives.
IneligibleNeverSupports == \A r \in records : Supports(r) => r.eligible

\* A module that failed has left a record against its claim, whichever module it is: no claim
\* is SUPPORTING only because the module that refuted it kept silent.
FailureLeavesTrace ==
  \A w \in Waves, m \in ModuleTypes :
    run[w][m].failed \/ run[w][m].stage = "FAILED" =>
      \E r \in records : r.wave = w /\ r.module = m /\ ~Supports(r)

\* What the modules found is what the records say (fusion.py).
EvidenceSpeaks == IneligibleNeverSupports /\ FailureLeavesTrace

\* A candidate that may continue has earned it (decide_certification()): every module of its
\* wave has passed or had nothing to do, nothing stored by the wave speaks against any claim,
\* and each claim of the deltas has evidence and, where it changed, a ledger item.
EligibleIsEarned ==
  \A w \in Waves : decision[w].code = "ELIGIBLE_TO_CONTINUE" =>
    /\ \A m \in config[w].modules : run[w][m].stage \in {"PASSED", "SKIPPED"}
    /\ Of(w) # {}
    /\ \A r \in records : r.wave = w => Supports(r)
    /\ \A c \in decision[w].request.deltas :
         /\ \E r \in records : r.wave = w /\ r.claim = c
         /\ \/ decision[w].delta[c] = "UNCHANGED"
            \/ c \in decision[w].request.mentioned

Min2(a, b) == IF a < b THEN a ELSE b

\* A repair loop proposes at most as many candidates as the tightest of its three bounds,
\* indexed from 2 without a gap, all for one claim and none without evidence of the wave.
RepairsBounded ==
  \A w \in Waves :
    LET mine == {p \in packages : p.wave = w}
    IN /\ {p.index : p \in mine} = 2 .. Cardinality(mine) + 1
       /\ loop[w] # "none" /\ (\A v \in Waves : v > w => loop[v] = "none") =>
            Cardinality(mine) <= Min2(Min2(bounds.max_iterations, bounds.max_repair_attempts),
                                      Threshold)
       /\ \A p \in mine :
            /\ p.evidence # {} /\ \A q \in mine : q.claim = p.claim
            /\ p.evidence \subseteq {r.row : r \in Of(w)}

\* A repair loop ends, although its inputs never change between iterations.
RepairEnds == \A w \in Waves : loop[w] = "running" ~> loop[w] # "running"

\* Every module ends, those of a wave another module has failed included.
ModulesEnd ==
  \A w \in Waves :
    state[w] # "idle" ~> \A m \in config[w].modules : run[w][m].stage \in Ended \cup {"raised"}

\* Nothing of an assessment runs for ever: neither a module nor a repair loop.
AssessmentEnds == RepairEnds /\ ModulesEnd

\* repair_loop.py's reading of itself: a package is about a claim that evidence contradicts.
RepairsWhatFailed ==
  \A p \in packages : Verdict(result[p.wave].evidence, p.claim) \in Contradicted

\* The claim chain: the stored row of a returned record is found from the record's claim.
ChainTraversable ==
  \A w \in Waves : state[w] = "returned" =>
    \A r \in result[w].evidence : rows[r.row] = r.claim

=============================================================================

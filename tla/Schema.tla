------------------------------- MODULE Schema -------------------------------
(***************************************************************************)
(* The tables of the behavioral store and the rows of its demo scenario.   *)
(*                                                                         *)
(* A table is the targets of its foreign keys: owned (NOT NULL), linked     *)
(* (NULL allowed, and the target's model class has the reverse              *)
(* relationship, so that the ORM sets the column to NULL when the target is *)
(* deleted) and cited (NULL allowed, no reverse relationship).  Other       *)
(* columns carry data only.  The models and the migration are written twice *)
(* in the source and so twice here.                                         *)
(***************************************************************************)
EXTENDS Sequences, FiniteSets

Table(name, owned, linked, cited) ==
  [table |-> name, owned |-> owned, linked |-> linked, cited |-> cited]

---------------------------------------------------------------------------
(* models/entities.py *)

ProjectModels ==
  {Table("projects", {}, {}, {}),
   Table("repositories", {"projects"}, {}, {}),
   Table("changes", {"repositories"}, {}, {}),
   Table("tasks", {"projects"}, {"repositories", "changes"}, {})}

RunModels ==
  {Table("runs", {"tasks"}, {}, {}),
   Table("agent_runs", {"runs"}, {}, {}),
   Table("subagent_runs", {"agent_runs"}, {}, {})}

BehaviorModels ==
  {Table("behaviors", {"repositories"}, {}, {"changes"}),
   Table("invariants", {}, {"behaviors", "constitution_claims"}, {}),
   Table("incidents", {"repositories"}, {}, {"changes", "evidence"}),
   Table("dependencies", {"repositories"}, {}, {}),
   Table("risk_zones", {"repositories"}, {}, {}),
   Table("ghosts", {"repositories"}, {"behaviors"}, {"changes"})}

ProofModels ==
  {Table("evidence", {},
         {"tasks", "runs", "agent_runs", "subagent_runs", "executions", "claims", "verification_cases"},
         {}),
   Table("claims", {}, {"tasks"}, {}),
   Table("constitutions", {"projects"}, {}, {}),
   Table("constitution_claims", {"constitutions"}, {}, {})}

IntentModels ==
  {Table("intent_ledgers", {"projects"}, {}, {"tasks"}),
   Table("intent_items", {"intent_ledgers"}, {"tasks"}, {}),
   Table("semantic_impacts", {"tasks"}, {}, {"changes", "intent_items"}),
   Table("verification_plans", {"changes"}, {"tasks"}, {"intent_ledgers"}),
   Table("verification_cases", {"verification_plans"}, {}, {"changes"})}

CandidateModels ==
  {Table("candidate_patches", {"changes", "tasks"}, {"agent_runs"}, {}),
   Table("executions", {"runs"}, {"agent_runs", "changes", "candidate_patches", "verification_cases"},
         {}),
   Table("failures", {}, {"executions", "tasks", "runs", "candidate_patches"}, {"evidence"})}

OutcomeModels ==
  {Table("behavioral_deltas", {}, {"tasks", "changes", "claims", "behaviors", "certificates"},
         {"executions", "evidence"}),
   Table("intent_alignments", {"intent_items"}, {"tasks", "claims", "changes"}, {"evidence"}),
   Table("repair_packages", {}, {"failures", "tasks", "candidate_patches"}, {"evidence"}),
   Table("certificates", {}, {"tasks", "projects", "claims", "verification_plans", "intent_alignments"},
         {})}

TraceModels ==
  {Table("memory_updates", {"projects"}, {"certificates", "tasks"}, {"evidence"}),
   Table("consequential_events", {}, {"tasks", "runs"}, {})}

Models == ProjectModels \cup RunModels \cup BehaviorModels \cup ProofModels \cup IntentModels
            \cup CandidateModels \cup OutcomeModels \cup TraceModels

TableNames == {m.table : m \in Models}

TargetsOf(m) == m.owned \cup m.linked \cup m.cited

Targets == [t \in TableNames |-> UNION {TargetsOf(m) : m \in {m \in Models : m.table = t}}]

\* The targets whose model class has the reverse relationship.
Reversed == [t \in TableNames |-> UNION {m.owned \cup m.linked : m \in {m \in Models : m.table = t}}]

---------------------------------------------------------------------------
(* The initial migration: the order in which it creates the tables, each   *)
(* with the targets of its foreign keys.                                   *)

Created(name, targets) == [table |-> name, targets |-> targets]

UpgradeHistory ==
  <<Created("projects", {}),
    Created("constitutions", {"projects"}),
    Created("repositories", {"projects"}),
    Created("changes", {"repositories"})>>

UpgradeInsight ==
  <<Created("constitution_claims", {"constitutions"}),
    Created("dependencies", {"repositories"}),
    Created("risk_zones", {"repositories"}),
    Created("behaviors", {"changes", "repositories"})>>

UpgradeTasks ==
  <<Created("tasks", {"changes", "projects", "repositories"}),
    Created("claims", {"tasks"}),
    Created("ghosts", {"behaviors", "repositories", "changes"}),
    Created("intent_ledgers", {"projects", "tasks"})>>

UpgradeRuns ==
  <<Created("invariants", {"behaviors", "constitution_claims"}),
    Created("runs", {"tasks"}),
    Created("agent_runs", {"runs"}),
    Created("consequential_events", {"runs", "tasks"})>>

UpgradePlans ==
  <<Created("intent_items", {"intent_ledgers", "tasks"}),
    Created("verification_plans", {"changes", "intent_ledgers", "tasks"}),
    Created("candidate_patches", {"agent_runs", "changes", "tasks"})>>

UpgradeCases ==
  <<Created("semantic_impacts", {"changes", "intent_items", "tasks"}),
    Created("subagent_runs", {"agent_runs"}),
    Created("verification_cases", {"changes", "verification_plans"})>>

FailuresFirst ==
  <<Created("executions", {"agent_runs", "candidate_patches", "changes", "runs",
                           "verification_cases"}),
    Created("failures", {"candidate_patches", "evidence", "executions", "runs", "tasks"}),
    Created("evidence", {"agent_runs", "claims", "executions", "runs", "subagent_runs", "tasks",
                         "verification_cases"})>>

UpgradeEvidence ==
  <<Created("executions", {"agent_runs", "candidate_patches", "changes", "runs",
                           "verification_cases"}),
    Created("evidence", {"agent_runs", "claims", "executions", "runs", "subagent_runs", "tasks",
                         "verification_cases"}),
    Created("failures", {"candidate_patches", "evidence", "executions", "runs", "tasks"})>>

UpgradeAlignment ==
  <<Created("incidents", {"changes", "evidence", "repositories"}),
    Created("intent_alignments", {"changes", "claims", "evidence", "intent_items", "tasks"}),
    Created("certificates", {"claims", "intent_alignments", "projects", "tasks",
                             "verification_plans"})>>

UpgradeOutcome ==
  <<Created("repair_packages", {"candidate_patches", "evidence", "failures", "tasks"}),
    Created("behavioral_deltas", {"behaviors", "certificates", "changes", "claims", "evidence",
                                  "executions", "tasks"}),
    Created("memory_updates", {"certificates", "evidence", "projects", "tasks"})>>

Upgrade ==
  UpgradeHistory \o UpgradeInsight \o UpgradeTasks \o UpgradeRuns \o UpgradePlans
    \o UpgradeCases \o UpgradeEvidence \o UpgradeAlignment \o UpgradeOutcome

UpgradeOrder == [i \in DOMAIN Upgrade |-> Upgrade[i].table]

Downgrade ==
  <<"memory_updates", "behavioral_deltas", "repair_packages", "certificates",
    "intent_alignments", "incidents", "failures", "evidence", "executions",
    "verification_cases", "subagent_runs", "semantic_impacts", "candidate_patches",
    "verification_plans", "intent_items", "consequential_events", "agent_runs", "runs",
    "invariants", "intent_ledgers", "ghosts", "claims", "tasks", "behaviors", "risk_zones",
    "dependencies", "constitution_claims", "changes", "repositories", "constitutions",
    "projects">>

---------------------------------------------------------------------------
(* The rows build_seed makes, in its order, each with the rows it refers to. *)

\* A row has its name in a scope: the demo scenario, another task, or an injected failure.
Row(scope, name, table, refs) == [row |-> <<scope, name>>, table |-> table, refs |-> refs]

Demo(name) == <<"demo", name>>

Seeded(name, table, refs) == Row("demo", name, table, {Demo(r) : r \in refs})

SeedGovernance ==
  <<Seeded("project", "projects", {}),
    Seeded("repository", "repositories", {"project"}),
    Seeded("change", "changes", {"repository"}),
    Seeded("behavior", "behaviors", {"repository", "change"}),
    Seeded("task", "tasks", {"project", "repository", "change"}),
    Seeded("intent_ledger", "intent_ledgers", {"project", "task"}),
    Seeded("intent_item", "intent_items", {"intent_ledger", "task"})>>

SeedRuns ==
  <<Seeded("run", "runs", {"task"}),
    Seeded("agent_run", "agent_runs", {"run"}),
    Seeded("archaeology", "subagent_runs", {"agent_run"}),
    Seeded("verification", "subagent_runs", {"agent_run"}),
    Seeded("certification", "subagent_runs", {"agent_run"}),
    Seeded("ghost", "ghosts", {"repository", "behavior", "change"})>>

SeedContract ==
  <<Seeded("plan", "verification_plans", {"change", "task", "intent_ledger"}),
    Seeded("case_ghost", "verification_cases", {"plan", "change"}),
    Seeded("case_adversarial", "verification_cases", {"plan", "change"}),
    Seeded("case_static", "verification_cases", {"plan", "change"})>>

SeedCandidates ==
  <<Seeded("patch_1", "candidate_patches", {"change", "task", "agent_run"}),
    Seeded("patch_2", "candidate_patches", {"change", "task", "agent_run"}),
    Seeded("execution_1", "executions",
           {"run", "agent_run", "change", "patch_1", "case_adversarial"}),
    Seeded("execution_2", "executions", {"run", "agent_run", "change", "patch_2", "case_ghost"}),
    Seeded("claim", "claims", {"task"})>>

Recorded(name, others) == Seeded(name, "evidence", {"task", "run", "agent_run"} \cup others)

SeedEvidence ==
  <<Recorded("evidence_test", {"execution_2", "case_ghost", "claim"}),
    Recorded("evidence_failure", {"execution_1"}),
    Recorded("evidence_ghost", {"execution_2", "case_ghost", "claim"}),
    Recorded("evidence_adversarial", {"case_adversarial", "claim"}),
    Recorded("evidence_binding", {"claim"}),
    Recorded("evidence_decision", {})>>

SeedOutcome ==
  <<Seeded("failure", "failures", {"execution_1", "task", "run", "patch_1", "evidence_failure"}),
    Seeded("repair", "repair_packages", {"failure", "task", "patch_2", "evidence_decision"}),
    Seeded("delta", "behavioral_deltas",
           {"task", "change", "claim", "behavior", "execution_2", "evidence_test"}),
    Seeded("alignment", "intent_alignments",
           {"intent_item", "task", "claim", "change", "evidence_ghost"}),
    Seeded("certificate", "certificates", {"task", "project", "claim", "plan", "alignment"}),
    Seeded("memory", "memory_updates", {"project", "certificate", "task", "evidence_binding"})>>

SeedTrace ==
  <<Seeded("event_recorded", "consequential_events", {"task", "run"}),
    Seeded("event_certified", "consequential_events", {"task", "run"}),
    Seeded("event_memory", "consequential_events", {"task", "run"})>>

Seeds == SeedGovernance \o SeedRuns \o SeedContract \o SeedCandidates \o SeedEvidence
           \o SeedOutcome \o SeedTrace

=============================================================================

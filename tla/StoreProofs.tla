---------------------------- MODULE StoreProofs ----------------------------
(***************************************************************************)
(* Proofs about the behavioral store, for any number of processes, starts,  *)
(* migrations and resets and any set of failure classes injected.           *)
(*                                                                         *)
(* First what the schema and the rows are: the two descriptions of the      *)
(* tables agree, the migration's order respects the foreign keys, rows have *)
(* keys of their own and refer to earlier rows of the tables their own      *)
(* target.  Then what one write does to the rows, then the invariant.       *)
(***************************************************************************)
EXTENDS Store, TLAPS

\* The models declare these tables.
LEMMA TableNamesAre ==
  TableNames = {"projects", "repositories", "changes", "tasks", "runs", "agent_runs", "subagent_runs",
   "behaviors", "invariants", "incidents", "dependencies", "risk_zones", "ghosts", "evidence", "claims",
   "constitutions", "constitution_claims", "intent_ledgers", "intent_items", "semantic_impacts",
   "verification_plans", "verification_cases", "candidate_patches", "executions", "failures",
   "behavioral_deltas", "intent_alignments", "repair_packages", "certificates", "memory_updates",
   "consequential_events"}
BY DEF TableNames, Models, ProjectModels, RunModels, BehaviorModels, ProofModels, IntentModels,
   CandidateModels, OutcomeModels, TraceModels, Table

\* Where each part of the migration stands in it.
LEMMA MigrationParts ==
  /\ DOMAIN Upgrade = 1 .. 31 /\ DOMAIN Downgrade = 1 .. 31
  /\ \A i \in 1 .. 4 : Upgrade[i + 0] = UpgradeHistory[i]
  /\ \A i \in 1 .. 4 : Upgrade[i + 4] = UpgradeInsight[i]
  /\ \A i \in 1 .. 4 : Upgrade[i + 8] = UpgradeTasks[i]
  /\ \A i \in 1 .. 4 : Upgrade[i + 12] = UpgradeRuns[i]
  /\ \A i \in 1 .. 3 : Upgrade[i + 16] = UpgradePlans[i]
  /\ \A i \in 1 .. 3 : Upgrade[i + 19] = UpgradeCases[i]
  /\ \A i \in 1 .. 3 : Upgrade[i + 22] = UpgradeEvidence[i]
  /\ \A i \in 1 .. 3 : Upgrade[i + 25] = UpgradeAlignment[i]
  /\ \A i \in 1 .. 3 : Upgrade[i + 28] = UpgradeOutcome[i]
<1>1. DOMAIN Downgrade = 1 .. 31
  BY DEF Downgrade
<1>2. /\ DOMAIN Upgrade = 1 .. 31
      /\ \A i \in 1 .. 4 : Upgrade[i + 0] = UpgradeHistory[i]
      /\ \A i \in 1 .. 4 : Upgrade[i + 4] = UpgradeInsight[i]
      /\ \A i \in 1 .. 4 : Upgrade[i + 8] = UpgradeTasks[i]
      /\ \A i \in 1 .. 4 : Upgrade[i + 12] = UpgradeRuns[i]
      /\ \A i \in 1 .. 3 : Upgrade[i + 16] = UpgradePlans[i]
      /\ \A i \in 1 .. 3 : Upgrade[i + 19] = UpgradeCases[i]
      /\ \A i \in 1 .. 3 : Upgrade[i + 22] = UpgradeEvidence[i]
      /\ \A i \in 1 .. 3 : Upgrade[i + 25] = UpgradeAlignment[i]
      /\ \A i \in 1 .. 3 : Upgrade[i + 28] = UpgradeOutcome[i]
  BY DEF Upgrade, UpgradeHistory, UpgradeInsight, UpgradeTasks, UpgradeRuns, UpgradePlans,
     UpgradeCases, UpgradeEvidence, UpgradeAlignment, UpgradeOutcome
<1> QED BY ONLY <1>1, <1>2

\* The place of a table in the migration.
Rank ==
  [projects |-> 1, constitutions |-> 2, repositories |-> 3, changes |-> 4,
   constitution_claims |-> 5, dependencies |-> 6, risk_zones |-> 7, behaviors |-> 8,
   tasks |-> 9, claims |-> 10, ghosts |-> 11, intent_ledgers |-> 12, invariants |-> 13,
   runs |-> 14, agent_runs |-> 15, consequential_events |-> 16, intent_items |-> 17,
   verification_plans |-> 18, candidate_patches |-> 19, semantic_impacts |-> 20,
   subagent_runs |-> 21, verification_cases |-> 22, executions |-> 23, evidence |-> 24,
   failures |-> 25, incidents |-> 26, intent_alignments |-> 27, certificates |-> 28,
   repair_packages |-> 29, behavioral_deltas |-> 30, memory_updates |-> 31]

\* What the k-th statement u of the migration is.
Ordered(u, k) ==
  /\ u = Created(u.table, u.targets) /\ u.table \in TableNames
  /\ Rank[u.table] = k /\ Downgrade[32 - k] = u.table
  /\ \A t \in u.targets : t \in TableNames /\ Rank[t] < k

\* Each statement is such.
LEMMA EachStatement == \A i \in 1 .. 31 : Ordered(Upgrade[i], i)
<1>1. \A i \in 1 .. 4 : Ordered(UpgradeHistory[i], i + 0)
  BY SMTT(30), TableNamesAre DEF UpgradeHistory, Created, Ordered, Rank, Downgrade
<1>2. \A i \in 1 .. 4 : Ordered(UpgradeInsight[i], i + 4)
  BY SMTT(30), TableNamesAre DEF UpgradeInsight, Created, Ordered, Rank, Downgrade
<1>3. \A i \in 1 .. 4 : Ordered(UpgradeTasks[i], i + 8)
  BY SMTT(30), TableNamesAre DEF UpgradeTasks, Created, Ordered, Rank, Downgrade
<1>4. \A i \in 1 .. 4 : Ordered(UpgradeRuns[i], i + 12)
  BY SMTT(30), TableNamesAre DEF UpgradeRuns, Created, Ordered, Rank, Downgrade
<1>5. \A i \in 1 .. 3 : Ordered(UpgradePlans[i], i + 16)
  BY SMTT(30), TableNamesAre DEF UpgradePlans, Created, Ordered, Rank, Downgrade
<1>6. \A i \in 1 .. 3 : Ordered(UpgradeCases[i], i + 19)
  BY SMTT(30), TableNamesAre DEF UpgradeCases, Created, Ordered, Rank, Downgrade
<1>7. \A i \in 1 .. 3 : Ordered(UpgradeEvidence[i], i + 22)
  BY SMTT(30), TableNamesAre DEF UpgradeEvidence, Created, Ordered, Rank, Downgrade
<1>8. \A i \in 1 .. 3 : Ordered(UpgradeAlignment[i], i + 25)
  BY SMTT(30), TableNamesAre DEF UpgradeAlignment, Created, Ordered, Rank, Downgrade
<1>9. \A i \in 1 .. 3 : Ordered(UpgradeOutcome[i], i + 28)
  BY SMTT(30), TableNamesAre DEF UpgradeOutcome, Created, Ordered, Rank, Downgrade
<1> SUFFICES ASSUME NEW i \in 1 .. 31 PROVE Ordered(Upgrade[i], i)
  OBVIOUS
<1>11. CASE i \in 1 .. 4
  <2>1. i - 0 \in 1 .. 4 /\ (i - 0) + 0 = i
    BY <1>11
  <2> QED BY ONLY <2>1, <1>1, MigrationParts
<1>12. CASE i \in 5 .. 8
  <2>1. i - 4 \in 1 .. 4 /\ (i - 4) + 4 = i
    BY <1>12
  <2> QED BY ONLY <2>1, <1>2, MigrationParts
<1>13. CASE i \in 9 .. 12
  <2>1. i - 8 \in 1 .. 4 /\ (i - 8) + 8 = i
    BY <1>13
  <2> QED BY ONLY <2>1, <1>3, MigrationParts
<1>14. CASE i \in 13 .. 16
  <2>1. i - 12 \in 1 .. 4 /\ (i - 12) + 12 = i
    BY <1>14
  <2> QED BY ONLY <2>1, <1>4, MigrationParts
<1>15. CASE i \in 17 .. 19
  <2>1. i - 16 \in 1 .. 3 /\ (i - 16) + 16 = i
    BY <1>15
  <2> QED BY ONLY <2>1, <1>5, MigrationParts
<1>16. CASE i \in 20 .. 22
  <2>1. i - 19 \in 1 .. 3 /\ (i - 19) + 19 = i
    BY <1>16
  <2> QED BY ONLY <2>1, <1>6, MigrationParts
<1>17. CASE i \in 23 .. 25
  <2>1. i - 22 \in 1 .. 3 /\ (i - 22) + 22 = i
    BY <1>17
  <2> QED BY ONLY <2>1, <1>7, MigrationParts
<1>18. CASE i \in 26 .. 28
  <2>1. i - 25 \in 1 .. 3 /\ (i - 25) + 25 = i
    BY <1>18
  <2> QED BY ONLY <2>1, <1>8, MigrationParts
<1>19. CASE i \in 29 .. 31
  <2>1. i - 28 \in 1 .. 3 /\ (i - 28) + 28 = i
    BY <1>19
  <2> QED BY ONLY <2>1, <1>9, MigrationParts
<1> QED BY ONLY <1>11, <1>12, <1>13, <1>14, <1>15, <1>16, <1>17, <1>18, <1>19, i \in 1 .. 31
\* Its statements number 31, and so do the tables of either order.
LEMMA UpgradeSpan == DOMAIN Upgrade = 1 .. 31 /\ DOMAIN UpgradeOrder = 1 .. 31 /\ DOMAIN Downgrade = 1 .. 31
BY MigrationParts DEF UpgradeOrder

\* A statement of the migration is a table and the targets of its foreign keys.
LEMMA UpgradeIs ==
  \A i \in 1 .. 31 : UpgradeOrder[i] = Upgrade[i].table /\ Upgrade[i] = Created(UpgradeOrder[i], Upgrade[i].targets)
BY UpgradeSpan, EachStatement DEF UpgradeOrder, Ordered

\* The tables it creates are the models'.
LEMMA UpgradeTables == \A i \in 1 .. 31 : UpgradeOrder[i] \in TableNames
BY EachStatement, UpgradeIs DEF Ordered

\* It creates each table once.
LEMMA UpgradeOnce == \A i, j \in 1 .. 31 : UpgradeOrder[i] = UpgradeOrder[j] => i = j
<1> SUFFICES ASSUME NEW i \in 1 .. 31, NEW j \in 1 .. 31, UpgradeOrder[i] = UpgradeOrder[j] PROVE i = j
  OBVIOUS
<1>1. Rank[UpgradeOrder[i]] = i /\ Rank[UpgradeOrder[j]] = j
  BY EachStatement, UpgradeIs DEF Ordered
<1> QED BY <1>1

\* It drops the tables in the reverse order.
LEMMA UpgradeReversed == \A i \in 1 .. 31 : Downgrade[32 - i] = UpgradeOrder[i]
BY EachStatement, UpgradeIs DEF Ordered

\* The elements of a short sequence.
LEMMA Three == ASSUME NEW a, NEW b, NEW c PROVE ToSet(<<a, b, c>>) = {a, b, c}
BY DEF ToSet

LEMMA Four == ASSUME NEW a, NEW b, NEW c, NEW d PROVE ToSet(<<a, b, c, d>>) = {a, b, c, d}
BY DEF ToSet

\* Each statement of a part of the migration is a statement of the migration.
LEMMA Chunks ==
  ToSet(UpgradeHistory) \cup ToSet(UpgradeInsight) \cup ToSet(UpgradeTasks) \cup ToSet(UpgradeRuns)
    \cup ToSet(UpgradePlans) \cup ToSet(UpgradeCases) \cup ToSet(UpgradeEvidence)
    \cup ToSet(UpgradeAlignment) \cup ToSet(UpgradeOutcome) \subseteq {Upgrade[i] : i \in 1 .. 31}
<1>1. /\ DOMAIN UpgradeHistory = 1 .. 4 /\ DOMAIN UpgradeInsight = 1 .. 4 /\ DOMAIN UpgradeTasks = 1 .. 4
      /\ DOMAIN UpgradeRuns = 1 .. 4 /\ DOMAIN UpgradePlans = 1 .. 3 /\ DOMAIN UpgradeCases = 1 .. 3
      /\ DOMAIN UpgradeEvidence = 1 .. 3 /\ DOMAIN UpgradeAlignment = 1 .. 3 /\ DOMAIN UpgradeOutcome = 1 .. 3
  BY DEF UpgradeHistory, UpgradeInsight, UpgradeTasks, UpgradeRuns, UpgradePlans, UpgradeCases,
     UpgradeEvidence, UpgradeAlignment, UpgradeOutcome
<1>2. ToSet(UpgradeHistory) \subseteq {Upgrade[i] : i \in 1 .. 31}
  BY <1>1, MigrationParts DEF ToSet
<1>3. ToSet(UpgradeInsight) \subseteq {Upgrade[i] : i \in 1 .. 31}
  BY <1>1, MigrationParts DEF ToSet
<1>4. ToSet(UpgradeTasks) \subseteq {Upgrade[i] : i \in 1 .. 31}
  BY <1>1, MigrationParts DEF ToSet
<1>5. ToSet(UpgradeRuns) \subseteq {Upgrade[i] : i \in 1 .. 31}
  BY <1>1, MigrationParts DEF ToSet
<1>6. ToSet(UpgradePlans) \subseteq {Upgrade[i] : i \in 1 .. 31}
  BY <1>1, MigrationParts DEF ToSet
<1>7. ToSet(UpgradeCases) \subseteq {Upgrade[i] : i \in 1 .. 31}
  BY <1>1, MigrationParts DEF ToSet
<1>8. ToSet(UpgradeEvidence) \subseteq {Upgrade[i] : i \in 1 .. 31}
  BY <1>1, MigrationParts DEF ToSet
<1>9. ToSet(UpgradeAlignment) \subseteq {Upgrade[i] : i \in 1 .. 31}
  BY <1>1, MigrationParts DEF ToSet
<1>10. ToSet(UpgradeOutcome) \subseteq {Upgrade[i] : i \in 1 .. 31}
  BY <1>1, MigrationParts DEF ToSet
<1> QED BY <1>2, <1>3, <1>4, <1>5, <1>6, <1>7, <1>8, <1>9, <1>10

\* Each model has a statement that creates its table with its foreign keys.
LEMMA ModelsMigrated == \A m \in Models : Created(m.table, TargetsOf(m)) \in
  ToSet(UpgradeHistory) \cup ToSet(UpgradeInsight) \cup ToSet(UpgradeTasks) \cup ToSet(UpgradeRuns)
    \cup ToSet(UpgradePlans) \cup ToSet(UpgradeCases) \cup ToSet(UpgradeEvidence)
    \cup ToSet(UpgradeAlignment) \cup ToSet(UpgradeOutcome)
<1> USE Three, Four DEF TargetsOf, Table
<1>1. \A m \in ProjectModels : Created(m.table, TargetsOf(m)) \in ToSet(UpgradeHistory) \cup ToSet(UpgradeTasks)
  BY SMTT(30) DEF ProjectModels, UpgradeHistory, UpgradeTasks
<1>2. \A m \in RunModels : Created(m.table, TargetsOf(m)) \in ToSet(UpgradeRuns) \cup ToSet(UpgradeCases)
  BY SMTT(30) DEF RunModels, UpgradeRuns, UpgradeCases
<1>3. \A m \in BehaviorModels : Created(m.table, TargetsOf(m)) \in
         ToSet(UpgradeInsight) \cup ToSet(UpgradeTasks) \cup ToSet(UpgradeRuns) \cup ToSet(UpgradeAlignment)
  <2>1. \A m \in {Table("behaviors", {"repositories"}, {}, {"changes"}),
                  Table("dependencies", {"repositories"}, {}, {}),
                  Table("risk_zones", {"repositories"}, {}, {})} :
           Created(m.table, TargetsOf(m)) \in ToSet(UpgradeInsight)
    BY SMTT(30) DEF UpgradeInsight
  <2>2. \A m \in {Table("invariants", {}, {"behaviors", "constitution_claims"}, {})} :
           Created(m.table, TargetsOf(m)) \in ToSet(UpgradeRuns)
    BY SMTT(30) DEF UpgradeRuns
  <2>3. \A m \in {Table("incidents", {"repositories"}, {}, {"changes", "evidence"})} :
           Created(m.table, TargetsOf(m)) \in ToSet(UpgradeAlignment)
    BY SMTT(30) DEF UpgradeAlignment
  <2>4. \A m \in {Table("ghosts", {"repositories"}, {"behaviors"}, {"changes"})} :
           Created(m.table, TargetsOf(m)) \in ToSet(UpgradeTasks)
    BY SMTT(30) DEF UpgradeTasks
  <2> HIDE DEF TargetsOf, Table
  <2> QED BY ONLY <2>1, <2>2, <2>3, <2>4 DEF BehaviorModels
<1>4. \A m \in ProofModels : Created(m.table, TargetsOf(m)) \in
        ToSet(UpgradeHistory) \cup ToSet(UpgradeInsight) \cup ToSet(UpgradeTasks) \cup ToSet(UpgradeEvidence)
  <2> DEFINE columns == {"tasks", "runs", "agent_runs", "subagent_runs", "executions", "claims", "verification_cases"}
  <2>1. {} \cup columns \cup {} = {"agent_runs", "claims", "executions", "runs", "subagent_runs", "tasks", "verification_cases"}
    OBVIOUS
  <2>2. Created("evidence", {"agent_runs", "claims", "executions", "runs", "subagent_runs", "tasks", "verification_cases"})
          \in ToSet(UpgradeEvidence)
    BY DEF UpgradeEvidence, Created
  <2>3. \A m \in ProofModels \ {Table("evidence", {}, columns, {})} : Created(m.table, TargetsOf(m)) \in
        ToSet(UpgradeHistory) \cup ToSet(UpgradeInsight) \cup ToSet(UpgradeTasks)
    BY SMTT(30) DEF ProofModels, UpgradeHistory, UpgradeInsight, UpgradeTasks
  <2>4. ASSUME NEW m, m = Table("evidence", {}, columns, {})
        PROVE  Created(m.table, TargetsOf(m)) \in ToSet(UpgradeEvidence)
    <3>1. m.table = "evidence" /\ TargetsOf(m) = {} \cup columns \cup {}
      BY <2>4
    <3> HIDE DEF TargetsOf, columns
    <3> QED BY ONLY <3>1, <2>1, <2>2
  <2> QED BY <2>3, <2>4
<1>5. \A m \in IntentModels : Created(m.table, TargetsOf(m)) \in
        ToSet(UpgradeTasks) \cup ToSet(UpgradePlans) \cup ToSet(UpgradeCases)
  <2>1. \A m \in {Table("intent_ledgers", {"projects"}, {}, {"tasks"})} :
           Created(m.table, TargetsOf(m)) \in ToSet(UpgradeTasks)
    BY SMTT(30) DEF UpgradeTasks
  <2>2. \A m \in {Table("intent_items", {"intent_ledgers"}, {"tasks"}, {}),
                  Table("verification_plans", {"changes"}, {"tasks"}, {"intent_ledgers"})} :
           Created(m.table, TargetsOf(m)) \in ToSet(UpgradePlans)
    BY SMTT(30) DEF UpgradePlans
  <2>3. \A m \in {Table("semantic_impacts", {"tasks"}, {}, {"changes", "intent_items"}),
                  Table("verification_cases", {"verification_plans"}, {}, {"changes"})} :
           Created(m.table, TargetsOf(m)) \in ToSet(UpgradeCases)
    BY SMTT(30) DEF UpgradeCases
  <2> HIDE DEF TargetsOf, Table
  <2> QED BY ONLY <2>1, <2>2, <2>3 DEF IntentModels
<1>6. \A m \in CandidateModels : Created(m.table, TargetsOf(m)) \in ToSet(UpgradePlans) \cup ToSet(UpgradeEvidence)
  BY SMTT(30) DEF CandidateModels, UpgradePlans, UpgradeEvidence
<1>7. \A m \in OutcomeModels : Created(m.table, TargetsOf(m)) \in ToSet(UpgradeAlignment) \cup ToSet(UpgradeOutcome)
  BY SMTT(30) DEF OutcomeModels, UpgradeAlignment, UpgradeOutcome
<1>8. \A m \in TraceModels : Created(m.table, TargetsOf(m)) \in ToSet(UpgradeRuns) \cup ToSet(UpgradeOutcome)
  BY SMTT(30) DEF TraceModels, UpgradeRuns, UpgradeOutcome
<1> QED BY <1>1, <1>2, <1>3, <1>4, <1>5, <1>6, <1>7, <1>8 DEF Models

\* The migration creates every table of the models.
LEMMA UpgradeWhole == \A t \in TableNames : \E i \in 1 .. 31 : UpgradeOrder[i] = t
<1> SUFFICES ASSUME NEW m \in Models PROVE \E i \in 1 .. 31 : UpgradeOrder[i] = m.table
  BY DEF TableNames
<1>1. PICK i \in 1 .. 31 : Upgrade[i] = Created(m.table, TargetsOf(m))
  BY ModelsMigrated, Chunks
<1>2. Upgrade[i].table = m.table
  BY <1>1 DEF Created
<1> QED BY <1>2, UpgradeIs

\* It creates a table after the tables its foreign keys target.
LEMMA UpgradeClosed ==
  \A i \in 1 .. 31 : \A t \in Upgrade[i].targets : \E j \in 1 .. (i - 1) : UpgradeOrder[j] = t
<1> SUFFICES ASSUME NEW i \in 1 .. 31, NEW t \in Upgrade[i].targets
             PROVE  \E j \in 1 .. (i - 1) : UpgradeOrder[j] = t
  OBVIOUS
<1>1. t \in TableNames /\ Rank[t] < i
  BY EachStatement DEF Ordered
<1>2. PICK j \in 1 .. 31 : UpgradeOrder[j] = t
  BY <1>1, UpgradeWhole
<1>3. Rank[t] = j
  BY <1>2, EachStatement, UpgradeIs DEF Ordered
<1> QED BY <1>1, <1>2, <1>3

\* The i-th statement gives its table the targets its model has.
LEMMA TargetsMigrated ==
  \A i \in 1 .. 31 : /\ Targets[UpgradeOrder[i]] = Upgrade[i].targets
                     /\ \E m \in Models : Upgrade[i] = Created(m.table, TargetsOf(m))
<1> SUFFICES ASSUME NEW i \in 1 .. 31
             PROVE  /\ Targets[UpgradeOrder[i]] = Upgrade[i].targets
                    /\ \E m \in Models : Upgrade[i] = Created(m.table, TargetsOf(m))
  OBVIOUS
<1>1. UpgradeOrder[i] \in TableNames /\ Upgrade[i] = Created(UpgradeOrder[i], Upgrade[i].targets)
  BY UpgradeTables, UpgradeIs
<1>2. ASSUME NEW m \in Models, m.table = UpgradeOrder[i] PROVE TargetsOf(m) = Upgrade[i].targets
  <2>1. PICK j \in 1 .. 31 : Upgrade[j] = Created(m.table, TargetsOf(m))
    BY ModelsMigrated, Chunks
  <2>2. Upgrade[j].table = m.table /\ Upgrade[j].targets = TargetsOf(m)
    BY <2>1 DEF Created
  <2>3. UpgradeOrder[j] = UpgradeOrder[i]
    BY <1>2, <2>2, UpgradeIs
  <2>4. i = j
    BY <2>3, UpgradeOnce
  <2> QED BY <2>2, <2>4
<1>3. PICK m \in Models : m.table = UpgradeOrder[i]
  BY <1>1 DEF TableNames
<1>4. Targets[UpgradeOrder[i]] = Upgrade[i].targets
  <2> DEFINE these == {n \in Models : n.table = UpgradeOrder[i]}
  <2>1. Targets[UpgradeOrder[i]] = UNION {TargetsOf(n) : n \in these}
    BY <1>1 DEF Targets
  <2>2. m \in these /\ \A n \in these : TargetsOf(n) = Upgrade[i].targets
    BY <1>2, <1>3
  <2> HIDE DEF these
  <2> QED BY <2>1, <2>2
<1>5. Upgrade[i] = Created(m.table, TargetsOf(m))
  BY <1>1, <1>2, <1>3
<1> QED BY <1>4, <1>5

\* The migration creates exactly what the models declare.
LEMMA MigrationMatches == MigrationMatchesModels
<1>1. ToSet(Upgrade) = {Upgrade[i] : i \in 1 .. 31}
  BY UpgradeSpan DEF ToSet
<1>2. \A m \in Models : Created(m.table, TargetsOf(m)) \in ToSet(Upgrade)
  BY <1>1, ModelsMigrated, Chunks
<1>3. \A u \in ToSet(Upgrade) : \E m \in Models : u = Created(m.table, TargetsOf(m))
  BY <1>1, TargetsMigrated
<1> QED BY <1>2, <1>3 DEF MigrationMatchesModels

\* Either direction of the migration goes through all the tables.
LEMMA OrderIsWhole == ToSet(UpgradeOrder) = TableNames /\ ToSet(Downgrade) = TableNames
<1>1. ToSet(UpgradeOrder) = TableNames
  <2>1. ToSet(UpgradeOrder) = {UpgradeOrder[i] : i \in 1 .. 31}
    BY UpgradeSpan DEF ToSet
  <2>2. ToSet(UpgradeOrder) \subseteq TableNames
    BY <2>1, UpgradeTables
  <2>3. TableNames \subseteq ToSet(UpgradeOrder)
    BY UpgradeWhole, <2>1
  <2> QED BY <2>2, <2>3
<1>2. ToSet(Downgrade) = TableNames
  <2>1. ToSet(Downgrade) = {Downgrade[i] : i \in 1 .. 31}
    BY UpgradeSpan DEF ToSet
  <2>2. ASSUME NEW i \in 1 .. 31 PROVE Downgrade[i] \in TableNames
    <3>1. 32 - i \in 1 .. 31 /\ 32 - (32 - i) = i
      OBVIOUS
    <3>2. Downgrade[i] = UpgradeOrder[32 - i]
      BY <3>1, UpgradeReversed
    <3> QED BY <3>1, <3>2, UpgradeTables
  <2>3. ASSUME NEW t \in TableNames PROVE t \in ToSet(Downgrade)
    <3>1. PICK i \in 1 .. 31 : UpgradeOrder[i] = t
      BY UpgradeWhole
    <3>2. Downgrade[32 - i] = t /\ 32 - i \in 1 .. 31
      BY <3>1, UpgradeReversed
    <3> QED BY <2>1, <3>2
  <2>4. ToSet(Downgrade) \subseteq TableNames
    BY <2>1, <2>2
  <2> QED BY <2>3, <2>4
<1> QED BY <1>1, <1>2

\* The first table still to create, where no other is missing, has all its targets.
LEMMA CreatedInOrder ==
  ASSUME NEW S, NEW T, NEW t, TableNames \ T \subseteq S, IsFirst(t, S, UpgradeOrder)
  PROVE  t \in TableNames /\ Targets[t] \subseteq T /\ Targets[t] \subseteq TableNames
<1>1. PICK i \in 1 .. 31 : UpgradeOrder[i] = t /\ \A j \in 1 .. (i - 1) : UpgradeOrder[j] \notin S
  BY UpgradeSpan DEF IsFirst
<1>2. t \in TableNames /\ Targets[t] = Upgrade[i].targets
  BY <1>1, UpgradeTables, TargetsMigrated
<1>3. ASSUME NEW u \in Targets[t] PROVE u \in T /\ u \in TableNames
  <2>1. PICK j \in 1 .. (i - 1) : UpgradeOrder[j] = u
    BY <1>2, <1>3, UpgradeClosed
  <2>2. u \in TableNames
    <3>1. j \in 1 .. 31
      OBVIOUS
    <3> QED BY <2>1, <3>1, UpgradeTables
  <2> QED BY <1>1, <2>1, <2>2
<1> QED BY <1>2, <1>3

\* No table left targets the first table still to drop.
LEMMA DroppedInOrder ==
  ASSUME NEW S, NEW T \in SUBSET TableNames, NEW t, T \subseteq S, IsFirst(t, S, Downgrade)
  PROVE  \A u \in T : t \notin Targets[u]
<1>1. PICK i \in 1 .. 31 : Downgrade[i] = t /\ \A j \in 1 .. (i - 1) : Downgrade[j] \notin S
  BY UpgradeSpan DEF IsFirst
<1> SUFFICES ASSUME NEW u \in T, t \in Targets[u] PROVE FALSE
  OBVIOUS
<1>2. PICK k \in 1 .. 31 : UpgradeOrder[k] = u
  <2>1. u \in ToSet(UpgradeOrder)
    BY OrderIsWhole
  <2> QED BY <2>1, UpgradeSpan DEF ToSet
<1>3. PICK j \in 1 .. (k - 1) : UpgradeOrder[j] = t
  <2>1. t \in Upgrade[k].targets
    BY <1>2, TargetsMigrated
  <2> QED BY <2>1, UpgradeClosed
<1>4. j \in 1 .. 31 /\ 32 - i \in 1 .. 31 /\ 32 - (32 - i) = i
  OBVIOUS
<1>5. UpgradeOrder[32 - i] = t
  BY <1>1, <1>4, UpgradeReversed
<1>6. j = 32 - i
  BY <1>3, <1>4, <1>5, UpgradeOnce
<1>7. Downgrade[32 - k] = u
  BY <1>2, UpgradeReversed
<1>8. 32 - k \in 1 .. (i - 1)
  BY <1>6
<1> QED BY <1>1, <1>7, <1>8

\* What the reset relies on.
LEMMA ResetTargets ==
  \A t \in TableNames :
    /\ "consequential_events" \notin Targets[t]
    /\ "failures" \in Targets[t] => "failures" \in Reversed[t]
    /\ t \in ToSet(ResetOrder) /\ "executions" \in Targets[t] => "executions" \in Reversed[t]
    /\ t \in ToSet(ResetOrder) /\ "evidence" \in Targets[t] => t = "failures"
    /\ Reversed[t] \subseteq Targets[t]
<1>1. \A m \in Models : /\ "consequential_events" \notin TargetsOf(m)
                        /\ "failures" \notin m.cited
                        /\ "executions" \in m.cited => m.table = "behavioral_deltas"
                        /\ "evidence" \in TargetsOf(m) => m.table \notin {"consequential_events", "evidence", "executions"}
  BY DEF Models, ProjectModels, RunModels, BehaviorModels, ProofModels, IntentModels,
   CandidateModels, OutcomeModels, TraceModels, Table, TargetsOf
<1>2. ToSet(ResetOrder) = {"consequential_events", "failures", "evidence", "executions"}
  BY Four DEF ResetOrder
<1> SUFFICES ASSUME NEW t \in TableNames
             PROVE  /\ "consequential_events" \notin Targets[t]
                    /\ "failures" \in Targets[t] => "failures" \in Reversed[t]
                    /\ t \in ToSet(ResetOrder) /\ "executions" \in Targets[t] => "executions" \in Reversed[t]
                    /\ t \in ToSet(ResetOrder) /\ "evidence" \in Targets[t] => t = "failures"
                    /\ Reversed[t] \subseteq Targets[t]
  OBVIOUS
<1>3. Targets[t] = UNION {TargetsOf(m) : m \in {m \in Models : m.table = t}}
  BY DEF Targets
<1>4. Reversed[t] = UNION {m.owned \cup m.linked : m \in {m \in Models : m.table = t}}
  BY DEF Reversed
<1> QED BY <1>1, <1>2, <1>3, <1>4 DEF TargetsOf

-----------------------------------------------------------------------------
(* The rows of the scenario. *)

\* The targets of the tables that a run writes.
LEMMA RunTargets ==
  /\ Targets["tasks"] = {"changes", "projects", "repositories"}
  /\ Targets["runs"] = {"tasks"}
  /\ Targets["executions"] = {"agent_runs", "candidate_patches", "changes", "runs", "verification_cases"}
  /\ Targets["evidence"] = {"agent_runs", "claims", "executions", "runs", "subagent_runs", "tasks", "verification_cases"}
  /\ Targets["failures"] = {"candidate_patches", "evidence", "executions", "runs", "tasks"}
  /\ Targets["consequential_events"] = {"runs", "tasks"}
<1>1. ASSUME NEW i \in 1 .. 31, NEW name, NEW targets, Upgrade[i] = Created(name, targets)
      PROVE  Targets[name] = targets
  BY <1>1, TargetsMigrated, UpgradeIs DEF Created
<1>2. Targets["tasks"] = {"changes", "projects", "repositories"}
  <2>1. UpgradeTasks[1] = Upgrade[9]
    BY MigrationParts
  <2>2. Upgrade[9] = Created("tasks", {"changes", "projects", "repositories"})
    BY ONLY <2>1 DEF UpgradeTasks
  <2> QED BY ONLY <2>2, <1>1
<1>3. Targets["runs"] = {"tasks"}
  <2>1. UpgradeRuns[2] = Upgrade[14]
    BY MigrationParts
  <2>2. Upgrade[14] = Created("runs", {"tasks"})
    BY ONLY <2>1 DEF UpgradeRuns
  <2> QED BY ONLY <2>2, <1>1
<1>4. Targets["executions"] = {"agent_runs", "candidate_patches", "changes", "runs", "verification_cases"}
  <2>1. UpgradeEvidence[1] = Upgrade[23]
    BY MigrationParts
  <2>2. Upgrade[23] = Created("executions", {"agent_runs", "candidate_patches", "changes", "runs", "verification_cases"})
    BY ONLY <2>1 DEF UpgradeEvidence
  <2> QED BY ONLY <2>2, <1>1
<1>5. Targets["evidence"] = {"agent_runs", "claims", "executions", "runs", "subagent_runs", "tasks", "verification_cases"}
  <2>1. UpgradeEvidence[2] = Upgrade[24]
    BY MigrationParts
  <2>2. Upgrade[24] = Created("evidence", {"agent_runs", "claims", "executions", "runs", "subagent_runs", "tasks", "verification_cases"})
    BY ONLY <2>1 DEF UpgradeEvidence
  <2> QED BY ONLY <2>2, <1>1
<1>6. Targets["failures"] = {"candidate_patches", "evidence", "executions", "runs", "tasks"}
  <2>1. UpgradeEvidence[3] = Upgrade[25]
    BY MigrationParts
  <2>2. Upgrade[25] = Created("failures", {"candidate_patches", "evidence", "executions", "runs", "tasks"})
    BY ONLY <2>1 DEF UpgradeEvidence
  <2> QED BY ONLY <2>2, <1>1
<1>7. Targets["consequential_events"] = {"runs", "tasks"}
  <2>1. UpgradeRuns[4] = Upgrade[16]
    BY MigrationParts
  <2>2. Upgrade[16] = Created("consequential_events", {"runs", "tasks"})
    BY ONLY <2>1 DEF UpgradeRuns
  <2> QED BY ONLY <2>2, <1>1
<1> QED BY ONLY <1>2, <1>3, <1>4, <1>5, <1>6, <1>7

\* The targets of the tables of what was there before a run.
LEMMA HistoryTargets ==
  /\ Targets["repositories"] = {"projects"}
  /\ Targets["changes"] = {"repositories"}
  /\ Targets["behaviors"] = {"changes", "repositories"}
  /\ Targets["intent_ledgers"] = {"projects", "tasks"}
  /\ Targets["intent_items"] = {"intent_ledgers", "tasks"}
  /\ Targets["ghosts"] = {"behaviors", "repositories", "changes"}
<1>1. ASSUME NEW i \in 1 .. 31, NEW name, NEW targets, Upgrade[i] = Created(name, targets)
      PROVE  Targets[name] = targets
  BY <1>1, TargetsMigrated, UpgradeIs DEF Created
<1>2. Targets["repositories"] = {"projects"}
  <2>1. UpgradeHistory[3] = Upgrade[3]
    BY MigrationParts
  <2>2. Upgrade[3] = Created("repositories", {"projects"})
    BY ONLY <2>1 DEF UpgradeHistory
  <2> QED BY ONLY <2>2, <1>1
<1>3. Targets["changes"] = {"repositories"}
  <2>1. UpgradeHistory[4] = Upgrade[4]
    BY MigrationParts
  <2>2. Upgrade[4] = Created("changes", {"repositories"})
    BY ONLY <2>1 DEF UpgradeHistory
  <2> QED BY ONLY <2>2, <1>1
<1>4. Targets["behaviors"] = {"changes", "repositories"}
  <2>1. UpgradeInsight[4] = Upgrade[8]
    BY MigrationParts
  <2>2. Upgrade[8] = Created("behaviors", {"changes", "repositories"})
    BY ONLY <2>1 DEF UpgradeInsight
  <2> QED BY ONLY <2>2, <1>1
<1>5. Targets["intent_ledgers"] = {"projects", "tasks"}
  <2>1. UpgradeTasks[4] = Upgrade[12]
    BY MigrationParts
  <2>2. Upgrade[12] = Created("intent_ledgers", {"projects", "tasks"})
    BY ONLY <2>1 DEF UpgradeTasks
  <2> QED BY ONLY <2>2, <1>1
<1>6. Targets["intent_items"] = {"intent_ledgers", "tasks"}
  <2>1. UpgradePlans[1] = Upgrade[17]
    BY MigrationParts
  <2>2. Upgrade[17] = Created("intent_items", {"intent_ledgers", "tasks"})
    BY ONLY <2>1 DEF UpgradePlans
  <2> QED BY ONLY <2>2, <1>1
<1>7. Targets["ghosts"] = {"behaviors", "repositories", "changes"}
  <2>1. UpgradeTasks[3] = Upgrade[11]
    BY MigrationParts
  <2>2. Upgrade[11] = Created("ghosts", {"behaviors", "repositories", "changes"})
    BY ONLY <2>1 DEF UpgradeTasks
  <2> QED BY ONLY <2>2, <1>1
<1> QED BY ONLY <1>2, <1>3, <1>4, <1>5, <1>6, <1>7

\* The targets of the tables of a plan and of who works on it.
LEMMA ContractTargets ==
  /\ Targets["agent_runs"] = {"runs"}
  /\ Targets["subagent_runs"] = {"agent_runs"}
  /\ Targets["verification_plans"] = {"changes", "intent_ledgers", "tasks"}
  /\ Targets["verification_cases"] = {"changes", "verification_plans"}
  /\ Targets["candidate_patches"] = {"agent_runs", "changes", "tasks"}
  /\ Targets["claims"] = {"tasks"}
<1>1. ASSUME NEW i \in 1 .. 31, NEW name, NEW targets, Upgrade[i] = Created(name, targets)
      PROVE  Targets[name] = targets
  BY <1>1, TargetsMigrated, UpgradeIs DEF Created
<1>2. Targets["agent_runs"] = {"runs"}
  <2>1. UpgradeRuns[3] = Upgrade[15]
    BY MigrationParts
  <2>2. Upgrade[15] = Created("agent_runs", {"runs"})
    BY ONLY <2>1 DEF UpgradeRuns
  <2> QED BY ONLY <2>2, <1>1
<1>3. Targets["subagent_runs"] = {"agent_runs"}
  <2>1. UpgradeCases[2] = Upgrade[21]
    BY MigrationParts
  <2>2. Upgrade[21] = Created("subagent_runs", {"agent_runs"})
    BY ONLY <2>1 DEF UpgradeCases
  <2> QED BY ONLY <2>2, <1>1
<1>4. Targets["verification_plans"] = {"changes", "intent_ledgers", "tasks"}
  <2>1. UpgradePlans[2] = Upgrade[18]
    BY MigrationParts
  <2>2. Upgrade[18] = Created("verification_plans", {"changes", "intent_ledgers", "tasks"})
    BY ONLY <2>1 DEF UpgradePlans
  <2> QED BY ONLY <2>2, <1>1
<1>5. Targets["verification_cases"] = {"changes", "verification_plans"}
  <2>1. UpgradeCases[3] = Upgrade[22]
    BY MigrationParts
  <2>2. Upgrade[22] = Created("verification_cases", {"changes", "verification_plans"})
    BY ONLY <2>1 DEF UpgradeCases
  <2> QED BY ONLY <2>2, <1>1
<1>6. Targets["candidate_patches"] = {"agent_runs", "changes", "tasks"}
  <2>1. UpgradePlans[3] = Upgrade[19]
    BY MigrationParts
  <2>2. Upgrade[19] = Created("candidate_patches", {"agent_runs", "changes", "tasks"})
    BY ONLY <2>1 DEF UpgradePlans
  <2> QED BY ONLY <2>2, <1>1
<1>7. Targets["claims"] = {"tasks"}
  <2>1. UpgradeTasks[2] = Upgrade[10]
    BY MigrationParts
  <2>2. Upgrade[10] = Created("claims", {"tasks"})
    BY ONLY <2>1 DEF UpgradeTasks
  <2> QED BY ONLY <2>2, <1>1
<1> QED BY ONLY <1>2, <1>3, <1>4, <1>5, <1>6, <1>7

\* The targets of the tables of what a run comes to.
LEMMA OutcomeTargets ==
  /\ Targets["repair_packages"] = {"candidate_patches", "evidence", "failures", "tasks"}
  /\ Targets["behavioral_deltas"] = {"behaviors", "certificates", "changes", "claims", "evidence", "executions", "tasks"}
  /\ Targets["intent_alignments"] = {"changes", "claims", "evidence", "intent_items", "tasks"}
  /\ Targets["certificates"] = {"claims", "intent_alignments", "projects", "tasks", "verification_plans"}
  /\ Targets["memory_updates"] = {"certificates", "evidence", "projects", "tasks"}
<1>1. ASSUME NEW i \in 1 .. 31, NEW name, NEW targets, Upgrade[i] = Created(name, targets)
      PROVE  Targets[name] = targets
  BY <1>1, TargetsMigrated, UpgradeIs DEF Created
<1>2. Targets["repair_packages"] = {"candidate_patches", "evidence", "failures", "tasks"}
  <2>1. UpgradeOutcome[1] = Upgrade[29]
    BY MigrationParts
  <2>2. Upgrade[29] = Created("repair_packages", {"candidate_patches", "evidence", "failures", "tasks"})
    BY ONLY <2>1 DEF UpgradeOutcome
  <2> QED BY ONLY <2>2, <1>1
<1>3. Targets["behavioral_deltas"] = {"behaviors", "certificates", "changes", "claims", "evidence", "executions", "tasks"}
  <2>1. UpgradeOutcome[2] = Upgrade[30]
    BY MigrationParts
  <2>2. Upgrade[30] = Created("behavioral_deltas", {"behaviors", "certificates", "changes", "claims", "evidence", "executions", "tasks"})
    BY ONLY <2>1 DEF UpgradeOutcome
  <2> QED BY ONLY <2>2, <1>1
<1>4. Targets["intent_alignments"] = {"changes", "claims", "evidence", "intent_items", "tasks"}
  <2>1. UpgradeAlignment[2] = Upgrade[27]
    BY MigrationParts
  <2>2. Upgrade[27] = Created("intent_alignments", {"changes", "claims", "evidence", "intent_items", "tasks"})
    BY ONLY <2>1 DEF UpgradeAlignment
  <2> QED BY ONLY <2>2, <1>1
<1>5. Targets["certificates"] = {"claims", "intent_alignments", "projects", "tasks", "verification_plans"}
  <2>1. UpgradeAlignment[3] = Upgrade[28]
    BY MigrationParts
  <2>2. Upgrade[28] = Created("certificates", {"claims", "intent_alignments", "projects", "tasks", "verification_plans"})
    BY ONLY <2>1 DEF UpgradeAlignment
  <2> QED BY ONLY <2>2, <1>1
<1>6. Targets["memory_updates"] = {"certificates", "evidence", "projects", "tasks"}
  <2>1. UpgradeOutcome[3] = Upgrade[31]
    BY MigrationParts
  <2>2. Upgrade[31] = Created("memory_updates", {"certificates", "evidence", "projects", "tasks"})
    BY ONLY <2>1 DEF UpgradeOutcome
  <2> QED BY ONLY <2>2, <1>1
<1> QED BY ONLY <1>2, <1>3, <1>4, <1>5, <1>6

\* Where each part of the scenario stands in it.
LEMMA ScenarioParts ==
  /\ DOMAIN Seeds = 1 .. 37 /\ Len(Seeds) = 37
  /\ \A i \in 1 .. 7 : Seeds[i + 0] = SeedGovernance[i]
  /\ \A i \in 1 .. 6 : Seeds[i + 7] = SeedRuns[i]
  /\ \A i \in 1 .. 4 : Seeds[i + 13] = SeedContract[i]
  /\ \A i \in 1 .. 5 : Seeds[i + 17] = SeedCandidates[i]
  /\ \A i \in 1 .. 6 : Seeds[i + 22] = SeedEvidence[i]
  /\ \A i \in 1 .. 6 : Seeds[i + 28] = SeedOutcome[i]
  /\ \A i \in 1 .. 3 : Seeds[i + 34] = SeedTrace[i]
BY DEF Seeds, SeedGovernance, SeedRuns, SeedContract, SeedCandidates, SeedEvidence, SeedOutcome, SeedTrace

\* The place of a seed, by its name.
Place ==
  [project |-> 1, repository |-> 2, change |-> 3, behavior |-> 4, task |-> 5,
   intent_ledger |-> 6, intent_item |-> 7, run |-> 8, agent_run |-> 9, archaeology |-> 10,
   verification |-> 11, certification |-> 12, ghost |-> 13, plan |-> 14, case_ghost |-> 15,
   case_adversarial |-> 16, case_static |-> 17, patch_1 |-> 18, patch_2 |-> 19,
   execution_1 |-> 20, execution_2 |-> 21, claim |-> 22, evidence_test |-> 23,
   evidence_failure |-> 24, evidence_ghost |-> 25, evidence_adversarial |-> 26,
   evidence_binding |-> 27, evidence_decision |-> 28, failure |-> 29, repair |-> 30,
   delta |-> 31, alignment |-> 32, certificate |-> 33, memory |-> 34, event_recorded |-> 35,
   event_certified |-> 36, event_memory |-> 37]

\* What a seed is: its row, its table and the names of what it refers to.
SeedIs(i, name, table, refs) ==
  /\ Seeds[i].row = Demo(name) /\ Seeds[i].row[2] = name /\ Seeds[i].table = table
  /\ Seeds[i].refs = {Demo(n) : n \in refs}

\* A seed has its place, and refers to earlier rows of tables that its own targets.
Refers(i) ==
  \A m \in Seeds[i].refs :
     \E j \in 1 .. 37 : j < i /\ Seeds[j].row = m /\ Seeds[j].table \in Targets[Seeds[i].table]

Placed(i) ==
  /\ Seeds[i].row = Demo(Seeds[i].row[2]) /\ Seeds[i].row[2] # "reset_event"
  /\ Seeds[i].table \in TableNames /\ (Seeds[i].table = "failures" => i = 29)
  /\ Place[Seeds[i].row[2]] = i

\* Each seed is such.
LEMMA EachSeed == \A i \in 1 .. 37 : Placed(i) /\ Refers(i)
<1>0. ASSUME NEW i, NEW name, NEW table, NEW refs, Seeds[i] = Seeded(name, table, refs)
      PROVE  SeedIs(i, name, table, refs)
  BY <1>0 DEF SeedIs, Seeded, Row, Demo
<1>1. SeedIs(1, "project", "projects", {})
  <2>1. Seeds[1] = SeedGovernance[1]
    BY ScenarioParts
  <2> QED BY ONLY <2>1, <1>0 DEF SeedGovernance
<1>2. SeedIs(2, "repository", "repositories", {"project"})
  <2>1. Seeds[2] = SeedGovernance[2]
    BY ScenarioParts
  <2> QED BY ONLY <2>1, <1>0 DEF SeedGovernance
<1>3. SeedIs(3, "change", "changes", {"repository"})
  <2>1. Seeds[3] = SeedGovernance[3]
    BY ScenarioParts
  <2> QED BY ONLY <2>1, <1>0 DEF SeedGovernance
<1>4. SeedIs(4, "behavior", "behaviors", {"repository", "change"})
  <2>1. Seeds[4] = SeedGovernance[4]
    BY ScenarioParts
  <2> QED BY ONLY <2>1, <1>0 DEF SeedGovernance
<1>5. SeedIs(5, "task", "tasks", {"project", "repository", "change"})
  <2>1. Seeds[5] = SeedGovernance[5]
    BY ScenarioParts
  <2> QED BY ONLY <2>1, <1>0 DEF SeedGovernance
<1>6. SeedIs(6, "intent_ledger", "intent_ledgers", {"project", "task"})
  <2>1. Seeds[6] = SeedGovernance[6]
    BY ScenarioParts
  <2> QED BY ONLY <2>1, <1>0 DEF SeedGovernance
<1>7. SeedIs(7, "intent_item", "intent_items", {"intent_ledger", "task"})
  <2>1. Seeds[7] = SeedGovernance[7]
    BY ScenarioParts
  <2> QED BY ONLY <2>1, <1>0 DEF SeedGovernance
<1>8. SeedIs(8, "run", "runs", {"task"})
  <2>1. Seeds[8] = SeedRuns[1]
    BY ScenarioParts
  <2> QED BY ONLY <2>1, <1>0 DEF SeedRuns
<1>9. SeedIs(9, "agent_run", "agent_runs", {"run"})
  <2>1. Seeds[9] = SeedRuns[2]
    BY ScenarioParts
  <2> QED BY ONLY <2>1, <1>0 DEF SeedRuns
<1>10. SeedIs(10, "archaeology", "subagent_runs", {"agent_run"})
  <2>1. Seeds[10] = SeedRuns[3]
    BY ScenarioParts
  <2> QED BY ONLY <2>1, <1>0 DEF SeedRuns
<1>11. SeedIs(11, "verification", "subagent_runs", {"agent_run"})
  <2>1. Seeds[11] = SeedRuns[4]
    BY ScenarioParts
  <2> QED BY ONLY <2>1, <1>0 DEF SeedRuns
<1>12. SeedIs(12, "certification", "subagent_runs", {"agent_run"})
  <2>1. Seeds[12] = SeedRuns[5]
    BY ScenarioParts
  <2> QED BY ONLY <2>1, <1>0 DEF SeedRuns
<1>13. SeedIs(13, "ghost", "ghosts", {"repository", "behavior", "change"})
  <2>1. Seeds[13] = SeedRuns[6]
    BY ScenarioParts
  <2> QED BY ONLY <2>1, <1>0 DEF SeedRuns
<1>14. SeedIs(14, "plan", "verification_plans", {"change", "task", "intent_ledger"})
  <2>1. Seeds[14] = SeedContract[1]
    BY ScenarioParts
  <2> QED BY ONLY <2>1, <1>0 DEF SeedContract
<1>15. SeedIs(15, "case_ghost", "verification_cases", {"plan", "change"})
  <2>1. Seeds[15] = SeedContract[2]
    BY ScenarioParts
  <2> QED BY ONLY <2>1, <1>0 DEF SeedContract
<1>16. SeedIs(16, "case_adversarial", "verification_cases", {"plan", "change"})
  <2>1. Seeds[16] = SeedContract[3]
    BY ScenarioParts
  <2> QED BY ONLY <2>1, <1>0 DEF SeedContract
<1>17. SeedIs(17, "case_static", "verification_cases", {"plan", "change"})
  <2>1. Seeds[17] = SeedContract[4]
    BY ScenarioParts
  <2> QED BY ONLY <2>1, <1>0 DEF SeedContract
<1>18. SeedIs(18, "patch_1", "candidate_patches", {"change", "task", "agent_run"})
  <2>1. Seeds[18] = SeedCandidates[1]
    BY ScenarioParts
  <2> QED BY ONLY <2>1, <1>0 DEF SeedCandidates
<1>19. SeedIs(19, "patch_2", "candidate_patches", {"change", "task", "agent_run"})
  <2>1. Seeds[19] = SeedCandidates[2]
    BY ScenarioParts
  <2> QED BY ONLY <2>1, <1>0 DEF SeedCandidates
<1>20. SeedIs(20, "execution_1", "executions", {"run", "agent_run", "change", "patch_1", "case_adversarial"})
  <2>1. Seeds[20] = SeedCandidates[3]
    BY ScenarioParts
  <2> QED BY ONLY <2>1, <1>0 DEF SeedCandidates
<1>21. SeedIs(21, "execution_2", "executions", {"run", "agent_run", "change", "patch_2", "case_ghost"})
  <2>1. Seeds[21] = SeedCandidates[4]
    BY ScenarioParts
  <2> QED BY ONLY <2>1, <1>0 DEF SeedCandidates
<1>22. SeedIs(22, "claim", "claims", {"task"})
  <2>1. Seeds[22] = SeedCandidates[5]
    BY ScenarioParts
  <2> QED BY ONLY <2>1, <1>0 DEF SeedCandidates
<1>23. SeedIs(23, "evidence_test", "evidence", {"task", "run", "agent_run", "execution_2", "case_ghost", "claim"})
  <2>1. Seeds[23] = SeedEvidence[1]
    BY ScenarioParts
  <2> QED BY ONLY <2>1, <1>0 DEF SeedEvidence, Recorded
<1>24. SeedIs(24, "evidence_failure", "evidence", {"task", "run", "agent_run", "execution_1"})
  <2>1. Seeds[24] = SeedEvidence[2]
    BY ScenarioParts
  <2> QED BY ONLY <2>1, <1>0 DEF SeedEvidence, Recorded
<1>25. SeedIs(25, "evidence_ghost", "evidence", {"task", "run", "agent_run", "execution_2", "case_ghost", "claim"})
  <2>1. Seeds[25] = SeedEvidence[3]
    BY ScenarioParts
  <2> QED BY ONLY <2>1, <1>0 DEF SeedEvidence, Recorded
<1>26. SeedIs(26, "evidence_adversarial", "evidence", {"task", "run", "agent_run", "case_adversarial", "claim"})
  <2>1. Seeds[26] = SeedEvidence[4]
    BY ScenarioParts
  <2> QED BY ONLY <2>1, <1>0 DEF SeedEvidence, Recorded
<1>27. SeedIs(27, "evidence_binding", "evidence", {"task", "run", "agent_run", "claim"})
  <2>1. Seeds[27] = SeedEvidence[5]
    BY ScenarioParts
  <2> QED BY ONLY <2>1, <1>0 DEF SeedEvidence, Recorded
<1>28. SeedIs(28, "evidence_decision", "evidence", {"task", "run", "agent_run"})
  <2>1. Seeds[28] = SeedEvidence[6]
    BY ScenarioParts
  <2> QED BY ONLY <2>1, <1>0 DEF SeedEvidence, Recorded
<1>29. SeedIs(29, "failure", "failures", {"execution_1", "task", "run", "patch_1", "evidence_failure"})
  <2>1. Seeds[29] = SeedOutcome[1]
    BY ScenarioParts
  <2> QED BY ONLY <2>1, <1>0 DEF SeedOutcome
<1>30. SeedIs(30, "repair", "repair_packages", {"failure", "task", "patch_2", "evidence_decision"})
  <2>1. Seeds[30] = SeedOutcome[2]
    BY ScenarioParts
  <2> QED BY ONLY <2>1, <1>0 DEF SeedOutcome
<1>31. SeedIs(31, "delta", "behavioral_deltas", {"task", "change", "claim", "behavior", "execution_2", "evidence_test"})
  <2>1. Seeds[31] = SeedOutcome[3]
    BY ScenarioParts
  <2> QED BY ONLY <2>1, <1>0 DEF SeedOutcome
<1>32. SeedIs(32, "alignment", "intent_alignments", {"intent_item", "task", "claim", "change", "evidence_ghost"})
  <2>1. Seeds[32] = SeedOutcome[4]
    BY ScenarioParts
  <2> QED BY ONLY <2>1, <1>0 DEF SeedOutcome
<1>33. SeedIs(33, "certificate", "certificates", {"task", "project", "claim", "plan", "alignment"})
  <2>1. Seeds[33] = SeedOutcome[5]
    BY ScenarioParts
  <2> QED BY ONLY <2>1, <1>0 DEF SeedOutcome
<1>34. SeedIs(34, "memory", "memory_updates", {"project", "certificate", "task", "evidence_binding"})
  <2>1. Seeds[34] = SeedOutcome[6]
    BY ScenarioParts
  <2> QED BY ONLY <2>1, <1>0 DEF SeedOutcome
<1>35. SeedIs(35, "event_recorded", "consequential_events", {"task", "run"})
  <2>1. Seeds[35] = SeedTrace[1]
    BY ScenarioParts
  <2> QED BY ONLY <2>1, <1>0 DEF SeedTrace
<1>36. SeedIs(36, "event_certified", "consequential_events", {"task", "run"})
  <2>1. Seeds[36] = SeedTrace[2]
    BY ScenarioParts
  <2> QED BY ONLY <2>1, <1>0 DEF SeedTrace
<1>37. SeedIs(37, "event_memory", "consequential_events", {"task", "run"})
  <2>1. Seeds[37] = SeedTrace[3]
    BY ScenarioParts
  <2> QED BY ONLY <2>1, <1>0 DEF SeedTrace
<1>51. Refers(1)
  BY ONLY <1>1 DEF SeedIs, Refers
<1>52. Refers(2)
  BY ONLY <1>2, <1>1, HistoryTargets DEF SeedIs, Refers
<1>53. Refers(3)
  BY ONLY <1>3, <1>2, HistoryTargets DEF SeedIs, Refers
<1>54. Refers(4)
  BY ONLY <1>4, <1>2, <1>3, HistoryTargets DEF SeedIs, Refers
<1>55. Refers(5)
  BY ONLY <1>5, <1>1, <1>2, <1>3, RunTargets DEF SeedIs, Refers
<1>56. Refers(6)
  BY ONLY <1>6, <1>1, <1>5, HistoryTargets DEF SeedIs, Refers
<1>57. Refers(7)
  BY ONLY <1>7, <1>6, <1>5, HistoryTargets DEF SeedIs, Refers
<1>58. Refers(8)
  BY ONLY <1>8, <1>5, RunTargets DEF SeedIs, Refers
<1>59. Refers(9)
  BY ONLY <1>9, <1>8, ContractTargets DEF SeedIs, Refers
<1>60. Refers(10)
  BY ONLY <1>10, <1>9, ContractTargets DEF SeedIs, Refers
<1>61. Refers(11)
  BY ONLY <1>11, <1>9, ContractTargets DEF SeedIs, Refers
<1>62. Refers(12)
  BY ONLY <1>12, <1>9, ContractTargets DEF SeedIs, Refers
<1>63. Refers(13)
  BY ONLY <1>13, <1>2, <1>4, <1>3, HistoryTargets DEF SeedIs, Refers
<1>64. Refers(14)
  BY ONLY <1>14, <1>3, <1>5, <1>6, ContractTargets DEF SeedIs, Refers
<1>65. Refers(15)
  BY ONLY <1>15, <1>14, <1>3, ContractTargets DEF SeedIs, Refers
<1>66. Refers(16)
  BY ONLY <1>16, <1>14, <1>3, ContractTargets DEF SeedIs, Refers
<1>67. Refers(17)
  BY ONLY <1>17, <1>14, <1>3, ContractTargets DEF SeedIs, Refers
<1>68. Refers(18)
  BY ONLY <1>18, <1>3, <1>5, <1>9, ContractTargets DEF SeedIs, Refers
<1>69. Refers(19)
  BY ONLY <1>19, <1>3, <1>5, <1>9, ContractTargets DEF SeedIs, Refers
<1>70. Refers(20)
  BY ONLY <1>20, <1>8, <1>9, <1>3, <1>18, <1>16, RunTargets DEF SeedIs, Refers
<1>71. Refers(21)
  BY ONLY <1>21, <1>8, <1>9, <1>3, <1>19, <1>15, RunTargets DEF SeedIs, Refers
<1>72. Refers(22)
  BY ONLY <1>22, <1>5, ContractTargets DEF SeedIs, Refers
<1>73. Refers(23)
  BY ONLY <1>23, <1>5, <1>8, <1>9, <1>21, <1>15, <1>22, RunTargets DEF SeedIs, Refers
<1>74. Refers(24)
  BY ONLY <1>24, <1>5, <1>8, <1>9, <1>20, RunTargets DEF SeedIs, Refers
<1>75. Refers(25)
  BY ONLY <1>25, <1>5, <1>8, <1>9, <1>21, <1>15, <1>22, RunTargets DEF SeedIs, Refers
<1>76. Refers(26)
  BY ONLY <1>26, <1>5, <1>8, <1>9, <1>16, <1>22, RunTargets DEF SeedIs, Refers
<1>77. Refers(27)
  BY ONLY <1>27, <1>5, <1>8, <1>9, <1>22, RunTargets DEF SeedIs, Refers
<1>78. Refers(28)
  BY ONLY <1>28, <1>5, <1>8, <1>9, RunTargets DEF SeedIs, Refers
<1>79. Refers(29)
  BY ONLY <1>29, <1>20, <1>5, <1>8, <1>18, <1>24, RunTargets DEF SeedIs, Refers
<1>80. Refers(30)
  BY ONLY <1>30, <1>29, <1>5, <1>19, <1>28, OutcomeTargets DEF SeedIs, Refers
<1>81. Refers(31)
  BY ONLY <1>31, <1>5, <1>3, <1>22, <1>4, <1>21, <1>23, OutcomeTargets DEF SeedIs, Refers
<1>82. Refers(32)
  BY ONLY <1>32, <1>7, <1>5, <1>22, <1>3, <1>25, OutcomeTargets DEF SeedIs, Refers
<1>83. Refers(33)
  BY ONLY <1>33, <1>5, <1>1, <1>22, <1>14, <1>32, OutcomeTargets DEF SeedIs, Refers
<1>84. Refers(34)
  BY ONLY <1>34, <1>1, <1>33, <1>5, <1>27, OutcomeTargets DEF SeedIs, Refers
<1>85. Refers(35)
  BY ONLY <1>35, <1>5, <1>8, RunTargets DEF SeedIs, Refers
<1>86. Refers(36)
  BY ONLY <1>36, <1>5, <1>8, RunTargets DEF SeedIs, Refers
<1>87. Refers(37)
  BY ONLY <1>37, <1>5, <1>8, RunTargets DEF SeedIs, Refers
<1>101. Placed(1)
  BY ONLY <1>1, TableNamesAre DEF SeedIs, Placed, Place, Demo
<1>102. Placed(2)
  BY ONLY <1>2, TableNamesAre DEF SeedIs, Placed, Place, Demo
<1>103. Placed(3)
  BY ONLY <1>3, TableNamesAre DEF SeedIs, Placed, Place, Demo
<1>104. Placed(4)
  BY ONLY <1>4, TableNamesAre DEF SeedIs, Placed, Place, Demo
<1>105. Placed(5)
  BY ONLY <1>5, TableNamesAre DEF SeedIs, Placed, Place, Demo
<1>106. Placed(6)
  BY ONLY <1>6, TableNamesAre DEF SeedIs, Placed, Place, Demo
<1>107. Placed(7)
  BY ONLY <1>7, TableNamesAre DEF SeedIs, Placed, Place, Demo
<1>108. Placed(8)
  BY ONLY <1>8, TableNamesAre DEF SeedIs, Placed, Place, Demo
<1>109. Placed(9)
  BY ONLY <1>9, TableNamesAre DEF SeedIs, Placed, Place, Demo
<1>110. Placed(10)
  BY ONLY <1>10, TableNamesAre DEF SeedIs, Placed, Place, Demo
<1>111. Placed(11)
  BY ONLY <1>11, TableNamesAre DEF SeedIs, Placed, Place, Demo
<1>112. Placed(12)
  BY ONLY <1>12, TableNamesAre DEF SeedIs, Placed, Place, Demo
<1>113. Placed(13)
  BY ONLY <1>13, TableNamesAre DEF SeedIs, Placed, Place, Demo
<1>114. Placed(14)
  BY ONLY <1>14, TableNamesAre DEF SeedIs, Placed, Place, Demo
<1>115. Placed(15)
  BY ONLY <1>15, TableNamesAre DEF SeedIs, Placed, Place, Demo
<1>116. Placed(16)
  BY ONLY <1>16, TableNamesAre DEF SeedIs, Placed, Place, Demo
<1>117. Placed(17)
  BY ONLY <1>17, TableNamesAre DEF SeedIs, Placed, Place, Demo
<1>118. Placed(18)
  BY ONLY <1>18, TableNamesAre DEF SeedIs, Placed, Place, Demo
<1>119. Placed(19)
  BY ONLY <1>19, TableNamesAre DEF SeedIs, Placed, Place, Demo
<1>120. Placed(20)
  BY ONLY <1>20, TableNamesAre DEF SeedIs, Placed, Place, Demo
<1>121. Placed(21)
  BY ONLY <1>21, TableNamesAre DEF SeedIs, Placed, Place, Demo
<1>122. Placed(22)
  BY ONLY <1>22, TableNamesAre DEF SeedIs, Placed, Place, Demo
<1>123. Placed(23)
  BY ONLY <1>23, TableNamesAre DEF SeedIs, Placed, Place, Demo
<1>124. Placed(24)
  BY ONLY <1>24, TableNamesAre DEF SeedIs, Placed, Place, Demo
<1>125. Placed(25)
  BY ONLY <1>25, TableNamesAre DEF SeedIs, Placed, Place, Demo
<1>126. Placed(26)
  BY ONLY <1>26, TableNamesAre DEF SeedIs, Placed, Place, Demo
<1>127. Placed(27)
  BY ONLY <1>27, TableNamesAre DEF SeedIs, Placed, Place, Demo
<1>128. Placed(28)
  BY ONLY <1>28, TableNamesAre DEF SeedIs, Placed, Place, Demo
<1>129. Placed(29)
  BY ONLY <1>29, TableNamesAre DEF SeedIs, Placed, Place, Demo
<1>130. Placed(30)
  BY ONLY <1>30, TableNamesAre DEF SeedIs, Placed, Place, Demo
<1>131. Placed(31)
  BY ONLY <1>31, TableNamesAre DEF SeedIs, Placed, Place, Demo
<1>132. Placed(32)
  BY ONLY <1>32, TableNamesAre DEF SeedIs, Placed, Place, Demo
<1>133. Placed(33)
  BY ONLY <1>33, TableNamesAre DEF SeedIs, Placed, Place, Demo
<1>134. Placed(34)
  BY ONLY <1>34, TableNamesAre DEF SeedIs, Placed, Place, Demo
<1>135. Placed(35)
  BY ONLY <1>35, TableNamesAre DEF SeedIs, Placed, Place, Demo
<1>136. Placed(36)
  BY ONLY <1>36, TableNamesAre DEF SeedIs, Placed, Place, Demo
<1>137. Placed(37)
  BY ONLY <1>37, TableNamesAre DEF SeedIs, Placed, Place, Demo
<1>200. \A i \in 1 .. 37 : Refers(i)
  BY ONLY <1>51, <1>52, <1>53, <1>54, <1>55, <1>56, <1>57, <1>58, <1>59, <1>60, <1>61, <1>62, <1>63,
     <1>64, <1>65, <1>66, <1>67, <1>68, <1>69, <1>70, <1>71, <1>72, <1>73, <1>74, <1>75, <1>76, <1>77,
     <1>78, <1>79, <1>80, <1>81, <1>82, <1>83, <1>84, <1>85, <1>86, <1>87
<1>201. \A i \in 1 .. 37 : Placed(i)
  BY ONLY <1>101, <1>102, <1>103, <1>104, <1>105, <1>106, <1>107, <1>108, <1>109, <1>110, <1>111,
     <1>112, <1>113, <1>114, <1>115, <1>116, <1>117, <1>118, <1>119, <1>120, <1>121, <1>122, <1>123,
     <1>124, <1>125, <1>126, <1>127, <1>128, <1>129, <1>130, <1>131, <1>132, <1>133, <1>134, <1>135,
     <1>136, <1>137
<1> QED BY ONLY <1>200, <1>201

\* The seeds have names of their own, in the demo scope.
LEMMA SeedsAre ==
  /\ DOMAIN Seeds = 1 .. 37 /\ Len(Seeds) = 37
  /\ \A i \in 1 .. 37 : /\ Seeds[i].row = Demo(Seeds[i].row[2])
                        /\ Seeds[i].row[2] # "reset_event"
                        /\ Seeds[i].table \in TableNames
  /\ \A i, j \in 1 .. 37 : Seeds[i].row = Seeds[j].row => i = j
<1>1. ASSUME NEW i \in 1 .. 37, NEW j \in 1 .. 37, Seeds[i].row = Seeds[j].row PROVE i = j
  <2>1. Place[Seeds[i].row[2]] = i /\ Place[Seeds[j].row[2]] = j
    BY EachSeed DEF Placed
  <2> QED BY <1>1, <2>1
<1>2. \A i \in 1 .. 37 : /\ Seeds[i].row = Demo(Seeds[i].row[2])
                         /\ Seeds[i].row[2] # "reset_event"
                         /\ Seeds[i].table \in TableNames
  BY EachSeed DEF Placed
<1> QED BY <1>1, <1>2, ScenarioParts

\* What a seed refers to is a row seeded earlier, of a table its own targets.
LEMMA SeedRefs ==
  \A i \in 1 .. 37 : \A m \in Seeds[i].refs :
     \E j \in 1 .. (i - 1) : Seeds[j].row = m /\ Seeds[j].table \in Targets[Seeds[i].table]
<1> SUFFICES ASSUME NEW i \in 1 .. 37, NEW m \in Seeds[i].refs
             PROVE  \E j \in 1 .. (i - 1) : Seeds[j].row = m /\ Seeds[j].table \in Targets[Seeds[i].table]
  OBVIOUS
<1>1. PICK j \in 1 .. 37 : j < i /\ Seeds[j].row = m /\ Seeds[j].table \in Targets[Seeds[i].table]
  BY EachSeed DEF Refers
<1>2. j \in 1 .. (i - 1)
  BY <1>1
<1> QED BY <1>1, <1>2

-----------------------------------------------------------------------------
(* The rows of a workflow, injected and left by a reset. *)

InjectedTables == {"executions", "evidence", "failures", "consequential_events"}

\* The task and the run opened for a failure, and what they refer to.
LEMMA OpenedAre ==
  /\ \A r \in Opened : /\ r.row = <<"other", r.row[2]>> /\ r.row[2] # "reset_event"
                       /\ r.table \in {"tasks", "runs"}
                       /\ \A m \in r.refs : \/ m = Demo("project") /\ "projects" \in Targets[r.table]
                                            \/ \E s \in Opened : s.row = m /\ s.table \in Targets[r.table]
                       /\ Demo("run") \notin r.refs
  /\ \A r, s \in Opened : r.row = s.row => r = s
  /\ \E r \in Opened : r.row = <<"other", "task">> /\ r.table = "tasks"
  /\ \E r \in Opened : r.row = <<"other", "run">> /\ r.table = "runs" /\ r.refs = {<<"other", "task">>}
<1>1. \A r \in Opened : /\ r.row = <<"other", r.row[2]>> /\ r.row[2] # "reset_event"
                        /\ r.table \in {"tasks", "runs"}
                        /\ Demo("run") \notin r.refs
  BY DEF Opened, Row, Demo
<1>2. \A r \in Opened : \A m \in r.refs : \/ m = Demo("project") /\ "projects" \in Targets[r.table]
                                          \/ \E s \in Opened : s.row = m /\ s.table \in Targets[r.table]
  BY RunTargets DEF Opened, Row
<1>3. \A r, s \in Opened : r.row = s.row => r = s
  <2>1. \A r, s \in Opened : r.row[2] = s.row[2] => r = s
    BY DEF Opened, Row
  <2> QED BY <2>1
<1>4. \E r \in Opened : r.row = <<"other", "task">> /\ r.table = "tasks"
  <2>1. Row("other", "task", "tasks", {Demo("project")}) \in Opened
    BY DEF Opened
  <2> QED BY <2>1 DEF Row
<1>5. \E r \in Opened : r.row = <<"other", "run">> /\ r.table = "runs" /\ r.refs = {<<"other", "task">>}
  <2>1. Row("other", "run", "runs", {<<"other", "task">>}) \in Opened
    BY DEF Opened
  <2> QED BY <2>1 DEF Row
<1> QED BY <1>1, <1>2, <1>3, <1>4, <1>5

\* A row of the run that refers to no other injected row.
LEMMA NewAlone ==
  ASSUME NEW mode, NEW name, NEW t PROVE New(mode, name, t, {}) = Row(mode, name, t, InRun)
<1>1. {<<mode, r>> : r \in {}} = {}
  OBVIOUS
<1>2. InRun \cup {<<mode, r>> : r \in {}} = InRun
  BY <1>1
<1> QED BY <1>2 DEF New

\* Injected rows are named in the scope of their class, and refer to one another and to the
\* opened task and run, never to the scenario's run.
LEMMA InjectedAre ==
  ASSUME NEW mode \in Modes
  PROVE  /\ \A r \in Injected(mode) :
              /\ r.row = <<mode, r.row[2]>> /\ r.row[2] # "reset_event" /\ r.table \in InjectedTables
              /\ r.table = "failures" => <<"other", "run">> \in r.refs
              /\ \A m \in r.refs : \/ \E s \in Opened : s.row = m /\ s.table \in Targets[r.table]
                                   \/ \E s \in Injected(mode) : s.row = m /\ s.table \in Targets[r.table]
              /\ Demo("run") \notin r.refs
         /\ \A r, s \in Injected(mode) : r.row = s.row => r = s
<1>0. mode # "demo" /\ mode # "other"
  BY ModesAssumption DEF FailureModes
<1>1. Injected(mode) \in {InjectedExecution(mode), InjectedProof(mode), InjectedBlock(mode)}
  BY DEF Injected
<1> DEFINE
      Good(S) ==
        /\ \A r \in S :
              /\ r.row = <<mode, r.row[2]>> /\ r.row[2] # "reset_event" /\ r.table \in InjectedTables
              /\ r.table = "failures" => <<"other", "run">> \in r.refs
              /\ \A m \in r.refs : \/ \E s \in Opened : s.row = m /\ s.table \in Targets[r.table]
                                   \/ \E s \in S : s.row = m /\ s.table \in Targets[r.table]
              /\ Demo("run") \notin r.refs
        /\ \A r, s \in S : r.row[2] = s.row[2] => r = s
<1>3. Good(InjectedExecution(mode))
  <2> USE RunTargets DEF New, Row, InRun, InjectedTables, Opened, Demo
  <2>1. CASE mode = "TIMEOUT"
    <3> DEFINE exec == Row(mode, "execution", "executions", {<<"other", "run">>})
               failure == New(mode, "failure", "failures", {"execution"} \cup {})
               event == Row(mode, "event", "consequential_events", InRun)
    <3>1. InjectedExecution(mode) = {exec, failure, event}
      BY ONLY <2>1, NewAlone DEF InjectedExecution, Event
    <3>2. /\ exec.row = <<mode, exec.row[2]>> /\ exec.row[2] = "execution" /\ exec.table \in InjectedTables
          /\ exec.table = "failures" => <<"other", "run">> \in exec.refs
          /\ \A m \in exec.refs : \/ \E s \in Opened : s.row = m /\ s.table \in Targets[exec.table]
          /\ Demo("run") \notin exec.refs
      BY <1>0
    <3>3. /\ failure.row = <<mode, failure.row[2]>> /\ failure.row[2] = "failure" /\ failure.table \in InjectedTables
          /\ failure.table = "failures" => <<"other", "run">> \in failure.refs
          /\ \A m \in failure.refs : \/ \E s \in Opened : s.row = m /\ s.table \in Targets[failure.table]
                                     \/ exec.row = m /\ exec.table \in Targets[failure.table]
          /\ Demo("run") \notin failure.refs
      BY <1>0
    <3>4. /\ event.row = <<mode, event.row[2]>> /\ event.row[2] = "event" /\ event.table \in InjectedTables
          /\ event.table = "failures" => <<"other", "run">> \in event.refs
          /\ \A m \in event.refs : \/ \E s \in Opened : s.row = m /\ s.table \in Targets[event.table]
                                   \/ exec.row = m /\ exec.table \in Targets[event.table]
          /\ Demo("run") \notin event.refs
      BY <1>0
    <3> HIDE DEF exec, failure, event
    <3> QED BY ONLY <3>1, <3>2, <3>3, <3>4
  <2>2. CASE mode # "TIMEOUT"
    <3> DEFINE exec == Row(mode, "execution", "executions", {<<"other", "run">>})
               proof == New(mode, "evidence", "evidence", {"execution"})
               failure == New(mode, "failure", "failures", {"execution"} \cup {"evidence"})
               event == Row(mode, "event", "consequential_events", InRun)
    <3>1. InjectedExecution(mode) = {exec, proof, failure, event}
      BY ONLY <2>2, NewAlone DEF InjectedExecution, Event
    <3>2. /\ exec.row = <<mode, exec.row[2]>> /\ exec.row[2] = "execution" /\ exec.table \in InjectedTables
          /\ exec.table = "failures" => <<"other", "run">> \in exec.refs
          /\ \A m \in exec.refs : \/ \E s \in Opened : s.row = m /\ s.table \in Targets[exec.table]
          /\ Demo("run") \notin exec.refs
      BY <1>0
    <3>3. /\ proof.row = <<mode, proof.row[2]>> /\ proof.row[2] = "evidence" /\ proof.table \in InjectedTables
          /\ proof.table = "failures" => <<"other", "run">> \in proof.refs
          /\ \A m \in proof.refs : \/ \E s \in Opened : s.row = m /\ s.table \in Targets[proof.table]
                                   \/ exec.row = m /\ exec.table \in Targets[proof.table]
          /\ Demo("run") \notin proof.refs
      BY <1>0
    <3>4. /\ failure.row = <<mode, failure.row[2]>> /\ failure.row[2] = "failure" /\ failure.table \in InjectedTables
          /\ failure.table = "failures" => <<"other", "run">> \in failure.refs
          /\ \A m \in failure.refs : \/ \E s \in Opened : s.row = m /\ s.table \in Targets[failure.table]
                                     \/ exec.row = m /\ exec.table \in Targets[failure.table]
                                     \/ proof.row = m /\ proof.table \in Targets[failure.table]
          /\ Demo("run") \notin failure.refs
      BY <1>0
    <3>5. /\ event.row = <<mode, event.row[2]>> /\ event.row[2] = "event" /\ event.table \in InjectedTables
          /\ event.table = "failures" => <<"other", "run">> \in event.refs
          /\ \A m \in event.refs : \/ \E s \in Opened : s.row = m /\ s.table \in Targets[event.table]
                                   \/ exec.row = m /\ exec.table \in Targets[event.table]
                                   \/ proof.row = m /\ proof.table \in Targets[event.table]
          /\ Demo("run") \notin event.refs
      BY <1>0
    <3> HIDE DEF exec, proof, failure, event
    <3> QED BY ONLY <3>1, <3>2, <3>3, <3>4, <3>5
  <2> QED BY <2>1, <2>2
<1>4. Good(InjectedProof(mode))
  <2> USE RunTargets DEF New, Row, InRun, InjectedTables, Opened, Demo
  <2>1. CASE mode = "CONFLICTING_EVIDENCE"
    <3> DEFINE passed == Row(mode, "passed", "evidence", InRun)
               proof == Row(mode, "evidence", "evidence", InRun)
               failure == New(mode, "failure", "failures", {"evidence"})
               event == Row(mode, "event", "consequential_events", InRun)
    <3>1. InjectedProof(mode) = {passed, proof, failure, event}
      BY ONLY <2>1, NewAlone DEF InjectedProof, Event
    <3>2. /\ passed.row = <<mode, passed.row[2]>> /\ passed.row[2] = "passed" /\ passed.table \in InjectedTables
          /\ passed.table = "failures" => <<"other", "run">> \in passed.refs
          /\ \A m \in passed.refs : \/ \E s \in Opened : s.row = m /\ s.table \in Targets[passed.table]
                                    \/ proof.row = m /\ proof.table \in Targets[passed.table]
          /\ Demo("run") \notin passed.refs
      BY <1>0
    <3>3. /\ proof.row = <<mode, proof.row[2]>> /\ proof.row[2] = "evidence" /\ proof.table \in InjectedTables
          /\ proof.table = "failures" => <<"other", "run">> \in proof.refs
          /\ \A m \in proof.refs : \/ \E s \in Opened : s.row = m /\ s.table \in Targets[proof.table]
          /\ Demo("run") \notin proof.refs
      BY <1>0
    <3>4. /\ failure.row = <<mode, failure.row[2]>> /\ failure.row[2] = "failure" /\ failure.table \in InjectedTables
          /\ failure.table = "failures" => <<"other", "run">> \in failure.refs
          /\ \A m \in failure.refs : \/ \E s \in Opened : s.row = m /\ s.table \in Targets[failure.table]
                                     \/ proof.row = m /\ proof.table \in Targets[failure.table]
          /\ Demo("run") \notin failure.refs
      BY <1>0
    <3>5. /\ event.row = <<mode, event.row[2]>> /\ event.row[2] = "event" /\ event.table \in InjectedTables
          /\ event.table = "failures" => <<"other", "run">> \in event.refs
          /\ \A m \in event.refs : \/ \E s \in Opened : s.row = m /\ s.table \in Targets[event.table]
                                   \/ proof.row = m /\ proof.table \in Targets[event.table]
          /\ Demo("run") \notin event.refs
      BY <1>0
    <3> HIDE DEF passed, proof, failure, event
    <3> QED BY ONLY <3>1, <3>2, <3>3, <3>4, <3>5
  <2>2. CASE mode # "CONFLICTING_EVIDENCE"
    <3> DEFINE proof == Row(mode, "evidence", "evidence", InRun)
               failure == New(mode, "failure", "failures", {"evidence"})
               event == Row(mode, "event", "consequential_events", InRun)
    <3>1. InjectedProof(mode) = {proof, failure, event}
      BY ONLY <2>2, NewAlone DEF InjectedProof, Event
    <3>2. /\ proof.row = <<mode, proof.row[2]>> /\ proof.row[2] = "evidence" /\ proof.table \in InjectedTables
          /\ proof.table = "failures" => <<"other", "run">> \in proof.refs
          /\ \A m \in proof.refs : \/ \E s \in Opened : s.row = m /\ s.table \in Targets[proof.table]
          /\ Demo("run") \notin proof.refs
      BY <1>0
    <3>3. /\ failure.row = <<mode, failure.row[2]>> /\ failure.row[2] = "failure" /\ failure.table \in InjectedTables
          /\ failure.table = "failures" => <<"other", "run">> \in failure.refs
          /\ \A m \in failure.refs : \/ \E s \in Opened : s.row = m /\ s.table \in Targets[failure.table]
                                     \/ proof.row = m /\ proof.table \in Targets[failure.table]
          /\ Demo("run") \notin failure.refs
      BY <1>0
    <3>4. /\ event.row = <<mode, event.row[2]>> /\ event.row[2] = "event" /\ event.table \in InjectedTables
          /\ event.table = "failures" => <<"other", "run">> \in event.refs
          /\ \A m \in event.refs : \/ \E s \in Opened : s.row = m /\ s.table \in Targets[event.table]
                                   \/ proof.row = m /\ proof.table \in Targets[event.table]
          /\ Demo("run") \notin event.refs
      BY <1>0
    <3> HIDE DEF proof, failure, event
    <3> QED BY ONLY <3>1, <3>2, <3>3, <3>4
  <2> QED BY <2>1, <2>2
<1>5. Good(InjectedBlock(mode))
  <2> USE RunTargets DEF InjectedBlock, Event, New, Row, InRun, InjectedTables, Opened, Demo
  <2>1. \A r \in InjectedBlock(mode) :
              /\ r.row = <<mode, r.row[2]>> /\ r.row[2] # "reset_event" /\ r.table \in InjectedTables
              /\ r.table = "failures" => <<"other", "run">> \in r.refs
    OBVIOUS
  <2>2. \A r \in InjectedBlock(mode) : Demo("run") \notin r.refs
    BY <1>0
  <2>3. \A r, s \in InjectedBlock(mode) : r.row[2] = s.row[2] => r = s
    BY ONLY DEF InjectedBlock, Event, New, Row
  <2>4. \A r \in InjectedBlock(mode) : 
              \A m \in r.refs : \/ \E s \in Opened : s.row = m /\ s.table \in Targets[r.table]
                                \/ \E s \in InjectedBlock(mode) : s.row = m /\ s.table \in Targets[r.table]
    <3>1. \A r \in InjectedBlock(mode) : r.refs = InRun /\ r.table \in {"failures", "consequential_events"}
      <4>1. \A name, table : /\ New(mode, name, table, {}).refs = InRun
                             /\ New(mode, name, table, {}).table = table
        BY ONLY DEF New, Row
      <4> HIDE DEF New
      <4> QED BY ONLY <4>1 DEF InjectedBlock, Event
    <3>2. {"tasks", "runs"} \subseteq Targets["failures"] /\ {"tasks", "runs"} \subseteq Targets["consequential_events"]
      BY ONLY RunTargets
    <3>3. \A m \in InRun : \E s \in Opened : s.row = m /\ s.table \in {"tasks", "runs"}
      BY ONLY OpenedAre DEF InRun
    <3> QED BY ONLY <3>1, <3>2, <3>3
  <2> QED BY ONLY <2>1, <2>2, <2>3, <2>4
<1>6. Good(Injected(mode))
  <2> HIDE DEF Good
  <2> QED BY <1>1, <1>3, <1>4, <1>5
<1>7. \A r, s \in Injected(mode) : r.row = s.row => r.row[2] = s.row[2]
  OBVIOUS
<1> QED BY <1>6, <1>7

MayRefer(n) == RowOf[n].refs \cup {m \in {Demo("certificate")} : n = Demo("delta")}

\* The seeds as a set.
LEMMA SeedRowsAre ==
  /\ SeedRows = {Seeds[i] : i \in 1 .. 37}
  /\ \A r \in SeedRows : r.row = Demo(r.row[2]) /\ r.row[2] # "reset_event" /\ r.table \in TableNames
  /\ \A r, s \in SeedRows : r.row = s.row => r = s
  /\ \A r \in SeedRows : \A m \in r.refs : \E s \in SeedRows : s.row = m /\ s.table \in Targets[r.table]
<1>1. SeedRows = {Seeds[i] : i \in 1 .. 37}
  BY SeedsAre DEF SeedRows, ToSet
<1>2. \A i \in 1 .. 37 : \A m \in Seeds[i].refs : \E s \in SeedRows : s.row = m /\ s.table \in Targets[Seeds[i].table]
  <2> SUFFICES ASSUME NEW i \in 1 .. 37, NEW m \in Seeds[i].refs
               PROVE  \E s \in SeedRows : s.row = m /\ s.table \in Targets[Seeds[i].table]
    OBVIOUS
  <2>1. PICK j \in 1 .. 37 : j < i /\ Seeds[j].row = m /\ Seeds[j].table \in Targets[Seeds[i].table]
    BY EachSeed DEF Refers
  <2>2. Seeds[j] \in SeedRows
    BY <1>1
  <2> QED BY <1>1, <2>1, <2>2
<1>3. \A r \in SeedRows : r.row = Demo(r.row[2]) /\ r.row[2] # "reset_event" /\ r.table \in TableNames
  <2> SUFFICES ASSUME NEW i \in 1 .. 37
               PROVE  LET r == Seeds[i] IN r.row = Demo(r.row[2]) /\ r.row[2] # "reset_event" /\ r.table \in TableNames
    BY <1>1
  <2> QED BY SeedsAre
<1>4. \A r, s \in SeedRows : r.row = s.row => r = s
  <2> SUFFICES ASSUME NEW r \in SeedRows, NEW s \in SeedRows, r.row = s.row PROVE r = s
    OBVIOUS
  <2>1. PICK i \in 1 .. 37 : r = Seeds[i]
    BY <1>1
  <2>2. PICK j \in 1 .. 37 : s = Seeds[j]
    BY <1>1
  <2> QED BY <2>1, <2>2, SeedsAre
<1>5. \A r \in SeedRows : \A m \in r.refs : \E s \in SeedRows : s.row = m /\ s.table \in Targets[r.table]
  <2> SUFFICES ASSUME NEW r \in SeedRows, NEW m \in r.refs
               PROVE  \E s \in SeedRows : s.row = m /\ s.table \in Targets[r.table]
    OBVIOUS
  <2>1. PICK i \in 1 .. 37 : r = Seeds[i]
    BY <1>1
  <2> QED BY <2>1, <1>2
<1> QED BY <1>1, <1>3, <1>4, <1>5

\* The rows of the scenario that the proofs name.
LEMMA SeedKeys ==
  /\ \E r \in SeedRows : r.row = Demo("project") /\ r.table = "projects"
  /\ \E r \in SeedRows : r.row = Demo("task") /\ r.table = "tasks"
  /\ \E r \in SeedRows : r.row = Demo("run") /\ r.table = "runs" /\ r.refs = {Demo("task")}
  /\ \E r \in SeedRows : r.row = Demo("delta") /\ r.table = "behavioral_deltas"
  /\ \E r \in SeedRows : r.row = Demo("certificate") /\ r.table = "certificates"
  /\ \A r \in SeedRows : r.table = "failures" => Demo("run") \in r.refs
  /\ \A r \in SeedRows : <<"other", "run">> \notin r.refs
<1>1. /\ Seeds[1] = Seeded("project", "projects", {})
      /\ Seeds[5] = Seeded("task", "tasks", {"project", "repository", "change"})
  BY ScenarioParts DEF SeedGovernance
<1>2. Seeds[8] = Seeded("run", "runs", {"task"})
  BY ScenarioParts DEF SeedRuns
<1>3. \A i \in 1 .. 37 : Seeds[i].table = "failures" => Demo("run") \in Seeds[i].refs
  <2>1. \A i \in 1 .. 37 : Seeds[i].table = "failures" => i = 29
    BY EachSeed DEF Placed
  <2>2. Seeds[29] = SeedOutcome[1]
    BY ScenarioParts
  <2>3. Demo("run") \in Seeds[29].refs
    BY ONLY <2>2 DEF SeedOutcome, Seeded, Row, Demo
  <2> QED BY <2>1, <2>3
<1>4. /\ Seeds[31].row = Demo("delta") /\ Seeds[31].table = "behavioral_deltas"
      /\ Seeds[33].row = Demo("certificate") /\ Seeds[33].table = "certificates"
  <2>1. Seeds[31] = SeedOutcome[3] /\ Seeds[33] = SeedOutcome[5]
    BY ScenarioParts
  <2> QED BY ONLY <2>1 DEF SeedOutcome, Seeded, Row, Demo
<1>5. \A i \in 1 .. 37 : Seeds[i] \in SeedRows
  BY SeedRowsAre
<1>6. \E r \in SeedRows : r.row = Demo("project") /\ r.table = "projects"
  <2>1. Seeds[1].row = Demo("project") /\ Seeds[1].table = "projects"
    BY ONLY <1>1 DEF Seeded, Row, Demo
  <2> QED BY <1>5, <2>1
<1>7. \E r \in SeedRows : r.row = Demo("task") /\ r.table = "tasks"
  <2>1. Seeds[5].row = Demo("task") /\ Seeds[5].table = "tasks"
    BY ONLY <1>1 DEF Seeded, Row, Demo
  <2> QED BY <1>5, <2>1
<1>8. \E r \in SeedRows : r.row = Demo("run") /\ r.table = "runs" /\ r.refs = {Demo("task")}
  <2>1. Seeds[8].row = Demo("run") /\ Seeds[8].table = "runs" /\ Seeds[8].refs = {Demo("task")}
    BY ONLY <1>2 DEF Seeded, Row, Demo
  <2> QED BY <1>5, <2>1
<1>9. \E r \in SeedRows : r.row = Demo("delta") /\ r.table = "behavioral_deltas"
  BY <1>4, <1>5
<1>10. \E r \in SeedRows : r.row = Demo("certificate") /\ r.table = "certificates"
  BY <1>4, <1>5
<1>11. \A r \in SeedRows : r.table = "failures" => Demo("run") \in r.refs
  <2>1. SeedRows = {Seeds[i] : i \in 1 .. 37}
    BY SeedRowsAre
  <2> QED BY <1>3, <2>1
<1>12. ASSUME NEW r \in SeedRows PROVE <<"other", "run">> \notin r.refs
  <2>1. \A n : Demo(n) # <<"other", "run">>
    BY DEF Demo
  <2>2. \A m \in r.refs : m = Demo(m[2])
    BY SeedRowsAre
  <2> QED BY <2>1, <2>2
<1> QED BY <1>6, <1>7, <1>8, <1>9, <1>10, <1>11, <1>12

\* No two rows have the same key.
LEMMA RowsApart == \A r, s \in AllRows : r.row = s.row => r = s
<1> SUFFICES ASSUME NEW r \in AllRows, NEW s \in AllRows, r.row = s.row PROVE r = s
  OBVIOUS
<1>1. \A t \in AllRows : \/ t \in SeedRows /\ t.row[1] = "demo" /\ t.row[2] # "reset_event"
                         \/ t \in Opened /\ t.row[1] = "other" /\ t.row[2] # "reset_event"
                         \/ \E c \in Scopes : t = ResetEvent(c) /\ t.row[1] = c /\ t.row[2] = "reset_event"
                         \/ \E m \in Modes : t \in Injected(m) /\ t.row[1] = m /\ m \notin Scopes /\ t.row[2] # "reset_event"
  <2>1. \A t \in SeedRows : t.row[1] = "demo" /\ t.row[2] # "reset_event"
    BY SeedRowsAre DEF Demo
  <2>2. \A t \in Opened : t.row[1] = "other" /\ t.row[2] # "reset_event"
    BY OpenedAre
  <2>3. \A c \in Scopes : ResetEvent(c).row[1] = c /\ ResetEvent(c).row[2] = "reset_event"
    BY DEF ResetEvent, Row
  <2>4. \A m \in Modes : m \notin Scopes
    BY ModesAssumption DEF FailureModes, Scopes
  <2>5. \A m \in Modes : \A t \in Injected(m) : t.row[1] = m /\ t.row[2] # "reset_event"
    BY InjectedAre
  <2> QED BY <2>1, <2>2, <2>3, <2>4, <2>5 DEF AllRows
<1>2. CASE r \in SeedRows /\ s \in SeedRows
  BY <1>2, SeedRowsAre
<1>3. CASE r \in Opened /\ s \in Opened
  BY <1>3, OpenedAre
<1>4. ASSUME NEW m \in Modes, r \in Injected(m), s \in Injected(m) PROVE r = s
  BY <1>4, InjectedAre
<1>5. r.row[1] = s.row[1] /\ r.row[2] = s.row[2]
  OBVIOUS
<1>6. "demo" # "other" /\ "demo" \in Scopes /\ "other" \in Scopes
  BY DEF Scopes
<1> QED BY <1>1, <1>2, <1>3, <1>4, <1>5, <1>6

\* A key names its row.
LEMMA RowNamed ==
  /\ \A r \in AllRows : r.row \in Names /\ RowOf[r.row] = r /\ TableOf[r.row] = r.table
  /\ \A n \in Names : RowOf[n] \in AllRows /\ RowOf[n].row = n /\ TableOf[n] = RowOf[n].table
<1>1. \A n \in Names : \E r \in AllRows : r.row = n
  BY DEF Names
<1>2. \A n \in Names : RowOf[n] \in AllRows /\ RowOf[n].row = n
  BY <1>1 DEF RowOf
<1>3. \A n \in Names : TableOf[n] = RowOf[n].table
  BY DEF TableOf
<1>4. \A r \in AllRows : r.row \in Names
  BY DEF Names
<1> QED BY <1>2, <1>3, <1>4, RowsApart

\* What a row may refer to is a row, of a table that its table targets.
LEMMA RefersTo ==
  \A n \in Names : /\ TableOf[n] \in TableNames
                   /\ \A m \in MayRefer(n) : m \in Names /\ TableOf[m] \in Targets[TableOf[n]]
<1>1. \A r \in AllRows : r.table \in TableNames
  <2>1. InjectedTables \cup {"tasks", "runs"} \subseteq TableNames
    BY TableNamesAre DEF InjectedTables
  <2>2. \A c \in Scopes : ResetEvent(c).table = "consequential_events"
    BY DEF ResetEvent, Row
  <2> QED BY <2>1, <2>2, SeedRowsAre, OpenedAre, InjectedAre DEF AllRows, InjectedTables
<1>2. \A r \in AllRows : \A m \in r.refs : \E s \in AllRows : s.row = m /\ s.table \in Targets[r.table]
  <2>1. \A r \in SeedRows : \A m \in r.refs : \E s \in AllRows : s.row = m /\ s.table \in Targets[r.table]
    BY SeedRowsAre DEF AllRows
  <2>2. \A r \in Opened : \A m \in r.refs : \E s \in AllRows : s.row = m /\ s.table \in Targets[r.table]
    BY OpenedAre, SeedKeys DEF AllRows
  <2>3. \A k \in Modes : \A r \in Injected(k) : \A m \in r.refs : \E s \in AllRows : s.row = m /\ s.table \in Targets[r.table]
    BY InjectedAre DEF AllRows
  <2>4. \A c \in Scopes : \A m \in ResetEvent(c).refs :
             \E s \in AllRows : s.row = m /\ s.table \in Targets[ResetEvent(c).table]
    <3>1. \A c \in Scopes : ResetEvent(c).refs = {<<c, "task">>} /\ ResetEvent(c).table = "consequential_events"
      BY DEF ResetEvent, Row
    <3>2. \E s \in AllRows : s.row = <<"demo", "task">> /\ s.table = "tasks"
      BY SeedKeys DEF AllRows, Demo
    <3>3. \E s \in AllRows : s.row = <<"other", "task">> /\ s.table = "tasks"
      BY OpenedAre DEF AllRows
    <3> QED BY <3>1, <3>2, <3>3, RunTargets DEF Scopes
  <2> QED BY <2>1, <2>2, <2>3, <2>4 DEF AllRows
<1>3. \A n \in Names : \A m \in RowOf[n].refs : m \in Names /\ TableOf[m] \in Targets[TableOf[n]]
  BY <1>2, RowNamed
<1>4. /\ Demo("certificate") \in Names /\ TableOf[Demo("certificate")] = "certificates"
      /\ TableOf[Demo("delta")] = "behavioral_deltas"
  BY SeedKeys, RowNamed DEF AllRows
<1>5. TableOf[Demo("certificate")] \in Targets[TableOf[Demo("delta")]]
  BY <1>4, OutcomeTargets
<1> QED BY <1>1, <1>3, <1>4, <1>5, RowNamed DEF MayRefer

\* A failure is of the run that its evidence is of.
LEMMA FailureOfRun ==
  ASSUME NEW n \in Names, TableOf[n] = "failures", NEW m \in RowOf[n].refs,
         NEW c \in Scopes, <<c, "run">> \in RowOf[m].refs
  PROVE  <<c, "run">> \in RowOf[n].refs
<1>1. RowOf[n] \in AllRows /\ RowOf[n].table = "failures"
  BY RowNamed
<1>2. CASE RowOf[n] \in SeedRows
  <2>1. RowOf[m] \in SeedRows
    BY <1>2, SeedRowsAre, RowNamed DEF AllRows
  <2>2. c = "demo"
    BY <2>1, SeedKeys DEF Scopes
  <2> QED BY <1>1, <1>2, <2>2, SeedKeys DEF Demo
<1>3. ASSUME NEW k \in Modes, RowOf[n] \in Injected(k) PROVE <<c, "run">> \in RowOf[n].refs
  <2>1. PICK s \in Opened \cup Injected(k) : s.row = m
    BY <1>3, InjectedAre
  <2>2. s \in AllRows /\ RowOf[m] = s
    BY <2>1, RowNamed DEF AllRows
  <2>3. c # "demo"
    BY <2>1, <2>2, InjectedAre, OpenedAre DEF Demo
  <2> QED BY <1>1, <1>3, <2>3, InjectedAre DEF Scopes
<1>4. RowOf[n] \notin Opened
  BY <1>1, OpenedAre
<1>5. \A d \in Scopes : RowOf[n] # ResetEvent(d)
  BY <1>1 DEF ResetEvent, Row
<1> QED BY <1>1, <1>2, <1>3, <1>4, <1>5 DEF AllRows

\* The run and the task of a scope, and the event a reset leaves.
LEMMA RunOfScope ==
  ASSUME NEW c \in Scopes
  PROVE  /\ <<c, "run">> \in Names /\ TableOf[<<c, "run">>] = "runs" /\ RowOf[<<c, "run">>].refs = {<<c, "task">>}
         /\ <<c, "task">> \in Names /\ TableOf[<<c, "task">>] = "tasks"
         /\ ResetEvent(c) \in AllRows /\ ResetEvent(c).refs = {<<c, "task">>}
         /\ ResetEvent(c).table = "consequential_events" /\ ResetEvent(c) \notin SeedRows
<1>1. \E r \in AllRows : r.row = <<c, "run">> /\ r.table = "runs" /\ r.refs = {<<c, "task">>}
  <2>1. CASE c = "demo"
    BY <2>1, SeedKeys DEF AllRows, Demo
  <2>2. CASE c = "other"
    BY <2>2, OpenedAre DEF AllRows
  <2> QED BY <2>1, <2>2 DEF Scopes
<1>2. \E r \in AllRows : r.row = <<c, "task">> /\ r.table = "tasks"
  <2>1. CASE c = "demo"
    BY <2>1, SeedKeys DEF AllRows, Demo
  <2>2. CASE c = "other"
    BY <2>2, OpenedAre DEF AllRows
  <2> QED BY <2>1, <2>2 DEF Scopes
<1>3. /\ ResetEvent(c) \in AllRows /\ ResetEvent(c).refs = {<<c, "task">>}
      /\ ResetEvent(c).table = "consequential_events" /\ ResetEvent(c).row[2] = "reset_event"
  BY DEF AllRows, ResetEvent, Row
<1> QED BY <1>1, <1>2, <1>3, RowNamed, SeedRowsAre

-----------------------------------------------------------------------------
(* What one write does to the rows. *)

ResetTables == ToSet(ResetOrder)

\* The tables a reset deletes from.
LEMMA ResetTablesAre == ResetTables = {"consequential_events", "failures", "evidence", "executions"}
BY Four DEF ResetTables, ResetOrder

\* What a row of those tables may refer to and keep, once its target is deleted.
LEMMA ResetRows ==
  ASSUME NEW n \in Names, NEW m \in MayRefer(n)
  PROVE  /\ TableOf[m] # "consequential_events"
         /\ TableOf[m] = "failures" => Cleared(n, m)
         /\ TableOf[n] \in ResetTables /\ TableOf[m] = "executions" => Cleared(n, m)
         /\ TableOf[n] \in ResetTables /\ TableOf[m] = "evidence" => TableOf[n] = "failures"
BY RefersTo, ResetTargets DEF Cleared, ResetTables

MustRefer(n) == {m \in RowOf[n].refs : TableOf[m] \notin ResetTables}

Stored(db, T) ==
  /\ DOMAIN db = Names
  /\ \A n \in Names : /\ db[n].id \in Nat
                      /\ DOMAIN db[n].refs \subseteq MayRefer(n)
                      /\ Has(db, n) => TableOf[n] \in T /\ MustRefer(n) \subseteq DOMAIN db[n].refs
                      /\ ~ Has(db, n) => DOMAIN db[n].refs = {}

Resolves(db) ==
  \A n \in Names : \A m \in DOMAIN db[n].refs : Has(db, m) /\ db[n].refs[m] = db[m].id

\* Writing a row keeps the rows well formed and changes no other key.
LEMMA PutStores ==
  ASSUME NEW T, NEW db, Stored(db, T), NEW r \in AllRows, r.table \in T, NEW id \in Nat \ {0}, NEW seen
  PROVE  /\ Stored(PutRow(db, r, id, seen), T)
         /\ \A n \in Names : PutRow(db, r, id, seen)[n].id = IF n = r.row THEN id ELSE db[n].id
<1> DEFINE new == PutRow(db, r, id, seen)
<1>1. DOMAIN new = Names /\ r.row \in Names /\ RowOf[r.row] = r /\ TableOf[r.row] = r.table
  BY RowNamed DEF PutRow, Stored
<1>2. new[r.row].id = id /\ DOMAIN new[r.row].refs = r.refs
  BY <1>1 DEF PutRow, Stored
<1>3. \A n \in Names : n # r.row => new[n] = db[n]
  BY <1>1 DEF PutRow, Stored
<1>4. Has(new, r.row)
  BY <1>2 DEF Has
<1> HIDE DEF new
<1>5. MustRefer(r.row) \subseteq r.refs /\ r.refs \subseteq MayRefer(r.row)
  BY <1>1 DEF MustRefer, MayRefer
<1>6. \A n \in Names : n # r.row => (Has(new, n) <=> Has(db, n))
  BY <1>3 DEF Has
<1>7. Stored(new, T)
  BY <1>1, <1>2, <1>3, <1>4, <1>5, <1>6 DEF Stored
<1>8. \A n \in Names : new[n].id = IF n = r.row THEN id ELSE db[n].id
  BY <1>2, <1>3
<1> QED BY <1>7, <1>8 DEF new

\* ... and, where it refers to rows that are there, every reference resolves.
LEMMA PutResolves ==
  ASSUME NEW T, NEW db, Stored(db, T), Resolves(db), NEW r \in AllRows, NEW id \in Nat \ {0}, NEW seen,
         \A n \in Names : r.row \notin DOMAIN db[n].refs,
         \A m \in r.refs : m # r.row /\ Has(db, m) /\ seen[m] = db[m].id
  PROVE  Resolves(PutRow(db, r, id, seen))
<1> DEFINE new == PutRow(db, r, id, seen)
<1>1. DOMAIN new = Names /\ r.row \in Names /\ r.refs \subseteq Names
  BY RowNamed, RefersTo DEF PutRow, Stored, MayRefer
<1>2. DOMAIN new[r.row].refs = r.refs /\ \A m \in r.refs : new[r.row].refs[m] = seen[m]
  BY <1>1 DEF PutRow, Stored
<1>3. \A n \in Names : n # r.row => new[n] = db[n]
  BY <1>1 DEF PutRow, Stored
<1> HIDE DEF new
<1>4. \A m \in Names : m # r.row => (Has(new, m) <=> Has(db, m)) /\ new[m].id = db[m].id
  BY <1>3 DEF Has
<1>5. \A m \in r.refs : Has(new, m) /\ new[r.row].refs[m] = new[m].id
  BY <1>1, <1>2, <1>4
<1>6. ASSUME NEW n \in Names, n # r.row, NEW m \in DOMAIN new[n].refs PROVE Has(new, m) /\ new[n].refs[m] = new[m].id
  <2>1. m \in DOMAIN db[n].refs /\ m # r.row /\ m \in Names
    BY <1>3, <1>6, RefersTo DEF Stored
  <2> QED BY <1>3, <1>4, <1>6, <2>1 DEF Resolves
<1>7. Resolves(new)
  BY <1>2, <1>5, <1>6 DEF Resolves
<1> QED BY <1>7 DEF new

\* A row that is not there is referred to by none.
LEMMA AbsentUnreferred ==
  ASSUME NEW db, Resolves(db), NEW m, ~ Has(db, m)
  PROVE  \A n \in Names : m \notin DOMAIN db[n].refs
BY DEF Resolves

\* Binding the delta adds a reference and changes no key.
LEMMA BindStores ==
  ASSUME NEW T, NEW db, Stored(db, T), Has(db, Demo("delta")), NEW seen
  PROVE  /\ Stored(BindDelta(db, seen), T)
         /\ \A n \in Names : BindDelta(db, seen)[n].id = db[n].id
<1> DEFINE new == BindDelta(db, seen)
           d == Demo("delta")
<1>1. DOMAIN new = Names /\ d \in Names /\ Demo("certificate") \in MayRefer(d)
  BY RowNamed, SeedKeys DEF BindDelta, Stored, MayRefer, AllRows
<1>2. new[d].id = db[d].id /\ DOMAIN new[d].refs = DOMAIN db[d].refs \cup {Demo("certificate")}
  BY <1>1 DEF BindDelta, Stored
<1>3. \A n \in Names : n # d => new[n] = db[n]
  BY <1>1 DEF BindDelta, Stored
<1> HIDE DEF new, d
<1>4. Has(db, d)
  BY DEF d
<1>5. \A n \in Names : Has(new, n) <=> Has(db, n)
  BY <1>2, <1>3 DEF Has
<1>6. Stored(new, T)
  BY <1>1, <1>2, <1>3, <1>4, <1>5 DEF Stored
<1> QED BY <1>2, <1>3, <1>6 DEF new

\* Binding the delta to a certificate there is leaves every reference resolved.
LEMMA BindResolves ==
  ASSUME NEW T, NEW db, Stored(db, T), Resolves(db), Has(db, Demo("delta")), NEW seen,
         Has(db, Demo("certificate")), seen[Demo("certificate")] = db[Demo("certificate")].id
  PROVE  Resolves(BindDelta(db, seen))
<1> DEFINE new == BindDelta(db, seen)
           d == Demo("delta")
           c == Demo("certificate")
<1>1. DOMAIN new = Names /\ d \in Names /\ c \in Names
  BY RowNamed, SeedKeys DEF BindDelta, Stored, AllRows
<1>2. /\ new[d].id = db[d].id /\ DOMAIN new[d].refs = DOMAIN db[d].refs \cup {c}
      /\ \A m \in DOMAIN new[d].refs : new[d].refs[m] = IF m = c THEN seen[c] ELSE db[d].refs[m]
  BY <1>1 DEF BindDelta, Stored
<1>3. \A n \in Names : n # d => new[n] = db[n]
  BY <1>1 DEF BindDelta, Stored
<1>4. Has(db, c) /\ seen[c] = db[c].id
  OBVIOUS
<1> HIDE DEF new, d, c
<1>5. \A n \in Names : new[n].id = db[n].id /\ (Has(new, n) <=> Has(db, n))
  BY <1>2, <1>3 DEF Has
<1>6. \A n \in Names : DOMAIN db[n].refs \subseteq Names
  BY RefersTo DEF Stored
<1>7. ASSUME NEW n \in Names, NEW m \in DOMAIN new[n].refs PROVE Has(new, m) /\ new[n].refs[m] = new[m].id
  <2>1. CASE n # d
    BY <1>3, <1>5, <1>6, <1>7, <2>1 DEF Resolves
  <2>2. CASE n = d /\ m = c
    BY <1>1, <1>2, <1>4, <1>5, <1>7, <2>2
  <2>3. CASE n = d /\ m # c
    BY <1>2, <1>5, <1>6, <1>7, <2>3 DEF Resolves
  <2> QED BY <2>1, <2>2, <2>3
<1> QED BY <1>7 DEF Resolves, new

\* What deleting rows leaves of the keys and of the references.
LEMMA DeleteIs ==
  ASSUME NEW T, NEW db, Stored(db, T), NEW gone \in SUBSET Names, \A n \in gone : TableOf[n] \in ResetTables
  PROVE  /\ Stored(Delete(db, gone), T)
         /\ \A n \in Names : Delete(db, gone)[n].id = IF n \in gone THEN 0 ELSE db[n].id
         /\ \A n \in Names : \A m \in DOMAIN Delete(db, gone)[n].refs :
              /\ n \notin gone /\ m \in DOMAIN db[n].refs /\ ~ (m \in gone /\ Cleared(n, m))
              /\ Delete(db, gone)[n].refs[m] = db[n].refs[m]
<1> DEFINE new == Delete(db, gone)
           left(n) == {m \in DOMAIN db[n].refs : ~ (m \in gone /\ Cleared(n, m))}
<1>1. DOMAIN new = Names
  BY DEF Delete
<1>2. \A n \in gone : new[n].id = 0 /\ DOMAIN new[n].refs = {}
  BY DEF Delete, Absent
<1>3. \A n \in Names \ gone : /\ new[n].id = db[n].id /\ DOMAIN new[n].refs = left(n)
                              /\ \A m \in left(n) : new[n].refs[m] = db[n].refs[m]
  BY DEF Delete
<1> HIDE DEF new
<1>4. \A n \in Names : n \in gone => ~ Has(new, n)
  BY <1>2 DEF Has
<1>5. \A n \in Names : n \notin gone => (Has(new, n) <=> Has(db, n))
  BY <1>3 DEF Has
<1>6. \A n \in Names : left(n) \subseteq DOMAIN db[n].refs
  OBVIOUS
<1>7. \A n \in Names : MustRefer(n) \subseteq DOMAIN db[n].refs => MustRefer(n) \subseteq left(n)
  BY DEF MustRefer
<1>8. Stored(new, T)
  <2> SUFFICES ASSUME NEW n \in Names
               PROVE  /\ new[n].id \in Nat
                      /\ DOMAIN new[n].refs \subseteq MayRefer(n)
                      /\ Has(new, n) => TableOf[n] \in T /\ MustRefer(n) \subseteq DOMAIN new[n].refs
                      /\ ~ Has(new, n) => DOMAIN new[n].refs = {}
    BY <1>1 DEF Stored
  <2> HIDE DEF left
  <2>1. CASE n \in gone
    BY <1>2, <1>4, <2>1
  <2>2. CASE n \notin gone
    BY <1>3, <1>5, <1>6, <1>7, <2>2 DEF Stored
  <2> QED BY <2>1, <2>2
<1>9. \A n \in Names : \A m \in DOMAIN new[n].refs :
              /\ n \notin gone /\ m \in DOMAIN db[n].refs /\ ~ (m \in gone /\ Cleared(n, m))
              /\ new[n].refs[m] = db[n].refs[m]
  BY <1>2, <1>3
<1>10. \A n \in Names : new[n].id = IF n \in gone THEN 0 ELSE db[n].id
  BY <1>2, <1>3
<1> QED BY <1>8, <1>9, <1>10 DEF new

\* What dangles after a delete refers to a row it deleted and keeps the reference.
LEMMA DanglingIs ==
  ASSUME NEW T, NEW db, Stored(db, T), Resolves(db),
         NEW gone \in SUBSET Names, \A n \in gone : TableOf[n] \in ResetTables,
         NEW n \in Dangling(Delete(db, gone))
  PROVE  n \in Names \ gone /\ \E m \in DOMAIN db[n].refs : m \in gone /\ ~ Cleared(n, m)
<1> DEFINE new == Delete(db, gone)
<1>1. n \in Names
  BY DEF Dangling
<1>2. PICK m \in DOMAIN new[n].refs : new[m].id # new[n].refs[m]
  BY DEF Dangling
<1>3. n \notin gone /\ m \in DOMAIN db[n].refs /\ ~ (m \in gone /\ Cleared(n, m)) /\ new[n].refs[m] = db[n].refs[m]
  BY <1>1, <1>2, DeleteIs
<1>4. m \in Names
  BY <1>1, <1>3, RefersTo DEF Stored
<1>5. m \in gone
  BY <1>1, <1>2, <1>3, <1>4, DeleteIs DEF Resolves
<1> QED BY <1>1, <1>3, <1>5

\* A delete that leaves nothing dangling keeps every reference resolved.
LEMMA DeleteResolves ==
  ASSUME NEW T, NEW db, Stored(db, T), Resolves(db),
         NEW gone \in SUBSET Names, \A n \in gone : TableOf[n] \in ResetTables,
         Dangling(Delete(db, gone)) = {}
  PROVE  Resolves(Delete(db, gone))
<1> DEFINE new == Delete(db, gone)
<1> SUFFICES ASSUME NEW n \in Names, NEW m \in DOMAIN new[n].refs
             PROVE  Has(new, m) /\ new[n].refs[m] = new[m].id
  BY DEF Resolves
<1>1. new[n].refs[m] = new[m].id
  BY DEF Dangling
<1>2. m \in DOMAIN db[n].refs /\ new[n].refs[m] = db[n].refs[m]
  BY DeleteIs
<1>3. db[n].refs[m] = db[m].id /\ Has(db, m)
  BY <1>2 DEF Resolves
<1> QED BY <1>1, <1>2, <1>3 DEF Has

\* Dropping a table keeps the rows of the others well formed.
LEMMA DroppedIs ==
  ASSUME NEW T, NEW db, Stored(db, T), NEW t
  PROVE  Stored(Dropped(db, t), T \ {t})
<1> DEFINE new == Dropped(db, t)
<1>1. DOMAIN new = Names
  BY DEF Dropped
<1>2. \A n \in Names : TableOf[n] = t => new[n].id = 0 /\ DOMAIN new[n].refs = {}
  BY DEF Dropped, Absent
<1>3. \A n \in Names : TableOf[n] # t => new[n] = db[n]
  BY DEF Dropped
<1> HIDE DEF new
<1>4. \A n \in Names : IF TableOf[n] = t THEN ~ Has(new, n) ELSE Has(new, n) <=> Has(db, n)
  BY <1>2, <1>3 DEF Has
<1>5. Stored(new, T \ {t})
  BY <1>1, <1>2, <1>3, <1>4 DEF Stored
<1> QED BY <1>5 DEF new

\* ... and resolved, where no table left targets it.
LEMMA DroppedResolves ==
  ASSUME NEW T, NEW db, Stored(db, T), Resolves(db), NEW t, \A u \in T : t \notin Targets[u]
  PROVE  Resolves(Dropped(db, t))
<1> DEFINE new == Dropped(db, t)
<1>1. \A n \in Names : TableOf[n] = t => new[n].id = 0 /\ DOMAIN new[n].refs = {}
  BY DEF Dropped, Absent
<1>2. \A n \in Names : TableOf[n] # t => new[n] = db[n]
  BY DEF Dropped
<1> HIDE DEF new
<1>3. ASSUME NEW n \in Names, NEW m \in DOMAIN new[n].refs
      PROVE  Has(new, m) /\ new[n].refs[m] = new[m].id
  <2>1. TableOf[n] # t /\ new[n] = db[n]
    BY <1>1, <1>2, <1>3
  <2>2. m \in DOMAIN db[n].refs /\ m \in MayRefer(n)
    BY <1>3, <2>1 DEF Stored
  <2>3. Has(db, n)
    BY <2>2 DEF Stored
  <2>4. TableOf[n] \in T
    BY <2>3 DEF Stored
  <2>5. m \in Names /\ TableOf[m] # t
    BY <2>2, <2>4, RefersTo
  <2>6. new[m] = db[m]
    BY <1>2, <2>5
  <2> QED BY <2>1, <2>2, <2>6 DEF Resolves, Has
<1> QED BY <1>3 DEF Resolves, new

\* Rows made where they are missing leave the rows that were there alone.
LEMMA EnsureStores ==
  ASSUME NEW T, NEW db, Stored(db, T), resets \in Nat, NEW rows \in SUBSET AllRows,
         \A r \in rows : r.table \in T,
         \A r \in rows : \A m \in r.refs : Has(db, m) \/ m \in {s.row : s \in rows}
  PROVE  /\ Stored(EnsureRows(db, rows), T)
         /\ Resolves(db) => Resolves(EnsureRows(db, rows))
         /\ \A n \in Names : Has(db, n) => EnsureRows(db, rows)[n] = db[n]
         /\ \A n \in Names : Has(EnsureRows(db, rows), n) => Has(db, n) \/ n \in {r.row : r \in rows}
<1> DEFINE made   == {r.row : r \in {r \in rows : ~ Has(db, r.row)}}
           key(n) == IF n \in made THEN FreshId(n) ELSE db[n].id
           new    == EnsureRows(db, rows)
<1>1. DOMAIN new = Names
  BY DEF EnsureRows
<1>2. \A n \in Names : n \notin made => new[n] = db[n]
  BY DEF EnsureRows
<1>3. \A n \in Names : n \in made =>
          /\ new[n].id = key(n) /\ DOMAIN new[n].refs = RowOf[n].refs
          /\ \A m \in RowOf[n].refs : new[n].refs[m] = key(m)
  BY DEF EnsureRows
<1>4. made \subseteq Names /\ \A n \in made : ~ Has(db, n) /\ TableOf[n] \in T /\ RowOf[n] \in rows
  BY RowNamed
<1>5. \A n \in Names : FreshId(n) \in Nat \ {0}
  BY DEF FreshId
<1>6. \A n \in Names : new[n].id = key(n)
  BY <1>2, <1>3
<1> HIDE DEF new
<1>7. \A n \in Names : Has(new, n) <=> Has(db, n) \/ n \in made
  BY <1>4, <1>5, <1>6 DEF Has
<1>8. \A n \in Names : MustRefer(n) \subseteq RowOf[n].refs /\ RowOf[n].refs \subseteq MayRefer(n)
  BY DEF MustRefer, MayRefer
<1>9. Stored(new, T)
  <2> HIDE DEF made
  <2> SUFFICES ASSUME NEW n \in Names
               PROVE  /\ new[n].id \in Nat
                      /\ DOMAIN new[n].refs \subseteq MayRefer(n)
                      /\ Has(new, n) => TableOf[n] \in T /\ MustRefer(n) \subseteq DOMAIN new[n].refs
                      /\ ~ Has(new, n) => DOMAIN new[n].refs = {}
    BY <1>1 DEF Stored
  <2>1. CASE n \in made
    BY <1>3, <1>4, <1>5, <1>7, <1>8, <2>1
  <2>2. CASE n \notin made
    BY <1>2, <1>7, <2>2 DEF Stored
  <2> QED BY <2>1, <2>2
<1>10. ASSUME Resolves(db) PROVE Resolves(new)
  <2> SUFFICES ASSUME NEW n \in Names, NEW m \in DOMAIN new[n].refs
               PROVE  Has(new, m) /\ new[n].refs[m] = new[m].id
    BY DEF Resolves
  <2>1. CASE n \in made
    <3>1. m \in RowOf[n].refs /\ RowOf[n] \in rows
      BY <1>3, <1>4, <2>1
    <3>2. Has(db, m) \/ m \in {s.row : s \in rows}
      BY <3>1
    <3>3. m \in Names
      BY <3>1, RefersTo DEF MayRefer
    <3>4. Has(new, m)
      BY <1>7, <3>2, <3>3
    <3>5. new[n].refs[m] = key(m)
      BY <1>3, <2>1, <3>1
    <3> QED BY <1>6, <3>3, <3>4, <3>5
  <2>2. CASE n \notin made
    <3>1. new[n] = db[n]
      BY <1>2, <2>2
    <3>2. Has(db, m) /\ db[n].refs[m] = db[m].id
      BY <1>10, <3>1 DEF Resolves
    <3>3. m \in Names
      BY <3>1, RefersTo DEF Stored
    <3>4. m \notin made
      BY <1>4, <3>2
    <3> QED BY <1>2, <1>7, <3>1, <3>2, <3>3, <3>4
  <2> QED BY <2>1, <2>2
<1>11. \A n \in Names : Has(db, n) => new[n] = db[n]
  BY <1>2, <1>4
<1>12. \A n \in Names : Has(new, n) => Has(db, n) \/ n \in {r.row : r \in rows}
  BY <1>7
<1> QED BY <1>9, <1>10, <1>11, <1>12 DEF new

\* Whatever number of its deletes the reset has done, no row of a table it deletes from
\* dangles: cleared references are gone, and a failure went before the evidence of its run.
LEMMA ResetLeaves ==
  ASSUME NEW T, Stored(disk, T), Resolves(disk), NEW c \in Scopes, NEW k \in DOMAIN ResetOrder,
         NEW n \in Dangling(After(<<c, "run">>, k))
  PROVE  TableOf[n] \notin ResetTables
<1> DEFINE run  == <<c, "run">>
           gone == UNION {OfRun(disk, run, ResetOrder[i]) : i \in 1 .. k}
<1>1. /\ DOMAIN ResetOrder = 1 .. 4 /\ ResetOrder[1] = "consequential_events" /\ ResetOrder[2] = "failures"
      /\ ResetOrder[3] = "evidence" /\ ResetOrder[4] = "executions"
  BY DEF ResetOrder
<1>2. \A m \in gone : /\ m \in Names /\ TableOf[m] \in ResetTables /\ run \in DOMAIN disk[m].refs
                      /\ TableOf[m] = "evidence" => 3 <= k
  BY <1>1, ResetTablesAre DEF OfRun
<1>3. n \in Names \ gone /\ \E m \in DOMAIN disk[n].refs : m \in gone /\ ~ Cleared(n, m)
  BY <1>2, DanglingIs DEF After
<1>4. PICK m \in DOMAIN disk[n].refs : m \in gone /\ ~ Cleared(n, m)
  BY <1>3
<1> SUFFICES ASSUME TableOf[n] \in ResetTables PROVE FALSE
  OBVIOUS
<1>5. Has(disk, n) /\ m \in MayRefer(n) /\ m \in Names
  BY <1>3, <1>4, RefersTo DEF Stored
<1>6. TableOf[m] = "evidence" /\ TableOf[n] = "failures"
  BY <1>2, <1>3, <1>4, <1>5, ResetRows, ResetTablesAre
<1>7. TableOf[Demo("delta")] = "behavioral_deltas"
  BY SeedKeys, RowNamed DEF AllRows
<1>8. m \in RowOf[n].refs
  BY <1>5, <1>6, <1>7 DEF MayRefer
<1>9. run \in RowOf[m].refs
  BY <1>2, <1>4, <1>5, <1>6, <1>7 DEF Stored, MayRefer
<1>10. run \in RowOf[n].refs
  BY <1>3, <1>6, <1>8, <1>9, FailureOfRun
<1>11. run \in DOMAIN disk[n].refs
  BY <1>3, <1>5, <1>10, RunOfScope, ResetTablesAre DEF Stored, MustRefer
<1>12. n \in OfRun(disk, run, ResetOrder[2])
  BY <1>1, <1>3, <1>5, <1>6, <1>11 DEF OfRun
<1>13. 2 \in 1 .. k
  BY <1>1, <1>2, <1>4, <1>6
<1> QED BY <1>3, <1>12, <1>13

-----------------------------------------------------------------------------
(* The invariant. *)

WorkerStates == [pc : Idle \cup {"schema", "look", "insert"}, left : SUBSET TableNames,
                 next : 1 .. 38, seen : [{r.row : r \in SeedRows} -> Nat]]

\* Types.  Of the rows, their types are part of what is stored (RowsSound).
StoreTypeOK ==
  /\ enforced \in BOOLEAN /\ stamped \in BOOLEAN /\ demolished \in BOOLEAN
  /\ tables \subseteq TableNames
  /\ job \in [kind : {"none", "upgrade"} \cup Destructive, left : SUBSET TableNames]
  /\ worker \in [Workers -> WorkerStates]
  /\ writer \in Workers \cup {NoWorker}
  /\ starts \in Nat /\ jobs \in Nat /\ resets \in Nat

\* Who creates tables has all that are missing on its list, who drops them all there are.
WorkLeft ==
  /\ \A w \in Workers : worker[w].pc = "schema" => /\ TableNames \ tables \subseteq worker[w].left
                                                   /\ worker[w].next = 1
  /\ job.kind = "upgrade" => TableNames \ tables \subseteq job.left
  /\ job.kind \in Destructive => tables \subseteq job.left /\ \A w \in Workers : worker[w].pc \in Idle

\* A table has the tables its foreign keys target.
TablesClosed == \A t \in tables : Targets[t] \subseteq tables

\* A database at the revision has every table, unless one was dropped.
StampedWhole == stamped /\ ~ demolished => Whole

\* No reset can have left a reference dangling.
Trusted == enforced \/ resets = 0

\* Rows are in tables there are and refer along their foreign keys, to rows there are.
RowsSound == /\ Stored(disk, tables) /\ Stored(view, tables)
             /\ Trusted => Resolves(disk) /\ Resolves(view)

Seeding == {"look", "insert"}

\* Without a writer there is nothing uncommitted; a writer seeds and overwrites no row.
WriterSound ==
  /\ writer = NoWorker => view = disk
  /\ writer # NoWorker => /\ worker[writer].pc \in Seeding
                          /\ \A n \in Names : Has(disk, n) => view[n].id = disk[n].id

\* No reset so far has removed the row.
Kept(n) == resets = 0 \/ TableOf[n] \notin ResetTables

\* A process knows the key of a row, which is the one the row has unless it was reset.
Knows(w, n) == worker[w].seen[n] # 0 /\ (Kept(n) => Visible(w)[n].id = worker[w].seen[n])

\* A process at its i-th row has found or made all the rows before it.
SeenSound ==
  \A w \in Workers : worker[w].pc \in Seeding =>
    /\ worker[w].pc = "insert" => worker[w].next \in 1 .. 37
    /\ \A j \in 1 .. 37 : j < worker[w].next => Knows(w, Seeds[j].row)

\* The scenario is committed whole: with its project, every row that is kept.
SeedComplete ==
  ~ demolished /\ Has(disk, Demo("project")) => \A r \in SeedRows : Has(disk, r.row) \/ ~ Kept(r.row)

\* The inductive invariant.
StoreInv ==
  /\ StoreTypeOK /\ WorkLeft /\ TablesClosed /\ StampedWhole /\ RowsSound /\ WriterSound /\ SeenSound
  /\ SeedComplete /\ ResetOrderSafe

\* The i-th seed is a row of its table.
LEMMA SeedRow ==
  \A i \in 1 .. 37 : /\ Seeds[i] \in SeedRows /\ Seeds[i] \in AllRows /\ Seeds[i].row \in Names
                     /\ TableOf[Seeds[i].row] = Seeds[i].table
BY SeedRowsAre, RowNamed DEF AllRows

\* A process that is down.
LEMMA WorkerIs == Worker \in WorkerStates /\ Worker.pc = "down" /\ Worker.left = {} /\ Worker.next = 1
BY DEF Worker, WorkerStates, Idle

\* A store that was never started.
LEMMA StoreInvHolds == StoreInit => StoreInv
<1> SUFFICES ASSUME StoreInit PROVE StoreInv
  OBVIOUS
<1> USE DEF StoreInit
<1>1. StoreTypeOK
  BY WorkerIs DEF StoreTypeOK, NoJob
<1>2. WorkLeft /\ TablesClosed /\ StampedWhole
  BY WorkerIs DEF WorkLeft, TablesClosed, StampedWhole, NoJob, Destructive
<1>3. \A n \in Names : disk[n].id = 0 /\ DOMAIN disk[n].refs = {}
  BY DEF Absent
<1>4. \A n \in Names : ~ Has(disk, n)
  BY <1>3 DEF Has
<1>5. RowsSound
  BY <1>3, <1>4 DEF RowsSound, Stored, Resolves
<1>6. WriterSound /\ SeenSound
  BY WorkerIs DEF WriterSound, SeenSound, Seeding
<1>7. SeedComplete
  <2>1. Demo("project") \in Names
    BY SeedKeys, RowNamed DEF AllRows
  <2> QED BY <1>4, <2>1 DEF SeedComplete
<1>8. ResetOrderSafe
  BY DEF ResetOrderSafe
<1> QED BY <1>1, <1>2, <1>5, <1>6, <1>7, <1>8 DEF StoreInv

\* A process stops.
LEMMA FailsKeeps ==
  ASSUME StoreInv, NEW w \in Workers, Fails(w),
         UNCHANGED <<enforced, tables, stamped, job, disk, starts, jobs, resets, blocked, demolished>>
  PROVE  StoreInv'
<1> USE DEF StoreInv
<1>0. w # NoWorker
  BY WorkersAssumption DEF NoWorker
<1>1. /\ worker' = [worker EXCEPT ![w] = [Worker EXCEPT !.pc = "failed"]]
      /\ IF writer = w THEN writer' = NoWorker /\ view' = disk ELSE UNCHANGED <<writer, view>>
  BY DEF Fails
<1>2. /\ worker'[w].pc = "failed" /\ worker'[w] \in WorkerStates
      /\ \A v \in Workers : v # w => worker'[v] = worker[v]
      /\ worker' \in [Workers -> WorkerStates]
  <2>1. worker \in [Workers -> WorkerStates]
    BY DEF StoreTypeOK
  <2>2. [Worker EXCEPT !.pc = "failed"] \in WorkerStates /\ [Worker EXCEPT !.pc = "failed"].pc = "failed"
    BY WorkerIs DEF WorkerStates, Idle
  <2> QED BY <1>1, <2>1, <2>2
<1>3. StoreTypeOK'
  BY <1>1, <1>2 DEF StoreTypeOK
<1>4. WorkLeft' /\ TablesClosed' /\ StampedWhole'
  BY <1>2 DEF WorkLeft, TablesClosed, StampedWhole, Whole, Idle
<1>5. RowsSound'
  BY <1>1 DEF RowsSound, Trusted
<1>6. WriterSound'
  BY <1>1, <1>2 DEF WriterSound
<1>7. \A v \in Workers : v # w => Visible(v)' = Visible(v)
  BY <1>0, <1>1 DEF Visible, WriterSound
<1>8. SeenSound'
  <2> SUFFICES ASSUME NEW v \in Workers, worker'[v].pc \in Seeding
               PROVE  /\ worker'[v].pc = "insert" => worker'[v].next \in 1 .. 37
                      /\ \A j \in 1 .. 37 : j < worker'[v].next => Knows(v, Seeds[j].row)'
    BY DEF SeenSound
  <2>1. v # w /\ worker'[v] = worker[v]
    BY <1>2 DEF Seeding
  <2>2. \A n : Knows(v, n) => Knows(v, n)'
    BY <1>7, <2>1 DEF Knows, Kept
  <2> QED BY <2>1, <2>2 DEF SeenSound
<1>9. SeedComplete' /\ ResetOrderSafe'
  BY DEF SeedComplete, ResetOrderSafe, Kept
<1> QED BY <1>3, <1>4, <1>5, <1>6, <1>8, <1>9

\* A process moves on, and nothing else does.
LEMMA MovesKeeps ==
  ASSUME StoreInv, NEW w \in Workers, NEW x \in WorkerStates,
         worker' = [worker EXCEPT ![w] = x], starts' \in Nat,
         UNCHANGED <<enforced, tables, stamped, job, writer, view, disk, jobs, resets, blocked, demolished>>,
         job.kind \notin Destructive,
         x.pc = "schema" => TableNames \ tables \subseteq x.left /\ x.next = 1,
         writer = w => x.pc \in Seeding,
         x.pc = "insert" => x.next \in 1 .. 37,
         x.pc \in Seeding => \A j \in 1 .. 37 : j < x.next =>
            LET n == Seeds[j].row IN x.seen[n] # 0 /\ (Kept(n) => Visible(w)[n].id = x.seen[n])
  PROVE  StoreInv'
<1> USE DEF StoreInv
<1>1. worker'[w] = x /\ (\A v \in Workers : v # w => worker'[v] = worker[v]) /\ worker' \in [Workers -> WorkerStates]
  BY DEF StoreTypeOK
<1>2. StoreTypeOK'
  BY <1>1 DEF StoreTypeOK
<1>3. WorkLeft' /\ TablesClosed' /\ StampedWhole'
  BY <1>1 DEF WorkLeft, TablesClosed, StampedWhole, Whole
<1>4. RowsSound'
  BY DEF RowsSound, Trusted
<1>5. WriterSound'
  <2>1. writer # NoWorker => worker'[writer].pc \in Seeding
    <3>1. CASE writer = w
      BY <1>1, <3>1
    <3>2. CASE writer # w
      BY <1>1, <3>2 DEF WriterSound, StoreTypeOK
    <3> QED BY <3>1, <3>2
  <2> QED BY <2>1 DEF WriterSound
<1>6. \A v \in Workers : Visible(v)' = Visible(v)
  BY DEF Visible
<1>7. SeenSound'
  <2> SUFFICES ASSUME NEW v \in Workers, worker'[v].pc \in Seeding
               PROVE  /\ worker'[v].pc = "insert" => worker'[v].next \in 1 .. 37
                      /\ \A j \in 1 .. 37 : j < worker'[v].next => Knows(v, Seeds[j].row)'
    BY DEF SeenSound
  <2>1. CASE v = w
    BY <1>1, <1>6, <2>1 DEF Knows, Kept
  <2>2. CASE v # w
    <3>1. worker'[v] = worker[v]
      BY <1>1, <2>2
    <3>2. \A n : Knows(v, n) => Knows(v, n)'
      BY <1>6, <3>1 DEF Knows, Kept
    <3> QED BY <3>1, <3>2 DEF SeenSound
  <2> QED BY <2>1, <2>2
<1>8. SeedComplete' /\ ResetOrderSafe'
  BY DEF SeedComplete, ResetOrderSafe, Kept
<1> QED BY <1>2, <1>3, <1>4, <1>5, <1>7, <1>8

SeenBy(v) ==
  worker[v].pc \in Seeding =>
    /\ worker[v].pc = "insert" => worker[v].next \in 1 .. 37
    /\ \A j \in 1 .. 37 : j < worker[v].next => Knows(v, Seeds[j].row)

\* The invariant of the processes, one by one.
LEMMA SeenIs == SeenSound <=> \A v \in Workers : SeenBy(v)
BY DEF SeenSound, SeenBy

\* What a process knows of the rows it passed stays true while they stay.
LEMMA SeenStays ==
  ASSUME NEW v \in Workers, SeenBy(v), worker'[v] = worker[v], resets \in Nat, resets' \in {resets, resets + 1},
         \A n \in Names : Kept(n)' /\ Has(Visible(v), n) => Visible(v)'[n].id = Visible(v)[n].id
  PROVE  SeenBy(v)'
<1>1. \A n \in Names : Kept(n)' => Kept(n)
  BY DEF Kept
<1>2. \A n \in Names : Knows(v, n) => Knows(v, n)'
  <2> SUFFICES ASSUME NEW n \in Names, Knows(v, n) PROVE Knows(v, n)'
    OBVIOUS
  <2>1. worker'[v].seen[n] = worker[v].seen[n] /\ worker[v].seen[n] # 0
    BY DEF Knows
  <2>2. ASSUME Kept(n)' PROVE Visible(v)'[n].id = worker[v].seen[n]
    <3>1. Visible(v)[n].id = worker[v].seen[n]
      BY <1>1, <2>2 DEF Knows
    <3>2. Has(Visible(v), n)
      BY <2>1, <3>1 DEF Has
    <3> QED BY <2>2, <3>1, <3>2
  <2> QED BY <2>1, <2>2 DEF Knows
<1> QED BY <1>2, SeedRow DEF SeenBy

\* A process starts.
LEMMA StartWorkerKeeps == ASSUME StoreInv, NEW w \in Workers, StartWorker(w) PROVE StoreInv'
<1> DEFINE x == [Worker EXCEPT !.pc = "schema", !.left = ToSet(UpgradeOrder) \ tables]
<1>1. x \in WorkerStates /\ x.pc = "schema" /\ x.left = TableNames \ tables /\ x.next = 1
  BY WorkerIs, OrderIsWhole DEF WorkerStates
<1>2. writer # w
  BY WorkersAssumption DEF StoreInv, StoreTypeOK, WriterSound, StartWorker, Idle, Seeding, NoWorker
<1>3. starts' \in Nat
  BY DEF StoreInv, StoreTypeOK, StartWorker
<1>4. /\ worker' = [worker EXCEPT ![w] = x] /\ job.kind \notin Destructive
      /\ UNCHANGED <<enforced, tables, stamped, job, writer, view, disk, jobs, resets, blocked, demolished>>
  BY DEF StartWorker
<1> HIDE DEF x
<1> QED BY <1>1, <1>2, <1>3, <1>4, MovesKeeps DEF Seeding

\* No table is dropped while a process is setting up.
LEMMA SettingUp ==
  ASSUME StoreInv, NEW w \in Workers, worker[w].pc \notin Idle
  PROVE  job.kind \notin Destructive
BY DEF StoreInv, WorkLeft

\* A process that has the schema looks whether to seed.
LEMMA CountProjectsKeeps == ASSUME StoreInv, NEW w \in Workers, CountProjects(w) PROVE StoreInv'
<1>1. CASE "projects" \notin tables
  <2>1. Fails(w)
    BY <1>1 DEF CountProjects
  <2> QED BY <2>1, FailsKeeps DEF CountProjects
<1>2. CASE "projects" \in tables
  <2>1. PICK pc \in {"up", "look"} : worker' = [worker EXCEPT ![w].pc = pc]
    BY <1>2 DEF CountProjects
  <2> DEFINE x == [worker[w] EXCEPT !.pc = pc]
  <2>2. worker[w] \in WorkerStates /\ worker[w].pc = "schema" /\ worker[w].next = 1
    BY DEF StoreInv, StoreTypeOK, WorkLeft, CountProjects
  <2>3. x \in WorkerStates /\ x.pc = pc /\ x.next = 1
    BY <2>2 DEF WorkerStates, Idle
  <2>4. worker' = [worker EXCEPT ![w] = x]
    BY <2>1 DEF StoreInv, StoreTypeOK
  <2>5. writer # w
    BY <2>2, WorkersAssumption DEF StoreInv, StoreTypeOK, WriterSound, Seeding, NoWorker
  <2>6. starts' \in Nat
    BY DEF StoreInv, StoreTypeOK, CountProjects
  <2>7. job.kind \notin Destructive
    BY <2>2, SettingUp DEF Idle
  <2>8. UNCHANGED <<enforced, tables, stamped, job, writer, view, disk, jobs, resets, blocked, demolished>>
    BY <1>2 DEF CountProjects
  <2>9. x.pc \notin {"schema", "insert"} /\ \A j \in 1 .. 37 : ~ (j < x.next)
    BY <2>3
  <2> HIDE DEF x
  <2> QED BY <2>3, <2>4, <2>5, <2>6, <2>7, <2>8, <2>9, MovesKeeps
<1> QED BY <1>1, <1>2

\* A process looks a row up.
LEMMA LookUpKeeps == ASSUME StoreInv, NEW w \in Workers, LookUp(w) PROVE StoreInv'
<1> DEFINE at == worker[w].next
           n  == Seeds[at].row
           db == Visible(w)
<1>1. CASE Seeds[at].table \notin tables
  <2>1. Fails(w)
    BY <1>1 DEF LookUp
  <2> QED BY <2>1, FailsKeeps DEF LookUp
<1>2. CASE Seeds[at].table \in tables
  <2>1. /\ worker[w] \in WorkerStates /\ worker[w].pc = "look" /\ at \in 1 .. 37
        /\ worker \in [Workers -> WorkerStates] /\ starts \in Nat /\ resets \in Nat
        /\ SeenBy(w)
    <3>1. worker \in [Workers -> WorkerStates] /\ starts \in Nat /\ resets \in Nat
      BY DEF StoreInv, StoreTypeOK
    <3>2. SeenBy(w)
      BY SeenIs DEF StoreInv
    <3>3. worker[w].pc = "look" /\ at <= 37
      BY SeedsAre DEF LookUp
    <3>4. at \in 1 .. 38
      BY <3>1 DEF WorkerStates
    <3> QED BY <3>1, <3>2, <3>3, <3>4
  <2>2. db[n].id \in Nat
    BY <2>1, SeedRow DEF StoreInv, RowsSound, Stored, Visible
  <2>3. job.kind \notin Destructive
    BY <2>1, SettingUp DEF Idle
  <2>4. /\ UNCHANGED <<enforced, tables, stamped, job, writer, view, disk, jobs, resets, blocked, demolished>>
        /\ starts' \in Nat
    BY <1>2, <2>1 DEF LookUp
  <2>5. n \in {r.row : r \in SeedRows}
    BY <2>1, SeedRow
  <2>6. CASE Has(db, n)
    <3> DEFINE x == [worker[w] EXCEPT !.next = at + 1, !.seen[n] = db[n].id]
    <3>1. worker' = [worker EXCEPT ![w] = x]
      BY <1>2, <2>1, <2>6 DEF LookUp
    <3>2. x \in WorkerStates /\ x.pc = "look" /\ x.next = at + 1
      <4>1. at + 1 \in 1 .. 38 /\ [worker[w].seen EXCEPT ![n] = db[n].id] \in [{r.row : r \in SeedRows} -> Nat]
        BY <2>1, <2>2, <2>5 DEF WorkerStates
      <4> QED BY <2>1, <4>1 DEF WorkerStates
    <3>3. x.seen[n] = db[n].id /\ \A m \in {r.row : r \in SeedRows} : m # n => x.seen[m] = worker[w].seen[m]
      BY <2>1, <2>5 DEF WorkerStates
    <3>4. ASSUME NEW j \in 1 .. 37, j < x.next
          PROVE  x.seen[Seeds[j].row] # 0 /\ (Kept(Seeds[j].row) => Visible(w)[Seeds[j].row].id = x.seen[Seeds[j].row])
      <4>1. CASE j = at
        BY <2>6, <3>3, <4>1 DEF Has
      <4>2. CASE j # at
        <5>1. j < at /\ Seeds[j].row # n /\ Seeds[j].row \in {r.row : r \in SeedRows}
          <6>1. j < at
            BY <2>1, <3>2, <3>4, <4>2
          <6>2. Seeds[j].row # n
            BY <2>1, <4>2, SeedsAre
          <6> QED BY <6>1, <6>2, SeedRow
        <5>2. Knows(w, Seeds[j].row)
          BY <2>1, <5>1 DEF SeenBy, Seeding
        <5> QED BY <3>3, <5>1, <5>2 DEF Knows
      <4> QED BY <4>1, <4>2
    <3> HIDE DEF x
    <3> QED BY <2>3, <2>4, <3>1, <3>2, <3>4, MovesKeeps DEF Seeding
  <2>7. CASE ~ Has(db, n)
    <3> DEFINE x == [worker[w] EXCEPT !.pc = "insert"]
    <3>1. worker' = [worker EXCEPT ![w] = x]
      BY <1>2, <2>1, <2>7 DEF LookUp
    <3>2. x \in WorkerStates /\ x.pc = "insert" /\ x.next = at /\ x.seen = worker[w].seen
      BY <2>1 DEF WorkerStates
    <3>3. \A j \in 1 .. 37 : j < at => Knows(w, Seeds[j].row)
      BY <2>1 DEF SeenBy, Seeding
    <3> HIDE DEF x
    <3>4. \A j \in 1 .. 37 : j < x.next =>
            LET m == Seeds[j].row IN x.seen[m] # 0 /\ (Kept(m) => Visible(w)[m].id = x.seen[m])
      BY <3>2, <3>3 DEF Knows
    <3> QED BY <2>1, <2>3, <2>4, <3>1, <3>2, <3>4, MovesKeeps DEF Seeding
  <2> QED BY <2>6, <2>7
<1> QED BY <1>1, <1>2

\* A table more keeps the rows well formed.
LEMMA StoredGrows ==
  ASSUME NEW db, NEW T, NEW U, Stored(db, T), T \subseteq U
  PROVE  Stored(db, U)
BY DEF Stored

\* A table is created.
LEMMA CreatedKeeps ==
  ASSUME StoreInv, NEW t \in TableNames, Targets[t] \subseteq tables, tables' = tables \cup {t},
         UNCHANGED <<enforced, stamped, writer, view, disk, starts, jobs, resets, blocked, demolished>>,
         StoreTypeOK', WorkLeft',
         \A v \in Workers : worker'[v] = worker[v] \/ (worker[v].pc \notin Seeding /\ worker'[v].pc \notin Seeding)
  PROVE  StoreInv'
<1> USE DEF StoreInv
<1>1. TablesClosed'
  BY DEF TablesClosed
<1>2. StampedWhole'
  BY DEF StampedWhole, Whole, StoreTypeOK
<1>3. RowsSound'
  <2>1. tables \subseteq tables'
    OBVIOUS
  <2>2. Stored(disk', tables') /\ Stored(view', tables')
    BY <2>1, StoredGrows DEF RowsSound
  <2> QED BY <2>2 DEF RowsSound, Trusted
<1>4. WriterSound'
  BY DEF WriterSound, StoreTypeOK
<1>5. SeenSound'
  <2> SUFFICES ASSUME NEW v \in Workers PROVE SeenBy(v)'
    BY DEF SeenSound, SeenBy
  <2>1. SeenBy(v) /\ resets \in Nat
    BY SeenIs DEF StoreTypeOK
  <2>2. CASE worker'[v] = worker[v]
    <3>1. Visible(v)' = Visible(v)
      BY DEF Visible
    <3> QED BY <2>1, <2>2, <3>1, SeenStays
  <2>3. CASE worker'[v].pc \notin Seeding
    BY <2>3 DEF SeenBy
  <2> QED BY <2>2, <2>3
<1>6. SeedComplete' /\ ResetOrderSafe'
  BY DEF SeedComplete, ResetOrderSafe, Kept
<1> QED BY <1>1, <1>2, <1>3, <1>4, <1>5, <1>6

\* A process creates a table.
LEMMA CreateTableKeeps == ASSUME StoreInv, NEW w \in Workers, CreateTable(w) PROVE StoreInv'
<1>1. PICK t \in worker[w].left :
       /\ IsFirst(t, worker[w].left, UpgradeOrder)
       /\ IF t \in tables
          THEN Fails(w) /\ UNCHANGED tables
          ELSE /\ tables' = tables \cup {t}
               /\ worker' = [worker EXCEPT ![w].left = @ \ {t}]
               /\ UNCHANGED <<writer, view>>
  BY DEF CreateTable
<1>2. UNCHANGED <<enforced, stamped, job, disk, starts, jobs, resets, blocked, demolished>> /\ worker[w].pc = "schema"
  BY DEF CreateTable
<1>3. CASE t \in tables
  BY <1>1, <1>2, <1>3, FailsKeeps
<1>4. CASE t \notin tables
  <2>1. worker \in [Workers -> WorkerStates] /\ tables \subseteq TableNames /\ TableNames \ tables \subseteq worker[w].left
    BY <1>2 DEF StoreInv, StoreTypeOK, WorkLeft
  <2>2. t \in TableNames /\ Targets[t] \subseteq tables
    BY <1>1, <2>1, CreatedInOrder
  <2> DEFINE x == [worker[w] EXCEPT !.left = @ \ {t}]
  <2>3. x \in WorkerStates /\ x.pc = "schema" /\ x.left = worker[w].left \ {t} /\ x.next = worker[w].next
    BY <1>2, <2>1 DEF WorkerStates
  <2>4. worker' = [worker EXCEPT ![w] = x]
    BY <1>1, <1>4, <2>1
  <2> HIDE DEF x
  <2>5. worker' \in [Workers -> WorkerStates] /\ worker'[w] = x /\ \A v \in Workers : v # w => worker'[v] = worker[v]
    BY <2>1, <2>3, <2>4
  <2>6. StoreTypeOK'
    BY <1>1, <1>2, <1>4, <2>2, <2>5 DEF StoreInv, StoreTypeOK
  <2>7. job.kind \notin Destructive
    BY <1>2, SettingUp DEF Idle
  <2>8. WorkLeft'
    BY <1>1, <1>2, <1>4, <2>3, <2>5, <2>7 DEF StoreInv, WorkLeft
  <2> QED BY <1>1, <1>2, <1>4, <2>2, <2>3, <2>5, <2>6, <2>8, CreatedKeeps DEF Seeding
<1> QED BY <1>3, <1>4

\* A process times out or dies.
LEMMA StopsKeeps == ASSUME StoreInv, NEW w \in Workers, LockTimeout(w) \/ Crash(w) PROVE StoreInv'
BY FailsKeeps DEF LockTimeout, Crash

\* A new key is a key.
LEMMA FreshIs == resets \in Nat => \A n : FreshId(n) \in Nat \ {0}
BY DEF FreshId

\* A process inserts a row: what it refers to was seen, and is still there.
LEMMA InsertRowKeeps == ASSUME StoreInv, NEW w \in Workers, InsertRow(w) PROVE StoreInv'
<1> DEFINE at == worker[w].next
           r  == Seeds[at]
           db == Visible(w)
           seen == worker[w].seen
           resolves == \A m \in r.refs : db[m].id = seen[m]
           id == FreshId(r.row)
           new == PutRow(db, r, id, seen)
<1> USE DEF StoreInv
<1>1. CASE r.table \notin tables \/ Has(db, r.row) \/ (enforced /\ ~ resolves)
  <2>1. Fails(w)
    BY <1>1 DEF InsertRow
  <2> QED BY <2>1, FailsKeeps DEF InsertRow
<1>2. CASE ~ (r.table \notin tables \/ Has(db, r.row) \/ (enforced /\ ~ resolves))
  <2>1. /\ worker[w] \in WorkerStates /\ worker \in [Workers -> WorkerStates] /\ worker[w].pc = "insert"
        /\ resets \in Nat /\ writer \in {NoWorker, w} /\ w # NoWorker
    BY WorkersAssumption DEF StoreTypeOK, InsertRow, NoWorker
  <2>2. SeenBy(w) /\ at \in 1 .. 37
    BY <2>1, SeenIs DEF SeenBy, Seeding
  <2>3. r \in AllRows /\ r \in SeedRows /\ r.row \in Names /\ TableOf[r.row] = r.table /\ r.table \in tables /\ ~ Has(db, r.row)
    BY <1>2, <2>2, SeedRow
  <2>4. Stored(db, tables) /\ (Trusted => Resolves(db))
    BY DEF RowsSound, Visible
  <2>5. id \in Nat \ {0}
    BY <2>1, FreshIs
  <2>6. /\ writer' = w /\ view' = new
        /\ worker' = [worker EXCEPT ![w] = [@ EXCEPT !.pc = "look", !.next = at + 1, !.seen[r.row] = id]]
        /\ UNCHANGED <<enforced, tables, stamped, job, disk, starts, jobs, resets, blocked, demolished>>
    BY <1>2 DEF InsertRow
  <2> DEFINE x == [worker[w] EXCEPT !.pc = "look", !.next = at + 1, !.seen[r.row] = id]
  <2>7. worker'[w] = x /\ DOMAIN worker' = Workers /\ \A v \in Workers : v # w => worker'[v] = worker[v]
    <3> HIDE DEF id
    <3>1. worker'[w] = [worker[w] EXCEPT !.pc = "look", !.next = at + 1, !.seen[r.row] = id]
      BY <2>1, <2>6
    <3>2. DOMAIN worker' = Workers /\ \A v \in Workers : v # w => worker'[v] = worker[v]
      BY <2>1, <2>6
    <3> QED BY <3>1, <3>2
  <2>8. r.row \in {s.row : s \in SeedRows}
    BY <2>3
  <2>9. x \in WorkerStates /\ x.pc = "look" /\ x.next = at + 1
    <3> HIDE DEF id
    <3>1. at + 1 \in 1 .. 38 /\ [worker[w].seen EXCEPT ![r.row] = id] \in [{s.row : s \in SeedRows} -> Nat]
      BY <2>1, <2>2, <2>5, <2>8 DEF WorkerStates
    <3> QED BY <2>1, <3>1 DEF WorkerStates, Idle
  <2>10. x.seen[r.row] = id /\ \A m \in {s.row : s \in SeedRows} : m # r.row => x.seen[m] = seen[m]
    BY <2>1, <2>8 DEF WorkerStates
  <2> HIDE DEF x, id
  <2>11. /\ Stored(new, tables)
         /\ \A n \in Names : new[n].id = IF n = r.row THEN id ELSE db[n].id
    BY <2>3, <2>4, <2>5, PutStores
  <2>12. Trusted => Resolves(new)
    <3> SUFFICES ASSUME Trusted PROVE Resolves(new)
      OBVIOUS
    <3>1. ASSUME NEW m \in r.refs PROVE m # r.row /\ Has(db, m) /\ seen[m] = db[m].id
      <4>1. PICK j \in 1 .. (at - 1) : Seeds[j].row = m
        BY <2>2, SeedRefs
      <4>2. j \in 1 .. 37 /\ j < at
        BY <2>2, <4>1
      <4>3. Knows(w, m)
        BY <2>1, <2>2, <4>1, <4>2 DEF SeenBy, Seeding
      <4>4. db[m].id = seen[m]
        BY <1>2, <4>3 DEF Trusted, Knows, Kept
      <4>5. Has(db, m)
        BY <4>3, <4>4 DEF Has, Knows
      <4> QED BY <2>3, <4>4, <4>5
    <3>2. \A n \in Names : r.row \notin DOMAIN db[n].refs
      BY <2>3, <2>4, AbsentUnreferred
    <3> QED BY <2>3, <2>4, <2>5, <3>1, <3>2, PutResolves
  <2> HIDE DEF new
  <2>13. worker' \in [Workers -> WorkerStates] /\ worker'[w] = x /\ \A v \in Workers : v # w => worker'[v] = worker[v]
    <3>1. worker' = [v \in Workers |-> worker'[v]]
      BY <2>1, <2>6
    <3>2. \A v \in Workers : worker'[v] \in WorkerStates
      BY <2>1, <2>7, <2>9
    <3> QED BY <2>7, <3>1, <3>2
  <2>14. StoreTypeOK'
    BY <2>6, <2>13 DEF StoreTypeOK
  <2>15. job.kind \notin Destructive
    BY <2>1, SettingUp DEF Idle
  <2>16. WorkLeft' /\ TablesClosed' /\ StampedWhole'
    BY <2>6, <2>9, <2>13, <2>15 DEF WorkLeft, TablesClosed, StampedWhole, Whole
  <2>17. RowsSound'
    BY <2>6, <2>11, <2>12 DEF RowsSound, Trusted
  <2>18. WriterSound'
    <3>1. \A n \in Names : Has(disk, n) => db[n].id = disk[n].id
      BY <2>1 DEF WriterSound, Visible
    <3>2. ~ Has(disk, r.row)
      BY <2>3, <3>1 DEF Has
    <3>3. \A n \in Names : Has(disk, n) => new[n].id = disk[n].id
      BY <2>11, <3>1, <3>2
    <3>4. worker'[writer'].pc \in Seeding /\ writer' # NoWorker
      BY <2>1, <2>6, <2>9, <2>13 DEF Seeding
    <3> QED BY <2>6, <3>3, <3>4 DEF WriterSound, Has
  <2>19. SeenSound'
    <3> SUFFICES ASSUME NEW v \in Workers PROVE SeenBy(v)'
      BY SeenIs DEF SeenSound, SeenBy
    <3>1. CASE v = w
      <4>1. Visible(w)' = new
        BY <2>6 DEF Visible
      <4>2. ASSUME NEW j \in 1 .. 37, j < x.next PROVE Knows(w, Seeds[j].row)'
        <5>0. PICK n : n = Seeds[j].row
          OBVIOUS
        <5> SUFFICES Knows(w, n)'
          BY <5>0
        <5>1. CASE j = at
          <6>1. new[n].id = id /\ x.seen[n] = id /\ id # 0
            BY <2>3, <2>5, <2>10, <2>11, <5>0, <5>1
          <6> QED BY <2>13, <4>1, <6>1 DEF Knows
        <5>2. CASE j # at
          <6>1. j < at
            BY <2>2, <2>9, <4>2, <5>2
          <6>2. n # r.row /\ n \in {s.row : s \in SeedRows} /\ n \in Names
            BY <2>2, <5>0, <5>2, SeedsAre, SeedRow
          <6>3. Knows(w, n)
            BY <2>1, <2>2, <5>0, <6>1 DEF SeenBy, Seeding
          <6>4. x.seen[n] = seen[n] /\ new[n].id = db[n].id
            BY <2>10, <2>11, <6>2
          <6> QED BY <2>6, <2>13, <4>1, <6>3, <6>4 DEF Knows, Kept
        <5> QED BY <5>1, <5>2
      <4> QED BY <2>9, <2>13, <3>1, <4>2 DEF SeenBy
    <3>2. CASE v # w
      <4>1. Visible(v)' = Visible(v)
        BY <2>1, <2>6, <3>2 DEF Visible, WriterSound
      <4> QED BY <2>1, <2>6, <2>13, <3>2, <4>1, SeenIs, SeenStays
    <3> QED BY <3>1, <3>2
  <2>20. SeedComplete' /\ ResetOrderSafe'
    BY <2>6 DEF SeedComplete, ResetOrderSafe, Kept
  <2> QED BY <2>14, <2>16, <2>17, <2>18, <2>19, <2>20
<1> QED BY <1>1, <1>2

\* A committed store: what other processes know of it stays true.
LEMMA CommittedKeepsSeen ==
  ASSUME StoreInv, NEW S \in SUBSET Workers, \A v \in S : worker'[v] = worker[v] /\ writer # v,
         writer' = NoWorker, resets' \in {resets, resets + 1},
         \A n \in Names : Kept(n)' /\ Has(disk, n) => disk'[n].id = disk[n].id
  PROVE  \A v \in S : SeenBy(v)'
<1> SUFFICES ASSUME NEW v \in S PROVE SeenBy(v)'
  OBVIOUS
<1>1. SeenBy(v) /\ resets \in Nat /\ v # NoWorker
  BY SeenIs, WorkersAssumption DEF StoreInv, StoreTypeOK, NoWorker
<1>2. Visible(v) = disk /\ Visible(v)' = disk'
  BY <1>1 DEF Visible
<1> QED BY <1>1, <1>2, SeenStays

\* A process commits: it has seen every row of the scenario.
LEMMA CommitSeedKeeps == ASSUME StoreInv, NEW w \in Workers, CommitSeed(w) PROVE StoreInv'
<1> DEFINE db == Visible(w)
           seen == worker[w].seen
           new == BindDelta(db, seen)
           x == [Worker EXCEPT !.pc = "up"]
<1>1. CASE ~ Has(db, Demo("delta"))
  <2>1. Fails(w) /\ UNCHANGED disk
    BY <1>1 DEF CommitSeed
  <2> QED BY <2>1, FailsKeeps DEF CommitSeed
<1>2. CASE Has(db, Demo("delta"))
  <2>1. /\ worker[w] \in WorkerStates /\ worker \in [Workers -> WorkerStates] /\ worker[w].pc = "look"
        /\ worker[w].next = 38 /\ writer \in {NoWorker, w} /\ w # NoWorker /\ resets \in Nat
    <3>1. worker[w].next \in 1 .. 38 /\ worker[w].next > 37
      BY SeedsAre DEF StoreInv, StoreTypeOK, WorkerStates, CommitSeed
    <3>2. worker \in [Workers -> WorkerStates] /\ resets \in Nat
      BY DEF StoreInv, StoreTypeOK
    <3>3. worker[w].pc = "look" /\ writer \in {NoWorker, w} /\ w # NoWorker
      BY WorkersAssumption DEF CommitSeed, NoWorker
    <3>4. worker[w].next = 38
      BY <3>1
    <3> QED BY <3>2, <3>3, <3>4
  <2>2. disk' = new /\ view' = new /\ writer' = NoWorker /\ worker' = [worker EXCEPT ![w] = x]
    BY <1>2 DEF CommitSeed, Committed
  <2>3. UNCHANGED <<enforced, tables, stamped, job, starts, jobs, resets, blocked, demolished>>
    BY DEF CommitSeed
  <2>4. \A j \in 1 .. 37 : Knows(w, Seeds[j].row)
    <3>1. SeenBy(w)
      BY SeenIs DEF StoreInv
    <3> QED BY <2>1, <3>1 DEF SeenBy, Seeding
  <2>5. \A r \in SeedRows : Kept(r.row) => Has(db, r.row) /\ db[r.row].id = seen[r.row]
    <3> SUFFICES ASSUME NEW r \in SeedRows, Kept(r.row) PROVE Has(db, r.row) /\ db[r.row].id = seen[r.row]
      OBVIOUS
    <3>1. Knows(w, r.row)
      <4>1. PICK j \in 1 .. 37 : r = Seeds[j]
        BY ONLY SeedRowsAre, r \in SeedRows
      <4> QED BY <2>4, <4>1
    <3> QED BY <3>1 DEF Knows, Has
  <2>6. Stored(db, tables) /\ (Trusted => Resolves(db))
    BY DEF StoreInv, RowsSound, Visible
  <2>7. Has(db, Demo("certificate")) /\ seen[Demo("certificate")] = db[Demo("certificate")].id
    <3>1. PICK r \in SeedRows : r.row = Demo("certificate") /\ r.table = "certificates"
      BY SeedKeys
    <3>2. Kept(r.row)
      BY <3>1, RowNamed, ResetTablesAre DEF Kept, AllRows
    <3> QED BY <2>5, <3>1, <3>2
  <2>8. Stored(new, tables) /\ (\A n \in Names : new[n].id = db[n].id) /\ (Trusted => Resolves(new))
    BY <1>2, <2>6, <2>7, BindStores, BindResolves
  <2> HIDE DEF new
  <2>9. x \in WorkerStates /\ x.pc = "up"
    BY WorkerIs DEF WorkerStates, Idle
  <2> HIDE DEF x
  <2>10. worker' \in [Workers -> WorkerStates] /\ worker'[w] = x /\ \A v \in Workers : v # w => worker'[v] = worker[v]
    BY <2>1, <2>2, <2>9
  <2>11. StoreTypeOK'
    BY <2>2, <2>3, <2>10 DEF StoreInv, StoreTypeOK
  <2>12. job.kind \notin Destructive
    BY <2>1, SettingUp DEF Idle
  <2>13. WorkLeft' /\ TablesClosed' /\ StampedWhole'
    BY <2>3, <2>9, <2>10, <2>12 DEF StoreInv, WorkLeft, TablesClosed, StampedWhole, Whole
  <2>14. RowsSound'
    BY <2>2, <2>3, <2>8 DEF RowsSound, Trusted
  <2>15. WriterSound'
    BY <2>2 DEF WriterSound
  <2>16. \A n \in Names : Has(disk, n) => new[n].id = disk[n].id
    BY <2>1, <2>8 DEF StoreInv, WriterSound, Visible
  <2>17. SeenSound'
    <3>1. \A v \in Workers \ {w} : SeenBy(v)'
      <4>1. Workers \ {w} \in SUBSET Workers /\ \A v \in Workers \ {w} : worker'[v] = worker[v] /\ writer # v
        BY <2>1, <2>10, WorkersAssumption DEF NoWorker
      <4> QED BY <2>2, <2>3, <2>16, <4>1, CommittedKeepsSeen
    <3>2. SeenBy(w)'
      BY <2>9, <2>10 DEF SeenBy, Seeding
    <3>3. \A v \in Workers : SeenBy(v)'
      BY <3>1, <3>2
    <3> QED BY <3>3 DEF SeenSound, SeenBy
  <2>18. SeedComplete'
    <3>1. \A r \in SeedRows : r.row \in Names
      BY RowNamed DEF AllRows
    <3>2. \A r \in SeedRows : Kept(r.row) => Has(new, r.row)
      BY <2>5, <2>8, <3>1 DEF Has
    <3> QED BY <2>2, <2>3, <3>2 DEF SeedComplete, Kept
  <2>19. ResetOrderSafe'
    BY <2>3 DEF StoreInv, ResetOrderSafe
  <2> QED BY <2>11, <2>13, <2>14, <2>15, <2>17, <2>18, <2>19 DEF StoreInv
<1> QED BY <1>1, <1>2

\* The migration changes its plan alone.
LEMMA JobKeeps ==
  ASSUME StoreInv, StoreTypeOK', WorkLeft', StampedWhole',
         UNCHANGED <<enforced, tables, worker, writer, view, disk, starts, resets, blocked, demolished>>
  PROVE  StoreInv'
<1> USE DEF StoreInv
<1>1. TablesClosed' /\ RowsSound' /\ WriterSound'
  BY DEF TablesClosed, RowsSound, Trusted, WriterSound
<1>2. SeedComplete' /\ ResetOrderSafe'
  BY DEF SeedComplete, ResetOrderSafe, Kept
<1>3. \A v : \A n : Knows(v, n) => Knows(v, n)'
  BY DEF Knows, Kept, Visible
<1>4. SeenSound'
  BY <1>3 DEF SeenSound
<1> QED BY <1>1, <1>2, <1>4

\* A migration starts.
LEMMA MigrateKeeps == ASSUME StoreInv, Migrate PROVE StoreInv'
<1>1. PICK kind \in {"upgrade", "downgrade", "drop"} : StartJob(kind)
  BY DEF Migrate
<1>2. /\ tables \subseteq JobPlan(kind) /\ JobPlan(kind) \subseteq TableNames
      /\ kind = "upgrade" => JobPlan(kind) = TableNames
  BY <1>1, OrderIsWhole DEF StartJob, JobPlan, StoreInv, StoreTypeOK
<1>3. job' = [kind |-> kind, left |-> JobPlan(kind)]
      /\ UNCHANGED <<enforced, tables, stamped, worker, writer, view, disk, starts, resets, blocked, demolished>>
  BY <1>1 DEF StartJob
<1>4. StoreTypeOK'
  BY <1>1, <1>2, <1>3 DEF StoreInv, StoreTypeOK, StartJob, Destructive
<1>5. WorkLeft'
  BY <1>1, <1>2, <1>3 DEF StoreInv, WorkLeft, StartJob, Destructive
<1>6. StampedWhole'
  BY <1>3 DEF StoreInv, StampedWhole, Whole
<1> QED BY <1>3, <1>4, <1>5, <1>6, JobKeeps

\* A migration ends, or is killed.
LEMMA EndJobKeeps == ASSUME StoreInv, EndJob \/ KillJob PROVE StoreInv'
<1>1. /\ job' = NoJob
      /\ UNCHANGED <<enforced, tables, worker, writer, view, disk, starts, jobs, resets, blocked, demolished>>
  BY DEF EndJob, KillJob
<1>2. stamped' \in BOOLEAN /\ (stamped' = stamped \/ stamped' = FALSE \/ Whole)
  BY DEF EndJob, KillJob, StoreInv, StoreTypeOK, WorkLeft, Whole
<1>3. StoreTypeOK'
  BY <1>1, <1>2 DEF StoreInv, StoreTypeOK, NoJob
<1>4. WorkLeft'
  BY <1>1 DEF StoreInv, WorkLeft, NoJob, Destructive
<1>5. StampedWhole'
  BY <1>1, <1>2 DEF StoreInv, StampedWhole, Whole
<1> QED BY <1>1, <1>3, <1>4, <1>5, JobKeeps

\* A statement of a migration: a table created after its targets, or dropped before them.
LEMMA RunStatementKeeps == ASSUME StoreInv, RunStatement PROVE StoreInv'
<1>0. writer = NoWorker /\ UNCHANGED <<enforced, stamped, worker, writer, starts, jobs, resets, blocked>>
  BY DEF RunStatement
<1>1. ASSUME NEW t \in job.left, Create(t) PROVE StoreInv'
  <2>1. tables \subseteq TableNames /\ TableNames \ tables \subseteq job.left /\ job.kind = "upgrade"
    BY <1>1 DEF Create, StoreInv, StoreTypeOK, WorkLeft
  <2>2. t \in TableNames /\ Targets[t] \subseteq tables
    BY <1>1, <2>1, CreatedInOrder DEF Create
  <2>3. CASE t \in tables
    <3>1. job' = NoJob /\ UNCHANGED <<tables, view, disk, demolished>>
      BY <1>1, <2>3 DEF Create
    <3>2. StoreTypeOK' /\ WorkLeft' /\ StampedWhole'
      BY <1>0, <3>1 DEF StoreInv, StoreTypeOK, WorkLeft, StampedWhole, Whole, NoJob, Destructive
    <3> QED BY <1>0, <3>1, <3>2, JobKeeps
  <2>4. CASE t \notin tables
    <3>1. job' = [job EXCEPT !.left = @ \ {t}] /\ tables' = tables \cup {t} /\ UNCHANGED <<view, disk, demolished>>
      BY <1>1, <2>4 DEF Create
    <3>2. StoreTypeOK'
      BY <1>0, <2>2, <3>1 DEF StoreInv, StoreTypeOK
    <3>3. job'.kind = "upgrade" /\ job'.left = job.left \ {t}
      BY <2>1, <3>1 DEF StoreInv, StoreTypeOK
    <3>4. WorkLeft'
      BY <1>0, <2>1, <3>1, <3>3 DEF StoreInv, WorkLeft, Destructive
    <3> QED BY <1>0, <2>2, <3>1, <3>2, <3>4, CreatedKeeps
  <2> QED BY <2>3, <2>4
<1>2. ASSUME NEW t \in job.left, Drop(t) PROVE StoreInv'
  <2>1. /\ tables \in SUBSET TableNames /\ tables \subseteq job.left /\ job.kind \in Destructive
        /\ \A w \in Workers : worker[w].pc \in Idle
    BY <1>2 DEF Drop, StoreInv, StoreTypeOK, WorkLeft
  <2>2. \A u \in tables : t \notin Targets[u]
    BY <1>2, <2>1, DroppedInOrder DEF Drop
  <2>3. CASE t \notin tables
    <3>1. job' = NoJob /\ UNCHANGED <<tables, view, disk, demolished>>
      BY <1>2, <2>3 DEF Drop
    <3>2. StoreTypeOK' /\ WorkLeft' /\ StampedWhole'
      BY <1>0, <3>1 DEF StoreInv, StoreTypeOK, WorkLeft, StampedWhole, Whole, NoJob, Destructive
    <3> QED BY <1>0, <3>1, <3>2, JobKeeps
  <2>4. CASE t \in tables
    <3> DEFINE new == Dropped(disk, t)
    <3>1. /\ job' = [job EXCEPT !.left = @ \ {t}] /\ tables' = tables \ {t}
          /\ disk' = new /\ view' = new /\ demolished' = TRUE
      BY <1>2, <2>4 DEF Drop, Committed
    <3>2. StoreTypeOK'
      BY <1>0, <3>1 DEF StoreInv, StoreTypeOK
    <3>3. job'.kind = job.kind /\ job'.left = job.left \ {t}
      BY <3>1 DEF StoreInv, StoreTypeOK
    <3>4. WorkLeft'
      BY <1>0, <2>1, <3>1, <3>3 DEF WorkLeft, Destructive, Idle
    <3>5. TablesClosed'
      BY <2>2, <3>1 DEF StoreInv, TablesClosed
    <3>6. StampedWhole' /\ SeedComplete'
      BY <3>1 DEF StampedWhole, SeedComplete
    <3>7. Stored(new, tables \ {t})
      BY DroppedIs DEF StoreInv, RowsSound
    <3>8. Trusted => Resolves(new)
      BY <2>2, DroppedResolves DEF StoreInv, RowsSound
    <3> HIDE DEF new
    <3>9. RowsSound'
      BY <1>0, <3>1, <3>7, <3>8 DEF RowsSound, Trusted
    <3>10. WriterSound'
      BY <1>0, <3>1 DEF WriterSound
    <3>11. SeenSound'
      BY <1>0, <2>1 DEF SeenSound, Seeding, Idle
    <3>12. ResetOrderSafe'
      BY <1>0 DEF StoreInv, ResetOrderSafe
    <3> QED BY <3>2, <3>4, <3>5, <3>6, <3>9, <3>10, <3>11, <3>12 DEF StoreInv
  <2> QED BY <2>3, <2>4
<1> QED BY <1>1, <1>2 DEF RunStatement

\* The rows are changed under no lock, and no other state.
LEMMA CommittedKeeps ==
  ASSUME StoreInv, NEW db, disk' = db, view' = db, writer = NoWorker, resets' \in {resets, resets + 1},
         UNCHANGED <<enforced, tables, stamped, job, worker, writer, starts, jobs, demolished>>,
         Stored(db, tables), Trusted' => Resolves(db),
         \A n \in Names : Kept(n)' /\ Has(disk, n) => db[n].id = disk[n].id,
         Has(db, Demo("project")) => Has(disk, Demo("project")),
         ResetOrderSafe'
  PROVE  StoreInv'
<1> USE DEF StoreInv
<1>1. StoreTypeOK' /\ WorkLeft' /\ TablesClosed' /\ StampedWhole'
  BY DEF StoreTypeOK, WorkLeft, TablesClosed, StampedWhole, Whole
<1>2. RowsSound' /\ WriterSound'
  BY DEF RowsSound, WriterSound
<1>3. SeenSound'
  <2>1. \A v \in Workers : SeenBy(v)'
    <3>1. Workers \in SUBSET Workers /\ \A v \in Workers : worker'[v] = worker[v] /\ writer # v
      BY WorkersAssumption DEF NoWorker
    <3> QED BY <3>1, CommittedKeepsSeen
  <2> QED BY <2>1 DEF SeenSound, SeenBy
<1>4. SeedComplete'
  <2> SUFFICES ASSUME ~ demolished, Has(disk, Demo("project")), NEW r \in SeedRows, Kept(r.row)' PROVE Has(db, r.row)
    BY DEF SeedComplete
  <2>1. r.row \in Names /\ resets \in Nat
    BY RowNamed DEF AllRows, StoreTypeOK
  <2>2. Kept(r.row)
    BY <2>1 DEF Kept
  <2>3. Has(disk, r.row)
    BY <2>2 DEF SeedComplete
  <2> QED BY <2>1, <2>3 DEF Has
<1> QED BY <1>1, <1>2, <1>3, <1>4

\* A failure is injected.
LEMMA InjectKeeps == ASSUME StoreInv, Inject PROVE StoreInv'
<1>1. PICK mode \in Modes : InjectFailure(mode)
  BY DEF Inject
<1> DEFINE rows == Opened \cup Injected(mode)
           db == EnsureRows(disk, rows)
<1>2. /\ writer = NoWorker /\ Whole /\ Has(disk, Demo("project")) /\ disk' = db /\ view' = db
      /\ UNCHANGED <<enforced, tables, stamped, job, worker, writer, starts, jobs, resets, blocked, demolished>>
  BY <1>1 DEF InjectFailure, Committed
<1>3. rows \in SUBSET AllRows
  BY DEF AllRows
<1>4. \A r \in rows : r.table \in tables
  <2>1. \A r \in rows : r.row \in Names /\ TableOf[r.row] = r.table
    BY <1>3, RowNamed
  <2> QED BY <1>2, <2>1, RefersTo DEF Whole
<1>5. \A r \in rows : \A m \in r.refs : Has(disk, m) \/ m \in {s.row : s \in rows}
  <2>1. \A r \in Opened : \A m \in r.refs : Has(disk, m) \/ m \in {s.row : s \in rows}
    BY <1>2, OpenedAre
  <2>2. \A r \in Injected(mode) : \A m \in r.refs : m \in {s.row : s \in rows}
    BY InjectedAre
  <2> QED BY <2>1, <2>2
<1>6. Stored(disk, tables) /\ resets \in Nat /\ (Trusted => Resolves(disk))
  BY DEF StoreInv, StoreTypeOK, RowsSound
<1> HIDE DEF rows
<1>7. /\ Stored(db, tables) /\ (Trusted => Resolves(db))
      /\ \A n \in Names : Has(disk, n) => db[n] = disk[n]
  BY <1>3, <1>4, <1>5, <1>6, EnsureStores
<1> HIDE DEF db
<1>8. ResetOrderSafe'
  BY <1>2 DEF StoreInv, ResetOrderSafe
<1> QED BY <1>2, <1>7, <1>8, CommittedKeeps DEF Trusted

\* A run is reset.
LEMMA ResetRunKeeps ==
  ASSUME StoreInv, NEW c \in Scopes, writer = NoWorker, Whole, Has(disk, <<c, "run">>),
         ResetRun(<<c, "run">>, ResetEvent(c)),
         UNCHANGED <<enforced, tables, stamped, job, worker, writer, starts, jobs, demolished>>
  PROVE  StoreInv'
<1> DEFINE run   == <<c, "run">>
           event == ResetEvent(c)
           gone  == UNION {OfRun(disk, run, ResetOrder[i]) : i \in 1 .. 4}
           left  == Delete(disk, gone)
           seen  == [m \in event.refs |-> left[m].id]
           db    == PutRow(left, event, resets + 1, seen)
<1>1. /\ DOMAIN ResetOrder = 1 .. 4 /\ Len(ResetOrder) = 4 /\ \A i \in 1 .. 4 : ResetOrder[i] \in ResetTables
  BY ResetTablesAre DEF ResetOrder
<1>2. /\ disk' = db /\ view' = db /\ blocked' = {} /\ resets' = resets + 1 /\ left = After(run, 4)
      /\ enforced => Dangling(left) = {}
  <2>1. left = After(run, 4)
    BY DEF After
  <2>2. /\ \A k \in 1 .. 4 : ~ Raises(run, k)
        /\ disk' = PutRow(After(run, 4), event, resets + 1, [m \in event.refs |-> After(run, 4)[m].id])
        /\ view' = disk' /\ blocked' = {} /\ resets' = resets + 1
    BY <1>1 DEF ResetRun, Committed
  <2> HIDE DEF left
  <2>3. disk' = db
    BY <2>1, <2>2
  <2>4. enforced => Dangling(left) = {}
    BY <2>1, <2>2 DEF Raises
  <2> QED BY <2>1, <2>2, <2>3, <2>4
<1>3. gone \in SUBSET Names /\ \A n \in gone : TableOf[n] \in ResetTables
  BY <1>1 DEF OfRun
<1>4. Stored(disk, tables) /\ resets \in Nat /\ (Trusted => Resolves(disk)) /\ enforced \in BOOLEAN
  BY DEF StoreInv, StoreTypeOK, RowsSound
<1> HIDE DEF gone
<1>5. Stored(left, tables) /\ \A n \in Names : left[n].id = IF n \in gone THEN 0 ELSE disk[n].id
  BY <1>3, <1>4, DeleteIs
<1>6. enforced => Resolves(left)
  BY <1>2, <1>3, <1>4, DeleteResolves DEF Trusted
<1> HIDE DEF left
<1>7. /\ event \in AllRows /\ event.refs = {<<c, "task">>} /\ event.table = "consequential_events"
      /\ event.row \in Names /\ TableOf[event.row] = event.table
      /\ event.table \in tables /\ resets + 1 \in Nat \ {0}
  <2>1. event \in AllRows /\ event.refs = {<<c, "task">>} /\ event.table = "consequential_events"
    BY RunOfScope
  <2>2. event.row \in Names /\ TableOf[event.row] = event.table
    BY <2>1, RowNamed
  <2> HIDE DEF event
  <2> QED BY <1>4, <2>1, <2>2, RefersTo DEF Whole
<1> HIDE DEF event, seen
<1>8. /\ Stored(db, tables)
      /\ \A n \in Names : db[n].id = IF n = event.row THEN resets + 1 ELSE left[n].id
  BY <1>5, <1>7, PutStores
<1>9. enforced => Resolves(db)
  <2> SUFFICES ASSUME enforced PROVE Resolves(db)
    OBVIOUS
  <2>1. \A n \in Names : event.row \notin DOMAIN left[n].refs
    BY <1>5, <1>7, ResetRows DEF Stored
  <2>2. ASSUME NEW m \in event.refs PROVE m # event.row /\ Has(left, m) /\ seen[m] = left[m].id
    <3>1. m = <<c, "task">> /\ m \in Names /\ TableOf[m] = "tasks"
      BY <1>7, <2>2, RunOfScope
    <3>2. m \in DOMAIN disk[run].refs
      BY <1>4, <3>1, RunOfScope, ResetTablesAre DEF Stored, MustRefer
    <3>3. Has(disk, m)
      BY <1>4, <3>2, RunOfScope DEF Resolves, Trusted
    <3>4. m \notin gone
      BY <1>3, <3>1, ResetTablesAre
    <3>5. Has(left, m)
      BY <1>5, <3>1, <3>3, <3>4 DEF Has
    <3>6. seen[m] = left[m].id
      BY <2>2 DEF seen
    <3> QED BY <1>7, <3>1, <3>5, <3>6
  <2> QED BY <1>5, <1>6, <1>7, <2>1, <2>2, PutResolves
<1> HIDE DEF db, run
<1>10. \A n \in Names : Kept(n)' /\ Has(disk, n) => db[n].id = disk[n].id
  <2>1. \A n \in Names : Kept(n)' => n \notin gone /\ n # event.row
    BY <1>2, <1>3, <1>4, <1>7, ResetTablesAre DEF Kept
  <2> QED BY <1>5, <1>8, <2>1
<1>11. Has(db, Demo("project")) => Has(disk, Demo("project"))
  <2>1. Demo("project") \in Names /\ TableOf[Demo("project")] = "projects"
    BY SeedKeys, RowNamed DEF AllRows
  <2>2. Demo("project") \notin gone /\ Demo("project") # event.row
    BY <1>3, <1>7, <2>1, ResetTablesAre
  <2> QED BY <1>5, <1>8, <2>1, <2>2 DEF Has
<1>12. ResetOrderSafe'
  BY <1>2 DEF ResetOrderSafe
<1>13. Trusted' => Resolves(db)
  BY <1>2, <1>4, <1>9 DEF Trusted
<1> QED BY <1>2, <1>8, <1>10, <1>11, <1>12, <1>13, CommittedKeeps

\* A reset stops, and its deletes are rolled back.
LEMMA ResetStopsKeeps ==
  ASSUME StoreInv, NEW c \in Scopes, writer = NoWorker, ResetStops(<<c, "run">>),
         UNCHANGED <<enforced, tables, stamped, job, worker, writer, starts, jobs, demolished>>
  PROVE  StoreInv'
<1>1. PICK k \in DOMAIN ResetOrder :
         Raises(<<c, "run">>, k) /\ blocked' = {TableOf[n] : n \in Dangling(After(<<c, "run">>, k))}
  BY DEF ResetStops
<1>2. UNCHANGED <<view, disk, resets>>
  BY DEF ResetStops
<1>3. Stored(disk, tables) /\ Resolves(disk) /\ (Trusted => Resolves(disk)) /\ view = disk
  BY <1>1 DEF Raises, Trusted, StoreInv, RowsSound, WriterSound
<1>4. \A n \in Dangling(After(<<c, "run">>, k)) : TableOf[n] \notin ResetTables
  BY <1>3, ResetLeaves
<1>5. ResetOrderSafe'
  BY <1>1, <1>4 DEF ResetOrderSafe, ResetTables
<1>6. disk' = disk /\ view' = disk
  BY <1>2, <1>3
<1> QED BY <1>2, <1>3, <1>5, <1>6, CommittedKeeps

\* Either, for the run of a scope.
LEMMA ResetKeeps == ASSUME StoreInv, Reset PROVE StoreInv'
<1>1. PICK c \in Scopes : ResetWorkflow(c)
  BY DEF Reset
<1>2. /\ writer = NoWorker /\ Whole /\ Has(disk, <<c, "run">>)
      /\ ResetRun(<<c, "run">>, ResetEvent(c)) \/ ResetStops(<<c, "run">>)
      /\ UNCHANGED <<enforced, tables, stamped, job, worker, writer, starts, jobs, demolished>>
  BY <1>1 DEF ResetWorkflow
<1> QED BY <1>2, ResetRunKeeps, ResetStopsKeeps

\* Every step keeps the invariant.
THEOREM StoreInvariant == StoreSpec => []StoreInv
<1>1. StoreInv /\ [StoreNext]_storeVars => StoreInv'
  <2> SUFFICES ASSUME StoreInv, [StoreNext]_storeVars PROVE StoreInv'
    OBVIOUS
  <2>1. ASSUME NEW w \in Workers, StartWorker(w) PROVE StoreInv'
    BY <2>1, StartWorkerKeeps
  <2>2. ASSUME NEW w \in Workers, CreateTable(w) PROVE StoreInv'
    BY <2>2, CreateTableKeeps
  <2>3. ASSUME NEW w \in Workers, CountProjects(w) PROVE StoreInv'
    BY <2>3, CountProjectsKeeps
  <2>4. ASSUME NEW w \in Workers, LookUp(w) PROVE StoreInv'
    BY <2>4, LookUpKeeps
  <2>5. ASSUME NEW w \in Workers, InsertRow(w) PROVE StoreInv'
    BY <2>5, InsertRowKeeps
  <2>6. ASSUME NEW w \in Workers, LockTimeout(w) \/ Crash(w) PROVE StoreInv'
    BY <2>6, StopsKeeps
  <2>7. ASSUME NEW w \in Workers, CommitSeed(w) PROVE StoreInv'
    BY <2>7, CommitSeedKeeps
  <2>8. CASE Migrate
    BY <2>8, MigrateKeeps
  <2>9. CASE RunStatement
    BY <2>9, RunStatementKeeps
  <2>10. CASE EndJob \/ KillJob
    BY <2>10, EndJobKeeps
  <2>11. CASE Inject
    BY <2>11, InjectKeeps
  <2>12. CASE Reset
    BY <2>12, ResetKeeps
  <2>13. CASE UNCHANGED storeVars
    <3>1. StoreTypeOK' /\ WorkLeft' /\ StampedWhole'
      BY <2>13 DEF StoreInv, StoreTypeOK, WorkLeft, StampedWhole, Whole, storeVars
    <3> QED BY <2>13, <3>1, JobKeeps DEF storeVars
  <2> QED BY <2>1, <2>2, <2>3, <2>4, <2>5, <2>6, <2>7, <2>8, <2>9, <2>10, <2>11, <2>12, <2>13 DEF StoreNext
<1> QED BY <1>1, StoreInvHolds, PTL DEF StoreSpec

\* The store's state keeps its types.
THEOREM StoreTypesCorrect == StoreSpec => []StoreTypeOK
<1>1. StoreInv => StoreTypeOK
  BY DEF StoreInv
<1> QED BY <1>1, StoreInvariant, PTL

\* At every statement of a migration and of a process creating the schema, each table has
\* the tables it targets, and a database at the revision has all of them (Base.metadata,
\* alembic upgrade and downgrade, create_all, drop_all).
THEOREM SchemaStaysSound == StoreSpec => []SchemaSound
<1>1. StoreInv => SchemaSound
  BY MigrationMatches DEF StoreInv, SchemaSound, TablesClosed, StampedWhole
<1> QED BY <1>1, StoreInvariant, PTL

\* The scenario is committed whole or not at all, and every reference resolves, whatever
\* other processes seed, die, migrate, inject or reset meanwhile (build_seed, reset_workflow).
THEOREM SeedIsWhole == StoreSpec => []SeedWhole
<1>1. StoreInv => SeedWhole
  <2> SUFFICES ASSUME StoreInv, ~ demolished
               PROVE  /\ Has(disk, Demo("project")) =>
                           \A r \in ToSet(Seeds) : Has(disk, r.row) \/ (resets > 0 /\ r.table \in ToSet(ResetOrder))
                      /\ enforced \/ resets = 0 => Dangling(disk) = {}
    BY DEF SeedWhole
  <2>1. \A r \in SeedRows : TableOf[r.row] = r.table
    BY RowNamed DEF AllRows
  <2>2. Has(disk, Demo("project")) =>
          \A r \in SeedRows : Has(disk, r.row) \/ (resets > 0 /\ r.table \in ResetTables)
    BY <2>1 DEF StoreInv, StoreTypeOK, SeedComplete, Kept
  <2>3. Trusted => Dangling(disk) = {}
    BY DEF StoreInv, RowsSound, Resolves, Dangling
  <2> QED BY <2>2, <2>3 DEF SeedRows, ResetTables, Trusted
<1> QED BY <1>1, StoreInvariant, PTL

\* No reset is stopped by a row it was about to delete itself (reset_workflow).
THEOREM ResetOrderIsSafe == StoreSpec => []ResetOrderSafe
<1>1. StoreInv => ResetOrderSafe
  BY DEF StoreInv
<1> QED BY <1>1, StoreInvariant, PTL

=============================================================================

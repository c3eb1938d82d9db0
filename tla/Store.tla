-------------------------------- MODULE Store --------------------------------
(***************************************************************************)
(* The behavioral store over its life: processes that create the schema    *)
(* and seed the demo scenario as they start, migrations, injected failures *)
(* and the reset of a run.                                                 *)
(*                                                                         *)
(* The engine is SQLite, as the default URLs have it.  DDL is durable step *)
(* by step; a session's rows are not until it commits, and from its first  *)
(* write to its end the session holds the one write lock.  `enforced' says *)
(* whether connections turn foreign keys on.                               *)
(***************************************************************************)
EXTENDS Schema, Integers, SequencesExt

CONSTANTS Workers,     \* processes: API workers and runs of the seed's command line
          Modes,       \* failure classes injected
          MaxStarts,   \* bound: starts of processes
          MaxJobs,     \* bound: migrations run
          MaxResets    \* bound: resets applied

FailureModes ==
  {"SYNTAX_BUILD", "UNIT_TEST", "INTEGRATION", "TIMEOUT", "TOOL_FAILURE", "POLICY_BLOCK",
   "AMBIGUOUS_RESULT", "NO_PROGRESS", "TEST_FAILURE", "CONFLICTING_EVIDENCE"}

ASSUME ModesAssumption == Modes \subseteq FailureModes
ASSUME WorkersAssumption == "none" \notin Workers
ASSUME BoundsAssumption == MaxStarts \in Nat /\ MaxJobs \in Nat /\ MaxResets \in Nat

NoWorker == "none"

VARIABLES enforced,    \* foreign keys are enforced
          tables,      \* tables the database has
          stamped,     \* the migration's revision is recorded
          job,         \* the migration at work: [kind, left]
          worker,      \* [Workers -> [pc, left, next, seen]]
          writer,      \* the session that holds the write lock
          view,        \* the rows as the writer sees them
          disk,        \* the rows committed
          starts, jobs, resets,
          blocked,     \* the tables whose rows stopped the last reset
          demolished   \* a table was dropped

storeVars == <<enforced, tables, stamped, job, worker, writer, view, disk, starts, jobs, resets,
          blocked, demolished>>

(* The task and the run a failure is injected into when it is given none.   *)
Opened == {Row("other", "task", "tasks", {Demo("project")}),
           Row("other", "run", "runs", {<<"other", "task">>})}

(* Rows an injected failure writes, in the scope of its class: a failed      *)
(* execution with its proof, proof alone, or a blocked event.               *)
InRun == {<<"other", "task">>, <<"other", "run">>}

New(mode, name, table, refs) == Row(mode, name, table, InRun \cup {<<mode, r>> : r \in refs})

Event(mode) == New(mode, "event", "consequential_events", {})

InjectedExecution(mode) ==
  LET exec == Row(mode, "execution", "executions", {<<"other", "run">>})
      proof == New(mode, "evidence", "evidence", {"execution"})
      failed(refs) == New(mode, "failure", "failures", {"execution"} \cup refs)
  IN  IF mode = "TIMEOUT" THEN {exec, failed({}), Event(mode)}
                          ELSE {exec, proof, failed({"evidence"}), Event(mode)}

InjectedProof(mode) ==
  (IF mode = "CONFLICTING_EVIDENCE" THEN {New(mode, "passed", "evidence", {})} ELSE {})
    \cup {New(mode, "evidence", "evidence", {}), New(mode, "failure", "failures", {"evidence"}),
          Event(mode)}

InjectedBlock(mode) ==
  (IF mode = "NO_PROGRESS"
   THEN {New(mode, i, "failures", {}) : i \in {"first", "second", "third"}} ELSE {})
    \cup {Event(mode)}

Injected(mode) ==
  CASE mode \in {"CONFLICTING_EVIDENCE", "AMBIGUOUS_RESULT"} -> InjectedProof(mode)
    [] mode \in {"POLICY_BLOCK", "NO_PROGRESS"} -> InjectedBlock(mode)
    [] OTHER -> InjectedExecution(mode)

(* The observation a reset leaves, of the run's task and not of the run. *)
ResetEvent(scope) == Row(scope, "reset_event", "consequential_events", {<<scope, "task">>})

Scopes == {"demo", "other"}   \* whose run is reset

SeedRows == ToSet(Seeds)

AllRows == SeedRows \cup Opened \cup {ResetEvent(s) : s \in Scopes} \cup UNION {Injected(m) : m \in Modes}

Names   == {r.row : r \in AllRows}
RowOf   == [n \in Names |-> CHOOSE r \in AllRows : r.row = n]
TableOf == [n \in Names |-> RowOf[n].table]

Absent == [id |-> 0, refs |-> <<>>]
Has(db, n) == db[n].id # 0

Worker == [pc |-> "down", left |-> {}, next |-> 1,
           seen |-> [n \in {r.row : r \in SeedRows} |-> 0]]
NoJob == [kind |-> "none", left |-> {}]

StoreInit ==
  /\ enforced \in BOOLEAN
  /\ tables = {} /\ stamped = FALSE /\ job = NoJob
  /\ worker = [w \in Workers |-> Worker]
  /\ writer = NoWorker
  /\ view = [n \in Names |-> Absent] /\ disk = view
  /\ starts = 0 /\ jobs = 0 /\ resets = 0 /\ blocked = {} /\ demolished = FALSE

---------------------------------------------------------------------------
(* Rows. *)

(* A key is given by the caller; evidence alone takes a random one, told    *)
(* apart here by how many resets came before it.                            *)
FreshId(n) == IF TableOf[n] = "evidence" THEN resets + 1 ELSE 1

\* A row is written with the keys its session knows of the rows it refers to.
PutRow(db, r, id, seen) == [db EXCEPT ![r.row] = [id |-> id, refs |-> [m \in r.refs |-> seen[m]]]]

(* get_or_create, ensure_evidence: a row that is there is returned unchanged. *)
EnsureRows(db, rows) ==
  LET new == {r.row : r \in {r \in rows : ~ Has(db, r.row)}}
      key(n) == IF n \in new THEN FreshId(n) ELSE db[n].id
  IN  [n \in Names |-> IF n \in new THEN [id |-> key(n), refs |-> [m \in RowOf[n].refs |-> key(m)]]
                                    ELSE db[n]]

Committed(db) == disk' = db /\ view' = db

\* t is the first of the tables S in an order.
IsFirst(t, S, order) ==
  t \in S /\ \E i \in DOMAIN order : order[i] = t /\ \A j \in 1 .. (i - 1) : order[j] \notin S

---------------------------------------------------------------------------
(* A process starts: it creates the schema, then seeds. *)

Idle == {"down", "failed", "up"}

Destructive == {"downgrade", "drop"}

Fails(w) ==
  /\ worker' = [worker EXCEPT ![w] = [Worker EXCEPT !.pc = "failed"]]
  /\ IF writer = w THEN writer' = NoWorker /\ view' = disk ELSE UNCHANGED <<writer, view>>

(* create_all looks once at which tables exist. *)
StartWorker(w) ==
  /\ worker[w].pc \in Idle /\ job.kind \notin Destructive
  /\ starts < MaxStarts /\ starts' = starts + 1
  /\ worker' = [worker EXCEPT ![w] =
        [Worker EXCEPT !.pc = "schema",
                       !.left = ToSet(UpgradeOrder) \ tables]]
  /\ UNCHANGED <<enforced, tables, stamped, job, writer, view, disk, jobs, resets, blocked,
                 demolished>>

CreateTable(w) ==
  /\ worker[w].pc = "schema" /\ writer = NoWorker
  /\ \E t \in worker[w].left :
       /\ IsFirst(t, worker[w].left, UpgradeOrder)
       /\ IF t \in tables
          THEN Fails(w) /\ UNCHANGED tables
          ELSE /\ tables' = tables \cup {t}
               /\ worker' = [worker EXCEPT ![w].left = @ \ {t}]
               /\ UNCHANGED <<writer, view>>
  /\ UNCHANGED <<enforced, stamped, job, disk, starts, jobs, resets, blocked, demolished>>

(* An API worker counts the projects, outside any transaction, and seeds    *)
(* only an empty store; the command line seeds in any case.                 *)
CountProjects(w) ==
  /\ worker[w].pc = "schema" /\ worker[w].left = {}
  /\ IF "projects" \notin tables
     THEN Fails(w)
     ELSE /\ \E guarded \in BOOLEAN :
               worker' = [worker EXCEPT ![w].pc =
                            IF guarded /\ Has(disk, Demo("project")) THEN "up" ELSE "look"]
          /\ UNCHANGED <<writer, view>>
  /\ UNCHANGED <<enforced, tables, stamped, job, disk, starts, jobs, resets, blocked,
                 demolished>>

Visible(w) == IF writer = w THEN view ELSE disk

(* build_seed, one row: looked up by its key, or evidence by its hash. *)
LookUp(w) ==
  LET at == worker[w].next IN
  /\ worker[w].pc = "look" /\ at <= Len(Seeds)
  /\ IF Seeds[at].table \notin tables
     THEN Fails(w)
     ELSE LET n == Seeds[at].row  db == Visible(w) IN
          /\ worker' = [worker EXCEPT ![w] =
               IF Has(db, n) THEN [@ EXCEPT !.next = at + 1, !.seen[n] = db[n].id]
                             ELSE [@ EXCEPT !.pc = "insert"]]
          /\ UNCHANGED <<writer, view>>
  /\ UNCHANGED <<enforced, tables, stamped, job, disk, starts, jobs, resets, blocked,
                 demolished>>

(* ... and inserted when it was not there: the key may be taken by now, and *)
(* the rows it refers to may be gone.                                       *)
CommittedByRow(w) ==
  LET at == worker[w].next  r == Seeds[at]  db == PutRow(disk, r, FreshId(r.row), worker[w].seen) IN
  /\ worker[w].pc = "insert" /\ writer = NoWorker /\ ~Has(disk, r.row) /\ r.table \in tables
  /\ Committed(db)
  /\ worker' = [worker EXCEPT ![w] =
       [@ EXCEPT !.pc = "look", !.next = at + 1, !.seen[r.row] = FreshId(r.row)]]
  /\ UNCHANGED <<enforced, tables, stamped, job, writer, starts, jobs, resets, blocked,
                 demolished>>

InsertRow(w) ==
  LET at == worker[w].next
      r == Seeds[at]
      db == Visible(w)
      resolves == \A m \in r.refs : db[m].id = worker[w].seen[m]
  IN
  /\ worker[w].pc = "insert" /\ writer \in {NoWorker, w}
  /\ IF r.table \notin tables \/ Has(db, r.row) \/ (enforced /\ ~resolves)
     THEN Fails(w)
     ELSE /\ writer' = w
          /\ view' = PutRow(db, r, FreshId(r.row), worker[w].seen)
          /\ worker' = [worker EXCEPT ![w] =
               [@ EXCEPT !.pc = "look", !.next = at + 1, !.seen[r.row] = FreshId(r.row)]]
  /\ UNCHANGED <<enforced, tables, stamped, job, disk, starts, jobs, resets, blocked,
                 demolished>>

(* Another session held the lock for longer than the busy timeout. *)
LockTimeout(w) ==
  /\ \/ worker[w].pc = "insert"
     \/ worker[w].pc = "schema" /\ worker[w].left # {}
  /\ writer \notin {NoWorker, w}
  /\ Fails(w)
  /\ UNCHANGED <<enforced, tables, stamped, job, disk, starts, jobs, resets, blocked,
                 demolished>>

(* The delta of the scenario is bound to its certificate in the same        *)
(* transaction, whether it was made or found.                               *)
BindDelta(db, seen) ==
  LET delta == db[Demo("delta")] IN
  [db EXCEPT ![Demo("delta")] =
     [id |-> delta.id,
      refs |-> [m \in DOMAIN delta.refs \cup {Demo("certificate")} |->
                  IF m = Demo("certificate") THEN seen[m] ELSE delta.refs[m]]]]

CommitSeed(w) ==
  LET db == Visible(w) IN
  /\ worker[w].pc = "look" /\ worker[w].next > Len(Seeds) /\ writer \in {NoWorker, w}
  /\ IF Has(db, Demo("delta"))
     THEN /\ Committed(BindDelta(db, worker[w].seen)) /\ writer' = NoWorker
          /\ worker' = [worker EXCEPT ![w] = [Worker EXCEPT !.pc = "up"]]
     ELSE Fails(w) /\ UNCHANGED disk
  /\ UNCHANGED <<enforced, tables, stamped, job, starts, jobs, resets, blocked, demolished>>

Crash(w) ==
  /\ worker[w].pc \in {"schema", "look", "insert"}
  /\ Fails(w)
  /\ UNCHANGED <<enforced, tables, stamped, job, disk, starts, jobs, resets, blocked,
                 demolished>>

---------------------------------------------------------------------------
(* The migration tool.  Tables are dropped only while no process starts. *)

JobPlan(kind) ==
  CASE kind = "upgrade"   -> IF stamped THEN {} ELSE ToSet(UpgradeOrder)
    [] kind = "downgrade" -> IF stamped THEN ToSet(Downgrade) ELSE {}
    [] kind = "drop"      -> tables

StartJob(kind) ==
  /\ job = NoJob /\ jobs < MaxJobs
  /\ JobPlan(kind) # {}
  /\ kind \in Destructive => \A w \in Workers : worker[w].pc \in Idle
  /\ job' = [kind |-> kind, left |-> JobPlan(kind)]
  /\ jobs' = jobs + 1
  /\ UNCHANGED <<enforced, tables, stamped, worker, writer, view, disk, starts, resets,
                 blocked, demolished>>

Dropped(db, t) == [n \in Names |-> IF TableOf[n] = t THEN Absent ELSE db[n]]

(* One statement; it stops the job where the table is there already, or is not. *)
Create(t) ==
  /\ job.kind = "upgrade" /\ IsFirst(t, job.left, UpgradeOrder)
  /\ IF t \in tables
     THEN job' = NoJob /\ UNCHANGED tables
     ELSE job' = [job EXCEPT !.left = @ \ {t}] /\ tables' = tables \cup {t}
  /\ UNCHANGED <<view, disk, demolished>>

Drop(t) ==
  /\ job.kind \in Destructive /\ IsFirst(t, job.left, Downgrade)
  /\ IF t \notin tables
     THEN job' = NoJob /\ UNCHANGED <<tables, view, disk, demolished>>
     ELSE /\ job' = [job EXCEPT !.left = @ \ {t}]
          /\ tables' = tables \ {t} /\ Committed(Dropped(disk, t)) /\ demolished' = TRUE

RunStatement ==
  /\ writer = NoWorker
  /\ \E t \in job.left : Create(t) \/ Drop(t)
  /\ UNCHANGED <<enforced, stamped, worker, writer, starts, jobs, resets, blocked>>

(* The revision is recorded, or removed, after the last statement; the      *)
(* bootstrap's drop_all knows nothing of it.                                *)
EndJob ==
  /\ job # NoJob /\ job.left = {} /\ writer = NoWorker
  /\ stamped' = CASE job.kind = "upgrade" -> TRUE
                  [] job.kind = "downgrade" -> FALSE
                  [] OTHER -> stamped
  /\ job' = NoJob
  /\ UNCHANGED <<enforced, tables, worker, writer, view, disk, starts, jobs, resets, blocked,
                 demolished>>

KillJob ==
  /\ job # NoJob
  /\ job' = NoJob
  /\ UNCHANGED <<enforced, tables, stamped, worker, writer, view, disk, starts, jobs, resets,
                 blocked, demolished>>

---------------------------------------------------------------------------
(* The workflow's reliability tools. *)

Whole == tables = TableNames

(* A failure is injected into a task with no run yet, or into its run. *)
InjectFailure(mode) ==
  /\ writer = NoWorker /\ Whole /\ Has(disk, Demo("project"))
  /\ Committed(EnsureRows(disk, Opened \cup Injected(mode)))
  /\ UNCHANGED <<enforced, tables, stamped, job, worker, writer, starts, jobs, resets, blocked,
                 demolished>>

OfRun(db, run, t) == {n \in Names : Has(db, n) /\ TableOf[n] = t /\ run \in DOMAIN db[n].refs}

\* The reverse relationship through which the ORM clears the references of n to m.
Cleared(n, m) == TableOf[m] \in Reversed[TableOf[n]]

(* session.delete: rows that refer to a deleted row through a reverse        *)
(* relationship lose the reference, the others keep it.                      *)
Delete(db, gone) ==
  [n \in Names |->
     IF n \in gone THEN Absent
     ELSE [id |-> db[n].id,
           refs |-> [m \in {m \in DOMAIN db[n].refs : ~ (m \in gone /\ Cleared(n, m))} |->
                       db[n].refs[m]]]]

Dangling(db) ==
  {n \in Names : \E m \in DOMAIN db[n].refs : db[m].id # db[n].refs[m]}

ProofFirst == <<"consequential_events", "evidence", "failures", "executions">>

ResetOrder == <<"consequential_events", "failures", "evidence", "executions">>

(* What the first k deletes, each flushed, leave; with foreign keys on, one  *)
(* that leaves a reference dangling raises.                                 *)
After(run, k) == Delete(disk, UNION {OfRun(disk, run, ResetOrder[i]) : i \in 1 .. k})

Raises(run, k) == enforced /\ Dangling(After(run, k)) # {}

ResetRun(run, event) ==
  /\ \A k \in DOMAIN ResetOrder : ~ Raises(run, k)
  /\ LET db == After(run, Len(ResetOrder)) IN
       Committed(PutRow(db, event, resets + 1, [m \in event.refs |-> db[m].id]))
  /\ blocked' = {} /\ resets' = resets + 1

ResetStops(run) ==
  /\ \E k \in DOMAIN ResetOrder :
       /\ Raises(run, k) /\ \A j \in 1 .. (k - 1) : ~ Raises(run, j)
       /\ blocked' = {TableOf[n] : n \in Dangling(After(run, k))}
  /\ UNCHANGED <<view, disk, resets>>

ResetWorkflow(scope) ==
  LET run == <<scope, "run">> IN
  /\ writer = NoWorker /\ Whole /\ resets < MaxResets /\ Has(disk, run)
  /\ ResetRun(run, ResetEvent(scope)) \/ ResetStops(run)
  /\ UNCHANGED <<enforced, tables, stamped, job, worker, writer, starts, jobs, demolished>>

Migrate    == \E kind \in {"upgrade", "downgrade", "drop"} : StartJob(kind)
Inject     == \E mode \in Modes : InjectFailure(mode)
Reset      == \E scope \in Scopes : ResetWorkflow(scope)

StoreNext ==
  \/ \E w \in Workers : \/ StartWorker(w) \/ CreateTable(w) \/ CountProjects(w) \/ LookUp(w)
                        \/ InsertRow(w) \/ LockTimeout(w) \/ CommitSeed(w) \/ Crash(w)
  \/ Migrate \/ RunStatement \/ EndJob \/ KillJob
  \/ Inject \/ Reset

StoreSpec == StoreInit /\ [][StoreNext]_storeVars

---------------------------------------------------------------------------
(* Properties. *)

MigrationMatchesModels == ToSet(Upgrade) = {Created(m.table, TargetsOf(m)) : m \in Models}

(* At every statement of a migration, and of a process creating the schema, *)
(* each table there is has the tables its foreign keys target; the          *)
(* migration gives every table the keys its model has; and a database that  *)
(* says it is at the revision has all of them.                              *)
SchemaSound ==
  /\ \A t \in tables : Targets[t] \subseteq tables
  /\ MigrationMatchesModels
  /\ stamped /\ ~demolished => Whole

(* The scenario is committed whole or not at all, whatever other process    *)
(* seeds at the same time or dies: a store with its project has every row   *)
(* that no reset removes, and every reference of every row resolves.  Only  *)
(* a reset on a store that does not enforce foreign keys leaves one that    *)
(* does not.                                                                *)
SeedWhole ==
  ~demolished =>
    /\ Has(disk, Demo("project")) =>
         \A r \in ToSet(Seeds) : Has(disk, r.row) \/ (resets > 0 /\ r.table \in ToSet(ResetOrder))
    /\ enforced \/ resets = 0 => Dangling(disk) = {}

(* The reset deletes in an order the foreign keys allow: what stops it is   *)
(* never a row it was about to delete itself.                               *)
ResetOrderSafe == blocked \cap ToSet(ResetOrder) = {}

(* The reset keeps historical evidence: a store with its certificate has    *)
(* the evidence of the passing test and the persisted failure.              *)
HistoryKept ==
  ~demolished /\ Has(disk, Demo("certificate")) =>
    Has(disk, Demo("evidence_test")) /\ Has(disk, Demo("failure"))

=============================================================================

----------------------------- MODULE PreCoding -----------------------------
(***************************************************************************)
(* From a request to an agent that may run: the objects of one task        *)
(* (smorx_precode), the gate that reads them, and the handoff and the      *)
(* barrier of the coding loop (smorx_develop/handoff.py, barrier.py).      *)
(*                                                                         *)
(* Each operation is synchronous and so one action; they come in any order *)
(* and go on while an agent runs.  A constitution and its claims do not    *)
(* change here.                                                            *)
(***************************************************************************)
EXTENDS Versioning, FiniteSets

CONSTANTS
  Requests,    \* what define_change() may be asked
  Statements,  \* lists of intent statements, as sets
  Claims,      \* protected claims of the constitution
  Behaviors,   \* behaviors the task may affect
  LedgerTasks, \* tasks a ledger may be bound to
  MaxVersion,  \* bound: no row is bumped past it
  Quota        \* bound: how many rows of a kind there may be

Task == "task"
NoTask == "none"

ASSUME LedgerTasksAssumption == LedgerTasks \subseteq {Task, "other", NoTask}

ASSUME StatementsAssumption == \A list \in Statements : \A s \in list : s.touches \subseteq Claims

\* A statement that takes effect: its dimension, and the claims it shares terms with.
Dimensions == {"ADD", "REPLACE", "PRESERVE", "PERFORMANCE", "SECURITY"}

Item == [type : Dimensions, touches : SUBSET Claims, authorized : BOOLEAN]

ASSUME RowKinds ==
  /\ Kinds = {"ledger", "impact", "plan", "certificate"}
  /\ LockKinds = Kinds /\ ParentKinds = Kinds /\ IdentityKinds = {"certificate"}
  /\ Data = [task : {Task, "other", NoTask}, ledger : Keys \cup {NoRow},
             status : {"PROPOSED", "DRAFT", "LOCKED"}]

VARIABLES
  defined,  \* define_change() has stored the task
  items,    \* the intent items by ledger
  cases,    \* the affected behaviors and the verification cases, by plan
  offered,  \* the context of the last PASS verdict
  running   \* the context a loop is running on

vars == <<rows, defined, items, cases, offered, running>>

NoContext == [ledger |-> NoRow]

Context ==
  [ledger : Keys, impact : Keys, plan : Keys, versions : [Kinds -> Nat],
   locked : BOOLEAN, conflicts : SUBSET Claims]

TypeOK ==
  /\ RowsTypeOK
  /\ defined \in BOOLEAN
  /\ DOMAIN items \subseteq Stored /\ items \in [DOMAIN items -> SUBSET Item]
  /\ DOMAIN cases \subseteq Stored
  /\ cases \in [DOMAIN cases -> SUBSET SUBSET Behaviors]
  /\ offered \in Context \cup {NoContext}
  /\ running \in Context \cup {NoContext}

Init ==
  /\ rows = [k \in {} |-> NoRow]
  /\ defined = FALSE
  /\ items = [k \in {} |-> {}]
  /\ cases = [k \in {} |-> {}]
  /\ offered = NoContext
  /\ running = NoContext

Of(kind) == {k \in Stored : rows[k].kind = kind}

\* repo.list_(session, model, task_id=task)
OfTask(kind) == {k \in Of(kind) : rows[k].data.task = Task}

Room(kind) == Cardinality(Of(kind)) < Quota[kind]

ItemsOf(k) == IF k \in DOMAIN items THEN items[k] ELSE {}

-----------------------------------------------------------------------------
(* The request and the intent *)

\* _reject_incomplete(), the usable criteria, the priority, the budget's keys, and the
\* project and the repository that must exist.
RequestAccepted(r) ==
  /\ r.objective /\ r.criteria = "usable"
  /\ r.priority \in {"NORMAL", "LOW", "HIGH", "CRITICAL"}
  /\ r.budget = "known" /\ r.project /\ r.repository = "registered"

DefineChange(r) ==
  /\ ~defined
  /\ RequestAccepted(r)
  /\ defined' = TRUE
  /\ UNCHANGED <<rows, items, cases, offered, running>>

\* compile_intent() raises: no statement, an unknown dimension, an empty description or
\* an ambiguous wording.
Refused(statements) ==
  \/ statements = {}
  \/ \E s \in statements : s.type \notin Dimensions \/ s.text # "plain"

\* compile_intent(): what nobody declared is to be preserved.
Compiled(statements) ==
  LET declared == {[type |-> s.type, touches |-> s.touches, authorized |-> FALSE] :
                     s \in statements}
  IN IF \E s \in statements : s.type = "PRESERVE" THEN declared
     ELSE declared \cup {[type |-> "PRESERVE", touches |-> {}, authorized |-> FALSE]}

BuildLedger(k, task, statements) ==
  /\ task = Task => defined
  /\ ~Refused(statements)
  /\ Room("ledger")
  /\ Create(k, "ledger", [task |-> task, ledger |-> NoRow, status |-> "PROPOSED"])
  /\ items' = [j \in DOMAIN items \cup {k} |->
                 IF j = k THEN Compiled(statements) ELSE items[j]]
  /\ UNCHANGED <<defined, cases, offered, running>>

\* lock_intent_ledger(): locking confirms and authorizes the items.
LockLedger(k) ==
  /\ k \in Of("ledger")
  /\ LockAs(k, [rows[k].data EXCEPT !.status = "LOCKED"])
  /\ items' = [j \in DOMAIN items |->
                 IF j = k THEN {[i EXCEPT !.authorized = TRUE] : i \in items[j]}
                 ELSE items[j]]
  /\ UNCHANGED <<defined, cases, offered, running>>

\* resolve_constraints(): the claims a REPLACE item overlaps.
Conflicts(k) ==
  {c \in Claims : \E i \in ItemsOf(k) : i.type = "REPLACE" /\ c \in i.touches}

-----------------------------------------------------------------------------
(* Impact map and verification plan *)

\* build_semantic_impact(): without a behavior it is a list of files.
BuildImpact(k, affected) ==
  /\ defined /\ affected # {}
  /\ Room("impact")
  /\ Create(k, "impact", [task |-> Task, ledger |-> NoRow, status |-> "DRAFT"])
  /\ UNCHANGED <<defined, items, cases, offered, running>>

\* lock_semantic_impact() locks the map that is first in key order.
LockImpact ==
  /\ OfTask("impact") # {}
  /\ LET k == First(OfTask("impact"))
     IN LockAs(k, [rows[k].data EXCEPT !.status = "LOCKED"])
  /\ UNCHANGED <<defined, items, cases, offered, running>>

\* _validate() of verification_plan.py: no case without a target or with one that is not
\* affected, and no affected behavior without a case.
Covered(affected, targets) ==
  /\ affected # {} /\ targets # {}
  /\ {} \notin targets
  /\ UNION targets = affected

BuildPlan(k, ledger, affected, targets) ==
  /\ defined /\ ledger \in Of("ledger") \cup {NoRow}
  /\ Covered(affected, targets)
  /\ Room("plan")
  /\ Create(k, "plan", [task |-> Task, ledger |-> ledger, status |-> "DRAFT"])
  /\ cases' = [j \in DOMAIN cases \cup {k} |-> IF j = k THEN targets ELSE cases[j]]
  /\ UNCHANGED <<defined, items, offered, running>>

\* lock_verification_plan(); the plan's cases are locked with it.
LockPlan(k) ==
  /\ k \in Of("plan")
  /\ LockAs(k, [rows[k].data EXCEPT !.status = "LOCKED"])
  /\ UNCHANGED <<defined, items, cases, offered, running>>

\* bump_intent_ledger(), and bump() of the other models.  Items and cases belong to the row
\* they were written for: a new version has none.
BumpRow(k) ==
  /\ rows[k].version < MaxVersion
  /\ \/ BumpInPlace(k)
     \/ Room(rows[k].kind) /\ \E new \in Keys : BumpNewIdentity(k, new)
  /\ UNCHANGED <<defined, items, cases, offered, running>>

\* Certificates live in the same store under the same rules.
IssueCertificate(k) ==
  /\ Room("certificate")
  /\ Create(k, "certificate", [task |-> NoTask, ledger |-> NoRow, status |-> "DRAFT"])
  /\ UNCHANGED <<defined, items, cases, offered, running>>

LockCertificate(k) ==
  /\ k \in Of("certificate")
  /\ LockAs(k, rows[k].data)
  /\ UNCHANGED <<defined, items, cases, offered, running>>

-----------------------------------------------------------------------------
(* Gate, handoff and barrier *)

\* _collect_components() names no failure; the constitution is the caller's argument.
ComponentsSound(ledger, constitution) ==
  /\ defined
  /\ ledger \in Of("ledger") /\ rows[ledger].data.task \in {Task, NoTask}
  /\ OfTask("impact") # {}
  /\ OfTask("plan") # {}
  /\ rows[First(OfTask("plan"))].data.ledger \in {ledger, NoRow}
  /\ constitution = "locked"

\* _build_context()
ContextOf(ledger) ==
  LET impact == First(OfTask("impact"))
      plan == First(OfTask("plan"))
  IN [ledger |-> ledger, impact |-> impact, plan |-> plan,
      versions |-> [kind \in Kinds |->
                      CASE kind = "ledger" -> rows[ledger].version
                        [] kind = "impact" -> rows[impact].version
                        [] kind = "plan" -> rows[plan].version
                        [] OTHER -> 0],
      locked |-> IsLocked(ledger) /\ IsLocked(impact) /\ IsLocked(plan),
      conflicts |-> Conflicts(ledger)]

\* pre_coding_gate() returns PASS.
GatePasses(ledger, constitution) ==
  ComponentsSound(ledger, constitution) /\ ContextOf(ledger).locked

\* Faulty variant: the context of a gate that was not asked for the locks.
OfferUnlocked(ledger, constitution) ==
  /\ running = NoContext
  /\ ComponentsSound(ledger, constitution)
  /\ offered' = [ContextOf(ledger) EXCEPT !.locked = TRUE]
  /\ UNCHANGED <<rows, defined, items, cases, running>>

\* The caller keeps the context of a verdict that passes.
AskGate(ledger, constitution) ==
  /\ running = NoContext
  /\ GatePasses(ledger, constitution)
  /\ offered' = ContextOf(ledger)
  /\ UNCHANGED <<rows, defined, items, cases, running>>

\* Faulty variant: no look for a successor.
HandoffAcceptsStale(c) ==
  /\ c # NoContext /\ c.locked
  /\ c.ledger \in Stored /\ IsLocked(c.ledger)
  /\ rows[c.ledger].version = c.versions["ledger"]
  /\ c.plan \in Stored /\ IsLocked(c.plan)
  /\ rows[c.plan].version = c.versions["plan"]
  /\ rows[c.plan].data.task \in {Task, NoTask}

\* pre_coding_handoff() accepts the context: its ledger and its plan are locked still, at
\* the versions it gives, and nothing supersedes them.
HandoffAccepts(c) ==
  /\ c # NoContext /\ c.locked
  /\ \A k \in {c.ledger, c.plan} : k \in Stored /\ IsLocked(k) /\ ~HasSuccessor(k)
  /\ rows[c.ledger].version = c.versions["ledger"]
  /\ rows[c.plan].version = c.versions["plan"]
  /\ rows[c.plan].data.task \in {Task, NoTask}

\* ExecutionBarrier.evaluate(): of the impact map it reads the one that is first.
BarrierPasses(c, authorized) ==
  /\ HandoffAccepts(c)
  /\ OfTask("impact") # {}
  /\ LET impact == First(OfTask("impact"))
     IN IsLocked(impact) /\ rows[impact].version = c.versions["impact"]
  /\ authorized

\* CodingAgentLoop.run() asks the barrier once, and runs on.
Start(authorized) ==
  /\ running = NoContext
  /\ BarrierPasses(offered, authorized)
  /\ running' = offered
  /\ UNCHANGED <<rows, defined, items, cases, offered>>

Finish ==
  /\ running # NoContext
  /\ running' = NoContext
  /\ UNCHANGED <<rows, defined, items, cases, offered>>

-----------------------------------------------------------------------------

Build ==
  \/ \E r \in Requests : DefineChange(r)
  \/ \E k \in Keys, task \in LedgerTasks, s \in Statements : BuildLedger(k, task, s)
  \/ \E k \in Keys, affected \in SUBSET Behaviors : BuildImpact(k, affected)
  \/ \E k \in Keys, ledger \in Keys \cup {NoRow}, affected \in SUBSET Behaviors,
        targets \in SUBSET SUBSET Behaviors : BuildPlan(k, ledger, affected, targets)
  \/ \E k \in Keys : IssueCertificate(k)

Lock ==
  \/ \E k \in Stored : LockLedger(k) \/ LockPlan(k) \/ LockCertificate(k)
  \/ LockImpact

Bump == \E k \in Stored : BumpRow(k)

Gate == \E k \in Keys, constitution \in {"locked", "unlocked", "unknown"} :
          AskGate(k, constitution)

Loop == \/ \E authorized \in BOOLEAN : Start(authorized)
        \/ Finish

Next == Build \/ Lock \/ Bump \/ Gate \/ Loop

Spec == Init /\ [][Next]_vars

-----------------------------------------------------------------------------
(* Properties *)

\* What a context says of the rows it names.
Stands(c) ==
  c # NoContext =>
    /\ \A k \in {c.ledger, c.impact, c.plan} : k \in Stored /\ IsLocked(k)
    /\ rows[c.ledger].version = c.versions["ledger"]
    /\ rows[c.impact].version = c.versions["impact"]
    /\ rows[c.plan].version = c.versions["plan"]
    /\ c.conflicts = Conflicts(c.ledger)
    /\ \A i \in ItemsOf(c.ledger) : i.authorized

\* The contract of a change is frozen when coding starts: whatever is built, locked or
\* bumped meanwhile, the rows of the context an agent waits for or runs on are locked at
\* the versions it carries, and the conflicts it reports are those of its intent, every
\* item of which was authorized.
ContractFrozen == Stands(offered) /\ Stands(running)

\* No loop starts on a contract that a newer version has replaced, however long ago its
\* context passed the gate.
StartsOnCurrent ==
  [][running = NoContext /\ running' # NoContext =>
       ~HasSuccessor(running'.ledger) /\ ~HasSuccessor(running'.plan)]_vars

\* A task whose objects are all there, locked and current passes the gate: what
\* lock_gate.py promises of PASS ("any other combination is BLOCKED").
RenewalPasses ==
  \A k \in OfTask("ledger") :
    /\ IsLocked(k) /\ ~HasSuccessor(k)
    /\ \E p \in OfTask("plan") :
         IsLocked(p) /\ ~HasSuccessor(p) /\ rows[p].data.ledger = k
    /\ \E m \in OfTask("impact") : IsLocked(m) /\ ~HasSuccessor(m)
    => GatePasses(k, "locked")

=============================================================================

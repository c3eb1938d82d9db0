----------------------------- MODULE TaskGraph -----------------------------
(***************************************************************************)
(* The task graph of the agent runtime (smorx_runtime/graph.py): how tasks *)
(* and dependencies are registered, and how waves() layers them into the   *)
(* plan of execution waves that the orchestrator dispatches.               *)
(*                                                                         *)
(* waves() is one synchronous call.  Here each turn of its loops is an     *)
(* action, so that what the plan guarantees can be proved by induction     *)
(* over the turns, for every graph.                                        *)
(***************************************************************************)
EXTENDS Integers, FiniteSets, Sequences

CONSTANTS
  TaskIds,         \* the task ids, numbered in the order sorted() gives them
  MaxParallelism   \* max_parallelism of the call (never None from the orchestrator)

ASSUME TaskIdsAssumption == TaskIds \subseteq Nat /\ IsFiniteSet(TaskIds)
ASSUME MaxParallelismAssumption == MaxParallelism \in Nat

VARIABLES
  graph,        \* registered tasks: id -> [kind, deps]
  planState,    \* where the caller is: building the graph, in waves(), after it
  unscheduled,  \* tasks not yet in a wave ("done" is the rest of the graph)
  layer,        \* ready tasks of the current layer that still wait for their wave
  plan          \* the waves emitted so far, each the set of its tasks

graphVars == <<graph, planState, unscheduled, layer, plan>>

TaskKinds == {"INDEPENDENT", "DEPENDENT", "RECONCILER", "SERIALIZED"}

TaskSpecs == [kind : TaskKinds, deps : SUBSET TaskIds]

Priority == [INDEPENDENT |-> 0, DEPENDENT |-> 1, RECONCILER |-> 2, SERIALIZED |-> 3]

(***************************************************************************)
(* The sort key (kind priority, id): total, so every wave has one order.   *)
(***************************************************************************)
Before(t, u) ==
  \/ Priority[graph[t].kind] < Priority[graph[u].kind]
  \/ Priority[graph[t].kind] = Priority[graph[u].kind] /\ t < u

-----------------------------------------------------------------------------
(* Registering tasks and dependencies. *)

\* Faulty variant: only the edge that points straight back is refused.
CreatesDirectCycle(t, d) == t = d \/ (d \in DOMAIN graph /\ t \in graph[d].deps)

\* _creates_cycle: the walk from d takes the dependencies of every task it comes to, and
\* leaves ids without a task alone; it meets t when t is in every set closed that way.
Closed(S) == \A u \in S \cap DOMAIN graph : graph[u].deps \subseteq S

CreatesCycle(t, d) == \A S \in SUBSET TaskIds : d \in S /\ Closed(S) => t \in S

\* add(): a task arrives with the dependencies of its spec, unchecked.
Add(t, k, d) ==
  /\ planState = "building"
  /\ t \notin DOMAIN graph
  /\ graph' = [u \in DOMAIN graph \cup {t} |->
                 IF u = t THEN [kind |-> k, deps |-> d] ELSE graph[u]]
  /\ UNCHANGED <<planState, unscheduled, layer, plan>>

\* add_dependency(): refused for an unknown id and for an edge that closes a cycle.
AddDependency(t, d) ==
  /\ planState = "building"
  /\ {t, d} \subseteq DOMAIN graph
  /\ d \notin graph[t].deps
  /\ ~ CreatesCycle(t, d)
  /\ graph' = [graph EXCEPT ![t].deps = @ \cup {d}]
  /\ UNCHANGED <<planState, unscheduled, layer, plan>>

-----------------------------------------------------------------------------
(* waves(completed = ()) *)

\* Faulty variants: one finished dependency is enough; an unknown one is no obstacle.
ReadyOnAny ==
  {t \in unscheduled : graph[t].deps = {} \/ graph[t].deps \cap (DOMAIN graph \ unscheduled) # {}}

ReadyDespiteUnknown == {t \in unscheduled : graph[t].deps \cap unscheduled = {}}

Ready == {t \in unscheduled : graph[t].deps \subseteq DOMAIN graph \ unscheduled}

Serialized(S) == {t \in S : graph[t].kind = "SERIALIZED"}

\* Faulty variant: a slice that is one too long.
OneTooMany(k) == {t \in layer : Cardinality({u \in layer : Before(u, t)}) <= k}

\* The first k tasks of the layer in sort order: one slice of the layer.
FirstOfLayer(k) == {t \in layer : Cardinality({u \in layer : Before(u, t)}) < k}

BeginPlanning ==
  /\ planState = "building"
  /\ planState' = IF MaxParallelism < 1 THEN "error" ELSE "planning"
  /\ unscheduled' = DOMAIN graph
  /\ UNCHANGED <<graph, layer, plan>>

\* A turn of the outer loop finds the candidates; serialized ones go alone and first.
PlanLayer ==
  /\ planState = "planning"
  /\ unscheduled # {} /\ layer = {} /\ Ready # {}
  /\ layer' = IF Serialized(Ready) # {} THEN Serialized(Ready) ELSE Ready
  /\ UNCHANGED <<graph, planState, unscheduled, plan>>

\* Faulty variant: serialized tasks are packed like any other.
CapacityOfAnyKind == MaxParallelism

Capacity == IF Serialized(layer) # {} THEN 1 ELSE MaxParallelism

\* Faulty variant: the slice is emitted but stays in the layer.
PlanWaveAgain ==
  /\ planState = "planning"
  /\ layer # {}
  /\ plan' = Append(plan, FirstOfLayer(Capacity))
  /\ unscheduled' = unscheduled \ FirstOfLayer(Capacity)
  /\ UNCHANGED <<graph, planState, layer>>

PlanWave ==
  /\ planState = "planning"
  /\ layer # {}
  /\ LET wave == FirstOfLayer(Capacity) IN
       /\ plan' = Append(plan, wave)
       /\ layer' = layer \ wave
       /\ unscheduled' = unscheduled \ wave
  /\ UNCHANGED <<graph, planState>>

PlanFails ==
  /\ planState = "planning"
  /\ unscheduled # {} /\ layer = {} /\ Ready = {}
  /\ planState' = "error"
  /\ UNCHANGED <<graph, unscheduled, layer, plan>>

\* Faulty variant: the loop is left, not an error raised, when nothing is ready.
PlanDoneStuck ==
  /\ planState = "planning"
  /\ layer = {} /\ Ready = {}
  /\ planState' = "planned"
  /\ UNCHANGED <<graph, unscheduled, layer, plan>>

PlanDone ==
  /\ planState = "planning"
  /\ unscheduled = {}
  /\ planState' = "planned"
  /\ UNCHANGED <<graph, unscheduled, layer, plan>>

PlanStep == PlanLayer \/ PlanWave \/ PlanFails \/ PlanDone

-----------------------------------------------------------------------------

GraphInit ==
  /\ graph = [t \in {} |-> 0]
  /\ planState = "building"
  /\ unscheduled = {} /\ layer = {} /\ plan = <<>>

GraphNext ==
  \/ \E t \in TaskIds, k \in TaskKinds, d \in SUBSET TaskIds : Add(t, k, d)
  \/ \E t, d \in TaskIds : AddDependency(t, d)
  \/ BeginPlanning
  \/ PlanStep

GraphSpec == GraphInit /\ [][GraphNext]_graphVars

-----------------------------------------------------------------------------

\* The variables hold what the code's containers can hold.
GraphTypeOK ==
  /\ DOMAIN graph \subseteq TaskIds
  /\ graph \in [DOMAIN graph -> TaskSpecs]
  /\ planState \in {"building", "planning", "planned", "error"}
  /\ layer \subseteq unscheduled /\ unscheduled \subseteq DOMAIN graph
  /\ plan \in Seq(SUBSET TaskIds)

\* A task is planned only after the waves of everything it depends on
\* (the greedy layering of waves(), with its done set updated inside the loop).
DependencyOrder ==
  \A i \in DOMAIN plan : \A t \in plan[i] : \A d \in graph[t].deps :
    \E j \in 1 .. i - 1 : d \in plan[j]

\* A SERIALIZED task is alone in its wave, even when other tasks became ready
\* in the same layer and whatever max_parallelism is.
SerializedAlone ==
  \A i \in DOMAIN plan : \A t \in plan[i] :
    graph[t].kind = "SERIALIZED" => plan[i] = {t}

\* No wave is wider than max_parallelism and none is empty.
WaveWidth ==
  \A i \in DOMAIN plan : Cardinality(plan[i]) \in 1 .. MaxParallelism

\* A wave as it is handed to the engine (waves(), the slices of a layer): behind its
\* dependencies, no wider than allowed, and alone if it is serialized.
WaveShape == DependencyOrder /\ SerializedAlone /\ WaveWidth

\* No task is planned twice, and a finished plan covers the whole graph.
PlanPartition ==
  /\ \A i, j \in DOMAIN plan : i # j => plan[i] \cap plan[j] = {}
  /\ planState = "planned" => UNION {plan[i] : i \in DOMAIN plan} = DOMAIN graph

\* Reference definition: some order puts every task after its dependencies, i.e.
\* no nonempty set of tasks only has members that wait for it or for an unknown id.
Plannable ==
  ~ \E S \in SUBSET DOMAIN graph :
      S # {} /\ \A t \in S : graph[t].deps \cap (S \cup (TaskIds \ DOMAIN graph)) # {}

\* waves() raises for the graphs that have no order, and for no other graph:
\* the verdict does not depend on which tasks the layering took first.
PlanVerdict ==
  /\ planState = "planned" => Plannable
  /\ planState = "error" => MaxParallelism < 1 \/ ~ Plannable

\* What the call owes its caller: PlanPartition and PlanVerdict (waves() as a whole).
PlanSound == PlanPartition /\ PlanVerdict

\* add_dependency never makes a graph unplannable (its cycle check is enough),
\* although the edges that came with add() were never checked.
DependencyKeepsPlannable ==
  [][(Plannable /\ DOMAIN graph' = DOMAIN graph) => Plannable']_graphVars

=============================================================================

------------------------- MODULE OrchestratorProofs -------------------------
(***************************************************************************)
(* Proofs about the orchestrator, for every graph, every retry policy and  *)
(* every behaviour of the executors.  First the plan: how waves() lays out *)
(* any graph (module TaskGraph).  Then the run that carries it out.        *)
(***************************************************************************)
EXTENDS Orchestrator, FiniteSetTheorems, WellFoundedInduction, TLAPS

(* The wave engine, with what is proved of it. *)
Waves == INSTANCE WaveEngineProofs WITH WaveIds <- Nat \ {0}

-----------------------------------------------------------------------------
(* The wave plan *)

\* While waves() runs: the scheduled tasks are exactly those of the emitted waves, the
\* current layer is ready, and it is all serialized or not at all.  The plan's own
\* properties follow from these, turn by turn.
Scheduled == DOMAIN graph \ unscheduled

Covered == \A t \in Scheduled : \E i \in DOMAIN plan : t \in plan[i]

OnlyScheduled == \A i \in DOMAIN plan : plan[i] \subseteq Scheduled

LayerReady == \A t \in layer : graph[t].deps \subseteq Scheduled

LayerUniform ==
  (\A t \in layer : graph[t].kind = "SERIALIZED") \/ (\A t \in layer : graph[t].kind # "SERIALIZED")

PlanDisjoint == \A i, j \in DOMAIN plan : i # j => plan[i] \cap plan[j] = {}

Stage ==
  /\ planState = "building" => unscheduled = {} /\ layer = {} /\ plan = <<>>
  /\ planState = "planned" => unscheduled = {}
  /\ planState = "planning" => MaxParallelism >= 1
  /\ planState = "error" => MaxParallelism < 1 \/ (unscheduled # {} /\ Ready = {})

PlanInv ==
  /\ GraphTypeOK
  /\ Stage
  /\ planState # "building" => Covered
  /\ OnlyScheduled
  /\ LayerReady
  /\ LayerUniform
  /\ PlanDisjoint
  /\ DependencyOrder
  /\ SerializedAlone
  /\ WaveWidth

\* Where a task stands in its layer.
Smaller(u) == {v \in layer : Before(v, u)}

Rank(u) == Cardinality(Smaller(u))

\* The sort order is strict and total on a layer.
LEMMA BeforeIsOrder ==
  ASSUME GraphTypeOK, NEW t \in layer, NEW u \in layer
  PROVE  /\ ~Before(t, t)
         /\ t # u => Before(t, u) \/ Before(u, t)
         /\ \A v \in layer : Before(v, t) /\ Before(t, u) => Before(v, u)
<1>1. \A v \in layer : v \in Nat /\ graph[v].kind \in TaskKinds
  BY TaskIdsAssumption DEF GraphTypeOK, TaskSpecs
<1>2. \A k \in TaskKinds : Priority[k] \in Nat
  BY DEF TaskKinds, Priority
<1> HIDE DEF Priority
<1> QED BY <1>1, <1>2 DEF Before

\* Ranks are natural numbers that grow along the sort order.
LEMMA RankGrows ==
  ASSUME GraphTypeOK, NEW t \in layer, NEW u \in layer
  PROVE  Rank(t) \in Nat /\ (Before(t, u) => Rank(t) < Rank(u))
<1>1. layer \subseteq TaskIds /\ IsFiniteSet(layer)
  BY TaskIdsAssumption, FS_Subset DEF GraphTypeOK
<1>2. \A v \in layer : IsFiniteSet(Smaller(v)) /\ Rank(v) \in Nat
  <2> SUFFICES ASSUME NEW v \in layer PROVE IsFiniteSet(Smaller(v)) /\ Rank(v) \in Nat
    OBVIOUS
  <2>1. Smaller(v) \subseteq layer
    BY DEF Smaller
  <2>2. IsFiniteSet(Smaller(v))
    BY <2>1, <1>1, FS_Subset
  <2> QED BY <2>2, FS_CardinalityType DEF Rank
<1>3. ASSUME Before(t, u) PROVE Rank(t) < Rank(u)
  <2>1. Smaller(t) \subseteq Smaller(u)
    BY <1>3, BeforeIsOrder DEF Smaller
  <2>2. t \in Smaller(u) /\ t \notin Smaller(t)
    BY <1>3, BeforeIsOrder DEF Smaller
  <2>3. Rank(t) <= Rank(u) /\ Rank(u) # Rank(t)
    BY <2>1, <2>2, <1>2, FS_Subset DEF Rank
  <2> QED BY <2>3, <1>2
<1> QED BY <1>2, <1>3

\* A slice of a layer holds at least one task and at most as many as it may.
LEMMA SliceWidth ==
  ASSUME GraphTypeOK, layer # {}, NEW k \in Nat \ {0}
  PROVE  Cardinality(FirstOfLayer(k)) \in 1 .. k
<1> DEFINE w == FirstOfLayer(k)
           rank == [t \in w |-> Rank(t)]
<1>1. w = {t \in layer : Rank(t) < k}
  BY DEF FirstOfLayer, Rank, Smaller
<1>2. rank \in [w -> 0 .. k - 1]
  BY <1>1, RankGrows
<1>3. ASSUME NEW a \in w, NEW b \in w, rank[a] = rank[b] PROVE a = b
  <2>1. a \in layer /\ b \in layer /\ Rank(a) = Rank(b)
    BY <1>1, <1>3
  <2> QED BY <2>1, BeforeIsOrder, RankGrows
<1>4. rank \in Injection(w, 0 .. k - 1)
  <2>1. IsInjective(rank)
    BY <1>2, <1>3 DEF IsInjective
  <2> HIDE DEF w, rank
  <2> QED BY <1>2, <2>1 DEF Injection
<1>5. IsFiniteSet(0 .. k - 1) /\ Cardinality(0 .. k - 1) = k
  BY FS_Interval
<1>6. IsFiniteSet(w) /\ Cardinality(w) <= k
  BY <1>4, <1>5, FS_Injection
<1>7. PICK t \in layer : \A u \in layer : ~(Rank(u) < Rank(t))
  <2> DEFINE ranks == {Rank(u) : u \in layer}
  <2>1. ranks \subseteq Nat /\ ranks # {}
    BY RankGrows
  <2>2. PICK x \in ranks : \A y \in ranks : ~(<<y, x>> \in OpToRel(<, Nat))
    BY <2>1, WFMin, NatLessThanWellFounded
  <2>3. \A y \in ranks : ~(y < x)
    BY <2>1, <2>2 DEF OpToRel
  <2> QED BY <2>3
<1>8. Smaller(t) = {}
  BY <1>7, RankGrows DEF Smaller
<1>9. Rank(t) = 0
  BY <1>8, FS_EmptySet DEF Rank
<1>10. w # {}
  BY <1>1, <1>7, <1>9
<1>11. Cardinality(w) \in Nat /\ Cardinality(w) # 0
  BY <1>6, <1>10, FS_CardinalityType, FS_EmptySet
<1> QED BY <1>6, <1>11

\* The first slice of a layer of serialized tasks is a single task: the sort order is total.
LEMMA SerializedSlice ==
  ASSUME GraphTypeOK, \A t \in layer : graph[t].kind = "SERIALIZED",
         NEW t \in FirstOfLayer(1)
  PROVE  FirstOfLayer(1) = {t}
<1>1. layer \subseteq TaskIds /\ IsFiniteSet(layer)
  BY TaskIdsAssumption, FS_Subset DEF GraphTypeOK
<1>2. ASSUME NEW u \in FirstOfLayer(1) PROVE Smaller(u) = {}
  <2>1. Cardinality(Smaller(u)) < 1
    BY <1>2 DEF FirstOfLayer, Smaller
  <2>2. IsFiniteSet(Smaller(u))
    <3>1. Smaller(u) \subseteq layer BY DEF Smaller
    <3> QED BY <1>1, <3>1, FS_Subset
  <2>3. Cardinality(Smaller(u)) = 0
    BY <2>1, <2>2, FS_CardinalityType
  <2> QED BY <2>2, <2>3, FS_EmptySet
<1>3. ASSUME NEW u \in FirstOfLayer(1), u # t PROVE FALSE
  <2>1. u \in layer /\ t \in layer
    BY <1>3 DEF FirstOfLayer
  <2>2. Before(u, t) \/ Before(t, u)
    BY <2>1, <1>3, BeforeIsOrder
  <2> QED BY <2>1, <2>2, <1>2, <1>3 DEF Smaller
<1> QED BY <1>3

\* A turn that emits a wave of ready tasks keeps the plan's properties.
LEMMA PlanWaveInv == PlanInv /\ PlanWave => PlanInv'
<1> SUFFICES ASSUME PlanInv, PlanWave PROVE PlanInv'
  OBVIOUS
<1> DEFINE w == FirstOfLayer(Capacity)
<1> USE DEF PlanInv
<1>1. /\ plan' = Append(plan, w) /\ layer' = layer \ w /\ unscheduled' = unscheduled \ w
      /\ graph' = graph /\ planState' = planState /\ planState = "planning"
  BY DEF PlanWave
<1>2. w \subseteq layer /\ w \subseteq unscheduled /\ w \subseteq DOMAIN graph /\ w \in SUBSET TaskIds
  BY DEF FirstOfLayer, GraphTypeOK
<1> HIDE DEF w
<1>3. plan \in Seq(SUBSET TaskIds) /\ Len(plan) \in Nat /\ DOMAIN plan = 1 .. Len(plan)
  BY DEF GraphTypeOK
<1>4. /\ DOMAIN plan' = 1 .. Len(plan) + 1
      /\ \A i \in DOMAIN plan : i \in DOMAIN plan' /\ i # Len(plan) + 1 /\ plan'[i] = plan[i]
      /\ plan'[Len(plan) + 1] = w
      /\ plan' \in Seq(SUBSET TaskIds)
  BY <1>1, <1>2, <1>3
<1>5. \A i \in DOMAIN plan' : i \in DOMAIN plan \/ i = Len(plan) + 1
  BY <1>3, <1>4
<1>6. Scheduled' = Scheduled \cup w
  BY <1>1, <1>2 DEF Scheduled
<1>7. GraphTypeOK'
  BY <1>1, <1>2, <1>4 DEF GraphTypeOK
<1>8. Stage'
  BY <1>1 DEF Stage
<1>9. Covered'
  <2> SUFFICES ASSUME NEW t \in Scheduled' PROVE \E i \in DOMAIN plan' : t \in plan'[i]
    BY DEF Covered
  <2>1. CASE t \in w
    BY <2>1, <1>3, <1>4
  <2>2. CASE t \in Scheduled
    BY <2>2, <1>1, <1>4 DEF Covered
  <2> QED BY <2>1, <2>2, <1>6
<1>10. OnlyScheduled'
  BY <1>4, <1>5, <1>6 DEF OnlyScheduled
<1>11. LayerReady'
  BY <1>1, <1>6 DEF LayerReady
<1>12. LayerUniform'
  BY <1>1 DEF LayerUniform
<1>13. PlanDisjoint'
  <2>1. \A i \in DOMAIN plan : plan[i] \cap w = {}
    BY <1>2 DEF OnlyScheduled, Scheduled
  <2> QED BY <2>1, <1>4, <1>5 DEF PlanDisjoint
<1>14. DependencyOrder'
  <2> SUFFICES ASSUME NEW i \in DOMAIN plan', NEW t \in plan'[i], NEW d \in graph[t].deps
               PROVE \E j \in 1 .. i - 1 : d \in plan'[j]
    BY <1>1 DEF DependencyOrder
  <2>1. CASE i \in DOMAIN plan
    <3>1. PICK j \in 1 .. i - 1 : d \in plan[j]
      BY <2>1, <1>4 DEF DependencyOrder
    <3>2. j \in DOMAIN plan
      BY <2>1, <3>1, <1>3
    <3> QED BY <3>1, <3>2, <1>4
  <2>2. CASE i = Len(plan) + 1
    <3>1. d \in Scheduled
      BY <2>2, <1>2, <1>4 DEF LayerReady
    <3>2. PICK j \in DOMAIN plan : d \in plan[j]
      BY <3>1, <1>1 DEF Covered
    <3>3. j \in 1 .. i - 1
      BY <2>2, <1>3, <3>2
    <3> QED BY <3>2, <3>3, <1>4
  <2> QED BY <2>1, <2>2, <1>5
<1>15. SerializedAlone'
  <2> SUFFICES ASSUME NEW i \in DOMAIN plan', NEW t \in plan'[i], graph[t].kind = "SERIALIZED"
               PROVE plan'[i] = {t}
    BY <1>1 DEF SerializedAlone
  <2>1. CASE i \in DOMAIN plan
    BY <2>1, <1>4 DEF SerializedAlone
  <2>2. CASE i = Len(plan) + 1
    <3>1. t \in w /\ t \in layer
      BY <2>2, <1>2, <1>4
    <3>2. \A u \in layer : graph[u].kind = "SERIALIZED"
      BY <3>1 DEF LayerUniform
    <3>3. Capacity = 1
      BY <3>1, <3>2 DEF Capacity, Serialized
    <3>4. w = FirstOfLayer(1)
      BY <3>3 DEF w
    <3>5. w = {t}
      BY <3>1, <3>2, <3>4, SerializedSlice
    <3> QED BY <2>2, <3>5, <1>4
  <2> QED BY <2>1, <2>2, <1>5
<1>16. WaveWidth'
  <2>1. Cardinality(w) \in 1 .. MaxParallelism
    <3>1. MaxParallelism \in Nat \ {0} /\ layer # {}
      BY <1>1, MaxParallelismAssumption DEF Stage, PlanWave
    <3>2. Capacity \in Nat \ {0} /\ Capacity <= MaxParallelism
      BY <3>1 DEF Capacity
    <3>3. Cardinality(w) \in 1 .. Capacity
      BY <3>1, <3>2, SliceWidth DEF w
    <3> QED BY <3>1, <3>2, <3>3
  <2> QED BY <2>1, <1>4, <1>5 DEF WaveWidth
<1> QED
  BY <1>7, <1>8, <1>9, <1>10, <1>11, <1>12, <1>13, <1>14, <1>15, <1>16

\* The other turns of waves(), and its call.
LEMMA PlanStepInv == PlanInv /\ (BeginPlanning \/ PlanStep) => PlanInv'
<1> SUFFICES ASSUME PlanInv, BeginPlanning \/ PlanStep PROVE PlanInv'
  OBVIOUS
<1> USE DEF PlanInv
<1>1. CASE BeginPlanning
  <2>1. /\ graph' = graph /\ layer' = layer /\ plan' = plan /\ unscheduled' = DOMAIN graph
        /\ layer = {} /\ plan = <<>> /\ planState' \in {"planning", "error"}
    BY <1>1 DEF BeginPlanning, Stage
  <2>2. GraphTypeOK'
    BY <2>1 DEF GraphTypeOK
  <2>3. Stage' /\ Covered' /\ LayerReady' /\ LayerUniform'
    BY <2>1, <1>1, MaxParallelismAssumption
       DEF BeginPlanning, Stage, Covered, LayerReady, LayerUniform, Scheduled
  <2>4. DOMAIN plan' = {}
    BY <2>1
  <2>5. OnlyScheduled' /\ PlanDisjoint' /\ DependencyOrder' /\ SerializedAlone' /\ WaveWidth'
    BY <2>4 DEF OnlyScheduled, PlanDisjoint, DependencyOrder, SerializedAlone, WaveWidth
  <2> QED BY <2>2, <2>3, <2>5
<1>2. CASE PlanLayer
  <2>1. /\ graph' = graph /\ plan' = plan /\ unscheduled' = unscheduled /\ planState' = planState
        /\ layer' = IF Serialized(Ready) # {} THEN Serialized(Ready) ELSE Ready
    BY <1>2 DEF PlanLayer
  <2>2. layer' \subseteq Ready
    BY <2>1 DEF Serialized
  <2>3. GraphTypeOK'
    BY <2>1, <2>2 DEF GraphTypeOK, Ready
  <2>4. LayerReady'
    BY <2>1, <2>2 DEF LayerReady, Ready, Scheduled
  <2>5. LayerUniform'
    BY <2>1 DEF LayerUniform, Serialized
  <2>6. Stage'
    BY <2>1, <1>2 DEF Stage, PlanLayer
  <2>7. (planState' # "building" => Covered') /\ OnlyScheduled' /\ PlanDisjoint'
    BY <2>1 DEF Covered, OnlyScheduled, PlanDisjoint, Scheduled
  <2>8. DependencyOrder' /\ SerializedAlone' /\ WaveWidth'
    BY <2>1 DEF DependencyOrder, SerializedAlone, WaveWidth
  <2> QED BY <2>3, <2>4, <2>5, <2>6, <2>7, <2>8
<1>3. CASE PlanWave
  BY <1>3, PlanWaveInv
<1>4. CASE PlanFails \/ PlanDone
  <2>1. /\ graph' = graph /\ plan' = plan /\ unscheduled' = unscheduled /\ layer' = layer
        /\ planState = "planning"
        /\ planState' = "error" \/ (planState' = "planned" /\ unscheduled = {})
    BY <1>4 DEF PlanFails, PlanDone
  <2>2. GraphTypeOK'
    BY <2>1 DEF GraphTypeOK
  <2>3. Stage'
    BY <2>1, <1>4 DEF Stage, PlanFails, PlanDone, Ready
  <2>4. Covered' /\ OnlyScheduled' /\ PlanDisjoint' /\ LayerReady' /\ LayerUniform'
    BY <2>1 DEF Covered, OnlyScheduled, PlanDisjoint, LayerReady, LayerUniform, Scheduled
  <2>5. DependencyOrder' /\ SerializedAlone' /\ WaveWidth'
    BY <2>1 DEF DependencyOrder, SerializedAlone, WaveWidth
  <2> QED BY <2>2, <2>3, <2>4, <2>5
<1> QED
  BY <1>1, <1>2, <1>3, <1>4 DEF PlanStep

\* Building the graph only changes it before there is a plan.
LEMMA BuildInv ==
  ASSUME PlanInv, NEW t \in TaskIds, NEW k \in TaskKinds, NEW d \in SUBSET TaskIds, NEW e \in TaskIds,
         Add(t, k, d) \/ AddDependency(t, e)
  PROVE  PlanInv'
<1> USE DEF PlanInv
<1>1. /\ planState = "building" /\ planState' = planState /\ unscheduled' = unscheduled
      /\ layer' = layer /\ plan' = plan /\ unscheduled = {} /\ layer = {} /\ plan = <<>>
  BY DEF Add, AddDependency, Stage
<1>2. DOMAIN graph' \subseteq TaskIds /\ graph' \in [DOMAIN graph' -> TaskSpecs]
  <2>1. CASE Add(t, k, d)
    <3>1. [kind |-> k, deps |-> d] \in TaskSpecs
      BY DEF TaskSpecs
    <3> QED BY <2>1, <3>1 DEF Add, GraphTypeOK
  <2>2. CASE AddDependency(t, e)
    <3>1. graph[t] \in TaskSpecs
      BY <2>2 DEF AddDependency, GraphTypeOK
    <3>2. [graph[t] EXCEPT !.deps = @ \cup {e}] \in TaskSpecs
      BY <3>1 DEF TaskSpecs
    <3> QED BY <2>2, <3>2 DEF AddDependency, GraphTypeOK
  <2> QED BY <2>1, <2>2
<1>3. GraphTypeOK'
  BY <1>1, <1>2 DEF GraphTypeOK
<1>4. DOMAIN plan' = {} /\ layer' = {}
  BY <1>1
<1> QED
  BY <1>1, <1>3, <1>4 DEF Stage, OnlyScheduled, LayerReady, LayerUniform, PlanDisjoint,
     DependencyOrder, SerializedAlone, WaveWidth

LEMMA PlanInvInductive == GraphSpec => []PlanInv
<1>1. GraphInit => PlanInv
  BY DEF GraphInit, PlanInv, GraphTypeOK, Stage, OnlyScheduled, LayerReady, LayerUniform,
     PlanDisjoint, DependencyOrder, SerializedAlone, WaveWidth
<1>2. PlanInv /\ [GraphNext]_graphVars => PlanInv'
  <2> SUFFICES ASSUME PlanInv, [GraphNext]_graphVars PROVE PlanInv'
    OBVIOUS
  <2>1. CASE \E t \in TaskIds, k \in TaskKinds, d \in SUBSET TaskIds : Add(t, k, d)
    BY <2>1, BuildInv
  <2>2. CASE \E t, d \in TaskIds : AddDependency(t, d)
    <3>1. PICK t \in TaskIds, d \in TaskIds : AddDependency(t, d)
      BY <2>2
    <3>2. "INDEPENDENT" \in TaskKinds /\ {} \in SUBSET TaskIds
      BY DEF TaskKinds
    <3> QED BY <3>1, <3>2, BuildInv
  <2>3. CASE BeginPlanning \/ PlanStep
    BY <2>3, PlanStepInv
  <2>4. CASE UNCHANGED graphVars
    BY <2>4 DEF graphVars, PlanInv, GraphTypeOK, Stage, Covered, OnlyScheduled, LayerReady,
       LayerUniform, PlanDisjoint, DependencyOrder, SerializedAlone, WaveWidth, Scheduled,
       Ready
  <2> QED BY <2>1, <2>2, <2>3, <2>4 DEF GraphNext
<1> QED BY <1>1, <1>2, PTL DEF GraphSpec

\* The variables of the planner are well typed in every reachable state.
THEOREM GraphTypeCorrect == GraphSpec => []GraphTypeOK
<1>1. PlanInv => GraphTypeOK
  BY DEF PlanInv
<1> QED BY <1>1, PlanInvInductive, PTL

\* For every graph, no task is planned before the waves of its dependencies (waves()).
THEOREM PlanRespectsDependencies == GraphSpec => []DependencyOrder
<1>1. PlanInv => DependencyOrder
  BY DEF PlanInv
<1> QED BY <1>1, PlanInvInductive, PTL

\* For every graph and max_parallelism, a SERIALIZED task is alone in its wave (waves()).
THEOREM PlanIsolatesSerialized == GraphSpec => []SerializedAlone
<1>1. PlanInv => SerializedAlone
  BY DEF PlanInv
<1> QED BY <1>1, PlanInvInductive, PTL

\* For every graph, no task is planned twice and a finished plan has every task (waves()).
THEOREM PlanCoversGraph == GraphSpec => []PlanPartition
<1>1. PlanInv => PlanPartition
  <2> SUFFICES ASSUME PlanInv PROVE PlanPartition
    OBVIOUS
  <2>1. PlanDisjoint
    BY DEF PlanInv
  <2>2. ASSUME planState = "planned"
        PROVE UNION {plan[i] : i \in DOMAIN plan} = DOMAIN graph
    <3>1. Scheduled = DOMAIN graph /\ Covered /\ OnlyScheduled
      BY <2>2 DEF PlanInv, Stage, Scheduled
    <3> QED BY <3>1 DEF Covered, OnlyScheduled
  <2> QED BY <2>1, <2>2 DEF PlanPartition, PlanDisjoint
<1> QED BY <1>1, PlanInvInductive, PTL

\* For every graph and max_parallelism, a wave has the shape it must have (waves()).
THEOREM PlanShapesWaves == GraphSpec => []WaveShape
<1>1. PlanInv => WaveShape
  BY DEF PlanInv, WaveShape
<1> QED BY <1>1, PlanInvInductive, PTL

\* A plan that has every task after its dependencies leaves no set of tasks waiting for itself.
LEMMA PlannedIsPlannable == ASSUME PlanInv, planState = "planned" PROVE Plannable
<1> SUFFICES ASSUME NEW S \in SUBSET DOMAIN graph, S # {},
                    \A t \in S : graph[t].deps \cap (S \cup (TaskIds \ DOMAIN graph)) # {}
             PROVE  FALSE
  BY DEF Plannable
<1> DEFINE planned == {i \in DOMAIN plan : plan[i] \cap S # {}}
<1>1. Scheduled = DOMAIN graph /\ Covered /\ OnlyScheduled
  BY DEF PlanInv, Stage, Scheduled
<1>2. planned \subseteq Nat /\ planned # {}
  <2>1. DOMAIN plan \subseteq Nat
    BY DEF PlanInv, GraphTypeOK
  <2>2. PICK t \in S : TRUE
    OBVIOUS
  <2>3. \E i \in DOMAIN plan : t \in plan[i]
    BY <1>1, <2>2 DEF Covered
  <2> QED BY <2>1, <2>2, <2>3
<1>3. PICK i \in planned : \A j \in planned : ~(<<j, i>> \in OpToRel(<, Nat))
  BY <1>2, WFMin, NatLessThanWellFounded
<1>4. \A j \in planned : ~(j < i)
  BY <1>2, <1>3 DEF OpToRel
<1>5. PICK t \in plan[i] : t \in S
  OBVIOUS
<1>6. PICK d \in graph[t].deps : d \in S \/ d \in TaskIds \ DOMAIN graph
  BY <1>5
<1>7. PICK j \in 1 .. i - 1 : d \in plan[j]
  BY <1>5, <1>6 DEF PlanInv, DependencyOrder
<1>8. j \in DOMAIN plan /\ j < i
  BY <1>2, <1>7 DEF PlanInv, GraphTypeOK
<1>9. d \in DOMAIN graph
  BY <1>1, <1>7, <1>8 DEF OnlyScheduled
<1>10. j \in planned
  BY <1>6, <1>7, <1>8, <1>9
<1> QED BY <1>4, <1>8, <1>10

\* For every graph, waves() plans it completely when it has an order and raises when it has
\* none, whichever tasks the layering takes first.
THEOREM PlanIsSound == GraphSpec => []PlanSound
<1>1. PlanInv => PlanVerdict
  <2> SUFFICES ASSUME PlanInv PROVE PlanVerdict
    OBVIOUS
  <2>1. planState = "planned" => Plannable
    BY PlannedIsPlannable
  <2>2. ASSUME planState = "error", ~(MaxParallelism < 1) PROVE ~Plannable
    <3>1. unscheduled # {} /\ Ready = {} /\ unscheduled \subseteq DOMAIN graph
      BY <2>2 DEF PlanInv, Stage, GraphTypeOK
    <3>2. ASSUME NEW t \in unscheduled
          PROVE  graph[t].deps \cap (unscheduled \cup (TaskIds \ DOMAIN graph)) # {}
      <4>1. graph[t].deps \subseteq TaskIds
        BY <3>1 DEF PlanInv, GraphTypeOK, TaskSpecs
      <4>2. ~(graph[t].deps \subseteq DOMAIN graph \ unscheduled)
        BY <3>1 DEF Ready
      <4> QED BY <4>1, <4>2
    <3> QED BY <3>1, <3>2 DEF Plannable
  <2> QED BY <2>1, <2>2 DEF PlanVerdict
<1> QED BY <1>1, PlanInvInductive, PlanCoversGraph, PTL DEF PlanSound

\* add_dependency() never takes away the last order a graph has: what its check lets
\* through closes no cycle, although add() took its dependencies unchecked.
LEMMA AddDependencyPlannable ==
  ASSUME GraphTypeOK, Plannable, NEW t \in TaskIds, NEW d \in TaskIds, AddDependency(t, d)
  PROVE  Plannable'
<1> DEFINE Waiting(g, S) ==
             S # {} /\ \A u \in S : g[u].deps \cap (S \cup (TaskIds \ DOMAIN graph)) # {}
<1>1. /\ t \in DOMAIN graph /\ d \in DOMAIN graph /\ DOMAIN graph' = DOMAIN graph
      /\ \A u \in DOMAIN graph : graph'[u].deps =
           IF u = t THEN graph[u].deps \cup {d} ELSE graph[u].deps
  <2>1. graph[t] \in TaskSpecs
    BY DEF AddDependency, GraphTypeOK
  <2> QED BY <2>1 DEF AddDependency, TaskSpecs
<1>2. PICK W \in SUBSET TaskIds : d \in W /\ Closed(W) /\ t \notin W
  BY DEF AddDependency, CreatesCycle
<1>3. \A S \in SUBSET DOMAIN graph : ~ Waiting(graph, S)
  BY DEF Plannable
<1> SUFFICES ASSUME NEW S \in SUBSET DOMAIN graph, Waiting(graph', S) PROVE FALSE
  BY <1>1 DEF Plannable
<1>4. CASE t \notin S \/ d \notin S
  <2>1. ASSUME NEW u \in S
        PROVE  graph[u].deps \cap (S \cup (TaskIds \ DOMAIN graph)) # {}
    <3>1. graph'[u].deps \cap (S \cup (TaskIds \ DOMAIN graph)) # {} /\ u \in DOMAIN graph
      OBVIOUS
    <3> QED BY <3>1, <1>1, <1>4
  <2>2. Waiting(graph, S)
    BY <2>1
  <2> QED BY <2>2, <1>3
<1>5. CASE t \in S /\ d \in S
  <2> DEFINE V == S \cap W
  <2>1. ASSUME NEW u \in V
        PROVE  graph[u].deps \cap (V \cup (TaskIds \ DOMAIN graph)) # {}
    <3>1. u \in DOMAIN graph /\ u # t
      BY <1>2
    <3>2. PICK e \in graph[u].deps : e \in S \cup (TaskIds \ DOMAIN graph)
      BY <3>1, <1>1
    <3>3. e \in W
      BY <3>1, <3>2, <1>2 DEF Closed
    <3> QED BY <3>2, <3>3
  <2>2. Waiting(graph, V)
    BY <2>1, <1>2, <1>5
  <2>3. V \in SUBSET DOMAIN graph
    OBVIOUS
  <2> QED BY <2>2, <2>3, <1>3
<1> QED BY <1>4, <1>5

\* For every graph, the cycle check of add_dependency() is enough to keep it plannable.
THEOREM DependenciesKeepPlannable == GraphSpec => DependencyKeepsPlannable
<1>1. PlanInv /\ [GraphNext]_graphVars
        => [(Plannable /\ DOMAIN graph' = DOMAIN graph) => Plannable']_graphVars
  <2> SUFFICES ASSUME PlanInv, GraphNext, Plannable, DOMAIN graph' = DOMAIN graph
               PROVE  Plannable'
    OBVIOUS
  <2>1. CASE \E t \in TaskIds, k \in TaskKinds, d \in SUBSET TaskIds : Add(t, k, d)
    BY <2>1 DEF Add
  <2>2. CASE \E t, d \in TaskIds : AddDependency(t, d)
    BY <2>2, AddDependencyPlannable DEF PlanInv
  <2>3. CASE BeginPlanning \/ PlanStep
    <3>1. graph' = graph
      BY <2>3 DEF BeginPlanning, PlanStep, PlanLayer, PlanWave, PlanFails, PlanDone
    <3> QED BY <3>1 DEF Plannable
  <2> QED BY <2>1, <2>2, <2>3 DEF GraphNext
<1> QED BY <1>1, PlanInvInductive, PTL DEF GraphSpec, DependencyKeepsPlannable

-----------------------------------------------------------------------------
(* The run *)

\* The run has a plan and is past the head of run().
Started == pc # "planning" /\ outcome # "ERROR"

Taken(t) == \E i \in 1 .. waveIndex : t \in plan[i]

\* Before the loop nothing has happened to any task.
Untouched ==
  pc = "planning" =>
    /\ outcome = "none" /\ waveIndex = 0 /\ wave = {} /\ replaced = {}
    /\ \A t \in Tasks : status[t] = "absent" /\ runs[t] = 0 /\ staged[t] = 0

\* A task no wave has taken yet is as fresh as it was at the start.
TakenOrFresh ==
  Started =>
    /\ planState = "planned"
    /\ \A t \in Tasks :
         IF Taken(t) THEN status[t] \notin {"absent", "QUEUED"}
         ELSE /\ status[t] = "QUEUED"
              /\ runs[t] = 0 /\ staged[t] = 0 /\ t \notin replaced /\ t \notin wave

\* Which tasks run, failed, and wait for another attempt, at each point of run().
StatusAtPc ==
  /\ pc \in {"executing", "deciding"} => wave # {} /\ waveId > 0
  /\ pc # "ended" /\ pc # "planning" => outcome = "none"
  /\ \A t \in Tasks : status[t] = "RUNNING" <=> (pc = "executing" /\ t \in wave)
  /\ pc \in {"loop", "executing"} =>
       \A t \in Tasks : status[t] = "FAILED" <=> staged[t] # 0
  /\ pc = "deciding" =>
       \A t \in Tasks :
         IF t \in wave THEN staged[t] = 0 /\ (status[t] = "FAILED" <=> failure[t] # "none")
         ELSE status[t] = "FAILED" <=> staged[t] # 0

\* How many attempts a task has used, by where it stands with the retry policy.
Attempts ==
  /\ ~ AllowReplacement => replaced = {}
  /\ \A t \in Tasks :
       IF t \in replaced
       THEN /\ runs[t] \in {MaxRetries + 1, MaxRetries + 2}
            /\ pc # "ended" => (runs[t] = MaxRetries + 1 <=> staged[t] # 0)
       ELSE /\ runs[t] <= MaxRetries + 1
            /\ pc # "ended" /\ staged[t] # 0 => runs[t] <= MaxRetries

\* A task that runs or failed had its dependencies settled, and they stay settled.
DepsSettledOnceRun ==
  \A t \in Tasks : status[t] \in {"RUNNING", "FAILED"} =>
    \A d \in graph[t].deps : d \in Tasks /\ status[d] \in SettledStatuses

RunInv ==
  /\ PlanInv
  /\ RunTypeOK
  /\ Engine!EngineTypeOK
  /\ Untouched
  /\ TakenOrFresh
  /\ StatusAtPc
  /\ Attempts
  /\ DepsSettledOnceRun
  /\ CompletedMeansSettled
  /\ BlockedIsEarned


-----------------------------------------------------------------------------
(* The engine's variables stay typed, and its steps touch nothing else. *)

LEMMA EngineTypeStep ==
  ASSUME Engine!EngineTypeOK,
         Engine!ExecutorStep \/ Engine!LoopStep \/ Engine!StopStep \/ Engine!Abandon
  PROVE  Engine!EngineTypeOK' /\ waveId' = waveId
<1> USE DEF Engine!EngineTypeOK
<1>1. ASSUME NEW t \in TaskIds, NEW entry \in Results \cup Errors \cup {"none", "timeout"},
             NEW st \in {"SUCCEEDED", "TIMEOUT", "CANCELLED", "FAILED"}, Engine!Ends(t, entry, st)
      PROVE Engine!EngineTypeOK' /\ waveId' = waveId
  BY <1>1 DEF Engine!Ends, Engine!Live
<1>2. ASSUME NEW S, Engine!CancelTasks(S)
      PROVE /\ exec' \in [TaskIds -> Engine!Live \cup {"absent", "done"}]
            /\ timing' \in [TaskIds -> {"none", "SUCCEEDED", "TIMEOUT", "CANCELLED", "FAILED"}]
            /\ leftBehind' \subseteq TaskIds \cup S
            /\ S \subseteq TaskIds => leftBehind' \subseteq TaskIds
  BY <1>2 DEF Engine!CancelTasks, Engine!Live
<1>3. CASE Engine!ExecutorStep
  <2>1. PICK t \in TaskIds :
          \/ \E r \in Results : Engine!ExecutorReturns(t, r)
          \/ \E e \in Errors : Engine!ExecutorRaises(t, e)
          \/ Engine!ExecutorCancelled(t)
          \/ Engine!LeftBehindEnds(t)
    BY <1>3 DEF Engine!ExecutorStep
  <2>2. CASE \E r \in Results : Engine!ExecutorReturns(t, r)
    BY <2>2, <1>1 DEF Engine!ExecutorReturns
  <2>3. CASE \E e \in Errors : Engine!ExecutorRaises(t, e)
    BY <2>3, <1>1 DEF Engine!ExecutorRaises
  <2>4. CASE Engine!ExecutorCancelled(t)
    BY <2>4, <1>1 DEF Engine!ExecutorCancelled
  <2>5. CASE Engine!LeftBehindEnds(t)
    BY <2>5 DEF Engine!LeftBehindEnds
  <2> QED BY <2>1, <2>2, <2>3, <2>4, <2>5
<1>4. CASE Engine!LoopStep
  <2>1. CASE \E t \in TaskIds : Engine!TaskTimesOut(t)
    BY <2>1 DEF Engine!TaskTimesOut, Engine!Live
  <2>2. CASE Engine!WakeCancelled
    BY <2>2, <1>2 DEF Engine!WakeCancelled
  <2>3. CASE Engine!WakeCompleted
    BY <2>3 DEF Engine!WakeCompleted
  <2>4. CASE Engine!Compose
    BY <2>4 DEF Engine!Compose, Engine!DerivedStatus
  <2> QED BY <1>4, <2>1, <2>2, <2>3, <2>4 DEF Engine!LoopStep
<1>5. CASE Engine!StopStep
  BY <1>5, <1>1 DEF Engine!StopStep, Engine!TimedOutStops, Engine!CancelledStops
<1>6. CASE Engine!Abandon
  BY <1>6, <1>2 DEF Engine!Abandon
<1> QED BY <1>3, <1>4, <1>5, <1>6

LEMMA RunWaveType ==
  ASSUME Engine!EngineTypeOK, NEW w \in SUBSET TaskIds, Engine!RunWave(w, waveId + 1, "absent")
  PROVE  Engine!EngineTypeOK' /\ waveId' = waveId + 1 /\ waveId \in Nat /\ waveId' > 0
BY DEF Engine!EngineTypeOK, Engine!RunWave, Engine!Live

-----------------------------------------------------------------------------

\* The plan's invariant, and facts of the run that do not change with it.
LEMMA PlanInvStable == PlanInv /\ UNCHANGED graphVars => PlanInv'
<1> SUFFICES ASSUME PlanInv, UNCHANGED graphVars PROVE PlanInv'
  OBVIOUS
<1>1. WaveWidth'
  BY DEF graphVars, PlanInv, WaveWidth
<1>2. GraphTypeOK' /\ DependencyOrder' /\ SerializedAlone'
  BY DEF graphVars, PlanInv, GraphTypeOK, DependencyOrder, SerializedAlone
<1>3. Stage' /\ (planState' # "building" => Covered') /\ OnlyScheduled' /\ LayerReady'
      /\ LayerUniform' /\ PlanDisjoint'
  BY DEF graphVars, PlanInv, Stage, Ready, Covered, OnlyScheduled, LayerReady, LayerUniform,
     PlanDisjoint, Scheduled
<1> QED BY <1>1, <1>2, <1>3 DEF PlanInv

\* A run step that changes no variable that RunInv reads keeps it.
LEMMA EngineStepInv == RunInv /\ EngineStep => RunInv'
<1> SUFFICES ASSUME RunInv, EngineStep PROVE RunInv'
  OBVIOUS
<1>1. Engine!EngineTypeOK' /\ waveId' = waveId
  BY EngineTypeStep DEF RunInv, EngineStep
<1>2. UNCHANGED <<graphVars, runVars>>
  BY DEF EngineStep
<1>3. PlanInv'
  BY <1>2, PlanInvStable DEF RunInv
<1>4. RunTypeOK'
  BY <1>2 DEF RunInv, RunTypeOK, runVars, graphVars, queueVars, taskVars, endVars, Tasks
<1>5. Untouched' /\ TakenOrFresh' /\ StatusAtPc'
  BY <1>1, <1>2 DEF RunInv, Untouched, TakenOrFresh, StatusAtPc, Started, Taken,
     runVars, graphVars, queueVars, taskVars, endVars, Tasks
<1>6. Attempts' /\ DepsSettledOnceRun' /\ CompletedMeansSettled' /\ BlockedIsEarned'
  BY <1>2 DEF RunInv, Attempts, DepsSettledOnceRun, CompletedMeansSettled, BlockedIsEarned,
     runVars, graphVars, queueVars, taskVars, endVars, Tasks
<1> QED BY <1>1, <1>3, <1>4, <1>5, <1>6 DEF RunInv

\* Steps that leave the graph, its plan and the engine alone.
LEMMA FrameInv ==
  ASSUME RunInv, UNCHANGED <<graphVars, engineVars>>
  PROVE  PlanInv' /\ Engine!EngineTypeOK' /\ Tasks' = Tasks
<1>1. PlanInv'
  BY PlanInvStable DEF RunInv
<1>2. Engine!EngineTypeOK'
  BY DEF RunInv, Engine!EngineTypeOK, engineVars
<1> QED BY <1>1, <1>2 DEF Tasks, graphVars

-----------------------------------------------------------------------------
(* One lemma per part of run(): its steps keep the invariant. *)

LEMMA PlanningInv == RunInv /\ (Plan \/ PlanRaises \/ StartRun) => RunInv'
<1> SUFFICES ASSUME RunInv, Plan \/ PlanRaises \/ StartRun PROVE RunInv'
  OBVIOUS
<1>1. CASE Plan
  <2>1. PlanInv'
    BY <1>1, PlanStepInv DEF Plan, RunInv
  <2>2. graph' = graph /\ UNCHANGED <<runVars, engineVars>> /\ pc = "planning"
    BY <1>1 DEF Plan, BeginPlanning, PlanStep, PlanLayer, PlanWave, PlanFails, PlanDone
  <2>3. Engine!EngineTypeOK'
    BY <2>2 DEF RunInv, Engine!EngineTypeOK, engineVars
  <2>4. waveIndex' \in 0 .. Len(plan')
    BY <2>1, <2>2 DEF RunInv, Untouched, runVars, queueVars, PlanInv, GraphTypeOK
  <2>5. RunTypeOK'
    BY <2>2, <2>4 DEF RunInv, RunTypeOK, runVars, queueVars, taskVars, endVars, Tasks
  <2>6. Untouched' /\ TakenOrFresh' /\ StatusAtPc' /\ Attempts' /\ DepsSettledOnceRun'
    BY <2>2 DEF RunInv, Untouched, TakenOrFresh, Started, StatusAtPc, Attempts,
       DepsSettledOnceRun, runVars, queueVars, taskVars, endVars, Tasks
  <2>7. CompletedMeansSettled' /\ BlockedIsEarned'
    BY <2>2 DEF RunInv, CompletedMeansSettled, BlockedIsEarned, runVars, queueVars, taskVars,
       endVars, Tasks
  <2> QED BY <2>1, <2>3, <2>5, <2>6, <2>7 DEF RunInv
<1>2. CASE PlanRaises
  <2>1. PlanInv' /\ Engine!EngineTypeOK' /\ Tasks' = Tasks
    BY <1>2, FrameInv DEF PlanRaises
  <2>2. RunTypeOK'
    BY <1>2 DEF PlanRaises, RunInv, RunTypeOK, graphVars, queueVars, taskVars, endVars, Tasks
  <2>3. Untouched' /\ TakenOrFresh' /\ StatusAtPc' /\ Attempts' /\ DepsSettledOnceRun'
    BY <1>2, RetryPolicyAssumption
    DEF PlanRaises, RunInv, Untouched, TakenOrFresh, Started, StatusAtPc, Attempts,
       DepsSettledOnceRun, graphVars, queueVars, taskVars, endVars, Tasks
  <2>4. CompletedMeansSettled' /\ BlockedIsEarned'
    BY <1>2 DEF PlanRaises, CompletedMeansSettled, BlockedIsEarned
  <2> QED BY <2>1, <2>2, <2>3, <2>4 DEF RunInv
<1>3. CASE StartRun
  <2>1. PlanInv' /\ Engine!EngineTypeOK' /\ Tasks' = Tasks
    BY <1>3, FrameInv DEF StartRun
  <2>2. RunTypeOK'
    BY <1>3 DEF StartRun, RunInv, RunTypeOK, Phases, graphVars, queueVars, taskVars, endVars, Tasks
  <2>3. TakenOrFresh'
    BY <1>3 DEF StartRun, RunInv, Untouched, TakenOrFresh, Started, Taken, graphVars, queueVars,
       endVars, Tasks
  <2>4. Untouched' /\ StatusAtPc' /\ Attempts' /\ DepsSettledOnceRun'
    BY <1>3, RetryPolicyAssumption
    DEF StartRun, RunInv, Untouched, StatusAtPc, Attempts,
       DepsSettledOnceRun, graphVars, queueVars, endVars, Tasks
  <2>5. CompletedMeansSettled' /\ BlockedIsEarned'
    BY <1>3 DEF StartRun, RunInv, Untouched, CompletedMeansSettled, BlockedIsEarned, endVars
  <2> QED BY <2>1, <2>2, <2>3, <2>4, <2>5 DEF RunInv
<1> QED BY <1>1, <1>2, <1>3

\* Running a wave w of tasks that are not settled, whose dependencies are, and that
\* have an attempt left: what a follow-up and a wave of the plan have in common.
LEMMA ExecuteInv ==
  ASSUME RunInv, pc = "loop", NEW w \in SUBSET Tasks, Execute(w),
         staged' = [t \in Tasks |-> IF t \in w THEN 0 ELSE staged[t]],
         waveIndex' \in 0 .. Len(plan),
         \A t \in Tasks : Taken(t)' <=> Taken(t) \/ t \in w,
         \A t \in w : \A d \in graph[t].deps : d \in Tasks /\ status[d] \in SettledStatuses,
         \A t \in w : status[t] \notin SettledStatuses,
         \A t \in w : IF t \in replaced THEN runs[t] = MaxRetries + 1 ELSE runs[t] <= MaxRetries
  PROVE  RunInv'
<1>1. /\ graphVars' = graphVars /\ graph' = graph /\ plan' = plan /\ planState' = planState
      /\ Tasks' = Tasks
      /\ pc' = "executing" /\ wave' = w
      /\ status' = [t \in Tasks |-> IF t \in w THEN "RUNNING" ELSE status[t]]
      /\ runs' = [t \in Tasks |-> IF t \in w THEN runs[t] + 1 ELSE runs[t]]
      /\ phase' = "EXECUTING" /\ outcome' = outcome /\ nextTransition' = nextTransition
      /\ UNCHANGED <<replaced, failure, lastSig, sigCount, conflicts, recorded>>
      /\ Engine!RunWave(w, waveId + 1, "absent")
  BY DEF Execute, graphVars, endVars, Tasks
<1>2. PlanInv'
  BY <1>1, PlanInvStable DEF RunInv
<1>3. w \subseteq TaskIds
  BY DEF RunInv, PlanInv, GraphTypeOK, Tasks
<1>4. Engine!EngineTypeOK' /\ waveId' > 0
  BY <1>1, <1>3, RunWaveType DEF RunInv
<1>5. w # {}
  BY <1>1 DEF Engine!RunWave
<1>6. RunTypeOK'
  BY <1>1 DEF RunInv, RunTypeOK, Phases
<1>7. Untouched' /\ TakenOrFresh'
  BY <1>1 DEF RunInv, Untouched, TakenOrFresh, Started
<1>8. StatusAtPc'
  <2>1. waveId' > 0 /\ wave' # {} /\ outcome' = "none"
    BY <1>1, <1>4, <1>5 DEF RunInv, StatusAtPc
  <2>2. \A t \in Tasks : status'[t] = "RUNNING" <=> t \in w
    BY <1>1 DEF RunInv, StatusAtPc
  <2>3. \A t \in Tasks : status'[t] = "FAILED" <=> staged'[t] # 0
    BY <1>1 DEF RunInv, StatusAtPc
  <2> QED BY <1>1, <2>1, <2>2, <2>3 DEF StatusAtPc
<1>9. Attempts'
  BY <1>1, RetryPolicyAssumption DEF RunInv, Attempts, RunTypeOK
<1>10. DepsSettledOnceRun'
  BY <1>1 DEF RunInv, DepsSettledOnceRun
<1>11. CompletedMeansSettled' /\ BlockedIsEarned'
  BY <1>1 DEF RunInv, StatusAtPc, CompletedMeansSettled, BlockedIsEarned
<1> QED BY <1>2, <1>4, <1>6, <1>7, <1>8, <1>9, <1>10, <1>11 DEF RunInv

\* What the head of the loop hands to the engine, as a follow-up or as a wave of the plan.
Startable(w) ==
  /\ w \in SUBSET Tasks
  /\ pc = "loop" /\ Execute(w)
  /\ staged' = [t \in Tasks |-> IF t \in w THEN 0 ELSE staged[t]]
  /\ waveIndex' \in 0 .. Len(plan)
  /\ \A t \in Tasks : Taken(t)' <=> Taken(t) \/ t \in w
  /\ \A t \in w : \A d \in graph[t].deps : d \in Tasks /\ status[d] \in SettledStatuses
  /\ \A t \in w : status[t] \in {"QUEUED", "FAILED"}
  /\ \A t \in w : IF t \in replaced THEN runs[t] = MaxRetries + 1 ELSE runs[t] <= MaxRetries

LEMMA DispatchStartable ==
  ASSUME RunInv, DispatchFollowUp \/ DispatchWave PROVE \E w : Startable(w)
<1>1. CASE DispatchFollowUp
  <2>1. PICK t \in Tasks : FirstQueued(t) /\ staged' = [staged EXCEPT ![t] = 0] /\ Execute({t})
    BY <1>1 DEF DispatchFollowUp
  <2>2. pc = "loop" /\ waveIndex' = waveIndex /\ plan' = plan
    BY <1>1, <2>1 DEF DispatchFollowUp, Execute, graphVars
  <2>3. status[t] = "FAILED"
    BY <2>1, <2>2 DEF FirstQueued, Queued, RunInv, StatusAtPc
  <2>4. staged[t] # 0 /\ staged' = [u \in Tasks |-> IF u \in {t} THEN 0 ELSE staged[u]]
    BY <2>1 DEF FirstQueued, Queued, RunInv, RunTypeOK
  <2>5. Taken(t)
    BY <2>2, <2>3 DEF RunInv, TakenOrFresh, Started, StatusAtPc
  <2>6. \A u \in Tasks : Taken(u)' <=> Taken(u) \/ u \in {t}
    BY <2>2, <2>5 DEF Taken
  <2>7. \A d \in graph[t].deps : d \in Tasks /\ status[d] \in SettledStatuses
    BY <2>3 DEF RunInv, DepsSettledOnceRun
  <2>8. IF t \in replaced THEN runs[t] = MaxRetries + 1 ELSE runs[t] <= MaxRetries
    BY <2>2, <2>4 DEF RunInv, Attempts
  <2>9. waveIndex' \in 0 .. Len(plan)
    BY <2>2 DEF RunInv, RunTypeOK
  <2>10. Startable({t})
    BY <2>1, <2>2, <2>3, <2>4, <2>6, <2>7, <2>8, <2>9 DEF Startable
  <2> QED BY <2>10
<1>2. CASE DispatchWave
  <2> DEFINE w == plan[waveIndex + 1]
  <2>1. /\ pc = "loop" /\ Queued = {} /\ waveIndex < Len(plan)
        /\ waveIndex' = waveIndex + 1 /\ Execute(w) /\ staged' = staged /\ plan' = plan
    BY <1>2 DEF DispatchWave, Execute, graphVars
  <2>2. /\ waveIndex \in Nat /\ Len(plan) \in Nat /\ DOMAIN plan = 1 .. Len(plan)
        /\ waveIndex + 1 \in DOMAIN plan /\ staged \in [Tasks -> Nat]
    BY <2>1 DEF RunInv, RunTypeOK, PlanInv, GraphTypeOK
  <2>3. w \subseteq Tasks
    BY <2>2 DEF RunInv, PlanInv, OnlyScheduled, Scheduled, Tasks
  <2>4. \A t \in w : ~ Taken(t)
    BY <2>2 DEF RunInv, PlanInv, PlanDisjoint, Taken
  <2>5. \A t \in w : status[t] = "QUEUED" /\ runs[t] = 0 /\ staged[t] = 0 /\ t \notin replaced
    BY <2>1, <2>3, <2>4 DEF RunInv, TakenOrFresh, Started, StatusAtPc
  <2>6. ASSUME NEW t \in w, NEW d \in graph[t].deps
        PROVE  d \in Tasks /\ status[d] \in SettledStatuses
    <3>1. PICK j \in 1 .. waveIndex : d \in plan[j]
      BY <2>2 DEF RunInv, PlanInv, DependencyOrder
    <3>2. d \in Tasks /\ Taken(d)
      BY <2>2, <3>1 DEF RunInv, PlanInv, OnlyScheduled, Scheduled, Tasks, Taken
    <3>3. status[d] \notin {"absent", "QUEUED", "RUNNING"}
      BY <2>1, <3>2 DEF RunInv, TakenOrFresh, Started, StatusAtPc
    <3>4. status[d] # "FAILED"
      BY <2>1, <3>2 DEF Queued, RunInv, StatusAtPc
    <3> QED BY <3>2, <3>3, <3>4 DEF RunInv, RunTypeOK
  <2>7. \A t \in Tasks : Taken(t)' <=> Taken(t) \/ t \in w
    <3>1. 1 .. waveIndex' = (1 .. waveIndex) \cup {waveIndex + 1}
      BY <2>1, <2>2
    <3> QED BY <2>1, <3>1 DEF Taken
  <2>8. staged' = [t \in Tasks |-> IF t \in w THEN 0 ELSE staged[t]]
    BY <2>1, <2>2, <2>3, <2>5
  <2>9. \A t \in w : IF t \in replaced THEN runs[t] = MaxRetries + 1 ELSE runs[t] <= MaxRetries
    BY <2>5, RetryPolicyAssumption
  <2>10. waveIndex' \in 0 .. Len(plan)
    BY <2>1, <2>2
  <2> HIDE DEF w
  <2>11. Startable(w)
    BY <2>1, <2>3, <2>5, <2>6, <2>7, <2>8, <2>9, <2>10 DEF Startable
  <2> QED BY <2>11
<1> QED BY <1>1, <1>2

LEMMA DispatchInv == RunInv /\ (DispatchFollowUp \/ DispatchWave) => RunInv'
<1> SUFFICES ASSUME RunInv, NEW w, Startable(w) PROVE RunInv'
  BY DispatchStartable
<1>1. \A t \in w : status[t] \notin SettledStatuses
  BY DEF Startable, SettledStatuses
<1> QED BY <1>1, ExecuteInv DEF Startable

LEMMA CollectInv == RunInv /\ Collect => RunInv'
<1> SUFFICES ASSUME RunInv, Collect PROVE RunInv'
  OBVIOUS
<1>1. PlanInv' /\ Engine!EngineTypeOK' /\ Tasks' = Tasks
  BY FrameInv DEF Collect
<1>2. /\ pc = "executing" /\ pc' = "deciding" /\ phase' = "COLLECTING"
      /\ failure' = [t \in Tasks |-> IF t \in wave THEN FailureOf(t) ELSE "none"]
      /\ status' = [t \in Tasks |-> IF t \in wave THEN CollectedStatus(t) ELSE status[t]]
      /\ conflicts' = conflicts \cup {t \in wave : IsStale(t) \/ FailureOf(t) = "invalid"}
      /\ recorded' = IF telemetry = 0 THEN recorded ELSE Append(recorded, telemetry)
      /\ UNCHANGED <<graphVars, endVars, queueVars, runs, replaced, lastSig, sigCount, engineVars>>
  BY DEF Collect
<1>3. wave \subseteq Tasks /\ Tasks \subseteq TaskIds
  BY DEF RunInv, RunTypeOK, PlanInv, GraphTypeOK, Tasks
<1>4. ASSUME NEW t \in wave PROVE FailureOf(t) \in Signatures
  BY <1>3 DEF RunInv, Engine!EngineTypeOK, FailureOf, Signatures, OwnSignatures, Results
<1>5. ASSUME NEW t \in wave
      PROVE  /\ CollectedStatus(t) \in {"SUCCEEDED", "FAILED", "CANCELLED"}
             /\ CollectedStatus(t) = "FAILED" <=> FailureOf(t) # "none"
  BY DEF CollectedStatus, IsStale, FailureOf
<1>6. RunTypeOK'
  <2>1. recorded' \in Seq(Nat)
    BY <1>2 DEF RunInv, RunTypeOK, Engine!EngineTypeOK
  <2>2. failure' \in [Tasks -> Signatures]
    BY <1>2, <1>3, <1>4 DEF Signatures
  <2>3. status' \in [Tasks -> {"absent", "QUEUED", "RUNNING", "FAILED"} \cup SettledStatuses]
    BY <1>2, <1>3, <1>5 DEF RunInv, RunTypeOK, SettledStatuses
  <2> QED BY <1>1, <1>2, <1>3, <2>1, <2>2, <2>3 DEF RunInv, RunTypeOK, Phases, queueVars, endVars, graphVars
<1>7. \A t \in wave : status[t] = "RUNNING" /\ staged[t] = 0
  BY <1>2, <1>3 DEF RunInv, StatusAtPc
<1>8. Untouched' /\ TakenOrFresh'
  BY <1>1, <1>2, <1>3, <1>5, <1>7
  DEF RunInv, Untouched, TakenOrFresh, Started, Taken, queueVars, endVars, graphVars
<1>9. StatusAtPc'
  <2>1. wave' # {} /\ waveId' > 0 /\ outcome' = "none"
    BY <1>2 DEF RunInv, StatusAtPc, queueVars, endVars, engineVars
  <2>2. \A t \in Tasks : status'[t] # "RUNNING"
    BY <1>2, <1>5 DEF RunInv, StatusAtPc
  <2>3. \A t \in Tasks :
          IF t \in wave THEN staged'[t] = 0 /\ (status'[t] = "FAILED" <=> failure'[t] # "none")
          ELSE status'[t] = "FAILED" <=> staged'[t] # 0
    BY <1>2, <1>5, <1>7 DEF RunInv, StatusAtPc, queueVars
  <2> QED BY <1>1, <1>2, <2>1, <2>2, <2>3 DEF StatusAtPc, queueVars
<1>10. Attempts'
  BY <1>1, <1>2 DEF RunInv, Attempts, queueVars
<1>11. DepsSettledOnceRun'
  <2> SUFFICES ASSUME NEW t \in Tasks, status'[t] \in {"RUNNING", "FAILED"}, NEW d \in graph[t].deps
               PROVE  d \in Tasks /\ status'[d] \in SettledStatuses
    BY <1>1, <1>2 DEF DepsSettledOnceRun, graphVars
  <2>1. status[t] \in {"RUNNING", "FAILED"}
    BY <1>2, <1>7
  <2>2. d \in Tasks /\ status[d] \in SettledStatuses
    BY <2>1 DEF RunInv, DepsSettledOnceRun
  <2>3. d \notin wave
    BY <1>7, <2>2 DEF SettledStatuses
  <2> QED BY <1>2, <2>2, <2>3
<1>12. CompletedMeansSettled' /\ BlockedIsEarned'
  BY <1>2 DEF RunInv, StatusAtPc, CompletedMeansSettled, BlockedIsEarned, endVars
<1> QED BY <1>1, <1>6, <1>8, <1>9, <1>10, <1>11, <1>12 DEF RunInv

\* A failed task of the wave that is no blocker has neither been replaced nor used up
\* more than its retries.
LEMMA NonBlocker ==
  ASSUME RunInv, pc = "deciding", NEW t \in Failed, t \notin Blockers
  PROVE  /\ t \in Tasks /\ status[t] = "FAILED" /\ staged[t] = 0 /\ t \notin replaced
         /\ runs[t] \in Nat /\ runs[t] <= MaxRetries + 1
         /\ ~ MayRetry(t) => runs[t] = MaxRetries + 1 /\ AllowReplacement
<1>1. t \in wave /\ t \in Tasks /\ status[t] = "FAILED" /\ staged[t] = 0 /\ runs[t] \in Nat
  BY DEF Failed, RunInv, RunTypeOK, StatusAtPc
<1>2. MayRetry(t) \/ MayReplace(t)
  BY DEF Blockers
<1>3. CASE t \in replaced
  <2>1. runs[t] = MaxRetries + 2
    BY <1>1, <1>3 DEF RunInv, Attempts
  <2>2. ~ MayRetry(t) /\ ~ MayReplace(t)
    BY <1>3, <2>1, RetryPolicyAssumption DEF MayRetry, MayReplace
  <2> QED BY <1>2, <2>2
<1>4. CASE t \notin replaced
  <2>1. runs[t] <= MaxRetries + 1
    BY <1>1, <1>4 DEF RunInv, Attempts
  <2> QED BY <1>1, <1>2, <1>4, <2>1, RetryPolicyAssumption DEF MayRetry, MayReplace
<1> QED BY <1>3, <1>4

\* The same order cannot put two tasks each before the other.
LEMMA BeforeAsymmetric ==
  ASSUME GraphTypeOK, NEW t \in Tasks, NEW u \in Tasks, Before(t, u)
  PROVE  ~ Before(u, t)
<1>1. t \in Nat /\ u \in Nat
  BY TaskIdsAssumption DEF GraphTypeOK, Tasks
<1>2. \A k \in TaskKinds : Priority[k] \in Nat
  BY DEF TaskKinds, Priority
<1>3. graph[t].kind \in TaskKinds /\ graph[u].kind \in TaskKinds
  BY DEF GraphTypeOK, Tasks, TaskSpecs
<1> QED BY <1>1, <1>2, <1>3 DEF Before

LEMMA ReconcileInv == RunInv /\ Reconcile => RunInv'
<1> SUFFICES ASSUME RunInv, Reconcile PROVE RunInv'
  OBVIOUS
<1>1. /\ pc = "deciding" /\ pc' = "loop" /\ Blockers = {}
      /\ CountFailures(Failed)
      /\ replaced' = replaced \cup {t \in Failed : ~ MayRetry(t)}
      /\ staged' = [t \in Tasks |-> IF t \in Failed THEN waveId ELSE staged[t]]
      /\ UNCHANGED <<graphVars, phase, endVars, wave, waveIndex, status, runs, failure, conflicts,
                     recorded, engineVars>>
  BY DEF Reconcile
<1>2. PlanInv' /\ Engine!EngineTypeOK' /\ Tasks' = Tasks
  BY <1>1, FrameInv
<1>3. waveId \in Nat \ {0} /\ Failed \subseteq Tasks
  BY <1>1 DEF RunInv, StatusAtPc, Engine!EngineTypeOK, Failed, RunTypeOK
<1>4. RunTypeOK'
  <2>1. lastSig' \in [Tasks -> Signatures]
    BY <1>1, <1>3 DEF CountFailures, RunInv, RunTypeOK
  <2>2. sigCount' \in [Tasks -> Nat]
    BY <1>1, <1>3 DEF CountFailures, Consecutive, RunInv, RunTypeOK
  <2> QED BY <1>1, <1>2, <1>3, <2>1, <2>2 DEF RunInv, RunTypeOK, graphVars, endVars
<1>5. \A t \in Failed : t \in Tasks /\ status[t] = "FAILED" /\ staged[t] = 0 /\ t \notin replaced
  BY <1>1, NonBlocker
<1>6. \A t \in Failed : /\ runs[t] \in Nat /\ runs[t] <= MaxRetries + 1
                        /\ ~ MayRetry(t) => runs[t] = MaxRetries + 1 /\ AllowReplacement
  BY <1>1, NonBlocker
<1>7. Untouched' /\ TakenOrFresh'
  BY <1>1, <1>2, <1>5
  DEF RunInv, Untouched, TakenOrFresh, Started, Taken, Failed, endVars, graphVars
<1>8. StatusAtPc'
  <2>1. outcome' = "none" /\ \A t \in Tasks : status'[t] # "RUNNING"
    BY <1>1 DEF RunInv, StatusAtPc, endVars
  <2>2. ASSUME NEW t \in Tasks PROVE status'[t] = "FAILED" <=> staged'[t] # 0
    BY <1>1, <1>3, <1>5 DEF RunInv, StatusAtPc, Failed
  <2> QED BY <1>1, <1>2, <2>1, <2>2 DEF StatusAtPc
<1>9. Attempts'
  <2>1. ~ AllowReplacement => replaced' = {}
    BY <1>1, <1>6 DEF RunInv, Attempts
  <2>2. ASSUME NEW t \in Tasks
        PROVE  IF t \in replaced'
               THEN /\ runs'[t] \in {MaxRetries + 1, MaxRetries + 2}
                    /\ runs'[t] = MaxRetries + 1 <=> staged'[t] # 0
               ELSE /\ runs'[t] <= MaxRetries + 1
                    /\ staged'[t] # 0 => runs'[t] <= MaxRetries
    <3>1. CASE t \in Failed
      BY <1>1, <1>3, <1>5, <1>6, <3>1, RetryPolicyAssumption DEF MayRetry
    <3>2. CASE t \notin Failed
      BY <1>1, <3>2 DEF RunInv, Attempts
    <3> QED BY <3>1, <3>2
  <2> QED BY <1>2, <2>1, <2>2 DEF Attempts
<1>10. DepsSettledOnceRun'
  BY <1>1, <1>2 DEF RunInv, DepsSettledOnceRun, graphVars
<1>11. CompletedMeansSettled' /\ BlockedIsEarned'
  BY <1>1 DEF RunInv, StatusAtPc, CompletedMeansSettled, BlockedIsEarned, endVars
<1> QED BY <1>2, <1>4, <1>7, <1>8, <1>9, <1>10, <1>11 DEF RunInv

LEMMA BlockInv == RunInv /\ Block => RunInv'
<1> SUFFICES ASSUME RunInv, Block PROVE RunInv'
  OBVIOUS
<1>1. PICK b \in Blockers :
        /\ \A t \in Blockers \ {b} : Before(b, t)
        /\ CountFailures({t \in Failed : Before(t, b)} \cup {b})
        /\ replaced' = replaced \cup {t \in {t \in Failed : Before(t, b)} : ~ MayRetry(t)}
        /\ nextTransition' = IF failure[b] = "invalid" THEN "HUMAN_REVIEW" ELSE "BLOCKED"
  BY DEF Block
<1>2. /\ pc = "deciding" /\ pc' = "ended" /\ phase' = "BLOCKED" /\ outcome' = "BLOCKED"
      /\ UNCHANGED <<graphVars, queueVars, status, runs, failure, conflicts, recorded, engineVars>>
  BY DEF Block
<1> DEFINE passed == {t \in Failed : Before(t, b)}
<1>3. PlanInv' /\ Engine!EngineTypeOK' /\ Tasks' = Tasks
  BY <1>2, FrameInv
<1>4. Failed \subseteq Tasks /\ b \in Failed /\ b \in Tasks
  BY DEF RunInv, RunTypeOK, Failed, Blockers
<1>5. ASSUME NEW t \in passed PROVE t \notin Blockers
  <2>1. t # b => ~ Before(b, t)
    BY <1>4, BeforeAsymmetric DEF RunInv, PlanInv
  <2>2. t # b
    BY <1>4, BeforeAsymmetric DEF RunInv, PlanInv
  <2> QED BY <1>1, <2>1, <2>2
<1>6. \A t \in passed : t \in Tasks /\ staged[t] = 0 /\ t \notin replaced
  BY <1>2, <1>5, NonBlocker
<1>7. \A t \in passed : /\ runs[t] \in Nat /\ runs[t] <= MaxRetries + 1
                        /\ ~ MayRetry(t) => runs[t] = MaxRetries + 1 /\ AllowReplacement
  BY <1>2, <1>5, NonBlocker
<1>8. RunTypeOK'
  <2>1. lastSig' \in [Tasks -> Signatures] /\ sigCount' \in [Tasks -> Nat]
    BY <1>1, <1>4 DEF CountFailures, Consecutive, RunInv, RunTypeOK
  <2>2. replaced' \subseteq Tasks
    BY <1>1, <1>4 DEF RunInv, RunTypeOK
  <2> QED BY <1>1, <1>2, <1>3, <2>1, <2>2 DEF RunInv, RunTypeOK, Phases, graphVars, queueVars
<1>9. Untouched'
  BY <1>2 DEF Untouched
<1>10. TakenOrFresh'
  <2>1. Started /\ Started'
    BY <1>2 DEF Started, RunInv, StatusAtPc
  <2>2. replaced' \subseteq replaced \cup wave
    BY <1>1 DEF Failed
  <2> QED BY <1>2, <1>3, <2>1, <2>2 DEF RunInv, TakenOrFresh, Taken, graphVars, queueVars
<1>11. StatusAtPc'
  BY <1>2, <1>3 DEF RunInv, StatusAtPc
<1>12. Attempts'
  <2>1. ~ AllowReplacement => replaced' = {}
    BY <1>1, <1>7 DEF RunInv, Attempts
  <2>2. ASSUME NEW t \in Tasks
        PROVE  IF t \in replaced' THEN runs'[t] \in {MaxRetries + 1, MaxRetries + 2}
               ELSE runs'[t] <= MaxRetries + 1
    BY <1>1, <1>2, <1>7 DEF RunInv, Attempts
  <2> QED BY <1>2, <1>3, <2>1, <2>2 DEF Attempts
<1>13. DepsSettledOnceRun' /\ CompletedMeansSettled'
  BY <1>2, <1>3 DEF RunInv, DepsSettledOnceRun, CompletedMeansSettled, graphVars
<1>14. BlockedIsEarned'
  <2>1. status[b] = "FAILED" /\ staged[b] = 0
    BY <1>2, <1>4 DEF RunInv, StatusAtPc, Failed
  <2>2. sigCount'[b] = Consecutive(b)
    BY <1>1, <1>4 DEF CountFailures
  <2>3. ASSUME ~ MayRetry(b), ~ MayReplace(b) PROVE runs[b] = MaxAttempts
    <3>1. CASE b \in replaced
      BY <1>2, <1>4, <2>1, <3>1, RetryPolicyAssumption DEF RunInv, Attempts, MaxAttempts
    <3>2. CASE b \notin replaced
      BY <1>4, <2>3, <3>2, RetryPolicyAssumption
      DEF RunInv, Attempts, RunTypeOK, MayRetry, MayReplace, MaxAttempts
    <3> QED BY <3>1, <3>2
  <2>4. NoProgress(b) \/ (~ MayRetry(b) /\ ~ MayReplace(b))
    BY DEF Blockers
  <2> QED BY <1>2, <1>3, <1>4, <2>1, <2>2, <2>3, <2>4 DEF BlockedIsEarned, NoProgress
<1> QED BY <1>3, <1>8, <1>9, <1>10, <1>11, <1>12, <1>13, <1>14 DEF RunInv

\* At the end of the plan with nothing queued and nothing running, every task is settled.
LEMMA AllSettled ==
  ASSUME RunInv, Started, waveIndex >= Len(plan),
         \A t \in Tasks : status[t] \notin {"RUNNING", "FAILED"}
  PROVE  \A t \in Tasks : status[t] \in SettledStatuses
<1> SUFFICES ASSUME NEW t \in Tasks PROVE status[t] \in SettledStatuses
  OBVIOUS
<1>1. PICK i \in DOMAIN plan : t \in plan[i]
  BY DEF RunInv, PlanInv, TakenOrFresh, Stage, Covered, Scheduled, Tasks
<1>2. i \in 1 .. waveIndex
  BY <1>1 DEF RunInv, RunTypeOK, PlanInv, GraphTypeOK
<1>3. status[t] \notin {"absent", "QUEUED"}
  BY <1>1, <1>2 DEF RunInv, TakenOrFresh, Taken
<1> QED BY <1>3 DEF RunInv, RunTypeOK

LEMMA EndOfLoopInv == RunInv /\ (NothingToDispatch \/ Advance \/ Complete) => RunInv'
<1> SUFFICES ASSUME RunInv, NothingToDispatch \/ Advance \/ Complete PROVE RunInv'
  OBVIOUS
<1>1. /\ UNCHANGED <<graphVars, queueVars, taskVars, recorded, engineVars>>
      /\ pc \in {"loop", "deciding"} /\ outcome = "none"
      /\ pc' \in {"loop", "ended"} /\ phase' \in {phase, "COMPLETED"}
      /\ nextTransition' \in {nextTransition, "COMPLETED"}
      /\ pc' = "loop" => pc = "deciding" /\ Failed = {} /\ outcome' = "none"
      /\ pc' = "ended" => /\ outcome' = "COMPLETED"
                          /\ pc = "deciding" => Failed = {}
                          /\ waveIndex >= Len(plan) /\ Queued = {}
  BY DEF NothingToDispatch, Advance, Complete, endVars, RunInv, StatusAtPc
<1>2. PlanInv' /\ Engine!EngineTypeOK' /\ Tasks' = Tasks
  BY <1>1, FrameInv
<1>3. RunTypeOK'
  BY <1>1, <1>2 DEF RunInv, RunTypeOK, Phases, graphVars, queueVars, taskVars
<1>4. Untouched' /\ TakenOrFresh'
  BY <1>1, <1>2
  DEF RunInv, Untouched, TakenOrFresh, Started, Taken, graphVars, queueVars, taskVars
<1>5. pc = "deciding" /\ Failed = {} => \A t \in Tasks : status[t] = "FAILED" <=> staged[t] # 0
  BY DEF RunInv, StatusAtPc, Failed
<1>6. StatusAtPc'
  BY <1>1, <1>2, <1>5 DEF RunInv, StatusAtPc, queueVars, taskVars
<1>7. Attempts' /\ DepsSettledOnceRun'
  BY <1>1, <1>2 DEF RunInv, Attempts, DepsSettledOnceRun, graphVars, queueVars, taskVars
<1>8. CompletedMeansSettled'
  <2>1. SUFFICES ASSUME outcome' = "COMPLETED" PROVE \A t \in Tasks : status[t] \in SettledStatuses
    BY <1>1, <1>2 DEF CompletedMeansSettled, taskVars
  <2>2. Started /\ waveIndex >= Len(plan) /\ Queued = {}
    BY <1>1, <2>1 DEF Started
  <2>3. \A t \in Tasks : status[t] \notin {"RUNNING", "FAILED"}
    BY <1>1, <1>5, <2>1, <2>2 DEF RunInv, StatusAtPc, Queued
  <2> QED BY <2>2, <2>3, AllSettled
<1>9. BlockedIsEarned'
  BY <1>1 DEF BlockedIsEarned
<1> QED BY <1>2, <1>3, <1>4, <1>6, <1>7, <1>8, <1>9 DEF RunInv

-----------------------------------------------------------------------------

LEMMA RunInvInit == Init => RunInv
<1> SUFFICES ASSUME Init PROVE RunInv
  OBVIOUS
<1>1. PlanInv
  <2>1. DOMAIN graph \subseteq TaskIds /\ graph \in [DOMAIN graph -> TaskSpecs]
    BY GraphsAssumption DEF Init
  <2> QED BY <2>1 DEF Init, PlanInv, GraphTypeOK, Stage, Covered, OnlyScheduled, LayerReady,
     LayerUniform, PlanDisjoint, DependencyOrder, SerializedAlone, WaveWidth, Scheduled
<1>2. RunTypeOK
  BY DEF Init, RunTypeOK, Phases, Tasks, Signatures
<1>3. Engine!EngineTypeOK
  BY DEF Init, Engine!EngineInit, Engine!EngineTypeOK, Engine!Live
<1>4. Untouched /\ TakenOrFresh /\ StatusAtPc /\ Attempts /\ DepsSettledOnceRun
  BY RetryPolicyAssumption
  DEF Init, Untouched, TakenOrFresh, Started, StatusAtPc, Attempts, DepsSettledOnceRun, Tasks
<1>5. CompletedMeansSettled /\ BlockedIsEarned
  BY DEF Init, CompletedMeansSettled, BlockedIsEarned
<1> QED BY <1>1, <1>2, <1>3, <1>4, <1>5 DEF RunInv

LEMMA RunInvStep == RunInv /\ [Next]_vars => RunInv'
<1> SUFFICES ASSUME RunInv, [Next]_vars PROVE RunInv'
  OBVIOUS
<1>1. CASE RunStep
  BY <1>1, PlanningInv, DispatchInv, CollectInv, BlockInv, ReconcileInv, EndOfLoopInv DEF RunStep
<1>2. CASE EngineStep
  BY <1>2, EngineStepInv
<1>3. CASE UNCHANGED vars
  <2>1. PlanInv' /\ Engine!EngineTypeOK' /\ Tasks' = Tasks /\ UNCHANGED runVars
    BY <1>3, FrameInv DEF vars
  <2>2. RunTypeOK'
    BY <1>3, <2>1 DEF vars, RunInv, RunTypeOK, graphVars, runVars, queueVars, taskVars, endVars
  <2>3. Untouched' /\ TakenOrFresh' /\ StatusAtPc'
    BY <1>3, <2>1 DEF vars, RunInv, Untouched, TakenOrFresh, StatusAtPc, Started, Taken,
       graphVars, runVars, queueVars, taskVars, endVars, engineVars
  <2>4. Attempts' /\ DepsSettledOnceRun' /\ CompletedMeansSettled' /\ BlockedIsEarned'
    BY <1>3, <2>1 DEF vars, RunInv, Attempts, DepsSettledOnceRun, CompletedMeansSettled,
       BlockedIsEarned, graphVars, runVars, queueVars, taskVars, endVars
  <2> QED BY <2>1, <2>2, <2>3, <2>4 DEF RunInv
<1> QED BY <1>1, <1>2, <1>3 DEF Next

LEMMA RunInvariant == Spec => []RunInv
BY RunInvInit, RunInvStep, PTL DEF Spec

-----------------------------------------------------------------------------

\* The fields of the orchestrator, of the graph and of the engine hold what the code's
\* containers can hold, in every run.
THEOREM TypesCorrect == Spec => []TypeOK
<1>1. RunInv => TypeOK
  BY DEF RunInv, PlanInv, TypeOK
<1> QED BY <1>1, RunInvariant, PTL

\* No executor is started for a task whose dependencies are not all settled, neither by
\* the plan nor by a retry (orchestrator.py: the follow-up queue and plan_waves()).
THEOREM RunRespectsDependencies == Spec => []DependenciesSettled
<1>1. RunInv => DependenciesSettled
  BY DEF RunInv, DepsSettledOnceRun, DependenciesSettled
<1> QED BY <1>1, RunInvariant, PTL

\* The retry policy is a bound: retries, replacement and no-progress detection together
\* never start a task more than MaxAttempts times (orchestrator.py: _run_counts).
THEOREM AttemptsBounded == Spec => []AttemptBound
<1>1. RunInv => AttemptBound
  <2> SUFFICES ASSUME RunInv, NEW t \in Tasks PROVE runs[t] <= MaxAttempts
    BY DEF AttemptBound
  <2>1. runs[t] \in Nat
    BY DEF RunInv, RunTypeOK
  <2> QED BY <2>1, RetryPolicyAssumption DEF RunInv, Attempts, MaxAttempts
<1> QED BY <1>1, RunInvariant, PTL

\* At the head of the loop the failed tasks are exactly the queued ones.
THEOREM FailuresAreQueued == Spec => []NothingForgotten
<1>1. RunInv => NothingForgotten
  BY DEF RunInv, StatusAtPc, NothingForgotten
<1> QED BY <1>1, RunInvariant, PTL

\* Both together: what a dispatch finds, for every graph and policy.
THEOREM DispatchIsSound == Spec => []DispatchSound
BY RunRespectsDependencies, FailuresAreQueued, PTL DEF DispatchSound

\* run() reports COMPLETED only when every task of the graph is settled.
THEOREM CompletedIsSound == Spec => []CompletedMeansSettled
<1>1. RunInv => CompletedMeansSettled
  BY DEF RunInv
<1> QED BY <1>1, RunInvariant, PTL

\* run() reports BLOCKED only for a task that repeated one failure up to the threshold
\* or that used every attempt the policy grants.
THEOREM BlockedIsSound == Spec => []BlockedIsEarned
<1>1. RunInv => BlockedIsEarned
  BY DEF RunInv
<1> QED BY <1>1, RunInvariant, PTL

\* Either verdict of run() is earned, for every graph, policy and threshold.
THEOREM VerdictIsSound == Spec => []VerdictEarned
BY CompletedIsSound, BlockedIsSound, PTL DEF VerdictEarned

-----------------------------------------------------------------------------
(* Every step of a run is a step of the ledger, or changes none of it. *)

Kept == UNCHANGED <<graph, status, runs, outcome>>

LEMMA LedgerInit == Init => Ledger!Init
BY DEF Init, Ledger!Init, Tasks

LEMMA LedgerKept == Kept => UNCHANGED Ledger!vars
BY DEF Kept, Ledger!vars, Tasks

\* Both forms of dispatch start the tasks they hand to the engine.
LEMMA DispatchStarts ==
  ASSUME RunInv, DispatchFollowUp \/ DispatchWave
  PROVE  \E S \in SUBSET Tasks : Ledger!Start(S)
<1>1. PICK w : Startable(w)
  BY DispatchStartable
<1>2. /\ w \in SUBSET Tasks /\ w # {} /\ pc = "loop"
      /\ graph' = graph /\ Tasks' = Tasks /\ outcome' = outcome
      /\ status' = [t \in Tasks |-> IF t \in w THEN "RUNNING" ELSE status[t]]
      /\ runs' = [t \in Tasks |-> IF t \in w THEN runs[t] + 1 ELSE runs[t]]
  BY <1>1 DEF Startable, Execute, Engine!RunWave, graphVars, endVars, Tasks
<1>3. outcome = "none" /\ \A t \in Tasks : status[t] \notin {"absent", "RUNNING"}
  BY <1>2 DEF RunInv, StatusAtPc, TakenOrFresh, Started
<1>4. \A t \in w : runs[t] < MaxAttempts
  <2> SUFFICES ASSUME NEW t \in w PROVE runs[t] < MaxAttempts
    OBVIOUS
  <2>1. runs[t] \in Nat /\ t \in Tasks
    BY <1>2 DEF RunInv, RunTypeOK
  <2>2. t \in replaced => AllowReplacement
    BY DEF RunInv, Attempts
  <2> QED BY <1>1, <2>1, <2>2, RetryPolicyAssumption DEF Startable, MaxAttempts
<1>5. \A t \in w : \A d \in graph[t].deps : d \in Tasks /\ status[d] \in {"SUCCEEDED", "CANCELLED"}
  BY <1>1 DEF Startable, SettledStatuses
<1>6. Ledger!Start(w)
  BY <1>1, <1>2, <1>3, <1>4, <1>5 DEF Startable, Ledger!Start, Ledger!Settled
<1> QED BY <1>2, <1>6

\* Collection settles every running task, and nothing else.
LEMMA CollectSettles == ASSUME RunInv, Collect PROVE Ledger!Settle
<1>1. /\ pc = "executing" /\ graph' = graph /\ Tasks' = Tasks /\ outcome' = outcome /\ runs' = runs
      /\ status' = [t \in Tasks |-> IF t \in wave THEN CollectedStatus(t) ELSE status[t]]
  BY DEF Collect, graphVars, endVars, Tasks
<1>2. wave # {} /\ wave \subseteq Tasks /\ outcome = "none"
  BY <1>1 DEF RunInv, StatusAtPc, RunTypeOK
<1>3. \A t \in Tasks : status[t] = "RUNNING" <=> t \in wave
  BY <1>1 DEF RunInv, StatusAtPc
<1>4. \A t \in Tasks : CollectedStatus(t) \in {"SUCCEEDED", "FAILED", "CANCELLED"}
  BY DEF CollectedStatus
<1>5. \A t \in Tasks : status[t] \in {"absent", "QUEUED", "RUNNING", "FAILED", "SUCCEEDED", "CANCELLED"}
  BY DEF RunInv, RunTypeOK, SettledStatuses
<1> QED BY <1>1, <1>2, <1>3, <1>4, <1>5 DEF Ledger!Settle, Ledger!Statuses

LEMMA BlockBlocks == ASSUME RunInv, Block PROVE Ledger!Block
<1>1. /\ pc = "deciding" /\ graph' = graph /\ Tasks' = Tasks /\ outcome' = "BLOCKED"
      /\ status' = status /\ runs' = runs
  BY DEF Block, graphVars, Tasks
<1>2. \E t \in Tasks : status[t] = "FAILED"
  BY <1>1 DEF Block, Blockers, Failed, RunInv, RunTypeOK, StatusAtPc
<1> QED BY <1>1, <1>2 DEF RunInv, StatusAtPc, Ledger!Block

LEMMA EndCompletes ==
  ASSUME RunInv, NothingToDispatch \/ Complete PROVE Ledger!Complete
<1>1. RunInv'
  BY EndOfLoopInv
<1>2. /\ graph' = graph /\ Tasks' = Tasks /\ outcome' = "COMPLETED" /\ status' = status
      /\ runs' = runs /\ outcome = "none"
  BY DEF NothingToDispatch, Complete, graphVars, taskVars, Tasks, RunInv, StatusAtPc
<1>3. \A t \in Tasks : status[t] \in SettledStatuses
  BY <1>1, <1>2 DEF RunInv, CompletedMeansSettled
<1> QED BY <1>2, <1>3 DEF Ledger!Complete, Ledger!Settled, SettledStatuses

LEMMA RaisingRefuses == ASSUME RunInv, PlanRaises PROVE Ledger!Refuse
<1>1. /\ pc = "planning" /\ outcome' = "ERROR" /\ graph' = graph /\ Tasks' = Tasks
      /\ status' = status /\ runs' = runs
  BY DEF PlanRaises, graphVars, taskVars, Tasks
<1> QED BY <1>1 DEF RunInv, Untouched, Ledger!Refuse

\* Setting every status to QUEUED at the start shows as a stutter: the ledger has them
\* queued from its beginning.
LEMMA StartRunStutters == ASSUME RunInv, StartRun PROVE UNCHANGED Ledger!vars
<1>1. /\ pc = "planning" /\ graph' = graph /\ Tasks' = Tasks /\ outcome' = outcome
      /\ runs' = runs /\ status' = [t \in Tasks |-> "QUEUED"]
  BY DEF StartRun, graphVars, endVars, Tasks
<1>2. \A t \in Tasks : status[t] = "absent"
  BY <1>1 DEF RunInv, Untouched
<1> QED BY <1>1, <1>2 DEF Ledger!vars

LEMMA LedgerStep == RunInv /\ [Next]_vars => [Ledger!Next]_(Ledger!vars)
<1> SUFFICES ASSUME RunInv, [Next]_vars PROVE [Ledger!Next]_(Ledger!vars)
  OBVIOUS
<1>1. CASE DispatchFollowUp \/ DispatchWave
  BY <1>1, DispatchStarts DEF Ledger!Next, Tasks
<1>2. CASE Collect
  BY <1>2, CollectSettles DEF Ledger!Next
<1>3. CASE Block
  BY <1>3, BlockBlocks DEF Ledger!Next
<1>4. CASE NothingToDispatch \/ Complete
  BY <1>4, EndCompletes DEF Ledger!Next
<1>5. CASE PlanRaises
  BY <1>5, RaisingRefuses DEF Ledger!Next
<1>6. CASE StartRun
  BY <1>6, StartRunStutters
<1>7. CASE Plan
  <2>1. graph' = graph /\ UNCHANGED runVars
    BY <1>7 DEF Plan, BeginPlanning, PlanStep, PlanLayer, PlanWave, PlanFails, PlanDone
  <2> QED BY <2>1, LedgerKept DEF Kept, runVars, taskVars, endVars
<1>8. CASE Reconcile \/ Advance \/ EngineStep
  BY <1>8, LedgerKept DEF Kept, Reconcile, Advance, EngineStep, graphVars, runVars, taskVars, endVars
<1>9. CASE UNCHANGED vars
  BY <1>9, LedgerKept DEF Kept, vars, graphVars, runVars, taskVars, endVars
<1> QED BY <1>1, <1>2, <1>3, <1>4, <1>5, <1>6, <1>7, <1>8, <1>9 DEF Next, RunStep

\* The detailed run, with its plan, its wave engine, its timeouts and its retry policy,
\* implements the ledger.
THEOREM RunImplementsLedger == Spec => LedgerSpec
BY RunInvariant, LedgerInit, LedgerStep, PTL DEF Spec, LedgerSpec, Ledger!Spec

\* A settled task is never run again and never changed: in the ledger no step touches it,
\* so no step of the run does.
THEOREM SettledStaysSettled == Spec => SettledIsFinal
<1>1. RunInv /\ [Next]_vars =>
        [\A t \in Tasks : status[t] \in SettledStatuses => status'[t] = status[t]]_vars
  <2> SUFFICES ASSUME RunInv, [Next]_vars, NEW t \in Tasks, status[t] \in SettledStatuses
               PROVE  status'[t] = status[t]
    OBVIOUS
  <2>1. CASE StartRun
    BY <2>1 DEF StartRun, RunInv, Untouched, SettledStatuses
  <2>2. CASE DispatchFollowUp \/ DispatchWave
    <3>1. PICK w : Startable(w)
      BY <2>2, DispatchStartable
    <3> QED BY <3>1 DEF Startable, Execute, SettledStatuses
  <2>3. CASE Collect
    BY <2>3 DEF Collect, RunInv, StatusAtPc, SettledStatuses
  <2>4. CASE Plan \/ PlanRaises \/ NothingToDispatch \/ Block \/ Reconcile \/ Advance \/ Complete
    BY <2>4 DEF Plan, PlanRaises, NothingToDispatch, Block, Reconcile, Advance, Complete,
       runVars, taskVars
  <2>5. CASE EngineStep \/ UNCHANGED vars
    BY <2>5 DEF EngineStep, vars, runVars, taskVars
  <2> QED BY <2>1, <2>2, <2>3, <2>4, <2>5 DEF Next, RunStep
<1> QED BY <1>1, RunInvariant, PTL DEF Spec, SettledIsFinal

-----------------------------------------------------------------------------

\* While the run goes on every count of repeated failures is below the threshold.
RepeatsOpen ==
  \A t \in Tasks :
    /\ sigCount[t] <= IF Threshold = 0 THEN 1 ELSE Threshold
    /\ pc # "ended" => sigCount[t] = 0 \/ sigCount[t] < Threshold

\* The loop over the failures goes on past a task only while it is below the threshold.
LEMMA CountBelowThreshold ==
  ASSUME RunInv, RepeatsOpen, pc = "deciding", NEW t \in Failed
  PROVE  /\ Consecutive(t) <= IF Threshold = 0 THEN 1 ELSE Threshold
         /\ t \notin Blockers => Consecutive(t) < Threshold
<1>1. t \in Tasks /\ sigCount[t] \in Nat
  BY DEF Failed, RunInv, RunTypeOK
<1>2. Consecutive(t) \in {1, sigCount[t] + 1}
  BY DEF Consecutive
<1>3. Consecutive(t) <= IF Threshold = 0 THEN 1 ELSE Threshold
  BY <1>1, <1>2, RetryPolicyAssumption DEF RepeatsOpen
<1>4. t \notin Blockers => ~ (Consecutive(t) >= Threshold)
  BY DEF Blockers, NoProgress
<1> QED BY <1>1, <1>2, <1>3, <1>4, RetryPolicyAssumption

LEMMA RepeatsOpenStep == RunInv /\ RepeatsOpen /\ [Next]_vars => RepeatsOpen'
<1> SUFFICES ASSUME RunInv, RepeatsOpen, [Next]_vars PROVE RepeatsOpen'
  OBVIOUS
<1>1. CASE Reconcile
  <2>1. \A t \in Tasks : sigCount'[t] = IF t \in Failed THEN Consecutive(t) ELSE sigCount[t]
    BY <1>1 DEF Reconcile, CountFailures
  <2>2. \A t \in Failed : Consecutive(t) < Threshold
    BY <1>1, CountBelowThreshold DEF Reconcile
  <2>3. \A t \in Failed : Consecutive(t) <= IF Threshold = 0 THEN 1 ELSE Threshold
    BY <1>1, CountBelowThreshold DEF Reconcile
  <2> QED BY <1>1, <2>1, <2>2, <2>3 DEF Reconcile, RepeatsOpen, graphVars, Tasks
<1>2. CASE Block
  <2>1. PICK S \in SUBSET Failed : CountFailures(S)
    BY <1>2 DEF Block, Blockers
  <2>2. \A t \in Tasks : sigCount'[t] = IF t \in S THEN Consecutive(t) ELSE sigCount[t]
    BY <2>1 DEF CountFailures
  <2>3. \A t \in S : Consecutive(t) <= IF Threshold = 0 THEN 1 ELSE Threshold
    BY <1>2, <2>1, CountBelowThreshold DEF Block
  <2> QED BY <1>2, <2>2, <2>3 DEF Block, RepeatsOpen, graphVars, Tasks
<1>3. CASE sigCount' = sigCount /\ graph' = graph /\ (pc' # "ended" => pc # "ended")
  BY <1>3 DEF RepeatsOpen, Tasks
<1>4. CASE DispatchFollowUp \/ DispatchWave
  BY <1>3, <1>4 DEF DispatchFollowUp, DispatchWave, Execute, graphVars
<1>5. CASE Plan
  BY <1>3, <1>5
  DEF Plan, runVars, taskVars, BeginPlanning, PlanStep, PlanLayer, PlanWave, PlanFails, PlanDone
<1>6. CASE PlanRaises \/ StartRun \/ NothingToDispatch \/ Collect \/ Advance \/ Complete
  BY <1>3, <1>6 DEF PlanRaises, StartRun, NothingToDispatch, Collect, Advance, Complete,
     graphVars, taskVars
<1>7. CASE EngineStep \/ UNCHANGED vars
  BY <1>3, <1>7 DEF EngineStep, vars, graphVars, runVars, taskVars
<1> QED BY <1>1, <1>2, <1>4, <1>5, <1>6, <1>7 DEF Next, RunStep

\* No task goes past the no-progress threshold: the run blocks when a failure repeats that
\* often in a row (orchestrator.py: last_signature and signature_consecutive).
THEOREM RepeatsAreBounded == Spec => []RepeatsBounded
<1>1. Init => RepeatsOpen
  BY RetryPolicyAssumption DEF Init, RepeatsOpen, Tasks
<1>2. RepeatsOpen => RepeatsBounded
  BY DEF RepeatsOpen, RepeatsBounded
<1> QED BY <1>1, <1>2, RunInvariant, RepeatsOpenStep, PTL DEF Spec

\* Both bounds hold together.
THEOREM RetriesAreBounded == Spec => []RetriesBounded
<1>1. AttemptBound /\ RepeatsBounded => RetriesBounded
  BY DEF RetriesBounded
<1> QED BY <1>1, AttemptsBounded, RepeatsAreBounded, PTL

-----------------------------------------------------------------------------
(* The run as a caller of the wave engine *)

\* A run starts the engine one wave at a time, under a new id, with tasks of the graph
\* and without a cancel event; between waves it leaves the engine alone.
LEMMA DispatchRunsWave ==
  ASSUME RunInv, DispatchFollowUp \/ DispatchWave
  PROVE  Engine!EngineNext
<1>1. PICK w : Startable(w)
  BY DispatchStartable
<1>2. w \in SUBSET TaskIds /\ Engine!RunWave(w, waveId + 1, "absent")
  BY <1>1 DEF Startable, Execute, RunInv, PlanInv, GraphTypeOK, Tasks
<1>3. waveId + 1 \in Nat \ {0}
  BY DEF RunInv, Engine!EngineTypeOK
<1> QED BY <1>2, <1>3 DEF Engine!EngineNext

LEMMA EngineDriven == RunInv /\ [Next]_vars => [Engine!EngineNext]_engineVars
<1> SUFFICES ASSUME RunInv, [Next]_vars PROVE Engine!EngineNext \/ UNCHANGED engineVars
  OBVIOUS
<1>1. CASE EngineStep
  BY <1>1 DEF EngineStep, Engine!EngineNext
<1>2. CASE DispatchFollowUp \/ DispatchWave
  BY <1>2, DispatchRunsWave
<1>3. CASE Plan \/ PlanRaises \/ StartRun \/ NothingToDispatch
  BY <1>3 DEF Plan, PlanRaises, StartRun, NothingToDispatch
<1>4. CASE Collect \/ Block \/ Reconcile \/ Advance \/ Complete
  BY <1>4 DEF Collect, Block, Reconcile, Advance, Complete
<1>5. CASE UNCHANGED vars
  BY <1>5 DEF vars
<1> QED BY <1>1, <1>2, <1>3, <1>4, <1>5 DEF Next, RunStep

\* Every run of the orchestrator, followed in the engine's variables alone, is a behaviour
\* of the wave engine (orchestrator.py: _execute_wave calls run_wave() and nothing else).
THEOREM RunDrivesEngine == Spec => Engine!EngineSpec
<1>1. Init => Engine!EngineInit
  BY DEF Init
<1>2. [Engine!EngineNext]_engineVars => [Engine!EngineNext]_(Engine!engineVars)
  BY DEF engineVars, Engine!engineVars
<1> QED BY <1>1, <1>2, EngineDriven, RunInvariant, PTL DEF Spec, Engine!EngineSpec

\* The engine of a run is the engine that module WaveEngineProofs is about.
LEMMA OutcomesApart ==
  /\ Results \cap Errors = {}
  /\ {"none", "timeout"} \cap (Results \cup Errors) = {}
BY SignaturesAssumption DEF Results, OwnSignatures

LEMMA SameEngineSteps ==
  ASSUME Engine!EngineNext PROVE Waves!EngineNext
<1>1. CASE \E w \in SUBSET TaskIds, ev \in {"absent", "clear", "set"} :
             waveId + 1 \in Nat \ {0} /\ Engine!RunWave(w, waveId + 1, ev)
  BY <1>1 DEF Waves!EngineNext, Engine!RunWave, Waves!RunWave, Engine!NotInWave, Waves!NotInWave
<1>2. CASE Engine!SetCancelEvent
  BY <1>2 DEF Waves!EngineNext, Engine!SetCancelEvent, Waves!SetCancelEvent
<1>3. CASE Engine!ExecutorStep
  BY <1>3 DEF Waves!EngineNext, Engine!ExecutorStep, Waves!ExecutorStep, Engine!ExecutorReturns,
     Waves!ExecutorReturns, Engine!ExecutorRaises, Waves!ExecutorRaises, Engine!ExecutorCancelled,
     Waves!ExecutorCancelled, Engine!LeftBehindEnds, Waves!LeftBehindEnds, Engine!Ends, Waves!Ends,
     Engine!Live, Waves!Live
<1>4. CASE Engine!LoopStep
  BY <1>4 DEF Waves!EngineNext, Engine!LoopStep, Waves!LoopStep, Engine!TaskTimesOut,
     Waves!TaskTimesOut, Engine!WakeCancelled, Waves!WakeCancelled, Engine!WakeCompleted,
     Waves!WakeCompleted, Engine!Compose, Waves!Compose, Engine!CancelTasks, Waves!CancelTasks,
     Engine!Done, Waves!Done, Engine!DerivedStatus, Waves!DerivedStatus, Engine!ResultsOf,
     Waves!ResultsOf, Engine!FailuresOf, Waves!FailuresOf
<1>5. CASE Engine!StopStep
  BY <1>5 DEF Waves!EngineNext, Engine!StopStep, Waves!StopStep, Engine!TimedOutStops,
     Waves!TimedOutStops, Engine!CancelledStops, Waves!CancelledStops, Engine!Ends, Waves!Ends
<1>6. CASE Engine!Abandon
  BY <1>6 DEF Waves!EngineNext, Engine!Abandon, Waves!Abandon, Engine!Done, Waves!Done,
     Engine!CancelTasks, Waves!CancelTasks
<1> QED BY <1>1, <1>2, <1>3, <1>4, <1>5, <1>6 DEF Engine!EngineNext

LEMMA SameEngine == Engine!EngineSpec => Waves!EngineSpec
<1>1. Engine!EngineInit => Waves!EngineInit
  BY DEF Engine!EngineInit, Waves!EngineInit
<1>2. [Engine!EngineNext]_(Engine!engineVars) => [Waves!EngineNext]_(Waves!engineVars)
  BY SameEngineSteps DEF Engine!engineVars, Waves!engineVars
<1> QED BY <1>1, <1>2, PTL DEF Engine!EngineSpec, Waves!EngineSpec

\* Each wave of a run is accounted for: whatever completed, timed out or was cancelled in
\* whatever order, the telemetry's timings agree with results and failures (waves.py).
THEOREM RunWavesAreAccounted == Spec => []Engine!WaveAccounted
<1>1. Waves!EngineSpec => []Waves!WaveAccounted
  BY OutcomesApart, Waves!WavesAreAccounted
<1>2. Waves!WaveAccounted => Engine!WaveAccounted
  BY DEF Waves!WaveAccounted, Engine!WaveAccounted, Waves!ResultsOf, Engine!ResultsOf,
     Waves!FailuresOf, Engine!FailuresOf
<1> QED BY <1>1, <1>2, RunDrivesEngine, SameEngine, PTL

\* No later answer, timeout or cancellation replaces what a task of a wave ended with.
THEOREM RunOutcomesAreFinal == Spec => Engine!OutcomeFinal
<1>1. Waves!EngineSpec => Waves!OutcomeFinal
  BY OutcomesApart, Waves!OutcomesAreFinal
<1>2. Waves!OutcomeFinal => Engine!OutcomeFinal
  BY PTL DEF Waves!OutcomeFinal, Engine!OutcomeFinal, Waves!engineVars, Engine!engineVars
<1> QED BY <1>1, <1>2, RunDrivesEngine, SameEngine, PTL


=============================================================================

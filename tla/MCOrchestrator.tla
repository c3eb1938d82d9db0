--------------------------- MODULE MCOrchestrator ---------------------------
(* TLC instances of Orchestrator: small graphs in which waves, follow-ups and *)
(* dependencies meet.                                                         *)
EXTENDS Orchestrator

Task(k, d) == [kind |-> k, deps |-> d]

\* Two tasks in one wave, and a reconciler behind them.
Fork == <<Task("INDEPENDENT", {}), Task("INDEPENDENT", {}), Task("RECONCILER", {1, 2})>>

\* A task behind a serialized one.
Gate == <<Task("SERIALIZED", {}), Task("DEPENDENT", {1})>>

Empty == [t \in {} |-> Task("INDEPENDENT", {})]

Cycle == <<Task("INDEPENDENT", {2}), Task("DEPENDENT", {1})>>

Pair == <<Task("INDEPENDENT", {}), Task("SERIALIZED", {})>>

MCGraphs == {Fork, Gate, Pair, Empty, Cycle}

=============================================================================

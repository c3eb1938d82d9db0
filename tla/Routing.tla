------------------------------- MODULE Routing -------------------------------
(***************************************************************************)
(* Which model a request is sent to.  A request names a capability, a tier *)
(* or a model id; the router binds it to a tier and so to the tier's       *)
(* configured model, or refuses it.                                        *)
(***************************************************************************)
EXTENDS Naturals

Tiers == {"nano", "super", "ultra"}

Rank == [nano |-> 1, super |-> 2, ultra |-> 3]

CapabilityTier ==
  [extraction |-> "nano", classification |-> "nano", routine_decision |-> "nano",
   coding |-> "super", debugging |-> "super",
   architecture |-> "ultra", synthesis |-> "ultra", certification |-> "ultra"]

Capabilities == DOMAIN CapabilityTier

Escalation == [nano |-> "super", super |-> "ultra", ultra |-> "ultra"]

Blank   == ""
Refused == [tier |-> "none", model |-> Blank]

(* A tier with no model configured refuses the request. *)
Bound(models, tier) == IF models[tier] = Blank THEN Refused ELSE [tier |-> tier, model |-> models[tier]]

(* decide: a simple task takes coding down to nano, a context over the     *)
(* guard takes any tier one up.                                            *)
Decide(models, capability, task, large) ==
  LET base   == CapabilityTier[capability]
      simple == IF task = "simple" /\ base = "super" THEN "nano" ELSE base
  IN  Bound(models, IF large THEN Escalation[simple] ELSE simple)

(* tier_for_model resolves every tier first, so one blank model refuses all *)
(* ids; of tiers that share an id the highest wins; an id hides a tier name. *)
TierForModel(models, raw) ==
  LET named == {t \in Tiers : models[t] = raw} IN
  IF \E t \in Tiers : models[t] = Blank THEN "none"
  ELSE IF named # {} THEN CHOOSE t \in named : \A u \in named : Rank[t] >= Rank[u]
  ELSE IF raw \in Tiers THEN raw ELSE "none"

(* complete: an explicit model or tier is honoured whatever the context.    *)
Route(models, raw, large) ==
  IF raw = Blank THEN Refused
  ELSE IF raw \in Capabilities THEN Decide(models, raw, "normal", large)
  ELSE IF TierForModel(models, raw) = "none" THEN Refused
  ELSE Bound(models, TierForModel(models, raw))

=============================================================================

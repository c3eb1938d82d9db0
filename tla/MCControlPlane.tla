--------------------------- MODULE MCControlPlane ---------------------------
(* TLC instances of ControlPlane: one operation the policy allows, and one that *)
(* it sends to review for some callers and refuses for others.                  *)
EXTENDS ControlPlane, TLC

Read == "read"
Deploy == "deploy"

TwoVerdicts == Read :> {"ALLOW"} @@ Deploy :> {"REQUIRE_REVIEW", "DENY"}

CallSymmetry == Permutations(Calls)

=============================================================================

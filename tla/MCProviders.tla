---------------------------- MODULE MCProviders ----------------------------
(* Two proofs and two other clients of the adapter.                         *)
EXTENDS Providers

CONSTANTS c1, c2

MCClients  == {c1, c2}
MCCallers  == 1..Proofs \cup MCClients

Ids(nano, super, ultra) == [nano |-> nano, super |-> super, ultra |-> ultra]

Configured(models) == [key |-> TRUE, project |-> TRUE, models |-> models]

(* One id for two tiers; a tier left blank; no project. *)
MCSettings ==
  {Configured(Ids("small", "small", "big")), Configured(Ids("small", "medium", Blank)),
   [Configured(Ids("small", "medium", "big")) EXCEPT !.project = FALSE]}

MCClientOps == {"run", "checkpoint"}
MCFaults    == {"timeout", "status_401"}
=============================================================================

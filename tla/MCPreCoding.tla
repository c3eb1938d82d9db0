---------------------------- MODULE MCPreCoding ----------------------------
(* TLC instance of PreCoding: one task, one protected claim, keys enough for a *)
(* complete context and one more row.                                          *)
EXTENDS PreCoding

MCKinds == {"ledger", "impact", "plan", "certificate"}
MCIdentityKinds == {"certificate"}
MCData ==
  [task : {"task", "other", "none"}, ledger : Keys \cup {0},
   status : {"PROPOSED", "DRAFT", "LOCKED"}]

Request(objective, criteria) ==
  [objective |-> objective, criteria |-> criteria, priority |-> "NORMAL", budget |-> "known",
   project |-> TRUE, repository |-> "registered"]

MCRequests == {Request(TRUE, "usable"), Request(TRUE, "blank"), Request(FALSE, "usable")}

Statement(type, text, touches) == [type |-> type, text |-> text, touches |-> touches]

MCStatements ==
  {{Statement("REPLACE", "plain", {"claim"})},
   {Statement("ADD", "vague", {})}}

MCQuota == [kind \in MCKinds |->
              IF kind = "certificate" THEN 3 ELSE 2]
=============================================================================

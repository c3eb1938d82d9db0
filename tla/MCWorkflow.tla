----------------------------- MODULE MCWorkflow -----------------------------
EXTENDS Workflow

\* Of two items one explains the delta of a protected behavior, the other one is aligned.
MCItems == {"hardening", "refresh"}
MCDeltas == {"forged"}
MCCovers == {<<"hardening", "forged">>}
MCAlignedItems == {"refresh"}

\* The whole workflow, segments that leave out one of the steps before the merge, and a
\* later phase for a replay.
MCSegments ==
  {Phases,
   {"discover", "decide", "certify", "merge"},
   {"discover", "reverify", "certify"},
   {"discover", "decide", "memory"},
   {"memory"}}

MCFaults ==
  {[mode |-> "UNIT_TEST", phase |-> "develop"],
   [mode |-> "AMBIGUOUS_RESULT", phase |-> "certify"]}
=============================================================================

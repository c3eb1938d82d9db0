---------------------------- MODULE MCAssessment ----------------------------
EXTENDS Assessment

Probes(d, g, m, u) ==
  [t \in ModuleTypes |->
     CASE t = "DIFFERENTIAL_EXECUTION" -> d [] t = "HISTORICAL_GHOST_REPLAY" -> g
       [] t = "METAMORPHIC_CHECK" -> m [] t = "MUTATION_TEST" -> u [] OTHER -> 0]

Setting(claims, modules, candidate, baseline, probes, holes) ==
  [claims |-> claims, modules |-> modules, candidate |-> candidate, baseline |-> baseline,
   probes |-> probes, holes |-> holes, actor |-> 0]

Twice ==
  Setting(<<2, 1>>, {"STATIC_ANALYSIS"}, "sources", TRUE, Probes(0, 0, 0, 0), {})

MCConfigs ==
  [w \in {1, 2} |->
     IF w = 2 THEN {Twice}
     ELSE {Setting(<<1, 2>>, {"STATIC_ANALYSIS", "METAMORPHIC_CHECK"}, "sources", TRUE,
                   Probes(0, 0, 1, 0), {}),
           Setting(<<2, 1>>, {"ADVERSARIAL_SCENARIO", "MUTATION_TEST"}, "sources", TRUE,
                   Probes(0, 0, 0, 2), {}),
           Setting(<<1>>, {"ADVERSARIAL_SCENARIO"}, "sources", TRUE, Probes(0, 0, 0, 0), {1}),
           Setting(<<1>>, {"DIFFERENTIAL_EXECUTION", "METAMORPHIC_CHECK"}, "sources", FALSE,
                   Probes(0, 0, 1, 0), {}),
           Setting(<<1>>, {"DIFFERENTIAL_EXECUTION", "HISTORICAL_GHOST_REPLAY"}, "bare", TRUE,
                   Probes(0, 1, 0, 0), {}),
           Setting(<<>>, {"STATIC_ANALYSIS"}, "missing", FALSE, Probes(0, 0, 0, 0), {})}]

MCRequests ==
  {[deltas |-> {1, 2}, baseline |-> {1}, candidates |-> {1, 2}, mentioned |-> {2}],
   [deltas |-> {1}, baseline |-> {1}, candidates |-> {}, mentioned |-> {1}]}

MCBudgets ==
  {[max_iterations |-> 3, max_commands |-> 1, max_repair_attempts |-> 3,
    no_progress_threshold |-> 2],
   [max_iterations |-> 1, max_commands |-> 1, max_repair_attempts |-> 3,
    no_progress_threshold |-> 3]}

=============================================================================

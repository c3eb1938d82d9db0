---------------------------- MODULE MCCodingLoop ----------------------------
(* Instances of the coding loop: a plan of two commands and every budget of these. *)
EXTENDS CodingLoop

SmallBudgets ==
  [max_iterations : 1 .. 4, max_commands : {3, 5, 7, 8}, max_repair_attempts : 1 .. 4,
   no_progress_threshold : 0 .. 3]
=============================================================================

------------------------------ MODULE MCStore ------------------------------
(* Two processes start over one store; a test failure is injected.         *)
EXTENDS Store

CONSTANTS p1, p2

MCWorkers  == {p1, p2}
MCModes    == {"TEST_FAILURE"}
Symmetry   == Permutations(MCWorkers)
=============================================================================

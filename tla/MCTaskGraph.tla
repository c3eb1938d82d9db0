---------------------------- MODULE MCTaskGraph ----------------------------
(* TLC instance of TaskGraph: every graph of a few tasks is built call by *)
(* call, forward and unknown dependencies included, and then planned.     *)
EXTENDS TaskGraph

=============================================================================

----------------------------- MODULE LoopBounds -----------------------------
(***************************************************************************)
(* The bounds of a repair loop (smorx_develop/bounds.py): the counters of  *)
(* LoopBoundsController, its check() and its no-progress window.  The      *)
(* elapsed time is kept as whether the runtime budget has expired.         *)
(***************************************************************************)
EXTENDS Integers, Sequences

CONSTANT Budgets  \* the LoopBounds a loop may be given

ASSUME BudgetsAssumption ==
  Budgets \subseteq [max_iterations : Nat, max_commands : Nat,
                     max_repair_attempts : Nat, no_progress_threshold : Nat]

VARIABLES
  bounds,                        \* the loop's budget
  iteration, commands, repairs,  \* what has been used of it
  expired,                       \* max_runtime_seconds have passed
  signatures                     \* recent_signatures

boundsVars == <<bounds, iteration, commands, repairs, expired, signatures>>

BoundsTypeOK ==
  /\ bounds \in Budgets
  /\ iteration \in Nat /\ commands \in Nat /\ repairs \in Nat
  /\ expired \in BOOLEAN

BoundsInit ==
  /\ bounds \in Budgets
  /\ iteration = 0 /\ commands = 0 /\ repairs = 0
  /\ expired = FALSE
  /\ signatures = <<>>

\* Faulty variant: one command too many.
ExhaustedLate ==
  \/ iteration >= bounds.max_iterations
  \/ expired
  \/ commands > bounds.max_commands
  \/ repairs >= bounds.max_repair_attempts

\* check() raises BoundsExhaustedError.
Exhausted ==
  \/ iteration >= bounds.max_iterations
  \/ expired
  \/ commands >= bounds.max_commands
  \/ repairs >= bounds.max_repair_attempts

Threshold == IF bounds.no_progress_threshold < 1 THEN 1 ELSE bounds.no_progress_threshold

\* Faulty variant: the window is compared without the signature being recorded.
StalledBefore(sig) ==
  /\ Len(signatures) >= Threshold
  /\ \A i \in Len(signatures) - Threshold + 1 .. Len(signatures) : signatures[i] = sig

\* record_execution_signature(sig) returns True: the window is full of sig.
StalledOn(sig) ==
  LET recent == Append(signatures, sig)
  IN /\ Len(recent) >= Threshold
     /\ \A i \in Len(recent) - Threshold + 1 .. Len(recent) : recent[i] = sig

RecordSignature(sig) ==
  signatures' = IF StalledOn(sig) THEN <<>> ELSE Append(signatures, sig)

=============================================================================

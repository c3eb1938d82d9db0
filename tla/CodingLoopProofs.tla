-------------------------- MODULE CodingLoopProofs --------------------------
(***************************************************************************)
(* Proofs about the coding loop, for plans of any length and any budgets.  *)
(***************************************************************************)
EXTENDS CodingLoop, SequenceTheorems, TLAPS

\* Before and while the plan is executed, its records are of the workspace as it is.
Executing ==
  pc \in {"barrier", "checkpoint", "executing", "running"} =>
    ran < PlanLength /\ ranOn \subseteq {revision} /\ (ran > 0 => ranOn = {revision})

\* Between two executions the last one is complete and has failed.
Concluded ==
  pc \in {"checking", "deciding"} =>
    ran = PlanLength /\ ranOn = {revision} /\ failing # <<>>

\* What check() found is still so when it is used.
Permitted ==
  /\ pc = "running" => iteration < bounds.max_iterations
  /\ pc = "deciding" => repairs < bounds.max_repair_attempts

ResultAtEnd == pc = "ended" <=> result # NoResult

CodingInv ==
  /\ TypeOK
  /\ Executing
  /\ Concluded
  /\ Permitted
  /\ ResultAtEnd
  /\ ReportIsCurrent
  /\ VerdictIsEvidenced
  /\ BudgetKept

\* The window ends with the current streak, and before it comes something else.
Window ==
  result # Blocked("NO_PROGRESS") =>
    /\ streak.count <= Len(signatures)
    /\ Len(signatures) > 0 => streak.count > 0
    /\ \A i \in Len(signatures) - streak.count + 1 .. Len(signatures) : signatures[i] = streak.of
    /\ Len(signatures) > streak.count => signatures[Len(signatures) - streak.count] # streak.of

StallInv == TypeOK /\ ResultAtEnd /\ Window /\ StallIsReported

-----------------------------------------------------------------------------

LEMMA LoopInit == Init => CodingInv /\ StallInv
<1> SUFFICES ASSUME Init PROVE CodingInv /\ StallInv
  OBVIOUS
<1> USE BudgetsAssumption, PlanAssumption DEF Init, BoundsInit, NoResult, Passed, Stopped, Blocked, Raised
<1>1. TypeOK
  <2>1. <<>> \in Seq(Failures) /\ <<>> \in Seq(Seq(Failures)) /\ Len(<<>>) = 0
    BY EmptySeq
  <2>2. signatures \in Seq(Seq(Failures)) /\ failing \in Seq(Failures)
    BY <2>1
  <2>3. Len(failing) <= ran /\ ran \in 0 .. PlanLength
    BY <2>1
  <2>4. streak \in [count : Nat, of : Seq(Failures)]
    BY <2>1
  <2>5. result \in Outcomes
    BY DEF Outcomes
  <2> QED BY <2>2, <2>3, <2>4, <2>5 DEF TypeOK, BoundsTypeOK
<1>2. Executing /\ Concluded /\ Permitted /\ ResultAtEnd
  BY DEF Executing, Concluded, Permitted, ResultAtEnd
<1>3. ReportIsCurrent /\ VerdictIsEvidenced /\ BudgetKept
  BY DEF ReportIsCurrent, VerdictIsEvidenced, BudgetKept
<1>4. Window /\ StallIsReported
  BY DEF Window, StallIsReported, Threshold
<1> QED BY <1>1, <1>2, <1>3, <1>4 DEF CodingInv, StallInv

\* A command's failure, added to those before it, keeps the records' types.
LEMMA FailuresAdded ==
  ASSUME TypeOK, NEW fails \in Verdicts, ran + 1 <= PlanLength
  PROVE  /\ failing \o fails \in Seq(Failures)
         /\ Len(failing \o fails) <= ran + 1
         /\ ran + 1 \in 0 .. PlanLength
<1>1. failing \in Seq(Failures) /\ Len(failing) <= ran /\ ran \in 0 .. PlanLength
  BY DEF TypeOK
<1>2. fails \in Seq(Failures) /\ Len(fails) <= 1
  <2>1. CASE fails = <<>>
    BY <2>1, EmptySeq
  <2>2. ASSUME NEW f \in Failures, fails = <<f>> PROVE fails \in Seq(Failures) /\ Len(fails) = 1
    BY <2>2
  <2> QED BY <2>1, <2>2 DEF Verdicts
<1>3. failing \o fails \in Seq(Failures) /\ Len(failing \o fails) = Len(failing) + Len(fails)
  BY <1>1, <1>2, ConcatProperties
<1> QED BY <1>1, <1>2, <1>3, PlanAssumption, LenProperties

\* The numbers behind the types.
LEMMA Numbers ==
  ASSUME TypeOK
  PROVE  /\ bounds.max_iterations \in Nat /\ bounds.max_commands \in Nat
         /\ bounds.max_repair_attempts \in Nat /\ bounds.no_progress_threshold \in Nat
         /\ Threshold \in Nat \ {0}
         /\ iteration \in Nat /\ commands \in Nat /\ repairs \in Nat /\ revision \in Nat
         /\ ran \in Nat /\ PlanLength \in Nat \ {0}
  BY BudgetsAssumption, PlanAssumption DEF TypeOK, BoundsTypeOK, Threshold

\* Every step of the coding loop keeps its types.
LEMMA TypeStep == CodingInv /\ [Next]_vars => TypeOK'
<1> SUFFICES ASSUME CodingInv, [Next]_vars PROVE TypeOK'
  OBVIOUS
<1>1. TypeOK /\ Executing
  BY DEF CodingInv
<1>2. ASSUME UNCHANGED <<signatures, failing, ran, ranOn, revision, streak, bounds, authorized, iteration>>,
             commands' \in Nat, repairs' \in Nat, expired' \in BOOLEAN,
             pc' \in {"barrier", "checkpoint", "executing", "running", "checking", "deciding", "ended"},
             result' \in Outcomes
      PROVE  TypeOK'
  BY <1>1, <1>2 DEF TypeOK, BoundsTypeOK
<1>3. /\ commands \in Nat /\ repairs \in Nat /\ commands + 1 \in Nat /\ repairs + 1 \in Nat
      /\ expired \in BOOLEAN /\ result \in Outcomes
      /\ pc \in {"barrier", "checkpoint", "executing", "running", "checking", "deciding", "ended"}
  BY <1>1 DEF TypeOK, BoundsTypeOK
<1>4. CASE EvaluateBarrier
  BY <1>2, <1>3, <1>4 DEF EvaluateBarrier, EndWith, Outcomes, boundsVars
<1>5. CASE Checkpoint
  BY <1>2, <1>3, <1>5 DEF Checkpoint, EndWith, Outcomes, boundsVars
<1>6. CASE StartCommand
  BY <1>2, <1>3, <1>6 DEF StartCommand, EndWith, Outcomes, boundsVars
<1>7. CASE CommandRaises
  BY <1>2, <1>3, <1>7 DEF CommandRaises, EndWith, Outcomes, boundsVars
<1>8. ASSUME NEW fails \in Verdicts, CommandEnds(fails) PROVE TypeOK'
  <2>1. ran + 1 <= PlanLength
    BY <1>1, <1>8, Numbers DEF CommandEnds
  <2>2. /\ failing' \in Seq(Failures) /\ Len(failing') <= ran' /\ ran' \in 0 .. PlanLength
    BY <1>1, <1>8, <2>1, FailuresAdded DEF CommandEnds
  <2>3. ranOn' \subseteq Nat /\ revision' \in Nat
    BY <1>1, <1>8 DEF CommandEnds, TypeOK
  <2> QED BY <1>1, <1>8, <2>2, <2>3 DEF CommandEnds, TypeOK, BoundsTypeOK, boundsVars
<1>9. ASSUME NEW fails \in Verdicts, FirstPlanEnds(fails) \/ PlanEnds(fails) PROVE TypeOK'
  <2> DEFINE sig == failing \o fails
  <2>1. sig \in Seq(Failures) /\ Len(sig) <= ran + 1 /\ ran + 1 \in 0 .. PlanLength
    <3>1. ran + 1 <= PlanLength
      BY <1>1, <1>9, Numbers DEF FirstPlanEnds, PlanEnds, PlanRan
    <3> QED BY <1>1, <3>1, FailuresAdded
  <2>2. streak \in [count : Nat, of : Seq(Failures)] /\ signatures \in Seq(Seq(Failures))
    BY <1>1 DEF TypeOK
  <2>3. Append(signatures, sig) \in Seq(Seq(Failures)) /\ <<>> \in Seq(Seq(Failures))
    BY <2>1, <2>2, EmptySeq
  <2>4. CountSignature(sig) => streak' \in [count : Nat, of : Seq(Failures)]
    BY <2>1, <2>2 DEF CountSignature
  <2>5. RecordSignature(sig) => signatures' \in Seq(Seq(Failures))
    BY <2>3 DEF RecordSignature
  <2>6. signatures' \in Seq(Seq(Failures)) /\ streak' \in [count : Nat, of : Seq(Failures)]
    <3>1. UNCHANGED <<signatures, streak>> \/ (RecordSignature(sig) /\ CountSignature(sig))
      BY <1>9 DEF FirstPlanEnds, PlanEnds
    <3> QED BY <2>2, <2>4, <2>5, <3>1
  <2>7. pc' \in {"checking", "ended"} /\ result' \in Outcomes
    BY <1>3, <1>9 DEF FirstPlanEnds, PlanEnds, PlanRan, EndWith, Outcomes
  <2>8. /\ failing' = sig /\ ran' = ran + 1 /\ ranOn' = ranOn \cup {revision}
        /\ iteration' = iteration + 1
        /\ UNCHANGED <<bounds, commands, repairs, expired, authorized, revision>>
    BY <1>9 DEF FirstPlanEnds, PlanEnds, PlanRan
  <2>9. ranOn' \subseteq Nat /\ revision' \in Nat /\ iteration' \in Nat
    BY <1>1, <2>8 DEF TypeOK, BoundsTypeOK
  <2> QED BY <1>1, <2>1, <2>6, <2>7, <2>8, <2>9 DEF TypeOK, BoundsTypeOK
<1>10. CASE CheckBounds
  BY <1>2, <1>3, <1>10 DEF CheckBounds, EndWith, Outcomes, boundsVars
<1>11. CASE DirectiveRaises
  BY <1>2, <1>3, <1>11 DEF DirectiveRaises, EndWith, Outcomes, boundsVars
<1>12. CASE Stop
  BY <1>2, <1>3, <1>12 DEF Stop, EndWith, Outcomes, boundsVars
<1>13. ASSUME NEW m \in BOOLEAN, Repair(m) PROVE TypeOK'
  <2>1. CASE authorized
    <3>1. failing' = <<>> /\ ran' = 0 /\ ranOn' = {} /\ pc' = "executing" /\ repairs' = repairs + 1
      BY <1>13, <2>1 DEF Repair
    <3>2. failing' \in Seq(Failures) /\ Len(failing') <= ran' /\ ran' \in 0 .. PlanLength
      BY <3>1, EmptySeq, PlanAssumption
    <3>3. revision' \in Nat
      BY <1>1, <1>13, <2>1 DEF Repair, TypeOK
    <3>4. UNCHANGED <<bounds, iteration, commands, expired, signatures, authorized, result, streak>>
      BY <1>13, <2>1 DEF Repair
    <3> QED BY <1>1, <1>3, <3>1, <3>2, <3>3, <3>4 DEF TypeOK, BoundsTypeOK
  <2>2. CASE ~authorized
    BY <1>2, <1>3, <1>13, <2>2 DEF Repair, EndWith, Outcomes
  <2> QED BY <2>1, <2>2
<1>14. CASE RepairRaises
  BY <1>2, <1>3, <1>14 DEF RepairRaises, EndWith, Outcomes
<1>15. CASE TimeExpires
  BY <1>2, <1>3, <1>15 DEF TimeExpires, loopVars
<1>16. CASE UNCHANGED vars
  BY <1>2, <1>3, <1>16 DEF vars, boundsVars, loopVars
<1> QED BY <1>4, <1>5, <1>6, <1>7, <1>8, <1>9, <1>10, <1>11, <1>12, <1>13, <1>14, <1>15, <1>16
        DEF Next, OwnStep, CommandStep, DeciderStep

\* Every step of the coding loop keeps its invariant.
LEMMA LoopStep == CodingInv /\ [Next]_vars => CodingInv'
<1> SUFFICES ASSUME CodingInv, [Next]_vars PROVE CodingInv'
  OBVIOUS
<1>1. TypeOK /\ TypeOK'
  BY TypeStep DEF CodingInv
<1>2. /\ bounds.max_iterations \in Nat /\ bounds.max_commands \in Nat
      /\ bounds.max_repair_attempts \in Nat
      /\ iteration \in Nat /\ commands \in Nat /\ repairs \in Nat /\ revision \in Nat
      /\ ran \in Nat /\ PlanLength \in Nat \ {0}
  BY <1>1, Numbers
<1> DEFINE Rest == /\ Executing /\ Concluded /\ Permitted /\ ResultAtEnd
                   /\ ReportIsCurrent /\ VerdictIsEvidenced /\ BudgetKept
<1>3. Rest
  BY DEF CodingInv
<1> USE <1>2, <1>3
    DEF Executing, Concluded, Permitted, ResultAtEnd, ReportIsCurrent, VerdictIsEvidenced,
        BudgetKept, NoResult, Passed, Stopped, Blocked, Raised, EndWith, boundsVars
<1>4. ASSUME EvaluateBarrier PROVE Rest'
  BY <1>4 DEF EvaluateBarrier
<1>5. ASSUME Checkpoint PROVE Rest'
  BY <1>5 DEF Checkpoint
<1>6. ASSUME StartCommand PROVE Rest'
  BY <1>6 DEF StartCommand, Exhausted
<1>7. ASSUME CommandRaises PROVE Rest'
  BY <1>7 DEF CommandRaises
<1>8. ASSUME NEW fails \in Verdicts, CommandEnds(fails) PROVE Rest'
  BY <1>8 DEF CommandEnds
<1>9. ASSUME NEW fails \in Verdicts, FirstPlanEnds(fails) \/ PlanEnds(fails) PROVE Rest'
  BY <1>9 DEF FirstPlanEnds, PlanEnds, PlanRan
<1>10. ASSUME CheckBounds PROVE Rest'
  BY <1>10 DEF CheckBounds, Exhausted
<1>11. ASSUME DirectiveRaises PROVE Rest'
  BY <1>11 DEF DirectiveRaises
<1>12. ASSUME Stop PROVE Rest'
  BY <1>12 DEF Stop
<1>13. ASSUME NEW m \in BOOLEAN, Repair(m) PROVE Rest'
  BY <1>13 DEF Repair
<1>14. ASSUME RepairRaises PROVE Rest'
  BY <1>14 DEF RepairRaises
<1>15. ASSUME TimeExpires PROVE Rest'
  BY <1>15 DEF TimeExpires, loopVars
<1>16. ASSUME UNCHANGED vars PROVE Rest'
  BY <1>16 DEF vars, loopVars
<1>17. Rest'
  BY <1>4, <1>5, <1>6, <1>7, <1>8, <1>9, <1>10, <1>11, <1>12, <1>13, <1>14, <1>15, <1>16
     DEF Next, OwnStep, CommandStep, DeciderStep
<1> QED BY <1>1, <1>17 DEF CodingInv

\* A window that ends with c signatures alike, before which comes another one, and the
\* signature x that is added to it.
LEMMA WindowGrows ==
  ASSUME NEW S, NEW s \in Seq(S), NEW c \in Nat, NEW of, NEW x \in S,
         c <= Len(s), Len(s) > 0 => c > 0,
         \A i \in Len(s) - c + 1 .. Len(s) : s[i] = of,
         Len(s) > c => s[Len(s) - c] # of,
         NEW d, d = IF c > 0 /\ of = x THEN c + 1 ELSE 1,
         NEW t, t = Append(s, x)
  PROVE  /\ d <= Len(t)
         /\ \A k \in Len(t) - d + 1 .. Len(t) : t[k] = x
         /\ Len(t) > d => t[Len(t) - d] # x
<1>1. /\ Len(t) = Len(s) + 1 /\ t[Len(s) + 1] = x /\ Len(s) \in Nat
      /\ \A k \in 1 .. Len(s) : t[k] = s[k]
  OBVIOUS
<1>2. CASE c > 0 /\ of = x
  <2>1. d = c + 1
    BY <1>2
  <2>2. ASSUME NEW k \in Len(t) - d + 1 .. Len(t) PROVE t[k] = x
    <3>1. k \in Len(s) - c + 1 .. Len(s) + 1
      BY <1>1, <2>1
    <3>2. CASE k = Len(s) + 1
      BY <1>1, <3>2
    <3>3. CASE k # Len(s) + 1
      <4>1. k \in Len(s) - c + 1 .. Len(s) /\ k \in 1 .. Len(s)
        BY <1>1, <3>1, <3>3
      <4> QED BY <1>1, <1>2, <4>1
    <3> QED BY <3>2, <3>3
  <2>3. ASSUME Len(t) > d PROVE t[Len(t) - d] # x
    <3>1. Len(t) - d = Len(s) - c /\ Len(s) > c /\ Len(s) - c \in 1 .. Len(s)
      BY <1>1, <2>1, <2>3
    <3> QED BY <1>1, <1>2, <3>1
  <2> QED BY <1>1, <2>1, <2>2, <2>3
<1>3. CASE ~(c > 0 /\ of = x)
  <2>1. d = 1
    BY <1>3
  <2>2. ASSUME NEW k \in Len(t) - d + 1 .. Len(t) PROVE t[k] = x
    BY <1>1, <2>1
  <2>3. ASSUME Len(t) > d PROVE t[Len(t) - d] # x
    <3>1. Len(t) - d = Len(s) /\ Len(s) \in 1 .. Len(s) /\ c > 0
      BY <1>1, <2>1, <2>3
    <3>2. Len(s) \in Len(s) - c + 1 .. Len(s)
      BY <1>1, <3>1
    <3>3. s[Len(s)] = of /\ of # x
      BY <1>3, <3>1, <3>2
    <3> QED BY <1>1, <3>1, <3>3
  <2> QED BY <1>1, <2>1, <2>2, <2>3
<1> QED BY <1>2, <1>3

\* The window and the streak that is counted beside it agree on when the loop stalls.
LEMMA WindowDecides ==
  ASSUME StallInv, result = NoResult, NEW sig \in Seq(Failures), CountSignature(sig)
  PROVE  /\ streak'.count \in Nat \ {0} /\ streak'.of = sig
         /\ StalledOn(sig) <=> streak'.count >= Threshold
         /\ ~StalledOn(sig) => streak'.count < Threshold
         /\ streak'.count <= Len(signatures) + 1
<1> DEFINE n == Len(signatures)
           c == streak.count
<1>1. /\ n \in Nat /\ c \in Nat /\ signatures \in Seq(Seq(Failures)) /\ Threshold \in Nat \ {0}
      /\ c <= n /\ (n > 0 => c > 0)
      /\ \A i \in n - c + 1 .. n : signatures[i] = streak.of
      /\ n > c => signatures[n - c] # streak.of
      /\ c < Threshold
  BY BudgetsAssumption
     DEF StallInv, TypeOK, BoundsTypeOK, Window, StallIsReported, NoResult, Blocked, Threshold
<1>2. /\ streak'.of = sig
      /\ streak'.count = IF c > 0 /\ streak.of = sig THEN c + 1 ELSE 1
  BY DEF CountSignature
<1>3. /\ Len(Append(signatures, sig)) = n + 1
      /\ Append(signatures, sig)[n + 1] = sig
      /\ \A i \in 1 .. n : Append(signatures, sig)[i] = signatures[i]
  BY <1>1
<1>4. StalledOn(sig) <=> n + 1 >= Threshold /\ \A i \in n - Threshold + 2 .. n : signatures[i] = sig
  BY <1>1, <1>3 DEF StalledOn
<1>n. n \in Nat /\ c \in Nat /\ Threshold \in Nat \ {0} /\ c <= n /\ c < Threshold
  BY <1>1
<1>5. ASSUME StalledOn(sig) PROVE streak'.count >= Threshold
  <2>1. CASE Threshold = 1
    BY <1>1, <1>2, <2>1
  <2>2. CASE Threshold > 1
    <3>1. signatures[n] = sig /\ n > 0
      <4>1. n \in n - Threshold + 2 .. n
        BY <1>1, <1>4, <1>5, <2>2
      <4> QED BY <1>1, <1>4, <1>5, <2>2, <4>1
    <3>2. c > 0 /\ streak.of = sig
      <4>1. n \in n - c + 1 .. n
        BY <1>1, <3>1
      <4> QED BY <1>1, <3>1, <4>1
    <3>3. c >= Threshold - 1
      <4>1. SUFFICES ASSUME c < Threshold - 1 PROVE FALSE
        BY <1>1
      <4>2. n - c \in n - Threshold + 2 .. n /\ n > c
        <5>1. n + 1 >= Threshold
          BY <1>4, <1>5
        <5> QED BY ONLY <1>n, <4>1, <5>1
      <4>3. signatures[n - c] = sig /\ signatures[n - c] # streak.of
        BY <1>1, <1>4, <1>5, <4>2
      <4> QED BY <3>2, <4>3
    <3> QED BY <1>1, <1>2, <3>2, <3>3
  <2> QED BY <1>1, <2>1, <2>2
<1>6. ASSUME streak'.count >= Threshold PROVE StalledOn(sig)
  <2>1. CASE c > 0 /\ streak.of = sig
    <3>1. c = Threshold - 1
      <4>1. c + 1 >= Threshold
        BY <1>2, <1>6, <2>1
      <4> QED BY ONLY <1>n, <4>1
    <3>2. n - Threshold + 2 = n - c + 1 /\ n + 1 >= Threshold
      BY <1>1, <3>1
    <3>3. \A i \in n - Threshold + 2 .. n : signatures[i] = sig
      BY <1>1, <2>1, <3>2
    <3> QED BY <1>4, <3>2, <3>3
  <2>2. CASE ~(c > 0 /\ streak.of = sig)
    <3>1. Threshold = 1
      BY <1>1, <1>2, <1>6, <2>2
    <3> QED BY <1>1, <1>4, <3>1
  <2> QED BY <2>1, <2>2
<1> QED BY <1>1, <1>2, <1>5, <1>6

\* Every step of the coding loop keeps the window and the streak in agreement.
LEMMA StallStep == CodingInv /\ StallInv /\ CodingInv' /\ [Next]_vars => StallInv'
<1> SUFFICES ASSUME CodingInv, StallInv, CodingInv', [Next]_vars PROVE StallInv'
  OBVIOUS
<1>1. TypeOK /\ TypeOK' /\ ResultAtEnd /\ ResultAtEnd'
  BY DEF CodingInv
<1>2. ASSUME UNCHANGED <<bounds, signatures, streak>>,
             result = Blocked("NO_PROGRESS") <=> result' = Blocked("NO_PROGRESS")
      PROVE  StallInv'
  BY <1>1, <1>2 DEF StallInv, Window, StallIsReported, Threshold
<1>3. ASSUME NEW fails \in Verdicts, PlanEnds(fails) PROVE StallInv'
  <2> DEFINE sig == failing \o fails
  <2>1. result = NoResult /\ bounds' = bounds /\ sig \in Seq(Failures)
    BY <1>1, <1>3, FailuresAdded, PlanAssumption DEF PlanEnds, PlanRan, ResultAtEnd, TypeOK
  <2>2. CASE UNCHANGED <<signatures, streak>> /\ result' \in {NoResult, Passed}
    BY <1>2, <2>1, <2>2 DEF NoResult, Passed, Blocked
  <2>3. CASE /\ RecordSignature(sig) /\ CountSignature(sig)
             /\ IF StalledOn(sig) THEN result' = Blocked("NO_PROGRESS") ELSE result' = result
    <3>1. /\ streak'.count \in Nat \ {0} /\ streak'.of = sig
          /\ StalledOn(sig) <=> streak'.count >= Threshold
          /\ ~StalledOn(sig) => streak'.count < Threshold
          /\ streak'.count <= Len(signatures) + 1
      BY <2>1, <2>3, WindowDecides
    <3>2. Threshold' = Threshold
      BY <2>1 DEF Threshold
    <3>3. CASE StalledOn(sig)
      BY <1>1, <2>3, <3>1, <3>2, <3>3 DEF StallInv, Window, StallIsReported
    <3>4. CASE ~StalledOn(sig)
      <4>1. result' = NoResult /\ signatures' = Append(signatures, sig)
        BY <2>1, <2>3, <3>4 DEF RecordSignature
      <4>2. /\ signatures \in Seq(Seq(Failures))
            /\ streak.count \in Nat
            /\ streak.count <= Len(signatures) /\ (Len(signatures) > 0 => streak.count > 0)
            /\ \A i \in Len(signatures) - streak.count + 1 .. Len(signatures) : signatures[i] = streak.of
            /\ Len(signatures) > streak.count => signatures[Len(signatures) - streak.count] # streak.of
        BY <1>1, <2>1 DEF StallInv, Window, TypeOK, NoResult, Blocked
      <4>3. streak'.count = IF streak.count > 0 /\ streak.of = sig THEN streak.count + 1 ELSE 1
        BY <2>3 DEF CountSignature
      <4>4. /\ Len(signatures') = Len(signatures) + 1
            /\ signatures'[Len(signatures) + 1] = sig
            /\ \A i \in 1 .. Len(signatures) : signatures'[i] = signatures[i]
        BY <2>1, <4>1, <4>2
      <4>5. Window'
        <5>1. /\ streak'.count <= Len(signatures')
              /\ \A k \in Len(signatures') - streak'.count + 1 .. Len(signatures') : signatures'[k] = sig
              /\ Len(signatures') > streak'.count => signatures'[Len(signatures') - streak'.count] # sig
          <6> HIDE DEF sig
          <6> DEFINE S == Seq(Failures)
                     c == streak.count
                     of == streak.of
                     d == streak'.count
          <6>1. signatures \in Seq(S) /\ c \in Nat /\ sig \in S
            BY <2>1, <4>2
          <6>2. /\ c <= Len(signatures) /\ (Len(signatures) > 0 => c > 0)
                /\ \A i \in Len(signatures) - c + 1 .. Len(signatures) : signatures[i] = of
                /\ Len(signatures) > c => signatures[Len(signatures) - c] # of
            BY <4>2
          <6>3. d = (IF c > 0 /\ of = sig THEN c + 1 ELSE 1) /\ signatures' = Append(signatures, sig)
            BY <4>1, <4>3
          <6> HIDE DEF S, c, of, d
          <6>4. /\ d <= Len(signatures')
                /\ \A k \in Len(signatures') - d + 1 .. Len(signatures') : signatures'[k] = sig
                /\ Len(signatures') > d => signatures'[Len(signatures') - d] # sig
            BY <6>1, <6>2, <6>3, WindowGrows
          <6> QED BY <6>4 DEF d
        <5> QED BY <3>1, <5>1 DEF Window
      <4>6. StallIsReported'
        BY <1>1, <3>1, <3>2, <3>4, <4>1 DEF StallIsReported, NoResult, Blocked, TypeOK
      <4> QED BY <1>1, <4>5, <4>6 DEF StallInv
    <3> QED BY <3>3, <3>4
  <2> QED BY <1>3, <2>1, <2>2, <2>3 DEF PlanEnds, EndWith
<1>4. CASE ~ \E fails \in Verdicts : PlanEnds(fails)
  <2>1. UNCHANGED <<bounds, signatures, streak>>
    BY <1>4 DEF Next, OwnStep, CommandStep, DeciderStep, EvaluateBarrier, Checkpoint, StartCommand,
                CommandRaises, CommandEnds, FirstPlanEnds, PlanRan, CheckBounds, DirectiveRaises, Stop, Repair,
                RepairRaises, TimeExpires, vars, boundsVars, loopVars
  <2>2. \/ result' = result
        \/ /\ result = NoResult
           /\ result' \in {Passed, Stopped, Blocked("POLICY_STOP"), Blocked("BOUNDS_EXHAUSTED")}
                            \cup {Raised(e) : e \in {"SandboxError", "DirectiveError", "BoundsExhaustedError"}}
    BY <1>1, <1>4 DEF Next, OwnStep, CommandStep, DeciderStep, EvaluateBarrier, Checkpoint,
                StartCommand, CommandRaises, CommandEnds, FirstPlanEnds, PlanRan, CheckBounds, DirectiveRaises, Stop, Repair,
                RepairRaises, TimeExpires, vars, boundsVars, loopVars, EndWith, ResultAtEnd
  <2>3. result = Blocked("NO_PROGRESS") <=> result' = Blocked("NO_PROGRESS")
    BY <2>2 DEF NoResult, Passed, Stopped, Blocked, Raised
  <2> QED BY <1>2, <2>1, <2>3
<1> QED BY <1>3, <1>4

LEMMA LoopInvariant == Spec => [](CodingInv /\ StallInv)
<1>1. CodingInv /\ StallInv /\ [Next]_vars => (CodingInv /\ StallInv)'
  BY LoopStep, StallStep
<1> QED BY LoopInit, <1>1, PTL DEF Spec

-----------------------------------------------------------------------------

\* Types: whatever the plan and the budget, the loop and its controller keep them.
THEOREM LoopTypeCorrect == Spec => []TypeOK
<1>1. CodingInv => TypeOK
  BY DEF CodingInv
<1> QED BY LoopInvariant, <1>1, PTL

\* LoopResult speaks of the workspace with its last mutation, for any plan and budget.
THEOREM ReportsAreCurrent == Spec => []ReportIsCurrent
<1>1. CodingInv => ReportIsCurrent
  BY DEF CodingInv
<1> QED BY LoopInvariant, <1>1, PTL

\* CANDIDATE_PASSED stands for a complete execution without a failure, and only it does.
THEOREM VerdictsAreEvidenced == Spec => []VerdictIsEvidenced
<1>1. CodingInv => VerdictIsEvidenced
  BY DEF CodingInv
<1> QED BY LoopInvariant, <1>1, PTL

\* No budget is overdrawn, whatever its numbers.
THEOREM BudgetsAreKept == Spec => []BudgetKept
<1>1. CodingInv => BudgetKept
  BY DEF CodingInv
<1> QED BY LoopInvariant, <1>1, PTL

\* The no-progress window ends the loop exactly at the threshold's repetition.
THEOREM StallsAreReported == Spec => []StallIsReported
<1>1. StallInv => StallIsReported
  BY DEF StallInv
<1> QED BY LoopInvariant, <1>1, PTL

\* The bounds controller as a whole, for every budget, threshold and plan.
THEOREM BoundsAreHeld == Spec => []BoundsHold
BY BudgetsAreKept, StallsAreReported, PTL DEF BoundsHold

=============================================================================

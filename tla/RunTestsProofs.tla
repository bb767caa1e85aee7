--------------------------- MODULE RunTestsProofs ---------------------------
(***************************************************************************)
(* Proofs about RunTests, for any test list, any number of CPUs and any    *)
(* retry settings.                                                         *)
(***************************************************************************)
EXTENDS RunTests, TLAPS

(***************************************************************************)
(* The inductive invariant: between a failure and the moment it is counted *)
(* the test is being retried, with at least one failure and at most one    *)
(* per attempt; before its first failure it has none.                      *)
(***************************************************************************)
PhaseInv ==
  /\ pc = "attempt" => fail_count = 0
  /\ pc = "retry" => fail_count \in 1..iterations
  /\ fail_count > 0 => anyFailed = TRUE
  /\ pc \notin {"retry", "exited"} /\ anyFailed = TRUE => total_failures > 0
  /\ pc \in {"loop", "delay", "attempt", "retry", "next"} => total_tests_run < MaxTestCount

IInv == TypeOK /\ TotalsAddUp /\ RetryBudget /\ PhaseInv /\ ExitCodeTells
-----------------------------------------------------------------------------
LEMMA InitIInv == Init => IInv
<1> SUFFICES ASSUME Init PROVE IInv
  OBVIOUS
<1> USE ListAssumption, RetestAssumption, CpuAssumption DEF Init
<1>1. it \in 0..Tests /\ pc \in {"loop", "over"}
  OBVIOUS
<1>2. EffectiveTotalRetest \in Int /\ EffectiveTotalRetest >= -1
  BY DEF EffectiveTotalRetest
<1>3. TypeOK
  <2>1. lastTestResult \in {Skipped, Passed, Failed} /\ exit_code \in {EXIT_SUCCESS, EXIT_FAILURE}
    OBVIOUS
  <2>2. /\ per_cpu_fails \in [Cpus -> SUBSET (0 .. MaxRetestCount - 1)]
        /\ failedIn \in [Cpus -> SUBSET (0 .. 2 * RetestCount)]
    OBVIOUS
  <2>3. /\ fractures \in 0..MaxFractures /\ iterations \in 0..(2 * RetestCount + 1)
        /\ fail_count \in 0..(2 * RetestCount + 1) /\ total_tests_run \in 0..MaxTestCount
    BY DEF MaxRetestCount
  <2> QED
    BY <1>1, <1>2, <2>1, <2>2, <2>3 DEF TypeOK
<1>4. TotalsAddUp
  BY <1>1 DEF TotalsAddUp
<1>5. RetryBudget
  BY <1>2 DEF RetryBudget
<1>6. PhaseInv
  BY <1>1 DEF PhaseInv
<1>7. ExitCodeTells
  BY <1>1 DEF ExitCodeTells
<1> QED
  BY <1>3, <1>4, <1>5, <1>6, <1>7 DEF IInv

(***************************************************************************)
(* Counting a test: Failed after retries, Passed or Skipped otherwise.     *)
(***************************************************************************)
LEMMA CountStep ==
  ASSUME IInv, NEW state \in {Skipped, Passed, Failed}, CountResult(state),
         IF state = Failed THEN pc = "retry" ELSE pc = "attempt",
         UNCHANGED <<opts, it, timeUp, total_retest_count, testVars, retries, anyFailed,
                     signal, exit_code>>
  PROVE  IInv'
<1> USE DEF IInv, CountResult, testVars, Skipped, Passed, Failed
<1>1. TypeOK'
  BY RetestAssumption DEF TypeOK, PhaseInv
<1>2. TotalsAddUp'
  <2>1. total_tests_run' = total_failures' + total_successes' + total_skips'
    BY DEF TypeOK, TotalsAddUp
  <2>2. CASE state = Failed
    <3>1. anyFailed = TRUE /\ total_failures' > 0
      BY <2>2 DEF TypeOK, PhaseInv
    <3>2. pc' # "over" => ~opts.fatal_errors /\ total_skips' = total_skips
      BY <2>2 DEF TypeOK
    <3> QED
      BY <2>1, <2>2, <3>1, <3>2 DEF TotalsAddUp
  <2>3. CASE state # Failed
    BY <2>1, <2>3 DEF TypeOK, TotalsAddUp, PhaseInv
  <2> QED
    BY <2>2, <2>3
<1>3. RetryBudget'
  BY DEF RetryBudget
<1>4. PhaseInv'
  <2>1. CASE state = Failed
    BY <2>1, RetestAssumption DEF TypeOK, PhaseInv
  <2>2. CASE state # Failed
    BY <2>2, RetestAssumption DEF TypeOK, TotalsAddUp, PhaseInv
  <2> QED
    BY <2>1, <2>2
<1>5. ExitCodeTells'
  BY DEF ExitCodeTells
<1> QED
  BY <1>1, <1>2, <1>3, <1>4, <1>5

(***************************************************************************)
(* Recording a failure of attempt number a.                                *)
(***************************************************************************)
LEMMA MarkStep ==
  ASSUME TypeOK, NEW a \in 0..(2 * RetestCount), NEW F \in SUBSET Cpus,
         mark_up_per_cpu_fail(a, F)
  PROVE  /\ fail_count' = fail_count + 1 /\ anyFailed' = TRUE
         /\ per_cpu_fails' \in [Cpus -> SUBSET (0 .. MaxRetestCount - 1)]
         /\ failedIn' \in [Cpus -> SUBSET (0 .. 2 * RetestCount)]
<1>1. \A c \in Cpus : ShiftedBit(c) \in 0 .. MaxRetestCount - 1
  BY CpuAssumption DEF Cpus, MaxRetestCount, ShiftedBit
<1> QED
  BY <1>1 DEF mark_up_per_cpu_fail, TypeOK

(***************************************************************************)
(* The program ends because of an error that is not the test's.            *)
(***************************************************************************)
LEMMA InvalidStep ==
  ASSUME IInv, ExitInvalid, pc \in {"attempt", "retry"},
         UNCHANGED <<opts, it, timeUp, signal>>,
         TypeOK', RetryBudget'
  PROVE  IInv'
<1> USE DEF IInv, ExitInvalid, totals, testVars
<1>1. TotalsAddUp'
  BY DEF TotalsAddUp
<1>2. PhaseInv'
  BY DEF PhaseInv
<1>3. ExitCodeTells'
  BY DEF ExitCodeTells, EXIT_INVALID, EXIT_SUCCESS, EXIT_FAILURE
<1> QED
  BY <1>1, <1>2, <1>3
-----------------------------------------------------------------------------
LEMMA StepIInv == IInv /\ [Next]_vars => IInv'
<1> SUFFICES ASSUME IInv, [Next]_vars PROVE IInv'
  OBVIOUS
<1> USE DEF totals, testVars
<1>1. CASE Loop \/ DelayOver
  <2> USE <1>1 DEF Loop, DelayOver, BeginTest, IInv
  <2>1. TypeOK'
    BY RetestAssumption DEF TypeOK
  <2>2. TotalsAddUp'
    BY DEF TotalsAddUp, PhaseInv, TypeOK
  <2>3. RetryBudget' /\ PhaseInv' /\ ExitCodeTells'
    BY DEF RetryBudget, PhaseInv, ExitCodeTells
  <2> QED
    BY <2>1, <2>2, <2>3
<1>2. CASE Attempt
  <2>1. PICK r \in TestResult \ {Interrupted}, F \in SUBSET Cpus, goOn \in BOOLEAN :
          /\ goOn => fractures < MaxFractures
          /\ \/ r \in Fatal /\ ~opts.ignore_os_errors /\ ExitInvalid
             \/ FirstRun(OnceState(r), F, goOn) /\ UNCHANGED exit_code
    BY <1>2 DEF Attempt
  <2>2. /\ pc = "attempt"
        /\ UNCHANGED <<opts, it, timeUp, total_retest_count, retries, signal>>
    BY <1>2 DEF Attempt
  <2>3. CASE ExitInvalid
    <3>1. TypeOK' /\ RetryBudget'
      BY <2>2, <2>3 DEF IInv, ExitInvalid, TypeOK, RetryBudget
    <3> QED
      BY <2>2, <2>3, <3>1, InvalidStep
  <2>4. CASE FirstRun(OnceState(r), F, goOn) /\ UNCHANGED exit_code
    <3> DEFINE state == OnceState(r)
    <3>1. CASE state \in {Skipped, Passed} /\ CountResult(state) /\ UNCHANGED <<testVars, anyFailed>>
      BY <2>2, <2>4, <3>1, CountStep DEF Skipped, Passed, Failed
    <3>2. CASE /\ state = Passed /\ goOn /\ fractures' = fractures + 1
               /\ UNCHANGED <<pc, lastTestResult, totals, iterations, fail_count,
                              per_cpu_fails, failedIn, anyFailed>>
      <4> USE <2>1, <2>2, <2>4, <3>2 DEF IInv
      <4>1. TypeOK'
        BY RetestAssumption DEF TypeOK
      <4>2. TotalsAddUp' /\ RetryBudget' /\ PhaseInv' /\ ExitCodeTells'
        BY DEF TotalsAddUp, RetryBudget, PhaseInv, ExitCodeTells
      <4> QED
        BY <4>1, <4>2
    <3>3. CASE /\ mark_up_per_cpu_fail(0, F) /\ pc' = "retry" /\ iterations' = 1
               /\ UNCHANGED <<lastTestResult, totals, fractures>>
      <4> USE <2>1, <2>2, <2>4, <3>3 DEF IInv
      <4>1. /\ fail_count' = 1 /\ anyFailed' = TRUE
            /\ per_cpu_fails' \in [Cpus -> SUBSET (0 .. MaxRetestCount - 1)]
            /\ failedIn' \in [Cpus -> SUBSET (0 .. 2 * RetestCount)]
        <5>1. 0 \in 0..(2 * RetestCount)
          BY RetestAssumption DEF MaxRetestCount
        <5>2. fail_count = 0
          BY DEF PhaseInv
        <5>3. TypeOK /\ F \in SUBSET Cpus /\ mark_up_per_cpu_fail(0, F)
          OBVIOUS
        <5>4. \A a \in 0..(2 * RetestCount) : mark_up_per_cpu_fail(a, F) =>
                /\ fail_count' = fail_count + 1 /\ anyFailed' = TRUE
                /\ per_cpu_fails' \in [Cpus -> SUBSET (0 .. MaxRetestCount - 1)]
                /\ failedIn' \in [Cpus -> SUBSET (0 .. 2 * RetestCount)]
          BY ONLY <5>3, MarkStep
        <5> QED
          BY ONLY <5>1, <5>2, <5>3, <5>4
      <4>2. TypeOK'
        BY <4>1, RetestAssumption DEF TypeOK
      <4>3. TotalsAddUp' /\ RetryBudget' /\ PhaseInv' /\ ExitCodeTells'
        BY <4>1 DEF TotalsAddUp, RetryBudget, PhaseInv, ExitCodeTells
      <4> QED
        BY <4>2, <4>3
    <3> QED
      BY <2>4, <3>1, <3>2, <3>3 DEF FirstRun
  <2> QED
    BY <2>1, <2>3, <2>4
<1>3. CASE Retry
  <2>1. PICK r \in TestResult \ {Interrupted}, F \in SUBSET Cpus :
          \/ ExitInvalid
          \/ /\ IF OnceState(r) > Passed THEN mark_up_per_cpu_fail(iterations, F)
                ELSE UNCHANGED <<fail_count, per_cpu_fails, failedIn, anyFailed>>
             /\ iterations' = iterations + 1
             /\ UNCHANGED <<pc, exit_code, lastTestResult, totals, fractures>>
    BY <1>3 DEF Retry
  <2>2. /\ pc = "retry" /\ should_retry_test /\ retries' = retries + 1
        /\ total_retest_count' = IF total_retest_count > 0 THEN total_retest_count - 1
                                                          ELSE total_retest_count
        /\ UNCHANGED <<opts, it, timeUp, signal>>
    BY <1>3 DEF Retry
  <2>3. TypeOK /\ PhaseInv
    BY DEF IInv
  <2>4. iterations \in 1..(2 * RetestCount) /\ fail_count \in 1..iterations
    BY <2>2, <2>3, RetestAssumption DEF TypeOK, PhaseInv, should_retry_test, MaxRetestCount
  <2>5. RetryBudget'
    <3>1. EffectiveTotalRetest \in Int
      BY RetestAssumption DEF EffectiveTotalRetest, MaxRetestCount
    <3> QED
      BY <2>2, <2>3, <3>1 DEF IInv, RetryBudget, TypeOK, should_retry_test, EffectiveTotalRetest
  <2>6. /\ total_retest_count' \in Int /\ total_retest_count' >= -1 /\ retries' \in Nat
    BY <2>2, <2>3 DEF TypeOK
  <2>7. CASE ExitInvalid
    <3>1. TypeOK'
      BY <2>2, <2>3, <2>6, <2>7 DEF ExitInvalid, TypeOK
    <3> QED
      BY <2>2, <2>5, <2>7, <3>1, InvalidStep
  <2>8. CASE /\ fail_count' = fail_count + 1 /\ anyFailed' = TRUE
             /\ per_cpu_fails' \in [Cpus -> SUBSET (0 .. MaxRetestCount - 1)]
             /\ failedIn' \in [Cpus -> SUBSET (0 .. 2 * RetestCount)]
             /\ iterations' = iterations + 1
             /\ UNCHANGED <<pc, exit_code, lastTestResult, totals, fractures>>
    <3> USE <2>2, <2>4, <2>6, <2>8 DEF IInv
    <3>1. TypeOK'
      BY RetestAssumption DEF TypeOK, MaxRetestCount
    <3>2. TotalsAddUp' /\ PhaseInv' /\ ExitCodeTells'
      BY DEF TotalsAddUp, PhaseInv, ExitCodeTells, TypeOK
    <3> QED
      BY <2>5, <3>1, <3>2
  <2>9. CASE /\ UNCHANGED <<fail_count, per_cpu_fails, failedIn, anyFailed>>
             /\ iterations' = iterations + 1
             /\ UNCHANGED <<pc, exit_code, lastTestResult, totals, fractures>>
    <3> USE <2>2, <2>4, <2>6, <2>9 DEF IInv
    <3>1. TypeOK'
      BY RetestAssumption DEF TypeOK, MaxRetestCount
    <3>2. TotalsAddUp' /\ PhaseInv' /\ ExitCodeTells'
      BY DEF TotalsAddUp, PhaseInv, ExitCodeTells, TypeOK
    <3> QED
      BY <2>5, <3>1, <3>2
  <2>10. mark_up_per_cpu_fail(iterations, F) =>
           /\ fail_count' = fail_count + 1 /\ anyFailed' = TRUE
           /\ per_cpu_fails' \in [Cpus -> SUBSET (0 .. MaxRetestCount - 1)]
           /\ failedIn' \in [Cpus -> SUBSET (0 .. 2 * RetestCount)]
    <3>1. \A c \in Cpus : ShiftedBit(c) \in 0 .. MaxRetestCount - 1
      BY CpuAssumption DEF Cpus, MaxRetestCount, ShiftedBit
    <3> QED
      BY <2>3, <2>4, <3>1 DEF mark_up_per_cpu_fail, TypeOK
  <2> QED
    BY <2>1, <2>7, <2>8, <2>9, <2>10
<1>4. CASE RetriesDone
  BY <1>4, CountStep DEF RetriesDone, Skipped, Passed, Failed
<1>5. CASE get_next_test
  <2> USE <1>5 DEF get_next_test, IInv
  <2>1. it' \in 0..Tests /\ pc' \in {"loop", "over"}
    BY ListAssumption DEF TypeOK
  <2>2. TypeOK'
    BY <2>1 DEF TypeOK
  <2>3. TotalsAddUp' /\ RetryBudget' /\ PhaseInv' /\ ExitCodeTells'
    BY <2>1 DEF TotalsAddUp, RetryBudget, PhaseInv, ExitCodeTells
  <2> QED
    BY <2>2, <2>3
<1>6. CASE Finish
  <2> USE <1>6 DEF Finish, IInv
  <2>1. TypeOK'
    BY DEF TypeOK
  <2>2. TotalsAddUp' /\ RetryBudget' /\ PhaseInv'
    BY DEF TotalsAddUp, RetryBudget, PhaseInv
  <2>3. anyFailed <=> total_failures > 0
    BY DEF TotalsAddUp, PhaseInv, TypeOK
  <2>4. ExitCodeTells'
    BY <2>3 DEF ExitCodeTells, TypeOK, EXIT_FAILURE, EXIT_SUCCESS
  <2> QED
    BY <2>1, <2>2, <2>4
<1>7. CASE TimePasses
  <2> USE <1>7 DEF TimePasses, IInv
  <2>1. TypeOK'
    BY DEF TypeOK
  <2>2. TotalsAddUp' /\ RetryBudget' /\ PhaseInv' /\ ExitCodeTells'
    BY DEF TotalsAddUp, RetryBudget, PhaseInv, ExitCodeTells
  <2> QED
    BY <2>1, <2>2
<1>8. CASE \E s \in Signals : SignalArrives(s)
  <2>1. PICK s \in Signals : SignalArrives(s)
    BY <1>8
  <2> USE <2>1 DEF SignalArrives, IInv
  <2>2. /\ pc' \in {pc, "over", "exited"}
        /\ exit_code' \in {exit_code, EXIT_INTERRUPTED + s}
    OBVIOUS
  <2>3. TypeOK'
    BY <2>2 DEF TypeOK
  <2>4. TotalsAddUp' /\ RetryBudget' /\ PhaseInv'
    BY DEF TotalsAddUp, RetryBudget, PhaseInv
  <2>5. EXIT_INTERRUPTED + s \notin {EXIT_SUCCESS, EXIT_FAILURE}
    BY SignalAssumption DEF EXIT_INTERRUPTED, EXIT_SUCCESS, EXIT_FAILURE
  <2>6. ExitCodeTells'
    BY <2>5 DEF ExitCodeTells
  <2> QED
    BY <2>3, <2>4, <2>6
<1>9. CASE UNCHANGED vars
  BY <1>9 DEF vars, IInv, TypeOK, TotalsAddUp, RetryBudget, PhaseInv, ExitCodeTells
<1> QED
  BY <1>1, <1>2, <1>3, <1>4, <1>5, <1>6, <1>7, <1>8, <1>9 DEF Next, Stopped

LEMMA Inductive == Spec => []IInv
  BY InitIInv, StepIInv, PTL DEF Spec
-----------------------------------------------------------------------------
(***************************************************************************)
(* main() and run_one_test() keep their counters in range: no more tests   *)
(* than --max-test-count, no more attempts than the retry rule allows.     *)
(***************************************************************************)
THEOREM TypeCorrect == Spec => []TypeOK
<1>1. IInv => TypeOK
  BY DEF IInv
<1> QED
  BY <1>1, Inductive, PTL

(***************************************************************************)
(* The exit code of main() is EXIT_FAILURE exactly if an attempt failed or *)
(* a test was skipped under --fatal-skips.                                 *)
(***************************************************************************)
THEOREM ExitCodeCorrect == Spec => []ExitCodeTells
<1>1. IInv => ExitCodeTells
  BY DEF IInv
<1> QED
  BY <1>1, Inductive, PTL

(***************************************************************************)
(* The retries of all tests together stay within total_retest_count.       *)
(***************************************************************************)
THEOREM BudgetKept == Spec => []RetryBudget
<1>1. IInv => RetryBudget
  BY DEF IInv
<1> QED
  BY <1>1, Inductive, PTL

(***************************************************************************)
(* Every test that main() ran is counted exactly once, and the loop stops  *)
(* at what the options call fatal.                                         *)
(***************************************************************************)
THEOREM TotalsCorrect == Spec => []TotalsAddUp
<1>1. IInv => TotalsAddUp
  BY DEF IInv
<1> QED
  BY <1>1, Inductive, PTL

(***************************************************************************)
(* should_retry_test() gives a failing test all its retries unless the     *)
(* budget is used up, and the failure count is one of those attempts.      *)
(***************************************************************************)
THEOREM RetriesAreThorough == Spec => RetriesThorough
<1> DEFINE A ==
      pc = "retry" /\ pc' \in {"next", "over"} =>
        /\ fail_count \in 1..iterations
        /\ iterations - 1 <= 2 * RetestCount
        /\ total_retest_count # 0 =>
             iterations - 1 >= (IF fail_count = 1 THEN 2 * RetestCount ELSE RetestCount)
<1>1. IInv /\ [Next]_vars => [A]_vars
  <2> SUFFICES ASSUME IInv, Next, pc = "retry", pc' \in {"next", "over"} PROVE A
    OBVIOUS
  <2>1. RetriesDone
    BY DEF Next, Loop, DelayOver, Attempt, Retry, ExitInvalid, get_next_test, Finish,
           TimePasses, SignalArrives, Stopped
  <2> QED
    BY <2>1, RetestAssumption
       DEF RetriesDone, should_retry_test, IInv, PhaseInv, TypeOK, MaxRetestCount
<1> QED
  BY <1>1, Inductive, PTL DEF Spec, RetriesThorough
=============================================================================

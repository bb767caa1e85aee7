------------------------------ MODULE RunTests ------------------------------
(***************************************************************************)
(* The main loop of the tool and run_one_test() (framework/sandstone.cpp): *)
(* picking tests, waiting between them, running a test in fractures,       *)
(* retrying it after a failure, counting results and choosing the exit     *)
(* code.  One run of all the children of a test (run_one_test_once()) is   *)
(* one step that may have any outcome.                                     *)
(***************************************************************************)
EXTENDS TestResults, FiniteSets

CONSTANTS
  Tests,           \* length of the test list
  Hidden,          \* tests of it below the requested quality level
  NumCpus,         \* logical processors
  RetestCount,     \* --retest-on-failure
  TotalRetest,     \* --total-retest-on-failure, -2 if not given
  MaxTestCount,    \* --max-test-count
  Signals,         \* termination signals that may arrive
  MaxFractures     \* bound: fractures of one test

MaxRetestCount == 128
EXIT_SUCCESS == 0
EXIT_FAILURE == 1
EXIT_INVALID == 2
EXIT_INTERRUPTED == 128

ASSUME ListAssumption == Tests \in Nat \ {0} /\ Hidden \subseteq 1..Tests
ASSUME CpuAssumption == NumCpus \in Nat \ {0}
ASSUME RetestAssumption ==
  /\ RetestCount \in 0..MaxRetestCount /\ TotalRetest \in Int
  /\ MaxTestCount \in Nat \ {0} /\ MaxFractures \in Nat
ASSUME SignalAssumption == Signals \subseteq 1..64

Cpus == 0 .. NumCpus - 1

\* command-line options that change the flow
Options == [fatal_errors : BOOLEAN, fatal_skips : BOOLEAN,
            ignore_os_errors : BOOLEAN, use_strict_runtime : BOOLEAN]

VARIABLES
  opts,               \* the options of this run
  pc,
  it,                 \* index of the current test
  timeUp,             \* sApp->endtime has passed
  lastTestResult,
  total_failures, total_successes, total_skips, total_tests_run,
  total_retest_count,
  \* locals of run_one_test()
  fractures,          \* sApp->current_iteration_count of the normal run
  iterations,         \* number of the next retry
  fail_count,
  per_cpu_fails,      \* cpu -> the bits that are set
  \* history
  failedIn,           \* cpu -> attempts of this test in which it failed
  retries,            \* retries of all tests
  anyFailed,          \* some attempt of some test failed
  signal,             \* the termination signal that arrived, if any
  exit_code

totals == <<total_failures, total_successes, total_skips, total_tests_run>>
testVars == <<fractures, iterations, fail_count, per_cpu_fails, failedIn>>
vars == <<opts, pc, it, timeUp, lastTestResult, totals, total_retest_count, testVars,
          retries, anyFailed, signal, exit_code>>

\* the tests from index i on that are run
Runnable(i) == {t \in i..Tests : t \notin Hidden}
FirstRunnable(i, t) == t \in Runnable(i) /\ \A u \in Runnable(i) : t <= u
-----------------------------------------------------------------------------
\* main(): total_retest_count by default
EffectiveTotalRetest ==
  IF TotalRetest < -1 \/ RetestCount = 0 THEN 10 * RetestCount ELSE TotalRetest

Init ==
  /\ opts \in Options
  /\ timeUp \in BOOLEAN
  /\ lastTestResult = Skipped
  /\ total_failures = 0 /\ total_successes = 0 /\ total_skips = 0 /\ total_tests_run = 0
  /\ total_retest_count = EffectiveTotalRetest
  /\ fractures = 0 /\ iterations = 0 /\ fail_count = 0
  /\ per_cpu_fails = [c \in Cpus |-> {}]
  /\ failedIn = [c \in Cpus |-> {}]
  /\ retries = 0 /\ anyFailed = FALSE
  /\ signal = 0
  /\ exit_code = EXIT_SUCCESS
  \* get_first_test()
  /\ it \in 0..Tests
  /\ IF Runnable(1) = {} THEN it = 0 /\ pc = "over"
                         ELSE FirstRunnable(1, it) /\ pc = "loop"

\* the loop body waits, except at the start and after a skipped test; then
\* run_one_test() clears what it keeps about a test
BeginTest ==
  /\ pc' = "attempt"
  /\ fractures' = 0 /\ iterations' = 0 /\ fail_count' = 0
  /\ per_cpu_fails' = [c \in Cpus |-> {}]
  /\ failedIn' = [c \in Cpus |-> {}]

Loop ==
  /\ pc = "loop"
  /\ IF lastTestResult # Skipped
     THEN pc' = "delay" /\ UNCHANGED testVars
     ELSE BeginTest
  /\ UNCHANGED <<opts, it, timeUp, lastTestResult, totals, total_retest_count, retries,
                 anyFailed, signal, exit_code>>

\* wait_delay_between_tests() slept through
DelayOver ==
  /\ pc = "delay"
  /\ BeginTest
  /\ UNCHANGED <<opts, it, timeUp, lastTestResult, totals, total_retest_count, retries,
                 anyFailed, signal, exit_code>>

(***************************************************************************)
(* The end of the loop body in main().                                     *)
(***************************************************************************)
CountResult(state) ==
  /\ lastTestResult' = state
  /\ total_tests_run' = total_tests_run + 1
  /\ total_failures'  = total_failures  + (IF state = Failed  THEN 1 ELSE 0)
  /\ total_successes' = total_successes + (IF state = Passed  THEN 1 ELSE 0)
  /\ total_skips'     = total_skips     + (IF state = Skipped THEN 1 ELSE 0)
  /\ pc' = IF \/ state = Failed /\ opts.fatal_errors
              \/ state = Skipped /\ opts.fatal_skips
              \/ total_tests_run' >= MaxTestCount
           THEN "over" ELSE "next"

(***************************************************************************)
(* run_one_test_once() got the result r, with the CPUs F marked as failed  *)
(* in shared memory; nothing is marked in a test that passed or skipped.   *)
(***************************************************************************)
Outcome(r, F) == r \in {Passed, Skipped} => F = {}

OnceState(r) == IF r \in Fatal THEN Skipped ELSE r

\* _exit(cleanup_global(EXIT_INVALID))
ExitInvalid ==
  /\ pc' = "exited" /\ exit_code' = EXIT_INVALID
  /\ UNCHANGED <<lastTestResult, totals, testVars, anyFailed>>

\* U(1) << i in a __uint128_t, whose bits are as many as MaxRetestCount: the
\* shift instructions of the compiled code take the count modulo the width
ShiftedBit(i) == i % MaxRetestCount

mark_up_per_cpu_fail(attempt, F) ==
  /\ fail_count' = fail_count + 1
  /\ per_cpu_fails' = IF attempt >= MaxRetestCount THEN per_cpu_fails
                      ELSE [c \in Cpus |-> IF c \in F THEN per_cpu_fails[c] \cup {ShiftedBit(c)}
                                                      ELSE per_cpu_fails[c]]
  /\ failedIn' = [c \in Cpus |-> IF c \in F THEN failedIn[c] \cup {attempt} ELSE failedIn[c]]
  /\ anyFailed' = TRUE

(***************************************************************************)
(* An iteration of the "possibly fractured normal run".  goOn says that    *)
(* the test fractures and has not used up its time.                        *)
(***************************************************************************)
FirstRun(state, F, goOn) ==
  \/ /\ state = Skipped \/ (state = Passed /\ ~goOn)
     /\ CountResult(state)
     /\ UNCHANGED <<testVars, anyFailed>>
  \/ /\ state = Passed /\ goOn
     /\ fractures' = fractures + 1
     /\ UNCHANGED <<pc, lastTestResult, totals, iterations, fail_count, per_cpu_fails,
                    failedIn, anyFailed>>
  \/ /\ state > Passed
     /\ mark_up_per_cpu_fail(0, F)
     /\ pc' = "retry" /\ iterations' = 1
     /\ UNCHANGED <<lastTestResult, totals, fractures>>

Attempt ==
  /\ pc = "attempt"
  /\ \E r \in TestResult \ {Interrupted}, F \in SUBSET Cpus, goOn \in BOOLEAN :
       /\ Outcome(r, F)
       /\ goOn => fractures < MaxFractures
       /\ \/ r \in Fatal /\ ~opts.ignore_os_errors /\ ExitInvalid
          \/ /\ r \in Fatal => opts.ignore_os_errors
             /\ FirstRun(OnceState(r), F, goOn)
             /\ UNCHANGED exit_code
  /\ UNCHANGED <<opts, it, timeUp, total_retest_count, retries, signal>>

\* mutant: one retry too few
should_retry_less ==
  /\ total_retest_count # 0
  /\ iterations < (IF fail_count = 1 THEN 2 * RetestCount ELSE RetestCount)

should_retry_test ==
  /\ total_retest_count # 0
  /\ iterations <= (IF fail_count = 1 THEN 2 * RetestCount ELSE RetestCount)

Retry ==
  /\ pc = "retry" /\ should_retry_test
  /\ total_retest_count' = IF total_retest_count > 0 THEN total_retest_count - 1
                                                     ELSE total_retest_count
  /\ retries' = retries + 1
  /\ \E r \in TestResult \ {Interrupted}, F \in SUBSET Cpus :
       /\ Outcome(r, F)
       /\ \/ r \in Fatal /\ ~opts.ignore_os_errors /\ ExitInvalid
          \/ /\ r \in Fatal => opts.ignore_os_errors
             /\ IF OnceState(r) > Passed THEN mark_up_per_cpu_fail(iterations, F)
                ELSE UNCHANGED <<fail_count, per_cpu_fails, failedIn, anyFailed>>
             /\ iterations' = iterations + 1
             /\ UNCHANGED <<pc, exit_code, lastTestResult, totals, fractures>>
  /\ UNCHANGED <<opts, it, timeUp, signal>>

\* mutant: the test gets the state of its last retry, which has passed
RetriesDone_last_state ==
  /\ pc = "retry" /\ ~should_retry_test
  /\ CountResult(IF fail_count = 1 THEN Passed ELSE Failed)
  /\ UNCHANGED <<opts, it, timeUp, total_retest_count, testVars, retries, anyFailed, signal,
                 exit_code>>

\* analyze_test_failures(), and the test counts as failed
RetriesDone ==
  /\ pc = "retry" /\ ~should_retry_test
  /\ CountResult(Failed)
  /\ UNCHANGED <<opts, it, timeUp, total_retest_count, testVars, retries, anyFailed, signal,
                 exit_code>>

(***************************************************************************)
(* get_next_test() and should_start_next_iteration(): without strict run   *)
(* time another iteration starts only if an average one still fits, which  *)
(* it never does once the time is up.                                      *)
(***************************************************************************)
get_next_test ==
  /\ pc = "next"
  /\ IF opts.use_strict_runtime /\ timeUp THEN pc' = "over" /\ it' = it
     ELSE IF Runnable(it + 1) # {}
     THEN pc' = "loop" /\ \E t \in 1..Tests : FirstRunnable(it + 1, t) /\ it' = t
     ELSE \/ ~opts.use_strict_runtime /\ pc' = "over" /\ it' = it
          \/ /\ opts.use_strict_runtime \/ ~timeUp
             /\ pc' = "loop" /\ \E t \in 1..Tests : FirstRunnable(1, t) /\ it' = t
  /\ UNCHANGED <<opts, timeUp, lastTestResult, totals, total_retest_count, testVars, retries,
                 anyFailed, signal, exit_code>>

\* after the loop
Finish ==
  /\ pc = "over"
  /\ exit_code' = IF total_failures > 0 \/ (total_skips > 0 /\ opts.fatal_skips)
                  THEN EXIT_FAILURE ELSE EXIT_SUCCESS
  /\ pc' = "exited"
  /\ UNCHANGED <<opts, it, timeUp, lastTestResult, totals, total_retest_count, testVars,
                 retries, anyFailed, signal>>
-----------------------------------------------------------------------------
\* sApp->endtime passes
TimePasses ==
  /\ pc # "exited" /\ ~timeUp
  /\ timeUp' = TRUE
  /\ UNCHANGED <<opts, pc, it, lastTestResult, totals, total_retest_count, testVars, retries,
                 anyFailed, signal, exit_code>>

(***************************************************************************)
(* A termination signal: it makes usleep() between tests fail, it ends the *)
(* program if it interrupts the wait for children, and otherwise the       *)
(* handler only remembers it.                                              *)
(***************************************************************************)
SignalArrives(s) ==
  /\ signal = 0 /\ pc # "exited"
  /\ signal' = s
  /\ \/ pc = "delay" /\ pc' = "over" /\ UNCHANGED exit_code
     \/ /\ pc \in {"attempt", "retry"}
        /\ pc' = "exited" /\ exit_code' = EXIT_INTERRUPTED + s
     \/ pc # "delay" /\ UNCHANGED <<pc, exit_code>>
  /\ UNCHANGED <<opts, it, timeUp, lastTestResult, totals, total_retest_count, testVars,
                 retries, anyFailed>>

Stopped == pc = "exited" /\ UNCHANGED vars

Next == \/ Loop \/ DelayOver \/ Attempt \/ Retry \/ RetriesDone \/ get_next_test \/ Finish
        \/ TimePasses \/ (\E s \in Signals : SignalArrives(s)) \/ Stopped

Spec == Init /\ [][Next]_vars
-----------------------------------------------------------------------------
TypeOK ==
  /\ opts \in Options
  /\ pc \in {"loop", "delay", "attempt", "retry", "next", "over", "exited"}
  /\ it \in 0..Tests /\ timeUp \in BOOLEAN
  /\ lastTestResult \in {Skipped, Passed, Failed}
  /\ total_failures \in Nat /\ total_successes \in Nat /\ total_skips \in Nat
  /\ total_tests_run \in 0..MaxTestCount
  /\ total_retest_count \in Int /\ total_retest_count >= -1
  /\ fractures \in 0..MaxFractures /\ iterations \in 0..(2 * RetestCount + 1)
  /\ fail_count \in 0..(2 * RetestCount + 1)
  /\ per_cpu_fails \in [Cpus -> SUBSET (0 .. MaxRetestCount - 1)]
  /\ failedIn \in [Cpus -> SUBSET (0 .. 2 * RetestCount)]
  /\ retries \in Nat /\ anyFailed \in BOOLEAN
  /\ signal \in Signals \cup {0}
  /\ exit_code \in {EXIT_SUCCESS, EXIT_FAILURE, EXIT_INVALID}
                    \cup {EXIT_INTERRUPTED + s : s \in Signals}

(***************************************************************************)
(* The exit code tells whether anything failed: if the loop in main() came *)
(* to its end, by itself or cut short, the code is EXIT_FAILURE exactly if *)
(* some attempt of some test failed, even one that passed all its retries, *)
(* or a test was skipped under --fatal-skips.                              *)
(***************************************************************************)
ExitCodeTells ==
  pc = "exited" /\ exit_code \in {EXIT_SUCCESS, EXIT_FAILURE} =>
    (exit_code = EXIT_FAILURE <=> (anyFailed \/ (opts.fatal_skips /\ total_skips > 0)))

(***************************************************************************)
(* total_retest_count is a budget for the whole run: what it has lost is   *)
(* what was retried, over all tests, and it is never overdrawn.  Without a *)
(* limit (-1) it is not counted.                                           *)
(***************************************************************************)
RetryBudget ==
  IF EffectiveTotalRetest = -1 THEN total_retest_count = -1
  ELSE /\ total_retest_count + retries = EffectiveTotalRetest
       /\ total_retest_count >= 0

(***************************************************************************)
(* What analyze_test_failures() reports, "failed fail_count out of         *)
(* iterations times", is right and the retries were thorough: unless the   *)
(* budget is used up, a failing test was retried RetestCount times, and    *)
(* twice as often if only its original run failed.                         *)
(***************************************************************************)
RetriesThorough ==
  [][pc = "retry" /\ pc' \in {"next", "over"} =>
       /\ fail_count \in 1..iterations
       /\ iterations - 1 <= 2 * RetestCount
       /\ total_retest_count # 0 =>
            iterations - 1 >= (IF fail_count = 1 THEN 2 * RetestCount ELSE RetestCount)]_vars

(***************************************************************************)
(* Every test that was run is counted once, as failed, passed or skipped,  *)
(* and a test that is being retried has not been counted yet: it will be   *)
(* the next failure.  The loop goes on only while nothing happened that    *)
(* the options call fatal.                                                 *)
(***************************************************************************)
TotalsAddUp ==
  /\ total_tests_run = total_failures + total_successes + total_skips
  /\ anyFailed <=> (total_failures > 0 \/ fail_count > 0)
  /\ pc \notin {"over", "exited"} =>
       /\ opts.fatal_errors => total_failures = 0
       /\ opts.fatal_skips => total_skips = 0

(***************************************************************************)
(* CPUs that failed in the same attempts of a test have the same failure   *)
(* pattern, which is what analyze_test_failures() compares.                *)
(***************************************************************************)
SamePattern ==
  \A c, d \in Cpus : failedIn[c] = failedIn[d] => per_cpu_fails[c] = per_cpu_fails[d]
=============================================================================

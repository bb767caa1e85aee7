------------------------------- MODULE TestTime -------------------------------
(***************************************************************************)
(* How long a test runs: the duration run_one_test() gives it, the pieces  *)
(* it is broken into ("fractures"), the loop in each of its threads that   *)
(* ends at a deadline or after a number of iterations, the retries, the    *)
(* time after which it is killed, and what --test-tests says of the times. *)
(* Time is in units of the model; one unit of ShortDuration is the same.   *)
(***************************************************************************)
EXTENDS Integers, Sequences, FiniteSets, FiniteSetsExt

CONSTANTS
  TimedTests,           \* the tests, with the options they are run with
  TimeThreads,          \* the number of CPUs
  DefaultTestDuration,  \* 1 s
  FirstIteration,       \* 10 ms
  AutoFracture,         \* 40 iterations
  IntMax,               \* INT_MAX, of a loop count and of a ShortDuration
  TimeoutExtra, TimeoutMin,            \* 30 s and 300 s
  MinimumLoop, MaximumLoop, TimeIgnored,  \* of test_the_test_data: 1 ms, 300 ms, 100 ms
  ThrottleTime,         \* threshold_time_remaining
  RunsAtOnce,           \* bound: runs that begin in one unit of time
  LatestTime            \* bound: the clock

Cpus == 0 .. TimeThreads - 1
Never == IntMax + LatestTime
Int32(n) == ((n + IntMax + 1) % (2 * (IntMax + 1))) - (IntMax + 1)

VARIABLES
  test,        \* one of TimedTests
  clock,
  stage,       \* "start", "next", "running", "out"
  duration,    \* current_test_duration
  loops,       \* current_max_loop_count
  auto_fracture, first_iteration_target,
  runtime,
  starttime, endtime,   \* current_test_starttime, current_test_endtime
  thread,      \* "waiting", "running", "ended"
  inner_loop_count,
  began,       \* when the iteration began
  iteration_times,
  failed,      \* a thread failed
  fail_count, iterations,
  verdict, errors,      \* errors: what --test-tests reports of the last run
  threshold_time_remaining,
  runs, here   \* history: runs that are not retries; runs begun at this time

timeVars == <<test, clock, stage, duration, loops, auto_fracture, first_iteration_target, runtime, starttime,
              endtime, thread, inner_loop_count, began, iteration_times, failed, fail_count, iterations,
              verdict, errors, threshold_time_remaining, runs, here>>
plan == <<test, duration, auto_fracture, first_iteration_target>>
threads == <<thread, inner_loop_count, began, iteration_times, failed>>
outcome == <<loops, runtime, fail_count, iterations, verdict, errors>>

All(v) == [t \in Cpus |-> v]

TimeInit ==
  /\ test \in TimedTests
  /\ clock = 0 /\ stage = "start"
  /\ duration = 0 /\ loops = 0 /\ auto_fracture = FALSE /\ first_iteration_target = 0
  /\ runtime = 0 /\ starttime = 0 /\ endtime = 0
  /\ thread = All("ended") /\ inner_loop_count = All(0) /\ began = All(0) /\ iteration_times = All(<<>>)
  /\ failed = FALSE /\ fail_count = 0 /\ iterations = 0
  /\ verdict = "Skipped" /\ errors = {}
  /\ threshold_time_remaining = ThrottleTime
  /\ runs = 0 /\ here = 0

-----------------------------------------------------------------------------
(* The duration and the number of iterations of a fracture.                *)

test_duration ==
  LET asked == IF test.listed # 0 THEN test.listed
               ELSE IF test.test_time # 0 THEN test.test_time ELSE test.desired
      target == IF asked <= 0 THEN DefaultTestDuration ELSE asked
      clipped == IF test.maximum # 0 /\ target > test.maximum THEN test.maximum ELSE target
  IN  IF test.force THEN target
      ELSE IF clipped < test.minimum THEN test.minimum ELSE clipped

\* inject_idle is in quarters of the time
IdleReduced(d) == d - (d * test.idle) \div 4

test_timeout(regular_duration) ==
  IF test.max_time # 0 THEN test.max_time
  ELSE LET timeout == Int32(regular_duration * 5 + TimeoutExtra)
       IN  IF timeout < TimeoutMin THEN TimeoutMin ELSE timeout

\* run_one_test(): what does not change while the test runs, and the first loop count
BeginTimedTest ==
  /\ stage = "start"
  /\ duration' = IdleReduced(test_duration)
  /\ first_iteration_target' = clock + FirstIteration
  /\ LET automatic == /\ test.max_loops = 0 /\ test.desired # -1
                      /\ ~test.test_tests /\ test.fracture = 0
     IN  /\ auto_fracture' = automatic
         /\ loops' = CASE test.max_loops # 0 -> test.max_loops
                       [] automatic -> AutoFracture
                       [] test.max_loops = 0 /\ (test.desired = -1 \/ test.test_tests) -> -1
                       [] OTHER -> test.fracture
  /\ stage' = "next"
  /\ UNCHANGED <<test, clock, runtime, starttime, endtime, threads, fail_count, iterations, verdict, errors,
                 threshold_time_remaining, runs, here>>

\* print_temperature_and_throttle(): the test waits while the CPUs are too hot
Throttle ==
  /\ stage = "next" /\ test.hot
  /\ threshold_time_remaining > 0 /\ clock < LatestTime
  /\ threshold_time_remaining' = threshold_time_remaining - 1
  /\ clock' = clock + 1 /\ here' = 0
  /\ UNCHANGED <<plan, stage, starttime, endtime, threads, outcome, runs>>

\* mutant: the runs before this one are not taken off
Deadline_whole == clock + duration

Deadline == IF iterations = 0 THEN clock + duration - runtime ELSE clock + duration

\* run_one_test() up to the start of the threads, and run_threads()
BeginRun ==
  /\ stage = "next" /\ here < RunsAtOnce
  /\ starttime' = clock /\ endtime' = Deadline
  /\ thread' = [t \in Cpus |-> IF test.sequential /\ t # 0 THEN "waiting" ELSE "running"]
  /\ inner_loop_count' = All(0) /\ began' = All(clock) /\ iteration_times' = All(<<>>)
  /\ failed' = FALSE /\ errors' = {}
  /\ runs' = runs + (IF iterations = 0 THEN 1 ELSE 0) /\ here' = here + 1
  /\ stage' = "running"
  /\ UNCHANGED <<plan, clock, loops, runtime, fail_count, iterations, verdict, threshold_time_remaining>>

-----------------------------------------------------------------------------
(* The loop in a thread.                                                   *)

Busy(t) == clock - began[t]

\* a thread that ends lets the next one begin if they run one by one
Ended(t) ==
  LET next == IF test.sequential THEN {t + 1} \cap Cpus ELSE {}
  IN  /\ thread' = [u \in Cpus |-> IF u = t THEN "ended" ELSE IF u \in next THEN "running" ELSE thread[u]]
      /\ began' = [u \in Cpus |-> IF u \in next THEN clock ELSE began[u]]

\* a child that was exec()ed has no SandstoneApplication::endtime: the field is 0
wallclock_deadline_has_expired ==
  \/ clock > endtime
  \/ test.strict # Never /\ clock > (IF test.exec THEN 0 ELSE test.strict)

\* an unsigned comparison: a negative count is never reached
max_loop_count_exceeded(n) == (loops >= 0 /\ n >= loops) \/ test.desired = -1

\* test_tests_iteration(); --test-tests is not passed on to a child that is exec()ed
Judged == test.test_tests /\ ~test.exec
test_tests_iteration(t) ==
  IF Judged /\ inner_loop_count[t] < 4 THEN [iteration_times EXCEPT ![t] = Append(@, clock)] ELSE iteration_times

\* a test in a while loop asks before its first iteration
Iterated(t) == Busy(t) >= test.least \/ (test.loop = "while" /\ inner_loop_count[t] = 0)

test_time_condition(t) ==
  /\ stage = "running" /\ thread[t] = "running"
  /\ test.loop \in {"do", "while"} /\ Iterated(t)
  /\ iteration_times' = test_tests_iteration(t)
  /\ inner_loop_count' = [inner_loop_count EXCEPT ![t] = @ + 1]
  /\ IF max_loop_count_exceeded(inner_loop_count[t] + 1) \/ wallclock_deadline_has_expired
     THEN Ended(t)
     ELSE began' = [began EXCEPT ![t] = clock] /\ UNCHANGED thread
  /\ UNCHANGED <<plan, clock, stage, starttime, endtime, failed, outcome, threshold_time_remaining, runs, here>>

\* report_fail_common() cancels the thread it is called in: one by one, the CPUs run in that thread,
\* and those whose turn has not come do not run
Cancelled(t) ==
  /\ thread' = [u \in Cpus |-> IF u = t \/ test.sequential THEN "ended" ELSE thread[u]]
  /\ UNCHANGED began

\* run() returns without a call of test_time_condition(), returns a failure, or reports one
LeaveLoop(t, how) ==
  /\ stage = "running" /\ thread[t] = "running"
  /\ IF how = "returns" THEN test.loop = "none" ELSE test.fails
  /\ IF how = "reports" THEN Cancelled(t) ELSE Ended(t)
  /\ failed' = (failed \/ how # "returns")
  /\ UNCHANGED <<plan, clock, stage, starttime, endtime, inner_loop_count, iteration_times, outcome,
                 threshold_time_remaining, runs, here>>

RunOver == stage = "running" /\ \A t \in Cpus : thread[t] = "ended"

\* time passes while the threads run; no iteration takes longer than the test's longest
PassTime ==
  /\ stage = "running" /\ ~RunOver /\ clock < LatestTime
  /\ \A t \in Cpus : thread[t] = "running" => test.loop = "hang" \/ Busy(t) < test.longest
  /\ clock' = clock + 1 /\ here' = 0
  /\ UNCHANGED <<plan, stage, starttime, endtime, threads, outcome, threshold_time_remaining, runs>>

-----------------------------------------------------------------------------
(* The end of a run.                                                       *)

Callers == {t \in Cpus : iteration_times[t] # <<>>}
Samples(t) == Len(iteration_times[t]) - 1
ThreadAverage(t) ==
  IF Samples(t) > 0 THEN (iteration_times[t][Samples(t) + 1] - iteration_times[t][1]) \div Samples(t)
  ELSE iteration_times[t][1] - starttime
LooksLikeWhile(t) ==
  /\ Samples(t) > 0
  /\ iteration_times[t][1] - starttime < MinimumLoop
  /\ 4 * (iteration_times[t][1] - starttime) < ThreadAverage(t)
LoopAverage == MapThenSumSet(ThreadAverage, Callers) \div Cardinality(Callers)

OverallTime(expected, actual) ==
  IF \/ actual > expected - expected \div 4 /\ actual < expected + expected \div 4
     \/ (IF actual > expected THEN actual - expected ELSE expected - actual) < TimeIgnored
  THEN {}
  ELSE IF actual > expected + expected \div 4 THEN {"overtime"} ELSE {"undertime"}

\* the times of a test that failed, or that is not meant to loop, are not judged
test_tests_finish ==
  IF ~Judged \/ failed \/ test.desired < 0 THEN {}
  ELSE OverallTime(endtime - starttime, clock - starttime)
       \cup (IF Callers = {} THEN {"no_condition"}
             ELSE (IF \E t \in Callers : LooksLikeWhile(t) THEN {"do_while"} ELSE {})
                  \cup (IF LoopAverage < MinimumLoop \/ LoopAverage > MaximumLoop THEN {"loop_timing"} ELSE {}))

\* should_retry_test(), for a total_retest_count without a limit
should_retry_test(i, count) == i <= (IF count = 1 THEN 2 * test.retests ELSE test.retests)

Doubled == IF loops > 0 /\ clock < first_iteration_target /\ auto_fracture THEN Int32(2 * loops) ELSE loops

RetryLoops(count) == IF count > 0 /\ count # test.max_loops THEN -1 ELSE count

\* mutant: one piece is enough
KeepsFracturing_once(count, time) == FALSE

KeepsFracturing(count, time) == count > 0 /\ test.max_loops = 0 /\ time < duration

\* what run_one_test() does with the result of run_one_test_once()
FinishRun(result) ==
  /\ runtime' = IF iterations = 0 THEN runtime + clock - starttime ELSE runtime
  /\ IF iterations = 0
     THEN LET count == Doubled
          IN  IF result = "Failed"
              THEN /\ fail_count' = 1 /\ iterations' = 1 /\ loops' = RetryLoops(count)
                   /\ verdict' = "Failed"
                   /\ stage' = IF should_retry_test(1, 1) THEN "next" ELSE "out"
              ELSE /\ loops' = count /\ verdict' = result
                   /\ stage' = IF result = "Passed" /\ KeepsFracturing(count, runtime') THEN "next" ELSE "out"
                   /\ UNCHANGED <<fail_count, iterations>>
     ELSE /\ fail_count' = IF result = "Failed" THEN fail_count + 1 ELSE fail_count
          /\ iterations' = iterations + 1
          /\ verdict' = "Failed"
          /\ stage' = IF should_retry_test(iterations', fail_count') THEN "next" ELSE "out"
          /\ UNCHANGED loops
  /\ UNCHANGED <<plan, clock, starttime, endtime, iteration_times, inner_loop_count, began,
                 threshold_time_remaining, runs, here>>

EndRun(result) ==
  /\ RunOver
  /\ result = "Failed" <=> failed
  /\ result = "Skipped" => test.fails
  /\ errors' = test_tests_finish
  /\ FinishRun(result)
  /\ UNCHANGED <<thread, failed>>

\* wait_for_children() gives up; the child is killed
KillRun ==
  /\ stage = "running" /\ ~RunOver
  /\ clock - starttime > test_timeout(duration)
  /\ thread' = All("killed") /\ failed' = TRUE /\ errors' = {}
  /\ FinishRun("Failed")

TimeNext ==
  \/ BeginTimedTest \/ Throttle \/ BeginRun \/ PassTime \/ KillRun
  \/ \E t \in Cpus : \/ test_time_condition(t)
                    \/ \E how \in {"returns", "fails", "reports"} : LeaveLoop(t, how)
  \/ \E r \in {"Passed", "Failed", "Skipped"} : EndRun(r)

TimeSpec == TimeInit /\ [][TimeNext]_timeVars

-----------------------------------------------------------------------------
(* Properties.                                                             *)

\* no option limits the iterations, and the program as a whole may go on
Unlimited == test.max_loops = 0 /\ test.desired # -1 /\ test.strict = Never
Loops == test.loop \in {"do", "while"}

\* A test that passes was run for its whole duration, in however many pieces: run_one_test() begins
\* another one while the runs so far are short of it, and what a piece of it may take is what is left.
\* (The count of an automatic fracture that overflows while it is doubled ends the test instead.)
EnoughTime ==
  (stage = "out" /\ verdict = "Passed" /\ Unlimited /\ (Loops \/ loops > 0) /\ ~(auto_fracture /\ loops <= 0))
  => runtime >= duration

\* No thread begins another iteration after the deadline of the run or, with a strict run time, after
\* the end of the program's time: so a test ends late by its longest iteration at most, for each thread
\* that waits its turn.
EndsInTime ==
  /\ \A t \in Cpus : (stage = "running" /\ thread[t] = "running" /\ inner_loop_count[t] > 0)
                     => began[t] <= endtime /\ (test.strict # Never => began[t] <= test.strict)
  /\ (stage = "out" /\ verdict = "Passed")
     => runtime <= duration + test.longest * (IF test.sequential THEN TimeThreads ELSE 1)

=============================================================================

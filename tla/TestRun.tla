------------------------------ MODULE TestRun ------------------------------
(***************************************************************************)
(* One run of a test (run_one_test_once() in framework/sandstone.cpp) and  *)
(* the next ones after it: the child processes with their init, threads    *)
(* and cleanup (child_run(), thread_runner()), the per-thread data they    *)
(* leave in shared memory, and the verdict the parent computes from that   *)
(* and from the exit statuses (AbstractLogger in framework/logging.cpp).   *)
(* How the parent waits is ChildrenWait; here a child may end at any       *)
(* moment and the time limit may pass at any moment.                       *)
(***************************************************************************)
EXTENDS TestResults, FiniteSets

CONSTANTS
  NumCpus,
  Plan,          \* slice -> its CpuRange, for tests that are not full-system
  MaxAttempts    \* bound: runs we watch

Cpus == 0 .. NumCpus - 1
MainThreads == DOMAIN Plan

ASSUME CpuAssumption == NumCpus \in Nat \ {0} /\ MaxAttempts \in Nat
ASSUME PlanAssumption ==
  /\ 0 \in MainThreads /\ IsFiniteSet(MainThreads)
  /\ \A s \in MainThreads : /\ Plan[s].starting_cpu \in Cpus
                            /\ Plan[s].cpu_count \in 1 .. (NumCpus - Plan[s].starting_cpu)
  /\ \A c \in Cpus : \E s \in MainThreads :
       c \in Plan[s].starting_cpu .. (Plan[s].starting_cpu + Plan[s].cpu_count - 1)

\* enum ThreadState
ThreadState == {"not_started", "running", "failed", "succeeded", "skipped"}

VARIABLES
  opts,          \* ignore_os_errors; logs: the output format is not no_output
  phase,         \* the parent: "idle", "wait", "done"
  attempt,
  \* the test of this run
  slices,        \* its slices
  cpu_range,     \* slice -> CpuRange
  sequential,    \* test_schedule_sequential
  \* the children
  child,         \* slice -> where its process is in child_run()
  status,        \* slice -> how its process ended
  timedOut,      \* slices still running when the time was up
  \* shared memory: PerThreadData::Main and PerThreadData::Test
  mainFailed,    \* slice -> has_failed()
  thread_state,  \* cpu -> ThreadState
  failed,        \* cpu -> has_failed()
  testResult,
  \* history of this run
  fresh,         \* slices that reached init_per_thread_data()
  reallyFailed,  \* CPUs whose thread failed
  failure        \* something failed

testVars == <<opts, phase, attempt, slices, cpu_range, sequential>>
dataVars == <<mainFailed, thread_state, failed>>
history  == <<fresh, reallyFailed, failure>>
vars == <<testVars, child, status, timedOut, dataVars, testResult, history>>

NoStatus == [code |-> "none", status |-> 0]
Hung     == [code |-> "hung", status |-> 0]

FullSystem == [starting_cpu |-> 0, cpu_count |-> NumCpus]

\* select_main_thread() moves the child's view of the per-thread data
test_thread_data(s, i) == cpu_range[s].starting_cpu + i
Threads(s) == 0 .. cpu_range[s].cpu_count - 1
CpusOf(s) == {test_thread_data(s, i) : i \in Threads(s)}

Alive(s) == s \in slices /\ child[s] # "ended"

Init ==
  /\ opts \in [ignore_os_errors : BOOLEAN, logs : BOOLEAN]
  /\ phase = "idle" /\ attempt = 0
  /\ slices = {} /\ sequential = FALSE
  /\ cpu_range = Plan
  /\ child = [s \in MainThreads |-> "none"]
  /\ status = [s \in MainThreads |-> NoStatus]
  /\ timedOut = {}
  \* the memory file is zero-filled and has_failed() compares with time_point::max()
  /\ mainFailed = [s \in MainThreads |-> TRUE]
  /\ thread_state = [c \in Cpus |-> "not_started"]
  /\ failed = [c \in Cpus |-> TRUE]
  /\ testResult = Skipped
  /\ fresh = {} /\ reallyFailed = {} /\ failure = FALSE
-----------------------------------------------------------------------------
(***************************************************************************)
(* run_one_test_once() starts.  A test that this CPU or this quality level *)
(* does not run has no children, only the result Skipped.                  *)
(***************************************************************************)
NewHistory == /\ timedOut' = {} /\ fresh' = {} /\ reallyFailed' = {}
              /\ failure' = FALSE

SkipTest ==
  /\ phase \in {"idle", "done"} /\ attempt < MaxAttempts
  /\ phase' = "wait" /\ attempt' = attempt + 1
  /\ slices' = {0} /\ sequential' = FALSE
  /\ mainFailed' = [s \in MainThreads |-> FALSE]
  /\ thread_state' = [c \in Cpus |-> "not_started"]
  /\ failed' = [c \in Cpus |-> FALSE]
  /\ child' = [s \in MainThreads |-> "ended"]
  /\ status' = [s \in MainThreads |-> Exited(test_result_to_exit_code(Skipped))]
  /\ NewHistory
  /\ UNCHANGED <<opts, cpu_range, testResult>>

\* slices_for_test() and starting the children
StartChildren ==
  /\ phase \in {"idle", "done"} /\ attempt < MaxAttempts
  /\ phase' = "wait" /\ attempt' = attempt + 1
  /\ \E full, seq \in BOOLEAN :
       /\ seq => full
       /\ sequential' = seq
       /\ slices' = IF full THEN {0} ELSE MainThreads
       /\ cpu_range' = IF full THEN [cpu_range EXCEPT ![0] = FullSystem] ELSE Plan
  /\ child' = [s \in MainThreads |-> IF s \in slices' THEN "prepare" ELSE "none"]
  /\ status' = [s \in MainThreads |-> NoStatus]
  /\ NewHistory
  /\ UNCHANGED <<opts, dataVars, testResult>>
-----------------------------------------------------------------------------
(***************************************************************************)
(* child_run()                                                             *)
(***************************************************************************)
Ends(s, info) == /\ child' = [child EXCEPT ![s] = "ended"]
                 /\ status' = [status EXCEPT ![s] = info]

Returns(s, result) == Ends(s, Exited(test_result_to_exit_code(result)))

\* mutant: the failure of a previous run is not forgotten
init_per_thread_data_partial(s) ==
  /\ Alive(s) /\ child[s] = "prepare"
  /\ child' = [child EXCEPT ![s] = "init"]
  /\ mainFailed' = [mainFailed EXCEPT ![s] = FALSE]
  /\ thread_state' = [c \in Cpus |-> IF c \in CpusOf(s) THEN "not_started" ELSE thread_state[c]]
  /\ fresh' = fresh \cup {s}
  /\ UNCHANGED <<testVars, status, timedOut, failed, testResult, reallyFailed, failure>>

init_per_thread_data(s) ==
  /\ Alive(s) /\ child[s] = "prepare"
  /\ child' = [child EXCEPT ![s] = "init"]
  /\ mainFailed' = [mainFailed EXCEPT ![s] = FALSE]
  /\ thread_state' = [c \in Cpus |-> IF c \in CpusOf(s) THEN "not_started" ELSE thread_state[c]]
  /\ failed' = [c \in Cpus |-> IF c \in CpusOf(s) THEN FALSE ELSE failed[c]]
  /\ fresh' = fresh \cup {s}
  /\ UNCHANGED <<testVars, status, timedOut, testResult, reallyFailed, failure>>

\* execv() failed, or there was no test of that name
PrepareFails(s) ==
  /\ Alive(s) /\ child[s] = "prepare"
  /\ \E code \in {65, 71} : Ends(s, Exited(code))
  /\ UNCHANGED <<testVars, timedOut, dataVars, testResult, history>>

(***************************************************************************)
(* test_init() returns ret; err tells that it logged an error, which marks *)
(* the main thread as failed unless nothing is logged at all.              *)
(***************************************************************************)
TestInit(s) ==
  /\ Alive(s) /\ child[s] = "init"
  /\ \E ret \in {-1, 0, 1}, err \in BOOLEAN :
       /\ err => opts.logs
       /\ \/ /\ ret > 0 \/ err \/ mainFailed[s]
             /\ mainFailed' = [mainFailed EXCEPT ![s] = TRUE]
             /\ failure' = (failure \/ ret > 0 \/ err)
             /\ Returns(s, Failed)
          \/ /\ ret < 0 /\ ~err /\ ~mainFailed[s]
             /\ Returns(s, Skipped)
             /\ UNCHANGED <<mainFailed, failure>>
          \/ /\ ret = 0 /\ ~err /\ ~mainFailed[s]
             /\ child' = [child EXCEPT ![s] = "threads"]
             /\ UNCHANGED <<status, mainFailed, failure>>
  /\ UNCHANGED <<testVars, timedOut, thread_state, failed, testResult, fresh, reallyFailed>>

(***************************************************************************)
(* The threads: all at once, or one after the other in a single thread.    *)
(***************************************************************************)
Finished(c) == thread_state[c] \notin {"not_started", "running"}

ThreadStarts(s, i) ==
  LET c == test_thread_data(s, i) IN
  /\ Alive(s) /\ child[s] = "threads"
  /\ thread_state[c] = "not_started"
  /\ sequential => \A j \in 0 .. i - 1 : Finished(test_thread_data(s, j))
  /\ thread_state' = [thread_state EXCEPT ![c] = "running"]
  /\ UNCHANGED <<testVars, child, status, timedOut, mainFailed, failed, testResult, history>>

(***************************************************************************)
(* The end of thread_runner(): the test returned ret, having logged an     *)
(* error or not, or report_fail() cancelled the thread; in a sequential    *)
(* test that ends the threads of the CPUs after it, too.                   *)
(***************************************************************************)
thread_runner(s, i, ret, err, cancelled) ==
  LET c == test_thread_data(s, i)
      new_state == IF err \/ ret > 0 THEN "failed"
                   ELSE IF ret = 0 THEN "succeeded" ELSE "skipped"
  IN  /\ thread_state' = [thread_state EXCEPT ![c] = new_state]
      /\ failed' = IF new_state = "failed" THEN [failed EXCEPT ![c] = TRUE] ELSE failed
      /\ reallyFailed' = IF new_state = "failed" THEN reallyFailed \cup {c} ELSE reallyFailed
      /\ failure' = (failure \/ new_state = "failed")
      /\ child' = IF cancelled /\ sequential THEN [child EXCEPT ![s] = "joined"] ELSE child

ThreadEnds(s, i) ==
  /\ Alive(s) /\ child[s] = "threads"
  /\ thread_state[test_thread_data(s, i)] = "running"
  /\ \E ret \in {-1, 0, 1}, err, cancelled \in BOOLEAN :
       /\ err => opts.logs
       /\ cancelled => ret = 1
       /\ thread_runner(s, i, ret, err, cancelled)
  /\ UNCHANGED <<testVars, status, timedOut, mainFailed, testResult, fresh>>

(***************************************************************************)
(* A thread crashes: the handler marks it as failed and the process dies.  *)
(* It may already have stored its final state (--ud-on-failure).  With     *)
(* --ignore-mce-errors an MCE makes it skipped and the process exit with   *)
(* -EXIT_SKIP.                                                             *)
(***************************************************************************)
ThreadCrashes(s, i) ==
  LET c == test_thread_data(s, i) IN
  /\ Alive(s) /\ child[s] = "threads"
  /\ thread_state[c] = "running"
  /\ \/ /\ \E info \in {KilledBy(SIGSEGV), DumpedBy(SIGSEGV)} : Ends(s, info)
        /\ thread_state' \in {thread_state, [thread_state EXCEPT ![c] = "failed"]}
        /\ failed' = [failed EXCEPT ![c] = TRUE]
        /\ reallyFailed' = reallyFailed \cup {c}
        /\ failure' = TRUE
     \/ /\ Ends(s, Exited(255))
        /\ thread_state' = [thread_state EXCEPT ![c] = "skipped"]
        /\ UNCHANGED <<failed, reallyFailed, failure>>
  /\ UNCHANGED <<testVars, timedOut, mainFailed, testResult, fresh>>

\* the control thread crashes, in test_init() or in test_cleanup()
ControlCrashes(s) ==
  /\ Alive(s) /\ child[s] \in {"init", "joined"}
  /\ \/ /\ \E info \in {KilledBy(SIGSEGV), DumpedBy(SIGSEGV)} : Ends(s, info)
        /\ mainFailed' = [mainFailed EXCEPT ![s] = TRUE]
        /\ failure' = TRUE
     \/ Ends(s, Exited(255)) /\ UNCHANGED <<mainFailed, failure>>
  /\ UNCHANGED <<testVars, timedOut, thread_state, failed, testResult, fresh, reallyFailed>>

Joins(s) ==
  /\ Alive(s) /\ child[s] = "threads"
  /\ \A c \in CpusOf(s) : Finished(c)
  /\ child' = [child EXCEPT ![s] = "joined"]
  /\ UNCHANGED <<testVars, status, timedOut, dataVars, testResult, history>>

\* test_cleanup(), which a strict run time may skip
TestCleanup(s) ==
  /\ Alive(s) /\ child[s] = "joined"
  /\ \E ret \in {-1, 0, 1}, err \in BOOLEAN :
       /\ err => opts.logs
       /\ mainFailed' = IF err THEN [mainFailed EXCEPT ![s] = TRUE] ELSE mainFailed
       /\ failure' = (failure \/ err \/ ret > 0)
       /\ Returns(s, ret)
  /\ UNCHANGED <<testVars, timedOut, thread_state, failed, testResult, fresh, reallyFailed>>

\* a child dies of something it has not done: out of memory, an operator
DiesOfKill(s) ==
  /\ Alive(s)
  /\ \E info \in {KilledBy(SIGKILL), KilledBy(SIGTERM)} : Ends(s, info)
  /\ UNCHANGED <<testVars, timedOut, dataVars, testResult, history>>
-----------------------------------------------------------------------------
(***************************************************************************)
(* The parent.  terminate_children() blames every child that has not been  *)
(* waited for; the children then die of SIGQUIT or SIGKILL, never, or end  *)
(* as they would have.                                                     *)
(***************************************************************************)
terminate_children ==
  /\ phase = "wait" /\ timedOut = {}
  /\ timedOut' = {s \in slices : Alive(s)}
  /\ timedOut' # {}
  /\ mainFailed' = [s \in MainThreads |-> mainFailed[s] \/ (s \in timedOut' /\ opts.logs)]
  /\ UNCHANGED <<testVars, child, status, thread_state, failed, testResult, history>>

DiesOfTimeout(s) ==
  /\ Alive(s) /\ s \in timedOut
  /\ \E info \in {KilledBy(SIGQUIT), DumpedBy(SIGQUIT), KilledBy(SIGKILL), Hung} : Ends(s, info)
  /\ UNCHANGED <<testVars, timedOut, dataVars, testResult, history>>

ResultOf(s) == IF status[s] = Hung THEN TimedOut ELSE test_result_from_exit_code(status[s])

MostSerious(r) == /\ \E s \in slices : r = ResultOf(s)
                  /\ \A s \in slices : ResultOf(s) <= r

\* mutant: the main threads are not looked at
AbstractLogger_threads_only(most) ==
  IF most \notin {Skipped, Passed} THEN most
  ELSE IF \E c \in Cpus : failed[c] THEN Failed
  ELSE IF most = Passed /\ \A c \in Cpus : thread_state[c] = "skipped" THEN Skipped
  ELSE most

\* mutant: the data of slices that this test does not have is looked at
AbstractLogger_all_slices(most) ==
  IF most \notin {Skipped, Passed} THEN most
  ELSE IF (\E s \in MainThreads : mainFailed[s]) \/ (\E c \in Cpus : failed[c]) THEN Failed
  ELSE IF most = Passed /\ \A c \in Cpus : thread_state[c] = "skipped" THEN Skipped
  ELSE most

\* testResult after the constructor of AbstractLogger; pc = sc means that
\* every thread (none of them failed) was skipped
AbstractLogger(most) ==
  IF most \notin {Skipped, Passed} THEN most
  ELSE IF (\E s \in slices : mainFailed[s]) \/ (\E c \in Cpus : failed[c]) THEN Failed
  ELSE IF most = Passed /\ \A c \in Cpus : thread_state[c] = "skipped" THEN Skipped
  ELSE most

\* "Thread is stuck" marks the threads that are still running
Stuck == {c \in Cpus : opts.logs /\ thread_state[c] = "running"}

PrintResults ==
  /\ phase = "wait"
  /\ \A s \in slices : child[s] = "ended"
  /\ \E most \in TestResult :
       /\ MostSerious(most)
       /\ LET r == AbstractLogger(most) IN
          testResult' = IF r \in Fatal /\ opts.ignore_os_errors THEN Skipped ELSE r
       /\ IF most = TimedOut
          THEN /\ failed' = [c \in Cpus |-> failed[c] \/ c \in Stuck]
               /\ reallyFailed' = reallyFailed \cup Stuck
          ELSE UNCHANGED <<failed, reallyFailed>>
  /\ phase' = "done"
  /\ UNCHANGED <<opts, attempt, slices, cpu_range, sequential, child, status, timedOut,
                 mainFailed, thread_state, fresh, failure>>

\* with a fatal result and no --ignore-os-errors, the program ends
ExitInvalid == phase = "done" /\ testResult \in Fatal /\ UNCHANGED vars

Ended == phase = "done" /\ attempt = MaxAttempts /\ UNCHANGED vars

ChildStep(s) ==
  \/ init_per_thread_data(s) \/ PrepareFails(s) \/ TestInit(s)
  \/ (\E i \in Threads(s) : ThreadStarts(s, i) \/ ThreadEnds(s, i) \/ ThreadCrashes(s, i))
  \/ ControlCrashes(s) \/ Joins(s) \/ TestCleanup(s) \/ DiesOfKill(s) \/ DiesOfTimeout(s)

Next ==
  \/ (testResult \notin Fatal /\ (SkipTest \/ StartChildren))
  \/ (\E s \in MainThreads : ChildStep(s))
  \/ terminate_children \/ PrintResults \/ ExitInvalid \/ Ended

Spec == Init /\ [][Next]_vars
-----------------------------------------------------------------------------
(***************************************************************************)
(* No failure is lost: whatever fails in init, in a thread, in a crash or  *)
(* in cleanup of any slice, in whatever order the slices end, the result   *)
(* is neither Passed nor Skipped, except where --ignore-os-errors hides a  *)
(* more serious result of another slice.                                   *)
(***************************************************************************)
NoFailureLost ==
  phase = "done" /\ failure /\ testResult \in {Passed, Skipped} =>
    opts.ignore_os_errors /\ \E s \in slices : ResultOf(s) \in Fatal

(***************************************************************************)
(* No false alarm: a result of Failed comes from a failure or a time-out   *)
(* of this very run, never from what an earlier run, or a test with more   *)
(* slices, left in shared memory.                                          *)
(***************************************************************************)
NoFalseAlarm ==
  phase = "done" /\ testResult = Failed => failure \/ timedOut # {}

(***************************************************************************)
(* When run_one_test() reads the per-CPU failures of a run that did not    *)
(* pass, they are those of this run, for every slice whose process came as *)
(* far as init_per_thread_data().                                          *)
(***************************************************************************)
FailedCpusFaithful ==
  phase = "done" /\ testResult > Passed =>
    \A s \in slices \cap fresh : \A c \in CpusOf(s) : failed[c] <=> c \in reallyFailed
=============================================================================

# TLA+ models of the OpenDCDiag framework

OpenDCDiag runs tests of the processor.  The program (`framework/`) starts a
process per *slice* of the machine and a thread per CPU in it, watches the
processes, collects what their threads report through shared memory, decides
whether the test passed, retries, and goes on to the next test.  The models are
of that framework: the parts in which processes, threads, signals, time-outs
and crashes meet, the parts that prepare a run, and what a test is given by the
framework.  Most tests are computations on one thread, of which the framework
sees a return value and logged errors; the models choose these freely.  The
Linux build is the reference.

## The system

| Part | Source | Module |
|---|---|---|
| command line | `sandstone_opts.cpp`, `sandstone_opts.hpp`, `main()` | `CommandLine` |
| table of CPUs, `--cpuset`, failure mask | `topology.cpp`, `sandstone.cpp` | `Topology` |
| which tests run, in which order | `sandstone_tests.cpp`, `sandstone_tests.h`, `main()` | `TestList` |
| slices of the machine | `sandstone.cpp` `slice_plan_init()` | `SlicePlan`, `SlicePlanProofs` |
| main loop, fractures, retries, exit code | `sandstone.cpp` `main()`, `run_one_test()`, `get_next_test()` | `RunTests`, `RunTestsProofs` |
| duration, deadlines, `--test-tests` | `sandstone.cpp` `run_one_test()`, `test_loop_condition()` and around | `TestTime` |
| starting the children | `sandstone.cpp` `call_forkfd()`, `spawn_child()` | `ChildStart`, `ChildStartProofs` |
| a descriptor that tells the end of a child | `forkfd/` | `ChildNotice` (promise), `Forkfd` (code) |
| a test in its children and threads; the verdict | `sandstone.cpp` `child_run()`, `thread_runner()`; `logging.cpp` `AbstractLogger` | `TestRun` |
| waiting for the children, time-outs, signals | `sandstone.cpp` `wait_for_children()`; `sysdeps/unix/signals.cpp` | `ChildrenWait`, `ChildrenWaitProofs` |
| results and exit codes | `sandstone.cpp` `test_result_to_exit_code()` and back | `TestResults` |
| log files | `logging.cpp` | `Logging` |
| crash handler, debugger | `sysdeps/unix/child_debug.cpp` | `CrashHandshake`, `GdbSession` |
| moving threads between CPUs | `sandstone_opts.cpp`, classes derived from `DeviceSchedule` | `DeviceSchedule` |
| frequency manager | `frequency_manager.hpp` | `FrequencyManager` |
| random numbers | `random.cpp` | `RandomNumbers` |
| 16-bit floating point | `sandstone_data.cpp`, `sandstone_data.h` | `FloatConversion` |
| tests in virtual machines | `sysdeps/linux/kvm.c` | `KvmTest` |
| tests that read the machine | `tests/ifs`, `tests/mce_check`, `tests/smi_count`, `interrupt_monitor.cpp` | `InFieldScan`, `EventCounts` |
| background service | `sandstone.cpp` `background_scan_init()`, `background_scan_wait()` | `BackgroundScan` |

How they interact: `main()` reads the options (`CommandLine`),
finds the CPUs (`Topology`), makes a list of tests (`TestList`) and two plans of
slices (`SlicePlan`), then calls `run_one_test()` for each test (`RunTests`),
which decides how long and how often it runs (`TestTime`).  A run of a test
(`TestRun`) starts the children (`ChildStart`, over `Forkfd`), waits for them
(`ChildrenWait`), deals with those that crash (`CrashHandshake`, which has gdb
look at them: `GdbSession`) and computes a verdict from their results and the
data of their threads.  What they had to say is printed (`Logging`).  While a
test runs its threads may ask to be moved (`DeviceSchedule`), draw random
numbers, or run under another frequency.  Between tests the program waits, for
hours if it is a service (`BackgroundScan`).

The modules meet in values: `ChildrenWait` shows which result every way for a
child to end gives; `TestRun` takes those results and shows what verdict comes
out; `RunTests` takes any sequence of verdicts and shows what the program
reports.  Each looks at its neighbour through what `TestResults` defines.
`ChildrenWait` and `TestRun` rely on `ChildNotice`; `Forkfd` is shown to
implement it.

## The modules

**TestResults** has the enumeration `TestResult` with its values, those that
end the run of all tests (`Fatal`), and the conversion to and from exit codes, 8
bits wide as the kernel keeps them.

**ChildrenWait** is `wait_for_children()`.  Variables named as in the code are
locals of that function or fields of `ChildrenList`; `proc`, `status`,
`sigpend` and `nature` are the kernel's view of the children.  The parent
polls, handles `EINTR`, reads crash contexts, reaps, and escalates from SIGQUIT
to SIGKILL to giving up.  Children run, exit with any of a set of codes, crash,
are killed by somebody else, ignore signals or cannot be killed.  Signals reach
the parent at any step; a handler is reset when it has run.

**RunTests** is the loop of `main()`.  An attempt at a test is one step with
any outcome.  `opts` holds the options that change the control flow.
`failedIn`, `retries` and `anyFailed` are history.  The failures of a CPU are 128
bits; a shift by a greater number takes that number modulo 128, as x86 does
(`ShiftedBit`; in C++ it is undefined).

**TestTime** has the time that `RunTests` leaves out: the duration from the
test's own wish and four options, the fractures with their doubling limit, the
loop in each thread, retries, idle time, hot CPUs, the time-out, and what
`--test-tests` says (in the state, but no property is about it).  In a sequential
test a failure that is reported ends the one thread and so the run; one that is
returned does not.  Time is a small number.

**TestRun** is one test after another in the shared memory of the program: the
children initialise the data of their threads, the test is initialised, the
threads run, fail, skip or crash, the child returns or dies, the parent marks
the slices that time out and computes the verdict from results and data.

**Logging** has a memory file of records per thread, with the counters and
limits in shared memory; counting and appending are two steps.  The three
formats are the lines they print, to the log and to stdout.  At the end the log
is kept or deleted by the exit code that `main()` makes of the verdicts; a
program that a signal ends is left to `ChildrenWait`.

**ChildNotice** is the abstract specification of `forkfd()`: a descriptor tells
the end of its own child, once, after the child ended.  **Forkfd** implements it
with pidfds and with the SIGCHLD handler, whose lock-free table has a step per
atomic operation; a handler runs in any thread and may interrupt `forkfd()`.
The mapping is `Notice` in `Forkfd`.

**ChildStart** is `call_forkfd()`: its first call tries a child made with a
pidfd, talking to it through two eventfds, and falls back to `fork()`.  Where the
kernel makes no pidfds `forkfd()` itself falls back, unknown to its caller.  A
signal may interrupt the read in the child, which is not repeated and leaves any
value.

**CrashHandshake** has one program counter per thread in
`child_crash_handler()` and one for the parent in `debug_crashed_child()`, the
socket between them and the state the child waits on.  A thread may also get a
signal that is ignored, which ends its process (`IgnoredCrash`), and a context
may not be sent.  **GdbSession** is the
step `Inspected` of it in detail: two pipes, a buffer, one deadline, and a gdb
(external) that writes a symbol at a time, knows no Python, or dies.

**Topology** goes from the two detectors over sorting and building to
`--cpuset`, `--threads`, the move of shared memory and the child's slice, and to
what is printed about failures.  `WordBits` is the width of the word the analysis
puts a pattern in, 64 in the code.  A machine is a table of APIC IDs with the
widths of their parts, the files of sysfs and its node lists.

**TestList** has the test set as `main()` makes it and the passes over it.
**CommandLine** has one step per option, with the width of numbers kept and
scaled.

**SlicePlan** goes through packages, NUMA nodes and slices as the nested loops
of `slice_plan_init()` do, over any table of CPUs; `MCSlicePlan` enumerates the
tables.

**DeviceSchedule** has the three schedules.  A vector has a size and storage,
since the code reads and erases past its end; what that does is a choice
between the outcomes a build can show (the element is simply lost, or the
process dies).

**FrequencyManager** and **InFieldScan** have the files of the kernel they read
and write, as the code relies on them.  **KvmTest** lets every call fail and
keeps, as history, what was made and not released.  **EventCounts** has the
counts of the machine, and the copies that the parent and a child hold.

**RandomNumbers** has the engines of the parent, the child and its threads, the
text of a seed, and later runs that are given a seed from the log; words have 8
bits.  **FloatConversion** has the four emulated conversions for all bit patterns
of short formats.

**BackgroundScan** has the timestamps kept in a file and a clock.  Delays are
small numbers that keep the order of the real ones (5 minutes < 2^32
microseconds < 12 hours < 24 hours).

`MC...` modules give constants and initial states for TLC where a `.cfg` alone
cannot.  Five of them check several components in one run: the components share
no state, the variable `part` says whose behaviour it is, and the variables of
the others stay in one initial state, so that the states add up and do not
multiply.  Definitions marked `mutant` are variants with a plausible slip, used
to see that a property notices it.

## The runs

| Run | Component | What it asks | Bounds |
|---|---|---|---|
| `wait_safety` | `ChildrenWait` | Are results those the children deserve, and does no signal reach one that was reaped, whatever ends when? | two children, exit codes 0 and 255, SIGINT and SIGTERM, two signals |
| `wait_liveness` | `ChildrenWait` | Does the wait end, and does a caught SIGINT end the run? | two children, one signal |
| `main_loop` | `RunTests` | Does the exit code tell of every failure, and is a failing test retried as promised? | two tests, three runs, all options |
| | `Topology` | Does the topology stay exact through every change, and is what is said of failures true? | five machines of up to five CPUs, every set of enabled CPUs, eleven cpusets, two attempts, words of four bits |
| | `TestList` | Does each test run as often as the command line asks for it? | five tests, two passes |
| | `CommandLine` | Are numbers read as written, brought to a limit or refused? | every pair of options, numbers around every limit, four builds |
| | `EventCounts` | Are the CPUs blamed that had events since the counts were taken? | four machines, three events, CPUs that come and go |
| `test_verdict` | `TestRun` | Is a failure ever lost, invented or blamed on another CPU? | two runs in two slices or full system |
| | `Logging` | Are messages printed once, with their test, in well-formed YAML, and errors however quiet the run? | two tests, two slices, six configurations |
| `crash_handshake` | `CrashHandshake` | Does the debugger find what crashed, and is everything released? | two processes with two threads, three crashes |
| | `GdbSession` | Is what is logged what gdb said, when do both wait for each other, and does the session end? | a buffer of five symbols, frames of up to four |
| `slice_plan` | `SlicePlan` | Are the plans partitions that respect the limit? | every machine of five CPUs |
| | `Forkfd` | Does it implement `ChildNotice`, without leaks, and is every end reported? | two children, two threads, a stranger's child |
| `schedules` | `DeviceSchedule` | Does a thread at the barrier get on whoever leaves when, and does the queue use CPUs evenly? | three threads, three calls each |
| | `InFieldScan` | Is the image right, and used again after a failure? | five machines, three images, three CPUs |
| | `FrequencyManager` | Is everything put back? | two CPUs, one or two sockets, 48 machines |
| | `ChildStart` | Do parent and child agree who runs the test? | two children, every kind of kernel, a child may be killed or interrupted |
| | `FloatConversion` | Is what is stored and read back truncated, or rounded to nearest? | all 2048 floats with 7 digits and 4 bits of exponent |
| `background_scan` | `BackgroundScan` | Are tests spread as intended, with restarts anywhere? | three timestamps, three batches of time |
| | `KvmTest` | Is everything released whatever fails? | seven iterations, two retries, every set of handlers |
| | `TestTime` | Does a test run for its time, and no longer? | two threads, about 200 combinations of options |
| | `RandomNumbers` | Can a failure be repeated from the log? | two tests, one later run, three places in the topology |
| `wait_signal_lost` (violated) | `ChildrenWait` | Does every termination signal end the run? | one child, one signal |
| `failure_pattern` (violated) | `RunTests` | Do CPUs that fail together have the same pattern? | as `main_loop` |
| `barrier_deadlock` (violated) | `DeviceSchedule` | Do partners get on if a thread ends without rescheduling? | as `schedules` |
| `background_batch` (violated) | `BackgroundScan` | Are batches always 24 hours apart? | as `background_scan` |

Why the bounds are enough: two children are what it takes for one to be reaped
while the other is signalled, and a second signal for the handler that was
reset.  Two runs, tests or passes show what is left over from the first.  Five
CPUs allow packages of different sizes, nodes that do not divide evenly, and
modules at their borders (six divide too well).  Three threads give a group with
a partner and one without.  Three timestamps have a first, a middle and a last.
Numbers are scaled so that zero, both signs, each limit and its neighbours, and
the overflow of each width are among the inputs; with words of four bits and
five CPUs a pattern is cut off.  Three crashes are two in one process and one in
another.  A buffer of five symbols is
shorter than the longest reply and longer than a prompt.  In the float formats
the short exponent ends above the long one's, so that subnormal numbers,
underflow and overflow occur, and three bits are cut off, so that there are ties.

The properties are those that take several steps or several actors to break,
or that compare an algorithm with what it is meant to compute.  Types, and some
plainer invariants (the count of children left, the retry budget, the totals,
the size of shared memory), are proved and not also run.  `TopologyFresh`,
`FailuresTold`, `OwnMessages`, `LoggedAsSaid`, `ImageAsNamed`, `Reproducible` and
`StoredRounded` are conjunctions: each states one claim about several outputs of
the same code.

Deadlock is not checked where the modelled activity comes to an end: all
threads are done, the plan is made, the clock has reached its bound.  In
`main_loop` it is checked: there every component that ends says so with a
stuttering step.

### What the violated runs show

* `wait_signal_lost`: `single_wait()` asks for the signal only after `EINTR`; a
  SIGTERM at another moment is recorded and never acted on.
* `failure_pattern`: in `mark_up_per_cpu_fail()` a parameter of the inner
  function hides the number of the attempt.
* `barrier_deadlock`: `finish_reschedule()` returns at once while there are no
  groups yet; its partner later waits for a thread that has ended.
* `background_batch`: `usleep()` takes 32 bits of microseconds, 72 minutes.

### Where a property that holds is narrower than one would wish

These restrictions are what the code forces.  Those that belong to a property
are noted in its module; the hazards of `PROJECT.json` name the lines of most.

Waiting, verdict, log:

* A child that needed SIGKILL after its time-out is `OutOfMemory` by
  `test_result_from_exit_code()`; `ResultsFaithful` says just that.
* Read, not checked: in a test of several slices threads that never started
  count as passed (`logging.cpp:1699`), so a test can pass although no thread ran
  to its end.
* A signal in the wait between two tests ends the program with the ordinary
  exit code.
* `OwnMessages`: the parent may log to a main thread before the child
  resets its counter; that message shows up in the next test.  A main thread
  whose messages have just the length of the skip message is not printed.
* `EndReported`: a child killed while `forkfd()` still holds it is not reported.
* `ErrorsShown`: under `--ignore-os-errors` a run in which nothing but such errors
  happened ends as a success, and its log is deleted.
* `SameChild`: a child whose `eventfd_read()` was interrupted may run the test
  although the parent takes it for unusable and, after its end, starts another:
  the slice is run twice, one after the other.
* `AllStarted`: if the child that is tried dies after it was polled, or gives up
  because its read was interrupted, the parent waits in `eventfd_read()` for ever;
  if the child goes on after an interrupted read the parent first waits for the
  end of the test.

Crashes:

* `CrashedDies` allows that a process in which a *second* thread crashes waits
  for its time-out: that thread may overwrite the release.  So does one whose
  context was not sent: the result of `sendmsg()` (`child_debug.cpp:340`) is not
  looked at.
* `DebuggerFindsForked` is about forked children: an exec'ed child does not
  know the action and does not wait for the debugger.  And another thread of the
  process may end it with a signal that is ignored (`--ignore-mce-errors`), before
  the debugger is there.
* `StalemateExplained`: the parent and gdb wait for each other until the
  deadline of 30 s if the prompt comes in two pieces, or if the first reply
  comes with the last prompt before it (`memmove()` leaves out the terminator,
  `child_debug.cpp:619`).  The backtrace is then lost.
* A reply that fills the buffer has its terminator written behind it
  (`child_debug.cpp:639`); the model stops there.
* Read, not checked: `run_process()` never adds to `total_read`
  (`child_debug.cpp:521`), so the output of `ps` for a child that hangs is empty.

Options, tests, topology:

* `NumbersRead` leaves out numbers between the ranges of `int` and `long long`,
  which are cut off before they are compared with a limit.
* `AsOftenAsAsked`: a test of the built-in list runs more often than asked for.
  An empty list that is shuffled is undefined (`BeginUndefined`).
* `CpusetExact` leaves out lists that begin with `odd` or `even` and go on.
* `TopologyFresh` is about machines where the threads of a core have the same
  node: `fill_numa()` may pass over a CPU if those in use are not 0 to n - 1.
* `FailuresTold` excepts what `pkg_failures` reads outside of its vector.  Its
  verdicts on cores are those of cores with CPUs below 64: `analyze_test_failures()`
  puts patterns of 128 bits in a `uint64_t`, so that a core with higher ones is
  passed over as one without a failure.  As a pattern has the bit of the CPU and
  not those of the attempts (`failure_pattern`), "exactly the same way" is never
  said of two threads.
* `LimitKept` leaves out machines where a package that needs no splitting
  follows one that does: `split = isolate_socket` undoes the splitting.

Time:

* `EnoughTime`: doubling the limit of an automatic fracture may overflow, which
  ends the test early.
* An exec'ed child is not told the end of the program's time (it has 0), so with
  a strict run time its loops end after one iteration.

What tests use:

* `schedules` has threads that reschedule at least once.
* `Restored`: if the mode of the driver was changed, governors other than its
  default are not put back.
* `ImageAsNamed` leaves out a run that had to load the driver: `errno` is stale.
* `MachinesReleased` names the retry after a failed entry, which may leave a
  machine behind, and the returns from the middle of the function.
* `MceBlamed`: what `mce_check` keeps "for the next iteration" is kept in the
  child, so the next run reports the same events; after a CPU was unplugged the
  columns of `/proc/interrupts` are added to the old mapping.
* `Reproducible`: without a child process, and with an init function that draws,
  the seed shown with a failure is not the one the test began with.
* `StoredRounded` is about finite numbers: a NaN whose set bits are all cut off
  becomes an infinity, unlike with the instructions that the code stands in for.

## Fairness

* `ChildrenWait`: the parent is scheduled, time passes, and a signal that was
  sent takes effect.  Nothing is assumed of the tests: they need not end.
* `CrashHandshake`: threads in the handler and the parent are scheduled.
* `GdbSession`: the parent and gdb are scheduled, and the deadline comes.  gdb is
  assumed to end at the end of its input, as the code does.
* `DeviceSchedule`: every thread is scheduled, and a test ends its loop when
  its time is up (`test_time_condition()`).
* `ChildStart`: the parent and the children are scheduled.  Nothing has to fail,
  and a child that runs the test need not end.
* `Forkfd`: calls and handlers are scheduled, and the caller waits for its
  descriptors; children need not end.

All are weak fairness of the steps of one actor; the kernel's scheduler gives
that.

## What is proved

The theorems hold for every value of the constants, from the named assumptions
on them (positive numbers of children, CPUs, tests and starts; exit codes of 8
bits).  Each proof has a type invariant first and then an inductive invariant.

* **ChildrenWaitProofs**: the properties of `wait_safety`, and types, the count
  of children left, that a crash context belongs to a child not yet reaped, that
  a time-out is logged, and that a verdict changes at most to `Interrupted`.  The
  inductive invariant says that a handle is known exactly as long as a child is
  not gone, that everything poll() found ready has ended
  and still has its handle, that a child with an end time has been reaped, and
  that, when a signal of the escalation was sent, the log named the child first.
  Counting children (`children_left`) needs the theorems on finite sets.
* **RunTestsProofs**: types, exit code, retry budget, totals, and that retries
  are thorough.  The invariant relates the counters of a test to the state it is
  in (`fail_count` to attempts, budget to retries).
* **SlicePlanProofs**: types, that both plans are partitions at every step, that
  the memory fits, and that modules stay together.  The invariant says that a
  plan made so far covers exactly the CPUs up to the position reached.
* **ChildStartProofs**: that no slice is run by two processes at a time, and by
  one only unless a read was interrupted (`SameChild`), and that a pidfd is used
  only where it was found to work (`PidfdSound`), for any number of slices.  Neither is inductive: between the
  two eventfds parent and child each know half of the outcome.  The invariant
  `StartIInv` adds the types (`StartTypeOK`), how many processes there are at
  each place of the parent (`CountInv`), what the eventfds hold for each pair of
  places of the parent and the child that is tried (`TryInv`), and what is known
  of the kernel once the choice was made (`KnownInv`).

Only model-checked: liveness and the refinement of `ChildNotice` (liveness is
out of the prover's reach; the abstraction is checked on two children),
`LimitKept`, and the components without a proof module.  In `RandomNumbers`
and `FloatConversion` the properties are about what arithmetic gives for each of
a bounded set of inputs, which is what TLC is for.

## What is not modelled

* The thermal monitor (a read of temperatures, which `TestTime` chooses freely),
  the groups' init functions, the choice of an action on a hang with an
  interactive gdb, and the text of backtraces.
* `sandstone_context_dump.cpp`: formatting of registers.
* The options for tests (`test_knobs.cpp`), read on one thread, and the helpers
  that fill memory with random numbers or bits.
* The memory of a guest, its size and its tables, and what a setup handler puts
  there.
* The types, constants and compile-time assertions of the floating-point
  formats, and `new_random_float16()` and its like.
* Tests that only compute (Eigen, zlib, zstd, OpenSSL, the examples), their data
  and the generated vectors: no state of the framework's.
* OpenSSL's loading and random hooks (`sandstone_ssl.cpp`): a table of symbols.
* The variants for Windows, macOS and FreeBSD, and the self-tests and unit
  tests, which were read for what they expect.

`components` in `PROJECT.json` has the list with reasons.

------------------------------ MODULE Logging ------------------------------
(***************************************************************************)
(* How messages travel from a test to the log (framework/logging.cpp).     *)
(* Every main thread (one per slice) and every test thread has a memory    *)
(* file of records and a counter in shared memory; children, their threads *)
(* and the parent append records while a test runs; when the children are  *)
(* gone the parent prints the records to the log file and, the important   *)
(* ones, to stdout, and empties the files for the next test.               *)
(*                                                                         *)
(* The text of a record is left out.  A record has its kind, its level,    *)
(* its length, and, as history, a number and the test it was written in.   *)
(***************************************************************************)
EXTENDS TestResults, SequencesExt

CONSTANTS
  LogConfigs,             \* configurations: the options, and the number of slices
  max_messages_per_thread,
  max_logdata_per_thread,
  MaxCalls,               \* bound: logging calls we watch
  MaxTests                \* bound: tests we watch

ASSUME LoggingAssumption ==
  /\ LogConfigs \subseteq [format : {"yaml", "tap", "key_value"}, verbosity : 0..3,
                           dest : {"stdout", "file", "directory"}, fatal_skips : BOOLEAN,
                           ignore_os_errors : BOOLEAN, log_test_knobs : BOOLEAN,
                           slices : Nat \ {0}]
  /\ MaxCalls \in Nat /\ MaxTests \in Nat
  /\ max_messages_per_thread \in Nat \ {0} /\ max_logdata_per_thread \in Nat \ {0}

\* LOG_LEVEL_QUIET is 0, LOG_LEVEL_VERBOSE(n) is n; INT_MAX is above them all
QUIET == 0
INT_MAX == 4

VARIABLES
  logcfg,            \* the options that logging looks at
  header,            \* print_tests_header(): "NoHeader", "LogFileOnly", "Both"
  logfile,           \* "none", "open" or "removed"
  running,           \* number of the test that runs, 0 before the first
  between,           \* no test runs
  kid,               \* slice -> "none", "early" (before init_per_thread_data()), "live", "ended"
  records,           \* thread -> its memory file
  messages_logged, data_bytes_logged,
  hasFailed,
  queue,             \* writer -> records it still has to append
  counted,           \* writers between fetch_add() and writev()
  gone,              \* test threads that reported a mismatch, which ends them
  stderrText,        \* tests that the text in the children's stderr file comes from
  stdout,            \* what was printed to stdout, when that is not the log
  file,              \* what was printed to the log
  exitcode,          \* -1 while the program runs
  \* history
  calls,
  late,              \* main threads reset by their child after the parent had logged to them
  written,           \* records that this test appended, with their thread
  verdicts           \* results of the tests

\* main threads have negative numbers; slice s has the one test thread s
MainOf(s) == -s - 1
LogSlices == logcfg.slices
LogThreads == (-LogSlices) .. (LogSlices - 1)
SliceOf(t) == IF t < 0 THEN -t - 1 ELSE t
\* the order of for_each_main_thread(), for_each_test_thread()
PrintOrder == [i \in 1 .. 2 * LogSlices |-> IF i <= LogSlices THEN -i ELSE i - LogSlices - 1]
\* who appends records: the threads, and the parent process
Parent == 100
Writers == LogThreads \cup {Parent}

outVars == <<header, logfile, stdout, file, exitcode>>
threadVars == <<records, messages_logged, data_bytes_logged, hasFailed>>
writeVars == <<queue, counted, gone>>
loggingVars == <<logcfg, outVars, running, between, kid, threadVars, writeVars, stderrText, calls,
                 late, written, verdicts>>

Off == [format |-> "none", verbosity |-> 0, dest |-> "stdout", fatal_skips |-> FALSE,
        ignore_os_errors |-> FALSE, log_test_knobs |-> FALSE, slices |-> 0]

LoggingInit ==
  /\ logcfg = Off /\ header = "NoHeader" /\ logfile = "none"
  /\ running = 0 /\ between = TRUE
  /\ kid = <<>> /\ records = <<>> /\ messages_logged = <<>> /\ data_bytes_logged = <<>>
  /\ hasFailed = <<>> /\ queue = <<>> /\ counted = {}
  /\ gone = {} /\ stderrText = {}
  /\ stdout = <<>> /\ file = <<>> /\ exitcode = -1
  /\ calls = 0 /\ late = {} /\ written = {} /\ verdicts = <<>>
-----------------------------------------------------------------------------
(***************************************************************************)
(* Printing.  A line is what it says and the test it is about.             *)
(***************************************************************************)
Line(k, n) == [kind |-> k, test |-> n, thread |-> INT_MAX, record |-> 0, of |-> n]
ThreadLine(t) == [Line("thread", running) EXCEPT !.thread = t]
RecordLine(r, t) == [kind |-> "message", test |-> running, thread |-> t, record |-> r.id,
                     of |-> r.test]

SameFile == logcfg.dest = "stdout"       \* file_log_fd == real_stdout_fd

\* logging_printf(): the part that goes to stdout
logging_printf(level, line) ==
  IF level <= logcfg.verbosity /\ ~SameFile THEN <<line>> ELSE <<>>

(***************************************************************************)
(* logging_init_global() opens the log: stdout itself, the file named with *)
(* -o, or a new file in a directory, which a successful run deletes.  Then *)
(* print_header() of the YAML format ends with print_tests_header(AtStart).*)
(***************************************************************************)
HeaderAtStart(cfg) ==
  IF cfg.format # "yaml" THEN "NoHeader"
  ELSE IF cfg.verbosity = 0 /\ cfg.dest # "stdout" THEN "LogFileOnly" ELSE "Both"

LogfileAtStart(cfg) == IF cfg.dest = "stdout" THEN "none" ELSE "open"

logging_init_global(cfg) ==
  /\ logcfg = Off
  /\ logcfg' = cfg
  /\ logfile' = LogfileAtStart(cfg)
  /\ header' = HeaderAtStart(cfg)
  /\ file' = IF cfg.format = "yaml" THEN <<Line("tests", 0)>> ELSE <<>>
  /\ stdout' = IF header' = "Both" /\ cfg.dest # "stdout" THEN <<Line("tests", 0)>> ELSE <<>>
  /\ LET threads == (-cfg.slices) .. (cfg.slices - 1) IN
     /\ records' = [t \in threads |-> <<>>]
     /\ messages_logged' = [t \in threads |-> 0] /\ data_bytes_logged' = [t \in threads |-> 0]
     /\ hasFailed' = [t \in threads |-> TRUE]        \* zero-filled memory reads as failed
     /\ queue' = [w \in threads \cup {Parent} |-> <<>>]
  /\ kid' = [s \in 0 .. cfg.slices - 1 |-> "none"]
  /\ UNCHANGED <<exitcode, running, between, counted, gone, stderrText, calls, late, written,
                 verdicts>>

\* run_one_test_once() ends the program after such a result
FatalResult == ~logcfg.ignore_os_errors /\ \E i \in DOMAIN verdicts : verdicts[i] \in Fatal

(***************************************************************************)
(* A test starts.  logging_init() prints its first line in the YAML        *)
(* format, to stdout only if that is verbose, and the children are forked. *)
(* A test that this machine cannot run has no children: the parent resets  *)
(* the shared memory and logs why.                                         *)
(***************************************************************************)
TestStarts ==
  /\ logcfg # Off /\ exitcode = -1 /\ between /\ running < MaxTests /\ ~FatalResult
  /\ running' = running + 1 /\ between' = FALSE
  /\ IF logcfg.format = "yaml"
     THEN /\ file' = Append(file, Line("item", running'))
          /\ stdout' = stdout \o logging_printf(1, Line("item", running'))
     ELSE UNCHANGED <<file, stdout>>
  /\ written' = {} /\ gone' = {}
  /\ UNCHANGED <<logcfg, header, logfile, exitcode, stderrText, verdicts>>

logging_init ==
  /\ TestStarts
  /\ kid' = [s \in DOMAIN kid |-> "early"]
  /\ UNCHANGED <<threadVars, queue, counted, calls, late>>

Record(k, level, bytes, n) ==
  [kind |-> k, level |-> level, bytes |-> bytes, id |-> 3 * calls + n, test |-> running]

NotRunnable ==
  /\ TestStarts
  /\ kid' = [s \in DOMAIN kid |-> "ended"]
  /\ LET r == [Record("skip", 1, 1, 1) EXCEPT !.test = running'] IN
     records' = [records EXCEPT ![-1] = Append(@, r)]
  /\ messages_logged' = [t \in LogThreads |-> IF t = -1 THEN 1 ELSE 0]
  /\ data_bytes_logged' = [t \in LogThreads |-> 0]
  /\ hasFailed' = [t \in LogThreads |-> FALSE]
  /\ late' = late \cup {t \in LogThreads : records[t] # <<>>}
  /\ calls' = calls + 1
  /\ UNCHANGED <<queue, counted>>

\* init_per_thread_data() in the child of slice s
ResetThreadData(s) ==
  /\ kid[s] = "early"
  /\ kid' = [kid EXCEPT ![s] = "live"]
  /\ LET Reset(f, v) == [t \in LogThreads |-> IF SliceOf(t) = s THEN v ELSE f[t]] IN
     /\ messages_logged' = Reset(messages_logged, 0)
     /\ hasFailed' = Reset(hasFailed, FALSE)
     /\ data_bytes_logged' = Reset(data_bytes_logged, 0)
  /\ late' = late \cup {t \in LogThreads :
       /\ SliceOf(t) = s
       /\ records[t] # <<>> \/ (queue[Parent] # <<>> /\ Head(queue[Parent]).to = t)}
  /\ UNCHANGED <<logcfg, outVars, running, between, records, writeVars, stderrText, calls,
                 written, verdicts>>
-----------------------------------------------------------------------------
(***************************************************************************)
(* Logging calls.  A thread of a live child may call, the control thread   *)
(* not while the test thread does; the parent reports children that take   *)
(* too long.  A call decides at once; then log_message_for_thread() counts *)
(* and appends every record.                                               *)
(***************************************************************************)
MayCall(w) ==
  /\ ~between /\ calls < MaxCalls
  /\ queue[w] = <<>>
  /\ w # Parent => /\ kid[SliceOf(w)] = "live" /\ w \notin gone
                   /\ queue[-w - 1] = <<>>

\* logging_mark_thread_failed(), for a message of the error level
MarkFailed(t, level) ==
  hasFailed' = IF level = QUIET THEN [hasFailed EXCEPT ![t] = TRUE] ELSE hasFailed

Enqueue(w, t, rs) ==
  /\ queue' = [queue EXCEPT ![w] = [i \in DOMAIN rs |-> [to |-> t, rec |-> rs[i]]]]
  /\ calls' = calls + 1

\* where a call by w may go: its own log, the main thread of its slice
\* (log_platform_message()), any slice's main thread that has not ended
Targets(w) == IF w = Parent THEN {MainOf(s) : s \in {x \in DOMAIN kid : kid[x] # "ended"}}
              ELSE {w, MainOf(SliceOf(w))}

\* log_message(), log_platform_message(); an error marks the thread as failed
log_message(w, t, level) ==
  /\ MayCall(w) /\ t \in Targets(w)
  /\ MarkFailed(t, level)
  /\ Enqueue(w, t, IF messages_logged[t] >= max_messages_per_thread THEN <<>>
                   ELSE <<Record("user", level, 1, 1)>>)
  /\ UNCHANGED <<logcfg, outVars, running, between, kid, records, messages_logged,
                 data_bytes_logged, counted, gone, stderrText, late, written, verdicts>>

\* log_message_skip() and logging_mark_knob_used()
log_message_skip(w, bytes) ==
  /\ MayCall(w) /\ w # Parent
  /\ Enqueue(w, w, <<Record("skip", 1, bytes, 1)>>)
  /\ UNCHANGED <<logcfg, outVars, running, between, kid, threadVars, counted, gone, stderrText,
                 late, written, verdicts>>

logging_mark_knob_used(w) ==
  /\ MayCall(w) /\ w < 0 /\ logcfg.log_test_knobs
  /\ Enqueue(w, w, <<Record("knob", 1, 1, 1)>>)
  /\ UNCHANGED <<logcfg, outVars, running, between, kid, threadVars, counted, gone, stderrText,
                 late, written, verdicts>>

log_data(w, size) ==
  /\ MayCall(w) /\ w # Parent
  /\ IF messages_logged[w] >= max_messages_per_thread
     THEN /\ Enqueue(w, w, <<>>)
          /\ UNCHANGED data_bytes_logged
     ELSE /\ data_bytes_logged' = [data_bytes_logged EXCEPT ![w] = @ + size]
          /\ Enqueue(w, w, IF data_bytes_logged[w] > max_logdata_per_thread THEN <<>>
                           ELSE <<Record("data", 2, size, 1)>>)
  /\ UNCHANGED <<logcfg, outVars, running, between, kid, records, messages_logged, hasFailed,
                 counted, gone, stderrText, late, written, verdicts>>

(***************************************************************************)
(* How many bytes of each buffer are logged.  The subtraction is unsigned: *)
(* when the counter is past the limit the difference is huge.              *)
(***************************************************************************)
MismatchLength(size, old_total) ==
  LET avail == max_logdata_per_thread - old_total IN
  IF avail >= 0 /\ avail < 2 * size THEN avail \div 2 ELSE size

\* logging_format_data() describes the difference; then the two buffers
MismatchRecords(len) ==
  <<Record("miscompare", QUIET, 1, 1), Record("mdata", 2, len, 2), Record("mdata", 2, len, 3)>>

\* memcmp_or_fail() found a difference: the thread reports it and ends
logging_report_mismatched_data(w, size) ==
  LET len == MismatchLength(size, data_bytes_logged[w]) IN
  /\ MayCall(w) /\ w \in 0 .. LogSlices - 1
  /\ hasFailed' = [hasFailed EXCEPT ![w] = TRUE]
  /\ data_bytes_logged' = [data_bytes_logged EXCEPT ![w] = @ + 2 * size]
  /\ Enqueue(w, w, MismatchRecords(len))
  /\ gone' = gone \cup {w}
  /\ UNCHANGED <<logcfg, outVars, running, between, kid, records, messages_logged, counted,
                 stderrText, late, written, verdicts>>

\* log_message_for_thread()
CountRecord(w) ==
  /\ queue[w] # <<>> /\ w \notin counted
  /\ messages_logged' = [messages_logged EXCEPT ![Head(queue[w]).to] = @ + 1]
  /\ counted' = counted \cup {w}
  /\ UNCHANGED <<logcfg, outVars, running, between, kid, records, data_bytes_logged, hasFailed,
                 queue, gone, stderrText, calls, late, written, verdicts>>

WriteRecord(w) ==
  /\ w \in counted
  /\ LET h == Head(queue[w]) IN
     /\ records' = [records EXCEPT ![h.to] = Append(@, h.rec)]
     /\ written' = written \cup {[rec |-> h.rec, thread |-> h.to]}
  /\ queue' = [queue EXCEPT ![w] = Tail(@)]
  /\ counted' = counted \ {w}
  /\ UNCHANGED <<logcfg, outVars, running, between, kid, messages_logged, data_bytes_logged,
                 hasFailed, gone, stderrText, calls, late, verdicts>>

\* a library, or an assertion, writes to stderr of a child
WritesStderr(s) ==
  /\ kid[s] \in {"early", "live"} /\ calls < MaxCalls
  /\ stderrText' = stderrText \cup {running}
  /\ calls' = calls + 1
  /\ UNCHANGED <<logcfg, outVars, running, between, kid, threadVars, writeVars, late, written,
                 verdicts>>

\* the process of slice s ends, in the middle of a call if it is killed
KidEnds(s) ==
  /\ kid[s] \in {"early", "live"}
  /\ kid' = [kid EXCEPT ![s] = "ended"]
  /\ queue' = [w \in Writers |-> IF w # Parent /\ SliceOf(w) = s THEN <<>> ELSE queue[w]]
  /\ counted' = {w \in counted : w = Parent \/ SliceOf(w) # s}
  /\ UNCHANGED <<logcfg, outVars, running, between, threadVars, gone, stderrText, calls, late,
                 written, verdicts>>
-----------------------------------------------------------------------------
(***************************************************************************)
(* logging_print_results()                                                 *)
(***************************************************************************)
loglevel(result) ==
  IF result = Passed \/ (result = Skipped /\ ~logcfg.fatal_skips) THEN 1 ELSE QUIET

\* the most serious result of the slices; the ones left out print as Failed does
Results == {Skipped, Passed, Failed, TimedOut}

\* the constructor of AbstractLogger; idle: every test thread was skipped
EffectiveResult(most, idle) ==
  IF most \notin {Skipped, Passed} THEN most
  ELSE IF \E t \in LogThreads : hasFailed[t] THEN Failed
  ELSE IF most = Passed /\ idle THEN Skipped
  ELSE most

TotalBytes(rs) == FoldLeft(LAMBDA n, r : n + r.bytes, 0, rs)

\* maybe_mmap_log()
LogOf(recs, count, t) == IF count[t] = 0 THEN <<>> ELSE recs[t]

\* the first skip message of the first main thread (get_skip_message(-1))
SkipMessages(recs) == SelectSeq(recs[-1], LAMBDA r : r.kind = "skip")

SkipReason(result, inMain, recs) ==
  IF result = Skipped /\ inMain /\ SkipMessages(recs) # <<>>
  THEN <<RecordLine(Head(SkipMessages(recs)), -1)>> ELSE <<>>

\* KeyValuePairLogger prints the result line of every test
ResultLevel(level) == IF logcfg.format = "key_value" THEN QUIET ELSE level

\* print_test_knobs()
KnobLines(rs) ==
  IF /\ logcfg.format = "yaml" /\ logcfg.log_test_knobs
     /\ \E i \in DOMAIN rs : rs[i].kind = "knob"
  THEN <<Line("knobs", running)>> ELSE <<>>

\* mutant: what the result line did not include is left out
Printable_skips(rs, level, inMain) ==
  SelectSeq(rs, LAMBDA r : r.level <= level /\ r.kind \notin {"knob", "skip"} /\ (inMain => r.kind = "data"))

\* print_one_thread_messages(): the records it prints
Printable(rs, level, inMain) ==
  SelectSeq(rs, LAMBDA r : r.level <= level /\ r.kind # "knob" /\ (r.kind = "skip" => ~inMain))

lowest_level(rs) ==
  LET levels == {rs[i].level : i \in {j \in DOMAIN rs : rs[j].kind # "knob"}} IN
  IF levels = {} THEN INT_MAX ELSE Min(levels)

\* the early return of doprint(), on any level
NothingToPrint(t, rs, skipBytes, fails) ==
  /\ TotalBytes(rs) - (IF t < 0 THEN skipBytes ELSE 0) = 0
  /\ ~fails[t] /\ logcfg.verbosity < 3

LinesOf(rs, t) == [i \in DOMAIN rs |-> RecordLine(rs[i], t)]

OnStdout(t, rs, skipBytes, fails) ==
  /\ ~NothingToPrint(t, rs, skipBytes, fails) /\ ~SameFile
  /\ lowest_level(rs) <= logcfg.verbosity

\* the key-value logger writes the header of a main thread always to the log
MisplacedHeader(t) == logcfg.format = "key_value" /\ t < 0

\* what doprint() writes for thread t, to the log and to stdout
FileBlock(t, rs, skipBytes, fails, inMain) ==
  IF NothingToPrint(t, rs, skipBytes, fails) THEN <<>>
  ELSE <<ThreadLine(t)>> \o LinesOf(Printable(rs, INT_MAX, inMain), t)
       \o (IF MisplacedHeader(t) /\ OnStdout(t, rs, skipBytes, fails)
           THEN <<ThreadLine(t)>> ELSE <<>>)

StdoutBlock(t, rs, skipBytes, fails, inMain) ==
  IF ~OnStdout(t, rs, skipBytes, fails) THEN <<>>
  ELSE (IF MisplacedHeader(t) THEN <<>> ELSE <<ThreadLine(t)>>)
       \o LinesOf(Printable(rs, logcfg.verbosity, inMain), t)

StderrLines == IF stderrText = {} THEN <<>>
               ELSE <<[Line("stderr", running) EXCEPT !.of = Min(stderrText)]>>
\* the TAP format prints the children's stderr, and empties the file, only with -v
PrintsStderr == logcfg.format # "tap" \/ logcfg.verbosity >= 1

\* mutant: the first line of a quiet test is printed only for the first failure
LateItem_once(level) ==
  IF logcfg.format # "yaml" \/ level # QUIET \/ SameFile \/ logcfg.verbosity >= 1
     \/ header = "Both" THEN <<>>
  ELSE <<Line("tests", 0), Line("item", running)>>

\* print_result_line(): logging_init() was too quiet, so print the test's first line now
LateItem(level) ==
  IF logcfg.format # "yaml" \/ level # QUIET \/ SameFile \/ logcfg.verbosity >= 1 THEN <<>>
  ELSE (IF header = "Both" THEN <<>> ELSE <<Line("tests", 0)>>) \o <<Line("item", running)>>

\* munmap_and_truncate_log()
Emptied(rs, t) == rs # <<>>

logging_print_results(most, idle, stuck) ==
  LET result == EffectiveResult(most, idle)
      level == loglevel(result)
      inMain == most = Skipped
      \* a time-out first logs an error for the threads that are stuck
      IsStuck(t) == t \in stuck /\ most = TimedOut
      fails == [t \in LogThreads |-> hasFailed[t] \/ IsStuck(t)]
      logs(t) == IsStuck(t) /\ messages_logged[t] < max_messages_per_thread
      recs == [t \in LogThreads |-> IF logs(t)
                 THEN Append(records[t], [Record("user", QUIET, 1, 1) EXCEPT !.id = 900 + t])
                 ELSE records[t]]
      count == [t \in LogThreads |-> IF logs(t) THEN messages_logged[t] + 1
                                     ELSE messages_logged[t]]
      text(t) == LogOf(recs, count, t)
      why == SkipReason(result, inMain, recs)
      skipBytes == IF logcfg.format = "yaml" /\ why # <<>> THEN Head(SkipMessages(recs)).bytes
                   ELSE 0
      knobs == KnobLines(text(-1))
      Order(i) == PrintOrder[i]
  IN
  /\ logcfg # Off /\ ~between /\ queue[Parent] = <<>>
  /\ (idle => most = Passed) /\ (stuck # {} => most = TimedOut)
  /\ \A s \in DOMAIN kid : kid[s] = "ended"
  /\ stdout' = stdout \o LateItem(level)
       \o logging_printf(ResultLevel(level), Line("result", running))
       \o (IF ResultLevel(level) <= logcfg.verbosity /\ ~SameFile THEN why ELSE <<>>)
       \o (IF logcfg.verbosity >= 1 /\ ~SameFile THEN knobs ELSE <<>>)
       \o FlattenSeq([i \in 1 .. 2 * LogSlices |->
            StdoutBlock(Order(i), text(Order(i)), skipBytes, fails, inMain)])
       \o (IF logcfg.verbosity > 0 /\ ~SameFile THEN StderrLines ELSE <<>>)
  /\ file' = file \o <<Line("result", running)>> \o why \o knobs
       \o FlattenSeq([i \in 1 .. 2 * LogSlices |->
            FileBlock(Order(i), text(Order(i)), skipBytes, fails, inMain)])
       \o (IF PrintsStderr THEN StderrLines ELSE <<>>)
  /\ header' = IF LateItem(level) # <<>> THEN "Both" ELSE header
  /\ records' = [t \in LogThreads |-> IF Emptied(text(t), t) THEN <<>> ELSE recs[t]]
  /\ messages_logged' = [t \in LogThreads |-> IF Emptied(text(t), t) THEN 0 ELSE count[t]]
  /\ hasFailed' = fails
  /\ stderrText' = IF PrintsStderr THEN {} ELSE stderrText
  /\ verdicts' = Append(verdicts, result)
  /\ between' = TRUE
  /\ UNCHANGED <<logcfg, logfile, exitcode, running, kid, data_bytes_logged, writeVars, calls,
                 late, written>>

(***************************************************************************)
(* The end of the program, after any test.  The exit code is EXIT_INVALID  *)
(* after a fatal result, and otherwise EXIT_FAILURE or EXIT_SUCCESS as the *)
(* tests were counted.  logging_close_global() deletes the log in a        *)
(* directory after success.                                                *)
(***************************************************************************)
CountsAsFailure(result) ==
  LET counted_as == IF result \in Fatal THEN Skipped ELSE result
  IN counted_as > Passed \/ (counted_as = Skipped /\ logcfg.fatal_skips)

ExitCode ==
  IF FatalResult THEN 2
  ELSE IF \E i \in DOMAIN verdicts : CountsAsFailure(verdicts[i]) THEN 1
  ELSE 0

\* mutant: any run deletes it
logging_close_global_always(code) ==
  /\ logcfg # Off /\ exitcode = -1 /\ between
  /\ exitcode' = code
  /\ logfile' = IF logcfg.dest = "directory" THEN "removed" ELSE logfile
  /\ UNCHANGED <<logcfg, header, stdout, file, running, between, kid, threadVars, writeVars,
                 stderrText, calls, late, written, verdicts>>

logging_close_global(code) ==
  /\ logcfg # Off /\ exitcode = -1 /\ between
  /\ exitcode' = code
  /\ logfile' = IF code = 0 /\ logcfg.dest = "directory" THEN "removed" ELSE logfile
  /\ UNCHANGED <<logcfg, header, stdout, file, running, between, kid, threadVars, writeVars,
                 stderrText, calls, late, written, verdicts>>

LoggingNext ==
  \/ \E cfg \in LogConfigs : logging_init_global(cfg)
  \/ logging_init \/ NotRunnable
  \/ \E s \in DOMAIN kid : ResetThreadData(s) \/ WritesStderr(s) \/ KidEnds(s)
  \/ \E w \in DOMAIN queue :
       \/ \E t \in LogThreads, level \in 0..2 :
            (w = Parent => level = QUIET) /\ log_message(w, t, level)
       \/ \E bytes \in 1..2 : log_message_skip(w, bytes) \/ log_data(w, bytes)
                              \/ logging_report_mismatched_data(w, bytes)
       \/ logging_mark_knob_used(w) \/ CountRecord(w) \/ WriteRecord(w)
  \/ \E most \in Results, idle \in BOOLEAN, stuck \in SUBSET (0 .. LogSlices - 1) :
       logging_print_results(most, idle, stuck)
  \/ logging_close_global(ExitCode)
  \/ exitcode # -1 /\ UNCHANGED loggingVars         \* the program has ended

LoggingSpec == LoggingInit /\ [][LoggingNext]_loggingVars
-----------------------------------------------------------------------------

(***************************************************************************)
(* The YAML output is well formed, on stdout and in the log: one "tests:"  *)
(* line before everything else, and whatever is printed about a test comes *)
(* after its own "- test:" line and before that of the next test.  What a  *)
(* quiet run shows, and when, depends on the verbosity, on the result, on  *)
(* the levels of the messages and on what was printed before.  Exception:  *)
(* a child that was reset late (see OwnMessages) and that still passed.        *)
(***************************************************************************)
WellFormed(out) ==
  \A i \in DOMAIN out :
    IF out[i].kind = "tests" THEN i = 1
    ELSE \E j \in 2..i : /\ out[j].kind = "item" /\ out[j].test = out[i].test
                         /\ \A k \in (j + 1)..i : out[k].kind # "item"

YamlWellFormed ==
  logcfg.format = "yaml" /\ late = {} => WellFormed(file) /\ WellFormed(stdout)

PrintedIn(out, r) == Cardinality({i \in DOMAIN out : out[i].record = r.id /\ out[i].kind = "message"})

\* skip messages stand in the result line, test options in a list of their own
IsMessage(x) == x.rec.kind \in {"user", "data", "mdata", "miscompare"}

\* the main thread of a slice, whose messages may be just as long as the skip message of the first slice
SameLength(x) ==
  logcfg.format = "yaml" /\ x.thread < 0 /\ \E y \in written : y.rec.kind = "skip" /\ y.thread = -1

(***************************************************************************)
(* Once a test's results are printed, every message that was written while *)
(* it ran is in the log exactly once, and no message is printed with       *)
(* another test or thread than its own: the memory files and the           *)
(* children's stderr are emptied between tests.  Exceptions: a main thread *)
(* to which the parent logged before the child reset its counter (the      *)
(* parent gives up on a child that has not come to init_per_thread_data()) *)
(* has that message wait in the file for the next test; and, in the YAML   *)
(* format, the main thread of a slice whose messages are together just as  *)
(* long as the skip message of the first slice.                            *)
(***************************************************************************)
OwnMessages ==
  /\ between => \A x \in written :
       IsMessage(x) => PrintedIn(file, x.rec) = 1 \/ x.thread \in late \/ SameLength(x)
  /\ \A out \in {stdout, file} : \A i \in DOMAIN out :
       out[i].kind \in {"message", "stderr"} => out[i].of = out[i].test \/ out[i].thread \in late

(***************************************************************************)
(* However quiet the run, errors are shown: a message of the error level   *)
(* is on stdout too, under a result line for its test, and the log with    *)
(* the details of a failed run is still there when the program has ended.  *)
(* Exception: a run in which nothing was worse than the errors that        *)
(* --ignore-os-errors makes skipped tests of, whose log is deleted.        *)
(***************************************************************************)
ErrorsShown ==
  /\ between /\ ~SameFile =>
       \A x \in written : IsMessage(x) /\ x.rec.level = QUIET /\ x.thread \notin late /\ ~SameLength(x) =>
         PrintedIn(stdout, x.rec) = 1 /\ \E i \in DOMAIN stdout : stdout[i] = Line("result", running)
  /\ \A i \in DOMAIN verdicts :
       verdicts[i] > Passed /\ ~(logcfg.ignore_os_errors /\ verdicts[i] \in Fatal) => logfile # "removed"
=============================================================================

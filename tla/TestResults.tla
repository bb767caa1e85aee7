---------------------------- MODULE TestResults ----------------------------
(***************************************************************************)
(* The values a test run is summarised with: the order of enum TestResult, *)
(* the encoding of a child's verdict as a process exit code, and the       *)
(* decoding of what the kernel reports about a child that ended.           *)
(***************************************************************************)
EXTENDS Integers

\* enum class TestResult; the order is the order of seriousness
Skipped              == -1
Passed               == 0
Failed               == 1
Killed               == 2
CoreDumped           == 3
OperatingSystemError == 4
OutOfMemory          == 5
TimedOut             == 6
Interrupted          == 7

TestResult == Skipped .. Interrupted

\* run_one_test_once(): these end the program, or count as skipped under --ignore-os-errors
Fatal == {OperatingSystemError, TimedOut, OutOfMemory}

\* signal numbers (Linux)
SIGHUP  == 1
SIGINT  == 2
SIGQUIT == 3
SIGKILL == 9
SIGSEGV == 11
SIGPIPE == 13
SIGTERM == 15

\* test_result_to_exit_code(), then the kernel keeps the low 8 bits
test_result_to_exit_code(r) ==
  (IF r = Skipped THEN -1 ELSE IF r = Failed THEN 1 ELSE 0) % 256

\* int8_t status = info.status
Int8(n) == IF n >= 128 THEN n - 256 ELSE n

(***************************************************************************)
(* What waiting for a child reports: an exit code in 0..255 (CLD_EXITED),  *)
(* or the signal that killed it, with or without a core file (CLD_DUMPED,  *)
(* CLD_KILLED).                                                            *)
(***************************************************************************)
Exited(n)      == [code |-> "CLD_EXITED", status |-> n]
KilledBy(s)    == [code |-> "CLD_KILLED", status |-> s]
DumpedBy(s)    == [code |-> "CLD_DUMPED", status |-> s]

test_result_from_exit_code(info) ==
  IF info.code = "CLD_EXITED"
  THEN LET status == Int8(info.status) IN
       IF status = -1 THEN Skipped
       ELSE IF status = 0 THEN Passed
       ELSE IF status = 1 THEN Failed
       ELSE OperatingSystemError
  ELSE IF info.status = SIGKILL THEN OutOfMemory
  ELSE IF info.status = SIGQUIT THEN TimedOut
  ELSE IF info.code = "CLD_KILLED" THEN Killed
  ELSE CoreDumped
=============================================================================

--------------------------- MODULE BackgroundScan ---------------------------
(***************************************************************************)
(* The service that tests in the background: background_scan_init() and    *)
(* background_scan_wait() in framework/sandstone.cpp, called from the loop *)
(* of main().  When tests ended is kept in a file of the runtime           *)
(* directory, which a service that is started again finds.                 *)
(* Time is counted in units in which the delays keep their order.          *)
(***************************************************************************)
EXTENDS Integers

CONSTANTS
  Timestamps,     \* how many are kept: 24
  MinimumDelayBetweenTests,    \* 5 min
  Deviation,                   \* a tenth of that
  MaximumDelayBetweenTests,    \* 12 h
  DelayBetweenTestBatch,       \* 24 h
  Hour,
  UsecondsMax,    \* usleep() takes the time modulo this: 2^32 us
  ThresholdInit, ThresholdMax, \* load_idle_threshold: 0.2 and 0.8; 0.05 per hour is 1
  Horizon         \* bound: time we watch

ASSUME DelayAssumption ==
  /\ Timestamps \in Nat \ {0}
  /\ MinimumDelayBetweenTests \in Nat /\ Deviation \in 0 .. MinimumDelayBetweenTests
  /\ MinimumDelayBetweenTests + Deviation < UsecondsMax
  /\ {MaximumDelayBetweenTests, DelayBetweenTestBatch, ThresholdInit, Horizon} \subseteq Nat
  /\ Hour \in Nat \ {0} /\ UsecondsMax \in Nat
  /\ ThresholdMax \in Nat /\ ThresholdInit <= ThresholdMax

Index == 1 .. Timestamps

VARIABLES
  now,
  pc,            \* "new", "init", "fill", "test", "move", "stamp", "sleep", "check", "ended"
  \* the file
  hasFile,       \* it could be created, else the memory is private
  initialized,
  timestamp,     \* newest first
  \* the process
  filled,        \* timestamps filled in by background_scan_init()
  sleep_time,
  \* history
  waited,        \* the test that runs now, or the check before it, follows a wait
  truncated      \* whose time usleep() did not take as it was

fileVars == <<hasFile, initialized, timestamp>>
vars == <<now, pc, fileVars, filled, sleep_time, waited, truncated>>

Empty == [i \in Index |-> 0]

Init ==
  /\ now = DelayBetweenTestBatch
  /\ pc = "new" /\ hasFile \in BOOLEAN
  /\ initialized = FALSE /\ timestamp = Empty /\ filled = 0
  /\ sleep_time = 0 /\ waited = FALSE /\ truncated = FALSE
-----------------------------------------------------------------------------
(***************************************************************************)
(* background_scan_init().  The default constructor of std::atomic<int>,   *)
(* which placement new runs on the memory of the file, stores 0 (C++20).   *)
(***************************************************************************)
NewFileLayout ==
  /\ pc = "new"
  /\ initialized' = FALSE
  /\ pc' = "init"
  /\ UNCHANGED <<now, hasFile, timestamp, filled, sleep_time, waited, truncated>>

Exchange ==
  /\ pc = "init"
  /\ initialized' = TRUE
  /\ pc' = IF initialized THEN "test" ELSE "fill"
  /\ UNCHANGED <<now, hasFile, timestamp, filled, sleep_time, waited, truncated>>

Fill ==
  /\ pc = "fill"
  /\ timestamp' = [timestamp EXCEPT ![filled + 1] = now - DelayBetweenTestBatch]
  /\ filled' = filled + 1
  /\ pc' = IF filled' = Timestamps THEN "test" ELSE "fill"
  /\ UNCHANGED <<now, hasFile, initialized, sleep_time, waited, truncated>>

(***************************************************************************)
(* run_one_test(); after a test that was skipped there is no wait.         *)
(***************************************************************************)
RunTest ==
  /\ pc = "test"
  /\ \E d \in 0..1 : now + d <= Horizon /\ now' = now + d
  /\ \/ pc' = "move" /\ UNCHANGED waited
     \/ pc' = "test" /\ waited' = FALSE
  /\ UNCHANGED <<fileVars, filled, sleep_time, truncated>>

(***************************************************************************)
(* background_scan_wait()                                                  *)
(***************************************************************************)
Move ==
  /\ pc = "move"
  /\ timestamp' = [i \in Index |-> timestamp[IF i = 1 THEN 1 ELSE i - 1]]
  /\ pc' = "stamp"
  /\ UNCHANGED <<now, hasFile, initialized, filled, sleep_time, waited, truncated>>

\* the argument of usleep() is 32 bits wide
usleep(t) == sleep_time' = t % UsecondsMax

MinimumWait == \E t \in MinimumDelayBetweenTests - Deviation ..
                         MinimumDelayBetweenTests + Deviation : usleep(t)

\* mutant: the wait for a batch may be shorter than what is left of it
BatchWait_either_side(expected_start) ==
  expected_start - MinimumDelayBetweenTests .. expected_start + MinimumDelayBetweenTests

\* expected_start and MinimumDelayBetweenTests, plus or minus the same again
BatchWait(expected_start) ==
  expected_start .. expected_start + 2 * MinimumDelayBetweenTests

Stamp ==
  /\ pc = "stamp"
  /\ timestamp' = [timestamp EXCEPT ![1] = now]
  /\ LET elapsed == now - timestamp'[Timestamps]
         expected_start == DelayBetweenTestBatch - elapsed
     IN  IF expected_start > 0
         THEN \E t \in BatchWait(expected_start) :
                /\ usleep(t)
                /\ truncated' = (t >= UsecondsMax)
         ELSE MinimumWait /\ truncated' = FALSE
  /\ pc' = "sleep" /\ waited' = TRUE
  /\ UNCHANGED <<now, hasFile, initialized, filled>>

Wake ==
  /\ pc = "sleep"
  /\ now + sleep_time <= Horizon
  /\ now' = now + sleep_time
  /\ pc' = "check"
  /\ UNCHANGED <<fileVars, filled, sleep_time, waited, truncated>>

\* a signal ends the wait and the program
Interrupt ==
  /\ pc = "sleep"
  /\ pc' = "ended"
  /\ UNCHANGED <<now, fileVars, filled, sleep_time, waited, truncated>>

load_idle_threshold ==
  LET t == ThresholdInit + (now - timestamp[1]) \div Hour
  IN  IF t > ThresholdMax THEN ThresholdMax ELSE t

TooLong == now > timestamp[1] + MaximumDelayBetweenTests

Loads == 0 .. ThresholdMax + 1

Check(idle_load) ==
  /\ pc = "check"
  /\ IF idle_load < load_idle_threshold \/ TooLong
     THEN pc' = "test" /\ UNCHANGED sleep_time
     ELSE pc' = "sleep" /\ MinimumWait
  /\ UNCHANGED <<now, fileVars, filled, waited, truncated>>

(***************************************************************************)
(* The process dies, or ends, and is started again some time later.  The   *)
(* file is still there; if there was none, the memory starts as zeroes.    *)
(***************************************************************************)
Restart ==
  /\ pc # "new"
  /\ \E d \in 0..2 : now + d <= Horizon /\ now' = now + d
  /\ pc' = "new" /\ waited' = FALSE
  /\ IF hasFile THEN UNCHANGED <<initialized, timestamp>>
     ELSE initialized' = FALSE /\ timestamp' = Empty
  /\ filled' = 0 /\ sleep_time' = 0 /\ truncated' = FALSE
  /\ UNCHANGED hasFile

Next == \/ NewFileLayout \/ Exchange \/ Fill \/ RunTest \/ Move \/ Stamp \/ Wake \/ Interrupt
        \/ (\E l \in Loads : Check(l)) \/ Restart

Spec == Init /\ [][Next]_vars
-----------------------------------------------------------------------------
(***************************************************************************)
(* A test that follows a wait starts no earlier than the batch delay after *)
(* the oldest of the tests remembered ended, unless usleep() got a time    *)
(* that it cannot represent.                                               *)
(***************************************************************************)
BatchKept ==
  pc = "test" /\ waited /\ ~truncated => now >= timestamp[Timestamps] + DelayBetweenTestBatch

(***************************************************************************)
(* The same without exception: there are never too many tests in a short   *)
(* period of time.                                                         *)
(***************************************************************************)
NotTooMany == pc = "test" /\ waited => now >= timestamp[Timestamps] + DelayBetweenTestBatch
=============================================================================

----------------------------- MODULE MCTestRun -----------------------------
(***************************************************************************)
(* Instances of TestRun and of Logging.  They share no state: a behaviour  *)
(* runs one of them, the other stays in an initial state.                  *)
(***************************************************************************)
EXTENDS TestRun, Logging

VARIABLE part        \* the component that runs

mcVars == <<vars, loggingVars, part>>

\* two CPUs in a slice each
MCPlan == [s \in {0, 1} |-> [starting_cpu |-> s, cpu_count |-> 1]]

Config(format, verbosity, dest, fatal_skips, ignore_os_errors, log_test_knobs, n) ==
  [format |-> format, verbosity |-> verbosity, dest |-> dest, fatal_skips |-> fatal_skips,
   ignore_os_errors |-> ignore_os_errors, log_test_knobs |-> log_test_knobs, slices |-> n]

MCLogConfigs ==
  {Config("yaml", 0, "directory", FALSE, FALSE, FALSE, 2), Config("yaml", 0, "directory", TRUE, FALSE, TRUE, 1),
   Config("yaml", 1, "file", FALSE, TRUE, FALSE, 1), Config("yaml", 3, "stdout", FALSE, FALSE, FALSE, 1),
   Config("tap", 0, "directory", FALSE, TRUE, FALSE, 1), Config("key_value", 2, "file", FALSE, FALSE, FALSE, 1)}

MCInit ==
  /\ part \in {"TestRun", "Logging"}
  /\ Init /\ LoggingInit
  /\ part # "TestRun" => opts = [ignore_os_errors |-> FALSE, logs |-> TRUE]

MCNext ==
  \/ part = "TestRun" /\ Next /\ UNCHANGED <<loggingVars, part>>
  \* with two slices, one test, and two calls only if one is for the skip message
  \/ /\ part = "Logging" /\ LoggingNext /\ UNCHANGED <<vars, part>>
     /\ running' = 2 => logcfg.slices = 1
     /\ logcfg.slices = 2 /\ calls' = 2 => \E x \in written : x.rec.kind = "skip"

MCSpec == MCInit /\ [][MCNext]_mcVars
=============================================================================

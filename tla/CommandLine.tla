----------------------------- MODULE CommandLine -----------------------------
(***************************************************************************)
(* The command line (framework/sandstone_opts.cpp) and what main() makes   *)
(* of it before anything runs.  An option is a name and an argument; one   *)
(* step is one turn of the loop over the options.                          *)
(*                                                                         *)
(* Numbers are as wide as IntBits and LongBits say, instead of 32 and 64,  *)
(* and the limits of the options are scaled with them.  Times and strings  *)
(* are the arguments themselves.                                           *)
(***************************************************************************)
EXTENDS Integers, SequencesExt

CONSTANTS
  CommandOptions,          \* the options that are given: [name, arg]
  MaxOptions,              \* bound: options of a command line
  OptionBuilds,            \* builds and machines: see build
  NotANumber,              \* an argument that strtoll() does not read to its end
  IntBits, LongBits,       \* width of int and of long long
  MaxRetests, MaxIdle, MaxTemp, MaxIndent

ASSUME WidthsAssumption == IntBits \in Nat \ {0} /\ LongBits > IntBits

VARIABLES
  build,         \* [restricted, debug, frequency, builtin, logging : BOOLEAN, cpus : Nat]
  given,         \* history: the options so far
  settings,      \* opts and the fields of sApp and shmem that options set
  parsing        \* "options", "done", or how the program ended

optionsVars == <<build, given, settings, parsing>>

INT_MAX == 2^(IntBits - 1) - 1
INT_MIN == -2^(IntBits - 1)
UINT_MAX == 2^IntBits - 1
LLONG_MAX == 2^(LongBits - 1) - 1
LLONG_MIN == -2^(LongBits - 1)
ULLONG_MAX == 2^LongBits - 1

Defaults ==
  [action |-> "run", fork_mode |-> "fork", fatal_errors |-> FALSE, thread_count |-> -1,
   knobs |-> FALSE, verbosity |-> -1, test_time |-> "none", force_test_time |-> FALSE,
   endtime |-> "none", format |-> "yaml", indent |-> 0, cpuset |-> "none", fatal_skips |-> FALSE,
   ignore_mce |-> FALSE, ignore_os |-> FALSE, ignore_unknown |-> FALSE, quality |-> 2, idle |-> 0,
   slices |-> 0, mce_period |-> 0, loops |-> 0, delay |-> "5ms", retest |-> 2, total_retest |-> -2,
   schedule |-> "none", strict |-> FALSE, syslog |-> FALSE, selftest |-> FALSE, service |-> FALSE,
   ud |-> FALSE, builtin |-> "none", temp |-> -1, max_time |-> "none", list |-> "none",
   randomize |-> FALSE, cycle_through |-> FALSE, gdb |-> "none", logdata |-> 1, messages |-> 1, vary |-> FALSE, vary_uncore |-> FALSE,
   max_count |-> INT_MAX, test_tests |-> FALSE, seed |-> "none", log |-> "auto", enabled |-> <<>>,
   disabled |-> <<>>, on_crash |-> "none", on_hang |-> "none"]

(***************************************************************************)
(* ParseIntArgument: strto(u)ll, which clips or wraps what it is given,    *)
(* then the conversion to Integer and the limits.                          *)
(***************************************************************************)
Wrap(x, signed) ==
  LET u == x % 2^IntBits IN IF signed /\ u > INT_MAX THEN u - 2^IntBits ELSE u

Parsed(n, signed) ==
  IF signed THEN IF n > LLONG_MAX THEN LLONG_MAX ELSE IF n < LLONG_MIN THEN LLONG_MIN ELSE n
  ELSE IF n > ULLONG_MAX \/ n < -ULLONG_MAX THEN ULLONG_MAX ELSE n % 2^LongBits

ERange(n, signed) ==
  IF signed THEN n \notin LLONG_MIN .. LLONG_MAX ELSE n \notin -ULLONG_MAX .. ULLONG_MAX

\* mutant: too small is too large
ParseIntArgument_swap(n, o) ==
  LET v == Wrap(Parsed(n, o.signed), o.signed) IN IF v \in o.min .. o.max THEN v ELSE o.max

InRange(n, o) ==
  LET v == Wrap(Parsed(n, o.signed), o.signed)
  IN ~ERange(n, o.signed) /\ v = Parsed(n, o.signed) /\ v \in o.min .. o.max

\* exit(EX_USAGE)
RefusesNumber(n, o) == n = NotANumber \/ (~InRange(n, o) /\ ~o.saturate)

ParseIntArgument(n, o) ==
  LET parsed == Parsed(n, o.signed)
      erange == ERange(n, o.signed)
      v == Wrap(parsed, o.signed)
  IN IF InRange(n, o) THEN v
     ELSE IF parsed < o.min \/ (erange /\ parsed = LLONG_MIN) THEN o.min
     ELSE IF v > o.max \/ (erange /\ parsed = LLONG_MAX) THEN o.max
     ELSE v

IntOption(setting, min, max, saturate) ==
  [setting |-> setting, signed |-> TRUE, min |-> min, max |-> max, saturate |-> saturate]

\* the options with a number
NumberOptions ==
  "threads"       :> IntOption("thread_count", 1, build.cpus, TRUE)
  @@ "yaml"       :> IntOption("indent", 0, MaxIndent, FALSE)
  @@ "inject-idle" :> IntOption("idle", 0, MaxIdle, TRUE)
  @@ "max-cores-per-slice" :> IntOption("slices", -1, INT_MAX, FALSE)
  @@ "mce-check-every" :> IntOption("mce_period", 0, INT_MAX, FALSE)
  @@ "quality"    :> IntOption("quality", -1, 2, TRUE)

LimitOptions ==
  "retest-on-failure" :> IntOption("retest", 0, MaxRetests, TRUE)
  @@ "temperature-threshold" :> IntOption("temp", 0, MaxTemp, TRUE)
  @@ "total-retest-on-failure" :> IntOption("total_retest", -1, INT_MAX, FALSE)
  @@ "max-logdata" :> [setting |-> "logdata", signed |-> FALSE, min |-> 0, max |-> UINT_MAX, saturate |-> TRUE]
  @@ "max-messages" :> IntOption("messages", -1, INT_MAX, TRUE)
  @@ "max-test-count" :> IntOption("max_count", 0, INT_MAX, FALSE)
  @@ "max-test-loop-count" :> IntOption("loops", 0, INT_MAX, FALSE)

\* zero, or less, is no limit
Unlimited(setting, v) ==
  CASE setting = "logdata" /\ v = 0 -> UINT_MAX
    [] setting = "messages" /\ v <= 0 -> INT_MAX
    [] setting = "loops" /\ v = 0 -> INT_MAX
    [] OTHER -> v

NumberTable == NumberOptions @@ LimitOptions

SetNumber(option) ==
  LET o == NumberTable[option.name]
      v == ParseIntArgument(option.arg, o)
  IN (o.setting :> Unlimited(o.setting, v))
     @@ (IF option.name = "yaml" THEN [format |-> "yaml"] ELSE <<>>)

(***************************************************************************)
(* Options that set what they are there to set.                            *)
(***************************************************************************)
SwitchOptions(option, st) ==
  CASE option.name = "alpha" -> [quality |-> -1]
    [] option.name = "beta" -> [quality |-> 0]
    [] option.name = "disable" -> [disabled |-> Append(st.disabled, option.arg)]
    [] option.name = "enable" -> [enabled |-> Append(st.enabled, option.arg)]
    [] option.name = "fatal-errors" -> [fatal_errors |-> TRUE]
    [] option.name = "output-log" -> [log |-> option.arg]
    [] option.name = "quiet" -> [verbosity |-> 0]
    [] option.name = "rng-state" -> [seed |-> option.arg]
    [] option.name = "test-time" -> [test_time |-> option.arg]
    [] option.name = "force-test-time" -> [force_test_time |-> TRUE]
    [] option.name = "total-time" -> [endtime |-> option.arg, cycle_through |-> TRUE]
    [] option.name = "verbose" -> [verbosity |-> IF st.verbosity < 0 THEN 1 ELSE st.verbosity + 1]

FlagOptions(option, st) ==
  CASE option.name = "cpuset" -> [cpuset |-> option.arg]
    [] option.name = "fatal-skips" -> [fatal_skips |-> TRUE]
    [] option.name = "ignore-mce-errors" -> [ignore_mce |-> TRUE]
    [] option.name = "ignore-os-errors" -> [ignore_os |-> TRUE]
    [] option.name = "ignore-unknown-tests" -> [ignore_unknown |-> TRUE]
    [] option.name = "include-optional" -> IF st.quality < 1 THEN <<>> ELSE [quality |-> 1]
    [] option.name = "no-slicing" -> [slices |-> -1]
    [] option.name = "on-crash" -> [on_crash |-> option.arg]
    [] option.name = "on-hang" -> [on_hang |-> option.arg]
    [] option.name = "quick" -> [loops |-> 1, delay |-> "0ms"]

ModeOptions(option, st) ==
  CASE option.name = "strict-runtime" -> [strict |-> TRUE]
    [] option.name = "syslog" -> [syslog |-> TRUE]
    [] option.name = "selftests" -> [selftest |-> TRUE]
    [] option.name = "service" -> [service |-> TRUE, fatal_errors |-> TRUE, endtime |-> "forever"]
    [] option.name = "ud-on-failure" -> [ud |-> TRUE]
    [] option.name = "no-temperature-threshold" -> [temp |-> -1]
    [] option.name = "test-delay" -> [delay |-> option.arg]
    [] option.name = "test-tests" -> [test_tests |-> TRUE, retest |-> 0]
    [] option.name = "timeout" -> [max_time |-> option.arg]
    [] option.name = "test-list-file" -> [list |-> option.arg]
    [] option.name = "test-list-randomize" -> [randomize |-> TRUE]
    [] option.name \in {"1sec", "30sec", "2min", "5min"} ->
         [randomize |-> TRUE, cycle_through |-> TRUE, strict |-> TRUE, endtime |-> option.name]
    [] option.name = "gdb-server" -> [gdb |-> option.arg]
    [] option.name = "deprecated" -> <<>>

\* options that a build or a machine may refuse
CheckedOptions(option, st) ==
  CASE option.name = "fork-mode" -> [fork_mode |-> option.arg]
    [] option.name = "test-option" -> [knobs |-> TRUE]
    [] option.name = "output-format" ->
         IF option.arg = "none" THEN [format |-> "none", verbosity |-> -1] ELSE [format |-> option.arg]
    [] option.name = "reschedule" -> IF option.arg = "none" THEN <<>> ELSE [schedule |-> option.arg]
    [] option.name = "vary-frequency" -> [vary |-> TRUE]
    [] option.name = "vary-uncore-frequency" -> [vary_uncore |-> TRUE]
    [] option.name = "use-builtin-test-list" -> [builtin |-> option.arg]

Switches == {"alpha", "beta", "disable", "enable", "fatal-errors", "output-log", "quiet", "rng-state",
             "test-time", "force-test-time", "total-time", "verbose"}
Flags == {"cpuset", "fatal-skips", "ignore-mce-errors", "ignore-os-errors", "ignore-unknown-tests",
          "include-optional", "no-slicing", "on-crash", "on-hang", "quick"}
Modes == {"strict-runtime", "syslog", "selftests", "service", "ud-on-failure", "no-temperature-threshold",
          "test-delay", "test-tests", "timeout", "test-list-file", "test-list-randomize",
          "1sec", "30sec", "2min", "5min", "gdb-server", "deprecated"}
Checked == {"fork-mode", "test-option", "output-format", "reschedule", "vary-frequency",
            "vary-uncore-frequency", "use-builtin-test-list"}

\* options after which nothing more is read
ListOptions ==
  [o \in {"help", "is-asan-build", "is-debug-build"} |-> "exit"]
  @@ [o \in {"list", "list-tests", "list-groups"} |-> "list_tests"]
  @@ ("list-group-members" :> "list_group") @@ ("dump-cpu-info" :> "dump_cpu_info") @@ ("version" :> "version")

Refused(option) ==
  \/ option.name \notin DOMAIN NumberTable \cup DOMAIN ListOptions \cup Switches \cup Flags \cup Modes \cup Checked
  \/ /\ option.name \in DOMAIN NumberTable
     /\ RefusesNumber(option.arg, NumberTable[option.name])
  \/ option.name \in {"fork-mode", "output-format", "reschedule", "test-option"} /\ option.arg = "junk"
  \/ option.name = "output-format" /\ option.arg = "none" /\ ~build.debug
  \/ option.name \in {"test-tests", "gdb-server"} /\ ~build.debug
  \/ option.name = "reschedule" /\ build.cpus < 2
  \/ option.name \in {"vary-frequency", "vary-uncore-frequency"} /\ ~build.frequency
  \/ option.name = "use-builtin-test-list" /\ ~build.builtin

OptionsInit ==
  /\ build \in OptionBuilds
  /\ given = <<>> /\ settings = Defaults /\ parsing = "options"

\* what an option makes of the settings
Effect(st, option) ==
  (CASE option.name \in DOMAIN NumberTable -> SetNumber(option)
     [] option.name \in Switches -> SwitchOptions(option, st)
     [] option.name \in Flags -> FlagOptions(option, st)
     [] option.name \in Modes -> ModeOptions(option, st)
     [] option.name \in Checked -> CheckedOptions(option, st)) @@ st

\* one turn of the loop over the options of a full command line
ParseOption(option) ==
  /\ parsing = "options" /\ ~build.restricted /\ Len(given) < MaxOptions
  /\ given' = Append(given, option)
  /\ \/ /\ Refused(option)
        /\ parsing' = "EX_USAGE" /\ UNCHANGED settings
     \/ /\ option.name \in DOMAIN ListOptions
        /\ settings' = [settings EXCEPT !.action = ListOptions[option.name]]
        /\ parsing' = "done"
     \/ /\ ~Refused(option) /\ option.name \notin DOMAIN ListOptions
        /\ settings' = Effect(settings, option)
        /\ UNCHANGED parsing
  /\ UNCHANGED build

RestrictedDefaults ==
  (IF build.logging THEN [verbosity |-> 1] ELSE [format |-> "none"]) @@
  [delay |-> "50ms", temp |-> INT_MIN, fatal_errors |-> TRUE, builtin |-> "auto"]

\* the few options of a restricted build; --query is not implemented
ParseRestricted(option) ==
  /\ parsing = "options" /\ build.restricted /\ Len(given) < MaxOptions
  /\ given' = Append(given, option)
  /\ \/ /\ option.name = "service"
        /\ settings' = [settings EXCEPT !.endtime = "forever", !.service = TRUE]
        /\ UNCHANGED parsing
     \/ /\ option.name \in {"version", "help"}
        /\ settings' = [settings EXCEPT !.action = ListOptions[option.name]]
        /\ parsing' = "done"
     \/ /\ option.name = "query"
        /\ parsing' = "aborted" /\ UNCHANGED settings
     \/ /\ option.name \notin {"service", "version", "help", "query"}
        /\ parsing' = "EX_USAGE" /\ settings' = [settings EXCEPT !.action = "exit"]
  /\ UNCHANGED build

\* the end of parse_cmdline(), with arguments that are no options or not
EndOfOptions(more) ==
  /\ parsing = "options"
  /\ parsing' = IF more THEN "EX_USAGE" ELSE "done"
  /\ settings' = IF build.restricted THEN RestrictedDefaults @@ settings ELSE settings
  /\ UNCHANGED <<build, given>>

\* main() after it: refusals in exec mode, total retests, threads, verbosity
MainDerives ==
  LET exec == settings.fork_mode = "exec" /\ ~build.restricted
      threads == settings.thread_count
  IN
  /\ parsing = "done" /\ settings.action = "run"
  /\ IF exec /\ (settings.knobs \/ settings.schedule # "none")
     THEN parsing' = "EX_USAGE" /\ UNCHANGED settings
     ELSE /\ parsing' = "run"
          /\ settings' = [settings EXCEPT
               !.total_retest = IF @ < -1 \/ settings.retest = 0 THEN 10 * settings.retest ELSE @,
               !.thread_count = IF threads \in 0 .. build.cpus - 1 THEN threads ELSE build.cpus,
               !.verbosity = IF @ # -1 THEN @ ELSE IF settings.quality < 2 THEN 1 ELSE 0]
  /\ UNCHANGED <<build, given>>

OptionsNext ==
  \/ \E option \in CommandOptions : ParseOption(option) \/ ParseRestricted(option)
  \/ \E more \in BOOLEAN : EndOfOptions(more)
  \/ MainDerives
  \/ parsing \notin {"options", "done"} /\ UNCHANGED optionsVars
  \/ parsing = "done" /\ settings.action # "run" /\ UNCHANGED optionsVars

OptionsSpec == OptionsInit /\ [][OptionsNext]_optionsVars
-----------------------------------------------------------------------------
\* a number that the conversion to Integer changes, and no more than that
CutOff(option) ==
  LET o == NumberTable[option.name] IN
  ~ERange(option.arg, o.signed) /\ Wrap(Parsed(option.arg, o.signed), o.signed) # Parsed(option.arg, o.signed)

(***************************************************************************)
(* A number is taken as it is written, or brought to the nearest limit, or *)
(* refused if the option does not do that.  It holds for every number but  *)
(* those between the ranges of int and long long: what is left of them by  *)
(* the conversion is taken if it is not too large.                         *)
(***************************************************************************)
NumbersRead ==
  ~build.restricted /\ given # <<>> /\ Last(given).name \in DOMAIN NumberTable /\ Last(given).arg # NotANumber =>
    LET option == Last(given)
        o == NumberTable[option.name]
        n == option.arg
        nearest == IF n < o.min THEN IF o.signed THEN o.min ELSE o.max
                   ELSE IF n > o.max THEN o.max ELSE n
    IN \/ o.saturate /\ CutOff(option)
       \/ ~o.signed /\ n < 0
       \/ IF o.saturate \/ n \in o.min .. o.max
          THEN parsing = "options" => settings[o.setting] = Unlimited(o.setting, nearest)
          ELSE parsing = "EX_USAGE"
=============================================================================

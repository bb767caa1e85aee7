----------------------------- MODULE MCRunTests -----------------------------
(***************************************************************************)
(* One run for the main loop, for the parts of the program that prepare it *)
(* and for the tests that count events in between.  They share no state,   *)
(* so each behaviour is one part's: the variable part says which, and the  *)
(* others stay in one initial state.                                       *)
(***************************************************************************)
EXTENDS RunTests, Topology, TestList, CommandLine, EventCounts

VARIABLE part

Number(n) == [kind |-> "number", n |-> n]
Ids(p, c, t) == [kind |-> "ids", package |-> p, core |-> c, thread |-> t]
Odd == [kind |-> "odd"]
Even == [kind |-> "even"]
Arg(negated, items) == [negated |-> negated, items |-> items]

MCCpusetArgs ==
  {Arg(FALSE, <<Number(1)>>), Arg(FALSE, <<Number(3), Ids(-1, 0, -1)>>), Arg(FALSE, <<Ids(0, -1, -1)>>),
   Arg(FALSE, <<Ids(-1, -1, 1), Number(0)>>), Arg(FALSE, <<Odd>>), Arg(FALSE, <<Odd, Ids(1, -1, -1)>>),
   Arg(FALSE, <<Ids(0, -1, -1), Odd>>), Arg(TRUE, <<Number(1), Number(2)>>), Arg(TRUE, <<Ids(0, -1, -1)>>),
   Arg(TRUE, <<Even>>), Arg(TRUE, <<Ids(-1, 0, 0), Ids(-1, 1, 0)>>)}

Uniform(n) == [c \in 0 .. n - 1 |-> 1]
Files(n) == [c \in 0 .. n - 1 |-> "all"]

\* two packages of one core with two threads; 0 and 2 are siblings, and 1 and 3
TwoPackages ==
  [apic |-> <<4, 1, 5>> @@ (0 :> 0), logical |-> 1, core |-> 2, module |-> 0, package |-> 2, l2 |-> 2,
   leaf |-> TRUE, cluster |-> TRUE, files |-> Files(4),
   model |-> (0 :> 1) @@ (1 :> 2) @@ (2 :> 1) @@ (3 :> 2),
   nodes |-> <<[id |-> 1, list |-> << <<1, 1>>, <<3, 3>> >>], [id |-> 0, list |-> << <<0, 0>>, <<2, 2>> >>]>>]

\* a package of two modules, one of them with one core of two threads; two nodes in it
Modules ==
  [apic |-> <<1, 4, 6, 5>> @@ (0 :> 0), logical |-> 1, core |-> 2, module |-> 3, package |-> 3, l2 |-> 4,
   leaf |-> TRUE, cluster |-> TRUE, files |-> Files(5), model |-> Uniform(5),
   nodes |-> <<[id |-> 0, list |-> << <<0, 1>> >>], [id |-> 1, list |-> << <<2, 4>> >>]>>]

\* sysfs only: three cores, of which the first two have two threads
Siblings ==
  [apic |-> <<2, 4, 1, 3>> @@ (0 :> 0), logical |-> 1, core |-> 3, module |-> 0, package |-> 3, l2 |-> 0,
   leaf |-> FALSE, cluster |-> FALSE, files |-> Files(5), model |-> Uniform(5),
   nodes |-> <<[id |-> 0, list |-> << <<0, 1>>, <<3, 4>> >>], [id |-> 1, list |-> << <<2, 2>> >>]>>]

\* sysfs without the ids of a CPU
Unknown ==
  [apic |-> <<1, 2>> @@ (0 :> 0), logical |-> 1, core |-> 2, module |-> 0, package |-> 2, l2 |-> 0,
   leaf |-> FALSE, cluster |-> TRUE, files |-> <<"package", "none">> @@ (0 :> "all"), model |-> Uniform(3),
   nodes |-> <<>>]

ThreePackages ==
  [apic |-> <<4, 8>> @@ (0 :> 0), logical |-> 1, core |-> 2, module |-> 0, package |-> 2, l2 |-> 1,
   leaf |-> TRUE, cluster |-> TRUE, files |-> Files(3), model |-> (0 :> 2) @@ (1 :> 2) @@ (2 :> 1),
   nodes |-> <<[id |-> 0, list |-> << <<0, 2>> >>]>>]

MCTopoMachines == {TwoPackages, Modules, Siblings, Unknown, ThreePackages}

-----------------------------------------------------------------------------
T(id, quality, groups) == [id |-> id, quality |-> quality, groups |-> groups]
MCMce == T("mce", 2, {})
MCCatalog == <<T("a", 2, {"g"}), T("b", 1, {"g", "h"}), T("s", -1, {"h"}), T("c", 2, {})>>

Id(i) == [kind |-> "id", id |-> i]
Glob(is) == [kind |-> "glob", ids |-> is]
Group(g) == [kind |-> "group", id |-> g]
Line(n, d) == [kind |-> "test", name |-> n, duration |-> d]
Other(k) == [kind |-> k, name |-> Id("none"), duration |-> 0]

\* files and names, in the order given
Named ==
  [enable : {<<>>, <<Id("b"), Glob({"a", "b", "mce"})>>, <<Group("g")>>, <<Id("none"), Id("s")>>},
   list_given : {TRUE},
   list : {<<>>, <<Line(Id("c"), 5), Other("empty"), Line(Id("a"), 7)>>, <<Line(Group("h"), 1)>>,
           <<Line(Id("mce"), 1), Line(Id("none"), 2), Line(Glob({"a"}), 3)>>, <<Line(Id("a"), 1), Other("bad")>>},
   builtin_given : {FALSE}, builtin : {<<>>},
   disable : {<<>>, <<Id("c"), Group("h")>>, <<Glob({"a", "c", "mce"})>>},
   ignore_unknown : BOOLEAN, ignore_mce : BOOLEAN, no_mce : BOOLEAN, randomize : {FALSE},
   quality : {-1, 2}]

\* all tests, a few, or a built-in list, also at random
Plain ==
  [enable : {<<>>, <<Id("b"), Id("a"), Id("b")>>}, list_given : {FALSE}, list : {<<>>},
   builtin_given : {FALSE}, builtin : {<<>>},
   disable : {<<>>, <<Id("c"), Id("c")>>, <<Glob({"a", "b", "c"}), Id("mce")>>},
   ignore_unknown : {FALSE}, ignore_mce : BOOLEAN, no_mce : BOOLEAN, randomize : BOOLEAN,
   quality : {-1, 0, 1, 2}]

Builtin ==
  {[s EXCEPT !.builtin_given = TRUE, !.builtin = b] :
     s \in {p \in Plain : p.enable = <<>>}, b \in {<<>>, <<MCCatalog[2], MCCatalog[1]>>}}

MCSelections == Named \cup Plain \cup Builtin
-----------------------------------------------------------------------------
Opt(names, args) == {[name |-> n, arg |-> a] : n \in names, a \in args}

MCCommandOptions ==
  Opt({"alpha", "beta", "fatal-errors", "quiet", "force-test-time", "verbose", "fatal-skips",
       "ignore-mce-errors", "ignore-os-errors", "ignore-unknown-tests", "include-optional", "no-slicing",
       "quick", "strict-runtime", "syslog", "selftests", "service", "ud-on-failure",
       "no-temperature-threshold", "test-tests", "test-list-randomize", "1sec", "5min", "deprecated",
       "vary-frequency", "vary-uncore-frequency", "help", "list", "list-group-members", "dump-cpu-info",
       "version", "query", "unknown"}, {"none"})
  \cup Opt({"disable", "enable", "output-log", "rng-state", "test-time", "total-time", "cpuset", "on-crash",
            "on-hang", "test-delay", "timeout", "test-list-file", "gdb-server", "use-builtin-test-list"}, {"x"})
  \cup Opt({"fork-mode", "output-format", "reschedule", "test-option"}, {"junk"})
  \cup Opt({"fork-mode"}, {"exec", "no"}) \cup Opt({"output-format"}, {"none", "tap"})
  \cup Opt({"reschedule"}, {"none", "queue"}) \cup Opt({"test-option"}, {"k=v"})
  \cup Opt({"threads", "quality", "max-logdata", "retest-on-failure", "total-retest-on-failure"},
           {-17, -16, -5, -2, 0, 1, 3, 4, 8, 9, 15, 16, 40, NotANumber})
  \cup Opt({"yaml", "inject-idle", "max-cores-per-slice", "mce-check-every", "temperature-threshold",
            "max-messages", "max-test-count", "max-test-loop-count"}, {-1, 0, 2, 12})

Build(r, dbg, f, b, c) ==
  [restricted |-> r, debug |-> dbg, frequency |-> f, builtin |-> b, logging |-> dbg \/ ~f, cpus |-> c]
MCOptionBuilds == {Build(FALSE, TRUE, TRUE, TRUE, 3), Build(FALSE, FALSE, FALSE, FALSE, 1),
                   Build(TRUE, FALSE, TRUE, TRUE, 2), Build(TRUE, TRUE, TRUE, TRUE, 1)}
-----------------------------------------------------------------------------
Counting(o, t, s, l, e) ==
  [online |-> o, tested |-> t, slice |-> s, file |-> l # {}, lines |-> l, msr |-> "SMI" \in e, events |-> e]

\* three CPUs of which two are tested, in two slices, and two CPUs in another order with a number left out
MCEventMachines ==
  {Counting({0, 1, 2}, <<0, 1>>, 1, {"MCE", "TRM"}, {"MCE", "TRM"}), Counting({0, 1, 2}, <<0, 1>>, 1, {}, {"SMI"}),
   Counting({0, 2}, <<2, 0>>, 2, {"MCE"}, {"MCE", "TRM"}), Counting({0, 2}, <<2, 0>>, 2, {}, {"SMI"})}

-----------------------------------------------------------------------------
mcVars == <<vars, topologyVars, testListVars, optionsVars, eventVars, part>>

MCInit ==
  /\ part \in {"RunTests", "Topology", "TestList", "CommandLine", "EventCounts"}
  /\ IF part = "RunTests" THEN opts \in Options /\ timeUp \in BOOLEAN
     ELSE opts = [o \in {"fatal_errors", "fatal_skips", "ignore_os_errors", "use_strict_runtime"} |-> FALSE]
          /\ timeUp = FALSE
  /\ IF part = "TestList" THEN selection \in MCSelections
     ELSE selection = CHOOSE s \in MCSelections : TRUE
  /\ IF part = "CommandLine" THEN build \in MCOptionBuilds ELSE build = Build(TRUE, FALSE, TRUE, TRUE, 2)
  /\ IF part = "EventCounts" THEN eventMachine \in EventMachines /\ forks \in {"fork", "exec", "no"}
     ELSE eventMachine = Counting({0, 2}, <<2, 0>>, 2, {}, {"SMI"}) /\ forks = "fork"
  /\ Init /\ TopologyInit /\ TestListInit /\ OptionsInit /\ EventsInit

MCNext ==
  \/ part = "RunTests" /\ Next /\ UNCHANGED <<topologyVars, testListVars, optionsVars, eventVars, part>>
  \/ part = "Topology" /\ TopologyNext /\ UNCHANGED <<vars, testListVars, optionsVars, eventVars, part>>
  \/ part = "TestList" /\ TestListNext /\ UNCHANGED <<vars, topologyVars, optionsVars, eventVars, part>>
  \/ part = "CommandLine" /\ OptionsNext /\ UNCHANGED <<vars, topologyVars, testListVars, eventVars, part>>
  \/ part = "EventCounts" /\ EventsNext /\ UNCHANGED <<vars, topologyVars, testListVars, optionsVars, part>>

MCSpec == MCInit /\ [][MCNext]_mcVars
=============================================================================

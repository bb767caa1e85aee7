--------------------------- MODULE MCBackgroundScan ---------------------------
(***************************************************************************)
(* One run for the service that tests in the background, for tests that    *)
(* use a virtual machine, as they do, for the time that a test is given,   *)
(* and for the random numbers it draws.  The parts share no state, so each *)
(* behaviour is one part's and the others stay in one initial state.       *)
(***************************************************************************)
EXTENDS BackgroundScan, KvmTest, TestTime, RandomNumbers

VARIABLE part

MCKvmConfigs == [addr_mode : {"real16", "prot64"}, handlers : SUBSET Handlers]

PlainTest ==
  [desired |-> 0, minimum |-> 0, maximum |-> 0, fracture |-> -1, test_time |-> 0, listed |-> 0, force |-> FALSE,
   idle |-> 0, max_loops |-> 0, max_time |-> 0, test_tests |-> FALSE, strict |-> Never, exec |-> FALSE,
   sequential |-> FALSE, loop |-> "do", least |-> 1, longest |-> 2, retests |-> 0, hot |-> FALSE, fails |-> FALSE]

\* the ways to fracture and to loop, with failures and retries; the options for the duration; a limit on the
\* iterations; --test-tests; a strict run time; tests that hang; hot CPUs and idle time
MCTimedTests ==
       {[PlainTest EXCEPT !.fracture = f, !.loop = l, !.sequential = s, !.fails = TRUE, !.retests = 1] :
          f \in {-1, 0, 2}, l \in {"do", "while", "none"}, s \in BOOLEAN}
  \cup {[PlainTest EXCEPT !.desired = d, !.test_time = t, !.listed = c, !.maximum = m, !.minimum = n, !.force = f] :
          d \in {-1, 0, 2, 6}, t \in {0, 4}, c \in {0, 5}, m \in {0, 3}, n \in {0, 5}, f \in BOOLEAN}
  \cup {[PlainTest EXCEPT !.desired = d, !.max_loops = 2, !.fails = TRUE, !.retests = 1] : d \in {-1, 0}}
  \cup {[PlainTest EXCEPT !.desired = 8, !.test_tests = TRUE, !.loop = l, !.least = p[1], !.longest = p[2],
                          !.sequential = s, !.exec = e] :
          l \in {"do", "while", "none"}, p \in {<<1, 1>>, <<2, 3>>, <<5, 5>>}, s \in BOOLEAN, e \in BOOLEAN}
  \cup {[PlainTest EXCEPT !.strict = 3, !.exec = e, !.fracture = f] : e \in BOOLEAN, f \in {-1, 2}}
  \cup {[PlainTest EXCEPT !.loop = "hang", !.desired = d, !.max_time = m] : d \in {2, 6, 7}, m \in {0, 3}}
  \cup {[PlainTest EXCEPT !.hot = TRUE, !.desired = 4, !.fracture = f, !.idle = i] : f \in {-1, 2}, i \in {0, 2}}

MCPlaces == {[package_id |-> p[1], core_id |-> p[2], thread_id |-> p[3]] : p \in {<<0, 0, 0>>, <<0, 0, 1>>, <<1, 3, 0>>}}
MCTestDraws == {[init |-> i, run |-> r] : i \in {<<>>, <<"mrand48">>}, r \in {<<"drand48">>, <<"rand", "random32">>}}

MCInit ==
  /\ part \in {"service", "kvm", "time", "random"}
  /\ IF part = "service" THEN hasFile \in BOOLEAN ELSE hasFile = TRUE
  /\ IF part = "kvm" THEN config \in KvmConfigs
     ELSE config = [addr_mode |-> "real16", handlers |-> {}]
  /\ IF part = "time" THEN test \in TimedTests ELSE test = PlainTest
  /\ IF part = "random" THEN RandomInit
     ELSE haveAes = TRUE /\ fork_mode = "fork" /\ cpu_info = <<CHOOSE p \in Places : TRUE>> /\ RandomInit
  /\ Init /\ KvmInit /\ TimeInit

MCNext ==
  /\ UNCHANGED part
  /\ \/ part = "service" /\ Next /\ UNCHANGED <<kvmVars, timeVars, randomVars>>
     \/ part = "kvm" /\ KvmNext /\ UNCHANGED <<vars, timeVars, randomVars>>
     \/ part = "time" /\ TimeNext /\ UNCHANGED <<vars, kvmVars, randomVars>>
     \/ part = "random" /\ RandomNext /\ UNCHANGED <<vars, kvmVars, timeVars>>

MCSpec == MCInit /\ [][MCNext]_<<part, vars, kvmVars, timeVars, randomVars>>
=============================================================================

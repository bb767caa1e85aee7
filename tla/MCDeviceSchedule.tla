--------------------------- MODULE MCDeviceSchedule ---------------------------
(***************************************************************************)
(* One run for what a test does with the CPUs besides running on them,     *)
(* rescheduling, scanning and setting their speed, for the start of its    *)
(* processes, and for the conversions of the numbers it computes with.     *)
(* The five share no state, so each behaviour is one part's and the others *)
(* stay in one initial state.                                              *)
(***************************************************************************)
EXTENDS DeviceSchedule, InFieldScan, FrequencyManager, ChildStart, FloatConversion

VARIABLE part

Machine(l, r, b, i) == [loadable |-> l, root |-> r, batches |-> b, images |-> i]
MCScanMachines ==
  {Machine(TRUE, TRUE, TRUE, {1, 2, 3}), Machine(TRUE, FALSE, TRUE, {1}),
   Machine(FALSE, TRUE, TRUE, {1, 3}), Machine(TRUE, TRUE, TRUE, {2}), Machine(TRUE, TRUE, FALSE, {})}
MCThreadIds == <<0, 1, 0>>

Found(core, uncore, status, governors, min, max, ranges) ==
  [core |-> core, uncore |-> uncore, status |-> status,
   governor |-> [c \in 0 .. 1 |-> governors[c + 1]], speed |-> [c \in 0 .. 1 |-> min + c],
   cpuinfo_min |-> min, cpuinfo_max |-> max, package_id |-> [c \in 0 .. 1 |-> c % Len(ranges)],
   min |-> [s \in 0 .. Len(ranges) - 1 |-> ranges[s + 1][1]],
   max |-> [s \in 0 .. Len(ranges) - 1 |-> ranges[s + 1][2]]]
MCFrequencyMachines ==
  {Found(m[1], m[2], g[1], g[2], r[1], r[2], r[3]) :
     m \in BOOLEAN \X BOOLEAN,
     g \in {<<"active", <<"powersave", "performance">>>>, <<"passive", <<"schedutil", "userspace">>>>},
     r \in {<<8, 40, << <<4, 16>> >> >>, <<8, 25, << <<4, 16>>, <<5, 17>> >> >>, <<8, 10, << <<4, 12>>, <<4, 12>> >> >>,
            <<8, 15, << <<4, 20>>, <<4, 9>> >> >>, <<8, 12, << <<4, 9>>, <<4, 20>> >> >>, <<8, 20, << <<4, 5>> >> >>}}

MCInit ==
  /\ part \in {"devices", "scan", "frequency", "start", "float"}
  /\ IF part = "devices" THEN schedule \in Schedules ELSE schedule = "barrier"
  /\ IF part = "scan" THEN machine \in ScanMachines ELSE machine = Machine(TRUE, TRUE, TRUE, {2})
  /\ IF part = "scan" THEN driver \in [loaded : BOOLEAN, current_batch : {0, Junk}, status : {"untested"}]
     ELSE driver = [loaded |-> FALSE, current_batch |-> 0, status |-> "untested"]
  /\ IF part = "frequency" THEN found \in FrequencyMachines
     ELSE found = CHOOSE f \in FrequencyMachines : TRUE
  /\ IF part = "start" THEN kernel \in Kernels /\ exec \in BOOLEAN
     ELSE kernel = [pidfd |-> TRUE, poll |-> TRUE, pid |-> TRUE] /\ exec = FALSE
  /\ IF part = "float" THEN floatIn \in Floats ELSE floatIn = 0
  /\ Init /\ ScanInit /\ FrequencyInit /\ StartInit /\ FloatInit

MCNext ==
  /\ UNCHANGED part
  /\ \/ part = "devices" /\ Next /\ UNCHANGED <<scanVars, frequencyVars, startVars, floatVars>>
     \/ part = "scan" /\ ScanNext /\ UNCHANGED <<vars, frequencyVars, startVars, floatVars>>
     \/ part = "frequency" /\ FrequencyNext /\ UNCHANGED <<vars, scanVars, startVars, floatVars>>
     \/ part = "start" /\ StartNext /\ UNCHANGED <<vars, scanVars, frequencyVars, floatVars>>
     \/ part = "float" /\ FloatNext /\ UNCHANGED <<vars, scanVars, frequencyVars, startVars>>

\* each part has the fairness of its own specification
MCSpec ==
  /\ MCInit /\ [][MCNext]_<<part, vars, scanVars, frequencyVars, startVars, floatVars>>
  /\ \A t \in Threads : WF_vars(part = "devices" /\ Step(t))
  /\ WF_startVars(part = "start" /\ StartStep)
=============================================================================

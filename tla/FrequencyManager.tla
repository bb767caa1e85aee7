--------------------------- MODULE FrequencyManager ---------------------------
(***************************************************************************)
(* --vary-frequency and --vary-uncore-frequency: the class in              *)
(* framework/frequency_manager.hpp and its callers in sandstone.cpp.  What *)
(* it finds in sysfs is saved, every run of a test (a fracture) takes the  *)
(* next of a few levels, and the end of the program puts things back.      *)
(*                                                                         *)
(* The kernel is modelled as the code relies on it: a speed can be set     *)
(* only under the governor "userspace", a write that is refused goes       *)
(* unnoticed, and a change of the driver's mode resets all governors.      *)
(***************************************************************************)
EXTENDS Integers, FiniteSets, Sequences, TLC

CONSTANTS
  FrequencyMachines,     \* what sysfs holds at first: see found
  MaxCoreLevels,         \* 16
  MaxUncoreLevels,       \* 8
  LevelStep,             \* the least distance of two levels: 100000 kHz
  FractureBound          \* bound: runs of a test

VARIABLES
  found,     \* [core, uncore : BOOLEAN] the options, and the rest as in sysfs
  sysfs,     \* [status, governor : CPU -> ., speed : CPU -> Int, min, max : socket -> Int]
  manager,   \* the object: what was saved, and the levels
  level_idx, \* [core, uncore : Nat]
  run,       \* where the program is
  fractures  \* history: since the test began

frequencyVars == <<found, sysfs, manager, level_idx, run, fractures>>

CpuNumbers == DOMAIN found.governor
Sockets == DOMAIN found.min

NothingSaved == [status |-> "", governor |-> <<>>, speed |-> <<>>, levels |-> <<>>, total |-> 0,
                 range |-> <<>>, uncore_levels |-> <<>>, uncore_total |-> 0]

FrequencyInit ==
  /\ found \in FrequencyMachines
  /\ sysfs = [f \in {"status", "governor", "speed", "min", "max"} |-> found[f]]
  /\ manager = NothingSaved /\ level_idx = [core |-> 0, uncore |-> 0]
  /\ run = "core" /\ fractures = 0

Smaller(a, b) == IF a < b THEN a ELSE b
-----------------------------------------------------------------------------
\* the kernel
Userspace(fs) == fs.status # "active"
DefaultGovernor(status) == IF status = "active" THEN "powersave" ELSE "schedutil"
Unsupported == -1

SetStatus(fs, status) ==
  [fs EXCEPT !.status = status, !.governor = [c \in DOMAIN @ |-> DefaultGovernor(status)]]
SpeedOf(fs, c) == IF fs.governor[c] = "userspace" THEN fs.speed[c] ELSE Unsupported
SetSpeed(fs, c, v) ==
  IF fs.governor[c] = "userspace" /\ v # Unsupported THEN [fs EXCEPT !.speed[c] = v] ELSE fs
-----------------------------------------------------------------------------
(***************************************************************************)
(* populate_frequency_levels(): the two ends, then the middle of every two *)
(* neighbours, until there are enough.                                     *)
(***************************************************************************)
Middles(levels) ==
  LET sorted == SortSeq(levels, LAMBDA a, b : a > b)
  IN [i \in 1 .. Len(sorted) - 1 |-> (sorted[i + 1] + sorted[i]) \div 2]

populate_frequency_levels(min, max, total) ==
  LET levels[n \in 0 .. total] ==
        IF n = 0 THEN <<max, min>>
        ELSE IF Len(levels[n - 1]) < total THEN levels[n - 1] \o Middles(levels[n - 1]) ELSE levels[n - 1]
  IN levels[total]

\* mutant: the governor is changed before it is saved
initial_core_frequency_setup_late(done) ==
  LET passive == IF Userspace(sysfs) THEN sysfs ELSE SetStatus(sysfs, "passive")
      set == [passive EXCEPT !.governor = [c \in CpuNumbers |-> "userspace"]]
  IN
  /\ run = "core" /\ found.core /\ done = Cardinality(CpuNumbers)
  /\ sysfs' = set
  /\ manager' = [manager EXCEPT
       !.status = IF Userspace(sysfs) THEN "" ELSE sysfs.status,
       !.governor = set.governor, !.speed = [c \in CpuNumbers |-> SpeedOf(set, c)],
       !.total = 1, !.levels = <<found.cpuinfo_max, found.cpuinfo_min>>]
  /\ run' = "uncore"
  /\ UNCHANGED <<found, level_idx, fractures>>

\* the file of a CPU after the first done cannot be opened: exit()
initial_core_frequency_setup(done) ==
  LET passive == IF Userspace(sysfs) THEN sysfs ELSE SetStatus(sysfs, "passive")
      total == Smaller(MaxCoreLevels, (found.cpuinfo_max - found.cpuinfo_min) \div LevelStep)
  IN
  /\ run = "core" /\ found.core
  /\ sysfs' = [passive EXCEPT !.governor = [c \in CpuNumbers |-> IF c < done THEN "userspace" ELSE @[c]]]
  /\ manager' = [manager EXCEPT
       !.status = IF Userspace(sysfs) THEN "" ELSE sysfs.status,
       !.governor = passive.governor, !.speed = [c \in CpuNumbers |-> SpeedOf(passive, c)],
       !.total = total,
       !.levels = populate_frequency_levels(found.cpuinfo_min, found.cpuinfo_max, total)]
  /\ run' = IF done = Cardinality(CpuNumbers) THEN "uncore" ELSE "exit"
  /\ UNCHANGED <<found, level_idx, fractures>>

\* total_uncore_frequency_levels is that of the last socket
initial_uncore_frequency_setup ==
  LET total(s) == Smaller(MaxUncoreLevels, (sysfs.max[s] - sysfs.min[s]) \div LevelStep)
      total_sockets == Cardinality({found.package_id[c] : c \in CpuNumbers})
      used_sockets == {s \in Sockets : s < total_sockets}
  IN
  /\ run = "uncore" /\ found.uncore
  /\ manager' = [manager EXCEPT
       !.range = [s \in used_sockets |-> <<sysfs.min[s], sysfs.max[s]>>],
       !.uncore_levels =
         [s \in used_sockets |-> populate_frequency_levels(sysfs.min[s], sysfs.max[s], total(s))],
       !.uncore_total = total(total_sockets - 1)]
  /\ run' = "between"
  /\ UNCHANGED <<found, sysfs, level_idx, fractures>>

NoSetup ==
  /\ \/ run = "core" /\ ~found.core /\ run' = "uncore"
     \/ run = "uncore" /\ ~found.uncore /\ run' = "between"
  /\ UNCHANGED <<found, sysfs, manager, level_idx, fractures>>
-----------------------------------------------------------------------------

\* core_frequency_level_idx++
CoreSteps == IF found.core THEN 1 ELSE 0

change_core_frequency(fs) ==
  LET level == manager.levels[(level_idx.core % manager.total) + 1]
  IN [fs EXCEPT !.speed = [c \in CpuNumbers |-> SetSpeed(fs, c, level).speed[c]]]

\* every socket takes the next level
UncoreIndex(s) == ((level_idx.uncore + s) % manager.uncore_total) + 1

change_uncore_frequency(fs) ==
  LET level(s) == manager.uncore_levels[s][UncoreIndex(s)]
      changed(s, old) == IF s \in DOMAIN manager.uncore_levels THEN level(s) ELSE old
  IN [fs EXCEPT !.min = [s \in Sockets |-> changed(s, @[s])], !.max = [s \in Sockets |-> changed(s, @[s])]]

\* a division by zero, or an index beyond the end
Undefined ==
  \/ found.core /\ IF manager.total = 0 THEN TRUE ELSE level_idx.core % manager.total >= Len(manager.levels)
  \/ found.uncore
     /\ IF manager.uncore_total = 0 THEN TRUE
        ELSE \E s \in DOMAIN manager.uncore_levels : UncoreIndex(s) > Len(manager.uncore_levels[s])

\* the next run of a test in run_one_test()
Fracture ==
  LET core == IF found.core THEN change_core_frequency(sysfs) ELSE sysfs
      next == IF found.uncore THEN change_uncore_frequency(core) ELSE core
      sockets == Cardinality(DOMAIN manager.uncore_levels)
  IN
  /\ run \in {"between", "test"} /\ fractures < FractureBound /\ ~Undefined
  /\ sysfs' = next
  /\ level_idx' = [core |-> level_idx.core + CoreSteps,
                   uncore |-> level_idx.uncore + (IF found.uncore THEN sockets ELSE 0)]
  /\ run' = "test" /\ fractures' = fractures + 1
  /\ UNCHANGED <<found, manager>>

FractureUndefined ==
  /\ run \in {"between", "test"} /\ Undefined
  /\ run' = "undefined"
  /\ UNCHANGED <<found, sysfs, manager, level_idx, fractures>>

\* the end of a test: reset_frequency_level_idx()
EndTest ==
  /\ run = "test"
  /\ run' = "between" /\ level_idx' = [core |-> 0, uncore |-> 0]
  /\ fractures' = 0
  /\ UNCHANGED <<found, sysfs, manager>>

restore_core_frequency_initial_state(fs) ==
  LET governors == [fs EXCEPT !.governor = manager.governor]
      speeds == [governors EXCEPT !.speed =
                   [c \in CpuNumbers |-> SetSpeed(governors, c, manager.speed[c]).speed[c]]]
  IN IF manager.status = "" THEN speeds ELSE SetStatus(speeds, manager.status)

restore_uncore_frequency_initial_state(fs) ==
  LET saved == DOMAIN manager.range IN
  [fs EXCEPT !.min = [s \in Sockets |-> IF s \in saved THEN manager.range[s][1] ELSE @[s]],
             !.max = [s \in Sockets |-> IF s \in saved THEN manager.range[s][2] ELSE @[s]]]

\* after the last test, a fatal error or a signal
cleanup_global ==
  LET core == IF found.core THEN restore_core_frequency_initial_state(sysfs) ELSE sysfs
  IN
  /\ run \in {"between", "test"}
  /\ sysfs' = IF found.uncore THEN restore_uncore_frequency_initial_state(core) ELSE core
  /\ run' = "ended"
  /\ UNCHANGED <<found, manager, level_idx, fractures>>

FrequencyNext ==
  \/ \E done \in 0 .. Cardinality(CpuNumbers) : initial_core_frequency_setup(done)
  \/ initial_uncore_frequency_setup \/ NoSetup \/ Fracture \/ FractureUndefined \/ EndTest \/ cleanup_global

FrequencySpec == FrequencyInit /\ [][FrequencyNext]_frequencyVars
-----------------------------------------------------------------------------
(***************************************************************************)
(* When the program has ended, by itself or by a signal it handles, the    *)
(* driver's mode, the governors, the speeds and the ranges are those it    *)
(* found; but not a governor other than the driver's default if it changed *)
(* the mode.                                                               *)
(***************************************************************************)
Restored ==
  run = "ended" =>
    /\ sysfs.status = found.status /\ sysfs.min = found.min /\ sysfs.max = found.max
    /\ \A c \in CpuNumbers :
         /\ \/ sysfs.governor[c] = found.governor[c]
            \/ found.core /\ ~Userspace(found) /\ found.governor[c] # DefaultGovernor(found.status)
         /\ found.governor[c] = "userspace" => sysfs.speed[c] = found.speed[c]
=============================================================================

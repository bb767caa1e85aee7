----------------------------- MODULE SlicePlan -----------------------------
(***************************************************************************)
(* How the CPUs are divided into slices: slice_plan_init() and its users   *)
(* commit_shmem() and slices_for_test() in framework/sandstone.cpp.  The   *)
(* array cpu_info is sorted by package, NUMA node, module and core, so     *)
(* that build_topology() (framework/topology.cpp) finds each of them as a  *)
(* run of equal ids; a position in the topology is the number of the CPU   *)
(* it starts with.                                                         *)
(***************************************************************************)
EXTENDS Integers, Sequences, FiniteSets

CONSTANTS
  NumCpus,
  CpuInfos,                  \* the machines: CPU -> its ids
  DefaultMaxCoresPerSlice,   \* 32
  MinimumCpusPerSocket,      \* 8
  MaxOption                  \* bound: largest --max-cores-per-slice

Cpus == 0 .. NumCpus - 1

ASSUME CpuAssumption == NumCpus \in Nat \ {0}
ASSUME LimitAssumption == /\ DefaultMaxCoresPerSlice \in Nat \ {0}
                          /\ MinimumCpusPerSocket \in Nat
                          /\ MaxOption \in Nat
CpuInfo == [Cpus -> [package_id : Int, numa_id : Int, module_id : Int, core_id : Int]]

ASSUME InfoAssumption == \A info \in CpuInfos : info \in CpuInfo

VARIABLES
  cpu_info,
  valid,                \* Topology::isValid(): every id is known
  no_fork,
  max_cores_per_slice,
  pc,
  isolate_socket, split,   \* the two plans
  position,             \* first CPU of the package, then of the slice, to come
  pkg_end, node_end,    \* end of the package and of the NUMA node being split
  slice_size

topoVars == <<cpu_info, valid, no_fork>>
vars == <<topoVars, max_cores_per_slice, pc, isolate_socket, split, position, pkg_end, node_end,
          slice_size>>

CpuRange(start, end) == [starting_cpu |-> start, cpu_count |-> end - start]

\* the run of equal ids that starts at lo ends at e
RunEnds(Id(_), lo, hi, e) ==
  /\ lo < e /\ e <= hi
  /\ \A c \in lo .. e - 1 : Id(c) = Id(lo)
  /\ e < hi => Id(e) # Id(lo)

package_id(c) == cpu_info[c].package_id
numa_id(c)    == cpu_info[c].numa_id
SameModule(c) == cpu_info[c].module_id = cpu_info[c - 1].module_id
SameCore(c)   == cpu_info[c].core_id = cpu_info[c - 1].core_id

\* cores.size() of a group, as populate_core_group() fills it
CoreCount(lo, hi) == Cardinality({c \in lo .. hi - 1 : c = lo \/ ~SameCore(c)})

PackageCount == Cardinality({c \in Cpus : c = 0 \/ package_id(c) # package_id(c - 1)})

Init ==
  /\ cpu_info \in CpuInfos /\ valid \in BOOLEAN /\ no_fork \in BOOLEAN
  /\ max_cores_per_slice \in -1 .. MaxOption
  /\ pc = "start"
  /\ isolate_socket = <<>> /\ split = <<>>
  /\ position = 0 /\ pkg_end = 0 /\ node_end = 0 /\ slice_size = 0
-----------------------------------------------------------------------------
set_to_full_system ==
  /\ isolate_socket' = <<CpuRange(0, NumCpus)>>
  /\ split' = <<CpuRange(0, NumCpus)>>
  /\ pc' = "done"
  /\ UNCHANGED <<topoVars, max_cores_per_slice, position, pkg_end, node_end, slice_size>>

FullSystem ==
  /\ pc = "start"
  /\ \/ no_fork \/ max_cores_per_slice < 0
     \/ ~valid /\ max_cores_per_slice = 0
  /\ set_to_full_system

FewCpusPerSocket == NumCpus \div PackageCount <= MinimumCpusPerSocket

ByTopology ==
  /\ pc = "start" /\ valid /\ ~no_fork /\ max_cores_per_slice >= 0
  /\ max_cores_per_slice = 0 => ~FewCpusPerSocket
  /\ max_cores_per_slice' = IF max_cores_per_slice = 0 THEN DefaultMaxCoresPerSlice
                            ELSE max_cores_per_slice
  /\ pc' = "package"
  /\ UNCHANGED <<topoVars, isolate_socket, split, position, pkg_end, node_end, slice_size>>

\* the "dumb" plan counts CPUs, not cores
ByNumber ==
  /\ pc = "start" /\ ~no_fork
  /\ \/ valid /\ max_cores_per_slice = 0 /\ FewCpusPerSocket
     \/ ~valid /\ max_cores_per_slice > 0
  /\ LET max == IF max_cores_per_slice = 0 THEN DefaultMaxCoresPerSlice
                ELSE max_cores_per_slice
     IN  /\ max_cores_per_slice' = max
         /\ slice_size' = NumCpus \div ((NumCpus - 1) \div max + 1)
  /\ pc' = "number"
  /\ UNCHANGED <<topoVars, isolate_socket, split, position, pkg_end, node_end>>

NumberedSlice ==
  /\ pc = "number"
  /\ LET more == position < NumCpus - slice_size
         next == IF more THEN position + slice_size ELSE NumCpus
     IN  /\ split' = Append(split, CpuRange(position, next))
         /\ isolate_socket' = split'
         /\ position' = next
         /\ pc' = IF more THEN "number" ELSE "done"
  /\ UNCHANGED <<topoVars, max_cores_per_slice, pkg_end, node_end, slice_size>>
-----------------------------------------------------------------------------
(***************************************************************************)
(* The next package: it is a slice of its own in one plan; if it is small, *)
(* in the other one, too, else its NUMA nodes are split.                   *)
(***************************************************************************)
\* mutant: a small package is not added to the other plan
Package_unsplit ==
  /\ pc = "package" /\ position < NumCpus
  /\ \E end \in Cpus \cup {NumCpus} :
       /\ RunEnds(package_id, position, NumCpus, end)
       /\ isolate_socket' = Append(isolate_socket, CpuRange(position, end))
       /\ IF CoreCount(position, end) <= max_cores_per_slice
          THEN /\ position' = end
               /\ UNCHANGED <<split, pc, pkg_end>>
          ELSE /\ pc' = "node" /\ pkg_end' = end
               /\ UNCHANGED <<split, position>>
  /\ UNCHANGED <<topoVars, max_cores_per_slice, node_end, slice_size>>

Package ==
  /\ pc = "package" /\ position < NumCpus
  /\ \E end \in Cpus \cup {NumCpus} :
       /\ RunEnds(package_id, position, NumCpus, end)
       /\ isolate_socket' = Append(isolate_socket, CpuRange(position, end))
       /\ IF CoreCount(position, end) <= max_cores_per_slice
          THEN /\ split' = isolate_socket' /\ position' = end
               /\ UNCHANGED <<pc, pkg_end>>
          ELSE /\ pc' = "node" /\ pkg_end' = end
               /\ UNCHANGED <<split, position>>
  /\ UNCHANGED <<topoVars, max_cores_per_slice, node_end, slice_size>>

PackagesDone ==
  /\ pc = "package" /\ position = NumCpus
  /\ pc' = "done"
  /\ UNCHANGED <<topoVars, max_cores_per_slice, isolate_socket, split, position, pkg_end,
                 node_end, slice_size>>

\* mutant: the number of slices is rounded down
RoundUp_down(n, m) == IF n < m THEN 1 ELSE n \div m

RoundUp(n, m) == n \div m + (IF n % m # 0 THEN 1 ELSE 0)

\* the next NUMA node of the package
NumaNode ==
  /\ pc = "node" /\ position < pkg_end
  /\ \E end \in Cpus \cup {NumCpus} :
       /\ RunEnds(numa_id, position, pkg_end, end)
       /\ node_end' = end
       /\ LET n == CoreCount(position, end)
          IN  slice_size' = n \div RoundUp(n, max_cores_per_slice)
  /\ pc' = "slice"
  /\ UNCHANGED <<topoVars, max_cores_per_slice, isolate_socket, split, position, pkg_end>>

NodesDone ==
  /\ pc = "node" /\ position = pkg_end
  /\ pc' = "package"
  /\ UNCHANGED <<topoVars, max_cores_per_slice, isolate_socket, split, position, pkg_end,
                 node_end, slice_size>>

\* slice_size cores from here, and on to the end of the module
SliceEnds(e) ==
  \E first \in position + 1 .. node_end - 1 :
    /\ ~SameCore(first) /\ CoreCount(position, first) = slice_size
    /\ e >= first
    /\ \A c \in first .. e - 1 : SameCore(c) \/ SameModule(c)
    /\ e < node_end => ~SameCore(e) /\ ~SameModule(e)

Slice ==
  /\ pc = "slice" /\ position < node_end
  /\ \E end \in position + 1 .. node_end :
       /\ IF CoreCount(position, node_end) > slice_size THEN SliceEnds(end) ELSE end = node_end
       /\ split' = Append(split, CpuRange(position, end))
       /\ position' = end
  /\ UNCHANGED <<topoVars, max_cores_per_slice, pc, isolate_socket, pkg_end, node_end,
                 slice_size>>

SlicesDone ==
  /\ pc = "slice" /\ position = node_end
  /\ pc' = "node"
  /\ UNCHANGED <<topoVars, max_cores_per_slice, isolate_socket, split, position, pkg_end,
                 node_end, slice_size>>

Planned == pc = "done" /\ UNCHANGED vars

Next == \/ FullSystem \/ ByTopology \/ ByNumber \/ NumberedSlice \/ Package \/ PackagesDone
        \/ NumaNode \/ NodesDone \/ Slice \/ SlicesDone \/ Planned

Spec == Init /\ [][Next]_vars
-----------------------------------------------------------------------------
Ranges == [starting_cpu : Cpus, cpu_count : 1 .. NumCpus]

TypeOK ==
  /\ cpu_info \in CpuInfo /\ valid \in BOOLEAN /\ no_fork \in BOOLEAN
  /\ max_cores_per_slice \in Int
  /\ pc \in {"start", "number", "package", "node", "slice", "done"}
  /\ isolate_socket \in Seq(Ranges) /\ split \in Seq(Ranges)
  /\ position \in 0..NumCpus /\ pkg_end \in 0..NumCpus /\ node_end \in 0..NumCpus
  /\ slice_size \in 0..NumCpus

End(range) == range.starting_cpu + range.cpu_count

\* plan covers the CPUs before n, each once and in order
Tiles(plan, n) ==
  IF plan = <<>> THEN n = 0
  ELSE /\ plan[1].starting_cpu = 0
       /\ \A i \in 1 .. Len(plan) - 1 : plan[i + 1].starting_cpu = End(plan[i])
       /\ End(plan[Len(plan)]) = n

(***************************************************************************)
(* Whatever the machine and the option, both plans give every CPU to       *)
(* exactly one slice: the children of a test leave no CPU untested and     *)
(* share no per-thread data.                                               *)
(***************************************************************************)
Partition == pc = "done" => Tiles(isolate_socket, NumCpus) /\ Tiles(split, NumCpus)

(***************************************************************************)
(* commit_shmem() reserves a PerThreadData::Main per slice of the last     *)
(* plan, and slices_for_test() fills one in for each slice of the plan the *)
(* test asks for: there are never too few.                                 *)
(***************************************************************************)
PlansFit == pc = "done" => Len(split) >= Len(isolate_socket)

Boundary(c) ==
  \/ package_id(c) # package_id(c - 1)
  \/ numa_id(c) # numa_id(c - 1)
  \/ ~SameCore(c) /\ ~SameModule(c)

(***************************************************************************)
(* When the topology is used, no slice boundary cuts a module or a core in *)
(* two.                                                                    *)
(***************************************************************************)
ModulesTogether ==
  pc = "package" => \A plan \in {isolate_socket, split} :
                      \A i \in 2 .. Len(plan) : Boundary(plan[i].starting_cpu)

\* the cores of a slice beyond the limit are there for the sake of a module
Justified(range) ==
  \A c \in range.starting_cpu + 1 .. End(range) - 1 :
    ~SameCore(c) /\ CoreCount(range.starting_cpu, c) = max_cores_per_slice => SameModule(c)

SmallAfterBig ==
  \E i, j \in 1 .. Len(isolate_socket) :
    /\ i < j
    /\ CoreCount(isolate_socket[i].starting_cpu, End(isolate_socket[i])) > max_cores_per_slice
    /\ CoreCount(isolate_socket[j].starting_cpu, End(isolate_socket[j])) <= max_cores_per_slice

(***************************************************************************)
(* A slice has more cores than max_cores_per_slice only where a module     *)
(* would otherwise be cut in two: NUMA nodes are split evenly and a slice  *)
(* is extended only to the end of a module.  This holds on machines where  *)
(* no package without need to be split follows one that has it: there      *)
(* split = isolate_socket undoes the splitting.                            *)
(***************************************************************************)
LimitKept ==
  pc = "package" /\ ~SmallAfterBig => \A i \in 1 .. Len(split) : Justified(split[i])
=============================================================================

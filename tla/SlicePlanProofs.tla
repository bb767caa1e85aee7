-------------------------- MODULE SlicePlanProofs --------------------------
(***************************************************************************)
(* For every machine and every --max-cores-per-slice: the plans are        *)
(* partitions of the CPUs, the last plan has the most slices, and no       *)
(* module is cut in two.                                                   *)
(***************************************************************************)
EXTENDS SlicePlan, FiniteSetTheorems, TLAPS

Bounds == 0 .. NumCpus

\* the CPU after which a slice ends is the last of a module, or the last
Clean(c) == c \in 1 .. NumCpus - 1 => Boundary(c)
CleanPlan(plan) == \A i \in 1 .. Len(plan) : Clean(plan[i].starting_cpu)

LimitInv == pc \in {"package", "node", "slice"} => max_cores_per_slice \in Nat \ {0}

NumberInv ==
  pc = "number" => /\ isolate_socket = split
                   /\ position \in Cpus /\ slice_size \in 1 .. NumCpus

StartInv == pc = "start" => position = 0 /\ isolate_socket = <<>> /\ split = <<>>

TileInv ==
  /\ pc \in {"start", "number", "package"} => Tiles(isolate_socket, position)
  /\ pc # "done" => Tiles(split, position)
  /\ pc \in {"node", "slice"} => Tiles(isolate_socket, pkg_end)
  /\ pc = "done" => Tiles(isolate_socket, NumCpus) /\ Tiles(split, NumCpus)

LastStart == isolate_socket[Len(isolate_socket)].starting_cpu

SplitInv ==
  /\ pc \in {"node", "slice"} => /\ isolate_socket # <<>>
                                 /\ LastStart <= position /\ position <= pkg_end
                                 /\ Len(split) >= Len(isolate_socket) - 1
                                 /\ position > LastStart => Len(split) >= Len(isolate_socket)
  /\ pc = "slice" => position <= node_end /\ node_end <= pkg_end

FitInv == pc \in {"start", "package", "number", "done"} => Len(split) >= Len(isolate_socket)

CleanInv ==
  pc \in {"package", "node", "slice"} =>
    /\ Clean(position) /\ CleanPlan(isolate_socket) /\ CleanPlan(split)
    /\ pc # "package" => Clean(pkg_end)
    /\ pc = "slice" => Clean(node_end)

IInv == TypeOK /\ LimitInv /\ NumberInv /\ TileInv /\ SplitInv /\ FitInv /\ CleanInv /\ StartInv
-----------------------------------------------------------------------------
(***************************************************************************)
(* Division of natural numbers, for slice_count and slice_size.            *)
(***************************************************************************)
LEMMA DivBounds ==
  ASSUME NEW n \in Nat, NEW k \in Nat \ {0}
  PROVE  /\ n \div k \in 0 .. n
         /\ n >= k => n \div k >= 1
<1> DEFINE q == n \div k
<1>1. q \in Int /\ n = k * q + (n % k) /\ n % k \in 0 .. k - 1
  BY Z3
<1> HIDE DEF q
<1>2. q >= 0
  <2> SUFFICES ASSUME q <= -1 PROVE FALSE
    BY <1>1
  <2>1. k * q <= -k
    BY <1>1
  <2> QED
    BY <2>1, <1>1
<1>3. q <= n
  <2> SUFFICES ASSUME q >= n + 1 PROVE FALSE
    BY <1>1
  <2>1. k * q >= q
    BY <1>1
  <2> QED
    BY <2>1, <1>1
<1>4. n >= k => q >= 1
  <2> SUFFICES ASSUME n >= k, q = 0 PROVE FALSE
    BY <1>1, <1>2
  <2> QED
    BY <1>1
<1> QED
  BY <1>1, <1>2, <1>3, <1>4 DEF q

(***************************************************************************)
(* A group of cores is not empty and has no more cores than CPUs.          *)
(***************************************************************************)
LEMMA CoreCountBounds ==
  ASSUME NEW lo \in Cpus, NEW hi \in lo + 1 .. NumCpus
  PROVE  CoreCount(lo, hi) \in 1 .. NumCpus
<1> DEFINE S == {c \in lo .. hi - 1 : c = lo \/ ~SameCore(c)}
<1>0. lo \in Int /\ hi \in Int /\ lo >= 0 /\ lo < hi /\ hi <= NumCpus
  BY CpuAssumption DEF Cpus
<1>1. IsFiniteSet(lo .. hi - 1) /\ Cardinality(lo .. hi - 1) = hi - lo
  <2>1. \A a, b \in Int : /\ IsFiniteSet(a .. b)
                          /\ Cardinality(a .. b) = IF a > b THEN 0 ELSE b - a + 1
    BY FS_Interval
  <2>0. lo \in Int /\ hi - 1 \in Int
    BY <1>0
  <2>2. /\ IsFiniteSet(lo .. hi - 1)
        /\ Cardinality(lo .. hi - 1) = IF lo > hi - 1 THEN 0 ELSE hi - 1 - lo + 1
    BY ONLY <2>0, <2>1, Zenon
  <2> QED
    BY <2>2, <1>0
<1>2. IsFiniteSet(S) /\ Cardinality(S) <= hi - lo
  <2>1. S \in SUBSET (lo .. hi - 1)
    OBVIOUS
  <2> HIDE DEF S
  <2> QED
    BY <1>1, <2>1, FS_Subset
<1>3. lo \in S
  BY <1>0
<1>4. Cardinality(S) \in Nat /\ Cardinality(S) # 0
  BY <1>2, <1>3, FS_CardinalityType, FS_EmptySet
<1>5. Cardinality(S) \in 1 .. NumCpus
  <2> HIDE DEF S
  <2> QED
    BY <1>0, <1>2, <1>4, CpuAssumption
<1> QED
  BY <1>5 DEF CoreCount

(***************************************************************************)
(* The number of slices of a NUMA node is rounded up to at least one.      *)
(***************************************************************************)
LEMMA RoundUpPositive ==
  ASSUME NEW n \in Nat \ {0}, NEW m \in Nat \ {0}
  PROVE  RoundUp(n, m) \in Nat \ {0}
<1>1. n \div m \in Nat /\ (n >= m => n \div m >= 1)
  BY DivBounds
<1>2. n < m => n % m = n
  BY Z3
<1> QED
  BY <1>1, <1>2 DEF RoundUp

(***************************************************************************)
(* push_to(): a plan that ends where the new slice starts.                 *)
(***************************************************************************)
LEMMA AppendTiles ==
  ASSUME NEW plan \in Seq(Ranges), NEW n \in Cpus, Tiles(plan, n),
         NEW e \in n + 1 .. NumCpus
  PROVE  /\ Append(plan, CpuRange(n, e)) \in Seq(Ranges)
         /\ Tiles(Append(plan, CpuRange(n, e)), e)
         /\ Len(Append(plan, CpuRange(n, e))) = Len(plan) + 1
         /\ Append(plan, CpuRange(n, e))[Len(plan) + 1].starting_cpu = n
         /\ Clean(n) /\ CleanPlan(plan) => CleanPlan(Append(plan, CpuRange(n, e)))
<1> DEFINE new == Append(plan, CpuRange(n, e))
<1>0. n \in Nat /\ e \in Nat /\ n < e /\ e <= NumCpus
  BY CpuAssumption DEF Cpus
<1>1. CpuRange(n, e) \in Ranges /\ End(CpuRange(n, e)) = e /\ CpuRange(n, e).starting_cpu = n
  BY <1>0, CpuAssumption DEF CpuRange, Ranges, End
<1>2. /\ new \in Seq(Ranges) /\ Len(new) = Len(plan) + 1
      /\ new[Len(plan) + 1] = CpuRange(n, e)
      /\ \A i \in 1 .. Len(plan) : new[i] = plan[i]
  BY <1>1
<1> HIDE DEF new
<1>3. Len(plan) \in Nat /\ new # <<>>
  BY <1>2
<1>4. Tiles(new, e)
  <2>1. CASE plan = <<>>
    <3>1. n = 0 /\ Len(plan) = 0
      BY <2>1 DEF Tiles
    <3> QED
      BY <3>1, <1>1, <1>2, <1>3 DEF Tiles
  <2>2. CASE plan # <<>>
    <3>1. /\ plan[1].starting_cpu = 0 /\ End(plan[Len(plan)]) = n /\ Len(plan) >= 1
          /\ \A i \in 1 .. Len(plan) - 1 : plan[i + 1].starting_cpu = End(plan[i])
      BY <2>2, <1>3 DEF Tiles
    <3>2. new[1].starting_cpu = 0
      BY <3>1, <1>2, <1>3
    <3>3. \A i \in 1 .. Len(new) - 1 : new[i + 1].starting_cpu = End(new[i])
      <4> SUFFICES ASSUME NEW i \in 1 .. Len(plan) PROVE new[i + 1].starting_cpu = End(new[i])
        BY <1>2, <1>3
      <4>1. CASE i = Len(plan)
        BY <4>1, <1>1, <1>2, <1>3, <3>1
      <4>2. CASE i < Len(plan)
        BY <4>2, <1>2, <1>3, <3>1
      <4> QED
        BY <4>1, <4>2, <1>3
    <3> QED
      BY <3>2, <3>3, <1>1, <1>2, <1>3 DEF Tiles
  <2> QED
    BY <2>1, <2>2
<1>5. ASSUME Clean(n), CleanPlan(plan) PROVE CleanPlan(new)
  BY <1>5, <1>1, <1>2, <1>3 DEF CleanPlan
<1> QED
  BY <1>1, <1>2, <1>4, <1>5 DEF new

(***************************************************************************)
(* The three facts about a run of equal ids that the steps use.            *)
(***************************************************************************)
LEMMA PackageEnds ==
  ASSUME NEW lo \in Cpus, NEW hi \in Bounds, NEW e, RunEnds(package_id, lo, hi, e),
         e \in Bounds
  PROVE  e \in lo + 1 .. NumCpus /\ e <= hi /\ (e < hi => Clean(e))
<1>1. lo < e /\ e <= hi /\ (e < hi => package_id(e) # package_id(lo))
  BY DEF RunEnds
<1>2. package_id(e - 1) = package_id(lo)
  BY <1>1, CpuAssumption DEF RunEnds, Bounds, Cpus
<1> QED
  BY <1>1, <1>2, CpuAssumption DEF Clean, Boundary, Bounds, Cpus

LEMMA NodeEnds ==
  ASSUME NEW lo \in Cpus, NEW hi \in Bounds, NEW e, RunEnds(numa_id, lo, hi, e),
         e \in Bounds
  PROVE  e \in lo + 1 .. NumCpus /\ e <= hi /\ (e < hi => Clean(e))
<1>1. lo < e /\ e <= hi /\ (e < hi => numa_id(e) # numa_id(lo))
  BY DEF RunEnds
<1>2. numa_id(e - 1) = numa_id(lo)
  BY <1>1, CpuAssumption DEF RunEnds, Bounds, Cpus
<1> QED
  BY <1>1, <1>2, CpuAssumption DEF Clean, Boundary, Bounds, Cpus

(***************************************************************************)
(* The inductive invariant holds initially and is kept by every step.      *)
(***************************************************************************)
LEMMA InitIInv == Init => IInv
<1> SUFFICES ASSUME Init PROVE IInv
  OBVIOUS
<1> USE DEF Init
<1>1. TypeOK
  BY InfoAssumption, CpuAssumption, LimitAssumption DEF TypeOK
<1> QED
  BY <1>1 DEF IInv, LimitInv, NumberInv, TileInv, SplitInv, FitInv, CleanInv, StartInv, Tiles

\* Boundary() is about cpu_info only
LEMMA CleanStable ==
  ASSUME UNCHANGED cpu_info
  PROVE  /\ \A c : Clean(c)' <=> Clean(c)
BY DEF Clean, Boundary, package_id, numa_id, SameCore, SameModule

LEMMA StepIInv == IInv /\ [Next]_vars => IInv'
<1> SUFFICES ASSUME IInv, [Next]_vars PROVE IInv'
  OBVIOUS
<1> USE CpuAssumption
<1>t. TypeOK /\ LimitInv /\ NumberInv /\ TileInv /\ SplitInv /\ FitInv /\ CleanInv /\ StartInv
  BY DEF IInv
<1> SUFFICES /\ TypeOK' /\ LimitInv' /\ NumberInv' /\ TileInv' /\ SplitInv' /\ FitInv'
             /\ CleanInv' /\ StartInv'
  BY DEF IInv
<1>c. cpu_info' = cpu_info
  BY DEF Next, vars, topoVars, FullSystem, set_to_full_system, ByTopology, ByNumber,
     NumberedSlice, Package, PackagesDone, NumaNode, NodesDone, Slice, SlicesDone, Planned
<1>k. \A x : Clean(x)' <=> Clean(x)
  BY <1>c, CleanStable
<1>1. CASE UNCHANGED vars
  <2>1. CleanInv'
    BY <1>t, <1>1, <1>k DEF CleanInv, CleanPlan, vars
  <2> QED
    BY <2>1, <1>t, <1>1 DEF vars, topoVars, TypeOK, LimitInv, NumberInv, TileInv, SplitInv, FitInv,
       StartInv, LastStart, Tiles, End
<1>2. CASE FullSystem
  <2> USE <1>2 DEF FullSystem, set_to_full_system, topoVars
  <2>1. /\ CpuRange(0, NumCpus) \in Ranges /\ End(CpuRange(0, NumCpus)) = NumCpus
        /\ CpuRange(0, NumCpus).starting_cpu = 0
    BY DEF CpuRange, Ranges, Cpus, End
  <2>2. Tiles(<<CpuRange(0, NumCpus)>>, NumCpus)
    BY <2>1 DEF Tiles
  <2>3. TypeOK'
    BY <1>t, <2>1 DEF TypeOK
  <2> QED
    BY <2>2, <2>3, <1>t DEF LimitInv, NumberInv, TileInv, SplitInv, FitInv, CleanInv, StartInv
<1>3. CASE ByTopology
  <2> USE <1>3 DEF ByTopology, topoVars
  <2>1. TypeOK' /\ LimitInv'
    BY <1>t, LimitAssumption DEF TypeOK, LimitInv
  <2>2. position = 0 /\ isolate_socket = <<>> /\ split = <<>>
    BY <1>t DEF StartInv
  <2> QED
    BY <2>1, <2>2, <1>t DEF NumberInv, TileInv, SplitInv, FitInv, CleanInv, Clean, CleanPlan, Tiles,
       StartInv
<1>4. CASE ByNumber
  <2> USE <1>4 DEF ByNumber, topoVars
  <2>1. position = 0 /\ isolate_socket = <<>> /\ split = <<>>
    BY <1>t DEF StartInv
  <2>2. PICK m \in Nat \ {0} :
          /\ max_cores_per_slice' = m
          /\ slice_size' = NumCpus \div ((NumCpus - 1) \div m + 1)
    BY <1>t, LimitAssumption DEF TypeOK
  <2>3. PICK n \in Nat : n = NumCpus - 1
    OBVIOUS
  <2>4. n \div m \in 0 .. n
    BY <2>2, DivBounds
  <2>5. slice_size' \in 1 .. NumCpus
    <3>1. PICK k \in Nat \ {0} : k = n \div m + 1 /\ k <= NumCpus
      BY <2>3, <2>4
    <3>2. NumCpus \div k \in 0 .. NumCpus /\ NumCpus \div k >= 1
      BY <3>1, DivBounds
    <3>3. slice_size' = NumCpus \div k
      BY ONLY <2>2, <2>3, <3>1
    <3> QED
      BY ONLY <3>2, <3>3, CpuAssumption
  <2>6. TypeOK'
    BY <1>t, <2>2, <2>5 DEF TypeOK
  <2> QED
    BY <2>1, <2>5, <2>6, <1>t DEF LimitInv, NumberInv, TileInv, SplitInv, FitInv, CleanInv, Tiles,
       StartInv, Cpus
<1>5. CASE NumberedSlice
  <2> DEFINE more == position < NumCpus - slice_size
             next == IF more THEN position + slice_size ELSE NumCpus
  <2>1. /\ pc = "number" /\ split' = Append(split, CpuRange(position, next))
        /\ isolate_socket' = split' /\ position' = next
        /\ pc' = IF more THEN "number" ELSE "done"
        /\ UNCHANGED <<cpu_info, valid, no_fork, max_cores_per_slice, pkg_end, node_end, slice_size>>
    BY <1>5 DEF NumberedSlice, topoVars
  <2>2. position \in Cpus /\ slice_size \in 1 .. NumCpus /\ Tiles(split, position)
    BY <1>t, <2>1 DEF NumberInv, TileInv
  <2>3. /\ next \in position + 1 .. NumCpus
        /\ more => next \in Cpus
        /\ ~more => next = NumCpus
    BY <2>2 DEF Cpus
  <2> HIDE DEF next, more
  <2>4. /\ split' \in Seq(Ranges) /\ Tiles(split', next)
    BY <2>1, <2>2, <2>3, <1>t, AppendTiles DEF TypeOK
  <2>5. TypeOK'
    BY <1>t, <2>1, <2>2, <2>3, <2>4 DEF TypeOK, Cpus
  <2> QED
    BY <2>1, <2>2, <2>3, <2>4, <2>5 DEF LimitInv, NumberInv, TileInv, SplitInv, FitInv, CleanInv,
       StartInv
<1>6. CASE Package
  <2>1. PICK end \in Cpus \cup {NumCpus} :
          /\ RunEnds(package_id, position, NumCpus, end)
          /\ isolate_socket' = Append(isolate_socket, CpuRange(position, end))
          /\ IF CoreCount(position, end) <= max_cores_per_slice
             THEN /\ split' = isolate_socket' /\ position' = end
                  /\ UNCHANGED <<pc, pkg_end>>
             ELSE /\ pc' = "node" /\ pkg_end' = end
                  /\ UNCHANGED <<split, position>>
    BY <1>6 DEF Package
  <2>2. /\ pc = "package" /\ position \in Cpus
        /\ UNCHANGED <<cpu_info, valid, no_fork, max_cores_per_slice, node_end, slice_size>>
    BY <1>6, <1>t DEF Package, topoVars, TypeOK, Cpus
  <2>3. end \in Bounds /\ NumCpus \in Bounds
    BY DEF Bounds, Cpus
  <2>4. end \in position + 1 .. NumCpus /\ Clean(end)
    <3>1. end \in position + 1 .. NumCpus /\ (end < NumCpus => Clean(end))
      BY <2>1, <2>2, <2>3, PackageEnds
    <3> QED
      BY <3>1 DEF Clean
  <2>5. /\ Tiles(isolate_socket, position) /\ Tiles(split, position)
        /\ Clean(position) /\ CleanPlan(isolate_socket) /\ CleanPlan(split)
        /\ Len(split) >= Len(isolate_socket) /\ max_cores_per_slice \in Nat \ {0}
        /\ isolate_socket \in Seq(Ranges) /\ split \in Seq(Ranges)
    BY <1>t, <2>2 DEF TileInv, CleanInv, FitInv, LimitInv, TypeOK
  <2>6. /\ isolate_socket' \in Seq(Ranges) /\ Tiles(isolate_socket', end)
        /\ Len(isolate_socket') = Len(isolate_socket) + 1
        /\ isolate_socket'[Len(isolate_socket) + 1].starting_cpu = position
        /\ CleanPlan(isolate_socket')
    BY <2>1, <2>2, <2>4, <2>5, AppendTiles
  <2>7. CASE CoreCount(position, end) <= max_cores_per_slice
    <3>1. /\ split' = isolate_socket' /\ position' = end /\ pc' = "package"
          /\ pkg_end' = pkg_end
      BY <2>1, <2>2, <2>7
    <3>2. TypeOK'
      BY <1>t, <2>2, <2>3, <2>6, <3>1 DEF TypeOK, Bounds
    <3>3. CleanInv'
      BY <2>4, <2>6, <3>1, <1>k DEF CleanInv, CleanPlan
    <3> QED
      BY <2>2, <2>5, <2>6, <3>1, <3>2, <3>3 DEF LimitInv, NumberInv, TileInv, SplitInv, FitInv,
         StartInv
  <2>8. CASE ~(CoreCount(position, end) <= max_cores_per_slice)
    <3>1. split' = split /\ position' = position /\ pc' = "node" /\ pkg_end' = end
      BY <2>1, <2>2, <2>8
    <3>2. TypeOK'
      BY <1>t, <2>2, <2>3, <2>6, <3>1 DEF TypeOK, Bounds
    <3>3. CleanInv'
      BY <2>4, <2>5, <2>6, <3>1, <1>k DEF CleanInv, CleanPlan
    <3>4. LastStart' = position /\ isolate_socket' # <<>>
      BY <2>5, <2>6 DEF LastStart
    <3>5. SplitInv'
      BY <2>2, <2>4, <2>5, <2>6, <3>1, <3>4 DEF SplitInv, Cpus
    <3> QED
      BY <2>2, <2>5, <2>6, <3>1, <3>2, <3>3, <3>5 DEF LimitInv, NumberInv, TileInv, FitInv, StartInv
  <2> QED
    BY <2>7, <2>8
<1>7. CASE PackagesDone
  <2> USE <1>7 DEF PackagesDone, topoVars
  <2>1. TypeOK'
    BY <1>t DEF TypeOK
  <2> QED
    BY <2>1, <1>t DEF LimitInv, NumberInv, TileInv, SplitInv, FitInv, CleanInv, StartInv
<1>8. CASE NumaNode
  <2>1. PICK end \in Cpus \cup {NumCpus} :
          /\ RunEnds(numa_id, position, pkg_end, end)
          /\ node_end' = end
          /\ slice_size' = CoreCount(position, end) \div
                             RoundUp(CoreCount(position, end), max_cores_per_slice)
    BY <1>8 DEF NumaNode
  <2>2. /\ pc = "node" /\ pc' = "slice" /\ position < pkg_end
        /\ UNCHANGED <<cpu_info, valid, no_fork, max_cores_per_slice, isolate_socket, split, position,
                       pkg_end>>
    BY <1>8 DEF NumaNode, topoVars
  <2>3. position \in Cpus /\ pkg_end \in Bounds /\ end \in Bounds
    BY <1>t, <2>2 DEF TypeOK, Bounds, Cpus
  <2>4. end \in position + 1 .. NumCpus /\ end <= pkg_end /\ (end < pkg_end => Clean(end))
    BY <2>1, <2>3, NodeEnds
  <2>5. /\ Clean(position) /\ CleanPlan(isolate_socket) /\ CleanPlan(split) /\ Clean(pkg_end)
        /\ max_cores_per_slice \in Nat \ {0}
    BY <1>t, <2>2 DEF CleanInv, LimitInv
  <2>6. Clean(end)
    <3>1. end = pkg_end \/ end < pkg_end
      BY <2>4, <2>3 DEF Bounds
    <3> QED
      BY <3>1, <2>4, <2>5
  <2>7. slice_size' \in 0 .. NumCpus
    <3>1. PICK n \in 1 .. NumCpus : n = CoreCount(position, end)
      BY <2>3, <2>4, CoreCountBounds
    <3>2. PICK k \in Nat \ {0} : k = RoundUp(n, max_cores_per_slice)
      BY <2>5, RoundUpPositive
    <3>3. n \div k \in 0 .. n
      BY DivBounds
    <3> QED
      BY <2>1, <3>1, <3>2, <3>3
  <2>8. TypeOK'
    BY <1>t, <2>1, <2>2, <2>3, <2>7 DEF TypeOK, Bounds
  <2>9. CleanInv'
    BY <2>1, <2>2, <2>5, <2>6, <1>k DEF CleanInv, CleanPlan
  <2>10. SplitInv'
    BY <1>t, <2>1, <2>2, <2>3, <2>4 DEF SplitInv, LastStart, Bounds, Cpus
  <2>11. TileInv'
    BY <1>t, <2>2 DEF TileInv, Tiles, End
  <2> QED
    BY <1>t, <2>2, <2>8, <2>9, <2>10, <2>11 DEF LimitInv, NumberInv, FitInv, StartInv
<1>9. CASE NodesDone
  <2> USE <1>9 DEF NodesDone, topoVars
  <2>1. TypeOK'
    BY <1>t DEF TypeOK
  <2>2. Len(split) >= Len(isolate_socket)
    <3>1. isolate_socket # <<>> /\ isolate_socket \in Seq(Ranges) /\ Tiles(isolate_socket, pkg_end)
      BY <1>t DEF TypeOK, SplitInv, TileInv
    <3>2. isolate_socket[Len(isolate_socket)] \in Ranges
      BY <3>1
    <3>3. End(isolate_socket[Len(isolate_socket)]) = pkg_end
      BY <3>1 DEF Tiles
    <3>4. position > LastStart
      BY <3>2, <3>3 DEF LastStart, End, Ranges, Cpus
    <3> QED
      BY <1>t, <3>4 DEF SplitInv
  <2>3. CleanInv'
    BY <1>t, <1>k DEF CleanInv, CleanPlan
  <2>4. TileInv'
    BY <1>t DEF TileInv, Tiles, End
  <2> QED
    BY <1>t, <2>1, <2>2, <2>3, <2>4 DEF LimitInv, NumberInv, SplitInv, FitInv, StartInv
<1>10. CASE Slice
  <2>1. PICK end \in position + 1 .. node_end :
          /\ IF CoreCount(position, node_end) > slice_size THEN SliceEnds(end) ELSE end = node_end
          /\ split' = Append(split, CpuRange(position, end))
          /\ position' = end
    BY <1>10 DEF Slice
  <2>2. /\ pc = "slice" /\ pc' = "slice" /\ position < node_end
        /\ UNCHANGED <<cpu_info, valid, no_fork, max_cores_per_slice, isolate_socket, pkg_end,
                       node_end, slice_size>>
    BY <1>10 DEF Slice, topoVars
  <2>3. /\ position \in Cpus /\ node_end \in Bounds /\ pkg_end \in Bounds
        /\ split \in Seq(Ranges) /\ isolate_socket \in Seq(Ranges)
        /\ node_end <= pkg_end /\ end \in position + 1 .. NumCpus /\ end <= node_end
    BY <1>t, <2>1, <2>2 DEF TypeOK, SplitInv, Bounds, Cpus
  <2>4. /\ Clean(position) /\ CleanPlan(isolate_socket) /\ CleanPlan(split) /\ Clean(pkg_end)
        /\ Clean(node_end) /\ Tiles(split, position) /\ Tiles(isolate_socket, pkg_end)
    BY <1>t, <2>2 DEF CleanInv, TileInv
  <2>5. Clean(end)
    <3>1. CASE end = node_end
      BY <3>1, <2>4
    <3>2. CASE end < node_end
      <4>1. ~SameCore(end) /\ ~SameModule(end)
        BY <2>1, <3>2 DEF SliceEnds
      <4> QED
        BY <4>1 DEF Clean, Boundary
    <3> QED
      BY <3>1, <3>2, <2>3 DEF Bounds
  <2>6. /\ split' \in Seq(Ranges) /\ Tiles(split', end) /\ Len(split') = Len(split) + 1
        /\ CleanPlan(split')
    BY <2>1, <2>3, <2>4, AppendTiles
  <2>7. TypeOK'
    BY <1>t, <2>1, <2>2, <2>3, <2>6 DEF TypeOK, Bounds
  <2>8. CleanInv'
    BY <2>1, <2>2, <2>4, <2>5, <2>6, <1>k DEF CleanInv, CleanPlan
  <2>9. SplitInv'
    <3>1. /\ isolate_socket # <<>> /\ LastStart <= position
          /\ Len(split) >= Len(isolate_socket) - 1
          /\ LastStart' = LastStart
      BY <1>t, <2>2 DEF SplitInv, LastStart
    <3>3. LastStart \in Cpus
      <4>1. isolate_socket[Len(isolate_socket)] \in Ranges
        BY <3>1, <2>3
      <4> QED
        BY <4>1 DEF LastStart, Ranges
    <3>2. position < end /\ end <= pkg_end
      BY <2>3 DEF Bounds, Cpus
    <3> QED
      BY <3>1, <3>2, <3>3, <2>1, <2>2, <2>3, <2>6 DEF SplitInv, Bounds, Cpus
  <2> QED
    BY <1>t, <2>1, <2>2, <2>4, <2>6, <2>7, <2>8, <2>9
       DEF LimitInv, NumberInv, TileInv, FitInv, StartInv
<1>11. CASE SlicesDone
  <2> USE <1>11 DEF SlicesDone, topoVars
  <2>1. TypeOK'
    BY <1>t DEF TypeOK
  <2>2. CleanInv'
    BY <1>t, <1>k DEF CleanInv, CleanPlan
  <2>3. TileInv'
    BY <1>t DEF TileInv, Tiles, End
  <2> QED
    BY <1>t, <2>1, <2>2, <2>3 DEF LimitInv, NumberInv, SplitInv, FitInv, StartInv, LastStart
<1> QED
  BY <1>1, <1>2, <1>3, <1>4, <1>5, <1>6, <1>7, <1>8, <1>9, <1>10, <1>11 DEF Next, Planned

LEMMA Inductive == Spec => []IInv
BY InitIInv, StepIInv, PTL DEF Spec

-----------------------------------------------------------------------------
(***************************************************************************)
(* The positions and the ranges of both plans are CPUs of the machine.     *)
(***************************************************************************)
THEOREM TypeCorrect == Spec => []TypeOK
<1>1. IInv => TypeOK
  BY DEF IInv
<1> QED
  BY <1>1, Inductive, PTL

(***************************************************************************)
(* slice_plan_init() gives every CPU to exactly one slice of each plan.    *)
(***************************************************************************)
THEOREM PlansArePartitions == Spec => []Partition
<1>1. IInv => Partition
  BY DEF IInv, TileInv, Partition
<1> QED
  BY <1>1, Inductive, PTL

(***************************************************************************)
(* The memory that commit_shmem() reserves is enough for either plan.      *)
(***************************************************************************)
THEOREM SharedMemoryFits == Spec => []PlansFit
<1>1. IInv => PlansFit
  BY DEF IInv, FitInv, PlansFit
<1> QED
  BY <1>1, Inductive, PTL

(***************************************************************************)
(* No slice boundary that comes from the topology cuts a module in two.    *)
(***************************************************************************)
THEOREM ModulesAreKept == Spec => []ModulesTogether
<1>1. ASSUME IInv PROVE ModulesTogether
  <2> SUFFICES ASSUME pc = "package", NEW plan \in {isolate_socket, split},
                      NEW i \in 2 .. Len(plan)
               PROVE  Boundary(plan[i].starting_cpu)
    BY DEF ModulesTogether
  <2>1. /\ plan \in Seq(Ranges) /\ CleanPlan(plan) /\ Tiles(plan, position)
    BY <1>1 DEF IInv, TypeOK, CleanInv, TileInv
  <2>2. i \in 1 .. Len(plan) /\ i - 1 \in 1 .. Len(plan) - 1 /\ plan # <<>>
    BY <2>1
  <2>3. plan[i] \in Ranges /\ plan[i - 1] \in Ranges
    BY <2>1, <2>2
  <2>4. plan[i].starting_cpu = End(plan[i - 1])
    BY <2>1, <2>2 DEF Tiles
  <2>5. plan[i].starting_cpu \in 1 .. NumCpus - 1
    BY <2>3, <2>4, CpuAssumption DEF Ranges, End, Cpus
  <2> QED
    BY <2>1, <2>2, <2>5 DEF CleanPlan, Clean
<1> QED
  BY <1>1, Inductive, PTL
=============================================================================

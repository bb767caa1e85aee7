------------------------------ MODULE Topology ------------------------------
(***************************************************************************)
(* The table of logical processors (framework/topology.cpp): detection,    *)
(* sorting, the packages, NUMA nodes and cores found in it, the changes    *)
(* made by --cpuset, by --threads, by moving the shared memory and by the  *)
(* child of a slice, and what is said about failures in terms of it.       *)
(*                                                                         *)
(* A machine is its CPUs' APIC IDs with the widths of their parts, which   *)
(* of the two detectors work, and the node lists as sysfs has them.        *)
(* Indices are those of the C array, from 0.  No machine has tiles.        *)
(***************************************************************************)
EXTENDS Integers, FiniteSetsExt, SequencesExt

CONSTANTS
  TopoMachines,   \* the machines
  CpusetArgs,     \* arguments of --cpuset
  WordBits,       \* bits of the uint64_t that holds a pattern, 64 in the code
  MaxAttempts     \* bound: attempts of a test that fails

ASSUME TopologyAssumption == TopoMachines # {} /\ WordBits \in Nat \ {0} /\ MaxAttempts \in Nat

VARIABLES
  stage,          \* how far main(), or the child, has come
  machine,
  cpu_table,      \* cpu_info, with thread_count entries
  before,         \* history: the CPUs before --cpuset
  cpuset,         \* its argument
  base,           \* where shared memory, and cpu_info in it, is mapped
  packages,       \* cached_topology()
  spanBase,       \* where its spans point to
  whole,          \* history: cpu_table of the parent
  warned,         \* CPUs said to differ from the first
  fails,          \* history: CPU -> the attempts of the test in which it failed
  mask, report    \* what is printed about them

topologyVars == <<stage, machine, cpu_table, before, cpuset, base, packages, spanBase, whole,
                  warned, fails, mask, report>>

Indices(info) == DOMAIN info
Count(info) == Cardinality(DOMAIN info)

(***************************************************************************)
(* Detection.                                                              *)
(***************************************************************************)
Extract(id, start, end) == (id % 2^end) \div 2^start

FloorLog2(n) == CHOOSE k \in 0..8 : 2^k <= n /\ n < 2^(k + 1)

NotKnown(n) == [cpu_number |-> n, package_id |-> -1, numa_id |-> -1, module_id |-> -1,
                core_id |-> -1, thread_id |-> -1]

fill_topo_cpuid(m, n) ==
  LET id == m.apic[n]
      core == Extract(id, m.logical, m.package)
  IN [NotKnown(n) EXCEPT
        !.package_id = id \div 2^m.package, !.core_id = core,
        !.thread_id = Extract(id, 0, m.logical),
        !.module_id = IF m.module > 0 THEN Extract(id, m.core, m.package)
                      ELSE IF m.l2 > 0 THEN Extract(id, FloorLog2(m.l2), m.package)
                      ELSE core]

\* the files are there, or end with package_id, or there are none
fill_topo_sysfs(m, n) ==
  LET ids == fill_topo_cpuid(m, n)
      Sibling(x) == fill_topo_cpuid(m, x).package_id = ids.package_id
                    /\ fill_topo_cpuid(m, x).core_id = ids.core_id
  IN IF m.files[n] = "none" THEN NotKnown(n)
     ELSE IF m.files[n] = "package" THEN [NotKnown(n) EXCEPT !.package_id = ids.package_id]
     ELSE [ids EXCEPT !.thread_id = Cardinality({x \in DOMAIN m.apic : x < n /\ Sibling(x)}),
                      !.module_id = IF m.cluster THEN @ ELSE ids.core_id]

\* CPUID has the leaf on all CPUs or on none
try_detection(m, n) == IF m.leaf THEN fill_topo_cpuid(m, n) ELSE fill_topo_sysfs(m, n)

(***************************************************************************)
(* fill_numa(): at is the index that the pointer cpu stands for.  When the *)
(* scan finds itself past the range the pointer ends up behind the end.    *)
(***************************************************************************)
ScanForward(info, at, start, stop) ==
  LET later == {i \in at .. Count(info) - 1 : info[i].cpu_number >= start} IN
  IF later = {} THEN IF at < Count(info) THEN Count(info) ELSE at
  ELSE IF info[Min(later)].cpu_number >= stop THEN Count(info) + 1 ELSE Min(later)

MarkRange(state, range, id) ==
  LET info  == state.info
      start == range[1]
      first == IF start < Count(info) /\ info[start].cpu_number = start THEN start
               ELSE ScanForward(info, state.at, start, range[2])
      marked == {i \in Indices(info) : i >= first /\ info[i].cpu_number <= range[2]}
  IN IF state.at = Count(info) THEN state
     ELSE [at |-> first + Cardinality(marked),
           info |-> [i \in Indices(info) |->
                       IF i \in marked THEN [info[i] EXCEPT !.numa_id = id] ELSE info[i]]]

MarkNode(info, node) ==
  FoldLeft(LAMBDA s, r : MarkRange(s, r, node.id), [at |-> 0, info |-> info], node.list).info

fill_numa(m, info) == FoldLeft(MarkNode, info, m.nodes)

(***************************************************************************)
(* Sorting.  cpu_compare() compares the ids as unsigned numbers.           *)
(***************************************************************************)
U16(x) == IF x < 0 THEN 65536 + x ELSE x

Key(c) == <<U16(c.package_id), U16(c.numa_id), U16(c.module_id), U16(c.core_id),
            U16(c.thread_id), c.cpu_number>>

cpu_compare(c, d) ==
  \E i \in 1..6 : Key(c)[i] < Key(d)[i] /\ \A j \in 1 .. i - 1 : Key(c)[j] = Key(d)[j]

\* the CPUs of a set, in order
reorder_cpus(cs) ==
  [i \in 0 .. Cardinality(cs) - 1 |-> CHOOSE c \in cs : Cardinality({d \in cs : cpu_compare(d, c)}) = i]

AllOf(info) == {info[i] : i \in Indices(info)}

\* init_topology_internal(): the enabled CPUs by number
InitTopologyInternal(m, enabled) ==
  LET Nth(i) == CHOOSE n \in enabled : Cardinality({x \in enabled : x < n}) = i
  IN fill_numa(m, [i \in 0 .. Cardinality(enabled) - 1 |-> try_detection(m, Nth(i))])

\* the CPUs, before they are sorted, that are compared and differ from the first
fill_family_cpuid(m, info) ==
  {i \in Indices(info) \ {0} : info[i].package_id # info[i - 1].package_id
                              /\ m.model[info[i].cpu_number] # m.model[info[0].cpu_number]}

(***************************************************************************)
(* build_topology(): runs of equal ids.                                    *)
(***************************************************************************)
Spans(Id(_), lo, hi) ==
  LET starts == {i \in lo .. hi - 1 : i = lo \/ Id(i) # Id(i - 1)}
      End(s) == IF \E x \in starts : x > s THEN Min({x \in starts : x > s}) ELSE hi
  IN {<<s, End(s)>> : s \in starts}

populate_core_group(info, span) == Spans(LAMBDA i : info[i].core_id, span[1], span[2])

Known(info) == \A c \in AllOf(info) : c.package_id >= 0 /\ c.core_id >= 0 /\ c.thread_id >= 0

build_topology(info) ==
  IF ~Known(info) THEN {}
  ELSE {[span |-> p, cores |-> populate_core_group(info, p),
         numa |-> {[span |-> n, cores |-> populate_core_group(info, n)]
                   : n \in Spans(LAMBDA i : info[i].numa_id, p[1], p[2])}]
        : p \in Spans(LAMBDA i : info[i].package_id, 0, Count(info))}
-----------------------------------------------------------------------------
NoArg == [negated |-> FALSE, items |-> <<>>]

TopologyInit ==
  /\ stage = "start" /\ machine = CHOOSE m \in TopoMachines : TRUE
  /\ cpu_table = <<>> /\ before = {} /\ cpuset = NoArg /\ base = 0
  /\ packages = {} /\ spanBase = 0 /\ whole = <<>>
  /\ warned = {} /\ fails = <<>> /\ mask = <<>> /\ report = [kind |-> "nothing"]

init_topology(m, enabled) ==
  LET info == InitTopologyInternal(m, enabled) IN
  /\ stage = "start" /\ stage' = "detected"
  /\ machine' = m
  /\ warned' = {info[i].cpu_number : i \in fill_family_cpuid(m, info)}
  /\ cpu_table' = reorder_cpus(AllOf(info))
  /\ packages' = build_topology(cpu_table') /\ spanBase' = base
  /\ UNCHANGED <<before, cpuset, base, whole, fails, mask, report>>

\* update_topology(): the entries, in their order
update_topology(cs) ==
  /\ cpu_table' = reorder_cpus(cs)
  /\ packages' = build_topology(cpu_table') /\ spanBase' = base

(***************************************************************************)
(* apply_cpuset_param().  "odd" and "even" are recognised in the first     *)
(* item, for every item that does not start with a digit.                  *)
(***************************************************************************)
Parity(items, item) ==
  IF Head(items).kind \in {"odd", "even"} /\ item.kind # "number" THEN Head(items).kind
  ELSE "none"

\* an item without a type of its own is refused, as is a number that is not there
BadItem(items, item, cs) ==
  \/ item.kind = "number" /\ ~\E c \in cs : c.cpu_number = item.n
  \/ item.kind \in {"odd", "even"} /\ Parity(items, item) = "none"

Selects(items, item, c) ==
  IF item.kind = "number" THEN c.cpu_number = item.n
  ELSE IF Parity(items, item) # "none"
       THEN c.cpu_number % 2 = (IF Parity(items, item) = "odd" THEN 1 ELSE 0)
  ELSE /\ item.package \in {-1, c.package_id} /\ item.core \in {-1, c.core_id}
       /\ item.thread \in {-1, c.thread_id}

\* mutant: "!" removes only what the first item selects
Selected_first(arg, cs) ==
  {c \in cs : \E k \in DOMAIN arg.items :
     (arg.negated => k = 1) /\ Selects(arg.items, arg.items[k], c)}

Selected(arg, cs) == {c \in cs : \E k \in DOMAIN arg.items : Selects(arg.items, arg.items[k], c)}

apply_cpuset_param(arg) ==
  LET cs == AllOf(cpu_table)
      left == IF arg.negated THEN cs \ Selected(arg, cs) ELSE Selected(arg, cs)
  IN
  /\ stage = "detected"
  /\ before' = cs /\ cpuset' = arg
  /\ IF \/ \E k \in DOMAIN arg.items : BadItem(arg.items, arg.items[k], cs)
        \/ Selected(arg, cs) = {} \/ left = {}
     THEN stage' = "EX_USAGE" /\ UNCHANGED <<cpu_table, packages, spanBase>>
     ELSE stage' = "set" /\ update_topology(left)
  /\ UNCHANGED <<machine, base, whole, warned, fails, mask, report>>

\* mutant: only the number of CPUs is looked at
restrict_topology_count(newBase, info, lo, n) ==
  /\ cpu_table' = [i \in 0 .. n - 1 |-> info[lo + i]]
  /\ base' = newBase
  /\ IF n # Count(cpu_table) \/ packages = {}
     THEN packages' = build_topology(cpu_table') /\ spanBase' = newBase
     ELSE UNCHANGED <<packages, spanBase>>

\* cpu_info becomes the n entries from lo on of info, which is mapped at newBase
restrict_topology(newBase, info, lo, n) ==
  /\ cpu_table' = [i \in 0 .. n - 1 |-> info[lo + i]]
  /\ base' = newBase
  /\ IF base # newBase \/ lo # 0 \/ n # Count(cpu_table) \/ packages = {}
     THEN packages' = build_topology(cpu_table') /\ spanBase' = newBase
     ELSE UNCHANGED <<packages, spanBase>>

\* --threads
LimitThreads(n) ==
  /\ stage \in {"detected", "set"} /\ stage' = "limited"
  /\ n \in 1 .. Count(cpu_table)
  /\ IF n < Count(cpu_table) THEN restrict_topology(base, cpu_table, 0, n)
     ELSE UNCHANGED <<cpu_table, base, packages, spanBase>>
  /\ UNCHANGED <<machine, before, cpuset, whole, warned, fails, mask, report>>

\* the new mapping may or may not be where the old one was
commit_shmem(b) ==
  /\ stage = "limited" /\ stage' = "run"
  /\ restrict_topology(b, cpu_table, 0, Count(cpu_table))
  /\ whole' = cpu_table
  /\ UNCHANGED <<machine, before, cpuset, warned, fails, mask, report>>

\* child_run() of a slice
RestrictToSlice(lo, n) ==
  /\ stage = "run" /\ stage' = "child"
  /\ lo >= 0 /\ n >= 1 /\ lo + n <= Count(cpu_table)
  /\ restrict_topology(base, whole, lo, n)
  /\ UNCHANGED <<machine, before, cpuset, whole, warned, fails, mask, report>>
-----------------------------------------------------------------------------
(***************************************************************************)
(* Failures: the mask of an attempt and the analysis of all attempts.      *)
(***************************************************************************)
InSpan(s) == s[1] .. s[2] - 1

\* a core in build_falure_mask()
MaskOf(failed, core) ==
  LET bad == InSpan(core) \cap failed IN
  IF bad = {} THEN [kind |-> ".", bits |-> 0]
  ELSE IF bad = InSpan(core) THEN [kind |-> "X", bits |-> 0]
  ELSE [kind |-> "bits", bits |-> SumSet({2^cpu_table[i].thread_id : i \in bad})]

\* cores of a package in order, padded to the largest package
build_falure_mask(failed) ==
  LET max_cores == Max({Cardinality(p.cores) : p \in packages})
      Nth(cores, k) == CHOOSE c \in cores : Cardinality({d \in cores : d[1] < c[1]}) = k
  IN IF packages = {} \/ failed = {} THEN <<>>
     ELSE [p \in {q.span : q \in packages} |->
             LET cores == (CHOOSE q \in packages : q.span = p).cores
             IN [k \in 0 .. max_cores - 1 |->
                   IF k < Cardinality(cores) THEN MaskOf(failed, Nth(cores, k))
                   ELSE [kind |-> "_", bits |-> 0]]]

(***************************************************************************)
(* The pattern of a CPU is the set of its bits.  mark_up_per_cpu_fail()    *)
(* shifts by the number of the CPU and not of the attempt, so that a CPU   *)
(* that failed has the one bit of its number, in twice the WordBits.       *)
(***************************************************************************)
PerCpuFailures(failedIn) == [i \in DOMAIN failedIn |-> IF failedIn[i] = {} THEN {} ELSE {i % (2 * WordBits)}]

\* a pattern in a uint64_t
Truncated(pattern) == pattern \cap (0 .. WordBits - 1)

\* fail_pattern in the loop over the threads of a core, when it comes to thread i
FailPattern(pat, core, i) ==
  LET seen == {j \in core[1] .. i - 1 : Truncated(pat[j]) # {}}
  IN IF seen = {} THEN {} ELSE Truncated(pat[Min(seen)])

\* mutant: a thread without a failure after one with some is not seen
Verdict_first(pat, core) ==
  IF FailPattern(pat, core, core[2]) = {} THEN "none"
  ELSE IF core[2] - core[1] = 1 THEN "only thread"
  ELSE IF \A i \in InSpan(core) \ {core[1]} : pat[i] = FailPattern(pat, core, i) THEN "same"
  ELSE IF pat[core[1]] # {} THEN "at least once"
  ELSE "some"

\* the verdict of analyze_test_failures() on a core
Verdict(pat, core) ==
  IF FailPattern(pat, core, core[2]) = {} THEN "none"
  ELSE IF core[2] - core[1] = 1 THEN "only thread"
  ELSE IF \A i \in InSpan(core) \ {core[1]} : pat[i] = FailPattern(pat, core, i) THEN "same"
  ELSE IF \A i \in InSpan(core) : pat[i] # {} THEN "at least once"
  ELSE "some"

Failing(pat) == {i \in DOMAIN pat : pat[i] # {}}

AllEqually(pat) ==
  \A i \in Failing(pat) : i = Min(Failing(pat)) \/ pat[i] = Truncated(pat[Min(Failing(pat))])

\* id of a package: its first CPU's
PackageId(p) == cpu_table[p.span[1]].package_id

(***************************************************************************)
(* The branch of tests that blame a package.  The loop that names several  *)
(* packages looks pkg_failures up at the values it holds: outside of the   *)
(* vector, at -1 for one, what it reads is anything.                       *)
(***************************************************************************)
BadPackages(pat) == {p \in packages : InSpan(p.span) \cap Failing(pat) # {}}

FailedPackages(pat, outside) ==
  LET bad == {PackageId(p) : p \in BadPackages(pat)}
      values == bad \cup (IF BadPackages(pat) = packages THEN {} ELSE {-1})
      Rank(p) == Cardinality({q \in packages : q.span[1] < p.span[1]})
      At(v) == \E p \in packages : Rank(p) = v /\ p \in BadPackages(pat)
  IN IF Cardinality(packages) = 1 THEN {PackageId(p) : p \in packages}
     ELSE IF Cardinality(bad) = 1 THEN bad
     ELSE {v \in values : IF v \in 0 .. Cardinality(packages) - 1 THEN At(v) ELSE outside}

analyze_test_failures(pat, package_only, outside) ==
  IF AllEqually(pat) /\ Failing(pat) = DOMAIN pat THEN [kind |-> "all CPUs"]
  ELSE IF packages = {} THEN [kind |-> IF AllEqually(pat) THEN "all failing" ELSE "nothing"]
  ELSE IF package_only THEN [kind |-> "packages", ids |-> FailedPackages(pat, outside)]
  ELSE [kind |-> "cores", verdicts |-> {<<c, Verdict(pat, c)>> : c \in UNION {p.cores : p \in packages}}]

\* a test whose CPUs fail in the attempts failedIn: the mask is that of the first
TestFails(failedIn, package_only, outside) ==
  /\ stage = "run" /\ stage' = "failed"
  /\ fails' = failedIn
  /\ mask' = build_falure_mask({i \in DOMAIN failedIn : 0 \in failedIn[i]})
  /\ report' = analyze_test_failures(PerCpuFailures(failedIn), package_only, outside)
  /\ UNCHANGED <<machine, cpu_table, before, cpuset, base, packages, spanBase, whole, warned>>

TopologyNext ==
  \/ \E m \in TopoMachines : \E enabled \in SUBSET (DOMAIN m.apic) \ {{}} : init_topology(m, enabled)
  \/ \E arg \in CpusetArgs : apply_cpuset_param(arg)
  \/ \E n \in 1 .. Count(cpu_table) : LimitThreads(n)
  \/ \E b \in 0..1 : commit_shmem(b)
  \/ \E lo \in Indices(cpu_table), n \in 1 .. Count(cpu_table) : RestrictToSlice(lo, n)
  \/ \E failedIn \in [Indices(cpu_table) -> SUBSET (0 .. MaxAttempts - 1)],
        package_only, outside \in BOOLEAN : TestFails(failedIn, package_only, outside)
  \/ stage \in {"EX_USAGE", "child", "failed"} /\ UNCHANGED topologyVars

TopologySpec == TopologyInit /\ [][TopologyNext]_topologyVars
-----------------------------------------------------------------------------

SameCore(i, j) == cpu_table[i].package_id = cpu_table[j].package_id
                  /\ cpu_table[i].core_id = cpu_table[j].core_id

\* the nodes do not tear a core apart
NodesKeepCores ==
  \A i, j \in Indices(cpu_table) : SameCore(i, j) => cpu_table[i].numa_id = cpu_table[j].numa_id

(***************************************************************************)
(* The topology is that of the table in use, whatever --cpuset, --threads  *)
(* and the slices left of the machine.  Two CPUs are in one Core exactly   *)
(* if they are threads of one core, and in one Package exactly if their    *)
(* package is the same, as long as the node ids of the threads of a core   *)
(* agree.  Its spans point into the table, also after the shared memory    *)
(* moved and in a child that has a part of it: cpu() is a difference of    *)
(* pointers.                                                               *)
(***************************************************************************)
TopologyFresh ==
  /\ stage \notin {"start", "EX_USAGE"} => spanBase = base
  /\ packages # {} /\ NodesKeepCores =>
       \A i, j \in Indices(cpu_table) :
         /\ SameCore(i, j) <=> \E p \in packages : \E c \in p.cores : {i, j} \subseteq InSpan(c)
         /\ cpu_table[i].package_id = cpu_table[j].package_id <=>
              \E p \in packages : {i, j} \subseteq InSpan(p.span)

\* what an item of --cpuset means
Means(item, c) ==
  CASE item.kind = "number" -> c.cpu_number = item.n
    [] item.kind = "odd"    -> c.cpu_number % 2 = 1
    [] item.kind = "even"   -> c.cpu_number % 2 = 0
    [] item.kind = "ids"    -> /\ item.package \in {-1, c.package_id}
                               /\ item.core \in {-1, c.core_id}
                               /\ item.thread \in {-1, c.thread_id}

(***************************************************************************)
(* --cpuset leaves the CPUs that some item of the list means, or the ones  *)
(* that none means if it is negated: at least one.  Lists that begin with  *)
(* "odd" or "even" and go on are left out.                                 *)
(***************************************************************************)
CpusetExact ==
  stage = "set" /\ ~(Head(cpuset.items).kind \in {"odd", "even"} /\ Len(cpuset.items) > 1) =>
    LET meant == {c \in before : \E k \in DOMAIN cpuset.items : Means(cpuset.items[k], c)}
    IN AllOf(cpu_table) = IF cpuset.negated THEN before \ meant ELSE meant

\* the threads that a mask says failed
Masked(m) ==
  UNION {LET cores == (CHOOSE q \in packages : q.span = p).cores
             Nth(k) == CHOOSE c \in cores : Cardinality({d \in cores : d[1] < c[1]}) = k
         IN UNION {{i \in InSpan(Nth(k)) :
                      \/ m[p][k].kind = "X"
                      \/ m[p][k].kind = "bits"
                         /\ (m[p][k].bits \div 2^cpu_table[i].thread_id) % 2 = 1}
                   : k \in 0 .. Cardinality(cores) - 1}
         : p \in DOMAIN m}

\* from the failure mask one finds again which CPUs failed in the attempt
MaskFaithful ==
  stage = "failed" /\ packages # {} => Masked(mask) = {i \in DOMAIN fails : 0 \in fails[i]}

\* what is said of a core whose CPUs have numbers below WordBits is so of the threads with its ids: none
\* failed; the only one did; all did, and in the same attempts if that is said; or some did
VerdictsTrue ==
  stage = "failed" /\ report.kind = "cores" /\ NodesKeepCores =>
    \A i \in Indices(cpu_table) :
      LET here == {j \in Indices(cpu_table) : SameCore(i, j)}
          bad  == here \cap Failing(fails)
      IN here \subseteq 0 .. WordBits - 1 =>
           \E v \in report.verdicts :
             /\ i \in InSpan(v[1])
             /\ v[2] = "none" <=> bad = {}
             /\ v[2] = "only thread" <=> bad # {} /\ here = {i}
             /\ v[2] \in {"same", "at least once"} <=> bad = here /\ here # {i}
             /\ v[2] = "same" => \A j, k \in here : fails[j] = fails[k]
             /\ v[2] = "some" <=> bad # {} /\ bad # here

\* CPUs said to have failed equally failed in the same attempts, all of them if that is said
EqualTrue ==
  stage = "failed" /\ report.kind \in {"all CPUs", "all failing"} =>
    /\ \A i, j \in Failing(fails) : fails[i] = fails[j]
    /\ report.kind = "all CPUs" => Failing(fails) = Indices(cpu_table)

\* the packages blamed are those in which a CPU failed, but for a -1 that is read outside of the vector; and
\* all of them are, when the ids are the packages' places
PackagesBlamed ==
  stage = "failed" /\ report.kind = "packages" /\ Failing(fails) # {} =>
    LET bad == {cpu_table[i].package_id : i \in Failing(fails)}
        ids == {c.package_id : c \in AllOf(cpu_table)}
    IN /\ report.ids \subseteq bad \cup {-1}
       /\ ids = 0 .. Cardinality(ids) - 1 => bad \subseteq report.ids

(***************************************************************************)
(* What the log says of the CPUs that failed is so, in each of its forms:  *)
(* the mask of build_falure_mask() and what analyze_test_failures() says   *)
(* of all CPUs, of cores and of packages, whichever threads of a core are  *)
(* in use.  A core with a CPU from number 64 on is left out: the bit of    *)
(* its pattern is lost in the uint64_t, and nothing is said of the core.   *)
(***************************************************************************)
FailuresTold == MaskFaithful /\ EqualTrue /\ VerdictsTrue /\ PackagesBlamed
=============================================================================

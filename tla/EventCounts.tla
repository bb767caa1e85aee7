----------------------------- MODULE EventCounts -----------------------------
(***************************************************************************)
(* The tests that count events of the machine: mce_check compares the      *)
(* machine checks and thermal events in /proc/interrupts with those at the *)
(* start, and smi_count the system management interrupts, which it reads   *)
(* from a register of each CPU.  Both run in a child, whose copy of the    *)
(* counts is gone when it ends, unless the program does not fork.  CPUs    *)
(* may go offline or come back in between.                                 *)
(***************************************************************************)
EXTENDS Integers, FiniteSets, SequencesExt

CONSTANTS
  EventMachines, \* [online, tested, slice, file, lines, msr, events]: see below
  CountWrap,     \* 2^32: a count of /proc/interrupts is 32 bits wide
  MaxEvents,     \* bound: events
  MaxChecks      \* bound: runs of the two tests

OsCpus == UNION {m.online : m \in EventMachines}
Kinds == {"MCE", "TRM", "SMI"}

VARIABLES
  eventMachine,  \* tested: CPU number of each thread; slice: threads in a child of smi_count;
                 \* file: /proc/interrupts can be opened; lines: those it has; msr: the register can be read;
                 \* events: the kinds that happen
  forks,         \* "fork", "exec" or "no"
  online,
  total,         \* events of each kind on each CPU since the machine was started
  unplugged,     \* CPUs were taken offline or came back after the start of the program
  app,           \* the parent: [cache, mce_counts_start, last_thermal_event_count, smi_counts_start, at]
  inChild,       \* the same, of the child
  counting,      \* "main", "idle", "mce", "thermal", "smi"
  unread,        \* threads of smi_count that have not read
  told,          \* what the last test reported
  checks

eventVars == <<eventMachine, forks, online, total, unplugged, app, inChild, counting, unread, told, checks>>

NoApp == [cache |-> [header |-> {}, result |-> <<>>], mce_counts_start |-> <<>>,
          last_thermal_event_count |-> 0, smi_counts_start |-> <<>>, at |-> [k \in Kinds |-> [c \in OsCpus |-> 0]]]
NoReport == [test |-> "none", failed |-> FALSE, threads |-> {}, others |-> {}, count |-> 0, thermal |-> 0,
             smi |-> {}, since |-> [k \in Kinds |-> [c \in OsCpus |-> 0]], cpus |-> {}]

EventsInit ==
  /\ eventMachine \in EventMachines /\ forks \in {"fork", "exec", "no"}
  /\ online = eventMachine.online /\ total = [k \in Kinds |-> [c \in OsCpus |-> 0]] /\ unplugged = FALSE
  /\ app = NoApp /\ inChild = NoApp /\ counting = "main" /\ unread = {} /\ told = NoReport /\ checks = 0

tested == eventMachine.tested
Sum(f) == FoldFunction(+, 0, f)
Columns == [i \in 1 .. Cardinality(online) |-> CHOOSE c \in online : Cardinality({d \in online : d < c}) = i - 1]

-----------------------------------------------------------------------------
(* /proc/interrupts.                                                       *)

\* a header that changed is added to the CPUs of the one before it
parse_header(cache) ==
  IF ~eventMachine.file \/ cache.header = online THEN cache ELSE [header |-> online, result |-> cache.result \o Columns]

\* mutant: the columns are the CPUs
Column_plain(mapping, i) == i - 1

Column(mapping, i) == mapping[i]

\* the counts by CPU; a column for a CPU behind the last is written outside of the vector
get_interrupt_counts(cache, type) ==
  LET mapping == parse_header(cache).result
      of(c) == {i \in DOMAIN Columns : Column(mapping, i) = c}
  IN  IF ~eventMachine.file THEN <<>>
      ELSE [c \in 0 .. Last(mapping) |->
         IF type \notin eventMachine.lines \/ of(c) = {} THEN 0 ELSE total[type][Columns[Max(of(c))]] % CountWrap]

\* get_total_interrupt_counts()
Counted(cache, type) == Sum(get_interrupt_counts(cache, type))

\* a register of a CPU, or nothing
SmiCount(c) == IF eventMachine.msr /\ c \in online THEN <<total["SMI"][c]>> ELSE <<>>

-----------------------------------------------------------------------------
(* The machine.                                                            *)

EventsSoFar == Sum([k \in Kinds |-> Sum(total[k])])

Event(kind, c) ==
  /\ kind \in eventMachine.events /\ c \in online /\ EventsSoFar < MaxEvents
  /\ total' = [total EXCEPT ![kind][c] = @ + 1]
  /\ UNCHANGED <<eventMachine, forks, online, unplugged, app, inChild, counting, unread, told, checks>>

\* once, and not the first CPU
Unplug(c) ==
  /\ counting # "main" /\ ~unplugged /\ c # 0
  /\ online' = IF c \in online THEN online \ {c} ELSE online \cup {c}
  /\ unplugged' = TRUE
  /\ UNCHANGED <<eventMachine, forks, total, app, inChild, counting, unread, told, checks>>

-----------------------------------------------------------------------------
(* The program.                                                            *)

initialize_smi_counts(process) ==
  LET value_or_0(v) == IF v = <<>> THEN 0 ELSE v[1]
  IN  IF SmiCount(tested[1]) = <<>> THEN process
      ELSE [process EXCEPT !.smi_counts_start = [i \in DOMAIN tested |-> value_or_0(SmiCount(tested[i]))],
                           !.at["SMI"] = total["SMI"]]

\* main(): the counts at the start; mce_check is not run without them, nor in children that are exec()ed
StartCounting ==
  /\ counting = "main"
  /\ LET cache == parse_header(app.cache)
     IN  app' = initialize_smi_counts(
                  [app EXCEPT !.cache = cache, !.last_thermal_event_count = Counted(app.cache, "TRM"),
                              !.mce_counts_start = get_interrupt_counts(cache, "MCE"), !.at = total])
  /\ counting' = "idle"
  /\ UNCHANGED <<eventMachine, forks, online, total, unplugged, inChild, unread, told, checks>>

\* a child that was exec()ed begins with nothing
StartChild(test) ==
  /\ counting = "idle" /\ checks < MaxChecks
  /\ test = "mce" => forks # "exec" /\ app.mce_counts_start # <<>>
  /\ checks' = checks + 1 /\ counting' = test /\ told' = NoReport
  /\ inChild' = IF forks = "exec" THEN NoApp ELSE app
  /\ unread' = IF test = "smi" THEN DOMAIN tested ELSE {}
  /\ UNCHANGED <<eventMachine, forks, online, total, unplugged, app>>

\* _exit(), or a return where nothing was forked
EndChild(process) ==
  /\ counting' = "idle" /\ inChild' = NoApp
  /\ app' = IF forks = "no" THEN process ELSE app

Since(kind) == [c \in OsCpus |-> total[kind][c] - inChild.at[kind][c]]
Differs(counts, c) == c \in DOMAIN counts \cap DOMAIN inChild.mce_counts_start /\ counts[c] # inChild.mce_counts_start[c]

OtherCpus(counts) == {c \in DOMAIN counts : Differs(counts, c) /\ c \notin Range(tested)}

SameCpus(counts) == DOMAIN counts = DOMAIN inChild.mce_counts_start

\* mce_check_run() up to the thermal events: a vector of another size ends it
MceCheck ==
  /\ counting = "mce"
  /\ LET cache == parse_header(inChild.cache)
         counts == get_interrupt_counts(inChild.cache, "MCE")
         valid == SameCpus(counts)
         threads == {i \in DOMAIN tested : Differs(counts, tested[i])}
         after == [inChild EXCEPT !.cache = cache]
     IN  IF ~valid
         THEN /\ told' = [NoReport EXCEPT !.test = "mce", !.failed = TRUE, !.cpus = online, !.since["MCE"] = Since("MCE")]
              /\ EndChild(after)
         ELSE /\ told' = [NoReport EXCEPT !.test = "mce", !.threads = threads, !.others = OtherCpus(counts),
                              !.count = Cardinality(threads) + Cardinality(OtherCpus(counts)),
                              !.failed = threads # {} \/ OtherCpus(counts) # {}, !.cpus = online, !.since["MCE"] = Since("MCE")]
              /\ inChild' = [after EXCEPT !.mce_counts_start = counts, !.at["MCE"] = total["MCE"]]
              /\ counting' = "thermal" /\ UNCHANGED app
  /\ UNCHANGED <<eventMachine, forks, online, total, unplugged, unread, checks>>

ThermalKept(now) == now

ThermalCheck ==
  /\ counting = "thermal"
  /\ LET now == Counted(inChild.cache, "TRM")
     IN  /\ told' = [told EXCEPT !.thermal = now - inChild.last_thermal_event_count, !.since["TRM"] = Since("TRM")]
         /\ EndChild([inChild EXCEPT !.cache = parse_header(@), !.last_thermal_event_count = ThermalKept(now),
                                     !.at["TRM"] = total["TRM"]])
  /\ UNCHANGED <<eventMachine, forks, online, total, unplugged, unread, checks>>

\* the number of a thread in its child, where cpu_info begins with the slice; without a fork it is the whole
Local(t) == IF forks = "no" THEN t ELSE ((t - 1) % eventMachine.slice) + 1

\* smi_count_run() in a thread; the count at the start is that of the thread with the same number
SmiRead(t) ==
  /\ counting = "smi" /\ t \in unread
  /\ unread' = unread \ {t}
  /\ LET now == SmiCount(tested[t])
     IN  told' = IF Len(inChild.smi_counts_start) < Local(t) \/ now = <<>>
                      \/ now[1] = inChild.smi_counts_start[Local(t)]
                   THEN [told EXCEPT !.test = "smi", !.since["SMI"][tested[t]] = Since("SMI")[tested[t]]]
                   ELSE [told EXCEPT !.test = "smi", !.since["SMI"][tested[t]] = Since("SMI")[tested[t]],
                                       !.smi = @ \cup {<<t, now[1] - inChild.smi_counts_start[Local(t)]>>}]
  /\ UNCHANGED <<eventMachine, forks, online, total, unplugged, app, inChild, counting, checks>>

\* its cleanup
SmiEnds ==
  /\ counting = "smi" /\ unread = {}
  /\ EndChild(initialize_smi_counts(inChild))
  /\ UNCHANGED <<eventMachine, forks, online, total, unplugged, unread, told, checks>>

EventsNext ==
  \/ StartCounting \/ MceCheck \/ ThermalCheck \/ SmiEnds
  \/ \E test \in {"mce", "smi"} : StartChild(test)
  \/ \E t \in DOMAIN tested : SmiRead(t)
  \/ counting = "idle" /\ checks = MaxChecks /\ UNCHANGED eventVars
  \/ \E c \in OsCpus : Unplug(c) \/ \E k \in Kinds : Event(k, c)

EventsSpec == EventsInit /\ [][EventsNext]_eventVars

-----------------------------------------------------------------------------
(* Properties.                                                             *)

\* mce_check blames exactly the CPUs that had machine checks since the counts it compares with were taken,
\* also those without a thread, and its result is their number: unless a count went round, the kernel has
\* no such line, or a CPU was unplugged, when the mapping of the columns is that of the old header.
MceBlamed ==
  (told.test = "mce" /\ ~unplugged)
  => LET had == IF "MCE" \in eventMachine.lines THEN {c \in OsCpus : told.since["MCE"][c] % CountWrap # 0} ELSE {}
     IN  /\ {tested[i] : i \in told.threads} \cup told.others = had
         /\ told.failed <=> had # {}
         /\ told.count = Cardinality(had)

=============================================================================

---------------------------- MODULE MCSlicePlan ----------------------------
(***************************************************************************)
(* Instances of SlicePlan and of Forkfd.  They share no state: a behaviour *)
(* runs one of them, the other stays in an initial state.                  *)
(***************************************************************************)
EXTENDS SlicePlan, Forkfd

VARIABLE part        \* the component that runs

mcVars == <<vars, forkfdVars, part>>

News(new, c, level) == Cardinality({x \in 1..c : new[x] >= level})

\* all the machines with NumCpus CPUs: what is new at each CPU after the
\* first is a thread (0), core (1), module (2), NUMA node (3) or package
MCCpuInfos ==
  {[c \in 0 .. NumCpus - 1 |->
      [package_id |-> News(new, c, 4), numa_id |-> News(new, c, 3),
       module_id |-> News(new, c, 2), core_id |-> News(new, c, 1)]]
   : new \in [1 .. NumCpus - 1 -> 0..4]}

OneCore == [c \in Cpus |-> [package_id |-> 0, numa_id |-> 0, module_id |-> 0, core_id |-> 0]]

Running == {t \in Threads : handler[t] # NoThread}

\* two threads without strangers, and one thread with them
ForkfdStarts ==
  IF Running = Threads THEN \A c \in Strangers : process[c] = "gone"
  ELSE Running = {CHOOSE t \in Threads : TRUE} /\ \A c \in Strangers : process[c] = "runs"

MCInit ==
  \/ part = "SlicePlan" /\ Init /\ ForkfdInit /\ ForkfdStarts /\ pidfd /\ Running = Threads
  \/ /\ part = "Forkfd" /\ Init /\ ForkfdInit /\ ForkfdStarts
     /\ cpu_info = OneCore /\ valid /\ ~no_fork /\ max_cores_per_slice = 0

MCNext ==
  \/ part = "SlicePlan" /\ Next /\ UNCHANGED <<forkfdVars, part>>
  \/ part = "Forkfd" /\ ForkfdNext /\ UNCHANGED <<vars, part>>
  \* between the calls the process does something else
  \/ part = "Forkfd" /\ Quiet /\ UNCHANGED mcVars

\* ForkfdFairness, in the behaviours that run Forkfd
MCSpec ==
  /\ MCInit /\ [][MCNext]_mcVars
  /\ \A t \in Threads : /\ WF_mcVars(part = "Forkfd" /\ CallStep(t) /\ UNCHANGED <<vars, part>>)
                        /\ WF_mcVars(part = "Forkfd" /\ HandlerStep(t) /\ UNCHANGED <<vars, part>>)
  /\ WF_mcVars(part = "Forkfd" /\ (\E c \in Children : Wait(c)) /\ UNCHANGED <<vars, part>>)
=============================================================================

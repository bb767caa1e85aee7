--------------------------- MODULE DeviceSchedule ---------------------------
(***************************************************************************)
(* The threads of a test process move between CPUs (the classes that       *)
(* implement DeviceSchedule in framework/sandstone_opts.cpp).              *)
(* --reschedule=barrier: threads form groups; a call of reschedule() waits *)
(* at the barrier of the group, whose completion rotates the CPUs of the   *)
(* group; a thread that ends takes itself out of its group and drops out   *)
(* of the barrier.  --reschedule=queue: a call takes the next CPU of a     *)
(* queue that is shuffled each time it starts again.                       *)
(* --reschedule=random: a call takes any CPU.                              *)
(***************************************************************************)
EXTENDS Integers, FiniteSets

CONSTANTS
  NumCpus,
  MembersPerGroup,   \* members_per_group, 2 in the code
  EarlyFinish,       \* a thread may end without having called reschedule()
  MaxRounds          \* bound: calls of reschedule() by each thread

ASSUME CpuAssumption == NumCpus \in Nat \ {0} /\ MembersPerGroup \in Nat \ {0}
ASSUME BoundAssumption == EarlyFinish \in BOOLEAN /\ MaxRounds \in Nat

Threads == 0 .. NumCpus - 1
g_idx(t) == t \div MembersPerGroup
thread_info_idx(t) == t % MembersPerGroup
Groups == {g_idx(t) : t \in Threads}
Members(g) == {t \in Threads : g_idx(t) = g}

\* the id of a thread, as the kernel knows it; 0 is the calling thread
Tid(t) == t + 1

Schedules == {"barrier", "queue", "random"}

VARIABLES
  schedule,    \* which of the classes is used
  groups,      \* groups is not empty
  tid,         \* group -> vector of thread ids
  next_cpu,    \* group -> vector of CPUs
  expected,    \* group -> threads that take part in the barrier
  pending,     \* group -> of these, those that have not arrived
  queue, q_idx,
  pc,          \* thread -> where it is
  rounds,      \* thread -> calls of reschedule()
  failed,      \* thread -> has_failed()
  cpu,         \* thread -> the CPU it is pinned to
  crashed,     \* the process died
  \* history
  uses         \* CPU -> how often it was taken from the queue

groupVars == <<groups, tid, next_cpu, expected, pending>>
queueVars == <<queue, q_idx, uses>>
vars == <<schedule, groupVars, queueVars, pc, rounds, failed, cpu, crashed>>

(***************************************************************************)
(* A vector: its storage, and how much of it is in use.  Reading past the  *)
(* end finds what the storage holds; erasing at the end makes the vector   *)
(* shorter all the same, or ends the process.                              *)
(***************************************************************************)
Slots == 0 .. MembersPerGroup - 1
Vector(n) == [slot |-> [i \in Slots |-> 0], size |-> n]
Set(v, i, x) == [v EXCEPT !.slot[i] = x]
erase(v, i) ==
  [slot |-> [j \in Slots |-> IF j >= i /\ j < v.size - 1 THEN v.slot[j + 1] ELSE v.slot[j]],
   size |-> v.size - 1]

rotate(v) ==
  [v EXCEPT !.slot = [j \in Slots |-> IF j < v.size THEN v.slot[(j + 1) % v.size] ELSE v.slot[j]]]

NoQueue == [i \in {} |-> 0]

Init ==
  /\ schedule \in Schedules
  /\ groups = FALSE
  /\ tid = [g \in Groups |-> Vector(Cardinality(Members(g)))]
  /\ next_cpu = [g \in Groups |-> Vector(Cardinality(Members(g)))]
  /\ expected = [g \in Groups |-> Cardinality(Members(g))]
  /\ pending = [g \in Groups |-> Cardinality(Members(g))]
  /\ queue = NoQueue /\ q_idx = 0 /\ uses = [c \in Threads |-> 0]
  /\ pc = [t \in Threads |-> "run"]
  /\ rounds = [t \in Threads |-> 0]
  /\ failed = [t \in Threads |-> FALSE]
  /\ cpu = [t \in Threads |-> t]
  /\ crashed = FALSE
-----------------------------------------------------------------------------

(***************************************************************************)
(* BarrierDeviceSchedule: a call, up to the end of the locked part         *)
(***************************************************************************)
BarrierReschedule(t) ==
  LET g == g_idx(t)
      i == thread_info_idx(t)
  IN  /\ schedule = "barrier" /\ ~crashed /\ pc[t] = "run" /\ rounds[t] < MaxRounds
      /\ groups' = TRUE
      /\ IF tid[g].slot[i] = 0
         THEN /\ tid' = [tid EXCEPT ![g] = Set(@, i, Tid(t))]
              /\ next_cpu' = [next_cpu EXCEPT ![g] = Set(@, i, t)]
         ELSE UNCHANGED <<tid, next_cpu>>
      /\ rounds' = [rounds EXCEPT ![t] = @ + 1]
      /\ pc' = [pc EXCEPT ![t] = "arrive"]
      /\ UNCHANGED <<schedule, queueVars, expected, pending, failed, cpu, crashed>>

(***************************************************************************)
(* The completion of the barrier, in the thread t that arrived last: the   *)
(* CPUs are rotated and the members pinned to them.  A vector without CPUs *)
(* must not be rotated.                                                    *)
(***************************************************************************)
on_completion(t) ==
  LET g == g_idx(t)
      cpus == rotate(next_cpu[g])
      ThreadAt(i) == IF tid[g].slot[i] = 0 THEN t ELSE tid[g].slot[i] - 1
      Slot(u) == {i \in 0 .. tid[g].size - 1 : ThreadAt(i) = u}
  IN  /\ next_cpu' = [next_cpu EXCEPT ![g] = cpus]
      /\ cpu' = [u \in Threads |-> IF Slot(u) = {} THEN cpu[u]
                                   ELSE cpus.slot[CHOOSE i \in Slot(u) : \A j \in Slot(u) : j <= i]]
      /\ crashed' \in {FALSE, next_cpu[g].size = 0}

Release(g) == [t \in Threads |-> IF g_idx(t) = g /\ pc[t] = "wait" THEN "run" ELSE pc[t]]

\* arrive_and_wait()
arrive_and_wait(t) ==
  LET g == g_idx(t) IN
  /\ ~crashed /\ pc[t] = "arrive"
  /\ IF pending[g] = 1
     THEN /\ on_completion(t)
          /\ pending' = [pending EXCEPT ![g] = expected[g]]
          /\ pc' = [Release(g) EXCEPT ![t] = "run"]
     ELSE /\ pending' = [pending EXCEPT ![g] = @ - 1]
          /\ pc' = [pc EXCEPT ![t] = "wait"]
          /\ UNCHANGED <<next_cpu, cpu, crashed>>
  /\ UNCHANGED <<schedule, queueVars, groups, tid, expected, rounds, failed>>
-----------------------------------------------------------------------------
(***************************************************************************)
(* QueueDeviceSchedule, all of it under its mutex, and                     *)
(* RandomDeviceSchedule                                                    *)
(***************************************************************************)
Orders == {q \in [Threads -> Threads] : \A i, j \in Threads : i # j => q[i] # q[j]}

\* mutant: shuffled at every call
shuffle_queue_always == queue' \in Orders

\* std::shuffle(), of the CPUs themselves the first time
shuffle_queue == IF q_idx = 0 THEN queue' \in Orders ELSE UNCHANGED queue

QueueReschedule(t) ==
  /\ schedule = "queue" /\ pc[t] = "run" /\ rounds[t] < MaxRounds
  /\ shuffle_queue
  /\ cpu' = [cpu EXCEPT ![t] = queue'[q_idx]]
  /\ uses' = [uses EXCEPT ![queue'[q_idx]] = @ + 1]
  /\ q_idx' = IF q_idx + 1 = NumCpus THEN 0 ELSE q_idx + 1
  /\ rounds' = [rounds EXCEPT ![t] = @ + 1]
  /\ UNCHANGED <<schedule, groupVars, pc, failed, crashed>>

RandomReschedule(t) ==
  /\ schedule = "random" /\ pc[t] = "run" /\ rounds[t] < MaxRounds
  /\ \E c \in Threads : cpu' = [cpu EXCEPT ![t] = c]
  /\ rounds' = [rounds EXCEPT ![t] = @ + 1]
  /\ UNCHANGED <<schedule, groupVars, queueVars, pc, failed, crashed>>
-----------------------------------------------------------------------------
(***************************************************************************)
(* The end of a thread and finish_reschedule(), empty but for the barrier  *)
(***************************************************************************)
Finish(t) ==
  /\ ~crashed /\ pc[t] = "run"
  /\ EarlyFinish \/ rounds[t] > 0
  /\ \E fails \in BOOLEAN : failed' = [failed EXCEPT ![t] = fails]
  /\ pc' = [pc EXCEPT ![t] = IF groups THEN "erase" ELSE "done"]
  /\ UNCHANGED <<schedule, queueVars, groupVars, rounds, cpu, crashed>>

EraseInfo(t) ==
  LET g == g_idx(t)
      i == thread_info_idx(t)
      outside == i >= tid[g].size \/ (failed[t] /\ i >= next_cpu[g].size)
  IN  /\ ~crashed /\ pc[t] = "erase"
      /\ tid' = [tid EXCEPT ![g] = erase(@, i)]
      /\ next_cpu' = IF failed[t] THEN [next_cpu EXCEPT ![g] = erase(@, i)] ELSE next_cpu
      /\ crashed' \in {FALSE, outside}
      /\ pc' = [pc EXCEPT ![t] = "drop"]
      /\ UNCHANGED <<schedule, queueVars, groups, expected, pending, rounds, failed, cpu>>

\* mutant: the thread arrives, but is still expected the next time
arrive_and_drop_expected(t) ==
  LET g == g_idx(t) IN
  /\ ~crashed /\ pc[t] = "drop"
  /\ IF pending[g] = 1
     THEN /\ on_completion(t)
          /\ pending' = [pending EXCEPT ![g] = expected[g]]
          /\ pc' = [Release(g) EXCEPT ![t] = "done"]
     ELSE /\ pending' = [pending EXCEPT ![g] = @ - 1]
          /\ pc' = [pc EXCEPT ![t] = "done"]
          /\ UNCHANGED <<next_cpu, cpu, crashed>>
  /\ UNCHANGED <<schedule, queueVars, groups, tid, expected, rounds, failed>>

arrive_and_drop(t) ==
  LET g == g_idx(t) IN
  /\ ~crashed /\ pc[t] = "drop"
  /\ expected' = [expected EXCEPT ![g] = @ - 1]
  /\ IF pending[g] = 1
     THEN /\ on_completion(t)
          /\ pending' = [pending EXCEPT ![g] = expected'[g]]
          /\ pc' = [Release(g) EXCEPT ![t] = "done"]
     ELSE /\ pending' = [pending EXCEPT ![g] = @ - 1]
          /\ pc' = [pc EXCEPT ![t] = "done"]
          /\ UNCHANGED <<next_cpu, cpu, crashed>>
  /\ UNCHANGED <<schedule, queueVars, groups, tid, rounds, failed>>

Step(t) == \/ BarrierReschedule(t) \/ QueueReschedule(t) \/ RandomReschedule(t)
           \/ arrive_and_wait(t)
           \/ Finish(t) \/ EraseInfo(t) \/ arrive_and_drop(t)

Next == \E t \in Threads : Step(t)

Spec == Init /\ [][Next]_vars

\* the kernel schedules every thread, and a test ends its loop when the
\* time is up
FairSpec == Spec /\ \A t \in Threads : WF_vars(Step(t))
-----------------------------------------------------------------------------
Vectors(S) == [slot : [Slots -> S], size : 0..MembersPerGroup]

(***************************************************************************)
(* A thread at the barrier gets on, even if its partners end: finishing    *)
(* threads drop out of the barrier.                                        *)
(***************************************************************************)
PartnersReleased == \A t \in Threads : pc[t] = "wait" ~> (pc[t] # "wait" \/ crashed)

(***************************************************************************)
(* No CPU of the queue is used a second time before all have been used:    *)
(* however many threads call and however the queue is shuffled, the uses   *)
(* of two CPUs differ by one at most.                                      *)
(***************************************************************************)
EvenUse == \A c, d \in Threads : uses[c] <= uses[d] + 1
=============================================================================

---------------------------- MODULE ChildrenWait ----------------------------
(***************************************************************************)
(* The parent process waiting for the children of one test run             *)
(* (wait_for_children() in framework/sandstone.cpp, Unix side) together    *)
(* with the signal bookkeeping of framework/sysdeps/unix/signals.cpp.      *)
(*                                                                         *)
(* The parent polls the children's file descriptors and the crash socket.  *)
(* It waits once with the test's timeout, then sends SIGQUIT and waits     *)
(* again, then SIGKILL and waits a last time.  Termination signals may     *)
(* reach the parent at any moment; children run, crash, hang, ignore       *)
(* signals and exit at any moment.  The output format is one that logs: an *)
(* error message marks the thread it is logged for as failed.              *)
(***************************************************************************)
EXTENDS TestResults, FiniteSets

CONSTANTS
  N,            \* the number of slices of the test, one child process each
  ExitCodes,    \* the exit codes a child may end with
  CoreDumps,    \* whether the children's core size limit lets them dump core
  TermSignals,  \* the termination signals that may reach the parent
  MaxSignals    \* bound: how many of them arrive while we watch

ASSUME NAssumption == N \in Nat \ {0}
ASSUME ExitAssumption == ExitCodes \subseteq 0..255 /\ CoreDumps \in BOOLEAN
ASSUME SignalAssumption ==
  /\ TermSignals \subseteq {SIGHUP, SIGINT, SIGTERM, SIGPIPE}
  /\ MaxSignals \in Nat

VARIABLES
  \* the kernel's view of the child processes
  proc,          \* child -> "forked" | "running" | "crashed" | "zombie" | "gone"
  status,        \* child -> what waiting for it reports once it has ended
  nature,        \* child -> how it reacts to signals
  sigpend,       \* child -> the signals sent to its process group
  crashQueue,    \* children whose crash context sits in the debug socket
  \* locals of wait_for_children()
  pc,
  stage,         \* which of the three waits we are in
  expired,       \* the deadline of the current wait has passed
  ready,         \* children whose revents the last poll() set
  debugReady,    \* revents of the debug socket
  handles,       \* children whose handle is not 0
  children_left,
  results,       \* child -> result, NoResult before anything is stored
  ended,         \* children whose result has an endtime
  caughtSignal,  \* captured by the single_wait lambda
  failedMain,    \* slices whose main thread an error message marked failed
  \* signal_control and the signal dispositions of the parent
  signal, count,
  armed,         \* termination signals that still have our handler
  exit_code

childVars  == <<proc, status, nature, crashQueue>>
pollVars   == <<ready, debugReady>>
resultVars == <<handles, children_left, results, ended>>
signalVars == <<signal, count, armed>>
vars == <<proc, status, nature, sigpend, crashQueue, pc, stage, expired, ready,
          debugReady, handles, children_left, results, ended, caughtSignal,
          failedMain, signal, count, armed, exit_code>>

Children == 0 .. N - 1

NoStatus == [code |-> "none", status |-> 0]

\* results.resize() value-initialises: TestResult(0), which is Passed
NoResult == Passed

(***************************************************************************)
(* "soft" children die of any signal; "deaf" ones block or ignore all but  *)
(* SIGKILL; "stuck" ones are in an uninterruptible system call.            *)
(***************************************************************************)
Nature == {"soft", "deaf", "stuck"}

Lethal(c, s) == nature[c] = "soft" \/ (nature[c] = "deaf" /\ s = SIGKILL)

OwnStatus == {Exited(n) : n \in ExitCodes}
AllSignals == {SIGHUP, SIGINT, SIGQUIT, SIGKILL, SIGSEGV, SIGPIPE, SIGTERM}
\* the default action of SIGQUIT and SIGSEGV includes a core file
DeathBy(s) == IF CoreDumps /\ s \in {SIGQUIT, SIGSEGV} THEN DumpedBy(s) ELSE KilledBy(s)

Status == OwnStatus \cup {DeathBy(s) : s \in AllSignals}

PC == {"check", "poll", "events", "eintr", "interrupted",
       "terminate", "kill", "mark", "done", "exit", "dead"}
-----------------------------------------------------------------------------
(***************************************************************************)
(* A termination signal that reached the parent while it was not in poll() *)
(* during an earlier test has left signal_control set and its handler      *)
(* reset (SA_RESETHAND): nothing clears either.                            *)
(***************************************************************************)
Init ==
  /\ proc = [c \in Children |-> "forked"]
  /\ status = [c \in Children |-> NoStatus]
  /\ nature \in [Children -> Nature]
  /\ sigpend = [c \in Children |-> {}]
  /\ crashQueue = {}
  /\ pc = "check" /\ stage = 1 /\ expired = FALSE
  /\ ready = {} /\ debugReady = FALSE
  /\ handles = Children
  /\ children_left = Cardinality(Children)
  /\ results = [c \in Children |-> NoResult]
  /\ ended = {}
  /\ caughtSignal = 0
  /\ failedMain = {}
  /\ \/ signal = 0 /\ count = 0 /\ armed = TermSignals
     \/ signal \in TermSignals /\ count = 1 /\ armed = TermSignals \ {signal}
  /\ exit_code = 0
-----------------------------------------------------------------------------
(***************************************************************************)
(* The children.                                                           *)
(***************************************************************************)
Alive(c) == proc[c] \in {"forked", "running", "crashed"}

\* signals_init_child(): setsid() makes the child a process group leader
Setsid(c) ==
  /\ proc[c] = "forked"
  /\ proc' = [proc EXCEPT ![c] = "running"]
  /\ UNCHANGED <<status, nature, sigpend, crashQueue, pc, stage, expired, pollVars,
                 resultVars, caughtSignal, failedMain, signalVars, exit_code>>

End(c, st) ==
  /\ proc' = [proc EXCEPT ![c] = "zombie"]
  /\ status' = [status EXCEPT ![c] = st]
  /\ UNCHANGED <<nature, sigpend, crashQueue, pc, stage, expired, pollVars,
                 resultVars, caughtSignal, failedMain, signalVars, exit_code>>

\* the test ends by itself: _exit(test_result_to_exit_code(child_run())),
\* or exit() with a framework error code
ChildExits(c) ==
  /\ proc[c] \in {"forked", "running"}
  /\ nature[c] # "stuck"
  /\ \E st \in OwnStatus : End(c, st)

\* a signal sent to the process group takes effect
ChildDies(c) ==
  /\ Alive(c)
  /\ \E s \in sigpend[c] : Lethal(c, s) /\ End(c, DeathBy(s))

\* somebody else kills it: the kernel, short of memory
OomKill(c) ==
  /\ Alive(c) /\ nature[c] # "stuck"
  /\ End(c, DeathBy(SIGKILL))

\* child_crash_handler() sends the context to the debug socket
ChildCrashes(c) ==
  /\ proc[c] = "running" /\ nature[c] # "stuck"
  /\ proc' = [proc EXCEPT ![c] = "crashed"]
  /\ crashQueue' = crashQueue \cup {c}
  /\ UNCHANGED <<status, nature, sigpend, pc, stage, expired, pollVars,
                 resultVars, caughtSignal, failedMain, signalVars, exit_code>>

\* ... and dies of the signal it crashed with; whether it first waits to be
\* released depends on --on-crash, so it may be before or after that
ChildDiesOfCrash(c) ==
  /\ proc[c] = "crashed"
  /\ End(c, DeathBy(SIGSEGV))

ChildStep(c) == \/ Setsid(c) \/ ChildExits(c) \/ ChildDies(c) \/ OomKill(c)
                \/ ChildCrashes(c) \/ ChildDiesOfCrash(c)
-----------------------------------------------------------------------------
(***************************************************************************)
(* Signals that reach the parent.                                          *)
(***************************************************************************)
Running == pc \notin {"done", "exit", "dead"}

ReadyChildren == {c \in handles : proc[c] = "zombie"}
NothingReady  == ReadyChildren = {} /\ crashQueue = {}

(***************************************************************************)
(* signal_handler() keeps the first signal and counts; SA_RESETHAND        *)
(* removes the handler.  poll() fails with EINTR only if the signal        *)
(* arrives during poll(), and not if a descriptor is ready by then.        *)
(* Without the handler, the signal kills the parent.                       *)
(***************************************************************************)
SignalArrives(s) ==
  /\ Running
  /\ count < MaxSignals
  /\ \/ /\ s \in armed
        /\ signal' = IF count = 0 THEN s ELSE signal
        /\ count' = count + 1
        /\ armed' = armed \ {s}
        /\ pc' = IF pc = "poll" /\ NothingReady THEN "eintr" ELSE pc
        /\ UNCHANGED exit_code
     \/ /\ s \notin armed
        /\ pc' = "dead" /\ exit_code' = 128 + s
        /\ UNCHANGED signalVars
  /\ UNCHANGED <<childVars, sigpend, stage, expired, pollVars, resultVars,
                 caughtSignal, failedMain>>

\* the deadline of the current wait passes
DeadlinePasses ==
  /\ Running /\ ~expired
  /\ expired' = TRUE
  /\ UNCHANGED <<childVars, sigpend, pc, stage, pollVars, resultVars,
                 caughtSignal, failedMain, signalVars, exit_code>>
-----------------------------------------------------------------------------
(***************************************************************************)
(* The parent.                                                             *)
(***************************************************************************)

\* kill_children(): kill(-pid) fails while the child has not called setsid()
kill_children(sig) ==
  sigpend' = [c \in Children |-> IF c \in handles /\ proc[c] # "forked"
                                 THEN sigpend[c] \cup {sig} ELSE sigpend[c]]

\* the loop condition of wait_for_all_children(), and what follows the loop
AfterLoop ==
  IF children_left = 0 THEN "done"
  ELSE CASE stage = 1 -> "terminate"
         [] stage = 2 -> "kill"
         [] stage = 3 -> "mark"

Check ==
  /\ pc = "check"
  /\ pc' = IF children_left # 0 /\ ~expired THEN "poll" ELSE AfterLoop
  /\ UNCHANGED <<childVars, sigpend, stage, expired, pollVars, resultVars,
                 caughtSignal, failedMain, signalVars, exit_code>>

\* poll() returns the descriptors that are ready
PollReady ==
  /\ pc = "poll" /\ ~NothingReady
  /\ ready' = ReadyChildren
  /\ debugReady' = (crashQueue # {})
  /\ pc' = "events"
  /\ UNCHANGED <<childVars, sigpend, stage, expired, resultVars,
                 caughtSignal, failedMain, signalVars, exit_code>>

\* poll() returns 0
PollTimeout ==
  /\ pc = "poll" /\ NothingReady /\ expired
  /\ pc' = "check"
  /\ UNCHANGED <<childVars, sigpend, stage, expired, pollVars, resultVars,
                 caughtSignal, failedMain, signalVars, exit_code>>

\* poll() fails with EINTR for a signal that signal_control knows nothing of
\* (SIGCHLD when forkfd() has to emulate, SIGCONT)
PollSpurious ==
  /\ pc = "poll" /\ NothingReady
  /\ pc' = "eintr"
  /\ UNCHANGED <<childVars, sigpend, stage, expired, pollVars, resultVars,
                 caughtSignal, failedMain, signalVars, exit_code>>

\* mutant: restarts the wait with the whole timeout after EINTR
Eintr_restarting ==
  /\ pc = "eintr"
  /\ IF signal # 0 THEN kill_children(signal) ELSE UNCHANGED sigpend
  /\ pc' = "check" /\ expired' = FALSE
  /\ UNCHANGED <<childVars, stage, pollVars, resultVars, caughtSignal,
                 failedMain, signalVars, exit_code>>

\* single_wait() after EINTR
Eintr ==
  /\ pc = "eintr"
  /\ IF signal # 0 THEN kill_children(signal) ELSE UNCHANGED sigpend
  /\ IF count = 1 /\ signal = SIGINT
     THEN /\ armed' = armed \cup {SIGINT}
          /\ caughtSignal' = SIGINT
          /\ pc' = "check"
          /\ UNCHANGED exit_code
     ELSE /\ pc' = IF signal = 0 THEN "check" ELSE "interrupted"
          /\ exit_code' = IF signal = 0 THEN 0 ELSE 128 + signal
          /\ UNCHANGED <<armed, caughtSignal>>
  /\ UNCHANGED <<childVars, stage, expired, pollVars, resultVars,
                 failedMain, signal, count>>

\* mutant: the handle of a reaped child is not reset to 0
reap_keeping_handle(S) ==
  /\ proc' = [c \in Children |-> IF c \in S THEN "gone" ELSE proc[c]]
  /\ handles' = handles
  /\ results' = [c \in Children |-> IF c \in S THEN test_result_from_exit_code(status[c])
                                               ELSE results[c]]
  /\ ended' = ended \cup S
  /\ children_left' = children_left - Cardinality(S)

(***************************************************************************)
(* single_wait() after poll() reported descriptors: debug_crashed_child()  *)
(* empties the debug socket, then every child with revents is reaped.      *)
(***************************************************************************)
reap(S) ==
  /\ proc' = [c \in Children |-> IF c \in S THEN "gone" ELSE proc[c]]
  /\ handles' = handles \ S
  /\ results' = [c \in Children |-> IF c \in S THEN test_result_from_exit_code(status[c])
                                               ELSE results[c]]
  /\ ended' = ended \cup S
  /\ children_left' = children_left - Cardinality(S)

\* mutant: returns 0 instead of the signal caught earlier
Events_forgetting_signal ==
  /\ pc = "events"
  /\ crashQueue' = IF debugReady THEN {} ELSE crashQueue
  /\ reap(ready)
  /\ ready' = {} /\ debugReady' = FALSE
  /\ pc' = "check"
  /\ UNCHANGED <<status, nature, sigpend, stage, expired, caughtSignal,
                 failedMain, signalVars, exit_code>>

Events ==
  /\ pc = "events"
  /\ crashQueue' = IF debugReady THEN {} ELSE crashQueue
  /\ reap(ready)
  /\ ready' = {} /\ debugReady' = FALSE
  /\ pc' = IF caughtSignal = 0 THEN "check" ELSE "interrupted"
  /\ exit_code' = IF caughtSignal = 0 THEN 0 ELSE 128 + caughtSignal
  /\ UNCHANGED <<status, nature, sigpend, stage, expired, caughtSignal,
                 failedMain, signalVars>>

\* wait_for_all_children() gives up: all results become Interrupted, they are
\* printed, and the process ends with the same signal
Interrupt ==
  /\ pc = "interrupted"
  /\ results' = [c \in Children |-> Interrupted]
  /\ ended' = {}
  /\ armed' = armed \ {SIGINT}
  /\ pc' = "exit"
  /\ UNCHANGED <<childVars, sigpend, stage, expired, pollVars, handles, children_left,
                 caughtSignal, failedMain, signal, count, exit_code>>

\* terminate_children(), then the second wait starts
terminate_children ==
  /\ pc = "terminate"
  /\ failedMain' = failedMain \cup (Children \ ended)
  /\ kill_children(SIGQUIT)
  /\ stage' = 2 /\ expired' = FALSE /\ pc' = "check"
  /\ UNCHANGED <<childVars, pollVars, resultVars, caughtSignal, signalVars, exit_code>>

\* kill_children() with its default SIGKILL, then the third wait starts
KillAll ==
  /\ pc = "kill"
  /\ kill_children(SIGKILL)
  /\ stage' = 3 /\ expired' = FALSE /\ pc' = "check"
  /\ UNCHANGED <<childVars, pollVars, resultVars, caughtSignal, failedMain,
                 signalVars, exit_code>>

\* mutant: leaves the results of the hung children as resize() made them
MarkHung_without_result ==
  /\ pc = "mark"
  /\ failedMain' = failedMain \cup {0}
  /\ pc' = "done"
  /\ UNCHANGED <<childVars, sigpend, stage, expired, pollVars, resultVars,
                 caughtSignal, signalVars, exit_code>>

\* children that even SIGKILL did not end; log_platform_message() logs an
\* error to the main thread of slice 0, whichever child it is about
MarkHung ==
  /\ pc = "mark"
  /\ failedMain' = failedMain \cup {0}
  /\ results' = [c \in Children |-> IF c \in handles THEN TimedOut ELSE results[c]]
  /\ ended' = ended \ handles
  /\ pc' = "done"
  /\ UNCHANGED <<childVars, sigpend, stage, expired, pollVars, handles, children_left,
                 caughtSignal, signalVars, exit_code>>

ParentStep == \/ Check \/ PollReady \/ PollTimeout \/ Eintr \/ Events
              \/ Interrupt \/ terminate_children \/ KillAll \/ MarkHung
-----------------------------------------------------------------------------
Finished == ~Running /\ UNCHANGED vars

Next ==
  \/ ParentStep
  \/ PollSpurious
  \/ DeadlinePasses
  \/ \E s \in TermSignals : SignalArrives(s)
  \/ Running /\ \E c \in Children : ChildStep(c)
  \/ Finished

(***************************************************************************)
(* The parent is scheduled, time passes, and the kernel delivers signals.  *)
(* A test is under no obligation to finish, and no signal has to arrive.   *)
(***************************************************************************)
Fairness ==
  /\ WF_vars(ParentStep)
  /\ WF_vars(DeadlinePasses)
  /\ \A c \in Children : WF_vars(Running /\ ChildDies(c))

Spec == Init /\ [][Next]_vars

FairSpec == Spec /\ Fairness
-----------------------------------------------------------------------------
TypeOK ==
  /\ proc \in [Children -> {"forked", "running", "crashed", "zombie", "gone"}]
  /\ status \in [Children -> Status \cup {NoStatus}]
  /\ nature \in [Children -> Nature]
  /\ sigpend \in [Children -> SUBSET AllSignals]
  /\ crashQueue \subseteq Children
  /\ pc \in PC /\ stage \in 1..3 /\ expired \in BOOLEAN
  /\ ready \subseteq Children /\ debugReady \in BOOLEAN
  /\ handles \subseteq Children
  /\ children_left \in 0..N
  /\ results \in [Children -> TestResult]
  /\ ended \subseteq Children
  /\ caughtSignal \in {0, SIGINT}
  /\ failedMain \subseteq Children
  /\ signal \in TermSignals \cup {0} /\ count \in Nat
  /\ armed \subseteq TermSignals \cup {SIGINT}
  /\ exit_code \in {0} \cup {128 + s : s \in AllSignals}

(***************************************************************************)
(* wait_for_children() decides whether to go on waiting by children_left   *)
(* and whom to signal by handles: the two always agree, so that no wait    *)
(* ends with a child unaccounted for or goes on for a child that is gone.  *)
(***************************************************************************)
LeftCountsHandles == children_left = Cardinality(handles)

(***************************************************************************)
(* When wait_for_children() returns, the result of every child that ended  *)
(* is the decoding of how that very child ended, and a child that never    *)
(* ended is TimedOut.  In particular the value results.resize() starts     *)
(* from, which reads Passed, never survives for a child that did not pass. *)
(***************************************************************************)
ResultsFaithful ==
  pc = "done" =>
    \A c \in Children :
      results[c] = IF proc[c] = "gone" THEN test_result_from_exit_code(status[c])
                                       ELSE TimedOut

(***************************************************************************)
(* kill(-pid) never names a child that has been reaped: its process ID may *)
(* by then belong to somebody else.                                        *)
(***************************************************************************)
NoSignalToReaped ==
  [][\A c \in Children : proc[c] = "gone" => sigpend'[c] = sigpend[c]]_vars

(***************************************************************************)
(* A crash context that is still in the debug socket belongs to a child    *)
(* whose handle is still known, so debug_crashed_child() can attribute it: *)
(* the socket is polled last and drained before the children are reaped.   *)
(***************************************************************************)
ContextHasSlice == crashQueue \subseteq handles

(***************************************************************************)
(* Every child reported as TimedOut has the message "did not exit" in the  *)
(* log of its own slice: terminate_children() named it before any SIGQUIT  *)
(* that could have ended it was sent.                                      *)
(***************************************************************************)
TimeoutIsLogged == \A c \in Children : results[c] = TimedOut => c \in failedMain

(***************************************************************************)
(* Once a child has been reaped, its result changes at most to Interrupted:*)
(* no later escalation step overwrites a verdict that was obtained.        *)
(***************************************************************************)
VerdictKept ==
  [][\A c \in Children : proc[c] = "gone" => results'[c] \in {results[c], Interrupted}]_vars

(***************************************************************************)
(* wait_for_children() always comes to an end, whatever the children do:   *)
(* hang, ignore SIGQUIT, or cannot be killed.                              *)
(***************************************************************************)
WaitEnds == <>(~Running)

(***************************************************************************)
(* Once single_wait() has caught SIGINT, the run stops with that signal,   *)
(* unless a child cannot be killed and the wait ends without it.           *)
(***************************************************************************)
CaughtSignalStops ==
  (caughtSignal # 0) ~> (pc \in {"exit", "dead"} \/ (pc = "done" /\ handles # {}))

(***************************************************************************)
(* A termination signal delivered while the parent waits ends the run with *)
(* that signal (what the interrupt-SIGHUP, -SIGINT and -SIGTERM tests      *)
(* expect of the exit code).                                               *)
(***************************************************************************)
SignalStops ==
  (count > 0) ~> (pc \in {"exit", "dead"})
=============================================================================

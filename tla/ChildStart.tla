------------------------------ MODULE ChildStart ------------------------------
(***************************************************************************)
(* How the processes of a test are started: call_forkfd(), which the first *)
(* time finds out with two eventfds whether a process that forkfd() made   *)
(* can be used, and spawn_child(), which then replaces the program of the  *)
(* child.  The child that was tried is the test's child if nothing was     *)
(* wrong with it.                                                          *)
(***************************************************************************)
EXTENDS Integers, FiniteSets

CONSTANTS
  Starts,      \* child processes to start, one for each slice
  MayBeKilled  \* whether the child that is tried may be killed from outside

\* a test has at least one slice
ASSUME StartsAssumption == Starts \in Nat \ {0}

VARIABLES
  kernel,      \* [pidfd, poll, pid : BOOLEAN]: clone() makes pidfds, poll() waits for one, getpid() is not cached
  exec,        \* children run a new program: -f exec
  caller,      \* where the parent is
  ffd_extra_flags,   \* "unknown", "none" or "fork" (FFD_USE_FORK)
  efdpoll, efdpid,   \* what the eventfds hold
  process,     \* where each child is, by the order they were started in
  returned,    \* the children call_forkfd() returned to the parent
  interrupted  \* history: a signal interrupted eventfd_read() in the child that is tried

startVars == <<kernel, exec, caller, ffd_extra_flags, efdpoll, efdpid, process, returned,
               interrupted>>
events == <<efdpoll, efdpid>>
Children == DOMAIN process
Newest == Cardinality(Children)

Kernels == [pidfd : BOOLEAN, poll : BOOLEAN, pid : BOOLEAN]

\* where clone() makes no pidfds forkfd() uses fork() by itself: its pipe can be waited for, and fork()
\* brings the number that getpid() returns up to date
PollWaits == kernel.pidfd => kernel.poll
PidUpdated == kernel.pidfd => kernel.pid

StartInit ==
  /\ kernel \in Kernels /\ exec \in BOOLEAN
  /\ caller = "call" /\ ffd_extra_flags = "unknown"
  /\ efdpoll = "empty" /\ efdpid = "empty"
  /\ process = [c \in {} |-> "empty"] /\ returned = {} /\ interrupted = FALSE

NewChild(where) == process' = [c \in 1 .. Newest + 1 |-> IF c = Newest + 1 THEN where ELSE process[c]]
Moved(c, where) == process' = [process EXCEPT ![c] = where]
Gone(c) == process[c] \in {"exit127", "killed", "ended", "no_exec"}

-----------------------------------------------------------------------------
(* The parent.                                                             *)

\* the first call; forkfd() fails if there is no process to be had
TryPidfd(works) ==
  /\ caller = "call" /\ ffd_extra_flags = "unknown"
  /\ IF works
     THEN NewChild("wait_poll") /\ caller' = "poll" /\ UNCHANGED ffd_extra_flags
     ELSE UNCHANGED process /\ caller' = "fork" /\ ffd_extra_flags' = "fork"
  /\ UNCHANGED <<kernel, exec, events, returned, interrupted>>

\* mutant: the child is told nothing if poll() does not work
Told_silent(ready) == IF ready THEN "empty" ELSE "PollWorks"

Told(ready) == IF ready THEN "PollFails" ELSE "PollWorks"

\* poll() for 1 ms: the child is there to be waited for only if it is gone, or poll() does not work
PollChild ==
  /\ caller = "poll"
  /\ LET ready == Gone(Newest) \/ ~PollWaits
     IN  /\ efdpoll' = Told(ready)
         /\ caller' = IF ready THEN "reap" ELSE "read_pid"
  /\ UNCHANGED <<kernel, exec, ffd_extra_flags, efdpid, process, returned, interrupted>>

\* blocks until the child has written
ReadPid ==
  /\ caller = "read_pid" /\ efdpid # "empty"
  /\ IF efdpid = "PidProperlyUpdated"
     THEN caller' = "return" /\ returned' = returned \cup {Newest} /\ ffd_extra_flags' = "none"
     ELSE caller' = "reap" /\ UNCHANGED <<returned, ffd_extra_flags>>
  /\ UNCHANGED <<kernel, exec, events, process, interrupted>>

\* forkfd_wait() and forkfd_close()
Reap ==
  /\ caller = "reap" /\ Gone(Newest)
  /\ caller' = "fork" /\ ffd_extra_flags' = "fork"
  /\ UNCHANGED <<kernel, exec, events, process, returned, interrupted>>

\* forkfd() as it was found to work, or exit()
ForkChild(works) ==
  /\ caller = "fork" \/ (caller = "call" /\ ffd_extra_flags # "unknown")
  /\ IF works
     THEN NewChild("child") /\ caller' = "return" /\ returned' = returned \cup {Newest + 1}
     ELSE caller' = "exited" /\ UNCHANGED <<process, returned>>
  /\ UNCHANGED <<kernel, exec, ffd_extra_flags, events, interrupted>>

\* run_one_test_children(): children.add(), and the next slice or wait_for_children()
AddChild ==
  /\ caller = "return"
  /\ caller' = IF Cardinality(returned) < Starts THEN "call" ELSE "started"
  /\ UNCHANGED <<kernel, exec, ffd_extra_flags, events, process, returned, interrupted>>

-----------------------------------------------------------------------------
(* A child.                                                                *)

\* blocks until the parent has tried poll()
AwaitPoll(c) ==
  /\ process[c] = "wait_poll" /\ efdpoll # "empty"
  /\ Moved(c, IF efdpoll = "PollFails" THEN "exit127" ELSE "check_pid")
  /\ UNCHANGED <<kernel, exec, caller, ffd_extra_flags, events, returned, interrupted>>

\* a signal interrupts the read, which is not repeated and leaves pollstatus as it was: with any value
InterruptedRead(c) ==
  /\ process[c] = "wait_poll" /\ efdpoll = "empty"
  /\ \E where \in {"exit127", "check_pid"} : Moved(c, where)
  /\ interrupted' = TRUE
  /\ UNCHANGED <<kernel, exec, caller, ffd_extra_flags, events, returned>>

\* mutant: the child goes on with the wrong PID
CheckPid_ignored(c) ==
  /\ process[c] = "check_pid"
  /\ efdpid' = IF PidUpdated THEN "PidProperlyUpdated" ELSE "PidIncorrectlyCached"
  /\ Moved(c, "child")
  /\ UNCHANGED <<kernel, exec, caller, ffd_extra_flags, efdpoll, returned, interrupted>>

CheckPid(c) ==
  /\ process[c] = "check_pid"
  /\ efdpid' = IF PidUpdated THEN "PidProperlyUpdated" ELSE "PidIncorrectlyCached"
  /\ Moved(c, IF PidUpdated THEN "child" ELSE "exit127")
  /\ UNCHANGED <<kernel, exec, caller, ffd_extra_flags, efdpoll, returned, interrupted>>

\* the child runs the test; in spawn_child() execv() comes first
RunChild(c, works) ==
  /\ process[c] = "child"
  /\ works \/ exec
  /\ Moved(c, IF works THEN "ended" ELSE "no_exec")
  /\ UNCHANGED <<kernel, exec, caller, ffd_extra_flags, events, returned, interrupted>>

Killed(c) ==
  /\ MayBeKilled /\ process[c] \in {"wait_poll", "check_pid"}
  /\ Moved(c, "killed")
  /\ UNCHANGED <<kernel, exec, caller, ffd_extra_flags, events, returned, interrupted>>

StartStep ==
  \/ TryPidfd(TRUE) \/ PollChild \/ ReadPid \/ Reap \/ ForkChild(TRUE) \/ AddChild
  \/ \E c \in Children : AwaitPoll(c) \/ CheckPid(c)

\* what need not happen, the end of a child among it
StartEvent ==
  \/ TryPidfd(FALSE) \/ ForkChild(FALSE)
  \/ \E c \in Children : InterruptedRead(c) \/ Killed(c) \/ RunChild(c, TRUE) \/ RunChild(c, FALSE)

StartNext == StartStep \/ StartEvent

\* the processes are scheduled; nothing has to fail, and no child has to end
StartSpec == StartInit /\ [][StartNext]_startVars /\ WF_startVars(StartStep)

-----------------------------------------------------------------------------
(* Properties.                                                             *)

\* The parent and the child agree on which process is the test's: a child that runs the test is one that
\* call_forkfd() returned or is about to return, and one that was returned runs it.  So no slice is run by
\* two processes, and none by a child that gave up.  The exception is a child whose eventfd_read() was
\* interrupted: it may run the test although the parent found poll() not to work.  Even then the slice is
\* never run by two processes at a time: the child is the newest, as the next one is made after it ended.
SameChild ==
  /\ \A c \in Children :
       process[c] \in {"child", "ended", "no_exec"}
       => \/ c \in returned
          \/ c = Newest /\ caller = "read_pid" /\ efdpid = "PidProperlyUpdated"
          \/ interrupted /\ (c = Newest \/ process[c] # "child")
  /\ \A c \in returned : process[c] \in {"child", "ended", "no_exec"}
  /\ caller = "started" => Cardinality(returned) = Starts

\* call_forkfd() lets forkfd() use the pidfds of the kernel only if poll() waits for one and getpid() tells
\* the child its own number, whatever was interrupted; and no child is left to be waited for when it
\* forces fork().
PidfdSound ==
  /\ ffd_extra_flags = "none" /\ kernel.pidfd => kernel.poll /\ kernel.pid
  /\ ffd_extra_flags = "fork" => \A c \in Children \ returned : Gone(c)

\* Every child of the test is started, or the program exits: the parent and the child do not wait for each
\* other.  There are two exceptions.  A child that dies between the two eventfds, or gives up because its
\* read was interrupted, leaves the parent in eventfd_read() for a number that nobody will write.  And a
\* child that went on after its read was interrupted makes the parent wait, in forkfd_wait(), until it has
\* run the whole test.
AllStarted ==
  (caller # "call") ~>
    \/ caller \in {"started", "exited"}
    \/ /\ caller = "read_pid" /\ efdpid = "empty"
       /\ process[Newest] = "killed" \/ (interrupted /\ process[Newest] = "exit127")
    \/ caller = "reap" /\ interrupted /\ process[Newest] = "child"
=============================================================================

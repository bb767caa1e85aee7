-------------------------- MODULE ChildStartProofs --------------------------
(***************************************************************************)
(* Proofs about ChildStart, for any number of slices and whether or not a  *)
(* child may be killed.                                                    *)
(***************************************************************************)
EXTENDS ChildStart, FiniteSetTheorems, TLAPS

Runs == {"child", "ended", "no_exec"}
GaveUp == {"exit127", "killed"}
Trying == {"wait_poll", "check_pid"}
Callers == {"call", "poll", "read_pid", "reap", "fork", "return", "started", "exited"}

StartTypeOK ==
  /\ kernel \in Kernels /\ exec \in BOOLEAN /\ caller \in Callers /\ interrupted \in BOOLEAN
  /\ ffd_extra_flags \in {"unknown", "none", "fork"}
  /\ efdpoll \in {"empty", "PollWorks", "PollFails"}
  /\ efdpid \in {"empty", "PidProperlyUpdated", "PidIncorrectlyCached"}
  /\ Newest \in Nat /\ process \in [1 .. Newest -> Runs \cup GaveUp \cup Trying]
  /\ returned \in SUBSET (1 .. Newest)

\* how many were returned, by where the parent is
CountInv ==
  /\ IsFiniteSet(returned) /\ Cardinality(returned) \in Nat
  /\ caller \in {"call", "poll", "read_pid", "reap", "fork"} => Cardinality(returned) < Starts
  /\ caller = "return" => Cardinality(returned) <= Starts
  /\ caller = "started" => Cardinality(returned) = Starts

\* until it is known how to fork there is no child, or the one that is tried, which is where the eventfds
\* say it may be; unless it was interrupted, it does not go on before the parent has said so
TryInv ==
  ffd_extra_flags = "unknown" =>
    /\ returned = {} /\ caller \in {"call", "poll", "read_pid", "reap"}
    /\ caller = "call" => Newest = 0 /\ efdpoll = "empty" /\ efdpid = "empty"
    /\ caller # "call" =>
         /\ Newest = 1
         /\ process[1] \in Trying => efdpid = "empty"
         /\ process[1] \in Runs => efdpid = "PidProperlyUpdated"
         /\ efdpid = "PidProperlyUpdated" => process[1] \in Runs /\ PidUpdated
         /\ efdpid = "PidIncorrectlyCached" => process[1] = "exit127"
    /\ caller = "poll" => efdpoll = "empty" /\ (interrupted \/ process[1] \in {"wait_poll", "killed"})
    /\ caller = "read_pid" => efdpoll = "PollWorks" /\ PollWaits
    /\ caller = "reap" =>
         /\ interrupted \/ process[1] \in GaveUp \cup {"wait_poll"}
         /\ efdpoll = "PollFails" \/ process[1] = "exit127"

\* afterwards every child runs the test and was returned, or gave up and was not, or was interrupted and
\* has run it
KnownInv ==
  ffd_extra_flags # "unknown" =>
    /\ caller \in {"call", "fork", "return", "started", "exited"}
    /\ \A c \in 1 .. Newest :
         IF c \in returned THEN process[c] \in Runs
         ELSE process[c] \in GaveUp \/ (interrupted /\ process[c] \in {"ended", "no_exec"})
    /\ ffd_extra_flags = "none" => PollWaits /\ PidUpdated

StartIInv == StartTypeOK /\ CountInv /\ TryInv /\ KnownInv
-----------------------------------------------------------------------------
\* The children are numbered from 1.
LEMMA Numbered == StartTypeOK => Children = 1 .. Newest
  BY DEF StartTypeOK, Children

\* A new child, as forkfd() makes it, has the next number, and the others stay where they are.
LEMMA NewChildStep ==
  ASSUME StartTypeOK, NEW where \in Runs \cup Trying, NewChild(where)
  PROVE  /\ Newest' = Newest + 1
         /\ process' \in [1 .. Newest + 1 -> Runs \cup GaveUp \cup Trying]
         /\ process'[Newest + 1] = where
         /\ \A c \in 1 .. Newest : process'[c] = process[c]
<1>1. Newest \in Nat /\ process \in [1 .. Newest -> Runs \cup GaveUp \cup Trying]
  BY DEF StartTypeOK
<1>2. process' = [c \in 1 .. Newest + 1 |-> IF c = Newest + 1 THEN where ELSE process[c]]
  BY DEF NewChild
<1>3. DOMAIN process' = 1 .. Newest + 1
  BY <1>2
<1>4. Cardinality(1 .. Newest + 1) = Newest + 1
  BY <1>1, FS_Interval
<1>5. Newest' = Newest + 1
  BY <1>3, <1>4 DEF Newest, Children
<1> QED
  BY <1>1, <1>2, <1>5

\* A child that moves on changes nothing else of the processes.
LEMMA MovedStep ==
  ASSUME StartTypeOK, NEW c \in Children, NEW where \in Runs \cup GaveUp \cup Trying, Moved(c, where)
  PROVE  /\ Newest' = Newest /\ c \in 1 .. Newest
         /\ process' \in [1 .. Newest -> Runs \cup GaveUp \cup Trying]
         /\ process'[c] = where
         /\ \A d \in 1 .. Newest : d # c => process'[d] = process[d]
<1>1. Newest \in Nat /\ process \in [1 .. Newest -> Runs \cup GaveUp \cup Trying] /\ c \in 1 .. Newest
  BY Numbered DEF StartTypeOK
<1>2. process' = [process EXCEPT ![c] = where]
  BY DEF Moved
<1>3. Newest' = Newest
  BY <1>1, <1>2 DEF Newest, Children
<1> QED
  BY <1>1, <1>2, <1>3

\* A step that moves no process leaves their number.
LEMMA SameProcesses == process' = process => Newest' = Newest /\ Children' = Children
  BY DEF Newest, Children

\* Before the first call nothing was started.
LEMMA StartInitIInv == StartInit => StartIInv
<1> SUFFICES ASSUME StartInit PROVE StartIInv
  OBVIOUS
<1>1. Children = {} /\ returned = {}
  BY DEF StartInit, Children
<1>2. Newest = 0 /\ Cardinality(returned) = 0 /\ IsFiniteSet(returned)
  BY <1>1, FS_EmptySet DEF Newest
<1>3. StartTypeOK
  <2>1. process \in [1 .. Newest -> Runs \cup GaveUp \cup Trying]
    BY <1>2 DEF StartInit
  <2> QED
    BY <1>1, <1>2, <2>1 DEF StartTypeOK, StartInit, Callers
<1>4. CountInv
  BY <1>2, StartsAssumption DEF CountInv, StartInit
<1>5. TryInv /\ KnownInv
  BY <1>1, <1>2 DEF TryInv, KnownInv, StartInit
<1> QED
  BY <1>3, <1>4, <1>5 DEF StartIInv

-----------------------------------------------------------------------------
(* The steps of the parent.                                                *)

\* The first call of call_forkfd() makes the child that is tried, or falls back to fork().
LEMMA TryPidfdStep ==
  ASSUME StartIInv, NEW works \in BOOLEAN, TryPidfd(works)
  PROVE  StartIInv'
<1> USE DEF StartIInv
<1>1. /\ caller = "call" /\ returned = {} /\ Newest = 0 /\ efdpoll = "empty" /\ efdpid = "empty"
      /\ UNCHANGED <<kernel, exec, efdpoll, efdpid, returned, interrupted>>
  BY DEF TryPidfd, TryInv, events
<1>2. CASE works
  <2>1. NewChild("wait_poll") /\ caller' = "poll" /\ ffd_extra_flags' = ffd_extra_flags
    BY <1>2 DEF TryPidfd
  <2>2. Newest' = 1 /\ process' \in [1 .. 1 -> Runs \cup GaveUp \cup Trying] /\ process'[1] = "wait_poll"
    BY <1>1, <2>1, NewChildStep DEF Trying
  <2>3. StartTypeOK'
    BY <1>1, <2>1, <2>2 DEF StartTypeOK, Callers
  <2>4. CountInv'
    BY <1>1, <2>1 DEF CountInv
  <2>5. TryInv' /\ KnownInv'
    BY <1>1, <2>1, <2>2 DEF TryInv, KnownInv, TryPidfd, Runs
  <2> QED
    BY <2>3, <2>4, <2>5
<1>3. CASE ~works
  <2>1. process' = process /\ caller' = "fork" /\ ffd_extra_flags' = "fork"
    BY <1>3 DEF TryPidfd
  <2>2. Newest' = 0
    BY <1>1, <2>1, SameProcesses
  <2>3. StartTypeOK'
    BY <1>1, <2>1, <2>2 DEF StartTypeOK, Callers
  <2>4. CountInv'
    BY <1>1, <2>1 DEF CountInv
  <2>5. TryInv' /\ KnownInv'
    BY <1>1, <2>1, <2>2 DEF TryInv, KnownInv
  <2> QED
    BY <2>3, <2>4, <2>5
<1> QED
  BY <1>2, <1>3

\* While call_forkfd() tries a child there is no other.
LEMMA TriedChild ==
  ASSUME StartIInv, caller \in {"poll", "read_pid", "reap"}
  PROVE  /\ ffd_extra_flags = "unknown" /\ returned = {} /\ Newest = 1
         /\ process[1] \in Runs \cup GaveUp \cup Trying
  BY DEF StartIInv, StartTypeOK, TryInv, KnownInv, Callers

\* poll() of the child that is tried, and what it is told.
LEMMA PollChildStep == StartIInv /\ PollChild => StartIInv'
<1> SUFFICES ASSUME StartIInv, PollChild PROVE StartIInv'
  OBVIOUS
<1>1. caller = "poll" /\ UNCHANGED <<kernel, exec, ffd_extra_flags, efdpid, process, returned, interrupted>>
  BY DEF PollChild
<1>2. ffd_extra_flags = "unknown" /\ returned = {} /\ Newest = 1 /\ Newest' = 1
  BY <1>1, TriedChild, SameProcesses
<1>3. interrupted \/ process[1] \in {"wait_poll", "killed"}
  BY <1>1, <1>2 DEF StartIInv, TryInv
<1>4. \/ caller' = "reap" /\ efdpoll' = "PollFails"
      \/ caller' = "read_pid" /\ efdpoll' = "PollWorks" /\ PollWaits
  BY <1>2, Zenon DEF PollChild, Told
<1>5. StartTypeOK'
  BY <1>1, <1>2, <1>4 DEF StartIInv, StartTypeOK, Callers
<1>6. CountInv'
  BY <1>1, <1>4 DEF StartIInv, CountInv
<1>7. TryInv'
  <2>1. (PollWaits <=> PollWaits') /\ (PidUpdated <=> PidUpdated')
    BY <1>1 DEF PollWaits, PidUpdated
  <2> QED
    BY <1>1, <1>2, <1>3, <1>4, <2>1 DEF StartIInv, TryInv, GaveUp
<1>8. KnownInv'
  BY <1>1, <1>2 DEF KnownInv
<1> QED
  BY <1>5, <1>6, <1>7, <1>8 DEF StartIInv

\* The answer of the child decides whether it is the test's.
LEMMA ReadPidStep == StartIInv /\ ReadPid => StartIInv'
<1> SUFFICES ASSUME StartIInv, ReadPid PROVE StartIInv'
  OBVIOUS
<1>1. caller = "read_pid" /\ efdpid # "empty" /\ UNCHANGED <<kernel, exec, efdpoll, efdpid, process, interrupted>>
  BY DEF ReadPid, events
<1>2. ffd_extra_flags = "unknown" /\ returned = {} /\ Newest = 1 /\ Newest' = 1
  BY <1>1, TriedChild, SameProcesses
<1>3. PollWaits /\ Cardinality(returned) = 0 /\ 0 < Starts
  BY <1>1, <1>2, FS_EmptySet, StartsAssumption DEF StartIInv, TryInv
<1>4. CASE efdpid = "PidProperlyUpdated"
  <2>1. caller' = "return" /\ returned' = {1} /\ ffd_extra_flags' = "none"
    BY <1>2, <1>4 DEF ReadPid
  <2>2. process[1] \in Runs /\ PidUpdated
    BY <1>1, <1>2, <1>4 DEF StartIInv, TryInv
  <2>3. IsFiniteSet(returned') /\ Cardinality(returned') = 1
    BY <2>1, FS_Singleton
  <2>4. StartTypeOK'
    BY <1>1, <1>2, <2>1 DEF StartIInv, StartTypeOK, Callers
  <2>5. CountInv'
    BY <2>1, <2>3, StartsAssumption DEF CountInv
  <2>6. TryInv' /\ KnownInv'
    BY <1>1, <1>2, <1>3, <2>1, <2>2 DEF TryInv, KnownInv, PollWaits, PidUpdated
  <2> QED
    BY <2>4, <2>5, <2>6 DEF StartIInv
<1>5. CASE efdpid # "PidProperlyUpdated"
  <2>1. caller' = "reap" /\ returned' = returned /\ ffd_extra_flags' = ffd_extra_flags
    BY <1>5 DEF ReadPid
  <2>2. process[1] = "exit127"
    BY <1>1, <1>2, <1>5 DEF StartIInv, StartTypeOK, TryInv
  <2>3. StartTypeOK'
    BY <1>1, <1>2, <2>1 DEF StartIInv, StartTypeOK, Callers
  <2>4. CountInv'
    BY <1>1, <2>1 DEF StartIInv, CountInv
  <2>5. TryInv' /\ KnownInv'
    BY <1>1, <1>2, <2>1, <2>2 DEF StartIInv, TryInv, KnownInv, GaveUp, Runs, Trying
  <2> QED
    BY <2>3, <2>4, <2>5 DEF StartIInv
<1> QED
  BY <1>4, <1>5

\* A child that gave up is waited for before fork() is used.
LEMMA ReapStep == StartIInv /\ Reap => StartIInv'
<1> SUFFICES ASSUME StartIInv, Reap PROVE StartIInv'
  OBVIOUS
<1>1. /\ caller = "reap" /\ Gone(Newest) /\ caller' = "fork" /\ ffd_extra_flags' = "fork"
      /\ UNCHANGED <<kernel, exec, efdpoll, efdpid, process, returned, interrupted>>
  BY DEF Reap, events
<1>2. ffd_extra_flags = "unknown" /\ returned = {} /\ Newest = 1 /\ Newest' = 1
  BY <1>1, TriedChild, SameProcesses
<1>3. process[1] \in GaveUp \/ (interrupted /\ process[1] \in {"ended", "no_exec"})
  BY <1>1, <1>2 DEF StartIInv, TryInv, Gone, GaveUp
<1>4. StartTypeOK'
  BY <1>1, <1>2 DEF StartIInv, StartTypeOK, Callers
<1>5. CountInv'
  BY <1>1 DEF StartIInv, CountInv
<1>6. TryInv' /\ KnownInv'
  BY <1>1, <1>2, <1>3 DEF TryInv, KnownInv
<1> QED
  BY <1>4, <1>5, <1>6 DEF StartIInv

\* A child that forkfd() made afterwards is returned at once.
LEMMA ForkChildStep ==
  ASSUME StartIInv, NEW works \in BOOLEAN, ForkChild(works)
  PROVE  StartIInv'
<1>1. /\ caller \in {"fork", "call"} /\ ffd_extra_flags # "unknown"
      /\ UNCHANGED <<kernel, exec, ffd_extra_flags, efdpoll, efdpid, interrupted>>
  BY DEF ForkChild, StartIInv, TryInv, events
<1>2. CASE works
  <2>1. NewChild("child") /\ caller' = "return" /\ returned' = returned \cup {Newest + 1}
    BY <1>2 DEF ForkChild
  <2>2. /\ Newest' = Newest + 1 /\ process' \in [1 .. Newest + 1 -> Runs \cup GaveUp \cup Trying]
        /\ process'[Newest + 1] = "child" /\ \A c \in 1 .. Newest : process'[c] = process[c]
    BY <2>1, NewChildStep DEF Runs, StartIInv
  <2>3. Newest \in Nat /\ returned \in SUBSET (1 .. Newest)
    BY DEF StartIInv, StartTypeOK
  <2>4. IsFiniteSet(returned') /\ Cardinality(returned') = Cardinality(returned) + 1
    <3>1. Newest + 1 \notin returned
      BY <2>3
    <3> QED
      BY <2>1, <3>1, FS_AddElement DEF StartIInv, CountInv
  <2>5. StartTypeOK'
    BY <1>1, <2>1, <2>2, <2>3 DEF StartIInv, StartTypeOK, Callers
  <2>6. CountInv'
    BY <1>1, <2>1, <2>4, StartsAssumption DEF StartIInv, CountInv
  <2>7. TryInv'
    BY <1>1 DEF TryInv
  <2>8. KnownInv'
    <3>1. ASSUME NEW c \in 1 .. Newest + 1
          PROVE  IF c \in returned' THEN process'[c] \in Runs
                 ELSE process'[c] \in GaveUp \/ (interrupted' /\ process'[c] \in {"ended", "no_exec"})
      <4>1. CASE c = Newest + 1
        BY <2>1, <2>2, <4>1 DEF Runs
      <4>2. CASE c \in 1 .. Newest
        <5>1. c \in returned' <=> c \in returned
          BY <2>1, <2>3, <4>2
        <5> QED
          BY <1>1, <2>2, <4>2, <5>1 DEF StartIInv, KnownInv
      <4> QED
        BY <2>3, <4>1, <4>2
    <3> QED
      BY <1>1, <2>1, <2>2, <3>1 DEF StartIInv, KnownInv, PollWaits, PidUpdated
  <2> QED
    BY <2>5, <2>6, <2>7, <2>8 DEF StartIInv
<1>3. CASE ~works
  <2>1. caller' = "exited" /\ UNCHANGED <<process, returned>>
    BY <1>3 DEF ForkChild
  <2>2. Newest' = Newest
    BY <2>1, SameProcesses
  <2>3. StartTypeOK'
    BY <1>1, <2>1, <2>2 DEF StartIInv, StartTypeOK, Callers
  <2>4. CountInv'
    BY <2>1 DEF StartIInv, CountInv
  <2>5. TryInv' /\ KnownInv'
    BY <1>1, <2>1, <2>2 DEF StartIInv, TryInv, KnownInv, PollWaits, PidUpdated
  <2> QED
    BY <2>3, <2>4, <2>5 DEF StartIInv
<1> QED
  BY <1>2, <1>3

\* The child is added to the list, and the last one ends the loop.
LEMMA AddChildStep == StartIInv /\ AddChild => StartIInv'
<1> SUFFICES ASSUME StartIInv, AddChild PROVE StartIInv'
  OBVIOUS
<1>1. /\ caller = "return" /\ caller' = IF Cardinality(returned) < Starts THEN "call" ELSE "started"
      /\ UNCHANGED <<kernel, exec, ffd_extra_flags, efdpoll, efdpid, process, returned, interrupted>>
  BY DEF AddChild, events
<1>2. Newest' = Newest /\ ffd_extra_flags # "unknown"
  BY <1>1, SameProcesses DEF StartIInv, TryInv
<1>3. StartTypeOK'
  BY <1>1, <1>2 DEF StartIInv, StartTypeOK, Callers
<1>4. CountInv'
  BY <1>1, StartsAssumption DEF StartIInv, CountInv
<1>5. TryInv' /\ KnownInv'
  BY <1>1, <1>2 DEF StartIInv, TryInv, KnownInv, PollWaits, PidUpdated
<1> QED
  BY <1>3, <1>4, <1>5 DEF StartIInv

-----------------------------------------------------------------------------
(* The steps of a child.                                                   *)

\* A child that waits for the parent, or looks at its number, is the one that is tried.
LEMMA TryingChild ==
  ASSUME StartIInv, NEW c \in Children, process[c] \in Trying
  PROVE  c = 1 /\ Newest = 1 /\ ffd_extra_flags = "unknown" /\ returned = {} /\ caller \in {"poll", "read_pid", "reap"}
<1>1. c \in 1 .. Newest /\ Newest \in Nat
  BY Numbered DEF StartIInv, StartTypeOK
<1>2. ffd_extra_flags = "unknown"
  BY <1>1 DEF StartIInv, KnownInv, Trying, Runs, GaveUp
<1>3. caller # "call"
  BY <1>1, <1>2 DEF StartIInv, TryInv
<1> QED
  BY <1>1, <1>2, <1>3 DEF StartIInv, TryInv

\* The child that is tried moves, and the parent, which did not, still knows where it may be.
LEMMA TryingMoves ==
  ASSUME StartIInv, NEW c \in Children, process[c] \in Trying, NEW where \in Runs \cup GaveUp \cup Trying,
         Moved(c, where), UNCHANGED <<kernel, exec, caller, ffd_extra_flags, efdpoll, returned>>,
         interrupted' \in BOOLEAN,
         efdpid' \in {"empty", "PidProperlyUpdated", "PidIncorrectlyCached"}
  PROVE  StartTypeOK' /\ CountInv' /\ KnownInv' /\ process'[1] = where /\ Newest' = 1
<1>1. c = 1 /\ Newest = 1 /\ ffd_extra_flags = "unknown"
  BY TryingChild
<1>2. Newest' = 1 /\ process' \in [1 .. 1 -> Runs \cup GaveUp \cup Trying] /\ process'[1] = where
  BY <1>1, MovedStep DEF StartIInv
<1>3. StartTypeOK'
  BY <1>1, <1>2 DEF StartIInv, StartTypeOK
<1>4. CountInv'
  BY DEF StartIInv, CountInv
<1>5. KnownInv'
  BY <1>1 DEF KnownInv
<1> QED
  BY <1>2, <1>3, <1>4, <1>5

\* What the two sides found out about forkfd() does not change while the child moves.
LEMMA SameKernel == kernel' = kernel => (PollWaits <=> PollWaits') /\ (PidUpdated <=> PidUpdated')
  BY DEF PollWaits, PidUpdated

\* The child is told whether poll() works.
LEMMA AwaitPollStep == ASSUME StartIInv, NEW c \in Children, AwaitPoll(c) PROVE StartIInv'
<1> DEFINE where == IF efdpoll = "PollFails" THEN "exit127" ELSE "check_pid"
<1>1. /\ process[c] = "wait_poll" /\ efdpoll # "empty" /\ Moved(c, where)
      /\ UNCHANGED <<kernel, exec, caller, ffd_extra_flags, efdpoll, efdpid, returned, interrupted>>
  BY DEF AwaitPoll, events
<1>2. process[c] \in Trying /\ where \in Runs \cup GaveUp \cup Trying
  BY <1>1 DEF Trying, GaveUp
<1>3. c = 1 /\ Newest = 1 /\ ffd_extra_flags = "unknown" /\ returned = {} /\ caller \in {"poll", "read_pid", "reap"}
  BY <1>2, TryingChild
<1>4. interrupted' \in BOOLEAN /\ efdpid' \in {"empty", "PidProperlyUpdated", "PidIncorrectlyCached"}
  BY <1>1 DEF StartIInv, StartTypeOK
<1>5. StartTypeOK' /\ CountInv' /\ KnownInv' /\ process'[1] = where /\ Newest' = 1
  BY <1>1, <1>2, <1>4, TryingMoves
<1>6. TryInv'
  BY <1>1, <1>3, <1>5, SameKernel DEF StartIInv, TryInv, Runs, GaveUp, Trying
<1> QED
  BY <1>5, <1>6 DEF StartIInv

\* The read is interrupted, and the child takes what it finds in pollstatus for the answer.
LEMMA InterruptedReadStep == ASSUME StartIInv, NEW c \in Children, InterruptedRead(c) PROVE StartIInv'
<1>1. PICK where \in {"exit127", "check_pid"} : Moved(c, where)
  BY DEF InterruptedRead
<1>2. /\ process[c] = "wait_poll" /\ efdpoll = "empty" /\ interrupted' = TRUE
      /\ UNCHANGED <<kernel, exec, caller, ffd_extra_flags, efdpoll, efdpid, returned>>
  BY DEF InterruptedRead, events
<1>3. process[c] \in Trying /\ where \in Runs \cup GaveUp \cup Trying
  BY <1>2 DEF Trying, GaveUp
<1>4. c = 1 /\ Newest = 1 /\ ffd_extra_flags = "unknown" /\ returned = {} /\ caller \in {"poll", "read_pid", "reap"}
  BY <1>3, TryingChild
<1>5. efdpid' \in {"empty", "PidProperlyUpdated", "PidIncorrectlyCached"}
  BY <1>2 DEF StartIInv, StartTypeOK
<1>6. StartTypeOK' /\ CountInv' /\ KnownInv' /\ process'[1] = where /\ Newest' = 1
  BY <1>1, <1>2, <1>3, <1>5, TryingMoves
<1>7. TryInv'
  BY <1>2, <1>4, <1>6, SameKernel DEF StartIInv, TryInv, Runs, GaveUp, Trying
<1> QED
  BY <1>6, <1>7 DEF StartIInv

\* The child tells the parent whether it knows its number, and goes on only then.
LEMMA CheckPidStep == ASSUME StartIInv, NEW c \in Children, CheckPid(c) PROVE StartIInv'
<1> DEFINE where == IF PidUpdated THEN "child" ELSE "exit127"
<1>1. /\ process[c] = "check_pid" /\ Moved(c, where)
      /\ efdpid' = IF PidUpdated THEN "PidProperlyUpdated" ELSE "PidIncorrectlyCached"
      /\ UNCHANGED <<kernel, exec, caller, ffd_extra_flags, efdpoll, returned, interrupted>>
  BY DEF CheckPid
<1>2. process[c] \in Trying /\ where \in Runs \cup GaveUp \cup Trying
  BY <1>1 DEF Trying, Runs, GaveUp
<1>3. c = 1 /\ Newest = 1 /\ ffd_extra_flags = "unknown" /\ returned = {} /\ caller \in {"poll", "read_pid", "reap"}
  BY <1>2, TryingChild
<1>4. interrupted' \in BOOLEAN /\ efdpid' \in {"empty", "PidProperlyUpdated", "PidIncorrectlyCached"}
  BY <1>1 DEF StartIInv, StartTypeOK
<1>5. StartTypeOK' /\ CountInv' /\ KnownInv' /\ process'[1] = where /\ Newest' = 1
  BY <1>1, <1>2, <1>4, TryingMoves
<1>6. TryInv'
  BY <1>1, <1>3, <1>5, SameKernel DEF StartIInv, TryInv, Runs, GaveUp, Trying
<1> QED
  BY <1>5, <1>6 DEF StartIInv

\* The child that is tried is killed.
LEMMA KilledStep == ASSUME StartIInv, NEW c \in Children, Killed(c) PROVE StartIInv'
<1>1. /\ process[c] \in Trying /\ Moved(c, "killed") /\ "killed" \in Runs \cup GaveUp \cup Trying
      /\ UNCHANGED <<kernel, exec, caller, ffd_extra_flags, efdpoll, efdpid, returned, interrupted>>
  BY DEF Killed, events, Trying, GaveUp
<1>2. c = 1 /\ Newest = 1 /\ ffd_extra_flags = "unknown" /\ returned = {} /\ caller \in {"poll", "read_pid", "reap"}
  BY <1>1, TryingChild
<1>3. interrupted' \in BOOLEAN /\ efdpid' \in {"empty", "PidProperlyUpdated", "PidIncorrectlyCached"}
  BY <1>1 DEF StartIInv, StartTypeOK
<1>4. StartTypeOK' /\ CountInv' /\ KnownInv' /\ process'[1] = "killed" /\ Newest' = 1
  BY <1>1, <1>3, TryingMoves
<1>5. TryInv'
  BY <1>1, <1>2, <1>4, SameKernel DEF StartIInv, TryInv, Runs, GaveUp, Trying
<1> QED
  BY <1>4, <1>5 DEF StartIInv

\* A child that runs the test ends; it was returned or is about to be, or was interrupted.
LEMMA RunChildStep ==
  ASSUME StartIInv, NEW c \in Children, NEW works \in BOOLEAN, RunChild(c, works)
  PROVE  StartIInv'
<1> DEFINE where == IF works THEN "ended" ELSE "no_exec"
<1>1. /\ process[c] = "child" /\ Moved(c, where) /\ where \in {"ended", "no_exec"}
      /\ where \in Runs /\ where \in Runs \cup GaveUp \cup Trying
      /\ UNCHANGED <<kernel, exec, caller, ffd_extra_flags, efdpoll, efdpid, returned, interrupted>>
  BY DEF RunChild, events, Runs
<1> HIDE DEF where
<1>2. /\ Newest' = Newest /\ c \in 1 .. Newest /\ process' \in [1 .. Newest -> Runs \cup GaveUp \cup Trying]
      /\ process'[c] = where /\ \A d \in 1 .. Newest : d # c => process'[d] = process[d]
  BY <1>1, MovedStep DEF StartIInv
<1>3. StartTypeOK'
  BY <1>1, <1>2 DEF StartIInv, StartTypeOK
<1>4. CountInv'
  BY <1>1 DEF StartIInv, CountInv
<1>5. TryInv'
  <2> SUFFICES ASSUME ffd_extra_flags = "unknown" PROVE TryInv'
    BY <1>1 DEF TryInv
  <2>1. caller # "call" /\ Newest = 1 /\ c = 1
    BY <1>2 DEF StartIInv, StartTypeOK, TryInv
  <2>2. process[1] \in Runs /\ process'[1] \in Runs /\ process'[1] # "exit127" /\ process'[1] \notin Trying
    BY <1>1, <1>2, <2>1 DEF Runs, Trying
  <2>3. efdpid = "PidProperlyUpdated" /\ process[1] \notin {"wait_poll", "killed", "exit127"}
    BY <1>1, <2>1, <2>2 DEF StartIInv, TryInv
  <2> QED
    BY <1>1, <1>2, <2>1, <2>2, <2>3, SameKernel DEF StartIInv, TryInv, GaveUp
<1>6. KnownInv'
  <2> SUFFICES ASSUME ffd_extra_flags # "unknown" PROVE KnownInv'
    BY <1>1 DEF KnownInv
  <2>1. c \in returned
    BY <1>1, <1>2 DEF StartIInv, KnownInv, GaveUp
  <2> QED
    BY <1>1, <1>2, <2>1, SameKernel DEF StartIInv, KnownInv
<1> QED
  BY <1>3, <1>4, <1>5, <1>6 DEF StartIInv

-----------------------------------------------------------------------------
\* Every step of the parent or of a child keeps the invariant.
LEMMA StartNextIInv == StartIInv /\ [StartNext]_startVars => StartIInv'
<1> SUFFICES ASSUME StartIInv, [StartNext]_startVars PROVE StartIInv'
  OBVIOUS
<1>1. CASE \E works \in BOOLEAN : TryPidfd(works) \/ ForkChild(works)
  BY <1>1, TryPidfdStep, ForkChildStep
<1>2. CASE PollChild \/ ReadPid \/ Reap \/ AddChild
  BY <1>2, PollChildStep, ReadPidStep, ReapStep, AddChildStep
<1>3. CASE \E c \in Children : \/ AwaitPoll(c) \/ InterruptedRead(c) \/ CheckPid(c) \/ Killed(c)
                                \/ \E works \in BOOLEAN : RunChild(c, works)
  BY <1>3, AwaitPollStep, InterruptedReadStep, CheckPidStep, KilledStep, RunChildStep
<1>4. CASE UNCHANGED startVars
  <2>1. Newest' = Newest /\ UNCHANGED <<kernel, exec, caller, ffd_extra_flags, efdpoll, efdpid, process,
                                      returned, interrupted>>
    BY <1>4, SameProcesses DEF startVars
  <2> QED
    BY <2>1, SameKernel DEF StartIInv, StartTypeOK, CountInv, TryInv, KnownInv
<1> QED
  BY <1>1, <1>2, <1>3, <1>4 DEF StartNext, StartStep, StartEvent

\* The invariant holds throughout.
LEMMA StartInvariant == StartSpec => []StartIInv
  BY StartInitIInv, StartNextIInv, PTL DEF StartSpec

\* The invariant says that the parent and the children agree, and that nothing is left behind.
LEMMA StartIInvImplies == StartIInv => SameChild /\ PidfdSound
<1> SUFFICES ASSUME StartIInv PROVE SameChild /\ PidfdSound
  OBVIOUS
<1>1. Children = 1 .. Newest /\ Newest \in Nat /\ returned \in SUBSET (1 .. Newest)
  BY Numbered DEF StartIInv, StartTypeOK
<1>2. ASSUME NEW c \in Children, process[c] \in {"child", "ended", "no_exec"}
      PROVE  \/ c \in returned
             \/ c = Newest /\ caller = "read_pid" /\ efdpid = "PidProperlyUpdated"
             \/ interrupted /\ (c = Newest \/ process[c] # "child")
  <2>1. CASE ffd_extra_flags # "unknown"
    BY <1>1, <1>2, <2>1 DEF StartIInv, KnownInv, GaveUp
  <2>2. CASE ffd_extra_flags = "unknown"
    BY <1>1, <1>2, <2>2 DEF StartIInv, StartTypeOK, TryInv, GaveUp, Runs
  <2> QED
    BY <2>1, <2>2
<1>3. ASSUME NEW c \in returned
      PROVE  process[c] \in {"child", "ended", "no_exec"}
  BY <1>1 DEF StartIInv, TryInv, KnownInv, Runs
<1>4. caller = "started" => Cardinality(returned) = Starts
  BY DEF StartIInv, CountInv
<1>5. PidfdSound
  <2>1. ffd_extra_flags = "none" /\ kernel.pidfd => kernel.poll /\ kernel.pid
    BY DEF StartIInv, KnownInv, PollWaits, PidUpdated
  <2>2. ffd_extra_flags = "fork" => \A c \in Children \ returned : Gone(c)
    BY <1>1 DEF StartIInv, KnownInv, Gone, GaveUp
  <2> QED
    BY <2>1, <2>2 DEF PidfdSound
<1> QED
  BY <1>2, <1>3, <1>4, <1>5 DEF SameChild

\* Whatever the kernel does, however the two sides interleave and wherever the child that call_forkfd()
\* tries is killed or interrupted: a child runs the test exactly if call_forkfd() returned it, or is about
\* to, or its read was interrupted; in that case too the next child is made only after it has ended; and
\* the test goes on with as many children as it has slices.
THEOREM OneProcessPerSlice == StartSpec => []SameChild
  BY StartInvariant, StartIInvImplies, PTL

\* call_forkfd() leaves forkfd() its choice only where pidfds work or are not used, whatever is
\* interrupted, and leaves no child behind when it forces fork().
THEOREM PidfdOnlyWhereSound == StartSpec => []PidfdSound
  BY StartInvariant, StartIInvImplies, PTL
=============================================================================

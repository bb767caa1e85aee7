------------------------- MODULE ChildrenWaitProofs -------------------------
(***************************************************************************)
(* Proofs about ChildrenWait, for any number of children, any exit codes   *)
(* and any number of signals.                                              *)
(***************************************************************************)
EXTENDS ChildrenWait, FiniteSetTheorems, TLAPS

(***************************************************************************)
(* The inductive invariant.  Types alone are not inductive: children_left  *)
(* stays in range only because it counts the handles.  The results are     *)
(* right at the end because they are right for every reaped child all the  *)
(* time; a crash context is attributable because poll() reported the debug *)
(* socket whenever it reported the exit of the child that wrote to it; and *)
(* a time-out is logged because SIGQUIT is sent only after the message.    *)
(***************************************************************************)
HandlesInv ==
  /\ handles = {c \in Children : proc[c] # "gone"}
  /\ children_left = Cardinality(handles)
  /\ ready \subseteq {c \in Children : proc[c] = "zombie"}

ResultsInv ==
  /\ \A c \in Children : proc[c] \in {"zombie", "gone"} => status[c] \in Status
  /\ pc # "exit" =>
       \A c \in Children :
         results[c] = IF proc[c] = "gone" THEN test_result_from_exit_code(status[c])
                      ELSE IF pc = "done" THEN TimedOut ELSE NoResult
  /\ pc = "exit" => \A c \in Children : results[c] = Interrupted

ContextInv ==
  /\ crashQueue \subseteq handles
  /\ pc = "events" /\ ~debugReady => ready \cap crashQueue = {}

TimeoutInv ==
  /\ pc \notin {"done", "exit"} => ended = Children \ handles
  /\ pc \in {"kill", "mark"} => stage # 1
  /\ stage # 1 \/ pc = "done" => handles \subseteq failedMain
  /\ \A c \in Children : SIGQUIT \in sigpend[c] => c \in failedMain
  /\ \A c \in Children :
       status[c].code # "CLD_EXITED" /\ status[c].status = SIGQUIT => c \in failedMain

IInv == TypeOK /\ HandlesInv /\ ResultsInv /\ ContextInv /\ TimeoutInv
-----------------------------------------------------------------------------
(***************************************************************************)
(* The children are finitely many, and N in number.                        *)
(***************************************************************************)
LEMMA ChildrenFinite == IsFiniteSet(Children) /\ Cardinality(Children) = N
  BY NAssumption, FS_Interval DEF Children

(***************************************************************************)
(* Removing reaped children from the handles lowers the count by as many.  *)
(***************************************************************************)
LEMMA ReapCount ==
  ASSUME NEW H \in SUBSET Children, NEW S \in SUBSET H
  PROVE  /\ Cardinality(H \ S) = Cardinality(H) - Cardinality(S)
         /\ Cardinality(H \ S) \in 0..N
<1>1. IsFiniteSet(H) /\ IsFiniteSet(S) /\ IsFiniteSet(H \ S)
  BY ChildrenFinite, FS_Subset
<1>2. Cardinality(H \ S) = Cardinality(H) - Cardinality(H \cap S) /\ H \cap S = S
  BY <1>1, FS_Difference
<1>3. Cardinality(H \ S) <= N
  BY ChildrenFinite, FS_Subset
<1>4. Cardinality(H \ S) \in Nat
  BY <1>1, FS_CardinalityType
<1> QED
  BY <1>2, <1>3, <1>4, NAssumption

(***************************************************************************)
(* test_result_from_exit_code() is total on what waiting can report, and   *)
(* says TimedOut only for a child that SIGQUIT killed.                     *)
(***************************************************************************)
LEMMA DecodeType ==
  ASSUME NEW st \in Status
  PROVE  /\ test_result_from_exit_code(st) \in TestResult
         /\ test_result_from_exit_code(st) = TimedOut
              => st.code # "CLD_EXITED" /\ st.status = SIGQUIT
<1> USE DEF test_result_from_exit_code, TestResult, Skipped, Passed, Failed, Killed,
            CoreDumped, OperatingSystemError, OutOfMemory, TimedOut, Interrupted,
            SIGQUIT, SIGKILL
<1>1. CASE st \in OwnStatus
  BY <1>1 DEF OwnStatus, Exited, Int8
<1>2. CASE st \in {DeathBy(s) : s \in AllSignals}
  <2>1. st.code # "CLD_EXITED"
    BY <1>2 DEF DeathBy, DumpedBy, KilledBy
  <2> QED
    BY <2>1
<1> QED
  BY <1>1, <1>2 DEF Status
-----------------------------------------------------------------------------
LEMMA InitIInv == Init => IInv
<1> SUFFICES ASSUME Init PROVE IInv
  OBVIOUS
<1> USE DEF Init
<1>1. TypeOK
  <2>1. children_left \in 0..N
    BY ChildrenFinite, NAssumption
  <2>2. signal \in TermSignals \cup {0} /\ count \in Nat /\ armed \subseteq TermSignals
    OBVIOUS
  <2>3. results \in [Children -> TestResult]
    BY DEF TestResult, NoResult, Passed, Skipped, Interrupted
  <2>4. pc \in PC /\ stage \in 1..3 /\ sigpend \in [Children -> SUBSET AllSignals]
    BY DEF PC
  <2> QED
    BY <2>1, <2>2, <2>3, <2>4 DEF TypeOK
<1>2. HandlesInv
  BY DEF HandlesInv
<1>3. ResultsInv
  BY DEF ResultsInv
<1>4. ContextInv
  BY DEF ContextInv
<1>5. TimeoutInv
  BY DEF TimeoutInv, NoStatus, SIGQUIT
<1> QED
  BY <1>1, <1>2, <1>3, <1>4, <1>5 DEF IInv

LEMMA StepIInv == IInv /\ [Next]_vars => IInv'
<1> SUFFICES ASSUME IInv, [Next]_vars PROVE IInv'
  OBVIOUS
<1> USE DEF IInv
<1> USE DEF childVars, pollVars, resultVars, signalVars
<1>1. CASE Check
  <2> USE <1>1 DEF Check, AfterLoop
  <2>1. children_left = 0 => handles = {}
    BY ChildrenFinite, FS_Subset, FS_EmptySet DEF HandlesInv, TypeOK
  <2>2. TypeOK'
    BY DEF TypeOK, PC
  <2>3. HandlesInv'
    BY DEF HandlesInv
  <2>4. ResultsInv'
    BY <2>1 DEF ResultsInv, HandlesInv, TypeOK
  <2>5. ContextInv'
    BY DEF ContextInv, TypeOK
  <2>6. TimeoutInv'
    BY <2>1 DEF TimeoutInv, TypeOK
  <2> QED
    BY <2>2, <2>3, <2>4, <2>5, <2>6
<1>2. CASE PollReady
  <2> USE <1>2 DEF PollReady, NothingReady, ReadyChildren
  <2>1. TypeOK'
    BY DEF TypeOK, PC
  <2>2. HandlesInv'
    BY DEF HandlesInv
  <2>3. ResultsInv'
    BY DEF ResultsInv
  <2>4. ContextInv'
    BY DEF ContextInv
  <2>5. TimeoutInv'
    BY DEF TimeoutInv
  <2> QED
    BY <2>1, <2>2, <2>3, <2>4, <2>5
<1>3. CASE PollTimeout \/ PollSpurious
  <2> USE <1>3 DEF PollTimeout, PollSpurious
  <2>1. TypeOK'
    BY DEF TypeOK, PC
  <2>2. HandlesInv' /\ ResultsInv' /\ ContextInv' /\ TimeoutInv'
    BY DEF HandlesInv, ResultsInv, ContextInv, TimeoutInv
  <2> QED
    BY <2>1, <2>2
<1>4. CASE Eintr
  <2> USE <1>4 DEF Eintr, kill_children
  <2>1. signal # 0 => signal \in AllSignals \ {SIGQUIT}
    BY SignalAssumption DEF TypeOK, AllSignals, SIGHUP, SIGINT, SIGTERM, SIGPIPE, SIGQUIT
  <2>2. /\ sigpend' \in [Children -> SUBSET AllSignals]
        /\ \A c \in Children : SIGQUIT \in sigpend'[c] => SIGQUIT \in sigpend[c]
    BY <2>1 DEF TypeOK
  <2>3. TypeOK'
    BY <2>1, <2>2 DEF TypeOK, PC, SIGINT
  <2>4. HandlesInv' /\ ResultsInv' /\ ContextInv'
    BY DEF HandlesInv, ResultsInv, ContextInv
  <2>5. TimeoutInv'
    BY <2>2 DEF TimeoutInv
  <2> QED
    BY <2>3, <2>4, <2>5
<1>5. CASE Events
  <2> USE <1>5 DEF Events, reap
  <2>1. ready \in SUBSET handles /\ handles \in SUBSET Children
    BY DEF HandlesInv
  <2>2. children_left' = Cardinality(handles') /\ children_left' \in 0..N
    BY <2>1, ReapCount DEF HandlesInv
  <2>3. \A c \in ready : test_result_from_exit_code(status[c]) \in TestResult
    BY <2>1, DecodeType DEF ResultsInv, HandlesInv
  <2>4. TypeOK'
    BY <2>1, <2>2, <2>3 DEF TypeOK, PC, AllSignals
  <2>5. HandlesInv'
    BY <2>1, <2>2 DEF HandlesInv, TypeOK
  <2>6. ResultsInv'
    BY <2>1 DEF ResultsInv, HandlesInv, TypeOK
  <2>7. ContextInv'
    BY <2>1 DEF ContextInv
  <2>8. TimeoutInv'
    BY <2>1 DEF TimeoutInv, TypeOK
  <2> QED
    BY <2>4, <2>5, <2>6, <2>7, <2>8
<1>6. CASE Interrupt
  <2> USE <1>6 DEF Interrupt
  <2>1. TypeOK'
    BY DEF TypeOK, PC, TestResult, Skipped, Interrupted
  <2>2. HandlesInv' /\ ResultsInv' /\ ContextInv' /\ TimeoutInv'
    BY DEF HandlesInv, ResultsInv, ContextInv, TimeoutInv
  <2> QED
    BY <2>1, <2>2
<1>7. CASE terminate_children
  <2> USE <1>7 DEF terminate_children, kill_children
  <2>1. TypeOK'
    <3>1. sigpend' \in [Children -> SUBSET AllSignals]
      BY DEF TypeOK, AllSignals
    <3>2. stage' \in 1..3 /\ pc' \in PC
      BY DEF PC
    <3> QED
      BY <3>1, <3>2 DEF TypeOK
  <2>2. HandlesInv' /\ ResultsInv' /\ ContextInv'
    BY DEF HandlesInv, ResultsInv, ContextInv
  <2>3. handles \subseteq failedMain'
    BY DEF TimeoutInv, HandlesInv
  <2>4. \A c \in Children : SIGQUIT \in sigpend'[c] => c \in failedMain'
    BY <2>3 DEF TimeoutInv, TypeOK
  <2>5. TimeoutInv'
    BY <2>3, <2>4 DEF TimeoutInv
  <2> QED
    BY <2>1, <2>2, <2>5
<1>8. CASE KillAll
  <2> USE <1>8 DEF KillAll, kill_children
  <2>1. TypeOK'
    <3>1. sigpend' \in [Children -> SUBSET AllSignals]
      BY DEF TypeOK, AllSignals
    <3>2. stage' \in 1..3 /\ pc' \in PC
      BY DEF PC
    <3> QED
      BY <3>1, <3>2 DEF TypeOK
  <2>2. HandlesInv' /\ ResultsInv' /\ ContextInv'
    BY DEF HandlesInv, ResultsInv, ContextInv
  <2>5. TimeoutInv'
    BY DEF TimeoutInv, TypeOK, SIGKILL, SIGQUIT
  <2> QED
    BY <2>1, <2>2, <2>5
<1>9. CASE MarkHung
  <2> USE <1>9 DEF MarkHung
  <2>1. TypeOK'
    BY NAssumption DEF TypeOK, PC, Children, TestResult, TimedOut, Skipped, Interrupted
  <2>2. HandlesInv' /\ ContextInv'
    BY DEF HandlesInv, ContextInv
  <2>3. ResultsInv'
    BY DEF ResultsInv, HandlesInv, TypeOK
  <2>4. TimeoutInv'
    BY DEF TimeoutInv
  <2> QED
    BY <2>1, <2>2, <2>3, <2>4
<1>10. CASE DeadlinePasses
  BY <1>10 DEF DeadlinePasses, TypeOK, HandlesInv, ResultsInv, ContextInv, TimeoutInv
<1>11. ASSUME NEW s \in TermSignals, SignalArrives(s) PROVE IInv'
  <2> USE <1>11 DEF SignalArrives, Running
  <2>1. s \in AllSignals
    BY SignalAssumption DEF AllSignals
  <2>2. TypeOK'
    BY <2>1 DEF TypeOK, PC
  <2>3. HandlesInv' /\ ResultsInv'
    BY DEF HandlesInv, ResultsInv
  <2>4. ContextInv'
    BY DEF ContextInv
  <2>5. TimeoutInv'
    BY DEF TimeoutInv
  <2> QED
    BY <2>2, <2>3, <2>4, <2>5
<1>12. ASSUME Running, NEW c \in Children, Setsid(c) PROVE IInv'
  <2> USE <1>12 DEF Setsid
  <2>1. TypeOK'
    BY DEF TypeOK
  <2>2. HandlesInv' /\ ResultsInv' /\ ContextInv' /\ TimeoutInv'
    BY DEF TypeOK, HandlesInv, ResultsInv, ContextInv, TimeoutInv
  <2> QED
    BY <2>1, <2>2
<1>13. ASSUME Running, NEW c \in Children, ChildCrashes(c) PROVE IInv'
  <2> USE <1>13 DEF ChildCrashes
  <2>1. TypeOK'
    BY DEF TypeOK
  <2>2. HandlesInv' /\ ResultsInv' /\ TimeoutInv'
    BY DEF TypeOK, HandlesInv, ResultsInv, TimeoutInv
  <2>3. ContextInv'
    BY DEF TypeOK, HandlesInv, ContextInv
  <2> QED
    BY <2>1, <2>2, <2>3
<1>14. ASSUME Running, NEW c \in Children, Alive(c), NEW st \in Status, End(c, st),
              st.code # "CLD_EXITED" /\ st.status = SIGQUIT => c \in failedMain
       PROVE  IInv'
  <2> USE <1>14 DEF End, Alive
  <2>1. TypeOK'
    BY DEF TypeOK
  <2>2. HandlesInv'
    BY DEF TypeOK, HandlesInv
  <2>3. ResultsInv'
    BY DEF TypeOK, ResultsInv
  <2>4. ContextInv'
    BY DEF ContextInv
  <2>5. TimeoutInv'
    BY DEF TypeOK, TimeoutInv
  <2> QED
    BY <2>1, <2>2, <2>3, <2>4, <2>5
<1>15. ASSUME Running, NEW c \in Children, ChildExits(c) PROVE IInv'
  <2>1. PICK st \in OwnStatus : End(c, st)
    BY <1>15 DEF ChildExits
  <2>2. Alive(c) /\ st \in Status /\ st.code = "CLD_EXITED"
    BY <1>15, <2>1 DEF ChildExits, Alive, Status, OwnStatus, Exited
  <2> QED
    BY <1>14, <1>15, <2>1, <2>2
<1>16. ASSUME Running, NEW c \in Children, ChildDies(c) PROVE IInv'
  <2>1. PICK s \in sigpend[c] : End(c, DeathBy(s))
    BY <1>16 DEF ChildDies
  <2>2. s \in AllSignals /\ DeathBy(s) \in Status /\ DeathBy(s).status = s
    BY <2>1 DEF TypeOK, Status, DeathBy, KilledBy, DumpedBy
  <2>3. s = SIGQUIT => c \in failedMain
    BY <2>1 DEF TimeoutInv
  <2> QED
    BY <1>14, <1>16, <2>1, <2>2, <2>3 DEF ChildDies
<1>17. ASSUME Running, NEW c \in Children, OomKill(c) \/ ChildDiesOfCrash(c) PROVE IInv'
  <2>1. PICK s \in {SIGKILL, SIGSEGV} : Alive(c) /\ End(c, DeathBy(s))
    BY <1>17 DEF OomKill, ChildDiesOfCrash, Alive
  <2>2. DeathBy(s) \in Status /\ DeathBy(s).status # SIGQUIT
    BY <2>1 DEF Status, AllSignals, DeathBy, KilledBy, DumpedBy, SIGKILL, SIGSEGV, SIGQUIT
  <2> QED
    BY <1>14, <1>17, <2>1, <2>2
<1>18. CASE UNCHANGED vars
  BY <1>18 DEF vars, TypeOK, HandlesInv, ResultsInv, ContextInv, TimeoutInv
<1> QED
  BY <1>1, <1>2, <1>3, <1>4, <1>5, <1>6, <1>7, <1>8, <1>9, <1>10, <1>11, <1>12, <1>13,
     <1>15, <1>16, <1>17, <1>18 DEF Next, ParentStep, ChildStep, Finished

(***************************************************************************)
(* IInv holds in every reachable state.                                    *)
(***************************************************************************)
LEMMA Inductive == Spec => []IInv
  BY InitIInv, StepIInv, PTL DEF Spec
-----------------------------------------------------------------------------
(***************************************************************************)
(* wait_for_children() keeps every variable in its type: in particular     *)
(* children_left never goes negative and every stored result is a          *)
(* TestResult.                                                             *)
(***************************************************************************)
THEOREM TypeCorrect == Spec => []TypeOK
  BY Inductive, PTL DEF IInv

(***************************************************************************)
(* The number that ends the waits and the handles that are signalled never *)
(* disagree.                                                               *)
(***************************************************************************)
THEOREM CountCorrect == Spec => []LeftCountsHandles
<1>1. IInv => LeftCountsHandles
  BY DEF IInv, HandlesInv, LeftCountsHandles
<1> QED
  BY <1>1, Inductive, PTL

(***************************************************************************)
(* Whatever the children do and whichever signals are sent, the results    *)
(* that wait_for_children() returns are those of the children.             *)
(***************************************************************************)
THEOREM ResultsCorrect == Spec => []ResultsFaithful
<1>1. IInv => ResultsFaithful
  BY DEF IInv, ResultsInv, ResultsFaithful
<1> QED
  BY <1>1, Inductive, PTL

(***************************************************************************)
(* debug_crashed_child() can always tell which slice a context is for.     *)
(***************************************************************************)
THEOREM ContextAttributable == Spec => []ContextHasSlice
<1>1. IInv => ContextHasSlice
  BY DEF IInv, ContextInv, ContextHasSlice
<1> QED
  BY <1>1, Inductive, PTL

(***************************************************************************)
(* No child is reported as timed out without the message that says so.     *)
(***************************************************************************)
THEOREM TimeoutLogged == Spec => []TimeoutIsLogged
<1>1. IInv => TimeoutIsLogged
  <2> SUFFICES ASSUME IInv, NEW c \in Children, results[c] = TimedOut PROVE c \in failedMain
    BY DEF TimeoutIsLogged
  <2>1. pc # "exit"
    BY DEF IInv, ResultsInv, TimedOut, Interrupted
  <2>2. CASE proc[c] = "gone"
    BY <2>1, <2>2, DecodeType DEF IInv, ResultsInv, TimeoutInv
  <2>3. CASE proc[c] # "gone"
    <3>1. pc = "done"
      BY <2>1, <2>3 DEF IInv, ResultsInv, TimedOut, NoResult, Passed
    <3> QED
      BY <2>3, <3>1 DEF IInv, HandlesInv, TimeoutInv
  <2> QED
    BY <2>2, <2>3
<1> QED
  BY <1>1, Inductive, PTL

(***************************************************************************)
(* The process group of a reaped child is never signalled.                 *)
(***************************************************************************)
THEOREM ReapedNotSignalled == Spec => NoSignalToReaped
<1>1. IInv /\ [Next]_vars
        => [\A c \in Children : proc[c] = "gone" => sigpend'[c] = sigpend[c]]_vars
  <2> SUFFICES ASSUME IInv, Next, NEW c \in Children, proc[c] = "gone"
               PROVE  sigpend'[c] = sigpend[c]
    OBVIOUS
  <2>1. c \notin handles
    BY DEF IInv, HandlesInv
  <2>2. CASE Eintr \/ terminate_children \/ KillAll
    BY <2>1, <2>2 DEF IInv, TypeOK, Eintr, terminate_children, KillAll, kill_children
  <2>3. CASE Check \/ PollReady \/ PollTimeout \/ Events \/ Interrupt \/ MarkHung
    BY <2>3 DEF Check, PollReady, PollTimeout, Events, Interrupt, MarkHung
  <2>4. CASE PollSpurious \/ DeadlinePasses \/ \E s \in TermSignals : SignalArrives(s)
    BY <2>4 DEF PollSpurious, DeadlinePasses, SignalArrives
  <2>5. ASSUME NEW d \in Children, ChildStep(d) PROVE sigpend' = sigpend
    BY <2>5 DEF ChildStep, Setsid, ChildExits, ChildDies, OomKill, ChildCrashes,
                ChildDiesOfCrash, End
  <2> QED
    BY <2>2, <2>3, <2>4, <2>5 DEF Next, ParentStep, Finished, vars
<1> QED
  BY <1>1, Inductive, PTL DEF Spec, NoSignalToReaped

(***************************************************************************)
(* The verdict obtained from a reaped child is never overwritten, except   *)
(* when the whole run is interrupted.                                      *)
(***************************************************************************)
THEOREM VerdictStable == Spec => VerdictKept
<1>1. IInv /\ [Next]_vars
        => [\A c \in Children : proc[c] = "gone"
              => results'[c] \in {results[c], Interrupted}]_vars
  <2> SUFFICES ASSUME IInv, Next, NEW c \in Children, proc[c] = "gone"
               PROVE  results'[c] \in {results[c], Interrupted}
    OBVIOUS
  <2>1. c \notin handles /\ c \notin ready
    BY DEF IInv, HandlesInv
  <2>2. CASE Events \/ Interrupt \/ MarkHung
    BY <2>1, <2>2 DEF IInv, TypeOK, Events, reap, Interrupt, MarkHung
  <2>3. CASE Check \/ PollReady \/ PollTimeout \/ Eintr \/ terminate_children \/ KillAll
    BY <2>3 DEF Check, PollReady, PollTimeout, Eintr, terminate_children, KillAll, resultVars
  <2>4. CASE PollSpurious \/ DeadlinePasses \/ \E s \in TermSignals : SignalArrives(s)
    BY <2>4 DEF PollSpurious, DeadlinePasses, SignalArrives, resultVars
  <2>5. ASSUME NEW d \in Children, ChildStep(d) PROVE results' = results
    BY <2>5 DEF ChildStep, Setsid, ChildExits, ChildDies, OomKill, ChildCrashes,
                ChildDiesOfCrash, End, resultVars
  <2> QED
    BY <2>2, <2>3, <2>4, <2>5 DEF Next, ParentStep, Finished, vars
<1> QED
  BY <1>1, Inductive, PTL DEF Spec, VerdictKept
=============================================================================

----------------------------- MODULE ChildNotice -----------------------------
(***************************************************************************)
(* What forkfd() promises its caller: a descriptor for a child process     *)
(* from which the end of THAT child is read, exactly once and only after   *)
(* the child has ended.  Module Forkfd implements it twice, with the       *)
(* kernel's pidfd and with a SIGCHLD handler that writes into a pipe.      *)
(***************************************************************************)

CONSTANT Children

VARIABLE child   \* child[c]: "none", "alive", "ended" or "reported"

Init == child = [c \in Children |-> "none"]

\* forkfd() starts the child.
Start(c) ==
    /\ child[c] = "none"
    /\ child' = [child EXCEPT ![c] = "alive"]

\* The child ends, of itself or killed.
End(c) ==
    /\ child[c] = "alive"
    /\ child' = [child EXCEPT ![c] = "ended"]

\* forkfd_wait4() returns how the child ended.
Report(c) ==
    /\ child[c] = "ended"
    /\ child' = [child EXCEPT ![c] = "reported"]

Next == \E c \in Children : Start(c) \/ End(c) \/ Report(c)

Spec == Init /\ [][Next]_child
=============================================================================

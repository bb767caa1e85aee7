------------------------------- MODULE Forkfd -------------------------------
(***************************************************************************)
(* forkfd(): a file descriptor that becomes readable when a child process  *)
(* ends.  Where the kernel has pidfds the descriptor is the kernel's.      *)
(* Elsewhere it is the reading end of a pipe: a lock-free table of entries *)
(* (a small array and a chain of bigger ones) relates the children to      *)
(* their pipes, and a SIGCHLD handler, which may run in any thread and     *)
(* interrupt forkfd() itself, reaps the children and writes the pipes.     *)
(* An atomic operation of the code is one step here; so is the scan of an  *)
(* array for a free entry, whose interleavings only move the choice.       *)
(***************************************************************************)
EXTENDS Naturals, Integers, Sequences, FiniteSets

CONSTANTS Children,    \* processes started with forkfd() or spawnfd()
          Strangers,   \* processes of a chained SIGCHLD handler
          Threads,     \* threads that call forkfd() and take signals
          SmallSize, BigSize, MaxArrays   \* sizes of the arrays; bound on the chain

Processes == Children \cup Strangers
Free == "free"         \* pid 0
Busy == "busy"         \* pid -1
None == "none"

Sections == 0..MaxArrays
Size(s) == IF s = 0 THEN SmallSize ELSE BigSize
Slots == {e \in Sections \X (1..(SmallSize + BigSize)) : e[2] <= Size(e[1])}

VARIABLES
    pidfd,      \* does the kernel support CLONE_PIDFD and P_PIDFD?
    status,     \* forkfd_status: is the handler installed?
    entry,      \* entry[e]: its pid and the child whose pipe is its deathPipe
    busyCount,  \* busyCount[s] of the header of section s
    arrays,     \* how many big arrays are chained
    process,    \* "none", "held" (blocked on the eventfd), "runs", "zombie", "gone"
    early,      \* children killed while they were held
    pipe,       \* what was written into each child's death pipe
    result,     \* what forkfd_wait4() returned for each child
    pending,    \* is SIGCHLD pending?
    call,       \* call[t]: the forkfd() or spawnfd() call of thread t
    handler     \* handler[t]: the SIGCHLD handler running on thread t

kernel == <<process, early, pending>>
table == <<entry, busyCount, arrays>>
forkfdVars == <<pidfd, status, table, kernel, pipe, result, call, handler>>

NoCall == [pc |-> "idle", child |-> None, spawn |-> FALSE, section |-> 0, slot |-> <<0, 1>>]
NoHandler == [pc |-> "idle", pid |-> None, slot |-> <<0, 1>>, second |-> FALSE]
NoThread == [NoHandler EXCEPT !.pc = "absent"]

ForkfdInit ==
    /\ pidfd \in BOOLEAN
    /\ status = 0
    /\ entry = [e \in Slots |-> [pid |-> Free, deathPipe |-> None]]
    /\ busyCount = [s \in Sections |-> 0]
    /\ arrays = 0
    /\ \E others \in SUBSET Strangers :
          process = [c \in Processes |-> IF c \in Children THEN "none"
                                         ELSE IF c \in others THEN "runs" ELSE "gone"]
    /\ early = {}
    /\ pipe = [c \in Children |-> <<>>]
    /\ result = [c \in Children |-> None]
    /\ pending = FALSE
    /\ call = [t \in Threads |-> NoCall]
    /\ \E running \in SUBSET Threads \ {{}} :
          handler = [t \in Threads |-> IF t \in running THEN NoHandler ELSE NoThread]

-----------------------------------------------------------------------------
(* The kernel. *)

\* A process ends and its parent gets SIGCHLD; signals of one kind are not
\* counted.  A held child does nothing, but it can be killed.
Ends(c) ==
    /\ process[c] \in {"held", "runs"}
    /\ process' = [process EXCEPT ![c] = "zombie"]
    /\ early' = IF process[c] = "held" THEN early \cup {c} ELSE early
    /\ pending' = TRUE
    /\ UNCHANGED <<pidfd, status, table, pipe, result, call, handler>>

\* The code that started a stranger waits for it, at any time.
StrangerReaped(c) ==
    /\ c \in Strangers
    /\ process[c] = "zombie"
    /\ process' = [process EXCEPT ![c] = "gone"]
    /\ UNCHANGED <<pidfd, status, table, early, pending, pipe, result, call, handler>>

-----------------------------------------------------------------------------
(* The call: forkfd() with the fallback, and spawnfd(). *)

Goto(t, pc) == call' = [call EXCEPT ![t].pc = pc]

\* The call of thread t goes on, unless a handler has interrupted it.
At(t, pc) == call[t].pc = pc /\ handler[t].pc = "idle"

\* forkfd() where the kernel gives the descriptor: clone(2) does it all.
system_forkfd(t, c) ==
    /\ pidfd
    /\ At(t, "idle")
    /\ process[c] = "none"
    /\ process' = [process EXCEPT ![c] = "runs"]
    /\ UNCHANGED <<pidfd, status, table, early, pending, pipe, result, call, handler>>

\* pthread_once(forkfd_initialize) installs the handler.
forkfd_initialize(t) ==
    /\ ~pidfd
    /\ At(t, "idle")
    /\ status = 0
    /\ status' = 1
    /\ UNCHANGED <<pidfd, table, kernel, pipe, result, call, handler>>

Begin(t, c, spawn) ==
    /\ ~pidfd
    /\ status = 1
    /\ At(t, "idle")
    /\ process[c] = "none"
    /\ \A u \in Threads : call[u].child # c
    /\ call' = [call EXCEPT ![t] = [NoCall EXCEPT !.pc = "count", !.child = c, !.spawn = spawn]]
    /\ UNCHANGED <<pidfd, status, table, kernel, pipe, result, handler>>

\* tryAllocateInSection(): count first, then look for a free entry.
Count(t) ==
    LET s == call[t].section IN
    /\ At(t, "count")
    /\ busyCount' = [busyCount EXCEPT ![s] = @ + 1]
    /\ Goto(t, IF busyCount'[s] <= Size(s) THEN "take" ELSE "undo")
    /\ UNCHANGED <<pidfd, status, entry, arrays, kernel, pipe, result, handler>>

FreeSlots(s) == {e \in Slots : e[1] = s /\ entry[e].pid = Free}

Take(t) ==
    LET free == FreeSlots(call[t].section) IN
    /\ At(t, "take")
    /\ IF free = {}
       THEN Goto(t, "undo") /\ UNCHANGED entry
       ELSE LET e == CHOOSE x \in free : \A y \in free : x[2] <= y[2] IN
            /\ entry' = [entry EXCEPT ![e].pid = Busy]
            /\ call' = [call EXCEPT ![t].slot = e, ![t].pc = "start"]
    /\ UNCHANGED <<pidfd, status, busyCount, arrays, kernel, pipe, result, handler>>

Undo(t) ==
    /\ At(t, "undo")
    /\ busyCount' = [busyCount EXCEPT ![call[t].section] = @ - 1]
    /\ Goto(t, "next")
    /\ UNCHANGED <<pidfd, status, entry, arrays, kernel, pipe, result, handler>>

\* allocateInfo(): go on to the next array, or chain a new one.  Of two
\* threads that chain one at once, the loser of the exchange uses the winner's.
NextArray(t) ==
    LET s == call[t].section IN
    /\ At(t, "next")
    /\ s < MaxArrays   \* bound
    /\ arrays' = IF arrays > s THEN arrays ELSE s + 1
    /\ call' = [call EXCEPT ![t].section = s + 1, ![t].pc = "count"]
    /\ UNCHANGED <<pidfd, status, entry, busyCount, kernel, pipe, result, handler>>

\* calloc() fails: nothing was allocated, forkfd() returns -1 (ENOMEM).
NoMemory(t) ==
    /\ At(t, "next")
    /\ arrays = call[t].section
    /\ call' = [call EXCEPT ![t] = NoCall]
    /\ UNCHANGED <<pidfd, status, table, kernel, pipe, result, handler>>

\* mutant: the child is not held until it is in the table
Fork_unheld(t) ==
    /\ At(t, "start")
    /\ process' = [process EXCEPT ![call[t].child] = "runs"]
    /\ Goto(t, "store")
    /\ UNCHANGED <<pidfd, status, table, early, pending, pipe, result, handler>>

\* The pipes are created and the child is forked, held until it is in the
\* table; posix_spawn() cannot hold it.
Fork(t) ==
    LET c == call[t].child IN
    /\ At(t, "start")
    /\ process' = [process EXCEPT ![c] = IF call[t].spawn THEN "runs" ELSE "held"]
    /\ Goto(t, "store")
    /\ UNCHANGED <<pidfd, status, table, early, pending, pipe, result, handler>>

\* mutant: the error path forgets the entry
ForkFails_leaks(t) ==
    /\ At(t, "start")
    /\ call' = [call EXCEPT ![t] = NoCall]
    /\ UNCHANGED <<pidfd, status, table, kernel, pipe, result, handler>>

\* pipe2(), eventfd() or fork() fails: the entry is given back.
ForkFails(t) ==
    /\ At(t, "start")
    /\ Goto(t, "free")
    /\ UNCHANGED <<pidfd, status, table, kernel, pipe, result, handler>>

Store(t) ==
    /\ At(t, "store")
    /\ entry' = [entry EXCEPT ![call[t].slot] = [pid |-> call[t].child, deathPipe |-> call[t].child]]
    /\ Goto(t, IF call[t].spawn THEN "reap" ELSE "release")
    /\ UNCHANGED <<pidfd, status, busyCount, arrays, kernel, pipe, result, handler>>

Release(t) ==
    LET c == call[t].child IN
    /\ At(t, "release")
    /\ process' = IF process[c] = "held" THEN [process EXCEPT ![c] = "runs"] ELSE process
    /\ call' = [call EXCEPT ![t] = NoCall]
    /\ UNCHANGED <<pidfd, status, table, early, pending, pipe, result, handler>>

\* tryReaping(): waitid(P_PID, WEXITED | WNOHANG).
Reapable(c) == process[c] = "zombie"

\* spawnfd() may have missed the child's SIGCHLD: it looks for itself.
SpawnReap(t) ==
    LET c == call[t].child IN
    /\ At(t, "reap")
    /\ IF Reapable(c)
       THEN process' = [process EXCEPT ![c] = "gone"] /\ Goto(t, "notify")
       ELSE call' = [call EXCEPT ![t] = NoCall] /\ UNCHANGED process
    /\ UNCHANGED <<pidfd, status, table, early, pending, pipe, result, handler>>

\* notifyAndFreeInfo(): the status goes into the pipe the entry names.
Notified(e, c) == [pipe EXCEPT ![entry[e].deathPipe] = Append(@, c)]

Freed(e) == [entry EXCEPT ![e] = [pid |-> Free, deathPipe |-> None]]

SpawnNotify(t) ==
    /\ At(t, "notify")
    /\ pipe' = Notified(call[t].slot, call[t].child)
    /\ Goto(t, "free")
    /\ UNCHANGED <<pidfd, status, table, kernel, result, handler>>

\* freeInfo(): the entry first, then the count.
FreeEntry(t) ==
    /\ At(t, "free")
    /\ entry' = Freed(call[t].slot)
    /\ Goto(t, "uncount")
    /\ UNCHANGED <<pidfd, status, busyCount, arrays, kernel, pipe, result, handler>>

Uncount(t) ==
    /\ At(t, "uncount")
    /\ busyCount' = [busyCount EXCEPT ![call[t].slot[1]] = @ - 1]
    /\ call' = [call EXCEPT ![t] = NoCall]
    /\ UNCHANGED <<pidfd, status, entry, arrays, kernel, pipe, result, handler>>

-----------------------------------------------------------------------------
(* The SIGCHLD handler. *)

HGoto(t, pc) == handler' = [handler EXCEPT ![t].pc = pc]

\* The signal is delivered to a thread that does not have it blocked; the
\* chained handler runs first and may reap its own children.
sigchld_handler(t) ==
    /\ pending
    /\ handler[t].pc = "idle"
    /\ pending' = FALSE
    /\ handler' = IF status = 1 THEN [handler EXCEPT ![t].pc = "search"] ELSE handler
    /\ UNCHANGED <<pidfd, status, table, process, early, pipe, result, call>>

\* waitid(P_ALL, WNOWAIT): any child that has ended, or none.
Search(t) ==
    /\ handler[t].pc = "search"
    /\ \/ /\ \A c \in Processes : ~Reapable(c)
          /\ handler' = [handler EXCEPT ![t] = NoHandler]
       \/ \E c \in Processes :
            /\ Reapable(c)
            /\ handler' = [handler EXCEPT ![t].pc = "acquire", ![t].pid = c]
    /\ UNCHANGED <<pidfd, status, table, kernel, pipe, result, call>>

Linked(e) == e[1] <= arrays

\* Take the entry of that child by exchanging its pid with -1; a child that
\* is in no entry is a stranger's, and then every entry is looked at.
Acquire(t) ==
    LET mine == {e \in Slots : Linked(e) /\ entry[e].pid = handler[t].pid} IN
    /\ handler[t].pc = "acquire"
    /\ IF mine = {}
       THEN /\ handler' = [handler EXCEPT ![t] = [NoHandler EXCEPT !.pc = "load", !.second = TRUE]]
            /\ UNCHANGED entry
       ELSE \E e \in mine :
            /\ entry' = [entry EXCEPT ![e].pid = Busy]
            /\ handler' = [handler EXCEPT ![t].pc = "reap", ![t].slot = e]
    /\ UNCHANGED <<pidfd, status, busyCount, arrays, kernel, pipe, result, call>>

\* The entry after e in the arrays chained so far.
Following(e) == IF e[2] < Size(e[1]) THEN <<e[1], e[2] + 1>> ELSE <<e[1] + 1, 1>>

\* Done with an entry: search again, or the next entry of the second pass.
Continue(t) ==
    LET n == Following(handler[t].slot) IN
    IF ~handler[t].second THEN [handler EXCEPT ![t] = [NoHandler EXCEPT !.pc = "search"]]
    ELSE IF n[1] > arrays THEN [handler EXCEPT ![t] = NoHandler]
    ELSE [handler EXCEPT ![t] = [NoHandler EXCEPT !.pc = "load", !.slot = n, !.second = TRUE]]

\* Second pass: read the pid of the entry, ask whether that child has ended,
\* and take the entry if it still holds that pid.
Load(t) ==
    LET pid == entry[handler[t].slot].pid IN
    /\ handler[t].pc = "load"
    /\ handler' = IF pid \in {Free, Busy} THEN Continue(t)
                  ELSE [handler EXCEPT ![t].pc = "ready", ![t].pid = pid]
    /\ UNCHANGED <<pidfd, status, table, kernel, pipe, result, call>>

isChildReady(t) ==
    /\ handler[t].pc = "ready"
    /\ handler' = IF Reapable(handler[t].pid) THEN [handler EXCEPT ![t].pc = "exchange"]
                  ELSE Continue(t)
    /\ UNCHANGED <<pidfd, status, table, kernel, pipe, result, call>>

Exchange(t) ==
    LET e == handler[t].slot IN
    /\ handler[t].pc = "exchange"
    /\ IF entry[e].pid = handler[t].pid
       THEN entry' = [entry EXCEPT ![e].pid = Busy] /\ HGoto(t, "reap")
       ELSE handler' = Continue(t) /\ UNCHANGED entry
    /\ UNCHANGED <<pidfd, status, busyCount, arrays, kernel, pipe, result, call>>

\* tryReaping(); when it fails the entry stays taken (the code's FIXME).
tryReaping(t) ==
    LET c == handler[t].pid IN
    /\ handler[t].pc = "reap"
    /\ IF Reapable(c)
       THEN process' = [process EXCEPT ![c] = "gone"] /\ HGoto(t, "notify")
       ELSE handler' = Continue(t) /\ UNCHANGED process
    /\ UNCHANGED <<pidfd, status, table, early, pending, pipe, result, call>>

Notify(t) ==
    /\ handler[t].pc = "notify"
    /\ pipe' = Notified(handler[t].slot, handler[t].pid)
    /\ HGoto(t, "free")
    /\ UNCHANGED <<pidfd, status, table, kernel, result, call>>

HandlerFrees(t) ==
    /\ handler[t].pc = "free"
    /\ entry' = Freed(handler[t].slot)
    /\ HGoto(t, "uncount")
    /\ UNCHANGED <<pidfd, status, busyCount, arrays, kernel, pipe, result, call>>

HandlerUncounts(t) ==
    /\ handler[t].pc = "uncount"
    /\ busyCount' = [busyCount EXCEPT ![handler[t].slot[1]] = @ - 1]
    /\ handler' = Continue(t)
    /\ UNCHANGED <<pidfd, status, entry, arrays, kernel, pipe, result, call>>

-----------------------------------------------------------------------------
(* The waiting: forkfd_wait4() on a descriptor that poll() says is ready. *)

\* mutant: waitid() that succeeds without a child is taken for an end
system_forkfd_wait_unready(c) ==
    /\ pidfd
    /\ process[c] \in {"runs", "zombie"}
    /\ process' = [process EXCEPT ![c] = "gone"]
    /\ result' = [result EXCEPT ![c] = c]
    /\ UNCHANGED <<pidfd, status, table, early, pending, pipe, call, handler>>

\* system_forkfd_wait(): the kernel reaps the child of the pidfd.
system_forkfd_wait(c) ==
    /\ pidfd
    /\ Reapable(c)
    /\ process' = [process EXCEPT ![c] = "gone"]
    /\ result' = [result EXCEPT ![c] = c]
    /\ UNCHANGED <<pidfd, status, table, early, pending, pipe, call, handler>>

\* read() of the pipe: whatever was written first.
forkfd_wait4(c) ==
    /\ ~pidfd
    /\ result[c] = None
    /\ pipe[c] # <<>>
    /\ result' = [result EXCEPT ![c] = pipe[c][1]]
    /\ UNCHANGED <<pidfd, status, table, kernel, pipe, call, handler>>

CallStep(t) ==
    \/ Count(t) \/ Take(t) \/ Undo(t) \/ NextArray(t) \/ NoMemory(t)
    \/ Fork(t) \/ ForkFails(t) \/ Store(t) \/ Release(t)
    \/ SpawnReap(t) \/ SpawnNotify(t) \/ FreeEntry(t) \/ Uncount(t)

HandlerStep(t) ==
    \/ sigchld_handler(t) \/ Search(t) \/ Acquire(t) \/ Load(t) \/ isChildReady(t)
    \/ Exchange(t) \/ tryReaping(t) \/ Notify(t) \/ HandlerFrees(t) \/ HandlerUncounts(t)

Wait(c) == system_forkfd_wait(c) \/ forkfd_wait4(c)

ForkfdNext ==
    \/ \E c \in Processes : Ends(c) \/ StrangerReaped(c)
    \/ \E t \in Threads :
        \/ forkfd_initialize(t)
        \/ \E c \in Children : system_forkfd(t, c) \/ \E spawn \in BOOLEAN : Begin(t, c, spawn)
        \/ CallStep(t) \/ HandlerStep(t)
    \/ \E c \in Children : Wait(c)

\* Threads are scheduled, signals are delivered and the caller waits for its
\* children.  No process has to end, and nobody has to call forkfd().
ForkfdFairness ==
    /\ \A t \in Threads : WF_forkfdVars(CallStep(t)) /\ WF_forkfdVars(HandlerStep(t))
    /\ WF_forkfdVars(\E c \in Children : Wait(c))

ForkfdSpec == ForkfdInit /\ [][ForkfdNext]_forkfdVars
ForkfdFairSpec == ForkfdSpec /\ ForkfdFairness

-----------------------------------------------------------------------------
(* Properties. *)

\* The state of each child as its parent can know it.
ChildState(c) ==
    IF result[c] # None THEN IF result[c] = c THEN "reported" ELSE "misreported"
    ELSE IF process[c] = "none" THEN "none"
    ELSE IF process[c] \in {"held", "runs"} THEN "alive" ELSE "ended"

Notice == INSTANCE ChildNotice WITH child <- [c \in Children |-> ChildState(c)]

\* forkfd() keeps its promise (ChildNotice), with pidfds and with the
\* signal handler alike: a descriptor tells the end of its own child, once.
KeepsPromise == Notice!Spec

UsedSlots(s) == {e \in Slots : e[1] = s /\ entry[e].pid # Free}

Quiet == \A t \in Threads : call[t].pc = "idle" /\ handler[t].pc \in {"idle", "absent"}

\* Nothing leaks: when no call and no handler runs, every entry in use holds
\* the pid of a child that has not been reported, and the counts are exact.
\* (The FIXME of reapChildProcesses(): an entry whose reaping failed would
\* stay at -1 for ever.)
NoLeak ==
    Quiet =>
        /\ \A s \in Sections : busyCount[s] = Cardinality(UsedSlots(s))
        /\ \A e \in Slots : entry[e].pid # Free =>
              entry[e].pid \in Children /\ process[entry[e].pid] # "gone"

\* Every child that ends is reported, whatever signals were merged into one
\* and whoever else's children ended with it; a child killed while it was
\* still held, before it was in the table, is the exception.
EndReported ==
    \A c \in Children :
        (process[c] = "zombie" /\ c \notin early) ~> (result[c] = c)
=============================================================================

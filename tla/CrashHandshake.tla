--------------------------- MODULE CrashHandshake ---------------------------
(***************************************************************************)
(* A crashing child and its parent (framework/sysdeps/unix/                *)
(* child_debug.cpp).  The handler in the child marks the thread, lets only *)
(* one thread of the process go on, sends its context through a datagram   *)
(* socket and, if a debugger is to be attached, waits on a futex in shared *)
(* memory until the parent is done; then the process dies of the crash.    *)
(* The parent receives the contexts one by one, attaches the debugger and  *)
(* releases the child.                                                     *)
(***************************************************************************)
EXTENDS Naturals, Sequences, FiniteSets

CONSTANTS
  Slices,      \* child processes
  Threads,     \* threads of each of them
  MaxCrashes   \* bound: threads that crash, in all processes

ASSUME BoundAssumption == MaxCrashes \in Nat

\* enum CrashAction; "x+core" has the coredump_on_crash bit, too
CrashAction == {"context", "context+core", "gdb", "backtrace"}
Attaches(a) == a \in {"gdb", "backtrace"}

VARIABLES
  on_crash_action,    \* of the parent
  exec,               \* children are exec'ed (-fexec), not forked
  \* the child processes
  alive,
  tpc,                \* slice -> thread -> where the thread is
  in_crash_handler,   \* slice -> the atomic flag
  \* shared memory
  failed,             \* slice -> threads marked as failed
  thread_state,       \* slice -> state of the main thread
  socket,             \* contexts sent and not received, as <<slice, thread>>
  \* the parent
  ppc,
  ctx,                \* the context it is working on
  \* history: slices
  ignored,            \* that ended because of a signal that is ignored
  lost                \* whose context could not be sent

history == <<ignored, lost>>
childVars == <<alive, tpc, in_crash_handler, failed>>
vars == <<on_crash_action, exec, childVars, thread_state, socket, ppc, ctx, history>>

NoContext == <<>>
SliceOf(c) == c[1]

\* debug_init_global() is not called in an exec'ed child, which has the
\* default action
ChildAction == IF exec THEN "context" ELSE on_crash_action

InHandler(s) == {t \in Threads : tpc[s][t] # "run"}

\* a process is stopped while the debugger is attached to it
Stopped(s) == ppc = "inspect" /\ Attaches(on_crash_action) /\ SliceOf(ctx) = s

Runs(s) == alive[s] /\ ~Stopped(s)

Init ==
  /\ on_crash_action \in CrashAction /\ exec \in BOOLEAN
  /\ alive = [s \in Slices |-> TRUE]
  /\ tpc = [s \in Slices |-> [t \in Threads |-> "run"]]
  /\ in_crash_handler = [s \in Slices |-> FALSE]
  /\ failed = [s \in Slices |-> {}]
  /\ thread_state = [s \in Slices |-> "not_started"]
  /\ socket = <<>>
  /\ ppc = "poll" /\ ctx = NoContext
  /\ ignored = {} /\ lost = {}
-----------------------------------------------------------------------------
(***************************************************************************)
(* child_crash_handler()                                                   *)
(***************************************************************************)
Goto(s, t, l) == tpc' = [tpc EXCEPT ![s][t] = l]

Crash(s, t) ==
  /\ Runs(s) /\ tpc[s][t] = "run"
  /\ Cardinality({<<r, u>> \in Slices \X Threads : u \in InHandler(r)}) < MaxCrashes
  /\ failed' = [failed EXCEPT ![s] = @ \cup {t}]
  /\ Goto(s, t, "store")
  /\ UNCHANGED <<on_crash_action, exec, alive, in_crash_handler, thread_state, socket, ppc, ctx,
                 history>>

(***************************************************************************)
(* terminate_with_ignored_crash(): a memory error under                    *)
(* --ignore-mce-errors, and SIGTRAP in a debug build, end the process      *)
(* before anything is marked, wherever its other threads are; also when    *)
(* the parent has the context of one and gdb has not stopped the process.  *)
(***************************************************************************)
IgnoredCrash(s, t) ==
  /\ alive[s] /\ tpc[s][t] = "run"
  /\ alive' = [alive EXCEPT ![s] = FALSE]
  /\ ignored' = ignored \cup {s}
  /\ UNCHANGED <<on_crash_action, exec, tpc, in_crash_handler, failed, thread_state, socket, ppc,
                 ctx, lost>>

StoreFailed(s, t) ==
  /\ Runs(s) /\ tpc[s][t] = "store"
  /\ thread_state' = [thread_state EXCEPT ![s] = "failed"]
  /\ Goto(s, t, "flag")
  /\ UNCHANGED <<on_crash_action, exec, alive, in_crash_handler, failed, socket, ppc, ctx,
                 history>>

TestAndSet(s, t) ==
  /\ Runs(s) /\ tpc[s][t] = "flag"
  /\ in_crash_handler' = [in_crash_handler EXCEPT ![s] = TRUE]
  /\ Goto(s, t, IF in_crash_handler[s] THEN "forever" ELSE "send")
  /\ UNCHANGED <<on_crash_action, exec, alive, failed, thread_state, socket, ppc, ctx,
                 history>>

\* CrashContext::send(); nobody looks at whether sendmsg() sent it
send(s, t, sent) ==
  /\ Runs(s) /\ tpc[s][t] = "send"
  /\ socket' = IF sent THEN Append(socket, <<s, t>>) ELSE socket
  /\ lost' = IF sent THEN lost ELSE lost \cup {s}
  /\ Goto(s, t, IF Attaches(ChildAction) THEN "load" ELSE "dying")
  /\ UNCHANGED <<on_crash_action, exec, alive, in_crash_handler, failed, thread_state, ppc, ctx,
                 ignored>>

\* mutant: waits once, without looking at the state again
Load_once(s, t) ==
  /\ Runs(s) /\ tpc[s][t] \in {"load", "woken"}
  /\ Goto(s, t, IF thread_state[s] = "failed" /\ tpc[s][t] = "load" THEN "wait" ELSE "dying")
  /\ UNCHANGED <<on_crash_action, exec, alive, in_crash_handler, failed, thread_state, socket,
                 ppc, ctx, history>>

\* the condition of the loop
Load(s, t) ==
  /\ Runs(s) /\ tpc[s][t] \in {"load", "woken"}
  /\ Goto(s, t, IF thread_state[s] = "failed" THEN "wait" ELSE "dying")
  /\ UNCHANGED <<on_crash_action, exec, alive, in_crash_handler, failed, thread_state, socket,
                 ppc, ctx, history>>

\* futex_wait(): the kernel compares and sleeps in one step
FutexWait(s, t) ==
  /\ Runs(s) /\ tpc[s][t] = "wait"
  /\ Goto(s, t, IF thread_state[s] = "failed" THEN "sleep" ELSE "woken")
  /\ UNCHANGED <<on_crash_action, exec, alive, in_crash_handler, failed, thread_state, socket,
                 ppc, ctx, history>>

\* a signal interrupts futex_wait()
Interrupted(s, t) ==
  /\ Runs(s) /\ tpc[s][t] = "sleep"
  /\ Goto(s, t, "woken")
  /\ UNCHANGED <<on_crash_action, exec, alive, in_crash_handler, failed, thread_state, socket,
                 ppc, ctx, history>>

\* the default action of the signal takes the whole process
Die(s, t) ==
  /\ Runs(s) /\ tpc[s][t] = "dying"
  /\ alive' = [alive EXCEPT ![s] = FALSE]
  /\ UNCHANGED <<on_crash_action, exec, tpc, in_crash_handler, failed, thread_state, socket, ppc,
                 ctx, history>>
-----------------------------------------------------------------------------

(***************************************************************************)
(* debug_crashed_child(); the parent's end of the socket does not block.   *)
(***************************************************************************)
receive ==
  /\ ppc = "poll" /\ socket # <<>>
  /\ ctx' = Head(socket) /\ socket' = Tail(socket)
  /\ ppc' = "inspect"
  /\ UNCHANGED <<on_crash_action, exec, childVars, thread_state, history>>

\* attach_gdb() or print_crash_info() have returned
Inspected ==
  /\ ppc = "inspect"
  /\ ppc' = IF on_crash_action = "context" THEN "poll" ELSE "release"
  /\ UNCHANGED <<on_crash_action, exec, childVars, thread_state, socket, ctx, history>>

StoreDebugged ==
  /\ ppc = "release"
  /\ thread_state' = [thread_state EXCEPT ![SliceOf(ctx)] = "debugged"]
  /\ ppc' = "wake"
  /\ UNCHANGED <<on_crash_action, exec, childVars, socket, ctx, history>>

\* mutant: the wake-up is forgotten
futex_wake_none ==
  /\ ppc = "wake"
  /\ ppc' = "poll"
  /\ UNCHANGED <<on_crash_action, exec, childVars, thread_state, socket, ctx, history>>

futex_wake_all ==
  /\ ppc = "wake"
  /\ tpc' = [tpc EXCEPT ![SliceOf(ctx)] =
               [t \in Threads |-> IF @[t] = "sleep" THEN "woken" ELSE @[t]]]
  /\ ppc' = "poll"
  /\ UNCHANGED <<on_crash_action, exec, alive, in_crash_handler, failed, thread_state, socket,
                 ctx, history>>

Handler(s, t) == \/ StoreFailed(s, t) \/ TestAndSet(s, t)
                 \/ \E sent \in BOOLEAN : send(s, t, sent)
                 \/ Load(s, t) \/ FutexWait(s, t) \/ Die(s, t)
Parent == receive \/ Inspected \/ StoreDebugged \/ futex_wake_all

Next == \/ \E s \in Slices, t \in Threads :
             Crash(s, t) \/ IgnoredCrash(s, t) \/ Handler(s, t) \/ Interrupted(s, t)
        \/ Parent

Spec == Init /\ [][Next]_vars

\* every thread and the parent are scheduled
FairSpec == /\ Spec /\ WF_vars(Parent)
            /\ \A s \in Slices, t \in Threads : WF_vars(Handler(s, t))
-----------------------------------------------------------------------------
Waiting(c) == alive[SliceOf(c)] /\ tpc[SliceOf(c)][c[2]] \in {"load", "wait", "sleep", "woken"}

(***************************************************************************)
(* When the parent attaches the debugger to a forked child, the thread     *)
(* that crashed is alive and waiting in the handler, whatever wakes it up  *)
(* in between and whichever other threads crash.  The exception is a       *)
(* signal that is ignored: the thread that gets it ends the process.       *)
(***************************************************************************)
DebuggerFindsForked ==
  ppc = "inspect" /\ Attaches(on_crash_action) /\ ~exec => Waiting(ctx) \/ SliceOf(ctx) \in ignored

(***************************************************************************)
(* A process one of whose threads crashed dies of it, released by the      *)
(* parent and without the help of a time-out.  Exceptions: a second thread *)
(* crashes, which may overwrite the release; and the context could not be  *)
(* sent, of which the child, waiting for the release, takes no notice.     *)
(***************************************************************************)
CrashedDies ==
  \A s \in Slices :
    (InHandler(s) # {}) ~> (\/ ~alive[s] \/ Cardinality(InHandler(s)) > 1
                            \/ s \in lost /\ Attaches(ChildAction))
=============================================================================

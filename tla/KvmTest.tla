------------------------------- MODULE KvmTest -------------------------------
(***************************************************************************)
(* A test that runs its payload in a virtual machine                       *)
(* (framework/sysdeps/linux/kvm.c): kvm_generic_init(), and                *)
(* kvm_generic_run() for one CPU.  Every call of the kernel and of the     *)
(* test's handlers may fail; a result is "success", "fail" or "skip",      *)
(* which is a negative number.                                             *)
(***************************************************************************)
EXTENDS Integers

CONSTANTS
  RecycleAfter,      \* a new virtual machine every 127 times
  MaxIterations,     \* bound: iterations of the test
  MaxRetried,        \* bound: entries that fail for the kernel's bug
  KvmConfigs         \* what test_kvm_config() returns

Handlers == {"setup", "exit", "check"}

VARIABLES
  config,     \* [addr_mode : {"real16", "prot64"}, handlers : SUBSET Handlers]
  kvm_fd,     \* "closed" or "open"
  at,         \* where the thread is
  ctx,        \* the virtual machine each part in ctx is of; 0 for none
  count, retry,
  result,
  \* history
  machines,   \* virtual machines begun
  held,       \* parts that were made and not released
  entries,    \* entries that failed for the kernel's bug
  bailed      \* the function returned without its epilogue, or forgot memory

kvmVars == <<config, kvm_fd, at, ctx, count, retry, result, machines, held, entries, bailed>>
made == <<machines, held, ctx>>
seen == <<entries, bailed>>

Parts == {"vm_fd", "cpu_fd", "runs", "ram"}
Of(c) == {<<p, c[p]>> : p \in {q \in Parts : c[q] # 0}}

KvmInit ==
  /\ config \in KvmConfigs
  /\ kvm_fd = "closed" /\ at = "init" /\ count = 0 /\ retry = FALSE /\ result = "success"
  /\ ctx = [p \in Parts |-> 0] /\ machines = 0 /\ held = {}
  /\ entries = 0 /\ bailed = FALSE

(***************************************************************************)
(* kvm_generic_init(), and the check of the payload that begins            *)
(* kvm_generic_run().  A version other than 12 is answered with            *)
(* -errno, though nothing has set errno: it may be 0, and then the init    *)
(* succeeds without a device.                                              *)
(***************************************************************************)
InitOutcomes == {"ok", "no config", "no payload", "no device", "ioctl", "version", "version, no errno", "no memory"}

kvm_generic_init(o) ==
  /\ at = "init"
  /\ kvm_fd' = IF o \in {"ok", "no payload"} THEN "open" ELSE "closed"
  /\ result' = IF o \in {"ok", "version, no errno"} THEN "success" ELSE IF o \in {"no config", "no payload"} THEN "fail" ELSE "skip"
  /\ at' = IF result' = "success" THEN "loop" ELSE "done"
  /\ UNCHANGED <<config, count, retry, made, seen>>

(***************************************************************************)
(* kvm_generic_run()                                                       *)
(***************************************************************************)
Recycle == count % RecycleAfter = 0

\* mutant: the descriptor of the CPU stays open
Released_cpu == IF count = 0 THEN {} ELSE {x \in Of(ctx) : x[1] # "cpu_fd"}

\* what is closed before a new machine; nothing the first time
Released == IF count = 0 THEN {} ELSE Of(ctx)

(***************************************************************************)
(* A machine is made up to the step that fails: the parts that ctx now     *)
(* has, the parts it has none of (what is in neither is as it was), what   *)
(* was made and forgotten, and the result.                                 *)
(***************************************************************************)
Made(new, none, forgotten, r) == [new |-> new, none |-> none, forgotten |-> forgotten, result |-> r]

\* EBUSY is a reason to skip
kvm_generic_create_vm == {Made({}, {"vm_fd"}, {}, "skip"), Made({}, {"vm_fd"}, {}, "fail")}

\* no CPU, or one that is closed as its structure cannot be mapped
kvm_generic_add_vcpu == {Made({"vm_fd"}, none, {}, "fail") : none \in {{"cpu_fd"}, {"cpu_fd", "runs"}}}

Cpu == {"vm_fd", "cpu_fd", "runs"}

kvm_real16_setup_ram == {Made(Cpu, {"ram"}, {}, "fail"), Made(Parts, {}, {}, "fail")}

\* NULL for memory that cannot be had, and for memory that the kernel does not take
kvm_prot64_setup_ram == {Made(Cpu, {"ram"}, forgotten, "fail") : forgotten \in {{}, {"ram"}}}

\* the registers, which are set once there is memory
SetupRegisters == {Made(Parts, {}, {}, "fail")}

\* KVM_GET_SREGS is in IOCTL_OR_RET, all else is a failure
kvm_generic_setup_vcpu ==
  {Made(Cpu, {}, {}, r) : r \in {"fail", "skip"}}
  \cup (IF config.addr_mode = "real16" THEN kvm_real16_setup_ram ELSE kvm_prot64_setup_ram)
  \cup SetupRegisters \cup {Made(Parts, {}, {}, "success")}

CreateMachine(m) ==
  LET old == IF count = 0 THEN ctx ELSE [p \in Parts |-> 0]
  IN
  /\ at = "loop" /\ Recycle
  /\ kvm_fd = "open" \/ (m.new = {} /\ m.result = "fail")
  /\ machines' = machines + 1
  /\ ctx' = [p \in Parts |-> IF p \in m.new THEN machines' ELSE IF p \in m.none THEN 0 ELSE old[p]]
  /\ held' = (held \ Released) \cup {<<p, machines'>> : p \in m.new \cup m.forgotten}
  /\ result' = m.result
  /\ at' = IF m.result = "success" THEN "registers" ELSE "epilogue"
  /\ bailed' = (bailed \/ m.forgotten # {})
  /\ UNCHANGED <<config, kvm_fd, count, retry, entries>>

KeepMachine ==
  /\ at = "loop" /\ ~Recycle
  /\ at' = "reset"
  /\ UNCHANGED <<config, kvm_fd, count, retry, result, made, seen>>

\* KVM_GET_REGS in IOCTL_OR_RET: an error is returned at once
GetRegs(works) ==
  /\ at \in {"registers", "exited"}
  /\ result' = IF ~works THEN "skip" ELSE IF at = "exited" THEN "fail" ELSE result
  /\ at' = IF ~works THEN "done" ELSE IF at = "exited" THEN "stopped" ELSE "reset"
  /\ bailed' = (bailed \/ ~works)
  /\ UNCHANGED <<config, kvm_fd, count, retry, made, entries>>

\* kvm_generic_reset_vcpu(), which clears the memory of a 64-bit guest
ResetVcpu(works) ==
  /\ at = "reset"
  /\ result' = IF works THEN result ELSE "fail"
  /\ at' = IF works THEN "setup" ELSE "epilogue"
  /\ UNCHANGED <<config, kvm_fd, count, retry, made, entries, bailed>>

CallsSetup == ~retry /\ "setup" \in config.handlers

SetupHandler(r) ==
  /\ at = "setup"
  /\ IF CallsSetup THEN result' = r
     ELSE r = "success" /\ UNCHANGED result
  /\ at' = IF result' = "success" THEN "run" ELSE "epilogue"
  /\ retry' = FALSE
  /\ UNCHANGED <<config, kvm_fd, count, made, entries, bailed>>

\* KVM_RUN, and what the exit handler makes of an exit
Run(e) ==
  /\ at = "run"
  /\ \/ /\ e = "ioctl fails"
        /\ result' = "fail" /\ at' = "epilogue" /\ UNCHANGED <<retry, entries>>
     \/ /\ e = "kernel bug" /\ entries < MaxRetried
        /\ result' = "success" /\ retry' = TRUE /\ at' = "condition" /\ entries' = entries + 1
     \/ /\ e = "handler fails" /\ "exit" \in config.handlers
        /\ result' = "fail" /\ at' = "epilogue" /\ UNCHANGED <<retry, entries>>
     \/ /\ e = "handled" /\ "exit" \in config.handlers
        /\ UNCHANGED <<result, at, retry, entries>>
     \/ /\ e = "exit"
        /\ at' = "exited" /\ UNCHANGED <<result, retry, entries>>
  /\ UNCHANGED <<config, kvm_fd, count, made, bailed>>

RunExits == {"ioctl fails", "kernel bug", "handler fails", "handled", "exit"}

\* the switch over the exit reasons
ExitResult(reason) == IF reason = "HLT, 0" THEN "success" ELSE "fail"
ExitReasons == {"HLT, 0", "HLT, not 0", "other"}

Stopped(reason, check) ==
  LET exit == ExitResult(reason)
      checks == exit = "success" /\ "check" \in config.handlers
  IN
  /\ at = "stopped"
  /\ ~checks => check = "success"
  /\ result' = IF checks THEN check ELSE exit
  /\ count' = count + 1 /\ at' = "condition"
  /\ UNCHANGED <<config, kvm_fd, retry, made, entries, bailed>>

\* result == EXIT_SUCCESS && test_time_condition(test), after a retry as well
Condition(more) ==
  /\ at = "condition"
  /\ more => count < MaxIterations
  /\ at' = IF result = "success" /\ more THEN "loop" ELSE "epilogue"
  /\ UNCHANGED <<config, kvm_fd, count, retry, result, made, seen>>

Epilogue ==
  /\ at = "epilogue"
  /\ held' = held \ Of(ctx)
  /\ at' = "done"
  /\ UNCHANGED <<config, kvm_fd, ctx, machines, count, retry, result, seen>>

kvm_generic_cleanup ==
  /\ at = "done"
  /\ kvm_fd' = "closed"
  /\ at' = "clean"
  /\ UNCHANGED <<config, count, retry, result, made, seen>>

KvmNext ==
  \/ \E o \in InitOutcomes : kvm_generic_init(o)
  \/ \E m \in kvm_generic_create_vm \cup kvm_generic_add_vcpu \cup kvm_generic_setup_vcpu : CreateMachine(m)
  \/ KeepMachine \/ Epilogue \/ kvm_generic_cleanup
  \/ \E works \in BOOLEAN : GetRegs(works) \/ ResetVcpu(works) \/ Condition(works)
  \/ \E r \in {"success", "fail", "skip"} : SetupHandler(r) \/ \E reason \in ExitReasons : Stopped(reason, r)
  \/ \E e \in RunExits : Run(e)

KvmSpec == KvmInit /\ [][KvmNext]_kvmVars
-----------------------------------------------------------------------------
(***************************************************************************)
(* When the test is over all parts of all virtual machines are released,   *)
(* however many there were and whichever step failed.  kvm_generic_run()   *)
(* keeps that in all but three cases: it returned from the middle, it      *)
(* forgot memory that the kernel refused, or it tried the very first entry *)
(* again, and so made a second machine over the first.                     *)
(***************************************************************************)
MachinesReleased ==
  at = "clean" =>
    /\ kvm_fd = "closed"
    /\ held = {} \/ bailed \/ entries > 0
    /\ ~bailed => \A x \in held : x[2] <= entries
=============================================================================

------------------------------- MODULE Kernel -------------------------------
(***************************************************************************)
(* The multiprocessor core of the JOS kernel: CPUs that boot, trap, take    *)
(* the big kernel lock, handle system calls and interrupts, and schedule    *)
(* environments (kern/init.c, kern/trap.c, kern/sched.c, kern/env.c,        *)
(* kern/syscall.c, kern/spinlock.c).                                        *)
(*                                                                         *)
(* Every CPU has a program counter pc[c] at the granularity the code can    *)
(* be observed at: what runs under the big kernel lock is cut into the      *)
(* handler ("trap"), the return path of trap() ("ret") and sched_yield()    *)
(* ("sched"), because user code on another CPU reads envs[] at any time.    *)
(* Trap frames, address spaces and message contents are left to other       *)
(* modules; here an environment is its slot in envs[], its id, its parent's *)
(* id, its status, whether it ever ran and whether it waits for a message.  *)
(***************************************************************************)
EXTENDS Integers, Sequences, FiniteSets

CONSTANTS NCPU,     \* number of CPUs; CPU 0 is the bootstrap processor
          NENV,     \* size of envs[] (1024 in inc/env.h)
          MaxGen,   \* largest generation of an environment id (2^19 - 1)
          NBoot,    \* environments i386_init creates (fs, ns and the first user)
          MaxLive   \* bound: sys_exofork is called only below this many live ones

ASSUME KernelAssumption ==
    /\ NCPU \in Nat \ {0}
    /\ NENV \in Nat \ {0}
    /\ MaxGen \in Nat \ {0}
    /\ NBoot \in 1 .. NENV
    /\ MaxLive \in 1 .. NENV

CPUs  == 0 .. NCPU - 1
Slots == 0 .. NENV - 1
NULL  == -1

\* An envid_t is a generation and a slot; id 0 names the caller itself.
EnvIds == (0 .. MaxGen) \X Slots
Id0 == <<0, 0>>
ENVX(envid) == envid[2]

Statuses == {"FREE", "DYING", "RUNNABLE", "RUNNING", "NOT_RUNNABLE"}

PCs == {"boot", "off", "mp_main", "mp_lock", "user", "trap_lock", "trap",
        "ret", "sched", "halt", "wake_lock", "monitor", "wild"}

\* The program points inside a region protected by the big kernel lock.
Locked == {"boot", "trap", "ret", "sched", "monitor", "wild"}

VARIABLES kernel_lock,     \* the CPU that holds it, or NULL
          cpu_status,      \* [CPUs -> {"UNUSED", "STARTED", "HALTED"}]
          pc,              \* [CPUs -> PCs]
          curenv,          \* [CPUs -> Slots \cup {NULL}]
          env_status, env_id, env_parent_id,
          env_runs,        \* 0, or 1 once the environment has run
          env_ipc_recving,
          env_free_list    \* slots, in the order of the env_link chain

cpuVars == <<kernel_lock, cpu_status, pc, curenv>>
envVars == <<env_status, env_id, env_parent_id, env_runs, env_ipc_recving,
             env_free_list>>
vars == <<kernel_lock, cpu_status, pc, curenv, env_status, env_id,
          env_parent_id, env_runs, env_ipc_recving, env_free_list>>

Goto(c, l) == pc' = [pc EXCEPT ![c] = l]

Live == {e \in Slots : env_status[e] # "FREE"}

(***************************************************************************)
(* The environment table (kern/env.c)                                       *)
(***************************************************************************)
\* env_init: every slot is free and the free list is in slot order.
EnvInit ==
    /\ env_status = [e \in Slots |-> "FREE"]
    /\ env_id = [e \in Slots |-> Id0]
    /\ env_parent_id = [e \in Slots |-> Id0]
    /\ env_runs = [e \in Slots |-> 0]
    /\ env_ipc_recving = [e \in Slots |-> FALSE]
    /\ env_free_list = [i \in 1 .. NENV |-> i - 1]

\* envid2env: CPU c's current environment may use envid to name slot e.
Resolves(c, envid, e, checkperm) ==
    \/ envid = Id0 /\ e = curenv[c]
    \/ /\ envid # Id0
       /\ e = ENVX(envid)
       /\ env_status[e] # "FREE"
       /\ env_id[e] = envid
       /\ checkperm => \/ e = curenv[c]
                       \/ env_parent_id[e] = env_id[curenv[c]]

\* Generations run from 1 to MaxGen and wrap around to 1: an id that would
\* be negative is replaced by the first one.
NextGen(g) == IF g >= MaxGen THEN 1 ELSE g + 1

\* env_alloc: the head of the free list gets a new id and the given status.
EnvAlloc(parent, status) ==
    LET e == Head(env_free_list)
    IN /\ env_free_list # <<>>
       /\ env_free_list' = Tail(env_free_list)
       /\ env_id' = [env_id EXCEPT ![e] = <<NextGen(env_id[e][1]), e>>]
       /\ env_parent_id' = [env_parent_id EXCEPT ![e] = parent]
       /\ env_status' = [env_status EXCEPT ![e] = status]
       /\ env_runs' = [env_runs EXCEPT ![e] = 0]
       /\ env_ipc_recving' = [env_ipc_recving EXCEPT ![e] = FALSE]

\* env_free: the slot goes to the head of the free list; its id stays, so
\* that the next generation can be computed from it.
EnvFree(e) ==
    /\ env_status' = [env_status EXCEPT ![e] = "FREE"]
    /\ env_free_list' = <<e>> \o env_free_list
    /\ UNCHANGED <<env_id, env_parent_id, env_runs, env_ipc_recving>>

\* Mutant: env_destroy makes a zombie of the caller, too.
EnvDestroyZombieSelf(c, e) ==
    IF env_status[e] = "RUNNING"
    THEN /\ env_status' = [env_status EXCEPT ![e] = "DYING"]
         /\ UNCHANGED <<env_id, env_parent_id, env_runs, env_ipc_recving,
                        env_free_list, curenv>>
         /\ Goto(c, "ret")
    ELSE EnvFree(e) /\ UNCHANGED curenv /\ Goto(c, "ret")

\* env_destroy on CPU c: an environment RUNNING elsewhere becomes a zombie,
\* any other is freed; if it was the current one, the CPU schedules.
EnvDestroy(c, e) ==
    IF env_status[e] = "RUNNING" /\ curenv[c] # e
    THEN /\ env_status' = [env_status EXCEPT ![e] = "DYING"]
         /\ UNCHANGED <<env_id, env_parent_id, env_runs, env_ipc_recving,
                        env_free_list, curenv>>
         /\ Goto(c, "ret")
    ELSE /\ EnvFree(e)
         /\ IF curenv[c] = e
            THEN curenv' = [curenv EXCEPT ![c] = NULL] /\ Goto(c, "sched")
            ELSE UNCHANGED curenv /\ Goto(c, "ret")

\* env_run: switch to e (nothing to switch if it is the current one), drop
\* the lock and enter user mode.
EnvRun(c, e) ==
    /\ IF curenv[c] # e
       THEN /\ env_status' = [s \in Slots |->
                  IF s = e THEN "RUNNING"
                  ELSE IF s = curenv[c] /\ env_status[s] = "RUNNING"
                       THEN "RUNNABLE" ELSE env_status[s]]
            /\ curenv' = [curenv EXCEPT ![c] = e]
            /\ env_runs' = [env_runs EXCEPT ![e] = 1]
       ELSE UNCHANGED <<env_status, curenv, env_runs>>
    /\ kernel_lock' = NULL
    /\ Goto(c, "user")
    /\ UNCHANGED <<cpu_status, env_id, env_parent_id, env_ipc_recving,
                   env_free_list>>

(***************************************************************************)
(* Boot (kern/init.c): CPU 0 takes the lock, starts the other CPUs one at a *)
(* time, creates the first environments and enters the scheduler.           *)
(***************************************************************************)
Init ==
    /\ kernel_lock = 0
    /\ cpu_status = [c \in CPUs |-> IF c = 0 THEN "STARTED" ELSE "UNUSED"]
    /\ pc = [c \in CPUs |-> IF c = 0 THEN "boot" ELSE "off"]
    /\ curenv = [c \in CPUs |-> NULL]
    /\ EnvInit

BootAps(c) ==
    /\ pc[0] = "boot"
    /\ pc[c] = "off"
    /\ \A d \in CPUs : d < c => cpu_status[d] = "STARTED"
    /\ Goto(c, "mp_main")
    /\ UNCHANGED <<kernel_lock, cpu_status, curenv, envVars>>

MpMain(c) ==
    /\ pc[c] = "mp_main"
    /\ cpu_status' = [cpu_status EXCEPT ![c] = "STARTED"]
    /\ Goto(c, "mp_lock")
    /\ UNCHANGED <<kernel_lock, curenv, envVars>>

BootedAps == \A d \in CPUs : cpu_status[d] = "STARTED"

EnvCreate ==
    /\ pc[0] = "boot" /\ BootedAps
    /\ Len(env_free_list) > NENV - NBoot
    /\ EnvAlloc(Id0, "RUNNABLE")
    /\ UNCHANGED cpuVars

BootSched ==
    /\ pc[0] = "boot" /\ BootedAps
    /\ Len(env_free_list) = NENV - NBoot
    /\ Goto(0, "sched")
    /\ UNCHANGED <<kernel_lock, cpu_status, curenv, envVars>>

(***************************************************************************)
(* Entering the kernel (kern/trap.c:trap) and the lock (kern/spinlock.c)    *)
(***************************************************************************)
\* A system call, fault or interrupt in user mode.
TrapUser(c) ==
    /\ pc[c] = "user"
    /\ cpu_status' = [cpu_status EXCEPT ![c] = "STARTED"]
    /\ Goto(c, "trap_lock")
    /\ UNCHANGED <<kernel_lock, curenv, envVars>>

\* An interrupt of a CPU halted in sched_halt.
WakeHalted(c) ==
    /\ pc[c] = "halt"
    /\ cpu_status' = [cpu_status EXCEPT ![c] = "STARTED"]
    /\ Goto(c, "wake_lock")
    /\ UNCHANGED <<kernel_lock, curenv, envVars>>

\* lock_kernel succeeds. A woken or freshly started CPU has no environment
\* to return to, whatever interrupted it: it schedules.
LockKernel(c) ==
    /\ pc[c] \in {"mp_lock", "trap_lock", "wake_lock"}
    /\ kernel_lock = NULL
    /\ kernel_lock' = c
    /\ Goto(c, IF pc[c] = "trap_lock" THEN "trap" ELSE "sched")
    /\ UNCHANGED <<cpu_status, curenv, envVars>>

\* trap() collects the current environment if it was destroyed meanwhile.
ReapZombie(c) ==
    /\ pc[c] = "trap"
    /\ env_status[curenv[c]] = "DYING"
    /\ EnvFree(curenv[c])
    /\ curenv' = [curenv EXCEPT ![c] = NULL]
    /\ Goto(c, "sched")
    /\ UNCHANGED <<kernel_lock, cpu_status>>

\* Mutant: trap() does not look for a zombie first.
DispatchAnyStatus(c) ==
    /\ pc[c] = "trap"
    /\ UNCHANGED <<kernel_lock, cpu_status>>

\* Otherwise the trap is dispatched.
Dispatch(c) ==
    /\ pc[c] = "trap"
    /\ env_status[curenv[c]] # "DYING"
    /\ UNCHANGED <<kernel_lock, cpu_status>>

\* The end of trap(): back to the current environment, or schedule.
TrapReturn(c) ==
    /\ pc[c] = "ret"
    /\ IF curenv[c] # NULL /\ env_status[curenv[c]] = "RUNNING"
       THEN EnvRun(c, curenv[c])
       ELSE Goto(c, "sched") /\ UNCHANGED <<kernel_lock, cpu_status, curenv, envVars>>

(***************************************************************************)
(* Traps and system calls that touch the environment table                  *)
(***************************************************************************)
\* The timer interrupt and sys_yield.
Yield(c) ==
    /\ Dispatch(c)
    /\ Goto(c, "sched")
    /\ UNCHANGED <<curenv, envVars>>

\* Calls and interrupts with no effect on this state, a page fault with an
\* upcall to run included.
OtherTrap(c) ==
    /\ Dispatch(c)
    /\ Goto(c, "ret")
    /\ UNCHANGED <<curenv, envVars>>

\* An unhandled exception, a page fault with no usable upcall, or a failed
\* user_mem_assert.
Fault(c) ==
    /\ Dispatch(c)
    /\ EnvDestroy(c, curenv[c])

SysEnvDestroy(c, envid) ==
    /\ Dispatch(c)
    /\ \E e \in Slots : Resolves(c, envid, e, TRUE) /\ EnvDestroy(c, e)

\* The child is a copy of its parent that cannot run yet.
SysExofork(c) ==
    /\ Dispatch(c)
    /\ Cardinality(Live) < MaxLive
    /\ EnvAlloc(env_id[curenv[c]], "NOT_RUNNABLE")
    /\ Goto(c, "ret")
    /\ UNCHANGED curenv

SysEnvSetStatus(c, envid, status) ==
    /\ Dispatch(c)
    /\ status \in {"RUNNABLE", "NOT_RUNNABLE"}
    /\ \E e \in Slots :
          /\ Resolves(c, envid, e, TRUE)
          /\ env_status' = [env_status EXCEPT ![e] = status]
    /\ Goto(c, "ret")
    /\ UNCHANGED <<curenv, env_id, env_parent_id, env_runs, env_ipc_recving,
                   env_free_list>>

\* Mutant: the receiver still looks as if it waited.
SysIpcTrySendKeepsRecving(c, envid) ==
    /\ Dispatch(c)
    /\ \E e \in Slots :
          /\ Resolves(c, envid, e, FALSE)
          /\ env_ipc_recving[e]
          /\ env_status' = [env_status EXCEPT ![e] = "RUNNABLE"]
    /\ Goto(c, "ret")
    /\ UNCHANGED <<curenv, env_id, env_parent_id, env_runs, env_free_list,
                   env_ipc_recving>>

SysIpcTrySend(c, envid) ==
    /\ Dispatch(c)
    /\ \E e \in Slots :
          /\ Resolves(c, envid, e, FALSE)
          /\ env_ipc_recving[e]
          /\ env_ipc_recving' = [env_ipc_recving EXCEPT ![e] = FALSE]
          /\ env_status' = [env_status EXCEPT ![e] = "RUNNABLE"]
    /\ Goto(c, "ret")
    /\ UNCHANGED <<curenv, env_id, env_parent_id, env_runs, env_free_list>>

SysIpcRecv(c) ==
    /\ Dispatch(c)
    /\ env_ipc_recving' = [env_ipc_recving EXCEPT ![curenv[c]] = TRUE]
    /\ env_status' = [env_status EXCEPT ![curenv[c]] = "NOT_RUNNABLE"]
    /\ Goto(c, "sched")
    /\ UNCHANGED <<curenv, env_id, env_parent_id, env_runs, env_free_list>>

(***************************************************************************)
(* The scheduler (kern/sched.c)                                             *)
(***************************************************************************)
\* Mutant: every search starts at slot 0.
VisitedFromZero(c, k) == k

\* The k-th index into envs[] that sched_yield looks at, from k = 0. The
\* first one is not masked: after slot NENV - 1 it is NENV.
Visited(c, k) ==
    IF curenv[c] = NULL THEN k
    ELSE IF k = 0 THEN curenv[c] + 1 ELSE (curenv[c] + 1 + k) % NENV

\* Mutant: an environment that runs already may be chosen.
FindsRunning(c, k) ==
    Visited(c, k) \in Slots /\ env_status[Visited(c, k)] \in {"RUNNABLE", "RUNNING"}

Finds(c, k) == Visited(c, k) \in Slots /\ env_status[Visited(c, k)] = "RUNNABLE"

\* The search stops at its k-th probe.
FirstFound(c, k) == Finds(c, k) /\ \A i \in 0 .. k - 1 : ~Finds(c, i)

FindsNone(c) == \A k \in Slots : ~Finds(c, k)

SchedRun(c) ==
    /\ pc[c] = "sched"
    /\ \E k \in Slots : FirstFound(c, k) /\ EnvRun(c, Visited(c, k))

\* The probe of envs[NENV] reads whatever the memory behind envs[] holds; if
\* that looks RUNNABLE the CPU runs it, and leaves what is modelled here.
SchedWild(c) ==
    /\ pc[c] = "sched"
    /\ curenv[c] = NENV - 1
    /\ Goto(c, "wild")
    /\ UNCHANGED <<kernel_lock, cpu_status, curenv, envVars>>

\* Mutant: the current environment is preferred to the other RUNNABLE ones.
SchedKeepFirst(c) ==
    /\ pc[c] = "sched"
    /\ curenv[c] # NULL /\ env_status[curenv[c]] = "RUNNING"
    /\ EnvRun(c, curenv[c])

SchedKeep(c) ==
    /\ pc[c] = "sched" /\ FindsNone(c)
    /\ curenv[c] # NULL /\ env_status[curenv[c]] = "RUNNING"
    /\ EnvRun(c, curenv[c])

NothingAlive ==
    \A e \in Slots : env_status[e] \notin {"RUNNABLE", "RUNNING", "DYING"}

Idle(c) ==
    /\ pc[c] = "sched" /\ FindsNone(c)
    /\ ~(curenv[c] # NULL /\ env_status[curenv[c]] = "RUNNING")
    /\ UNCHANGED envVars

\* sched_halt drops into the kernel monitor for good, with the lock held, ...
SchedMonitor(c) ==
    /\ Idle(c) /\ NothingAlive
    /\ Goto(c, "monitor")
    /\ UNCHANGED <<kernel_lock, cpu_status, curenv>>

\* ... or halts the CPU until an interrupt.
SchedHalt(c) ==
    /\ Idle(c) /\ ~NothingAlive
    /\ curenv' = [curenv EXCEPT ![c] = NULL]
    /\ cpu_status' = [cpu_status EXCEPT ![c] = "HALTED"]
    /\ kernel_lock' = NULL
    /\ Goto(c, "halt")

(***************************************************************************)
(* How user programs use the calls. Everything in lib/ and user/ calls      *)
(* sys_env_set_status once per child, to start it (fork, spawn, dumbfork),  *)
(* and never destroys a child it has already destroyed.                     *)
(***************************************************************************)
StartChild(c, envid) ==
    /\ env_status[ENVX(envid)] = "NOT_RUNNABLE"
    /\ env_runs[ENVX(envid)] = 0
    /\ envid # Id0
    /\ SysEnvSetStatus(c, envid, "RUNNABLE")

DestroyOnce(c, envid) ==
    /\ env_status[ENVX(envid)] # "DYING" \/ envid = Id0
    /\ SysEnvDestroy(c, envid)

BootStep == \/ EnvCreate \/ BootSched
            \/ \E c \in CPUs : BootAps(c) \/ MpMain(c)

TrapStep(c) == \/ ReapZombie(c) \/ Yield(c) \/ OtherTrap(c) \/ Fault(c)
               \/ SysExofork(c) \/ SysIpcRecv(c)
               \/ \E envid \in EnvIds : SysIpcTrySend(c, envid)

SchedStep(c) == \/ SchedRun(c) \/ SchedWild(c) \/ SchedKeep(c)
                \/ SchedMonitor(c) \/ SchedHalt(c)

CpuStep(c) == \/ TrapUser(c) \/ WakeHalted(c) \/ LockKernel(c)
              \/ TrapStep(c) \/ TrapReturn(c) \/ SchedStep(c)

Next == \/ BootStep
        \/ \E c \in CPUs : CpuStep(c)
        \/ \E c \in CPUs, envid \in EnvIds :
              StartChild(c, envid) \/ DestroyOnce(c, envid)

Spec == Init /\ [][Next]_vars

\* The same kernel under programs that may destroy a child twice.
NextAnyDestroy ==
    Next \/ \E c \in CPUs, envid \in EnvIds : SysEnvDestroy(c, envid)

SpecAnyDestroy == Init /\ [][NextAnyDestroy]_vars

(***************************************************************************)
(* Fairness. Instructions are executed (weak fairness of every kernel step, *)
(* of user code eventually trapping and of a halted CPU being woken: the    *)
(* local APIC timer is periodic). A timer interrupt that is pending while   *)
(* the CPU is in the kernel is delivered on the way out, so a CPU that      *)
(* keeps trapping keeps being preempted (strong fairness of Yield). The     *)
(* spin lock's xchg is arbitrated by the bus, which serves every CPU        *)
(* (strong fairness of LockKernel).                                         *)
(***************************************************************************)
Fairness ==
    /\ WF_vars(BootStep)
    /\ \A c \in CPUs :
          /\ WF_vars(TrapUser(c)) /\ WF_vars(WakeHalted(c))
          /\ WF_vars(TrapStep(c) \/ TrapReturn(c) \/ SchedStep(c))
          /\ SF_vars(LockKernel(c)) /\ SF_vars(Yield(c))

FairSpec == Spec /\ Fairness

(***************************************************************************)
(* Properties                                                               *)
(***************************************************************************)
TypeOK ==
    /\ kernel_lock \in CPUs \cup {NULL}
    /\ cpu_status \in [CPUs -> {"UNUSED", "STARTED", "HALTED"}]
    /\ pc \in [CPUs -> PCs]
    /\ curenv \in [CPUs -> Slots \cup {NULL}]
    /\ env_status \in [Slots -> Statuses]
    /\ env_id \in [Slots -> EnvIds]
    /\ env_parent_id \in [Slots -> EnvIds]
    /\ env_runs \in [Slots -> {0, 1}]
    /\ env_ipc_recving \in [Slots -> BOOLEAN]
    /\ env_free_list \in Seq(Slots)

\* "Never choose an environment that's currently running on another CPU"
\* (kern/sched.c): no environment is the current one of two CPUs.
OneCpu ==
    \A c, d \in CPUs : c # d /\ curenv[c] # NULL => curenv[c] # curenv[d]

\* A CPU that executes user code, or has just trapped from it, has a current
\* environment (the assert(curenv) of trap()), and the kernel has neither
\* freed that environment nor put it to sleep under it.
RunsLiveEnv ==
    \A c \in CPUs : pc[c] \in {"user", "trap_lock", "trap"} =>
       curenv[c] # NULL /\ env_status[curenv[c]] \in {"RUNNING", "DYING"}

\* An environment marked RUNNING, or DYING, is on some CPU: sched_yield skips
\* it and only that CPU's next trap can move it on, so one marked so on no
\* CPU would be lost for ever.
RunningHasCpu ==
    \A e \in Slots : env_status[e] \in {"RUNNING", "DYING"} =>
       \E c \in CPUs : curenv[c] = e

\* The env_link chain holds exactly the FREE slots, each once: env_alloc never
\* hands out a live slot and no slot leaks.
FreeListOK ==
    /\ \A i, j \in 1 .. Len(env_free_list) :
          env_free_list[i] = env_free_list[j] => i = j
    /\ \A e \in Slots : env_status[e] = "FREE" <=>
          \E i \in 1 .. Len(env_free_list) : env_free_list[i] = e

\* What sleeps can be woken, and only what sleeps is: a live environment with
\* env_ipc_recving set is NOT_RUNNABLE (so sys_ipc_try_send never marks one
\* RUNNABLE that runs somewhere), and a NOT_RUNNABLE one either waits for a
\* message or is a child its parent has not started.
SleepersOK ==
    \A e \in Slots :
       /\ env_ipc_recving[e] /\ env_status[e] # "FREE" =>
             env_status[e] = "NOT_RUNNABLE"
       /\ env_status[e] = "NOT_RUNNABLE" =>
             env_ipc_recving[e] \/ env_runs[e] = 0

\* The lock is held by exactly the CPU inside the kernel, so neither panic of
\* spin_lock and spin_unlock is ever reached.
LockOK == \A c \in CPUs : pc[c] \in Locked <=> kernel_lock = c

\* What a CPU's program point says of its current environment. In the kernel,
\* before it is scheduled away, it may have gone to sleep.
OnCpu ==
    \A c \in CPUs :
       /\ pc[c] \in {"boot", "off", "mp_main", "mp_lock", "halt", "wake_lock"} =>
             curenv[c] = NULL
       /\ pc[c] \in {"user", "trap_lock", "trap"} =>
             curenv[c] # NULL /\ env_status[curenv[c]] \in {"RUNNING", "DYING"}
       /\ pc[c] = "ret" => curenv[c] # NULL /\ env_status[curenv[c]] = "RUNNING"
       /\ pc[c] \in {"sched", "monitor", "wild"} /\ curenv[c] # NULL =>
             env_status[curenv[c]] \in {"RUNNING", "NOT_RUNNABLE"}

\* Only an environment that has been on a CPU is running or receiving.
HasRun ==
    \A e \in Slots :
       /\ env_status[e] \in {"RUNNING", "DYING"} => env_runs[e] = 1
       /\ env_ipc_recving[e] /\ env_status[e] # "FREE" => env_runs[e] = 1

\* The safety properties together with the two facts that make them inductive:
\* no trap, system call, context switch or boot step, on any CPU, leads out of
\* it.
IInv ==
    /\ TypeOK /\ LockOK /\ OneCpu /\ OnCpu /\ RunningHasCpu
    /\ SleepersOK /\ HasRun /\ FreeListOK

\* "A zombie environment will be freed the next time it traps to the kernel"
\* (env_destroy): a DYING environment leaves that state only by being freed by
\* the trap of the CPU it runs on.
ZombieReapedByItsTrap ==
    [][\A e \in Slots : env_status[e] = "DYING" /\ env_status'[e] # "DYING" =>
          /\ env_status'[e] = "FREE"
          /\ \E c \in CPUs : pc[c] = "trap" /\ curenv[c] = e]_vars

\* "Search through 'envs' for an ENV_RUNNABLE environment in circular fashion
\* starting just after the env this CPU was last running.  Switch to the first
\* such environment found." (sched_yield): when CPU c, last running slot s,
\* leaves the scheduler, no slot strictly between s and the one it switches to
\* (any slot, if it switches to none) is RUNNABLE.
CircularDistance(s, e) == (e - s - 1) % NENV

RoundRobin ==
    [][\A c \in CPUs :
          (/\ pc[c] = "sched" /\ pc'[c] \in {"user", "halt", "monitor"}
           /\ curenv[c] # NULL) =>
             \A e \in Slots : env_status[e] = "RUNNABLE" =>
                /\ pc'[c] = "user"
                /\ CircularDistance(curenv[c], curenv'[c])
                      <= CircularDistance(curenv[c], e)]_vars

\* A zombie does not linger: it is freed, its CPU being interrupted.
ZombieFreed ==
    \A e \in Slots : env_status[e] = "DYING" ~> env_status[e] = "FREE"

\* No environment that can run waits for ever, unless environments are created
\* for ever (each exit restarts the search of its CPU at slot 0).
NoStarvation ==
    \/ []<><<\E e \in Slots : env_status[e] = "FREE" /\ env_status'[e] # "FREE">>_vars
    \/ \A e \in Slots : env_status[e] = "RUNNABLE" ~> env_status[e] # "RUNNABLE"
=============================================================================

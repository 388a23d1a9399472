---------------------------- MODULE KernelProofs ----------------------------
(***************************************************************************)
(* Proofs of the safety of Kernel for any number of CPUs and environments.  *)
(***************************************************************************)
EXTENDS Kernel, SequenceTheorems, TLAPS

\* NULL is neither a CPU nor a slot.
LEMMA NullIsNone == NULL \notin CPUs /\ NULL \notin Slots /\ 0 \in CPUs
BY KernelAssumption DEF NULL, CPUs, Slots

\* Everything holds when CPU 0 starts to boot.
LEMMA InitIInv == Init => IInv
<1> SUFFICES ASSUME Init PROVE IInv
  OBVIOUS
<1> USE KernelAssumption, NullIsNone DEF Init, EnvInit
<1>1. TypeOK
  <2>1. Id0 \in EnvIds
    BY DEF Id0, EnvIds, Slots
  <2>2. env_free_list \in Seq(Slots)
    BY DEF Slots
  <2>3. QED
    BY <2>1, <2>2 DEF TypeOK, PCs, Statuses
<1>2. LockOK
  BY DEF LockOK, Locked
<1>3. OneCpu /\ OnCpu
  BY DEF OneCpu, OnCpu
<1>4. RunningHasCpu /\ SleepersOK /\ HasRun
  BY DEF RunningHasCpu, SleepersOK, HasRun
<1>5. FreeListOK
  <2>1. Len(env_free_list) = NENV /\ \A i \in 1 .. NENV : env_free_list[i] = i - 1
    OBVIOUS
  <2>2. ASSUME NEW e \in Slots PROVE \E i \in 1 .. Len(env_free_list) : env_free_list[i] = e
    <3>1. e + 1 \in 1 .. NENV /\ env_free_list[e + 1] = e
      BY <2>1 DEF Slots
    <3>2. QED
      BY <3>1, <2>1
  <2>3. QED
    BY <2>1, <2>2 DEF FreeListOK
<1>6. QED
  BY <1>1, <1>2, <1>3, <1>4, <1>5 DEF IInv

\* env_alloc takes the head of a correct free list: a free slot, and the list
\* stays correct.
LEMMA AllocOK ==
    ASSUME TypeOK, FreeListOK, NEW parent \in EnvIds,
           NEW status \in Statuses \ {"FREE"}, EnvAlloc(parent, status)
    PROVE  \E e \in Slots :
              /\ env_status[e] = "FREE"
              /\ env_status' = [env_status EXCEPT ![e] = status]
              /\ env_runs' = [env_runs EXCEPT ![e] = 0]
              /\ env_ipc_recving' = [env_ipc_recving EXCEPT ![e] = FALSE]
              /\ env_id' \in [Slots -> EnvIds]
              /\ env_parent_id' \in [Slots -> EnvIds]
              /\ env_free_list' \in Seq(Slots)
              /\ FreeListOK'
<1> DEFINE l == env_free_list
           e == Head(l)
<1>1. l \in Seq(Slots) /\ l # <<>>
  BY DEF TypeOK, EnvAlloc
<1>2. /\ e = l[1] /\ Len(l) \in Nat \ {0}
      /\ Tail(l) \in Seq(Slots) /\ Len(Tail(l)) = Len(l) - 1
      /\ \A i \in 1 .. Len(l) - 1 : Tail(l)[i] = l[i + 1]
  BY <1>1, HeadTailProperties, EmptySeq
<1>3. e \in Slots /\ env_status[e] = "FREE"
  BY <1>1, <1>2, ElementOfSeq DEF FreeListOK
<1>4. env_status' = [env_status EXCEPT ![e] = status] /\ env_free_list' = Tail(l)
  BY DEF EnvAlloc
<1>5. <<NextGen(env_id[e][1]), e>> \in EnvIds
  BY <1>3, KernelAssumption DEF TypeOK, EnvIds, NextGen
<1>6. env_id' \in [Slots -> EnvIds] /\ env_parent_id' \in [Slots -> EnvIds]
  BY <1>3, <1>5 DEF TypeOK, EnvAlloc
<1>7. FreeListOK'
  <2>1. \A i, j \in 1 .. Len(Tail(l)) : Tail(l)[i] = Tail(l)[j] => i = j
    BY <1>2 DEF FreeListOK
  <2>2. ASSUME NEW x \in Slots
        PROVE  env_status'[x] = "FREE" <=>
                  \E i \in 1 .. Len(Tail(l)) : Tail(l)[i] = x
    <3>1. CASE x = e
      <4>1. env_status'[x] # "FREE"
        BY <1>3, <1>4, <3>1 DEF TypeOK
      <4>2. \A i \in 1 .. Len(Tail(l)) : Tail(l)[i] # x
        BY <1>2, <3>1 DEF FreeListOK
      <4>3. QED
        BY <4>1, <4>2
    <3>2. CASE x # e
      <4>1. env_status'[x] = env_status[x]
        BY <1>3, <1>4, <3>2 DEF TypeOK
      <4>2. ASSUME NEW i \in 1 .. Len(l), l[i] = x
            PROVE  \E k \in 1 .. Len(Tail(l)) : Tail(l)[k] = x
        <5>1. i - 1 \in 1 .. Len(Tail(l)) /\ Tail(l)[i - 1] = x
          BY <1>2, <3>2, <4>2
        <5>2. QED
          BY <5>1
      <4>3. ASSUME NEW i \in 1 .. Len(Tail(l)), Tail(l)[i] = x
            PROVE  \E k \in 1 .. Len(l) : l[k] = x
        <5>1. i + 1 \in 1 .. Len(l) /\ l[i + 1] = x
          BY <1>2, <4>3
        <5>2. QED
          BY <5>1
      <4>4. QED
        BY <4>1, <4>2, <4>3 DEF FreeListOK
    <3>3. QED
      BY <3>1, <3>2
  <2>3. QED
    BY <2>1, <2>2, <1>4 DEF FreeListOK
<1>8. QED
  BY <1>2, <1>3, <1>4, <1>6, <1>7 DEF EnvAlloc

\* env_free links a live slot: the list stays correct.
LEMMA FreeOK ==
    ASSUME TypeOK, FreeListOK, NEW e \in Slots, env_status[e] # "FREE", EnvFree(e)
    PROVE  env_free_list' \in Seq(Slots) /\ FreeListOK'
<1> DEFINE l == env_free_list
           m == <<e>> \o l
<1>1. l \in Seq(Slots) /\ <<e>> \in Seq(Slots) /\ Len(<<e>>) = 1 /\ <<e>>[1] = e
  BY DEF TypeOK
<1>2. /\ m \in Seq(Slots) /\ Len(l) \in Nat /\ Len(m) = Len(l) + 1
      /\ m[1] = e
      /\ \A i \in 1 .. Len(l) : m[i + 1] = l[i]
      /\ \A i \in 2 .. Len(l) + 1 : m[i] = l[i - 1]
  <2>1. /\ m \in Seq(Slots) /\ Len(m) = 1 + Len(l)
        /\ \A i \in 1 .. 1 + Len(l) : m[i] = IF i <= 1 THEN <<e>>[i] ELSE l[i - 1]
    BY <1>1, ConcatProperties
  <2>2. Len(l) \in Nat
    BY <1>1, LenProperties
  <2>3. QED
    BY <1>1, <2>1, <2>2
<1>3. env_status' = [env_status EXCEPT ![e] = "FREE"] /\ env_free_list' = m
  BY DEF EnvFree
<1>4. \A i \in 1 .. Len(l) : l[i] # e
  BY DEF FreeListOK
<1>5. \A i, j \in 1 .. Len(m) : m[i] = m[j] => i = j
  BY <1>2, <1>4 DEF FreeListOK
<1>6. ASSUME NEW x \in Slots
      PROVE  env_status'[x] = "FREE" <=> \E i \in 1 .. Len(m) : m[i] = x
  <2>1. CASE x = e
    BY <1>2, <1>3, <2>1 DEF TypeOK
  <2>2. CASE x # e
    <3>1. env_status'[x] = env_status[x]
      BY <1>3, <2>2 DEF TypeOK
    <3>2. (\E i \in 1 .. Len(m) : m[i] = x) <=> (\E i \in 1 .. Len(l) : l[i] = x)
      <4>1. ASSUME NEW i \in 1 .. Len(m), m[i] = x
            PROVE  \E k \in 1 .. Len(l) : l[k] = x
        <5>1. i - 1 \in 1 .. Len(l) /\ l[i - 1] = x
          BY <1>2, <2>2, <4>1
        <5>2. QED
          BY <5>1
      <4>2. ASSUME NEW i \in 1 .. Len(l), l[i] = x
            PROVE  \E k \in 1 .. Len(m) : m[k] = x
        <5>1. i + 1 \in 1 .. Len(m) /\ m[i + 1] = x
          BY <1>2, <4>2
        <5>2. QED
          BY <5>1
      <4>3. QED
        BY <4>1, <4>2
    <3>3. QED
      BY <3>1, <3>2 DEF FreeListOK
  <2>3. QED
    BY <2>1, <2>2
<1>7. QED
  BY <1>2, <1>3, <1>5, <1>6 DEF FreeListOK

\* A step that neither frees nor allocates leaves the free list correct.
LEMMA ListFrame ==
    ASSUME FreeListOK, env_free_list' = env_free_list,
           \A e \in Slots : env_status'[e] = "FREE" <=> env_status[e] = "FREE"
    PROVE  FreeListOK'
BY DEF FreeListOK

(***************************************************************************)
(* Every action preserves the invariant                                     *)
(***************************************************************************)
\* Steps outside the environment table: only program points, CPU statuses and
\* the lock change.
LEMMA CpuFrame ==
    ASSUME IInv, UNCHANGED <<curenv, envVars>>,
           kernel_lock' \in CPUs \cup {NULL},
           cpu_status' \in [CPUs -> {"UNUSED", "STARTED", "HALTED"}],
           pc' \in [CPUs -> PCs],
           LockOK', OnCpu'
    PROVE  IInv'
<1>1. TypeOK'
  BY DEF IInv, TypeOK, envVars
<1>2. OneCpu' /\ RunningHasCpu' /\ SleepersOK' /\ HasRun'
  BY DEF IInv, OneCpu, RunningHasCpu, SleepersOK, HasRun, envVars
<1>3. FreeListOK'
  BY ListFrame DEF IInv, envVars
<1>4. QED
  BY <1>1, <1>2, <1>3 DEF IInv

\* boot_aps, mp_main, env_create and the end of i386_init.
LEMMA BootInv == ASSUME IInv, BootStep PROVE IInv'
<1> USE NullIsNone
<1>1. CASE EnvCreate
  <2>1. Id0 \in EnvIds
    BY KernelAssumption DEF Id0, EnvIds, Slots
  <2>2. PICK e \in Slots :
           /\ env_status[e] = "FREE"
           /\ env_status' = [env_status EXCEPT ![e] = "RUNNABLE"]
           /\ env_runs' = [env_runs EXCEPT ![e] = 0]
           /\ env_ipc_recving' = [env_ipc_recving EXCEPT ![e] = FALSE]
           /\ env_id' \in [Slots -> EnvIds]
           /\ env_parent_id' \in [Slots -> EnvIds]
           /\ env_free_list' \in Seq(Slots)
           /\ FreeListOK'
    BY <1>1, <2>1, AllocOK DEF IInv, EnvCreate, Statuses
  <2>3. TypeOK'
    BY <1>1, <2>2 DEF IInv, TypeOK, EnvCreate, cpuVars, Statuses
  <2>4. LockOK' /\ OneCpu'
    BY <1>1 DEF IInv, LockOK, OneCpu, EnvCreate, cpuVars
  <2>5. OnCpu' /\ RunningHasCpu'
    BY <1>1, <2>2 DEF IInv, TypeOK, OnCpu, RunningHasCpu, EnvCreate, cpuVars, PCs
  <2>6. SleepersOK' /\ HasRun'
    BY <2>2 DEF IInv, TypeOK, SleepersOK, HasRun
  <2>7. QED
    BY <2>2, <2>3, <2>4, <2>5, <2>6 DEF IInv
<1>2. CASE BootSched
  <2>1. /\ UNCHANGED <<curenv, envVars>>
        /\ kernel_lock' \in CPUs \cup {NULL}
        /\ cpu_status' \in [CPUs -> {"UNUSED", "STARTED", "HALTED"}]
        /\ pc' \in [CPUs -> PCs]
    BY <1>2 DEF IInv, TypeOK, BootSched, Goto, PCs
  <2>2. LockOK'
    BY <1>2 DEF IInv, TypeOK, LockOK, BootSched, Goto, Locked, PCs
  <2>3. OnCpu'
    BY <1>2 DEF IInv, TypeOK, OnCpu, BootSched, Goto, envVars, PCs
  <2>4. QED
    BY <2>1, <2>2, <2>3, CpuFrame
<1>3. ASSUME NEW c \in CPUs, BootAps(c) PROVE IInv'
  <2>1. /\ UNCHANGED <<curenv, envVars>>
        /\ kernel_lock' \in CPUs \cup {NULL}
        /\ cpu_status' \in [CPUs -> {"UNUSED", "STARTED", "HALTED"}]
        /\ pc' \in [CPUs -> PCs]
    BY <1>3 DEF IInv, TypeOK, BootAps, Goto, PCs
  <2>2. LockOK'
    BY <1>3 DEF IInv, TypeOK, LockOK, BootAps, Goto, Locked, PCs
  <2>3. OnCpu'
    BY <1>3 DEF IInv, TypeOK, OnCpu, BootAps, Goto, envVars, PCs
  <2>4. QED
    BY <2>1, <2>2, <2>3, CpuFrame
<1>4. ASSUME NEW c \in CPUs, MpMain(c) PROVE IInv'
  <2>1. /\ UNCHANGED <<curenv, envVars>>
        /\ kernel_lock' \in CPUs \cup {NULL}
        /\ cpu_status' \in [CPUs -> {"UNUSED", "STARTED", "HALTED"}]
        /\ pc' \in [CPUs -> PCs]
    BY <1>4 DEF IInv, TypeOK, MpMain, Goto, PCs
  <2>2. LockOK'
    BY <1>4 DEF IInv, TypeOK, LockOK, MpMain, Goto, Locked, PCs
  <2>3. OnCpu'
    BY <1>4 DEF IInv, TypeOK, OnCpu, MpMain, Goto, envVars, PCs
  <2>4. QED
    BY <2>1, <2>2, <2>3, CpuFrame
<1>5. QED
  BY <1>1, <1>2, <1>3, <1>4 DEF BootStep

\* Trapping, being woken from a halt, and taking the big kernel lock.
LEMMA EnterInv ==
    ASSUME IInv, NEW c \in CPUs, TrapUser(c) \/ WakeHalted(c) \/ LockKernel(c)
    PROVE  IInv'
<1> USE NullIsNone
<1>1. CASE TrapUser(c)
  <2>1. /\ UNCHANGED <<curenv, envVars>>
        /\ kernel_lock' \in CPUs \cup {NULL}
        /\ cpu_status' \in [CPUs -> {"UNUSED", "STARTED", "HALTED"}]
        /\ pc' \in [CPUs -> PCs]
    BY <1>1 DEF IInv, TypeOK, TrapUser, Goto, PCs
  <2>2. LockOK'
    BY <1>1 DEF IInv, TypeOK, LockOK, TrapUser, Goto, Locked, PCs
  <2>3. OnCpu'
    BY <1>1 DEF IInv, TypeOK, OnCpu, TrapUser, Goto, envVars, PCs
  <2>4. QED
    BY <2>1, <2>2, <2>3, CpuFrame
<1>2. CASE WakeHalted(c)
  <2>1. /\ UNCHANGED <<curenv, envVars>>
        /\ kernel_lock' \in CPUs \cup {NULL}
        /\ cpu_status' \in [CPUs -> {"UNUSED", "STARTED", "HALTED"}]
        /\ pc' \in [CPUs -> PCs]
    BY <1>2 DEF IInv, TypeOK, WakeHalted, Goto, PCs
  <2>2. LockOK'
    BY <1>2 DEF IInv, TypeOK, LockOK, WakeHalted, Goto, Locked, PCs
  <2>3. OnCpu'
    BY <1>2 DEF IInv, TypeOK, OnCpu, WakeHalted, Goto, envVars, PCs
  <2>4. QED
    BY <2>1, <2>2, <2>3, CpuFrame
<1>3. CASE LockKernel(c)
  <2>1. /\ UNCHANGED <<curenv, envVars>>
        /\ kernel_lock' \in CPUs \cup {NULL}
        /\ cpu_status' \in [CPUs -> {"UNUSED", "STARTED", "HALTED"}]
        /\ pc' \in [CPUs -> PCs]
    BY <1>3 DEF IInv, TypeOK, LockKernel, Goto, PCs
  <2>2. LockOK'
    BY <1>3 DEF IInv, TypeOK, LockOK, LockKernel, Goto, Locked, PCs
  <2>3. OnCpu'
    BY <1>3 DEF IInv, TypeOK, OnCpu, LockKernel, Goto, envVars, PCs
  <2>4. QED
    BY <2>1, <2>2, <2>3, CpuFrame
<1>4. QED
  BY <1>1, <1>2, <1>3

\* While CPU c is in the kernel the others are in user mode, on their way in,
\* or idle; their environments are RUNNING or DYING and are not c's.
LEMMA Others ==
    ASSUME IInv, NEW c \in CPUs, pc[c] \in Locked
    PROVE  /\ kernel_lock = c
           /\ \A d \in CPUs \ {c} :
                 /\ pc[d] \notin Locked
                 /\ pc[d] \in PCs
                 /\ curenv[d] # NULL =>
                       /\ curenv[d] \in Slots /\ curenv[d] # curenv[c]
                       /\ env_status[curenv[d]] \in {"RUNNING", "DYING"}
<1>1. kernel_lock = c /\ \A d \in CPUs \ {c} : pc[d] \notin Locked
  BY DEF IInv, LockOK
<1>2. ASSUME NEW d \in CPUs \ {c}
      PROVE  /\ pc[d] \in PCs
             /\ curenv[d] # NULL => curenv[d] \in Slots /\ curenv[d] # curenv[c]
  BY DEF IInv, TypeOK, OneCpu
<1>3. ASSUME NEW d \in CPUs \ {c}, curenv[d] # NULL
      PROVE  env_status[curenv[d]] \in {"RUNNING", "DYING"}
  BY <1>1, <1>2, <1>3 DEF IInv, OnCpu, Locked, PCs
<1>4. QED
  BY <1>1, <1>2, <1>3

\* Dispatching a trap: c has the lock, and its environment is RUNNING.
LEMMA Dispatched ==
    ASSUME IInv, NEW c \in CPUs, Dispatch(c)
    PROVE  /\ pc[c] = "trap" /\ pc[c] \in Locked
           /\ curenv[c] \in Slots /\ curenv[c] # NULL
           /\ env_status[curenv[c]] = "RUNNING"
           /\ UNCHANGED <<kernel_lock, cpu_status>>
BY DEF IInv, TypeOK, OnCpu, Dispatch, Locked

\* Steps of the CPU that has the lock and keeps it, with its environment or
\* none: what is left to show is about the environment table alone.
LEMMA KernelFrame ==
    ASSUME IInv, NEW c \in CPUs, pc[c] \in Locked,
           NEW l \in {"ret", "sched", "monitor", "wild"}, Goto(c, l),
           UNCHANGED kernel_lock,
           curenv' = curenv \/ curenv' = [curenv EXCEPT ![c] = NULL],
           \A d \in CPUs \ {c} : curenv[d] # NULL =>
              env_status'[curenv[d]] \in {"RUNNING", "DYING"},
           curenv'[c] # NULL => env_status'[curenv[c]] \in {"RUNNING", "NOT_RUNNABLE"},
           l = "ret" => curenv'[c] # NULL /\ env_status'[curenv[c]] = "RUNNING"
    PROVE  /\ pc' \in [CPUs -> PCs] /\ curenv' \in [CPUs -> Slots \cup {NULL}]
           /\ LockOK' /\ OneCpu' /\ OnCpu'
<1> USE NullIsNone
<1>1. pc' \in [CPUs -> PCs] /\ curenv' \in [CPUs -> Slots \cup {NULL}]
  BY DEF IInv, TypeOK, Goto, PCs
<1>2. LockOK'
  BY DEF IInv, TypeOK, LockOK, Goto, Locked
<1>3. OneCpu'
  BY DEF IInv, TypeOK, OneCpu
<1>4. ASSUME NEW d \in CPUs
      PROVE  OnCpu!(d)'
  <2>1. CASE d = c
    BY <2>1 DEF IInv, TypeOK, Goto
  <2>2. CASE d # c
    <3>1. pc'[d] = pc[d] /\ curenv'[d] = curenv[d] /\ pc[d] \notin Locked
      BY <2>2, Others DEF IInv, TypeOK, Goto
    <3>2. QED
      BY <2>2, <3>1 DEF IInv, OnCpu, Locked
  <2>3. QED
    BY <2>1, <2>2
<1>5. QED
  BY <1>1, <1>2, <1>3, <1>4 DEF OnCpu

\* The timer interrupt, sys_yield and the calls with no effect here.
LEMMA YieldInv ==
    ASSUME IInv, NEW c \in CPUs, Yield(c) \/ OtherTrap(c)
    PROVE  IInv'
<1>1. Dispatch(c) /\ UNCHANGED <<curenv, envVars>>
  BY DEF Yield, OtherTrap
<1>2. PICK l \in {"ret", "sched"} : Goto(c, l)
  BY DEF Yield, OtherTrap
<1>3. LockOK' /\ OnCpu' /\ pc' \in [CPUs -> PCs]
  <2>1. /\ pc[c] \in Locked /\ curenv[c] \in Slots /\ curenv[c] # NULL
        /\ env_status[curenv[c]] = "RUNNING" /\ UNCHANGED <<kernel_lock, cpu_status>>
    BY <1>1, Dispatched
  <2>2. \A d \in CPUs \ {c} : curenv[d] # NULL =>
           env_status'[curenv[d]] \in {"RUNNING", "DYING"}
    BY <1>1, <2>1, Others DEF envVars
  <2>3. env_status'[curenv[c]] = "RUNNING" /\ curenv' = curenv
    BY <1>1, <2>1 DEF envVars
  <2>4. QED
    BY <1>2, <2>1, <2>2, <2>3, KernelFrame
<1>4. QED
  BY <1>1, <1>3, Dispatched, CpuFrame DEF IInv, TypeOK

\* trap() collects a zombie.
LEMMA ReapInv == ASSUME IInv, NEW c \in CPUs, ReapZombie(c) PROVE IInv'
<1> DEFINE e == curenv[c]
<1> USE NullIsNone
<1>1. /\ pc[c] \in Locked /\ e \in Slots /\ e # NULL /\ env_status[e] = "DYING"
      /\ curenv' = [curenv EXCEPT ![c] = NULL]
      /\ env_status' = [env_status EXCEPT ![e] = "FREE"]
  BY DEF IInv, TypeOK, OnCpu, ReapZombie, EnvFree, Locked
<1>2. env_free_list' \in Seq(Slots) /\ FreeListOK'
  BY <1>1, FreeOK DEF IInv, ReapZombie
<1>3. /\ pc' \in [CPUs -> PCs] /\ curenv' \in [CPUs -> Slots \cup {NULL}]
      /\ LockOK' /\ OneCpu' /\ OnCpu'
  <2>1. \A d \in CPUs \ {c} : curenv[d] # NULL =>
           env_status'[curenv[d]] \in {"RUNNING", "DYING"}
    BY <1>1, Others DEF IInv, TypeOK
  <2>2. Goto(c, "sched") /\ UNCHANGED kernel_lock /\ curenv'[c] = NULL
    BY <1>1 DEF IInv, TypeOK, ReapZombie
  <2>3. QED
    BY <1>1, <2>1, <2>2, KernelFrame
<1>4. TypeOK'
  BY <1>1, <1>2, <1>3 DEF IInv, TypeOK, ReapZombie, EnvFree, Statuses
<1>5. RunningHasCpu'
  BY <1>1 DEF IInv, TypeOK, RunningHasCpu
<1>6. SleepersOK' /\ HasRun'
  BY <1>1 DEF IInv, TypeOK, SleepersOK, HasRun, ReapZombie, EnvFree
<1>7. QED
  BY <1>2, <1>3, <1>4, <1>5, <1>6 DEF IInv

\* env_destroy: of the current environment, of one RUNNING elsewhere, which
\* becomes a zombie, or of one that is on no CPU.
LEMMA DestroyInv ==
    ASSUME IInv, NEW c \in CPUs, Dispatch(c), NEW e \in Slots,
           env_status[e] \notin {"FREE", "DYING"}, EnvDestroy(c, e)
    PROVE  IInv'
<1> USE NullIsNone
<1>1. /\ pc[c] \in Locked /\ curenv[c] \in Slots /\ curenv[c] # NULL
      /\ env_status[curenv[c]] = "RUNNING" /\ UNCHANGED <<kernel_lock, cpu_status>>
  BY Dispatched
<1>2. \A d \in CPUs \ {c} : curenv[d] # NULL =>
         /\ curenv[d] \in Slots /\ curenv[d] # curenv[c]
         /\ env_status[curenv[d]] \in {"RUNNING", "DYING"}
  BY <1>1, Others
<1>3. CASE env_status[e] = "RUNNING" /\ curenv[c] # e
  <2>1. /\ env_status' = [env_status EXCEPT ![e] = "DYING"]
        /\ UNCHANGED <<env_id, env_parent_id, env_runs, env_ipc_recving,
                       env_free_list, curenv>>
        /\ Goto(c, "ret")
    BY <1>3 DEF EnvDestroy
  <2>2. /\ pc' \in [CPUs -> PCs] /\ curenv' \in [CPUs -> Slots \cup {NULL}]
        /\ LockOK' /\ OneCpu' /\ OnCpu'
    <3>1. \A d \in CPUs \ {c} : curenv[d] # NULL =>
             env_status'[curenv[d]] \in {"RUNNING", "DYING"}
      BY <1>2, <2>1 DEF IInv, TypeOK
    <3>2. env_status'[curenv[c]] = "RUNNING"
      BY <1>1, <1>3, <2>1 DEF IInv, TypeOK
    <3>3. QED
      BY <1>1, <2>1, <3>1, <3>2, KernelFrame
  <2>3. TypeOK'
    BY <1>1, <2>1, <2>2 DEF IInv, TypeOK, Statuses
  <2>4. RunningHasCpu'
    BY <1>3, <2>1 DEF IInv, TypeOK, RunningHasCpu
  <2>5. SleepersOK' /\ HasRun'
    BY <1>3, <2>1 DEF IInv, TypeOK, SleepersOK, HasRun
  <2>6. FreeListOK'
    BY <1>3, <2>1, ListFrame DEF IInv, TypeOK
  <2>7. QED
    BY <2>2, <2>3, <2>4, <2>5, <2>6 DEF IInv
<1>4. CASE ~(env_status[e] = "RUNNING" /\ curenv[c] # e)
  <2>1. EnvFree(e) /\ env_status' = [env_status EXCEPT ![e] = "FREE"]
    BY <1>4 DEF EnvDestroy, EnvFree
  <2>2. env_free_list' \in Seq(Slots) /\ FreeListOK'
    BY <2>1, FreeOK DEF IInv
  <2>3. \A d \in CPUs \ {c} : curenv[d] # NULL =>
           env_status'[curenv[d]] \in {"RUNNING", "DYING"}
    BY <1>2, <1>4, <2>1 DEF IInv, TypeOK
  <2>4. /\ pc' \in [CPUs -> PCs] /\ curenv' \in [CPUs -> Slots \cup {NULL}]
        /\ LockOK' /\ OneCpu' /\ OnCpu'
    <3>1. CASE curenv[c] = e
      <4>1. Goto(c, "sched") /\ curenv' = [curenv EXCEPT ![c] = NULL] /\ curenv'[c] = NULL
        BY <1>4, <3>1 DEF EnvDestroy, IInv, TypeOK
      <4>2. QED
        BY <1>1, <2>3, <4>1, KernelFrame
    <3>2. CASE curenv[c] # e
      <4>1. Goto(c, "ret") /\ UNCHANGED curenv
        BY <1>4, <3>2 DEF EnvDestroy
      <4>2. env_status'[curenv[c]] = "RUNNING"
        BY <1>1, <2>1, <3>2 DEF IInv, TypeOK
      <4>3. QED
        BY <1>1, <2>3, <4>1, <4>2, KernelFrame
    <3>3. QED
      BY <3>1, <3>2
  <2>5. TypeOK'
    BY <1>1, <2>1, <2>2, <2>4 DEF IInv, TypeOK, EnvFree, Statuses
  <2>6. RunningHasCpu'
    <3>1. ASSUME NEW x \in Slots, env_status'[x] \in {"RUNNING", "DYING"}
          PROVE  \E d \in CPUs : curenv'[d] = x
      <4>1. x # e /\ env_status[x] \in {"RUNNING", "DYING"}
        BY <2>1, <3>1 DEF IInv, TypeOK
      <4>2. PICK d \in CPUs : curenv[d] = x
        BY <4>1 DEF IInv, RunningHasCpu
      <4>3. curenv' = curenv \/ (curenv[c] = e /\ curenv' = [curenv EXCEPT ![c] = NULL])
        BY <1>4 DEF EnvDestroy
      <4>4. curenv'[d] = x
        BY <4>1, <4>2, <4>3 DEF IInv, TypeOK
      <4>5. QED
        BY <4>4
    <3>2. QED
      BY <3>1 DEF RunningHasCpu
  <2>7. SleepersOK' /\ HasRun'
    BY <2>1 DEF IInv, TypeOK, SleepersOK, HasRun, EnvFree
  <2>8. QED
    BY <2>2, <2>4, <2>5, <2>6, <2>7 DEF IInv
<1>5. QED
  BY <1>3, <1>4

\* A fault destroys the current environment, which is RUNNING.
LEMMA FaultInv == ASSUME IInv, NEW c \in CPUs, Fault(c) PROVE IInv'
<1>1. Dispatch(c) /\ EnvDestroy(c, curenv[c])
  BY DEF Fault
<1>2. QED
  BY <1>1, Dispatched, DestroyInv

\* sys_env_destroy of an environment that is not a zombie yet.
LEMMA DestroyOnceInv ==
    ASSUME IInv, NEW c \in CPUs, NEW envid \in EnvIds, DestroyOnce(c, envid)
    PROVE  IInv'
<1>1. Dispatch(c)
  BY DEF DestroyOnce, SysEnvDestroy
<1>2. PICK e \in Slots : Resolves(c, envid, e, TRUE) /\ EnvDestroy(c, e)
  BY DEF DestroyOnce, SysEnvDestroy
<1>3. env_status[e] \notin {"FREE", "DYING"}
  <2>1. env_status[curenv[c]] = "RUNNING"
    BY <1>1, Dispatched
  <2>2. CASE envid = Id0
    BY <1>2, <2>1, <2>2 DEF Resolves
  <2>3. CASE envid # Id0
    BY <1>2, <2>3 DEF Resolves, DestroyOnce
  <2>4. QED
    BY <2>2, <2>3
<1>4. QED
  BY <1>1, <1>2, <1>3, DestroyInv

\* sys_exofork: the child is on no CPU and has not run.
LEMMA ExoforkInv == ASSUME IInv, NEW c \in CPUs, SysExofork(c) PROVE IInv'
<1> USE NullIsNone
<1>1. /\ pc[c] \in Locked /\ curenv[c] \in Slots /\ curenv[c] # NULL
      /\ env_status[curenv[c]] = "RUNNING" /\ UNCHANGED <<kernel_lock, cpu_status, curenv>>
      /\ Goto(c, "ret") /\ env_id[curenv[c]] \in EnvIds
      /\ EnvAlloc(env_id[curenv[c]], "NOT_RUNNABLE")
  BY Dispatched DEF SysExofork, IInv, TypeOK
<1>2. PICK e \in Slots :
         /\ env_status[e] = "FREE"
         /\ env_status' = [env_status EXCEPT ![e] = "NOT_RUNNABLE"]
         /\ env_runs' = [env_runs EXCEPT ![e] = 0]
         /\ env_ipc_recving' = [env_ipc_recving EXCEPT ![e] = FALSE]
         /\ env_id' \in [Slots -> EnvIds]
         /\ env_parent_id' \in [Slots -> EnvIds]
         /\ env_free_list' \in Seq(Slots)
         /\ FreeListOK'
  BY <1>1, AllocOK DEF IInv, Statuses
<1>3. /\ pc' \in [CPUs -> PCs] /\ curenv' \in [CPUs -> Slots \cup {NULL}]
      /\ LockOK' /\ OneCpu' /\ OnCpu'
  <2>1. \A d \in CPUs \ {c} : curenv[d] # NULL =>
           env_status'[curenv[d]] \in {"RUNNING", "DYING"}
    BY <1>1, <1>2, Others DEF IInv, TypeOK
  <2>2. env_status'[curenv[c]] = "RUNNING"
    BY <1>1, <1>2 DEF IInv, TypeOK
  <2>3. QED
    BY <1>1, <2>1, <2>2, KernelFrame
<1>4. TypeOK'
  BY <1>1, <1>2, <1>3 DEF IInv, TypeOK, Statuses
<1>5. RunningHasCpu'
  BY <1>1, <1>2 DEF IInv, TypeOK, RunningHasCpu
<1>6. SleepersOK' /\ HasRun'
  BY <1>2 DEF IInv, TypeOK, SleepersOK, HasRun
<1>7. QED
  BY <1>2, <1>3, <1>4, <1>5, <1>6 DEF IInv

\* A sleeping environment becomes RUNNABLE: a child that is started or a
\* receiver that is sent to.
LEMMA WakeInv ==
    ASSUME IInv, NEW c \in CPUs, Dispatch(c), Goto(c, "ret"),
           NEW e \in Slots, env_status[e] = "NOT_RUNNABLE",
           env_status' = [env_status EXCEPT ![e] = "RUNNABLE"],
           \/ env_ipc_recving' = env_ipc_recving /\ env_runs[e] = 0
           \/ env_ipc_recving' = [env_ipc_recving EXCEPT ![e] = FALSE],
           UNCHANGED <<curenv, env_id, env_parent_id, env_runs, env_free_list>>
    PROVE  IInv'
<1> USE NullIsNone
<1>1. /\ pc[c] \in Locked /\ curenv[c] \in Slots /\ curenv[c] # NULL
      /\ env_status[curenv[c]] = "RUNNING" /\ UNCHANGED <<kernel_lock, cpu_status>>
  BY Dispatched
<1>2. /\ pc' \in [CPUs -> PCs] /\ curenv' \in [CPUs -> Slots \cup {NULL}]
      /\ LockOK' /\ OneCpu' /\ OnCpu'
  <2>1. \A d \in CPUs \ {c} : curenv[d] # NULL =>
           env_status'[curenv[d]] \in {"RUNNING", "DYING"}
    BY <1>1, Others DEF IInv, TypeOK
  <2>2. env_status'[curenv[c]] = "RUNNING"
    BY <1>1 DEF IInv, TypeOK
  <2>3. QED
    BY <1>1, <2>1, <2>2, KernelFrame
<1>3. TypeOK'
  BY <1>1, <1>2 DEF IInv, TypeOK, Statuses
<1>4. RunningHasCpu'
  BY DEF IInv, TypeOK, RunningHasCpu
<1>5. SleepersOK' /\ HasRun'
  <2>1. /\ env_status \in [Slots -> Statuses] /\ env_ipc_recving \in [Slots -> BOOLEAN]
        /\ SleepersOK /\ HasRun
    BY DEF IInv, TypeOK
  <2>2. ~env_ipc_recving'[e]
    <3>1. CASE env_ipc_recving' = env_ipc_recving /\ env_runs[e] = 0
      BY <2>1, <3>1 DEF HasRun
    <3>2. CASE env_ipc_recving' = [env_ipc_recving EXCEPT ![e] = FALSE]
      BY <2>1, <3>2
    <3>3. QED
      BY <3>1, <3>2
  <2>3. \A x \in Slots \ {e} : /\ env_status'[x] = env_status[x]
                                /\ env_ipc_recving'[x] = env_ipc_recving[x]
    BY <2>1
  <2>4. env_status'[e] = "RUNNABLE"
    BY <2>1
  <2>5. SleepersOK'
    BY <2>1, <2>2, <2>3, <2>4 DEF SleepersOK
  <2>6. HasRun'
    BY <2>1, <2>2, <2>3, <2>4 DEF HasRun
  <2>7. QED
    BY <2>5, <2>6
<1>6. FreeListOK'
  BY ListFrame DEF IInv, TypeOK
<1>7. QED
  BY <1>2, <1>3, <1>4, <1>5, <1>6 DEF IInv

\* sys_env_set_status as fork and spawn use it, on a child that has not run.
LEMMA StartChildInv ==
    ASSUME IInv, NEW c \in CPUs, NEW envid \in EnvIds, StartChild(c, envid)
    PROVE  IInv'
<1>1. Dispatch(c) /\ Goto(c, "ret")
  BY DEF StartChild, SysEnvSetStatus
<1>2. PICK e \in Slots :
         Resolves(c, envid, e, TRUE) /\ env_status' = [env_status EXCEPT ![e] = "RUNNABLE"]
  BY DEF StartChild, SysEnvSetStatus
<1>3. env_status[e] = "NOT_RUNNABLE" /\ env_runs[e] = 0
  BY <1>2 DEF StartChild, Resolves
<1>4. QED
  BY <1>1, <1>2, <1>3, WakeInv DEF StartChild, SysEnvSetStatus

\* sys_ipc_try_send: the receiver sleeps, so that it is on no other CPU.
LEMMA IpcSendInv ==
    ASSUME IInv, NEW c \in CPUs, NEW envid \in EnvIds, SysIpcTrySend(c, envid)
    PROVE  IInv'
<1>1. Dispatch(c) /\ Goto(c, "ret")
  BY DEF SysIpcTrySend
<1>2. PICK e \in Slots :
         /\ Resolves(c, envid, e, FALSE)
         /\ env_ipc_recving[e]
         /\ env_ipc_recving' = [env_ipc_recving EXCEPT ![e] = FALSE]
         /\ env_status' = [env_status EXCEPT ![e] = "RUNNABLE"]
  BY DEF SysIpcTrySend
<1>3. env_status[e] = "NOT_RUNNABLE"
  <2>1. env_status[curenv[c]] = "RUNNING"
    BY <1>1, Dispatched
  <2>2. env_status[e] # "FREE"
    BY <1>2, <2>1 DEF Resolves
  <2>3. QED
    BY <1>2, <2>2 DEF IInv, SleepersOK
<1>4. QED
  BY <1>1, <1>2, <1>3, WakeInv DEF SysIpcTrySend

\* sys_ipc_recv puts the current environment to sleep and schedules.
LEMMA IpcRecvInv == ASSUME IInv, NEW c \in CPUs, SysIpcRecv(c) PROVE IInv'
<1> DEFINE e == curenv[c]
<1> USE NullIsNone
<1>1. /\ pc[c] \in Locked /\ e \in Slots /\ e # NULL
      /\ env_status[e] = "RUNNING" /\ UNCHANGED <<kernel_lock, cpu_status>>
      /\ Goto(c, "sched")
      /\ env_ipc_recving' = [env_ipc_recving EXCEPT ![e] = TRUE]
      /\ env_status' = [env_status EXCEPT ![e] = "NOT_RUNNABLE"]
      /\ UNCHANGED <<curenv, env_id, env_parent_id, env_runs, env_free_list>>
  BY Dispatched DEF SysIpcRecv
<1>2. /\ pc' \in [CPUs -> PCs] /\ curenv' \in [CPUs -> Slots \cup {NULL}]
      /\ LockOK' /\ OneCpu' /\ OnCpu'
  <2>1. \A d \in CPUs \ {c} : curenv[d] # NULL =>
           env_status'[curenv[d]] \in {"RUNNING", "DYING"}
    BY <1>1, Others DEF IInv, TypeOK
  <2>2. env_status'[curenv[c]] = "NOT_RUNNABLE"
    BY <1>1 DEF IInv, TypeOK
  <2>3. QED
    BY <1>1, <2>1, <2>2, KernelFrame
<1>3. TypeOK'
  BY <1>1, <1>2 DEF IInv, TypeOK, Statuses
<1>4. RunningHasCpu'
  BY <1>1 DEF IInv, TypeOK, RunningHasCpu
<1>5. SleepersOK' /\ HasRun'
  BY <1>1 DEF IInv, TypeOK, SleepersOK, HasRun
<1>6. FreeListOK'
  BY <1>1, ListFrame DEF IInv, TypeOK
<1>7. QED
  BY <1>2, <1>3, <1>4, <1>5, <1>6 DEF IInv

\* The CPU in the kernel drops the lock and leaves.
LEMMA UnlockOK ==
    ASSUME IInv, NEW c \in CPUs, pc[c] \in Locked,
           kernel_lock' = NULL, NEW l \in PCs \ Locked, Goto(c, l)
    PROVE  LockOK'
<1>1. \A d \in CPUs \ {c} : pc[d] \notin Locked
  BY Others
<1>2. pc' = [pc EXCEPT ![c] = l] /\ pc \in [CPUs -> PCs]
  BY DEF Goto, IInv, TypeOK
<1>3. \A d \in CPUs : pc'[d] \notin Locked
  BY <1>1, <1>2
<1>4. QED
  BY <1>3, NullIsNone DEF LockOK

\* env_run back into the current environment: the CPU drops the lock.
LEMMA RunSameInv ==
    ASSUME IInv, NEW c \in CPUs, pc[c] \in Locked, curenv[c] # NULL,
           env_status[curenv[c]] = "RUNNING", EnvRun(c, curenv[c])
    PROVE  IInv'
<1> USE NullIsNone
<1>1. /\ UNCHANGED <<curenv, envVars, cpu_status>> /\ kernel_lock' = NULL /\ Goto(c, "user")
  BY DEF EnvRun, envVars
<1>2. /\ pc' \in [CPUs -> PCs]
      /\ cpu_status' \in [CPUs -> {"UNUSED", "STARTED", "HALTED"}]
  BY <1>1 DEF IInv, TypeOK, Goto, PCs
<1>3. LockOK'
  <2>1. "user" \in PCs \ Locked
    BY DEF PCs, Locked
  <2>2. QED
    BY <1>1, <2>1, UnlockOK
<1>4. OnCpu'
  BY <1>1 DEF IInv, TypeOK, OnCpu, Goto, envVars
<1>5. QED
  BY <1>1, <1>2, <1>3, <1>4, CpuFrame

\* env_run of a RUNNABLE environment, which therefore is on no CPU: the one
\* that c leaves goes back to RUNNABLE, or sleeps.
LEMMA RunOtherInv ==
    ASSUME IInv, NEW c \in CPUs, pc[c] = "sched",
           NEW e \in Slots, env_status[e] = "RUNNABLE", EnvRun(c, e)
    PROVE  IInv'
<1> USE NullIsNone
<1> DEFINE old == curenv[c]
<1>1. pc[c] \in Locked
  BY DEF Locked
<1>2. \A d \in CPUs : curenv[d] # e
  BY <1>1, Others DEF IInv, OnCpu
<1>3. /\ env_status' = [s \in Slots |-> IF s = e THEN "RUNNING"
                        ELSE IF s = old /\ env_status[s] = "RUNNING"
                             THEN "RUNNABLE" ELSE env_status[s]]
      /\ curenv' = [curenv EXCEPT ![c] = e]
      /\ env_runs' = [env_runs EXCEPT ![e] = 1]
      /\ kernel_lock' = NULL /\ Goto(c, "user")
      /\ UNCHANGED <<cpu_status, env_id, env_parent_id, env_ipc_recving, env_free_list>>
  BY <1>2 DEF EnvRun
<1>4. TypeOK'
  BY <1>3 DEF IInv, TypeOK, Goto, PCs, Statuses
<1>5. LockOK'
  <2>1. "user" \in PCs \ Locked
    BY DEF PCs, Locked
  <2>2. QED
    BY <1>1, <1>3, <2>1, UnlockOK
<1>6. OneCpu'
  BY <1>2, <1>3 DEF IInv, TypeOK, OneCpu
<1>7. OnCpu'
  <2>1. ASSUME NEW d \in CPUs PROVE OnCpu!(d)'
    <3>1. CASE d = c
      BY <1>3, <3>1 DEF IInv, TypeOK, Goto
    <3>2. CASE d # c
      <4>1. /\ pc'[d] = pc[d] /\ curenv'[d] = curenv[d] /\ pc[d] \notin Locked
            /\ curenv[d] # NULL => env_status'[curenv[d]] = env_status[curenv[d]]
        BY <1>1, <1>2, <1>3, <3>2, Others DEF IInv, TypeOK, Goto
      <4>2. QED
        BY <4>1 DEF IInv, OnCpu, Locked
    <3>3. QED
      BY <3>1, <3>2
  <2>2. QED
    BY <2>1 DEF OnCpu
<1>8. RunningHasCpu'
  <2>1. ASSUME NEW x \in Slots, env_status'[x] \in {"RUNNING", "DYING"}
        PROVE  \E d \in CPUs : curenv'[d] = x
    <3>1. CASE x = e
      BY <1>3, <3>1 DEF IInv, TypeOK
    <3>2. CASE x # e
      <4>1. env_status[x] \in {"RUNNING", "DYING"} /\ x # old
        BY <1>3, <2>1, <3>2 DEF IInv, OnCpu
      <4>2. PICK d \in CPUs : curenv[d] = x
        BY <4>1 DEF IInv, RunningHasCpu
      <4>3. curenv'[d] = x
        BY <1>3, <4>1, <4>2 DEF IInv, TypeOK
      <4>4. QED
        BY <4>3
    <3>3. QED
      BY <3>1, <3>2
  <2>2. QED
    BY <2>1 DEF RunningHasCpu
<1>9. SleepersOK' /\ HasRun'
  BY <1>3 DEF IInv, TypeOK, SleepersOK, HasRun
<1>10. FreeListOK'
  BY <1>3, ListFrame DEF IInv
<1>11. QED
  BY <1>4, <1>5, <1>6, <1>7, <1>8, <1>9, <1>10 DEF IInv

\* The end of trap(): the current environment is RUNNING, or it has scheduled.
LEMMA TrapReturnInv == ASSUME IInv, NEW c \in CPUs, TrapReturn(c) PROVE IInv'
<1>1. pc[c] \in Locked /\ curenv[c] # NULL /\ env_status[curenv[c]] = "RUNNING"
  BY DEF TrapReturn, IInv, OnCpu, Locked
<1>2. EnvRun(c, curenv[c])
  BY <1>1 DEF TrapReturn
<1>3. QED
  BY <1>1, <1>2, RunSameInv

\* sched_yield and sched_halt, the probe of envs[NENV] included.
LEMMA SchedInv == ASSUME IInv, NEW c \in CPUs, SchedStep(c) PROVE IInv'
<1> USE NullIsNone
<1>1. CASE SchedRun(c)
  <2>1. PICK k \in Slots : FirstFound(c, k) /\ EnvRun(c, Visited(c, k))
    BY <1>1 DEF SchedRun
  <2>2. Visited(c, k) \in Slots /\ env_status[Visited(c, k)] = "RUNNABLE"
    BY <2>1 DEF FirstFound, Finds
  <2>3. QED
    BY <1>1, <2>1, <2>2, RunOtherInv DEF SchedRun
<1>2. CASE SchedKeep(c)
  BY <1>2, RunSameInv DEF SchedKeep, Locked
<1>3. ASSUME NEW l \in {"wild", "monitor"}, pc[c] = "sched", Goto(c, l),
             UNCHANGED <<kernel_lock, cpu_status, curenv, envVars>>
      PROVE  IInv'
  <2>1. pc[c] \in Locked
    BY <1>3 DEF Locked
  <2>2. LockOK' /\ OnCpu' /\ pc' \in [CPUs -> PCs]
    <3>1. \A d \in CPUs \ {c} : curenv[d] # NULL =>
             env_status'[curenv[d]] \in {"RUNNING", "DYING"}
      BY <1>3, <2>1, Others DEF envVars
    <3>2. curenv'[c] # NULL => env_status'[curenv[c]] \in {"RUNNING", "NOT_RUNNABLE"}
      BY <1>3 DEF IInv, OnCpu, envVars
    <3>3. QED
      BY <1>3, <2>1, <3>1, <3>2, KernelFrame
  <2>3. QED
    BY <1>3, <2>2, CpuFrame DEF IInv, TypeOK
<1>4. CASE SchedWild(c)
  BY <1>3, <1>4 DEF SchedWild
<1>5. CASE SchedMonitor(c)
  BY <1>3, <1>5 DEF SchedMonitor, Idle
<1>6. CASE SchedHalt(c)
  <2>1. /\ pc[c] = "sched" /\ pc[c] \in Locked /\ Goto(c, "halt")
        /\ kernel_lock' = NULL /\ UNCHANGED envVars
        /\ curenv' = [curenv EXCEPT ![c] = NULL]
        /\ cpu_status' = [cpu_status EXCEPT ![c] = "HALTED"]
        /\ curenv[c] # NULL => env_status[curenv[c]] = "NOT_RUNNABLE"
    BY <1>6 DEF SchedHalt, Idle, Locked, IInv, OnCpu
  <2>2. TypeOK'
    BY <2>1 DEF IInv, TypeOK, Goto, PCs, envVars
  <2>3. LockOK'
    <3>1. "halt" \in PCs \ Locked
      BY DEF PCs, Locked
    <3>2. QED
      BY <2>1, <3>1, UnlockOK
  <2>4. OneCpu'
    BY <2>1 DEF IInv, TypeOK, OneCpu
  <2>5. OnCpu'
    BY <2>1 DEF IInv, TypeOK, OnCpu, Goto, envVars
  <2>6. RunningHasCpu'
    <3>1. ASSUME NEW x \in Slots, env_status[x] \in {"RUNNING", "DYING"}
          PROVE  \E d \in CPUs : curenv'[d] = x
      <4>1. PICK d \in CPUs : curenv[d] = x
        BY <3>1 DEF IInv, RunningHasCpu
      <4>2. curenv'[d] = x
        BY <2>1, <3>1, <4>1 DEF IInv, TypeOK
      <4>3. QED
        BY <4>2
    <3>2. QED
      BY <2>1, <3>1 DEF RunningHasCpu, envVars
  <2>7. SleepersOK' /\ HasRun'
    BY <2>1 DEF IInv, SleepersOK, HasRun, envVars
  <2>8. FreeListOK'
    BY <2>1, ListFrame DEF IInv, envVars
  <2>9. QED
    BY <2>2, <2>3, <2>4, <2>5, <2>6, <2>7, <2>8 DEF IInv
<1>7. QED
  BY <1>1, <1>2, <1>4, <1>5, <1>6 DEF SchedStep

(***************************************************************************)
(* The theorems                                                             *)
(***************************************************************************)
\* No step of any CPU leads out of the invariant.
LEMMA NextIInv == IInv /\ [Next]_vars => IInv'
<1> SUFFICES ASSUME IInv, [Next]_vars PROVE IInv'
  OBVIOUS
<1>1. CASE UNCHANGED vars
  <2>1. UNCHANGED <<kernel_lock, cpu_status, pc, curenv, envVars>>
    BY <1>1 DEF vars, envVars
  <2>2. LockOK' /\ OnCpu'
    BY <2>1 DEF IInv, LockOK, OnCpu, envVars
  <2>3. QED
    BY <2>1, <2>2, CpuFrame DEF IInv, TypeOK
<1>2. CASE BootStep
  BY <1>2, BootInv
<1>3. ASSUME NEW c \in CPUs, CpuStep(c) PROVE IInv'
  <2>1. CASE TrapStep(c)
    <3>1. CASE ReapZombie(c)
      BY <3>1, ReapInv
    <3>2. CASE Yield(c) \/ OtherTrap(c)
      BY <3>2, YieldInv
    <3>3. CASE Fault(c)
      BY <3>3, FaultInv
    <3>4. CASE SysExofork(c)
      BY <3>4, ExoforkInv
    <3>5. CASE SysIpcRecv(c)
      BY <3>5, IpcRecvInv
    <3>6. ASSUME NEW envid \in EnvIds, SysIpcTrySend(c, envid) PROVE IInv'
      BY <3>6, IpcSendInv
    <3>7. QED
      BY <2>1, <3>1, <3>2, <3>3, <3>4, <3>5, <3>6 DEF TrapStep
  <2>2. CASE TrapReturn(c)
    BY <2>2, TrapReturnInv
  <2>3. CASE SchedStep(c)
    BY <2>3, SchedInv
  <2>4. CASE TrapUser(c) \/ WakeHalted(c) \/ LockKernel(c)
    BY <2>4, EnterInv
  <2>5. QED
    BY <1>3, <2>1, <2>2, <2>3, <2>4 DEF CpuStep
<1>4. ASSUME NEW c \in CPUs, NEW envid \in EnvIds,
             StartChild(c, envid) \/ DestroyOnce(c, envid)
      PROVE  IInv'
  BY <1>4, StartChildInv, DestroyOnceInv
<1>5. QED
  BY <1>1, <1>2, <1>3, <1>4 DEF Next

\* The inductive invariant holds in every reachable state, for any number of
\* CPUs, slots and generations.
THEOREM Invariance == Spec => []IInv
BY InitIInv, NextIInv, PTL DEF Spec

\* Type correctness: in particular generations wrap around and no id becomes
\* negative (env_alloc).
THEOREM TypeCorrect == Spec => []TypeOK
<1>1. IInv => TypeOK
  BY DEF IInv
<1>2. QED
  BY <1>1, Invariance, PTL

\* sched_yield and env_run never put one environment on two CPUs.
THEOREM OneCpuPerEnv == Spec => []OneCpu
<1>1. IInv => OneCpu
  BY DEF IInv
<1>2. QED
  BY <1>1, Invariance, PTL

\* No CPU executes an environment that env_destroy or sys_ipc_recv has taken
\* away from under it, and none is lost in RUNNING or DYING.
THEOREM CpusAndEnvsAgree == Spec => [](RunsLiveEnv /\ RunningHasCpu)
<1>1. IInv => RunsLiveEnv /\ RunningHasCpu
  BY DEF IInv, RunsLiveEnv, OnCpu
<1>2. QED
  BY <1>1, Invariance, PTL

\* env_alloc and env_free keep the free list exact.
THEOREM FreeListExact == Spec => []FreeListOK
<1>1. IInv => FreeListOK
  BY DEF IInv
<1>2. QED
  BY <1>1, Invariance, PTL

\* Only sleeping environments are woken by sys_ipc_try_send, and every sleeping
\* one can be woken.
THEOREM SleepersWake == Spec => []SleepersOK
<1>1. IInv => SleepersOK
  BY DEF IInv
<1>2. QED
  BY <1>1, Invariance, PTL

\* The big kernel lock is held by exactly the CPU inside the kernel.
THEOREM BigKernelLock == Spec => []LockOK
<1>1. IInv => LockOK
  BY DEF IInv
<1>2. QED
  BY <1>1, Invariance, PTL

\* Of all steps only trap()'s own check takes an environment out of DYING.
LEMMA ZombieStep ==
    ASSUME IInv, Next, NEW e \in Slots,
           env_status[e] = "DYING", env_status'[e] # "DYING"
    PROVE  /\ env_status'[e] = "FREE"
           /\ \E c \in CPUs : pc[c] = "trap" /\ curenv[c] = e
<1> USE NullIsNone
<1>1. env_status \in [Slots -> Statuses]
  BY DEF IInv, TypeOK
<1>2. ~BootStep
  <2>1. CASE EnvCreate
    <3>1. Id0 \in EnvIds /\ "RUNNABLE" \in Statuses \ {"FREE"}
      BY KernelAssumption DEF Id0, EnvIds, Slots, Statuses
    <3>2. PICK x \in Slots : /\ env_status[x] = "FREE"
                             /\ env_status' = [env_status EXCEPT ![x] = "RUNNABLE"]
      BY <2>1, <3>1, AllocOK DEF IInv, EnvCreate
    <3>3. QED
      BY <1>1, <3>2
  <2>2. QED
    BY <2>1 DEF BootStep, BootSched, BootAps, MpMain, envVars
<1>3. ASSUME NEW c \in CPUs, NEW x \in Slots, Dispatch(c), EnvDestroy(c, x),
             env_status[x] # "DYING"
      PROVE  FALSE
  BY <1>1, <1>3 DEF EnvDestroy, EnvFree
<1>4. ASSUME NEW c \in CPUs, NEW x \in Slots, EnvRun(c, x),
             env_status[x] # "DYING"
      PROVE  FALSE
  BY <1>1, <1>4 DEF EnvRun
<1>5. ASSUME NEW c \in CPUs, CpuStep(c) PROVE ReapZombie(c)
  <2>1. ~(TrapUser(c) \/ WakeHalted(c) \/ LockKernel(c))
    BY DEF TrapUser, WakeHalted, LockKernel, envVars
  <2>2. ~(Yield(c) \/ OtherTrap(c))
    BY DEF Yield, OtherTrap, envVars
  <2>3. ~Fault(c)
    BY <1>3, Dispatched DEF Fault
  <2>4. ~SysExofork(c)
    <3>1. SUFFICES ASSUME SysExofork(c) PROVE FALSE
      OBVIOUS
    <3>2. env_id[curenv[c]] \in EnvIds /\ "NOT_RUNNABLE" \in Statuses \ {"FREE"}
      BY <3>1, Dispatched DEF SysExofork, IInv, TypeOK, Statuses
    <3>3. PICK x \in Slots : /\ env_status[x] = "FREE"
                             /\ env_status' = [env_status EXCEPT ![x] = "NOT_RUNNABLE"]
      BY <3>1, <3>2, AllocOK DEF IInv, SysExofork
    <3>4. QED
      BY <1>1, <3>3
  <2>5. ~SysIpcRecv(c)
    BY <1>1, Dispatched DEF SysIpcRecv
  <2>6. ASSUME NEW envid \in EnvIds, SysIpcTrySend(c, envid) PROVE FALSE
    <3>1. PICK x \in Slots : /\ Resolves(c, envid, x, FALSE) /\ env_ipc_recving[x]
                             /\ env_status' = [env_status EXCEPT ![x] = "RUNNABLE"]
      BY <2>6 DEF SysIpcTrySend
    <3>2. env_status[x] # "DYING"
      BY <3>1 DEF IInv, SleepersOK
    <3>3. QED
      BY <1>1, <3>1, <3>2
  <2>7. ~TrapReturn(c)
    BY <1>4 DEF TrapReturn, IInv, TypeOK, envVars
  <2>8. ~SchedStep(c)
    <3>1. ~SchedRun(c)
      BY <1>4 DEF SchedRun, FirstFound, Finds
    <3>2. ~SchedKeep(c)
      BY <1>4 DEF SchedKeep, IInv, TypeOK
    <3>3. QED
      BY <3>1, <3>2 DEF SchedStep, SchedWild, SchedMonitor, SchedHalt, Idle, envVars
  <2>9. QED
    BY <1>5, <2>1, <2>2, <2>3, <2>4, <2>5, <2>6, <2>7, <2>8 DEF CpuStep, TrapStep
<1>6. ASSUME NEW c \in CPUs, NEW envid \in EnvIds PROVE ~StartChild(c, envid)
  <2>1. SUFFICES ASSUME StartChild(c, envid) PROVE FALSE
    OBVIOUS
  <2>2. PICK x \in Slots :
           Resolves(c, envid, x, TRUE) /\ env_status' = [env_status EXCEPT ![x] = "RUNNABLE"]
    BY <2>1 DEF StartChild, SysEnvSetStatus
  <2>3. env_status[x] = "NOT_RUNNABLE"
    BY <2>1, <2>2 DEF StartChild, Resolves
  <2>4. QED
    BY <1>1, <2>2, <2>3
<1>7. ASSUME NEW c \in CPUs, NEW envid \in EnvIds PROVE ~DestroyOnce(c, envid)
  <2>1. SUFFICES ASSUME DestroyOnce(c, envid) PROVE FALSE
    OBVIOUS
  <2>2. PICK x \in Slots : Resolves(c, envid, x, TRUE) /\ EnvDestroy(c, x)
    BY <2>1 DEF DestroyOnce, SysEnvDestroy
  <2>3. Dispatch(c)
    BY <2>1 DEF DestroyOnce, SysEnvDestroy
  <2>4. env_status[x] # "DYING"
    BY <2>1, <2>2, <2>3, Dispatched DEF DestroyOnce, Resolves
  <2>5. QED
    BY <1>3, <2>2, <2>3, <2>4
<1>8. PICK c \in CPUs : ReapZombie(c)
  BY <1>2, <1>5, <1>6, <1>7 DEF Next
<1>9. curenv[c] \in Slots /\ env_status' = [env_status EXCEPT ![curenv[c]] = "FREE"]
  BY <1>8 DEF ReapZombie, EnvFree, IInv, TypeOK, OnCpu
<1>10. QED
  BY <1>1, <1>8, <1>9 DEF ReapZombie

\* As the comment of env_destroy says, a zombie is freed by the next trap of the
\* CPU it runs on, and by nothing else.
THEOREM ZombieReaped == Spec => ZombieReapedByItsTrap
<1>1. ASSUME IInv, [Next]_vars
      PROVE  [\A e \in Slots : env_status[e] = "DYING" /\ env_status'[e] # "DYING" =>
                 /\ env_status'[e] = "FREE"
                 /\ \E c \in CPUs : pc[c] = "trap" /\ curenv[c] = e]_vars
  BY <1>1, ZombieStep
<1>2. QED
  BY <1>1, Invariance, PTL DEF Spec, ZombieReapedByItsTrap
=============================================================================

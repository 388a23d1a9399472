-------------------------------- MODULE Pmap --------------------------------
(***************************************************************************)
(* Physical pages and their reference counts, page tables and TLBs          *)
(* (kern/pmap.c), as the page system calls, sys_exofork, page transfer by   *)
(* IPC and env_free use them (kern/syscall.c, kern/env.c).                  *)
(*                                                                         *)
(* Everything here runs under the big kernel lock, so one step is one       *)
(* system call; memory accesses of user code, which fill the TLB of their   *)
(* CPU, and context switches come in between. Page contents and permission  *)
(* bits are left out. The free list is a set: any free page may be the head.*)
(***************************************************************************)
EXTENDS Integers, FiniteSets

CONSTANTS CPUs, Envs,
          Pages,     \* the pages page_init puts on the free list
          VAs,       \* page-aligned user addresses, below UTOP
          PDEs,      \* page directory slots
          PDX,       \* [VAs -> PDEs]: the slot that covers an address
          RefMod,    \* pp_ref is an unsigned integer modulo RefMod (2^16)
          NULL

ASSUME PmapAssumption ==
    /\ IsFiniteSet(Envs) /\ IsFiniteSet(VAs) /\ IsFiniteSet(PDEs)
    /\ PDX \in [VAs -> PDEs]
    /\ RefMod \in Nat \ {0, 1}
    /\ NULL \notin Envs \cup Pages

VARIABLES page_free_list, pp_ref,
          env_pgdir,    \* [Envs -> Pages \cup {NULL}], NULL for a free slot
          pgdir,        \* [Envs -> [PDEs -> Pages \cup {NULL}]]: page tables
          pt,           \* [Envs -> [VAs -> Pages \cup {NULL}]]: their entries
          env_parent,
          curenv,       \* [CPUs -> Envs \cup {NULL}]: the address space loaded
          tlb,          \* [CPUs -> SUBSET (VAs \X Pages)]
          panicked

memVars == <<page_free_list, pp_ref, env_pgdir, pgdir, pt>>
vars == <<page_free_list, pp_ref, env_pgdir, pgdir, pt, env_parent, curenv,
          tlb, panicked>>

Live == {e \in Envs : env_pgdir[e] # NULL}

\* The current environment may change itself and its immediate children.
MayChange(c, t) == t \in Live /\ (t = curenv[c] \/ env_parent[t] = curenv[c])

Inc(n) == (n + 1) % RefMod
Dec(n) == (n - 1) % RefMod

\* After boot, one environment with an empty address space (env_create).
Init ==
    \E e \in Envs, p \in Pages :
       /\ env_pgdir = [x \in Envs |-> IF x = e THEN p ELSE NULL]
       /\ page_free_list = Pages \ {p}
       /\ pp_ref = [x \in Pages |-> IF x = p THEN 1 ELSE 0]
       /\ pgdir = [x \in Envs |-> [d \in PDEs |-> NULL]]
       /\ pt = [x \in Envs |-> [va \in VAs |-> NULL]]
       /\ env_parent = [x \in Envs |-> NULL]
       /\ curenv = [c \in CPUs |-> NULL]
       /\ tlb = [c \in CPUs |-> {}]
       /\ panicked = FALSE

(***************************************************************************)
(* Address spaces                                                           *)
(***************************************************************************)
\* env_setup_vm: a page for the page directory.
EnvSetupVm(e, parent) ==
    /\ env_pgdir[e] = NULL
    /\ \E p \in page_free_list :
          /\ page_free_list' = page_free_list \ {p}
          /\ pp_ref' = [pp_ref EXCEPT ![p] = Inc(@)]
          /\ env_pgdir' = [env_pgdir EXCEPT ![e] = p]
    /\ env_parent' = [env_parent EXCEPT ![e] = parent]
    /\ UNCHANGED <<pgdir, pt, curenv, tlb, panicked>>

\* Mutant: nothing is invalidated.
FlushedNever(c, t, va) == tlb

\* tlb_invalidate on CPU c: only the local TLB, and only if t is loaded there.
Flushed(c, t, va) ==
    [tlb EXCEPT ![c] = IF curenv[c] \in {NULL, t}
                       THEN {x \in @ : x[1] # va} ELSE @]

\* page_insert of page p at va in t, with the pages in reach given: the page
\* table is allocated on demand, p gains a reference before the page that was
\* mapped at va, if any, loses one and is freed with its last.
PageInsert(c, t, p, va, free, ref) ==
    LET d == PDX[va]
        old == pt[t][va]
        Insert(free1, ref1) ==
           LET ref2 == [ref1 EXCEPT ![p] = Inc(@)]
               ref3 == IF old = NULL THEN ref2 ELSE [ref2 EXCEPT ![old] = Dec(@)]
           IN /\ pp_ref' = ref3
              /\ page_free_list' = IF old # NULL /\ ref3[old] = 0
                                   THEN free1 \cup {old} ELSE free1
              /\ pt' = [pt EXCEPT ![t][va] = p]
              /\ tlb' = IF old = NULL THEN tlb ELSE Flushed(c, t, va)
    IN IF pgdir[t][d] # NULL
       THEN Insert(free, ref) /\ UNCHANGED pgdir
       ELSE \E q \in free :
               /\ Insert(free \ {q}, [ref EXCEPT ![q] = Inc(@)])
               /\ pgdir' = [pgdir EXCEPT ![t][d] = q]

\* page_insert returns -E_NO_MEM.
InsertFails(t, va, free) == pgdir[t][PDX[va]] = NULL /\ free = {}

\* page_lookup in t: it reads *pte before it asks whether pte is NULL, so
\* without a page table the kernel reads address 0, which nothing in kern/ or
\* lib/ maps, and takes a page fault.
LookupFaults(t, va) == pgdir[t][PDX[va]] = NULL

Panic ==
    /\ panicked' = TRUE
    /\ UNCHANGED <<memVars, env_parent, curenv, tlb>>

(***************************************************************************)
(* The system calls, by the environment current on CPU c                    *)
(***************************************************************************)
Runs(c) == ~panicked /\ curenv[c] # NULL

SysExofork(c, e) == Runs(c) /\ EnvSetupVm(e, curenv[c])

\* Mutant: the page is not freed when it cannot be inserted.
SysPageAllocLeaks(c, t, va) ==
    /\ Runs(c) /\ MayChange(c, t)
    /\ \E p \in page_free_list :
          LET free == page_free_list \ {p}
          IN IF InsertFails(t, va, free)
             THEN page_free_list' = free /\ UNCHANGED <<pp_ref, pgdir, pt, tlb>>
             ELSE PageInsert(c, t, p, va, free, pp_ref)
    /\ UNCHANGED <<env_pgdir, env_parent, curenv, panicked>>

\* Mutant: the page stays on the free list while a page table is allocated.
SysPageAllocUnlinksLate(c, t, va) ==
    /\ Runs(c) /\ MayChange(c, t)
    /\ \E p \in page_free_list : PageInsert(c, t, p, va, page_free_list, pp_ref)
    /\ UNCHANGED <<env_pgdir, env_parent, curenv, panicked>>

SysPageAlloc(c, t, va) ==
    /\ Runs(c) /\ MayChange(c, t)
    /\ \E p \in page_free_list :
          LET free == page_free_list \ {p}
          IN IF InsertFails(t, va, free)
             THEN UNCHANGED <<memVars, tlb>>     \* page_free(pp)
             ELSE PageInsert(c, t, p, va, free, pp_ref)
    /\ UNCHANGED <<env_pgdir, env_parent, curenv, panicked>>

SysPageMap(c, s, srcva, t, dstva) ==
    /\ Runs(c) /\ MayChange(c, s) /\ MayChange(c, t)
    /\ \/ LookupFaults(s, srcva) /\ Panic
       \/ /\ ~LookupFaults(s, srcva)
          /\ pt[s][srcva] # NULL
          /\ ~InsertFails(t, dstva, page_free_list)
          /\ PageInsert(c, t, pt[s][srcva], dstva, page_free_list, pp_ref)
          /\ UNCHANGED <<env_pgdir, env_parent, curenv, panicked>>

\* page_remove.
SysPageUnmap(c, t, va) ==
    /\ Runs(c) /\ MayChange(c, t)
    /\ \/ LookupFaults(t, va) /\ Panic
       \/ LET p == pt[t][va]
          IN /\ ~LookupFaults(t, va)
             /\ p # NULL
             /\ pp_ref' = [pp_ref EXCEPT ![p] = Dec(@)]
             /\ page_free_list' = IF pp_ref'[p] = 0
                                  THEN page_free_list \cup {p} ELSE page_free_list
             /\ pt' = [pt EXCEPT ![t][va] = NULL]
             /\ tlb' = Flushed(c, t, va)
             /\ UNCHANGED <<env_pgdir, pgdir, env_parent, curenv, panicked>>

\* sys_ipc_try_send of a page: the page is looked up before anything is
\* checked. The receiver is blocked in sys_ipc_recv, so it runs nowhere; here
\* any environment that runs nowhere may be receiving.
SysIpcTrySend(c, srcva, t, dstva) ==
    /\ Runs(c)
    /\ \/ LookupFaults(curenv[c], srcva) /\ Panic
       \/ /\ t \in Live /\ \A d \in CPUs : curenv[d] # t
          /\ ~LookupFaults(curenv[c], srcva)
          /\ pt[curenv[c]][srcva] # NULL
          /\ ~InsertFails(t, dstva, page_free_list)
          /\ PageInsert(c, t, pt[curenv[c]][srcva], dstva, page_free_list, pp_ref)
          /\ UNCHANGED <<env_pgdir, env_parent, curenv, panicked>>

\* Mutant: the page tables are forgotten.
RefsFromNoTables(t, p) ==
    Cardinality({va \in VAs : pt[t][va] = p}) + (IF env_pgdir[t] = p THEN 1 ELSE 0)

\* References to p from t's address space: page table entries, page tables
\* and the page directory itself.
RefsFrom(t, p) ==
    Cardinality({va \in VAs : pt[t][va] = p})
      + Cardinality({d \in PDEs : pgdir[t][d] = p})
      + (IF env_pgdir[t] = p THEN 1 ELSE 0)

\* env_free: every reference of t is dropped, one page_decref each; a page is
\* freed when its count passes zero. Only an environment that runs on no
\* other CPU is freed; freeing the current one loads the kernel's page
\* directory first, which empties the TLB.
EnvFree(c, t) ==
    /\ Runs(c) /\ MayChange(c, t)
    /\ \A d \in CPUs \ {c} : curenv[d] # t
    /\ pp_ref' = [p \in Pages |-> (pp_ref[p] - RefsFrom(t, p)) % RefMod]
    /\ page_free_list' = page_free_list \cup
          {p \in Pages : pp_ref[p] > 0 /\ RefsFrom(t, p) >= pp_ref[p]}
    /\ pt' = [pt EXCEPT ![t] = [va \in VAs |-> NULL]]
    /\ pgdir' = [pgdir EXCEPT ![t] = [d \in PDEs |-> NULL]]
    /\ env_pgdir' = [env_pgdir EXCEPT ![t] = NULL]
    \* The slot's next id differs, so its children have no parent any more.
    /\ env_parent' = [e \in Envs |->
          IF e = t \/ env_parent[e] = t THEN NULL ELSE env_parent[e]]
    /\ IF curenv[c] = t
       THEN /\ curenv' = [curenv EXCEPT ![c] = NULL]
            /\ tlb' = [tlb EXCEPT ![c] = {}]
       ELSE UNCHANGED <<curenv, tlb>>
    /\ UNCHANGED panicked

(***************************************************************************)
(* Context switches and user accesses                                       *)
(***************************************************************************)
\* env_run of e on CPU c: lcr3 empties the TLB.
EnvRun(c, e) ==
    /\ ~panicked /\ e \in Live
    /\ \A d \in CPUs : curenv[d] # e
    /\ curenv' = [curenv EXCEPT ![c] = e]
    /\ tlb' = [tlb EXCEPT ![c] = {}]
    /\ UNCHANGED <<memVars, env_parent, panicked>>

\* sched_halt: nothing to run, the kernel's own page directory is loaded.
SchedHalt(c) ==
    /\ Runs(c)
    /\ curenv' = [curenv EXCEPT ![c] = NULL]
    /\ tlb' = [tlb EXCEPT ![c] = {}]
    /\ UNCHANGED <<memVars, env_parent, panicked>>

\* User code on CPU c reads or writes va: the MMU caches the translation.
Access(c, va) ==
    /\ Runs(c) /\ pt[curenv[c]][va] # NULL
    /\ tlb' = [tlb EXCEPT ![c] = @ \cup {<<va, pt[curenv[c]][va]>>}]
    /\ UNCHANGED <<memVars, env_parent, curenv, panicked>>

Next ==
    \E c \in CPUs :
          \/ SchedHalt(c)
          \/ \E e \in Envs : SysExofork(c, e) \/ EnvFree(c, e) \/ EnvRun(c, e)
          \/ \E va \in VAs : Access(c, va)
          \/ \E t \in Envs, va \in VAs :
                \/ SysPageAlloc(c, t, va) \/ SysPageUnmap(c, t, va)
                \/ \E srcva \in VAs : SysIpcTrySend(c, srcva, t, va)
                \/ \E s \in Envs, srcva \in VAs : SysPageMap(c, s, srcva, t, va)

Spec == Init /\ [][Next]_vars

(***************************************************************************)
(* Properties                                                               *)
(***************************************************************************)
TypeOK ==
    /\ page_free_list \subseteq Pages
    /\ pp_ref \in [Pages -> 0 .. RefMod - 1]
    /\ env_pgdir \in [Envs -> Pages \cup {NULL}]
    /\ pgdir \in [Envs -> [PDEs -> Pages \cup {NULL}]]
    /\ pt \in [Envs -> [VAs -> Pages \cup {NULL}]]
    /\ env_parent \in [Envs -> Envs \cup {NULL}]
    /\ curenv \in [CPUs -> Envs \cup {NULL}]
    /\ tlb \in [CPUs -> SUBSET (VAs \X Pages)]
    /\ panicked \in BOOLEAN

Refs(p) ==
    Cardinality({x \in Envs \X VAs : pt[x[1]][x[2]] = p})
      + Cardinality({x \in Envs \X PDEs : pgdir[x[1]][x[2]] = p})
      + Cardinality({e \in Envs : env_pgdir[e] = p})

\* "pp_ref is the count of pointers (usually in page table entries) to this
\* page" (inc/memlayout.h), through every system call, its failures included.
RefsExact == \A p \in Pages : pp_ref[p] = Refs(p)

\* A page is on the free list exactly when nothing refers to it: page_alloc
\* never hands out a page in use, and no page leaks.
FreeExact == \A p \in Pages : p \in page_free_list <=> Refs(p) = 0

\* A page that serves as page table or page directory has that one reference:
\* no environment can ever map it.
TablesPrivate ==
    \A e \in Envs, p \in Pages :
       env_pgdir[e] = p \/ (\E d \in PDEs : pgdir[e][d] = p) => Refs(p) = 1

\* The hypothesis under which the counts mean anything: no page has as many
\* references as would make its 16-bit count wrap. Nothing in the code keeps an
\* environment from mapping one page at that many addresses.
RefsFit == \A p \in Pages : Refs(p) < RefMod

\* What page_alloc, page_insert, page_decref and env_free preserve together.
IInv == TypeOK /\ RefsExact /\ FreeExact /\ TablesPrivate

\* "The TLB must be invalidated if you remove an entry from the page table"
\* (page_remove): a translation a CPU has cached is one its page table holds.
TlbCoherent ==
    \A c \in CPUs : \A x \in tlb[c] :
       curenv[c] # NULL /\ pt[curenv[c]][x[1]] = x[2]

\* "If no page is mapped, the function silently succeeds" (sys_page_unmap): no
\* system call makes the kernel panic.
NoPanic == ~panicked
=============================================================================

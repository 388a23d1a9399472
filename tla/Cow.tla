-------------------------------- MODULE Cow --------------------------------
(***************************************************************************)
(* Copy-on-write fork (lib/fork.c), the page fault handler behind it        *)
(* (lib/pgfault.c, page_fault_handler of kern/trap.c) and spawn             *)
(* (lib/spawn.c): user code that builds an address space out of             *)
(* sys_page_alloc, sys_page_map and sys_page_unmap. One step is one system  *)
(* call, one look at uvpt, or one store; between two of them any other      *)
(* environment may run, and the caller's own stores to its stack may fault. *)
(*                                                                         *)
(* A call that fails where the library panics leaves the environment in the *)
(* kernel monitor: it takes no further step. Environments, page tables and  *)
(* reference counts are in Kernel and Pmap; here a page is free when nobody *)
(* maps it.                                                                 *)
(***************************************************************************)
EXTENDS Integers

CONSTANTS Envs, Root,           \* Root is the first environment
          Pages, NoPage,        \* physical pages
          NVA,                  \* the pages below USTACKTOP, in order
          Vals, Zero,           \* contents of a page
          NoEnv, Private        \* values for "none" and, in AddressSpaces, "not shared"

ASSUME CowAssumption ==
    /\ Root \in Envs /\ NoEnv \notin Envs
    /\ NoPage \notin Pages /\ Private \notin Pages /\ Private # NoPage
    /\ NVA \in Nat /\ NVA >= 4
    /\ Zero \in Vals

UTEMP == 1
PFTEMP == 2
Stack == NVA
VAs == 1 .. NVA
UserVAs == 3 .. NVA
Data == 3 .. NVA - 1

VARIABLES st,       \* [Envs -> "free", "embryo" (ENV_NOT_RUNNABLE) or "run"]
          pt,       \* [Envs -> [VAs -> [page, kind]]], the page table below USTACKTOP
          mem,      \* [Pages -> Vals]
          upcall,   \* [Envs -> BOOLEAN], env_pgfault_upcall is set
          job,      \* [Envs -> where it is in fork or spawn]
          fault     \* [Envs -> where it is in pgfault]

vars == <<st, pt, mem, upcall, job, fault>>

\* The bits of a page table entry that occur together: PTE_W alone "rw", PTE_COW
\* "cow", PTE_SHARE (always with PTE_W) "share", none of them "ro".
Pte(p, kind) == [page |-> p, kind |-> kind]
NoPte == Pte(NoPage, "none")
NoPtes == [va \in VAs |-> NoPte]
NoJob == [pc |-> "user", child |-> NoEnv, va |-> 1, kind |-> "none"]
NoFault == [step |-> "none", va |-> 1]

Job(pc, c, va, kind) == [pc |-> pc, child |-> c, va |-> va, kind |-> kind]

Mapped(p) == \E e \in Envs, va \in VAs : pt[e][va].page = p
Free == {p \in Pages : ~ Mapped(p)}

\* env_create: every page of the program image is writable.
Init ==
    /\ st = [e \in Envs |-> IF e = Root THEN "run" ELSE "free"]
    /\ \E img \in [UserVAs -> Pages] :
          /\ \A va, vb \in UserVAs : img[va] = img[vb] => va = vb
          /\ pt = [e \in Envs |-> [va \in VAs |->
                     IF e = Root /\ va \in UserVAs THEN Pte(img[va], "rw") ELSE NoPte]]
    /\ mem = [p \in Pages |-> Zero]
    /\ upcall = [e \in Envs |-> FALSE]
    /\ job = [e \in Envs |-> NoJob]
    /\ fault = [e \in Envs |-> NoFault]

\* e executes code outside the fault handler; its code is at pc.
At(e, pc) == st[e] = "run" /\ fault[e] = NoFault /\ job[e].pc = pc

\* sys_page_alloc, with a page p that is free, and its contents afterwards.
PageAlloc(p, e, va, kind, v) ==
    /\ p \in Free
    /\ pt' = [pt EXCEPT ![e][va] = Pte(p, kind)]
    /\ mem' = [mem EXCEPT ![p] = v]

\* sys_page_map from the caller's va to vb of f.
PageMap(e, va, f, vb, kind) ==
    pt' = [pt EXCEPT ![f][vb] = Pte(pt[e][va].page, kind)]

(***************************************************************************)
(* Stores, and the page fault handler                                       *)
(***************************************************************************)
\* Library code stores to the stack alone.
MayStore(e, va) ==
    /\ st[e] = "run" /\ fault[e] = NoFault /\ pt[e][va] # NoPte
    /\ va = Stack \/ job[e] = NoJob

Write(e, va, v) ==
    /\ MayStore(e, va) /\ pt[e][va].kind \in {"rw", "share"}
    /\ mem' = [mem EXCEPT ![pt[e][va].page] = v]
    /\ UNCHANGED <<st, pt, upcall, job, fault>>

\* The store traps; page_fault_handler starts the upcall, and pgfault does not
\* check what kind of page it is (lines 31 and 32 are commented out). Without
\* an upcall the environment is destroyed, see Exit.
Fault(e, va) ==
    /\ MayStore(e, va) /\ pt[e][va].kind \in {"ro", "cow"} /\ upcall[e]
    /\ fault' = [fault EXCEPT ![e] = [step |-> "alloc", va |-> va]]
    /\ UNCHANGED <<st, pt, mem, upcall, job>>

InFault(e, step, next) ==
    /\ st[e] = "run" /\ fault[e].step = step
    /\ fault' = [fault EXCEPT ![e] = next]

pgfault_alloc(e, p) ==
    /\ InFault(e, "alloc", [fault[e] EXCEPT !.step = "copy"])
    /\ PageAlloc(p, e, PFTEMP, "rw", Zero)
    /\ UNCHANGED <<st, upcall, job>>

pgfault_copy(e) ==
    /\ InFault(e, "copy", [fault[e] EXCEPT !.step = "map"])
    /\ mem' = [mem EXCEPT ![pt[e][PFTEMP].page] = mem[pt[e][fault[e].va].page]]
    /\ UNCHANGED <<st, pt, upcall, job>>

pgfault_map(e) ==
    /\ InFault(e, "map", [fault[e] EXCEPT !.step = "unmap"])
    /\ PageMap(e, PFTEMP, e, fault[e].va, "rw")
    /\ UNCHANGED <<st, mem, upcall, job>>

\* Mutant: PFTEMP is left mapped.
pgfault_unmapKept(e) ==
    /\ InFault(e, "unmap", NoFault)
    /\ UNCHANGED <<st, pt, mem, upcall, job>>

pgfault_unmap(e) ==
    /\ InFault(e, "unmap", NoFault)
    /\ pt' = [pt EXCEPT ![e][PFTEMP] = NoPte]
    /\ UNCHANGED <<st, mem, upcall, job>>

(***************************************************************************)
(* fork                                                                     *)
(***************************************************************************)
\* sys_exofork: a child that does not run yet.
Exofork(e, c, j) ==
    /\ At(e, "user") /\ st[c] = "free"
    /\ st' = [st EXCEPT ![c] = "embryo"]
    /\ job' = [job EXCEPT ![e] = j]

Fork(e, c) ==
    /\ Exofork(e, c, Job("read", c, 1, "none"))
    /\ upcall' = [upcall EXCEPT ![e] = TRUE]      \* set_pgfault_handler
    /\ UNCHANGED <<pt, mem, fault>>

Step(e, pc, kind) == job' = [job EXCEPT ![e] = Job(pc, @.child, @.va, kind)]
NextVA(e) == job' = [job EXCEPT ![e] = Job("read", @.child, @.va + 1, "none")]

\* The loop of fork, and the entry duppage reads.
duppage_read(e) ==
    /\ At(e, "read") /\ job[e].va <= NVA
    /\ IF pt[e][job[e].va] = NoPte THEN NextVA(e)
       ELSE Step(e, "child", pt[e][job[e].va].kind)
    /\ UNCHANGED <<st, pt, mem, upcall, fault>>

\* Mutant: a page that is copy-on-write already is not marked again.
duppage_childOnce(e) ==
    /\ At(e, "child")
    /\ LET k == job[e].kind
       IN /\ PageMap(e, job[e].va, job[e].child, job[e].va, IF k = "rw" THEN "cow" ELSE k)
          /\ IF k \in {"share", "ro", "cow"} THEN NextVA(e) ELSE Step(e, "self", k)
    /\ UNCHANGED <<st, mem, upcall, fault>>

\* Mutant: PTE_SHARE is not looked at.
duppage_childNoShare(e) ==
    /\ At(e, "child")
    /\ LET k == job[e].kind
       IN /\ PageMap(e, job[e].va, job[e].child, job[e].va, IF k = "ro" THEN k ELSE "cow")
          /\ IF k = "ro" THEN NextVA(e) ELSE Step(e, "self", k)
    /\ UNCHANGED <<st, mem, upcall, fault>>

duppage_child(e) ==
    /\ At(e, "child")
    /\ LET k == job[e].kind
       IN /\ PageMap(e, job[e].va, job[e].child, job[e].va, IF k = "rw" THEN "cow" ELSE k)
          /\ IF k \in {"share", "ro"} THEN NextVA(e) ELSE Step(e, "self", k)
    /\ UNCHANGED <<st, mem, upcall, fault>>

duppage_self(e) ==
    /\ At(e, "self")
    /\ PageMap(e, job[e].va, e, job[e].va, "cow")
    /\ NextVA(e)
    /\ UNCHANGED <<st, mem, upcall, fault>>

\* The child starts.
Start(e) ==
    /\ st' = [st EXCEPT ![job[e].child] = "run"]
    /\ job' = [job EXCEPT ![e] = NoJob]

\* It gets an exception stack of its own, and the upcall.
ForkDone(e) ==
    /\ At(e, "read") /\ job[e].va > NVA
    /\ Start(e)
    /\ upcall' = [upcall EXCEPT ![job[e].child] = upcall[e]]
    /\ UNCHANGED <<pt, mem, fault>>

(***************************************************************************)
(* spawn: init_stack and map_segment build each page at UTEMP and move it   *)
(* to the child.                                                            *)
(***************************************************************************)
Spawn(e, c) ==
    /\ Exofork(e, c, Job("fill", c, Stack, "rw"))
    /\ UNCHANGED <<pt, mem, upcall, fault>>

\* The page is allocated, then filled with arguments or from the file.
spawn_fill(e, p, v) ==
    /\ At(e, "fill")
    /\ PageAlloc(p, e, UTEMP, "rw", v)
    /\ Step(e, "move", job[e].kind)
    /\ UNCHANGED <<st, upcall, fault>>

spawn_move(e) ==
    /\ At(e, "move")
    /\ PageMap(e, UTEMP, job[e].child, job[e].va, job[e].kind)
    /\ Step(e, "moved", job[e].kind)
    /\ UNCHANGED <<st, mem, upcall, fault>>

\* A page past the file's end, that is only cleared.
spawn_blank(e, p) ==
    /\ At(e, "fill") /\ job[e].va # Stack
    /\ PageAlloc(p, job[e].child, job[e].va, job[e].kind, Zero)
    /\ Step(e, "segment", "none")
    /\ UNCHANGED <<st, upcall, fault>>

spawn_moved(e) ==
    /\ At(e, "moved")
    /\ pt' = [pt EXCEPT ![e][UTEMP] = NoPte]
    /\ Step(e, "segment", "none")
    /\ UNCHANGED <<st, mem, upcall, fault>>

\* The next page of the program, read-only or writable, or, after the last one,
\* copy_shared_pages.
spawn_segment(e, va, kind) ==
    /\ At(e, "segment") /\ pt[job[e].child][va] = NoPte
    /\ job' = [job EXCEPT ![e] = Job("fill", @.child, va, kind)]
    /\ UNCHANGED <<st, pt, mem, upcall, fault>>

spawn_loaded(e) ==
    /\ At(e, "segment")
    /\ job' = [job EXCEPT ![e] = Job("share", @.child, 1, "none")]
    /\ UNCHANGED <<st, pt, mem, upcall, fault>>

copy_shared_pages(e) ==
    /\ At(e, "share") /\ job[e].va <= NVA
    /\ IF pt[e][job[e].va].kind = "share"
       THEN PageMap(e, job[e].va, job[e].child, job[e].va, "share") ELSE pt' = pt
    /\ job' = [job EXCEPT ![e].va = @ + 1]
    /\ UNCHANGED <<st, mem, upcall, fault>>

SpawnDone(e) ==
    /\ At(e, "share") /\ job[e].va > NVA
    /\ Start(e)
    /\ UNCHANGED <<pt, mem, upcall, fault>>

\* A call fails. init_stack returns, and the child is left as it is;
\* map_segment returns with its page at UTEMP, and the child is destroyed.
SpawnFail(e) ==
    /\ \E pc \in {"fill", "move"} : At(e, pc)
    /\ IF job[e].va = Stack
       THEN /\ pt' = [pt EXCEPT ![e][UTEMP] = IF job[e].pc = "move" THEN NoPte ELSE @]
            /\ st' = st
       ELSE /\ pt' = [pt EXCEPT ![job[e].child] = NoPtes]
            /\ st' = [st EXCEPT ![job[e].child] = "free"]
    /\ job' = [job EXCEPT ![e] = NoJob]
    /\ UNCHANGED <<mem, upcall, fault>>

(***************************************************************************)
(* What programs do to their address space                                  *)
(***************************************************************************)
Alloc(e, p, va, kind) ==
    /\ At(e, "user")
    /\ PageAlloc(p, e, va, kind, Zero)
    /\ UNCHANGED <<st, upcall, job, fault>>

\* dup of lib/fd.c maps a shared page a second time.
Dup(e, va, vb) ==
    /\ At(e, "user") /\ pt[e][va].kind = "share"
    /\ PageMap(e, va, e, vb, "share")
    /\ UNCHANGED <<st, mem, upcall, job, fault>>

Unmap(e, va) ==
    /\ At(e, "user")
    /\ pt' = [pt EXCEPT ![e][va] = NoPte]
    /\ UNCHANGED <<st, mem, upcall, job, fault>>

\* exit, or destroyed at any time. A child it was making stays as it is.
Exit(e) ==
    /\ st[e] = "run"
    /\ st' = [st EXCEPT ![e] = "free"]
    /\ pt' = [pt EXCEPT ![e] = NoPtes]
    /\ upcall' = [upcall EXCEPT ![e] = FALSE]
    /\ job' = [job EXCEPT ![e] = NoJob]
    /\ fault' = [fault EXCEPT ![e] = NoFault]
    /\ UNCHANGED mem

LibraryStep(e) ==
    \/ pgfault_copy(e) \/ pgfault_map(e) \/ pgfault_unmap(e)
    \/ duppage_read(e) \/ duppage_child(e) \/ duppage_self(e) \/ ForkDone(e)
    \/ spawn_move(e) \/ spawn_moved(e) \/ spawn_loaded(e)
    \/ copy_shared_pages(e) \/ SpawnDone(e) \/ SpawnFail(e)
    \/ \E p \in Pages : pgfault_alloc(e, p) \/ spawn_blank(e, p) \/ \E v \in Vals : spawn_fill(e, p, v)
    \/ \E va \in Data, kind \in {"ro", "rw"} : spawn_segment(e, va, kind)

UserStep(e) ==
    \/ \E va \in UserVAs : Fault(e, va) \/ \E v \in Vals : Write(e, va, v)
    \/ \E c \in Envs : Fork(e, c) \/ Spawn(e, c)
    \/ \E va \in Data : Unmap(e, va) \/ \E vb \in Data : Dup(e, va, vb)
    \/ \E p \in Pages, va \in Data, kind \in {"rw", "share"} : Alloc(e, p, va, kind)
    \/ Exit(e)

Next == \E e \in Envs : LibraryStep(e) \/ UserStep(e)

Spec == Init /\ [][Next]_vars

(***************************************************************************)
(* Properties                                                               *)
(***************************************************************************)
Kinds == {"none", "ro", "rw", "cow", "share"}
Pcs == {"user", "read", "child", "self", "fill", "move", "moved", "segment", "share"}

PteType == {NoPte} \cup [page : Pages, kind : Kinds \ {"none"}]

\* Type correctness; an entry is empty or names a page (sys_page_map never sees
\* an unmapped source).
TypeOK ==
    /\ st \in [Envs -> {"free", "embryo", "run"}]
    /\ pt \in [Envs -> [VAs -> PteType]]
    /\ mem \in [Pages -> Vals]
    /\ upcall \in [Envs -> BOOLEAN]
    /\ job \in [Envs -> [pc : Pcs, child : Envs \cup {NoEnv}, va : 1 .. NVA + 1, kind : Kinds]]
    /\ fault \in [Envs -> [step : {"none", "alloc", "copy", "map", "unmap"}, va : VAs]]

\* The mapping e is about to take away again: of the page it builds or copies
\* (PFTEMP, UTEMP), or the writable one of the page it has just given its child.
Passing(e, va, f, vb) ==
    \/ fault[e].step = "unmap" /\ f = e /\ va = PFTEMP /\ vb = fault[e].va
    \/ job[e].pc = "self" /\ f = job[e].child /\ va = job[e].va /\ vb = job[e].va
    \/ job[e].pc = "moved" /\ f = job[e].child /\ va = UTEMP /\ vb = job[e].va

\* A page that an environment may write as its own is mapped nowhere else, but
\* for the moment in which the library moves it (duppage maps the child first
\* and itself second; pgfault and map_segment unmap the old place last).
WritableIsPrivate ==
    \A e, f \in Envs, va, vb \in VAs :
       /\ pt[e][va].kind = "rw" /\ pt[f][vb].page = pt[e][va].page
       /\ e # f \/ va # vb
       => Passing(e, va, f, vb) \/ Passing(f, vb, e, va)

\* A child being made does not run, and has one parent.
ChildrenOK ==
    \A e \in Envs : job[e].pc # "user" =>
       /\ st[e] = "run" /\ job[e].child \in Envs /\ st[job[e].child] = "embryo"
       /\ \A f \in Envs : f # e /\ job[f].pc # "user" => job[f].child # job[e].child

\* What the library knows at each place about the entry it works on. The kind
\* duppage has read may be out of date, but only for a page that was
\* copy-on-write and has become writable since.
JobInv(e) ==
    /\ job[e].pc = "user" => job[e] = NoJob
    /\ job[e].pc \in {"child", "self"} =>
          job[e].va \in VAs \ {PFTEMP} /\ pt[e][job[e].va] # NoPte
    /\ job[e].pc = "child" =>
          /\ job[e].kind # "none"
          /\ job[e].kind \in {"ro", "share"} => pt[e][job[e].va].kind = job[e].kind
    /\ job[e].pc = "self" => pt[job[e].child][job[e].va].kind = "cow"
    /\ job[e].pc \in {"fill", "move", "moved"} =>
          /\ job[e].va \in UserVAs /\ job[e].kind \in {"ro", "rw"}
          /\ job[e].va = Stack => job[e].kind = "rw"
    /\ job[e].pc = "move" => pt[e][UTEMP].kind = "rw"

JobOK == \A e \in Envs : JobInv(e)

\* PFTEMP is in use exactly while a fault is being handled, and library code
\* faults on its stack alone, which is never read-only or shared.
FaultInv(e) ==
    /\ pt[e][Stack].kind \in {"none", "rw", "cow"}
    /\ IF fault[e].step \in {"none", "alloc"} THEN pt[e][PFTEMP] = NoPte
       ELSE pt[e][PFTEMP].kind = "rw"
    /\ fault[e].step = "none" => fault[e] = NoFault
    /\ fault[e].step # "none" =>
          /\ st[e] = "run" /\ fault[e].va \in UserVAs
          /\ pt[e][fault[e].va] # NoPte
          /\ fault[e].va = Stack \/ job[e].pc = "user"

FaultOK == \A e \in Envs : FaultInv(e)

\* The inductive invariant behind WritableIsPrivate: one page at PFTEMP, one
\* child per fork, and no read of uvpt that has gone stale in a harmful way
\* (duppage reads the entry once and maps twice).
IInv == TypeOK /\ ChildrenOK /\ JobOK /\ FaultOK /\ WritableIsPrivate

View(e) ==
    IF st[e] # "run" THEN NoEnv
    ELSE [va \in UserVAs |->
            [obj |-> IF pt[e][va].kind \in {"none", "share"} THEN pt[e][va].page ELSE Private,
             val |-> IF pt[e][va] = NoPte THEN Zero ELSE mem[pt[e][va].page]]]

AS == INSTANCE AddressSpaces
        WITH Objects <- Pages, NotMapped <- NoPage, NotLive <- NoEnv,
             space <- [e \in Envs |-> View(e)]

\* Environments have separate memory but for the pages they share: fork, spawn
\* and pgfault, interleaved in any way, implement AddressSpaces.
IsAddressSpaces == AS!Spec

\* "Check that the faulting access was (1) a write, and (2) to a copy-on-write
\* page. If not, panic." (lib/fork.c, line 21)
CopiesOnlyCow ==
    [][\A e \in Envs : fault[e].step = "map" /\ fault'[e].step = "unmap" =>
          pt[e][fault[e].va].kind = "cow"]_vars
=============================================================================

---------------------------- MODULE CowForkProofs ---------------------------
(***************************************************************************)
(* Facts about page table entries, what one changed entry does to the       *)
(* invariant of Cow, and the steps of pgfault and fork.                     *)
(***************************************************************************)
EXTENDS Cow, TLAPS

\* The places in an address space are distinct.
LEMMA Places ==
    /\ UTEMP \in VAs /\ PFTEMP \in VAs /\ Stack \in UserVAs /\ UserVAs \subseteq VAs
    /\ Data \subseteq UserVAs /\ Stack \notin Data
    /\ UTEMP # PFTEMP /\ UTEMP \notin UserVAs /\ PFTEMP \notin UserVAs
    /\ VAs \subseteq 1 .. NVA + 1
BY CowAssumption DEF UTEMP, PFTEMP, Stack, VAs, UserVAs, Data

\* An entry is empty, or names a page.
LEMMA PteFacts ==
    ASSUME NEW q \in PteType
    PROVE  /\ q = NoPte <=> q.kind = "none"
           /\ q # NoPte => q.page \in Pages /\ q.page # NoPage /\ q.kind \in Kinds \ {"none"}
           /\ q = NoPte => q.page = NoPage
BY CowAssumption DEF PteType, NoPte, Pte, Kinds

\* A mapping of a page is an entry, and so is none.
LEMMA PteTypes ==
    /\ NoPte \in PteType /\ NoPte.kind = "none" /\ NoPte.page = NoPage
    /\ NoPtes \in [VAs -> PteType] /\ \A va \in VAs : NoPtes[va] = NoPte
    /\ \A p \in Pages, k \in Kinds \ {"none"} :
         Pte(p, k) \in PteType /\ Pte(p, k).kind = k /\ Pte(p, k).page = p
BY DEF PteType, NoPte, Pte, NoPtes

FaultType == [step : {"none", "alloc", "copy", "map", "unmap"}, va : VAs]
JobType == [pc : Pcs, child : Envs \cup {NoEnv}, va : 1 .. NVA + 1, kind : Kinds]

\* A step changes the entry of f for vb to q, and no other.
Sets(f, vb, q) ==
    \A x \in Envs, xa \in VAs :
       pt'[x][xa] = IF x = f /\ xa = vb THEN q ELSE pt[x][xa]

\* A step that does so leaves mappings on their way as they are, or takes them
\* away.
KeepsPassing(f, vb, q) ==
    \A x \in Envs :
       /\ fault[x].step = "unmap" => fault'[x] = fault[x] \/ (x = f /\ vb = PFTEMP)
       /\ job[x].pc = "self" => job'[x] = job[x] \/ (x = f /\ vb = job[x].va /\ q.kind # "rw")
       /\ job[x].pc = "moved" => job'[x] = job[x] \/ (x = f /\ vb = UTEMP)

\* The new entry is private, or on its way.
PrivateOrPassing(f, vb, q) ==
    \A y \in Envs, ya \in VAs :
       /\ y # f \/ ya # vb
       /\ pt[y][ya].page = q.page /\ pt[y][ya] # NoPte
       /\ q.kind = "rw" \/ pt[y][ya].kind = "rw"
       => Passing(y, ya, f, vb)' \/ Passing(f, vb, y, ya)'

\* One entry changes.
LEMMA SetPte ==
    ASSUME TypeOK, NEW f, f \in Envs, NEW vb, vb \in VAs, NEW q, q \in PteType,
           pt' = [pt EXCEPT ![f][vb] = q]
    PROVE  pt' \in [Envs -> [VAs -> PteType]] /\ Sets(f, vb, q)
BY DEF TypeOK, Sets

\* What a fork or a spawn in progress is entitled to, when it does not have its
\* page in two places at this moment, is private or not writable.
LEMMA Settled ==
    ASSUME IInv, NEW e \in Envs, NEW va \in VAs, st[e] = "run",
           \/ fault[e] = NoFault /\ job[e].pc \notin {"self", "moved"}
           \/ fault[e].step = "map" /\ va = PFTEMP
    PROVE  \A y \in Envs, ya \in VAs :
              pt[y][ya].page = pt[e][va].page /\ (y # e \/ ya # va)
                => pt[y][ya].kind # "rw" /\ pt[e][va].kind # "rw"
<1> SUFFICES ASSUME NEW y \in Envs, NEW ya \in VAs,
                    pt[y][ya].page = pt[e][va].page, y # e \/ ya # va,
                    pt[y][ya].kind = "rw" \/ pt[e][va].kind = "rw"
             PROVE  FALSE
  OBVIOUS
<1>1. Passing(e, va, y, ya) \/ Passing(y, ya, e, va)
  BY DEF IInv, WritableIsPrivate
<1>2. ~ Passing(e, va, y, ya)
  BY Places DEF Passing, IInv, JobOK, JobInv, NoFault
<1>3. ~ Passing(y, ya, e, va)
  BY Places DEF Passing, IInv, ChildrenOK, NoFault
<1>4. QED
  BY <1>1, <1>2, <1>3

\* WritableIsPrivate after the change of one entry: mappings on their way stay
\* so, or are the ones that go, and the new entry is private or on its way.
LEMMA OneEntry ==
    ASSUME IInv, NEW f, f \in Envs, NEW vb, vb \in VAs, NEW q, q \in PteType,
           Sets(f, vb, q), KeepsPassing(f, vb, q), PrivateOrPassing(f, vb, q)
    PROVE  WritableIsPrivate'
<1> SUFFICES ASSUME NEW x \in Envs, NEW y \in Envs, NEW xa \in VAs, NEW ya \in VAs,
                    pt'[x][xa].kind = "rw", pt'[y][ya].page = pt'[x][xa].page,
                    x # y \/ xa # ya
             PROVE  Passing(x, xa, y, ya)' \/ Passing(y, ya, x, xa)'
  BY DEF WritableIsPrivate
<1>1. pt[x][xa] \in PteType /\ pt[y][ya] \in PteType
  BY DEF IInv, TypeOK
<1>2. CASE x = f /\ xa = vb
  <2>1. pt[y][ya].page = q.page /\ q.kind = "rw" /\ q.page # NoPage
    BY <1>2, PteFacts DEF Sets
  <2>2. pt[y][ya] # NoPte
    BY <2>1, <1>1, PteFacts
  <2>3. QED
    BY <1>2, <2>1, <2>2 DEF PrivateOrPassing
<1>3. CASE y = f /\ ya = vb
  <2>1. pt[x][xa].page = q.page /\ pt[x][xa].kind = "rw"
    BY <1>3 DEF Sets
  <2>2. pt[x][xa] # NoPte
    BY <2>1, <1>1, PteFacts
  <2>3. QED
    BY <1>3, <2>1, <2>2 DEF PrivateOrPassing
<1>4. CASE ~ (x = f /\ xa = vb) /\ ~ (y = f /\ ya = vb)
  <2>1. Passing(x, xa, y, ya) \/ Passing(y, ya, x, xa)
    BY <1>4 DEF IInv, WritableIsPrivate, Sets
  <2>2. Passing(x, xa, y, ya) => Passing(x, xa, y, ya)'
    BY <1>4 DEF Passing, KeepsPassing, Sets
  <2>3. Passing(y, ya, x, xa) => Passing(y, ya, x, xa)'
    BY <1>4 DEF Passing, KeepsPassing, Sets
  <2>4. QED
    BY <2>1, <2>2, <2>3
<1>5. QED
  BY <1>2, <1>3, <1>4

\* WritableIsPrivate when no entry changes.
LEMMA NoEntry ==
    ASSUME IInv, UNCHANGED pt,
           \A x \in Envs :
              /\ fault[x].step = "unmap" => fault'[x] = fault[x]
              /\ job[x].pc \in {"self", "moved"} => job'[x] = job[x]
    PROVE  WritableIsPrivate'
<1>1. \A x, y \in Envs, xa, ya \in VAs : Passing(x, xa, y, ya) => Passing(x, xa, y, ya)'
  BY DEF Passing
<1>2. QED
  BY <1>1 DEF IInv, WritableIsPrivate

\* WritableIsPrivate when an address space is emptied.
LEMMA Emptied ==
    ASSUME IInv, NEW f \in Envs, pt' = [pt EXCEPT ![f] = NoPtes],
           \A x \in Envs \ {f} :
              /\ fault[x].step = "unmap" => fault'[x] = fault[x]
              /\ job[x].pc \in {"self", "moved"} => job'[x] = job[x]
    PROVE  /\ WritableIsPrivate'
           /\ pt' \in [Envs -> [VAs -> PteType]]
           /\ \A x \in Envs, xa \in VAs : pt'[x][xa] = IF x = f THEN NoPte ELSE pt[x][xa]
<1>1. /\ pt' \in [Envs -> [VAs -> PteType]]
      /\ \A x \in Envs, xa \in VAs : pt'[x][xa] = IF x = f THEN NoPte ELSE pt[x][xa]
  BY PteTypes DEF IInv, TypeOK
<1>2. SUFFICES ASSUME NEW x \in Envs, NEW y \in Envs, NEW xa \in VAs, NEW ya \in VAs,
                      pt'[x][xa].kind = "rw", pt'[y][ya].page = pt'[x][xa].page,
                      x # y \/ xa # ya
               PROVE  Passing(x, xa, y, ya)' \/ Passing(y, ya, x, xa)'
  BY <1>1 DEF WritableIsPrivate
<1>3. x # f /\ pt'[x][xa] = pt[x][xa]
  BY <1>1, <1>2, PteTypes
<1>4. pt[x][xa].page # NoPage
  BY <1>2, <1>3, PteFacts DEF IInv, TypeOK
<1>5. y # f /\ pt'[y][ya] = pt[y][ya]
  BY <1>1, <1>2, <1>3, <1>4, PteTypes
<1>6. Passing(x, xa, y, ya) \/ Passing(y, ya, x, xa)
  BY <1>2, <1>3, <1>5 DEF IInv, WritableIsPrivate
<1>7. QED
  BY <1>3, <1>5, <1>6 DEF Passing

\* What a fork or a spawn knows is not disturbed by others.
LEMMA JobKept ==
    ASSUME JobOK, NEW x \in Envs, job'[x] = job[x],
           job[x].pc # "user" => \A xa \in VAs : pt'[x][xa] = pt[x][xa],
           job[x].pc = "self" => \A xa \in VAs : pt'[job[x].child][xa] = pt[job[x].child][xa]
    PROVE  JobInv(x)'
<1>1. JobInv(x)
  BY DEF JobOK
<1>2. job[x].pc \in {"child", "self"} => pt'[x][job'[x].va] = pt[x][job[x].va]
  BY <1>1 DEF JobInv
<1>3. job[x].pc = "self" => pt'[job'[x].child][job'[x].va] = pt[job[x].child][job[x].va]
  BY <1>1 DEF JobInv
<1>4. job[x].pc = "move" => pt'[x][UTEMP] = pt[x][UTEMP]
  BY Places
<1>5. QED
  BY <1>1, <1>2, <1>3, <1>4 DEF JobInv

\* Nor is what the fault handler knows.
LEMMA FaultKept ==
    ASSUME FaultOK, NEW x \in Envs, fault'[x] = fault[x], st'[x] = st[x],
           \A xa \in VAs : pt'[x][xa] = pt[x][xa],
           fault[x].step = "none" \/ job'[x].pc = job[x].pc \/ job'[x].pc = "user"
    PROVE  FaultInv(x)'
<1>1. FaultInv(x)
  BY DEF FaultOK
<1>2. pt'[x][Stack] = pt[x][Stack] /\ pt'[x][PFTEMP] = pt[x][PFTEMP]
  BY Places
<1>3. fault[x].step # "none" => pt'[x][fault'[x].va] = pt[x][fault[x].va]
  BY <1>1, Places DEF FaultInv
<1>4. QED
  BY <1>1, <1>2, <1>3 DEF FaultInv

\* The image of the first environment: each page at one address.
LEMMA InitIInv == Init => IInv
<1> SUFFICES ASSUME Init PROVE IInv
  OBVIOUS
<1>1. PICK img \in [UserVAs -> Pages] :
          /\ \A va, vb \in UserVAs : img[va] = img[vb] => va = vb
          /\ pt = [e \in Envs |-> [va \in VAs |->
                     IF e = Root /\ va \in UserVAs THEN Pte(img[va], "rw") ELSE NoPte]]
  BY DEF Init
<1>2. \A e \in Envs, va \in VAs :
         pt[e][va] = IF e = Root /\ va \in UserVAs THEN Pte(img[va], "rw") ELSE NoPte
  BY <1>1
<1>3. TypeOK
  <2>1. pt \in [Envs -> [VAs -> PteType]]
    BY <1>1, PteTypes DEF Kinds
  <2>2. /\ st \in [Envs -> {"free", "embryo", "run"}]
        /\ mem \in [Pages -> Vals] /\ upcall \in [Envs -> BOOLEAN]
    BY CowAssumption DEF Init
  <2>3. /\ job \in [Envs -> [pc : Pcs, child : Envs \cup {NoEnv}, va : 1 .. NVA + 1, kind : Kinds]]
        /\ fault \in [Envs -> [step : {"none", "alloc", "copy", "map", "unmap"}, va : VAs]]
    BY CowAssumption DEF Init, NoJob, NoFault, Pcs, Kinds, VAs
  <2>4. QED
    BY <2>1, <2>2, <2>3 DEF TypeOK
<1>4. ChildrenOK /\ JobOK
  BY DEF Init, ChildrenOK, JobOK, JobInv, NoJob
<1>5. FaultOK
  <2>1. \A e \in Envs : pt[e][PFTEMP] = NoPte /\ fault[e] = NoFault
    BY <1>2, Places DEF Init
  <2>2. ASSUME NEW e \in Envs PROVE pt[e][Stack].kind \in {"none", "rw", "cow"}
    <3>1. pt[e][Stack] = IF e = Root THEN Pte(img[Stack], "rw") ELSE NoPte
      BY <1>2, Places
    <3>2. Pte(img[Stack], "rw").kind = "rw" /\ NoPte.kind = "none"
      BY DEF Pte, NoPte
    <3>3. QED
      BY <3>1, <3>2
  <2>3. NoFault.step = "none"
    BY DEF NoFault
  <2>4. QED
    BY <2>1, <2>2, <2>3 DEF FaultOK, FaultInv
<1>6. WritableIsPrivate
  BY <1>1, <1>2, PteTypes, CowAssumption DEF WritableIsPrivate, Kinds
<1>7. QED
  BY <1>3, <1>4, <1>5, <1>6 DEF IInv

\* A store writes a page its environment may write, or starts pgfault.
LEMMA StoreIInv ==
    ASSUME IInv, NEW e \in Envs, NEW va \in UserVAs,
           Fault(e, va) \/ \E v \in Vals : Write(e, va, v)
    PROVE  IInv'
<1>1. CASE \E v \in Vals : Write(e, va, v)
  <2>1. UNCHANGED <<st, pt, upcall, job, fault>>
    BY <1>1 DEF Write
  <2>2. mem' \in [Pages -> Vals]
    BY <1>1 DEF Write, IInv, TypeOK
  <2>3. TypeOK' /\ ChildrenOK'
    BY <2>1, <2>2 DEF IInv, TypeOK, ChildrenOK
  <2>4. JobOK'
    BY <2>1 DEF IInv, JobOK, JobInv
  <2>5. FaultOK'
    BY <2>1 DEF IInv, FaultOK, FaultInv
  <2>6. WritableIsPrivate'
    BY <2>1, NoEntry
  <2>7. QED
    BY <2>3, <2>4, <2>5, <2>6 DEF IInv
<1>2. CASE Fault(e, va)
  <2>1. /\ UNCHANGED <<st, pt, mem, upcall, job>>
        /\ fault' = [fault EXCEPT ![e] = [step |-> "alloc", va |-> va]]
        /\ st[e] = "run" /\ fault[e] = NoFault /\ pt[e][va] # NoPte
        /\ va = Stack \/ job[e] = NoJob
    BY <1>2 DEF Fault, MayStore
  <2>2. TypeOK'
    BY <2>1, Places DEF IInv, TypeOK
  <2>3. ChildrenOK' /\ JobOK'
    <3>1. ChildrenOK'
      BY <2>1 DEF IInv, ChildrenOK
    <3>2. JobOK'
      BY <2>1 DEF IInv, JobOK, JobInv
    <3>3. QED
      BY <3>1, <3>2
  <2>4. FaultOK'
    BY <2>1 DEF IInv, FaultOK, FaultInv, TypeOK, NoFault, NoJob
  <2>5. WritableIsPrivate'
    BY <2>1, NoEntry DEF IInv, TypeOK, NoFault
  <2>6. QED
    BY <2>2, <2>3, <2>4, <2>5 DEF IInv
<1>3. QED
  BY <1>1, <1>2

\* The steps of pgfault: PFTEMP holds the one page that is on its way.
LEMMA pgfaultIInv ==
    ASSUME IInv, NEW e \in Envs,
           \/ \E p \in Pages : pgfault_alloc(e, p)
           \/ pgfault_copy(e) \/ pgfault_map(e) \/ pgfault_unmap(e)
    PROVE  IInv'
<1>va. PICK va : va = fault[e].va
  OBVIOUS
<1>0. /\ TypeOK /\ ChildrenOK /\ JobOK /\ FaultOK
      /\ \A x \in Envs, xa \in VAs : pt[x][xa] \in PteType
  BY DEF IInv, TypeOK
<1>f. \A s \in {"copy", "map", "unmap"} : [fault[e] EXCEPT !.step = s] \in FaultType
  BY <1>0 DEF TypeOK, FaultType
<1>1. CASE \E p \in Pages : pgfault_alloc(e, p)
  <2>1. PICK p \in Pages : pgfault_alloc(e, p)
    BY <1>1
  <2>2. /\ st[e] = "run" /\ fault[e].step = "alloc"
        /\ fault' = [fault EXCEPT ![e] = [fault[e] EXCEPT !.step = "copy"]]
        /\ p \in Free
        /\ pt' = [pt EXCEPT ![e][PFTEMP] = Pte(p, "rw")]
        /\ mem' = [mem EXCEPT ![p] = Zero]
        /\ UNCHANGED <<st, upcall, job>>
    BY <2>1 DEF pgfault_alloc, InFault, PageAlloc
  <2>3. Pte(p, "rw") \in PteType /\ Pte(p, "rw").kind = "rw" /\ Pte(p, "rw").page = p
    BY PteTypes DEF Kinds
  <2>4. pt' \in [Envs -> [VAs -> PteType]] /\ Sets(e, PFTEMP, Pte(p, "rw"))
    BY <1>0, <2>2, <2>3, Places, SetPte
  <2>5. TypeOK'
    <3>1. mem \in [Pages -> Vals] /\ mem' = [mem EXCEPT ![p] = Zero]
      BY <1>0, <2>2 DEF TypeOK
    <3>2. mem' \in [Pages -> Vals]
      BY <3>1, CowAssumption
    <3>3. fault' \in [Envs -> FaultType]
      BY <1>0, <1>f, <2>2 DEF TypeOK, FaultType
    <3>4. QED
      BY <1>0, <2>2, <2>4, <3>2, <3>3 DEF TypeOK, FaultType
  <2>6. ChildrenOK'
    BY <1>0, <2>2 DEF ChildrenOK
  <2>7. JobOK'
    BY <1>0, <2>2, <2>4, Places DEF JobOK, JobInv, ChildrenOK, Sets
  <2>8. FaultOK'
    <3>1. ASSUME NEW x \in Envs, x # e PROVE FaultInv(x)'
      BY <1>0, <2>2, <2>4, <3>1, FaultKept DEF TypeOK, Sets
    <3>2. FaultInv(e) /\ fault'[e].step = "copy" /\ fault'[e].va = fault[e].va
      BY <1>0, <2>2 DEF FaultOK, TypeOK
    <3>3. FaultInv(e)'
      BY <2>2, <2>3, <2>4, <3>2, Places DEF FaultInv, Sets
    <3>4. QED
      BY <3>1, <3>3 DEF FaultOK
  <2>9. PrivateOrPassing(e, PFTEMP, Pte(p, "rw"))
    BY <2>2, <2>3 DEF Free, Mapped, PrivateOrPassing
  <2>10. KeepsPassing(e, PFTEMP, Pte(p, "rw"))
    BY <1>0, <2>2 DEF KeepsPassing, TypeOK
  <2>11. WritableIsPrivate'
    BY <2>3, <2>4, <2>9, <2>10, Places, OneEntry
  <2>12. QED
    BY <2>5, <2>6, <2>7, <2>8, <2>11 DEF IInv
<1>2. CASE pgfault_copy(e)
  <2>1. /\ st[e] = "run" /\ fault[e].step = "copy"
        /\ fault' = [fault EXCEPT ![e] = [fault[e] EXCEPT !.step = "map"]]
        /\ mem' = [mem EXCEPT ![pt[e][PFTEMP].page] = mem[pt[e][va].page]]
        /\ UNCHANGED <<st, pt, upcall, job>>
    BY <1>va, <1>2 DEF pgfault_copy, InFault
  <2>2. pt[e][va].page \in Pages
    BY <1>va, <1>0, <2>1, Places, PteFacts DEF FaultOK, FaultInv
  <2>3. TypeOK'
    BY <1>0, <2>1, <2>2 DEF TypeOK
  <2>4. ChildrenOK' /\ JobOK'
    BY <1>0, <2>1 DEF ChildrenOK, JobOK, JobInv
  <2>5. FaultOK'
    BY <1>0, <2>1 DEF FaultOK, FaultInv, TypeOK
  <2>6. WritableIsPrivate'
    BY <1>0, <2>1, NoEntry DEF TypeOK
  <2>7. QED
    BY <2>3, <2>4, <2>5, <2>6 DEF IInv
<1>3. CASE pgfault_map(e)
  <2> DEFINE q == Pte(pt[e][PFTEMP].page, "rw")
  <2>1. /\ st[e] = "run" /\ fault[e].step = "map"
        /\ fault' = [fault EXCEPT ![e] = [fault[e] EXCEPT !.step = "unmap"]]
        /\ pt' = [pt EXCEPT ![e][va] = q]
        /\ UNCHANGED <<st, mem, upcall, job>>
    BY <1>va, <1>3 DEF pgfault_map, InFault, PageMap
  <2>2. /\ va \in UserVAs /\ va \in VAs /\ va # PFTEMP /\ va # UTEMP
        /\ pt[e][va] # NoPte /\ (va = Stack \/ job[e].pc = "user")
        /\ pt[e][PFTEMP].kind = "rw" /\ pt[e][PFTEMP].page \in Pages
    BY <1>va, <1>0, <2>1, Places, PteFacts DEF FaultOK, FaultInv
  <2>3. q \in PteType /\ q.kind = "rw" /\ q.page = pt[e][PFTEMP].page /\ q # NoPte
    BY <2>2, PteTypes, PteFacts DEF Kinds
  <2> HIDE DEF q
  <2>4. pt' \in [Envs -> [VAs -> PteType]] /\ Sets(e, va, q)
    BY <1>0, <2>1, <2>2, <2>3, SetPte
  <2>5. TypeOK'
    <3>1. fault' \in [Envs -> FaultType]
      BY <1>0, <1>f, <2>1 DEF TypeOK, FaultType
    <3>2. QED
      BY <1>0, <2>1, <2>4, <3>1 DEF TypeOK, FaultType
  <2>6. ChildrenOK'
    BY <1>0, <2>1 DEF ChildrenOK
  <2>7. JobOK'
    <3>1. ASSUME NEW x \in Envs, x # e PROVE JobInv(x)'
      <4>1. job[x].pc = "self" => job[x].child # e /\ job[x].child \in Envs
        BY <1>0, <2>1 DEF ChildrenOK
      <4>2. QED
        BY <1>0, <2>1, <2>4, <3>1, <4>1, JobKept DEF Sets
    <3>2. JobInv(e) /\ (job[e].pc = "self" => job[e].child # e /\ job[e].child \in Envs)
      BY <1>0, <2>1 DEF JobOK, ChildrenOK
    <3>3. JobInv(e)'
      <4>1. /\ job[e].pc = "self" => pt'[job[e].child][job[e].va] = pt[job[e].child][job[e].va]
            /\ pt'[e][UTEMP] = pt[e][UTEMP]
        BY <2>2, <2>4, <3>2, Places DEF JobInv, Sets
      <4>2. job[e].pc \in {"child", "self"} => pt'[e][job[e].va] # NoPte
        BY <2>3, <2>4, <3>2 DEF JobInv, Sets
      <4>3. job[e].pc = "child" /\ job[e].kind \in {"ro", "share"} =>
               pt'[e][job[e].va] = pt[e][job[e].va]
        <5>1. job[e].pc = "child" => pt[e][Stack].kind \notin {"ro", "share"} /\ va = Stack
          BY <1>0, <2>2 DEF FaultOK, FaultInv
        <5>2. QED
          BY <2>4, <3>2, <5>1 DEF JobInv, Sets
      <4>4. QED
        BY <2>1, <3>2, <4>1, <4>2, <4>3 DEF JobInv
    <3>4. QED
      BY <3>1, <3>3 DEF JobOK
  <2>8. FaultOK'
    <3>1. ASSUME NEW x \in Envs, x # e PROVE FaultInv(x)'
      BY <1>0, <2>1, <2>4, <3>1, FaultKept DEF TypeOK, Sets
    <3>2. /\ fault'[e].step = "unmap" /\ fault'[e].va = va
          /\ pt'[e][va] = q /\ pt'[e][PFTEMP] = pt[e][PFTEMP]
          /\ pt'[e][Stack] = pt[e][Stack] \/ pt'[e][Stack] = q
      BY <1>va, <1>0, <2>1, <2>2, <2>4, Places DEF TypeOK, Sets
    <3>3. FaultInv(e)
      BY <1>0 DEF FaultOK
    <3>4. FaultInv(e)'
      BY <2>1, <2>2, <2>3, <3>2, <3>3 DEF FaultInv
    <3>5. QED
      BY <3>1, <3>4 DEF FaultOK
  <2>9. \A y \in Envs, ya \in VAs :
           pt[y][ya].page = q.page /\ (y # e \/ ya # va) => y = e /\ ya = PFTEMP
    BY <2>1, <2>2, <2>3, Places, Settled
  <2>10. Passing(e, PFTEMP, e, va)'
    BY <1>va, <1>0, <2>1 DEF Passing, TypeOK
  <2>11. PrivateOrPassing(e, va, q) /\ KeepsPassing(e, va, q)
    BY <1>0, <2>1, <2>9, <2>10 DEF PrivateOrPassing, KeepsPassing, TypeOK
  <2>12. WritableIsPrivate'
    BY <2>2, <2>3, <2>4, <2>11, OneEntry
  <2>13. QED
    BY <2>5, <2>6, <2>7, <2>8, <2>12 DEF IInv
<1>4. CASE pgfault_unmap(e)
  <2>1. /\ st[e] = "run" /\ fault[e].step = "unmap"
        /\ fault' = [fault EXCEPT ![e] = NoFault]
        /\ pt' = [pt EXCEPT ![e][PFTEMP] = NoPte]
        /\ UNCHANGED <<st, mem, upcall, job>>
    BY <1>4 DEF pgfault_unmap, InFault
  <2>2. pt' \in [Envs -> [VAs -> PteType]] /\ Sets(e, PFTEMP, NoPte)
    BY <1>0, <2>1, Places, PteTypes, SetPte
  <2>3. NoFault \in [step : {"none", "alloc", "copy", "map", "unmap"}, va : VAs]
    BY Places DEF NoFault, UTEMP
  <2>4. TypeOK'
    BY <1>0, <2>1, <2>2, <2>3 DEF TypeOK
  <2>5. ChildrenOK'
    BY <1>0, <2>1 DEF ChildrenOK
  <2>6. JobOK'
    <3>1. ASSUME NEW x \in Envs PROVE JobInv(x)'
      <4>1. JobInv(x)
        BY <1>0 DEF JobOK
      <4>2. job[x].pc = "self" => job[x].child # e /\ job[x].child \in Envs
        BY <1>0, <2>1 DEF ChildrenOK
      <4>3. /\ job[x].pc \in {"child", "self"} => pt'[x][job[x].va] = pt[x][job[x].va]
            /\ job[x].pc = "self" => pt'[job[x].child][job[x].va] = pt[job[x].child][job[x].va]
            /\ pt'[x][UTEMP] = pt[x][UTEMP]
        BY <2>2, <4>1, <4>2, Places DEF JobInv, Sets
      <4>4. QED
        BY <2>1, <4>1, <4>3 DEF JobInv
    <3>2. QED
      BY <3>1 DEF JobOK
  <2>7. FaultOK'
    <3>1. ASSUME NEW x \in Envs, x # e PROVE FaultInv(x)'
      BY <1>0, <2>1, <2>2, <3>1, FaultKept DEF TypeOK, Sets
    <3>2. FaultInv(e) /\ fault'[e] = NoFault /\ NoFault.step = "none"
      BY <1>0, <2>1 DEF FaultOK, TypeOK, NoFault
    <3>3. pt'[e][PFTEMP] = NoPte /\ pt'[e][Stack] = pt[e][Stack]
      BY <2>2, Places DEF Sets
    <3>4. FaultInv(e)'
      BY <3>2, <3>3 DEF FaultInv
    <3>5. QED
      BY <3>1, <3>4 DEF FaultOK
  <2>8. PrivateOrPassing(e, PFTEMP, NoPte) /\ KeepsPassing(e, PFTEMP, NoPte)
    BY <1>0, <2>1, PteFacts, PteTypes DEF PrivateOrPassing, KeepsPassing, TypeOK
  <2>9. WritableIsPrivate'
    BY <2>2, <2>8, Places, PteTypes, OneEntry
  <2>10. QED
    BY <2>4, <2>5, <2>6, <2>7, <2>9 DEF IInv
<1>5. QED
  BY <1>1, <1>2, <1>3, <1>4

\* sys_exofork, by fork or by spawn: the child is new, so nobody else's.
LEMMA ExoforkIInv ==
    ASSUME IInv, NEW e \in Envs, NEW c \in Envs, Fork(e, c) \/ Spawn(e, c)
    PROVE  IInv'
<1>1. PICK j : /\ Exofork(e, c, j) /\ UNCHANGED <<pt, mem, fault>>
               /\ upcall' \in [Envs -> BOOLEAN]
               /\ \/ j = Job("read", c, 1, "none")
                  \/ j = Job("fill", c, Stack, "rw")
  <2>1. CASE Fork(e, c)
    BY <2>1 DEF Fork, IInv, TypeOK
  <2>2. CASE Spawn(e, c)
    BY <2>2 DEF Spawn, IInv, TypeOK
  <2>3. QED
    BY <2>1, <2>2
<1>2. /\ st[e] = "run" /\ fault[e] = NoFault /\ job[e].pc = "user" /\ st[c] = "free"
      /\ st' = [st EXCEPT ![c] = "embryo"] /\ job' = [job EXCEPT ![e] = j]
  BY <1>1 DEF Exofork, At
<1>3. /\ j \in [pc : Pcs, child : Envs \cup {NoEnv}, va : 1 .. NVA + 1, kind : Kinds]
      /\ j.pc \in {"read", "fill"} /\ j.child = c
      /\ j.pc = "fill" => j.va = Stack /\ j.kind = "rw"
  BY <1>1, Places, CowAssumption DEF Job, Pcs, Kinds, Stack
<1>4. TypeOK'
  BY <1>1, <1>2, <1>3 DEF IInv, TypeOK
<1>5. ChildrenOK'
  BY <1>2, <1>3 DEF IInv, TypeOK, ChildrenOK
<1>6. JobOK'
  BY <1>1, <1>2, <1>3, Places DEF IInv, TypeOK, JobOK, JobInv
<1>7. FaultOK'
  BY <1>1, <1>2, <1>3 DEF IInv, TypeOK, FaultOK, FaultInv, NoFault
<1>8. WritableIsPrivate'
  BY <1>1, <1>2, NoEntry DEF IInv, TypeOK
<1>9. QED
  BY <1>4, <1>5, <1>6, <1>7, <1>8 DEF IInv

\* The loop of fork reads the next entry.
LEMMA duppage_readIInv ==
    ASSUME IInv, NEW e \in Envs, duppage_read(e)
    PROVE  IInv'
<1> DEFINE va == job[e].va
<1>0. TypeOK /\ ChildrenOK /\ JobOK /\ FaultOK
  BY DEF IInv
<1>1. /\ st[e] = "run" /\ fault[e] = NoFault /\ job[e].pc = "read" /\ va <= NVA
      /\ UNCHANGED <<st, pt, mem, upcall, fault>>
  BY DEF duppage_read, At
<1>2. va \in VAs /\ va + 1 \in 1 .. NVA + 1 /\ pt[e][va] \in PteType
  BY <1>0, <1>1, CowAssumption DEF TypeOK, VAs
<1>3. PICK j \in [pc : Pcs, child : Envs \cup {NoEnv}, va : 1 .. NVA + 1, kind : Kinds] :
        /\ job' = [job EXCEPT ![e] = j] /\ j.child = job[e].child
        /\ \/ j.pc = "read"
           \/ j.pc = "child" /\ j.va = va /\ pt[e][va] # NoPte /\ j.kind = pt[e][va].kind
  <2>1. CASE pt[e][va] = NoPte
    <3> DEFINE j == Job("read", job[e].child, va + 1, "none")
    <3>1. job' = [job EXCEPT ![e] = j]
      BY <2>1, <1>0 DEF duppage_read, NextVA, TypeOK
    <3>2. /\ j \in [pc : Pcs, child : Envs \cup {NoEnv}, va : 1 .. NVA + 1, kind : Kinds]
          /\ j.pc = "read" /\ j.child = job[e].child
      BY <1>0, <1>2 DEF TypeOK, Job, Pcs, Kinds
    <3>3. QED
      BY <3>1, <3>2
  <2>2. CASE pt[e][va] # NoPte
    <3> DEFINE j == Job("child", job[e].child, va, pt[e][va].kind)
    <3>1. job' = [job EXCEPT ![e] = j]
      BY <2>2, <1>0 DEF duppage_read, Step, TypeOK
    <3>2. pt[e][va].kind \in Kinds
      BY <1>2, <2>2, PteFacts
    <3>3. /\ j \in [pc : Pcs, child : Envs \cup {NoEnv}, va : 1 .. NVA + 1, kind : Kinds]
          /\ j.pc = "child" /\ j.child = job[e].child /\ j.va = va /\ j.kind = pt[e][va].kind
      BY <1>0, <1>2, <3>2 DEF TypeOK, Job, Pcs
    <3>4. QED
      BY <2>2, <3>1, <3>3
  <2>3. QED
    BY <2>1, <2>2
<1>4. TypeOK'
  BY <1>0, <1>1, <1>3 DEF TypeOK
<1>5. ChildrenOK'
  BY <1>0, <1>1, <1>3 DEF TypeOK, ChildrenOK
<1>6. pt[e][va] # NoPte => va # PFTEMP /\ pt[e][va].kind # "none"
  BY <1>0, <1>1, <1>2, PteFacts DEF FaultOK, FaultInv, NoFault
<1>7. JobOK'
  <2>1. job'[e] = j /\ \A x \in Envs \ {e} : job'[x] = job[x]
    BY <1>0, <1>3 DEF TypeOK
  <2>2. ASSUME NEW x \in Envs, x # e PROVE JobInv(x)'
    BY <1>0, <1>1, <2>1, <2>2, JobKept
  <2>3. JobInv(e)'
    BY <1>1, <1>2, <1>3, <1>6, <2>1 DEF JobInv
  <2>4. QED
    BY <2>2, <2>3 DEF JobOK
<1>8. FaultOK'
  BY <1>0, <1>1, <1>3 DEF TypeOK, FaultOK, FaultInv, NoFault
<1>9. WritableIsPrivate'
  BY <1>0, <1>1, <1>3, NoEntry DEF TypeOK
<1>10. QED
  BY <1>4, <1>5, <1>7, <1>8, <1>9 DEF IInv

\* The child gets the entry, then the parent marks its own copy-on-write.
LEMMA duppageIInv ==
    ASSUME IInv, NEW e \in Envs, duppage_child(e) \/ duppage_self(e)
    PROVE  IInv'
<1>j. PICK va, c, k : va = job[e].va /\ c = job[e].child /\ k = job[e].kind
  OBVIOUS
<1>0. /\ TypeOK /\ ChildrenOK /\ JobOK /\ FaultOK
      /\ \A x \in Envs, xa \in VAs : pt[x][xa] \in PteType
  BY DEF IInv, TypeOK
<1>1. /\ st[e] = "run" /\ fault[e] = NoFault /\ job[e].pc \in {"child", "self"}
      /\ UNCHANGED <<st, mem, upcall, fault>>
  BY DEF duppage_child, duppage_self, At
<1>2. /\ c \in Envs /\ st[c] = "embryo" /\ c # e
      /\ \A x \in Envs \ {e} : job[x].pc # "user" => job[x].child # c /\ st[x] = "run"
      /\ \A x \in Envs : job[x].pc # "user" => job[x].child # e
  BY <1>j, <1>0, <1>1 DEF ChildrenOK
<1>3. /\ va \in VAs /\ va # PFTEMP /\ va + 1 \in 1 .. NVA + 1 /\ va \in 1 .. NVA + 1
      /\ pt[e][va] # NoPte /\ pt[e][va].page \in Pages /\ pt[e][va].kind # "none"
  <2>1. va \in VAs /\ va # PFTEMP /\ pt[e][va] # NoPte
    BY <1>j, <1>0, <1>1 DEF JobOK, JobInv
  <2>2. pt[e][va].page \in Pages /\ pt[e][va].kind # "none"
    BY <1>0, <2>1, PteFacts
  <2>3. va + 1 \in 1 .. NVA + 1 /\ va \in 1 .. NVA + 1
    BY <2>1, CowAssumption DEF VAs
  <2>4. QED
    BY <2>1, <2>2, <2>3
<1>4. /\ Job("read", c, va + 1, "none")
            \in [pc : Pcs, child : Envs \cup {NoEnv}, va : 1 .. NVA + 1, kind : Kinds]
      /\ Job("self", c, va, k)
            \in [pc : Pcs, child : Envs \cup {NoEnv}, va : 1 .. NVA + 1, kind : Kinds]
  BY <1>j, <1>0, <1>3 DEF TypeOK, Job, Pcs, Kinds
<1>5. CASE duppage_child(e)
  <2> DEFINE q == Pte(pt[e][va].page, IF k = "rw" THEN "cow" ELSE k)
             j == IF k \in {"share", "ro"} THEN Job("read", c, va + 1, "none")
                  ELSE Job("self", c, va, k)
  <2>1. /\ job[e].pc = "child" /\ pt' = [pt EXCEPT ![c][va] = q]
        /\ job' = [job EXCEPT ![e] = j]
    BY <1>j, <1>5, <1>0 DEF duppage_child, At, PageMap, NextVA, Step, TypeOK
  <2>2. /\ k \in Kinds \ {"none"}
        /\ k \in {"share", "ro"} => pt[e][va].kind = k
    BY <1>j, <1>0, <2>1 DEF JobOK, JobInv, TypeOK
  <2>3. /\ q \in PteType /\ q.kind \in {"ro", "cow", "share"} /\ q.page = pt[e][va].page
        /\ k \notin {"share", "ro"} => q.kind = "cow"
        /\ k \in {"share", "ro"} => q.kind = k
    BY <1>3, <2>2, PteTypes DEF Kinds
  <2>4. /\ j \in [pc : Pcs, child : Envs \cup {NoEnv}, va : 1 .. NVA + 1, kind : Kinds]
        /\ j.pc \in {"read", "self"} /\ j.child = c
        /\ j.pc = "self" <=> k \notin {"share", "ro"}
        /\ j.pc = "self" => j.va = va
    BY <1>4 DEF Job
  <2> HIDE DEF q, j
  <2>5. pt' \in [Envs -> [VAs -> PteType]] /\ Sets(c, va, q)
    BY <1>0, <1>2, <1>3, <2>1, <2>3, SetPte
  <2>6. TypeOK'
    BY <1>j, <1>0, <1>1, <2>1, <2>4, <2>5 DEF TypeOK
  <2>7. ChildrenOK'
    BY <1>j, <1>0, <1>1, <2>1, <2>4 DEF TypeOK, ChildrenOK
  <2>8. JobOK'
    <3>1. ASSUME NEW x \in Envs, x # e PROVE JobInv(x)'
      <4>1. job'[x] = job[x] /\ (job[x].pc # "user" => x # c /\ job[x].child # c)
        BY <1>0, <1>2, <2>1, <3>1 DEF TypeOK
      <4>2. job[x].pc = "self" => job[x].child \in Envs
        BY <1>0 DEF ChildrenOK
      <4>3. QED
        BY <1>0, <2>5, <4>1, <4>2, JobKept DEF Sets
    <3>2. job'[e] = j /\ pt'[e][va] = pt[e][va] /\ pt'[c][va] = q
      BY <1>0, <1>2, <1>3, <2>1, <2>5 DEF TypeOK, Sets
    <3>3. JobInv(e)'
      BY <1>2, <1>3, <2>3, <2>4, <3>2 DEF JobInv
    <3>4. QED
      BY <3>1, <3>3 DEF JobOK
  <2>9. FaultOK'
    <3>1. va = Stack => q.kind = "cow"
      BY <1>j, <1>0, <2>2, <2>3 DEF FaultOK, FaultInv
    <3>2. QED
      <4>1. ASSUME NEW x \in Envs, x # c PROVE FaultInv(x)'
        <5>1. \A xa \in VAs : pt'[x][xa] = pt[x][xa]
          BY <2>5, <4>1 DEF Sets
        <5>2. fault[x].step = "none" \/ job'[x].pc = job[x].pc
          BY <1>0, <1>1, <2>1 DEF TypeOK, NoFault
        <5>3. QED
          BY <1>0, <1>1, <5>1, <5>2, FaultKept
      <4>2. FaultInv(c) /\ fault'[c] = fault[c] /\ st[c] # "run"
        BY <1>0, <1>1, <1>2 DEF FaultOK
      <4>3. pt'[c][PFTEMP] = pt[c][PFTEMP] /\ pt'[c][Stack] \in {pt[c][Stack], q}
        BY <1>2, <1>3, <2>5, Places DEF Sets
      <4>4. pt'[c][Stack].kind \in {"none", "rw", "cow"}
        <5>1. pt'[c][Stack] = IF va = Stack THEN q ELSE pt[c][Stack]
          BY <1>2, <2>5, Places DEF Sets
        <5>2. QED
          BY <3>1, <4>2, <5>1 DEF FaultInv
      <4>5. FaultInv(c)'
        BY <4>2, <4>3, <4>4 DEF FaultInv
      <4>6. QED
        BY <4>1, <4>5 DEF FaultOK
  <2>10. PrivateOrPassing(c, va, q)
    <3>1. \A y \in Envs, ya \in VAs :
             pt[y][ya].page = q.page /\ pt[y][ya].kind = "rw" => y = e /\ ya = va
      BY <1>1, <1>3, <2>1, <2>3, Settled
    <3>2. pt[e][va].kind = "rw" => Passing(e, va, c, va)'
      BY <1>j, <1>0, <1>2, <2>1, <2>2, <2>4 DEF Passing, TypeOK
    <3>3. QED
      BY <2>3, <3>1, <3>2 DEF PrivateOrPassing
  <2>11. KeepsPassing(c, va, q)
    BY <1>j, <1>0, <1>1, <2>1 DEF KeepsPassing, TypeOK
  <2>12. WritableIsPrivate'
    BY <1>2, <1>3, <2>3, <2>5, <2>10, <2>11, OneEntry
  <2>13. QED
    BY <2>6, <2>7, <2>8, <2>9, <2>12 DEF IInv
<1>6. CASE duppage_self(e)
  <2> DEFINE q == Pte(pt[e][va].page, "cow")
             j == Job("read", c, va + 1, "none")
  <2>1. /\ job[e].pc = "self" /\ pt' = [pt EXCEPT ![e][va] = q]
        /\ job' = [job EXCEPT ![e] = j]
    BY <1>j, <1>6, <1>0 DEF duppage_self, At, PageMap, NextVA, TypeOK
  <2>2. q \in PteType /\ q.kind = "cow" /\ q.page = pt[e][va].page /\ q # NoPte
    BY <1>3, PteTypes, PteFacts DEF Kinds
  <2>3. /\ j \in [pc : Pcs, child : Envs \cup {NoEnv}, va : 1 .. NVA + 1, kind : Kinds]
        /\ j.pc = "read" /\ j.child = c
    BY <1>4 DEF Job
  <2> HIDE DEF q, j
  <2>4. pt' \in [Envs -> [VAs -> PteType]] /\ Sets(e, va, q)
    BY <1>0, <1>3, <2>1, <2>2, SetPte
  <2>5. TypeOK'
    BY <1>j, <1>0, <1>1, <2>1, <2>3, <2>4 DEF TypeOK
  <2>6. ChildrenOK'
    BY <1>j, <1>0, <1>1, <2>1, <2>3 DEF TypeOK, ChildrenOK
  <2>7. JobOK'
    <3>1. ASSUME NEW x \in Envs, x # e PROVE JobInv(x)'
      <4>1. job'[x] = job[x] /\ (job[x].pc = "self" => job[x].child \in Envs /\ job[x].child # e)
        BY <1>0, <1>2, <2>1, <3>1 DEF TypeOK, ChildrenOK
      <4>2. QED
        BY <1>0, <2>4, <3>1, <4>1, JobKept DEF Sets
    <3>2. job'[e] = j
      BY <1>0, <2>1 DEF TypeOK
    <3>3. JobInv(e)'
      BY <2>3, <3>2 DEF JobInv
    <3>4. QED
      BY <3>1, <3>3 DEF JobOK
  <2>8. FaultOK'
    <3>1. ASSUME NEW x \in Envs, x # e PROVE FaultInv(x)'
      <4>1. job'[x] = job[x] /\ \A xa \in VAs : pt'[x][xa] = pt[x][xa]
        BY <1>0, <2>1, <2>4, <3>1 DEF TypeOK, Sets
      <4>2. QED
        BY <1>0, <1>1, <4>1, FaultKept
    <3>2. FaultInv(e) /\ fault'[e] = NoFault /\ NoFault.step = "none"
      BY <1>0, <1>1 DEF FaultOK, NoFault
    <3>3. pt'[e][PFTEMP] = pt[e][PFTEMP] /\ pt'[e][Stack] \in {pt[e][Stack], q}
      BY <1>3, <2>4, Places DEF Sets
    <3>4. FaultInv(e)'
      BY <1>1, <2>2, <3>2, <3>3 DEF FaultInv
    <3>5. QED
      BY <3>1, <3>4 DEF FaultOK
  <2>9. PrivateOrPassing(e, va, q)
    <3> SUFFICES ASSUME NEW y \in Envs, NEW ya \in VAs, y # e \/ ya # va,
                        pt[y][ya].page = q.page, pt[y][ya].kind = "rw"
                 PROVE  FALSE
      BY <2>2 DEF PrivateOrPassing
    <3>1. Passing(y, ya, e, va) \/ Passing(e, va, y, ya)
      BY <1>3, <2>2 DEF IInv, WritableIsPrivate
    <3>2. ~ Passing(y, ya, e, va)
      <4>1. job[y].pc \in {"self", "moved"} => job[y].child # e
        BY <1>2
      <4>2. y = e => fault[y].step # "unmap"
        BY <1>1 DEF NoFault
      <4>3. QED
        BY <4>1, <4>2 DEF Passing
    <3>3. ~ Passing(e, va, y, ya)
      <4>1. job[e].pc = "self" => pt[job[e].child][job[e].va].kind = "cow"
        BY <1>0 DEF JobOK, JobInv
      <4>2. fault[e].step # "unmap" /\ job[e].pc # "moved"
        BY <1>1 DEF NoFault
      <4>3. QED
        BY <4>1, <4>2, <2>1 DEF Passing
    <3>4. QED
      BY <3>1, <3>2, <3>3
  <2>10. KeepsPassing(e, va, q)
    BY <1>j, <1>0, <1>1, <2>1, <2>2 DEF KeepsPassing, TypeOK
  <2>11. WritableIsPrivate'
    BY <1>3, <2>2, <2>4, <2>9, <2>10, OneEntry
  <2>12. QED
    BY <2>5, <2>6, <2>7, <2>8, <2>11 DEF IInv
<1>7. QED
  BY <1>5, <1>6
=============================================================================

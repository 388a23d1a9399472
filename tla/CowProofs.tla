---------------------------- MODULE CowProofs -------------------------------
(***************************************************************************)
(* Proof that a page an environment may write as its own is mapped nowhere  *)
(* else, for any number of environments, pages and addresses: the steps of  *)
(* spawn, of mapping, unmapping and exit, and the theorem.                  *)
(***************************************************************************)
EXTENDS CowForkProofs

\* Steps of spawn that change no entry.
LEMMA spawn_loopIInv ==
    ASSUME IInv, NEW e \in Envs,
           \/ \E va \in Data, kind \in {"ro", "rw"} : spawn_segment(e, va, kind)
           \/ spawn_loaded(e)
    PROVE  IInv'
<1>0. TypeOK /\ ChildrenOK /\ JobOK /\ FaultOK
  BY DEF IInv
<1>1. /\ st[e] = "run" /\ fault[e] = NoFault /\ job[e].pc = "segment"
      /\ UNCHANGED <<st, pt, mem, upcall, fault>>
  BY DEF spawn_segment, spawn_loaded, At
<1>2. PICK j : /\ job' = [job EXCEPT ![e] = j] /\ j \in JobType
               /\ j.child = job[e].child /\ j.pc \in {"fill", "share"}
               /\ j.pc = "fill" => j.va \in Data /\ j.kind \in {"ro", "rw"}
  <2>1. CASE spawn_loaded(e)
    <3> DEFINE j == Job("share", job[e].child, 1, "none")
    <3>1. job' = [job EXCEPT ![e] = j]
      BY <2>1, <1>0 DEF spawn_loaded, TypeOK
    <3>2. j \in JobType /\ j.child = job[e].child /\ j.pc = "share"
      BY <1>0, CowAssumption DEF TypeOK, JobType, Job, Pcs, Kinds
    <3>3. QED
      BY <3>1, <3>2
  <2>2. CASE \E va \in Data, kind \in {"ro", "rw"} : spawn_segment(e, va, kind)
    <3>1. PICK va \in Data, kind \in {"ro", "rw"} : spawn_segment(e, va, kind)
      BY <2>2
    <3> DEFINE j == Job("fill", job[e].child, va, kind)
    <3>2. job' = [job EXCEPT ![e] = j]
      BY <3>1, <1>0 DEF spawn_segment, TypeOK
    <3>3. /\ j \in JobType /\ j.child = job[e].child /\ j.pc = "fill"
          /\ j.va = va /\ j.kind = kind
      BY <1>0, Places DEF TypeOK, JobType, Job, Pcs, Kinds
    <3>4. QED
      BY <3>2, <3>3
  <2>3. QED
    BY <2>1, <2>2
<1>3. TypeOK'
  BY <1>0, <1>1, <1>2 DEF TypeOK, JobType
<1>4. ChildrenOK'
  BY <1>0, <1>1, <1>2 DEF TypeOK, ChildrenOK
<1>5. JobOK'
  <2>1. job'[e] = j /\ \A x \in Envs \ {e} : job'[x] = job[x]
    BY <1>0, <1>2 DEF TypeOK
  <2>2. j.pc = "fill" => j.va \in UserVAs /\ j.va # Stack
    BY <1>2, Places
  <2>3. ASSUME NEW x \in Envs, x # e PROVE JobInv(x)'
    BY <1>0, <1>1, <2>1, <2>3 DEF JobOK, JobInv
  <2>4. JobInv(e)'
    BY <1>2, <2>1, <2>2 DEF JobOK, JobInv
  <2>5. QED
    BY <2>3, <2>4 DEF JobOK
<1>6. FaultOK'
  BY <1>0, <1>1, <1>2 DEF TypeOK, FaultOK, FaultInv, NoFault
<1>7. WritableIsPrivate'
  BY <1>0, <1>1, <1>2, NoEntry DEF TypeOK
<1>8. QED
  BY <1>3, <1>4, <1>5, <1>6, <1>7 DEF IInv

\* The child runs, and is nobody's child any more.
LEMMA StartIInv ==
    ASSUME IInv, NEW e \in Envs, ForkDone(e) \/ SpawnDone(e)
    PROVE  IInv'
<1>0. TypeOK /\ ChildrenOK /\ JobOK /\ FaultOK
  BY DEF IInv
<1>c. PICK c : c = job[e].child
  OBVIOUS
<1>1. /\ st[e] = "run" /\ fault[e] = NoFault /\ job[e].pc \in {"read", "share"}
      /\ st' = [st EXCEPT ![c] = "run"] /\ job' = [job EXCEPT ![e] = NoJob]
      /\ UNCHANGED <<pt, mem, fault>>
  BY <1>c DEF ForkDone, SpawnDone, At, Start
<1>2. /\ c \in Envs /\ st[c] = "embryo" /\ c # e
      /\ \A x \in Envs \ {e} : job[x].pc # "user" => job[x].child # c
      /\ job[c].pc = "user"
  BY <1>c, <1>0, <1>1 DEF ChildrenOK
<1>3. upcall' \in [Envs -> BOOLEAN]
  BY <1>0, <1>2 DEF ForkDone, SpawnDone, TypeOK
<1>4. NoJob \in JobType /\ NoJob.pc = "user"
  BY CowAssumption DEF NoJob, JobType, Pcs, Kinds
<1>5. TypeOK'
  BY <1>0, <1>1, <1>2, <1>3, <1>4 DEF TypeOK, JobType
<1>6. ChildrenOK'
  BY <1>0, <1>1, <1>2, <1>4 DEF TypeOK, ChildrenOK
<1>7. JobOK'
  BY <1>0, <1>1, <1>4 DEF TypeOK, JobOK, JobInv
<1>8. FaultOK'
  BY <1>0, <1>1, <1>2, <1>4 DEF TypeOK, FaultOK, FaultInv, NoFault
<1>9. WritableIsPrivate'
  BY <1>0, <1>1, NoEntry DEF TypeOK
<1>10. QED
  BY <1>5, <1>6, <1>7, <1>8, <1>9 DEF IInv

\* A free page is mapped: by init_stack or map_segment at UTEMP, by map_segment
\* in the child, or by the program.
LEMMA AllocIInv ==
    ASSUME IInv, NEW e \in Envs, NEW p \in Pages,
           \/ \E v \in Vals : spawn_fill(e, p, v)
           \/ spawn_blank(e, p)
           \/ \E va \in Data, kind \in {"rw", "share"} : Alloc(e, p, va, kind)
    PROVE  IInv'
<1>0. TypeOK /\ ChildrenOK /\ JobOK /\ FaultOK
  BY DEF IInv
<1>1. /\ st[e] = "run" /\ fault[e] = NoFault /\ job[e].pc \in {"fill", "user"}
      /\ UNCHANGED <<st, upcall, fault>>
  BY DEF spawn_fill, spawn_blank, Alloc, At
<1>2. PICK f, va, k, v, j :
        /\ PageAlloc(p, f, va, k, v) /\ job' = [job EXCEPT ![e] = j]
        /\ k \in Kinds \ {"none"} /\ v \in Vals /\ j \in JobType /\ va \in VAs \ {PFTEMP}
        /\ va = Stack => k = "rw"
        /\ \/ f = e /\ job[e].pc = "user" /\ j = job[e]
           \/ /\ f = e /\ va = UTEMP /\ k = "rw" /\ j.pc = "move" /\ job[e].pc = "fill"
              /\ j.child = job[e].child /\ j.va = job[e].va /\ j.kind = job[e].kind
           \/ /\ f = job[e].child /\ j.pc = "segment" /\ job[e].pc = "fill"
              /\ j.child = job[e].child
  <2>1. CASE \E v \in Vals : spawn_fill(e, p, v)
    <3>1. PICK v \in Vals : spawn_fill(e, p, v)
      BY <2>1
    <3> DEFINE j == Job("move", job[e].child, job[e].va, job[e].kind)
    <3>2. /\ PageAlloc(p, e, UTEMP, "rw", v) /\ job' = [job EXCEPT ![e] = j]
          /\ job[e].pc = "fill"
      BY <3>1, <1>0 DEF spawn_fill, Step, At, TypeOK
    <3>3. /\ j \in JobType /\ j.pc = "move" /\ j.child = job[e].child
          /\ j.va = job[e].va /\ j.kind = job[e].kind
      BY <1>0 DEF TypeOK, JobType, Job, Pcs
    <3>4. QED
      BY <3>2, <3>3, Places DEF Kinds
  <2>2. CASE spawn_blank(e, p)
    <3> DEFINE j == Job("segment", job[e].child, job[e].va, "none")
    <3>1. /\ PageAlloc(p, job[e].child, job[e].va, job[e].kind, Zero)
          /\ job' = [job EXCEPT ![e] = j] /\ job[e].pc = "fill" /\ job[e].va # Stack
      BY <2>2, <1>0 DEF spawn_blank, Step, At, TypeOK
    <3>2. j \in JobType /\ j.pc = "segment" /\ j.child = job[e].child
      BY <1>0 DEF TypeOK, JobType, Job, Pcs, Kinds
    <3>3. job[e].kind \in Kinds \ {"none"} /\ job[e].va \in VAs \ {PFTEMP}
      BY <1>0, <3>1, Places DEF JobOK, JobInv, Kinds
    <3>4. QED
      BY <3>1, <3>2, <3>3, CowAssumption
  <2>3. CASE \E va \in Data, kind \in {"rw", "share"} : Alloc(e, p, va, kind)
    <3>1. PICK va \in Data, kind \in {"rw", "share"} : Alloc(e, p, va, kind)
      BY <2>3
    <3>2. /\ PageAlloc(p, e, va, kind, Zero) /\ job[e].pc = "user"
          /\ job' = job
      BY <3>1 DEF Alloc, At
    <3>3. job[e] \in JobType /\ job' = [job EXCEPT ![e] = job[e]]
      BY <1>0, <3>2 DEF TypeOK, JobType
    <3>4. va \in VAs \ {PFTEMP} /\ va # Stack /\ kind \in Kinds \ {"none"}
      BY Places DEF Kinds
    <3>5. QED
      BY <3>2, <3>3, <3>4, CowAssumption
  <2>4. QED
    BY <2>1, <2>2, <2>3
<1>3. /\ f \in Envs /\ (f # e => st[f] = "embryo")
      /\ \A x \in Envs \ {e} : job[x].pc # "user" => job[x].child # f /\ st[x] = "run"
      /\ \A x \in Envs : job[x].pc # "user" => job[x].child # e
  BY <1>0, <1>1, <1>2 DEF ChildrenOK
<1>q. PICK q : q = Pte(p, k)
  OBVIOUS
<1>4. q \in PteType /\ q.kind = k /\ q.page = p /\ q # NoPte
  BY <1>q, <1>2, PteTypes, PteFacts
<1>5. /\ pt' = [pt EXCEPT ![f][va] = q] /\ mem' = [mem EXCEPT ![p] = v]
      /\ \A y \in Envs, ya \in VAs : pt[y][ya].page # p
  BY <1>q, <1>2 DEF PageAlloc, Free, Mapped
<1>6. pt' \in [Envs -> [VAs -> PteType]] /\ Sets(f, va, q)
  BY <1>0, <1>2, <1>3, <1>4, <1>5, SetPte
<1>7. TypeOK'
  <2>1. mem' \in [Pages -> Vals] /\ job' \in [Envs -> JobType]
    BY <1>0, <1>2, <1>5 DEF TypeOK, JobType
  <2>2. QED
    BY <1>0, <1>1, <1>6, <2>1 DEF TypeOK, JobType
<1>8. job'[e] = j /\ \A x \in Envs \ {e} : job'[x] = job[x]
  BY <1>0, <1>2 DEF TypeOK
<1>9. ChildrenOK'
  BY <1>0, <1>1, <1>2, <1>8 DEF ChildrenOK
<1>10. JobOK'
  <2>1. ASSUME NEW x \in Envs, x # e PROVE JobInv(x)'
    <3>1. \A xa \in VAs : job[x].pc # "user" => pt'[x][xa] = pt[x][xa]
      BY <1>1, <1>3, <1>6, <2>1 DEF Sets
    <3>2. \A xa \in VAs : job[x].pc = "self" => pt'[job[x].child][xa] = pt[job[x].child][xa]
      BY <1>0, <1>3, <1>6, <2>1 DEF Sets, ChildrenOK
    <3>3. QED
      BY <1>0, <1>8, <2>1, <3>1, <3>2, JobKept
  <2>2. JobInv(e)'
    <3>1. JobInv(e)
      BY <1>0 DEF JobOK
    <3>2. j.pc = "move" => pt'[e][UTEMP] = q /\ q.kind = "rw"
      BY <1>2, <1>4, <1>6, <3>1, Places DEF JobInv, NoJob, Sets
    <3>3. j = job[e] \/ j.pc \in {"move", "segment"}
      BY <1>2
    <3>4. j = job[e] => j.pc = "user" \/ j.pc = "move" \/ j.pc = "segment"
      BY <1>2
    <3>5. j.pc = "move" => job[e].pc = "fill" /\ j.va = job[e].va /\ j.kind = job[e].kind
      BY <1>2
    <3>6. QED
      BY <1>8, <3>1, <3>2, <3>3, <3>4, <3>5 DEF JobInv
  <2>3. QED
    BY <2>1, <2>2 DEF JobOK
<1>11. FaultOK'
  <2>1. ASSUME NEW x \in Envs PROVE FaultInv(x)'
    <3>0. FaultInv(x)
      BY <1>0 DEF FaultOK
    <3>1. /\ pt'[x][Stack].kind \in {"none", "rw", "cow"}
          /\ pt'[x][PFTEMP] = pt[x][PFTEMP]
      <4>1. va # PFTEMP /\ (va = Stack => q.kind = "rw")
        BY <1>2, <1>4
      <4>2. pt'[x][PFTEMP] = pt[x][PFTEMP]
        BY <1>6, <4>1, Places DEF Sets
      <4>3. pt'[x][Stack] = IF x = f /\ Stack = va THEN q ELSE pt[x][Stack]
        BY <1>6, Places DEF Sets
      <4>4. QED
        BY <3>0, <4>1, <4>2, <4>3 DEF FaultInv
    <3>2. \A xa \in VAs : pt[x][xa] # NoPte => pt'[x][xa] # NoPte
      BY <1>4, <1>6 DEF Sets
    <3>3. job[x].pc = "user" \/ fault[x].step = "none" \/ job'[x].pc = job[x].pc
      BY <1>1, <1>8 DEF NoFault
    <3>4. job[x].pc = "user" => job'[x].pc = "user"
      BY <1>2, <1>8
    <3>5. QED
      BY <1>1, <3>0, <3>1, <3>2, <3>3, <3>4, Places DEF FaultInv
  <2>2. QED
    BY <2>1 DEF FaultOK
<1>12. PrivateOrPassing(f, va, q) /\ KeepsPassing(f, va, q)
  BY <1>1, <1>2, <1>4, <1>5, <1>8 DEF PrivateOrPassing, KeepsPassing
<1>13. WritableIsPrivate'
  BY <1>2, <1>3, <1>4, <1>6, <1>12, OneEntry
<1>14. QED
  BY <1>7, <1>9, <1>10, <1>11, <1>13 DEF IInv

\* A page is mapped a second time: the one at UTEMP in the child, which is then
\* on its way, or a shared one.
LEMMA MapIInv ==
    ASSUME IInv, NEW e \in Envs,
           \/ spawn_move(e)
           \/ copy_shared_pages(e) /\ pt[e][job[e].va].kind = "share"
           \/ \E va \in Data, vb \in Data : Dup(e, va, vb)
    PROVE  IInv'
<1>0. /\ TypeOK /\ ChildrenOK /\ JobOK /\ FaultOK
      /\ \A x \in Envs, xa \in VAs : pt[x][xa] \in PteType
  BY DEF IInv, TypeOK
<1>1. /\ st[e] = "run" /\ fault[e] = NoFault /\ job[e].pc \in {"move", "share", "user"}
      /\ UNCHANGED <<st, mem, upcall, fault>>
  BY DEF spawn_move, copy_shared_pages, Dup, At
<1>2. PICK f, src, va, k, j :
        /\ pt' = [pt EXCEPT ![f][va] = Pte(pt[e][src].page, k)]
        /\ job' = [job EXCEPT ![e] = j]
        /\ src \in VAs /\ va \in VAs \ {PFTEMP} /\ k \in {"ro", "rw", "share"} /\ j \in JobType
        /\ va = Stack => k = "rw"
        /\ \/ /\ f = job[e].child /\ job[e].pc = "move" /\ src = UTEMP /\ pt[e][src].kind = "rw"
              /\ va \in UserVAs /\ k \in {"ro", "rw"} /\ j.pc = "moved" /\ j.child = f /\ j.va = va
              /\ j.kind = k
           \/ /\ f = job[e].child /\ job[e].pc = "share" /\ pt[e][src].kind = "share"
              /\ k = "share" /\ j.pc = "share" /\ j.child = f
           \/ /\ f = e /\ job[e].pc = "user" /\ pt[e][src].kind = "share"
              /\ k = "share" /\ j = job[e]
  <2>1. CASE spawn_move(e)
    <3> DEFINE j == Job("moved", job[e].child, job[e].va, job[e].kind)
    <3>1. /\ pt' = [pt EXCEPT ![job[e].child][job[e].va] = Pte(pt[e][UTEMP].page, job[e].kind)]
          /\ job' = [job EXCEPT ![e] = j] /\ job[e].pc = "move"
      BY <2>1, <1>0 DEF spawn_move, PageMap, Step, At, TypeOK
    <3>2. /\ j \in JobType /\ j.pc = "moved" /\ j.child = job[e].child
          /\ j.va = job[e].va /\ j.kind = job[e].kind
      BY <1>0 DEF TypeOK, JobType, Job, Pcs
    <3>3. /\ job[e].va \in UserVAs /\ job[e].va \in VAs \ {PFTEMP}
          /\ job[e].kind \in {"ro", "rw"} /\ (job[e].va = Stack => job[e].kind = "rw")
          /\ pt[e][UTEMP].kind = "rw" /\ UTEMP \in VAs
      BY <1>0, <3>1, Places DEF JobOK, JobInv
    <3>4. QED
      BY <3>1, <3>2, <3>3
  <2>2. CASE copy_shared_pages(e) /\ pt[e][job[e].va].kind = "share"
    <3> DEFINE j == [job[e] EXCEPT !.va = @ + 1]
    <3>1. /\ pt' = [pt EXCEPT ![job[e].child][job[e].va] = Pte(pt[e][job[e].va].page, "share")]
          /\ job' = [job EXCEPT ![e].va = @ + 1] /\ job[e].pc = "share" /\ job[e].va <= NVA
      BY <2>2 DEF copy_shared_pages, PageMap, At
    <3>2. job[e].va \in VAs /\ job[e].va + 1 \in 1 .. NVA + 1
      BY <1>0, <3>1, CowAssumption DEF TypeOK, VAs
    <3>3. job' = [job EXCEPT ![e] = j]
      BY <1>0, <3>1 DEF TypeOK
    <3>4. j \in JobType /\ j.pc = "share" /\ j.child = job[e].child
      BY <1>0, <3>1, <3>2 DEF TypeOK, JobType
    <3>5. job[e].va # PFTEMP /\ job[e].va # Stack
      BY <1>0, <1>1, <2>2, PteTypes DEF FaultOK, FaultInv, NoFault
    <3>6. QED
      BY <2>2, <3>1, <3>2, <3>3, <3>4, <3>5
  <2>3. CASE \E va \in Data, vb \in Data : Dup(e, va, vb)
    <3>1. PICK va \in Data, vb \in Data : Dup(e, va, vb)
      BY <2>3
    <3>2. /\ pt' = [pt EXCEPT ![e][vb] = Pte(pt[e][va].page, "share")]
          /\ job' = job /\ job[e].pc = "user" /\ pt[e][va].kind = "share"
      BY <3>1 DEF Dup, PageMap, At
    <3>3. job[e] \in JobType /\ job' = [job EXCEPT ![e] = job[e]]
      BY <1>0, <3>2 DEF TypeOK, JobType
    <3>4. va \in VAs /\ vb \in VAs \ {PFTEMP} /\ vb # Stack
      BY Places
    <3>5. QED
      BY <3>2, <3>3, <3>4
  <2>4. QED
    BY <2>1, <2>2, <2>3
<1>3. /\ f \in Envs /\ (f # e => st[f] = "embryo") /\ (job[e].pc # "user" => f # e)
      /\ \A x \in Envs \ {e} : job[x].pc # "user" => job[x].child # f /\ st[x] = "run"
      /\ \A x \in Envs : job[x].pc # "user" => job[x].child # e
  BY <1>0, <1>1, <1>2 DEF ChildrenOK
<1>q. PICK q : q = Pte(pt[e][src].page, k)
  OBVIOUS
<1>4. /\ pt[e][src].page \in Pages
      /\ q \in PteType /\ q.kind = k /\ q.page = pt[e][src].page /\ q # NoPte
  BY <1>q, <1>0, <1>2, PteTypes, PteFacts DEF Kinds
<1>5. pt' = [pt EXCEPT ![f][va] = q]
  BY <1>q, <1>2
<1>6. pt' \in [Envs -> [VAs -> PteType]] /\ Sets(f, va, q)
  BY <1>0, <1>2, <1>3, <1>4, <1>5, SetPte
<1>7. TypeOK'
  <2>1. job' \in [Envs -> JobType]
    BY <1>0, <1>2 DEF TypeOK, JobType
  <2>2. QED
    BY <1>0, <1>1, <1>6, <2>1 DEF TypeOK, JobType
<1>8. job'[e] = j /\ \A x \in Envs \ {e} : job'[x] = job[x]
  BY <1>0, <1>2 DEF TypeOK
<1>9. ChildrenOK'
  BY <1>0, <1>1, <1>2, <1>8 DEF ChildrenOK
<1>10. JobOK'
  <2>1. ASSUME NEW x \in Envs, x # e PROVE JobInv(x)'
    <3>1. job[x].pc # "user" => \A xa \in VAs : pt'[x][xa] = pt[x][xa]
      BY <1>1, <1>3, <1>6, <2>1 DEF Sets
    <3>2. job[x].pc = "self" => \A xa \in VAs : pt'[job[x].child][xa] = pt[job[x].child][xa]
      BY <1>0, <1>3, <1>6, <2>1 DEF Sets, ChildrenOK
    <3>3. QED
      BY <1>0, <1>8, <2>1, <3>1, <3>2, JobKept
  <2>2. JobInv(e)'
    <3>1. JobInv(e)
      BY <1>0 DEF JobOK
    <3>2. QED
      BY <1>2, <1>8, <3>1 DEF JobInv
  <2>3. QED
    BY <2>1, <2>2 DEF JobOK
<1>11. FaultOK'
  <2>1. ASSUME NEW x \in Envs PROVE FaultInv(x)'
    <3>1. /\ pt'[x][Stack].kind \in {"none", "rw", "cow"}
          /\ pt'[x][PFTEMP] = pt[x][PFTEMP]
      BY <1>0, <1>2, <1>4, <1>6, Places DEF Sets, FaultOK, FaultInv
    <3>2. \A xa \in VAs : pt[x][xa] # NoPte => pt'[x][xa] # NoPte
      BY <1>4, <1>6 DEF Sets
    <3>3. job[x].pc = "user" => job'[x].pc = "user"
      BY <1>2, <1>8
    <3>4. QED
      BY <1>0, <1>1, <3>1, <3>2, <3>3, Places DEF FaultOK, FaultInv
  <2>2. QED
    BY <2>1 DEF FaultOK
<1>12. PrivateOrPassing(f, va, q)
  <2>1. \A y \in Envs, ya \in VAs :
           /\ pt[y][ya].page = q.page
           /\ pt[e][src].kind = "rw" \/ pt[y][ya].kind = "rw"
           => y = e /\ ya = src
    BY <1>1, <1>2, <1>4, Settled
  <2>2. pt[e][src].kind = "rw" => Passing(e, src, f, va)'
    BY <1>2, <1>8 DEF Passing
  <2>3. pt[e][src].kind # "rw" => q.kind # "rw"
    BY <1>2, <1>4
  <2>4. QED
    BY <2>1, <2>2, <2>3 DEF PrivateOrPassing
<1>13. KeepsPassing(f, va, q)
  BY <1>1, <1>2, <1>8 DEF KeepsPassing
<1>14. WritableIsPrivate'
  BY <1>2, <1>3, <1>4, <1>6, <1>12, <1>13, OneEntry
<1>15. QED
  BY <1>7, <1>9, <1>10, <1>11, <1>14 DEF IInv

\* An entry goes: the page that map_segment has moved, or that init_stack gives
\* up, or one the program unmaps. Or none, in a spawn that fails with nothing
\* at UTEMP to unmap or that finds nothing to share.
LEMMA UnmapIInv ==
    ASSUME IInv, NEW e \in Envs,
           \/ spawn_moved(e)
           \/ SpawnFail(e) /\ job[e].va = Stack
           \/ copy_shared_pages(e) /\ pt[e][job[e].va].kind # "share"
           \/ \E va \in Data : Unmap(e, va)
    PROVE  IInv'
<1>0. /\ TypeOK /\ ChildrenOK /\ JobOK /\ FaultOK
      /\ \A x \in Envs, xa \in VAs : pt[x][xa] \in PteType
  BY DEF IInv, TypeOK
<1>1. /\ st[e] = "run" /\ fault[e] = NoFault
      /\ job[e].pc \in {"fill", "move", "moved", "share", "user"}
      /\ UNCHANGED <<st, mem, upcall, fault>>
  BY DEF spawn_moved, SpawnFail, copy_shared_pages, Unmap, At
<1>j. NoJob \in JobType /\ NoJob.pc = "user"
  BY CowAssumption DEF NoJob, JobType, Pcs, Kinds
<1>2. PICK va, j :
        /\ pt' = pt \/ pt' = [pt EXCEPT ![e][va] = NoPte]
        /\ job' = [job EXCEPT ![e] = j]
        /\ va \in VAs \ {PFTEMP, Stack} /\ j \in JobType
        /\ j = NoJob \/ (j.pc \in {"segment", "share"} /\ j.child = job[e].child /\ job[e].pc # "user")
        /\ job[e].pc = "moved" => va = UTEMP /\ pt' = [pt EXCEPT ![e][va] = NoPte]
  <2>0. UTEMP \in VAs \ {PFTEMP, Stack}
    BY Places
  <2>1. CASE spawn_moved(e)
    <3> DEFINE j == Job("segment", job[e].child, job[e].va, "none")
    <3>1. /\ pt' = [pt EXCEPT ![e][UTEMP] = NoPte] /\ job[e].pc = "moved"
          /\ job' = [job EXCEPT ![e] = j]
      BY <2>1, <1>0 DEF spawn_moved, Step, At, TypeOK
    <3>2. j \in JobType /\ j.pc = "segment" /\ j.child = job[e].child
      BY <1>0 DEF TypeOK, JobType, Job, Pcs, Kinds
    <3>3. QED
      BY <2>0, <3>1, <3>2
  <2>2. CASE SpawnFail(e) /\ job[e].va = Stack
    <3>1. /\ job[e].pc \in {"fill", "move"} /\ job' = [job EXCEPT ![e] = NoJob]
          /\ pt' = [pt EXCEPT ![e][UTEMP] = IF job[e].pc = "move" THEN NoPte ELSE @]
      BY <2>2 DEF SpawnFail, At
    <3>2. pt' = pt \/ pt' = [pt EXCEPT ![e][UTEMP] = NoPte]
      BY <1>0, <3>1, Places DEF TypeOK
    <3>3. QED
      BY <1>j, <2>0, <3>1, <3>2
  <2>3. CASE copy_shared_pages(e) /\ pt[e][job[e].va].kind # "share"
    <3> DEFINE j == [job[e] EXCEPT !.va = @ + 1]
    <3>1. /\ pt' = pt /\ job' = [job EXCEPT ![e].va = @ + 1]
          /\ job[e].pc = "share" /\ job[e].va <= NVA
      BY <2>3 DEF copy_shared_pages, At
    <3>2. job[e].va + 1 \in 1 .. NVA + 1
      BY <1>0, <3>1, CowAssumption DEF TypeOK
    <3>3. job' = [job EXCEPT ![e] = j]
      BY <1>0, <3>1 DEF TypeOK
    <3>4. j \in JobType /\ j.pc = "share" /\ j.child = job[e].child
      BY <1>0, <3>1, <3>2 DEF TypeOK, JobType
    <3>5. QED
      BY <2>0, <3>1, <3>3, <3>4
  <2>4. CASE \E va \in Data : Unmap(e, va)
    <3>1. PICK va \in Data : Unmap(e, va)
      BY <2>4
    <3>2. /\ pt' = [pt EXCEPT ![e][va] = NoPte] /\ job' = job /\ job[e].pc = "user"
          /\ job[e] = NoJob
      BY <3>1, <1>0 DEF Unmap, At, JobOK, JobInv
    <3>3. job' = [job EXCEPT ![e] = NoJob] /\ va \in VAs \ {PFTEMP, Stack}
      BY <1>0, <3>2, Places DEF TypeOK
    <3>4. QED
      BY <1>j, <3>2, <3>3
  <2>5. QED
    BY <2>1, <2>2, <2>3, <2>4
<1>3. /\ \A x \in Envs : job[x].pc # "user" => job[x].child # e
      /\ \A x \in Envs \ {e} : job[x].pc # "user" => job[x].child # job[e].child \/ job[e].pc = "user"
  BY <1>0, <1>1 DEF ChildrenOK
<1>4. /\ pt' \in [Envs -> [VAs -> PteType]]
      /\ \A x \in Envs, xa \in VAs :
           pt'[x][xa] = pt[x][xa] \/ (x = e /\ xa = va /\ pt'[x][xa] = NoPte)
  <2>1. CASE pt' = pt
    BY <1>0, <2>1 DEF TypeOK
  <2>2. CASE pt' = [pt EXCEPT ![e][va] = NoPte]
    <3>1. pt' \in [Envs -> [VAs -> PteType]] /\ Sets(e, va, NoPte)
      BY <1>0, <1>2, <2>2, PteTypes, SetPte
    <3>2. QED
      BY <3>1 DEF Sets
  <2>3. QED
    BY <1>2, <2>1, <2>2
<1>7. TypeOK'
  <2>1. job' \in [Envs -> JobType]
    BY <1>0, <1>2 DEF TypeOK, JobType
  <2>2. QED
    BY <1>0, <1>1, <1>4, <2>1 DEF TypeOK, JobType
<1>8. job'[e] = j /\ \A x \in Envs \ {e} : job'[x] = job[x]
  BY <1>0, <1>2 DEF TypeOK
<1>9. ChildrenOK'
  BY <1>0, <1>1, <1>2, <1>8, <1>j DEF ChildrenOK
<1>10. JobOK'
  <2>1. ASSUME NEW x \in Envs, x # e PROVE JobInv(x)'
    BY <1>0, <1>3, <1>4, <1>8, <2>1, JobKept DEF ChildrenOK
  <2>2. JobInv(e)'
    BY <1>2, <1>8, <1>j DEF JobInv
  <2>3. QED
    BY <2>1, <2>2 DEF JobOK
<1>11. FaultOK'
  <2>1. ASSUME NEW x \in Envs PROVE FaultInv(x)'
    <3>1. pt'[x][Stack] = pt[x][Stack] /\ pt'[x][PFTEMP] = pt[x][PFTEMP]
      BY <1>2, <1>4, Places
    <3>2. x # e => (\A xa \in VAs : pt'[x][xa] = pt[x][xa]) /\ job'[x] = job[x]
      BY <1>4, <1>8
    <3>3. x = e => fault[x].step = "none"
      BY <1>1 DEF NoFault
    <3>4. QED
      <4>1. CASE x = e
        <5>1. FaultInv(x) /\ fault'[x] = fault[x] /\ st'[x] = st[x]
          BY <1>0, <1>1 DEF FaultOK
        <5>2. QED
          BY <3>1, <3>3, <4>1, <5>1 DEF FaultInv
      <4>2. CASE x # e
        BY <1>0, <1>1, <3>2, <4>2, FaultKept
      <4>3. QED
        BY <4>1, <4>2
  <2>2. QED
    BY <2>1 DEF FaultOK
<1>12. WritableIsPrivate'
  <2>1. CASE pt' = pt /\ job[e].pc # "moved"
    BY <1>1, <1>8, <2>1, NoEntry
  <2>2. CASE pt' = [pt EXCEPT ![e][va] = NoPte]
    <3>1. Sets(e, va, NoPte)
      BY <1>0, <1>2, <2>2, PteTypes, SetPte
    <3>2. PrivateOrPassing(e, va, NoPte)
      BY <1>0, PteFacts, PteTypes DEF PrivateOrPassing
    <3>3. KeepsPassing(e, va, NoPte)
      BY <1>1, <1>2, <1>8 DEF KeepsPassing
    <3>4. QED
      BY <1>2, <3>1, <3>2, <3>3, PteTypes, OneEntry
  <2>3. QED
    BY <1>2, <2>1, <2>2
<1>13. QED
  BY <1>7, <1>9, <1>10, <1>11, <1>12 DEF IInv

\* An address space goes: of a child that cannot be loaded, or at the end of an
\* environment, with whatever fork, spawn or fault it was in.
LEMMA ExitIInv ==
    ASSUME IInv, NEW e \in Envs,
           (SpawnFail(e) /\ job[e].va # Stack) \/ Exit(e)
    PROVE  IInv'
<1>0. TypeOK /\ ChildrenOK /\ JobOK /\ FaultOK
  BY DEF IInv
<1>j. NoJob \in JobType /\ NoJob.pc = "user"
  BY CowAssumption DEF NoJob, JobType, Pcs, Kinds
<1>n. NoFault \in FaultType /\ NoFault.step = "none"
  BY Places DEF NoFault, FaultType, UTEMP
<1>1. PICK f :
        /\ pt' = [pt EXCEPT ![f] = NoPtes] /\ st' = [st EXCEPT ![f] = "free"]
        /\ job' = [job EXCEPT ![e] = NoJob] /\ UNCHANGED mem
        /\ upcall' \in [Envs -> BOOLEAN] /\ st[e] = "run"
        /\ \/ f = e /\ fault' = [fault EXCEPT ![e] = NoFault]
           \/ f = job[e].child /\ job[e].pc \in {"fill", "move"} /\ UNCHANGED fault
  <2>1. CASE SpawnFail(e) /\ job[e].va # Stack
    BY <1>0, <2>1 DEF SpawnFail, At, TypeOK
  <2>2. CASE Exit(e)
    BY <1>0, <2>2 DEF Exit, TypeOK
  <2>3. QED
    BY <2>1, <2>2
<1>2. /\ f \in Envs /\ (f # e => st[f] = "embryo")
      /\ f = e => fault' = [fault EXCEPT ![e] = NoFault]
      /\ f # e => UNCHANGED fault /\ job[e].pc \in {"fill", "move"}
      /\ \A x \in Envs \ {e} : job[x].pc # "user" => job[x].child # f /\ st[x] = "run" /\ x # f
  BY <1>0, <1>1 DEF ChildrenOK
<1>3. /\ job'[e] = NoJob /\ \A x \in Envs \ {e} : job'[x] = job[x]
      /\ st'[f] = "free" /\ \A x \in Envs \ {f} : st'[x] = st[x]
  BY <1>0, <1>1, <1>2 DEF TypeOK
<1>4. /\ fault' \in [Envs -> FaultType]
      /\ \A x \in Envs : fault'[x] = fault[x] \/ (x = e /\ f = e /\ fault'[x] = NoFault)
      /\ f = e => fault'[e] = NoFault
  BY <1>0, <1>2, <1>n DEF TypeOK, FaultType
<1>5. fault[f].step # "none" => f = e
  BY <1>0, <1>2 DEF FaultOK, FaultInv
<1>6. /\ WritableIsPrivate' /\ pt' \in [Envs -> [VAs -> PteType]]
      /\ \A x \in Envs, xa \in VAs : pt'[x][xa] = IF x = f THEN NoPte ELSE pt[x][xa]
  <2>1. \A x \in Envs \ {f} :
           /\ fault[x].step = "unmap" => fault'[x] = fault[x]
           /\ job[x].pc \in {"self", "moved"} => job'[x] = job[x]
    BY <1>2, <1>3, <1>4
  <2>2. QED
    BY <1>1, <1>2, <2>1, Emptied
<1>7. TypeOK'
  BY <1>0, <1>1, <1>j, <1>4, <1>6 DEF TypeOK, JobType, FaultType
<1>8. ChildrenOK'
  BY <1>0, <1>2, <1>3, <1>j DEF ChildrenOK
<1>9. JobOK'
  <2>1. ASSUME NEW x \in Envs, x # e PROVE JobInv(x)'
    <3>1. job'[x] = job[x]
      BY <1>3, <2>1
    <3>2. job[x].pc # "user" => x # f /\ job[x].child # f /\ job[x].child \in Envs
      BY <1>0, <1>2, <2>1 DEF ChildrenOK
    <3>3. QED
      BY <1>0, <1>6, <3>1, <3>2, JobKept
  <2>2. JobInv(e)'
    BY <1>3, <1>j DEF JobInv
  <2>3. QED
    BY <2>1, <2>2 DEF JobOK
<1>10. FaultOK'
  <2>1. ASSUME NEW x \in Envs PROVE FaultInv(x)'
    <3>1. CASE x = f
      <4>1. fault'[x] = NoFault
        BY <1>0, <1>4, <1>5, <3>1 DEF FaultOK, FaultInv
      <4>2. QED
        BY <1>6, <1>n, <3>1, <4>1, Places, PteTypes DEF FaultInv
    <3>2. CASE x # f
      <4>1. fault'[x] = fault[x] /\ st'[x] = st[x] /\ (job'[x].pc = job[x].pc \/ job'[x].pc = "user")
        BY <1>3, <1>4, <1>j, <3>2
      <4>2. \A xa \in VAs : pt'[x][xa] = pt[x][xa]
        BY <1>6, <3>2
      <4>3. QED
        BY <1>0, <4>1, <4>2, FaultKept
    <3>3. QED
      BY <3>1, <3>2
  <2>2. QED
    BY <2>1 DEF FaultOK
<1>11. QED
  BY <1>6, <1>7, <1>8, <1>9, <1>10 DEF IInv

\* No step of the library or of a program leads out of the invariant.
LEMMA NextIInv == IInv /\ [Next]_vars => IInv'
<1> SUFFICES ASSUME IInv, [Next]_vars PROVE IInv'
  OBVIOUS
<1>1. CASE Next
  <2>1. PICK e \in Envs : LibraryStep(e) \/ UserStep(e)
    BY <1>1 DEF Next
  <2>2. CASE LibraryStep(e)
    BY <2>2, pgfaultIInv, duppage_readIInv, duppageIInv, StartIInv, MapIInv, UnmapIInv,
       spawn_loopIInv, ExitIInv, AllocIInv
    DEF LibraryStep
  <2>3. CASE UserStep(e)
    BY <2>3, StoreIInv, ExoforkIInv, AllocIInv, MapIInv, UnmapIInv, ExitIInv
    DEF UserStep
  <2>4. QED
    BY <2>1, <2>2, <2>3
<1>2. CASE UNCHANGED vars
  <2>1. UNCHANGED <<st, pt, mem, upcall, job, fault>>
    BY <1>2 DEF vars
  <2>2. TypeOK' /\ ChildrenOK'
    BY <2>1 DEF IInv, TypeOK, ChildrenOK
  <2>3. JobOK'
    BY <2>1 DEF IInv, JobOK, JobInv
  <2>4. FaultOK'
    BY <2>1 DEF IInv, FaultOK, FaultInv
  <2>5. QED
    BY <2>1, <2>2, <2>3, <2>4, NoEntry DEF IInv
<1>3. QED
  BY <1>1, <1>2

\* The inductive invariant of fork, spawn and pgfault holds for any number of
\* environments, pages and addresses.
THEOREM CowInvariance == Spec => []IInv
<1>1. Init => IInv
  BY InitIInv
<1>2. IInv /\ [Next]_vars => IInv'
  BY NextIInv
<1>3. QED
  BY <1>1, <1>2, PTL DEF Spec

\* However forks, spawns, faults and exits interleave, a page that an
\* environment may write as its own is mapped nowhere else, except while the
\* library is moving it (duppage, pgfault, map_segment).
THEOREM NoAliasedWrites == Spec => []WritableIsPrivate
<1>1. IInv => WritableIsPrivate
  BY DEF IInv
<1>2. QED
  BY <1>1, CowInvariance, PTL
=============================================================================

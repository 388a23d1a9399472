----------------------------- MODULE PmapProofs -----------------------------
(***************************************************************************)
(* Proofs about physical pages, page tables and TLBs (module Pmap).         *)
(*                                                                         *)
(* The references to a page are counted in three places: page table        *)
(* entries, page directory entries and page directories. A system call     *)
(* changes one entry of each at most, so the counts move by one (CountStep *)
(* and the lemmas after it); env_free drops one environment's share of all  *)
(* three (ShareOf).                                                         *)
(***************************************************************************)
EXTENDS Pmap, FiniteSetTheorems, TLAPS

\* The places that refer to page p.
PtAt(p) == {x \in Envs \X VAs : pt[x[1]][x[2]] = p}
PdAt(p) == {x \in Envs \X PDEs : pgdir[x[1]][x[2]] = p}
DirAt(p) == {e \in Envs : env_pgdir[e] = p}

\* The places are finitely many, so their numbers are numbers.
CountsOK ==
    \A p \in Pages :
       /\ IsFiniteSet(PtAt(p)) /\ Cardinality(PtAt(p)) \in Nat
       /\ IsFiniteSet(PdAt(p)) /\ Cardinality(PdAt(p)) \in Nat
       /\ IsFiniteSet(DirAt(p)) /\ Cardinality(DirAt(p)) \in Nat
       /\ Refs(p) = Cardinality(PtAt(p)) + Cardinality(PdAt(p))
                      + Cardinality(DirAt(p))

\* In every state: the references to a page are counted by three cardinals.
LEMMA Counts == CountsOK
<1>1. IsFiniteSet(Envs \X VAs) /\ IsFiniteSet(Envs \X PDEs) /\ IsFiniteSet(Envs)
  BY PmapAssumption, FS_Product
<1>2. SUFFICES ASSUME NEW p \in Pages
               PROVE  /\ IsFiniteSet(PtAt(p)) /\ Cardinality(PtAt(p)) \in Nat
                      /\ IsFiniteSet(PdAt(p)) /\ Cardinality(PdAt(p)) \in Nat
                      /\ IsFiniteSet(DirAt(p)) /\ Cardinality(DirAt(p)) \in Nat
  BY DEF CountsOK, Refs, PtAt, PdAt, DirAt
<1>3. /\ PtAt(p) \in SUBSET (Envs \X VAs)
      /\ PdAt(p) \in SUBSET (Envs \X PDEs)
      /\ DirAt(p) \in SUBSET Envs
  BY DEF PtAt, PdAt, DirAt
<1>4. IsFiniteSet(PtAt(p)) /\ IsFiniteSet(PdAt(p)) /\ IsFiniteSet(DirAt(p))
  BY <1>1, <1>3, FS_Subset
<1> QED BY <1>4, FS_CardinalityType

\* ... and so in the state after a step.
LEMMA CountsNext == CountsOK'
  BY Counts, PTL

\* Two sets that agree except on a differ in size by what a makes of them.
LEMMA CountStep ==
    ASSUME NEW A, NEW B, NEW a, IsFiniteSet(A), IsFiniteSet(B),
           \A x : x # a => (x \in A <=> x \in B)
    PROVE  Cardinality(B) = Cardinality(A) + (IF a \in B THEN 1 ELSE 0)
                                           - (IF a \in A THEN 1 ELSE 0)
<1>1. Cardinality(A) \in Nat /\ Cardinality(B) \in Nat
  BY FS_CardinalityType
<1>2. CASE a \in B
  <2>1. B = A \cup {a}
    BY <1>2
  <2> QED BY <1>1, <1>2, <2>1, FS_AddElement
<1>3. CASE a \notin B
  <2>1. B = A \ {a}
    BY <1>3
  <2> QED BY <1>1, <1>3, <2>1, FS_RemoveElement
<1> QED BY <1>2, <1>3

\* One entry of a page table or a page directory, or a directory, is written.
PtSet(t, va, q) == pt' = [pt EXCEPT ![t][va] = q]
PdSet(t, d, q) == pgdir' = [pgdir EXCEPT ![t][d] = q]
DirSet(t, q) == env_pgdir' = [env_pgdir EXCEPT ![t] = q]

\* Writing one page table entry.
LEMMA PtStep ==
    ASSUME TypeOK, NEW t \in Envs, NEW va \in VAs, NEW q,
           PtSet(t, va, q), NEW p \in Pages
    PROVE  Cardinality(PtAt(p)') = Cardinality(PtAt(p))
              + (IF p = q THEN 1 ELSE 0) - (IF p = pt[t][va] THEN 1 ELSE 0)
<1>1. IsFiniteSet(PtAt(p)) /\ IsFiniteSet(PtAt(p)')
  BY Counts, CountsNext DEF CountsOK
<1>2. \A e \in Envs, w \in VAs :
         pt'[e][w] = IF e = t /\ w = va THEN q ELSE pt[e][w]
  BY DEF TypeOK, PtSet
<1>3. /\ <<t, va>> \in PtAt(p)' <=> p = q
      /\ <<t, va>> \in PtAt(p) <=> p = pt[t][va]
  BY <1>2 DEF PtAt
<1>4. \A x : x # <<t, va>> => (x \in PtAt(p) <=> x \in PtAt(p)')
  BY <1>2 DEF PtAt
<1>5. Cardinality(PtAt(p)') = Cardinality(PtAt(p))
        + (IF <<t, va>> \in PtAt(p)' THEN 1 ELSE 0)
        - (IF <<t, va>> \in PtAt(p) THEN 1 ELSE 0)
  BY <1>1, <1>4, CountStep
<1> QED BY <1>3, <1>5

\* Writing one page directory entry.
LEMMA PdStep ==
    ASSUME TypeOK, NEW t \in Envs, NEW d \in PDEs, NEW q,
           PdSet(t, d, q), NEW p \in Pages
    PROVE  Cardinality(PdAt(p)') = Cardinality(PdAt(p))
              + (IF p = q THEN 1 ELSE 0) - (IF p = pgdir[t][d] THEN 1 ELSE 0)
<1>1. IsFiniteSet(PdAt(p)) /\ IsFiniteSet(PdAt(p)')
  BY Counts, CountsNext DEF CountsOK
<1>2. \A e \in Envs, w \in PDEs :
         pgdir'[e][w] = IF e = t /\ w = d THEN q ELSE pgdir[e][w]
  BY DEF TypeOK, PdSet
<1>3. /\ <<t, d>> \in PdAt(p)' <=> p = q
      /\ <<t, d>> \in PdAt(p) <=> p = pgdir[t][d]
  BY <1>2 DEF PdAt
<1>4. \A x : x # <<t, d>> => (x \in PdAt(p) <=> x \in PdAt(p)')
  BY <1>2 DEF PdAt
<1>5. Cardinality(PdAt(p)') = Cardinality(PdAt(p))
        + (IF <<t, d>> \in PdAt(p)' THEN 1 ELSE 0)
        - (IF <<t, d>> \in PdAt(p) THEN 1 ELSE 0)
  BY <1>1, <1>4, CountStep
<1> QED BY <1>3, <1>5

\* Giving one environment another page directory, or none.
LEMMA DirStep ==
    ASSUME TypeOK, NEW t \in Envs, NEW q,
           DirSet(t, q), NEW p \in Pages
    PROVE  Cardinality(DirAt(p)') = Cardinality(DirAt(p))
              + (IF p = q THEN 1 ELSE 0) - (IF p = env_pgdir[t] THEN 1 ELSE 0)
<1>1. IsFiniteSet(DirAt(p)) /\ IsFiniteSet(DirAt(p)')
  BY Counts, CountsNext DEF CountsOK
<1>2. \A e \in Envs : env_pgdir'[e] = IF e = t THEN q ELSE env_pgdir[e]
  BY DEF TypeOK, DirSet
<1>3. /\ t \in DirAt(p)' <=> p = q
      /\ t \in DirAt(p) <=> p = env_pgdir[t]
  BY <1>2 DEF DirAt
<1>4. \A x : x # t => (x \in DirAt(p) <=> x \in DirAt(p)')
  BY <1>2 DEF DirAt
<1> QED BY <1>1, <1>3, <1>4, CountStep

\* A page some entry holds has a reference.
LEMMA Referred ==
    ASSUME NEW p \in Pages, NEW e \in Envs
    PROVE  /\ \A va \in VAs : pt[e][va] = p => Cardinality(PtAt(p)) >= 1
           /\ \A d \in PDEs : pgdir[e][d] = p => Cardinality(PdAt(p)) >= 1
           /\ env_pgdir[e] = p => Cardinality(DirAt(p)) >= 1
<1>1. /\ IsFiniteSet(PtAt(p)) /\ Cardinality(PtAt(p)) \in Nat
      /\ IsFiniteSet(PdAt(p)) /\ Cardinality(PdAt(p)) \in Nat
      /\ IsFiniteSet(DirAt(p)) /\ Cardinality(DirAt(p)) \in Nat
  BY Counts DEF CountsOK
<1>2. /\ Cardinality(PtAt(p)) = 0 <=> PtAt(p) = {}
      /\ Cardinality(PdAt(p)) = 0 <=> PdAt(p) = {}
      /\ Cardinality(DirAt(p)) = 0 <=> DirAt(p) = {}
  BY <1>1, FS_EmptySet
<1>3. /\ \A va \in VAs : pt[e][va] = p => <<e, va>> \in PtAt(p)
      /\ \A d \in PDEs : pgdir[e][d] = p => <<e, d>> \in PdAt(p)
      /\ env_pgdir[e] = p => e \in DirAt(p)
  BY DEF PtAt, PdAt, DirAt
<1>4. /\ \A va \in VAs : pt[e][va] = p => PtAt(p) # {}
      /\ \A d \in PDEs : pgdir[e][d] = p => PdAt(p) # {}
      /\ env_pgdir[e] = p => DirAt(p) # {}
  BY <1>3, Zenon
<1>5. \A va \in VAs : pt[e][va] = p => Cardinality(PtAt(p)) >= 1
  BY <1>1, <1>2, <1>4
<1>6. \A d \in PDEs : pgdir[e][d] = p => Cardinality(PdAt(p)) >= 1
  BY <1>1, <1>2, <1>4
<1>7. env_pgdir[e] = p => Cardinality(DirAt(p)) >= 1
  BY <1>1, <1>2, <1>4
<1> QED BY <1>5, <1>6, <1>7

\* A page that serves as a table or a directory has a reference.
TablesCount ==
    \A e \in Envs, p \in Pages :
       env_pgdir[e] = p \/ (\E d \in PDEs : pgdir[e][d] = p) => Refs(p) >= 1

\* In every state: tables are among the references counted.
LEMMA TablesReferred == TablesCount
<1> SUFFICES ASSUME NEW e \in Envs, NEW p \in Pages,
                    env_pgdir[e] = p \/ \E d \in PDEs : pgdir[e][d] = p
             PROVE  Refs(p) >= 1
  BY DEF TablesCount
<1>1. Cardinality(PdAt(p)) >= 1 \/ Cardinality(DirAt(p)) >= 1
  BY Referred
<1> QED BY <1>1, Counts DEF CountsOK

\* ... and so in the state after a step.
LEMMA ReferredNext == TablesCount'
  BY TablesReferred, PTL

\* A page that serves as a table or a directory is in no page table entry.
LEMMA TableNotMapped ==
    ASSUME TablesPrivate, NEW p \in Pages, NEW e \in Envs,
           env_pgdir[e] = p \/ \E d \in PDEs : pgdir[e][d] = p
    PROVE  Refs(p) = 1 /\ Cardinality(PtAt(p)) = 0
<1>1. Refs(p) = 1
  BY DEF TablesPrivate
<1>2. Cardinality(PdAt(p)) >= 1 \/ Cardinality(DirAt(p)) >= 1
  BY Referred
<1>3. /\ Cardinality(PtAt(p)) \in Nat /\ Cardinality(PdAt(p)) \in Nat
      /\ Cardinality(DirAt(p)) \in Nat
      /\ Refs(p) = Cardinality(PtAt(p)) + Cardinality(PdAt(p))
                     + Cardinality(DirAt(p))
  BY Counts DEF CountsOK
<1> QED BY <1>1, <1>2, <1>3

(***************************************************************************)
(* page_insert                                                              *)
(***************************************************************************)
\* What the count of x becomes when page table q is allocated, p is inserted
\* and old is removed.
CountAfter(x, q, p, old) ==
    LET a == IF x = q THEN Inc(pp_ref[x]) ELSE pp_ref[x]
        b == IF x = p THEN Inc(a) ELSE a
    IN IF x = old THEN Dec(b) ELSE b

\* What page_insert does, whichever way it gets its page table: q is the page
\* allocated for it, or NULL.
InsertEffect(q, c, t, va, p, free) ==
    /\ \/ q = NULL /\ pgdir' = pgdir
       \/ /\ q \in free /\ pgdir[t][PDX[va]] = NULL
          /\ PdSet(t, PDX[va], q)
    /\ PtSet(t, va, p)
    /\ pp_ref' \in [Pages -> 0 .. RefMod - 1]
    /\ \A x \in Pages : pp_ref'[x] = CountAfter(x, q, p, pt[t][va])
    /\ \A x : x \in page_free_list' <=>
          \/ x \in free /\ x # q
          \/ x = pt[t][va] /\ x # NULL /\ pp_ref'[x] = 0
    /\ tlb' = IF pt[t][va] = NULL THEN tlb ELSE Flushed(c, t, va)

\* Every page_insert has this effect.
LEMMA InsertStep ==
    ASSUME TypeOK, NEW c \in CPUs, NEW t \in Envs, NEW va \in VAs,
           NEW p \in Pages, NEW free \in SUBSET Pages,
           PageInsert(c, t, p, va, free, pp_ref)
    PROVE  \E q \in Pages \cup {NULL} : InsertEffect(q, c, t, va, p, free)
<1> DEFINE old == pt[t][va]
           Ins(free1, ref1) ==
              LET ref2 == [ref1 EXCEPT ![p] = Inc(@)]
                  ref3 == IF old = NULL THEN ref2 ELSE [ref2 EXCEPT ![old] = Dec(@)]
              IN /\ pp_ref' = ref3
                 /\ page_free_list' = IF old # NULL /\ ref3[old] = 0
                                      THEN free1 \cup {old} ELSE free1
                 /\ pt' = [pt EXCEPT ![t][va] = p]
                 /\ tlb' = IF old = NULL THEN tlb ELSE Flushed(c, t, va)
<1>1. /\ old \in Pages \cup {NULL} /\ NULL \notin Pages
      /\ pp_ref \in [Pages -> 0 .. RefMod - 1]
      /\ \A n \in Int : Inc(n) \in 0 .. RefMod - 1 /\ Dec(n) \in 0 .. RefMod - 1
  BY PmapAssumption DEF TypeOK, Inc, Dec
<1>2. CASE pgdir[t][PDX[va]] # NULL
  <2>1. Ins(free, pp_ref) /\ pgdir' = pgdir
    BY <1>2 DEF PageInsert
  <2>2. pp_ref' \in [Pages -> 0 .. RefMod - 1]
    BY <1>1, <2>1
  <2>3. \A x \in Pages : pp_ref'[x] = CountAfter(x, NULL, p, old)
    BY <1>1, <2>1 DEF CountAfter
  <2>4. \A x : x \in page_free_list' <=>
           \/ x \in free /\ x # NULL
           \/ x = old /\ x # NULL /\ pp_ref'[x] = 0
    BY <1>1, <2>1
  <2> QED BY <2>1, <2>2, <2>3, <2>4 DEF InsertEffect, PtSet
<1>3. CASE pgdir[t][PDX[va]] = NULL
  <2>1. PICK q \in free : /\ Ins(free \ {q}, [pp_ref EXCEPT ![q] = Inc(@)])
                          /\ pgdir' = [pgdir EXCEPT ![t][PDX[va]] = q]
    BY <1>3 DEF PageInsert
  <2>2. [pp_ref EXCEPT ![q] = Inc(@)] \in [Pages -> 0 .. RefMod - 1]
    BY <1>1
  <2>3. pp_ref' \in [Pages -> 0 .. RefMod - 1]
    BY <1>1, <2>1, <2>2
  <2>4. \A x \in Pages : pp_ref'[x] = CountAfter(x, q, p, old)
    BY <1>1, <2>1 DEF CountAfter
  <2>5. \A x : x \in page_free_list' <=>
           \/ x \in free /\ x # q
           \/ x = old /\ x # NULL /\ pp_ref'[x] = 0
    BY <1>1, <2>1
  <2> QED BY <1>3, <2>1, <2>3, <2>4, <2>5 DEF InsertEffect, PtSet, PdSet
<1> QED BY <1>2, <1>3

\* Counting up and down in the width of pp_ref.
LEMMA IncDec ==
    ASSUME NEW n \in 0 .. RefMod - 1
    PROVE  /\ n + 1 < RefMod => Inc(n) = n + 1
           /\ n >= 1 => Dec(n) = n - 1
           /\ Dec(Inc(n)) = n
           /\ Inc(0) = 1
<1>1. RefMod \in Nat /\ RefMod > 1
  BY PmapAssumption
<1>2. n + 1 < RefMod => Inc(n) = n + 1
  BY <1>1 DEF Inc
<1>3. n >= 1 => Dec(n) = n - 1
  BY <1>1 DEF Dec
<1>4. Inc(0) = 1
  BY <1>1 DEF Inc
<1>5. Dec(Inc(n)) = n
  <2>1. CASE n + 1 < RefMod
    BY <1>1, <1>2, <2>1 DEF Dec
  <2>2. CASE n + 1 = RefMod
    <3>1. Inc(n) = 0
      BY <1>1, <2>2 DEF Inc
    <3>2. Dec(0) = RefMod - 1
      BY <1>1 DEF Dec
    <3> QED BY <1>1, <2>2, <3>1, <3>2
  <2> QED BY <1>1, <2>1, <2>2
<1> QED BY <1>2, <1>3, <1>4, <1>5

\* How page_insert moves the references.
LEMMA InsertRefs ==
    ASSUME TypeOK, NEW t \in Envs, NEW va \in VAs,
           NEW p \in Pages, NEW q \in Pages \cup {NULL},
           \/ q = NULL /\ pgdir' = pgdir
           \/ /\ pgdir[t][PDX[va]] = NULL
              /\ PdSet(t, PDX[va], q),
           PtSet(t, va, p),
           env_pgdir' = env_pgdir,
           NEW x \in Pages
    PROVE  Refs(x)' = Refs(x) + (IF x = p THEN 1 ELSE 0)
                        - (IF x = pt[t][va] THEN 1 ELSE 0)
                        + (IF x = q THEN 1 ELSE 0)
<1>1. NULL \notin Pages /\ PDX[va] \in PDEs
  BY PmapAssumption
<1>2. Cardinality(PtAt(x)') = Cardinality(PtAt(x))
        + (IF x = p THEN 1 ELSE 0) - (IF x = pt[t][va] THEN 1 ELSE 0)
  BY PtStep
<1>3. Cardinality(PdAt(x)') = Cardinality(PdAt(x)) + (IF x = q THEN 1 ELSE 0)
  <2>0. Cardinality(PdAt(x)) \in Nat
    BY Counts DEF CountsOK
  <2>1. CASE q = NULL /\ pgdir' = pgdir
    <3>1. PdAt(x)' = PdAt(x)
      BY <2>1 DEF PdAt
    <3> QED BY <1>1, <2>0, <2>1, <3>1
  <2>2. CASE /\ pgdir[t][PDX[va]] = NULL
             /\ PdSet(t, PDX[va], q)
    <3>1. Cardinality(PdAt(x)') = Cardinality(PdAt(x))
            + (IF x = q THEN 1 ELSE 0) - (IF x = pgdir[t][PDX[va]] THEN 1 ELSE 0)
      BY <1>1, <2>2, PdStep
    <3> QED BY <1>1, <2>0, <2>2, <3>1
  <2> QED BY <2>1, <2>2
<1>4. DirAt(x)' = DirAt(x)
  BY DEF DirAt
<1>5. /\ Cardinality(PtAt(x)) \in Nat /\ Cardinality(PdAt(x)) \in Nat
      /\ Cardinality(DirAt(x)) \in Nat
      /\ Refs(x) = Cardinality(PtAt(x)) + Cardinality(PdAt(x))
                     + Cardinality(DirAt(x))
  BY Counts DEF CountsOK
<1>6. Refs(x)' = Cardinality(PtAt(x)') + Cardinality(PdAt(x)')
                   + Cardinality(DirAt(x)')
  BY CountsNext DEF CountsOK
<1> QED BY <1>2, <1>3, <1>4, <1>5, <1>6

\* page_insert keeps the counts, the free list and the tables in order: of a
\* page just allocated, or of one that is mapped somewhere.
LEMMA InsertIInv ==
    ASSUME IInv, TypeOK', RefsFit', NEW c \in CPUs, NEW t \in Envs, NEW va \in VAs,
           NEW p \in Pages, NEW free \in SUBSET Pages,
           \/ p \in page_free_list /\ free = page_free_list \ {p}
           \/ Cardinality(PtAt(p)) >= 1 /\ free = page_free_list,
           PageInsert(c, t, p, va, free, pp_ref),
           UNCHANGED <<env_pgdir, env_parent, curenv, panicked>>
    PROVE  IInv'
<1>0. TypeOK /\ RefsExact /\ FreeExact /\ TablesPrivate /\ NULL \notin Pages
  BY PmapAssumption DEF IInv
<1>eff. PICK q \in Pages \cup {NULL} : InsertEffect(q, c, t, va, p, free)
  BY <1>0, InsertStep
<1>1. /\ \/ q = NULL /\ pgdir' = pgdir
         \/ /\ q \in free /\ pgdir[t][PDX[va]] = NULL
            /\ PdSet(t, PDX[va], q)
      /\ PtSet(t, va, p)
      /\ pp_ref' \in [Pages -> 0 .. RefMod - 1]
      /\ \A x \in Pages : pp_ref'[x] = CountAfter(x, q, p, pt[t][va])
      /\ \A x : x \in page_free_list' <=>
            \/ x \in free /\ x # q
            \/ x = pt[t][va] /\ x # NULL /\ pp_ref'[x] = 0
      /\ tlb' = IF pt[t][va] = NULL THEN tlb ELSE Flushed(c, t, va)
  BY <1>eff DEF InsertEffect
<1>2. PICK old \in Pages \cup {NULL} : old = pt[t][va]
  BY <1>0 DEF TypeOK
<1>3. \A x \in Pages :
         Refs(x)' = Refs(x) + (IF x = p THEN 1 ELSE 0)
                      - (IF x = old THEN 1 ELSE 0) + (IF x = q THEN 1 ELSE 0)
  BY <1>0, <1>1, <1>2, InsertRefs
<1>4. \A x \in Pages : /\ Refs(x) \in Nat /\ Refs(x) = pp_ref[x]
                       /\ Refs(x) \in 0 .. RefMod - 1
                       /\ Refs(x)' < RefMod
                       /\ x \in page_free_list <=> Refs(x) = 0
  BY <1>0, Counts DEF CountsOK, RefsExact, FreeExact, TypeOK, RefsFit
<1>5. \A x \in Pages : /\ Cardinality(PtAt(x)) >= 1 => Refs(x) >= 1
                       /\ x = old => Cardinality(PtAt(x)) >= 1
  <2>1. \A x \in Pages : x = old => Cardinality(PtAt(x)) >= 1
    BY <1>2, Referred
  <2> QED BY <2>1, Counts DEF CountsOK
<1>6. q \in Pages => q # p /\ q # old /\ Refs(q) = 0
  BY <1>0, <1>1, <1>4, <1>5
<1>7. \A x \in Pages : pp_ref'[x] = Refs(x)'
  <2>1. SUFFICES ASSUME NEW x \in Pages PROVE CountAfter(x, q, p, old) = Refs(x)'
    BY <1>1, <1>2
  <2>2. CASE x = q
    BY <1>3, <1>4, <1>6, <2>2, IncDec DEF CountAfter
  <2>3. CASE x # q /\ x = p /\ x = old
    BY <1>3, <1>4, <2>3, IncDec DEF CountAfter
  <2>4. CASE x # q /\ x = p /\ x # old
    BY <1>3, <1>4, <2>4, IncDec DEF CountAfter
  <2>5. CASE x # q /\ x # p /\ x = old
    BY <1>3, <1>4, <1>5, <2>5, IncDec DEF CountAfter
  <2>6. CASE x # q /\ x # p /\ x # old
    BY <1>3, <1>4, <2>6 DEF CountAfter
  <2> QED BY <2>2, <2>3, <2>4, <2>5, <2>6
<1>8. RefsExact'
  BY <1>7 DEF RefsExact
<1>9. FreeExact'
  <2>1. SUFFICES ASSUME NEW x \in Pages
                 PROVE  x \in page_free_list' <=> Refs(x)' = 0
    BY DEF FreeExact
  <2>2. x \in page_free_list' <=>
           (x \in free /\ x # q) \/ (x = old /\ Refs(x)' = 0)
    <3>1. x \in page_free_list' <=>
             \/ x \in free /\ x # q
             \/ x = pt[t][va] /\ x # NULL /\ pp_ref'[x] = 0
      BY <1>1
    <3>2. pp_ref'[x] = Refs(x)' /\ x # NULL
      BY <1>0, <1>7
    <3>3. x \in page_free_list' <=>
             (x \in free /\ x # q) \/ (x = old /\ pp_ref'[x] = 0)
      BY <1>2, <3>1, <3>2
    <3> QED BY <3>2, <3>3
  <2>3. CASE x = q
    BY <1>3, <1>4, <1>6, <2>2, <2>3
  <2>4. CASE x = p /\ x # q
    <3>1. x \notin free
      BY <1>4, <1>5, <2>4
    <3>2. Refs(x)' = 0 => x = old
      BY <1>3, <1>4, <2>4
    <3> QED BY <2>2, <3>1, <3>2
  <2>5. CASE x # p /\ x # q
    <3>1. x \in free <=> Refs(x) = 0
      BY <1>4, <2>5
    <3> QED BY <1>3, <1>4, <1>5, <2>2, <2>5, <3>1
  <2> QED BY <2>3, <2>4, <2>5
<1>10. TablesPrivate'
  <2>1. SUFFICES ASSUME NEW e \in Envs, NEW x \in Pages,
                        \/ env_pgdir'[e] = x
                        \/ \E d \in PDEs : pgdir'[e][d] = x
                 PROVE  Refs(x)' = 1
    BY DEF TablesPrivate
  <2>2. CASE x = q
    BY <1>3, <1>4, <1>6, <2>2
  <2>3. CASE x # q
    <3>1. env_pgdir[e] = x \/ \E d \in PDEs : pgdir[e][d] = x
      <4>1. \A d \in PDEs : pgdir'[e][d] = x => pgdir[e][d] = x
        <5>1. CASE pgdir' = pgdir
          BY <5>1
        <5>2. CASE PdSet(t, PDX[va], q)
          BY <1>0, <2>3, <5>2, PmapAssumption DEF TypeOK, PdSet
        <5> QED BY <1>1, <5>1, <5>2
      <4> QED BY <2>1, <4>1
    <3>2. Refs(x) = 1 /\ Cardinality(PtAt(x)) = 0
      BY <1>0, <3>1, TableNotMapped
    <3>3. x # old /\ x # p
      BY <1>4, <1>5, <3>2
    <3> QED BY <1>3, <2>3, <3>2, <3>3
  <2> QED BY <2>2, <2>3
<1> QED BY <1>8, <1>9, <1>10 DEF IInv

(***************************************************************************)
(* The other operations                                                     *)
(***************************************************************************)
\* A step that touches no page, table or count.
LEMMA SameIInv == IInv /\ UNCHANGED memVars /\ TypeOK' => IInv'
<1> SUFFICES ASSUME IInv, UNCHANGED memVars, TypeOK' PROVE IInv'
  OBVIOUS
<1>1. UNCHANGED <<page_free_list, pp_ref, env_pgdir, pgdir, pt>>
  BY DEF memVars
<1>2. \A p \in Pages : Refs(p)' = Refs(p)
  BY <1>1 DEF Refs
<1> QED BY <1>1, <1>2 DEF IInv, RefsExact, FreeExact, TablesPrivate

\* The kernel panics.
LEMMA PanicIInv == IInv /\ TypeOK' /\ Panic => IInv'
  BY SameIInv DEF Panic

\* sys_exofork.
LEMMA ExoforkIInv ==
    ASSUME IInv, TypeOK', NEW c \in CPUs, NEW e \in Envs, SysExofork(c, e)
    PROVE  IInv'
<1>0. /\ TypeOK /\ RefsExact /\ FreeExact /\ TablesPrivate /\ NULL \notin Pages
      /\ RefMod \in Nat /\ RefMod > 1
  BY PmapAssumption DEF IInv
<1>1. PICK p \in page_free_list :
         /\ page_free_list' = page_free_list \ {p}
         /\ pp_ref' = [pp_ref EXCEPT ![p] = Inc(@)]
         /\ env_pgdir' = [env_pgdir EXCEPT ![e] = p]
  BY DEF SysExofork, EnvSetupVm
<1>2. /\ env_pgdir[e] = NULL /\ curenv[c] # NULL
      /\ env_parent' = [env_parent EXCEPT ![e] = curenv[c]]
      /\ UNCHANGED <<pgdir, pt, curenv, tlb, panicked>>
  BY DEF SysExofork, EnvSetupVm, Runs
<1>3. p \in Pages
  BY <1>0, <1>1 DEF TypeOK
<1>4. \A x \in Pages : /\ Refs(x) \in Nat /\ Refs(x) = pp_ref[x]
                       /\ Refs(x) \in 0 .. RefMod - 1
                       /\ x \in page_free_list <=> Refs(x) = 0
  BY <1>0, Counts DEF CountsOK, RefsExact, FreeExact, TypeOK
<1>5. \A x \in Pages : Refs(x)' = Refs(x) + (IF x = p THEN 1 ELSE 0)
  <2> SUFFICES ASSUME NEW x \in Pages
               PROVE  Refs(x)' = Refs(x) + (IF x = p THEN 1 ELSE 0)
    OBVIOUS
  <2>1. PtAt(x)' = PtAt(x) /\ PdAt(x)' = PdAt(x)
    BY <1>2 DEF PtAt, PdAt
  <2>2. Cardinality(DirAt(x)') = Cardinality(DirAt(x))
          + (IF x = p THEN 1 ELSE 0) - (IF x = env_pgdir[e] THEN 1 ELSE 0)
    <3>1. DirSet(e, p)
      BY <1>1 DEF DirSet
    <3> QED BY <1>0, <3>1, DirStep
  <2>3. /\ Cardinality(PtAt(x)) \in Nat /\ Cardinality(PdAt(x)) \in Nat
        /\ Cardinality(DirAt(x)) \in Nat
        /\ Refs(x) = Cardinality(PtAt(x)) + Cardinality(PdAt(x))
                       + Cardinality(DirAt(x))
    BY Counts DEF CountsOK
  <2>4. Refs(x)' = Cardinality(PtAt(x)') + Cardinality(PdAt(x)')
                     + Cardinality(DirAt(x)')
    BY CountsNext DEF CountsOK
  <2>5. x # env_pgdir[e]
    BY <1>0, <1>2
  <2> QED BY <2>1, <2>2, <2>3, <2>4, <2>5
<1>7. \A x \in Pages : pp_ref'[x] = IF x = p THEN Inc(pp_ref[x]) ELSE pp_ref[x]
  BY <1>0, <1>1, <1>3 DEF TypeOK
<1>8. RefsExact'
  BY <1>1, <1>3, <1>4, <1>5, <1>7, IncDec DEF RefsExact
<1>9. FreeExact'
  BY <1>1, <1>3, <1>4, <1>5 DEF FreeExact
<1>10. TablesPrivate'
  <2>1. SUFFICES ASSUME NEW d \in Envs, NEW x \in Pages,
                        \/ env_pgdir'[d] = x
                        \/ \E i \in PDEs : pgdir'[d][i] = x
                 PROVE  Refs(x)' = 1
    BY DEF TablesPrivate
  <2>2. CASE x = p
    BY <1>1, <1>3, <1>4, <1>5, <2>2
  <2>3. CASE x # p
    <3>1. env_pgdir[d] = x \/ \E i \in PDEs : pgdir[d][i] = x
      BY <1>0, <1>1, <1>2, <2>1, <2>3 DEF TypeOK
    <3>2. Refs(x) = 1
      BY <1>0, <3>1 DEF TablesPrivate
    <3> QED BY <1>5, <2>3, <3>2
  <2> QED BY <2>2, <2>3
<1> QED BY <1>8, <1>9, <1>10 DEF IInv

\* page_insert on behalf of a system call: of a page just taken off the free
\* list, or of one that is mapped somewhere.
Inserts(c, t, va) ==
    \E p \in Pages, free \in SUBSET Pages :
       /\ \/ p \in page_free_list /\ free = page_free_list \ {p}
          \/ Cardinality(PtAt(p)) >= 1 /\ free = page_free_list
       /\ PageInsert(c, t, p, va, free, pp_ref)
       /\ UNCHANGED <<env_pgdir, env_parent, curenv, panicked>>

\* sys_page_alloc inserts a page, or gives it back and changes nothing.
LEMMA PageAllocInserts ==
    ASSUME TypeOK, NEW c \in CPUs, NEW t \in Envs, NEW va \in VAs,
           SysPageAlloc(c, t, va)
    PROVE  Inserts(c, t, va) \/ UNCHANGED vars
<1>1. PICK p \in page_free_list :
         \/ UNCHANGED <<memVars, tlb>>
         \/ PageInsert(c, t, p, va, page_free_list \ {p}, pp_ref)
  BY DEF SysPageAlloc
<1>2. UNCHANGED <<env_pgdir, env_parent, curenv, panicked>>
  BY DEF SysPageAlloc
<1>3. p \in Pages /\ page_free_list \ {p} \in SUBSET Pages
  BY <1>1 DEF TypeOK
<1>4. CASE UNCHANGED <<memVars, tlb>>
  BY <1>2, <1>4 DEF vars, memVars
<1>5. CASE PageInsert(c, t, p, va, page_free_list \ {p}, pp_ref)
  <2>1. p \in page_free_list
    BY <1>1
  <2> QED BY <1>2, <1>3, <1>5, <2>1 DEF Inserts
<1> QED BY <1>1, <1>4, <1>5

\* sys_page_map and the page transfer of sys_ipc_try_send insert the page they
\* find mapped at their source, or panic.
LEMMA MappedInserts ==
    ASSUME TypeOK, NEW c \in CPUs, NEW t \in Envs, NEW va \in VAs,
           NEW srcva \in VAs,
           \/ \E s \in Envs : SysPageMap(c, s, srcva, t, va)
           \/ SysIpcTrySend(c, srcva, t, va)
    PROVE  Inserts(c, t, va) \/ Panic
<1>1. PICK s \in Envs :
         \/ Panic
         \/ /\ pt[s][srcva] # NULL
            /\ PageInsert(c, t, pt[s][srcva], va, page_free_list, pp_ref)
            /\ UNCHANGED <<env_pgdir, env_parent, curenv, panicked>>
  <2>1. CASE \E s \in Envs : SysPageMap(c, s, srcva, t, va)
    BY <2>1 DEF SysPageMap
  <2>2. CASE SysIpcTrySend(c, srcva, t, va)
    <3>1. curenv[c] \in Envs
      BY <2>2 DEF TypeOK, SysIpcTrySend, Runs
    <3> QED BY <2>2, <3>1 DEF SysIpcTrySend
  <2> QED BY <2>1, <2>2
<1>2. CASE /\ pt[s][srcva] # NULL
           /\ PageInsert(c, t, pt[s][srcva], va, page_free_list, pp_ref)
           /\ UNCHANGED <<env_pgdir, env_parent, curenv, panicked>>
  <2>1. PICK p \in Pages : p = pt[s][srcva]
    BY <1>2 DEF TypeOK
  <2>2. Cardinality(PtAt(p)) >= 1
    BY <2>1, Referred
  <2>3. PageInsert(c, t, p, va, page_free_list, pp_ref)
    BY <1>2, <2>1
  <2>4. UNCHANGED <<env_pgdir, env_parent, curenv, panicked>>
    BY <1>2
  <2>5. page_free_list \in SUBSET Pages
    BY DEF TypeOK
  <2> QED BY <2>2, <2>3, <2>4, <2>5 DEF Inserts
<1> QED BY <1>1, <1>2

\* sys_page_unmap (page_remove).
LEMMA PageUnmapIInv ==
    ASSUME IInv, TypeOK', NEW c \in CPUs, NEW t \in Envs, NEW va \in VAs,
           SysPageUnmap(c, t, va)
    PROVE  IInv'
<1>0. /\ TypeOK /\ RefsExact /\ FreeExact /\ TablesPrivate /\ NULL \notin Pages
      /\ RefMod \in Nat /\ RefMod > 1
  BY PmapAssumption DEF IInv
<1>1. CASE Panic
  BY <1>1, PanicIInv
<1>2. CASE /\ pt[t][va] # NULL
           /\ pp_ref' = [pp_ref EXCEPT ![pt[t][va]] = Dec(@)]
           /\ page_free_list' = IF pp_ref'[pt[t][va]] = 0
                                THEN page_free_list \cup {pt[t][va]}
                                ELSE page_free_list
           /\ pt' = [pt EXCEPT ![t][va] = NULL]
           /\ tlb' = Flushed(c, t, va)
           /\ UNCHANGED <<env_pgdir, pgdir, env_parent, curenv, panicked>>
  <2>1. PICK p \in Pages : p = pt[t][va]
    BY <1>0, <1>2 DEF TypeOK
  <2>2. /\ pp_ref' = [pp_ref EXCEPT ![p] = Dec(@)]
        /\ page_free_list' = IF pp_ref'[p] = 0
                             THEN page_free_list \cup {p} ELSE page_free_list
    BY <1>2, <2>1
  <2>3. \A x \in Pages : /\ Refs(x) \in Nat /\ Refs(x) = pp_ref[x]
                         /\ Refs(x) \in 0 .. RefMod - 1
                         /\ x \in page_free_list <=> Refs(x) = 0
    BY <1>0, Counts DEF CountsOK, RefsExact, FreeExact, TypeOK
  <2>4. Cardinality(PtAt(p)) >= 1 /\ Refs(p) >= 1
    <3>1. Cardinality(PtAt(p)) >= 1
      BY <2>1, Referred
    <3> QED BY <3>1, Counts DEF CountsOK
  <2>5. \A x \in Pages : Refs(x)' = Refs(x) - (IF x = p THEN 1 ELSE 0)
    <3> SUFFICES ASSUME NEW x \in Pages
                 PROVE  Refs(x)' = Refs(x) - (IF x = p THEN 1 ELSE 0)
      OBVIOUS
    <3>1. PdAt(x)' = PdAt(x) /\ DirAt(x)' = DirAt(x)
      BY <1>2 DEF PdAt, DirAt
    <3>2. Cardinality(PtAt(x)') = Cardinality(PtAt(x))
            + (IF x = NULL THEN 1 ELSE 0) - (IF x = pt[t][va] THEN 1 ELSE 0)
      <4>1. PtSet(t, va, NULL)
        BY <1>2 DEF PtSet
      <4> QED BY <1>0, <4>1, PtStep
    <3>3. /\ Cardinality(PtAt(x)) \in Nat /\ Cardinality(PdAt(x)) \in Nat
          /\ Cardinality(DirAt(x)) \in Nat
          /\ Refs(x) = Cardinality(PtAt(x)) + Cardinality(PdAt(x))
                         + Cardinality(DirAt(x))
      BY Counts DEF CountsOK
    <3>4. Refs(x)' = Cardinality(PtAt(x)') + Cardinality(PdAt(x)')
                       + Cardinality(DirAt(x)')
      BY CountsNext DEF CountsOK
    <3> QED BY <1>0, <2>1, <3>1, <3>2, <3>3, <3>4
  <2>7. \A x \in Pages : pp_ref'[x] = IF x = p THEN Dec(pp_ref[x]) ELSE pp_ref[x]
    BY <1>0, <2>2 DEF TypeOK
  <2>8. \A x \in Pages : pp_ref'[x] = Refs(x)'
    BY <2>3, <2>4, <2>5, <2>7, IncDec
  <2>9. RefsExact'
    BY <2>8 DEF RefsExact
  <2>10. FreeExact'
    <3>1. \A x : x \in page_free_list' <=>
             x \in page_free_list \/ (x = p /\ pp_ref'[p] = 0)
      BY <2>2
    <3> QED BY <2>3, <2>4, <2>5, <2>8, <3>1 DEF FreeExact
  <2>11. TablesPrivate'
    <3>1. SUFFICES ASSUME NEW d \in Envs, NEW x \in Pages,
                          \/ env_pgdir'[d] = x
                          \/ \E i \in PDEs : pgdir'[d][i] = x
                   PROVE  Refs(x)' = 1
      BY DEF TablesPrivate
    <3>2. env_pgdir[d] = x \/ \E i \in PDEs : pgdir[d][i] = x
      BY <1>2, <3>1
    <3>3. Refs(x) = 1 /\ Cardinality(PtAt(x)) = 0
      BY <1>0, <3>2, TableNotMapped
    <3>4. x # p
      BY <2>4, <3>3
    <3> QED BY <2>5, <3>3, <3>4
  <2> QED BY <2>9, <2>10, <2>11 DEF IInv
<1> QED BY <1>1, <1>2 DEF SysPageUnmap

\* The pairs of A are those of B and, apart from them, t with each v of V.
Shares(A, B, V, t) ==
    /\ \A x : x \in A <=> x \in B \/ \E v \in V : x = <<t, v>>
    /\ \A v \in V : <<t, v>> \notin B

\* A set of pairs is what it has under t and the rest.
LEMMA ShareOf ==
    ASSUME NEW A, NEW B, NEW V, NEW t, IsFiniteSet(B), IsFiniteSet(V),
           Shares(A, B, V, t)
    PROVE  Cardinality(A) = Cardinality(B) + Cardinality(V)
<1> DEFINE M == {<<t, v>> : v \in V}
           f == [v \in V |-> <<t, v>>]
<1>1. f \in Bijection(V, M)
  <2>1. f \in [V -> M] /\ \A m \in M : \E v \in V : f[v] = m
    OBVIOUS
  <2>2. \A v, w \in V : f[v] = f[w] => v = w
    OBVIOUS
  <2> HIDE DEF f, M
  <2> QED BY <2>1, <2>2 DEF Bijection, Injection, Surjection, IsInjective
<1>2. IsFiniteSet(M) /\ Cardinality(M) = Cardinality(V)
  BY <1>1, FS_Bijection DEF ExistsBijection
<1>3. A = B \cup M /\ B \cap M = {}
  BY DEF Shares
<1>4. Cardinality(B \cup M) = Cardinality(B) + Cardinality(M) - Cardinality(B \cap M)
  BY <1>2, FS_Union
<1> HIDE DEF M
<1>5. Cardinality(B) \in Nat /\ Cardinality(M) \in Nat /\ Cardinality({}) = 0
  BY <1>2, FS_CardinalityType, FS_EmptySet
<1>6. Cardinality(A) = Cardinality(B \cup M) /\ Cardinality(B \cap M) = 0
  BY <1>3, <1>5, Zenon
<1> QED BY <1>2, <1>4, <1>5, <1>6

\* env_free drops the references of t and no others.
LEMMA FreeRefs ==
    ASSUME TypeOK, NEW t \in Envs,
           pt' = [pt EXCEPT ![t] = [va \in VAs |-> NULL]],
           pgdir' = [pgdir EXCEPT ![t] = [d \in PDEs |-> NULL]],
           env_pgdir' = [env_pgdir EXCEPT ![t] = NULL],
           NEW p \in Pages
    PROVE  /\ RefsFrom(t, p) \in Nat /\ Refs(p)' \in Nat
           /\ Refs(p) = Refs(p)' + RefsFrom(t, p)
<1> DEFINE V == {va \in VAs : pt[t][va] = p}
           D == {d \in PDEs : pgdir[t][d] = p}
<1>0. p # NULL
  BY PmapAssumption
<1>1. /\ \A e \in Envs, va \in VAs : pt'[e][va] = IF e = t THEN NULL ELSE pt[e][va]
      /\ \A e \in Envs, d \in PDEs : pgdir'[e][d] = IF e = t THEN NULL ELSE pgdir[e][d]
      /\ \A e \in Envs : env_pgdir'[e] = IF e = t THEN NULL ELSE env_pgdir[e]
  BY DEF TypeOK
<1>2. IsFiniteSet(V) /\ IsFiniteSet(D)
  BY PmapAssumption, FS_Subset
<1>3. /\ IsFiniteSet(PtAt(p)) /\ Cardinality(PtAt(p)) \in Nat
      /\ IsFiniteSet(PdAt(p)) /\ Cardinality(PdAt(p)) \in Nat
      /\ IsFiniteSet(DirAt(p)) /\ Cardinality(DirAt(p)) \in Nat
      /\ Refs(p) = Cardinality(PtAt(p)) + Cardinality(PdAt(p))
                     + Cardinality(DirAt(p))
  BY Counts DEF CountsOK
<1>4. /\ IsFiniteSet(PtAt(p)') /\ Cardinality(PtAt(p)') \in Nat
      /\ IsFiniteSet(PdAt(p)') /\ Cardinality(PdAt(p)') \in Nat
      /\ IsFiniteSet(DirAt(p)') /\ Cardinality(DirAt(p)') \in Nat
      /\ Refs(p)' = Cardinality(PtAt(p)') + Cardinality(PdAt(p)')
                      + Cardinality(DirAt(p)')
  BY CountsNext DEF CountsOK
<1>5. Shares(PtAt(p), PtAt(p)', V, t)
  BY <1>0, <1>1 DEF PtAt, Shares
<1>6. Shares(PdAt(p), PdAt(p)', D, t)
  BY <1>0, <1>1 DEF PdAt, Shares
<1>7. Cardinality(DirAt(p)') = Cardinality(DirAt(p))
        - (IF env_pgdir[t] = p THEN 1 ELSE 0)
  <2>1. DirSet(t, NULL)
    BY DEF DirSet
  <2>2. Cardinality(DirAt(p)') = Cardinality(DirAt(p))
          + (IF p = NULL THEN 1 ELSE 0) - (IF p = env_pgdir[t] THEN 1 ELSE 0)
    BY <2>1, DirStep
  <2> QED BY <1>0, <1>3, <2>2
<1>8. RefsFrom(t, p) = Cardinality(V) + Cardinality(D)
                         + (IF env_pgdir[t] = p THEN 1 ELSE 0)
  BY DEF RefsFrom
<1> HIDE DEF V, D
<1>9. Cardinality(PtAt(p)) = Cardinality(PtAt(p)') + Cardinality(V)
  BY <1>2, <1>4, <1>5, ShareOf
<1>10. Cardinality(PdAt(p)) = Cardinality(PdAt(p)') + Cardinality(D)
  BY <1>2, <1>4, <1>6, ShareOf
<1>11. Cardinality(V) \in Nat /\ Cardinality(D) \in Nat
  BY <1>2, FS_CardinalityType
<1> QED BY <1>3, <1>4, <1>7, <1>8, <1>9, <1>10, <1>11

\* env_free.
LEMMA FreeIInv ==
    ASSUME IInv, TypeOK', NEW c \in CPUs, NEW t \in Envs, EnvFree(c, t)
    PROVE  IInv'
<1>0. /\ TypeOK /\ RefsExact /\ FreeExact /\ TablesPrivate /\ NULL \notin Pages
      /\ RefMod \in Nat /\ RefMod > 1
  BY PmapAssumption DEF IInv
<1>1. /\ pp_ref' = [p \in Pages |-> (pp_ref[p] - RefsFrom(t, p)) % RefMod]
      /\ page_free_list' = page_free_list \cup
            {p \in Pages : pp_ref[p] > 0 /\ RefsFrom(t, p) >= pp_ref[p]}
      /\ pt' = [pt EXCEPT ![t] = [va \in VAs |-> NULL]]
      /\ pgdir' = [pgdir EXCEPT ![t] = [d \in PDEs |-> NULL]]
      /\ env_pgdir' = [env_pgdir EXCEPT ![t] = NULL]
  BY DEF EnvFree
<1>2. \A p \in Pages : /\ RefsFrom(t, p) \in Nat /\ Refs(p)' \in Nat
                       /\ Refs(p) = Refs(p)' + RefsFrom(t, p)
  BY <1>0, <1>1, FreeRefs
<1>3. \A p \in Pages : /\ pp_ref[p] = Refs(p) /\ pp_ref[p] \in 0 .. RefMod - 1
                       /\ p \in page_free_list <=> Refs(p) = 0
  BY <1>0 DEF RefsExact, FreeExact, TypeOK
<1>4. \A p \in Pages : /\ pp_ref[p] - RefsFrom(t, p) = Refs(p)'
                       /\ Refs(p)' \in 0 .. RefMod - 1
  BY <1>0, <1>2, <1>3
<1>5. \A p \in Pages : pp_ref'[p] = Refs(p)'
  <2>1. \A n \in 0 .. RefMod - 1 : n % RefMod = n
    BY <1>0
  <2>2. \A p \in Pages : pp_ref'[p] = (pp_ref[p] - RefsFrom(t, p)) % RefMod
    BY <1>1
  <2> QED BY <1>4, <2>1, <2>2
<1>6. RefsExact'
  BY <1>5 DEF RefsExact
<1>7. FreeExact'
  <2>1. \A p \in Pages : p \in page_free_list' <=>
           p \in page_free_list \/ (pp_ref[p] > 0 /\ RefsFrom(t, p) >= pp_ref[p])
    BY <1>1
  <2> QED BY <1>0, <1>2, <1>3, <2>1 DEF FreeExact
<1>8. TablesPrivate'
  <2>1. SUFFICES ASSUME NEW d \in Envs, NEW x \in Pages,
                        \/ env_pgdir'[d] = x
                        \/ \E i \in PDEs : pgdir'[d][i] = x
                 PROVE  Refs(x)' = 1
    BY DEF TablesPrivate
  <2>2. d # t /\ (env_pgdir[d] = x \/ \E i \in PDEs : pgdir[d][i] = x)
    BY <1>0, <1>1, <2>1 DEF TypeOK
  <2>3. Refs(x) = 1
    BY <1>0, <2>2 DEF TablesPrivate
  <2>4. Refs(x)' >= 1
    BY <2>1, ReferredNext DEF TablesCount
  <2> QED BY <1>2, <2>3, <2>4
<1> QED BY <1>6, <1>7, <1>8 DEF IInv

(***************************************************************************)
(* Types                                                                    *)
(***************************************************************************)
\* page_insert keeps the types of what it writes.
LEMMA InsertTypeOK ==
    ASSUME TypeOK, NEW c \in CPUs, NEW t \in Envs, NEW va \in VAs,
           NEW p \in Pages, NEW free \in SUBSET Pages,
           PageInsert(c, t, p, va, free, pp_ref),
           UNCHANGED <<env_pgdir, env_parent, curenv, panicked>>
    PROVE  TypeOK'
<1>eff. PICK q \in Pages \cup {NULL} : InsertEffect(q, c, t, va, p, free)
  BY InsertStep
<1>1. /\ \/ q = NULL /\ pgdir' = pgdir
         \/ /\ q \in free /\ pgdir[t][PDX[va]] = NULL
            /\ PdSet(t, PDX[va], q)
      /\ PtSet(t, va, p)
      /\ pp_ref' \in [Pages -> 0 .. RefMod - 1]
      /\ \A x \in Pages : pp_ref'[x] = CountAfter(x, q, p, pt[t][va])
      /\ \A x : x \in page_free_list' <=>
            \/ x \in free /\ x # q
            \/ x = pt[t][va] /\ x # NULL /\ pp_ref'[x] = 0
      /\ tlb' = IF pt[t][va] = NULL THEN tlb ELSE Flushed(c, t, va)
  BY <1>eff DEF InsertEffect
<1>2. pt[t][va] \in Pages \cup {NULL}
  BY DEF TypeOK
<1>3. page_free_list' \subseteq Pages
  <2>1. \A x : x \in page_free_list' => x \in free \/ (x = pt[t][va] /\ x # NULL)
    BY <1>1
  <2> QED BY <1>2, <2>1
<1>4. pgdir' \in [Envs -> [PDEs -> Pages \cup {NULL}]]
  <2>1. CASE pgdir' = pgdir
    BY <2>1 DEF TypeOK
  <2>2. CASE PdSet(t, PDX[va], q)
    BY <2>2, PmapAssumption DEF TypeOK, PdSet
  <2> QED BY <1>1, <2>1, <2>2
<1>5. pt' \in [Envs -> [VAs -> Pages \cup {NULL}]]
  BY <1>1 DEF TypeOK, PtSet
<1>6. tlb' \in [CPUs -> SUBSET (VAs \X Pages)]
  BY <1>1 DEF TypeOK, Flushed
<1> QED BY <1>1, <1>3, <1>4, <1>5, <1>6 DEF TypeOK

\* The steps that leave all memory alone: a panic, a context switch, a halt and
\* a user access.
LEMMA QuietTypeOK ==
    ASSUME TypeOK, NEW c \in CPUs,
           \/ Panic \/ SchedHalt(c)
           \/ \E e \in Envs : EnvRun(c, e)
           \/ \E va \in VAs : Access(c, va)
    PROVE  TypeOK' /\ UNCHANGED memVars
<1>1. CASE Panic
  BY <1>1 DEF TypeOK, Panic, memVars
<1>2. CASE SchedHalt(c)
  BY <1>2 DEF TypeOK, SchedHalt, memVars
<1>3. ASSUME NEW e \in Envs, EnvRun(c, e) PROVE TypeOK' /\ UNCHANGED memVars
  BY <1>3 DEF TypeOK, EnvRun, memVars
<1>4. ASSUME NEW va \in VAs, Access(c, va) PROVE TypeOK' /\ UNCHANGED memVars
  <2>1. <<va, pt[curenv[c]][va]>> \in VAs \X Pages
    BY <1>4 DEF TypeOK, Access, Runs
  <2>2. tlb' \in [CPUs -> SUBSET (VAs \X Pages)]
    BY <1>4, <2>1 DEF TypeOK, Access
  <2> QED BY <1>4, <2>2 DEF TypeOK, Access, memVars
<1> QED BY <1>1, <1>2, <1>3, <1>4

\* The steps that write memory without page_insert.
LEMMA WriteTypeOK ==
    ASSUME TypeOK, NEW c \in CPUs, NEW t \in Envs,
           \/ SysExofork(c, t) \/ EnvFree(c, t)
           \/ \E va \in VAs : SysPageUnmap(c, t, va)
    PROVE  TypeOK'
<1>0. RefMod \in Nat /\ RefMod > 1
  BY PmapAssumption
<1>1. CASE SysExofork(c, t)
  <2>1. PICK p \in page_free_list :
           /\ page_free_list' = page_free_list \ {p}
           /\ pp_ref' = [pp_ref EXCEPT ![p] = Inc(@)]
           /\ env_pgdir' = [env_pgdir EXCEPT ![t] = p]
    BY <1>1 DEF SysExofork, EnvSetupVm
  <2>2. p \in Pages
    BY <2>1 DEF TypeOK
  <2>3. pp_ref' \in [Pages -> 0 .. RefMod - 1]
    BY <1>0, <2>1, <2>2 DEF TypeOK, Inc
  <2>4. env_pgdir' \in [Envs -> Pages \cup {NULL}] /\ page_free_list' \subseteq Pages
    BY <2>1, <2>2 DEF TypeOK
  <2>5. env_parent' \in [Envs -> Envs \cup {NULL}]
    BY <1>1 DEF TypeOK, SysExofork, EnvSetupVm, Runs
  <2>6. UNCHANGED <<pgdir, pt, curenv, tlb, panicked>>
    BY <1>1 DEF SysExofork, EnvSetupVm
  <2> QED BY <2>3, <2>4, <2>5, <2>6 DEF TypeOK
<1>2. CASE EnvFree(c, t)
  <2>1. /\ pt' = [pt EXCEPT ![t] = [va \in VAs |-> NULL]]
        /\ pgdir' = [pgdir EXCEPT ![t] = [d \in PDEs |-> NULL]]
        /\ env_pgdir' = [env_pgdir EXCEPT ![t] = NULL]
    BY <1>2 DEF EnvFree
  <2>2. pp_ref' \in [Pages -> 0 .. RefMod - 1]
    <3>1. \A p \in Pages : pp_ref[p] \in Int /\ RefsFrom(t, p) \in Nat
      <4>1. \A p \in Pages : RefsFrom(t, p) \in Nat
        BY <2>1, FreeRefs
      <4>2. \A p \in Pages : pp_ref[p] \in Int
        BY <1>0 DEF TypeOK
      <4> QED BY <4>1, <4>2
    <3>2. \A p \in Pages : (pp_ref[p] - RefsFrom(t, p)) % RefMod \in 0 .. RefMod - 1
      BY <1>0, <3>1
    <3>3. pp_ref' = [p \in Pages |-> (pp_ref[p] - RefsFrom(t, p)) % RefMod]
      BY <1>2 DEF EnvFree
    <3> QED BY <3>2, <3>3
  <2>3. page_free_list' \subseteq Pages
    BY <1>2 DEF TypeOK, EnvFree
  <2>4. /\ pt' \in [Envs -> [VAs -> Pages \cup {NULL}]]
        /\ pgdir' \in [Envs -> [PDEs -> Pages \cup {NULL}]]
        /\ env_pgdir' \in [Envs -> Pages \cup {NULL}]
    BY <2>1 DEF TypeOK
  <2>5. /\ env_parent' \in [Envs -> Envs \cup {NULL}]
        /\ curenv' \in [CPUs -> Envs \cup {NULL}]
        /\ tlb' \in [CPUs -> SUBSET (VAs \X Pages)]
        /\ panicked' \in BOOLEAN
    BY <1>2 DEF TypeOK, EnvFree
  <2> QED BY <2>2, <2>3, <2>4, <2>5 DEF TypeOK
<1>3. ASSUME NEW va \in VAs, SysPageUnmap(c, t, va) PROVE TypeOK'
  <2>1. CASE Panic
    BY <2>1, QuietTypeOK
  <2>2. CASE /\ pt[t][va] # NULL
             /\ pp_ref' = [pp_ref EXCEPT ![pt[t][va]] = Dec(@)]
             /\ page_free_list' = IF pp_ref'[pt[t][va]] = 0
                                  THEN page_free_list \cup {pt[t][va]}
                                  ELSE page_free_list
             /\ pt' = [pt EXCEPT ![t][va] = NULL]
             /\ tlb' = Flushed(c, t, va)
             /\ UNCHANGED <<env_pgdir, pgdir, env_parent, curenv, panicked>>
    <3>1. pt[t][va] \in Pages
      BY <2>2 DEF TypeOK
    <3>2. pp_ref' \in [Pages -> 0 .. RefMod - 1] /\ page_free_list' \subseteq Pages
      BY <1>0, <2>2, <3>1 DEF TypeOK, Dec
    <3>3. pt' \in [Envs -> [VAs -> Pages \cup {NULL}]]
      BY <2>2 DEF TypeOK
    <3>4. tlb' \in [CPUs -> SUBSET (VAs \X Pages)]
      BY <2>2 DEF TypeOK, Flushed
    <3> QED BY <2>2, <3>2, <3>3, <3>4 DEF TypeOK
  <2> QED BY <1>3, <2>1, <2>2 DEF SysPageUnmap
<1> QED BY <1>1, <1>2, <1>3

\* Every step is an insertion, one of the other writes, or leaves memory alone.
LEMMA StepKinds ==
    ASSUME TypeOK, [Next]_vars
    PROVE  \/ UNCHANGED vars
           \/ \E c \in CPUs :
                 \/ \E t \in Envs, va \in VAs : Inserts(c, t, va)
                 \/ \E t \in Envs, va \in VAs : SysPageUnmap(c, t, va)
                 \/ \E t \in Envs : SysExofork(c, t) \/ EnvFree(c, t)
                 \/ Panic \/ SchedHalt(c)
                 \/ \E e \in Envs : EnvRun(c, e)
                 \/ \E va \in VAs : Access(c, va)
<1>1. CASE UNCHANGED vars
  BY <1>1
<1>2. CASE Next
  <2>1. PICK c \in CPUs :
          \/ SchedHalt(c)
          \/ \E e \in Envs : SysExofork(c, e) \/ EnvFree(c, e) \/ EnvRun(c, e)
          \/ \E va \in VAs : Access(c, va)
          \/ \E t \in Envs, va \in VAs :
                \/ SysPageAlloc(c, t, va) \/ SysPageUnmap(c, t, va)
                \/ \E srcva \in VAs : SysIpcTrySend(c, srcva, t, va)
                \/ \E s \in Envs, srcva \in VAs : SysPageMap(c, s, srcva, t, va)
    BY <1>2 DEF Next
  <2>2. ASSUME NEW t \in Envs, NEW va \in VAs, SysPageAlloc(c, t, va)
        PROVE  Inserts(c, t, va) \/ UNCHANGED vars
    BY <2>2, PageAllocInserts
  <2>3. ASSUME NEW t \in Envs, NEW va \in VAs, NEW srcva \in VAs,
               \/ \E s \in Envs : SysPageMap(c, s, srcva, t, va)
               \/ SysIpcTrySend(c, srcva, t, va)
        PROVE  Inserts(c, t, va) \/ Panic
    BY <2>3, MappedInserts
  <2> QED BY <2>1, <2>2, <2>3
<1> QED BY <1>1, <1>2

\* No step leaves the types.
LEMMA NextTypeOK == TypeOK /\ [Next]_vars => TypeOK'
<1> SUFFICES ASSUME TypeOK, [Next]_vars PROVE TypeOK'
  OBVIOUS
<1>1. CASE UNCHANGED vars
  BY <1>1 DEF vars, TypeOK
<1>2. ASSUME NEW c \in CPUs, NEW t \in Envs, NEW va \in VAs, Inserts(c, t, va)
      PROVE  TypeOK'
  BY <1>2, InsertTypeOK DEF Inserts
<1>3. ASSUME NEW c \in CPUs, NEW t \in Envs,
             \/ SysExofork(c, t) \/ EnvFree(c, t)
             \/ \E va \in VAs : SysPageUnmap(c, t, va)
      PROVE  TypeOK'
  BY <1>3, WriteTypeOK
<1>4. ASSUME NEW c \in CPUs, \/ Panic \/ SchedHalt(c)
                             \/ \E e \in Envs : EnvRun(c, e)
                             \/ \E va \in VAs : Access(c, va)
      PROVE  TypeOK'
  BY <1>4, QuietTypeOK
<1> QED BY <1>1, <1>2, <1>3, <1>4, StepKinds

(***************************************************************************)
(* Reference counts                                                         *)
(***************************************************************************)
\* After boot one page is in use, for one page directory.
LEMMA InitIInv == Init => IInv
<1> SUFFICES ASSUME Init PROVE IInv
  OBVIOUS
<1>0. NULL \notin Pages /\ RefMod \in Nat /\ RefMod > 1
  BY PmapAssumption
<1>1. PICK e \in Envs, p \in Pages :
         /\ env_pgdir = [x \in Envs |-> IF x = e THEN p ELSE NULL]
         /\ page_free_list = Pages \ {p}
         /\ pp_ref = [x \in Pages |-> IF x = p THEN 1 ELSE 0]
         /\ pgdir = [x \in Envs |-> [d \in PDEs |-> NULL]]
         /\ pt = [x \in Envs |-> [va \in VAs |-> NULL]]
         /\ env_parent = [x \in Envs |-> NULL]
         /\ curenv = [c \in CPUs |-> NULL]
         /\ tlb = [c \in CPUs |-> {}]
         /\ panicked = FALSE
  BY DEF Init
<1>2. \A x \in Pages : Refs(x) = IF x = p THEN 1 ELSE 0
  <2> SUFFICES ASSUME NEW x \in Pages PROVE Refs(x) = IF x = p THEN 1 ELSE 0
    OBVIOUS
  <2>1. PtAt(x) = {} /\ PdAt(x) = {} /\ DirAt(x) = IF x = p THEN {e} ELSE {}
    BY <1>0, <1>1 DEF PtAt, PdAt, DirAt
  <2>2. Cardinality({}) = 0 /\ Cardinality({e}) = 1
    BY FS_EmptySet, FS_Singleton
  <2>3. Refs(x) = Cardinality(PtAt(x)) + Cardinality(PdAt(x))
                    + Cardinality(DirAt(x))
    BY Counts DEF CountsOK
  <2> QED BY <2>1, <2>2, <2>3
<1>3. TypeOK
  <2>1. pp_ref \in [Pages -> 0 .. RefMod - 1] /\ page_free_list \subseteq Pages
    BY <1>0, <1>1
  <2>2. env_pgdir \in [Envs -> Pages \cup {NULL}]
    BY <1>1
  <2>3. /\ pgdir \in [Envs -> [PDEs -> Pages \cup {NULL}]]
        /\ pt \in [Envs -> [VAs -> Pages \cup {NULL}]]
    BY <1>1
  <2>4. /\ env_parent \in [Envs -> Envs \cup {NULL}]
        /\ curenv \in [CPUs -> Envs \cup {NULL}]
        /\ tlb \in [CPUs -> SUBSET (VAs \X Pages)]
        /\ panicked \in BOOLEAN
    BY <1>1
  <2> QED BY <2>1, <2>2, <2>3, <2>4 DEF TypeOK
<1>4. RefsExact /\ FreeExact
  BY <1>1, <1>2 DEF RefsExact, FreeExact
<1>5. TablesPrivate
  <2>1. \A d \in Envs, x \in Pages :
           /\ env_pgdir[d] = x => x = p
           /\ \A i \in PDEs : pgdir[d][i] # x
    BY <1>0, <1>1
  <2> QED BY <1>2, <2>1 DEF TablesPrivate
<1> QED BY <1>3, <1>4, <1>5 DEF IInv

\* No step leads out of the invariant, as long as the counts fit.
LEMMA NextIInv == IInv /\ RefsFit' /\ [Next]_vars => IInv'
<1> SUFFICES ASSUME IInv, RefsFit', [Next]_vars PROVE IInv'
  OBVIOUS
<1>0. TypeOK /\ TypeOK'
  BY NextTypeOK DEF IInv
<1>1. CASE UNCHANGED vars
  BY <1>0, <1>1, SameIInv DEF vars, memVars
<1>2. ASSUME NEW c \in CPUs, NEW t \in Envs, NEW va \in VAs, Inserts(c, t, va)
      PROVE  IInv'
  <2>1. PICK p \in Pages, free \in SUBSET Pages :
           /\ \/ p \in page_free_list /\ free = page_free_list \ {p}
              \/ Cardinality(PtAt(p)) >= 1 /\ free = page_free_list
           /\ PageInsert(c, t, p, va, free, pp_ref)
           /\ UNCHANGED <<env_pgdir, env_parent, curenv, panicked>>
    BY <1>2 DEF Inserts
  <2> QED BY <1>0, <2>1, InsertIInv
<1>3. ASSUME NEW c \in CPUs, NEW t \in Envs, NEW va \in VAs, SysPageUnmap(c, t, va)
      PROVE  IInv'
  BY <1>0, <1>3, PageUnmapIInv
<1>4. ASSUME NEW c \in CPUs, NEW t \in Envs, SysExofork(c, t) \/ EnvFree(c, t)
      PROVE  IInv'
  BY <1>0, <1>4, ExoforkIInv, FreeIInv
<1>5. ASSUME NEW c \in CPUs, \/ Panic \/ SchedHalt(c)
                             \/ \E e \in Envs : EnvRun(c, e)
                             \/ \E va \in VAs : Access(c, va)
      PROVE  IInv'
  <2>1. UNCHANGED memVars
    BY <1>0, <1>5, QuietTypeOK
  <2> QED BY <1>0, <2>1, SameIInv
<1> QED BY <1>0, <1>1, <1>2, <1>3, <1>4, <1>5, StepKinds

\* Whatever the environments, pages and addresses: while no page has as many
\* references as its 16-bit count can hold, what page_alloc, page_insert,
\* page_decref and env_free maintain together holds.
THEOREM PmapInvariance == Spec /\ []RefsFit => []IInv
<1> QED BY InitIInv, NextIInv, PTL DEF Spec

\* "pp_ref is the count of pointers ... to this page" (inc/memlayout.h).
THEOREM CountsAreExact == Spec /\ []RefsFit => []RefsExact
<1>1. IInv => RefsExact
  BY DEF IInv
<1> QED BY <1>1, PmapInvariance, PTL

\* page_alloc hands out no page in use and no page leaks, through every system
\* call, its failures included.
THEOREM FreeListIsExact == Spec /\ []RefsFit => []FreeExact
<1>1. IInv => FreeExact
  BY DEF IInv
<1> QED BY <1>1, PmapInvariance, PTL

\* No environment ever maps a page that serves as page table or directory.
THEOREM TablesArePrivate == Spec /\ []RefsFit => []TablesPrivate
<1>1. IInv => TablesPrivate
  BY DEF IInv
<1> QED BY <1>1, PmapInvariance, PTL

(***************************************************************************)
(* TLBs                                                                     *)
(***************************************************************************)
\* Writing one entry of t's page table, with the flush that page_insert and
\* page_remove make, when t runs on no other CPU.
LEMMA EntryTlb ==
    ASSUME TypeOK, TlbCoherent, NEW c \in CPUs, NEW t \in Envs, NEW va \in VAs, NEW q,
           PtSet(t, va, q), UNCHANGED curenv,
           tlb' = (IF pt[t][va] = NULL THEN tlb ELSE Flushed(c, t, va)),
           \A d \in CPUs \ {c} : curenv[d] # t
    PROVE  TlbCoherent'
<1>0. NULL \notin Pages
  BY PmapAssumption
<1>1. \A e \in Envs, w \in VAs : e # t \/ w # va => pt'[e][w] = pt[e][w]
  BY DEF TypeOK, PtSet
<1>2. SUFFICES ASSUME NEW d \in CPUs, NEW x \in tlb'[d]
               PROVE  curenv[d] # NULL /\ pt'[curenv[d]][x[1]] = x[2]
  BY DEF TlbCoherent
<1>3. x \in tlb[d]
  BY <1>2 DEF Flushed, TypeOK
<1>4. /\ curenv[d] # NULL /\ pt[curenv[d]][x[1]] = x[2]
      /\ curenv[d] \in Envs /\ x[1] \in VAs /\ x[2] \in Pages
  BY <1>3 DEF TlbCoherent, TypeOK
<1>5. CASE curenv[d] = t /\ x[1] = va
  <2>1. d = c /\ pt[t][va] # NULL
    BY <1>0, <1>4, <1>5
  <2>2. tlb'[c] = {y \in tlb[c] : y[1] # va}
    BY <1>5, <2>1 DEF Flushed, TypeOK
  <2> QED BY <1>2, <1>5, <2>1, <2>2
<1>6. CASE ~(curenv[d] = t /\ x[1] = va)
  BY <1>1, <1>4, <1>6
<1> QED BY <1>5, <1>6

\* With one CPU, no step makes a cached translation stale.
LEMMA NextTlb ==
    ASSUME \A c, d \in CPUs : c = d, TypeOK, TlbCoherent, [Next]_vars
    PROVE  TlbCoherent'
<1>1. CASE UNCHANGED vars
  BY <1>1 DEF vars, TlbCoherent
<1>2. ASSUME NEW c \in CPUs, NEW t \in Envs, NEW va \in VAs, Inserts(c, t, va)
      PROVE  TlbCoherent'
  <2>1. PICK p \in Pages, free \in SUBSET Pages :
           /\ PageInsert(c, t, p, va, free, pp_ref)
           /\ UNCHANGED <<env_pgdir, env_parent, curenv, panicked>>
    BY <1>2 DEF Inserts
  <2>2. PtSet(t, va, p) /\ tlb' = IF pt[t][va] = NULL THEN tlb ELSE Flushed(c, t, va)
    <3>1. PICK q \in Pages \cup {NULL} : InsertEffect(q, c, t, va, p, free)
      BY <2>1, InsertStep
    <3> QED BY <3>1 DEF InsertEffect
  <2> QED BY <2>1, <2>2, EntryTlb
<1>3. ASSUME NEW c \in CPUs, NEW t \in Envs, NEW va \in VAs, SysPageUnmap(c, t, va)
      PROVE  TlbCoherent'
  <2>1. CASE Panic
    BY <2>1 DEF Panic, memVars, TlbCoherent
  <2>2. CASE ~Panic
    <3>1. /\ pt[t][va] # NULL /\ PtSet(t, va, NULL) /\ UNCHANGED curenv
          /\ tlb' = Flushed(c, t, va)
      BY <1>3, <2>2 DEF SysPageUnmap, PtSet
    <3> QED BY <3>1, EntryTlb
  <2> QED BY <2>1, <2>2
<1>4. ASSUME NEW c \in CPUs, NEW t \in Envs, SysExofork(c, t) PROVE TlbCoherent'
  BY <1>4 DEF SysExofork, EnvSetupVm, TlbCoherent
<1>5. ASSUME NEW c \in CPUs, NEW t \in Envs, EnvFree(c, t) PROVE TlbCoherent'
  <2>1. pt' = [pt EXCEPT ![t] = [va \in VAs |-> NULL]]
    BY <1>5 DEF EnvFree
  <2>2. CASE curenv[c] = t
    <3>1. tlb' = [tlb EXCEPT ![c] = {}]
      BY <1>5, <2>2 DEF EnvFree
    <3>2. \A d \in CPUs : tlb'[d] = {}
      BY <3>1 DEF TypeOK
    <3> QED BY <3>2 DEF TlbCoherent
  <2>3. CASE curenv[c] # t
    <3>1. UNCHANGED <<curenv, tlb>> /\ \A d \in CPUs : curenv[d] # t
      BY <1>5, <2>3 DEF EnvFree
    <3>2. \A e \in Envs : e # t => pt'[e] = pt[e]
      BY <2>1 DEF TypeOK
    <3> QED BY <3>1, <3>2 DEF TlbCoherent, TypeOK
  <2> QED BY <2>2, <2>3
<1>6. ASSUME NEW c \in CPUs, SchedHalt(c) \/ \E e \in Envs : EnvRun(c, e)
      PROVE  TlbCoherent'
  <2>1. tlb' = [tlb EXCEPT ![c] = {}]
    BY <1>6 DEF SchedHalt, EnvRun
  <2>2. \A d \in CPUs : tlb'[d] = {}
    BY <2>1 DEF TypeOK
  <2> QED BY <2>2 DEF TlbCoherent
<1>7. ASSUME NEW c \in CPUs, NEW va \in VAs, Access(c, va) PROVE TlbCoherent'
  <2>1. /\ curenv[c] # NULL /\ UNCHANGED <<pt, curenv>>
        /\ tlb' = [tlb EXCEPT ![c] = @ \cup {<<va, pt[curenv[c]][va]>>}]
    BY <1>7 DEF Access, Runs, memVars
  <2>2. \A d \in CPUs : \A x \in tlb'[d] :
           x \in tlb[d] \/ (d = c /\ x = <<va, pt[curenv[c]][va]>>)
    BY <2>1 DEF TypeOK
  <2> QED BY <2>1, <2>2 DEF TlbCoherent
<1>8. CASE Panic
  BY <1>8 DEF Panic, memVars, TlbCoherent
<1> QED BY <1>1, <1>2, <1>3, <1>4, <1>5, <1>6, <1>7, <1>8, StepKinds

\* On one CPU, a translation the CPU has cached is one its page table holds,
\* whatever was mapped, remapped, unmapped or freed ("The TLB must be
\* invalidated if you remove an entry from the page table").
THEOREM TlbIsCoherent ==
    ASSUME \A c, d \in CPUs : c = d
    PROVE  Spec => []TlbCoherent
<1>1. Init => TypeOK /\ TlbCoherent
  <2>1. Init => TypeOK
    BY InitIInv DEF IInv
  <2>2. Init => TlbCoherent
    BY DEF Init, TlbCoherent
  <2> QED BY <2>1, <2>2
<1>2. TypeOK /\ TlbCoherent /\ [Next]_vars => (TypeOK /\ TlbCoherent)'
  BY NextTypeOK, NextTlb
<1> QED BY <1>1, <1>2, PTL DEF Spec
=============================================================================

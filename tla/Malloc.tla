------------------------------- MODULE Malloc -------------------------------
(***************************************************************************)
(* malloc and free (lib/malloc.c): blocks are cut from successive pages of *)
(* the heap, the last word of a page counts the blocks that end in it and  *)
(* the allocator's own use of it, and the pages of a long block but its    *)
(* last are marked PTE_CONTINUED instead.  The allocator has no list: the  *)
(* page table says what is free.                                           *)
(*                                                                         *)
(* An address is a number of words from mbegin, a size a number of words   *)
(* (malloc rounds it up to whole words).                                   *)
(***************************************************************************)
EXTENDS Integers, FiniteSets, FiniteSetsExt

CONSTANTS NPAGES,    \* the heap is the pages 0 .. NPAGES - 1 (mbegin to mend)
          PGWORDS,   \* words in a page
          Sizes,     \* the sizes asked for
          Foreign    \* pages of the heap that the program has mapped itself,
                     \* as net/ns.h does with its last page (REQVA)

ASSUME MallocAssumption == /\ NPAGES \in Nat \ {0} /\ PGWORDS \in Nat \ {0, 1}
                           /\ Sizes \subseteq Nat \ {0}
                           /\ Foreign \subseteq 0 .. NPAGES - 1

VARIABLES pte,       \* page -> what is mapped there
          ref,       \* page -> the count in its last word
          mptr,      \* where the next block goes
          blocks     \* the blocks handed out and not yet freed

vars == <<pte, ref, mptr, blocks>>

Page == 0 .. NPAGES - 1
End == NPAGES * PGWORDS

\* Once mptr has run past mend, the search goes on to the top of the address
\* space and comes back at address 0, outside of the heap.
Outside == -1

Init == /\ pte = [p \in Page |-> IF p \in Foreign THEN "foreign" ELSE "none"]
        /\ ref = [p \in Page |-> 0]
        /\ mptr = 0
        /\ blocks = {}
-----------------------------------------------------------------------------
PageOf(v) == v \div PGWORDS
Partial(v) == v % PGWORDS # 0

\* The pages of a block of n words that starts a page: one more word than n,
\* for the count.
Span(p, n) == p .. p + PageOf(n)

isfreeInHeap(t, p, n) == \A q \in Span(p, n) : q \in Page
isfree(t, p, n) == \A q \in Span(p, n) : q \in Page /\ t[q] = "none"

\* The page with the count of the block at v: free skips what is CONTINUED.
CountPage(t, v) == Min({p \in PageOf(v) .. NPAGES - 1 : t[p] # "cont"})

\* The page table and the counts after free(v).
free(v) ==
  LET last == CountPage(pte, v)
      gone == (PageOf(v) .. last - 1) \cup {p \in {last} : ref[p] = 1}
  IN  [pte |-> [p \in Page |-> IF p \in gone THEN "none" ELSE pte[p]],
       ref |-> [ref EXCEPT ![last] = @ - 1]]

\* The heap once malloc has stopped working on the page of mptr.
LeavePageHeld == [pte |-> pte, ref |-> ref]
LeavePage == IF Partial(mptr) THEN free(mptr) ELSE [pte |-> pte, ref |-> ref]
NextPage == PageOf(mptr) + (IF Partial(mptr) THEN 1 ELSE 0)

\* Where the search ends that starts at page m: at the first room found, in
\* front of the heap when two turns find none.  mend is recognised only when
\* the search steps onto it, so one that starts there never turns.
Room(t, m, n) ==
  LET here == {p \in m .. NPAGES - 1 : isfree(t, p, n)}
      anew == {p \in Page : isfree(t, p, n)}
  IN  IF m = NPAGES THEN {Outside}
      ELSE IF here # {} THEN {Min(here)}
      ELSE IF anew # {} THEN {Min(anew)} ELSE {}

-----------------------------------------------------------------------------
\* malloc: the block fits behind the last one, its count included.
FitsNoCount(n) == Partial(mptr) /\ PageOf(mptr + n - 1) = PageOf(mptr)
Fits(n) == Partial(mptr) /\ PageOf(mptr + n) = PageOf(mptr)

\* malloc in the partly used page.
Extend(n) ==
  /\ mptr # Outside /\ Fits(n)
  /\ ref' = [ref EXCEPT ![PageOf(mptr)] = @ + 1]
  /\ blocks' = blocks \cup {[v |-> mptr, n |-> n]}
  /\ mptr' = mptr + n
  /\ UNCHANGED pte

\* malloc in new pages, which are there.
Place(n) ==
  /\ mptr # Outside /\ ~Fits(n)
  /\ \E p \in Room(LeavePage.pte, NextPage, n) :
       LET last == p + PageOf(n) IN
       IF p = Outside
       THEN /\ mptr' = Outside /\ pte' = LeavePage.pte /\ ref' = LeavePage.ref
            /\ UNCHANGED blocks
       ELSE /\ pte' = [q \in Page |-> IF q \in p .. last - 1 THEN "cont"
                                      ELSE IF q = last THEN "page" ELSE LeavePage.pte[q]]
            /\ ref' = [LeavePage.ref EXCEPT ![last] = 2]
            /\ blocks' = blocks \cup {[v |-> p * PGWORDS, n |-> n]}
            /\ mptr' = p * PGWORDS + n

\* malloc returns 0: no room in the heap, or no memory for one of the pages,
\* those already allocated being unmapped again.
NoMemory(n) ==
  /\ mptr # Outside /\ ~Fits(n)
  /\ LET room == Room(LeavePage.pte, NextPage, n) IN
     /\ room # {Outside}
     /\ mptr' = IF room = {} THEN 0 ELSE PGWORDS * Min(room)
  /\ pte' = LeavePage.pte /\ ref' = LeavePage.ref
  /\ UNCHANGED blocks

\* free of a block by the program.
Free(b) ==
  /\ b \in blocks
  /\ pte' = free(b.v).pte /\ ref' = free(b.v).ref
  /\ blocks' = blocks \ {b}
  /\ UNCHANGED mptr

Next == \/ \E n \in Sizes : Extend(n) \/ Place(n) \/ NoMemory(n)
        \/ \E b \in blocks : Free(b)

Spec == Init /\ [][Next]_vars
-----------------------------------------------------------------------------
\* The words of a block, and the page its count is in.
Words(b) == b.v .. b.v + b.n - 1
EndPage(b) == CountPage(pte, b.v)

\* Every count is one that malloc and free can leave, and mptr is in the heap
\* or has left it past mend.
TypeOK == /\ pte \in [Page -> {"none", "page", "cont", "foreign"}]
          /\ ref \in [Page -> 0 .. PGWORDS]
          /\ mptr \in -1 .. End - 1
          /\ \A b \in blocks : b.v \in 0 .. End - 1 /\ b.n \in Sizes

\* Blocks in use do not overlap, and each lies in pages that are mapped for
\* the heap and off the word that counts the uses of the page: whatever the
\* order in which the blocks that share a page are freed (lib/malloc.c:132),
\* no page goes while it holds part of a block.
BlocksApart ==
  /\ \A b, c \in blocks : b # c => Words(b) \cap Words(c) = {}
  /\ \A b \in blocks : \A w \in Words(b) :
       \/ pte[PageOf(w)] = "cont"
       \/ pte[PageOf(w)] = "page" /\ (w + 1) % PGWORDS # 0

\* "the page is freed when the ref count hits zero" (lib/malloc.c:11): a page
\* of the heap is mapped exactly as long as a block or mptr uses it, and its
\* count is the number of blocks that end in it, and one for mptr.
CountsExact ==
  \A p \in Page :
    LET ends == {b \in blocks : EndPage(b) = p}
        inUse == \E b \in blocks : p \in PageOf(b.v) .. EndPage(b)
        cursor == Partial(mptr) /\ PageOf(mptr) = p
    IN  /\ pte[p] \in {"page", "cont"} <=> inUse \/ cursor
        /\ pte[p] = "page" => ref[p] = Cardinality(ends) + (IF cursor THEN 1 ELSE 0)

\* "The address space from mbegin to mend is scanned in order" (lib/malloc.c:8):
\* the search for room stays in the heap.
StaysInHeap == mptr # Outside
=============================================================================

------------------------------ MODULE MCMalloc ------------------------------
(***************************************************************************)
(* Instances of Malloc: pages of four words.                               *)
(***************************************************************************)
EXTENDS Malloc

\* Within a page, exactly a page with its count, and over two pages.
OddSizes == {1, 3, 5}

\* With blocks of exactly a page, as the stacks of net/lwip/jos/arch/thread.c.
StackSizes == {1, 2, 4}

\* The last page of the heap taken by the program.
LastPage == {NPAGES - 1}
NoPages == {}
=============================================================================

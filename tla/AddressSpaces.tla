--------------------------- MODULE AddressSpaces ---------------------------
(***************************************************************************)
(* What fork, spawn and the page fault handler of the library promise: each *)
(* environment has memory of its own, except for the pages it shares on     *)
(* purpose (PTE_SHARE), which are one object however many environments hold *)
(* them. A store changes one private page, or one shared object, and        *)
(* nothing else; fork copies; no page is ever seen being copied.            *)
(***************************************************************************)
CONSTANTS Envs, UserVAs, Stack, Objects, Private, NotMapped, NotLive, Vals, Zero

VARIABLE space      \* [Envs -> NotLive or [UserVAs -> [obj, val]]]

Nothing == [obj |-> NotMapped, val |-> Zero]
Own(v) == [obj |-> Private, val |-> v]
Cells == {Nothing} \cup [obj : Objects \cup {Private}, val : Vals]
Live(e) == space[e] # NotLive

Store(e, va, v) ==
    /\ space[e][va].obj = Private
    /\ space' = [space EXCEPT ![e][va] = Own(v)]

StoreShared(e, va, v) ==
    /\ space[e][va].obj \in Objects
    /\ space' = [f \in Envs |->
                   IF ~ Live(f) THEN NotLive
                   ELSE [vb \in UserVAs |->
                           IF space[f][vb].obj = space[e][va].obj
                           THEN [space[f][vb] EXCEPT !.val = v] ELSE space[f][vb]]]

\* A fresh page, private or the first mapping of a new object.
Alloc(e, va, o) ==
    /\ \A f \in Envs : Live(f) => \A vb \in UserVAs : o = Private \/ space[f][vb].obj # o
    /\ space' = [space EXCEPT ![e][va] = [obj |-> o, val |-> Zero]]

Share(e, va, vb) ==
    /\ space[e][va].obj \in Objects
    /\ space' = [space EXCEPT ![e][vb] = space[e][va]]

Unmap(e, va) == space' = [space EXCEPT ![e][va] = Nothing]

\* The child has what its parent has at that moment; its stack is as it was at
\* some moment of the call.
Fork(e, c, v) ==
    /\ ~ Live(c)
    /\ space' = [space EXCEPT ![c] = [va \in UserVAs |->
                    IF va = Stack THEN Own(v) ELSE space[e][va]]]

\* The child has pages of its own, loaded from the program, and the shared ones.
Spawn(e, c) ==
    /\ ~ Live(c)
    /\ \E img \in [UserVAs -> {Nothing} \cup {Own(v) : v \in Vals}] :
          space' = [space EXCEPT ![c] = [va \in UserVAs |->
                       IF space[e][va].obj \in Objects THEN space[e][va] ELSE img[va]]]

Exit(e) == space' = [space EXCEPT ![e] = NotLive]

Next ==
    \E e \in {f \in Envs : Live(f)} :
       \/ Exit(e)
       \/ \E c \in Envs : Spawn(e, c) \/ \E v \in Vals : Fork(e, c, v)
       \/ \E va \in UserVAs :
             \/ Unmap(e, va)
             \/ \E o \in Objects \cup {Private} : Alloc(e, va, o)
             \/ \E vb \in UserVAs : Share(e, va, vb)
             \/ \E v \in Vals : Store(e, va, v) \/ StoreShared(e, va, v)

Init ==
    \E e \in Envs :
       space = [f \in Envs |-> IF f = e THEN [va \in UserVAs |-> Own(Zero)] ELSE NotLive]

Spec == Init /\ [][Next]_space
=============================================================================

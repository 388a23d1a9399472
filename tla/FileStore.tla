----------------------------- MODULE FileStore -----------------------------
(***************************************************************************)
(* What the file system promises: named files whose positions hold what was *)
(* last written to them, and a saved copy that a crash falls back to. A     *)
(* position that was never written (Hole) may turn into anything, and a     *)
(* saved copy may lag behind anywhere, but what has reached it and has not  *)
(* been overwritten since is never lost, and after a flush it is all there. *)
(***************************************************************************)
EXTENDS Integers, FiniteSets

CONSTANTS Names, Vals, MaxSize

Hole == -1
NoFile == [exists |-> FALSE, at |-> <<>>]

VARIABLES content,     \* [Names -> [exists: BOOLEAN, at: positions -> values]]
          saved,       \* the same, as of the disk
          flushing     \* the files whose flush has not been answered yet

vars == <<content, saved, flushing>>

Init ==
    /\ content = [n \in Names |-> NoFile] /\ saved = content
    /\ flushing = {}

Sizes == 0 .. MaxSize
Size(file) == Cardinality(DOMAIN file.at)

\* A file changes to size s: positions P become v, the others keep what is
\* known of them.
Change(old, new, s, P, v) ==
    LET known(p) == p \in DOMAIN old.at /\ old.at[p] # Hole
    IN /\ old.exists /\ new.exists
       /\ DOMAIN new.at = 0 .. s - 1
       /\ \A p \in 0 .. s - 1 :
            /\ p \in P => new.at[p] = v
            /\ p \notin P /\ known(p) => new.at[p] = old.at[p]

Create(old, new) == ~ old.exists /\ new = [old EXCEPT !.exists = TRUE]

SetSize(old, new) == \E s \in Sizes : Change(old, new, s, {}, Hole)

\* A write that runs out of disk has extended the file and written a prefix.
Write(old, new) ==
    \E off, cnt \in Sizes, v \in Vals : \E k \in 0 .. cnt :
        Change(old, new, IF off + cnt > Size(old) THEN off + cnt ELSE Size(old),
               off .. off + k - 1, v)

Read(old, new) == Change(old, new, Size(old), {}, Hole)

\* One call on file n, which leaves the other files alone.
Operation(n) ==
    /\ \A m \in Names \ {n} : content'[m] = content[m]
    /\ UNCHANGED <<saved, flushing>>
    /\ \E old \in {content[n]}, new \in {content'[n]} :
         Create(old, new) \/ Read(old, new) \/ SetSize(old, new) \/ Write(old, new)

Flush ==
    /\ flushing = {} /\ flushing' # {} /\ flushing' \subseteq Names
    /\ UNCHANGED <<content, saved>>

Flushed ==
    /\ flushing # {}
    /\ \A n \in flushing : saved[n] = content[n]
    /\ flushing' = {}
    /\ UNCHANGED <<content, saved>>

\* What was safe, because saved as it is now, stays saved.
SaveSome ==
    /\ UNCHANGED <<content, flushing>>
    /\ \A n \in Names :
         LET now == content[n]
             old == saved[n]
             new == saved'[n]
             safe(p) == p \in DOMAIN now.at /\ now.at[p] # Hole /\ old.at[p] = now.at[p]
         IN /\ old.exists => new.exists
            /\ \A p \in DOMAIN old.at :
                 safe(p) => p \in DOMAIN new.at /\ new.at[p] = old.at[p]

Crash ==
    /\ content' = saved
    /\ flushing' = {}
    /\ UNCHANGED saved

Next ==
    \/ Flush \/ Flushed \/ SaveSome
    \/ \E n \in Names : Operation(n)
    \/ Crash

Spec == Init /\ [][Next]_vars
=============================================================================

-------------------------- MODULE NetThreadProofs --------------------------
(***************************************************************************)
(* Proofs about the network server (module NetServer): its queue of threads *)
(* and its mailbox, and that the steps of its threads and of the            *)
(* environments around it keep the inductive invariant. NetServerProofs     *)
(* goes on with serve.                                                      *)
(***************************************************************************)
EXTENDS NetServer, TLAPS

(***************************************************************************)
(* The thread queue: lemmas about a queue q, the thread c that runs and the *)
(* set L of the live threads                                                *)
(***************************************************************************)
\* c and the threads of q are Main and L, each once.
Sched(q, c, L) ==
    /\ \A m, n \in 1 .. Len(q) : q[m] = q[n] => m = n
    /\ \A n \in 1 .. Len(q) : q[n] # c
    /\ \A x : x \in {Main} \cup L <=> x = c \/ \E n \in 1 .. Len(q) : q[n] = x

\* i runs, or is in front of Main in q.
Before(q, c, i) ==
    \/ c = i
    \/ \E m, n \in 1 .. Len(q) : m < n /\ q[m] = i /\ q[n] = Main

\* thread_yield on a queue that is not empty.
LEMMA Rotate ==
    ASSUME NEW S, NEW q \in Seq(S), NEW c \in S, NEW L, q # <<>>, Sched(q, c, L)
    PROVE  /\ Head(q) \in S /\ Append(Tail(q), c) \in Seq(S)
           /\ Sched(Append(Tail(q), c), Head(q), L)
           /\ c # Main => \A i : i # c /\ Before(q, c, i) =>
                             Before(Append(Tail(q), c), Head(q), i)
           /\ c = Main => \A i \in L : i # Main => Before(Append(Tail(q), c), Head(q), i)
<1>1. /\ Len(q) \in Nat /\ Len(q) >= 1 /\ Head(q) = q[1] /\ Head(q) \in S
      /\ Tail(q) \in Seq(S) /\ Len(Tail(q)) = Len(q) - 1
      /\ \A k \in 1 .. Len(q) - 1 : Tail(q)[k] = q[k + 1]
  OBVIOUS
<1>2. PICK r : r = Append(Tail(q), c)
  OBVIOUS
<1>3. /\ r \in Seq(S) /\ Len(r) = Len(q) /\ r[Len(q)] = c
      /\ \A k \in 1 .. Len(q) - 1 : r[k] = q[k + 1]
  BY <1>1, <1>2
<1>4. Sched(r, Head(q), L)
  <2>1. \A m, n \in 1 .. Len(r) : r[m] = r[n] => m = n
    BY <1>1, <1>3 DEF Sched
  <2>2. \A n \in 1 .. Len(r) : r[n] # Head(q)
    BY <1>1, <1>3 DEF Sched
  <2>3. \A x : (x = c \/ \E n \in 1 .. Len(q) : q[n] = x)
               => (x = Head(q) \/ \E n \in 1 .. Len(r) : r[n] = x)
    <3> SUFFICES ASSUME NEW x, NEW n \in 1 .. Len(q), x = c \/ q[n] = x
                 PROVE  x = Head(q) \/ \E k \in 1 .. Len(r) : r[k] = x
      BY <1>1
    <3>1. CASE x = c
      BY <1>1, <1>3, <3>1
    <3>2. CASE q[n] = x /\ n > 1
      <4>1. n - 1 \in 1 .. Len(q) - 1 /\ r[n - 1] = q[n]
        BY <1>1, <1>3, <3>2
      <4> QED BY <1>1, <1>3, <3>2, <4>1
    <3>3. CASE q[n] = x /\ n = 1
      BY <1>1, <3>3
    <3> QED BY <1>1, <3>1, <3>2, <3>3
  <2>4. \A x : (x = Head(q) \/ \E n \in 1 .. Len(r) : r[n] = x)
               => (x = c \/ \E n \in 1 .. Len(q) : q[n] = x)
    <3> SUFFICES ASSUME NEW x, NEW n \in 1 .. Len(r), x = Head(q) \/ r[n] = x
                 PROVE  x = c \/ \E k \in 1 .. Len(q) : q[k] = x
      BY <1>1, <1>3
    <3>1. CASE x = Head(q)
      BY <1>1, <3>1
    <3>2. CASE r[n] = x /\ n < Len(q)
      <4>1. n + 1 \in 1 .. Len(q) /\ r[n] = q[n + 1]
        BY <1>1, <1>3, <3>2
      <4> QED BY <3>2, <4>1
    <3>3. CASE r[n] = x /\ n = Len(q)
      BY <1>3, <3>3
    <3>4. n < Len(q) \/ n = Len(q)
      <4>1. Len(r) = Len(q) /\ Len(q) \in Nat
        BY <1>1, <1>3
      <4> QED BY <4>1
    <3> QED BY <3>1, <3>2, <3>3, <3>4
  <2> QED BY <2>1, <2>2, <2>3, <2>4 DEF Sched
<1>5. ASSUME c # Main, NEW i, i # c, Before(q, c, i)
      PROVE  Before(r, Head(q), i)
  <2>1. PICK m, n \in 1 .. Len(q) : m < n /\ q[m] = i /\ q[n] = Main
    BY <1>5 DEF Before
  <2>2. CASE m = 1
    BY <1>1, <2>1, <2>2 DEF Before
  <2>3. CASE m > 1
    <3>1. /\ m - 1 \in 1 .. Len(q) - 1 /\ n - 1 \in 1 .. Len(q) - 1
          /\ r[m - 1] = q[m] /\ r[n - 1] = q[n] /\ m - 1 < n - 1
      BY <1>1, <1>3, <2>1, <2>3
    <3>2. m - 1 \in 1 .. Len(r) /\ n - 1 \in 1 .. Len(r)
      BY <1>1, <1>3, <3>1
    <3> QED BY <2>1, <3>1, <3>2 DEF Before
  <2> QED BY <2>1, <2>2, <2>3
<1>6. ASSUME c = Main, NEW i \in L, i # Main
      PROVE  Before(r, Head(q), i)
  <2>1. PICK m \in 1 .. Len(q) : q[m] = i
    BY <1>6 DEF Sched
  <2>2. CASE m = 1
    BY <1>1, <2>1, <2>2 DEF Before
  <2>3. CASE m > 1
    <3>1. m - 1 \in 1 .. Len(r) /\ Len(r) \in 1 .. Len(r) /\ m - 1 < Len(r)
      BY <1>1, <1>3, <2>3
    <3>2. r[m - 1] = i /\ r[Len(r)] = Main
      BY <1>1, <1>3, <1>6, <2>1, <2>3
    <3> QED BY <3>1, <3>2 DEF Before
  <2> QED BY <2>1, <2>2, <2>3
<1> QED BY <1>1, <1>2, <1>3, <1>4, <1>5, <1>6

\* The threads of L but c.
Less(L, c) == L \ {c}

\* h is the first of q, and r the rest.
Popped(q, h, r) == h = Head(q) /\ r = Tail(q)

\* thread_halt of a thread that is not the main one.
LEMMA Dequeue ==
    ASSUME NEW S, NEW q \in Seq(S), NEW c \in S, NEW L, c # Main, Sched(q, c, L),
           NEW h, NEW r, Popped(q, h, r)
    PROVE  /\ h \in S /\ r \in Seq(S) /\ Sched(r, h, Less(L, c))
           /\ \A i : i # c /\ Before(q, c, i) => Before(r, h, i)
<1>0. PICK z \in 1 .. Len(q) : q[z] = Main
  BY DEF Sched
<1>1. /\ Len(q) \in Nat /\ Len(q) >= 1 /\ Head(q) = q[1] /\ Head(q) \in S
      /\ Tail(q) \in Seq(S) /\ Len(Tail(q)) = Len(q) - 1
      /\ \A k \in 1 .. Len(q) - 1 : Tail(q)[k] = q[k + 1]
  BY <1>0
<1>2. h = Head(q) /\ r = Tail(q)
  BY DEF Popped
<1>3. /\ Len(r) = Len(q) - 1 /\ \A k \in 1 .. Len(r) : r[k] = q[k + 1]
  BY <1>1, <1>2
<1>4. Sched(r, Head(q), Less(L, c))
  <2>1. \A m, n \in 1 .. Len(r) : r[m] = r[n] => m = n
    <3>1. \A m, n \in 1 .. Len(q) : q[m] = q[n] => m = n
      BY DEF Sched
    <3>2. \A n \in 1 .. Len(r) : n + 1 \in 1 .. Len(q)
      BY <1>1, <1>3
    <3> QED BY <1>3, <3>1, <3>2
  <2>2. \A n \in 1 .. Len(r) : r[n] # Head(q)
    BY <1>1, <1>3 DEF Sched
  <2>3. \A x : (\E n \in 1 .. Len(q) : q[n] = x)
               => (x = Head(q) \/ \E n \in 1 .. Len(r) : r[n] = x)
    <3> SUFFICES ASSUME NEW n \in 1 .. Len(q)
                 PROVE  q[n] = Head(q) \/ \E k \in 1 .. Len(r) : r[k] = q[n]
      OBVIOUS
    <3>1. CASE n > 1
      <4>1. n - 1 \in 1 .. Len(r) /\ r[n - 1] = q[n]
        BY <1>1, <1>3, <3>1
      <4> QED BY <4>1
    <3> QED BY <1>1, <3>1
  <2>4. \A x : (x = Head(q) \/ \E n \in 1 .. Len(r) : r[n] = x)
               => \E n \in 1 .. Len(q) : q[n] = x
    <3>1. \A n \in 1 .. Len(r) : n + 1 \in 1 .. Len(q) /\ r[n] = q[n + 1]
      BY <1>1, <1>3
    <3>2. 1 \in 1 .. Len(q) /\ Head(q) = q[1]
      BY <1>1
    <3> QED BY <3>1, <3>2
  <2>5. \A x : x \in {Main} \cup Less(L, c) <=> \E n \in 1 .. Len(q) : q[n] = x
    BY DEF Sched, Less
  <2> QED BY <2>1, <2>2, <2>3, <2>4, <2>5 DEF Sched
<1>5. ASSUME NEW i, i # c, Before(q, c, i)
      PROVE  Before(r, Head(q), i)
  <2>1. PICK m, n \in 1 .. Len(q) : m < n /\ q[m] = i /\ q[n] = Main
    BY <1>5 DEF Before
  <2>2. CASE m = 1
    BY <1>1, <2>1, <2>2 DEF Before
  <2>3. CASE m > 1
    <3>1. /\ m - 1 \in 1 .. Len(r) /\ n - 1 \in 1 .. Len(r)
          /\ r[m - 1] = q[m] /\ r[n - 1] = q[n] /\ m - 1 < n - 1
      BY <1>1, <1>3, <2>1, <2>3
    <3> QED BY <2>1, <3>1 DEF Before
  <2> QED BY <2>1, <2>2, <2>3
<1> QED BY <1>1, <1>2, <1>4, <1>5

\* thread_create: a new thread goes to the end of the queue.
LEMMA Enqueue ==
    ASSUME NEW S, NEW q \in Seq(S), NEW c \in S, NEW L, NEW x \in S,
           x \notin L, x # Main, Sched(q, c, L)
    PROVE  /\ Append(q, x) \in Seq(S) /\ Append(q, x) # <<>>
           /\ Sched(Append(q, x), c, L \cup {x})
<1>1. PICK r : r = Append(q, x)
  OBVIOUS
<1>2. /\ Len(q) \in Nat /\ r \in Seq(S) /\ r # <<>>
      /\ Len(r) = Len(q) + 1 /\ r[Len(q) + 1] = x
      /\ \A k \in 1 .. Len(q) : r[k] = q[k]
  BY <1>1
<1>3. \A k \in 1 .. Len(q) : q[k] # x
  BY DEF Sched
<1>4. x # c
  BY DEF Sched
<1>5. \A m, n \in 1 .. Len(r) : r[m] = r[n] => m = n
  BY <1>2, <1>3 DEF Sched
<1>6. \A n \in 1 .. Len(r) : r[n] # c
  BY <1>2, <1>4 DEF Sched
<1>7. \A y : (\E n \in 1 .. Len(r) : r[n] = y) <=> (y = x \/ \E n \in 1 .. Len(q) : q[n] = y)
  <2>1. \A n \in 1 .. Len(r) : n \in 1 .. Len(q) \/ n = Len(q) + 1
    BY <1>2
  <2>2. Len(q) + 1 \in 1 .. Len(r) /\ \A n \in 1 .. Len(q) : n \in 1 .. Len(r)
    BY <1>2
  <2> QED BY <1>2, <2>1, <2>2
<1>8. Sched(r, c, L \cup {x})
  BY <1>5, <1>6, <1>7 DEF Sched
<1> QED BY <1>1, <1>2, <1>8

\* While the main thread runs nobody is in front of it.
LEMMA MainRuns ==
    ASSUME NEW S, NEW q \in Seq(S), NEW L, Sched(q, Main, L), NEW i, i # Main
    PROVE  ~ Before(q, Main, i)
  BY DEF Before, Sched

(***************************************************************************)
(* The mailbox: lemmas about a ring f of MBOXSLOTS, its head h, the slot x  *)
(* to be filled next, n messages in it and room for r                       *)
(***************************************************************************)
\* The slot k places after h.
Off(h, k) == IF h + k < MBOXSLOTS THEN h + k ELSE h + k - MBOXSLOTS

\* The remainder, as far as the ring uses it.
LEMMA Ring ==
    ASSUME NEW h \in Slots, NEW k \in 0 .. MBOXSLOTS
    PROVE  (h + k) % MBOXSLOTS = Off(h, k) /\ Off(h, k) \in Slots
<1>0. MBOXSLOTS \in Nat \ {0}
  BY NetServerAssumption
<1>1. ASSUME NEW y \in 0 .. MBOXSLOTS - 1 PROVE y % MBOXSLOTS = y
  BY <1>0
<1>2. ASSUME NEW y \in MBOXSLOTS .. 2 * MBOXSLOTS - 1
      PROVE  y % MBOXSLOTS = y - MBOXSLOTS
  BY <1>0
<1>3. h + k < MBOXSLOTS => h + k \in 0 .. MBOXSLOTS - 1
  BY <1>0 DEF Slots
<1>4. h + k >= MBOXSLOTS => h + k \in MBOXSLOTS .. 2 * MBOXSLOTS - 1
  BY <1>0 DEF Slots
<1>5. Off(h, k) \in Slots
  BY <1>0 DEF Off, Slots
<1>6. CASE h + k < MBOXSLOTS
  BY <1>1, <1>3, <1>5, <1>6 DEF Off
<1>7. CASE h + k >= MBOXSLOTS
  BY <1>0, <1>2, <1>4, <1>5, <1>7 DEF Off, Slots
<1> QED BY <1>0, <1>6, <1>7 DEF Slots

\* What MailboxExact says, slot by slot.
Box(h, x, f, n, r) ==
    /\ n + r = MBOXSLOTS
    /\ h = -1 <=> n = 0
    /\ n > 0 => x = Off(h, n)
    /\ \A s \in Slots : f[s] # NoPkt <=> \E k \in 0 .. n - 1 : s = Off(h, k)

MailboxForm ==
    TypeOK => (MailboxExact <=> Box(mbox.head, mbox.nextq, mbox.msg,
                                    sem.queued_msg.counter, sem.free_msg.counter))

\* In every state: the two ways to describe the mailbox agree.
LEMMA MailboxBox == MailboxForm
<1> SUFFICES ASSUME TypeOK
             PROVE  MailboxExact <=> Box(mbox.head, mbox.nextq, mbox.msg,
                                        sem.queued_msg.counter, sem.free_msg.counter)
  BY DEF MailboxForm
<1>0. MBOXSLOTS \in Nat \ {0}
  BY NetServerAssumption
<1>1. PICK n, r, h, x, f :
         /\ n = sem.queued_msg.counter /\ r = sem.free_msg.counter
         /\ h = mbox.head /\ x = mbox.nextq /\ f = mbox.msg
  OBVIOUS
<1>2. /\ n \in 0 .. MBOXSLOTS /\ r \in 0 .. MBOXSLOTS
      /\ h \in {-1} \cup Slots /\ x \in Slots
  BY <1>1 DEF TypeOK, Sems
<1>3. MailboxExact <=>
        /\ n + r = MBOXSLOTS
        /\ h = -1 <=> n = 0
        /\ {s \in Slots : f[s] # NoPkt} =
              IF n = 0 THEN {} ELSE {(h + k) % MBOXSLOTS : k \in 0 .. n - 1}
        /\ n > 0 => x = (h + n) % MBOXSLOTS
  BY <1>1 DEF MailboxExact
<1>4. ASSUME n > 0, h # -1
      PROVE  /\ \A k \in 0 .. n - 1 : (h + k) % MBOXSLOTS = Off(h, k) /\ Off(h, k) \in Slots
             /\ (h + n) % MBOXSLOTS = Off(h, n)
  <2>1. h \in Slots /\ \A k \in 0 .. n - 1 : k \in 0 .. MBOXSLOTS
    BY <1>0, <1>2, <1>4
  <2> QED BY <1>2, <2>1, Ring
<1>5. ASSUME h = -1 <=> n = 0
      PROVE  ({s \in Slots : f[s] # NoPkt} =
                IF n = 0 THEN {} ELSE {(h + k) % MBOXSLOTS : k \in 0 .. n - 1})
             <=> \A s \in Slots : f[s] # NoPkt <=> \E k \in 0 .. n - 1 : s = Off(h, k)
  <2>1. CASE n = 0
    BY <2>1
  <2>2. CASE n > 0 /\ h # -1
    BY <1>4, <2>2
  <2>3. n = 0 \/ (n > 0 /\ h # -1)
    BY <1>2, <1>5
  <2> QED BY <2>1, <2>2, <2>3
<1>6. (h = -1 <=> n = 0) => ((n > 0 => x = (h + n) % MBOXSLOTS) <=> (n > 0 => x = Off(h, n)))
  BY <1>2, <1>4
<1> QED BY <1>1, <1>3, <1>5, <1>6 DEF Box

\* ... and so in the state after a step.
LEMMA MailboxBoxNext == MailboxForm'
  BY MailboxBox, PTL

\* sys_mbox_trypost: the slot filled was empty.
LEMMA BoxPost ==
    ASSUME NEW h \in {-1} \cup Slots, NEW x \in Slots, NEW f \in [Slots -> Pkts \cup {NoPkt}],
           NEW n \in Nat, NEW r \in Nat, NEW p \in Pkts, r > 0, Box(h, x, f, n, r)
    PROVE  /\ f[x] = NoPkt
           /\ Box(IF h = -1 THEN x ELSE h, (x + 1) % MBOXSLOTS, [f EXCEPT ![x] = p],
                  n + 1, r - 1)
<1>0. MBOXSLOTS \in Nat \ {0} /\ p # NoPkt /\ n < MBOXSLOTS /\ n + r = MBOXSLOTS
  BY NetServerAssumption DEF Box
<1>1. PICK y : y = IF h = -1 THEN x ELSE h
  OBVIOUS
<1>2. y \in Slots /\ x = Off(y, n)
  <2>1. CASE h = -1
    BY <1>0, <1>1, <2>1 DEF Box, Off, Slots
  <2>2. CASE h # -1
    BY <1>0, <1>1, <2>2 DEF Box
  <2> QED BY <2>1, <2>2
<1>3. \A s \in Slots : f[s] # NoPkt <=> \E k \in 0 .. n - 1 : s = Off(y, k)
  <2>1. CASE h = -1
    <3>1. n = 0
      BY <2>1 DEF Box
    <3> QED BY <3>1 DEF Box
  <2>2. CASE h # -1
    BY <1>1, <2>2 DEF Box
  <2> QED BY <2>1, <2>2
<1>4. \A k \in 0 .. n - 1 : Off(y, k) # Off(y, n)
  BY <1>0, <1>2 DEF Off, Slots
<1>5. f[x] = NoPkt
  BY <1>2, <1>3, <1>4
<1>6. (x + 1) % MBOXSLOTS = Off(y, n + 1)
  <2>1. (x + 1) % MBOXSLOTS = Off(x, 1)
    BY <1>0, Ring
  <2> QED BY <1>0, <1>2, <2>1 DEF Off, Slots
<1>7. \A s \in Slots : [f EXCEPT ![x] = p][s] # NoPkt <=> \E k \in 0 .. n : s = Off(y, k)
  <2>1. \A k \in 0 .. n : k \in 0 .. n - 1 \/ k = n
    OBVIOUS
  <2>2. \A k \in 0 .. n - 1 : k \in 0 .. n
    OBVIOUS
  <2>3. \A s \in Slots : (\E k \in 0 .. n : s = Off(y, k)) <=>
                         (s = x \/ \E k \in 0 .. n - 1 : s = Off(y, k))
    BY <1>2, <2>1, <2>2
  <2>4. \A s \in Slots : [f EXCEPT ![x] = p][s] # NoPkt <=> (s = x \/ f[s] # NoPkt)
    BY <1>0
  <2> QED BY <1>3, <2>3, <2>4
<1>8. y # -1
  BY <1>0, <1>2 DEF Slots
<1>9. Box(y, (x + 1) % MBOXSLOTS, [f EXCEPT ![x] = p], n + 1, r - 1)
  BY <1>0, <1>6, <1>7, <1>8 DEF Box
<1> QED BY <1>1, <1>5, <1>9

\* sys_arch_mbox_fetch: the slot emptied was full.
LEMMA BoxFetch ==
    ASSUME NEW h \in {-1} \cup Slots, NEW x \in Slots, NEW f \in [Slots -> Pkts \cup {NoPkt}],
           NEW n \in Nat, NEW r \in Nat, n > 0, Box(h, x, f, n, r)
    PROVE  /\ h \in Slots /\ f[h] # NoPkt /\ (h + 1) % MBOXSLOTS \in Slots
           /\ Box(IF (h + 1) % MBOXSLOTS = x THEN -1 ELSE (h + 1) % MBOXSLOTS, x,
                  [f EXCEPT ![h] = NoPkt], n - 1, r + 1)
<1>0. MBOXSLOTS \in Nat \ {0} /\ n + r = MBOXSLOTS /\ n <= MBOXSLOTS
  BY NetServerAssumption DEF Box
<1>1. h \in Slots /\ x = Off(h, n)
  BY DEF Box
<1>2. \A s \in Slots : f[s] # NoPkt <=> \E k \in 0 .. n - 1 : s = Off(h, k)
  BY DEF Box
<1>3. Off(h, 0) = h
  BY <1>0, <1>1 DEF Off, Slots
<1>4. f[h] # NoPkt
  BY <1>1, <1>2, <1>3
<1>5. PICK y : y = (h + 1) % MBOXSLOTS
  OBVIOUS
<1>6. y = Off(h, 1) /\ y \in Slots
  BY <1>0, <1>1, <1>5, Ring
<1>7. y = x <=> n = 1
  BY <1>0, <1>1, <1>6 DEF Off, Slots
<1>8. \A k \in 0 .. n - 2 : Off(y, k) = Off(h, k + 1) /\ Off(h, k + 1) # h
  BY <1>0, <1>1, <1>6 DEF Off, Slots
<1>9. n > 1 => x = Off(y, n - 1)
  BY <1>0, <1>1, <1>6 DEF Off, Slots
<1>10. \A s \in Slots : [f EXCEPT ![h] = NoPkt][s] # NoPkt
                          <=> \E k \in 0 .. n - 2 : s = Off(y, k)
  <2>1. \A s \in Slots : [f EXCEPT ![h] = NoPkt][s] # NoPkt <=> s # h /\ f[s] # NoPkt
    OBVIOUS
  <2>2. ASSUME NEW s \in Slots, NEW k \in 0 .. n - 2, s = Off(y, k)
        PROVE  s # h /\ f[s] # NoPkt
    <3>1. k + 1 \in 0 .. n - 1
      OBVIOUS
    <3> QED BY <1>2, <1>8, <2>2, <3>1
  <2>3. ASSUME NEW s \in Slots, s # h, f[s] # NoPkt
        PROVE  \E k \in 0 .. n - 2 : s = Off(y, k)
    <3>1. PICK k \in 0 .. n - 1 : s = Off(h, k)
      BY <1>2, <2>3
    <3>2. k # 0
      BY <1>3, <2>3, <3>1
    <3>3. k - 1 \in 0 .. n - 2 /\ (k - 1) + 1 = k
      BY <3>1, <3>2
    <3>4. Off(y, k - 1) = Off(h, k)
      BY <1>8, <3>3
    <3> QED BY <3>1, <3>3, <3>4
  <2> QED BY <2>1, <2>2, <2>3
<1>11. PICK z : z = IF y = x THEN -1 ELSE y
  OBVIOUS
<1>12. Box(z, x, [f EXCEPT ![h] = NoPkt], n - 1, r + 1)
  <2>1. z = -1 <=> n - 1 = 0
    BY <1>0, <1>6, <1>7, <1>11 DEF Slots
  <2>2. n - 1 > 0 => z = y
    BY <1>7, <1>11
  <2>3. \A s \in Slots : [f EXCEPT ![h] = NoPkt][s] # NoPkt
                           <=> \E k \in 0 .. (n - 1) - 1 : s = Off(z, k)
    <3>1. CASE n = 1
      BY <1>10, <3>1
    <3>2. CASE n > 1
      <4>1. z = y /\ (n - 1) - 1 = n - 2
        BY <2>2, <3>2
      <4> QED BY <1>10, <4>1
    <3> QED BY <3>1, <3>2
  <2>4. n - 1 > 0 => x = Off(z, n - 1)
    BY <1>9, <2>2
  <2> QED BY <1>0, <2>1, <2>3, <2>4 DEF Box
<1> QED BY <1>1, <1>4, <1>5, <1>6, <1>11, <1>12

(***************************************************************************)
(* Facts about every state                                                  *)
(***************************************************************************)
ThreadT == [type : {"none", "input", "recv", "call"}, whom : Clients \cup {Main},
            pkt : Pkts \cup {NoPkt}, pc : {"none", "new", "wait", "reply"},
            wakeup : BOOLEAN]
MsgT == [type : {"none", "timer", "input", "recv", "call"},
         whom : Clients \cup {Main}, pkt : Pkts \cup {NoPkt}]
ServeT == [pc : {"loop", "recv", "got", "timed", "panic"}, i : 0 .. MaxYields,
           buf : Bufs \cup {NoBuf}, msg : MsgT]
MboxT == [head : {-1} \cup Slots, nextq : Slots, msg : [Slots -> Pkts \cup {NoPkt}]]
SemT == [queued_msg : Sems, free_msg : Sems]
Runnable == Bufs \cup {Main}

\* The constants, as the proofs use them.
LEMMA Constants ==
    /\ QUEUE_SIZE \in Nat \ {0} /\ MBOXSLOTS \in Nat \ {0} /\ MaxYields \in Nat \ {0}
    /\ NoBuf \notin Bufs /\ Main \notin Bufs /\ NoPkt \notin Pkts
    /\ Bufs = 0 .. QUEUE_SIZE - 1 /\ Slots = 0 .. MBOXSLOTS - 1
    /\ NoThread \in ThreadT /\ NoMsg \in MsgT
  BY NetServerAssumption DEF Bufs, Slots, NoThread, NoMsg, ThreadT, MsgT

\* The live threads.
Threads == {i \in Bufs : th[i] # NoThread}

\* A thread is live when it has a type.
LEMMA LiveThread ==
    ASSUME NEW t \in ThreadT, ThreadOK(t)
    PROVE  /\ t = NoThread <=> t.type = "none"
           /\ t = NoThread => t.pc = "none" /\ ~ t.wakeup /\ t.pkt = NoPkt
           /\ t # NoThread => t.pc # "none"
  BY DEF ThreadT, ThreadOK, NoThread

\* A buffer without a thread.
LEMMA Nobody ==
    /\ NoThread.pc = "none" /\ NoThread.type = "none" /\ NoThread.pkt = NoPkt
    /\ NoThread.wakeup = FALSE /\ ThreadOK(NoThread)
<1>1. /\ NoThread.pc = "none" /\ NoThread.type = "none" /\ NoThread.pkt = NoPkt
      /\ NoThread.wakeup = FALSE
  BY DEF NoThread
<1>2. ~ NoThread.wakeup
  BY <1>1
<1> QED BY <1>1, <1>2 DEF ThreadOK

\* A thread with a type is one of the three that serve_thread knows.
LEMMA Somebody ==
    ASSUME NEW t, ThreadOK(t), t.type # "none" \/ t.pc # "none"
    PROVE  \/ t.type = "input" /\ t.pc \in {"new", "wait"} /\ t.pkt \in Pkts
           \/ /\ t.type = "recv" /\ t.whom \in Clients
              /\ t.pc = "reply" \/ (t.pc \in {"new", "wait"} /\ t.pkt = NoPkt)
           \/ /\ t.type = "call" /\ t.whom \in Clients /\ t.pc \in {"new", "reply"}
              /\ t.pkt = NoPkt
<1>1. t # NoThread
  BY Nobody
<1> QED BY <1>1 DEF ThreadOK

\* A call is a client's.
LEMMA CallWhom ==
    ASSUME IInv
    PROVE  \A j \in Bufs : IsCall(th[j]) => th[j].whom \in Clients
<1> SUFFICES ASSUME NEW j \in Bufs, IsCall(th[j])
             PROVE  th[j].whom \in Clients
  OBVIOUS
<1>1. ThreadOK(th[j]) /\ th[j].type \in {"recv", "call"}
  BY DEF IInv, IsCall
<1> QED BY <1>1, Somebody

\* A thread waits for one of the two semaphores.
LEMMA SemName ==
    ASSUME NEW t
    PROVE  SemOf(t) \in {"queued_msg", "free_msg"}
  BY DEF SemOf

\* Type correctness, variable by variable.
TypesForm ==
    TypeOK <=> /\ serve \in ServeT
               /\ cur \in Runnable /\ queue \in Seq(Runnable)
               /\ th \in [Bufs -> ThreadT]
               /\ buse \in SUBSET Bufs
               /\ sem \in SemT /\ mbox \in MboxT
               /\ client \in [Clients -> {"user", "sent", "recv"}]
               /\ timer \in {"sleep", "send", "sent", "recv"}
               /\ input \in Pkts \cup {NoPkt}

\* In every state: this is TypeOK.
LEMMA Types == TypesForm
  BY DEF TypesForm, TypeOK, ServeT, MsgT, Runnable, ThreadT, SemT, MboxT

\* ... and so in the state after a step.
LEMMA TypesNext == TypesForm'
  BY Types, PTL

\* The invariant has the types.
LEMMA Typed ==
    ASSUME IInv
    PROVE  /\ serve \in ServeT
           /\ cur \in Runnable /\ queue \in Seq(Runnable)
           /\ th \in [Bufs -> ThreadT]
           /\ buse \in SUBSET Bufs
           /\ sem \in SemT /\ mbox \in MboxT
           /\ client \in [Clients -> {"user", "sent", "recv"}]
           /\ timer \in {"sleep", "send", "sent", "recv"}
           /\ input \in Pkts \cup {NoPkt}
<1>1. TypeOK
  BY DEF IInv
<1> QED BY <1>1, Types DEF TypesForm

\* The counters of the two semaphores are numbers.
LEMMA SemCounts ==
    ASSUME IInv
    PROVE  sem["queued_msg"].counter \in Nat /\ sem["free_msg"].counter \in Nat
<1>1. sem \in SemT
  BY Typed
<1> QED BY <1>1 DEF SemT, Sems

\* What BuffersExact says of the queue, and BeforeMain.
SchedForm ==
    TypeOK => /\ BuffersExact <=>
                   /\ \A i \in Bufs : i \in buse <=> th[i] # NoThread \/ i = serve.buf
                   /\ \A i \in Bufs : th[i] # NoThread => serve.buf # i
                   /\ Sched(queue, cur, Threads)
              /\ \A i : BeforeMain(i) <=> Before(queue, cur, i)

\* In every state: the two ways to describe the queue agree.
LEMMA SchedState == SchedForm
<1> SUFFICES ASSUME TypeOK
             PROVE  /\ BuffersExact <=>
                         /\ \A i \in Bufs : i \in buse <=> th[i] # NoThread \/ i = serve.buf
                         /\ \A i \in Bufs : th[i] # NoThread => serve.buf # i
                         /\ Sched(queue, cur, Threads)
                    /\ \A i : BeforeMain(i) <=> Before(queue, cur, i)
  BY DEF SchedForm
<1>1. /\ cur \in Runnable /\ queue \in Seq(Runnable) /\ buse \in SUBSET Bufs
  BY Types DEF TypesForm
<1>2. Len(queue) \in Nat /\ DOMAIN queue = 1 .. Len(queue)
  BY <1>1
<1>3. PICK all : all = Append(queue, cur)
  OBVIOUS
<1>4. /\ DOMAIN all = 1 .. Len(queue) + 1 /\ all[Len(queue) + 1] = cur
      /\ \A n \in 1 .. Len(queue) : all[n] = queue[n]
  <2>1. /\ all \in Seq(Runnable) /\ Len(all) = Len(queue) + 1
        /\ all[Len(queue) + 1] = cur /\ \A n \in 1 .. Len(queue) : all[n] = queue[n]
    BY <1>1, <1>3
  <2> QED BY <2>1
<1>5. (\A m, n \in DOMAIN all : all[m] = all[n] => m = n) <=>
         /\ \A m, n \in 1 .. Len(queue) : queue[m] = queue[n] => m = n
         /\ \A n \in 1 .. Len(queue) : queue[n] # cur
  <2>1. \A n \in 1 .. Len(queue) + 1 : n \in 1 .. Len(queue) \/ n = Len(queue) + 1
    BY <1>2
  <2>2. \A n \in 1 .. Len(queue) : n \in 1 .. Len(queue) + 1 /\ n # Len(queue) + 1
    BY <1>2
  <2>3. Len(queue) + 1 \in 1 .. Len(queue) + 1
    BY <1>2
  <2> QED BY <1>4, <2>1, <2>2, <2>3
<1>6. ({all[n] : n \in DOMAIN all} = {Main} \cup Threads) <=>
         \A x : x \in {Main} \cup Threads <=> x = cur \/ \E n \in 1 .. Len(queue) : queue[n] = x
  <2>1. \A x : (x \in {all[n] : n \in DOMAIN all}) <=>
               (x = cur \/ \E n \in 1 .. Len(queue) : queue[n] = x)
    <3>1. \A n \in 1 .. Len(queue) + 1 : n \in 1 .. Len(queue) \/ n = Len(queue) + 1
      BY <1>2
    <3>2. \A n \in 1 .. Len(queue) : n \in 1 .. Len(queue) + 1
      BY <1>2
    <3>3. Len(queue) + 1 \in 1 .. Len(queue) + 1
      BY <1>2
    <3> QED BY <1>4, <3>1, <3>2, <3>3
  <2> QED BY <2>1
<1>7. Sched(queue, cur, Threads) <=>
         /\ \A m, n \in DOMAIN all : all[m] = all[n] => m = n
         /\ {all[n] : n \in DOMAIN all} = {Main} \cup Threads
  BY <1>5, <1>6 DEF Sched
<1>8. (buse = {i \in Bufs : th[i] # NoThread \/ i = serve.buf}) <=>
         \A i \in Bufs : i \in buse <=> th[i] # NoThread \/ i = serve.buf
  BY <1>1
<1>9. BuffersExact <=>
         /\ buse = {i \in Bufs : th[i] # NoThread \/ i = serve.buf}
         /\ \A i \in Bufs : th[i] # NoThread => serve.buf # i
         /\ \A m, n \in DOMAIN all : all[m] = all[n] => m = n
         /\ {all[n] : n \in DOMAIN all} = {Main} \cup Threads
  BY <1>3 DEF BuffersExact, Threads
<1>10. \A i : BeforeMain(i) <=> Before(queue, cur, i)
  BY <1>2 DEF BeforeMain, Before
<1> QED BY <1>7, <1>8, <1>9, <1>10

\* ... and so in the state after a step.
LEMMA SchedNext == SchedForm'
  BY SchedState, PTL

\* What OnePlace says, place by place.
OnePlaceForm ==
    OnePlace <=>
       \A p \in Pkts :
          /\ \A s, t \in Slots : mbox.msg[s] = p /\ mbox.msg[t] = p => s = t
          /\ \A i, j \in Bufs : th[i].pkt = p /\ th[j].pkt = p => i = j
          /\ \A s \in Slots, i \in Bufs : ~ (mbox.msg[s] = p /\ th[i].pkt = p)
          /\ p = serve.msg.pkt \/ p = input =>
                (\A s \in Slots : mbox.msg[s] # p) /\ (\A i \in Bufs : th[i].pkt # p)
          /\ serve.msg.pkt = p => input # p

\* In every state: the two ways to describe the packets' places agree.
LEMMA OnePlaceState == OnePlaceForm
<1>1. \A p \in Pkts : /\ p \in Posted <=> \E s \in Slots : mbox.msg[s] = p
                      /\ p \in Held <=> \E i \in Bufs : th[i].pkt = p
  BY Constants DEF Posted, Held
<1> QED BY <1>1 DEF OnePlaceForm, OnePlace

\* ... and so in the state after a step.
LEMMA OnePlaceNext == OnePlaceForm'
  BY OnePlaceState, PTL

\* Where a packet is, in the state before a step.
LEMMA PlacesNow ==
    ASSUME OnePlace, NEW p \in Pkts
    PROVE  /\ \A s, t \in Slots : mbox.msg[s] = p /\ mbox.msg[t] = p => s = t
           /\ \A k, j \in Bufs : th[k].pkt = p /\ th[j].pkt = p => k = j
           /\ \A s \in Slots, j \in Bufs : ~ (mbox.msg[s] = p /\ th[j].pkt = p)
           /\ p = serve.msg.pkt \/ p = input =>
                 (\A s \in Slots : mbox.msg[s] # p) /\ (\A j \in Bufs : th[j].pkt # p)
           /\ serve.msg.pkt = p => input # p
  BY OnePlaceState DEF OnePlaceForm

\* A thread that goes on was woken or is new, and serve is in its loop.
LEMMA Resumed ==
    ASSUME IInv, NEW i \in Bufs, cur = i, th[i].pc \in {"new", "wait"}, Resumes(i)
    PROVE  /\ (th[i].pc = "new" /\ ~ th[i].wakeup) \/ (th[i].pc = "wait" /\ th[i].wakeup)
           /\ serve.pc = "loop"
<1>1. th[i].wakeup \in BOOLEAN /\ serve.pc \in {"loop", "recv", "got", "timed", "panic"}
  BY Typed DEF ThreadT, ServeT
<1>2. th[i].pc = "new" \/ th[i].wakeup
  BY DEF IInv, WakeupsOK, Resumes
<1>3. th[i].wakeup => th[i].pc = "wait"
  BY DEF IInv, ThreadOK
<1>4. serve.pc = "loop"
  <2>1. cur # Main
    BY Constants
  <2>2. serve.pc \in {"loop", "timed"}
    BY <1>1, <2>1 DEF IInv, ServeOK
  <2>3. th[i].pc = "new" => serve.pc = "loop"
    BY DEF IInv, WakeupsOK
  <2>4. th[i].wakeup => serve.pc # "timed"
    BY DEF IInv, ServeOK, thread_wakeups_pending
  <2> QED BY <1>2, <2>2, <2>3, <2>4
<1> QED BY <1>1, <1>2, <1>3, <1>4

\* A thread that is new is so while nobody is woken, and alone.
LEMMA NewAlone ==
    ASSUME IInv, NEW i \in Bufs, NEW j \in Bufs, i # j, th[j].pc = "new"
    PROVE  th[i].pc # "new" /\ ~ th[i].wakeup
  BY DEF IInv, WakeupsOK, thread_wakeups_pending

\* All of a thread but its wakeup.
Same(t, u) == t.type = u.type /\ t.whom = u.whom /\ t.pkt = u.pkt /\ t.pc = u.pc

\* sys_sem_signal, thread by thread.
LEMMA SignalStep ==
    ASSUME NEW s \in {"queued_msg", "free_msg"}, NEW sm, NEW ts \in [Bufs -> ThreadT],
           sys_sem_signal(s, sm, ts)
    PROVE  /\ th' \in [Bufs -> ThreadT]
           /\ \A j \in Bufs : Same(th'[j], ts[j])
           /\ \A j \in Bufs : th'[j].wakeup <=>
                 ts[j].wakeup \/ (sm[s].waiters = 1 /\ Waiting(ts[j], s))
           /\ \A j \in Bufs : ~ Waiting(ts[j], s) => th'[j] = ts[j]
<1>1. CASE sm[s].waiters = 1
  <2>1. th' = thread_wakeup(s, ts)
    BY <1>1 DEF sys_sem_signal
  <2>2. ASSUME NEW j \in Bufs
        PROVE  /\ th'[j] \in ThreadT /\ Same(th'[j], ts[j])
               /\ th'[j].wakeup <=> ts[j].wakeup \/ Waiting(ts[j], s)
               /\ ~ Waiting(ts[j], s) => th'[j] = ts[j]
    <3>1. th'[j] = IF Waiting(ts[j], s) THEN [ts[j] EXCEPT !.wakeup = TRUE] ELSE ts[j]
      BY <2>1 DEF thread_wakeup
    <3>2. ts[j] \in ThreadT
      OBVIOUS
    <3>3. CASE Waiting(ts[j], s)
      BY <3>1, <3>2, <3>3 DEF ThreadT, Same
    <3>4. CASE ~ Waiting(ts[j], s)
      BY <3>1, <3>2, <3>4 DEF Same
    <3> QED BY <3>3, <3>4
  <2>3. th' \in [Bufs -> ThreadT]
    BY <2>1, <2>2 DEF thread_wakeup
  <2> QED BY <1>1, <2>2, <2>3
<1>2. CASE sm[s].waiters # 1
  BY <1>2 DEF sys_sem_signal, Same
<1> QED BY <1>1, <1>2

\* Type correctness of a step that leaves the environments around the server alone.
LEMMA ServerTypes ==
    ASSUME TypeOK, UNCHANGED <<client, timer, input>>,
           serve' \in ServeT, cur' \in Runnable, queue' \in Seq(Runnable),
           th' \in [Bufs -> ThreadT], buse' \in SUBSET Bufs, sem' \in SemT, mbox' \in MboxT
    PROVE  TypeOK'
  BY Types, TypesNext DEF TypesForm

(***************************************************************************)
(* The parts of the invariant, in the states before and after a step        *)
(***************************************************************************)
\* The parts of the invariant that a step leaves alone.
LEMMA ServeKept ==
    ASSUME ServeOK, serve' = serve,
           serve.pc \in {"recv", "got", "panic"} => cur' = Main,
           serve.pc \in {"recv", "got", "timed"} => \A j \in Bufs : ~ th'[j].wakeup
    PROVE  ServeOK'
  BY DEF ServeOK, thread_wakeups_pending, NoMsg

\* The buffers in use are those of the live threads and of serve.
LEMMA BuffersNext ==
    ASSUME TypeOK', NEW L, Sched(queue', cur', L),
           \A j \in Bufs : th'[j] # NoThread <=> j \in L, L \in SUBSET Bufs,
           \A j \in Bufs : j \in buse' <=> j \in L \/ j = serve'.buf,
           \A j \in Bufs : j \in L => serve'.buf # j
    PROVE  BuffersExact'
<1>1. Threads' = L
  BY DEF Threads, NoThread
<1>2. BuffersExact' <=>
          /\ \A j \in Bufs : j \in buse' <=> th'[j] # NoThread \/ j = serve'.buf
          /\ \A j \in Bufs : th'[j] # NoThread => serve'.buf # j
          /\ Sched(queue', cur', Threads')
  <2>1. SchedForm'
    BY SchedNext
  <2> QED BY <2>1 DEF SchedForm, NoThread, Sched, Bufs
<1> QED BY <1>1, <1>2

\* Neither the mailbox nor the number of messages in it changes.
LEMMA MailboxKept ==
    ASSUME TypeOK, TypeOK', MailboxExact, mbox' = mbox,
           sem'["queued_msg"].counter = sem["queued_msg"].counter,
           sem'["free_msg"].counter = sem["free_msg"].counter
    PROVE  MailboxExact'
  BY DEF MailboxExact

\* No thread takes up a call.
LEMMA ClientsKept ==
    ASSUME ClientsOK, client' = client, serve'.msg = serve.msg,
           \A j \in Bufs : IsCall(th'[j]) => IsCall(th[j]) /\ th'[j].whom = th[j].whom
    PROVE  ClientsOK'
<1>1. \A j \in Bufs : IsCall(th'[j]) => client'[th'[j].whom] # "user"
  BY DEF ClientsOK
<1>2. \A j, k \in Bufs : IsCall(th'[j]) /\ IsCall(th'[k]) /\ th'[j].whom = th'[k].whom => j = k
  BY DEF ClientsOK
<1>3. IsCall(serve'.msg) => /\ serve'.msg.whom \in Clients /\ client'[serve'.msg.whom] # "user"
                            /\ \A j \in Bufs : IsCall(th'[j]) => th'[j].whom # serve'.msg.whom
  BY DEF ClientsOK
<1> QED BY <1>1, <1>2, <1>3 DEF ClientsOK, IsCall

\* No packet comes to a new place.
LEMMA PlacesKept ==
    ASSUME OnePlace, mbox'.msg = mbox.msg, serve'.msg = serve.msg, input' = input,
           \A j \in Bufs : th'[j].pkt = th[j].pkt \/ th'[j].pkt = NoPkt
    PROVE  OnePlace'
<1>1. SUFFICES ASSUME NEW p \in Pkts
               PROVE  /\ \A s, t \in Slots : mbox'.msg[s] = p /\ mbox'.msg[t] = p => s = t
                      /\ \A i, j \in Bufs : th'[i].pkt = p /\ th'[j].pkt = p => i = j
                      /\ \A s \in Slots, i \in Bufs : ~ (mbox'.msg[s] = p /\ th'[i].pkt = p)
                      /\ p = serve'.msg.pkt \/ p = input' =>
                            /\ \A s \in Slots : mbox'.msg[s] # p
                            /\ \A i \in Bufs : th'[i].pkt # p
                      /\ serve'.msg.pkt = p => input' # p
  <2>1. OnePlaceForm'
    BY OnePlaceNext
  <2> QED BY <2>1 DEF OnePlaceForm, Slots, Bufs
<1>2. p # NoPkt /\ \A j \in Bufs : th'[j].pkt = p => th[j].pkt = p
  BY Constants
<1> QED BY <1>2, OnePlaceState DEF OnePlaceForm

\* serve does not stop.
LEMMA FoundKept ==
    ASSUME BufferFound, serve'.pc = serve.pc \/ serve'.pc # "panic"
    PROVE  BufferFound'
  BY DEF BufferFound, RoomForUnread

\* A thread that is live stays live as long as its type stays.
LEMMA StaysLive ==
    ASSUME TypeOK, TypeOK', \A j \in Bufs : ThreadOK(th[j]), (\A j \in Bufs : ThreadOK(th[j]))',
           NEW j \in Bufs, th'[j].type = th[j].type
    PROVE  th'[j] # NoThread <=> th[j] # NoThread
<1>1. th[j] \in ThreadT /\ th'[j] \in ThreadT
  <2>1. th \in [Bufs -> ThreadT]
    BY Types DEF TypesForm
  <2>2. th' \in [Bufs -> ThreadT]
    BY TypesNext DEF TypesForm, ThreadT, Bufs
  <2> QED BY <2>1, <2>2
<1>2. ThreadOK(th[j]) /\ ThreadOK(th'[j])
  BY DEF ThreadOK, NoThread, Bufs
<1> QED BY <1>1, <1>2, LiveThread

\* WakeupsOK in the state after a step.
LEMMA WakeupsNext ==
    ASSUME TypeOK',
           \A j \in Bufs : th'[j].pc = "wait" /\ ~ th'[j].wakeup =>
              sem'[SemOf(th'[j])] = [counter |-> 0, waiters |-> 1],
           \A j, k \in Bufs : th'[j].pc = "wait" /\ th'[k].pc = "wait" =>
              SemOf(th'[j]) = SemOf(th'[k]),
           \A j \in Bufs : th'[j].pc = "new" =>
              /\ Before(queue', cur', j) /\ serve'.pc = "loop" /\ serve'.i = 0
              /\ \A k \in Bufs : ~ th'[k].wakeup,
           \A j, k \in Bufs : th'[j].pc = "new" /\ th'[k].pc = "new" => j = k,
           \A j \in Bufs : th'[j].pc = "reply" => cur' = j,
           serve'.pc = "loop" /\ serve'.i > 0 =>
              \A j \in Bufs : th'[j].wakeup => Before(queue', cur', j)
    PROVE  WakeupsOK'
<1>1. \A j : BeforeMain(j)' <=> Before(queue', cur', j)
  <2>1. SchedForm'
    BY SchedNext
  <2> QED BY <2>1 DEF SchedForm, Before
<1>2. thread_wakeups_pending' <=> \E k \in Bufs : th'[k].wakeup
  BY DEF thread_wakeups_pending
<1>3. \A j \in Bufs : th'[j].pc = "new" =>
         /\ BeforeMain(j)' /\ serve'.pc = "loop" /\ serve'.i = 0 /\ ~ thread_wakeups_pending'
  BY <1>1, <1>2
<1>4. serve'.pc = "loop" /\ serve'.i > 0 =>
         \A j \in Bufs : th'[j].wakeup => BeforeMain(j)'
  BY <1>1
<1> QED BY <1>3, <1>4 DEF WakeupsOK, SemOf

\* ... and in the state before it.
LEMMA WakeupsNow ==
    ASSUME IInv
    PROVE  /\ \A j \in Bufs : th[j].pc = "wait" /\ ~ th[j].wakeup =>
                 sem[SemOf(th[j])] = [counter |-> 0, waiters |-> 1]
           /\ \A j, k \in Bufs : th[j].pc = "wait" /\ th[k].pc = "wait" =>
                 SemOf(th[j]) = SemOf(th[k])
           /\ \A j \in Bufs : th[j].pc = "new" =>
                 /\ Before(queue, cur, j) /\ serve.pc = "loop" /\ serve.i = 0
                 /\ \A k \in Bufs : ~ th[k].wakeup
           /\ \A j, k \in Bufs : th[j].pc = "new" /\ th[k].pc = "new" => j = k
           /\ \A j \in Bufs : th[j].pc = "reply" => cur = j
           /\ serve.pc = "loop" /\ serve.i > 0 =>
                 \A j \in Bufs : th[j].wakeup => Before(queue, cur, j)
<1>1. \A j : BeforeMain(j) <=> Before(queue, cur, j)
  BY SchedState DEF SchedForm, IInv
<1> QED BY <1>1 DEF IInv, WakeupsOK, thread_wakeups_pending

(***************************************************************************)
(* The threads                                                              *)
(***************************************************************************)
\* Wait(i), step by step: what is left of the threads, semaphores and queue.
LEMMA WaitEffect ==
    ASSUME IInv, NEW i \in Bufs, Wait(i)
    PROVE  /\ TypeOK' /\ (\A j \in Bufs : ThreadOK(th[j]))'
           /\ th'[i].pc = "wait" /\ ~ th'[i].wakeup
           /\ th'[i].type = th[i].type /\ th'[i].whom = th[i].whom /\ th'[i].pkt = th[i].pkt
           /\ th[i].type \in {"input", "recv"}
           /\ \A j \in Bufs : j # i => th'[j] = th[j]
           /\ \A s \in {"queued_msg", "free_msg"} : sem'[s].counter = sem[s].counter
           /\ \A s \in {"queued_msg", "free_msg"} : s # SemOf(th[i]) => sem'[s] = sem[s]
           /\ sem'[SemOf(th[i])] = [counter |-> 0, waiters |-> 1]
           /\ Sched(queue', cur', Threads)
           /\ \A j : j # i /\ Before(queue, cur, j) => Before(queue', cur', j)
<1>1. /\ cur \in Runnable /\ queue \in Seq(Runnable) /\ th \in [Bufs -> ThreadT]
      /\ sem \in SemT /\ serve \in ServeT /\ buse \in SUBSET Bufs /\ mbox \in MboxT
  BY Typed
<1>2. cur = i /\ i # Main /\ Sched(queue, cur, Threads)
  BY SchedState, Constants DEF IInv, Wait, SchedForm
<1>3. queue # <<>>
  <2>1. \E n \in 1 .. Len(queue) : queue[n] = Main
    BY <1>2 DEF Sched
  <2> QED BY <1>1, <2>1
<1>4. cur' = Head(queue) /\ queue' = Append(Tail(queue), cur)
  BY <1>3 DEF Wait, Yield
<1>5. /\ cur' \in Runnable /\ queue' \in Seq(Runnable) /\ Sched(queue', cur', Threads)
      /\ \A j : j # i /\ Before(queue, cur, j) => Before(queue', cur', j)
  BY <1>1, <1>2, <1>3, <1>4, Rotate
<1>6. th[i] \in ThreadT /\ ThreadOK(th[i]) /\ th[i].pc \in {"new", "wait"} /\ th[i].type # "call"
  BY <1>1 DEF IInv, Wait
<1>7. th[i].type \in {"input", "recv"}
  BY <1>6, Somebody
<1>8. PICK s \in {"queued_msg", "free_msg"} : s = SemOf(th[i])
  BY DEF SemOf
<1>9. sem[s] \in Sems /\ sem["queued_msg"] \in Sems /\ sem["free_msg"] \in Sems
  BY <1>1 DEF SemT
<1>10. CASE th[i].pc = "wait" /\ ~ Resumes(i) /\ UNCHANGED <<th, sem>>
  <2>1. ~ th[i].wakeup /\ sem[s] = [counter |-> 0, waiters |-> 1]
    BY <1>8, <1>10 DEF Resumes
  <2>2. TypeOK'
    BY <1>1, <1>5, <1>10, ServerTypes DEF IInv, Wait
  <2>3. (\A j \in Bufs : ThreadOK(th[j]))'
    BY <1>10 DEF IInv, ThreadOK
  <2> QED BY <1>5, <1>7, <1>8, <1>10, <2>1, <2>2, <2>3
<1>11. CASE /\ Resumes(i) /\ sem[SemOf(th[i])].counter = 0
            /\ sem' = [sem EXCEPT ![SemOf(th[i])].waiters = 1]
            /\ th' = [th EXCEPT ![i].pc = "wait", ![i].wakeup = FALSE]
  <2>1. /\ sem' \in SemT /\ sem'[s] = [counter |-> 0, waiters |-> 1]
        /\ \A r \in {"queued_msg", "free_msg"} : r # s => sem'[r] = sem[r]
    BY <1>1, <1>8, <1>9, <1>11 DEF SemT, Sems
  <2>2. th'[i] = [th[i] EXCEPT !.pc = "wait", !.wakeup = FALSE] /\ th' \in [Bufs -> ThreadT]
    BY <1>1, <1>6, <1>11 DEF ThreadT
  <2>3. /\ th'[i].pc = "wait" /\ ~ th'[i].wakeup
        /\ th'[i].type = th[i].type /\ th'[i].whom = th[i].whom /\ th'[i].pkt = th[i].pkt
    BY <1>6, <2>2 DEF ThreadT
  <2>4. \A j \in Bufs : j # i => th'[j] = th[j]
    BY <1>1, <1>11
  <2>5. TypeOK'
    BY <1>1, <1>5, <2>1, <2>2, ServerTypes DEF IInv, Wait
  <2>6. ThreadOK(th'[i])
    <3>1. th[i].type # "none"
      BY <1>7
    <3>2. \/ th'[i].type = "input" /\ th'[i].pkt \in Pkts
          \/ th'[i].type = "recv" /\ th'[i].whom \in Clients /\ th'[i].pkt = NoPkt
      BY <1>6, <1>7, <2>3, <3>1, Somebody
    <3> QED BY <2>3, <3>2 DEF ThreadOK
  <2>7. \A j \in Bufs : ThreadOK(th'[j])
    BY <2>4, <2>6 DEF IInv
  <2>8. (\A j \in Bufs : ThreadOK(th[j]))'
    BY <2>7 DEF ThreadOK
  <2>9. \A r \in {"queued_msg", "free_msg"} : sem'[r].counter = sem[r].counter
    BY <1>8, <1>11, <2>1
  <2> QED BY <1>5, <1>7, <1>8, <2>1, <2>3, <2>4, <2>5, <2>8, <2>9
<1> QED BY <1>10, <1>11 DEF Wait

\* thread_wait: the invariant is kept.
LEMMA WaitInv ==
    ASSUME IInv, NEW i \in Bufs, Wait(i)
    PROVE  IInv'
<1>1. /\ TypeOK' /\ (\A j \in Bufs : ThreadOK(th[j]))'
      /\ th'[i].pc = "wait" /\ ~ th'[i].wakeup
      /\ th'[i].type = th[i].type /\ th'[i].whom = th[i].whom /\ th'[i].pkt = th[i].pkt
      /\ th[i].type \in {"input", "recv"}
      /\ \A j \in Bufs : j # i => th'[j] = th[j]
      /\ \A s \in {"queued_msg", "free_msg"} : sem'[s].counter = sem[s].counter
      /\ \A s \in {"queued_msg", "free_msg"} : s # SemOf(th[i]) => sem'[s] = sem[s]
      /\ sem'[SemOf(th[i])] = [counter |-> 0, waiters |-> 1]
      /\ Sched(queue', cur', Threads)
      /\ \A j : j # i /\ Before(queue, cur, j) => Before(queue', cur', j)
  BY WaitEffect
<1>2. /\ cur = i /\ i # Main /\ th[i].pc \in {"new", "wait"}
      /\ serve' = serve /\ buse' = buse /\ mbox' = mbox /\ client' = client /\ input' = input
      /\ Resumes(i) \/ (th[i].pc = "wait" /\ ~ Resumes(i))
  BY Constants DEF Wait
<1>3. Resumes(i) => th[i].pc = "new" \/ th[i].wakeup
  BY <1>2, Resumed
<1>4. ServeOK'
  <2>1. serve.pc \notin {"recv", "got", "panic"}
    BY <1>2 DEF IInv, ServeOK
  <2>2. serve.pc = "timed" => \A j \in Bufs : ~ th'[j].wakeup
    BY <1>1 DEF IInv, ServeOK, thread_wakeups_pending
  <2> QED BY <1>2, <2>1, <2>2, ServeKept DEF IInv
<1>5. BuffersExact'
  <2>1. \A j \in Bufs : th'[j] # NoThread <=> j \in Threads
    BY <1>1, StaysLive DEF IInv, Threads
  <2>2. /\ \A j \in Bufs : j \in buse' <=> j \in Threads \/ j = serve'.buf
        /\ \A j \in Bufs : j \in Threads => serve'.buf # j
    BY <1>2, SchedState DEF SchedForm, IInv, Threads
  <2>3. Threads \in SUBSET Bufs
    BY DEF Threads
  <2> QED BY <1>1, <2>1, <2>2, <2>3, BuffersNext
<1>6. MailboxExact'
  BY <1>1, <1>2, MailboxKept DEF IInv
<1>7. \A j \in Bufs : SemOf(th'[j]) = SemOf(th[j])
  BY <1>1 DEF SemOf
<1>8. WakeupsOK'
  <2>1. ASSUME NEW j \in Bufs, th'[j].pc = "wait", ~ th'[j].wakeup
        PROVE  sem'[SemOf(th'[j])] = [counter |-> 0, waiters |-> 1]
    <3>1. CASE SemOf(th[j]) = SemOf(th[i])
      BY <1>1, <1>7, <3>1
    <3>2. CASE SemOf(th[j]) # SemOf(th[i])
      <4>1. j # i /\ SemOf(th[j]) \in {"queued_msg", "free_msg"}
        BY <3>2 DEF SemOf
      <4>2. sem[SemOf(th[j])] = [counter |-> 0, waiters |-> 1]
        BY <1>1, <2>1, <4>1, WakeupsNow
      <4> QED BY <1>1, <1>7, <3>2, <4>1, <4>2
    <3> QED BY <3>1, <3>2
  <2>2. ASSUME NEW j \in Bufs, j # i, th[j].pc = "wait"
        PROVE  SemOf(th[j]) = SemOf(th[i])
    <3>1. CASE th[i].pc = "wait"
      BY <2>2, <3>1, WakeupsNow
    <3>2. CASE th[i].pc = "new"
      <4>1. ~ th[j].wakeup
        BY <3>2, WakeupsNow
      <4>2. sem[SemOf(th[j])].counter = 0
        <5>1. sem[SemOf(th[j])] = [counter |-> 0, waiters |-> 1]
          BY <2>2, <4>1, WakeupsNow
        <5> QED BY <5>1
      <4>3. sem[SemOf(th[i])].counter = 0
        <5>1. sem'[SemOf(th[i])].counter = 0
          <6>1. sem'[SemOf(th[i])] = [counter |-> 0, waiters |-> 1]
            BY <1>1
          <6> QED BY <6>1
        <5>2. \A r \in {"queued_msg", "free_msg"} : sem'[r].counter = sem[r].counter
          BY <1>1
        <5> QED BY <5>1, <5>2, SemName
      <4>4. ~ (sem["queued_msg"].counter = 0 /\ sem["free_msg"].counter = 0)
        BY Constants DEF IInv, MailboxExact
      <4> QED BY <4>2, <4>3, <4>4 DEF SemOf
    <3> QED BY <1>2, <3>1, <3>2
  <2>3. \A j, k \in Bufs : th'[j].pc = "wait" /\ th'[k].pc = "wait" =>
                           SemOf(th'[j]) = SemOf(th'[k])
    BY <1>1, <1>7, <2>2
  <2>4. \A j \in Bufs : th'[j].pc = "new" => j # i /\ th[j].pc = "new"
    BY <1>1
  <2>5. \A k \in Bufs : th'[k].wakeup => k # i /\ th[k].wakeup
    BY <1>1
  <2>6. \A j \in Bufs : th'[j].pc # "reply"
    BY <1>1, <1>2, WakeupsNow
  <2>7. \A j \in Bufs : th'[j].pc = "new" =>
              /\ Before(queue', cur', j) /\ serve'.pc = "loop" /\ serve'.i = 0
              /\ \A k \in Bufs : ~ th'[k].wakeup
    BY <1>1, <1>2, <2>4, <2>5, WakeupsNow
  <2>8. \A j, k \in Bufs : th'[j].pc = "new" /\ th'[k].pc = "new" => j = k
    BY <2>4, WakeupsNow
  <2>9. serve'.pc = "loop" /\ serve'.i > 0 =>
              \A j \in Bufs : th'[j].wakeup => Before(queue', cur', j)
    BY <1>1, <1>2, <2>5, WakeupsNow
  <2> QED BY <1>1, <2>1, <2>3, <2>6, <2>7, <2>8, <2>9, WakeupsNext
<1>9. ClientsOK'
  <2>1. \A j \in Bufs : IsCall(th'[j]) => IsCall(th[j]) /\ th'[j].whom = th[j].whom
    BY <1>1 DEF IsCall
  <2> QED BY <1>2, <2>1, ClientsKept DEF IInv
<1>10. OnePlace'
  <2>1. \A j \in Bufs : th'[j].pkt = th[j].pkt
    BY <1>1
  <2> QED BY <1>2, <2>1, PlacesKept DEF IInv
<1>11. BufferFound'
  BY <1>2, FoundKept DEF IInv
<1> QED BY <1>1, <1>4, <1>5, <1>6, <1>8, <1>9, <1>10, <1>11 DEF IInv

\* Two threads that differ in wakeup only are as sound.
LEMMA SameOK ==
    ASSUME NEW t \in ThreadT, NEW u \in ThreadT, Same(t, u), ThreadOK(u),
           t.wakeup => u.wakeup \/ u.pc = "wait"
    PROVE  ThreadOK(t)
<1>1. u = NoThread => t = NoThread
  BY DEF Same, ThreadT, NoThread, ThreadOK
<1>2. CASE u # NoThread
  BY <1>2 DEF Same, ThreadOK
<1>3. CASE u = NoThread
  BY <1>1, <1>3 DEF ThreadOK, NoThread
<1> QED BY <1>2, <1>3

\* sys_sem_wait on a that does not wait, and sys_sem_signal on b.
LEMMA SemStep ==
    ASSUME sem \in SemT, NEW a \in {"queued_msg", "free_msg"},
           NEW b \in {"queued_msg", "free_msg"}, a # b, NEW sm, NEW ts,
           sem[a].counter > 0, sem["queued_msg"].counter + sem["free_msg"].counter = MBOXSLOTS,
           sm = Take(a), sys_sem_signal(b, sm, ts)
    PROVE  /\ sm[b] = sem[b] /\ sem' \in SemT
           /\ sem'[b] = [counter |-> sem[b].counter + 1, waiters |-> 0]
           /\ sem'[b].counter = sem[b].counter + 1
           /\ sem'[a].counter = sem[a].counter - 1 /\ sem'[a].waiters = sem[a].waiters
<1>1. sem[a] \in Sems /\ sem[b] \in Sems
  BY DEF SemT
<1>2. PICK u : u = [sem[a] EXCEPT !.counter = sem[a].counter - 1]
  OBVIOUS
<1>3. u.counter = sem[a].counter - 1 /\ u.waiters = sem[a].waiters
  BY <1>1, <1>2 DEF Sems
<1>4. u \in Sems
  <2>1. sem[a].counter \in 0 .. MBOXSLOTS /\ MBOXSLOTS \in Nat
    BY <1>1, Constants DEF Sems
  <2>2. sem[a].counter - 1 \in 0 .. MBOXSLOTS
    BY <2>1
  <2> QED BY <1>1, <1>2, <2>2 DEF Sems
<1>5. sm = [sem EXCEPT ![a] = u]
  BY <1>2 DEF Take
<1>6. sm[b] = sem[b] /\ sm[a] = u /\ sm \in SemT
  BY <1>4, <1>5 DEF SemT
<1>7. PICK v : v = [counter |-> sem[b].counter + 1, waiters |-> 0]
  OBVIOUS
<1>8. v \in Sems /\ v.counter = sem[b].counter + 1
  <2>1. sem[a].counter \in 0 .. MBOXSLOTS /\ sem[b].counter \in 0 .. MBOXSLOTS /\ MBOXSLOTS \in Nat
    BY <1>1, Constants DEF Sems
  <2>2. sem[b].counter + 1 \in 0 .. MBOXSLOTS
    BY <2>1
  <2> QED BY <1>7, <2>2 DEF Sems
<1>9. sem' = [sm EXCEPT ![b] = v]
  BY <1>6, <1>7 DEF sys_sem_signal
<1>10. sem'[b] = v /\ sem'[a] = u /\ sem' \in SemT
  BY <1>6, <1>8, <1>9 DEF SemT
<1> QED BY <1>3, <1>6, <1>7, <1>8, <1>10

\* thread_halt: the next thread runs, the order of the others is kept.
LEMMA Halts ==
    ASSUME NEW i \in Bufs, cur = i, queue \in Seq(Runnable), Sched(queue, cur, Threads), Halt
    PROVE  /\ cur' \in Runnable /\ queue' \in Seq(Runnable)
           /\ Sched(queue', cur', Threads \ {i})
           /\ \A j : j # i /\ Before(queue, cur, j) => Before(queue', cur', j)
<1>1. i # Main /\ i \in Runnable /\ Sched(queue, i, Threads)
  BY Constants DEF Runnable
<1>2. Popped(queue, cur', queue')
  BY DEF Popped, Halt
<1>3. /\ cur' \in Runnable /\ queue' \in Seq(Runnable) /\ Sched(queue', cur', Less(Threads, i))
      /\ \A j : j # i /\ Before(queue, i, j) => Before(queue', cur', j)
  BY <1>1, <1>2, Dequeue
<1> QED BY <1>3 DEF Less

\* Input(i), piece by piece.
LEMMA InputEffect ==
    ASSUME IInv, NEW i \in Bufs, Input(i)
    PROVE  /\ TypeOK' /\ (\A j \in Bufs : ThreadOK(th[j]))'
           /\ th[i].pc \in {"new", "wait"} /\ th[i].pkt \in Pkts
           /\ th'[i] = NoThread
           /\ \A j \in Bufs : j # i => Same(th'[j], th[j])
           /\ \A j \in Bufs : j # i =>
                 (th'[j].wakeup <=> \/ th[j].wakeup
                                    \/ /\ sem["queued_msg"].waiters = 1
                                       /\ Waiting(th[j], "queued_msg"))
           /\ sem["free_msg"].counter > 0
           /\ MailboxExact' /\ mbox.nextq \in Slots /\ mbox.msg[mbox.nextq] = NoPkt
           /\ \A s \in Slots : mbox'.msg[s] = IF s = mbox.nextq THEN th[i].pkt ELSE mbox.msg[s]
           /\ Sched(queue', cur', Threads \ {i})
           /\ \A j : j # i /\ Before(queue, cur, j) => Before(queue', cur', j)
<1>1. /\ cur \in Runnable /\ queue \in Seq(Runnable) /\ th \in [Bufs -> ThreadT]
      /\ sem \in SemT /\ serve \in ServeT /\ buse \in SUBSET Bufs /\ mbox \in MboxT
  BY Typed
<1>2. /\ cur = i /\ i # Main /\ Sched(queue, cur, Threads)
      /\ cur' = Head(queue) /\ queue' = Tail(queue)
  BY SchedState, Constants DEF IInv, Input, SchedForm, Halt
<1>3. /\ cur' \in Runnable /\ queue' \in Seq(Runnable) /\ Sched(queue', cur', Threads \ {i})
      /\ \A j : j # i /\ Before(queue, cur, j) => Before(queue', cur', j)
  BY <1>1, <1>2, Halts DEF Input
<1>4. th[i] \in ThreadT /\ ThreadOK(th[i]) /\ th[i].type = "input"
  BY <1>1 DEF IInv, Input
<1>5. th[i].pc \in {"new", "wait"} /\ th[i].pkt \in Pkts
  BY <1>4, Somebody
<1>6. PICK ts : ts = [th EXCEPT ![i] = NoThread]
  OBVIOUS
<1>7. /\ ts \in [Bufs -> ThreadT] /\ ts[i] = NoThread
      /\ \A j \in Bufs : j # i => ts[j] = th[j]
  BY <1>1, <1>6, Constants
<1>8. PICK sm : sm = Take("free_msg")
  OBVIOUS
<1>9. /\ sem["queued_msg"] \in Sems /\ sem["free_msg"] \in Sems /\ sem["free_msg"].counter > 0
      /\ sem["queued_msg"].counter + sem["free_msg"].counter = MBOXSLOTS
  BY <1>1 DEF SemT, Input, IInv, MailboxExact
<1>10. sys_sem_signal("queued_msg", sm, ts)
  BY <1>6, <1>8 DEF Input
<1>11. /\ sm["queued_msg"] = sem["queued_msg"] /\ sem' \in SemT
       /\ sem'["queued_msg"].counter = sem["queued_msg"].counter + 1
       /\ sem'["free_msg"].counter = sem["free_msg"].counter - 1
  <2>1. "free_msg" # "queued_msg"
    OBVIOUS
  <2> QED BY <1>1, <1>8, <1>9, <1>10, <2>1, SemStep
<1>12. /\ th' \in [Bufs -> ThreadT]
       /\ \A j \in Bufs : Same(th'[j], ts[j])
       /\ \A j \in Bufs : th'[j].wakeup <=>
             ts[j].wakeup \/ (sm["queued_msg"].waiters = 1 /\ Waiting(ts[j], "queued_msg"))
       /\ \A j \in Bufs : ~ Waiting(ts[j], "queued_msg") => th'[j] = ts[j]
  BY <1>7, <1>10, SignalStep
<1>13. th'[i] = NoThread
  <2>1. ~ Waiting(ts[i], "queued_msg")
    BY <1>7, Nobody DEF Waiting
  <2> QED BY <1>7, <1>12, <2>1
<1>14. /\ \A j \in Bufs : j # i => Same(th'[j], th[j])
       /\ \A j \in Bufs : j # i =>
                 (th'[j].wakeup <=> \/ th[j].wakeup
                                    \/ /\ sem["queued_msg"].waiters = 1
                                       /\ Waiting(th[j], "queued_msg"))
  BY <1>7, <1>11, <1>12
<1>15. \A j \in Bufs : ThreadOK(th'[j])
  <2>1. ThreadOK(NoThread)
    BY Nobody
  <2>2. ASSUME NEW j \in Bufs, j # i PROVE ThreadOK(th'[j])
    <3>1. th'[j] \in ThreadT /\ th[j] \in ThreadT /\ ThreadOK(th[j])
      BY <1>1, <1>12 DEF IInv
    <3>2. th'[j].wakeup => th[j].wakeup \/ th[j].pc = "wait"
      BY <1>14, <2>2 DEF Waiting
    <3> QED BY <1>14, <2>2, <3>1, <3>2, SameOK
  <2> QED BY <1>13, <2>1, <2>2
<1>16. (\A j \in Bufs : ThreadOK(th[j]))'
  BY <1>15 DEF ThreadOK
<1>17. Box(mbox.head, mbox.nextq, mbox.msg, sem.queued_msg.counter, sem.free_msg.counter)
  BY MailboxBox DEF IInv, MailboxForm
<1>18. /\ mbox.head \in {-1} \cup Slots /\ mbox.nextq \in Slots
       /\ mbox.msg \in [Slots -> Pkts \cup {NoPkt}]
  BY <1>1 DEF MboxT
<1>19. sem.queued_msg.counter \in Nat /\ sem.free_msg.counter \in Nat /\ sem.free_msg.counter > 0
  BY <1>9, Constants DEF Sems
<1>20. /\ mbox.msg[mbox.nextq] = NoPkt
       /\ Box(IF mbox.head = -1 THEN mbox.nextq ELSE mbox.head, (mbox.nextq + 1) % MBOXSLOTS,
              [mbox.msg EXCEPT ![mbox.nextq] = th[i].pkt],
              sem.queued_msg.counter + 1, sem.free_msg.counter - 1)
  BY <1>5, <1>17, <1>18, <1>19, BoxPost
<1>22. /\ mbox'.head = IF mbox.head = -1 THEN mbox.nextq ELSE mbox.head
       /\ mbox'.nextq = (mbox.nextq + 1) % MBOXSLOTS
       /\ mbox'.msg = [mbox.msg EXCEPT ![mbox.nextq] = th[i].pkt]
       /\ mbox' \in MboxT
  <2>1. mbox' = [head |-> IF mbox.head = -1 THEN mbox.nextq ELSE mbox.head,
                nextq |-> (mbox.nextq + 1) % MBOXSLOTS,
                msg |-> [mbox.msg EXCEPT ![mbox.nextq] = th[i].pkt]]
    BY DEF Input
  <2>2. (mbox.nextq + 1) % MBOXSLOTS \in Slots
    <3>1. 1 \in 0 .. MBOXSLOTS
      BY Constants
    <3> QED BY <1>18, <3>1, Ring
  <2>3. [mbox.msg EXCEPT ![mbox.nextq] = th[i].pkt] \in [Slots -> Pkts \cup {NoPkt}]
    BY <1>5, <1>18
  <2> QED BY <1>18, <2>1, <2>2, <2>3 DEF MboxT
<1>23. TypeOK'
  BY <1>1, <1>3, <1>11, <1>12, <1>22, ServerTypes DEF IInv, Input
<1>24. MailboxExact'
  <2>1. Box(mbox'.head, mbox'.nextq, mbox'.msg, sem'.queued_msg.counter, sem'.free_msg.counter)
    BY <1>11, <1>20, <1>22
  <2>2. MailboxForm'
    BY MailboxBoxNext
  <2> QED BY <1>23, <2>1, <2>2 DEF MailboxForm, Box, Off, Slots
<1>25. \A s \in Slots : mbox'.msg[s] = IF s = mbox.nextq THEN th[i].pkt ELSE mbox.msg[s]
  BY <1>18, <1>22
<1> QED BY <1>3, <1>5, <1>9, <1>13, <1>14, <1>16, <1>18, <1>20, <1>23, <1>24, <1>25

\* A packet is posted: the invariant is kept.
LEMMA InputInv ==
    ASSUME IInv, NEW i \in Bufs, Input(i)
    PROVE  IInv'
<1>1. /\ TypeOK' /\ (\A j \in Bufs : ThreadOK(th[j]))'
      /\ th[i].pc \in {"new", "wait"} /\ th[i].pkt \in Pkts
      /\ th'[i] = NoThread
      /\ \A j \in Bufs : j # i => Same(th'[j], th[j])
      /\ \A j \in Bufs : j # i =>
            (th'[j].wakeup <=> \/ th[j].wakeup
                               \/ /\ sem["queued_msg"].waiters = 1
                                  /\ Waiting(th[j], "queued_msg"))
      /\ sem["free_msg"].counter > 0
      /\ MailboxExact' /\ mbox.nextq \in Slots /\ mbox.msg[mbox.nextq] = NoPkt
      /\ \A s \in Slots : mbox'.msg[s] = IF s = mbox.nextq THEN th[i].pkt ELSE mbox.msg[s]
      /\ Sched(queue', cur', Threads \ {i})
      /\ \A j : j # i /\ Before(queue, cur, j) => Before(queue', cur', j)
  BY InputEffect
<1>11. /\ th'[i] = NoThread
       /\ \A j \in Bufs : j # i => Same(th'[j], th[j])
  BY <1>1
<1>12. \A j \in Bufs : j # i =>
            (th'[j].wakeup <=> \/ th[j].wakeup
                               \/ /\ sem["queued_msg"].waiters = 1
                                  /\ Waiting(th[j], "queued_msg"))
  BY <1>1
<1>13. \A j \in Bufs : j # i => /\ th'[j].pc = th[j].pc /\ th'[j].type = th[j].type
                                /\ th'[j].pkt = th[j].pkt /\ th'[j].whom = th[j].whom
  BY <1>11 DEF Same
<1>14. th'[i].pc = "none" /\ th'[i].type = "none" /\ th'[i].pkt = NoPkt /\ ~ th'[i].wakeup
  BY <1>11, Nobody
<1>2. /\ cur = i /\ i # Main /\ th[i].type = "input" /\ Resumes(i)
      /\ serve' = serve /\ buse' = buse \ {i} /\ client' = client /\ input' = input
  BY Constants DEF Input
<1>3. /\ (th[i].pc = "new" /\ ~ th[i].wakeup) \/ (th[i].pc = "wait" /\ th[i].wakeup)
      /\ serve.pc = "loop"
  BY <1>1, <1>2, Resumed
<1>4. ServeOK'
  BY <1>2, <1>3, ServeKept DEF IInv
<1>5. BuffersExact'
  <2>1. ASSUME NEW j \in Bufs PROVE th'[j] # NoThread <=> j \in Threads \ {i}
    <3>1. CASE j = i
      BY <1>1, <3>1
    <3>2. CASE j # i
      <4>1. th'[j] # NoThread <=> th[j] # NoThread
        BY <1>1, <1>13, <3>2, StaysLive DEF IInv
      <4> QED BY <3>2, <4>1 DEF Threads
    <3> QED BY <3>1, <3>2
  <2>2. th[i] # NoThread
    BY <1>2, Nobody
  <2>3. /\ \A j \in Bufs : j \in buse <=> j \in Threads \/ j = serve.buf
        /\ \A j \in Bufs : j \in Threads => serve.buf # j
        /\ i \in Threads
    <3>1. /\ \A j \in Bufs : j \in buse <=> th[j] # NoThread \/ j = serve.buf
          /\ \A j \in Bufs : th[j] # NoThread => serve.buf # j
      BY SchedState DEF SchedForm, IInv
    <3> QED BY <2>2, <3>1 DEF Threads
  <2>4. /\ \A j \in Bufs : j \in buse' <=> j \in Threads \ {i} \/ j = serve'.buf
        /\ \A j \in Bufs : j \in Threads \ {i} => serve'.buf # j
    BY <1>2, <2>3
  <2>5. Threads \ {i} \in SUBSET Bufs
    BY DEF Threads
  <2> QED BY <1>1, <2>1, <2>4, <2>5, BuffersNext
<1>6. /\ \A j \in Bufs : th'[j].pc \in {"new", "wait", "reply"} => j # i /\ th'[j].pc = th[j].pc
      /\ \A j \in Bufs : j # i => SemOf(th'[j]) = SemOf(th[j])
      /\ ~ th'[i].wakeup
  <2>1. \A j \in Bufs : j # i => SemOf(th'[j]) = SemOf(th[j])
    BY <1>13 DEF SemOf
  <2> QED BY <1>13, <1>14, <2>1
<1>7. WakeupsOK'
  <2>1. ASSUME NEW j \in Bufs, th'[j].pc = "wait", ~ th'[j].wakeup
        PROVE  FALSE
    <3>1. j # i /\ th[j].pc = "wait" /\ ~ th[j].wakeup
      BY <1>6, <1>12, <2>1
    <3>2. sem[SemOf(th[j])] = [counter |-> 0, waiters |-> 1]
      BY <3>1, WakeupsNow
    <3>3. SemOf(th[j]) = "queued_msg"
      <4>1. sem[SemOf(th[j])].counter = 0
        BY <3>2
      <4>2. sem["free_msg"].counter # 0
        <5>1. sem["free_msg"].counter > 0
          BY <1>1
        <5>2. sem["free_msg"].counter \in Nat
          BY SemCounts
        <5> QED BY <5>1, <5>2
      <4> QED BY <4>1, <4>2, SemName
    <3>4. th'[j].wakeup
      <4>1. sem["queued_msg"] = [counter |-> 0, waiters |-> 1]
        BY <3>2, <3>3
      <4>3. sem["queued_msg"].waiters = 1
        BY <4>1
      <4>2. Waiting(th[j], "queued_msg")
        BY <3>1, <3>3 DEF Waiting
      <4> QED BY <1>12, <3>1, <4>2, <4>3
    <3> QED BY <2>1, <3>4
  <2>2. \A j, k \in Bufs : th'[j].pc = "wait" /\ th'[k].pc = "wait" =>
                           SemOf(th'[j]) = SemOf(th'[k])
    <3>1. \A j, k \in Bufs : th[j].pc = "wait" /\ th[k].pc = "wait" =>
                             SemOf(th[j]) = SemOf(th[k])
      BY WakeupsNow
    <3> QED BY <1>6, <3>1
  <2>3. \A j \in Bufs : th'[j].pc # "new"
    BY <1>3, <1>6, NewAlone
  <2>4. \A j \in Bufs : th'[j].pc # "reply"
    BY <1>2, <1>6, WakeupsNow
  <2>5. ASSUME serve'.pc = "loop", serve'.i > 0, NEW j \in Bufs, th'[j].wakeup
        PROVE  Before(queue', cur', j)
    <3>1. th[i].pc = "wait"
      <4>1. 0 \in Nat /\ serve.i > 0
        BY <1>2, <2>5
      <4>2. serve.i # 0
        BY <4>1
      <4> QED BY <1>3, <4>2, WakeupsNow
    <3>2. j # i
      BY <1>6, <2>5
    <3>3. ~ Waiting(th[j], "queued_msg")
      <4>1. SemOf(th[i]) = "free_msg"
        BY <1>2 DEF SemOf
      <4> QED BY <3>1, <4>1, WakeupsNow DEF Waiting
    <3>4. th[j].wakeup
      BY <1>12, <2>5, <3>2, <3>3
    <3>5. Before(queue, cur, j)
      BY <1>2, <2>5, <3>4, WakeupsNow
    <3> QED BY <1>1, <3>2, <3>5
  <2> QED BY <1>1, <2>1, <2>2, <2>3, <2>4, <2>5, WakeupsNext
<1>8. ClientsOK'
  <2>1. \A j \in Bufs : IsCall(th'[j]) => IsCall(th[j]) /\ th'[j].whom = th[j].whom
    BY <1>13, <1>14 DEF IsCall
  <2> QED BY <1>2, <2>1, ClientsKept DEF IInv
<1>9. OnePlace'
  <2>1. /\ \A j \in Bufs : j # i => th'[j].pkt = th[j].pkt
        /\ th'[i].pkt = NoPkt
    BY <1>13, <1>14
  <2>2. SUFFICES ASSUME NEW p \in Pkts
               PROVE  /\ \A s, t \in Slots : mbox'.msg[s] = p /\ mbox'.msg[t] = p => s = t
                      /\ \A k, j \in Bufs : th'[k].pkt = p /\ th'[j].pkt = p => k = j
                      /\ \A s \in Slots, j \in Bufs : ~ (mbox'.msg[s] = p /\ th'[j].pkt = p)
                      /\ p = serve'.msg.pkt \/ p = input' =>
                            /\ \A s \in Slots : mbox'.msg[s] # p
                            /\ \A j \in Bufs : th'[j].pkt # p
                      /\ serve'.msg.pkt = p => input' # p
    <3>1. OnePlaceForm'
      BY OnePlaceNext
    <3> QED BY <3>1 DEF OnePlaceForm, Slots, Bufs
  <2>3. p # NoPkt
    BY Constants
  <2>4. /\ \A j \in Bufs : th'[j].pkt = p => j # i /\ th[j].pkt = p
        /\ \A s \in Slots : mbox'.msg[s] = p =>
              (s = mbox.nextq /\ th[i].pkt = p) \/ (s # mbox.nextq /\ mbox.msg[s] = p)
    BY <1>1, <2>1, <2>3
  <2>5. /\ \A s, t \in Slots : mbox.msg[s] = p /\ mbox.msg[t] = p => s = t
        /\ \A k, j \in Bufs : th[k].pkt = p /\ th[j].pkt = p => k = j
        /\ \A s \in Slots, j \in Bufs : ~ (mbox.msg[s] = p /\ th[j].pkt = p)
        /\ p = serve.msg.pkt \/ p = input =>
              (\A s \in Slots : mbox.msg[s] # p) /\ (\A j \in Bufs : th[j].pkt # p)
        /\ serve.msg.pkt = p => input # p
    BY PlacesNow DEF IInv
  <2>6. ASSUME NEW s \in Slots, NEW t \in Slots, mbox'.msg[s] = p, mbox'.msg[t] = p
        PROVE  s = t
    BY <2>4, <2>5, <2>6
  <2>7. \A s \in Slots, j \in Bufs : ~ (mbox'.msg[s] = p /\ th'[j].pkt = p)
    BY <2>4, <2>5
  <2>8. p = serve'.msg.pkt \/ p = input' =>
           (\A s \in Slots : mbox'.msg[s] # p) /\ (\A j \in Bufs : th'[j].pkt # p)
    BY <1>2, <2>4, <2>5
  <2> QED BY <1>2, <2>4, <2>5, <2>6, <2>7, <2>8
<1>10. BufferFound'
  BY <1>2, FoundKept DEF IInv
<1> QED BY <1>1, <1>4, <1>5, <1>7, <1>8, <1>9, <1>10 DEF IInv

\* Recv(i), piece by piece.
LEMMA RecvEffect ==
    ASSUME IInv, NEW i \in Bufs, Recv(i)
    PROVE  /\ TypeOK' /\ (\A j \in Bufs : ThreadOK(th[j]))'
           /\ th'[i].pc = "reply" /\ ~ th'[i].wakeup /\ th'[i].type = "recv"
           /\ th'[i].whom = th[i].whom /\ th'[i].pkt = mbox.msg[mbox.head]
           /\ \A j \in Bufs : j # i => Same(th'[j], th[j])
           /\ \A j \in Bufs : j # i =>
                 (th'[j].wakeup <=> \/ th[j].wakeup
                                    \/ /\ sem["free_msg"].waiters = 1
                                       /\ Waiting(th[j], "free_msg"))
           /\ sem["queued_msg"].counter > 0
           /\ MailboxExact' /\ mbox.head \in Slots
           /\ \A s \in Slots : mbox'.msg[s] = IF s = mbox.head THEN NoPkt ELSE mbox.msg[s]
<1>1. /\ cur \in Runnable /\ queue \in Seq(Runnable) /\ th \in [Bufs -> ThreadT]
      /\ sem \in SemT /\ serve \in ServeT /\ buse \in SUBSET Bufs /\ mbox \in MboxT
  BY Typed
<1>2. /\ cur' = cur /\ queue' = queue /\ serve' = serve /\ buse' = buse
  BY DEF Recv
<1>3. th[i] \in ThreadT /\ ThreadOK(th[i]) /\ th[i].type = "recv"
  BY <1>1 DEF IInv, Recv
<1>4. th[i].whom \in Clients
  BY <1>3, Somebody
<1>5. /\ mbox.head \in {-1} \cup Slots /\ mbox.nextq \in Slots
      /\ mbox.msg \in [Slots -> Pkts \cup {NoPkt}]
  BY <1>1 DEF MboxT
<1>6. Box(mbox.head, mbox.nextq, mbox.msg, sem.queued_msg.counter, sem.free_msg.counter)
  BY MailboxBox DEF IInv, MailboxForm
<1>7. /\ sem["queued_msg"] \in Sems /\ sem["free_msg"] \in Sems /\ sem["queued_msg"].counter > 0
      /\ sem["queued_msg"].counter + sem["free_msg"].counter = MBOXSLOTS
  <2>1. sem["queued_msg"] \in Sems /\ sem["free_msg"] \in Sems
    BY <1>1 DEF SemT
  <2>2. sem["queued_msg"].counter > 0
    BY DEF Recv
  <2>3. sem["queued_msg"].counter + sem["free_msg"].counter = MBOXSLOTS
    <3>1. MailboxExact
      BY DEF IInv
    <3> QED BY <3>1 DEF MailboxExact
  <2> QED BY <2>1, <2>2, <2>3
<1>8. sem.queued_msg.counter \in Nat /\ sem.free_msg.counter \in Nat /\ sem.queued_msg.counter > 0
  BY <1>7, Constants DEF Sems
<1>9. /\ mbox.head \in Slots /\ mbox.msg[mbox.head] # NoPkt
      /\ (mbox.head + 1) % MBOXSLOTS \in Slots
      /\ Box(IF (mbox.head + 1) % MBOXSLOTS = mbox.nextq THEN -1
             ELSE (mbox.head + 1) % MBOXSLOTS, mbox.nextq,
             [mbox.msg EXCEPT ![mbox.head] = NoPkt],
             sem.queued_msg.counter - 1, sem.free_msg.counter + 1)
  BY <1>5, <1>6, <1>8, BoxFetch
<1>10. mbox.msg[mbox.head] \in Pkts
  BY <1>5, <1>9
<1>11. PICK ts : ts = [th EXCEPT ![i].pkt = mbox.msg[mbox.head], ![i].pc = "reply",
                                 ![i].wakeup = FALSE]
  OBVIOUS
<1>12. /\ ts[i] = [th[i] EXCEPT !.pkt = mbox.msg[mbox.head], !.pc = "reply", !.wakeup = FALSE]
       /\ \A j \in Bufs : j # i => ts[j] = th[j]
  BY <1>1, <1>11
<1>13. /\ ts[i] \in ThreadT /\ ts[i].pkt = mbox.msg[mbox.head] /\ ts[i].pc = "reply"
       /\ ts[i].wakeup = FALSE /\ ts[i].type = "recv" /\ ts[i].whom = th[i].whom
  BY <1>3, <1>10, <1>12 DEF ThreadT
<1>14. ts \in [Bufs -> ThreadT]
  BY <1>1, <1>11, <1>12, <1>13
<1>15. PICK sm : sm = Take("queued_msg")
  OBVIOUS
<1>16. sys_sem_signal("free_msg", sm, ts)
  BY <1>11, <1>15 DEF Recv
<1>17. /\ sm["free_msg"] = sem["free_msg"] /\ sem' \in SemT
       /\ sem'["free_msg"].counter = sem["free_msg"].counter + 1
       /\ sem'["queued_msg"].counter = sem["queued_msg"].counter - 1
  <2>1. "free_msg" # "queued_msg"
    OBVIOUS
  <2> QED BY <1>1, <1>7, <1>15, <1>16, <2>1, SemStep
<1>18. /\ th' \in [Bufs -> ThreadT]
       /\ \A j \in Bufs : Same(th'[j], ts[j])
       /\ \A j \in Bufs : th'[j].wakeup <=>
             ts[j].wakeup \/ (sm["free_msg"].waiters = 1 /\ Waiting(ts[j], "free_msg"))
       /\ \A j \in Bufs : ~ Waiting(ts[j], "free_msg") => th'[j] = ts[j]
  BY <1>14, <1>16, SignalStep
<1>19. th'[i] = ts[i]
  BY <1>13, <1>18 DEF Waiting
<1>20. /\ \A j \in Bufs : j # i => Same(th'[j], th[j])
       /\ \A j \in Bufs : j # i =>
                 (th'[j].wakeup <=> \/ th[j].wakeup
                                    \/ /\ sem["free_msg"].waiters = 1
                                       /\ Waiting(th[j], "free_msg"))
  BY <1>12, <1>17, <1>18
<1>21. \A j \in Bufs : ThreadOK(th'[j])
  <2>1. ThreadOK(ts[i])
    BY <1>4, <1>13 DEF ThreadOK
  <2>2. ASSUME NEW j \in Bufs, j # i PROVE ThreadOK(th'[j])
    <3>1. th'[j] \in ThreadT /\ th[j] \in ThreadT /\ ThreadOK(th[j])
      BY <1>1, <1>18 DEF IInv
    <3>2. th'[j].wakeup => th[j].wakeup \/ th[j].pc = "wait"
      BY <1>20, <2>2 DEF Waiting
    <3> QED BY <1>20, <2>2, <3>1, <3>2, SameOK
  <2> QED BY <1>19, <2>1, <2>2
<1>22. (\A j \in Bufs : ThreadOK(th[j]))'
  BY <1>21 DEF ThreadOK
<1>23. /\ mbox'.head = IF (mbox.head + 1) % MBOXSLOTS = mbox.nextq THEN -1
                       ELSE (mbox.head + 1) % MBOXSLOTS
       /\ mbox'.nextq = mbox.nextq
       /\ mbox'.msg = [mbox.msg EXCEPT ![mbox.head] = NoPkt]
       /\ mbox' \in MboxT
  <2>1. PICK f : f = [mbox.msg EXCEPT ![mbox.head] = NoPkt]
    OBVIOUS
  <2>2. f \in [Slots -> Pkts \cup {NoPkt}]
    BY <1>5, <2>1
  <2>3. mbox' = [mbox EXCEPT !.head = IF (mbox.head + 1) % MBOXSLOTS = mbox.nextq THEN -1
                                      ELSE (mbox.head + 1) % MBOXSLOTS,
                             !.msg = f]
    BY <2>1 DEF Recv
  <2> QED BY <1>1, <1>9, <2>1, <2>2, <2>3 DEF MboxT
<1>24. TypeOK'
  BY <1>1, <1>2, <1>17, <1>18, <1>23, ServerTypes DEF IInv, Recv
<1>25. MailboxExact'
  <2>1. Box(mbox'.head, mbox'.nextq, mbox'.msg, sem'.queued_msg.counter, sem'.free_msg.counter)
    BY <1>9, <1>17, <1>23
  <2>2. MailboxForm'
    BY MailboxBoxNext
  <2> QED BY <1>24, <2>1, <2>2 DEF MailboxForm, Box, Off, Slots
<1>26. \A s \in Slots : mbox'.msg[s] = IF s = mbox.head THEN NoPkt ELSE mbox.msg[s]
  BY <1>5, <1>9, <1>23
<1> QED BY <1>7, <1>9, <1>13, <1>19, <1>20, <1>22, <1>24, <1>25, <1>26

\* A packet is fetched: the invariant is kept.
LEMMA RecvInv ==
    ASSUME IInv, NEW i \in Bufs, Recv(i)
    PROVE  IInv'
<1>1. /\ TypeOK' /\ (\A j \in Bufs : ThreadOK(th[j]))'
      /\ th'[i].pc = "reply" /\ ~ th'[i].wakeup /\ th'[i].type = "recv"
      /\ th'[i].whom = th[i].whom /\ th'[i].pkt = mbox.msg[mbox.head]
      /\ \A j \in Bufs : j # i => Same(th'[j], th[j])
      /\ \A j \in Bufs : j # i =>
            (th'[j].wakeup <=> \/ th[j].wakeup
                               \/ /\ sem["free_msg"].waiters = 1
                                  /\ Waiting(th[j], "free_msg"))
      /\ sem["queued_msg"].counter > 0
      /\ MailboxExact' /\ mbox.head \in Slots
      /\ \A s \in Slots : mbox'.msg[s] = IF s = mbox.head THEN NoPkt ELSE mbox.msg[s]
  BY RecvEffect
<1>11. \A j \in Bufs : j # i => /\ th'[j].pc = th[j].pc /\ th'[j].type = th[j].type
                                /\ th'[j].pkt = th[j].pkt /\ th'[j].whom = th[j].whom
  <2>1. \A j \in Bufs : j # i => Same(th'[j], th[j])
    BY <1>1
  <2> QED BY <2>1 DEF Same
<1>12. \A j \in Bufs : j # i =>
            (th'[j].wakeup <=> \/ th[j].wakeup
                               \/ /\ sem["free_msg"].waiters = 1
                                  /\ Waiting(th[j], "free_msg"))
  BY <1>1
<1>13. /\ th'[i].pc = "reply" /\ ~ th'[i].wakeup /\ th'[i].type = "recv"
       /\ th'[i].whom = th[i].whom /\ th'[i].pkt = mbox.msg[mbox.head]
  BY <1>1
<1>2. /\ cur = i /\ i # Main /\ th[i].type = "recv" /\ Resumes(i) /\ th[i].pc \in {"new", "wait"}
      /\ cur' = cur /\ queue' = queue
      /\ serve' = serve /\ buse' = buse /\ client' = client /\ input' = input
  BY Constants DEF Recv
<1>3. /\ (th[i].pc = "new" /\ ~ th[i].wakeup) \/ (th[i].pc = "wait" /\ th[i].wakeup)
      /\ serve.pc = "loop"
  BY <1>2, Resumed
<1>4. ServeOK'
  BY <1>2, <1>3, ServeKept DEF IInv
<1>5. BuffersExact'
  <2>1. \A j \in Bufs : th'[j].type = th[j].type
    BY <1>2, <1>11, <1>13
  <2>2. \A j \in Bufs : th'[j] # NoThread <=> j \in Threads
    BY <1>1, <2>1, StaysLive DEF IInv, Threads
  <2>3. /\ \A j \in Bufs : j \in buse' <=> j \in Threads \/ j = serve'.buf
        /\ \A j \in Bufs : j \in Threads => serve'.buf # j
        /\ Sched(queue', cur', Threads)
    <3>1. /\ \A j \in Bufs : j \in buse <=> th[j] # NoThread \/ j = serve.buf
          /\ \A j \in Bufs : th[j] # NoThread => serve.buf # j
          /\ Sched(queue, cur, Threads)
      BY SchedState DEF SchedForm, IInv
    <3> QED BY <1>2, <3>1 DEF Threads
  <2>4. Threads \in SUBSET Bufs
    BY DEF Threads
  <2> QED BY <1>1, <2>2, <2>3, <2>4, BuffersNext
<1>6. /\ \A j \in Bufs : th'[j].pc \in {"new", "wait"} => j # i /\ th'[j].pc = th[j].pc
      /\ \A j \in Bufs : j # i => SemOf(th'[j]) = SemOf(th[j])
  <2>1. \A j \in Bufs : j # i => SemOf(th'[j]) = SemOf(th[j])
    BY <1>11 DEF SemOf
  <2> QED BY <1>11, <1>13, <2>1
<1>7. WakeupsOK'
  <2>1. ASSUME NEW j \in Bufs, th'[j].pc = "wait", ~ th'[j].wakeup
        PROVE  FALSE
    <3>1. j # i /\ th[j].pc = "wait" /\ ~ th[j].wakeup
      BY <1>6, <1>12, <2>1
    <3>2. sem[SemOf(th[j])] = [counter |-> 0, waiters |-> 1]
      BY <3>1, WakeupsNow
    <3>3. SemOf(th[j]) = "free_msg"
      <4>1. sem[SemOf(th[j])].counter = 0
        BY <3>2
      <4>2. sem["queued_msg"].counter # 0
        <5>1. sem["queued_msg"].counter > 0
          BY <1>1
        <5>2. sem["queued_msg"].counter \in Nat
          BY SemCounts
        <5> QED BY <5>1, <5>2
      <4> QED BY <4>1, <4>2, SemName
    <3>4. th'[j].wakeup
      <4>1. sem["free_msg"] = [counter |-> 0, waiters |-> 1]
        BY <3>2, <3>3
      <4>3. sem["free_msg"].waiters = 1
        BY <4>1
      <4>2. Waiting(th[j], "free_msg")
        BY <3>1, <3>3 DEF Waiting
      <4> QED BY <1>12, <3>1, <4>2, <4>3
    <3> QED BY <2>1, <3>4
  <2>2. \A j, k \in Bufs : th'[j].pc = "wait" /\ th'[k].pc = "wait" =>
                           SemOf(th'[j]) = SemOf(th'[k])
    <3>1. \A j, k \in Bufs : th[j].pc = "wait" /\ th[k].pc = "wait" =>
                             SemOf(th[j]) = SemOf(th[k])
      BY WakeupsNow
    <3> QED BY <1>6, <3>1
  <2>3. \A j \in Bufs : th'[j].pc # "new"
    BY <1>3, <1>6, NewAlone
  <2>4. \A j \in Bufs : th'[j].pc = "reply" => cur' = j
    <3>1. \A j \in Bufs : th[j].pc = "reply" => cur = j
      BY WakeupsNow
    <3> QED BY <1>2, <1>11, <3>1
  <2>5. ASSUME serve'.pc = "loop", serve'.i > 0, NEW j \in Bufs, th'[j].wakeup
        PROVE  Before(queue', cur', j)
    <3>1. th[i].pc = "wait"
      <4>1. 0 \in Nat /\ serve.i > 0
        BY <1>2, <2>5
      <4>2. serve.i # 0
        BY <4>1
      <4> QED BY <1>3, <4>2, WakeupsNow
    <3>2. j # i
      BY <1>13, <2>5
    <3>3. ~ Waiting(th[j], "free_msg")
      <4>1. SemOf(th[i]) = "queued_msg"
        BY <1>2 DEF SemOf
      <4> QED BY <3>1, <4>1, WakeupsNow DEF Waiting
    <3>4. th[j].wakeup
      BY <1>12, <2>5, <3>2, <3>3
    <3> QED BY <1>2, <2>5, <3>4, WakeupsNow
  <2> QED BY <1>1, <2>1, <2>2, <2>3, <2>4, <2>5, WakeupsNext
<1>8. ClientsOK'
  <2>1. \A j \in Bufs : IsCall(th'[j]) => IsCall(th[j]) /\ th'[j].whom = th[j].whom
    BY <1>2, <1>11, <1>13 DEF IsCall
  <2> QED BY <1>2, <2>1, ClientsKept DEF IInv
<1>9. OnePlace'
  <2>1. \A j \in Bufs : j # i => th'[j].pkt = th[j].pkt
    BY <1>11
  <2>2. SUFFICES ASSUME NEW p \in Pkts
               PROVE  /\ \A s, t \in Slots : mbox'.msg[s] = p /\ mbox'.msg[t] = p => s = t
                      /\ \A k, j \in Bufs : th'[k].pkt = p /\ th'[j].pkt = p => k = j
                      /\ \A s \in Slots, j \in Bufs : ~ (mbox'.msg[s] = p /\ th'[j].pkt = p)
                      /\ p = serve'.msg.pkt \/ p = input' =>
                            /\ \A s \in Slots : mbox'.msg[s] # p
                            /\ \A j \in Bufs : th'[j].pkt # p
                      /\ serve'.msg.pkt = p => input' # p
    <3>1. OnePlaceForm'
      BY OnePlaceNext
    <3> QED BY <3>1 DEF OnePlaceForm, Slots, Bufs
  <2>3. p # NoPkt
    BY Constants
  <2>4. /\ \A j \in Bufs : th'[j].pkt = p =>
              (j = i /\ mbox.msg[mbox.head] = p) \/ (j # i /\ th[j].pkt = p)
        /\ \A s \in Slots : mbox'.msg[s] = p => s # mbox.head /\ mbox.msg[s] = p
    BY <1>1, <2>1, <2>3
  <2>5. /\ \A s, t \in Slots : mbox.msg[s] = p /\ mbox.msg[t] = p => s = t
        /\ \A k, j \in Bufs : th[k].pkt = p /\ th[j].pkt = p => k = j
        /\ \A s \in Slots, j \in Bufs : ~ (mbox.msg[s] = p /\ th[j].pkt = p)
        /\ p = serve.msg.pkt \/ p = input =>
              (\A s \in Slots : mbox.msg[s] # p) /\ (\A j \in Bufs : th[j].pkt # p)
        /\ serve.msg.pkt = p => input # p
    BY PlacesNow DEF IInv
  <2>6. mbox.head \in Slots
    BY <1>1
  <2>7. \A k, j \in Bufs : th'[k].pkt = p /\ th'[j].pkt = p => k = j
    BY <2>4, <2>5, <2>6
  <2>8. \A s \in Slots, j \in Bufs : ~ (mbox'.msg[s] = p /\ th'[j].pkt = p)
    BY <2>4, <2>5, <2>6
  <2>9. p = serve'.msg.pkt \/ p = input' =>
           (\A s \in Slots : mbox'.msg[s] # p) /\ (\A j \in Bufs : th'[j].pkt # p)
    BY <1>2, <2>4, <2>5, <2>6
  <2> QED BY <1>2, <2>4, <2>5, <2>7, <2>8, <2>9
<1>10. BufferFound'
  BY <1>2, FoundKept DEF IInv
<1> QED BY <1>1, <1>4, <1>5, <1>7, <1>8, <1>9, <1>10 DEF IInv

\* A call that does not wait: the invariant is kept.
LEMMA CallInv ==
    ASSUME IInv, NEW i \in Bufs, Call(i)
    PROVE  IInv'
<1>1. /\ cur \in Runnable /\ queue \in Seq(Runnable) /\ th \in [Bufs -> ThreadT]
      /\ sem \in SemT /\ serve \in ServeT /\ buse \in SUBSET Bufs /\ mbox \in MboxT
  BY Typed
<1>2. /\ cur = i /\ th[i].type = "call" /\ th[i].pc = "new"
      /\ th' = [th EXCEPT ![i].pc = "reply"]
      /\ cur' = cur /\ queue' = queue /\ serve' = serve /\ buse' = buse /\ sem' = sem
      /\ mbox' = mbox /\ client' = client /\ input' = input
  BY DEF Call
<1>3. /\ \A j \in Bufs : j # i => th'[j] = th[j]
      /\ th'[i] = [th[i] EXCEPT !.pc = "reply"] /\ th[i] \in ThreadT /\ ThreadOK(th[i])
  BY <1>1, <1>2 DEF IInv
<1>4. /\ th'[i] \in ThreadT /\ th'[i].pc = "reply" /\ th'[i].type = th[i].type
      /\ th'[i].whom = th[i].whom /\ th'[i].pkt = th[i].pkt /\ th'[i].wakeup = th[i].wakeup
  BY <1>3 DEF ThreadT
<1>5. TypeOK'
  <2>1. th' \in [Bufs -> ThreadT]
    BY <1>1, <1>2, <1>3, <1>4
  <2> QED BY <1>1, <1>2, <2>1, ServerTypes DEF IInv, Call
<1>6. (\A j \in Bufs : ThreadOK(th[j]))'
  <2>1. ThreadOK(th'[i])
    BY <1>2, <1>3, <1>4 DEF ThreadOK, NoThread
  <2>2. \A j \in Bufs : ThreadOK(th'[j])
    BY <1>3, <2>1 DEF IInv
  <2> QED BY <2>2 DEF ThreadOK
<1>7. \A j \in Bufs : th'[j].type = th[j].type /\ th'[j].pkt = th[j].pkt
                      /\ th'[j].whom = th[j].whom /\ th'[j].wakeup = th[j].wakeup
  BY <1>3, <1>4
<1>8. ServeOK'
  BY <1>2, <1>7, ServeKept DEF IInv, ServeOK, thread_wakeups_pending
<1>9. BuffersExact'
  <2>1. \A j \in Bufs : th'[j] # NoThread <=> j \in Threads
    BY <1>5, <1>6, <1>7, StaysLive DEF IInv, Threads
  <2>2. /\ \A j \in Bufs : j \in buse' <=> j \in Threads \/ j = serve'.buf
        /\ \A j \in Bufs : j \in Threads => serve'.buf # j
        /\ Sched(queue', cur', Threads)
    BY <1>2, SchedState DEF SchedForm, IInv, Threads
  <2>3. Threads \in SUBSET Bufs
    BY DEF Threads
  <2> QED BY <1>5, <2>1, <2>2, <2>3, BuffersNext
<1>10. MailboxExact'
  BY <1>2, <1>5, MailboxKept DEF IInv
<1>11. WakeupsOK'
  <2>1. \A j \in Bufs : th'[j].pc \in {"new", "wait"} => j # i /\ th[j] = th'[j]
    BY <1>3, <1>4
  <2>2. \A j \in Bufs : th'[j].pc = "reply" => cur' = j
    BY <1>2, <1>3, WakeupsNow
  <2> QED BY <1>2, <1>5, <1>7, <2>1, <2>2, WakeupsNow, WakeupsNext
<1>12. ClientsOK'
  <2>1. \A j \in Bufs : IsCall(th'[j]) => IsCall(th[j]) /\ th'[j].whom = th[j].whom
    BY <1>7 DEF IsCall
  <2> QED BY <1>2, <2>1, ClientsKept DEF IInv
<1>13. OnePlace'
  BY <1>2, <1>7, PlacesKept DEF IInv
<1>14. BufferFound'
  BY <1>2, FoundKept DEF IInv
<1> QED BY <1>5, <1>6, <1>8, <1>9, <1>10, <1>11, <1>12, <1>13, <1>14 DEF IInv

\* The answer goes to the client, the thread ends: the invariant is kept.
LEMMA ReplyInv ==
    ASSUME IInv, NEW i \in Bufs, Reply(i)
    PROVE  IInv'
<1>1. /\ cur \in Runnable /\ queue \in Seq(Runnable) /\ th \in [Bufs -> ThreadT]
      /\ sem \in SemT /\ serve \in ServeT /\ buse \in SUBSET Bufs /\ mbox \in MboxT
      /\ client \in [Clients -> {"user", "sent", "recv"}]
  BY Typed
<1>2. /\ cur = i /\ i # Main /\ th[i].pc = "reply" /\ th' = [th EXCEPT ![i] = NoThread]
      /\ client' = [client EXCEPT ![th[i].whom] = "user"] /\ buse' = buse \ {i}
      /\ serve' = serve /\ sem' = sem /\ mbox' = mbox /\ input' = input /\ timer' = timer
  BY Constants DEF Reply
<1>3. /\ \A j \in Bufs : j # i => th'[j] = th[j]
      /\ th'[i] = NoThread /\ th' \in [Bufs -> ThreadT]
  BY <1>1, <1>2, Constants
<1>4. /\ cur' \in Runnable /\ queue' \in Seq(Runnable) /\ Sched(queue', cur', Threads \ {i})
      /\ \A j : j # i /\ Before(queue, cur, j) => Before(queue', cur', j)
  BY <1>1, <1>2, Halts, SchedState DEF Reply, IInv, SchedForm
<1>5. TypeOK'
  <2>1. client' \in [Clients -> {"user", "sent", "recv"}]
    BY <1>1, <1>2
  <2>2. TypesForm'
    BY TypesNext
  <2> QED BY <1>1, <1>2, <1>3, <1>4, <2>1, <2>2, Types
          DEF IInv, TypesForm, ServeT, MsgT, Runnable, ThreadT, SemT, Sems, MboxT, Bufs, Slots
<1>6. (\A j \in Bufs : ThreadOK(th[j]))'
  <2>1. ThreadOK(th'[i])
    BY <1>3, Nobody
  <2>2. \A j \in Bufs : ThreadOK(th'[j])
    BY <1>3, <2>1 DEF IInv
  <2> QED BY <2>2 DEF ThreadOK
<1>7. \A j \in Bufs : j = i => th'[j].pc = "none" /\ ~ th'[j].wakeup /\ th'[j].type = "none"
                               /\ th'[j].pkt = NoPkt
  BY <1>3, Nobody
<1>8. ServeOK'
  <2>1. serve.pc \notin {"recv", "got", "panic"}
    BY <1>2 DEF IInv, ServeOK
  <2>2. serve.pc = "timed" => \A j \in Bufs : ~ th'[j].wakeup
    BY <1>3, <1>7 DEF IInv, ServeOK, thread_wakeups_pending
  <2> QED BY <1>2, <2>1, <2>2, ServeKept DEF IInv
<1>9. BuffersExact'
  <2>1. \A j \in Bufs : th'[j] # NoThread <=> j \in Threads \ {i}
    BY <1>3 DEF Threads
  <2>2. th[i] # NoThread
    BY <1>2, Nobody
  <2>3. /\ \A j \in Bufs : j \in buse <=> j \in Threads \/ j = serve.buf
        /\ \A j \in Bufs : j \in Threads => serve.buf # j
        /\ i \in Threads
    <3>1. /\ \A j \in Bufs : j \in buse <=> th[j] # NoThread \/ j = serve.buf
          /\ \A j \in Bufs : th[j] # NoThread => serve.buf # j
      BY SchedState DEF SchedForm, IInv
    <3> QED BY <2>2, <3>1 DEF Threads
  <2>4. /\ \A j \in Bufs : j \in buse' <=> j \in Threads \ {i} \/ j = serve'.buf
        /\ \A j \in Bufs : j \in Threads \ {i} => serve'.buf # j
    BY <1>2, <2>3
  <2>5. Threads \ {i} \in SUBSET Bufs
    BY DEF Threads
  <2> QED BY <1>4, <1>5, <2>1, <2>4, <2>5, BuffersNext
<1>10. MailboxExact'
  BY <1>2, <1>5, MailboxKept DEF IInv
<1>11. WakeupsOK'
  <2>1. \A j \in Bufs : th'[j].pc \in {"new", "wait", "reply"} \/ th'[j].wakeup
                        => j # i /\ th[j] = th'[j]
    BY <1>3, <1>7
  <2>2. \A j \in Bufs : th'[j].pc # "reply"
    BY <1>2, <2>1, WakeupsNow
  <2>3. \A j \in Bufs : th'[j].pc = "new" =>
              /\ Before(queue', cur', j) /\ serve'.pc = "loop" /\ serve'.i = 0
              /\ \A k \in Bufs : ~ th'[k].wakeup
    BY <1>2, <1>4, <2>1, WakeupsNow
  <2>4. serve'.pc = "loop" /\ serve'.i > 0 =>
              \A j \in Bufs : th'[j].wakeup => Before(queue', cur', j)
    BY <1>2, <1>4, <2>1, WakeupsNow
  <2>5. /\ \A j \in Bufs : th'[j].pc = "wait" /\ ~ th'[j].wakeup =>
              sem'[SemOf(th'[j])] = [counter |-> 0, waiters |-> 1]
        /\ \A j, k \in Bufs : th'[j].pc = "wait" /\ th'[k].pc = "wait" =>
              SemOf(th'[j]) = SemOf(th'[k])
        /\ \A j, k \in Bufs : th'[j].pc = "new" /\ th'[k].pc = "new" => j = k
    <3>1. \A j \in Bufs : th[j].pc = "wait" /\ ~ th[j].wakeup =>
             sem[SemOf(th[j])] = [counter |-> 0, waiters |-> 1]
      BY WakeupsNow
    <3>2. /\ \A j, k \in Bufs : th[j].pc = "wait" /\ th[k].pc = "wait" =>
                SemOf(th[j]) = SemOf(th[k])
          /\ \A j, k \in Bufs : th[j].pc = "new" /\ th[k].pc = "new" => j = k
      BY WakeupsNow
    <3>3. \A j \in Bufs : th'[j].pc = "wait" /\ ~ th'[j].wakeup =>
             sem'[SemOf(th'[j])] = [counter |-> 0, waiters |-> 1]
      <4>1. sem' = sem
        BY <1>2
      <4> QED BY <2>1, <3>1, <4>1
    <3> QED BY <2>1, <3>2, <3>3
  <2> QED BY <1>5, <2>2, <2>3, <2>4, <2>5, WakeupsNext
<1>12. ClientsOK'
  <2>1. IsCall(th[i]) /\ th[i].whom \in Clients
    <3>1. ThreadOK(th[i]) /\ th[i].pc = "reply"
      BY <1>2 DEF IInv
    <3>2. th[i].type \in {"recv", "call"} /\ th[i].whom \in Clients
      BY <3>1, Somebody
    <3> QED BY <3>2 DEF IsCall
  <2>2. \A j \in Bufs : IsCall(th'[j]) => j # i /\ th'[j] = th[j] /\ IsCall(th[j])
    BY <1>3, <1>7 DEF IsCall
  <2>3. \A c \in Clients : c # th[i].whom => client'[c] = client[c]
    BY <1>1, <1>2
  <2>4. \A j \in Bufs : IsCall(th[j]) => th[j].whom \in Clients
    BY CallWhom
  <2>5. \A j \in Bufs : IsCall(th'[j]) => client'[th'[j].whom] # "user"
    BY <2>1, <2>2, <2>3, <2>4 DEF IInv, ClientsOK
  <2>6. \A j, k \in Bufs : IsCall(th'[j]) /\ IsCall(th'[k]) /\ th'[j].whom = th'[k].whom => j = k
    BY <2>2 DEF IInv, ClientsOK
  <2>7. IsCall(serve'.msg) => /\ serve'.msg.whom \in Clients /\ client'[serve'.msg.whom] # "user"
                              /\ \A j \in Bufs : IsCall(th'[j]) => th'[j].whom # serve'.msg.whom
    <3>1. IsCall(serve.msg) =>
             /\ serve.msg.whom \in Clients /\ client[serve.msg.whom] # "user"
             /\ \A j \in Bufs : IsCall(th[j]) => th[j].whom # serve.msg.whom
      BY DEF IInv, ClientsOK
    <3> QED BY <1>2, <2>1, <2>2, <2>3, <3>1
  <2> QED BY <2>5, <2>6, <2>7 DEF ClientsOK, IsCall
<1>13. OnePlace'
  <2>1. \A j \in Bufs : th'[j].pkt = th[j].pkt \/ th'[j].pkt = NoPkt
    BY <1>3, <1>7
  <2> QED BY <1>2, <2>1, PlacesKept DEF IInv
<1>14. BufferFound'
  BY <1>2, FoundKept DEF IInv
<1> QED BY <1>5, <1>6, <1>8, <1>9, <1>10, <1>11, <1>12, <1>13, <1>14 DEF IInv

(***************************************************************************)
(* The environments around the server                                       *)
(***************************************************************************)
\* What a step of another environment leaves as it is.
EnvKept == /\ (\A j \in Bufs : ThreadOK(th[j]))' /\ ServeOK' /\ BuffersExact'
           /\ MailboxExact' /\ WakeupsOK' /\ BufferFound'

\* A step that the server does not see.
LEMMA Unseen ==
    ASSUME IInv, TypeOK', UNCHANGED nsvars
    PROVE  EnvKept
<1>1. /\ serve' = serve /\ cur' = cur /\ queue' = queue /\ th' = th /\ buse' = buse
      /\ sem' = sem /\ mbox' = mbox
  BY DEF nsvars
<1>2. (\A j \in Bufs : ThreadOK(th[j]))'
  BY <1>1 DEF IInv, ThreadOK
<1>3. ServeOK'
  BY <1>1 DEF IInv, ServeOK, thread_wakeups_pending
<1>4. BuffersExact'
  <2>1. BuffersExact
    BY DEF IInv
  <2> QED BY <1>1, <2>1 DEF BuffersExact
<1>5. MailboxExact'
  BY <1>1 DEF IInv, MailboxExact
<1>6. WakeupsOK'
  BY <1>1, WakeupsNow, WakeupsNext
<1>7. BufferFound'
  BY <1>1, FoundKept DEF IInv
<1> QED BY <1>2, <1>3, <1>4, <1>5, <1>6, <1>7 DEF EnvKept

\* A message that serve receives.
LEMMA Delivery ==
    ASSUME IInv, TypeOK', NEW type \in {"timer", "input", "recv", "call"}, NEW whom, NEW p,
           type = "input" <=> p # NoPkt, Deliver(type, whom, p)
    PROVE  EnvKept
<1>1. /\ serve.pc = "recv" /\ cur' = cur /\ queue' = queue /\ th' = th /\ buse' = buse
      /\ sem' = sem /\ mbox' = mbox
      /\ serve' = [serve EXCEPT !.pc = "got", !.msg = [type |-> type, whom |-> whom, pkt |-> p]]
  BY DEF Deliver
<1>2. serve \in ServeT
  BY Typed
<1>3. /\ serve'.pc = "got" /\ serve'.buf = serve.buf /\ serve'.i = serve.i
      /\ serve'.msg.type = type /\ serve'.msg.pkt = p
  BY <1>1, <1>2 DEF ServeT
<1>4. (\A j \in Bufs : ThreadOK(th[j]))'
  BY <1>1 DEF IInv, ThreadOK
<1>5. ServeOK'
  <2>1. serve.buf # NoBuf /\ serve.i = 0 /\ ~ thread_wakeups_pending /\ cur = Main
    BY <1>1 DEF IInv, ServeOK
  <2>2. ~ thread_wakeups_pending'
    BY <1>1, <2>1 DEF thread_wakeups_pending
  <2> QED BY <1>1, <1>3, <2>1, <2>2 DEF ServeOK
<1>6. BuffersExact'
  BY <1>1, <1>3 DEF IInv, BuffersExact
<1>7. MailboxExact'
  BY <1>1 DEF IInv, MailboxExact
<1>8. WakeupsOK'
  <2>1. \A j \in Bufs : th[j].pc # "new"
    BY <1>1, WakeupsNow
  <2> QED BY <1>1, <1>3, <2>1, WakeupsNow, WakeupsNext
<1>9. BufferFound'
  BY <1>3, FoundKept DEF IInv
<1> QED BY <1>4, <1>5, <1>6, <1>7, <1>8, <1>9 DEF EnvKept

\* Type correctness of a step of another environment.
LEMMA EnvTypes ==
    ASSUME IInv, UNCHANGED <<cur, queue, th, buse, sem, mbox>>, serve' \in ServeT,
           client' \in [Clients -> {"user", "sent", "recv"}],
           timer' \in {"sleep", "send", "sent", "recv"}, input' \in Pkts \cup {NoPkt}
    PROVE  TypeOK'
  BY Types, TypesNext DEF IInv, TypesForm

\* The message received is of its type.
LEMMA DeliverType ==
    ASSUME IInv, NEW type \in {"timer", "input", "recv", "call"}, NEW whom \in Clients \cup {Main},
           NEW p \in Pkts \cup {NoPkt}, Deliver(type, whom, p)
    PROVE  /\ serve' \in ServeT /\ UNCHANGED <<cur, queue, th, buse, sem, mbox>>
           /\ serve'.msg = [type |-> type, whom |-> whom, pkt |-> p]
           /\ serve'.msg.type = type /\ serve'.msg.whom = whom /\ serve'.msg.pkt = p
           /\ serve.msg = NoMsg
<1>1. serve \in ServeT
  BY Typed
<1>2. [type |-> type, whom |-> whom, pkt |-> p] \in MsgT
  BY DEF MsgT
<1>3. serve.msg = NoMsg
  BY DEF IInv, ServeOK, Deliver
<1> QED BY <1>1, <1>2, <1>3 DEF Deliver, ServeT

\* A client's request: the invariant is kept.
LEMMA ClientSendInv ==
    ASSUME IInv, NEW c \in Clients, NEW type \in {"recv", "call"}, ClientSend(c, type)
    PROVE  IInv'
<1>1. /\ client \in [Clients -> {"user", "sent", "recv"}] /\ input \in Pkts \cup {NoPkt}
      /\ timer \in {"sleep", "send", "sent", "recv"}
  BY Typed
<1>2. /\ client[c] = "user" /\ Deliver(type, c, NoPkt) /\ timer' = timer /\ input' = input
      /\ client' = [client EXCEPT ![c] = "sent"]
  BY DEF ClientSend
<1>3. /\ serve' \in ServeT /\ UNCHANGED <<cur, queue, th, buse, sem, mbox>>
      /\ serve'.msg.type = type /\ serve'.msg.whom = c /\ serve'.msg.pkt = NoPkt
      /\ serve.msg = NoMsg
  <2>1. type \in {"timer", "input", "recv", "call"} /\ c \in Clients \cup {Main}
    OBVIOUS
  <2>2. NoPkt \in Pkts \cup {NoPkt}
    OBVIOUS
  <2>3. Deliver(type, c, NoPkt)
    BY <1>2
  <2> QED BY <2>1, <2>2, <2>3, DeliverType
<1>4. /\ client' \in [Clients -> {"user", "sent", "recv"}] /\ client'[c] = "sent"
      /\ \A d \in Clients : d # c => client'[d] = client[d]
  BY <1>1, <1>2
<1>5. TypeOK'
  BY <1>1, <1>2, <1>3, <1>4, EnvTypes
<1>6. EnvKept
  BY <1>2, <1>5, Delivery
<1>7. ClientsOK'
  <2>1. \A j \in Bufs : IsCall(th[j]) => th[j].whom \in Clients
    BY CallWhom
  <2>2. \A j \in Bufs : IsCall(th[j]) => th[j].whom # c
    BY <1>2 DEF IInv, ClientsOK
  <2>3. th' = th
    BY <1>3
  <2>4. \A j \in Bufs : IsCall(th'[j]) => client'[th'[j].whom] # "user"
    BY <1>4, <2>1, <2>2, <2>3 DEF IInv, ClientsOK
  <2>5. \A j, k \in Bufs : IsCall(th'[j]) /\ IsCall(th'[k]) /\ th'[j].whom = th'[k].whom => j = k
    BY <2>3 DEF IInv, ClientsOK
  <2>6. /\ serve'.msg.whom \in Clients /\ client'[serve'.msg.whom] # "user"
        /\ \A j \in Bufs : IsCall(th'[j]) => th'[j].whom # serve'.msg.whom
    BY <1>3, <1>4, <2>2, <2>3
  <2> QED BY <2>4, <2>5, <2>6 DEF ClientsOK, IsCall
<1>8. OnePlace'
  <2>1. serve.msg.pkt = NoPkt /\ \A p \in Pkts : p # NoPkt
    <3>1. NoMsg.pkt = NoPkt
      BY DEF NoMsg
    <3> QED BY <1>3, <3>1, Constants
  <2>2. OnePlaceForm'
    BY OnePlaceNext
  <2>3. OnePlaceForm /\ OnePlace
    BY OnePlaceState DEF IInv
  <2>4. th' = th /\ mbox' = mbox /\ input' = input
    BY <1>2, <1>3
  <2> QED BY <1>3, <2>1, <2>2, <2>3, <2>4 DEF OnePlaceForm, Slots, Bufs
<1> QED BY <1>5, <1>6, <1>7, <1>8 DEF IInv, EnvKept

\* A client waits for its answer: the invariant is kept.
LEMMA ClientRecvInv ==
    ASSUME IInv, NEW c \in Clients, ClientRecv(c)
    PROVE  IInv'
<1>1. /\ client \in [Clients -> {"user", "sent", "recv"}] /\ input \in Pkts \cup {NoPkt}
      /\ timer \in {"sleep", "send", "sent", "recv"} /\ serve \in ServeT
  BY Typed
<1>2. /\ client[c] = "sent" /\ UNCHANGED nsvars /\ timer' = timer /\ input' = input
      /\ client' = [client EXCEPT ![c] = "recv"]
  BY DEF ClientRecv
<1>3. /\ serve' = serve /\ UNCHANGED <<cur, queue, th, buse, sem, mbox>>
      /\ th' = th /\ mbox' = mbox
  BY <1>2 DEF nsvars
<1>4. /\ client' \in [Clients -> {"user", "sent", "recv"}]
      /\ \A d \in Clients : client[d] # "user" => client'[d] # "user"
  BY <1>1, <1>2
<1>5. TypeOK'
  BY <1>1, <1>2, <1>3, <1>4, EnvTypes
<1>6. EnvKept
  BY <1>2, <1>5, Unseen
<1>7. ClientsOK'
  <2>1. \A j \in Bufs : IsCall(th[j]) => th[j].whom \in Clients
    BY CallWhom
  <2> QED BY <1>3, <1>4, <2>1 DEF IInv, ClientsOK, IsCall
<1>8. OnePlace'
  BY <1>2, <1>3, PlacesKept DEF IInv
<1> QED BY <1>5, <1>6, <1>7, <1>8 DEF IInv, EnvKept

\* A step of the timer environment: the invariant is kept.
LEMMA TimerStepInv ==
    ASSUME IInv, TimerStep
    PROVE  IInv'
<1>1. /\ client \in [Clients -> {"user", "sent", "recv"}] /\ input \in Pkts \cup {NoPkt}
      /\ timer \in {"sleep", "send", "sent", "recv"} /\ serve \in ServeT
  BY Typed
<1>2. client' = client /\ input' = input
  BY DEF TimerStep
<1>3. CASE UNCHANGED nsvars /\ timer' \in {"send", "recv"}
  <2>1. serve' = serve /\ UNCHANGED <<cur, queue, th, buse, sem, mbox>> /\ th' = th /\ mbox' = mbox
    BY <1>3 DEF nsvars
  <2>2. TypeOK'
    BY <1>1, <1>2, <1>3, <2>1, EnvTypes
  <2>3. EnvKept
    BY <1>3, <2>2, Unseen
  <2>4. ClientsOK'
    BY <1>2, <2>1, ClientsKept DEF IInv
  <2>5. OnePlace'
    BY <1>2, <2>1, PlacesKept DEF IInv
  <2> QED BY <2>2, <2>3, <2>4, <2>5 DEF IInv, EnvKept
<1>4. CASE Deliver("timer", Main, NoPkt) /\ timer' = "sent"
  <2>1. /\ serve' \in ServeT /\ UNCHANGED <<cur, queue, th, buse, sem, mbox>>
        /\ serve'.msg.type = "timer" /\ serve'.msg.pkt = NoPkt /\ serve.msg = NoMsg
    <3>1. Main \in Clients \cup {Main} /\ NoPkt \in Pkts \cup {NoPkt}
      OBVIOUS
    <3> QED BY <1>4, <3>1, DeliverType
  <2>2. TypeOK'
    BY <1>1, <1>2, <1>4, <2>1, EnvTypes
  <2>3. EnvKept
    BY <1>4, <2>2, Delivery
  <2>4. th' = th /\ mbox' = mbox
    BY <2>1
  <2>5. ClientsOK'
    <3>1. ~ IsCall(serve'.msg)
      BY <2>1 DEF IsCall
    <3> QED BY <1>2, <2>4, <3>1 DEF IInv, ClientsOK, IsCall
  <2>6. OnePlace'
    <3>1. serve.msg.pkt = NoPkt /\ \A p \in Pkts : p # NoPkt
      <4>1. NoMsg.pkt = NoPkt
        BY DEF NoMsg
      <4> QED BY <2>1, <4>1, Constants
    <3>2. OnePlaceForm'
      BY OnePlaceNext
    <3>3. OnePlaceForm /\ OnePlace
      BY OnePlaceState DEF IInv
    <3> QED BY <1>2, <2>1, <2>4, <3>1, <3>2, <3>3 DEF OnePlaceForm, Slots, Bufs
  <2> QED BY <2>2, <2>3, <2>5, <2>6 DEF IInv, EnvKept
<1> QED BY <1>3, <1>4 DEF TimerStep

\* A packet from the card: the invariant is kept.
LEMMA InputRecvInv ==
    ASSUME IInv, NEW p \in Pkts, InputRecv(p)
    PROVE  IInv'
<1>1. /\ client \in [Clients -> {"user", "sent", "recv"}] /\ input \in Pkts \cup {NoPkt}
      /\ timer \in {"sleep", "send", "sent", "recv"} /\ serve \in ServeT
  BY Typed
<1>2. /\ p \notin InFlight /\ UNCHANGED nsvars /\ timer' = timer /\ input' = p /\ client' = client
  BY DEF InputRecv
<1>3. serve' = serve /\ UNCHANGED <<cur, queue, th, buse, sem, mbox>> /\ th' = th /\ mbox' = mbox
  BY <1>2 DEF nsvars
<1>4. TypeOK'
  BY <1>1, <1>2, <1>3, EnvTypes
<1>5. EnvKept
  BY <1>2, <1>4, Unseen
<1>6. ClientsOK'
  BY <1>2, <1>3, ClientsKept DEF IInv
<1>7. OnePlace'
  <2>1. p # NoPkt
    BY Constants
  <2>2. /\ \A s \in Slots : mbox.msg[s] # p
        /\ \A i \in Bufs : th[i].pkt # p
        /\ serve.msg.pkt # p
    BY <1>2, <2>1 DEF InFlight, Posted, Held
  <2>3. OnePlaceForm'
    BY OnePlaceNext
  <2>4. OnePlaceForm /\ OnePlace
    BY OnePlaceState DEF IInv
  <2> QED BY <1>2, <1>3, <2>2, <2>3, <2>4 DEF OnePlaceForm, Slots, Bufs
<1> QED BY <1>4, <1>5, <1>6, <1>7 DEF IInv, EnvKept

\* A packet goes to the server: the invariant is kept.
LEMMA InputSendInv ==
    ASSUME IInv, InputSend
    PROVE  IInv'
<1>1. /\ client \in [Clients -> {"user", "sent", "recv"}] /\ input \in Pkts \cup {NoPkt}
      /\ timer \in {"sleep", "send", "sent", "recv"}
  BY Typed
<1>2. /\ input # NoPkt /\ Deliver("input", Main, input) /\ timer' = timer /\ input' = NoPkt
      /\ client' = client
  BY DEF InputSend
<1>3. /\ serve' \in ServeT /\ UNCHANGED <<cur, queue, th, buse, sem, mbox>>
      /\ serve'.msg.type = "input" /\ serve'.msg.pkt = input /\ serve.msg = NoMsg
  BY <1>1, <1>2, DeliverType
<1>4. TypeOK'
  BY <1>1, <1>2, <1>3, EnvTypes
<1>5. EnvKept
  BY <1>2, <1>4, Delivery
<1>6. th' = th /\ mbox' = mbox
  BY <1>3
<1>7. ClientsOK'
  <2>1. ~ IsCall(serve'.msg)
    BY <1>3 DEF IsCall
  <2> QED BY <1>2, <1>6, <2>1 DEF IInv, ClientsOK, IsCall
<1>8. OnePlace'
  <2>1. \A p \in Pkts : p # NoPkt
    BY Constants
  <2>2. OnePlaceForm'
    BY OnePlaceNext
  <2>3. OnePlaceForm /\ OnePlace
    BY OnePlaceState DEF IInv
  <2> QED BY <1>2, <1>3, <1>6, <2>1, <2>2, <2>3 DEF OnePlaceForm, Slots, Bufs
<1> QED BY <1>4, <1>5, <1>7, <1>8 DEF IInv, EnvKept
=============================================================================

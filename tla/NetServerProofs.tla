-------------------------- MODULE NetServerProofs --------------------------
(***************************************************************************)
(* Proofs about the network server (module NetServer): the steps of serve   *)
(* keep the inductive invariant, and what follows from it.                  *)
(***************************************************************************)
EXTENDS NetThreadProofs, FiniteSetTheorems, WellFoundedInduction, TLAPS

(***************************************************************************)
(* serve                                                                    *)
(***************************************************************************)
\* While the main thread runs no thread is new or answers, and once serve has
\* yielded nobody is woken.
LEMMA MainAlone ==
    ASSUME IInv, cur = Main
    PROVE  /\ \A j \in Bufs : th[j].pc \notin {"new", "reply"}
           /\ serve.pc = "loop" /\ serve.i > 0 => \A j \in Bufs : ~ th[j].wakeup
<1>1. queue \in Seq(Runnable) /\ Sched(queue, Main, Threads)
  BY Types, SchedState DEF IInv, TypesForm, SchedForm
<1>2. \A j \in Bufs : j # Main
  BY Constants
<1>3. \A j \in Bufs : ~ Before(queue, cur, j)
  BY <1>1, <1>2, MainRuns
<1> QED BY <1>2, <1>3, WakeupsNow

\* The main thread yields: every other thread runs before it does again.
LEMMA MainYields ==
    ASSUME cur = Main, NEW q \in Seq(Runnable), NEW L \in SUBSET Bufs, Sched(q, Main, L), Yield(q)
    PROVE  /\ cur' \in Runnable /\ queue' \in Seq(Runnable) /\ Sched(queue', cur', L)
           /\ \A j \in L : Before(queue', cur', j)
<1>1. Main \in Runnable /\ Main \notin L
  BY Constants DEF Runnable
<1>2. CASE q = <<>>
  <2>1. cur' = Main /\ queue' = q
    BY <1>2 DEF Yield
  <2>2. \A n : n \notin 1 .. Len(q)
    BY <1>2
  <2>3. L = {}
    BY <1>1, <2>2 DEF Sched
  <2> QED BY <1>1, <2>1, <2>3
<1>3. CASE q # <<>>
  <2>1. cur' = Head(q) /\ queue' = Append(Tail(q), Main)
    BY <1>3 DEF Yield
  <2>2. \A j \in L : j # Main
    BY <1>1
  <2> QED BY <1>1, <1>3, <2>1, <2>2, Rotate
<1> QED BY <1>2, <1>3

\* Flush: the invariant is kept.
LEMMA FlushInv ==
    ASSUME IInv, Flush
    PROVE  IInv'
<1>1. /\ cur \in Runnable /\ queue \in Seq(Runnable) /\ th \in [Bufs -> ThreadT]
      /\ sem \in SemT /\ serve \in ServeT /\ buse \in SUBSET Bufs /\ mbox \in MboxT
  BY Typed
<1>2. /\ cur = Main /\ serve.pc = "loop" /\ th' = th /\ buse' = buse /\ sem' = sem
      /\ mbox' = mbox /\ client' = client /\ input' = input /\ timer' = timer
      /\ serve' = [serve EXCEPT !.i = @ + 1] /\ serve.i < MaxYields /\ Yield(queue)
  BY DEF Flush
<1>3. /\ serve' \in ServeT /\ serve'.pc = "loop" /\ serve'.msg = serve.msg
      /\ serve'.buf = serve.buf
  <2>1. serve.i \in 0 .. MaxYields /\ MaxYields \in Nat
    BY <1>1, Constants DEF ServeT
  <2>2. PICK n : n = serve.i + 1
    OBVIOUS
  <2>3. n \in 0 .. MaxYields
    BY <1>2, <2>1, <2>2
  <2>4. serve' = [serve EXCEPT !.i = n]
    BY <1>2, <2>2
  <2> QED BY <1>1, <1>2, <2>3, <2>4 DEF ServeT
<1>4. Threads \in SUBSET Bufs /\ Sched(queue, Main, Threads)
  BY <1>2, SchedState DEF Threads, IInv, SchedForm
<1>5. /\ cur' \in Runnable /\ queue' \in Seq(Runnable) /\ Sched(queue', cur', Threads)
      /\ \A j \in Threads : Before(queue', cur', j)
  BY <1>1, <1>2, <1>4, MainYields
<1>6. TypeOK'
  BY <1>1, <1>2, <1>3, <1>5, ServerTypes DEF IInv
<1>7. (\A j \in Bufs : ThreadOK(th[j]))'
  BY <1>2 DEF IInv, ThreadOK
<1>8. ServeOK'
  <2>1. serve.buf = NoBuf /\ serve.msg = NoMsg
    BY <1>2 DEF IInv, ServeOK
  <2> QED BY <1>3, <2>1 DEF ServeOK, NoMsg
<1>9. BuffersExact'
  <2>1. /\ \A j \in Bufs : j \in buse' <=> j \in Threads \/ j = serve'.buf
        /\ \A j \in Bufs : j \in Threads => serve'.buf # j
        /\ \A j \in Bufs : th'[j] # NoThread <=> j \in Threads
    BY <1>2, <1>3, SchedState DEF SchedForm, IInv, Threads
  <2> QED BY <1>4, <1>5, <1>6, <2>1, BuffersNext
<1>10. MailboxExact'
  BY <1>2, <1>6, MailboxKept DEF IInv
<1>11. WakeupsOK'
  <2>1. \A j \in Bufs : th'[j].pc \notin {"new", "reply"}
    BY <1>2, MainAlone
  <2>2. \A j \in Bufs : th'[j].wakeup => Before(queue', cur', j)
    <3>1. \A j \in Bufs : th[j].wakeup => j \in Threads
      BY DEF Threads, NoThread
    <3> QED BY <1>2, <1>5, <3>1
  <2> QED BY <1>2, <1>6, <2>1, <2>2, WakeupsNow, WakeupsNext
<1>12. ClientsOK'
  BY <1>2, <1>3, ClientsKept DEF IInv
<1>13. OnePlace'
  BY <1>2, <1>3, PlacesKept DEF IInv
<1>14. BufferFound'
  BY <1>3, FoundKept DEF IInv
<1> QED BY <1>6, <1>7, <1>8, <1>9, <1>10, <1>11, <1>12, <1>13, <1>14 DEF IInv

\* A set of natural numbers has a least element.
LEMMA LeastElement ==
    ASSUME NEW T \in SUBSET Nat, T # {}
    PROVE  \E x \in T : \A y \in T : x <= y
<1> DEFINE R == {ss \in Nat \X Nat : ss[1] < ss[2]}
<1>1. IsWellFoundedOn(R, Nat)
  BY NatLessThanWellFounded, Zenon DEF OpToRel
<1>2. \E x \in T : \A y \in T : ~ (<<y, x>> \in R)
  <2> HIDE DEF R
  <2> QED BY <1>1, WFMin, Zenon
<1>3. PICK x \in T : \A y \in T : ~ (<<y, x>> \in R)
  BY <1>2, Zenon
<1>4. \A y \in T : ~ (y < x)
  BY <1>3
<1> QED BY <1>4

\* When no buffer is left every thread waits, all for one semaphore, and there
\* are more clients or packets than RoomForUnread allows.
LEMMA NoRoom ==
    ASSUME IInv, cur = Main, serve.pc = "loop", \A j \in Bufs : ~ th[j].wakeup, buse = Bufs
    PROVE  ~ RoomForUnread
<1>1. /\ th \in [Bufs -> ThreadT] /\ sem \in SemT /\ mbox \in MboxT
  BY Typed
<1>2. \A j \in Bufs : th[j] # NoThread
  <2>1. serve.buf = NoBuf
    BY DEF IInv, ServeOK
  <2> QED BY <2>1, SchedState, Constants DEF IInv, SchedForm
<1>3. ASSUME NEW j \in Bufs
      PROVE  /\ th[j].pc = "wait" /\ ~ th[j].wakeup
             /\ \/ th[j].type = "input" /\ th[j].pkt \in Pkts
                \/ th[j].type = "recv" /\ th[j].whom \in Clients
  <2>1. ThreadOK(th[j]) /\ th[j] # NoThread /\ th[j].pc \notin {"new", "reply"}
    BY <1>2, MainAlone DEF IInv
  <2> QED BY <2>1 DEF ThreadOK
<1>4. QUEUE_SIZE \in Nat \ {0} /\ MBOXSLOTS \in Nat \ {0} /\ Bufs = 0 .. QUEUE_SIZE - 1
  BY Constants
<1>5. 0 \in Bufs
  BY <1>4
<1>6. \A j \in Bufs : SemOf(th[j]) = SemOf(th[0])
  BY <1>3, <1>5, WakeupsNow
<1>7. CASE th[0].type = "recv"
  <2>1. \A j \in Bufs : th[j].type = "recv" /\ th[j].whom \in Clients
    BY <1>3, <1>6, <1>7 DEF SemOf
  <2>2. PICK f : f = [j \in Bufs |-> th[j].whom]
    OBVIOUS
  <2>3. f \in [Bufs -> Clients]
    BY <2>1, <2>2
  <2>4. \A j, k \in Bufs : f[j] = f[k] => j = k
    BY <2>1, <2>2 DEF IInv, ClientsOK, IsCall
  <2>5. IsFiniteSet(Bufs) /\ Cardinality(Bufs) = QUEUE_SIZE
    <3>1. 0 \in Int /\ QUEUE_SIZE - 1 \in Int /\ ~ (0 > QUEUE_SIZE - 1)
      BY <1>4
    <3>2. IsFiniteSet(Bufs) /\ Cardinality(Bufs) = (QUEUE_SIZE - 1) - 0 + 1
      BY <1>4, <3>1, FS_Interval
    <3> QED BY <1>4, <3>2
  <2>6. IsFiniteSet(Clients)
    BY NetServerAssumption
  <2>7. ~ (Cardinality(Clients) < Cardinality(Bufs))
    BY <2>3, <2>4, <2>5, <2>6, FS_PigeonHole
  <2> QED BY <2>5, <2>7 DEF RoomForUnread
<1>8. CASE th[0].type = "input"
  <2>1. \A j \in Bufs : th[j].pkt \in Pkts
    BY <1>3, <1>6, <1>8 DEF SemOf
  <2>2. sem["free_msg"].counter = 0
    <3>1. sem["free_msg"] = [counter |-> 0, waiters |-> 1]
      BY <1>3, <1>5, <1>8, WakeupsNow DEF SemOf
    <3> QED BY <3>1
  <2>3. Box(mbox.head, mbox.nextq, mbox.msg, sem.queued_msg.counter, sem.free_msg.counter)
    BY MailboxBox DEF IInv, MailboxForm
  <2>4. sem.queued_msg.counter = MBOXSLOTS
    <3>1. sem.queued_msg.counter \in 0 .. MBOXSLOTS
      BY <1>1 DEF SemT, Sems
    <3> QED BY <1>4, <2>2, <2>3, <3>1 DEF Box
  <2>5. mbox.head \in Slots /\ mbox.msg \in [Slots -> Pkts \cup {NoPkt}]
    <3>1. mbox.head # -1
      BY <1>4, <2>3, <2>4 DEF Box
    <3> QED BY <1>1, <3>1 DEF MboxT
  <2>6. ASSUME NEW s \in Slots PROVE mbox.msg[s] \in Pkts
    <3>1. \E k \in 0 .. MBOXSLOTS - 1 : s = Off(mbox.head, k)
      <4>1. CASE s >= mbox.head
        <5>1. s - mbox.head \in 0 .. MBOXSLOTS - 1 /\ s = Off(mbox.head, s - mbox.head)
          BY <1>4, <2>5, <4>1 DEF Off, Slots
        <5> QED BY <5>1
      <4>2. CASE s < mbox.head
        <5>1. /\ s - mbox.head + MBOXSLOTS \in 0 .. MBOXSLOTS - 1
              /\ s = Off(mbox.head, s - mbox.head + MBOXSLOTS)
          BY <1>4, <2>5, <4>2 DEF Off, Slots
        <5> QED BY <5>1
      <4> QED BY <1>4, <2>5, <4>1, <4>2 DEF Slots
    <3>2. mbox.msg[s] # NoPkt
      BY <2>3, <2>4, <3>1 DEF Box
    <3> QED BY <2>5, <3>2
  <2>7. PICK n, D : n = MBOXSLOTS + QUEUE_SIZE /\ D = 0 .. n - 1
    OBVIOUS
  <2>8. PICK f : f = [k \in D |-> IF k < QUEUE_SIZE THEN th[k].pkt ELSE mbox.msg[k - QUEUE_SIZE]]
    OBVIOUS
  <2>9. \A k \in D : IF k < QUEUE_SIZE THEN k \in Bufs ELSE k - QUEUE_SIZE \in Slots
    BY <1>4, <2>7 DEF Slots
  <2>10. f \in [D -> Pkts]
    BY <2>1, <2>6, <2>8, <2>9
  <2>11. ASSUME NEW k \in D, NEW m \in D, f[k] = f[m] PROVE k = m
    <3>1. PICK p \in Pkts : f[k] = p /\ f[m] = p
      BY <2>10, <2>11
    <3>2. /\ \A s, t \in Slots : mbox.msg[s] = p /\ mbox.msg[t] = p => s = t
          /\ \A i, j \in Bufs : th[i].pkt = p /\ th[j].pkt = p => i = j
          /\ \A s \in Slots, i \in Bufs : ~ (mbox.msg[s] = p /\ th[i].pkt = p)
      BY OnePlaceState DEF IInv, OnePlaceForm
    <3>3. CASE k < QUEUE_SIZE /\ m < QUEUE_SIZE
      BY <2>8, <2>9, <3>1, <3>2, <3>3
    <3>4. CASE k < QUEUE_SIZE /\ ~ (m < QUEUE_SIZE)
      BY <2>8, <2>9, <3>1, <3>2, <3>4
    <3>5. CASE ~ (k < QUEUE_SIZE) /\ m < QUEUE_SIZE
      BY <2>8, <2>9, <3>1, <3>2, <3>5
    <3>6. CASE ~ (k < QUEUE_SIZE) /\ ~ (m < QUEUE_SIZE)
      <4>1. k - QUEUE_SIZE = m - QUEUE_SIZE
        BY <2>8, <2>9, <3>1, <3>2, <3>6
      <4>2. k \in Int /\ m \in Int /\ QUEUE_SIZE \in Int
        BY <1>4, <2>7
      <4> QED BY <4>1, <4>2
    <3> QED BY <3>3, <3>4, <3>5, <3>6
  <2>12. IsFiniteSet(D) /\ Cardinality(D) = n
    <3>1. n \in Nat /\ 0 \in Int /\ n - 1 \in Int /\ ~ (0 > n - 1)
      BY <1>4, <2>7
    <3>2. IsFiniteSet(D) /\ Cardinality(D) = (n - 1) - 0 + 1
      BY <2>7, <3>1, FS_Interval
    <3> QED BY <3>1, <3>2
  <2>13. IsFiniteSet(Pkts)
    BY NetServerAssumption
  <2>14. ~ (Cardinality(Pkts) < Cardinality(D))
    BY <2>10, <2>11, <2>12, <2>13, FS_PigeonHole
  <2> QED BY <2>7, <2>12, <2>14 DEF RoomForUnread
<1> QED BY <1>3, <1>5, <1>7, <1>8

\* ipc_recv, or the panic for want of a buffer: the invariant is kept.
LEMMA ServeRecvInv ==
    ASSUME IInv, ServeRecv
    PROVE  IInv'
<1>1. /\ cur \in Runnable /\ queue \in Seq(Runnable) /\ th \in [Bufs -> ThreadT]
      /\ sem \in SemT /\ serve \in ServeT /\ buse \in SUBSET Bufs /\ mbox \in MboxT
  BY Typed
<1>2. /\ cur = Main /\ serve.pc = "loop" /\ th' = th /\ cur' = cur /\ queue' = queue /\ sem' = sem
      /\ mbox' = mbox /\ client' = client /\ input' = input /\ timer' = timer
      /\ ~ (thread_wakeups_pending /\ serve.i < MaxYields)
  BY DEF ServeRecv
<1>3. \A j \in Bufs : ~ th[j].wakeup
  <2>1. CASE ~ thread_wakeups_pending
    BY <2>1 DEF thread_wakeups_pending
  <2>2. CASE ~ (serve.i < MaxYields)
    <3>1. serve.i \in 0 .. MaxYields /\ MaxYields \in Nat \ {0}
      BY <1>1, Constants DEF ServeT
    <3>2. serve.i > 0
      BY <2>2, <3>1
    <3> QED BY <1>2, <3>2, MainAlone
  <2> QED BY <1>2, <2>1, <2>2
<1>4. serve.buf = NoBuf /\ serve.msg = NoMsg
  BY <1>2 DEF IInv, ServeOK
<1>5. /\ Sched(queue, cur, Threads)
      /\ \A j \in Bufs : j \in buse <=> j \in Threads
      /\ \A j \in Bufs : th'[j] # NoThread <=> j \in Threads
      /\ Threads \in SUBSET Bufs
  BY <1>2, <1>4, SchedState, Constants DEF SchedForm, IInv, Threads
<1>6. /\ serve' \in ServeT /\ serve'.pc \in {"recv", "panic"} /\ serve'.msg = NoMsg
      /\ serve'.pc = "panic" <=> serve'.buf = NoBuf
      /\ serve'.pc = "recv" => serve'.i = 0
      /\ serve'.pc = "panic" => buse = Bufs
      /\ buse' \in SUBSET Bufs
      /\ \A j \in Bufs : j \in buse' <=> j \in buse \/ j = serve'.buf
      /\ \A j \in Bufs : j \in buse => serve'.buf # j
  <2>1. CASE buse = Bufs
    <3>1. serve' = [serve EXCEPT !.pc = "panic"] /\ buse' = buse
      BY <2>1 DEF ServeRecv
    <3>2. /\ serve' \in ServeT /\ serve'.pc = "panic" /\ serve'.buf = NoBuf /\ serve'.msg = NoMsg
      BY <1>1, <1>4, <3>1 DEF ServeT
    <3> QED BY <1>1, <2>1, <3>1, <3>2, Constants
  <2>2. CASE buse # Bufs
    <3>1. PICK b : b = CHOOSE i \in Bufs \ buse : \A j \in Bufs \ buse : i <= j
      OBVIOUS
    <3>2. b \in Bufs \ buse
      <4>1. Bufs \ buse \in SUBSET Nat /\ Bufs \ buse # {}
        <5>1. Bufs \in SUBSET Nat
          BY DEF Bufs
        <5> QED BY <1>1, <2>2, <5>1
      <4>2. \E i \in Bufs \ buse : \A j \in Bufs \ buse : i <= j
        BY <4>1, LeastElement
      <4> QED BY <3>1, <4>2
    <3>3. serve' = [serve EXCEPT !.pc = "recv", !.i = 0, !.buf = b] /\ buse' = buse \cup {b}
      BY <2>2, <3>1 DEF ServeRecv
    <3>4. /\ serve' \in ServeT /\ serve'.pc = "recv" /\ serve'.buf = b /\ serve'.msg = NoMsg
          /\ serve'.i = 0
      <4>1. 0 \in 0 .. MaxYields /\ b \in Bufs \cup {NoBuf}
        BY <3>2, Constants
      <4> QED BY <1>1, <1>4, <3>3, <4>1 DEF ServeT
    <3> QED BY <1>1, <3>2, <3>3, <3>4, Constants
  <2> QED BY <2>1, <2>2
<1>7. TypeOK'
  BY <1>1, <1>2, <1>6, ServerTypes DEF IInv
<1>8. (\A j \in Bufs : ThreadOK(th[j]))'
  BY <1>2 DEF IInv, ThreadOK
<1>9. ServeOK'
  BY <1>2, <1>3, <1>6 DEF ServeOK, NoMsg, thread_wakeups_pending
<1>10. BuffersExact'
  <2>1. /\ \A j \in Bufs : j \in buse' <=> j \in Threads \/ j = serve'.buf
        /\ \A j \in Bufs : j \in Threads => serve'.buf # j
    BY <1>5, <1>6
  <2> QED BY <1>2, <1>5, <1>7, <2>1, BuffersNext
<1>11. MailboxExact'
  BY <1>2, <1>7, MailboxKept DEF IInv
<1>12. WakeupsOK'
  <2>1. \A j \in Bufs : th'[j].pc \notin {"new", "reply"}
    BY <1>2, MainAlone
  <2> QED BY <1>2, <1>6, <1>7, <2>1, WakeupsNow, WakeupsNext
<1>13. ClientsOK'
  <2>1. serve'.msg = serve.msg
    BY <1>4, <1>6
  <2> QED BY <1>2, <2>1, ClientsKept DEF IInv
<1>14. OnePlace'
  BY <1>2, <1>4, <1>6, PlacesKept DEF IInv
<1>15. BufferFound'
  <2>1. CASE serve'.pc = "panic"
    <3>1. ~ RoomForUnread
      BY <1>2, <1>3, <1>6, <2>1, NoRoom
    <3> QED BY <3>1 DEF BufferFound, RoomForUnread
  <2>2. CASE serve'.pc # "panic"
    BY <2>2, FoundKept DEF IInv
  <2> QED BY <2>1, <2>2
<1> QED BY <1>7, <1>8, <1>9, <1>10, <1>11, <1>12, <1>13, <1>14, <1>15 DEF IInv

\* thread_create for a request: the invariant is kept.
LEMMA ServeThreadInv ==
    ASSUME IInv, ServeThread
    PROVE  IInv'
<1>1. /\ cur \in Runnable /\ queue \in Seq(Runnable) /\ th \in [Bufs -> ThreadT]
      /\ sem \in SemT /\ serve \in ServeT /\ buse \in SUBSET Bufs /\ mbox \in MboxT
  BY Typed
<1>2. /\ cur = Main /\ serve.pc = "got" /\ buse' = buse /\ sem' = sem
      /\ mbox' = mbox /\ client' = client /\ input' = input /\ timer' = timer
      /\ serve' = [serve EXCEPT !.pc = "loop", !.buf = NoBuf, !.msg = NoMsg]
  BY DEF ServeThread
<1>3. PICK b, m : b = serve.buf /\ m = serve.msg
  OBVIOUS
<1>4. PICK t : t = [type |-> m.type, whom |-> m.whom, pkt |-> m.pkt, pc |-> "new", wakeup |-> FALSE]
  OBVIOUS
<1>5. th' = [th EXCEPT ![b] = t] /\ Yield(Append(queue, b)) /\ m.type # "timer"
  BY <1>3, <1>4 DEF ServeThread
<1>6. b \in Bufs /\ m \in MsgT /\ m.type \in {"input", "recv", "call"}
  <2>1. b # NoBuf /\ m.type # "none"
    BY <1>2, <1>3 DEF IInv, ServeOK
  <2>2. b \in Bufs \cup {NoBuf} /\ m \in MsgT
    BY <1>1, <1>3 DEF ServeT
  <2> QED BY <1>5, <2>1, <2>2 DEF MsgT
<1>7. /\ serve' \in ServeT /\ serve'.pc = "loop" /\ serve'.buf = NoBuf /\ serve'.msg = NoMsg
      /\ serve'.i = 0
  <2>1. serve.i = 0
    BY <1>2 DEF IInv, ServeOK
  <2> QED BY <1>1, <1>2, <2>1, Constants DEF ServeT
<1>8. t \in ThreadT /\ t.type = m.type /\ t.whom = m.whom /\ t.pkt = m.pkt /\ t.pc = "new"
      /\ t.wakeup = FALSE /\ t # NoThread
  BY <1>4, <1>6 DEF ThreadT, MsgT, NoThread
<1>9. ThreadOK(t)
  <2>1. m.type = "input" <=> m.pkt # NoPkt
    BY <1>3 DEF IInv, ServeOK
  <2>2. m.type \in {"recv", "call"} => m.whom \in Clients
    BY <1>3 DEF IInv, ClientsOK, IsCall
  <2>3. m.pkt \in Pkts \cup {NoPkt}
    BY <1>6 DEF MsgT
  <2> QED BY <1>6, <1>8, <2>1, <2>2, <2>3 DEF ThreadOK
<1>10. /\ th' \in [Bufs -> ThreadT] /\ th'[b] = t
       /\ \A j \in Bufs : j # b => th'[j] = th[j]
  BY <1>1, <1>5, <1>6, <1>8
<1>11. \A j \in Bufs : ~ th[j].wakeup /\ th[j].pc \notin {"new", "reply"}
  BY <1>2, MainAlone DEF IInv, ServeOK, thread_wakeups_pending
<1>12. /\ Sched(queue, Main, Threads) /\ b \notin Threads /\ Threads \in SUBSET Bufs
       /\ \A j \in Bufs : j \in buse <=> j \in Threads \/ j = b
  BY <1>2, <1>3, SchedState DEF SchedForm, IInv, Threads
<1>13. PICK q, L : q = Append(queue, b) /\ L = Threads \cup {b}
  OBVIOUS
<1>14. q \in Seq(Runnable) /\ Sched(q, Main, L)
  <2>1. b \in Runnable /\ b # Main /\ Main \in Runnable
    BY <1>6, Constants DEF Runnable
  <2>2. Append(queue, b) \in Seq(Runnable) /\ Sched(Append(queue, b), Main, Threads \cup {b})
    BY <1>1, <1>12, <2>1, Enqueue
  <2> QED BY <1>13, <2>2
<1>15. L \in SUBSET Bufs /\ b \in L
  BY <1>6, <1>12, <1>13
<1>16. /\ cur' \in Runnable /\ queue' \in Seq(Runnable) /\ Sched(queue', cur', L)
       /\ \A j \in L : Before(queue', cur', j)
  BY <1>2, <1>5, <1>13, <1>14, <1>15, MainYields
<1>17. TypeOK'
  BY <1>1, <1>2, <1>7, <1>10, <1>16, ServerTypes DEF IInv
<1>18. (\A j \in Bufs : ThreadOK(th[j]))'
  <2>1. \A j \in Bufs : ThreadOK(th'[j])
    BY <1>9, <1>10 DEF IInv
  <2> QED BY <2>1 DEF ThreadOK
<1>19. ServeOK'
  BY <1>7 DEF ServeOK, NoMsg
<1>20. BuffersExact'
  <2>1. /\ \A j \in Bufs : j \in buse' <=> j \in L \/ j = serve'.buf
        /\ \A j \in Bufs : j \in L => serve'.buf # j
    BY <1>2, <1>7, <1>12, <1>13, Constants
  <2>2. \A j \in Bufs : th'[j] # NoThread <=> j \in L
    BY <1>8, <1>10, <1>13 DEF Threads
  <2> QED BY <1>15, <1>16, <1>17, <2>1, <2>2, BuffersNext
<1>21. MailboxExact'
  BY <1>2, <1>17, MailboxKept DEF IInv
<1>22. WakeupsOK'
  <2>1. /\ \A j \in Bufs : th'[j].pc # "reply" /\ ~ th'[j].wakeup
        /\ \A j \in Bufs : th'[j].pc = "new" => j = b
        /\ \A j \in Bufs : th'[j].pc = "wait" => th'[j] = th[j]
    BY <1>8, <1>10, <1>11
  <2>2. Before(queue', cur', b)
    BY <1>15, <1>16
  <2> QED BY <1>2, <1>7, <1>17, <2>1, <2>2, WakeupsNow, WakeupsNext
<1>23. ClientsOK'
  <2>1. \A j \in Bufs : IsCall(th'[j]) =>
           (j = b /\ IsCall(m) /\ th'[j].whom = m.whom) \/ (j # b /\ th'[j] = th[j] /\ IsCall(th[j]))
    BY <1>8, <1>10 DEF IsCall
  <2>2. \A j \in Bufs : IsCall(th'[j]) => client'[th'[j].whom] # "user"
    BY <1>2, <1>3, <2>1 DEF IInv, ClientsOK
  <2>3. \A j, k \in Bufs : IsCall(th'[j]) /\ IsCall(th'[k]) /\ th'[j].whom = th'[k].whom => j = k
    BY <1>3, <2>1 DEF IInv, ClientsOK
  <2>4. ~ IsCall(serve'.msg)
    BY <1>7 DEF IsCall, NoMsg
  <2> QED BY <2>2, <2>3, <2>4 DEF ClientsOK, IsCall
<1>24. OnePlace'
  <2>1. SUFFICES ASSUME NEW p \in Pkts
               PROVE  /\ \A s, u \in Slots : mbox'.msg[s] = p /\ mbox'.msg[u] = p => s = u
                      /\ \A k, j \in Bufs : th'[k].pkt = p /\ th'[j].pkt = p => k = j
                      /\ \A s \in Slots, j \in Bufs : ~ (mbox'.msg[s] = p /\ th'[j].pkt = p)
                      /\ p = serve'.msg.pkt \/ p = input' =>
                            /\ \A s \in Slots : mbox'.msg[s] # p
                            /\ \A j \in Bufs : th'[j].pkt # p
                      /\ serve'.msg.pkt = p => input' # p
    <3>1. OnePlaceForm'
      BY OnePlaceNext
    <3> QED BY <3>1 DEF OnePlaceForm, Slots, Bufs
  <2>2. serve'.msg.pkt # p
    BY <1>7, Constants DEF NoMsg
  <2>3. \A j \in Bufs : th'[j].pkt = p => (j = b /\ serve.msg.pkt = p) \/ (j # b /\ th[j].pkt = p)
    BY <1>3, <1>8, <1>10
  <2> QED BY <1>2, <2>2, <2>3, OnePlaceState DEF OnePlaceForm, IInv
<1>25. BufferFound'
  BY <1>7, FoundKept DEF IInv
<1> QED BY <1>17, <1>18, <1>19, <1>20, <1>21, <1>22, <1>23, <1>24, <1>25 DEF IInv

\* process_timer: the invariant is kept.
LEMMA TimerInv ==
    ASSUME IInv, process_timer
    PROVE  IInv'
<1>1. /\ cur \in Runnable /\ queue \in Seq(Runnable) /\ th \in [Bufs -> ThreadT]
      /\ sem \in SemT /\ serve \in ServeT /\ buse \in SUBSET Bufs /\ mbox \in MboxT
  BY Typed
<1>2. /\ cur = Main /\ serve.pc = "got" /\ serve.msg.type = "timer"
      /\ th' = th /\ buse' = buse /\ sem' = sem
      /\ mbox' = mbox /\ client' = client /\ input' = input /\ timer' = timer
      /\ serve' = [serve EXCEPT !.pc = "timed"] /\ Yield(queue)
  BY DEF process_timer
<1>3. /\ serve' \in ServeT /\ serve'.pc = "timed" /\ serve'.msg = serve.msg
      /\ serve'.buf = serve.buf /\ serve'.i = serve.i
  BY <1>1, <1>2 DEF ServeT
<1>4. Threads \in SUBSET Bufs /\ Sched(queue, Main, Threads)
  BY <1>2, SchedState DEF Threads, IInv, SchedForm
<1>5. /\ cur' \in Runnable /\ queue' \in Seq(Runnable) /\ Sched(queue', cur', Threads)
  BY <1>1, <1>2, <1>4, MainYields
<1>6. TypeOK'
  BY <1>1, <1>2, <1>3, <1>5, ServerTypes DEF IInv
<1>7. (\A j \in Bufs : ThreadOK(th[j]))'
  BY <1>2 DEF IInv, ThreadOK
<1>8. ServeOK'
  <2>1. /\ serve.buf # NoBuf /\ serve.i = 0 /\ ~ thread_wakeups_pending
        /\ serve.msg.type = "input" <=> serve.msg.pkt # NoPkt
    BY <1>2 DEF IInv, ServeOK
  <2>2. ~ thread_wakeups_pending'
    BY <1>2, <2>1 DEF thread_wakeups_pending
  <2> QED BY <1>2, <1>3, <2>1, <2>2 DEF ServeOK
<1>9. BuffersExact'
  <2>1. /\ \A j \in Bufs : j \in buse' <=> j \in Threads \/ j = serve'.buf
        /\ \A j \in Bufs : j \in Threads => serve'.buf # j
        /\ \A j \in Bufs : th'[j] # NoThread <=> j \in Threads
    BY <1>2, <1>3, SchedState DEF SchedForm, IInv, Threads
  <2> QED BY <1>4, <1>5, <1>6, <2>1, BuffersNext
<1>10. MailboxExact'
  BY <1>2, <1>6, MailboxKept DEF IInv
<1>11. WakeupsOK'
  <2>1. \A j \in Bufs : th'[j].pc \notin {"new", "reply"}
    BY <1>2, MainAlone
  <2> QED BY <1>2, <1>3, <1>6, <2>1, WakeupsNow, WakeupsNext
<1>12. ClientsOK'
  BY <1>2, <1>3, ClientsKept DEF IInv
<1>13. OnePlace'
  BY <1>2, <1>3, PlacesKept DEF IInv
<1>14. BufferFound'
  BY <1>3, FoundKept DEF IInv
<1> QED BY <1>6, <1>7, <1>8, <1>9, <1>10, <1>11, <1>12, <1>13, <1>14 DEF IInv

\* The answer to the timer: the invariant is kept.
LEMMA TimerReplyInv ==
    ASSUME IInv, TimerReply
    PROVE  IInv'
<1>1. /\ cur \in Runnable /\ queue \in Seq(Runnable) /\ th \in [Bufs -> ThreadT]
      /\ sem \in SemT /\ serve \in ServeT /\ buse \in SUBSET Bufs /\ mbox \in MboxT
      /\ client \in [Clients -> {"user", "sent", "recv"}] /\ input \in Pkts \cup {NoPkt}
  BY Typed
<1>2. /\ cur = Main /\ serve.pc = "timed" /\ buse' = buse \ {serve.buf}
      /\ th' = th /\ cur' = cur /\ queue' = queue /\ sem' = sem
      /\ mbox' = mbox /\ client' = client /\ input' = input /\ timer' = "sleep"
      /\ serve' = [serve EXCEPT !.pc = "loop", !.buf = NoBuf, !.msg = NoMsg]
  BY DEF TimerReply
<1>3. /\ serve' \in ServeT /\ serve'.pc = "loop" /\ serve'.buf = NoBuf /\ serve'.msg = NoMsg
      /\ serve'.i = 0
  <2>1. serve.i = 0
    BY <1>2 DEF IInv, ServeOK
  <2> QED BY <1>1, <1>2, <2>1, Constants DEF ServeT
<1>4. TypeOK'
  <2>1. TypesForm'
    BY TypesNext
  <2> QED BY <1>1, <1>2, <1>3, <2>1
          DEF TypesForm, ServeT, MsgT, Runnable, ThreadT, SemT, Sems, MboxT, Bufs, Slots
<1>5. (\A j \in Bufs : ThreadOK(th[j]))'
  BY <1>2 DEF IInv, ThreadOK
<1>6. ServeOK'
  BY <1>3 DEF ServeOK, NoMsg
<1>7. BuffersExact'
  <2>1. /\ \A j \in Bufs : j \in buse <=> j \in Threads \/ j = serve.buf
        /\ \A j \in Bufs : j \in Threads => serve.buf # j
        /\ \A j \in Bufs : th'[j] # NoThread <=> j \in Threads
        /\ Threads \in SUBSET Bufs /\ Sched(queue', cur', Threads)
    BY <1>2, SchedState DEF SchedForm, IInv, Threads
  <2>2. /\ \A j \in Bufs : j \in buse' <=> j \in Threads \/ j = serve'.buf
        /\ \A j \in Bufs : j \in Threads => serve'.buf # j
    BY <1>2, <1>3, <2>1, Constants
  <2> QED BY <1>4, <2>1, <2>2, BuffersNext
<1>8. MailboxExact'
  BY <1>2, <1>4, MailboxKept DEF IInv
<1>9. WakeupsOK'
  <2>1. \A j \in Bufs : th'[j].pc \notin {"new", "reply"}
    BY <1>2, MainAlone
  <2> QED BY <1>2, <1>3, <1>4, <2>1, WakeupsNow, WakeupsNext
<1>10. ClientsOK'
  <2>1. ~ IsCall(serve'.msg)
    BY <1>3 DEF IsCall, NoMsg
  <2> QED BY <1>2, <2>1 DEF IInv, ClientsOK, IsCall
<1>11. OnePlace'
  <2>1. \A p \in Pkts : serve'.msg.pkt # p
    BY <1>3, Constants DEF NoMsg
  <2>2. OnePlaceForm'
    BY OnePlaceNext
  <2>3. OnePlaceForm /\ OnePlace
    BY OnePlaceState DEF IInv
  <2> QED BY <1>2, <2>1, <2>2, <2>3 DEF OnePlaceForm, Slots, Bufs
<1>12. BufferFound'
  BY <1>3, FoundKept DEF IInv
<1> QED BY <1>4, <1>5, <1>6, <1>7, <1>8, <1>9, <1>10, <1>11, <1>12 DEF IInv

(***************************************************************************)
(* The theorems                                                             *)
(***************************************************************************)
\* The server starts in the invariant.
LEMMA InitIInv == Init => IInv
<1> SUFFICES ASSUME Init PROVE IInv
  OBVIOUS
<1>1. /\ serve = [pc |-> "loop", i |-> 0, buf |-> NoBuf, msg |-> NoMsg]
      /\ cur = Main /\ queue = <<>> /\ th = [i \in Bufs |-> NoThread] /\ buse = {}
      /\ sem = [queued_msg |-> [counter |-> 0, waiters |-> 0],
                free_msg |-> [counter |-> MBOXSLOTS, waiters |-> 0]]
      /\ mbox = [head |-> -1, nextq |-> 0, msg |-> [s \in Slots |-> NoPkt]]
      /\ client = [c \in Clients |-> "user"] /\ timer = "sleep" /\ input = NoPkt
  BY DEF Init
<1>2. TypeOK
  <2>1. serve \in ServeT
    BY <1>1, Constants DEF ServeT
  <2>2. sem \in SemT /\ mbox \in MboxT
    BY <1>1, Constants DEF SemT, Sems, MboxT
  <2>3. cur \in Runnable /\ queue \in Seq(Runnable)
    BY <1>1 DEF Runnable
  <2>4. th \in [Bufs -> ThreadT]
    BY <1>1, Constants
  <2> QED BY <1>1, <2>1, <2>2, <2>3, <2>4, Types DEF TypesForm
<1>3. \A j \in Bufs : th[j] = NoThread /\ th[j].pc = "none" /\ ~ th[j].wakeup
                      /\ th[j].type = "none" /\ th[j].pkt = NoPkt
  BY <1>1 DEF NoThread
<1>4. \A j \in Bufs : ThreadOK(th[j])
  BY <1>3 DEF ThreadOK
<1>5. ServeOK
  BY <1>1 DEF ServeOK, NoMsg
<1>6. BuffersExact
  <2>1. Threads = {}
    BY <1>3 DEF Threads
  <2>2. Sched(queue, cur, Threads)
    BY <1>1, <2>1 DEF Sched
  <2>3. serve.buf = NoBuf /\ NoBuf \notin Bufs
    BY <1>1, Constants
  <2> QED BY <1>1, <1>2, <1>3, <2>2, <2>3, SchedState DEF SchedForm
<1>7. MailboxExact
  <2>1. Box(-1, 0, [s \in Slots |-> NoPkt], 0, MBOXSLOTS)
    BY Constants DEF Box
  <2> QED BY <1>1, <1>2, <2>1, MailboxBox DEF MailboxForm
<1>8. WakeupsOK
  BY <1>1, <1>3 DEF WakeupsOK
<1>9. ClientsOK
  BY <1>1, <1>3 DEF ClientsOK, IsCall, NoMsg
<1>10. OnePlace
  <2>1. \A p \in Pkts : p # NoPkt
    BY Constants
  <2>2. \A s \in Slots : mbox.msg[s] = NoPkt
    BY <1>1
  <2>3. serve.msg.pkt = NoPkt /\ input = NoPkt
    BY <1>1 DEF NoMsg
  <2> QED BY <1>3, <2>1, <2>2, <2>3, OnePlaceState DEF OnePlaceForm
<1>11. BufferFound
  BY <1>1 DEF BufferFound
<1> QED BY <1>2, <1>4, <1>5, <1>6, <1>7, <1>8, <1>9, <1>10, <1>11 DEF IInv

\* Every step keeps the invariant.
LEMMA NextIInv == IInv /\ [Next]_vars => IInv'
<1> SUFFICES ASSUME IInv, [Next]_vars PROVE IInv'
  OBVIOUS
<1>1. CASE ServeStep
  BY <1>1, FlushInv, ServeRecvInv, ServeThreadInv, TimerInv, TimerReplyInv DEF ServeStep
<1>2. ASSUME NEW i \in Bufs, ThreadStep(i) PROVE IInv'
  BY <1>2, WaitInv, InputInv, RecvInv, CallInv, ReplyInv DEF ThreadStep
<1>3. CASE TimerStep
  BY <1>3, TimerStepInv
<1>4. CASE InputSend
  BY <1>4, InputSendInv
<1>5. ASSUME NEW p \in Pkts, InputRecv(p) PROVE IInv'
  BY <1>5, InputRecvInv
<1>6. ASSUME NEW c \in Clients, ClientRecv(c) PROVE IInv'
  BY <1>6, ClientRecvInv
<1>7. ASSUME NEW c \in Clients, ClientSend(c, "recv") PROVE IInv'
  BY <1>7, ClientSendInv
<1>8. ASSUME NEW c \in Clients, ClientSend(c, "call") PROVE IInv'
  BY <1>8, ClientSendInv
<1>9. CASE UNCHANGED vars
  <2>1. UNCHANGED nsvars /\ client' = client /\ timer' = timer /\ input' = input
    BY <1>9 DEF vars, nsvars
  <2>2. serve' = serve /\ UNCHANGED <<cur, queue, th, buse, sem, mbox>> /\ th' = th /\ mbox' = mbox
    BY <2>1 DEF nsvars
  <2>3. /\ client \in [Clients -> {"user", "sent", "recv"}] /\ input \in Pkts \cup {NoPkt}
        /\ timer \in {"sleep", "send", "sent", "recv"} /\ serve \in ServeT
    BY Typed
  <2>4. TypeOK'
    BY <2>1, <2>2, <2>3, EnvTypes
  <2>5. EnvKept
    BY <2>1, <2>4, Unseen
  <2>6. ClientsOK'
    BY <2>1, <2>2, ClientsKept DEF IInv
  <2>7. OnePlace'
    BY <2>1, <2>2, PlacesKept DEF IInv
  <2> QED BY <2>4, <2>5, <2>6, <2>7 DEF IInv, EnvKept
<1> QED BY <1>1, <1>2, <1>3, <1>4, <1>5, <1>6, <1>7, <1>8, <1>9 DEF Next, ServerStep

\* The inductive invariant of the network server holds in every behaviour,
\* however many clients, packets, buffers and slots there are.
THEOREM NetServerInvariance == Spec => []IInv
  BY InitIInv, NextIInv, PTL DEF Spec

\* No wakeup is lost: the server does not block in ipc_recv while a thread of
\* its could go on (serve, thread_wakeups_pending, sys_sem_signal, thread_wait).
THEOREM NoWakeupIsLost == Spec => []NoLostWakeup
<1>1. IInv => NoLostWakeup
  <2> SUFFICES ASSUME IInv, serve.pc = "recv", NEW i \in Bufs, Ready(i) PROVE FALSE
    BY DEF NoLostWakeup
  <2>1. ~ th[i].wakeup /\ th[i].pc = "wait" /\ sem[SemOf(th[i])].counter > 0
    BY DEF IInv, ServeOK, thread_wakeups_pending, Ready
  <2>2. sem[SemOf(th[i])] = [counter |-> 0, waiters |-> 1]
    BY <2>1, WakeupsNow
  <2>3. sem[SemOf(th[i])].counter = 0
    BY <2>2
  <2> QED BY <2>1, <2>3
<1> QED BY <1>1, NetServerInvariance, PTL

\* Every buffer in use has its live thread or is serve's, is given back by
\* put_buffer, and every live thread is scheduled exactly once.
THEOREM BuffersAreExact == Spec => []BuffersExact
<1>1. IInv => BuffersExact
  BY DEF IInv
<1> QED BY <1>1, NetServerInvariance, PTL

\* The semaphores count the full and the empty slots of the mailbox, which is
\* a ring (sys_mbox_trypost, sys_arch_mbox_fetch).
THEOREM MailboxIsExact == Spec => []MailboxExact
<1>1. IInv => MailboxExact
  BY DEF IInv
<1> QED BY <1>1, NetServerInvariance, PTL

\* A packet is at one place at most from the card to the client, for any number
\* of threads, slots and packets.
THEOREM PacketsAreOnce == Spec => []OnePlace
<1>1. IInv => OnePlace
  BY DEF IInv
<1> QED BY <1>1, NetServerInvariance, PTL

\* get_buffer finds a buffer as long as RoomForUnread: the bound on clients and
\* unread packets is enough, whatever the interleaving.
THEOREM BufferIsFound == Spec => []BufferFound
<1>1. IInv => BufferFound
  BY DEF IInv
<1> QED BY <1>1, NetServerInvariance, PTL
=============================================================================

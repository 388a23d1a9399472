----------------------------- MODULE NetServer -----------------------------
(***************************************************************************)
(* The network server (net/serv.c) on its cooperative threads               *)
(* (net/lwip/jos/arch/thread.c), semaphores and mailboxes (sys_arch.c), and *)
(* the environments around it: net/input.c and net/timer.c, which send it   *)
(* packets and time, and clients in nsipc (lib/nsipc.c).                    *)
(*                                                                         *)
(* The server is one environment: ipc_recv blocks all of its threads, so    *)
(* serve first lets them run while any has been woken. One step runs a      *)
(* thread to its next thread_yield, or is one system call. lwIP itself is   *)
(* external; of it, one UDP socket is left: a packet for it is posted to    *)
(* its mailbox (recv_udp), and NSREQ_RECV fetches from it (netconn_recv).   *)
(***************************************************************************)
EXTENDS Integers, Sequences, FiniteSets

CONSTANTS Clients,
          Pkts,                \* as many packets are under way to the client
          QUEUE_SIZE, MBOXSLOTS,
          MaxYields,           \* the 32 of serve
          Main, NoBuf, NoPkt

ASSUME NetServerAssumption ==
    /\ IsFiniteSet(Clients) /\ IsFiniteSet(Pkts)
    /\ QUEUE_SIZE \in Nat \ {0} /\ MBOXSLOTS \in Nat \ {0}
    /\ MaxYields \in Nat \ {0}
    /\ NoBuf \notin 0 .. QUEUE_SIZE - 1 /\ NoPkt \notin Pkts
    /\ Main \notin 0 .. QUEUE_SIZE - 1

Bufs == 0 .. QUEUE_SIZE - 1      \* buffer i, and the thread that serves the request in it
Slots == 0 .. MBOXSLOTS - 1

VARIABLES serve,      \* the main thread: pc, yields so far, buffer, and the message received
          cur,        \* cur_tc
          queue,      \* thread_queue
          th,         \* [Bufs -> thread]
          buse,       \* the buffers in use
          sem,        \* the semaphores of the mailbox: [queued_msg, free_msg]
          mbox,       \* head, nextq, msg
          client,     \* [Clients -> where it is in nsipc]
          timer,      \* the timer environment
          input       \* the packet the input environment has

vars == <<serve, cur, queue, th, buse, sem, mbox, client, timer, input>>
nsvars == <<serve, cur, queue, th, buse, sem, mbox>>

NoThread == [type |-> "none", whom |-> Main, pkt |-> NoPkt, pc |-> "none", wakeup |-> FALSE]
NoMsg == [type |-> "none", whom |-> Main, pkt |-> NoPkt]

Init ==
    /\ serve = [pc |-> "loop", i |-> 0, buf |-> NoBuf, msg |-> NoMsg]
    /\ cur = Main /\ queue = <<>>
    /\ th = [i \in Bufs |-> NoThread]
    /\ buse = {}
    /\ sem = [queued_msg |-> [counter |-> 0, waiters |-> 0],
              free_msg |-> [counter |-> MBOXSLOTS, waiters |-> 0]]
    /\ mbox = [head |-> -1, nextq |-> 0, msg |-> [s \in Slots |-> NoPkt]]
    /\ client = [c \in Clients |-> "user"]
    /\ timer = "sleep"
    /\ input = NoPkt

(***************************************************************************)
(* Threads                                                                  *)
(***************************************************************************)
\* thread_yield: the first thread of q runs, the current one goes to its end.
Yield(q) ==
    IF q = <<>> THEN UNCHANGED cur /\ queue' = q
    ELSE cur' = Head(q) /\ queue' = Append(Tail(q), cur)

\* thread_halt: the current thread is gone; the main thread never is.
Halt == cur' = Head(queue) /\ queue' = Tail(queue)

\* thread_wakeup, of the threads that wait for semaphore s.
SemOf(t) == IF t.type = "input" THEN "free_msg" ELSE "queued_msg"
Waiting(t, s) == t.pc = "wait" /\ SemOf(t) = s
thread_wakeup(s, ts) ==
    [i \in Bufs |-> IF Waiting(ts[i], s) THEN [ts[i] EXCEPT !.wakeup = TRUE] ELSE ts[i]]

thread_wakeups_pending == \E i \in Bufs : th[i].wakeup

\* sys_sem_signal, with the semaphores sm and the threads ts as they are.
sys_sem_signal(s, sm, ts) ==
    /\ sem' = [sm EXCEPT ![s] = [counter |-> @.counter + 1, waiters |-> 0]]
    /\ th' = IF sm[s].waiters = 1 THEN thread_wakeup(s, ts) ELSE ts

\* The thread runs on: it is new, its semaphore is not as it left it, or it has
\* been woken (sys_arch_sem_wait, thread_wait).
Resumes(i) ==
    th[i].pc = "new" \/ th[i].wakeup \/ sem[SemOf(th[i])] # [counter |-> 0, waiters |-> 1]

Take(s) == [sem EXCEPT ![s].counter = @ - 1]

\* Mutant: waiters is not set.
WaitUncounted(i) ==
    /\ cur = i /\ th[i].type # "call"
    /\ \/ th[i].pc = "wait" /\ ~ Resumes(i) /\ UNCHANGED <<th, sem>>
       \/ /\ th[i].pc \in {"new", "wait"} /\ Resumes(i) /\ sem[SemOf(th[i])].counter = 0
          /\ sem' = sem
          /\ th' = [th EXCEPT ![i].pc = "wait", ![i].wakeup = FALSE]
    /\ Yield(queue)
    /\ UNCHANGED <<serve, buse, mbox, client, timer, input>>

\* thread_wait returns to its caller in vain, or is not to return yet.
Wait(i) ==
    /\ cur = i /\ th[i].type # "call"
    /\ \/ th[i].pc = "wait" /\ ~ Resumes(i) /\ UNCHANGED <<th, sem>>
       \/ /\ th[i].pc \in {"new", "wait"} /\ Resumes(i) /\ sem[SemOf(th[i])].counter = 0
          /\ sem' = [sem EXCEPT ![SemOf(th[i])].waiters = 1]
          /\ th' = [th EXCEPT ![i].pc = "wait", ![i].wakeup = FALSE]
    /\ Yield(queue)
    /\ UNCHANGED <<serve, buse, mbox, client, timer, input>>

\* Mutant: head is not set when the mailbox was empty.
InputKeepsHead(i) ==
    /\ cur = i /\ th[i].type = "input" /\ Resumes(i) /\ sem.free_msg.counter > 0
    /\ mbox' = [head |-> mbox.head,
                nextq |-> (mbox.nextq + 1) % MBOXSLOTS,
                msg |-> [mbox.msg EXCEPT ![mbox.nextq] = th[i].pkt]]
    /\ sys_sem_signal("queued_msg", Take("free_msg"), [th EXCEPT ![i] = NoThread])
    /\ buse' = buse \ {i}
    /\ Halt
    /\ UNCHANGED <<serve, client, timer, input>>

\* Mutant: queued_msg is not signalled.
InputUnsignalled(i) ==
    /\ cur = i /\ th[i].type = "input" /\ Resumes(i) /\ sem.free_msg.counter > 0
    /\ mbox' = [head |-> IF mbox.head = -1 THEN mbox.nextq ELSE mbox.head,
                nextq |-> (mbox.nextq + 1) % MBOXSLOTS,
                msg |-> [mbox.msg EXCEPT ![mbox.nextq] = th[i].pkt]]
    /\ sem' = Take("free_msg") /\ th' = [th EXCEPT ![i] = NoThread]
    /\ buse' = buse \ {i}
    /\ Halt
    /\ UNCHANGED <<serve, client, timer, input>>

\* A packet: jif_input, recv_udp, sys_mbox_trypost, and the end of serve_thread.
\* put_buffer and thread_halt follow without a yield.
Input(i) ==
    /\ cur = i /\ th[i].type = "input" /\ Resumes(i) /\ sem.free_msg.counter > 0
    /\ mbox' = [head |-> IF mbox.head = -1 THEN mbox.nextq ELSE mbox.head,
                nextq |-> (mbox.nextq + 1) % MBOXSLOTS,
                msg |-> [mbox.msg EXCEPT ![mbox.nextq] = th[i].pkt]]
    /\ sys_sem_signal("queued_msg", Take("free_msg"), [th EXCEPT ![i] = NoThread])
    /\ buse' = buse \ {i}
    /\ Halt
    /\ UNCHANGED <<serve, client, timer, input>>

\* Mutant: the message stays in the mailbox.
RecvKeepsHead(i) ==
    /\ cur = i /\ th[i].type = "recv" /\ th[i].pc \in {"new", "wait"}
    /\ Resumes(i) /\ sem.queued_msg.counter > 0
    /\ mbox' = mbox
    /\ sys_sem_signal("free_msg", Take("queued_msg"),
          [th EXCEPT ![i].pkt = mbox.msg[mbox.head], ![i].pc = "reply", ![i].wakeup = FALSE])
    /\ UNCHANGED <<serve, cur, queue, buse, client, timer, input>>

\* NSREQ_RECV: sys_arch_mbox_fetch, up to the ipc_send of the answer.
Recv(i) ==
    /\ cur = i /\ th[i].type = "recv" /\ th[i].pc \in {"new", "wait"}
    /\ Resumes(i) /\ sem.queued_msg.counter > 0
    /\ LET next == (mbox.head + 1) % MBOXSLOTS
       IN mbox' = [mbox EXCEPT !.head = IF next = mbox.nextq THEN -1 ELSE next,
                               !.msg[mbox.head] = NoPkt]
    /\ sys_sem_signal("free_msg", Take("queued_msg"),
          [th EXCEPT ![i].pkt = mbox.msg[mbox.head], ![i].pc = "reply", ![i].wakeup = FALSE])
    /\ UNCHANGED <<serve, cur, queue, buse, client, timer, input>>

\* The other calls, as far as they do not wait.
Call(i) ==
    /\ cur = i /\ th[i].type = "call" /\ th[i].pc = "new"
    /\ th' = [th EXCEPT ![i].pc = "reply"]
    /\ UNCHANGED <<serve, cur, queue, buse, sem, mbox, client, timer, input>>

\* Mutant: no put_buffer.
ReplyKeepsBuffer(i) ==
    /\ cur = i /\ th[i].pc = "reply" /\ client[th[i].whom] = "recv"
    /\ client' = [client EXCEPT ![th[i].whom] = "user"]
    /\ th' = [th EXCEPT ![i] = NoThread]
    /\ buse' = buse
    /\ Halt
    /\ UNCHANGED <<serve, sem, mbox, timer, input>>

\* ipc_send, retried (and the whole server with it) until the client receives.
Reply(i) ==
    /\ cur = i /\ th[i].pc = "reply" /\ client[th[i].whom] = "recv"
    /\ client' = [client EXCEPT ![th[i].whom] = "user"]
    /\ th' = [th EXCEPT ![i] = NoThread]
    /\ buse' = buse \ {i}
    /\ Halt
    /\ UNCHANGED <<serve, sem, mbox, timer, input>>

(***************************************************************************)
(* serve, the main thread                                                   *)
(***************************************************************************)
Flush ==
    /\ cur = Main /\ serve.pc = "loop"
    /\ thread_wakeups_pending /\ serve.i < MaxYields
    /\ serve' = [serve EXCEPT !.i = @ + 1]
    /\ Yield(queue)
    /\ UNCHANGED <<th, buse, sem, mbox, client, timer, input>>

\* get_buffer, and ipc_recv; no buffer is a panic.
ServeRecv ==
    /\ cur = Main /\ serve.pc = "loop"
    /\ ~ (thread_wakeups_pending /\ serve.i < MaxYields)
    /\ IF buse = Bufs THEN serve' = [serve EXCEPT !.pc = "panic"] /\ buse' = buse
       ELSE LET i == CHOOSE i \in Bufs \ buse : \A j \in Bufs \ buse : i <= j
            IN /\ serve' = [serve EXCEPT !.pc = "recv", !.i = 0, !.buf = i]
               /\ buse' = buse \cup {i}
    /\ UNCHANGED <<cur, queue, th, sem, mbox, client, timer, input>>

\* Mutant: a new thread goes to the head of the queue.
ServeThreadFirst ==
    /\ cur = Main /\ serve.pc = "got" /\ serve.msg.type # "timer"
    /\ th' = [th EXCEPT ![serve.buf] = [type |-> serve.msg.type, whom |-> serve.msg.whom,
                                        pkt |-> serve.msg.pkt, pc |-> "new", wakeup |-> FALSE]]
    /\ Yield(<<serve.buf>> \o queue)
    /\ serve' = [serve EXCEPT !.pc = "loop", !.buf = NoBuf, !.msg = NoMsg]
    /\ UNCHANGED <<buse, sem, mbox, client, timer, input>>

ServeThread ==
    /\ cur = Main /\ serve.pc = "got" /\ serve.msg.type # "timer"
    /\ th' = [th EXCEPT ![serve.buf] = [type |-> serve.msg.type, whom |-> serve.msg.whom,
                                        pkt |-> serve.msg.pkt, pc |-> "new", wakeup |-> FALSE]]
    /\ Yield(Append(queue, serve.buf))
    /\ serve' = [serve EXCEPT !.pc = "loop", !.buf = NoBuf, !.msg = NoMsg]
    /\ UNCHANGED <<buse, sem, mbox, client, timer, input>>

process_timer ==
    /\ cur = Main /\ serve.pc = "got" /\ serve.msg.type = "timer"
    /\ serve' = [serve EXCEPT !.pc = "timed"]
    /\ Yield(queue)
    /\ UNCHANGED <<th, buse, sem, mbox, client, timer, input>>

\* Mutant: no put_buffer.
TimerReplyKeepsBuffer ==
    /\ cur = Main /\ serve.pc = "timed" /\ timer = "recv"
    /\ timer' = "sleep"
    /\ buse' = buse
    /\ serve' = [serve EXCEPT !.pc = "loop", !.buf = NoBuf, !.msg = NoMsg]
    /\ UNCHANGED <<cur, queue, th, sem, mbox, client, input>>

TimerReply ==
    /\ cur = Main /\ serve.pc = "timed" /\ timer = "recv"
    /\ timer' = "sleep"
    /\ buse' = buse \ {serve.buf}
    /\ serve' = [serve EXCEPT !.pc = "loop", !.buf = NoBuf, !.msg = NoMsg]
    /\ UNCHANGED <<cur, queue, th, sem, mbox, client, input>>

(***************************************************************************)
(* The environments around it. sys_ipc_try_send succeeds while the server   *)
(* receives, and is retried until it does.                                  *)
(***************************************************************************)
Deliver(type, whom, p) ==
    /\ serve.pc = "recv"
    /\ serve' = [serve EXCEPT !.pc = "got", !.msg = [type |-> type, whom |-> whom, pkt |-> p]]
    /\ UNCHANGED <<cur, queue, th, buse, sem, mbox>>

ClientSend(c, type) ==
    /\ client[c] = "user" /\ Deliver(type, c, NoPkt)
    /\ client' = [client EXCEPT ![c] = "sent"]
    /\ UNCHANGED <<timer, input>>

ClientRecv(c) ==
    /\ client[c] = "sent"
    /\ client' = [client EXCEPT ![c] = "recv"]
    /\ UNCHANGED <<nsvars, timer, input>>

TimerStep ==
    /\ \/ timer = "sleep" /\ timer' = "send" /\ UNCHANGED nsvars
       \/ timer = "send" /\ Deliver("timer", Main, NoPkt) /\ timer' = "sent"
       \/ timer = "sent" /\ timer' = "recv" /\ UNCHANGED nsvars
    /\ UNCHANGED <<client, input>>

\* The packets between the card and the client.
Posted == {mbox.msg[s] : s \in Slots} \ {NoPkt}
Held == {th[i].pkt : i \in Bufs} \ {NoPkt}
InFlight == (Posted \cup Held \cup {serve.msg.pkt, input}) \ {NoPkt}

InputRecv(p) ==
    /\ input = NoPkt /\ p \notin InFlight
    /\ input' = p
    /\ UNCHANGED <<nsvars, client, timer>>

InputSend ==
    /\ input # NoPkt /\ Deliver("input", Main, input)
    /\ input' = NoPkt
    /\ UNCHANGED <<client, timer>>
ThreadStep(i) == Wait(i) \/ Input(i) \/ Recv(i) \/ Call(i) \/ Reply(i)
ServeStep == Flush \/ ServeRecv \/ ServeThread \/ process_timer \/ TimerReply
ServerStep == ServeStep \/ \E i \in Bufs : ThreadStep(i)

Next ==
    \/ ServerStep \/ TimerStep \/ InputSend
    \/ \E p \in Pkts : InputRecv(p)
    \/ \E c \in Clients : ClientRecv(c) \/ ClientSend(c, "recv") \/ ClientSend(c, "call")

Spec == Init /\ [][Next]_vars

FairSpec ==
    /\ Spec /\ WF_vars(ServerStep) /\ WF_vars(TimerStep)
    /\ \A c \in Clients : WF_vars(ClientRecv(c))

(***************************************************************************)
(* Properties                                                               *)
(***************************************************************************)
Sems == [counter : 0 .. MBOXSLOTS, waiters : 0 .. 1]

\* Type correctness: indices of buffers, slots and semaphores stay in range.
TypeOK ==
    /\ serve \in [pc : {"loop", "recv", "got", "timed", "panic"}, i : 0 .. MaxYields,
                  buf : Bufs \cup {NoBuf},
                  msg : [type : {"none", "timer", "input", "recv", "call"},
                         whom : Clients \cup {Main}, pkt : Pkts \cup {NoPkt}]]
    /\ cur \in Bufs \cup {Main}
    /\ queue \in Seq(Bufs \cup {Main})
    /\ th \in [Bufs -> [type : {"none", "input", "recv", "call"}, whom : Clients \cup {Main},
                        pkt : Pkts \cup {NoPkt}, pc : {"none", "new", "wait", "reply"},
                        wakeup : BOOLEAN]]
    /\ buse \in SUBSET Bufs
    /\ sem \in [queued_msg : Sems, free_msg : Sems]
    /\ mbox \in [head : {-1} \cup Slots, nextq : Slots, msg : [Slots -> Pkts \cup {NoPkt}]]
    /\ client \in [Clients -> {"user", "sent", "recv"}]
    /\ timer \in {"sleep", "send", "sent", "recv"}
    /\ input \in Pkts \cup {NoPkt}

Ready(i) == th[i].pc = "wait" /\ sem[SemOf(th[i])].counter > 0

\* The server does not go to sleep in ipc_recv, which stops all of its threads,
\* while one of them could go on: no wakeup is lost between sys_sem_signal,
\* thread_wait and thread_wakeups_pending.
NoLostWakeup == serve.pc = "recv" => \A i \in Bufs : ~ Ready(i)

\* A buffer is in use while serve receives into it or its thread lives, and is
\* given back after that; every live thread is scheduled exactly once.
BuffersExact ==
    /\ buse = {i \in Bufs : th[i] # NoThread \/ i = serve.buf}
    /\ \A i \in Bufs : th[i] # NoThread => serve.buf # i
    /\ LET all == Append(queue, cur)
       IN /\ \A m, n \in DOMAIN all : all[m] = all[n] => m = n
          /\ {all[n] : n \in DOMAIN all} = {Main} \cup {i \in Bufs : th[i] # NoThread}

\* The ring of the mailbox: count slots from head on are full, the rest empty,
\* and the two semaphores say how many of each there are.
MailboxExact ==
    LET count == sem.queued_msg.counter
        full == {(mbox.head + k) % MBOXSLOTS : k \in 0 .. count - 1}
    IN /\ count + sem.free_msg.counter = MBOXSLOTS
       /\ mbox.head = -1 <=> count = 0
       /\ {s \in Slots : mbox.msg[s] # NoPkt} = IF count = 0 THEN {} ELSE full
       /\ count > 0 => mbox.nextq = (mbox.head + count) % MBOXSLOTS

\* A packet is at one place at most from the card to the client: it is neither
\* doubled nor left behind in the threads and buffers it has passed through.
OnePlace ==
    \A p \in Pkts :
       /\ \A s, t \in Slots : mbox.msg[s] = p /\ mbox.msg[t] = p => s = t
       /\ \A i, j \in Bufs : th[i].pkt = p /\ th[j].pkt = p => i = j
       /\ p \notin Posted \cap Held
       /\ p \in {serve.msg.pkt, input} => p \notin Posted \cup Held
       /\ serve.msg.pkt = p => input # p

Receiving(c) == \E i \in Bufs : th[i].type = "recv" /\ th[i].whom = c
Answering == \E i \in Bufs : th[i].type = "recv" /\ th[i].pc = "reply"

\* A client that waits for a packet while one is in the mailbox is answered.
Delivered == (\E c \in Clients : Receiving(c)) /\ Posted # {} ~> Answering

\* Clients that wait on the same socket take turns: while packets come in, none
\* of them waits for ever (thread_wakeup wakes all, thread_yield is a queue).
TakeTurns == []<>Answering => \A c \in Clients : Receiving(c) ~> ~ Receiving(c)

\* "Posts the packet to conn->recvmbox or deletes it on memory error."
\* (net/lwip/api/api_msg.c, line 127): a packet does not wait for room.
PostsOrDeletes == \A i \in Bufs : ~ (th[i].type = "input" /\ th[i].pc = "wait")

\* There is a buffer for every client, and packets left unread beyond the slots
\* of the mailbox leave serve one. (Clients wait only while the mailbox is empty
\* and input threads only while it is full, so their buffers do not add up.)
RoomForUnread ==
    /\ Cardinality(Clients) < QUEUE_SIZE
    /\ Cardinality(Pkts) < MBOXSLOTS + QUEUE_SIZE

\* get_buffer finds a buffer as long as RoomForUnread. Nothing in the code sees
\* to that: with one packet or one client more it panics (net/serv.c, line 63).
BufferFound == RoomForUnread => serve.pc # "panic"

(***************************************************************************)
(* The inductive invariant behind them                                      *)
(***************************************************************************)
\* What the thread of a buffer holds at each place of serve_thread.
ThreadOK(t) ==
    /\ \/ t = NoThread
       \/ t.type = "input" /\ t.pc \in {"new", "wait"} /\ t.pkt \in Pkts
       \/ /\ t.type = "recv" /\ t.whom \in Clients
          /\ t.pc = "reply" \/ (t.pc \in {"new", "wait"} /\ t.pkt = NoPkt)
       \/ /\ t.type = "call" /\ t.whom \in Clients /\ t.pc \in {"new", "reply"}
          /\ t.pkt = NoPkt
    /\ t.wakeup => t.pc = "wait"

\* What serve holds at each place of its loop. It is the thread that runs, and
\* no wakeup is pending, while it receives.
ServeOK ==
    /\ serve.pc \in {"loop", "panic"} <=> serve.buf = NoBuf
    /\ serve.pc \in {"loop", "recv", "panic"} => serve.msg = NoMsg
    /\ serve.pc = "got" => serve.msg.type # "none"
    /\ serve.pc = "timed" => serve.msg.type = "timer"
    /\ serve.msg.type = "input" <=> serve.msg.pkt # NoPkt
    /\ serve.pc \in {"recv", "got", "panic"} => cur = Main
    /\ serve.pc \in {"recv", "got", "timed"} => serve.i = 0 /\ ~ thread_wakeups_pending

\* Thread i runs, or runs before the main thread does again.
BeforeMain(i) ==
    \/ cur = i
    \/ \E m, n \in DOMAIN queue : m < n /\ queue[m] = i /\ queue[n] = Main

\* Why the wakeups are not lost: a thread that waits unwoken has left its mark
\* on a semaphore that is still zero; all that wait do so for one semaphore; a
\* new thread runs while nobody is woken; and all that are woken when serve
\* yields run, and wake nobody, before serve looks again.
WakeupsOK ==
    /\ \A i \in Bufs : th[i].pc = "wait" /\ ~ th[i].wakeup =>
          sem[SemOf(th[i])] = [counter |-> 0, waiters |-> 1]
    /\ \A i, j \in Bufs :
          th[i].pc = "wait" /\ th[j].pc = "wait" => SemOf(th[i]) = SemOf(th[j])
    /\ \A i \in Bufs : th[i].pc = "new" =>
          BeforeMain(i) /\ serve.pc = "loop" /\ serve.i = 0 /\ ~ thread_wakeups_pending
    /\ \A i, j \in Bufs : th[i].pc = "new" /\ th[j].pc = "new" => i = j
    /\ \A i \in Bufs : th[i].pc = "reply" => cur = i
    /\ serve.pc = "loop" /\ serve.i > 0 => \A i \in Bufs : th[i].wakeup => BeforeMain(i)

\* A client in a call has one request with the server.
IsCall(m) == m.type \in {"recv", "call"}
ClientsOK ==
    /\ \A i \in Bufs : IsCall(th[i]) => client[th[i].whom] # "user"
    /\ \A i, j \in Bufs :
          IsCall(th[i]) /\ IsCall(th[j]) /\ th[i].whom = th[j].whom => i = j
    /\ IsCall(serve.msg) =>
          /\ serve.msg.whom \in Clients /\ client[serve.msg.whom] # "user"
          /\ \A i \in Bufs : IsCall(th[i]) => th[i].whom # serve.msg.whom

IInv ==
    /\ TypeOK /\ (\A i \in Bufs : ThreadOK(th[i])) /\ ServeOK
    /\ BuffersExact /\ MailboxExact /\ WakeupsOK /\ ClientsOK /\ OnePlace /\ BufferFound
=============================================================================

----------------------------- MODULE FileServer -----------------------------
(***************************************************************************)
(* The file server (fs/serv.c) and the environments that call it            *)
(* (lib/file.c, lib/fd.c) over the IPC library (lib/ipc.c): a client sends   *)
(* its request, retrying until the server receives, then receives the       *)
(* reply; the server finds an open file by its id, and hands out the page   *)
(* of struct Fd whose reference count later tells it that the file has been *)
(* closed.                                                                  *)
(*                                                                         *)
(* All of it is user code: one step is one system call, or one look at a    *)
(* page's count. What the file system does with a request is in FileSys;    *)
(* here it succeeds or fails.                                               *)
(***************************************************************************)
EXTENDS Integers, FiniteSets

CONSTANTS Envs, Root,       \* the clients; Root runs first
          NFD,              \* MAXFD
          MAXOPEN,
          GenMod,           \* o_fileid modulo 2^32 is generation GenMod times
          NoSlot

ASSUME FileServerAssumption ==
    /\ Root \in Envs
    /\ NFD \in Nat \ {0} /\ MAXOPEN \in Nat \ {0} /\ GenMod \in Nat \ {0, 1}
    /\ NoSlot \notin 0 .. MAXOPEN - 1

Fds == 0 .. NFD - 1
Slots == 0 .. MAXOPEN - 1
Gens == 0 .. GenMod - 1

VARIABLES pc,         \* [Envs -> where the client is]
          call,       \* [Envs -> the request it is making]
          fd,         \* [Envs -> [Fds -> the page at INDEX2FD(i), and for which open it came]]
          opentab,    \* [Slots -> [mapped: o_fd has a page, gen: of o_fileid,
                      \*            id: the generation of fd_file.id in the page]]
          srv         \* the server: where it is, and its local variables

vars == <<pc, call, fd, opentab, srv>>

\* id is a file id, the slot and the generation; i the descriptor.
NoCall == [type |-> "none", slot |-> NoSlot, gen |-> 0, i |-> 0, r |-> "none"]
NoFd == [slot |-> NoSlot, gen |-> 0]
Idle == [pc |-> "recv", whom |-> Root, type |-> "none", slot |-> NoSlot, gen |-> 0,
         n |-> 0, r |-> "none", pg |-> NoSlot]

Init ==
    /\ pc = [c \in Envs |-> IF c = Root THEN "user" ELSE "none"]
    /\ call = [c \in Envs |-> NoCall]
    /\ fd = [c \in Envs |-> [i \in Fds |-> NoFd]]
    /\ opentab = [s \in Slots |-> [mapped |-> FALSE, gen |-> 0, id |-> 0]]
    /\ srv = Idle

\* pageref(o_fd), as far as the code tells counts apart: 0, 1, or more.
Held(s) == \E c \in Envs, i \in Fds : fd[c][i].slot = s
PageRef(s) == IF ~ opentab[s].mapped THEN 0 ELSE IF ~ Held(s) THEN 1 ELSE 2

(***************************************************************************)
(* Clients                                                                  *)
(***************************************************************************)
Request(c, type, i, slot, gen) ==
    /\ pc[c] = "user"
    /\ pc' = [pc EXCEPT ![c] = "send"]
    /\ call' = [call EXCEPT ![c] = [type |-> type, slot |-> slot, gen |-> gen, i |-> i, r |-> "none"]]
    /\ UNCHANGED <<fd, opentab, srv>>

\* fd_alloc finds the first descriptor that is not mapped.
Unused(c, i) == fd[c][i] = NoFd
FdAlloc(c, i) == Unused(c, i) /\ \A j \in Fds : j < i => ~ Unused(c, j)

Open(c, i) == FdAlloc(c, i) /\ Request(c, "open", i, NoSlot, 0)

\* read, write, stat, ftruncate and the flush of close present the id that is
\* in the Fd page.
UseFile(c, type, i) ==
    /\ ~ Unused(c, i)
    /\ Request(c, type, i, fd[c][i].slot, opentab[fd[c][i].slot].id)

\* Mutant: sys_ipc_try_send does not look at env_ipc_recving.
SendUnchecked(c) ==
    /\ pc[c] = "send"
    /\ pc' = [pc EXCEPT ![c] = "sent"]
    /\ srv' = [Idle EXCEPT !.pc = "got", !.whom = c, !.type = call[c].type,
                           !.slot = call[c].slot, !.gen = call[c].gen]
    /\ UNCHANGED <<call, fd, opentab>>

\* ipc_send: sys_ipc_try_send fails, and is retried after a sys_yield, while
\* the server is not receiving.
Send(c) ==
    /\ pc[c] = "send" /\ srv.pc = "recv"
    /\ pc' = [pc EXCEPT ![c] = "sent"]
    /\ srv' = [Idle EXCEPT !.pc = "got", !.whom = c, !.type = call[c].type,
                           !.slot = call[c].slot, !.gen = call[c].gen]
    /\ UNCHANGED <<call, fd, opentab>>

Receive(c) ==
    /\ pc[c] = "sent"
    /\ pc' = [pc EXCEPT ![c] = "recv"]
    /\ UNCHANGED <<call, fd, opentab, srv>>

\* Back from fsipc. close unmaps the Fd page after the flush, whatever the
\* reply; open has nothing to undo.
Return(c) ==
    /\ pc[c] = "replied"
    /\ pc' = [pc EXCEPT ![c] = "user"]
    /\ call' = [call EXCEPT ![c] = NoCall]
    /\ fd' = IF call[c].type = "flush" THEN [fd EXCEPT ![c][call[c].i] = NoFd] ELSE fd
    /\ UNCHANGED <<opentab, srv>>

Dup(c, i, j) ==
    /\ pc[c] = "user" /\ ~ Unused(c, i) /\ Unused(c, j)
    /\ fd' = [fd EXCEPT ![c][j] = fd[c][i]]
    /\ UNCHANGED <<pc, call, opentab, srv>>

\* The child shares the Fd pages (PTE_SHARE).
Fork(c, d) ==
    /\ pc[c] = "user" /\ pc[d] = "none"
    /\ pc' = [pc EXCEPT ![d] = "user"]
    /\ fd' = [fd EXCEPT ![d] = fd[c]]
    /\ UNCHANGED <<call, opentab, srv>>

\* exit closes all descriptors, each by a flush, before it destroys itself.
Exit(c) ==
    /\ pc[c] = "user" /\ \A i \in Fds : Unused(c, i)
    /\ pc' = [pc EXCEPT ![c] = "none"]
    /\ UNCHANGED <<call, fd, opentab, srv>>

(***************************************************************************)
(* The server                                                               *)
(***************************************************************************)
\* Mutant: a page one client holds is taken for closed.
openfile_lookupTwo(slot, gen) ==
    IF PageRef(slot) <= 2 \/ opentab[slot].gen # gen THEN "inval" ELSE "ok"

openfile_lookup(slot, gen) ==
    IF PageRef(slot) <= 1 \/ opentab[slot].gen # gen THEN "inval" ELSE "ok"

Reply(r, pg) == [srv EXCEPT !.pc = "reply", !.r = r, !.pg = pg, !.n = 0]

Handle ==
    /\ srv.pc = "got" /\ srv.type # "open"
    /\ \/ srv' = Reply(openfile_lookup(srv.slot, srv.gen), NoSlot)
       \/ openfile_lookup(srv.slot, srv.gen) = "ok" /\ srv' = Reply("failed", NoSlot)
    /\ UNCHANGED <<pc, call, fd, opentab>>

HandleOpen ==
    /\ srv.pc = "got" /\ srv.type = "open"
    /\ srv' = [srv EXCEPT !.pc = "scan", !.n = 0]
    /\ UNCHANGED <<pc, call, fd, opentab>>

\* Mutant: two references are taken for the server's own.
AvailableShared(s) ==
    \/ PageRef(s) <= 1
    \/ Cardinality({x \in Envs \X Fds : fd[x[1]][x[2]].slot = s}) = 1

Available(s) == PageRef(s) <= 1

\* openfile_alloc, one entry at a time.
ScanBusy ==
    /\ srv.pc = "scan" /\ srv.n < MAXOPEN /\ ~ Available(srv.n)
    /\ srv' = [srv EXCEPT !.n = @ + 1]
    /\ UNCHANGED <<pc, call, fd, opentab>>

\* Mutant: a full table is not reported.
ScanFullSilent ==
    /\ srv.pc = "scan" /\ srv.n = MAXOPEN
    /\ srv' = [Idle EXCEPT !.pc = "unmap"]
    /\ UNCHANGED <<pc, call, fd, opentab>>

ScanFull ==
    /\ srv.pc = "scan" /\ srv.n = MAXOPEN
    /\ srv' = Reply("max_open", NoSlot)
    /\ UNCHANGED <<pc, call, fd, opentab>>

\* The entry is taken, and its page, fresh or cleared, filled in if the file
\* can be opened.
ScanFound ==
    /\ srv.pc = "scan" /\ srv.n < MAXOPEN /\ Available(srv.n)
    /\ LET gen == (opentab[srv.n].gen + 1) % GenMod
       IN \/ /\ opentab' = [opentab EXCEPT ![srv.n] = [mapped |-> TRUE, gen |-> gen, id |-> gen]]
             /\ srv' = Reply("ok", srv.n)
          \/ /\ opentab' = [opentab EXCEPT ![srv.n] = [mapped |-> TRUE, gen |-> gen, id |-> 0]]
             /\ srv' = Reply("failed", NoSlot)
    /\ UNCHANGED <<pc, call, fd>>

\* The descriptors of a client after a reply: the page lands where it asked.
Mapped(f, c, pg) ==
    IF pg = NoSlot \/ call[c].type # "open" THEN f
    ELSE [f EXCEPT ![c][call[c].i] = [slot |-> pg, gen |-> opentab[pg].id]]

\* Mutant: the reply is tried once.
SendReplyOnce ==
    /\ srv.pc = "reply"
    /\ IF pc[srv.whom] = "recv"
       THEN /\ pc' = [pc EXCEPT ![srv.whom] = "replied"]
            /\ call' = [call EXCEPT ![srv.whom].r = srv.r]
            /\ fd' = Mapped(fd, srv.whom, srv.pg)
       ELSE UNCHANGED <<pc, call, fd>>
    /\ srv' = [Idle EXCEPT !.pc = "unmap"]
    /\ UNCHANGED opentab

\* ipc_send, retried while the client is not receiving.
SendReply ==
    /\ srv.pc = "reply" /\ pc[srv.whom] = "recv"
    /\ pc' = [pc EXCEPT ![srv.whom] = "replied"]
    /\ call' = [call EXCEPT ![srv.whom].r = srv.r]
    /\ fd' = Mapped(fd, srv.whom, srv.pg)
    /\ srv' = [Idle EXCEPT !.pc = "unmap"]
    /\ UNCHANGED opentab

\* The request page is unmapped, and the next request received.
NextRequest ==
    /\ srv.pc = "unmap"
    /\ srv' = Idle
    /\ UNCHANGED <<pc, call, fd, opentab>>

ServerStep ==
    Handle \/ HandleOpen \/ ScanBusy \/ ScanFull \/ ScanFound \/ SendReply \/ NextRequest

LibraryStep(c) == Send(c) \/ Receive(c) \/ Return(c)

UserStep(c) ==
    \/ \E i \in Fds : Open(c, i) \/ UseFile(c, "read", i) \/ UseFile(c, "flush", i)
    \/ \E i, j \in Fds : Dup(c, i, j)
    \/ \E d \in Envs : Fork(c, d)
    \/ Exit(c)

Next == ServerStep \/ \E c \in Envs : LibraryStep(c) \/ UserStep(c)

Spec == Init /\ [][Next]_vars

FairSpec == Spec /\ WF_vars(ServerStep) /\ \A c \in Envs : WF_vars(LibraryStep(c))

(***************************************************************************)
(* A client destroyed at any time (by its parent, or by a fault), and the   *)
(* panic of ipc_send when the environment it replies to is gone.            *)
(***************************************************************************)
Kill(c) ==
    /\ pc[c] \notin {"none", "dead"}
    /\ pc' = [pc EXCEPT ![c] = "dead"]
    /\ call' = [call EXCEPT ![c] = NoCall]
    /\ fd' = [fd EXCEPT ![c] = [i \in Fds |-> NoFd]]
    /\ UNCHANGED <<opentab, srv>>

ReplyToDead ==
    /\ srv.pc = "reply" /\ pc[srv.whom] = "dead"
    /\ srv' = [srv EXCEPT !.pc = "panic"]
    /\ UNCHANGED <<pc, call, fd, opentab>>

SpecKilled == Init /\ [][Next \/ ReplyToDead \/ \E c \in Envs : Kill(c)]_vars

(***************************************************************************)
(* Properties                                                               *)
(***************************************************************************)
CallType == [type : {"none", "open", "read", "flush"}, slot : Slots \cup {NoSlot},
             gen : Gens, i : Fds, r : {"none", "ok", "inval", "failed", "max_open"}]

\* Type correctness: o_fileid stays within its slot's ids (openfile_alloc), and
\* the table is never scanned past its end.
TypeOK ==
    /\ pc \in [Envs -> {"none", "user", "send", "sent", "recv", "replied", "dead"}]
    /\ call \in [Envs -> CallType]
    /\ fd \in [Envs -> [Fds -> [slot : Slots \cup {NoSlot}, gen : Gens]]]
    /\ opentab \in [Slots -> [mapped : BOOLEAN, gen : Gens, id : Gens]]
    /\ srv \in [pc : {"recv", "got", "scan", "reply", "unmap", "panic"}, whom : Envs,
                type : {"none", "open", "read", "flush"}, slot : Slots \cup {NoSlot},
                gen : Gens, n : 0 .. MAXOPEN, r : {"none", "ok", "inval", "failed", "max_open"},
                pg : Slots \cup {NoSlot}]

\* A descriptor stays the file it was opened as for as long as anyone holds it,
\* in whatever way it was handed on: its table entry is not reused and the id
\* in its page not overwritten (openfile_alloc trusts pageref).
FdKeepsFile ==
    \A c \in Envs, i \in Fds :
       fd[c][i] # NoFd =>
          LET o == opentab[fd[c][i].slot]
          IN o.mapped /\ o.gen = fd[c][i].gen /\ o.id = fd[c][i].gen

\* The server works on the request of the one client that has sent and not yet
\* been answered, as that client made it: no request is lost, doubled or mixed
\* up by the retries of ipc_send (fsipc, serve).
Working == srv.pc \in {"got", "scan", "reply"}
OneInService ==
    /\ \A c \in Envs : pc[c] \in {"sent", "recv"} <=> Working /\ srv.whom = c
    /\ Working => LET q == call[srv.whom]
                   IN q.type = srv.type /\ q.slot = srv.slot /\ q.gen = srv.gen

\* A request that presents the id found in a mapped Fd page is never refused as
\* invalid, however long it waited to be sent (openfile_lookup).
IdsAccepted == \A c \in Envs : call[c].r # "inval"

\* What a client's request and descriptors are at each point of fsipc: a request
\* under way presents the slot and generation of the descriptor it is made on,
\* which stays as it was, and open's descriptor stays free until the reply.
ClientInv(c) ==
    /\ \A i \in Fds : fd[c][i] # NoFd => fd[c][i].slot \in Slots
    /\ pc[c] = "none" => \A i \in Fds : Unused(c, i)
    /\ pc[c] \in {"send", "sent", "recv"} =>
         /\ call[c].type \in {"open", "read", "flush"}
         /\ IF call[c].type = "open" THEN Unused(c, call[c].i)
            ELSE /\ ~ Unused(c, call[c].i)
                 /\ fd[c][call[c].i] = [slot |-> call[c].slot, gen |-> call[c].gen]

\* The table is scanned for an open. A reply refuses no id, and the page it
\* carries is one open has filled in and nobody holds yet.
ServerInv ==
    /\ srv.pc = "scan" => srv.type = "open"
    /\ srv.pc = "reply" =>
         /\ srv.r # "inval"
         /\ srv.pg # NoSlot =>
              /\ srv.type = "open" /\ ~ Held(srv.pg)
              /\ opentab[srv.pg].mapped /\ opentab[srv.pg].id = opentab[srv.pg].gen

\* The inductive invariant.
IInv ==
    /\ TypeOK /\ FdKeepsFile /\ OneInService /\ IdsAccepted
    /\ ServerInv /\ \A c \in Envs : ClientInv(c)

\* A request the server has received is answered.
Answered == \A c \in Envs : pc[c] = "sent" ~> pc[c] = "replied"

\* While clients try to send, some client is answered: the server, the senders
\* that retry and the receiver never all wait for one another.
Progress == (\E c \in Envs : pc[c] = "send") ~> (\E c \in Envs : pc[c] = "replied")

\* The file server does not panic, whatever happens to its clients.
ServerLives == srv.pc # "panic"
=============================================================================

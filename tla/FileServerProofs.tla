-------------------------- MODULE FileServerProofs --------------------------
(***************************************************************************)
(* Proof that descriptors keep their file, that the server answers the one   *)
(* client it serves and that no id from a mapped Fd page is refused, for any *)
(* number of clients, descriptors and table entries.                        *)
(***************************************************************************)
EXTENDS FileServer, TLAPS

FdType == [slot : Slots \cup {NoSlot}, gen : Gens]
EntryType == [mapped : BOOLEAN, gen : Gens, id : Gens]

\* A generation is one of GenMod.
LEMMA GenWraps == \A g \in Gens : (g + 1) % GenMod \in Gens
BY FileServerAssumption DEF Gens

LEMMA Constants ==
    /\ Root \in Envs /\ NoSlot \notin Slots /\ 0 \in Gens /\ 0 \in Fds
    /\ NoFd \in FdType /\ NoCall \in CallType /\ 0 \in 0 .. MAXOPEN
    /\ \A n \in 0 .. MAXOPEN : n < MAXOPEN => n \in Slots /\ n + 1 \in 0 .. MAXOPEN
BY FileServerAssumption DEF Slots, Gens, Fds, FdType, NoFd, NoCall, CallType

\* What the parts of a well-typed state are.
LEMMA Types ==
    ASSUME TypeOK
    PROVE  /\ \A c \in Envs : call[c] \in CallType /\ call[c].i \in Fds
           /\ \A c \in Envs, i \in Fds :
                /\ fd[c][i] \in FdType
                /\ fd[c][i].slot \in Slots \cup {NoSlot} /\ fd[c][i].gen \in Gens
                /\ fd[c][i] = [slot |-> fd[c][i].slot, gen |-> fd[c][i].gen]
           /\ \A s \in Slots : opentab[s] \in EntryType /\ opentab[s].gen \in Gens
           /\ srv.whom \in Envs /\ srv.n \in 0 .. MAXOPEN
           /\ srv.slot \in Slots \cup {NoSlot} /\ srv.pg \in Slots \cup {NoSlot}
<1>1. \A c \in Envs, i \in Fds : fd[c][i] \in FdType
  BY DEF TypeOK, FdType
<1>2. \A f \in FdType : /\ f.slot \in Slots \cup {NoSlot} /\ f.gen \in Gens
                        /\ f = [slot |-> f.slot, gen |-> f.gen]
  BY DEF FdType
<1>3. \A s \in Slots : opentab[s] \in EntryType
  BY DEF TypeOK, EntryType
<1>4. \A o \in EntryType : o.gen \in Gens
  BY DEF EntryType
<1>5. \A c \in Envs : call[c] \in CallType
  BY DEF TypeOK
<1>6. \A q \in CallType : q.i \in Fds
  BY DEF CallType
<1>7. /\ srv.whom \in Envs /\ srv.n \in 0 .. MAXOPEN
      /\ srv.slot \in Slots \cup {NoSlot} /\ srv.pg \in Slots \cup {NoSlot}
  BY DEF TypeOK
<1>8. QED
  BY <1>1, <1>2, <1>3, <1>4, <1>5, <1>6, <1>7

\* The initial state.
LEMMA InitIInv == Init => IInv
<1> SUFFICES ASSUME Init PROVE IInv
  OBVIOUS
<1>1. TypeOK
  BY Constants DEF Init, TypeOK, Idle, FdType
<1>2. FdKeepsFile /\ IdsAccepted /\ \A c \in Envs : ClientInv(c)
  BY Constants DEF Init, FdKeepsFile, IdsAccepted, ClientInv, NoCall, Unused
<1>3. OneInService /\ ServerInv
  BY Constants DEF Init, OneInService, Working, ServerInv, Idle
<1>4. QED
  BY <1>1, <1>2, <1>3 DEF IInv

\* The request a client sends is the one it makes on its own descriptor, and the
\* page that another client holds is not affected.
LEMMA RequestIInv ==
    ASSUME IInv, NEW c \in Envs, NEW i \in Fds,
           Open(c, i) \/ UseFile(c, "read", i) \/ UseFile(c, "flush", i)
    PROVE  IInv'
<1>0. TypeOK /\ FdKeepsFile /\ OneInService /\ IdsAccepted /\ ServerInv
      /\ \A d \in Envs : ClientInv(d)
  BY DEF IInv
<1>1. PICK t \in {"open", "read", "flush"}, slot \in Slots \cup {NoSlot}, gen \in Gens :
        /\ Request(c, t, i, slot, gen)
        /\ t = "open" => Unused(c, i)
        /\ t # "open" => ~ Unused(c, i) /\ slot = fd[c][i].slot /\ gen = fd[c][i].gen
  <2>1. CASE Open(c, i)
    BY <2>1, Constants DEF Open, FdAlloc
  <2>2. CASE UseFile(c, "read", i) \/ UseFile(c, "flush", i)
    <3>1. fd[c][i] # NoFd
      BY <2>2 DEF UseFile, Unused
    <3>2. opentab[fd[c][i].slot].id = fd[c][i].gen
      BY <1>0, <3>1 DEF FdKeepsFile
    <3>3. fd[c][i].slot \in Slots /\ fd[c][i].gen \in Gens
      BY <1>0, <3>1, Types DEF ClientInv
    <3>4. QED
      BY <2>2, <3>1, <3>2, <3>3 DEF UseFile, Unused
  <2>3. QED
    BY <2>1, <2>2
<1> DEFINE q == [type |-> t, slot |-> slot, gen |-> gen, i |-> i, r |-> "none"]
<1>2. /\ pc[c] = "user" /\ pc' = [pc EXCEPT ![c] = "send"] /\ call' = [call EXCEPT ![c] = q]
      /\ UNCHANGED <<fd, opentab, srv>>
  BY <1>1 DEF Request
<1>3. q \in CallType
  BY DEF CallType
<1>4. TypeOK'
  BY <1>0, <1>2, <1>3 DEF TypeOK
<1>5. FdKeepsFile' /\ ServerInv'
  BY <1>0, <1>2 DEF FdKeepsFile, ServerInv, Held
<1>6. OneInService'
  <2>1. ~ (Working /\ srv.whom = c)
    BY <1>0, <1>2 DEF OneInService
  <2>2. \A d \in Envs : d # c => pc'[d] = pc[d] /\ call'[d] = call[d]
    BY <1>0, <1>2 DEF TypeOK
  <2>3. pc'[c] = "send" /\ Working' = Working /\ srv.whom \in Envs
    BY <1>0, <1>2 DEF TypeOK, Working
  <2>4. QED
    BY <1>0, <1>2, <2>1, <2>2, <2>3 DEF OneInService
<1>7. IdsAccepted'
  BY <1>0, <1>2 DEF IdsAccepted, TypeOK
<1>8. \A d \in Envs : ClientInv(d)'
  <2> SUFFICES ASSUME NEW d \in Envs PROVE ClientInv(d)'
    OBVIOUS
  <2>1. CASE d # c
    BY <1>0, <1>2, <2>1 DEF ClientInv, Unused, TypeOK
  <2>2. CASE d = c
    <3>1. pc'[c] = "send" /\ call'[c] = q /\ fd'[c] = fd[c]
      BY <1>0, <1>2 DEF TypeOK
    <3>2. \A j \in Fds : fd'[c][j] # NoFd => fd'[c][j].slot \in Slots
      BY <1>0, <3>1 DEF ClientInv
    <3>3. t # "open" => fd'[c][i] = [slot |-> slot, gen |-> gen]
      BY <1>0, <1>1, <3>1, Types
    <3>4. QED
      BY <1>1, <2>2, <3>1, <3>2, <3>3 DEF ClientInv, Unused
  <2>3. QED
    BY <2>1, <2>2
<1>9. QED
  BY <1>4, <1>5, <1>6, <1>7, <1>8 DEF IInv

\* Descriptors that are only closed or handed on are still those of their files.
LEMMA HandedOn ==
    ASSUME TypeOK, FdKeepsFile, ServerInv, UNCHANGED <<opentab, srv>>,
           \A c \in Envs, i \in Fds :
              fd'[c][i] = NoFd \/ \E d \in Envs, j \in Fds : fd'[c][i] = fd[d][j]
    PROVE  FdKeepsFile' /\ ServerInv'
<1>1. FdKeepsFile'
  BY DEF FdKeepsFile
<1>2. \A s \in Slots : ~ Held(s) => ~ Held(s)'
  BY Constants DEF Held, NoFd
<1>3. QED
  BY <1>1, <1>2, Types DEF ServerInv

\* The server takes up the request of a client that sends.
LEMMA SendIInv ==
    ASSUME IInv, NEW c \in Envs, Send(c)
    PROVE  IInv'
<1>0. TypeOK /\ FdKeepsFile /\ OneInService /\ IdsAccepted /\ \A d \in Envs : ClientInv(d)
  BY DEF IInv
<1>1. /\ pc[c] = "send" /\ srv.pc = "recv" /\ pc' = [pc EXCEPT ![c] = "sent"]
      /\ UNCHANGED <<call, fd, opentab>>
  BY DEF Send
<1>2. /\ srv'.pc = "got" /\ srv'.whom = c /\ srv'.type = call[c].type
      /\ srv'.slot = call[c].slot /\ srv'.gen = call[c].gen
  BY DEF Send, Idle
<1>3. TypeOK'
  <2>1. srv' \in [pc : {"recv", "got", "scan", "reply", "unmap", "panic"}, whom : Envs,
                  type : {"none", "open", "read", "flush"}, slot : Slots \cup {NoSlot},
                  gen : Gens, n : 0 .. MAXOPEN, r : {"none", "ok", "inval", "failed", "max_open"},
                  pg : Slots \cup {NoSlot}]
    <3>1. call[c] \in CallType
      BY <1>0, Types
    <3>2. /\ call[c].type \in {"none", "open", "read", "flush"}
          /\ call[c].slot \in Slots \cup {NoSlot} /\ call[c].gen \in Gens
      BY <3>1 DEF CallType
    <3>3. QED
      BY <3>2, Constants DEF Send, Idle
  <2>2. QED
    BY <1>0, <1>1, <2>1 DEF TypeOK
<1>4. FdKeepsFile' /\ IdsAccepted' /\ ServerInv'
  BY <1>0, <1>1, <1>2 DEF FdKeepsFile, IdsAccepted, ServerInv
<1>5. OneInService'
  <2>1. \A d \in Envs : pc'[d] \in {"sent", "recv"} <=> d = c
    BY <1>0, <1>1 DEF OneInService, Working, TypeOK
  <2>2. QED
    BY <1>1, <1>2, <2>1 DEF OneInService, Working
<1>6. \A d \in Envs : ClientInv(d)'
  BY <1>0, <1>1 DEF ClientInv, Unused, TypeOK
<1>7. QED
  BY <1>3, <1>4, <1>5, <1>6 DEF IInv

\* A client that has sent waits for its reply; one that exits has nothing open.
LEMMA ReceiveExitIInv ==
    ASSUME IInv, NEW c \in Envs, Receive(c) \/ Exit(c)
    PROVE  IInv'
<1>0. TypeOK /\ FdKeepsFile /\ OneInService /\ IdsAccepted /\ ServerInv
      /\ \A d \in Envs : ClientInv(d)
  BY DEF IInv
<1>1. UNCHANGED <<call, fd, opentab, srv>>
  BY DEF Receive, Exit
<1>2. TypeOK' /\ FdKeepsFile' /\ IdsAccepted' /\ ServerInv'
  <2>1. TypeOK'
    <3>1. PICK x \in {"none", "recv"} : pc' = [pc EXCEPT ![c] = x]
      BY DEF Receive, Exit
    <3>2. QED
      BY <1>0, <1>1, <3>1 DEF TypeOK
  <2>2. FdKeepsFile' /\ IdsAccepted' /\ ServerInv'
    BY <1>0, <1>1 DEF FdKeepsFile, IdsAccepted, ServerInv, Held
  <2>3. QED
    BY <2>1, <2>2
<1>3. OneInService' /\ \A d \in Envs : ClientInv(d)'
  <2>1. CASE Receive(c)
    BY <1>0, <1>1, <2>1 DEF Receive, OneInService, Working, ClientInv, Unused, TypeOK
  <2>2. CASE Exit(c)
    BY <1>0, <1>1, <2>2 DEF Exit, OneInService, Working, ClientInv, Unused, TypeOK
  <2>3. QED
    BY <2>1, <2>2
<1>4. QED
  BY <1>2, <1>3 DEF IInv

\* close unmaps its own descriptor after the reply.
LEMMA ReturnIInv ==
    ASSUME IInv, NEW c \in Envs, Return(c)
    PROVE  IInv'
<1>0. TypeOK /\ FdKeepsFile /\ OneInService /\ IdsAccepted /\ ServerInv
      /\ \A d \in Envs : ClientInv(d)
  BY DEF IInv
<1>1. /\ pc[c] = "replied" /\ pc' = [pc EXCEPT ![c] = "user"]
      /\ call' = [call EXCEPT ![c] = NoCall] /\ UNCHANGED <<opentab, srv>>
  BY DEF Return
<1>2. /\ fd' \in [Envs -> [Fds -> FdType]]
      /\ \A d \in Envs, j \in Fds : fd'[d][j] = NoFd \/ fd'[d][j] = fd[d][j]
      /\ \A d \in Envs : d # c => fd'[d] = fd[d]
  <2>1. call[c].i \in Fds /\ fd \in [Envs -> [Fds -> FdType]]
    BY <1>0, Types DEF TypeOK, FdType
  <2>2. QED
    BY <2>1, Constants DEF Return
<1>3. TypeOK'
  BY <1>0, <1>1, <1>2, Constants DEF TypeOK, FdType
<1>4. FdKeepsFile' /\ ServerInv'
  BY <1>0, <1>1, <1>2, HandedOn
<1>5. OneInService' /\ IdsAccepted'
  BY <1>0, <1>1 DEF OneInService, Working, IdsAccepted, TypeOK, NoCall
<1>6. \A d \in Envs : ClientInv(d)'
  BY <1>0, <1>1, <1>2 DEF ClientInv, Unused, TypeOK
<1>7. QED
  BY <1>3, <1>4, <1>5, <1>6 DEF IInv

\* dup and fork hand a descriptor on, to a free one.
LEMMA DupForkIInv ==
    ASSUME IInv, NEW c \in Envs,
           (\E i, j \in Fds : Dup(c, i, j)) \/ (\E d \in Envs : Fork(c, d))
    PROVE  IInv'
<1>0. TypeOK /\ FdKeepsFile /\ OneInService /\ IdsAccepted /\ ServerInv
      /\ \A d \in Envs : ClientInv(d)
  BY DEF IInv
<1>1. fd \in [Envs -> [Fds -> FdType]]
  BY <1>0 DEF TypeOK, FdType
<1>2. PICK d \in Envs :
        /\ UNCHANGED <<call, opentab, srv>> /\ pc[c] = "user" /\ pc[d] \in {"none", "user"}
        /\ pc' = [pc EXCEPT ![d] = "user"] /\ fd' \in [Envs -> [Fds -> FdType]]
        /\ \A x \in Envs : x # d => fd'[x] = fd[x]
        /\ \A j \in Fds : \E i \in Fds : fd'[d][j] = fd[c][i] \/ fd'[d][j] = fd[d][j]
  <2>1. ASSUME NEW i \in Fds, NEW j \in Fds, Dup(c, i, j)
        PROVE  /\ UNCHANGED <<call, opentab, srv>> /\ pc[c] = "user"
               /\ pc' = [pc EXCEPT ![c] = "user"] /\ fd' \in [Envs -> [Fds -> FdType]]
               /\ \A x \in Envs : x # c => fd'[x] = fd[x]
               /\ \A k \in Fds : fd'[c][k] = fd[c][i] \/ fd'[c][k] = fd[c][k]
    BY <1>0, <1>1, <2>1 DEF Dup, TypeOK
  <2>2. ASSUME NEW d \in Envs, Fork(c, d)
        PROVE  /\ UNCHANGED <<call, opentab, srv>> /\ pc[c] = "user" /\ pc[d] = "none"
               /\ pc' = [pc EXCEPT ![d] = "user"] /\ fd' \in [Envs -> [Fds -> FdType]]
               /\ \A x \in Envs : x # d => fd'[x] = fd[x]
               /\ \A k \in Fds : fd'[d][k] = fd[c][k]
    BY <1>1, <2>2 DEF Fork
  <2>3. QED
    BY <2>1, <2>2
<1>3. TypeOK'
  BY <1>0, <1>2 DEF TypeOK, FdType
<1>4. FdKeepsFile' /\ ServerInv'
  <2>1. \A x \in Envs, i \in Fds : \E y \in Envs, j \in Fds : fd'[x][i] = fd[y][j]
    BY <1>2
  <2>2. QED
    BY <1>0, <1>2, <2>1, HandedOn
<1>5. OneInService' /\ IdsAccepted'
  BY <1>0, <1>2 DEF OneInService, Working, IdsAccepted, TypeOK
<1>6. \A x \in Envs : ClientInv(x)'
  <2> SUFFICES ASSUME NEW x \in Envs PROVE ClientInv(x)'
    OBVIOUS
  <2>1. CASE x = d
    <3>1. pc'[d] = "user"
      BY <1>0, <1>2 DEF TypeOK
    <3>2. \A j \in Fds : fd'[d][j] # NoFd => fd'[d][j].slot \in Slots
      BY <1>0, <1>2 DEF ClientInv
    <3>3. QED
      BY <2>1, <3>1, <3>2 DEF ClientInv
  <2>2. CASE x # d
    BY <1>0, <1>2, <2>2 DEF ClientInv, Unused, TypeOK
  <2>3. QED
    BY <2>1, <2>2
<1>7. QED
  BY <1>3, <1>4, <1>5, <1>6 DEF IInv

\* A step of the server that leaves the clients and the table alone.
LEMMA ServerOnlyIInv ==
    ASSUME IInv, UNCHANGED <<pc, call, fd, opentab>>, TypeOK', ServerInv',
           srv.pc \in {"got", "scan"} /\ srv'.pc \in {"scan", "reply"},
           srv'.whom = srv.whom /\ srv'.type = srv.type,
           srv'.slot = srv.slot /\ srv'.gen = srv.gen
    PROVE  IInv'
<1>1. FdKeepsFile' /\ IdsAccepted' /\ \A c \in Envs : ClientInv(c)'
  BY DEF IInv, FdKeepsFile, IdsAccepted, ClientInv, Unused
<1>2. OneInService'
  BY DEF IInv, OneInService, Working
<1>3. QED
  BY <1>1, <1>2 DEF IInv

\* The id of a request under way is that of a mapped Fd page: openfile_lookup
\* accepts it.
LEMMA HandleIInv == IInv /\ Handle => IInv'
<1> SUFFICES ASSUME IInv, Handle PROVE IInv'
  OBVIOUS
<1>0. TypeOK /\ FdKeepsFile /\ OneInService /\ \A d \in Envs : ClientInv(d)
  BY DEF IInv
<1>1. srv.pc = "got" /\ srv.type # "open" /\ UNCHANGED <<pc, call, fd, opentab>>
  BY DEF Handle
<1>2. PICK c \in Envs : c = srv.whom /\ pc[c] \in {"sent", "recv"}
  BY <1>0, <1>1, Types DEF OneInService, Working
<1>3. /\ call[c].type # "open" /\ call[c].slot = srv.slot /\ call[c].gen = srv.gen
  BY <1>0, <1>1, <1>2 DEF OneInService, Working
<1>4. PICK i \in Fds : /\ fd[c][i] # NoFd /\ fd[c][i].slot \in Slots
                       /\ fd[c][i] = [slot |-> srv.slot, gen |-> srv.gen]
  <2>1. ClientInv(c) /\ call[c].i \in Fds
    BY <1>0, Types
  <2>2. fd[c][call[c].i] # NoFd /\ fd[c][call[c].i] = [slot |-> srv.slot, gen |-> srv.gen]
    BY <1>2, <1>3, <2>1 DEF ClientInv, Unused
  <2>3. QED
    BY <2>1, <2>2 DEF ClientInv
<1>5. srv.slot \in Slots /\ opentab[srv.slot].mapped /\ opentab[srv.slot].gen = srv.gen
  <2>1. fd[c][i].slot = srv.slot /\ fd[c][i].gen = srv.gen
    BY <1>4
  <2>2. QED
    BY <1>0, <1>4, <2>1 DEF FdKeepsFile
<1>6. openfile_lookup(srv.slot, srv.gen) = "ok"
  <2>1. Held(srv.slot)
    BY <1>2, <1>4 DEF Held
  <2>2. QED
    BY <1>5, <2>1 DEF openfile_lookup, PageRef
<1>7. PICK r \in {"ok", "failed"} : srv' = Reply(r, NoSlot)
  BY <1>6 DEF Handle
<1>8. TypeOK' /\ ServerInv'
  BY <1>0, <1>1, <1>7, Constants DEF TypeOK, Reply, ServerInv
<1>9. QED
  BY <1>0, <1>1, <1>7, <1>8, ServerOnlyIInv DEF Reply, TypeOK

\* The scan of the table, until an entry is found or the table is full.
LEMMA ScanIInv == IInv /\ (HandleOpen \/ ScanBusy \/ ScanFull) => IInv'
<1> SUFFICES ASSUME IInv, HandleOpen \/ ScanBusy \/ ScanFull PROVE IInv'
  OBVIOUS
<1>0. TypeOK /\ ServerInv
  BY DEF IInv
<1>1. CASE HandleOpen
  <2>1. TypeOK' /\ ServerInv'
    BY <1>0, <1>1, Constants DEF HandleOpen, TypeOK, ServerInv
  <2>2. QED
    BY <1>0, <1>1, <2>1, ServerOnlyIInv DEF HandleOpen, TypeOK
<1>2. CASE ScanBusy
  <2>1. TypeOK' /\ ServerInv'
    BY <1>0, <1>2, Constants DEF ScanBusy, TypeOK, ServerInv
  <2>2. QED
    BY <1>0, <1>2, <2>1, ServerOnlyIInv DEF ScanBusy, TypeOK
<1>3. CASE ScanFull
  <2>1. TypeOK' /\ ServerInv'
    BY <1>0, <1>3, Constants DEF ScanFull, Reply, TypeOK, ServerInv
  <2>2. QED
    BY <1>0, <1>3, <2>1, ServerOnlyIInv DEF ScanFull, Reply, TypeOK
<1>4. QED
  BY <1>1, <1>2, <1>3

\* openfile_alloc takes an entry that nobody but the server has mapped.
LEMMA ScanFoundIInv == IInv /\ ScanFound => IInv'
<1> SUFFICES ASSUME IInv, ScanFound PROVE IInv'
  OBVIOUS
<1>0. TypeOK /\ FdKeepsFile /\ OneInService /\ IdsAccepted /\ ServerInv
      /\ \A d \in Envs : ClientInv(d)
  BY DEF IInv
<1>1. /\ srv.pc = "scan" /\ srv.n < MAXOPEN /\ Available(srv.n)
      /\ UNCHANGED <<pc, call, fd>>
  BY DEF ScanFound
<1>2. PICK n \in Slots : n = srv.n
  BY <1>0, <1>1, Types, Constants
<1>3. PICK gen \in Gens : gen = (opentab[n].gen + 1) % GenMod
  BY <1>0, Types, GenWraps
<1>4. PICK o, r, pg :
        /\ opentab' = [opentab EXCEPT ![n] = o] /\ srv' = Reply(r, pg)
        /\ o \in EntryType /\ o.mapped /\ o.gen = gen
        /\ \/ r = "ok" /\ pg = n /\ o.id = gen
           \/ r = "failed" /\ pg = NoSlot
  <2>1. /\ [mapped |-> TRUE, gen |-> gen, id |-> gen] \in EntryType
        /\ [mapped |-> TRUE, gen |-> gen, id |-> 0] \in EntryType
    BY Constants DEF EntryType
  <2>2. QED
    BY <1>2, <1>3, <2>1 DEF ScanFound
<1>5. ~ Held(n)
  <2>1. SUFFICES ASSUME NEW d \in Envs, NEW i \in Fds, fd[d][i].slot = n, PageRef(n) <= 1
                 PROVE FALSE
    BY <1>1, <1>2 DEF Held, Available
  <2>2. fd[d][i] # NoFd
    BY <2>1, Constants DEF NoFd
  <2>3. opentab[n].mapped /\ Held(n)
    BY <1>0, <2>1, <2>2 DEF FdKeepsFile, Held
  <2>4. QED
    BY <2>1, <2>3 DEF PageRef
<1>6. /\ opentab' \in [Slots -> EntryType] /\ opentab'[n] = o
      /\ \A s \in Slots : s # n => opentab'[s] = opentab[s]
  BY <1>0, <1>4 DEF TypeOK, EntryType
<1>7. /\ srv'.pc = "reply" /\ srv'.r = r /\ srv'.pg = pg /\ srv'.whom = srv.whom
      /\ srv'.type = srv.type /\ srv'.slot = srv.slot /\ srv'.gen = srv.gen
  BY <1>0, <1>4 DEF Reply, TypeOK
<1>8. TypeOK'
  <2>1. r \in {"none", "ok", "inval", "failed", "max_open"} /\ pg \in Slots \cup {NoSlot}
    BY <1>4
  <2>2. srv' \in [pc : {"recv", "got", "scan", "reply", "unmap", "panic"}, whom : Envs,
                  type : {"none", "open", "read", "flush"}, slot : Slots \cup {NoSlot},
                  gen : Gens, n : 0 .. MAXOPEN, r : {"none", "ok", "inval", "failed", "max_open"},
                  pg : Slots \cup {NoSlot}]
    BY <1>0, <1>4, <2>1, Constants DEF Reply, TypeOK
  <2>3. QED
    BY <1>0, <1>1, <1>6, <2>2 DEF TypeOK, EntryType
<1>9. FdKeepsFile'
  <2> SUFFICES ASSUME NEW c \in Envs, NEW i \in Fds, fd[c][i] # NoFd
               PROVE  LET p == opentab'[fd[c][i].slot]
                      IN p.mapped /\ p.gen = fd[c][i].gen /\ p.id = fd[c][i].gen
    BY <1>1 DEF FdKeepsFile
  <2>1. fd[c][i].slot \in Slots /\ fd[c][i].slot # n
    BY <1>0, <1>5 DEF ClientInv, Held
  <2>2. QED
    BY <1>0, <1>6, <2>1 DEF FdKeepsFile
<1>10. ServerInv'
  <2>1. CASE pg = NoSlot
    BY <1>4, <1>7, <2>1 DEF ServerInv
  <2>2. CASE pg = n
    <3>1. srv.type = "open"
      BY <1>0, <1>1 DEF ServerInv
    <3>2. ~ Held(n)'
      BY <1>1, <1>5 DEF Held
    <3>3. QED
      BY <1>4, <1>6, <1>7, <2>2, <3>1, <3>2, Constants DEF ServerInv
  <2>3. QED
    BY <1>4, <2>1, <2>2
<1>11. IdsAccepted' /\ \A c \in Envs : ClientInv(c)'
  BY <1>0, <1>1 DEF IdsAccepted, ClientInv, Unused
<1>12. OneInService'
  BY <1>0, <1>1, <1>7 DEF OneInService, Working
<1>13. QED
  BY <1>8, <1>9, <1>10, <1>11, <1>12 DEF IInv

\* The reply reaches the client it is for, which maps the page at the descriptor
\* it asked for.
LEMMA SendReplyIInv == IInv /\ SendReply => IInv'
<1> SUFFICES ASSUME IInv, SendReply PROVE IInv'
  OBVIOUS
<1>0. TypeOK /\ FdKeepsFile /\ OneInService /\ IdsAccepted /\ ServerInv
      /\ \A d \in Envs : ClientInv(d)
  BY DEF IInv
<1>1. PICK c \in Envs : c = srv.whom
  BY <1>0, Types
<1>2. /\ srv.pc = "reply" /\ pc[c] = "recv" /\ pc' = [pc EXCEPT ![c] = "replied"]
      /\ call' = [call EXCEPT ![c].r = srv.r] /\ fd' = Mapped(fd, c, srv.pg)
      /\ srv' = [Idle EXCEPT !.pc = "unmap"] /\ UNCHANGED opentab
  BY <1>1 DEF SendReply
<1>3. /\ call' \in [Envs -> CallType] /\ call'[c].r = srv.r /\ srv.r # "inval"
      /\ \A d \in Envs : d # c => call'[d] = call[d]
  <2>1. call[c] \in CallType /\ srv.r \in {"none", "ok", "inval", "failed", "max_open"}
    BY <1>0 DEF TypeOK
  <2>2. [call[c] EXCEPT !.r = srv.r] \in CallType /\ [call[c] EXCEPT !.r = srv.r].r = srv.r
    BY <2>1 DEF CallType
  <2>3. QED
    BY <1>0, <1>2, <2>2 DEF TypeOK, ServerInv
<1>4. \/ fd' = fd
      \/ \E i \in Fds, s \in Slots :
           /\ fd' = [fd EXCEPT ![c][i] = [slot |-> s, gen |-> opentab[s].id]]
           /\ opentab[s].mapped /\ opentab[s].id = opentab[s].gen
  <2>1. call[c].i \in Fds
    BY <1>0, Types
  <2>2. CASE srv.pg = NoSlot
    BY <1>2, <2>2 DEF Mapped
  <2>3. CASE srv.pg # NoSlot
    <3>1. /\ srv.pg \in Slots /\ opentab[srv.pg].mapped
          /\ opentab[srv.pg].id = opentab[srv.pg].gen
      BY <1>0, <1>2, <2>3, Types DEF ServerInv
    <3>2. QED
      BY <1>2, <2>1, <3>1 DEF Mapped
  <2>4. QED
    BY <2>2, <2>3
<1>5. /\ fd' \in [Envs -> [Fds -> FdType]]
      /\ \A d \in Envs : d # c => fd'[d] = fd[d]
      /\ \A i \in Fds : \/ fd'[c][i] = fd[c][i]
                        \/ \E s \in Slots :
                             /\ fd'[c][i].slot = s /\ fd'[c][i].gen = opentab[s].gen
                             /\ opentab[s].mapped /\ opentab[s].id = opentab[s].gen
  <2>1. fd \in [Envs -> [Fds -> FdType]]
    BY <1>0 DEF TypeOK, FdType
  <2>2. CASE fd' = fd
    BY <2>1, <2>2
  <2>3. ASSUME NEW i \in Fds, NEW s \in Slots,
               fd' = [fd EXCEPT ![c][i] = [slot |-> s, gen |-> opentab[s].id]],
               opentab[s].mapped, opentab[s].id = opentab[s].gen
        PROVE  <1>5!1 /\ <1>5!2 /\ <1>5!3
    <3>1. [slot |-> s, gen |-> opentab[s].id] \in FdType
      BY <1>0, <2>3, Types DEF FdType
    <3>2. QED
      BY <2>1, <2>3, <3>1
  <2>4. QED
    BY <1>4, <2>2, <2>3
<1>6. TypeOK'
  BY <1>0, <1>2, <1>3, <1>5, Constants DEF TypeOK, FdType, Idle
<1>7. FdKeepsFile'
  <2> SUFFICES ASSUME NEW d \in Envs, NEW i \in Fds, fd'[d][i] # NoFd
               PROVE  LET p == opentab[fd'[d][i].slot]
                      IN p.mapped /\ p.gen = fd'[d][i].gen /\ p.id = fd'[d][i].gen
    BY <1>2 DEF FdKeepsFile
  <2>1. CASE fd'[d][i] = fd[d][i]
    BY <1>0, <2>1 DEF FdKeepsFile
  <2>2. CASE fd'[d][i] # fd[d][i]
    BY <1>5, <2>2
  <2>3. QED
    BY <2>1, <2>2
<1>8. ServerInv' /\ IdsAccepted'
  BY <1>0, <1>2, <1>3 DEF ServerInv, Idle, IdsAccepted
<1>9. OneInService'
  <2>1. \A d \in Envs : pc[d] \in {"sent", "recv"} <=> d = c
    BY <1>0, <1>1, <1>2 DEF OneInService, Working
  <2>2. \A d \in Envs : pc'[d] \notin {"sent", "recv"}
    BY <1>0, <1>2, <2>1 DEF TypeOK
  <2>3. QED
    BY <1>2, <2>2 DEF OneInService, Working, Idle
<1>10. \A d \in Envs : ClientInv(d)'
  <2> SUFFICES ASSUME NEW d \in Envs PROVE ClientInv(d)'
    OBVIOUS
  <2>1. CASE d = c
    <3>1. pc'[c] = "replied"
      BY <1>0, <1>2 DEF TypeOK
    <3>2. \A i \in Fds : fd[c][i] # NoFd => fd[c][i].slot \in Slots
      BY <1>0 DEF ClientInv
    <3>3. \A i \in Fds : fd'[c][i] # NoFd => fd'[c][i].slot \in Slots
      BY <1>5, <3>2
    <3>4. QED
      BY <2>1, <3>1, <3>3 DEF ClientInv
  <2>2. CASE d # c
    BY <1>0, <1>2, <1>3, <1>5, <2>2 DEF ClientInv, Unused, TypeOK
  <2>3. QED
    BY <2>1, <2>2
<1>11. QED
  BY <1>6, <1>7, <1>8, <1>9, <1>10 DEF IInv

\* The server returns to ipc_recv.
LEMMA NextRequestIInv == IInv /\ NextRequest => IInv'
<1> SUFFICES ASSUME IInv, NextRequest PROVE IInv'
  OBVIOUS
<1>0. /\ TypeOK /\ FdKeepsFile /\ OneInService /\ IdsAccepted /\ \A d \in Envs : ClientInv(d)
      /\ srv.pc = "unmap" /\ srv' = Idle /\ UNCHANGED <<pc, call, fd, opentab>>
  BY DEF IInv, NextRequest
<1>1. TypeOK' /\ ServerInv'
  BY <1>0, Constants DEF TypeOK, ServerInv, Idle
<1>2. FdKeepsFile' /\ IdsAccepted' /\ \A d \in Envs : ClientInv(d)'
  BY <1>0 DEF FdKeepsFile, IdsAccepted, ClientInv, Unused
<1>3. OneInService'
  BY <1>0 DEF OneInService, Working, Idle
<1>4. QED
  BY <1>1, <1>2, <1>3 DEF IInv

\* No step of a client or of the server leads out of the invariant.
LEMMA NextIInv == IInv /\ [Next]_vars => IInv'
<1> SUFFICES ASSUME IInv, [Next]_vars PROVE IInv'
  OBVIOUS
<1>1. CASE ServerStep
  BY <1>1, HandleIInv, ScanIInv, ScanFoundIInv, SendReplyIInv, NextRequestIInv DEF ServerStep
<1>2. ASSUME NEW c \in Envs, LibraryStep(c) PROVE IInv'
  BY <1>2, SendIInv, ReceiveExitIInv, ReturnIInv DEF LibraryStep
<1>3. ASSUME NEW c \in Envs, UserStep(c) PROVE IInv'
  BY <1>3, RequestIInv, DupForkIInv, ReceiveExitIInv DEF UserStep
<1>4. CASE UNCHANGED vars
  <2>0. UNCHANGED <<pc, call, fd, opentab, srv>>
    BY <1>4 DEF vars
  <2>1. TypeOK'
    BY <2>0 DEF IInv, TypeOK
  <2>2. FdKeepsFile'
    BY <2>0 DEF IInv, FdKeepsFile, Held
  <2>3. OneInService'
    BY <2>0 DEF IInv, OneInService, Working
  <2>4. IdsAccepted'
    BY <2>0 DEF IInv, IdsAccepted
  <2>5. ServerInv'
    BY <2>0 DEF IInv, ServerInv, Held
  <2>6. \A c \in Envs : ClientInv(c)'
    BY <2>0 DEF IInv, ClientInv, Unused
  <2>7. QED
    BY <2>1, <2>2, <2>3, <2>4, <2>5, <2>6 DEF IInv
<1>5. QED
  BY <1>1, <1>2, <1>3, <1>4 DEF Next

\* The inductive invariant of the file server and its clients holds for any
\* number of clients, descriptors, table entries and generations.
THEOREM FileServerInvariance == Spec => []IInv
<1>1. QED
  BY InitIInv, NextIInv, PTL DEF Spec

\* A descriptor that anyone holds, opened, duplicated or inherited, keeps its
\* table entry and the id in its page (openfile_alloc).
THEOREM DescriptorsKeepFiles == Spec => []FdKeepsFile
<1>1. IInv => FdKeepsFile
  BY DEF IInv
<1>2. QED
  BY <1>1, FileServerInvariance, PTL

\* The server works on exactly the request of the client that has sent and not
\* been answered (fsipc, serve).
THEOREM ServesOne == Spec => []OneInService
<1>1. IInv => OneInService
  BY DEF IInv
<1>2. QED
  BY <1>1, FileServerInvariance, PTL

\* An id read from a mapped Fd page is accepted, however long the request waited
\* (openfile_lookup).
THEOREM NoIdRefused == Spec => []IdsAccepted
<1>1. IInv => IdsAccepted
  BY DEF IInv
<1>2. QED
  BY <1>1, FileServerInvariance, PTL
=============================================================================

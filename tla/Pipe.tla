-------------------------------- MODULE Pipe --------------------------------
(***************************************************************************)
(* A pipe (lib/pipe.c), from the pipe() that made it: the file descriptors  *)
(* and data pages through which environments hold its ends (lib/fd.c), the  *)
(* ring buffer in the shared page, and _pipeisclosed, which finds out that  *)
(* the other end is gone by comparing two page reference counts.            *)
(*                                                                         *)
(* All of it is user code: between two steps of an environment any other    *)
(* may run, on another CPU or after a timer interrupt. One step is one      *)
(* access to shared state, or one system call. Program order is kept: the   *)
(* library is compiled so that the accesses happen in the order written.    *)
(* One environment reads and one writes at a time (two readers would race   *)
(* on p_rpos); any number may hold the ends and ask whether they are closed.*)
(***************************************************************************)
EXTENDS Integers, Sequences, FiniteSets

CONSTANTS Envs, Root,       \* Root is the environment that called pipe()
          Reader, Writer,   \* the environments that call read() and write()
          NCPU,
          NFD,              \* number of file descriptors (MAXFD is 32)
          PIPEBUFSIZ,
          MaxBytes,         \* bound: the bytes the writer has to write
          MaxLen,           \* bound: the length of one read() or write()
          Askers, Dupers    \* bound: who calls pipeisclosed() and dup()

ASSUME PipeAssumption ==
    /\ Root \in Envs /\ Reader \in Envs /\ Writer \in Envs
    /\ NCPU \in Nat \ {0} /\ NFD \in Nat \ {0, 1}
    /\ PIPEBUFSIZ \in Nat \ {0}
    /\ MaxBytes \in Nat /\ MaxLen \in Nat
    /\ Askers \subseteq Envs /\ Dupers \subseteq Envs

Fds == 0 .. NFD - 1

VARIABLES running,         \* the environments on a CPU
          switched,        \* [Envs -> BOOLEAN]: env_runs has changed since
                           \* _pipeisclosed read it
          fd,              \* [Envs -> [Fds -> {"none", "R", "W"}]]: the page
                           \* mapped at INDEX2FD(i), by its fd_omode
          data,            \* [Envs -> [Fds -> BOOLEAN]]: the pipe is mapped
                           \* at INDEX2DATA(i)
          p_rpos, p_wpos, p_buf,
          pc,
          loc,             \* the local variables of the call in progress
          got, eof         \* what the reader has been given

fdVars   == <<fd, data>>
ringVars == <<p_rpos, p_wpos, p_buf, got, eof>>
vars == <<running, switched, fd, data, p_rpos, p_wpos, p_buf, pc, loc, got, eof>>

\* f, g: descriptors; n, i: length and progress; byte: the one just taken;
\* ref, closed: of the check;
\* then: where the call in progress continues; kid: the child of a fork.
NoCall == [f |-> 0, g |-> 0, n |-> 0, i |-> 0, ref |-> 0, closed |-> FALSE,
           byte |-> 0, then |-> "user", kid |-> Root]

\* pageref of an Fd page and of the pipe (lib/pageref.c): the kernel's counts.
FdRef(m) == Cardinality({x \in Envs \X Fds : fd[x[1]][x[2]] = m})
PipeRef == Cardinality({x \in Envs \X Fds : data[x[1]][x[2]]})

Alive(e) == pc[e] \notin {"none", "dead"}

\* Between the two reads of env_runs in _pipeisclosed.
InCheck(e) == pc[e] \in {"chk_first", "chk_pipe", "chk_fd", "chk_end"}

Step(e, from, to, locals) ==
    /\ e \in running
    /\ pc[e] = from
    /\ pc' = [pc EXCEPT ![e] = to]
    /\ loc' = [loc EXCEPT ![e] = locals]

\* After pipe(): descriptor 0 is the read end, 1 the write end.
Init ==
    /\ running = {Root}
    /\ switched = [e \in Envs |-> FALSE]
    /\ fd = [e \in Envs |-> [i \in Fds |->
               IF e # Root THEN "none" ELSE IF i = 0 THEN "R"
               ELSE IF i = 1 THEN "W" ELSE "none"]]
    /\ data = [e \in Envs |-> [i \in Fds |-> e = Root /\ i \in {0, 1}]]
    /\ p_rpos = 0 /\ p_wpos = 0
    /\ p_buf = [k \in 0 .. PIPEBUFSIZ - 1 |-> 0]
    /\ pc = [e \in Envs |-> IF e = Root THEN "user" ELSE "none"]
    /\ loc = [e \in Envs |-> NoCall]
    /\ got = <<>> /\ eof = FALSE

(***************************************************************************)
(* _pipeisclosed: read env_runs, the two counts in either order (C leaves   *)
(* it open), and env_runs again; start over if it has changed.              *)
(***************************************************************************)
PipeIsClosed(e, f) ==
    /\ e \in Askers /\ fd[e][f] # "none"
    /\ Step(e, "user", "chk_first", [NoCall EXCEPT !.f = f])
    /\ UNCHANGED <<running, switched, fdVars, ringVars>>

CheckRuns(e) ==
    /\ Step(e, "chk_runs", "chk_first", loc[e])
    /\ UNCHANGED <<running, switched, fdVars, ringVars>>

CheckFirst(e) ==
    /\ \/ Step(e, "chk_first", "chk_pipe", [loc[e] EXCEPT !.ref = FdRef(fd[e][loc[e].f])])
       \/ Step(e, "chk_first", "chk_fd", [loc[e] EXCEPT !.ref = PipeRef])
    /\ UNCHANGED <<running, switched, fdVars, ringVars>>

CheckSecond(e) ==
    LET closed(ref) == [loc[e] EXCEPT !.closed = (ref = loc[e].ref), !.ref = 0]
    IN /\ \/ Step(e, "chk_pipe", "chk_end", closed(PipeRef))
          \/ Step(e, "chk_fd", "chk_end", closed(FdRef(fd[e][loc[e].f])))
       /\ UNCHANGED <<running, switched, fdVars, ringVars>>

\* The answer: no, for pipeisclosed to return or for a read or a write to
\* yield and retry, or yes.
Answer(e) == IF loc[e].closed THEN "closed"
             ELSE IF loc[e].then = "user" THEN "user" ELSE "yield"

\* Mutant: the answer is believed whatever happened since.
CheckEndNoRetry(e) ==
    /\ Step(e, "chk_end", Answer(e), loc[e])
    /\ switched' = [switched EXCEPT ![e] = FALSE]
    /\ UNCHANGED <<running, fdVars, ringVars>>

CheckEnd(e) ==
    /\ Step(e, "chk_end", IF switched[e] THEN "chk_runs" ELSE Answer(e),
            IF switched[e] THEN [loc[e] EXCEPT !.closed = FALSE]
            ELSE IF Answer(e) = "user" THEN NoCall ELSE loc[e])
    /\ switched' = [switched EXCEPT ![e] = FALSE]
    /\ UNCHANGED <<running, fdVars, ringVars>>

\* The other end is gone: pipeisclosed returns 1, a read or a write returns 0.
ReturnClosed(e) ==
    /\ Step(e, "closed", "user", NoCall)
    /\ eof' = (eof \/ loc[e].then = "read")
    /\ UNCHANGED <<running, switched, fdVars, p_rpos, p_wpos, p_buf, got>>

(***************************************************************************)
(* devpipe_read and devpipe_write                                           *)
(***************************************************************************)
Read(e, f, n) ==
    /\ e = Reader /\ fd[e][f] = "R"
    /\ Step(e, "user", "read", [NoCall EXCEPT !.f = f, !.n = n, !.then = "read"])
    /\ UNCHANGED <<running, switched, fdVars, ringVars>>

ReadTest(e) ==
    LET empty == p_rpos = p_wpos
        l == loc[e]
    IN /\ \/ /\ l.i = l.n \/ (empty /\ l.i > 0)
             /\ Step(e, "read", "user", NoCall)
          \/ /\ l.i < l.n /\ empty /\ l.i = 0
             /\ Step(e, "read", "chk_runs", l)
          \/ /\ l.i < l.n /\ ~empty
             /\ Step(e, "read", "read_inc", [l EXCEPT !.byte = p_buf[p_rpos % PIPEBUFSIZ]])
       /\ UNCHANGED <<running, switched, fdVars, ringVars>>

ReadInc(e) ==
    /\ Step(e, "read_inc", "read", [loc[e] EXCEPT !.i = @ + 1, !.byte = 0])
    /\ p_rpos' = p_rpos + 1
    /\ got' = Append(got, loc[e].byte)
    /\ UNCHANGED <<running, switched, fdVars, p_wpos, p_buf, eof>>

Write(e, f, n) ==
    /\ e = Writer /\ fd[e][f] = "W" /\ p_wpos + n <= MaxBytes
    /\ Step(e, "user", "write", [NoCall EXCEPT !.f = f, !.n = n, !.then = "write"])
    /\ UNCHANGED <<running, switched, fdVars, ringVars>>

\* Mutant: one byte too many fits.
FullLate == p_wpos > p_rpos + PIPEBUFSIZ

Full == p_wpos >= p_rpos + PIPEBUFSIZ

\* The byte stored at p_wpos is byte number p_wpos + 1 of the stream.
WriteTest(e) ==
    LET l == loc[e]
    IN /\ \/ l.i = l.n /\ Step(e, "write", "user", NoCall) /\ UNCHANGED p_buf
          \/ l.i < l.n /\ Full /\ Step(e, "write", "chk_runs", l) /\ UNCHANGED p_buf
          \/ /\ l.i < l.n /\ ~Full
             /\ Step(e, "write", "write_inc", l)
             /\ p_buf' = [p_buf EXCEPT ![p_wpos % PIPEBUFSIZ] = p_wpos + 1]
       /\ UNCHANGED <<running, switched, fdVars, p_rpos, p_wpos, got, eof>>

WriteInc(e) ==
    /\ Step(e, "write_inc", "write", [loc[e] EXCEPT !.i = @ + 1])
    /\ p_wpos' = p_wpos + 1
    /\ UNCHANGED <<running, switched, fdVars, p_rpos, p_buf, got, eof>>

(***************************************************************************)
(* Descriptors: close, dup, fork, death                                     *)
(***************************************************************************)
\* close: devpipe_close unmaps the Fd page, then the pipe. The second unmapping
\* of the Fd page, in fd_close, finds nothing.
Close(e, f) ==
    /\ fd[e][f] # "none"
    /\ Step(e, "user", "close_data", [NoCall EXCEPT !.g = f])
    /\ fd' = [fd EXCEPT ![e][f] = "none"]
    /\ UNCHANGED <<running, switched, data, ringVars>>

\* Mutant: close leaves the pipe mapped.
CloseDataKept(e) ==
    /\ Step(e, "close_data", loc[e].then, IF loc[e].then = "user" THEN NoCall ELSE loc[e])
    /\ UNCHANGED <<running, switched, fdVars, ringVars>>

CloseData(e) ==
    /\ Step(e, "close_data", loc[e].then, IF loc[e].then = "user" THEN NoCall ELSE loc[e])
    /\ data' = [data EXCEPT ![e][loc[e].g] = FALSE]
    /\ UNCHANGED <<running, switched, fd, ringVars>>

\* dup(f, g): close g if it is open, then map the pipe, then the Fd page.
Dup(e, f, g) ==
    /\ e \in Dupers /\ fd[e][f] # "none"
    /\ Step(e, "user", IF fd[e][g] # "none" THEN "close_data" ELSE "dup_data",
            [NoCall EXCEPT !.f = f, !.g = g, !.then = "dup_data"])
    /\ fd' = [fd EXCEPT ![e][g] = "none"]
    /\ UNCHANGED <<running, switched, data, ringVars>>

DupData(e) ==
    /\ Step(e, "dup_data", "dup_fd", loc[e])
    /\ data' = [data EXCEPT ![e][loc[e].g] = @ \/ data[e][loc[e].f]]
    /\ UNCHANGED <<running, switched, fd, ringVars>>

\* If f itself was closed (dup(f, f)) there is nothing to map and the error
\* path unmaps both pages of g.
DupFd(e) ==
    LET f == loc[e].f
        g == loc[e].g
    IN /\ Step(e, "dup_fd", "user", NoCall)
       /\ fd' = [fd EXCEPT ![e][g] = fd[e][f]]
       /\ data' = [data EXCEPT ![e][g] = @ /\ fd[e][f] # "none"]
       /\ UNCHANGED <<running, switched, ringVars>>

\* fork and spawn share the PTE_SHARE pages with the child in the order of
\* their addresses, all Fd pages before all data pages, and then start it.
\* Here Root makes all the children.
Fork(x) ==
    /\ pc[x] = "none"
    /\ Step(Root, "user", "fork", [NoCall EXCEPT !.kid = x])
    /\ UNCHANGED <<running, switched, fdVars, ringVars>>

ForkPage(e) ==
    LET k == loc[e].i
        x == loc[e].kid
    IN /\ k < 2 * NFD
       /\ Step(e, "fork", "fork", [loc[e] EXCEPT !.i = k + 1])
       /\ fd' = IF k < NFD THEN [fd EXCEPT ![x][k] = fd[e][k]] ELSE fd
       /\ data' = IF k < NFD THEN data ELSE [data EXCEPT ![x][k - NFD] = data[e][k - NFD]]
       /\ UNCHANGED <<running, switched, ringVars>>

ForkDone(e) ==
    /\ e \in running /\ pc[e] = "fork" /\ loc[e].i = 2 * NFD
    /\ pc' = [pc EXCEPT ![e] = "user", ![loc[e].kid] = "user"]
    /\ loc' = [loc EXCEPT ![e] = NoCall]
    /\ UNCHANGED <<running, switched, fdVars, ringVars>>

\* d destroys e: itself (a fault, or a zombie's next trap, anywhere in its
\* code), or a child that is not running. env_free drops every mapping under
\* the kernel lock.
Destroy(d, e) ==
    /\ Alive(e) /\ d \in running
    /\ d = e \/ (d = Root /\ pc[d] = "user" /\ e \notin running)
    /\ pc' = [pc EXCEPT ![e] = "dead"]
    /\ loc' = [loc EXCEPT ![e] = NoCall]
    /\ running' = running \ {e}
    /\ fd' = [fd EXCEPT ![e] = [i \in Fds |-> "none"]]
    /\ data' = [data EXCEPT ![e] = [i \in Fds |-> FALSE]]
    /\ switched' = [switched EXCEPT ![e] = FALSE]
    /\ UNCHANGED ringVars

(***************************************************************************)
(* Scheduling: any environment may replace any other, at a timer interrupt  *)
(* or because it yields (sys_yield may also return to its caller); env_run  *)
(* counts a run only when the environment of its CPU changes.               *)
(***************************************************************************)
Switch(e, x) ==
    /\ e \in running /\ Alive(x) /\ x \notin running
    /\ running' = (running \ {e}) \cup {x}
    /\ switched' = [switched EXCEPT ![x] = InCheck(x)]

Preempt(e, x) ==
    /\ Switch(e, x)
    /\ UNCHANGED <<pc, loc, fdVars, ringVars>>

SysYield(e) ==
    /\ Step(e, "yield", loc[e].then, loc[e])
    /\ UNCHANGED <<fdVars, ringVars>>
    /\ (\E x \in Envs : Switch(e, x)) \/ UNCHANGED <<running, switched>>

RunIdle(x) ==
    /\ Cardinality(running) < NCPU
    /\ Alive(x) /\ x \notin running
    /\ running' = running \cup {x}
    /\ switched' = [switched EXCEPT ![x] = InCheck(x)]
    /\ UNCHANGED <<pc, loc, fdVars, ringVars>>

(***************************************************************************)
(* The specification                                                        *)
(***************************************************************************)
\* A new call.
Call(e) ==
    \/ \E f \in Fds : PipeIsClosed(e, f) \/ Close(e, f)
    \/ \E f \in Fds, n \in 1 .. MaxLen : Read(e, f, n) \/ Write(e, f, n)
    \/ \E f, g \in Fds : Dup(e, f, g)

\* The next step of the call in progress.
Continue(e) ==
    \/ CheckRuns(e) \/ CheckFirst(e) \/ CheckSecond(e) \/ CheckEnd(e) \/ ReturnClosed(e)
    \/ ReadTest(e) \/ ReadInc(e) \/ WriteTest(e) \/ WriteInc(e)
    \/ CloseData(e) \/ DupData(e) \/ DupFd(e)
    \/ ForkPage(e) \/ ForkDone(e) \/ SysYield(e)

EnvStep(e) ==
    \/ Call(e) \/ Continue(e) \/ RunIdle(e)
    \/ \E x \in Envs : Preempt(e, x) \/ Destroy(x, e)

\* A program that forks right after pipe(), before anyone else has the pipe.
Alone == \A x \in Envs \ {Root} : pc[x] = "none"

ForkFirst == Alone /\ \E x \in Envs : Fork(x)

Next == ForkFirst \/ \E e \in Envs : EnvStep(e)

Spec == Init /\ [][Next]_vars

\* A program that forks while others already use the pipe.
NextLateFork == \E e \in Envs : EnvStep(e) \/ Fork(e)

SpecLateFork == Init /\ [][NextLateFork]_vars

\* The scheduler reaches every environment, and a time slice is long enough
\* for an instruction.
Fairness ==
    \A e \in Envs : /\ SF_vars(Continue(e))
                    /\ WF_vars(RunIdle(e) \/ \E x \in Envs : Preempt(x, e))

FairSpec == Spec /\ Fairness

(***************************************************************************)
(* Properties                                                               *)
(***************************************************************************)
TypeOK ==
    /\ running \subseteq Envs /\ Cardinality(running) <= NCPU
    /\ \A e \in running : Alive(e)
    /\ switched \in [Envs -> BOOLEAN]
    /\ fd \in [Envs -> [Fds -> {"none", "R", "W"}]]
    /\ data \in [Envs -> [Fds -> BOOLEAN]]
    /\ p_rpos \in 0 .. MaxBytes /\ p_wpos \in 0 .. MaxBytes
    /\ p_buf \in [0 .. PIPEBUFSIZ - 1 -> 0 .. MaxBytes]
    /\ got \in Seq(1 .. MaxBytes) /\ eof \in BOOLEAN

OtherEnd(m) == IF m = "R" THEN "W" ELSE "R"

\* "if all the writers are gone, note eof" (devpipe_read): whenever
\* _pipeisclosed answers yes, for whichever end and whatever calls were cut in
\* the middle, no environment holds the other end.
ClosedIsClosed ==
    \A e \in Envs : pc[e] = "closed" => FdRef(OtherEnd(fd[e][loc[e].f])) = 0

Stream == INSTANCE ByteStream WITH
    Capacity <- PIPEBUFSIZ,
    sent <- p_wpos,
    chan <- [k \in 1 .. p_wpos - p_rpos |-> p_buf[(p_rpos + k - 1) % PIPEBUFSIZ]]

\* The pipe is a stream: "wait to increment rpos until the byte is taken!",
\* "wait to increment wpos until the byte is stored!" (lib/pipe.c). Bytes
\* arrive in order, none lost, doubled or overwritten, and none is written
\* after the reader has been told that all writers are gone.
IsStream == Stream!Spec

\* testpipe.c expects a child that reads until 0 comes back to have all the
\* bytes its parent wrote before closing: end of file means an empty pipe.
EofIsDrained ==
    \A e \in Envs : pc[e] = "closed" /\ loc[e].then = "read" => p_rpos = p_wpos

\* The end e reads or writes is the only one left.
Abandoned(e) ==
    /\ loc[e].then \in {"read", "write"}
    /\ FdRef(OtherEnd(fd[e][loc[e].f])) = 0

\* Nobody spins for ever on a pipe whose other end is gone ("pipe read closed
\* properly", testpipe.c), unless descriptors are opened and closed for ever or
\* preemption hits the check of _pipeisclosed for ever.
NoSpin ==
    \A e \in Envs :
       /\ <>[][UNCHANGED fdVars]_vars
       /\ <>[][InCheck(e) => ~(e \in running /\ e \notin running')]_vars
       => (Abandoned(e) ~> ~Abandoned(e))
=============================================================================

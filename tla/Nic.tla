-------------------------------- MODULE Nic --------------------------------
(***************************************************************************)
(* The driver of the network card (kern/e1000.c) and the two environments   *)
(* that use it, net/input.c and net/output.c. Driver and card share two     *)
(* rings of descriptors, and work on them at the same time: the driver      *)
(* under the kernel lock, one store after the other, the card whenever it   *)
(* likes. The card and the network server are external: the server accepts  *)
(* a page with a packet, reads it for a while, and has packets to send.     *)
(***************************************************************************)
EXTENDS Integers, Sequences

CONSTANTS NTXDESC, NRXDESC,
          Pkts, NoPkt,
          Pages, NoPage,      \* pages for nsipcbuf
          CardKeepsUp,        \* the card takes a descriptor before the ring is full
          OneWay              \* a bound: there are packets in one direction at a time

ASSUME NicAssumption ==
    /\ NTXDESC \in Nat \ {0, 1} /\ NRXDESC \in Nat \ {0, 1}
    /\ NoPkt \notin Pkts /\ NoPage \notin Pages
    /\ CardKeepsUp \in BOOLEAN /\ OneWay \in BOOLEAN

TxDescs == 0 .. NTXDESC - 1
RxDescs == 0 .. NRXDESC - 1

VARIABLES tx,       \* [TxDescs -> [pkt, dd]], tx_desc and tx_pkts_buf
          tdh, tdt, \* registers of the card
          due,      \* descriptors it has sent and not reported yet
          rx,       \* [RxDescs -> [pkt, dd]], rxq and rx_pkts
          rdh, rdt,
          wire,     \* the packet being sent
          dma,      \* the packet the card is writing to memory
          kern,     \* where the driver is, under the kernel lock
          in,       \* the input environment: pc, buf, and the page at nsipcbuf
          page,     \* [Pages -> contents]
          held,     \* [Pages -> the packet the server was given in it]
          out       \* the packet the output environment was given

txvars == <<tx, tdh, tdt, due, wire>>
rxvars == <<rx, rdh, rdt, dma>>
envvars == <<in, page, held, out>>
vars == <<txvars, rxvars, kern, envvars>>

\* Descriptors without a packet: what is left in their buffers does not matter.
Done == [pkt |-> NoPkt, dd |-> TRUE]
Empty == [pkt |-> NoPkt, dd |-> FALSE]

\* pci_nic_attach.
Init ==
    /\ tx = [i \in TxDescs |-> Done] 
    /\ tdh = 0 /\ tdt = 0 /\ due = 0
    /\ rx = [i \in RxDescs |-> Empty] /\ rdh = 0 /\ rdt = NRXDESC - 1
    /\ wire = NoPkt /\ dma = NoPkt /\ kern = "idle"
    /\ in = [pc |-> "poll", buf |-> NoPkt, page |-> NoPage]
    /\ page = [g \in Pages |-> NoPkt]
    /\ held = [g \in Pages |-> NoPkt]
    /\ out = NoPkt

TxNext(i) == (i + 1) % NTXDESC
RxNext(i) == (i + 1) % NRXDESC

TxQuiet == out = NoPkt /\ tdh = tdt /\ due = 0
RxQuiet ==
    /\ dma = NoPkt /\ in.pc = "poll" /\ \A i \in RxDescs : ~ rx[i].dd
    /\ \A g \in Pages : held[g] = NoPkt

(***************************************************************************)
(* The card                                                                 *)
(***************************************************************************)
\* tdh = tdt means that there is nothing to send.
CardSend ==
    /\ tdh # tdt
    /\ wire' = tx[tdh].pkt
    /\ tdh' = TxNext(tdh)
    /\ due' = due + 1
    /\ UNCHANGED <<tx, tdt, rxvars, kern, envvars>>

\* RS is set: the card reports each descriptor it is done with.
CardReport ==
    /\ due > 0
    /\ tx' = [tx EXCEPT ![(tdh - due) % NTXDESC] = Done]
    /\ due' = due - 1
    /\ wire' = NoPkt
    /\ UNCHANGED <<tdh, tdt, rxvars, kern, envvars>>

\* A packet arrives; without a descriptor for it (rdh = rdt) it is lost.
CardReceive(p) ==
    /\ rdh # rdt /\ dma = NoPkt
    /\ OneWay => TxQuiet
    /\ dma' = p
    /\ rx' = [rx EXCEPT ![rdh].pkt = p]
    /\ UNCHANGED <<txvars, rdh, rdt, kern, envvars>>

CardReceived ==
    /\ dma # NoPkt
    /\ rx' = [rx EXCEPT ![rdh].dd = TRUE]
    /\ rdh' = RxNext(rdh)
    /\ dma' = NoPkt
    /\ UNCHANGED <<txvars, rdt, kern, envvars>>
(***************************************************************************)
(* The driver                                                               *)
(***************************************************************************)
\* Mutant: DD is not looked at.
nic_transmitUnchecked ==
    /\ kern = "idle" /\ out # NoPkt
    /\ tx' = [tx EXCEPT ![tdt] = [pkt |-> out, dd |-> FALSE]]
    /\ kern' = "tx"
    /\ UNCHANGED <<tdh, tdt, due, wire, rxvars, envvars>>

\* nic_transmit of the packet of output; -1, and a retry, while the descriptor
\* at the tail is not done.
nic_transmit ==
    /\ kern = "idle" /\ out # NoPkt /\ tx[tdt].dd
    /\ tx' = [tx EXCEPT ![tdt] = [pkt |-> out, dd |-> FALSE]]
    /\ kern' = "tx"
    /\ UNCHANGED <<tdh, tdt, due, wire, rxvars, envvars>>

\* Mutant: the tail is not stored.
nic_transmit_tailKept ==
    /\ kern = "tx"
    /\ CardKeepsUp => TxNext(tdt) # tdh
    /\ tdt' = tdt
    /\ kern' = "idle"
    /\ out' = NoPkt                       \* output receives again
    /\ UNCHANGED <<tx, tdh, due, wire, rxvars, in, page, held>>

nic_transmit_tail ==
    /\ kern = "tx"
    /\ CardKeepsUp => TxNext(tdt) # tdh
    /\ tdt' = TxNext(tdt)
    /\ kern' = "idle"
    /\ out' = NoPkt                       \* output receives again
    /\ UNCHANGED <<tx, tdh, due, wire, rxvars, in, page, held>>

\* Mutant: DD is not looked at.
e1000_receiveUnchecked ==
    /\ kern = "idle" /\ in.pc = "poll"
    /\ in' = [in EXCEPT !.buf = rx[RxNext(rdt)].pkt]
    /\ kern' = "rx"
    /\ UNCHANGED <<txvars, rxvars, page, held, out>>

\* e1000_receive into the buffer of input; -1, and a retry, while the
\* descriptor after the tail is not done. EOP is set whenever DD is.
e1000_receive ==
    /\ kern = "idle" /\ in.pc = "poll" /\ rx[RxNext(rdt)].dd
    /\ in' = [in EXCEPT !.buf = rx[RxNext(rdt)].pkt]
    /\ kern' = "rx"
    /\ UNCHANGED <<txvars, rxvars, page, held, out>>

e1000_receive_status ==
    /\ kern = "rx"
    /\ rx' = [rx EXCEPT ![RxNext(rdt)] = Empty]
    /\ kern' = "rx_tail"
    /\ UNCHANGED <<txvars, rdh, rdt, dma, envvars>>

\* Mutant: the tail is not stored.
e1000_receive_tailKept ==
    /\ kern = "rx_tail"
    /\ rdt' = rdt
    /\ kern' = "idle"
    /\ in' = [in EXCEPT !.pc = "alloc"]
    /\ UNCHANGED <<txvars, rx, rdh, dma, page, held, out>>

e1000_receive_tail ==
    /\ kern = "rx_tail"
    /\ rdt' = RxNext(rdt)
    /\ kern' = "idle"
    /\ in' = [in EXCEPT !.pc = "alloc"]
    /\ UNCHANGED <<txvars, rx, rdh, dma, page, held, out>>

(***************************************************************************)
(* input and output, and the server                                         *)
(***************************************************************************)
\* Mutant: the page is kept for the next packet.
InputAllocOnce(g) ==
    /\ in.pc = "alloc" /\ (in.page = NoPage \/ g = in.page)
    /\ in' = [in EXCEPT !.pc = "send", !.page = g]
    /\ page' = [page EXCEPT ![g] = in.buf]
    /\ UNCHANGED <<txvars, rxvars, kern, held, out>>

\* A new page for every packet: the server still reads the last one.
InputAlloc(g) ==
    /\ in.pc = "alloc" /\ g # in.page /\ held[g] = NoPkt
    /\ in' = [in EXCEPT !.pc = "send", !.page = g]
    /\ page' = [page EXCEPT ![g] = in.buf]
    /\ UNCHANGED <<txvars, rxvars, kern, held, out>>

\* sys_ipc_try_send, once the server receives.
InputSend ==
    /\ in.pc = "send"
    /\ held' = [held EXCEPT ![in.page] = in.buf]
    /\ in' = [in EXCEPT !.pc = "poll", !.buf = NoPkt]
    /\ UNCHANGED <<txvars, rxvars, kern, page, out>>

ServerDone(g) ==
    /\ held[g] # NoPkt
    /\ held' = [held EXCEPT ![g] = NoPkt]
    /\ page' = [page EXCEPT ![g] = NoPkt]
    /\ UNCHANGED <<txvars, rxvars, kern, in, out>>

\* low_level_output: output receives a page with a packet.
ServerSends(p) ==
    /\ out = NoPkt
    /\ OneWay => RxQuiet
    /\ out' = p
    /\ UNCHANGED <<txvars, rxvars, kern, in, page, held>>

DriverStep == nic_transmit_tail \/ e1000_receive_status \/ e1000_receive_tail
InputStep == InputSend \/ \E g \in Pages : InputAlloc(g)

Next ==
    \/ CardSend \/ CardReport \/ CardReceived
    \/ nic_transmit \/ e1000_receive \/ DriverStep \/ InputStep
    \/ \E p \in Pkts : CardReceive(p) \/ ServerSends(p)
    \/ \E g \in Pages : ServerDone(g)

Spec == Init /\ [][Next]_vars

\* The card works, the driver finishes a call, and round-robin lets input and
\* output call it again and again.
FairSpec ==
    /\ Spec
    /\ WF_vars(CardSend) /\ WF_vars(CardReport) /\ WF_vars(CardReceived)
    /\ WF_vars(DriverStep) /\ WF_vars(InputStep)
    /\ SF_vars(nic_transmit) /\ SF_vars(e1000_receive)
    /\ \A g \in Pages : WF_vars(ServerDone(g))

(***************************************************************************)
(* Properties                                                               *)
(***************************************************************************)
Pkt == Pkts \cup {NoPkt}

\* Type correctness: the tails stay inside the rings (nic_transmit,
\* e1000_receive).
TypeOK ==
    /\ tx \in [TxDescs -> [pkt : Pkt, dd : BOOLEAN]] /\ {tdh, tdt} \subseteq TxDescs
    /\ due \in 0 .. NTXDESC
    /\ rx \in [RxDescs -> [pkt : Pkt, dd : BOOLEAN]] /\ {rdh, rdt} \subseteq RxDescs
    /\ {wire, dma, out} \subseteq Pkt
    /\ kern \in {"idle", "tx", "rx", "rx_tail"}
    /\ in \in [pc : {"poll", "alloc", "send"}, buf : Pkt, page : Pages \cup {NoPage}]
    /\ page \in [Pages -> Pkt] /\ held \in [Pages -> Pkt]

TxLen == (tdt - tdh) % NTXDESC
TxChan == INSTANCE PacketChannel
            WITH chan <- [k \in 1 .. TxLen |-> tx[(tdh + k - 1) % NTXDESC].pkt], out <- wire

\* What the server hands to output goes out on the wire in that order, each
\* packet once and intact, whenever the card looks at the ring.
TxInOrder == TxChan!Spec

\* The descriptor the driver has copied from is out of the channel.
RxTaken == IF kern \in {"rx", "rx_tail"} THEN 1 ELSE 0
RxLen == ((rdh - rdt - 1) % NRXDESC) - RxTaken
RxChan == INSTANCE PacketChannel
            WITH chan <- [k \in 1 .. RxLen |-> rx[(rdt + RxTaken + k) % NRXDESC].pkt],
                 out <- in.buf

\* What the card has received reaches input in that order, each packet once and
\* intact, although the card writes into the ring while the driver reads it.
RxInOrder == RxChan!Spec

\* The server finds in a page the packet it was sent in it for as long as it
\* holds the page (the hint in net/input.c, line 14).
ServerPagesIntact == \A g \in Pages : held[g] # NoPkt => page[g] = held[g]

\* The descriptors at the head that are to be sent, those behind it that are to
\* be reported and the one nic_transmit is filling are distinct, and not done.
TxInv ==
    /\ due + TxLen + (IF kern = "tx" THEN 1 ELSE 0) <= NTXDESC
    /\ \A k \in 0 .. TxLen - 1 : ~ tx[(tdh + k) % NTXDESC].dd
    /\ \A k \in 1 .. due : ~ tx[(tdh - k) % NTXDESC].dd
    /\ kern = "tx" => out # NoPkt /\ tx[tdt] = [pkt |-> out, dd |-> FALSE]

\* The descriptors from the head to the tail are the card's, none of them done;
\* the one it is writing into is never the tail, and the one e1000_receive works
\* on is not among them.
RxFree == (rdt - rdh) % NRXDESC
RxInv ==
    /\ \A k \in 0 .. RxFree : ~ rx[(rdh + k) % NRXDESC].dd
    /\ dma # NoPkt => rdh # rdt /\ rx[rdh].pkt = dma
    /\ kern \in {"rx", "rx_tail"} => RxNext(rdt) # rdh
    /\ kern = "rx_tail" => ~ rx[RxNext(rdt)].dd

\* The page input is about to send holds the packet, and is not the server's.
InputInv ==
    in.pc = "send" => in.page \in Pages /\ page[in.page] = in.buf /\ held[in.page] = NoPkt

\* The inductive invariant.
IInv == TypeOK /\ TxInv /\ RxInv /\ InputInv /\ ServerPagesIntact

\* "The NIC sets the DD bit whenever it takes the descriptor": every descriptor
\* handed to the card comes back (kern/e1000.c, line 139).
DescriptorsReturn == \A i \in TxDescs : ~ tx[i].dd ~> tx[i].dd

\* Packets keep flowing: output does not retry for ever, and what is in the ring
\* reaches the server.
Flow == (out # NoPkt ~> out = NoPkt) /\ (RxLen > 0 ~> in.pc = "send")
=============================================================================

----------------------------- MODULE NicProofs -----------------------------
(***************************************************************************)
(* Proof, for rings of any size and any number of packets and pages, that   *)
(* the pages of the server stay intact and that both rings are channels     *)
(* that neither lose, double nor reorder a packet.                          *)
(***************************************************************************)
EXTENDS Nic, SequenceTheorems, TLAPS

\* k places ahead of i in a ring of N, and k places behind it.
Ahead(N, i, k) == IF i + k < N THEN i + k ELSE i + k - N
Behind(N, i, k) == IF k <= i THEN i - k ELSE i - k + N

\* The remainder, as far as the rings use it.
LEMMA Ring ==
    ASSUME NEW N \in Nat \ {0}, NEW i \in 0 .. N - 1, NEW k \in 0 .. N
    PROVE  /\ (i + k) % N = Ahead(N, i, k)
           /\ (i - k) % N = Behind(N, i, k)
<1>1. ASSUME NEW x \in 0 .. N - 1 PROVE x % N = x
  OBVIOUS
<1>2. ASSUME NEW x \in N .. 2 * N - 1 PROVE x % N = x - N
  OBVIOUS
<1>3. ASSUME NEW x \in (- N) .. -1 PROVE x % N = x + N
  OBVIOUS
<1>4. i + k < N => i + k \in 0 .. N - 1
  OBVIOUS
<1>5. i + k >= N => i + k \in N .. 2 * N - 1
  OBVIOUS
<1>6. k <= i => i - k \in 0 .. N - 1
  OBVIOUS
<1>7. k > i => i - k \in (- N) .. -1
  OBVIOUS
<1>8. QED
  BY <1>1, <1>2, <1>3, <1>4, <1>5, <1>6, <1>7 DEF Ahead, Behind

\* The next descriptor.
LEMMA Nexts ==
    /\ \A i \in TxDescs : TxNext(i) \in TxDescs /\ TxNext(i) = Ahead(NTXDESC, i, 1)
    /\ \A i \in RxDescs : RxNext(i) \in RxDescs /\ RxNext(i) = Ahead(NRXDESC, i, 1)
<1>1. 1 \in 0 .. NTXDESC /\ 1 \in 0 .. NRXDESC
  BY NicAssumption
<1>2. \A i \in TxDescs : TxNext(i) = Ahead(NTXDESC, i, 1)
  BY <1>1, NicAssumption, Ring DEF TxNext, TxDescs
<1>3. \A i \in RxDescs : RxNext(i) = Ahead(NRXDESC, i, 1)
  BY <1>1, NicAssumption, Ring DEF RxNext, RxDescs
<1>4. QED
  BY <1>2, <1>3, NicAssumption DEF TxDescs, RxDescs, Ahead

\* Places of a ring of N, of which h and t are two.
LEMMA RingPlaces ==
    ASSUME NEW N \in Nat \ {0}, NEW h \in 0 .. N - 1, NEW t \in 0 .. N - 1
    PROVE  /\ (t - h) % N = Behind(N, t, h) /\ Behind(N, t, h) \in 0 .. N - 1
           /\ \A k \in 0 .. N : /\ (h + k) % N = Ahead(N, h, k)
                                /\ (h - k) % N = Behind(N, h, k)
                                /\ Ahead(N, h, k) \in 0 .. N - 1
                                /\ Behind(N, h, k) \in 0 .. N - 1
<1>1. (t - h) % N = Behind(N, t, h) /\ Behind(N, t, h) \in 0 .. N - 1
  <2>1. h \in 0 .. N
    OBVIOUS
  <2>2. (t - h) % N = Behind(N, t, h)
    BY <2>1, Ring
  <2>3. Behind(N, t, h) \in 0 .. N - 1
    BY DEF Behind
  <2>4. QED
    BY <2>2, <2>3
<1>2. ASSUME NEW k \in 0 .. N
      PROVE  Ahead(N, h, k) \in 0 .. N - 1 /\ Behind(N, h, k) \in 0 .. N - 1
  BY DEF Ahead, Behind
<1>3. QED
  BY <1>1, <1>2, Ring

\* TxInv for the ring x with head h and tail t, d descriptors to be reported and
\* b being filled, without remainders.
TxOK(x, h, t, d, b) ==
    /\ d + Behind(NTXDESC, t, h) + b <= NTXDESC
    /\ \A k \in 0 .. Behind(NTXDESC, t, h) - 1 : ~ x[Ahead(NTXDESC, h, k)].dd
    /\ \A k \in 1 .. d : ~ x[Behind(NTXDESC, h, k)].dd

Filling == IF kern = "tx" THEN 1 ELSE 0
TxPlainInv ==
    /\ TxOK(tx, tdh, tdt, due, Filling)
    /\ kern = "tx" => out # NoPkt /\ tx[tdt] = [pkt |-> out, dd |-> FALSE]

\* TxInv says so.
LEMMA TxPlain == TypeOK => (TxInv <=> TxPlainInv)
<1> SUFFICES ASSUME TypeOK PROVE TxInv <=> TxPlainInv
  OBVIOUS
<1>1. /\ NTXDESC \in Nat \ {0} /\ tdh \in 0 .. NTXDESC - 1 /\ tdt \in 0 .. NTXDESC - 1
      /\ due \in 0 .. NTXDESC
  BY NicAssumption DEF TypeOK, TxDescs
<1>2. TxLen = Behind(NTXDESC, tdt, tdh) /\ TxLen \in 0 .. NTXDESC - 1
  BY <1>1, RingPlaces DEF TxLen
<1>3. \A k \in 0 .. TxLen - 1 : (tdh + k) % NTXDESC = Ahead(NTXDESC, tdh, k)
  <2>1. \A k \in 0 .. TxLen - 1 : k \in 0 .. NTXDESC
    BY <1>1, <1>2
  <2>2. QED
    BY <1>1, <2>1, RingPlaces
<1>4. \A k \in 1 .. due : (tdh - k) % NTXDESC = Behind(NTXDESC, tdh, k)
  <2>1. \A k \in 1 .. due : k \in 0 .. NTXDESC
    BY <1>1
  <2>2. QED
    BY <1>1, <2>1, RingPlaces
<1>5. QED
  BY <1>2, <1>3, <1>4 DEF TxInv, TxPlainInv, TxOK, Filling

\* It does so after a step, too.
LEMMA TxPlainNext == TypeOK' => (TxInv' <=> TxPlainInv')
BY TxPlain, PTL

\* The card takes the descriptor at the head.
LEMMA TxSend ==
    ASSUME NEW x, NEW h \in TxDescs, NEW t \in TxDescs, NEW d \in 0 .. NTXDESC, NEW b \in 0 .. 1,
           TxOK(x, h, t, d, b), h # t
    PROVE  /\ TxOK(x, Ahead(NTXDESC, h, 1), t, d + 1, b)
           /\ d + 1 \in 0 .. NTXDESC
<1> DEFINE N == NTXDESC
           g == Ahead(N, h, 1)
           n == Behind(N, t, h)
<1>1. N \in Nat \ {0, 1} /\ h \in 0 .. N - 1 /\ t \in 0 .. N - 1 /\ d \in 0 .. N
  BY NicAssumption DEF TxDescs
<1>2. /\ Behind(N, t, g) = n - 1 /\ n \in 1 .. N - 1 /\ g \in 0 .. N - 1
      /\ \A k \in 0 .. n - 2 : Ahead(N, g, k) = Ahead(N, h, k + 1)
      /\ \A k \in 2 .. d + 1 : Behind(N, g, k) = Behind(N, h, k - 1)
      /\ Behind(N, g, 1) = Ahead(N, h, 0)
  <2>1. Behind(N, t, g) = n - 1 /\ n \in 1 .. N - 1 /\ g \in 0 .. N - 1
    BY <1>1 DEF Ahead, Behind
  <2>2. \A k \in 0 .. n - 2 : Ahead(N, g, k) = Ahead(N, h, k + 1)
    BY <1>1, <2>1 DEF Ahead
  <2>3. \A k \in 2 .. d + 1 : Behind(N, g, k) = Behind(N, h, k - 1)
    <3>1. d + 1 <= N
      BY <1>1, <2>1 DEF TxOK
    <3>2. QED
      BY <1>1, <3>1 DEF Ahead, Behind
  <2>4. Behind(N, g, 1) = Ahead(N, h, 0)
    BY <1>1 DEF Ahead, Behind
  <2>5. QED
    BY <2>1, <2>2, <2>3, <2>4
<1>3. d + n + b <= N /\ d + 1 \in 0 .. N /\ d + 1 + (n - 1) + b <= N
  BY <1>1, <1>2 DEF TxOK
<1>4. \A k \in 0 .. n - 2 : ~ x[Ahead(N, g, k)].dd
  <2>1. \A k \in 0 .. n - 2 : k + 1 \in 0 .. n - 1
    BY <1>2
  <2>2. QED
    BY <1>2, <2>1 DEF TxOK
<1>5. \A k \in 1 .. d + 1 : ~ x[Behind(N, g, k)].dd
  <2> SUFFICES ASSUME NEW k \in 1 .. d + 1 PROVE ~ x[Behind(N, g, k)].dd
    OBVIOUS
  <2>1. CASE k = 1
    <3>1. 0 \in 0 .. n - 1
      BY <1>2
    <3>2. ~ x[Ahead(N, h, 0)].dd
      BY <3>1 DEF TxOK
    <3>3. QED
      BY <1>2, <2>1, <3>2
  <2>2. CASE k # 1
    <3>1. k \in 2 .. d + 1 /\ k - 1 \in 1 .. d
      BY <1>1, <2>2
    <3>2. QED
      BY <1>2, <3>1 DEF TxOK
  <2>3. QED
    BY <2>1, <2>2
<1> HIDE DEF N, g, n
<1>6. n - 1 - 1 = n - 2
  BY <1>2
<1>7. QED
  BY <1>2, <1>3, <1>4, <1>5, <1>6 DEF TxOK, N, g, n

\* The card reports the oldest descriptor it has sent.
LEMMA TxReport ==
    ASSUME NEW x \in [TxDescs -> [pkt : Pkt, dd : BOOLEAN]], NEW h \in TxDescs, NEW t \in TxDescs,
           NEW d \in 1 .. NTXDESC, NEW b \in 0 .. 1, TxOK(x, h, t, d, b)
    PROVE  /\ TxOK([x EXCEPT ![Behind(NTXDESC, h, d)] = Done], h, t, d - 1, b)
           /\ b = 1 => Behind(NTXDESC, h, d) # t
           /\ \A k \in 0 .. Behind(NTXDESC, t, h) - 1 : Behind(NTXDESC, h, d) # Ahead(NTXDESC, h, k)
           /\ Behind(NTXDESC, h, d) \in TxDescs
<1> DEFINE N == NTXDESC
           g == Behind(N, h, d)
           n == Behind(N, t, h)
<1>1. N \in Nat \ {0, 1} /\ h \in 0 .. N - 1 /\ t \in 0 .. N - 1 /\ d \in 1 .. N
  BY NicAssumption DEF TxDescs
<1>2. d + n + b <= N /\ n \in 0 .. N - 1 /\ g \in 0 .. N - 1 /\ d - 1 + n + b <= N
  BY <1>1 DEF TxOK, Behind
<1>3. \A k \in 0 .. n - 1 : Ahead(N, h, k) # g /\ Ahead(N, h, k) \in 0 .. N - 1
  BY <1>1, <1>2 DEF Ahead, Behind
<1>4. \A k \in 1 .. d - 1 : Behind(N, h, k) # g /\ Behind(N, h, k) \in 0 .. N - 1 /\ k \in 1 .. d
  BY <1>1, <1>2 DEF Behind
<1>5. b = 1 => g # t
  BY <1>1, <1>2 DEF Behind
<1>6. TxOK([x EXCEPT ![g] = Done], h, t, d - 1, b)
  <2> HIDE DEF N, g
  <2>1. \A i \in 0 .. N - 1 : i # g => [x EXCEPT ![g] = Done][i] = x[i]
    BY DEF TxDescs, N
  <2>2. QED
    BY <1>2, <1>3, <1>4, <2>1 DEF TxOK, N
<1>7. QED
  BY <1>2, <1>3, <1>5, <1>6 DEF TxDescs

\* The driver fills the descriptor at the tail, which is done.
LEMMA TxFill ==
    ASSUME NEW x \in [TxDescs -> [pkt : Pkt, dd : BOOLEAN]], NEW h \in TxDescs, NEW t \in TxDescs,
           NEW d \in 0 .. NTXDESC, TxOK(x, h, t, d, 0), x[t].dd, NEW q
    PROVE  /\ TxOK([x EXCEPT ![t] = q], h, t, d, 1)
           /\ \A k \in 0 .. Behind(NTXDESC, t, h) - 1 : t # Ahead(NTXDESC, h, k)
<1> DEFINE N == NTXDESC
           n == Behind(N, t, h)
<1>1. N \in Nat \ {0, 1} /\ h \in 0 .. N - 1 /\ t \in 0 .. N - 1 /\ d \in 0 .. N
  BY NicAssumption DEF TxDescs
<1>2. d + n <= N /\ n \in 0 .. N - 1
  BY <1>1 DEF TxOK, Behind
<1>3. \A k \in 1 .. d : Behind(N, h, k) # t
  BY DEF TxOK
<1>4. d + n + 1 <= N
  <2>1. SUFFICES ASSUME d + n = N PROVE FALSE
    BY <1>1, <1>2
  <2>2. d \in 1 .. d /\ Behind(N, h, d) = t
    BY <1>1, <1>2, <2>1 DEF Behind
  <2>3. QED
    BY <1>3, <2>2
<1>5. \A k \in 0 .. n - 1 : Ahead(N, h, k) # t /\ Ahead(N, h, k) \in 0 .. N - 1
  BY <1>1, <1>2 DEF Ahead, Behind
<1>6. \A k \in 1 .. d : Behind(N, h, k) \in 0 .. N - 1
  BY <1>1 DEF Behind
<1>7. TxOK([x EXCEPT ![t] = q], h, t, d, 1)
  <2> HIDE DEF N
  <2>1. \A i \in 0 .. N - 1 : i # t => [x EXCEPT ![t] = q][i] = x[i]
    BY DEF TxDescs, N
  <2>2. QED
    BY <1>3, <1>4, <1>5, <1>6, <2>1 DEF TxOK, N
<1>8. QED
  BY <1>5, <1>7

\* The driver moves the tail over the descriptor it has filled.
LEMMA TxTail ==
    ASSUME NEW x, NEW h \in TxDescs, NEW t \in TxDescs,
           NEW d \in 0 .. NTXDESC, TxOK(x, h, t, d, 1), ~ x[t].dd
    PROVE  TxOK(x, h, Ahead(NTXDESC, t, 1), d, 0)
<1> DEFINE N == NTXDESC
           n == Behind(N, t, h)
           u == Ahead(N, t, 1)
<1>1. N \in Nat \ {0, 1} /\ h \in 0 .. N - 1 /\ t \in 0 .. N - 1 /\ d \in 0 .. N
  BY NicAssumption DEF TxDescs
<1>2. n \in 0 .. N - 1 /\ Behind(N, u, h) = (IF u = h THEN 0 ELSE n + 1) /\ Ahead(N, h, n) = t
  BY <1>1 DEF Ahead, Behind
<1>3. d + n + 1 <= N
  BY DEF TxOK
<1>4. \A k \in 0 .. n : ~ x[Ahead(N, h, k)].dd
  BY <1>2 DEF TxOK
<1>5. QED
  BY <1>1, <1>2, <1>3, <1>4 DEF TxOK

\* RxInv for the ring x with head h and tail t, without remainders.
RxOK(x, h, t) == \A k \in 0 .. Behind(NRXDESC, t, h) : ~ x[Ahead(NRXDESC, h, k)].dd

RxPlainInv ==
    /\ RxOK(rx, rdh, rdt)
    /\ dma # NoPkt => rdh # rdt /\ rx[rdh].pkt = dma
    /\ kern \in {"rx", "rx_tail"} => RxNext(rdt) # rdh
    /\ kern = "rx_tail" => ~ rx[RxNext(rdt)].dd

\* RxInv says so.
LEMMA RxPlain == TypeOK => (RxInv <=> RxPlainInv)
<1> SUFFICES ASSUME TypeOK PROVE RxInv <=> RxPlainInv
  OBVIOUS
<1>1. NRXDESC \in Nat \ {0} /\ rdh \in 0 .. NRXDESC - 1 /\ rdt \in 0 .. NRXDESC - 1
  BY NicAssumption DEF TypeOK, RxDescs
<1>2. RxFree = Behind(NRXDESC, rdt, rdh) /\ RxFree \in 0 .. NRXDESC - 1
  BY <1>1, RingPlaces DEF RxFree
<1>3. \A k \in 0 .. RxFree : (rdh + k) % NRXDESC = Ahead(NRXDESC, rdh, k)
  <2>1. \A k \in 0 .. RxFree : k \in 0 .. NRXDESC
    BY <1>1, <1>2
  <2>2. QED
    BY <1>1, <2>1, RingPlaces
<1>4. QED
  BY <1>2, <1>3 DEF RxInv, RxPlainInv, RxOK

\* It does so after a step, too.
LEMMA RxPlainNext == TypeOK' => (RxInv' <=> RxPlainInv')
BY RxPlain, PTL

\* The card moves the head over the descriptor it has written.
LEMMA RxHead ==
    ASSUME NEW x, NEW y, NEW h \in RxDescs, NEW t \in RxDescs, RxOK(x, h, t), h # t,
           \A i \in RxDescs : i # h => y[i] = x[i]
    PROVE  RxOK(y, Ahead(NRXDESC, h, 1), t)
<1> DEFINE N == NRXDESC
           g == Ahead(N, h, 1)
           n == Behind(N, t, h)
<1>1. N \in Nat \ {0, 1} /\ h \in 0 .. N - 1 /\ t \in 0 .. N - 1
  BY NicAssumption DEF RxDescs
<1>2. Behind(N, t, g) = n - 1 /\ n \in 1 .. N - 1 /\ g \in 0 .. N - 1
  BY <1>1 DEF Ahead, Behind
<1>3. \A k \in 0 .. n - 1 : /\ Ahead(N, g, k) = Ahead(N, h, k + 1) /\ k + 1 \in 0 .. n
                            /\ Ahead(N, g, k) # h /\ Ahead(N, g, k) \in 0 .. N - 1
  BY <1>1, <1>2 DEF Ahead
<1>4. \A k \in 0 .. n - 1 : ~ x[Ahead(N, g, k)].dd
  BY <1>3 DEF RxOK
<1>5. QED
  BY <1>2, <1>3, <1>4 DEF RxOK, RxDescs

\* The driver moves the tail over the descriptor it has emptied.
LEMMA RxTail ==
    ASSUME NEW x, NEW h \in RxDescs, NEW t \in RxDescs, RxOK(x, h, t),
           Ahead(NRXDESC, t, 1) # h, ~ x[Ahead(NRXDESC, t, 1)].dd
    PROVE  RxOK(x, h, Ahead(NRXDESC, t, 1))
<1> DEFINE N == NRXDESC
           n == Behind(N, t, h)
           u == Ahead(N, t, 1)
<1>1. N \in Nat \ {0, 1} /\ h \in 0 .. N - 1 /\ t \in 0 .. N - 1
  BY NicAssumption DEF RxDescs
<1>2. n \in 0 .. N - 1 /\ Behind(N, u, h) = n + 1 /\ Ahead(N, h, n + 1) = u
  BY <1>1 DEF Ahead, Behind
<1>3. QED
  BY <1>1, <1>2 DEF RxOK

\* Descriptors that are not done stay so.
LEMMA RxSame ==
    ASSUME NEW x, NEW y, NEW h \in RxDescs, NEW t \in RxDescs, RxOK(x, h, t),
           \A i \in RxDescs : y[i].dd => x[i].dd
    PROVE  RxOK(y, h, t)
<1>1. NRXDESC \in Nat \ {0, 1} /\ h \in 0 .. NRXDESC - 1 /\ t \in 0 .. NRXDESC - 1
  BY NicAssumption DEF RxDescs
<1>2. \A k \in 0 .. Behind(NRXDESC, t, h) : Ahead(NRXDESC, h, k) \in RxDescs
  BY <1>1 DEF Ahead, Behind, RxDescs
<1>3. QED
  BY <1>2 DEF RxOK

\* The initial state.
LEMMA InitIInv == Init => IInv
<1> SUFFICES ASSUME Init PROVE IInv
  OBVIOUS
<1>1. TypeOK
  BY NicAssumption DEF Init, TypeOK, TxDescs, RxDescs, Pkt, Done, Empty
<1>2. TxPlainInv
  <2>1. Behind(NTXDESC, 0, 0) = 0
    BY DEF Behind
  <2>2. QED
    BY <2>1, NicAssumption DEF Init, TxPlainInv, TxOK, Filling
<1>3. RxPlainInv
  <2>1. \A i \in RxDescs : ~ rx[i].dd
    BY DEF Init, Empty
  <2>2. \A k \in 0 .. Behind(NRXDESC, rdt, rdh) : Ahead(NRXDESC, rdh, k) \in RxDescs
    BY NicAssumption DEF Init, Ahead, Behind, RxDescs
  <2>3. QED
    BY <2>1, <2>2 DEF Init, RxPlainInv, RxOK
<1>4. InputInv /\ ServerPagesIntact
  BY DEF Init, InputInv, ServerPagesIntact
<1>5. QED
  BY <1>1, <1>2, <1>3, <1>4, TxPlain, RxPlain DEF IInv

\* A step keeps the indices in range.
LEMMA TypeNext == TypeOK /\ TxPlainInv /\ Next => TypeOK'
<1> SUFFICES ASSUME TypeOK, TxPlainInv, Next PROVE TypeOK'
  OBVIOUS
<1>0. /\ tdh \in TxDescs /\ tdt \in TxDescs /\ rdh \in RxDescs /\ rdt \in RxDescs
      /\ \A i \in TxDescs : TxNext(i) \in TxDescs
      /\ \A i \in RxDescs : RxNext(i) \in RxDescs
      /\ NoPkt \in Pkt /\ Done \in [pkt : Pkt, dd : BOOLEAN] /\ Empty \in [pkt : Pkt, dd : BOOLEAN]
      /\ \A p \in Pkts : p \in Pkt
  BY Nexts DEF TypeOK, Pkt, Done, Empty
<1>1. CASE CardSend
  <2>1. due + 1 \in 0 .. NTXDESC
    <3>1. Filling \in 0 .. 1
      BY DEF Filling
    <3>2. QED
      BY <1>0, <1>1, <3>1, TxSend DEF CardSend, TxPlainInv, TypeOK
  <2>2. tx[tdh].pkt \in Pkt
    BY <1>0 DEF TypeOK
  <2>3. QED
    BY <1>0, <1>1, <2>1, <2>2 DEF CardSend, TypeOK, rxvars, envvars
<1>2. CASE CardReport
  <2>1. due - 1 \in 0 .. NTXDESC
    BY <1>2, NicAssumption DEF CardReport, TypeOK
  <2>2. tx' \in [TxDescs -> [pkt : Pkt, dd : BOOLEAN]]
    BY <1>0, <1>2 DEF CardReport, TypeOK
  <2>3. QED
    BY <1>0, <1>2, <2>1, <2>2 DEF CardReport, TypeOK, rxvars, envvars
<1>3. CASE CardReceived
  BY <1>0, <1>3 DEF CardReceived, TypeOK, txvars, envvars
<1>4. CASE nic_transmit
  BY <1>0, <1>4 DEF nic_transmit, TypeOK, rxvars, envvars
<1>5. CASE nic_transmit_tail
  BY <1>0, <1>5 DEF nic_transmit_tail, TypeOK, rxvars
<1>6. CASE e1000_receive
  BY <1>0, <1>6 DEF e1000_receive, TypeOK, txvars, rxvars
<1>7. CASE e1000_receive_status
  BY <1>0, <1>7 DEF e1000_receive_status, TypeOK, txvars, envvars
<1>8. CASE e1000_receive_tail
  BY <1>0, <1>8 DEF e1000_receive_tail, TypeOK, txvars
<1>9. ASSUME NEW g \in Pages, InputAlloc(g) PROVE TypeOK'
  BY <1>0, <1>9 DEF InputAlloc, TypeOK, txvars, rxvars
<1>10. CASE InputSend
  BY <1>0, <1>10 DEF InputSend, TypeOK, txvars, rxvars
<1>11. ASSUME NEW p \in Pkts, CardReceive(p) PROVE TypeOK'
  BY <1>0, <1>11 DEF CardReceive, TypeOK, txvars, envvars
<1>12. ASSUME NEW p \in Pkts, ServerSends(p) PROVE TypeOK'
  BY <1>0, <1>12 DEF ServerSends, TypeOK, txvars, rxvars
<1>13. ASSUME NEW g \in Pages, ServerDone(g) PROVE TypeOK'
  BY <1>0, <1>13 DEF ServerDone, TypeOK, txvars, rxvars
<1>14. QED
  BY <1>1, <1>2, <1>3, <1>4, <1>5, <1>6, <1>7, <1>8, <1>9, <1>10, <1>11, <1>12, <1>13
  DEF Next, DriverStep, InputStep

\* What the steps other than those on the transmit ring leave alone.
LEMMA TxKept ==
    ASSUME TxPlainInv, UNCHANGED <<tx, tdh, tdt, due>>, kern = "tx" <=> kern' = "tx",
           kern = "tx" => UNCHANGED out
    PROVE  TxPlainInv'
<1>1. Filling' = Filling
  BY DEF Filling
<1>2. TxOK(tx', tdh', tdt', due', Filling')
  BY <1>1 DEF TxPlainInv
<1>3. kern' = "tx" => out' # NoPkt /\ tx'[tdt'] = [pkt |-> out', dd |-> FALSE]
  BY DEF TxPlainInv
<1>4. QED
  BY <1>2, <1>3 DEF TxPlainInv

\* The card and nic_transmit keep the transmit ring in order.
LEMMA TxNextInv == TypeOK /\ TxPlainInv /\ Next => TxPlainInv'
<1> SUFFICES ASSUME TypeOK, TxPlainInv, Next PROVE TxPlainInv'
  OBVIOUS
<1>0. /\ tdh \in TxDescs /\ tdt \in TxDescs /\ due \in 0 .. NTXDESC /\ Filling \in 0 .. 1
      /\ tx \in [TxDescs -> [pkt : Pkt, dd : BOOLEAN]]
      /\ TxOK(tx, tdh, tdt, due, Filling)
      /\ NTXDESC \in Nat \ {0} /\ tdh \in 0 .. NTXDESC - 1 /\ tdt \in 0 .. NTXDESC - 1
  BY NicAssumption DEF TypeOK, Filling, TxPlainInv, TxDescs
<1>1. CASE CardSend
  <2>1. TxOK(tx, TxNext(tdh), tdt, due + 1, Filling)
    BY <1>0, <1>1, TxSend, Nexts DEF CardSend
  <2>2. Filling' = Filling
    BY <1>1 DEF CardSend, Filling
  <2>3. QED
    BY <1>1, <2>1, <2>2 DEF CardSend, TxPlainInv, envvars
<1>2. CASE CardReport
  <2>1. due \in 1 .. NTXDESC
    BY <1>0, <1>2 DEF CardReport
  <2> DEFINE g == Behind(NTXDESC, tdh, due)
  <2>2. (tdh - due) % NTXDESC = g
    BY <1>0, RingPlaces
  <2>3. TxOK([tx EXCEPT ![g] = Done], tdh, tdt, due - 1, Filling) /\ (Filling = 1 => g # tdt)
    BY <1>0, <2>1, TxReport
  <2>4. Filling' = Filling /\ (kern = "tx" => Filling = 1)
    BY <1>2 DEF CardReport, Filling
  <2>5. tx' = [tx EXCEPT ![g] = Done] /\ due' = due - 1
    BY <1>2, <2>2 DEF CardReport
  <2> HIDE DEF g
  <2>6. kern = "tx" => tx'[tdt] = tx[tdt]
    BY <1>0, <2>3, <2>4, <2>5
  <2>7. QED
    BY <1>2, <2>3, <2>4, <2>5, <2>6 DEF CardReport, TxPlainInv, envvars
<1>3. CASE nic_transmit
  <2> DEFINE q == [pkt |-> out, dd |-> FALSE]
  <2>1. Filling = 0 /\ Filling' = 1
    BY <1>3 DEF nic_transmit, Filling
  <2>2. TxOK([tx EXCEPT ![tdt] = q], tdh, tdt, due, 1)
    <3> HIDE DEF q
    <3>1. TxOK(tx, tdh, tdt, due, 0) /\ tx[tdt].dd
      BY <1>0, <1>3, <2>1 DEF nic_transmit
    <3>2. QED
      BY <1>0, <3>1, TxFill
  <2>3. QED
    BY <1>0, <1>3, <2>1, <2>2 DEF nic_transmit, TxPlainInv, envvars
<1>4. CASE nic_transmit_tail
  <2>1. Filling = 1 /\ Filling' = 0 /\ ~ tx[tdt].dd
    BY <1>4 DEF nic_transmit_tail, Filling, TxPlainInv
  <2>2. TxOK(tx, tdh, TxNext(tdt), due, 0)
    BY <1>0, <2>1, TxTail, Nexts
  <2>3. QED
    BY <1>4, <2>1, <2>2 DEF nic_transmit_tail, TxPlainInv
<1>5. CASE CardReceived
  BY <1>5, TxKept DEF CardReceived, txvars, envvars
<1>6. CASE e1000_receive
  BY <1>6, TxKept DEF e1000_receive, txvars
<1>7. CASE e1000_receive_status
  BY <1>7, TxKept DEF e1000_receive_status, txvars, envvars
<1>8. CASE e1000_receive_tail
  BY <1>8, TxKept DEF e1000_receive_tail, txvars
<1>9. CASE InputStep
  BY <1>9, TxKept DEF InputStep, InputSend, InputAlloc, txvars
<1>10. ASSUME NEW p \in Pkts, CardReceive(p) PROVE TxPlainInv'
  BY <1>10, TxKept DEF CardReceive, txvars, envvars
<1>11. ASSUME NEW p \in Pkts, ServerSends(p) PROVE TxPlainInv'
  <2>1. kern # "tx"
    BY <1>11 DEF ServerSends, TxPlainInv
  <2>2. QED
    BY <1>11, <2>1, TxKept DEF ServerSends, txvars
<1>12. ASSUME NEW g \in Pages, ServerDone(g) PROVE TxPlainInv'
  BY <1>12, TxKept DEF ServerDone, txvars
<1>13. QED
  BY <1>1, <1>2, <1>3, <1>4, <1>5, <1>6, <1>7, <1>8, <1>9, <1>10, <1>11, <1>12
  DEF Next, DriverStep

\* What the steps other than those on the receive ring leave alone.
LEMMA RxKept ==
    ASSUME RxPlainInv, UNCHANGED rxvars,
           kern' \in {"rx", "rx_tail"} => UNCHANGED kern
    PROVE  RxPlainInv'
BY DEF RxPlainInv, RxOK, rxvars, RxNext

\* The card and e1000_receive keep the receive ring in order.
LEMMA RxNextInv == TypeOK /\ RxPlainInv /\ Next => RxPlainInv'
<1> SUFFICES ASSUME TypeOK, RxPlainInv, Next PROVE RxPlainInv'
  OBVIOUS
<1>0. /\ rdh \in RxDescs /\ rdt \in RxDescs /\ RxOK(rx, rdh, rdt)
      /\ rx \in [RxDescs -> [pkt : Pkt, dd : BOOLEAN]]
      /\ RxNext(rdh) \in RxDescs /\ RxNext(rdh) = Ahead(NRXDESC, rdh, 1)
      /\ RxNext(rdt) \in RxDescs /\ RxNext(rdt) = Ahead(NRXDESC, rdt, 1)
  BY Nexts DEF TypeOK, RxPlainInv
<1>1. ASSUME NEW p \in Pkts, CardReceive(p) PROVE RxPlainInv'
  <2>1. /\ \A i \in RxDescs : rx'[i].dd = rx[i].dd
        /\ rx'[rdh].pkt = p /\ rdh # rdt /\ dma' = p /\ UNCHANGED <<rdh, rdt, kern>>
    BY <1>0, <1>1 DEF CardReceive
  <2>2. RxOK(rx', rdh, rdt)
    BY <1>0, <2>1, RxSame
  <2>3. QED
    BY <1>0, <2>1, <2>2 DEF RxPlainInv, RxNext
<1>2. CASE CardReceived
  <2>1. /\ \A i \in RxDescs : i # rdh => rx'[i] = rx[i]
        /\ dma # NoPkt /\ rdh # rdt /\ rdh' = RxNext(rdh) /\ dma' = NoPkt /\ UNCHANGED <<rdt, kern>>
    BY <1>0, <1>2 DEF CardReceived, RxPlainInv
  <2>2. RxOK(rx', RxNext(rdh), rdt)
    BY <1>0, <2>1, RxHead
  <2>3. RxNext(rdt) # RxNext(rdh)
    BY <1>0, <2>1, NicAssumption DEF Ahead, RxDescs
  <2>4. kern = "rx_tail" => RxNext(rdt) # rdh /\ ~ rx[RxNext(rdt)].dd
    BY DEF RxPlainInv
  <2>5. kern = "rx_tail" => ~ rx'[RxNext(rdt)].dd
    BY <1>0, <2>1, <2>4
  <2>6. QED
    BY <2>1, <2>2, <2>3, <2>5 DEF RxPlainInv, RxNext
<1>3. CASE e1000_receive
  <2>1. rx[RxNext(rdt)].dd /\ kern' = "rx" /\ UNCHANGED rxvars
    BY <1>3 DEF e1000_receive
  <2>2. ~ rx[rdh].dd
    <3>1. 0 \in 0 .. Behind(NRXDESC, rdt, rdh) /\ Ahead(NRXDESC, rdh, 0) = rdh
      BY <1>0, NicAssumption DEF Ahead, Behind, RxDescs
    <3>2. QED
      BY <1>0, <3>1 DEF RxOK
  <2>3. QED
    BY <2>1, <2>2 DEF RxPlainInv, rxvars, RxOK, RxNext
<1>4. CASE e1000_receive_status
  <2>1. /\ \A i \in RxDescs : rx'[i].dd => rx[i].dd
        /\ \A i \in RxDescs : i # RxNext(rdt) => rx'[i] = rx[i]
        /\ ~ rx'[RxNext(rdt)].dd /\ RxNext(rdt) # rdh
        /\ kern' = "rx_tail" /\ UNCHANGED <<rdh, rdt, dma>>
    BY <1>0, <1>4 DEF e1000_receive_status, Empty, RxPlainInv
  <2>2. RxOK(rx', rdh, rdt)
    BY <1>0, <2>1, RxSame
  <2>3. QED
    BY <1>0, <2>1, <2>2 DEF RxPlainInv, RxNext
<1>5. CASE e1000_receive_tail
  <2>1. /\ RxNext(rdt) # rdh /\ ~ rx[RxNext(rdt)].dd
        /\ kern' = "idle" /\ rdt' = RxNext(rdt) /\ UNCHANGED <<rx, rdh, dma>>
    BY <1>5 DEF e1000_receive_tail, RxPlainInv
  <2>2. RxOK(rx, rdh, RxNext(rdt))
    BY <1>0, <2>1, RxTail
  <2>3. QED
    BY <2>1, <2>2 DEF RxPlainInv
<1>6. CASE CardSend
  BY <1>6, RxKept DEF CardSend
<1>7. CASE CardReport
  BY <1>7, RxKept DEF CardReport
<1>8. CASE nic_transmit
  BY <1>8, RxKept DEF nic_transmit
<1>9. CASE nic_transmit_tail
  BY <1>9, RxKept DEF nic_transmit_tail
<1>10. CASE InputStep
  BY <1>10, RxKept DEF InputStep, InputSend, InputAlloc
<1>11. ASSUME NEW p \in Pkts, ServerSends(p) PROVE RxPlainInv'
  BY <1>11, RxKept DEF ServerSends
<1>12. ASSUME NEW g \in Pages, ServerDone(g) PROVE RxPlainInv'
  BY <1>12, RxKept DEF ServerDone
<1>13. QED
  BY <1>1, <1>2, <1>3, <1>4, <1>5, <1>6, <1>7, <1>8, <1>9, <1>10, <1>11, <1>12
  DEF Next, DriverStep

\* A page is written before it is sent, and after the server is done with it.
LEMMA InputNextInv ==
    TypeOK /\ InputInv /\ ServerPagesIntact /\ Next => InputInv' /\ ServerPagesIntact'
<1> SUFFICES ASSUME TypeOK, InputInv, ServerPagesIntact, Next
             PROVE  InputInv' /\ ServerPagesIntact'
  OBVIOUS
<1>0. page \in [Pages -> Pkt] /\ held \in [Pages -> Pkt]
      /\ in \in [pc : {"poll", "alloc", "send"}, buf : Pkt, page : Pages \cup {NoPage}]
  BY DEF TypeOK
<1>1. ASSUME NEW g \in Pages, InputAlloc(g) PROVE InputInv' /\ ServerPagesIntact'
  BY <1>0, <1>1 DEF InputAlloc, InputInv, ServerPagesIntact
<1>2. CASE InputSend
  <2>1. in'.pc = "poll" /\ held' = [held EXCEPT ![in.page] = in.buf] /\ UNCHANGED page
        /\ in.page \in Pages /\ page[in.page] = in.buf
    BY <1>0, <1>2 DEF InputSend, InputInv
  <2>2. QED
    BY <1>0, <2>1 DEF InputInv, ServerPagesIntact
<1>3. ASSUME NEW g \in Pages, ServerDone(g) PROVE InputInv' /\ ServerPagesIntact'
  BY <1>0, <1>3 DEF ServerDone, InputInv, ServerPagesIntact
<1>4. CASE e1000_receive \/ e1000_receive_tail
  BY <1>0, <1>4 DEF e1000_receive, e1000_receive_tail, InputInv, ServerPagesIntact
<1>5. CASE UNCHANGED <<in, page, held>>
  BY <1>5 DEF InputInv, ServerPagesIntact
<1>6. QED
  BY <1>1, <1>2, <1>3, <1>4, <1>5
  DEF Next, DriverStep, InputStep, CardSend, CardReport, CardReceived, CardReceive, ServerSends,
      nic_transmit, nic_transmit_tail, e1000_receive_status, envvars

\* No step of the card, the driver or the environments leads out of the
\* invariant.
LEMMA NextIInv == IInv /\ [Next]_vars => IInv'
<1> SUFFICES ASSUME IInv, [Next]_vars PROVE IInv'
  OBVIOUS
<1>0. TypeOK /\ TxPlainInv /\ RxPlainInv /\ InputInv /\ ServerPagesIntact
  BY TxPlain, RxPlain DEF IInv
<1>1. CASE Next
  BY <1>0, <1>1, TypeNext, TxNextInv, RxNextInv, InputNextInv, TxPlainNext, RxPlainNext DEF IInv
<1>2. CASE UNCHANGED vars
  <2>1. TypeOK'
    BY <1>0, <1>2 DEF vars, txvars, rxvars, envvars, TypeOK
  <2>2. TxPlainInv' /\ RxPlainInv'
    BY <1>0, <1>2, TxKept, RxKept DEF vars, txvars, envvars
  <2>3. InputInv' /\ ServerPagesIntact'
    BY <1>0, <1>2 DEF vars, envvars, InputInv, ServerPagesIntact
  <2>4. QED
    BY <2>1, <2>2, <2>3, TxPlainNext, RxPlainNext DEF IInv
<1>3. QED
  BY <1>1, <1>2

\* The inductive invariant of the driver holds for rings of any size.
THEOREM NicInvariance == Spec => []IInv
<1>1. QED
  BY InitIInv, NextIInv, PTL DEF Spec

\* The server finds in a page what it was sent in it (net/input.c), for any
\* number of pages and packets.
THEOREM PagesIntact == Spec => []ServerPagesIntact
<1>1. IInv => ServerPagesIntact
  BY DEF IInv
<1>2. QED
  BY <1>1, NicInvariance, PTL

(***************************************************************************)
(* The rings as channels                                                    *)
(***************************************************************************)
\* A sequence without its first element.
LEMMA Shorter ==
    ASSUME NEW S, NEW n \in Nat \ {0}, NEW s \in [1 .. n -> S], NEW u \in [1 .. n - 1 -> S],
           \A k \in 1 .. n - 1 : u[k] = s[k + 1]
    PROVE  s # <<>> /\ s[1] = Head(s) /\ u = Tail(s)
<1>1. s \in Seq(S) /\ Len(s) = n /\ u \in Seq(S) /\ Len(u) = n - 1
  BY SeqDef, LenProperties
<1>2. s # <<>>
  BY <1>1, EmptySeq
<1>3. Tail(s) \in Seq(S) /\ Len(Tail(s)) = n - 1 /\ s[1] = Head(s)
      /\ \A k \in 1 .. n - 1 : Tail(s)[k] = s[k + 1]
  BY <1>1, <1>2, HeadTailProperties
<1>4. u = Tail(s)
  BY <1>1, <1>3, SeqEqual
<1>5. QED
  BY <1>2, <1>3, <1>4

\* A sequence with one element more.
LEMMA Longer ==
    ASSUME NEW S, NEW n \in Nat, NEW s \in [1 .. n -> S], NEW u \in [1 .. n + 1 -> S],
           \A k \in 1 .. n : u[k] = s[k]
    PROVE  u = Append(s, u[n + 1])
<1>1. s \in Seq(S) /\ Len(s) = n /\ u \in Seq(S) /\ Len(u) = n + 1 /\ u[n + 1] \in S
  BY SeqDef, LenProperties
<1>2. Append(s, u[n + 1]) \in Seq(S) /\ Len(Append(s, u[n + 1])) = n + 1
      /\ \A k \in 1 .. n : Append(s, u[n + 1])[k] = s[k]
      /\ Append(s, u[n + 1])[n + 1] = u[n + 1]
  BY <1>1, AppendProperties
<1>3. \A k \in 1 .. n + 1 : u[k] = Append(s, u[n + 1])[k]
  BY <1>2
<1>4. QED
  BY <1>1, <1>2, <1>3, SeqEqual

\* The packets of ring x in the n places from i + o + 1 on.
RingSeq(N, x, i, o, n) == [k \in 1 .. n |-> x[Ahead(N, i, o + k)].pkt]

TxSeq == [k \in 1 .. TxLen |-> tx[(tdh + k - 1) % NTXDESC].pkt]
TxPlainSeq == RingSeq(NTXDESC, tx, tdh, -1, Behind(NTXDESC, tdt, tdh))

\* The channel of the transmit ring, without remainders.
LEMMA TxSeqPlain == TypeOK => TxSeq = TxPlainSeq
<1> SUFFICES ASSUME TypeOK PROVE TxSeq = TxPlainSeq
  OBVIOUS
<1>1. NTXDESC \in Nat \ {0} /\ tdh \in 0 .. NTXDESC - 1 /\ tdt \in 0 .. NTXDESC - 1
  BY NicAssumption DEF TypeOK, TxDescs
<1>2. TxLen = Behind(NTXDESC, tdt, tdh) /\ TxLen \in 0 .. NTXDESC - 1
  BY <1>1, RingPlaces DEF TxLen
<1>3. ASSUME NEW k \in 1 .. TxLen
      PROVE  (tdh + k - 1) % NTXDESC = Ahead(NTXDESC, tdh, -1 + k)
  <2>1. k - 1 \in 0 .. NTXDESC /\ tdh + k - 1 = tdh + (k - 1) /\ k - 1 = -1 + k
    BY <1>1, <1>2
  <2>2. (tdh + (k - 1)) % NTXDESC = Ahead(NTXDESC, tdh, k - 1)
    BY <1>1, <2>1, RingPlaces
  <2>3. QED
    BY <2>1, <2>2
<1>4. QED
  BY <1>2, <1>3 DEF TxSeq, TxPlainSeq, RingSeq

\* The same after a step.
LEMMA TxSeqPlainNext == TypeOK' => (TxSeq = TxPlainSeq)'
BY TxSeqPlain, PTL

\* The elements of a channel are packets.
LEMMA RingSeqType ==
    ASSUME NEW N \in Nat \ {0}, NEW x \in [0 .. N - 1 -> [pkt : Pkt, dd : BOOLEAN]],
           NEW i \in 0 .. N - 1, NEW o \in -1 .. N, NEW n \in 0 .. N, o + n <= N
    PROVE  RingSeq(N, x, i, o, n) \in [1 .. n -> Pkt]
<1>1. ASSUME NEW k \in 1 .. n PROVE x[Ahead(N, i, o + k)].pkt \in Pkt
  <2>1. Ahead(N, i, o + k) \in 0 .. N - 1
    BY DEF Ahead
  <2>2. QED
    BY <2>1
<1>2. QED
  BY <1>1 DEF RingSeq

\* Every step on the transmit ring is one of the channel.
LEMMA TxStep ==
    ASSUME TypeOK, TypeOK', TxPlainInv, CardKeepsUp, Next
    PROVE  \/ TxPlainSeq # <<>> /\ wire' = Head(TxPlainSeq) /\ TxPlainSeq' = Tail(TxPlainSeq)
           \/ wire' = NoPkt /\ TxPlainSeq' = TxPlainSeq
           \/ \E p \in Pkts : TxPlainSeq' = Append(TxPlainSeq, p) /\ wire' = wire
           \/ TxPlainSeq' = TxPlainSeq /\ wire' = wire
<1> DEFINE N == NTXDESC
           n == Behind(N, tdt, tdh)
<1>0. /\ N \in Nat \ {0, 1} /\ tdh \in 0 .. N - 1 /\ tdt \in 0 .. N - 1
      /\ tx \in [0 .. N - 1 -> [pkt : Pkt, dd : BOOLEAN]]
      /\ tx' \in [0 .. N - 1 -> [pkt : Pkt, dd : BOOLEAN]]
      /\ tdh' \in 0 .. N - 1 /\ tdt' \in 0 .. N - 1
      /\ n \in 0 .. N - 1 /\ Behind(N, tdt', tdh') \in 0 .. N - 1
      /\ tdh \in TxDescs /\ tdt \in TxDescs /\ Filling \in 0 .. 1
      /\ TxOK(tx, tdh, tdt, due, Filling)
  <2>1. /\ N \in Nat \ {0, 1} /\ tdh \in 0 .. N - 1 /\ tdt \in 0 .. N - 1
        /\ tdh' \in 0 .. N - 1 /\ tdt' \in 0 .. N - 1
        /\ tx \in [0 .. N - 1 -> [pkt : Pkt, dd : BOOLEAN]]
        /\ tx' \in [0 .. N - 1 -> [pkt : Pkt, dd : BOOLEAN]]
    BY NicAssumption DEF TypeOK, TxDescs
  <2>2. n \in 0 .. N - 1 /\ Behind(N, tdt', tdh') \in 0 .. N - 1
    BY <2>1, RingPlaces
  <2>3. QED
    BY <2>1, <2>2 DEF TxPlainInv, Filling, TxDescs
<1>s. TxPlainSeq \in [1 .. n -> Pkt] /\ TxPlainSeq' \in [1 .. Behind(N, tdt', tdh') -> Pkt]
  <2> DEFINE m == Behind(N, tdt', tdh')
  <2>1. /\ -1 \in -1 .. N /\ n \in 0 .. N /\ -1 + n <= N /\ N \in Nat \ {0}
        /\ m \in 0 .. N /\ -1 + m <= N
    BY <1>0
  <2> HIDE DEF n, N, m
  <2>2. RingSeq(N, tx, tdh, -1, n) \in [1 .. n -> Pkt]
    BY <1>0, <2>1, RingSeqType
  <2>3. RingSeq(N, tx', tdh', -1, m) \in [1 .. m -> Pkt]
    BY <1>0, <2>1, RingSeqType
  <2>4. QED
    BY <2>2, <2>3 DEF TxPlainSeq, n, N, m
<1>1. CASE CardSend
  <2>1. tdh' = Ahead(N, tdh, 1) /\ wire' = tx[tdh].pkt /\ UNCHANGED <<tx, tdt>> /\ tdh # tdt
    BY <1>0, <1>1, Nexts DEF CardSend
  <2>2. n \in 1 .. N - 1 /\ Behind(N, tdt', tdh') = n - 1 /\ Ahead(N, tdh, 0) = tdh
    BY <1>0, <2>1 DEF Ahead, Behind
  <2>3. \A k \in 1 .. n - 1 : Ahead(N, tdh', -1 + k) = Ahead(N, tdh, -1 + (k + 1))
    BY <1>0, <2>1, <2>2 DEF Ahead
  <2>4. \A k \in 1 .. n - 1 : TxPlainSeq'[k] = TxPlainSeq[k + 1]
    BY <2>1, <2>2, <2>3 DEF TxPlainSeq, RingSeq
  <2>5. wire' = TxPlainSeq[1]
    BY <2>1, <2>2 DEF TxPlainSeq, RingSeq
  <2> HIDE DEF n
  <2>6. TxPlainSeq # <<>> /\ TxPlainSeq[1] = Head(TxPlainSeq) /\ TxPlainSeq' = Tail(TxPlainSeq)
    BY <1>s, <2>2, <2>4, Shorter
  <2>7. QED
    BY <2>5, <2>6
<1>2. CASE CardReport
  <2>1. due \in 1 .. N /\ due \in 0 .. N
    BY <1>0, <1>2 DEF CardReport, TypeOK
  <2>2. (tdh - due) % N = Behind(N, tdh, due)
    BY <1>0, <2>1, RingPlaces
  <2>3. /\ \A k \in 0 .. n - 1 : Behind(N, tdh, due) # Ahead(N, tdh, k)
        /\ Behind(N, tdh, due) \in 0 .. N - 1
    BY <1>0, <2>1, TxReport DEF TxDescs
  <2>4. /\ tx' = [tx EXCEPT ![Behind(N, tdh, due)] = Done]
        /\ wire' = NoPkt /\ UNCHANGED <<tdh, tdt>>
    BY <1>2, <2>2 DEF CardReport
  <2>5. \A k \in 1 .. n : -1 + k \in 0 .. n - 1 /\ Ahead(N, tdh, -1 + k) \in 0 .. N - 1
    BY <1>0 DEF Ahead
  <2>6. \A k \in 1 .. n : tx'[Ahead(N, tdh, -1 + k)] = tx[Ahead(N, tdh, -1 + k)]
    BY <1>0, <2>3, <2>4, <2>5
  <2>7. QED
    BY <2>4, <2>6 DEF TxPlainSeq, RingSeq
<1>3. CASE nic_transmit
  <2>1. /\ tx' = [tx EXCEPT ![tdt] = [pkt |-> out, dd |-> FALSE]]
        /\ UNCHANGED <<wire, tdh, tdt>>
    BY <1>3 DEF nic_transmit
  <2>2. \A k \in 1 .. n : Ahead(N, tdh, -1 + k) \in 0 .. N - 1 /\ Ahead(N, tdh, -1 + k) # tdt
    BY <1>0 DEF Ahead, Behind
  <2>3. \A k \in 1 .. n : tx'[Ahead(N, tdh, -1 + k)] = tx[Ahead(N, tdh, -1 + k)]
    BY <1>0, <2>1, <2>2
  <2>4. QED
    BY <2>1, <2>3 DEF TxPlainSeq, RingSeq
<1>4. CASE nic_transmit_tail
  <2>1. tdt' = Ahead(N, tdt, 1) /\ UNCHANGED <<tx, tdh, wire>> /\ Ahead(N, tdt, 1) # tdh
        /\ tx[tdt].pkt = out /\ out \in Pkts
    BY <1>0, <1>4, Nexts DEF nic_transmit_tail, TxPlainInv, TypeOK, Pkt
  <2>2. Behind(N, tdt', tdh') = n + 1 /\ Ahead(N, tdh, -1 + (n + 1)) = tdt
    BY <1>0, <2>1 DEF Ahead, Behind
  <2>3. \A k \in 1 .. n : TxPlainSeq'[k] = TxPlainSeq[k]
    BY <1>0, <2>1, <2>2 DEF TxPlainSeq, RingSeq
  <2>4. TxPlainSeq'[n + 1] = out
    BY <1>0, <2>1, <2>2 DEF TxPlainSeq, RingSeq
  <2> HIDE DEF n
  <2>5. TxPlainSeq' = Append(TxPlainSeq, TxPlainSeq'[n + 1])
    BY <1>0, <1>s, <2>2, <2>3, Longer
  <2>6. QED
    BY <2>1, <2>4, <2>5
<1>5. CASE UNCHANGED txvars
  BY <1>5 DEF txvars, TxPlainSeq
<1>6. QED
  BY <1>1, <1>2, <1>3, <1>4, <1>5
  DEF Next, DriverStep, InputStep, CardReceived, CardReceive, e1000_receive, e1000_receive_status,
      e1000_receive_tail, InputSend, InputAlloc, ServerSends, ServerDone

\* What the server hands to output goes out on the wire in that order, each
\* packet once and intact (nic_transmit), whatever the size of the ring, provided
\* that the card takes a descriptor before the ring is full.
THEOREM TransmitInOrder ==
    ASSUME CardKeepsUp
    PROVE  Spec => TxInOrder
<1>1. Init => TxSeq = <<>>
  <2> SUFFICES ASSUME Init PROVE TxSeq = <<>>
    OBVIOUS
  <2>1. TypeOK
    BY InitIInv DEF IInv
  <2>2. Behind(NTXDESC, tdt, tdh) = 0
    BY DEF Init, Behind
  <2>3. TxPlainSeq = <<>>
    BY <2>2 DEF TxPlainSeq, RingSeq
  <2>4. QED
    BY <2>1, <2>3, TxSeqPlain
<1>2. IInv /\ IInv' /\ [Next]_vars => [TxChan!Next]_<<TxSeq, wire>>
  <2> SUFFICES ASSUME IInv, IInv', [Next]_vars
               PROVE  [TxChan!Next]_<<TxSeq, wire>>
    OBVIOUS
  <2>1. TypeOK /\ TypeOK' /\ TxPlainInv /\ TxSeq = TxPlainSeq /\ TxSeq' = TxPlainSeq'
    BY TxPlain, TxSeqPlain, TxSeqPlainNext DEF IInv
  <2>2. CASE Next
    <3>1. \/ TxSeq # <<>> /\ wire' = Head(TxSeq) /\ TxSeq' = Tail(TxSeq)
          \/ wire' = NoPkt /\ TxSeq' = TxSeq
          \/ \E p \in Pkts : TxSeq' = Append(TxSeq, p) /\ wire' = wire
          \/ TxSeq' = TxSeq /\ wire' = wire
      BY <2>1, <2>2, TxStep
    <3>2. QED
      BY <3>1 DEF TxChan!Next, TxChan!Get, TxChan!Gone, TxChan!Put, TxSeq
  <2>3. CASE UNCHANGED vars
    BY <2>3 DEF vars, txvars, TxSeq, TxLen
  <2>4. QED
    BY <2>2, <2>3
<1>3. QED
  BY <1>1, <1>2, NicInvariance, PTL DEF Spec, TxInOrder, TxChan!Spec, TxSeq

RxSeq == [k \in 1 .. RxLen |-> rx[(rdt + RxTaken + k) % NRXDESC].pkt]
RxFull == Behind(NRXDESC, rdh, rdt + 1)
RxPlainSeq == RingSeq(NRXDESC, rx, rdt, RxTaken, RxFull - RxTaken)
RxCount ==
    /\ RxFull \in 0 .. NRXDESC - 1 /\ RxTaken \in 0 .. 1
    /\ RxFull - RxTaken \in 0 .. NRXDESC - 1
RxSeqOK == RxSeq = RxPlainSeq /\ RxCount /\ RxPlainSeq \in [1 .. RxFull - RxTaken -> Pkt]

\* The channel of the receive ring, without remainders.
LEMMA RxSeqPlain == TypeOK /\ RxPlainInv => RxSeqOK
<1> SUFFICES ASSUME TypeOK, RxPlainInv PROVE RxSeqOK
  OBVIOUS
<1> DEFINE N == NRXDESC
<1>1. /\ N \in Nat \ {0, 1} /\ rdh \in 0 .. N - 1 /\ rdt \in 0 .. N - 1 /\ rdt + 1 \in 0 .. N
      /\ rx \in [0 .. N - 1 -> [pkt : Pkt, dd : BOOLEAN]] /\ rdt \in RxDescs
  BY NicAssumption DEF TypeOK, RxDescs
<1>2. (rdh - (rdt + 1)) % N = RxFull /\ RxFull \in 0 .. N - 1
  BY <1>1, RingPlaces DEF RxFull
<1>3. RxTaken = 1 => RxFull >= 1
  <2>1. RxTaken = 1 => Ahead(N, rdt, 1) # rdh
    BY <1>1, Nexts DEF RxPlainInv, RxTaken
  <2>2. QED
    BY <1>1, <2>1 DEF RxFull, Ahead, Behind
<1>4. RxTaken \in 0 .. 1
  BY DEF RxTaken
<1>5. RxCount
  BY <1>1, <1>2, <1>3, <1>4 DEF RxCount
<1>6. RxLen = RxFull - RxTaken
  <2>1. rdh - rdt - 1 = rdh - (rdt + 1)
    BY <1>1
  <2>2. QED
    BY <1>2, <2>1 DEF RxLen
<1>7. ASSUME NEW k \in 1 .. RxLen
      PROVE  (rdt + RxTaken + k) % N = Ahead(N, rdt, RxTaken + k)
  <2>1. RxTaken + k \in 0 .. N /\ rdt + RxTaken + k = rdt + (RxTaken + k)
    BY <1>1, <1>2, <1>4, <1>5, <1>6 DEF RxCount
  <2>2. (rdt + (RxTaken + k)) % N = Ahead(N, rdt, RxTaken + k)
    BY <1>1, <2>1, RingPlaces
  <2>3. QED
    BY <2>1, <2>2
<1>8. RxSeq = RxPlainSeq
  BY <1>6, <1>7 DEF RxSeq, RxPlainSeq, RingSeq
<1>9. RxPlainSeq \in [1 .. RxFull - RxTaken -> Pkt]
  <2>1. /\ RxTaken \in -1 .. N /\ RxFull - RxTaken \in 0 .. N
        /\ RxTaken + (RxFull - RxTaken) <= N /\ N \in Nat \ {0}
    BY <1>1, <1>2, <1>4, <1>5 DEF RxCount
  <2>2. QED
    BY <1>1, <2>1, RingSeqType DEF RxPlainSeq
<1>10. QED
  BY <1>5, <1>8, <1>9 DEF RxSeqOK

\* The same after a step.
LEMMA RxSeqPlainNext == TypeOK' /\ RxPlainInv' => RxSeqOK'
BY RxSeqPlain, PTL

\* Every step on the receive ring is one of the channel.
LEMMA RxStep ==
    ASSUME TypeOK, TypeOK', RxPlainInv, RxSeqOK, RxSeqOK', Next
    PROVE  \/ RxPlainSeq # <<>> /\ in.buf' = Head(RxPlainSeq) /\ RxPlainSeq' = Tail(RxPlainSeq)
           \/ in.buf' = NoPkt /\ RxPlainSeq' = RxPlainSeq
           \/ \E p \in Pkts : RxPlainSeq' = Append(RxPlainSeq, p) /\ in.buf' = in.buf
           \/ RxPlainSeq' = RxPlainSeq /\ in.buf' = in.buf
<1> DEFINE N == NRXDESC
           n == RxFull - RxTaken
<1>0. /\ N \in Nat \ {0, 1} /\ rdh \in 0 .. N - 1 /\ rdt \in 0 .. N - 1
      /\ rdh \in RxDescs /\ rdt \in RxDescs
      /\ rx \in [0 .. N - 1 -> [pkt : Pkt, dd : BOOLEAN]]
      /\ in \in [pc : {"poll", "alloc", "send"}, buf : Pkt, page : Pages \cup {NoPage}]
      /\ RxFull \in 0 .. N - 1 /\ RxTaken \in 0 .. 1 /\ n \in 0 .. N - 1
  BY NicAssumption DEF TypeOK, RxDescs, RxSeqOK, RxCount
<1>s. RxPlainSeq \in [1 .. n -> Pkt] /\ RxPlainSeq' \in [1 .. RxFull' - RxTaken' -> Pkt]
  BY DEF RxSeqOK
<1>i. \A k \in 1 .. n : /\ Ahead(N, rdt, RxTaken + k) \in 0 .. N - 1
                        /\ Ahead(N, rdt, RxTaken + k) # rdh
                        /\ RxTaken = 1 => Ahead(N, rdt, RxTaken + k) # Ahead(N, rdt, 1)
  BY <1>0 DEF Ahead, Behind, RxFull
<1>1. ASSUME NEW p \in Pkts, CardReceive(p)
      PROVE  RxPlainSeq' = RxPlainSeq /\ in.buf' = in.buf
  <2>1. rx' = [rx EXCEPT ![rdh].pkt = p] /\ UNCHANGED <<rdh, rdt, kern, in>>
    BY <1>1 DEF CardReceive, envvars
  <2>2. \A k \in 1 .. n : rx'[Ahead(N, rdt, RxTaken + k)] = rx[Ahead(N, rdt, RxTaken + k)]
    BY <1>0, <1>i, <2>1
  <2>3. RxTaken' = RxTaken /\ RxFull' = RxFull /\ rdt' = rdt
    BY <2>1 DEF RxTaken, RxFull
  <2>4. RxPlainSeq' = RxPlainSeq
    BY <2>2, <2>3 DEF RxPlainSeq, RingSeq
  <2>5. QED
    BY <2>1, <2>4
<1>2. CASE CardReceived
  <2>1. /\ rdh' = Ahead(N, rdh, 1) /\ rdh # rdt /\ rx[rdh].pkt = dma /\ dma \in Pkts
        /\ UNCHANGED <<rdt, kern, in>>
    <3>1. rdh' = Ahead(N, rdh, 1) /\ UNCHANGED <<rdt, kern, in>> /\ dma # NoPkt
      BY <1>0, <1>2, Nexts DEF CardReceived, envvars
    <3>2. rdh # rdt /\ rx[rdh].pkt = dma
      BY <3>1 DEF RxPlainInv
    <3>3. dma \in Pkts
      BY <3>1 DEF TypeOK, Pkt
    <3>4. QED
      BY <3>1, <3>2, <3>3
  <2>2. \A i \in 0 .. N - 1 : rx'[i].pkt = rx[i].pkt
    BY <1>0, <1>2 DEF CardReceived
  <2>3. RxTaken' = RxTaken /\ RxFull' = RxFull + 1 /\ Ahead(N, rdt, RxTaken + (n + 1)) = rdh
    <3>1. RxTaken' = RxTaken
      BY <2>1 DEF RxTaken
    <3>2. RxFull' = RxFull + 1 /\ Ahead(N, rdt, RxFull + 1) = rdh
      BY <1>0, <2>1 DEF RxFull, Ahead, Behind
    <3>3. RxTaken + (n + 1) = RxFull + 1
      BY <1>0
    <3>4. QED
      BY <3>1, <3>2, <3>3
  <2>4. RxFull' - RxTaken' = n + 1
    BY <1>0, <2>3
  <2>5. \A k \in 1 .. n : RxPlainSeq'[k] = RxPlainSeq[k]
    <3> SUFFICES ASSUME NEW k \in 1 .. n PROVE RxPlainSeq'[k] = RxPlainSeq[k]
      OBVIOUS
    <3>1. k \in 1 .. n + 1
      BY <1>0
    <3>2. RxPlainSeq'[k] = rx'[Ahead(N, rdt, RxTaken + k)].pkt
      BY <2>1, <2>3, <2>4, <3>1 DEF RxPlainSeq, RingSeq
    <3>3. RxPlainSeq[k] = rx[Ahead(N, rdt, RxTaken + k)].pkt
      BY DEF RxPlainSeq, RingSeq
    <3>4. QED
      BY <1>i, <2>2, <3>2, <3>3
  <2>6. RxPlainSeq'[n + 1] = dma
    BY <1>0, <2>1, <2>2, <2>3, <2>4 DEF RxPlainSeq, RingSeq
  <2> HIDE DEF n
  <2>7. RxPlainSeq' = Append(RxPlainSeq, RxPlainSeq'[n + 1])
    BY <1>0, <1>s, <2>4, <2>5, Longer
  <2>8. QED
    BY <2>1, <2>6, <2>7
<1>3. CASE e1000_receive
  <2>1. /\ RxTaken = 0 /\ RxTaken' = 1 /\ UNCHANGED <<rx, rdh, rdt>>
        /\ in'.buf = rx[Ahead(N, rdt, 1)].pkt
    BY <1>0, <1>3, Nexts DEF e1000_receive, RxTaken, rxvars
  <2>2. RxFull' = RxFull /\ RxFull' - RxTaken' = n - 1 /\ n \in Nat \ {0}
    <3>1. RxFull' = RxFull
      BY <2>1 DEF RxFull
    <3>2. RxFull' - RxTaken' \in 0 .. N - 1
      BY DEF RxSeqOK, RxCount
    <3>3. QED
      BY <1>0, <2>1, <3>1, <3>2
  <2>3. \A k \in 1 .. n - 1 : RxPlainSeq'[k] = RxPlainSeq[k + 1]
    <3>1. \A k \in 1 .. n - 1 : 1 + k = 0 + (k + 1) /\ k + 1 \in 1 .. n
      BY <1>0
    <3>2. QED
      BY <2>1, <2>2, <3>1 DEF RxPlainSeq, RingSeq
  <2>4. in'.buf = RxPlainSeq[1]
    <3>1. 1 \in 1 .. n /\ 0 + 1 = 1
      BY <2>2
    <3>2. QED
      BY <2>1, <3>1 DEF RxPlainSeq, RingSeq
  <2> HIDE DEF n
  <2>5. RxPlainSeq # <<>> /\ RxPlainSeq[1] = Head(RxPlainSeq) /\ RxPlainSeq' = Tail(RxPlainSeq)
    BY <1>s, <2>2, <2>3, Shorter
  <2>6. QED
    BY <2>4, <2>5
<1>4. CASE e1000_receive_status
  <2>1. /\ RxTaken = 1 /\ RxTaken' = 1 /\ UNCHANGED <<rdh, rdt, in>>
        /\ rx' = [rx EXCEPT ![Ahead(N, rdt, 1)] = Empty]
    BY <1>0, <1>4, Nexts DEF e1000_receive_status, RxTaken, envvars
  <2>2. \A k \in 1 .. n : rx'[Ahead(N, rdt, RxTaken + k)] = rx[Ahead(N, rdt, RxTaken + k)]
    BY <1>0, <1>i, <2>1
  <2>3. RxFull' = RxFull
    BY <2>1 DEF RxFull
  <2>4. QED
    BY <2>1, <2>2, <2>3 DEF RxPlainSeq, RingSeq
<1>5. CASE e1000_receive_tail
  <2>1. /\ RxTaken = 1 /\ RxTaken' = 0 /\ UNCHANGED <<rx, rdh>> /\ in'.buf = in.buf
        /\ rdt' = Ahead(N, rdt, 1)
    BY <1>0, <1>5, Nexts DEF e1000_receive_tail, RxTaken
  <2>2. RxFull' = RxFull - 1
    BY <1>0, <2>1 DEF RxFull, Ahead, Behind
  <2>3. RxFull' - RxTaken' = n
    BY <1>0, <2>1, <2>2
  <2>4. \A k \in 1 .. n : Ahead(N, rdt', 0 + k) = Ahead(N, rdt, 1 + k)
    BY <1>0, <2>1 DEF Ahead
  <2>5. QED
    BY <2>1, <2>3, <2>4 DEF RxPlainSeq, RingSeq
<1>6. CASE InputSend
  <2>1. in'.buf = NoPkt /\ UNCHANGED <<rx, rdh, rdt, kern>>
    BY <1>0, <1>6 DEF InputSend, rxvars
  <2>2. QED
    BY <2>1 DEF RxPlainSeq, RxFull, RxTaken
<1>7. CASE UNCHANGED rxvars /\ RxTaken' = RxTaken /\ in.buf' = in.buf
  BY <1>7 DEF rxvars, RxPlainSeq, RxFull
<1>8. ASSUME NEW g \in Pages, InputAlloc(g)
      PROVE  UNCHANGED rxvars /\ RxTaken' = RxTaken /\ in.buf' = in.buf
  BY <1>0, <1>8 DEF InputAlloc, RxTaken
<1>9. ASSUME CardSend \/ CardReport \/ nic_transmit \/ nic_transmit_tail
             \/ (\E p \in Pkts : ServerSends(p)) \/ (\E g \in Pages : ServerDone(g))
      PROVE  UNCHANGED rxvars /\ RxTaken' = RxTaken /\ in.buf' = in.buf
  BY <1>9 DEF CardSend, CardReport, nic_transmit, nic_transmit_tail, ServerSends, ServerDone,
              RxTaken, envvars
<1>10. QED
  BY <1>1, <1>2, <1>3, <1>4, <1>5, <1>6, <1>7, <1>8, <1>9 DEF Next, DriverStep, InputStep

\* What the card has received reaches input in that order, each packet once and
\* intact (e1000_receive), whatever the size of the ring.
THEOREM ReceiveInOrder == Spec => RxInOrder
<1>1. Init => RxSeq = <<>>
  <2> SUFFICES ASSUME Init PROVE RxSeq = <<>>
    OBVIOUS
  <2>1. RxSeqOK
    BY InitIInv, RxPlain, RxSeqPlain DEF IInv
  <2>2. RxFull - RxTaken = 0
    BY NicAssumption DEF Init, RxFull, RxTaken, Behind
  <2>3. RxPlainSeq = <<>>
    BY <2>2 DEF RxPlainSeq, RingSeq
  <2>4. QED
    BY <2>1, <2>3 DEF RxSeqOK
<1>2. IInv /\ IInv' /\ [Next]_vars => [RxChan!Next]_<<RxSeq, in.buf>>
  <2> SUFFICES ASSUME IInv, IInv', [Next]_vars
               PROVE  [RxChan!Next]_<<RxSeq, in.buf>>
    OBVIOUS
  <2>1. /\ TypeOK /\ TypeOK' /\ RxPlainInv /\ RxSeqOK /\ RxSeqOK'
        /\ RxSeq = RxPlainSeq /\ RxSeq' = RxPlainSeq'
    BY RxPlain, RxPlainNext, RxSeqPlain, RxSeqPlainNext DEF IInv, RxSeqOK
  <2>2. CASE Next
    <3>1. \/ RxSeq # <<>> /\ in.buf' = Head(RxSeq) /\ RxSeq' = Tail(RxSeq)
          \/ in.buf' = NoPkt /\ RxSeq' = RxSeq
          \/ \E p \in Pkts : RxSeq' = Append(RxSeq, p) /\ in.buf' = in.buf
          \/ RxSeq' = RxSeq /\ in.buf' = in.buf
      BY <2>1, <2>2, RxStep
    <3>2. QED
      BY <3>1 DEF RxChan!Next, RxChan!Get, RxChan!Gone, RxChan!Put, RxSeq
  <2>3. CASE UNCHANGED vars
    BY <2>3 DEF vars, rxvars, envvars, RxSeq, RxLen, RxTaken
  <2>4. QED
    BY <2>2, <2>3
<1>3. QED
  BY <1>1, <1>2, NicInvariance, PTL DEF Spec, RxInOrder, RxChan!Spec, RxSeq
=============================================================================

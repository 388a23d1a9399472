--------------------------- MODULE PacketChannel ---------------------------
(***************************************************************************)
(* What a descriptor ring promises: packets leave it in the order in which  *)
(* they were put into it, each of them once and as it was.                  *)
(***************************************************************************)
EXTENDS Sequences

CONSTANTS Pkts, NoPkt

VARIABLES chan,     \* the packets in the ring
          out       \* the one taken out

Put(p) == chan' = Append(chan, p) /\ UNCHANGED out
Get == chan # <<>> /\ out' = Head(chan) /\ chan' = Tail(chan)

Gone == out' = NoPkt /\ UNCHANGED chan

Next == Get \/ Gone \/ \E p \in Pkts : Put(p)

Spec == chan = <<>> /\ [][Next]_<<chan, out>>
=============================================================================

----------------------------- MODULE ByteStream -----------------------------
(***************************************************************************)
(* What a pipe promises its reader: a bounded first-in first-out stream of  *)
(* bytes that ends for good. The bytes are numbered in the order in which   *)
(* the writer writes them.                                                  *)
(***************************************************************************)
EXTENDS Naturals, Sequences

CONSTANT Capacity

VARIABLES chan,    \* bytes written and not read yet
          sent,    \* number of bytes written
          got,     \* bytes read
          eof      \* the reader was told that the writers are gone

Init == chan = <<>> /\ sent = 0 /\ got = <<>> /\ eof = FALSE

\* Nothing is written once the reader has been told there is no writer.
Put ==
    /\ ~eof /\ Len(chan) < Capacity
    /\ sent' = sent + 1
    /\ chan' = Append(chan, sent')
    /\ UNCHANGED <<got, eof>>

Get ==
    /\ chan # <<>>
    /\ got' = Append(got, Head(chan))
    /\ chan' = Tail(chan)
    /\ UNCHANGED <<sent, eof>>

End == eof' = TRUE /\ UNCHANGED <<chan, sent, got>>

Next == Put \/ Get \/ End

Spec == Init /\ [][Next]_<<chan, sent, got, eof>>
=============================================================================

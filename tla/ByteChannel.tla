---------------------------- MODULE ByteChannel ----------------------------
(***************************************************************************)
(* What a chain of byte buffers promises to a client that reads no more    *)
(* than was written: a first-in first-out channel of bytes.  Nothing is    *)
(* lost, repeated, reordered or made up, except the bytes the receiver     *)
(* asked to be dropped.                                                    *)
(***************************************************************************)
EXTENDS Integers, Sequences

CONSTANTS Messages,   \* the byte strings a sender may send
          Delimiters  \* the bytes that end a line

VARIABLES inflight,   \* sent and not yet delivered or dropped
          delivered   \* what the receiver got last

Init == inflight = <<>> /\ delivered = <<>>

Send(data) == /\ inflight' = inflight \o data
              /\ UNCHANGED delivered

\* The receiver gets the first n bytes, and the k bytes after them are dropped.
Receive(n, k) == /\ n + k <= Len(inflight)
                 /\ delivered' = SubSeq(inflight, 1, n)
                 /\ inflight' = SubSeq(inflight, n + k + 1, Len(inflight))

\* A line has no delimiter in it, and only delimiters are dropped after it.
ReceiveLine(n, k) ==
    /\ Receive(n, k)
    /\ \A i \in 1 .. n : inflight[i] \notin Delimiters
    /\ \A i \in (n + 1) .. (n + k) : inflight[i] \in Delimiters

Next == \/ \E data \in Messages : Send(data)
        \/ \E n \in 0 .. Len(inflight) : Receive(n, 0)
        \/ \E k \in 0 .. Len(inflight) : Receive(0, k)
        \/ \E n, k \in 0 .. Len(inflight) : ReceiveLine(n, k)

Spec == Init /\ [][Next]_<<inflight, delivered>>
=============================================================================

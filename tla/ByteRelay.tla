----------------------------- MODULE ByteRelay -----------------------------
(***************************************************************************)
(* Two ByteBuffers used as a byte channel: the sender writes to src, bytes *)
(* are moved from src to dst with readToByteBuffer, the receiver reads     *)
(* from dst, and either buffer is recycled once all of it has been read.   *)
(* The client reads only what remainingLength() allows; the class itself   *)
(* does not stop it from reading past m_writeIndex.  Calls that do not fit *)
(* are refused by the class and may be retried.                            *)
(***************************************************************************)
EXTENDS ByteBufferOps

CONSTANTS Inputs,   \* the byte strings the sender writes
          Delims    \* the delimiters the receiver gives to readLine

ASSUME InputAssumption ==
    /\ \A d \in Inputs : d \in Seq(Byte) /\ Len(d) <= MaxSize
    /\ Delims \subseteq Byte

VARIABLES src, dst,   \* the two buffers
          received    \* the bytes the last read handed out

vars == <<src, dst, received>>

Init == /\ \E n \in 0 .. MaxSize : src = NewBuffer(n)
        /\ \E n \in 0 .. MaxSize : dst = NewBuffer(n)
        /\ received = <<>>

-----------------------------------------------------------------------------
Send == \E d \in Inputs :
    /\ src' = write(src, d).self
    /\ UNCHANGED <<dst, received>>

\* readToByteBuffer(dst, n)
MoveBytes(n) ==
    /\ IF CanTransfer(src, dst, n)
       THEN src' = readBytes(src, n).self /\ dst' = Received(src, dst, n)
       ELSE UNCHANGED <<src, dst>>
    /\ UNCHANGED received

Move == \E n \in 0 .. MaxSize : n <= remainingLength(src) /\ MoveBytes(n)

\* readToByteBuffer(dst) moves length() bytes from the read cursor: all of the
\* unread ones only if none has been read yet.
MoveAll == src.m_readIndex = 0 /\ MoveBytes(length(src))

Receive == \E n \in 0 .. MaxSize :
    /\ n <= remainingLength(dst)
    /\ dst' = readBytes(dst, n).self
    /\ received' = readBytes(dst, n).out
    /\ UNCHANGED src

Drop == \E n \in 0 .. MaxSize :
    /\ n <= remainingLength(dst)
    /\ dst' = skipRead(dst, n).self
    /\ received' = <<>>
    /\ UNCHANGED src

\* readLine scans to the end of the array, so only a full buffer is safe.
ReceiveLine ==
    /\ length(dst) = size(dst)
    /\ dst' = readLine(dst, Delims).self
    /\ received' = readLine(dst, Delims).out
    /\ UNCHANGED src

\* A buffer that has been read to the end starts over, possibly resized.
Recycled(b) == {reset(b), clear(b)} \cup {NewBuffer(n) : n \in 0 .. MaxSize}

RecycleSrc == /\ remainingLength(src) = 0
              /\ src' \in Recycled(src)
              /\ UNCHANGED <<dst, received>>

RecycleDst == /\ remainingLength(dst) = 0
              /\ dst' \in Recycled(dst)
              /\ UNCHANGED <<src, received>>

Next == \/ Send \/ Move \/ MoveAll \/ Receive \/ Drop \/ ReceiveLine
        \/ RecycleSrc \/ RecycleDst

Spec == Init /\ [][Next]_vars

-----------------------------------------------------------------------------
(* Properties.                                                              *)

TypeOK == /\ WellFormed(src) /\ WellFormed(dst)
          /\ received \in Seq(Byte)

\* As long as the client respects remainingLength(), no read cursor overtakes
\* a write cursor, so remainingLength() never underflows to a huge size_t.
ReadBehindWrite == /\ src.m_readIndex <= src.m_writeIndex
                   /\ dst.m_readIndex <= dst.m_writeIndex

\* The bytes of b that were written and not yet read.
Unread(b) == Peek(b.m_buffer, b.m_readIndex, b.m_writeIndex - b.m_readIndex)

Channel == INSTANCE ByteChannel
    WITH inflight <- Unread(dst) \o Unread(src), delivered <- received,
         Messages <- Inputs, Delimiters <- Delims

\* The two buffers together are a first-in first-out channel: refused writes,
\* refused transfers, retries, recycling and line reads lose, repeat or reorder
\* no byte.
FirstInFirstOut == Channel!Spec
=============================================================================

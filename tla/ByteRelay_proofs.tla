-------------------------- MODULE ByteRelay_proofs --------------------------
(***************************************************************************)
(* ByteRelay keeps its cursors in order and implements ByteChannel, for    *)
(* every size_t width, buffer size, byte set and choice of messages.       *)
(***************************************************************************)
EXTENDS ByteRelay, ByteBufferLemmas, SequenceTheorems

-----------------------------------------------------------------------------
(* The unread part of a buffer.                                             *)

\* A buffer whose read cursor is not past its write cursor.
Ordered(b) == WellFormed(b) /\ b.m_readIndex <= b.m_writeIndex

\* Unread(b) is the bytes between the cursors.
LEMMA UnreadFacts ==
    ASSUME NEW b, Ordered(b)
    PROVE  /\ Unread(b) \in Seq(Byte)
           /\ Len(Unread(b)) = b.m_writeIndex - b.m_readIndex
           /\ Len(Unread(b)) \in Nat
           /\ \A i \in 1 .. Len(Unread(b)) : Unread(b)[i] = b.m_buffer[b.m_readIndex + i - 1]
           /\ remainingLength(b) = b.m_writeIndex - b.m_readIndex
<1>1. /\ b.m_readIndex \in Nat /\ b.m_writeIndex \in Nat /\ b.m_bufferSz \in Nat
      /\ b.m_buffer \in Array(b.m_bufferSz)
      /\ b.m_readIndex <= b.m_writeIndex /\ b.m_writeIndex <= b.m_bufferSz
      /\ b.m_writeIndex < SizeMod
  BY Fields DEF Ordered
<1>2. b.m_writeIndex - b.m_readIndex \in Nat
  BY <1>1
<1>3. b.m_readIndex + (b.m_writeIndex - b.m_readIndex) <= b.m_bufferSz
  BY <1>1
<1> DEFINE n == b.m_writeIndex - b.m_readIndex
<1>4. /\ Peek(b.m_buffer, b.m_readIndex, n) \in Seq(Byte)
      /\ Len(Peek(b.m_buffer, b.m_readIndex, n)) = n
      /\ \A i \in 1 .. n : Peek(b.m_buffer, b.m_readIndex, n)[i]
                             = b.m_buffer[b.m_readIndex + i - 1]
  <2> HIDE DEF n
  <2>1. n \in Nat /\ b.m_readIndex + n <= b.m_bufferSz
    BY <1>2, <1>3 DEF n
  <2> QED BY <1>1, <2>1, PeekFacts
<1>5. remainingLength(b) = n
  BY <1>1, SubFacts DEF remainingLength
<1> QED
  BY <1>2, <1>4, <1>5 DEF Unread

\* Two buffers with the same bytes between their cursors.
LEMMA UnreadEqual ==
    ASSUME NEW b, Ordered(b), NEW s \in Seq(Byte),
           Len(s) = b.m_writeIndex - b.m_readIndex,
           \A i \in 1 .. Len(s) : s[i] = b.m_buffer[b.m_readIndex + i - 1]
    PROVE  Unread(b) = s
<1>1. Unread(b) \in Seq(Byte) /\ Len(Unread(b)) = Len(s)
      /\ \A i \in 1 .. Len(Unread(b)) : Unread(b)[i] = b.m_buffer[b.m_readIndex + i - 1]
  BY UnreadFacts
<1>2. \A i \in 1 .. Len(Unread(b)) : Unread(b)[i] = s[i]
  BY <1>1
<1> QED
  BY <1>1, <1>2, SeqEqual

\* Writing appends to the unread bytes, or changes nothing.
LEMMA WriteAppends ==
    ASSUME NEW b, Ordered(b), NEW d \in Seq(Byte), Len(d) <= MaxSize
    PROVE  LET c == writeArray(b, d).self
           IN  /\ Ordered(c)
               /\ b.m_writeIndex + Len(d) <= b.m_bufferSz => Unread(c) = Unread(b) \o d
               /\ ~(b.m_writeIndex + Len(d) <= b.m_bufferSz) => c = b
<1> DEFINE c == writeArray(b, d).self
<1>0. Len(d) \in Nat
  OBVIOUS
<1>1. /\ b.m_readIndex \in Nat /\ b.m_writeIndex \in Nat /\ b.m_bufferSz \in Nat
      /\ b.m_buffer \in Array(b.m_bufferSz)
      /\ b.m_readIndex <= b.m_writeIndex /\ b.m_writeIndex <= b.m_bufferSz
  BY Fields DEF Ordered
<1>2. CASE b.m_writeIndex + Len(d) <= b.m_bufferSz
  <2>1. c = Buffer(b.m_bufferSz, Poke(b.m_buffer, b.m_writeIndex, d),
                   b.m_readIndex, b.m_writeIndex + Len(d))
    BY <1>2, WriteEffect DEF Ordered
  <2>2. /\ c.m_buffer = Poke(b.m_buffer, b.m_writeIndex, d)
        /\ c.m_readIndex = b.m_readIndex
        /\ c.m_writeIndex = b.m_writeIndex + Len(d)
    BY <2>1 DEF Buffer
  <2>3. WellFormed(c)
    BY WriteFacts DEF Ordered, Honest
  <2>4. Ordered(c)
    BY <1>0, <1>1, <2>2, <2>3 DEF Ordered
  <2>5. /\ Unread(b) \o d \in Seq(Byte)
        /\ Len(Unread(b) \o d) = Len(Unread(b)) + Len(d)
        /\ \A i \in 1 .. Len(Unread(b)) + Len(d) : (Unread(b) \o d)[i] =
              IF i <= Len(Unread(b)) THEN Unread(b)[i] ELSE d[i - Len(Unread(b))]
    BY UnreadFacts, ConcatProperties
  <2>6. /\ Len(Unread(b)) = b.m_writeIndex - b.m_readIndex
        /\ \A i \in 1 .. Len(Unread(b)) : Unread(b)[i] = b.m_buffer[b.m_readIndex + i - 1]
    BY UnreadFacts
  <2>7. Len(Unread(b) \o d) = c.m_writeIndex - c.m_readIndex
    BY <1>0, <1>1, <2>2, <2>5, <2>6
  <2>8. ASSUME NEW i \in 1 .. Len(Unread(b) \o d)
        PROVE  (Unread(b) \o d)[i] = c.m_buffer[c.m_readIndex + i - 1]
    <3> DEFINE p == b.m_readIndex + i - 1
    <3>1. i \in 1 .. Len(Unread(b)) + Len(d)
      BY <2>5
    <3>2. p \in 0 .. (b.m_bufferSz - 1)
      <4>1. i \in Int /\ 1 <= i /\ i <= b.m_writeIndex - b.m_readIndex + Len(d)
        BY <2>6, <3>1
      <4> QED BY <1>0, <1>1, <1>2, <4>1
    <3>3. DOMAIN b.m_buffer = 0 .. (b.m_bufferSz - 1)
      BY <1>1 DEF Array
    <3>4. c.m_buffer[p] = IF p \in b.m_writeIndex .. (b.m_writeIndex + Len(d) - 1)
                          THEN d[p - b.m_writeIndex + 1] ELSE b.m_buffer[p]
      BY <2>2, <3>2, <3>3 DEF Poke
    <3>5. CASE i <= Len(Unread(b))
      <4>1. ~(p \in b.m_writeIndex .. (b.m_writeIndex + Len(d) - 1))
        BY <1>0, <1>1, <2>6, <3>1, <3>5
      <4>2. i \in 1 .. Len(Unread(b))
        BY <1>1, <2>6, <3>1, <3>5
      <4> QED BY <2>2, <2>5, <2>6, <3>1, <3>4, <3>5, <4>1, <4>2
    <3>6. CASE ~(i <= Len(Unread(b)))
      <4>1. p \in b.m_writeIndex .. (b.m_writeIndex + Len(d) - 1)
        BY <1>0, <1>1, <2>6, <3>1, <3>6
      <4>2. p - b.m_writeIndex + 1 = i - Len(Unread(b))
        BY <1>0, <1>1, <2>6, <3>1
      <4> QED BY <2>2, <2>5, <3>1, <3>4, <3>6, <4>1, <4>2
    <3> QED BY <3>5, <3>6
  <2> HIDE DEF c
  <2>9. Unread(c) = Unread(b) \o d
    BY <2>4, <2>5, <2>7, <2>8, UnreadEqual
  <2> QED BY <1>2, <2>4, <2>9 DEF c
<1>3. CASE ~(b.m_writeIndex + Len(d) <= b.m_bufferSz)
  <2>1. c = b
    BY <1>3, WriteEffect DEF Ordered
  <2> QED BY <1>3, <2>1
<1> QED
  BY <1>2, <1>3

\* Moving the read cursor forward takes bytes from the front.
LEMMA ReadTakes ==
    ASSUME NEW b, Ordered(b), NEW n \in Nat, b.m_readIndex + n <= b.m_writeIndex
    PROVE  /\ Ordered(ReadAt(b, b.m_readIndex + n))
           /\ Unread(ReadAt(b, b.m_readIndex + n)) = SubSeq(Unread(b), n + 1, Len(Unread(b)))
           /\ \A k \in 0 .. n : Peek(b.m_buffer, b.m_readIndex, k) = SubSeq(Unread(b), 1, k)
<1> DEFINE c == ReadAt(b, b.m_readIndex + n)
           u == Unread(b)
<1>1. /\ b.m_readIndex \in Nat /\ b.m_writeIndex \in Nat /\ b.m_bufferSz \in Nat
      /\ b.m_buffer \in Array(b.m_bufferSz)
      /\ b.m_writeIndex <= b.m_bufferSz
  BY Fields DEF Ordered
<1>2. /\ c.m_buffer = b.m_buffer /\ c.m_readIndex = b.m_readIndex + n
      /\ c.m_writeIndex = b.m_writeIndex
  BY DEF ReadAt, Buffer
<1>3. Ordered(c)
  <2>1. b.m_readIndex + n \in Nat /\ b.m_readIndex + n <= b.m_bufferSz
    BY <1>1
  <2>2. WellFormed(c)
    BY <1>1, <2>1, Updates DEF Ordered
  <2> QED BY <1>2, <2>2 DEF Ordered
<1>4. /\ u \in Seq(Byte) /\ Len(u) = b.m_writeIndex - b.m_readIndex /\ Len(u) \in Nat
      /\ \A i \in 1 .. Len(u) : u[i] = b.m_buffer[b.m_readIndex + i - 1]
  BY UnreadFacts
<1> HIDE DEF u
<1>5. Unread(c) = SubSeq(u, n + 1, Len(u))
  <2> DEFINE s == SubSeq(u, n + 1, Len(u))
  <2>1. \A i \in (n + 1) .. Len(u) : u[i] \in Byte
    BY <1>4
  <2>2. /\ s \in Seq(Byte)
        /\ Len(s) = IF n + 1 <= Len(u) THEN Len(u) - (n + 1) + 1 ELSE 0
        /\ \A i \in 1 .. Len(u) - (n + 1) + 1 : s[i] = u[n + 1 + i - 1]
    <3>1. n + 1 \in Int /\ Len(u) \in Int
      BY <1>4
    <3> QED BY <2>1, <3>1, SubSeqProperties
  <2> HIDE DEF s
  <2>3. Len(s) = c.m_writeIndex - c.m_readIndex
    <3>1. c.m_writeIndex - c.m_readIndex = b.m_writeIndex - (b.m_readIndex + n)
      BY <1>2
    <3> HIDE DEF c
    <3>2. CASE n + 1 <= Len(u)
      BY <1>1, <1>4, <2>2, <3>1, <3>2
    <3>3. CASE ~(n + 1 <= Len(u))
      BY <1>1, <1>4, <2>2, <3>1, <3>3
    <3> QED BY <3>2, <3>3
  <2>4. ASSUME NEW i \in 1 .. Len(s) PROVE s[i] = c.m_buffer[c.m_readIndex + i - 1]
    <3>1. i \in 1 .. Len(u) - (n + 1) + 1 /\ n + i \in 1 .. Len(u)
      BY <1>1, <1>4, <2>2, <2>3, <1>2
    <3>2. s[i] = u[n + i]
      BY <2>2, <3>1
    <3>3. u[n + i] = b.m_buffer[b.m_readIndex + (n + i) - 1]
      BY <1>4, <3>1
    <3>4. b.m_readIndex + (n + i) - 1 = c.m_readIndex + i - 1
      BY <1>1, <1>2
    <3> QED BY <1>2, <3>2, <3>3, <3>4
  <2> HIDE DEF c
  <2>5. Unread(c) = s
    BY <1>3, <2>2, <2>3, <2>4, UnreadEqual
  <2> QED BY <2>5 DEF s
<1>6. ASSUME NEW k \in Nat, b.m_readIndex + k <= b.m_bufferSz
      PROVE  /\ Peek(b.m_buffer, b.m_readIndex, k) \in Seq(Byte)
             /\ Len(Peek(b.m_buffer, b.m_readIndex, k)) = k
             /\ \A i \in 1 .. k : Peek(b.m_buffer, b.m_readIndex, k)[i]
                                    = b.m_buffer[b.m_readIndex + i - 1]
  BY <1>1, <1>6, PeekFacts, ZenonT(20)
<1>7. ASSUME NEW k \in 0 .. n
      PROVE  Peek(b.m_buffer, b.m_readIndex, k) = SubSeq(u, 1, k)
  <2> DEFINE s == SubSeq(u, 1, k)
             t == Peek(b.m_buffer, b.m_readIndex, k)
  <2>1. k \in Nat /\ k <= Len(u) /\ b.m_readIndex + k <= b.m_bufferSz
    BY <1>1, <1>4
  <2>2. t \in Seq(Byte) /\ Len(t) = k
        /\ \A i \in 1 .. k : t[i] = b.m_buffer[b.m_readIndex + i - 1]
    BY <2>1, <1>6
  <2>3. \A i \in 1 .. k : u[i] \in Byte
    BY <1>4, <2>1
  <2>4. s \in Seq(Byte) /\ Len(s) = (IF 1 <= k THEN k - 1 + 1 ELSE 0)
        /\ \A i \in 1 .. k - 1 + 1 : s[i] = u[1 + i - 1]
    BY <2>1, <2>3, SubSeqProperties
  <2> HIDE DEF s, t
  <2>5. Len(s) = Len(t)
    BY <2>1, <2>2, <2>4
  <2>5a. ASSUME NEW i \in 1 .. Len(t) PROVE t[i] = s[i]
    <3>1. i \in 1 .. k /\ i \in 1 .. Len(u) /\ i \in 1 .. k - 1 + 1 /\ 1 + i - 1 = i
      BY <1>4, <2>1, <2>2
    <3>2. s[i] = u[i]
      BY <2>4, <3>1
    <3> QED BY <1>4, <2>2, <3>1, <3>2
  <2>6. t = s
    BY <2>2, <2>4, <2>5, <2>5a, SeqEqual
  <2> QED BY <2>6 DEF s, t
<1> QED
  BY <1>3, <1>5, <1>7 DEF u

-----------------------------------------------------------------------------
(* Concatenated sequences.                                                  *)

\* Concatenation of byte strings is associative.
LEMMA Regroup ==
    ASSUME NEW u \in Seq(Byte), NEW v \in Seq(Byte), NEW w \in Seq(Byte)
    PROVE  (u \o v) \o w = u \o (v \o w)
  BY ConcatAssociative

\* Taking from the front of u \o v while u lasts is taking from u.
LEMMA FrontOfConcat ==
    ASSUME NEW u \in Seq(Byte), NEW v \in Seq(Byte), NEW n \in Nat, n <= Len(u)
    PROVE  /\ SubSeq(u \o v, 1, n) = SubSeq(u, 1, n)
           /\ SubSeq(u \o v, n + 1, Len(u \o v)) = SubSeq(u, n + 1, Len(u)) \o v
<1> DEFINE w == u \o v
<1>1. Len(u) \in Nat /\ Len(v) \in Nat
  OBVIOUS
<1>2. /\ w \in Seq(Byte) /\ Len(w) = Len(u) + Len(v)
      /\ \A i \in 1 .. Len(u) + Len(v) : w[i] = IF i <= Len(u) THEN u[i] ELSE v[i - Len(u)]
  BY ConcatProperties
<1> HIDE DEF w
<1>3. ASSUME NEW i \in 1 .. n PROVE u[i] \in Byte /\ w[i] = u[i] /\ w[i] \in Byte
  <2>1. i \in 1 .. Len(u) /\ i \in 1 .. Len(u) + Len(v) /\ i <= Len(u)
    BY <1>1
  <2> QED BY <1>2, <2>1
<1>4. SubSeq(w, 1, n) = SubSeq(u, 1, n)
  <2>1. /\ SubSeq(u, 1, n) \in Seq(Byte)
        /\ Len(SubSeq(u, 1, n)) = (IF 1 <= n THEN n - 1 + 1 ELSE 0)
        /\ \A i \in 1 .. n - 1 + 1 : SubSeq(u, 1, n)[i] = u[1 + i - 1]
    BY <1>3, SubSeqProperties
  <2>2. /\ SubSeq(w, 1, n) \in Seq(Byte)
        /\ Len(SubSeq(w, 1, n)) = (IF 1 <= n THEN n - 1 + 1 ELSE 0)
        /\ \A i \in 1 .. n - 1 + 1 : SubSeq(w, 1, n)[i] = w[1 + i - 1]
    BY <1>3, SubSeqProperties
  <2>3. ASSUME NEW i \in 1 .. Len(SubSeq(w, 1, n))
        PROVE  SubSeq(w, 1, n)[i] = SubSeq(u, 1, n)[i]
    <3>1. i \in 1 .. n /\ i \in 1 .. n - 1 + 1 /\ 1 + i - 1 = i
      BY <2>2
    <3> QED BY <1>3, <2>1, <2>2, <3>1
  <2> QED BY <2>1, <2>2, <2>3, SeqEqual
<1> DEFINE s == SubSeq(u, n + 1, Len(u))
           t == SubSeq(w, n + 1, Len(w))
<1>5. /\ s \in Seq(Byte) /\ Len(s) = Len(u) - n
      /\ \A i \in 1 .. Len(u) - n : s[i] = u[n + i]
  <2>1. \A i \in (n + 1) .. Len(u) : u[i] \in Byte
    BY <1>1
  <2>2. /\ s \in Seq(Byte) /\ Len(s) = (IF n + 1 <= Len(u) THEN Len(u) - (n + 1) + 1 ELSE 0)
        /\ \A i \in 1 .. Len(u) - (n + 1) + 1 : s[i] = u[(n + 1) + i - 1]
    <3>1. n + 1 \in Int /\ Len(u) \in Int
      BY <1>1
    <3> QED BY <2>1, <3>1, SubSeqProperties
  <2> HIDE DEF s
  <2>3. Len(s) = Len(u) - n
    BY <1>1, <2>2
  <2>4. ASSUME NEW i \in 1 .. Len(u) - n PROVE s[i] = u[n + i]
    <3>1. i \in 1 .. Len(u) - (n + 1) + 1 /\ (n + 1) + i - 1 = n + i
      BY <1>1
    <3> QED BY <2>2, <3>1
  <2> QED BY <2>2, <2>3, <2>4
<1>6. /\ t \in Seq(Byte) /\ Len(t) = Len(w) - n
      /\ \A i \in 1 .. Len(w) - n : t[i] = w[n + i]
  <2>0. Len(w) \in Nat /\ n <= Len(w)
    BY <1>1, <1>2
  <2>1. \A i \in (n + 1) .. Len(w) : w[i] \in Byte
    BY <1>2, <2>0
  <2>2. /\ t \in Seq(Byte) /\ Len(t) = (IF n + 1 <= Len(w) THEN Len(w) - (n + 1) + 1 ELSE 0)
        /\ \A i \in 1 .. Len(w) - (n + 1) + 1 : t[i] = w[(n + 1) + i - 1]
    <3>1. n + 1 \in Int /\ Len(w) \in Int
      BY <2>0
    <3> QED BY <2>1, <3>1, SubSeqProperties
  <2> HIDE DEF t
  <2>3. Len(t) = Len(w) - n
    BY <2>0, <2>2
  <2>4. ASSUME NEW i \in 1 .. Len(w) - n PROVE t[i] = w[n + i]
    <3>1. i \in 1 .. Len(w) - (n + 1) + 1 /\ (n + 1) + i - 1 = n + i
      BY <2>0
    <3> QED BY <2>2, <3>1
  <2> QED BY <2>2, <2>3, <2>4
<1> HIDE DEF s, t
<1>7. t = s \o v
  <2>1. /\ s \o v \in Seq(Byte) /\ Len(s \o v) = Len(s) + Len(v)
        /\ \A i \in 1 .. Len(s) + Len(v) :
              (s \o v)[i] = IF i <= Len(s) THEN s[i] ELSE v[i - Len(s)]
    BY <1>5, ConcatProperties
  <2>2. Len(t) = Len(s \o v)
    BY <1>1, <1>2, <1>5, <1>6, <2>1
  <2>3. ASSUME NEW i \in 1 .. Len(t) PROVE t[i] = (s \o v)[i]
    <3>1. /\ i \in 1 .. Len(w) - n /\ i \in 1 .. Len(s) + Len(v)
          /\ n + i \in 1 .. Len(u) + Len(v)
      BY <1>1, <1>2, <1>5, <1>6
    <3>2. t[i] = IF n + i <= Len(u) THEN u[n + i] ELSE v[n + i - Len(u)]
      BY <1>2, <1>6, <3>1
    <3>3. CASE i <= Len(s)
      <4>1. i \in 1 .. Len(u) - n /\ n + i <= Len(u)
        BY <1>1, <1>5, <3>1, <3>3
      <4> QED BY <1>5, <2>1, <3>1, <3>2, <3>3, <4>1
    <3>4. CASE ~(i <= Len(s))
      <4>1. ~(n + i <= Len(u)) /\ n + i - Len(u) = i - Len(s)
        BY <1>1, <1>5, <3>1, <3>4
      <4> QED BY <2>1, <3>1, <3>2, <3>4, <4>1
    <3> QED BY <3>3, <3>4
  <2> QED BY <1>6, <2>1, <2>2, <2>3, SeqEqual
<1> QED
  BY <1>4, <1>7 DEF s, t, w

-----------------------------------------------------------------------------
(* The methods the relay uses, on buffers whose cursors are in order.       *)

\* readBytes and skipRead within remainingLength() succeed and take bytes from
\* the front.
LEMMA TakeFacts ==
    ASSUME NEW b, Ordered(b), NEW n \in Nat, n <= MaxSize, n <= remainingLength(b)
    PROVE  /\ readBytes(b, n).self = ReadAt(b, b.m_readIndex + n)
           /\ skipRead(b, n).self = ReadAt(b, b.m_readIndex + n)
           /\ Ordered(ReadAt(b, b.m_readIndex + n))
           /\ n <= Len(Unread(b))
           /\ readBytes(b, n).out = SubSeq(Unread(b), 1, n)
           /\ readBytes(b, n).out \in Seq(Byte)
           /\ Len(readBytes(b, n).out) = n
           /\ Unread(ReadAt(b, b.m_readIndex + n)) = SubSeq(Unread(b), n + 1, Len(Unread(b)))
<1>1. /\ b.m_readIndex \in Nat /\ b.m_writeIndex \in Nat /\ b.m_bufferSz \in Nat
      /\ b.m_buffer \in Array(b.m_bufferSz)
      /\ b.m_writeIndex <= b.m_bufferSz /\ WellFormed(b)
      /\ b.m_readIndex + n < SizeMod
  BY Fields DEF Ordered
<1>2. remainingLength(b) = b.m_writeIndex - b.m_readIndex
      /\ Len(Unread(b)) = b.m_writeIndex - b.m_readIndex
  BY UnreadFacts
<1>3. b.m_readIndex + n <= b.m_writeIndex /\ b.m_readIndex + n <= b.m_bufferSz
      /\ n <= Len(Unread(b))
  BY <1>1, <1>2
<1>4. readBytes(b, n) = Result(ReadAt(b, b.m_readIndex + n), TRUE,
                               Peek(b.m_buffer, b.m_readIndex, n))
  BY <1>1, <1>3, ReadFacts
<1>5. Add(b.m_readIndex, n) = b.m_readIndex + n
  BY <1>1, AddFacts
<1>6. skipRead(b, n) = Result(ReadAt(b, b.m_readIndex + n), TRUE, <<>>)
  BY <1>3, <1>5 DEF skipRead, Fits
<1>7. /\ Peek(b.m_buffer, b.m_readIndex, n) \in Seq(Byte)
      /\ Len(Peek(b.m_buffer, b.m_readIndex, n)) = n
  <2>1. /\ b.m_bufferSz \in Nat /\ b.m_buffer \in Array(b.m_bufferSz)
        /\ b.m_readIndex \in Nat /\ b.m_readIndex + n <= b.m_bufferSz
    BY <1>1, <1>3
  <2> QED BY <2>1, PeekFacts, ZenonT(20)
<1>8. /\ Ordered(ReadAt(b, b.m_readIndex + n))
      /\ Unread(ReadAt(b, b.m_readIndex + n)) = SubSeq(Unread(b), n + 1, Len(Unread(b)))
      /\ Peek(b.m_buffer, b.m_readIndex, n) = SubSeq(Unread(b), 1, n)
  <2>1. n \in 0 .. n
    OBVIOUS
  <2> QED BY <1>3, <2>1, ReadTakes
<1>9. /\ readBytes(b, n).self = ReadAt(b, b.m_readIndex + n)
      /\ readBytes(b, n).out = Peek(b.m_buffer, b.m_readIndex, n)
      /\ skipRead(b, n).self = ReadAt(b, b.m_readIndex + n)
  BY <1>4, <1>6 DEF Result
<1> QED
  BY <1>3, <1>7, <1>8, <1>9

\* readToByteBuffer within remainingLength() moves bytes and loses none.
LEMMA TransferFacts ==
    ASSUME NEW a, Ordered(a), NEW b, Ordered(b), NEW n \in Nat, n <= MaxSize,
           n <= remainingLength(a), CanTransfer(a, b, n)
    PROVE  /\ Ordered(readBytes(a, n).self)
           /\ Ordered(Received(a, b, n))
           /\ Unread(Received(a, b, n)) \o Unread(readBytes(a, n).self)
                = Unread(b) \o Unread(a)
<1> DEFINE out == readBytes(a, n).out
           rest == readBytes(a, n).self
           u == Unread(a)
<1>1. /\ Ordered(rest) /\ out \in Seq(Byte) /\ Len(out) = n /\ n <= Len(u)
      /\ out = SubSeq(u, 1, n) /\ Unread(rest) = SubSeq(u, n + 1, Len(u))
  BY TakeFacts
<1>2. u \in Seq(Byte) /\ Len(u) \in Nat /\ Unread(b) \in Seq(Byte) /\ Unread(rest) \in Seq(Byte)
  BY <1>1, UnreadFacts
<1>3. b.m_writeIndex + n <= b.m_bufferSz
  <2>1. b.m_writeIndex \in Nat /\ b.m_writeIndex + n < SizeMod
    BY Fields DEF Ordered
  <2>2. Add(b.m_writeIndex, n) = b.m_writeIndex + n
    BY <2>1, AddFacts
  <2> QED BY <2>2 DEF CanTransfer, Fits
<1> HIDE DEF out, rest, u
<1>4. /\ Ordered(writeArray(b, out).self)
      /\ Unread(writeArray(b, out).self) = Unread(b) \o out
  BY <1>1, <1>3, WriteAppends
<1>5. out \o Unread(rest) = u
  <2>1. /\ 1 \in 1 .. Len(u) + 1 /\ n \in 1 - 1 .. Len(u) /\ Len(u) \in n .. Len(u)
    BY <1>1, <1>2
  <2>2. SubSeq(u, 1, n) \o SubSeq(u, n + 1, Len(u)) = SubSeq(u, 1, Len(u))
    BY <1>2, <2>1, ConcatAdjacentSubSeq
  <2>3. SubSeq(u, 1, Len(u)) = u
    BY <1>2, SubSeqFull
  <2> QED BY <1>1, <2>2, <2>3
<1>6. (Unread(b) \o out) \o Unread(rest) = Unread(b) \o (out \o Unread(rest))
  <2>1. Unread(b) \in Seq(Byte) /\ out \in Seq(Byte) /\ Unread(rest) \in Seq(Byte)
    BY <1>1, <1>2
  <2> QED BY <2>1, Regroup
<1>7. Received(a, b, n) = writeArray(b, out).self
  BY DEF Received, out
<1>8. Unread(Received(a, b, n)) \o Unread(rest) = Unread(b) \o u
  BY <1>4, <1>5, <1>6, <1>7
<1> QED
  BY <1>1, <1>4, <1>7, <1>8 DEF rest, u

\* A buffer read to the end has nothing unread, and neither has a recycled one.
LEMMA RecycleFacts ==
    ASSUME NEW b, Ordered(b), remainingLength(b) = 0, NEW c \in Recycled(b)
    PROVE  Ordered(c) /\ Unread(c) = <<>> /\ Unread(b) = <<>>
<1>1. ASSUME NEW d, Ordered(d), d.m_writeIndex - d.m_readIndex = 0
      PROVE  Unread(d) = <<>>
  <2>1. Unread(d) \in Seq(Byte) /\ Len(Unread(d)) = 0
    BY <1>1, UnreadFacts
  <2> QED BY <2>1
<1>2. WellFormed(c) /\ c.m_readIndex = 0 /\ c.m_writeIndex = 0
  <2>1. CASE c = reset(b)
    <3>1. WellFormed(c) /\ c = Buffer(b.m_bufferSz, b.m_buffer, 0, 0)
      BY <2>1, ResetFacts DEF Ordered
    <3> QED BY <3>1 DEF Buffer
  <2>2. CASE c = clear(b)
    <3>1. WellFormed(c) /\ c = NewBuffer(b.m_bufferSz)
      BY <2>2, ResetFacts DEF Ordered
    <3> QED BY <3>1 DEF NewBuffer, Buffer
  <2>3. ASSUME NEW n \in 0 .. MaxSize, c = NewBuffer(n)
        PROVE  WellFormed(c) /\ c.m_readIndex = 0 /\ c.m_writeIndex = 0
    <3>1. n \in Nat /\ n <= MaxSize
      BY SizeAssumption
    <3>2. WellFormed(NewBuffer(n))
      BY <3>1, NewBufferFacts
    <3> QED BY <2>3, <3>2 DEF NewBuffer, Buffer
  <2> QED BY <2>1, <2>2, <2>3 DEF Recycled
<1>3. Ordered(c)
  BY <1>2 DEF Ordered
<1>4. Unread(c) = <<>>
  BY <1>1, <1>2, <1>3
<1>5. Unread(b) = <<>>
  BY <1>1, UnreadFacts
<1> QED
  BY <1>3, <1>4, <1>5

-----------------------------------------------------------------------------
(* The invariant and the refinement, one action at a time.                  *)

\* The inductive invariant.
Inv == TypeOK /\ ReadBehindWrite

\* The state of the abstract channel.
InFlight == Unread(dst) \o Unread(src)
AbstractStep == [Channel!Next]_<<InFlight, received>>

\* Inv says that both buffers have their cursors in order.
LEMMA InvFacts ==
    /\ Inv <=> Ordered(src) /\ Ordered(dst) /\ received \in Seq(Byte)
    /\ Inv' <=> Ordered(src') /\ Ordered(dst') /\ received' \in Seq(Byte)
    /\ InFlight' = Unread(dst') \o Unread(src')
  BY DEF Inv, TypeOK, ReadBehindWrite, Ordered, WellFormed, Buffers, Array, Byte,
         InFlight, Unread, Peek

\* A step that leaves the mapped state alone, and one that appends a message.
LEMMA StutterOrSend ==
    ASSUME received' = received,
           InFlight' = InFlight \/ \E d \in Inputs : InFlight' = InFlight \o d
    PROVE  AbstractStep
  BY DEF AbstractStep, Channel!Next, Channel!Send, InFlight

\* A step that takes n bytes and then drops k from the front.
LEMMA TakeAndDrop ==
    ASSUME NEW n \in Nat, NEW k \in Nat, Len(InFlight) \in Nat,
           n + k <= Len(InFlight),
           received' = SubSeq(InFlight, 1, n),
           InFlight' = SubSeq(InFlight, n + k + 1, Len(InFlight)),
           \/ k = 0
           \/ n = 0
           \/ /\ \A i \in 1 .. n : InFlight[i] \notin Delims
              /\ \A i \in (n + 1) .. (n + k) : InFlight[i] \in Delims
    PROVE  AbstractStep
<1>1. n \in 0 .. Len(InFlight) /\ k \in 0 .. Len(InFlight)
  OBVIOUS
<1>2. Channel!Receive(n, k)
  BY DEF Channel!Receive, InFlight
<1>3. Channel!Next
  <2>1. CASE k = 0
    BY <1>1, <1>2, <2>1 DEF Channel!Next, InFlight
  <2>2. CASE n = 0
    BY <1>1, <1>2, <2>2 DEF Channel!Next, InFlight
  <2>3. CASE /\ \A i \in 1 .. n : InFlight[i] \notin Delims
             /\ \A i \in (n + 1) .. (n + k) : InFlight[i] \in Delims
    <3>1. Channel!ReceiveLine(n, k)
      BY <1>2, <2>3 DEF Channel!ReceiveLine, InFlight
    <3> QED BY <1>1, <3>1 DEF Channel!Next, InFlight
  <2> QED BY <2>1, <2>2, <2>3
<1> QED
  BY <1>3 DEF AbstractStep

\* readToByteBuffer within remainingLength() is invisible to the channel.
LEMMA MoveMaps ==
    ASSUME Inv, NEW n \in Nat, n <= MaxSize, n <= remainingLength(src), MoveBytes(n)
    PROVE  Inv' /\ AbstractStep
<1>1. Ordered(src) /\ Ordered(dst) /\ received \in Seq(Byte) /\ received' = received
  BY InvFacts DEF MoveBytes
<1>2. CASE CanTransfer(src, dst, n)
  <2>1. src' = readBytes(src, n).self /\ dst' = Received(src, dst, n)
    BY <1>2 DEF MoveBytes
  <2>2. Ordered(src') /\ Ordered(dst') /\ Unread(dst') \o Unread(src') = InFlight
    BY <1>1, <1>2, <2>1, TransferFacts DEF InFlight
  <2> QED BY <1>1, <2>2, InvFacts, StutterOrSend
<1>3. CASE ~CanTransfer(src, dst, n)
  <2>1. src' = src /\ dst' = dst
    BY <1>3 DEF MoveBytes
  <2> QED BY <1>1, <2>1, InvFacts, StutterOrSend DEF InFlight
<1> QED
  BY <1>2, <1>3

\* Advancing the read cursor of dst over n + k bytes, of which the first n are
\* handed out, is one abstract step.
LEMMA AdvanceMaps ==
    ASSUME Inv, NEW n \in Nat, NEW k \in Nat,
           dst.m_readIndex + n + k <= dst.m_writeIndex,
           dst' = ReadAt(dst, dst.m_readIndex + (n + k)), src' = src,
           received' = Peek(dst.m_buffer, dst.m_readIndex, n),
           \/ k = 0
           \/ n = 0
           \/ /\ \A i \in 1 .. n : dst.m_buffer[dst.m_readIndex + i - 1] \notin Delims
              /\ \A i \in (n + 1) .. (n + k) :
                    dst.m_buffer[dst.m_readIndex + i - 1] \in Delims
    PROVE  Inv' /\ AbstractStep
<1> DEFINE u == Unread(dst)
           v == Unread(src)
           m == n + k
<1>1. Ordered(src) /\ Ordered(dst)
  BY InvFacts
<1>2. /\ u \in Seq(Byte) /\ v \in Seq(Byte) /\ Len(u) \in Nat /\ Len(v) \in Nat
      /\ Len(u) = dst.m_writeIndex - dst.m_readIndex
      /\ \A i \in 1 .. Len(u) : u[i] = dst.m_buffer[dst.m_readIndex + i - 1]
  BY <1>1, UnreadFacts
<1>3. dst.m_readIndex \in Nat /\ dst.m_writeIndex \in Nat
  BY <1>1, Fields DEF Ordered
<1>4. m \in Nat /\ m <= Len(u) /\ n <= Len(u) /\ n \in 0 .. m
      /\ dst.m_readIndex + m <= dst.m_writeIndex
  BY <1>2, <1>3
<1>5. /\ Ordered(dst') /\ Unread(dst') = SubSeq(u, m + 1, Len(u))
      /\ received' = SubSeq(u, 1, n)
  BY <1>1, <1>4, ReadTakes
<1>6. received' \in Seq(Byte)
  <2>1. \A i \in 1 .. n : u[i] \in Byte
    BY <1>2, <1>4
  <2> QED BY <1>5, <2>1, SubSeqProperties
<1> HIDE DEF u, v
<1>7. /\ SubSeq(u \o v, 1, n) = SubSeq(u, 1, n)
      /\ SubSeq(u \o v, m + 1, Len(u \o v)) = SubSeq(u, m + 1, Len(u)) \o v
  BY <1>2, <1>4, FrontOfConcat
<1>8. /\ Len(u \o v) = Len(u) + Len(v)
      /\ \A i \in 1 .. Len(u) : (u \o v)[i] = dst.m_buffer[dst.m_readIndex + i - 1]
  <2>1. /\ Len(u \o v) = Len(u) + Len(v)
        /\ \A i \in 1 .. Len(u) + Len(v) :
              (u \o v)[i] = IF i <= Len(u) THEN u[i] ELSE v[i - Len(u)]
    BY <1>2, ConcatProperties
  <2> QED BY <1>2, <2>1
<1>9. InFlight = u \o v /\ InFlight' = SubSeq(u, m + 1, Len(u)) \o v
  BY <1>5, InvFacts DEF InFlight, u, v
<1>10. Inv'
  BY <1>1, <1>5, <1>6, InvFacts
<1>11. \/ k = 0
       \/ n = 0
       \/ /\ \A i \in 1 .. n : InFlight[i] \notin Delims
          /\ \A i \in (n + 1) .. (n + k) : InFlight[i] \in Delims
  <2>1. \A i \in 1 .. n : i \in 1 .. Len(u)
    BY <1>4, <1>2
  <2>2. \A i \in (n + 1) .. (n + k) : i \in 1 .. Len(u)
    BY <1>4, <1>2
  <2> QED BY <1>8, <1>9, <2>1, <2>2
<1>12. Len(InFlight) \in Nat /\ n + k <= Len(InFlight)
  BY <1>2, <1>4, <1>8, <1>9
<1>13. received' = SubSeq(InFlight, 1, n)
       /\ InFlight' = SubSeq(InFlight, n + k + 1, Len(InFlight))
  BY <1>5, <1>7, <1>9
<1>14. AbstractStep
  BY <1>11, <1>12, <1>13, TakeAndDrop
<1> QED
  BY <1>10, <1>14

\* Initially nothing is in flight.
LEMMA InitMaps ==
    ASSUME Init PROVE Inv /\ Channel!Init
<1>1. ASSUME NEW n \in 0 .. MaxSize
      PROVE  Ordered(NewBuffer(n)) /\ Unread(NewBuffer(n)) = <<>>
  <2>1. n \in Nat /\ n <= MaxSize
    BY SizeAssumption
  <2>2. WellFormed(NewBuffer(n))
    BY <2>1, NewBufferFacts
  <2>3. NewBuffer(n).m_readIndex = 0 /\ NewBuffer(n).m_writeIndex = 0
    BY DEF NewBuffer, Buffer
  <2>4. Ordered(NewBuffer(n))
    BY <2>2, <2>3 DEF Ordered
  <2>5. Unread(NewBuffer(n)) \in Seq(Byte) /\ Len(Unread(NewBuffer(n))) = 0
    BY <2>3, <2>4, UnreadFacts
  <2> QED BY <2>4, <2>5
<1>2. /\ Ordered(src) /\ Ordered(dst) /\ received = <<>>
      /\ Unread(src) = <<>> /\ Unread(dst) = <<>>
  BY <1>1 DEF Init
<1>3. <<>> \o <<>> = <<>>
  OBVIOUS
<1> QED
  BY <1>2, <1>3, InvFacts DEF Channel!Init

\* Every step preserves the invariant and is a step of the channel.
LEMMA NextMaps ==
    ASSUME Inv, [Next]_vars PROVE Inv' /\ AbstractStep
<1>0. /\ Ordered(src) /\ Ordered(dst) /\ received \in Seq(Byte)
      /\ src.m_readIndex \in Nat /\ src.m_writeIndex \in Nat
      /\ dst.m_readIndex \in Nat /\ dst.m_writeIndex \in Nat
      /\ MaxSize \in Nat
  BY InvFacts, Fields DEF Ordered
<1>1. CASE Send
  <2>1. PICK d \in Inputs : src' = write(src, d).self
    BY <1>1 DEF Send
  <2>2. dst' = dst /\ received' = received /\ d \in Seq(Byte) /\ Len(d) <= MaxSize
    BY <1>1, InputAssumption DEF Send
  <2>3. Ordered(src') /\ (Unread(src') = Unread(src) \o d \/ src' = src)
    BY <1>0, <2>1, <2>2, WriteAppends DEF write
  <2>4. Unread(dst) \o (Unread(src) \o d) = InFlight \o d
    <3>1. Unread(dst) \in Seq(Byte) /\ Unread(src) \in Seq(Byte)
      BY <1>0, UnreadFacts
    <3> QED BY <2>2, <3>1, Regroup DEF InFlight
  <2>5. InFlight' = InFlight \o d \/ InFlight' = InFlight
    BY <2>2, <2>3, <2>4, InvFacts DEF InFlight
  <2>6. Inv'
    BY <1>0, <2>2, <2>3, InvFacts
  <2> QED BY <2>2, <2>5, <2>6, StutterOrSend
<1>2. CASE Move
  <2>1. PICK n \in 0 .. MaxSize : n <= remainingLength(src) /\ MoveBytes(n)
    BY <1>2 DEF Move
  <2>2. n \in Nat /\ n <= MaxSize
    BY <1>0
  <2> QED BY <2>1, <2>2, MoveMaps
<1>3. CASE MoveAll
  <2>1. /\ src.m_readIndex = 0 /\ MoveBytes(src.m_writeIndex)
        /\ src.m_writeIndex <= MaxSize
    BY <1>0, <1>3, Fields DEF MoveAll, length, Ordered
  <2>2. remainingLength(src) = src.m_writeIndex - src.m_readIndex
    BY <1>0, UnreadFacts
  <2>3. src.m_writeIndex <= remainingLength(src)
    BY <1>0, <2>1, <2>2
  <2> QED BY <1>0, <2>1, <2>3, MoveMaps
<1>4. CASE Receive \/ Drop
  <2>1. PICK n \in 0 .. MaxSize :
          /\ n <= remainingLength(dst)
          /\ src' = src
          /\ \/ dst' = readBytes(dst, n).self /\ received' = readBytes(dst, n).out
             \/ dst' = skipRead(dst, n).self /\ received' = <<>>
    BY <1>4 DEF Receive, Drop
  <2>2. n \in Nat /\ n <= MaxSize
    BY <1>0
  <2>3. remainingLength(dst) = dst.m_writeIndex - dst.m_readIndex
    BY <1>0, UnreadFacts
  <2>4. dst.m_readIndex + n <= dst.m_writeIndex /\ n + 0 = n /\ 0 + n = n
        /\ dst.m_readIndex + n + 0 <= dst.m_writeIndex
        /\ dst.m_readIndex + 0 + n <= dst.m_writeIndex
    BY <1>0, <2>1, <2>2, <2>3
  <2>5. /\ readBytes(dst, n).self = ReadAt(dst, dst.m_readIndex + n)
        /\ skipRead(dst, n).self = ReadAt(dst, dst.m_readIndex + n)
        /\ readBytes(dst, n).out = SubSeq(Unread(dst), 1, n)
    BY <1>0, <2>1, <2>2, TakeFacts
  <2>6. /\ Peek(dst.m_buffer, dst.m_readIndex, n) = SubSeq(Unread(dst), 1, n)
        /\ Peek(dst.m_buffer, dst.m_readIndex, 0) = <<>>
    <3>1. n \in 0 .. n /\ 0 \in 0 .. n
      BY <2>2
    <3>2. \A k \in 0 .. n : Peek(dst.m_buffer, dst.m_readIndex, k) = SubSeq(Unread(dst), 1, k)
      BY <1>0, <2>2, <2>4, ReadTakes
    <3>3. SubSeq(Unread(dst), 1, 0) = <<>>
      BY SubSeqEmpty
    <3> QED BY <3>1, <3>2, <3>3
  <2>7. CASE dst' = readBytes(dst, n).self /\ received' = readBytes(dst, n).out
    BY <2>1, <2>2, <2>4, <2>5, <2>6, <2>7, AdvanceMaps
  <2>8. CASE dst' = skipRead(dst, n).self /\ received' = <<>>
    BY <2>1, <2>2, <2>4, <2>5, <2>6, <2>8, AdvanceMaps
  <2> QED BY <2>1, <2>7, <2>8
<1>5. CASE ReceiveLine
  <2>1. /\ dst.m_writeIndex = dst.m_bufferSz /\ src' = src
        /\ dst' = readLine(dst, Delims).self /\ received' = readLine(dst, Delims).out
    BY <1>5 DEF ReceiveLine, length, size
  <2>2. PICK eol, next \in Nat :
           /\ dst.m_readIndex <= eol /\ eol <= next /\ next <= dst.m_bufferSz
           /\ \A q \in dst.m_readIndex .. (eol - 1) : dst.m_buffer[q] \notin Delims
           /\ \A q \in eol .. (next - 1) : dst.m_buffer[q] \in Delims
           /\ dst' = ReadAt(dst, next)
           /\ received' = Peek(dst.m_buffer, dst.m_readIndex, eol - dst.m_readIndex)
    BY <1>0, <2>1, ReadLineFacts, InputAssumption DEF Ordered
  <2>3. PICK n \in Nat, k \in Nat : n = eol - dst.m_readIndex /\ k = next - eol
    BY <1>0, <2>2
  <2>4. /\ dst.m_readIndex + n + k <= dst.m_writeIndex
        /\ dst.m_readIndex + (n + k) = next /\ dst.m_readIndex + n = eol
    <3>1. next <= dst.m_writeIndex
      BY <2>1, <2>2
    <3> QED BY <1>0, <2>3, <3>1
  <2>5. ASSUME NEW i \in 1 .. n
        PROVE  dst.m_buffer[dst.m_readIndex + i - 1] \notin Delims
    <3>1. dst.m_readIndex + i - 1 \in dst.m_readIndex .. (eol - 1)
      BY <1>0, <2>2, <2>3
    <3> QED BY <2>2, <3>1
  <2>6. ASSUME NEW i \in (n + 1) .. (n + k)
        PROVE  dst.m_buffer[dst.m_readIndex + i - 1] \in Delims
    <3> DEFINE r == dst.m_readIndex
    <3>2. r \in Nat /\ r + (n + k) = next /\ r + n = eol
      BY <1>0, <2>4
    <3> HIDE DEF r
    <3>3. r + i - 1 \in eol .. (next - 1)
      BY <3>2
    <3>1. dst.m_readIndex + i - 1 \in eol .. (next - 1)
      BY <3>3 DEF r
    <3> QED BY <2>2, <3>1
  <2>7. dst' = ReadAt(dst, dst.m_readIndex + (n + k))
        /\ received' = Peek(dst.m_buffer, dst.m_readIndex, n)
    BY <2>2, <2>3, <2>4
  <2> QED BY <2>1, <2>4, <2>5, <2>6, <2>7, AdvanceMaps
<1>6. CASE RecycleSrc
  <2>1. Ordered(src') /\ Unread(src') = <<>> /\ Unread(src) = <<>>
    BY <1>0, <1>6, RecycleFacts DEF RecycleSrc
  <2>2. dst' = dst /\ received' = received
    BY <1>6 DEF RecycleSrc
  <2> QED BY <1>0, <2>1, <2>2, InvFacts, StutterOrSend DEF InFlight
<1>7. CASE RecycleDst
  <2>1. Ordered(dst') /\ Unread(dst') = <<>> /\ Unread(dst) = <<>>
    BY <1>0, <1>7, RecycleFacts DEF RecycleDst
  <2>2. src' = src /\ received' = received
    BY <1>7 DEF RecycleDst
  <2> QED BY <1>0, <2>1, <2>2, InvFacts, StutterOrSend DEF InFlight
<1>8. CASE UNCHANGED vars
  <2>1. src' = src /\ dst' = dst /\ received' = received
    BY <1>8 DEF vars
  <2> QED BY <1>0, <2>1, InvFacts, StutterOrSend DEF InFlight
<1> QED
  BY <1>1, <1>2, <1>3, <1>4, <1>5, <1>6, <1>7, <1>8 DEF Next

\* For every width of size_t, every buffer size and every choice of messages, a
\* client that respects remainingLength() keeps both buffers well formed.
THEOREM RelayTypeCorrect == Spec => []TypeOK
<1>1. Init => Inv
  BY InitMaps
<1>2. Inv /\ [Next]_vars => Inv'
  BY NextMaps
<1>3. Inv => TypeOK
  BY DEF Inv
<1> QED
  BY <1>1, <1>2, <1>3, PTL DEF Spec

\* ... and never has its read cursor overtake a write cursor, so that
\* remainingLength() never wraps around.
THEOREM RelayReadsBehindWrites == Spec => []ReadBehindWrite
<1>1. Init => Inv
  BY InitMaps
<1>2. Inv /\ [Next]_vars => Inv'
  BY NextMaps
<1>3. Inv => ReadBehindWrite
  BY DEF Inv
<1> QED
  BY <1>1, <1>2, <1>3, PTL DEF Spec

\* The relay implements the first-in first-out channel: readToByteBuffer, the
\* reads, the skips, readLine and recycling lose, repeat or reorder no byte.
THEOREM RelayIsFirstInFirstOut == Spec => FirstInFirstOut
<1>1. Init => Inv /\ Channel!Init
  BY InitMaps
<1>2. Inv /\ [Next]_vars => Inv' /\ [Channel!Next]_<<Unread(dst) \o Unread(src), received>>
  BY NextMaps DEF AbstractStep, InFlight
<1> QED
  BY <1>1, <1>2, PTL DEF Spec, FirstInFirstOut, Channel!Spec
=============================================================================

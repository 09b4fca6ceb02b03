----------------------------- MODULE Sha_proofs -----------------------------
(***************************************************************************)
(* hkdf256Expand keeps its types and ends, for every block and digest      *)
(* size, every key, info and length, and every state of their cursors, if  *)
(* the compression function returns a digest; and what it returns is what  *)
(* RFC 5869 says, if no message it hashes is too long for its last block.  *)
(***************************************************************************)
EXTENDS Sha, ByteBufferLemmas, SequenceTheorems

Digest == [1 .. DigestLen -> Byte]

\* The one fact about the compression function that is needed.
CompressFact == \A h \in Digest : \A b \in Seq(Byte) : Compress(h, b) \in Digest

-----------------------------------------------------------------------------
(* Padding and hashing.                                                     *)

\* The constants, as the steps below use them.
LEMMA Widths ==
    /\ BlockLen \in Nat /\ BlockLen > 0 /\ DigestLen \in Nat /\ DigestLen > 0
    /\ LengthLen \in Nat /\ DigestLen < BlockLen /\ LengthLen < BlockLen
    /\ MaxSize \in Nat /\ SizeMod \in Nat /\ SizeMod > 0
    /\ 3 * BlockLen <= MaxSize
    /\ MaxLen \in Nat /\ MaxLen + DigestLen <= MaxSize
    /\ 0 \in Byte /\ Mark \in Byte /\ H \in Digest
    /\ CounterMod \in Nat /\ CounterMod > 1
    /\ \A n \in 0 .. (CounterMod - 1) : n \in Byte
<1>1. HexBase * HexBase \in Nat
  BY ByteFacts
<1>2. \A n \in 0 .. (CounterMod - 1) : n \in Byte
  BY <1>1, ShaAssumption DEF Byte
<1>3. CounterMod \in Nat /\ CounterMod > 1
  BY <1>1, ShaAssumption
<1> QED
  BY <1>2, <1>3, ShaAssumption, SizeAssumption, MemoryAssumption, ByteFacts DEF Digest

LEMMA DigestIsText == \A d \in Digest : d \in Seq(Byte) /\ Len(d) = DigestLen
  BY Widths DEF Digest

\* The bytes of a buffer, and a buffer of given bytes.
LEMMA BytesFacts ==
    ASSUME NEW b, WellFormed(b)
    PROVE  Bytes(b) \in Seq(Byte) /\ Len(Bytes(b)) = b.m_bufferSz
<1>1. b.m_bufferSz \in Nat /\ b.m_buffer \in Array(b.m_bufferSz)
  BY Fields
<1> DEFINE sz == b.m_bufferSz   arr == b.m_buffer
<1>2. sz \in Nat /\ arr \in Array(sz) /\ 0 + sz <= sz
  BY <1>1
<1> HIDE DEF sz, arr
<1>3. Peek(arr, 0, sz) \in Seq(Byte) /\ Len(Peek(arr, 0, sz)) = sz
  BY <1>2, PeekFacts
<1> QED
  BY <1>3 DEF Bytes, sz, arr

LEMMA FullFacts ==
    ASSUME NEW data \in Seq(Byte), Len(data) <= MaxSize
    PROVE  /\ WellFormed(Full(data))
           /\ Full(data).m_bufferSz = Len(data)
           /\ Full(data).m_readIndex = 0 /\ Full(data).m_writeIndex = Len(data)
<1> DEFINE new == NewBuffer(Len(data))
<1>1. Len(data) \in Nat
  OBVIOUS
<1>2. WellFormed(new)
  BY <1>1, NewBufferFacts
<1>3. new.m_bufferSz = Len(data) /\ new.m_readIndex = 0 /\ new.m_writeIndex = 0
  BY DEF NewBuffer, Buffer
<1> HIDE DEF new
<1>4. writeArray(new, data).self =
        Buffer(new.m_bufferSz, Poke(new.m_buffer, new.m_writeIndex, data),
               new.m_readIndex, new.m_writeIndex + Len(data))
  BY <1>1, <1>2, <1>3, WriteEffect
<1>5. WellFormed(writeArray(new, data).self)
  BY <1>2, WriteFacts DEF Honest
<1> QED
  BY <1>1, <1>3, <1>4, <1>5 DEF Full, new, Buffer

LEMMA LittleEndianFacts ==
    ASSUME NEW n \in Nat
    PROVE  LittleEndian(n) \in Seq(Byte)
<1> DEFINE byte == HexBase * HexBase
           Eq(f) == f = [k \in 0 .. LengthLen |-> IF k = 0 THEN n ELSE f[k - 1] \div byte]
           rest == CHOOSE f : Eq(f)
           step == [k \in 1 .. LengthLen |-> [m \in Nat |-> m \div byte]]
<1>1. byte \in Nat /\ byte > 0
  BY ByteFacts
<1>2. Byte = 0 .. (byte - 1)
  BY DEF Byte
<1>3. LittleEndian(n) = [k \in 1 .. LengthLen |-> rest[k - 1] % byte]
  BY DEF LittleEndian
<1> HIDE DEF byte
<1>4. \E f : Eq(f)
  <2> DEFINE Numbers == Nat
  <2>0. LengthLen \in Nat /\ n \in Numbers
    BY Widths
  <2>1. step \in [1 .. LengthLen -> [Numbers -> Numbers]]
    BY <1>1
  <2> HIDE DEF step, Eq, Numbers
  <2>2. PICK f \in [0 .. LengthLen -> Numbers] : Stepwise(f, LengthLen, n, step)
    BY <2>0, <2>1, StepwiseExists
  <2>3. ASSUME NEW k \in 1 .. LengthLen PROVE step[k][f[k - 1]] = f[k - 1] \div byte
    <3>1. f[k - 1] \in Nat
      BY Widths DEF Numbers
    <3> QED BY <3>1 DEF step
  <2>4. \A k \in 0 .. LengthLen : f[k] = IF k = 0 THEN n ELSE f[k - 1] \div byte
    BY <2>2, <2>3, Widths DEF Stepwise
  <2> QED BY <2>2, <2>4 DEF Eq
<1>5. Eq(rest)
  BY <1>4
<1> HIDE DEF rest
<1>6. \A k \in 0 .. LengthLen : rest[k] \in Nat
  <2>1. rest[0] \in Nat
    BY <1>5, Widths
  <2>2. ASSUME NEW k \in 1 .. LengthLen, rest[k - 1] \in Nat PROVE rest[k] \in Nat
    <3>1. rest[k] = rest[k - 1] \div byte
      BY <1>5, Widths
    <3> QED BY <1>1, <2>2, <3>1
  <2> HIDE DEF Eq
  <2> QED BY <2>1, <2>2, Widths, PassedOn
<1>7. \A k \in 1 .. LengthLen : rest[k - 1] % byte \in Byte
  <2>1. ASSUME NEW k \in 1 .. LengthLen PROVE rest[k - 1] \in Nat
    BY <1>6, Widths
  <2>2. \A m \in Nat : m % byte \in Byte
    BY <1>1, <1>2
  <2> QED BY <2>1, <2>2
<1> QED
  BY <1>3, <1>7, Widths

\* A padded message is a number of whole blocks.
LEMMA PadFacts ==
    ASSUME NEW data \in Seq(Byte), Len(data) + BlockLen <= MaxSize
    PROVE  /\ padMessage(data) \in Seq(Byte)
           /\ Len(padMessage(data)) = ((Len(data) \div BlockLen) + 1) * BlockLen
<1> DEFINE required == BlockLen - (Len(data) % BlockLen)
           new == NewBuffer(Len(data) + required)
           written == writeArray(new, data).self
           marked == write(written, <<Mark>>).self
           skipped == skipWrite(marked, Sub(Sub(required, 1), LengthLen)).self
           ended == writeSwapped(skipped, LittleEndian(8 * Len(data))).self
<1>1. Len(data) \in Nat
  OBVIOUS
<1>2. /\ required \in Nat /\ required > 0 /\ required <= BlockLen
      /\ Len(data) + required = ((Len(data) \div BlockLen) + 1) * BlockLen
  BY <1>1, Widths
<1>3. Sub(Sub(required, 1), LengthLen) \in Nat
  <2>1. \A m, n \in Int : Sub(m, n) \in Nat /\ Sub(m, n) \in Int
    BY Widths DEF Sub
  <2> HIDE DEF required
  <2>2. required \in Int /\ 1 \in Int /\ LengthLen \in Int
    BY <1>2, Widths
  <2> QED BY <2>1, <2>2
<1>4. padMessage(data) = Bytes(ended)
  BY DEF padMessage
<1> HIDE DEF required
<1>5. WellFormed(new) /\ new.m_bufferSz = Len(data) + required
  <2>1. Len(data) + required \in Nat /\ Len(data) + required <= MaxSize
    BY <1>1, <1>2, Widths
  <2> QED BY <2>1, NewBufferFacts DEF NewBuffer, Buffer
<1> HIDE DEF new
<1>6. WellFormed(written) /\ written.m_bufferSz = new.m_bufferSz
  BY <1>5, WriteFacts DEF Honest
<1> HIDE DEF written
<1>7. WellFormed(marked) /\ marked.m_bufferSz = new.m_bufferSz
  <2>1. <<Mark>> \in Seq(Byte)
    BY Widths
  <2> QED BY <1>6, <2>1, WriteFacts DEF Honest, write
<1> HIDE DEF marked
<1>8. WellFormed(skipped) /\ skipped.m_bufferSz = new.m_bufferSz
  <2>1. \A n \in Nat : Honest(marked, skipWrite(marked, n))
    BY <1>7, SkipFacts
  <2> QED BY <1>3, <1>7, <2>1 DEF Honest
<1> HIDE DEF skipped
<1>9. WellFormed(ended) /\ ended.m_bufferSz = new.m_bufferSz
  <2>1. 8 * Len(data) \in Nat
    BY <1>1
  <2>2. swapEndian(LittleEndian(8 * Len(data))) \in Seq(Byte)
    BY <2>1, LittleEndianFacts, SwapFacts
  <2> QED BY <1>8, <2>2, WriteFacts DEF Honest, writeSwapped, write
<1> HIDE DEF ended
<1> QED
  BY <1>2, <1>4, <1>5, <1>9, BytesFacts

\* Block after block, a hash is a digest.
LEMMA ChainFacts ==
    ASSUME CompressFact, NEW padded \in Seq(Byte)
    PROVE  Chain(padded) \in Digest
<1> DEFINE N == Len(padded) \div BlockLen
           block(k) == SubSeq(padded, BlockLen * (k - 1) + 1, BlockLen * k)
           Eq(f) == f = [k \in 0 .. N |-> IF k = 0 THEN H ELSE Compress(f[k - 1], block(k))]
           hash == CHOOSE f : Eq(f)
           step == [k \in 1 .. N |-> [h \in Digest |-> Compress(h, block(k))]]
<1>1. N \in Nat /\ BlockLen * N <= Len(padded) /\ Len(padded) \in Nat
  BY Widths
<1>2. Chain(padded) = hash[N]
  BY DEF Chain
<1> HIDE DEF N
<1>3. ASSUME NEW k \in 1 .. N PROVE block(k) \in Seq(Byte)
  <2>1. BlockLen * k <= BlockLen * N /\ BlockLen * (k - 1) \in Nat /\ BlockLen * k \in Nat
    <3>1. k \in Nat /\ k - 1 \in Nat /\ N - k \in Nat
      BY <1>1
    <3>2. BlockLen * (N - k) \in Nat /\ BlockLen * (k - 1) \in Nat /\ BlockLen * k \in Nat
      BY <3>1, Widths
    <3>3. BlockLen * N = BlockLen * k + BlockLen * (N - k)
      BY <1>1, <3>1, Widths
    <3> QED BY <3>2, <3>3
  <2> DEFINE from == BlockLen * (k - 1) + 1   to == BlockLen * k
  <2>2. from \in Nat /\ to \in Nat /\ from > 0 /\ to <= Len(padded)
    BY <1>1, <2>1, Widths
  <2> HIDE DEF from, to
  <2>3. \A j \in from .. to : padded[j] \in Byte
    BY <1>1, <2>2
  <2>4. SubSeq(padded, from, to) \in Seq(Byte)
    BY <2>2, <2>3, SubSeqProperties
  <2> QED BY <2>4 DEF from, to
<1> HIDE DEF block
<1>4. \A k \in 1 .. N : \A h \in Digest : Compress(h, block(k)) \in Digest
  BY <1>3 DEF CompressFact
<1>5. H \in Digest
  BY Widths
<1>6. \E f : Eq(f)
  <2>1. step \in [1 .. N -> [Digest -> Digest]]
    BY <1>4
  <2> HIDE DEF step, Eq
  <2>2. PICK f \in [0 .. N -> Digest] : Stepwise(f, N, H, step)
    BY <1>1, <1>5, <2>1, StepwiseExists
  <2>3. ASSUME NEW k \in 1 .. N PROVE step[k][f[k - 1]] = Compress(f[k - 1], block(k))
    <3>1. f[k - 1] \in Digest
      BY <1>1
    <3> QED BY <3>1 DEF step
  <2>4. \A k \in 0 .. N : f[k] = IF k = 0 THEN H ELSE Compress(f[k - 1], block(k))
    BY <1>1, <2>2, <2>3 DEF Stepwise
  <2> QED BY <2>2, <2>4 DEF Eq
<1>7. Eq(hash)
  BY <1>6
<1> HIDE DEF hash
<1>8. \A k \in 0 .. N : hash[k] \in Digest
  <2>1. hash[0] \in Digest
    BY <1>1, <1>5, <1>7
  <2>2. ASSUME NEW k \in 1 .. N, hash[k - 1] \in Digest PROVE hash[k] \in Digest
    <3>1. hash[k] = Compress(hash[k - 1], block(k))
      BY <1>1, <1>7
    <3> QED BY <1>4, <2>2, <3>1
  <2> HIDE DEF Eq
  <2> QED BY <1>1, <2>1, <2>2, PassedOn
<1> QED
  BY <1>1, <1>2, <1>8

LEMMA HashFacts ==
    ASSUME CompressFact, NEW data \in Seq(Byte), Len(data) + BlockLen <= MaxSize
    PROVE  encode256(data) \in Digest
  BY PadFacts, ChainFacts DEF encode256

\* HMAC of a key and a message that fit in memory with two more blocks.
LEMMA HmacFacts ==
    ASSUME CompressFact, NEW key \in Seq(Byte), NEW data \in Seq(Byte),
           Len(key) + BlockLen <= MaxSize, Len(data) + 2 * BlockLen <= MaxSize
    PROVE  hmac256(key, data) \in Digest
<1> DEFINE short == IF Len(key) > BlockLen THEN encode256(key) ELSE key
           paddedKey == ZeroFilled(short)
           innerText == Masked(IPad, paddedKey) \o data
           inner == encode256(innerText)
           outerText == Masked(OPad, paddedKey) \o inner
<1>1. short \in Seq(Byte) /\ Len(short) \in Nat /\ Len(short) <= BlockLen
  <2>1. CASE Len(key) > BlockLen
    BY <2>1, HashFacts, DigestIsText, Widths
  <2>2. CASE ~(Len(key) > BlockLen)
    BY <2>2, Widths
  <2> QED BY <2>1, <2>2
<1>2. hmac256(key, data) = encode256(outerText)
  BY DEF hmac256
<1> HIDE DEF short
<1>3. paddedKey \in Seq(Byte) /\ Len(paddedKey) = BlockLen
  <2>1. ASSUME NEW n \in Nat PROVE Repeat(0, n) \in Seq(Byte) /\ Len(Repeat(0, n)) = n
    BY Widths DEF Repeat
  <2>2. BlockLen - Len(short) \in Nat
    BY <1>1, Widths
  <2>3. Repeat(0, BlockLen - Len(short)) \in Seq(Byte)
        /\ Len(Repeat(0, BlockLen - Len(short))) = BlockLen - Len(short)
    BY <2>1, <2>2
  <2>4. paddedKey = short \o Repeat(0, BlockLen - Len(short))
    BY DEF ZeroFilled
  <2> HIDE DEF paddedKey
  <2>5. paddedKey \in Seq(Byte)
        /\ Len(paddedKey) = Len(short) + Len(Repeat(0, BlockLen - Len(short)))
    BY <1>1, <2>3, <2>4, ConcatProperties
  <2> QED BY <1>1, <2>3, <2>5, Widths
<1> HIDE DEF paddedKey
<1>4. ASSUME NEW pad \in [Byte -> Byte]
      PROVE  Masked(pad, paddedKey) \in Seq(Byte) /\ Len(Masked(pad, paddedKey)) = BlockLen
  <2>1. \A k \in 1 .. BlockLen : pad[paddedKey[k]] \in Byte
    BY <1>3
  <2> QED BY <1>3, <2>1, Widths DEF Masked
<1>5. IPad \in [Byte -> Byte] /\ OPad \in [Byte -> Byte]
  BY ShaAssumption
<1>6. inner \in Seq(Byte) /\ Len(inner) = DigestLen
  <2>1. innerText \in Seq(Byte) /\ Len(innerText) = BlockLen + Len(data)
    BY <1>4, <1>5, ConcatProperties
  <2> HIDE DEF innerText
  <2>2. Len(innerText) + BlockLen <= MaxSize
    BY <2>1, Widths
  <2> QED BY <2>1, <2>2, HashFacts, DigestIsText
<1> HIDE DEF inner
<1>7. outerText \in Seq(Byte) /\ Len(outerText) = BlockLen + DigestLen
  BY <1>4, <1>5, <1>6, ConcatProperties
<1> HIDE DEF outerText
<1>8. Len(outerText) + BlockLen <= MaxSize
  BY <1>7, Widths
<1> QED
  BY <1>2, <1>7, <1>8, HashFacts

-----------------------------------------------------------------------------
(* hkdf256Expand.                                                           *)

\* A transfer keeps two buffers well-formed, and one that fits appends n bytes.
LEMMA ReadToFacts ==
    ASSUME NEW from, NEW to, WellFormed(from), WellFormed(to), NEW n \in Nat, n <= MaxSize
    PROVE  LET r == ReadTo(from, to, n)
           IN  /\ WellFormed(r[1]) /\ r[1].m_bufferSz = from.m_bufferSz
               /\ WellFormed(r[2]) /\ r[2].m_bufferSz = to.m_bufferSz
               /\ r[2].m_readIndex = to.m_readIndex
               /\ from.m_readIndex + n <= from.m_bufferSz /\ to.m_writeIndex + n <= to.m_bufferSz
                    => r[2].m_writeIndex = to.m_writeIndex + n
<1> DEFINE r == ReadTo(from, to, n)
<1>1. /\ WellFormed(readBytes(from, n).self)
      /\ readBytes(from, n).self.m_bufferSz = from.m_bufferSz
      /\ Fits(from, from.m_readIndex, n) <=> from.m_readIndex + n <= from.m_bufferSz
      /\ readBytes(from, n).out \in Seq(Byte)
  BY ReadFacts DEF Honest
<1>2. CASE ~CanTransfer(from, to, n)
  <2>1. r = <<from, to>>
    BY <1>2 DEF ReadTo
  <2>2. ~(from.m_readIndex + n <= from.m_bufferSz /\ to.m_writeIndex + n <= to.m_bufferSz)
    <3> DEFINE w == to.m_writeIndex
    <3>1. w \in Nat /\ w + n < SizeMod
      BY Fields
    <3> HIDE DEF w
    <3>2. Add(w, n) = w + n
      BY <3>1, AddFacts
    <3>3. Add(to.m_writeIndex, n) = to.m_writeIndex + n
      BY <3>2 DEF w
    <3> QED BY <1>1, <1>2, <3>3 DEF CanTransfer, Fits
  <2> HIDE DEF r
  <2> QED BY <2>1, <2>2 DEF r
<1>3. CASE CanTransfer(from, to, n)
  <2>1. from.m_readIndex + n <= from.m_bufferSz
    BY <1>1, <1>3 DEF CanTransfer
  <2> DEFINE data == readBytes(from, n).out
  <2>2. data \in Seq(Byte) /\ Len(data) = n
    <3>1. data = Peek(from.m_buffer, from.m_readIndex, n)
      BY <2>1, ReadFacts DEF Result
    <3> QED BY <2>1, <3>1, PeekBuffer
  <2>3. r = <<readBytes(from, n).self, Received(from, to, n)>>
    BY <1>3 DEF ReadTo
  <2>4. Received(from, to, n) = writeArray(to, data).self
    BY DEF Received
  <2> HIDE DEF data, r
  <2>5. WellFormed(writeArray(to, data).self)
        /\ writeArray(to, data).self.m_bufferSz = to.m_bufferSz
    BY <2>2, WriteFacts DEF Honest
  <2>6. /\ writeArray(to, data).self.m_readIndex = to.m_readIndex
        /\ to.m_writeIndex + n <= to.m_bufferSz =>
             writeArray(to, data).self.m_writeIndex = to.m_writeIndex + n
    <3>1. Len(data) <= MaxSize
      BY <2>2
    <3>2. CASE to.m_writeIndex + Len(data) <= to.m_bufferSz
      <4>1. writeArray(to, data).self =
              Buffer(to.m_bufferSz, Poke(to.m_buffer, to.m_writeIndex, data),
                     to.m_readIndex, to.m_writeIndex + Len(data))
        BY <2>2, <3>1, <3>2, WriteEffect
      <4> QED BY <2>2, <4>1 DEF Buffer
    <3>3. CASE ~(to.m_writeIndex + Len(data) <= to.m_bufferSz)
      <4>1. writeArray(to, data).self = to
        BY <2>2, <3>1, <3>3, WriteEffect
      <4> QED BY <2>2, <3>3, <4>1
    <3> QED BY <3>2, <3>3
  <2> QED BY <1>1, <2>3, <2>4, <2>5, <2>6 DEF r
<1> QED
  BY <1>2, <1>3

\* The output holds whole blocks, and has room for one more than it needs.
Inv ==
    /\ WellFormed(prk) /\ prk.m_bufferSz + BlockLen <= MaxSize
    /\ WellFormed(info) /\ info.m_bufferSz + 3 * BlockLen <= MaxSize
    /\ WellFormed(temp) /\ temp.m_bufferSz = DigestLen + info.m_bufferSz + 1
    /\ WellFormed(okm) /\ okm.m_bufferSz = ((len \div DigestLen) + 1) * DigestLen
    /\ \E q \in Nat : okm.m_writeIndex = q * DigestLen
    /\ len \in 0 .. MaxLen /\ i \in 0 .. (CounterMod - 1)
    /\ result = NoResult => okm.m_readIndex = 0
    /\ result = NoResult \/ result \in [1 .. len -> Byte]

LEMMA InvTypes == Inv => TypeOK
<1>1. ASSUME NEW b, WellFormed(b) PROVE ValidBuffer(b)
  <2>1. /\ b.m_bufferSz \in Nat /\ b.m_buffer \in Array(b.m_bufferSz)
        /\ b.m_readIndex \in Nat /\ b.m_readIndex <= b.m_bufferSz
        /\ b.m_writeIndex \in Nat /\ b.m_writeIndex <= b.m_bufferSz
    BY <1>1, Fields
  <2> QED BY <2>1 DEF ValidBuffer
<1> QED
  BY <1>1 DEF Inv, TypeOK

LEMMA InitInv == Init => Inv
<1> SUFFICES ASSUME Init PROVE Inv
  OBVIOUS
<1>1. ASSUME NEW s \in Keys \cup Infos, NEW c \in 0 .. Len(s)
      PROVE  WellFormed(ReadAt(Full(s), c)) /\ ReadAt(Full(s), c).m_bufferSz = Len(s)
  <2>1. s \in Seq(Byte) /\ Len(s) + 3 * BlockLen <= MaxSize
    BY ShaAssumption, MemoryAssumption
  <2>2. Len(s) \in Nat /\ Len(s) <= MaxSize
    BY <2>1, Widths
  <2>3. WellFormed(Full(s)) /\ Full(s).m_bufferSz = Len(s)
    BY <2>1, <2>2, FullFacts
  <2>4. c \in Nat /\ c <= Full(s).m_bufferSz /\ Full(s).m_buffer \in Array(Full(s).m_bufferSz)
    BY <2>2, <2>3, Fields
  <2> QED BY <2>3, <2>4, Updates DEF ReadAt, Buffer
<1>2. PICK k \in Keys : \E c \in 0 .. Len(k) : prk = ReadAt(Full(k), c)
  BY DEF Init
<1>3. PICK f \in Infos : \E c \in 0 .. Len(f) : info = ReadAt(Full(f), c)
  BY DEF Init
<1>4. /\ WellFormed(prk) /\ prk.m_bufferSz = Len(k)
      /\ WellFormed(info) /\ info.m_bufferSz = Len(f)
  BY <1>1, <1>2, <1>3
<1>5. /\ Len(k) \in Nat /\ Len(k) + 3 * BlockLen <= MaxSize
      /\ Len(f) \in Nat /\ Len(f) + 3 * BlockLen <= MaxSize
  BY ShaAssumption, MemoryAssumption
<1>6. WellFormed(temp) /\ temp.m_bufferSz = DigestLen + info.m_bufferSz + 1
  <2>1. /\ DigestLen + Len(f) + 1 \in Nat /\ DigestLen + Len(f) + 1 <= MaxSize
        /\ temp = NewBuffer(DigestLen + Len(f) + 1)
    BY <1>4, <1>5, Widths DEF Init, size
  <2> QED BY <1>4, <2>1, NewBufferFacts DEF NewBuffer, Buffer
<1>7. /\ WellFormed(okm) /\ okm.m_bufferSz = ((len \div DigestLen) + 1) * DigestLen
      /\ okm.m_readIndex = 0 /\ okm.m_writeIndex = 0
  <2> DEFINE n == ((len \div DigestLen) + 1) * DigestLen
  <2>1. n \in Nat /\ n <= MaxSize
    <3>1. len \in Nat /\ len <= MaxLen
      BY Widths DEF Init
    <3>2. n = (len \div DigestLen) * DigestLen + DigestLen /\ (len \div DigestLen) * DigestLen <= len
          /\ (len \div DigestLen) * DigestLen \in Nat
      BY <3>1, Widths
    <3> HIDE DEF n
    <3> QED BY <3>1, <3>2, Widths
  <2>2. okm = NewBuffer(n)
    BY DEF Init, OutputBuffer
  <2> HIDE DEF n
  <2>3. WellFormed(okm) /\ okm.m_bufferSz = n /\ okm.m_readIndex = 0 /\ okm.m_writeIndex = 0
    BY <2>1, <2>2, NewBufferFacts DEF NewBuffer, Buffer
  <2> QED BY <2>3 DEF n
<1>8. okm.m_writeIndex = 0 * DigestLen
  BY <1>7, Widths
<1>9. i \in 0 .. (CounterMod - 1) /\ len \in 0 .. MaxLen /\ result = NoResult
  BY Widths DEF Init
<1> QED
  BY <1>4, <1>5, <1>6, <1>7, <1>8, <1>9, Widths DEF Inv

LEMMA ReadToSizes ==
    ASSUME NEW from, NEW to, WellFormed(from), WellFormed(to), NEW n \in Nat, n <= MaxSize
    PROVE  /\ WellFormed(ReadTo(from, to, n)[1])
           /\ ReadTo(from, to, n)[1].m_bufferSz = from.m_bufferSz
           /\ WellFormed(ReadTo(from, to, n)[2])
           /\ ReadTo(from, to, n)[2].m_bufferSz = to.m_bufferSz
           /\ ReadTo(from, to, n)[2].m_readIndex = to.m_readIndex
  BY ReadToFacts

LEMMA ReadToAppends ==
    ASSUME NEW from, NEW to, WellFormed(from), WellFormed(to), NEW n \in Nat, n <= MaxSize,
           from.m_readIndex + n <= from.m_bufferSz, to.m_writeIndex + n <= to.m_bufferSz
    PROVE  ReadTo(from, to, n)[2].m_writeIndex = to.m_writeIndex + n
<1>1. LET r == ReadTo(from, to, n)
      IN  /\ WellFormed(r[1]) /\ r[1].m_bufferSz = from.m_bufferSz
          /\ WellFormed(r[2]) /\ r[2].m_bufferSz = to.m_bufferSz
          /\ r[2].m_readIndex = to.m_readIndex
          /\ from.m_readIndex + n <= from.m_bufferSz /\ to.m_writeIndex + n <= to.m_bufferSz
               => r[2].m_writeIndex = to.m_writeIndex + n
  BY ReadToFacts
<1> QED
  BY <1>1

\* Whole blocks of the output that are not yet all that was asked for leave
\* room for one more.
LEMMA RoomForOne ==
    ASSUME NEW l \in Nat, NEW q \in Nat, q * DigestLen < l
    PROVE  q * DigestLen + DigestLen <= ((l \div DigestLen) + 1) * DigestLen
<1> DEFINE d == l \div DigestLen
<1>1. d \in Nat /\ l < (d + 1) * DigestLen /\ (d + 1) * DigestLen = d * DigestLen + DigestLen
  BY Widths
<1> HIDE DEF d
<1>2. q <= d
  <2> SUFFICES ASSUME d + 1 <= q PROVE FALSE
    BY <1>1
  <2>1. q - (d + 1) \in Nat
    BY <1>1
  <2>2. (q - (d + 1)) * DigestLen \in Nat
    BY <2>1, Widths
  <2>3. q * DigestLen = (d + 1) * DigestLen + (q - (d + 1)) * DigestLen
    BY <1>1, Widths
  <2> QED BY <1>1, <2>2, <2>3, Widths
<1>3. (d - q) * DigestLen \in Nat /\ d * DigestLen = q * DigestLen + (d - q) * DigestLen
  <2>1. d - q \in Nat
    BY <1>1, <1>2
  <2> QED BY <1>1, <2>1, Widths
<1> QED
  BY <1>1, <1>3, Widths DEF d

\* The hash of one turn, and the buffer it was read from.
LEMMA TurnFacts ==
    ASSUME CompressFact, Inv, Expand
    PROVE  \E t : \E message :
             /\ WellFormed(t) /\ t.m_bufferSz = DigestLen /\ t.m_readIndex = 0
             /\ WellFormed(message) /\ message.m_bufferSz = temp.m_bufferSz
             /\ okm' = ReadTo(t, okm, DigestLen)[2]
             /\ temp' = ReadTo(t, clear(message), DigestLen)[2]
             /\ WellFormed(info') /\ info'.m_bufferSz = info.m_bufferSz
<1> DEFINE n == size(info)
           infoRead == ReadTo(resetRead(info), temp, n)
           input == resetRead(write(infoRead[2], <<i>>).self)
           message == readBytes(input, length(input))
           t == Full(hmac256(Bytes(prk), message.out))
<1>1. /\ okm' = ReadTo(t, okm, size(t))[2]
      /\ temp' = ReadTo(t, clear(message.self), size(t))[2]
      /\ info' = infoRead[1]
  BY DEF Expand
<1>2. n = info.m_bufferSz /\ n \in Nat /\ n <= MaxSize
  <2>1. info.m_bufferSz \in Nat /\ info.m_bufferSz <= MaxSize
    BY Fields DEF Inv
  <2> QED BY <2>1 DEF size
<1> HIDE DEF n
<1>3. /\ WellFormed(infoRead[1]) /\ infoRead[1].m_bufferSz = info.m_bufferSz
      /\ WellFormed(infoRead[2]) /\ infoRead[2].m_bufferSz = temp.m_bufferSz
  <2> DEFINE from == resetRead(info)
  <2>1. WellFormed(from) /\ from.m_bufferSz = info.m_bufferSz
    BY ResetFacts DEF Inv, resetRead, ReadAt, Buffer
  <2>2. WellFormed(temp) /\ WellFormed(from) /\ n \in Nat /\ n <= MaxSize
    BY <1>2, <2>1 DEF Inv
  <2>3. infoRead = ReadTo(from, temp, n)
    OBVIOUS
  <2> HIDE DEF from, infoRead
  <2>4. /\ WellFormed(ReadTo(from, temp, n)[1])
        /\ ReadTo(from, temp, n)[1].m_bufferSz = from.m_bufferSz
        /\ WellFormed(ReadTo(from, temp, n)[2])
        /\ ReadTo(from, temp, n)[2].m_bufferSz = temp.m_bufferSz
    BY <2>2, ReadToSizes
  <2> QED BY <2>1, <2>3, <2>4
<1> HIDE DEF infoRead
<1>4. WellFormed(input) /\ input.m_bufferSz = temp.m_bufferSz
  <2>1. <<i>> \in Seq(Byte)
    BY Widths DEF Inv
  <2>2. WellFormed(write(infoRead[2], <<i>>).self)
        /\ write(infoRead[2], <<i>>).self.m_bufferSz = temp.m_bufferSz
    BY <1>3, <2>1, WriteFacts DEF Honest, write
  <2> QED BY <2>2, ResetFacts DEF resetRead, ReadAt, Buffer
<1> HIDE DEF input
<1>5. length(input) \in Nat /\ length(input) <= temp.m_bufferSz /\ length(input) <= MaxSize
  BY <1>4, Fields DEF length
<1>6. WellFormed(message.self) /\ message.self.m_bufferSz = temp.m_bufferSz
  BY <1>4, <1>5, ReadFacts DEF Honest
<1>7. message.out \in Seq(Byte) /\ Len(message.out) <= temp.m_bufferSz
  <2>1. message.out \in Seq(Byte)
    BY <1>4, <1>5, ReadFacts
  <2>2. CASE input.m_readIndex + length(input) <= input.m_bufferSz
    <3>1. message.out = Peek(input.m_buffer, input.m_readIndex, length(input))
      BY <1>4, <1>5, <2>2, ReadFacts DEF Result
    <3> QED BY <1>4, <1>5, <2>1, <2>2, <3>1, PeekBuffer
  <2>3. CASE ~(input.m_readIndex + length(input) <= input.m_bufferSz)
    <3>1. message.out = <<>>
      BY <1>4, <1>5, <2>3, ReadFacts DEF readBytes, Result
    <3> QED BY <1>4, <2>1, <3>1, Fields
  <2> QED BY <2>1, <2>2, <2>3
<1> HIDE DEF message
<1>8. hmac256(Bytes(prk), message.out) \in Digest
  <2>1. Bytes(prk) \in Seq(Byte) /\ Len(Bytes(prk)) + BlockLen <= MaxSize
    BY BytesFacts DEF Inv
  <2>2. Len(message.out) + 2 * BlockLen <= MaxSize
    <3>1. temp.m_bufferSz + 2 * BlockLen <= MaxSize
      BY <1>2, Widths DEF Inv
    <3>2. Len(message.out) \in Nat /\ temp.m_bufferSz \in Nat
      BY <1>4, <1>7, Fields
    <3> DEFINE l == Len(message.out)   sz == temp.m_bufferSz
    <3>3. l \in Nat /\ sz \in Nat /\ l <= sz /\ sz + 2 * BlockLen <= MaxSize
      BY <1>7, <3>1, <3>2
    <3> HIDE DEF l, sz
    <3>4. l + 2 * BlockLen <= MaxSize
      BY <3>3, Widths
    <3> QED BY <3>4 DEF l
  <2> QED BY <1>7, <2>1, <2>2, HmacFacts
<1>9. WellFormed(t) /\ t.m_bufferSz = DigestLen /\ t.m_readIndex = 0
  <2> DEFINE d == hmac256(Bytes(prk), message.out)
  <2>1. d \in Seq(Byte) /\ Len(d) = DigestLen /\ Len(d) <= MaxSize
    BY <1>8, DigestIsText, Widths
  <2> HIDE DEF d
  <2>2. WellFormed(Full(d)) /\ Full(d).m_bufferSz = DigestLen /\ Full(d).m_readIndex = 0
    BY <2>1, FullFacts
  <2> QED BY <2>2 DEF d
<1>10. size(t) = DigestLen
  BY <1>9 DEF size
<1> HIDE DEF t
<1> QED
  BY <1>1, <1>3, <1>6, <1>9, <1>10

\* One turn of the loop keeps the invariant and adds a block.
LEMMA ExpandStep ==
    ASSUME CompressFact, Inv, Expand
    PROVE  Inv' /\ length(okm') = length(okm) + DigestLen
<1>1. PICK t, message :
        /\ WellFormed(t) /\ t.m_bufferSz = DigestLen /\ t.m_readIndex = 0
        /\ WellFormed(message) /\ message.m_bufferSz = temp.m_bufferSz
        /\ okm' = ReadTo(t, okm, DigestLen)[2]
        /\ temp' = ReadTo(t, clear(message), DigestLen)[2]
        /\ WellFormed(info') /\ info'.m_bufferSz = info.m_bufferSz
  BY TurnFacts
<1>2. DigestLen \in Nat /\ DigestLen <= MaxSize
  BY Widths
<1>3. WellFormed(clear(message)) /\ clear(message).m_bufferSz = temp.m_bufferSz
  <2>1. WellFormed(clear(message)) /\ clear(message) = NewBuffer(message.m_bufferSz)
    BY <1>1, ResetFacts
  <2> QED BY <1>1, <2>1 DEF NewBuffer, Buffer
<1>4. WellFormed(temp') /\ temp'.m_bufferSz = temp.m_bufferSz
  BY <1>1, <1>2, <1>3, ReadToSizes
<1>5. PICK q \in Nat : okm.m_writeIndex = q * DigestLen
  BY DEF Inv
<1>6. okm.m_writeIndex + DigestLen <= okm.m_bufferSz
  <2>1. q * DigestLen < len /\ len \in Nat
    <3>1. length(okm) < len
      BY DEF Expand
    <3>2. length(okm) = q * DigestLen
      BY <1>5 DEF length
    <3>3. len \in Nat
      BY Widths DEF Inv
    <3> QED BY <3>1, <3>2, <3>3
  <2> QED BY <1>5, <2>1, RoomForOne DEF Inv
<1>7. /\ WellFormed(okm') /\ okm'.m_bufferSz = okm.m_bufferSz
      /\ okm'.m_readIndex = okm.m_readIndex
      /\ okm'.m_writeIndex = okm.m_writeIndex + DigestLen
  <2>1. WellFormed(okm) /\ t.m_readIndex + DigestLen <= t.m_bufferSz
    BY <1>1, <1>2 DEF Inv
  <2>2. ReadTo(t, okm, DigestLen)[2].m_writeIndex = okm.m_writeIndex + DigestLen
    BY <1>1, <1>2, <1>6, <2>1, ReadToAppends
  <2>3. /\ WellFormed(ReadTo(t, okm, DigestLen)[2])
        /\ ReadTo(t, okm, DigestLen)[2].m_bufferSz = okm.m_bufferSz
        /\ ReadTo(t, okm, DigestLen)[2].m_readIndex = okm.m_readIndex
    BY <1>1, <1>2, <2>1, ReadToSizes
  <2> QED BY <1>1, <2>2, <2>3
<1>8. \E p \in Nat : okm'.m_writeIndex = p * DigestLen
  <2>1. okm'.m_writeIndex = (q + 1) * DigestLen /\ q + 1 \in Nat
    BY <1>2, <1>5, <1>7
  <2> QED BY <2>1
<1>9. WellFormed(prk') /\ prk'.m_bufferSz = prk.m_bufferSz
  <2>1. WellFormed(prk) /\ prk' = KeyRead(prk)
    BY DEF Inv, Expand
  <2>2. /\ WellFormed(resetRead(prk)) /\ resetRead(prk).m_bufferSz = prk.m_bufferSz
    BY <2>1, ResetFacts DEF resetRead, ReadAt, Buffer
  <2>3. WellFormed(ReadAt(prk, size(prk))) /\ ReadAt(prk, size(prk)).m_bufferSz = prk.m_bufferSz
    <3>1. size(prk) \in Nat /\ size(prk) <= prk.m_bufferSz /\ prk.m_buffer \in Array(prk.m_bufferSz)
      BY <2>1, Fields DEF size
    <3> QED BY <2>1, <3>1, Updates DEF ReadAt, Buffer
  <2> QED BY <2>1, <2>2, <2>3 DEF KeyRead
<1>10. i' \in 0 .. (CounterMod - 1)
  <2>1. i' = (i + 1) % CounterMod /\ i + 1 \in Nat
    BY Widths DEF Expand, Increment, Inv
  <2> QED BY <2>1, Widths
<1>11. result' = result /\ len' = len /\ result = NoResult
  BY DEF Expand
<1> QED
  BY <1>1, <1>4, <1>7, <1>8, <1>9, <1>10, <1>11 DEF Inv, length

\* The call returns as many bytes as were asked for.
LEMMA FinishStep ==
    ASSUME Inv, Finish
    PROVE  Inv' /\ result' # NoResult
<1>1. /\ WellFormed(okm) /\ okm.m_readIndex = 0
      /\ len \in Nat /\ len <= okm.m_writeIndex /\ len <= MaxSize
      /\ okm.m_writeIndex \in Nat /\ okm.m_writeIndex <= okm.m_bufferSz
      /\ okm.m_bufferSz \in Nat
  BY Fields, Widths DEF Inv, Finish, length
<1>2. okm.m_readIndex + len <= okm.m_bufferSz
  BY <1>1
<1>3. readBytes(okm, len) = Result(ReadAt(okm, okm.m_readIndex + len), TRUE,
                                   Peek(okm.m_buffer, okm.m_readIndex, len))
  BY <1>1, <1>2, ReadFacts
<1>4. result' \in Seq(Byte) /\ Len(result') = len
  BY <1>1, <1>2, <1>3, PeekBuffer DEF Finish, Result
<1>5. result' \in [1 .. len -> Byte]
  BY <1>1, <1>4
<1>6. result' # NoResult
  <2>1. NoResult \notin Seq(Byte)
    <3>1. NoResult[1] = -1 /\ Len(NoResult) = 1
      BY DEF NoResult
    <3>2. -1 \notin Byte
      BY ByteFacts DEF Byte
    <3> QED BY <3>1, <3>2
  <2> QED BY <1>4, <2>1
<1>7. /\ WellFormed(okm') /\ okm'.m_bufferSz = okm.m_bufferSz
      /\ okm'.m_writeIndex = okm.m_writeIndex
  <2>1. WellFormed(readBytes(okm, len).self)
    BY <1>1, ReadFacts DEF Honest
  <2> QED BY <1>3, <2>1 DEF Finish, Result, ReadAt, Buffer
<1>8. UNCHANGED <<prk, info, len, temp, i>>
  BY DEF Finish
<1> QED
  BY <1>5, <1>6, <1>7, <1>8 DEF Inv

-----------------------------------------------------------------------------
(* What has been written to a buffer.                                       *)

Written(b) == Peek(b.m_buffer, 0, b.m_writeIndex)

\* Storing bytes behind a prefix of an array appends them to the prefix and
\* leaves the rest alone.
LEMMA PokeAppends ==
    ASSUME NEW sz \in Nat, NEW arr \in Array(sz), NEW w \in Nat,
           NEW data \in Seq(Byte), w + Len(data) <= sz
    PROVE  Peek(Poke(arr, w, data), 0, w + Len(data)) = Peek(arr, 0, w) \o data
<1> DEFINE n == Len(data)   new == Poke(arr, w, data)   old == Peek(arr, 0, w)
           got == Peek(new, 0, w + n)
<1>1. n \in Nat
  OBVIOUS
<1>2. new \in Array(sz)
  BY PokeFacts
<1>3. \A j \in 0 .. (sz - 1) :
        new[j] = IF j \in w .. (w + n - 1) THEN data[j - w + 1] ELSE arr[j]
  BY DEF Poke, Array
<1> HIDE DEF new
<1>4. old \in Seq(Byte) /\ Len(old) = w /\ \A j \in 1 .. w : old[j] = arr[j - 1]
  <2>1. 0 \in Nat /\ 0 + w <= sz
    BY <1>1
  <2>2. \A j \in 1 .. w : 0 + j - 1 = j - 1
    OBVIOUS
  <2> QED BY <2>1, <2>2, PeekFacts
<1>5. got \in Seq(Byte) /\ Len(got) = w + n /\ \A j \in 1 .. (w + n) : got[j] = new[j - 1]
  <2>1. PICK m \in Nat : m = w + n /\ 0 + m <= sz
    BY <1>1
  <2>2. Peek(new, 0, m) \in Seq(Byte) /\ Len(Peek(new, 0, m)) = m
        /\ \A j \in 1 .. m : Peek(new, 0, m)[j] = new[0 + j - 1]
    BY <1>2, <2>1, PeekFacts
  <2>3. \A j \in 1 .. m : 0 + j - 1 = j - 1
    OBVIOUS
  <2>4. got = Peek(new, 0, m)
    BY <2>1
  <2> HIDE DEF got, n
  <2> QED BY <2>1, <2>2, <2>3, <2>4
<1> HIDE DEF old, got
<1>6. old \o data \in Seq(Byte) /\ Len(old \o data) = w + n
  BY <1>4, ConcatProperties
<1>7. ASSUME NEW j \in 1 .. (w + n) PROVE got[j] = (old \o data)[j]
  <2>1. j - 1 \in 0 .. (sz - 1) /\ j \in Nat
    BY <1>1
  <2>2. CASE j <= w
    <3>1. j \in 1 .. w /\ j - 1 \notin w .. (w + n - 1)
      BY <1>1, <2>1, <2>2
    <3>2. got[j] = arr[j - 1]
      BY <1>3, <1>5, <2>1, <3>1
    <3>3. (old \o data)[j] = old[j]
      BY <1>4, <3>1
    <3> QED BY <1>4, <3>1, <3>2, <3>3
  <2>3. CASE ~(j <= w)
    <3>1. j - 1 \in w .. (w + n - 1) /\ j - 1 - w + 1 = j - w
      BY <1>1, <2>1, <2>3
    <3>2. got[j] = data[j - w]
      BY <1>3, <1>5, <2>1, <3>1
    <3>3. (old \o data)[j] = data[j - w]
      BY <1>4, <1>1, <2>3
    <3> QED BY <3>2, <3>3
  <2> QED BY <2>2, <2>3
<1>8. got = old \o data
  BY <1>1, <1>5, <1>6, <1>7, SeqEqual
<1> QED
  BY <1>8 DEF got, new, old, n

\* Storing bytes elsewhere leaves what is read alone.
LEMMA PokeElsewhere ==
    ASSUME NEW sz \in Nat, NEW arr \in Array(sz), NEW w \in Nat, NEW data \in Seq(Byte),
           NEW from \in Nat, NEW n \in Nat, from + n <= sz,
           from + n <= w \/ w + Len(data) <= from
    PROVE  Peek(Poke(arr, w, data), from, n) = Peek(arr, from, n)
<1>1. Len(data) \in Nat
  OBVIOUS
<1>2. ASSUME NEW j \in 1 .. n PROVE Poke(arr, w, data)[from + j - 1] = arr[from + j - 1]
  <2>1. from + j - 1 \in 0 .. (sz - 1) /\ from + j - 1 \notin w .. (w + Len(data) - 1)
    BY <1>1
  <2> QED BY <2>1 DEF Poke, Array
<1> QED
  BY <1>2 DEF Peek

\* What has been stored can be read.
LEMMA PokePeek ==
    ASSUME NEW sz \in Nat, NEW arr \in Array(sz), NEW w \in Nat, NEW data \in Seq(Byte),
           w + Len(data) <= sz
    PROVE  Peek(Poke(arr, w, data), w, Len(data)) = data
<1>1. Len(data) \in Nat
  OBVIOUS
<1>2. ASSUME NEW j \in 1 .. Len(data) PROVE Poke(arr, w, data)[w + j - 1] = data[j]
  <2>1. /\ w + j - 1 \in 0 .. (sz - 1) /\ w + j - 1 \in w .. (w + Len(data) - 1)
        /\ w + j - 1 - w + 1 = j
    BY <1>1
  <2> QED BY <2>1 DEF Poke, Array
<1>3. Peek(Poke(arr, w, data), w, Len(data)) = [j \in 1 .. Len(data) |-> data[j]]
  BY <1>2 DEF Peek
<1> QED
  BY <1>3

\* A write that fits appends to what has been written.
LEMMA WriteAppends ==
    ASSUME NEW b, WellFormed(b), NEW data \in Seq(Byte),
           b.m_writeIndex + Len(data) <= b.m_bufferSz
    PROVE  /\ WellFormed(writeArray(b, data).self)
           /\ writeArray(b, data).self.m_bufferSz = b.m_bufferSz
           /\ writeArray(b, data).self.m_buffer = Poke(b.m_buffer, b.m_writeIndex, data)
           /\ writeArray(b, data).self.m_readIndex = b.m_readIndex
           /\ writeArray(b, data).self.m_writeIndex = b.m_writeIndex + Len(data)
           /\ Written(writeArray(b, data).self) = Written(b) \o data
<1>1. /\ b.m_bufferSz \in Nat /\ b.m_bufferSz <= MaxSize /\ MaxSize \in Nat
      /\ b.m_buffer \in Array(b.m_bufferSz)
      /\ b.m_writeIndex \in Nat /\ Len(data) \in Nat
  BY Fields
<1>2. WellFormed(writeArray(b, data).self)
  BY WriteFacts DEF Honest
<1>3. writeArray(b, data).self =
        Buffer(b.m_bufferSz, Poke(b.m_buffer, b.m_writeIndex, data),
               b.m_readIndex, b.m_writeIndex + Len(data))
  <2>1. Len(data) <= MaxSize
    BY <1>1
  <2> QED BY <2>1, WriteEffect
<1>4. Peek(Poke(b.m_buffer, b.m_writeIndex, data), 0, b.m_writeIndex + Len(data))
        = Peek(b.m_buffer, 0, b.m_writeIndex) \o data
  <2> DEFINE sz == b.m_bufferSz   arr == b.m_buffer   w == b.m_writeIndex
  <2>1. sz \in Nat /\ arr \in Array(sz) /\ w \in Nat /\ w + Len(data) <= sz
    BY <1>1
  <2> HIDE DEF sz, arr, w
  <2>2. Peek(Poke(arr, w, data), 0, w + Len(data)) = Peek(arr, 0, w) \o data
    BY <2>1, PokeAppends
  <2> QED BY <2>2 DEF sz, arr, w
<1> QED
  BY <1>2, <1>3, <1>4 DEF Buffer, Written

\* Nothing has been written to a new buffer.
LEMMA NothingWritten ==
    ASSUME NEW n \in Nat, n <= MaxSize
    PROVE  /\ WellFormed(NewBuffer(n)) /\ NewBuffer(n).m_bufferSz = n
           /\ NewBuffer(n).m_readIndex = 0 /\ NewBuffer(n).m_writeIndex = 0
           /\ NewBuffer(n).m_buffer = Zeros(n)
           /\ Written(NewBuffer(n)) = <<>>
<1>1. Peek(Zeros(n), 0, 0) = <<>>
  BY DEF Peek
<1> QED
  BY <1>1, NewBufferFacts DEF NewBuffer, Buffer, Written

\* A buffer made from bytes holds them.
LEMMA FullHolds ==
    ASSUME NEW data \in Seq(Byte), Len(data) <= MaxSize
    PROVE  Bytes(Full(data)) = data
<1> DEFINE new == NewBuffer(Len(data))
<1>1. Len(data) \in Nat
  OBVIOUS
<1>2. /\ WellFormed(new) /\ new.m_bufferSz = Len(data) /\ new.m_writeIndex = 0
      /\ Written(new) = <<>>
  BY <1>1, NothingWritten
<1> HIDE DEF new
<1>3. /\ writeArray(new, data).self.m_bufferSz = Len(data)
      /\ writeArray(new, data).self.m_writeIndex = Len(data)
      /\ Written(writeArray(new, data).self) = <<>> \o data
  BY <1>1, <1>2, WriteAppends
<1> QED
  BY <1>3 DEF Full, Bytes, Written, new

-----------------------------------------------------------------------------
(* Padding and FIPS 180-4.                                                  *)

\* The last block of n bytes of data has room for the mark and the length.
HasRoom(n) == (n % BlockLen) + 1 + LengthLen <= BlockLen

\* The number of zeros that fill up a block exists, and there is only one.
LEMMA ZerosExist ==
    ASSUME NEW n \in Nat
    PROVE  /\ \E z \in 0 .. (BlockLen - 1) : (n + 1 + z + LengthLen) % BlockLen = 0
           /\ HasRoom(n) =>
                \A z \in 0 .. (BlockLen - 1) : (n + 1 + z + LengthLen) % BlockLen = 0
                   => z = BlockLen - (n % BlockLen) - 1 - LengthLen
<1>1. BlockLen \in Nat /\ BlockLen > 0 /\ LengthLen \in Nat
  BY Widths
<1>2. PICK q, r \in Nat : n = q * BlockLen + r /\ r < BlockLen /\ r = n % BlockLen
  <2>1. /\ n \div BlockLen \in Nat /\ n % BlockLen \in Nat /\ n % BlockLen < BlockLen
        /\ n = (n \div BlockLen) * BlockLen + (n % BlockLen)
    BY <1>1
  <2> QED BY <2>1
<1>3. ASSUME NEW z \in 0 .. (BlockLen - 1), (n + 1 + z + LengthLen) % BlockLen = 0, HasRoom(n)
      PROVE  z = BlockLen - (n % BlockLen) - 1 - LengthLen
  <2>1. r + 1 + LengthLen <= BlockLen
    BY <1>2, <1>3 DEF HasRoom
  <2>2. PICK k \in Nat : k = (n + 1 + z + LengthLen) \div BlockLen
    BY <1>1
  <2>3. n + 1 + z + LengthLen = k * BlockLen
    BY <1>1, <1>3, <2>2
  <2>4. r + 1 + z + LengthLen = k * BlockLen - q * BlockLen
    BY <1>1, <1>2, <2>3
  <2>5. k * BlockLen - q * BlockLen = (k - q) * BlockLen
    BY <1>1
  <2>6. PICK d \in Int : d = k - q
    OBVIOUS
  <2>7. r + 1 + z + LengthLen = d * BlockLen
    BY <2>4, <2>5, <2>6
  <2>8. d = 1
    <3>1. r + 1 + z + LengthLen > 0 /\ r + 1 + z + LengthLen < 2 * BlockLen
      BY <1>1, <2>1
    <3>2. d > 0
      <4> SUFFICES ASSUME d <= 0 PROVE FALSE
        OBVIOUS
      <4>1. (0 - d) * BlockLen >= 0
        BY <1>1
      <4>2. (0 - d) * BlockLen = 0 - (d * BlockLen)
        BY <1>1
      <4> QED BY <1>1, <2>7, <3>1, <4>1, <4>2
    <3>3. d < 2
      <4> SUFFICES ASSUME d >= 2 PROVE FALSE
        OBVIOUS
      <4>1. (d - 2) * BlockLen >= 0
        BY <1>1
      <4>2. (d - 2) * BlockLen = d * BlockLen - 2 * BlockLen
        BY <1>1
      <4> QED BY <1>1, <2>7, <3>1, <4>1, <4>2
    <3> QED BY <3>2, <3>3
  <2>9. r + 1 + z + LengthLen = BlockLen
    BY <1>1, <2>7, <2>8
  <2> QED BY <1>1, <1>2, <2>9
<1>4. \E z \in 0 .. (BlockLen - 1) : (n + 1 + z + LengthLen) % BlockLen = 0
  <2> DEFINE m == n + 1 + LengthLen
  <2>1. PICK k, s \in Nat : m = k * BlockLen + s /\ s < BlockLen
    <3>1. m \in Nat
      BY <1>1
    <3> HIDE DEF m
    <3>2. /\ m \div BlockLen \in Nat /\ m % BlockLen \in Nat /\ m % BlockLen < BlockLen
          /\ m = (m \div BlockLen) * BlockLen + (m % BlockLen)
      BY <1>1, <3>1
    <3> QED BY <3>2
  <2>2. m \in Nat
    BY <1>1
  <2>3. ASSUME NEW p \in Nat, NEW j \in Nat, p = j * BlockLen PROVE p % BlockLen = 0
    <3>2. PICK q2, r2 \in Nat : p = q2 * BlockLen + r2 /\ r2 < BlockLen /\ r2 = p % BlockLen
      <4>1. /\ p \div BlockLen \in Nat /\ p % BlockLen \in Nat /\ p % BlockLen < BlockLen
            /\ p = (p \div BlockLen) * BlockLen + (p % BlockLen)
        BY <1>1
      <4> QED BY <4>1
    <3>3. PICK d \in Int : d = j - q2
      OBVIOUS
    <3>4. d * BlockLen = r2
      <4>1. d * BlockLen = j * BlockLen - q2 * BlockLen
        BY <1>1, <3>3
      <4>2. q2 * BlockLen \in Int
        BY <1>1
      <4> QED BY <2>3, <3>2, <4>1, <4>2
    <3>5. d = 0
      <4>1. d >= 0
        <5> SUFFICES ASSUME d < 0 PROVE FALSE
          OBVIOUS
        <5>1. (0 - d) * BlockLen > 0 /\ (0 - d) * BlockLen = 0 - (d * BlockLen)
          BY <1>1
        <5> QED BY <3>2, <3>4, <5>1
      <4>2. d < 1
        <5> SUFFICES ASSUME d >= 1 PROVE FALSE
          OBVIOUS
        <5>1. (d - 1) * BlockLen >= 0 /\ (d - 1) * BlockLen = d * BlockLen - BlockLen
          BY <1>1
        <5> QED BY <1>1, <3>2, <3>4, <5>1
      <4> QED BY <4>1, <4>2
    <3>6. r2 = 0
      BY <1>1, <3>4, <3>5
    <3> QED BY <3>2, <3>6
  <2>4. CASE s = 0
    <3>1. n + 1 + 0 + LengthLen = k * BlockLen
      BY <1>1, <2>1, <2>4
    <3>2. n + 1 + 0 + LengthLen \in Nat
      BY <1>1
    <3>3. (n + 1 + 0 + LengthLen) % BlockLen = 0
      BY <2>3, <3>1, <3>2
    <3>4. 0 \in 0 .. (BlockLen - 1)
      BY <1>1
    <3> QED BY <3>3, <3>4
  <2>5. CASE s # 0
    <3>1. n + 1 + (BlockLen - s) + LengthLen = (k + 1) * BlockLen
      <4>1. (k + 1) * BlockLen = k * BlockLen + BlockLen
        BY <1>1
      <4>2. n + 1 + (BlockLen - s) + LengthLen = m + BlockLen - s
        BY <1>1, <2>1
      <4> HIDE DEF m
      <4>3. PICK p \in Nat : p = k * BlockLen
        BY <1>1
      <4> QED BY <1>1, <2>1, <2>2, <4>1, <4>2, <4>3
    <3>2. BlockLen - s \in 0 .. (BlockLen - 1) /\ k + 1 \in Nat
      BY <1>1, <2>1, <2>5
    <3>3. n + 1 + (BlockLen - s) + LengthLen \in Nat
      BY <1>1, <2>1
    <3>4. (n + 1 + (BlockLen - s) + LengthLen) % BlockLen = 0
      BY <2>3, <3>1, <3>2, <3>3
    <3> QED BY <3>2, <3>4
  <2> QED BY <2>4, <2>5
<1> QED
  BY <1>3, <1>4

LEMMA ZerosFacts ==
    ASSUME NEW n \in Nat
    PROVE  DOMAIN Zeros(n) = 0 .. (n - 1) /\ \A j \in 0 .. (n - 1) : Zeros(n)[j] = 0
  BY DEF Zeros

LEMMA PokeOutside ==
    ASSUME NEW arr, NEW from, NEW data, NEW j \in DOMAIN arr,
           j \notin from .. (from + Len(data) - 1)
    PROVE  DOMAIN Poke(arr, from, data) = DOMAIN arr /\ Poke(arr, from, data)[j] = arr[j]
  BY DEF Poke

\* Behind the data and one more byte there are only zeros.
LEMMA FreshBeyond ==
    ASSUME NEW sz \in Nat, NEW data \in Seq(Byte), NEW b,
           NEW j \in (Len(data) + 1) .. (sz - 1)
    PROVE  Poke(Poke(Zeros(sz), 0, data), Len(data), <<b>>)[j] = 0
<1>1. DOMAIN Zeros(sz) = 0 .. (sz - 1) /\ j \in 0 .. (sz - 1) /\ Zeros(sz)[j] = 0
  BY DEF Zeros
<1> DEFINE one == Poke(Zeros(sz), 0, data)
<1>2. DOMAIN one = DOMAIN Zeros(sz) /\ one[j] = Zeros(sz)[j]
  <2>1. j \notin 0 .. (0 + Len(data) - 1)
    OBVIOUS
  <2> QED BY <1>1, <2>1, PokeOutside
<1> HIDE DEF one
<1>3. Poke(one, Len(data), <<b>>)[j] = one[j]
  <2>1. j \notin Len(data) .. (Len(data) + Len(<<b>>) - 1)
    OBVIOUS
  <2>2. j \in DOMAIN one
    BY <1>1, <1>2
  <2>3. PICK from \in Nat : from = Len(data)
    OBVIOUS
  <2>4. j \notin from .. (from + Len(<<b>>) - 1)
    BY <2>1, <2>3
  <2>5. Poke(one, from, <<b>>)[j] = one[j]
    <3> DEFINE tail == <<b>>
    <3>1. j \notin from .. (from + Len(tail) - 1)
      BY <2>4
    <3> HIDE DEF tail
    <3>2. Poke(one, from, tail)[j] = one[j]
      BY <2>2, <3>1 DEF Poke
    <3> QED BY <3>2 DEF tail
  <2> QED BY <2>3, <2>5
<1> QED
  BY <1>1, <1>2, <1>3 DEF one

LEMMA RepeatFacts ==
    ASSUME NEW n \in Nat
    PROVE  /\ Repeat(0, n) \in Seq(Byte) /\ Len(Repeat(0, n)) = n
           /\ \A k \in 1 .. n : Repeat(0, n)[k] = 0
  BY Widths DEF Repeat

\* The bytes of the length, most significant first.
LEMMA LengthField ==
    ASSUME NEW n \in Nat
    PROVE  swapEndian(LittleEndian(n)) \in Seq(Byte) /\ Len(swapEndian(LittleEndian(n))) = LengthLen
<1>1. LittleEndian(n) \in Seq(Byte) /\ Len(LittleEndian(n)) = LengthLen
  <2>1. LittleEndian(n) \in Seq(Byte)
    BY LittleEndianFacts
  <2>2. Len(LittleEndian(n)) = LengthLen
    BY Widths DEF LittleEndian
  <2> QED BY <2>1, <2>2
<1>2. swapEndian(LittleEndian(n)) \in Seq(Byte)
  BY <1>1, SwapFacts
<1>3. DOMAIN swapEndian(LittleEndian(n)) = 1 .. LengthLen
  BY <1>1 DEF swapEndian
<1> QED
  BY <1>2, <1>3, Widths

\* What FIPS 180-4 makes of a message.
LEMMA FipsFacts ==
    ASSUME NEW data \in Seq(Byte)
    PROVE  /\ FipsPadding(data) \in Seq(Byte)
           /\ HasRoom(Len(data)) =>
                FipsPadding(data) =
                  data \o <<Mark>> \o Repeat(0, BlockLen - (Len(data) % BlockLen) - 1 - LengthLen)
                       \o swapEndian(LittleEndian(8 * Len(data)))
<1> DEFINE Fills(z) == (Len(data) + 1 + z + LengthLen) % BlockLen = 0
           zeros == CHOOSE z \in 0 .. (BlockLen - 1) : Fills(z)
           len8 == swapEndian(LittleEndian(8 * Len(data)))
<1>1. Len(data) \in Nat /\ 8 * Len(data) \in Nat
  OBVIOUS
<1>2. \E z \in 0 .. (BlockLen - 1) : Fills(z)
  BY <1>1, ZerosExist
<1>3. FipsPadding(data) = data \o <<Mark>> \o Repeat(0, zeros) \o len8
  BY DEF FipsPadding
<1>4. HasRoom(Len(data)) => \A z \in 0 .. (BlockLen - 1) : Fills(z)
                               => z = BlockLen - (Len(data) % BlockLen) - 1 - LengthLen
  BY <1>1, ZerosExist
<1>5. len8 \in Seq(Byte)
  BY <1>1, LengthField
<1> HIDE DEF Fills, len8
<1>6. zeros \in 0 .. (BlockLen - 1) /\ Fills(zeros)
  BY <1>2
<1> HIDE DEF zeros
<1>7. zeros \in Nat
  BY <1>6, Widths
<1>8. FipsPadding(data) \in Seq(Byte)
  <2>1. <<Mark>> \in Seq(Byte)
    BY Widths
  <2>2. Repeat(0, zeros) \in Seq(Byte)
    BY <1>7, RepeatFacts
  <2> QED BY <1>3, <1>5, <2>1, <2>2, ConcatProperties
<1> QED
  BY <1>3, <1>4, <1>6, <1>8 DEF len8

\* In a message that leaves room for the length, padMessage does what FIPS 180-4
\* says: the write cursor is skipped over zeros that nobody wrote.
LEMMA PaddingFollowsFips ==
    ASSUME NEW data \in Seq(Byte), Len(data) + BlockLen <= MaxSize, HasRoom(Len(data))
    PROVE  padMessage(data) = FipsPadding(data)
<1> DEFINE n == Len(data)
           required == BlockLen - (Len(data) % BlockLen)
           zeros == required - 1 - LengthLen
           new == NewBuffer(Len(data) + required)
           written == writeArray(new, data).self
           marked == write(written, <<Mark>>).self
           skipped == skipWrite(marked, Sub(Sub(required, 1), LengthLen)).self
           len8 == swapEndian(LittleEndian(8 * Len(data)))
           ended == writeSwapped(skipped, LittleEndian(8 * Len(data))).self
           prefix == data \o <<Mark>> \o Repeat(0, zeros)
<1>1. /\ n \in Nat /\ required \in Nat /\ required > 0 /\ required <= BlockLen
      /\ n + required + BlockLen <= MaxSize + BlockLen
      /\ zeros \in Nat /\ zeros = required - 1 - LengthLen
  BY Widths DEF HasRoom
<1>2. padMessage(data) = Bytes(ended)
  BY DEF padMessage
<1>3. FipsPadding(data) = prefix \o len8
  BY FipsFacts
<1>4. len8 \in Seq(Byte) /\ Len(len8) = LengthLen
  <2>1. 8 * Len(data) \in Nat
    OBVIOUS
  <2> QED BY <2>1, LengthField
<1>5. ended = writeArray(skipped, len8).self
  BY DEF writeSwapped, write
<1>6. Sub(Sub(required, 1), LengthLen) = zeros
  <2>1. required < SizeMod /\ required - 1 < SizeMod /\ required - 1 \in Nat
    BY <1>1, Widths, SizeAssumption
  <2> HIDE DEF required
  <2>2. Sub(required, 1) = required - 1
    BY <1>1, <2>1, SubFacts
  <2>3. Sub(required - 1, LengthLen) = required - 1 - LengthLen
    BY <1>1, <2>1, Widths, SubFacts
  <2> QED BY <2>2, <2>3
<1>7. skipped = skipWrite(marked, zeros).self
  BY <1>6
<1>8. n + required <= MaxSize
  BY <1>1, Widths
<1> HIDE DEF required, zeros, len8, ended, skipped
<1>9. /\ WellFormed(new) /\ new.m_bufferSz = n + required
      /\ new.m_writeIndex = 0 /\ new.m_buffer = Zeros(n + required) /\ Written(new) = <<>>
  BY <1>1, <1>8, NothingWritten
<1> HIDE DEF new
<1>10. /\ WellFormed(written) /\ written.m_bufferSz = n + required
       /\ written.m_buffer = Poke(new.m_buffer, 0, data)
       /\ written.m_writeIndex = n /\ Written(written) = data
  <2>1. /\ WellFormed(written) /\ written.m_bufferSz = n + required
        /\ written.m_buffer = Poke(new.m_buffer, 0, data)
        /\ written.m_writeIndex = 0 + n /\ Written(written) = <<>> \o data
    <3>1. new.m_writeIndex + Len(data) <= new.m_bufferSz /\ n = Len(data)
      BY <1>1, <1>9
    <3> HIDE DEF n, written
    <3>2. /\ WellFormed(writeArray(new, data).self)
          /\ writeArray(new, data).self.m_bufferSz = new.m_bufferSz
          /\ writeArray(new, data).self.m_buffer = Poke(new.m_buffer, new.m_writeIndex, data)
          /\ writeArray(new, data).self.m_writeIndex = new.m_writeIndex + Len(data)
          /\ Written(writeArray(new, data).self) = Written(new) \o data
      BY <1>9, <3>1, WriteAppends
    <3> QED BY <1>9, <3>1, <3>2 DEF written
  <2>2. 0 + n = n /\ <<>> \o data = data
    BY <1>1
  <2> QED BY <2>1, <2>2
<1> HIDE DEF written, n
<1>11. /\ WellFormed(marked) /\ marked.m_bufferSz = n + required
       /\ marked.m_buffer = Poke(written.m_buffer, n, <<Mark>>)
       /\ marked.m_writeIndex = n + 1 /\ Written(marked) = data \o <<Mark>>
  <2>1. <<Mark>> \in Seq(Byte) /\ Len(<<Mark>>) = 1
    BY Widths
  <2>2. marked = writeArray(written, <<Mark>>).self
    BY DEF write
  <2>3. written.m_writeIndex + 1 <= written.m_bufferSz
    BY <1>1, <1>10
  <2> HIDE DEF marked
  <2> QED BY <1>10, <2>1, <2>2, <2>3, WriteAppends
<1> HIDE DEF marked
<1>12. skipped = WriteAt(marked, n + 1 + zeros) /\ n + 1 + zeros <= n + required
       /\ n + 1 + zeros + LengthLen = n + required
  <2>1. n + 1 + zeros <= n + required /\ n + 1 + zeros + LengthLen = n + required
    BY <1>1, Widths
  <2>2. Add(marked.m_writeIndex, zeros) = n + 1 + zeros
    <3>1. n + 1 \in Nat /\ n + 1 + zeros < SizeMod
      BY <1>1, <1>8, <2>1, SizeAssumption
    <3>2. Add(n + 1, zeros) = n + 1 + zeros
      BY <1>1, <3>1, AddFacts
    <3> QED BY <1>11, <3>2
  <2> QED BY <1>7, <1>11, <2>1, <2>2 DEF skipWrite, Fits, Result
<1>13. /\ WellFormed(skipped) /\ skipped.m_bufferSz = n + required
       /\ skipped.m_writeIndex = n + 1 + zeros /\ skipped.m_buffer = marked.m_buffer
  <2>1. n + 1 + zeros \in Nat /\ n + 1 + zeros <= marked.m_bufferSz
        /\ marked.m_buffer \in Array(marked.m_bufferSz)
    BY <1>1, <1>11, <1>12, Fields
  <2>2. WellFormed(WriteAt(marked, n + 1 + zeros))
    BY <1>11, <2>1, Updates
  <2> QED BY <1>11, <1>12, <2>2 DEF WriteAt, Buffer
<1>14. Written(skipped) = prefix
  <2> DEFINE arr == skipped.m_buffer   w == n + 1   m == n + 1 + zeros
  <2>0. Repeat(0, zeros) \in Seq(Byte) /\ Len(Repeat(0, zeros)) = zeros
        /\ \A k \in 1 .. zeros : Repeat(0, zeros)[k] = 0
    BY <1>1, RepeatFacts
  <2>1. <<Mark>> \in Seq(Byte) /\ Len(<<Mark>>) = 1 /\ n = Len(data)
    BY Widths DEF n
  <2>2. data \o <<Mark>> \in Seq(Byte) /\ Len(data \o <<Mark>>) = w
    BY <2>1, ConcatProperties
  <2>3. prefix \in Seq(Byte) /\ Len(prefix) = m
    <3> DEFINE dm == data \o <<Mark>>   rep == Repeat(0, zeros)
    <3>1. dm \in Seq(Byte) /\ rep \in Seq(Byte) /\ Len(dm) = w /\ Len(rep) = zeros
          /\ prefix = dm \o rep
      BY <2>0, <2>2
    <3> HIDE DEF dm, rep, prefix
    <3>2. dm \o rep \in Seq(Byte) /\ Len(dm \o rep) = Len(dm) + Len(rep)
      BY <3>1, ConcatProperties
    <3> QED BY <3>1, <3>2
  <2>4. \A j \in 1 .. m : prefix[j] = IF j <= w THEN (data \o <<Mark>>)[j] ELSE 0
    <3> DEFINE dm == data \o <<Mark>>   rep == Repeat(0, zeros)
    <3>1. dm \in Seq(Byte) /\ rep \in Seq(Byte) /\ Len(dm) = w /\ Len(rep) = zeros
          /\ prefix = dm \o rep /\ \A k \in 1 .. zeros : rep[k] = 0
      BY <2>0, <2>2
    <3> HIDE DEF dm, rep, prefix
    <3>2. \A j \in 1 .. Len(dm) + Len(rep) :
             (dm \o rep)[j] = IF j <= Len(dm) THEN dm[j] ELSE rep[j - Len(dm)]
      BY <3>1, ConcatProperties
    <3>3. ASSUME NEW j \in 1 .. m PROVE prefix[j] = IF j <= w THEN dm[j] ELSE 0
      <4>1. j \in 1 .. Len(dm) + Len(rep)
        BY <3>1
      <4>2. ~(j <= w) => j - w \in 1 .. zeros
        BY <1>1
      <4> QED BY <3>1, <3>2, <4>1, <4>2
    <3> QED BY <3>3 DEF dm
  <2>5. /\ arr \in Array(n + required) /\ m \in Nat /\ m <= n + required /\ w \in Nat /\ w <= m
        /\ n \in Nat /\ required \in Nat
    BY <1>1, <1>12, <1>13, Fields
  <2>6. Written(skipped) = Peek(arr, 0, m)
    BY <1>13 DEF Written
  <2>7. Peek(arr, 0, w) = data \o <<Mark>>
    BY <1>11, <1>13 DEF Written
  <2>8. \A j \in w .. (m - 1) : arr[j] = 0
    <3>1. arr = Poke(Poke(Zeros(n + required), 0, data), n, <<Mark>>)
      BY <1>9, <1>10, <1>11, <1>13
    <3>2. PICK t \in Nat : t = n + required
      BY <2>5
    <3>3. arr = Poke(Poke(Zeros(t), 0, data), Len(data), <<Mark>>)
      BY <2>1, <3>1, <3>2
    <3>4. \A j \in w .. (m - 1) : j \in (Len(data) + 1) .. (t - 1)
      BY <2>1, <2>5, <3>2
    <3> HIDE DEF arr, w, m
    <3> QED BY <3>3, <3>4, FreshBeyond
  <2> HIDE DEF arr, m, w, prefix
  <2>9. Peek(arr, 0, m) \in Seq(Byte) /\ Len(Peek(arr, 0, m)) = m
    <3>1. n + required \in Nat /\ 0 + m <= n + required
      BY <2>5
    <3> QED BY <2>5, <3>1, PeekFacts
  <2>10. ASSUME NEW j \in 1 .. m PROVE Peek(arr, 0, m)[j] = prefix[j]
    <3>1. Peek(arr, 0, m)[j] = arr[j - 1]
      <4>1. 0 + j - 1 = j - 1
        OBVIOUS
      <4> QED BY <4>1 DEF Peek
    <3>2. CASE j <= w
      <4>1. j \in 1 .. w /\ 0 + j - 1 = j - 1
        BY <2>5, <3>2
      <4>2. Peek(arr, 0, w)[j] = arr[j - 1]
        BY <4>1 DEF Peek
      <4> QED BY <2>4, <2>7, <3>1, <3>2, <4>2
    <3>3. CASE ~(j <= w)
      <4>1. j - 1 \in w .. (m - 1)
        BY <2>5, <3>3
      <4> QED BY <2>4, <2>8, <3>1, <3>3, <4>1
    <3> QED BY <3>2, <3>3
  <2>11. Peek(arr, 0, m) = prefix
    BY <2>3, <2>9, <2>10, SeqEqual
  <2> QED BY <2>6, <2>11
<1> HIDE DEF prefix
<1>15. /\ ended.m_bufferSz = n + required
       /\ ended.m_writeIndex = n + 1 + zeros + LengthLen
       /\ Written(ended) = prefix \o len8
  <2>1. skipped.m_writeIndex + Len(len8) <= skipped.m_bufferSz
    BY <1>1, <1>4, <1>12, <1>13, Widths
  <2> QED BY <1>4, <1>5, <1>13, <1>14, <2>1, WriteAppends
<1> QED
  BY <1>2, <1>3, <1>12, <1>15 DEF Written, Bytes

\* The hash of a message that leaves room for the length.
LEMMA HashFollowsFips ==
    ASSUME CompressFact, NEW data \in Seq(Byte), Len(data) + BlockLen <= MaxSize,
           HasRoom(Len(data))
    PROVE  encode256(data) = FipsHash(data) /\ encode256(data) \in Digest
  BY PaddingFollowsFips, HashFacts DEF encode256, FipsHash

LEMMA FipsHashFacts ==
    ASSUME CompressFact, NEW data \in Seq(Byte)
    PROVE  FipsHash(data) \in Digest
  BY FipsFacts, ChainFacts DEF FipsHash

-----------------------------------------------------------------------------
(* HMAC and RFC 2104.                                                       *)

\* A key and a mask as long as a block.
LEMMA ZeroFilledFacts ==
    ASSUME NEW key \in Seq(Byte), Len(key) <= BlockLen
    PROVE  ZeroFilled(key) \in Seq(Byte) /\ Len(ZeroFilled(key)) = BlockLen
<1>1. PICK n \in Nat : n = BlockLen - Len(key)
  BY Widths
<1>2. Repeat(0, n) \in Seq(Byte) /\ Len(Repeat(0, n)) = n
  BY RepeatFacts
<1>3. ZeroFilled(key) = key \o Repeat(0, n)
  BY <1>1 DEF ZeroFilled
<1>4. PICK zs \in Seq(Byte) : zs = Repeat(0, n) /\ Len(zs) = n
  BY <1>2
<1>5. key \o zs \in Seq(Byte) /\ Len(key \o zs) = Len(key) + Len(zs)
  BY ConcatProperties
<1> QED
  BY <1>1, <1>3, <1>4, <1>5, Widths

LEMMA MaskedFacts ==
    ASSUME NEW pad \in [Byte -> Byte], NEW key \in Seq(Byte)
    PROVE  Masked(pad, key) \in Seq(Byte) /\ Len(Masked(pad, key)) = Len(key)
<1>1. \A k \in 1 .. Len(key) : pad[key[k]] \in Byte
  OBVIOUS
<1> QED
  BY <1>1 DEF Masked

\* The HMAC of any text is a digest.
LEMMA RfcHmacFacts ==
    ASSUME CompressFact, NEW key \in Seq(Byte), NEW text \in Seq(Byte)
    PROVE  RfcHmac(key, text) \in Digest
<1> DEFINE short == IF Len(key) > BlockLen THEN FipsHash(key) ELSE key
           K == ZeroFilled(short)
           innerText == Masked(IPad, K) \o text
           inner == FipsHash(innerText)
           outerText == Masked(OPad, K) \o inner
<1>1. IPad \in [Byte -> Byte] /\ OPad \in [Byte -> Byte]
  BY ShaAssumption
<1>2. RfcHmac(key, text) = FipsHash(outerText)
  BY DEF RfcHmac
<1>3. short \in Seq(Byte) /\ Len(short) <= BlockLen
  BY FipsHashFacts, DigestIsText, Widths
<1> HIDE DEF short
<1>4. K \in Seq(Byte)
  BY <1>3, ZeroFilledFacts
<1> HIDE DEF K
<1>5. Masked(IPad, K) \in Seq(Byte) /\ Masked(OPad, K) \in Seq(Byte)
  BY <1>1, <1>4, MaskedFacts
<1>6. innerText \in Seq(Byte)
  BY <1>5, ConcatProperties
<1> HIDE DEF innerText
<1>7. inner \in Seq(Byte)
  BY <1>6, FipsHashFacts, DigestIsText
<1> HIDE DEF inner
<1>8. outerText \in Seq(Byte)
  BY <1>5, <1>7, ConcatProperties
<1> HIDE DEF outerText
<1> QED
  BY <1>2, <1>8, FipsHashFacts

\* hmac256 is HMAC if every message it hashes leaves room for the length.
LEMMA HmacFollowsRfc ==
    ASSUME CompressFact, NEW key \in Seq(Byte), NEW data \in Seq(Byte),
           Len(key) + BlockLen <= MaxSize, Len(data) + 2 * BlockLen <= MaxSize,
           Len(key) > BlockLen => HasRoom(Len(key)),
           HasRoom(BlockLen + Len(data)), HasRoom(BlockLen + DigestLen)
    PROVE  hmac256(key, data) = RfcHmac(key, data)
<1> DEFINE short == IF Len(key) > BlockLen THEN encode256(key) ELSE key
           paddedKey == ZeroFilled(short)
           innerText == Masked(IPad, paddedKey) \o data
           inner == encode256(innerText)
           outerText == Masked(OPad, paddedKey) \o inner
<1>1. IPad \in [Byte -> Byte] /\ OPad \in [Byte -> Byte]
  BY ShaAssumption
<1>2. short = IF Len(key) > BlockLen THEN FipsHash(key) ELSE key
  BY HashFollowsFips
<1>3. short \in Seq(Byte) /\ Len(short) <= BlockLen
  BY HashFacts, DigestIsText, Widths
<1>4. hmac256(key, data) = encode256(outerText)
  BY DEF hmac256
<1>5. RfcHmac(key, data) = FipsHash(Masked(OPad, paddedKey) \o FipsHash(innerText))
  <2> HIDE DEF short
  <2> QED BY <1>2 DEF RfcHmac
<1> HIDE DEF short
<1>6. paddedKey \in Seq(Byte) /\ Len(paddedKey) = BlockLen
  BY <1>3, ZeroFilledFacts
<1> HIDE DEF paddedKey
<1>7. /\ Masked(IPad, paddedKey) \in Seq(Byte) /\ Len(Masked(IPad, paddedKey)) = BlockLen
      /\ Masked(OPad, paddedKey) \in Seq(Byte) /\ Len(Masked(OPad, paddedKey)) = BlockLen
  BY <1>1, <1>6, MaskedFacts
<1>8. innerText \in Seq(Byte) /\ Len(innerText) = BlockLen + Len(data)
  BY <1>7, ConcatProperties
<1>9. Len(innerText) + BlockLen <= MaxSize /\ HasRoom(Len(innerText))
  <2>1. BlockLen + Len(data) + BlockLen <= MaxSize
    BY Widths
  <2> QED BY <1>8, <2>1
<1> HIDE DEF innerText
<1>10. inner = FipsHash(innerText) /\ inner \in Seq(Byte) /\ Len(inner) = DigestLen
  BY <1>8, <1>9, HashFollowsFips, DigestIsText
<1> HIDE DEF inner
<1>11. outerText \in Seq(Byte) /\ Len(outerText) = BlockLen + DigestLen
  BY <1>7, <1>10, ConcatProperties
<1>12. outerText = Masked(OPad, paddedKey) \o FipsHash(innerText)
  BY <1>10
<1> HIDE DEF outerText
<1>13. Len(outerText) + BlockLen <= MaxSize /\ HasRoom(Len(outerText))
  BY <1>11, Widths
<1>14. encode256(outerText) = FipsHash(outerText)
  BY <1>11, <1>13, HashFollowsFips
<1> QED
  BY <1>4, <1>5, <1>12, <1>14

-----------------------------------------------------------------------------
(* The blocks of RFC 5869.                                                  *)

\* RfcBlock of a given key and info.
BlockOf(key, f, n) ==
    LET T[k \in 0 .. n] ==
          IF k = 0 THEN <<>> ELSE RfcHmac(key, T[k - 1] \o f \o <<k>>)
    IN  T[n]

\* Two functions that take the same steps are equal as far as both go.
LEMMA StepwiseUnique ==
    ASSUME NEW N \in Nat, NEW f, NEW g, f[0] = g[0],
           \A k \in 1 .. N : f[k - 1] = g[k - 1] => f[k] = g[k]
    PROVE  f[N] = g[N]
<1> DEFINE h == [k \in 0 .. N |-> IF f[k] = g[k] THEN 1 ELSE 0]
<1>1. h[0] \in {1}
  OBVIOUS
<1>2. ASSUME NEW k \in 1 .. N, h[k - 1] \in {1} PROVE h[k] \in {1}
  <2>1. k - 1 \in 0 .. N /\ k \in 0 .. N
    OBVIOUS
  <2>2. f[k - 1] = g[k - 1]
    BY <1>2, <2>1
  <2> QED BY <2>1, <2>2
<1> HIDE DEF h
<1>3. \A k \in 0 .. N : h[k] \in {1}
  BY <1>1, <1>2, PassedOn
<1>4. N \in 0 .. N
  OBVIOUS
<1> QED
  BY <1>3, <1>4 DEF h

\* The recursion of RFC 5869 has a solution, for as many blocks as a byte can
\* number.
LEMMA BlocksExist ==
    ASSUME CompressFact, NEW key \in Seq(Byte), NEW f \in Seq(Byte),
           NEW n \in 0 .. (CounterMod - 1)
    PROVE  \E T \in [0 .. n -> Seq(Byte)] :
              /\ T = [k \in 0 .. n |-> IF k = 0 THEN <<>>
                                       ELSE RfcHmac(key, T[k - 1] \o f \o <<k>>)]
              /\ BlockOf(key, f, n) = T[n]
<1> DEFINE Texts == Seq(Byte)
           Eq(T) == T = [k \in 0 .. n |-> IF k = 0 THEN <<>>
                                          ELSE RfcHmac(key, T[k - 1] \o f \o <<k>>)]
           step == [k \in 1 .. n |-> [t \in Texts |-> RfcHmac(key, t \o f \o <<k>>)]]
           T == CHOOSE T : Eq(T)
<1>1. n \in Nat /\ n <= CounterMod - 1
  BY Widths
<1>2. ASSUME NEW t \in Seq(Byte), NEW k \in 1 .. n
      PROVE  RfcHmac(key, t \o f \o <<k>>) \in Seq(Byte)
  <2>1. k \in Byte
    BY <1>1, Widths
  <2>2. <<k>> \in Seq(Byte) /\ t \o f \in Seq(Byte)
    BY <2>1, ConcatProperties
  <2>3. t \o f \o <<k>> \in Seq(Byte)
    BY <2>2, ConcatProperties
  <2> QED BY <2>3, RfcHmacFacts, DigestIsText
<1>3. BlockOf(key, f, n) = T[n]
  BY DEF BlockOf
<1>4. \E S \in [0 .. n -> Texts] : Eq(S)
  <2>1. <<>> \in Texts /\ step \in [1 .. n -> [Texts -> Texts]]
    BY <1>2
  <2> HIDE DEF step, Texts
  <2>2. PICK S \in [0 .. n -> Texts] : Stepwise(S, n, <<>>, step)
    BY <1>1, <2>1, StepwiseExists
  <2>3. ASSUME NEW k \in 1 .. n PROVE step[k][S[k - 1]] = RfcHmac(key, S[k - 1] \o f \o <<k>>)
    <3>1. k - 1 \in 0 .. n
      BY <1>1
    <3>2. S[k - 1] \in Texts
      BY <2>2, <3>1
    <3> QED BY <3>2 DEF step
  <2>4. ASSUME NEW k \in 0 .. n
        PROVE  S[k] = IF k = 0 THEN <<>> ELSE RfcHmac(key, S[k - 1] \o f \o <<k>>)
    <3>1. k # 0 => k \in 1 .. n
      BY <1>1
    <3> QED BY <2>2, <2>3, <3>1 DEF Stepwise
  <2> QED BY <2>2, <2>4
<1>5. Eq(T)
  BY <1>4
<1> HIDE DEF T
<1>6. \A k \in 0 .. n : T[k] \in Texts
  <2> HIDE DEF Texts
  <2>1. T[0] \in Texts
    BY <1>1, <1>5 DEF Texts
  <2>2. ASSUME NEW k \in 1 .. n, T[k - 1] \in Texts PROVE T[k] \in Texts
    <3>1. T[k] = RfcHmac(key, T[k - 1] \o f \o <<k>>)
      BY <1>1, <1>5
    <3> QED BY <1>2, <2>2, <3>1 DEF Texts
  <2> HIDE DEF Eq
  <2> QED BY <1>1, <2>1, <2>2, PassedOn
<1>7. T \in [0 .. n -> Texts]
  <2>1. T = [k \in 0 .. n |-> T[k]]
    BY <1>5
  <2> HIDE DEF Eq, Texts
  <2> QED BY <1>6, <2>1
<1> QED
  BY <1>3, <1>5, <1>7

\* The first block follows no other, each later one the block before it.
LEMMA BlockFacts ==
    ASSUME CompressFact, NEW key \in Seq(Byte), NEW f \in Seq(Byte)
    PROVE  /\ BlockOf(key, f, 0) = <<>>
           /\ \A n \in 1 .. (CounterMod - 1) :
                BlockOf(key, f, n) = RfcHmac(key, BlockOf(key, f, n - 1) \o f \o <<n>>)
           /\ \A n \in 1 .. (CounterMod - 1) : BlockOf(key, f, n) \in Digest
<1>1. BlockOf(key, f, 0) = <<>>
  <2>1. 0 \in 0 .. (CounterMod - 1) /\ 0 \in 0 .. 0
    BY Widths
  <2>2. PICK T \in [0 .. 0 -> Seq(Byte)] :
          /\ T = [k \in 0 .. 0 |-> IF k = 0 THEN <<>>
                                   ELSE RfcHmac(key, T[k - 1] \o f \o <<k>>)]
          /\ BlockOf(key, f, 0) = T[0]
    BY <2>1, BlocksExist
  <2>3. T[0] = <<>>
    BY <2>1, <2>2
  <2> QED BY <2>2, <2>3
<1>2. ASSUME NEW n \in 1 .. (CounterMod - 1)
      PROVE  /\ BlockOf(key, f, n) = RfcHmac(key, BlockOf(key, f, n - 1) \o f \o <<n>>)
             /\ BlockOf(key, f, n) \in Digest
  <2>1. /\ n \in 0 .. (CounterMod - 1) /\ n - 1 \in 0 .. (CounterMod - 1)
        /\ n \in Nat /\ n - 1 \in Nat
    BY Widths
  <2>2. PICK T \in [0 .. n -> Seq(Byte)] :
          /\ T = [k \in 0 .. n |-> IF k = 0 THEN <<>>
                                   ELSE RfcHmac(key, T[k - 1] \o f \o <<k>>)]
          /\ BlockOf(key, f, n) = T[n]
    BY <2>1, BlocksExist
  <2>3. PICK m \in Nat : m = n - 1
    BY <2>1
  <2>4. PICK S \in [0 .. m -> Seq(Byte)] :
          /\ S = [k \in 0 .. m |-> IF k = 0 THEN <<>>
                                   ELSE RfcHmac(key, S[k - 1] \o f \o <<k>>)]
          /\ BlockOf(key, f, m) = S[m]
    BY <2>1, <2>3, BlocksExist
  <2>5. T[m] = S[m]
    <3>1. T[0] = S[0]
      BY <2>1, <2>2, <2>3, <2>4
    <3>2. ASSUME NEW k \in 1 .. m, T[k - 1] = S[k - 1] PROVE T[k] = S[k]
      <4>1. k \in 0 .. n /\ k \in 0 .. m /\ k # 0
        BY <2>1, <2>3
      <4>2. T[k] = RfcHmac(key, T[k - 1] \o f \o <<k>>)
        BY <2>2, <4>1
      <4>3. S[k] = RfcHmac(key, S[k - 1] \o f \o <<k>>)
        BY <2>4, <4>1
      <4> QED BY <3>2, <4>2, <4>3
    <3> QED BY <3>1, <3>2, StepwiseUnique
  <2>6. n \in 0 .. n /\ n # 0
    BY <2>1
  <2>7. T[n] = RfcHmac(key, T[n - 1] \o f \o <<n>>)
    BY <2>2, <2>6
  <2>8. T[n - 1] = BlockOf(key, f, n - 1)
    BY <2>3, <2>4, <2>5
  <2>9. BlockOf(key, f, n) = RfcHmac(key, BlockOf(key, f, n - 1) \o f \o <<n>>)
    BY <2>2, <2>7, <2>8
  <2>10. T[n - 1] \o f \o <<n>> \in Seq(Byte)
    <3>1. n - 1 \in 0 .. n /\ n \in Byte
      BY <2>1, Widths
    <3>2. T[n - 1] \in Seq(Byte)
      BY <2>2, <3>1
    <3>3. <<n>> \in Seq(Byte) /\ T[n - 1] \o f \in Seq(Byte)
      BY <3>1, <3>2, ConcatProperties
    <3> QED BY <3>3, ConcatProperties
  <2> QED BY <2>2, <2>7, <2>9, <2>10, RfcHmacFacts
<1> QED
  BY <1>1, <1>2

-----------------------------------------------------------------------------
(* hkdf256Expand and RFC 5869.                                              *)

\* Every message that is hashed leaves room for the length in its last block,
\* and RFC 5869 allows the lengths that are asked for.
LengthsFit ==
    /\ HasRoom(BlockLen + DigestLen)
    /\ \A k \in Keys : Len(k) > BlockLen => HasRoom(Len(k))
    /\ \A f \in Infos : /\ HasRoom(BlockLen + Len(f) + 1)
                        /\ HasRoom(BlockLen + DigestLen + Len(f) + 1)
    /\ MaxLen <= (CounterMod - 1) * DigestLen

\* After q turns the output holds q blocks, temp the last of them.
Turns(q) ==
    /\ q < CounterMod /\ i = (q + 1) % CounterMod
    /\ okm.m_writeIndex = q * DigestLen
    /\ \A n \in 1 .. q : Peek(okm.m_buffer, DigestLen * (n - 1), DigestLen)
                           = BlockOf(Bytes(prk), Bytes(info), n)
    /\ Written(temp) = BlockOf(Bytes(prk), Bytes(info), q)
    /\ temp.m_writeIndex = IF q = 0 THEN 0 ELSE DigestLen

RfcInv ==
    /\ Inv
    /\ Bytes(prk) \in Keys /\ Bytes(info) \in Infos
    /\ \E q \in Nat : Turns(q)
    /\ result # NoResult => result = Peek(okm.m_buffer, 0, len) /\ length(okm) >= len

LEMMA InitRfcInv ==
    ASSUME CompressFact, Init PROVE RfcInv
<1>1. Inv
  BY InitInv
<1>2. ASSUME NEW s \in Keys \cup Infos, NEW c PROVE Bytes(ReadAt(Full(s), c)) = s
  <2>1. s \in Seq(Byte) /\ Len(s) + 3 * BlockLen <= MaxSize
    BY ShaAssumption, MemoryAssumption
  <2>2. Len(s) <= MaxSize
    BY <2>1, Widths
  <2>3. Bytes(Full(s)) = s
    BY <2>1, <2>2, FullHolds
  <2> QED BY <2>3 DEF Bytes, ReadAt, Buffer
<1>3. Bytes(prk) \in Keys /\ Bytes(info) \in Infos
  BY <1>2 DEF Init
<1>4. okm = NewBuffer(((len \div DigestLen) + 1) * DigestLen)
      /\ temp = NewBuffer(DigestLen + size(info) + 1)
  BY DEF Init, OutputBuffer
<1>5. okm.m_writeIndex = 0 /\ temp.m_writeIndex = 0
  BY <1>4 DEF NewBuffer, Buffer
<1>6. Written(temp) = <<>>
  BY <1>5 DEF Written, Peek
<1>7. Bytes(prk) \in Seq(Byte) /\ Bytes(info) \in Seq(Byte)
  BY <1>3, ShaAssumption
<1>8. BlockOf(Bytes(prk), Bytes(info), 0) = <<>>
  BY <1>7, BlockFacts
<1>9. i = (0 + 1) % CounterMod /\ 0 < CounterMod
  BY Widths DEF Init
<1>10. okm.m_writeIndex = 0 * DigestLen
  BY <1>5, Widths
<1>11. Turns(0)
  <2>1. \A n \in 1 .. 0 : FALSE
    OBVIOUS
  <2> QED BY <1>5, <1>6, <1>8, <1>9, <1>10, <2>1 DEF Turns
<1> QED
  BY <1>1, <1>3, <1>11 DEF RfcInv, Init

\* A transfer that fits appends the next bytes of one buffer to the other one.
LEMMA TransferEffect ==
    ASSUME NEW from, NEW to, WellFormed(from), WellFormed(to), NEW n \in Nat, n <= MaxSize,
           from.m_readIndex + n <= from.m_bufferSz, to.m_writeIndex + n <= to.m_bufferSz
    PROVE  /\ ReadTo(from, to, n)[2]
                = writeArray(to, Peek(from.m_buffer, from.m_readIndex, n)).self
           /\ ReadTo(from, to, n)[1].m_buffer = from.m_buffer
           /\ ReadTo(from, to, n)[1].m_bufferSz = from.m_bufferSz
           /\ Peek(from.m_buffer, from.m_readIndex, n) \in Seq(Byte)
           /\ Len(Peek(from.m_buffer, from.m_readIndex, n)) = n
<1>1. /\ Fits(from, from.m_readIndex, n)
      /\ readBytes(from, n) = Result(ReadAt(from, from.m_readIndex + n), TRUE,
                                     Peek(from.m_buffer, from.m_readIndex, n))
  BY ReadFacts
<1>2. Fits(to, to.m_writeIndex, n)
  <2> DEFINE w == to.m_writeIndex
  <2>1. w \in Nat /\ w + n < SizeMod
    BY Fields
  <2> HIDE DEF w
  <2>2. Add(w, n) = w + n
    BY <2>1, AddFacts
  <2>3. Add(to.m_writeIndex, n) = to.m_writeIndex + n
    BY <2>2 DEF w
  <2> QED BY <2>3 DEF Fits
<1>3. ReadTo(from, to, n) = <<readBytes(from, n).self, Received(from, to, n)>>
  BY <1>1, <1>2 DEF ReadTo, CanTransfer
<1>4. readBytes(from, n).out = Peek(from.m_buffer, from.m_readIndex, n)
      /\ readBytes(from, n).self = ReadAt(from, from.m_readIndex + n)
  BY <1>1 DEF Result
<1>5. /\ Peek(from.m_buffer, from.m_readIndex, n) \in Seq(Byte)
      /\ Len(Peek(from.m_buffer, from.m_readIndex, n)) = n
  BY PeekBuffer
<1> QED
  BY <1>3, <1>4, <1>5 DEF Received, ReadAt, Buffer

\* One turn hashes the last block, the info and the counter: what it adds to the
\* output and leaves in temp is the next block of RFC 5869.
LEMMA TurnFollowsRfc ==
    ASSUME CompressFact, LengthsFit, RfcInv, Expand,
           NEW q \in Nat, Turns(q), q + 1 < CounterMod
    PROVE  LET d == BlockOf(Bytes(prk), Bytes(info), q + 1)
           IN  /\ d \in Seq(Byte) /\ Len(d) = DigestLen
               /\ okm' = ReadTo(Full(d), okm, DigestLen)[2]
               /\ temp' = ReadTo(Full(d), NewBuffer(temp.m_bufferSz), DigestLen)[2]
               /\ info'.m_buffer = info.m_buffer /\ info'.m_bufferSz = info.m_bufferSz
<1> DEFINE n == size(info)
           from == resetRead(info)
           infoRead == ReadTo(resetRead(info), temp, n)
           numbered == write(infoRead[2], <<i>>).self
           input == resetRead(numbered)
           message == readBytes(input, length(input))
           t == Full(hmac256(Bytes(prk), message.out))
           K == Bytes(prk)
           F == Bytes(info)
           last == BlockOf(K, F, q)
           d == BlockOf(Bytes(prk), Bytes(info), q + 1)
<1>1. /\ okm' = ReadTo(t, okm, size(t))[2]
      /\ temp' = ReadTo(t, clear(message.self), size(t))[2]
      /\ info' = infoRead[1]
  BY DEF Expand
<1>2. /\ Inv /\ K \in Keys /\ F \in Infos
      /\ K \in Seq(Byte) /\ F \in Seq(Byte)
  BY ShaAssumption DEF RfcInv
<1>3. /\ n = info.m_bufferSz /\ n \in Nat /\ n <= MaxSize /\ n = Len(F)
      /\ n + 3 * BlockLen <= MaxSize
  <2>1. info.m_bufferSz \in Nat /\ info.m_bufferSz <= MaxSize
    BY <1>2, Fields DEF Inv
  <2>2. Len(Bytes(info)) = info.m_bufferSz
    BY <1>2, BytesFacts DEF Inv
  <2> QED BY <1>2, <2>1, <2>2 DEF size, Inv
<1>4. i = q + 1 /\ i \in Byte
  <2>1. CounterMod \in Nat
    BY Widths
  <2>2. (q + 1) % CounterMod = q + 1
    BY <2>1
  <2>3. i \in Byte
    BY <1>2, Widths DEF Inv
  <2> QED BY <2>2, <2>3 DEF Turns
<1>5. /\ temp.m_writeIndex = Len(last) /\ Written(temp) = last /\ last \in Seq(Byte)
      /\ Len(last) = IF q = 0 THEN 0 ELSE DigestLen
  <2>1. q # 0 => q \in 1 .. (CounterMod - 1)
    BY Widths
  <2>2. last \in Seq(Byte) /\ Len(last) = IF q = 0 THEN 0 ELSE DigestLen
    <3>1. CASE q = 0
      <4>1. last = <<>>
        BY <1>2, <3>1, BlockFacts
      <4> HIDE DEF last
      <4>2. last \in Seq(Byte) /\ Len(last) = 0
        BY <4>1
      <4> QED BY <3>1, <4>2
    <3>2. CASE q # 0
      <4>1. last \in Digest
        BY <1>2, <2>1, <3>2, BlockFacts
      <4> QED BY <3>2, <4>1, DigestIsText
    <3> QED BY <3>1, <3>2
  <2> QED BY <2>2 DEF Turns
<1>6. /\ d = RfcHmac(K, last \o F \o <<q + 1>>) /\ d \in Seq(Byte) /\ Len(d) = DigestLen
      /\ d \in Digest
  <2>1. q + 1 \in 1 .. (CounterMod - 1) /\ q + 1 - 1 = q
    BY Widths
  <2>2. PICK m \in 1 .. (CounterMod - 1) : m = q + 1 /\ m - 1 = q
    BY <2>1
  <2>3. BlockOf(K, F, m) = RfcHmac(K, BlockOf(K, F, m - 1) \o F \o <<m>>)
        /\ BlockOf(K, F, m) \in Digest
    BY <1>2, BlockFacts
  <2>4. d = BlockOf(K, F, m)
    BY <2>2
  <2>5. d \in Digest
    BY <2>3, <2>4
  <2>6. d = RfcHmac(K, last \o F \o <<q + 1>>)
    BY <2>2, <2>3, <2>4
  <2> HIDE DEF d
  <2> QED BY <2>5, <2>6, DigestIsText
<1> HIDE DEF n
<1>7. /\ WellFormed(from) /\ from.m_bufferSz = n /\ from.m_readIndex = 0
      /\ from.m_buffer = info.m_buffer
  <2>1. WellFormed(resetRead(info))
    BY <1>2, ResetFacts DEF Inv
  <2> QED BY <1>3, <2>1 DEF resetRead, ReadAt, Buffer
<1>8. WellFormed(temp) /\ temp.m_bufferSz = DigestLen + n + 1
  BY <1>2, <1>3 DEF Inv
<1> HIDE DEF from, last
<1>9. /\ WellFormed(infoRead[2]) /\ infoRead[2].m_bufferSz = temp.m_bufferSz
      /\ Written(infoRead[2]) = last \o F
      /\ infoRead[2].m_writeIndex = Len(last) + n
      /\ infoRead[1].m_buffer = info.m_buffer /\ infoRead[1].m_bufferSz = n
  <2>1. infoRead = ReadTo(from, temp, n)
    BY DEF from
  <2> HIDE DEF infoRead
  <2>2. from.m_readIndex + n <= from.m_bufferSz /\ temp.m_writeIndex + n <= temp.m_bufferSz
    BY <1>3, <1>5, <1>7, <1>8, Widths
  <2>3. /\ infoRead[2] = writeArray(temp, Peek(from.m_buffer, from.m_readIndex, n)).self
        /\ infoRead[1].m_buffer = from.m_buffer
        /\ infoRead[1].m_bufferSz = from.m_bufferSz
    BY <1>3, <1>7, <1>8, <2>1, <2>2, TransferEffect
  <2>4. Peek(from.m_buffer, from.m_readIndex, n) = F
    BY <1>3, <1>7 DEF Bytes
  <2>5. temp.m_writeIndex + Len(F) <= temp.m_bufferSz
    BY <1>3, <2>2
  <2> HIDE DEF F
  <2>6. infoRead[2] = writeArray(temp, F).self
    BY <2>3, <2>4
  <2>7. /\ WellFormed(writeArray(temp, F).self)
        /\ writeArray(temp, F).self.m_bufferSz = temp.m_bufferSz
        /\ writeArray(temp, F).self.m_writeIndex = temp.m_writeIndex + Len(F)
        /\ Written(writeArray(temp, F).self) = Written(temp) \o F
    BY <1>2, <1>8, <2>5, WriteAppends
  <2> QED BY <1>3, <1>5, <1>7, <2>3, <2>6, <2>7
<1> HIDE DEF infoRead, F
<1>10. /\ WellFormed(numbered) /\ numbered.m_bufferSz = temp.m_bufferSz
       /\ Written(numbered) = last \o F \o <<i>>
       /\ numbered.m_writeIndex = Len(last) + n + 1
  <2> DEFINE b == infoRead[2]   one == <<i>>
  <2>1. one \in Seq(Byte) /\ Len(one) = 1
    BY <1>4
  <2>2. numbered = writeArray(b, one).self
    BY DEF write
  <2>3. WellFormed(b) /\ b.m_writeIndex + 1 <= b.m_bufferSz
    BY <1>3, <1>5, <1>8, <1>9, Widths
  <2>4. Written(b) = last \o F /\ b.m_writeIndex = Len(last) + n /\ b.m_bufferSz = temp.m_bufferSz
    BY <1>9
  <2> HIDE DEF b, one, numbered
  <2>5. /\ WellFormed(writeArray(b, one).self)
        /\ writeArray(b, one).self.m_bufferSz = b.m_bufferSz
        /\ writeArray(b, one).self.m_writeIndex = b.m_writeIndex + Len(one)
        /\ Written(writeArray(b, one).self) = Written(b) \o one
    BY <2>1, <2>3, WriteAppends
  <2> QED BY <2>1, <2>2, <2>4, <2>5 DEF one
<1> HIDE DEF numbered
<1>11. /\ WellFormed(input) /\ input.m_bufferSz = temp.m_bufferSz /\ input.m_readIndex = 0
       /\ length(input) = Len(last) + n + 1
       /\ Peek(input.m_buffer, 0, length(input)) = last \o F \o <<i>>
  <2>1. WellFormed(resetRead(numbered))
    BY <1>10, ResetFacts
  <2> QED BY <1>10, <2>1 DEF resetRead, ReadAt, Buffer, length, Written
<1> HIDE DEF input
<1>12. PICK l \in Nat : l = length(input) /\ l <= temp.m_bufferSz /\ l <= MaxSize
                        /\ l = Len(last) + n + 1
  BY <1>3, <1>5, <1>8, <1>11, Widths, Fields
<1>13. /\ message.out = last \o F \o <<i>> /\ message.self = ReadAt(input, l)
       /\ message.self.m_bufferSz = temp.m_bufferSz
  <2>1. message = readBytes(input, l)
    BY <1>12
  <2>2. 0 + l = l /\ input.m_readIndex + l <= input.m_bufferSz
    BY <1>11, <1>12
  <2> HIDE DEF message
  <2>3. message = Result(ReadAt(input, input.m_readIndex + l), TRUE,
                         Peek(input.m_buffer, input.m_readIndex, l))
    BY <1>11, <1>12, <2>1, <2>2, ReadFacts
  <2>4. message = Result(ReadAt(input, l), TRUE, Peek(input.m_buffer, 0, l))
    BY <1>11, <2>2, <2>3
  <2> QED BY <1>11, <1>12, <2>4 DEF Result, ReadAt, Buffer
<1>14. clear(message.self) = NewBuffer(temp.m_bufferSz)
  <2>1. \A b : clear(b) = NewBuffer(b.m_bufferSz)
    BY DEF clear, reset, resetRead, resetWrite, ReadAt, WriteAt, Holding, Buffer, NewBuffer
  <2> HIDE DEF message
  <2> QED BY <1>13, <2>1
<1> HIDE DEF message
<1>15. hmac256(K, last \o F \o <<i>>) = d
  <2> DEFINE text == last \o F \o <<i>>
  <2>1. <<i>> \in Seq(Byte) /\ Len(<<i>>) = 1
    BY <1>4
  <2>2. last \o F \in Seq(Byte) /\ Len(last \o F) = Len(last) + n
    BY <1>2, <1>3, <1>5, ConcatProperties DEF F
  <2>3. text \in Seq(Byte) /\ Len(text) = Len(last) + n + 1
    <3> DEFINE one == <<i>>   lf == last \o F
    <3>1. one \in Seq(Byte) /\ lf \in Seq(Byte) /\ text = lf \o one
          /\ Len(one) = 1 /\ Len(lf) = Len(last) + n
      BY <2>1, <2>2
    <3> HIDE DEF one, lf, text
    <3>2. lf \o one \in Seq(Byte) /\ Len(lf \o one) = Len(lf) + Len(one)
      BY <3>1, ConcatProperties
    <3> QED BY <3>1, <3>2
  <2>4. d = RfcHmac(K, text)
    BY <1>4, <1>6 DEF F, last
  <2> HIDE DEF text, d, K
  <2>5. K \in Seq(Byte) /\ Len(K) + BlockLen <= MaxSize
    BY <1>2, BytesFacts DEF K, Inv
  <2>6. Len(text) + 2 * BlockLen <= MaxSize
    <3>1. PICK a \in Nat : a = Len(last) /\ a <= DigestLen
      BY <1>5, Widths
    <3>2. Len(text) = a + n + 1
      BY <2>3, <3>1
    <3>3. a + n + 1 + 2 * BlockLen <= MaxSize
      BY <1>3, <3>1, Widths
    <3> QED BY <3>2, <3>3
  <2>7. HasRoom(BlockLen + Len(text))
    <3>1. F \in Infos
      BY <1>2 DEF F
    <3>2. CASE q = 0
      <4>1. BlockLen + Len(text) = BlockLen + Len(F) + 1
        BY <1>3, <1>5, <2>3, <3>2, Widths DEF F
      <4> QED BY <3>1, <4>1 DEF LengthsFit
    <3>3. CASE q # 0
      <4>1. BlockLen + Len(text) = BlockLen + DigestLen + Len(F) + 1
        BY <1>3, <1>5, <2>3, <3>3, Widths DEF F
      <4> QED BY <3>1, <4>1 DEF LengthsFit
    <3> QED BY <3>2, <3>3
  <2>8. HasRoom(BlockLen + DigestLen) /\ (Len(K) > BlockLen => HasRoom(Len(K)))
    BY <1>2 DEF LengthsFit, K
  <2>9. hmac256(K, text) = RfcHmac(K, text)
    BY <2>3, <2>5, <2>6, <2>7, <2>8, HmacFollowsRfc
  <2> QED BY <2>4, <2>9 DEF text
<1>16. t = Full(d) /\ size(t) = DigestLen
  <2>1. t = Full(d)
    BY <1>13, <1>15
  <2> HIDE DEF t, d
  <2>2. Len(d) <= MaxSize
    BY <1>6, Widths
  <2>3. Full(d).m_bufferSz = DigestLen
    BY <1>6, <2>2, FullFacts
  <2> QED BY <2>1, <2>3 DEF size
<1>17. info'.m_buffer = info.m_buffer /\ info'.m_bufferSz = info.m_bufferSz
  BY <1>1, <1>3, <1>9
<1> HIDE DEF t, d
<1>18. okm' = ReadTo(Full(d), okm, DigestLen)[2]
       /\ temp' = ReadTo(Full(d), NewBuffer(temp.m_bufferSz), DigestLen)[2]
  BY <1>1, <1>14, <1>16
<1>19. d \in Seq(Byte) /\ Len(d) = DigestLen
  BY <1>6
<1> QED
  BY <1>17, <1>18, <1>19 DEF d

\* A digest received by a buffer that has room for it.
LEMMA DigestReceived ==
    ASSUME NEW d \in Seq(Byte), Len(d) = DigestLen, NEW to, WellFormed(to),
           to.m_writeIndex + DigestLen <= to.m_bufferSz
    PROVE  /\ ReadTo(Full(d), to, DigestLen)[2].m_buffer
                = Poke(to.m_buffer, to.m_writeIndex, d)
           /\ ReadTo(Full(d), to, DigestLen)[2].m_bufferSz = to.m_bufferSz
           /\ ReadTo(Full(d), to, DigestLen)[2].m_writeIndex = to.m_writeIndex + DigestLen
           /\ Written(ReadTo(Full(d), to, DigestLen)[2]) = Written(to) \o d
<1>1. DigestLen \in Nat /\ DigestLen <= MaxSize
  BY Widths
<1>2. PICK t : t = Full(d)
  OBVIOUS
<1>3. WellFormed(t) /\ t.m_bufferSz = DigestLen /\ t.m_readIndex = 0 /\ Bytes(t) = d
  BY <1>1, <1>2, FullFacts, FullHolds
<1>4. Peek(t.m_buffer, t.m_readIndex, DigestLen) = d
  BY <1>3 DEF Bytes
<1>5. t.m_readIndex + DigestLen <= t.m_bufferSz
  BY <1>1, <1>3
<1>6. ReadTo(t, to, DigestLen)[2] = writeArray(to, d).self
  BY <1>1, <1>3, <1>4, <1>5, TransferEffect
<1>7. /\ writeArray(to, d).self.m_buffer = Poke(to.m_buffer, to.m_writeIndex, d)
      /\ writeArray(to, d).self.m_bufferSz = to.m_bufferSz
      /\ writeArray(to, d).self.m_writeIndex = to.m_writeIndex + Len(d)
      /\ Written(writeArray(to, d).self) = Written(to) \o d
  BY WriteAppends
<1> QED
  BY <1>2, <1>6, <1>7

\* The counter of RFC 5869 does not run over as long as output is missing.
LEMMA CounterFits ==
    ASSUME LengthsFit, NEW q \in Nat, q * DigestLen < len, len \in 0 .. MaxLen
    PROVE  q + 1 < CounterMod
<1>1. DigestLen \in Nat /\ DigestLen > 0 /\ CounterMod \in Nat /\ CounterMod > 1 /\ MaxLen \in Nat
  BY Widths
<1>2. PICK c \in Nat : c = CounterMod - 1
  BY <1>1
<1>3. PICK a, b \in Nat : a = q * DigestLen /\ b = c * DigestLen
  BY <1>1
<1>4. a < b
  BY <1>1, <1>2, <1>3 DEF LengthsFit
<1>5. q < c
  <2> SUFFICES ASSUME c <= q PROVE FALSE
    OBVIOUS
  <2>1. (q - c) * DigestLen \in Nat
    <3>1. q - c \in Nat
      OBVIOUS
    <3> QED BY <1>1, <3>1
  <2>2. (q - c) * DigestLen = q * DigestLen - c * DigestLen
    BY <1>1
  <2>3. a - b \in Nat
    BY <1>3, <2>1, <2>2
  <2> QED BY <1>4, <2>3
<1> QED
  BY <1>1, <1>2, <1>5

LEMMA ExpandFollowsRfc ==
    ASSUME CompressFact, LengthsFit, RfcInv, Expand
    PROVE  RfcInv'
<1>1. PICK q \in Nat : Turns(q)
  BY DEF RfcInv
<1>2. Inv /\ Inv'
  BY ExpandStep DEF RfcInv
<1>3. q * DigestLen < len /\ len \in 0 .. MaxLen /\ len \in Nat /\ result = NoResult
  <2>1. okm.m_writeIndex < len /\ result = NoResult
    BY DEF Expand, length
  <2>2. okm.m_writeIndex = q * DigestLen
    BY <1>1 DEF Turns
  <2>3. len \in 0 .. MaxLen
    BY <1>2 DEF Inv
  <2>4. len \in Nat
    BY <2>3, Widths
  <2> QED BY <2>1, <2>2, <2>3, <2>4
<1>4. q + 1 < CounterMod
  BY <1>3, CounterFits
<1> DEFINE d == BlockOf(Bytes(prk), Bytes(info), q + 1)
<1>5. /\ d \in Seq(Byte) /\ Len(d) = DigestLen
      /\ okm' = ReadTo(Full(d), okm, DigestLen)[2]
      /\ temp' = ReadTo(Full(d), NewBuffer(temp.m_bufferSz), DigestLen)[2]
      /\ info'.m_buffer = info.m_buffer /\ info'.m_bufferSz = info.m_bufferSz
  BY <1>1, <1>4, TurnFollowsRfc
<1>6. Bytes(info') = Bytes(info) /\ Bytes(prk') = Bytes(prk)
  <2>1. prk'.m_buffer = prk.m_buffer /\ prk'.m_bufferSz = prk.m_bufferSz
    BY DEF Expand, KeyRead, resetRead, ReadAt, Buffer
  <2> QED BY <1>5, <2>1 DEF Bytes
<1>7. WellFormed(okm) /\ okm.m_writeIndex = q * DigestLen
      /\ okm.m_writeIndex + DigestLen <= okm.m_bufferSz
  <2>1. okm.m_bufferSz = ((len \div DigestLen) + 1) * DigestLen
    BY <1>2 DEF Inv
  <2>2. q * DigestLen + DigestLen <= ((len \div DigestLen) + 1) * DigestLen
    BY <1>3, RoomForOne
  <2> QED BY <1>1, <1>2, <2>1, <2>2 DEF Turns, Inv
<1> HIDE DEF d
<1>8. /\ okm'.m_buffer = Poke(okm.m_buffer, okm.m_writeIndex, d)
      /\ okm'.m_writeIndex = okm.m_writeIndex + DigestLen
      /\ okm'.m_bufferSz = okm.m_bufferSz
      /\ Written(okm') = Written(okm) \o d
  BY <1>5, <1>7, DigestReceived
<1>9. temp'.m_writeIndex = DigestLen /\ Written(temp') = d
  <2>1. /\ temp.m_bufferSz \in Nat /\ temp.m_bufferSz <= MaxSize
        /\ DigestLen <= temp.m_bufferSz
    <3>1. info.m_bufferSz \in Nat /\ temp.m_bufferSz = DigestLen + info.m_bufferSz + 1
      BY <1>2, Fields DEF Inv
    <3>2. temp.m_bufferSz \in Nat /\ temp.m_bufferSz <= MaxSize
      BY <1>2, Fields DEF Inv
    <3>3. DigestLen <= temp.m_bufferSz
      BY <3>1, Widths
    <3> QED BY <3>2, <3>3
  <2>2. PICK new : new = NewBuffer(temp.m_bufferSz)
    OBVIOUS
  <2>3. /\ WellFormed(new) /\ new.m_bufferSz = temp.m_bufferSz /\ new.m_writeIndex = 0
        /\ Written(new) = <<>>
    BY <2>1, <2>2, NothingWritten
  <2>4. new.m_writeIndex + DigestLen <= new.m_bufferSz
    BY <2>1, <2>3, Widths
  <2>5. /\ ReadTo(Full(d), new, DigestLen)[2].m_writeIndex = new.m_writeIndex + DigestLen
        /\ Written(ReadTo(Full(d), new, DigestLen)[2]) = Written(new) \o d
    BY <1>5, <2>3, <2>4, DigestReceived
  <2>6. 0 + DigestLen = DigestLen /\ <<>> \o d = d
    BY <1>5, Widths
  <2> QED BY <1>5, <2>2, <2>3, <2>5, <2>6
<1>10. ASSUME NEW n \in 1 .. (q + 1)
       PROVE  Peek(okm'.m_buffer, DigestLen * (n - 1), DigestLen)
                = BlockOf(Bytes(prk), Bytes(info), n)
  <2>1. PICK sz, w, D \in Nat : sz = okm.m_bufferSz /\ w = okm.m_writeIndex /\ D = DigestLen
    BY <1>7, Fields, Widths
  <2>2. PICK arr \in Array(sz) : arr = okm.m_buffer
    BY <1>7, <2>1, Fields
  <2>3. PICK from \in Nat : from = D * (n - 1)
    BY <2>1
  <2>4. okm'.m_buffer = Poke(arr, w, d) /\ w + D <= sz /\ w = q * D /\ Len(d) = D
    BY <1>5, <1>7, <1>8, <2>1, <2>2
  <2>5. CASE n <= q
    <3>1. from + D <= w
      <4>1. (q - n) * D \in Nat
        <5>1. q - n \in Nat
          BY <2>5
        <5> QED BY <2>1, <5>1
      <4>2. (q - n) * D = q * D - D * (n - 1) - D
        BY <2>1
      <4>3. (q - n) * D = w - from - D
        BY <2>3, <2>4, <4>2
      <4> QED BY <4>1, <4>3
    <3>2. Peek(Poke(arr, w, d), from, D) = Peek(arr, from, D)
      <4>1. from + D <= sz
        BY <2>4, <3>1
      <4> QED BY <1>5, <3>1, <4>1, PokeElsewhere
    <3>3. n \in 1 .. q
      BY <2>5
    <3>4. Peek(arr, from, D) = BlockOf(Bytes(prk), Bytes(info), n)
      BY <1>1, <2>1, <2>2, <2>3, <3>3 DEF Turns
    <3> QED BY <2>1, <2>3, <2>4, <3>2, <3>4
  <2>6. CASE ~(n <= q)
    <3>1. n = q + 1 /\ from = w
      <4>1. n = q + 1
        BY <2>6
      <4>2. n - 1 = q
        BY <4>1
      <4>3. D * q = q * D
        BY <2>1
      <4> QED BY <2>3, <2>4, <4>1, <4>2, <4>3
    <3>2. Peek(Poke(arr, w, d), w, D) = d
      BY <1>5, <2>4, PokePeek
    <3> QED BY <2>1, <2>3, <2>4, <3>1, <3>2 DEF d
  <2> QED BY <2>5, <2>6
<1>11. okm'.m_writeIndex = (q + 1) * DigestLen
  BY <1>7, <1>8, Widths
<1>12. i' = (q + 1 + 1) % CounterMod
  <2>1. CounterMod \in Nat
    BY Widths
  <2>2. (q + 1) % CounterMod = q + 1
    BY <1>4, <2>1
  <2>3. i = q + 1
    BY <1>1, <2>2 DEF Turns
  <2> QED BY <2>3 DEF Expand, Increment
<1>13. Turns(q + 1)'
  <2>1. q + 1 # 0 /\ q + 1 \in Nat
    OBVIOUS
  <2>2. Written(temp') = BlockOf(Bytes(prk'), Bytes(info'), q + 1)
    BY <1>6, <1>9 DEF d
  <2>3. \A n \in 1 .. (q + 1) : Peek(okm'.m_buffer, DigestLen * (n - 1), DigestLen)
                                  = BlockOf(Bytes(prk'), Bytes(info'), n)
    BY <1>6, <1>10
  <2> QED BY <1>4, <1>9, <1>11, <1>12, <2>1, <2>2, <2>3 DEF Turns
<1>14. result' = NoResult
  BY DEF Expand
<1>15. Bytes(prk') \in Keys /\ Bytes(info') \in Infos
  BY <1>6 DEF RfcInv
<1>16. q + 1 \in Nat
  OBVIOUS
<1> QED
  BY <1>2, <1>13, <1>14, <1>15, <1>16 DEF RfcInv

\* Only the cursor of the output moves when the result is read from it.
LEMMA FinishFollowsRfc ==
    ASSUME CompressFact, RfcInv, Finish
    PROVE  RfcInv'
<1>1. Inv /\ Inv'
  BY FinishStep DEF RfcInv
<1>2. UNCHANGED <<prk, info, len, temp, i>> /\ result = NoResult
  BY DEF Finish
<1>3. /\ WellFormed(okm) /\ okm.m_readIndex = 0
      /\ len \in Nat /\ len <= MaxSize /\ okm.m_readIndex + len <= okm.m_bufferSz
      /\ len <= okm.m_writeIndex
  <2>1. WellFormed(okm) /\ okm.m_readIndex = 0 /\ len \in 0 .. MaxLen
    BY <1>1, <1>2 DEF Inv
  <2>2. okm.m_writeIndex \in Nat /\ okm.m_writeIndex <= okm.m_bufferSz /\ okm.m_bufferSz \in Nat
    BY <2>1, Fields
  <2>3. len <= okm.m_writeIndex
    BY <2>1, <2>2, Widths DEF Finish, length
  <2> QED BY <2>1, <2>2, <2>3, Widths
<1>4. readBytes(okm, len) = Result(ReadAt(okm, okm.m_readIndex + len), TRUE,
                                   Peek(okm.m_buffer, okm.m_readIndex, len))
  BY <1>3, ReadFacts
<1>5. /\ result' = Peek(okm.m_buffer, 0, len)
      /\ okm'.m_buffer = okm.m_buffer /\ okm'.m_writeIndex = okm.m_writeIndex
  BY <1>3, <1>4 DEF Finish, Result, ReadAt, Buffer
<1>6. PICK q \in Nat : Turns(q)
  BY DEF RfcInv
<1>7. Turns(q)'
  BY <1>2, <1>5, <1>6 DEF Turns, Written
<1>8. result' = Peek(okm'.m_buffer, 0, len') /\ length(okm') >= len'
  BY <1>2, <1>3, <1>5, Fields DEF length
<1> QED
  BY <1>1, <1>2, <1>7, <1>8 DEF RfcInv

LEMMA StepFollowsRfc ==
    ASSUME CompressFact, LengthsFit, RfcInv, [Next]_vars
    PROVE  RfcInv'
<1>1. CASE Expand
  BY <1>1, ExpandFollowsRfc
<1>2. CASE Finish
  BY <1>2, FinishFollowsRfc
<1>3. CASE UNCHANGED vars
  BY <1>3 DEF RfcInv, Inv, Turns, Written, vars
<1> QED
  BY <1>1, <1>2, <1>3 DEF Next

LEMMA RfcInvOkm ==
    ASSUME RfcInv PROVE OkmFollowsRfc
<1>1. PICK q \in Nat : Turns(q)
  BY DEF RfcInv
<1>2. DigestLen \in Nat /\ DigestLen > 0
  BY Widths
<1>3. length(okm) \div DigestLen = q
  <2>1. PICK p \in Nat : p = q * DigestLen
    BY <1>2
  <2>2. PICK e \in Nat : e = p \div DigestLen
    BY <1>2
  <2>3. PICK r \in Nat : p = e * DigestLen + r /\ r < DigestLen
    <3>1. p % DigestLen \in Nat /\ p % DigestLen < DigestLen
          /\ p = (p \div DigestLen) * DigestLen + (p % DigestLen)
      BY <1>2
    <3> QED BY <2>2, <3>1
  <2>4. q = e
    <3>1. PICK k \in Int : k = q - e
      OBVIOUS
    <3>2. k * DigestLen = r
      <4>1. k * DigestLen = q * DigestLen - e * DigestLen
        BY <1>2, <3>1
      <4>2. PICK x \in Nat : x = e * DigestLen
        BY <1>2
      <4> QED BY <2>1, <2>3, <4>1, <4>2
    <3>3. k >= 0
      <4> SUFFICES ASSUME k < 0 PROVE FALSE
        OBVIOUS
      <4>1. (0 - k) * DigestLen > 0 /\ (0 - k) * DigestLen = 0 - (k * DigestLen)
        BY <1>2
      <4> QED BY <2>3, <3>2, <4>1
    <3>4. k < 1
      <4> SUFFICES ASSUME k >= 1 PROVE FALSE
        OBVIOUS
      <4>1. (k - 1) * DigestLen >= 0 /\ (k - 1) * DigestLen = k * DigestLen - DigestLen
        BY <1>2
      <4> QED BY <1>2, <2>3, <3>2, <4>1
    <3> QED BY <3>1, <3>3, <3>4
  <2>5. length(okm) = p
    BY <1>1, <2>1 DEF Turns, length
  <2> QED BY <2>2, <2>4, <2>5
<1>4. \A n : RfcBlock(n) = BlockOf(Bytes(prk), Bytes(info), n)
  BY DEF RfcBlock, BlockOf
<1>5. \A n \in 1 .. q : Peek(okm.m_buffer, DigestLen * (n - 1), DigestLen) = RfcBlock(n)
  BY <1>1, <1>4 DEF Turns
<1> QED
  BY <1>3, <1>5 DEF OkmFollowsRfc, RfcInv

-----------------------------------------------------------------------------
(* The theorems.                                                            *)

LEMMA StepInv ==
    ASSUME CompressFact, Inv, [Next]_vars
    PROVE  Inv' /\ [length(okm') = length(okm) + DigestLen \/ result' # NoResult]_vars
<1>1. CASE Expand
  BY <1>1, ExpandStep
<1>2. CASE Finish
  BY <1>2, FinishStep
<1>3. CASE UNCHANGED vars
  BY <1>3 DEF Inv, vars
<1> QED
  BY <1>1, <1>2, <1>3 DEF Next

\* Through every turn of hkdf256Expand the buffers stay well-formed and keep
\* their sizes, and the output holds whole blocks, which leave room for one
\* more as long as the loop goes on.
THEOREM Invariance ==
    ASSUME CompressFact
    PROVE  Spec => []Inv
<1>1. Inv /\ [Next]_vars => Inv'
  BY StepInv
<1> QED
  BY <1>1, InitInv, PTL DEF Spec

\* The counter of hkdf256Expand, its cursors and the bytes it returns have
\* their types whatever the key, the info, the length and the cursors are.
THEOREM TypeCorrect ==
    ASSUME CompressFact
    PROVE  Spec => []TypeOK
  BY Invariance, InvTypes, PTL

\* `while (okm.length() < len)` never turns on the spot: every turn adds a
\* block to the output, or the call returns.
THEOREM LoopAdvances ==
    ASSUME CompressFact
    PROVE  Spec => EveryTurnAddsABlock
<1>1. Inv /\ [Next]_vars
        => [length(okm') = length(okm) + DigestLen \/ result' # NoResult]_vars
  BY StepInv
<1> QED
  BY <1>1, Invariance, PTL DEF Spec, EveryTurnAddsABlock

\* hkdf256Expand is RFC 5869 with HMAC of RFC 2104 and the padding of FIPS 180-4,
\* for every block, digest and length size, every key, info and length, and
\* whatever has been read of the caller's buffers before, if every message that is
\* hashed leaves room for the length in its last block.
THEOREM OutputFollowsRfc ==
    ASSUME CompressFact, LengthsFit
    PROVE  Spec => []OkmFollowsRfc
<1>1. Init => RfcInv
  BY InitRfcInv
<1>2. RfcInv /\ [Next]_vars => RfcInv'
  BY StepFollowsRfc
<1>3. RfcInv => OkmFollowsRfc
  BY RfcInvOkm
<1> QED
  BY <1>1, <1>2, <1>3, PTL DEF Spec
=============================================================================

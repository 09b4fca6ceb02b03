-------------------------- MODULE ByteBufferLemmas --------------------------
(***************************************************************************)
(* Facts about the operators of ByteBufferOps, for every size_t width,     *)
(* array size and digit base: what each method preserves and returns.      *)
(***************************************************************************)
EXTENDS ByteBufferOps, TLAPS, WellFoundedInduction

-----------------------------------------------------------------------------
(* size_t arithmetic.                                                       *)

\* size_t addition stays a size_t, and is plain addition until it wraps.
LEMMA AddFacts ==
    ASSUME NEW i \in Nat, NEW n \in Nat
    PROVE  /\ Add(i, n) \in SizeT /\ Add(i, n) \in Nat
           /\ i + n < SizeMod => Add(i, n) = i + n
<1>1. SizeMod \in Nat /\ SizeMod > 0
  BY SizeAssumption
<1>2. Add(i, n) \in SizeT /\ Add(i, n) \in Nat
  BY <1>1 DEF Add, SizeT
<1>3. ASSUME i + n < SizeMod PROVE (i + n) % SizeMod = i + n
  BY <1>1, <1>3
<1> QED
  BY <1>2, <1>3 DEF Add

\* remainingLength() is the distance of the cursors while the read cursor is
\* not past the write cursor.
LEMMA SubFacts ==
    ASSUME NEW i \in Nat, NEW n \in Nat, n <= i, i < SizeMod
    PROVE  Sub(i, n) = i - n
<1>1. SizeMod \in Nat /\ i - n \in Nat /\ i - n < SizeMod
  BY SizeAssumption
<1> QED
  BY <1>1 DEF Sub

\* Past the write cursor it wraps around and is not zero.
LEMMA SubWraps ==
    ASSUME NEW i \in Nat, NEW n \in Nat, i < n, n < SizeMod
    PROVE  Sub(i, n) > 0
<1>1. SizeMod \in Nat /\ SizeMod > 0
  BY SizeAssumption
<1>2. (i - n) % SizeMod \in 0 .. (SizeMod - 1) /\ (i - n) % SizeMod # 0
  BY <1>1
<1> QED
  BY <1>2 DEF Sub

\* Byte holds 0, the value of fresh memory.
LEMMA ByteFacts == 0 \in Byte /\ HexBase * HexBase \in Nat /\ HexBase * HexBase > 0
<1>1. HexBase \in Nat /\ HexBase > 1
  BY HexAssumption
<1>2. HexBase * HexBase \in Nat /\ HexBase * HexBase > 0
  BY <1>1
<1> QED
  BY <1>2 DEF Byte
-----------------------------------------------------------------------------
(* Records of the four data members.                                        *)

\* The components of a well-formed buffer.
LEMMA Fields ==
    ASSUME NEW b, WellFormed(b)
    PROVE  /\ b = Buffer(b.m_bufferSz, b.m_buffer, b.m_readIndex, b.m_writeIndex)
           /\ b.m_bufferSz \in Nat /\ b.m_bufferSz <= MaxSize
           /\ b.m_buffer \in Array(b.m_bufferSz)
           /\ b.m_readIndex \in Nat /\ b.m_readIndex <= b.m_bufferSz
           /\ b.m_writeIndex \in Nat /\ b.m_writeIndex <= b.m_bufferSz
           /\ MaxSize \in Nat /\ SizeMod \in Nat /\ 2 * MaxSize < SizeMod
  BY SizeAssumption DEF WellFormed, Buffers, Buffer

\* Any array of its size and any cursors inside it make a well-formed buffer.
LEMMA Assemble ==
    ASSUME NEW sz \in Nat, sz <= MaxSize, NEW arr \in Array(sz),
           NEW r \in Nat, r <= sz, NEW w \in Nat, w <= sz
    PROVE  WellFormed(Buffer(sz, arr, r, w))
<1>1. sz \in 0 .. MaxSize
  BY SizeAssumption
<1>2. arr \in UNION {Array(n) : n \in 0 .. MaxSize}
  BY <1>1
<1> QED
  BY <1>1, <1>2 DEF WellFormed, Buffers, Buffer

\* Fresh memory.
LEMMA NewBufferFacts ==
    ASSUME NEW n \in Nat, n <= MaxSize
    PROVE  WellFormed(NewBuffer(n))
<1>1. Zeros(n) \in Array(n)
  BY ByteFacts DEF Zeros, Array
<1> QED
  BY <1>1, Assemble DEF NewBuffer

-----------------------------------------------------------------------------
(* The methods.                                                             *)

\* Moving a cursor within the array, and exchanging the bytes.
LEMMA Updates ==
    ASSUME NEW b, WellFormed(b), NEW i \in Nat, i <= b.m_bufferSz,
           NEW arr \in Array(b.m_bufferSz)
    PROVE  /\ WellFormed(ReadAt(b, i))
           /\ WellFormed(WriteAt(b, i))
           /\ WellFormed(Holding(b, arr))
  BY Fields, Assemble DEF ReadAt, WriteAt, Holding

\* resetRead, resetWrite, reset and clear.
LEMMA ResetFacts ==
    ASSUME NEW b, WellFormed(b)
    PROVE  /\ WellFormed(resetRead(b)) /\ WellFormed(resetWrite(b))
           /\ WellFormed(reset(b)) /\ WellFormed(clear(b))
           /\ reset(b) = Buffer(b.m_bufferSz, b.m_buffer, 0, 0)
           /\ clear(b) = NewBuffer(b.m_bufferSz)
<1>1. WellFormed(resetRead(b)) /\ WellFormed(resetWrite(b))
  BY Fields, Updates DEF resetRead, resetWrite
<1>2. reset(b) = Buffer(b.m_bufferSz, b.m_buffer, 0, 0)
  BY DEF reset, resetRead, resetWrite, ReadAt, WriteAt, Buffer
<1>3. clear(b) = NewBuffer(b.m_bufferSz)
  BY DEF clear, reset, resetRead, resetWrite, ReadAt, WriteAt, Holding, Buffer, NewBuffer
<1>4. WellFormed(reset(b)) /\ WellFormed(clear(b))
  BY <1>2, <1>3, Fields, Assemble, NewBufferFacts
<1> QED
  BY <1>1, <1>2, <1>3, <1>4

\* What a method may do to the buffer it is called on: it stays well-formed,
\* keeps its size, and is untouched when the method returns false.
Honest(b, r) == /\ WellFormed(r.self)
                /\ r.self.m_bufferSz = b.m_bufferSz
                /\ r.ok \in BOOLEAN
                /\ ~r.ok => r.self = b

\* A method that refuses.
LEMMA Refusal ==
    ASSUME NEW b, WellFormed(b), NEW out
    PROVE  Honest(b, Result(b, FALSE, out))
  BY DEF Honest, Result

\* A method that only moves a cursor, and one that also stores bytes.
LEMMA Success ==
    ASSUME NEW b, WellFormed(b), NEW i \in Nat, i <= b.m_bufferSz,
           NEW arr \in Array(b.m_bufferSz), NEW out
    PROVE  /\ Honest(b, Result(ReadAt(b, i), TRUE, out))
           /\ Honest(b, Result(WriteAt(b, i), TRUE, out))
           /\ Honest(b, Result(WriteAt(Holding(b, arr), i), TRUE, out))
           /\ Honest(b, Result(Holding(b, arr), TRUE, out))
<1>1. WellFormed(ReadAt(b, i)) /\ WellFormed(WriteAt(b, i)) /\ WellFormed(Holding(b, arr))
  BY Updates
<1>2. Holding(b, arr).m_bufferSz = b.m_bufferSz
  BY DEF Holding, Buffer
<1>3. WellFormed(WriteAt(Holding(b, arr), i))
  BY <1>1, <1>2, Updates
<1> QED
  BY <1>1, <1>2, <1>3 DEF Honest, Result, ReadAt, WriteAt, Buffer

\* skipRead and skipWrite keep the cursor inside the array for every size_t,
\* also where the check wraps around.
LEMMA SkipFacts ==
    ASSUME NEW b, WellFormed(b), NEW n \in Nat
    PROVE  Honest(b, skipRead(b, n)) /\ Honest(b, skipWrite(b, n))
<1>1. b.m_readIndex \in Nat /\ b.m_writeIndex \in Nat /\ b.m_buffer \in Array(b.m_bufferSz)
  BY Fields
<1>2. Add(b.m_readIndex, n) \in Nat /\ Add(b.m_writeIndex, n) \in Nat
  BY <1>1, AddFacts
<1>3. Honest(b, skipRead(b, n))
  BY <1>1, <1>2, Success, Refusal DEF skipRead, Fits
<1>4. Honest(b, skipWrite(b, n))
  BY <1>1, <1>2, Success, Refusal DEF skipWrite, Fits
<1> QED
  BY <1>3, <1>4

\* Storing bytes keeps the array an array of the same size.
LEMMA PokeFacts ==
    ASSUME NEW sz \in Nat, NEW arr \in Array(sz), NEW from \in Nat,
           NEW bytes \in Seq(Byte)
    PROVE  Poke(arr, from, bytes) \in Array(sz)
<1>1. DOMAIN arr = 0 .. (sz - 1)
  BY DEF Array
<1>2. ASSUME NEW i \in 0 .. (sz - 1)
      PROVE  (IF i \in from .. (from + Len(bytes) - 1)
              THEN bytes[i - from + 1] ELSE arr[i]) \in Byte
  <2>1. CASE i \in from .. (from + Len(bytes) - 1)
    <3>1. i - from + 1 \in 1 .. Len(bytes)
      BY <2>1
    <3> QED BY <2>1, <3>1
  <2>2. CASE i \notin from .. (from + Len(bytes) - 1)
    BY <2>2 DEF Array
  <2> QED BY <2>1, <2>2
<1> QED
  BY <1>1, <1>2 DEF Poke, Array

\* Bytes read from inside an array.
LEMMA PeekFacts ==
    ASSUME NEW sz \in Nat, NEW arr \in Array(sz), NEW from \in Nat,
           NEW n \in Nat, from + n <= sz
    PROVE  /\ Peek(arr, from, n) \in Seq(Byte)
           /\ Len(Peek(arr, from, n)) = n
           /\ \A i \in 1 .. n : Peek(arr, from, n)[i] = arr[from + i - 1]
<1>1. ASSUME NEW i \in 1 .. n PROVE arr[from + i - 1] \in Byte
  <2>1. from + i - 1 \in 0 .. (sz - 1)
    OBVIOUS
  <2> QED BY <2>1 DEF Array
<1> QED
  BY <1>1 DEF Peek

\* The bytes at the read cursor of a buffer.
LEMMA PeekBuffer ==
    ASSUME NEW b, WellFormed(b), NEW n \in Nat, b.m_readIndex + n <= b.m_bufferSz
    PROVE  /\ Peek(b.m_buffer, b.m_readIndex, n) \in Seq(Byte)
           /\ Len(Peek(b.m_buffer, b.m_readIndex, n)) = n
<1>1. PICK sz, from \in Nat : sz = b.m_bufferSz /\ from = b.m_readIndex
  BY Fields
<1>2. PICK arr \in Array(sz) : arr = b.m_buffer
  BY <1>1, Fields
<1>3. from + n <= sz
  BY <1>1
<1>4. Peek(arr, from, n) \in Seq(Byte) /\ Len(Peek(arr, from, n)) = n
  BY <1>3, PeekFacts
<1> QED
  BY <1>1, <1>2, <1>4

\* writeArray, and with it write and writeString.
LEMMA WriteFacts ==
    ASSUME NEW b, WellFormed(b), NEW data \in Seq(Byte)
    PROVE  Honest(b, writeArray(b, data))
<1>1. b.m_writeIndex \in Nat /\ b.m_buffer \in Array(b.m_bufferSz) /\ b.m_bufferSz \in Nat
  BY Fields
<1>2. Add(b.m_writeIndex, Len(data)) \in Nat
  <2>1. Len(data) \in Nat
    OBVIOUS
  <2> QED BY <1>1, <2>1, AddFacts
<1>3. Poke(b.m_buffer, b.m_writeIndex, data) \in Array(b.m_bufferSz)
  BY <1>1, PokeFacts
<1> QED
  BY <1>2, <1>3, Success, Refusal DEF writeArray, Fits

\* swapEndian turns bytes into as many bytes.
LEMMA SwapFacts ==
    ASSUME NEW data \in Seq(Byte)
    PROVE  swapEndian(data) \in Seq(Byte)
<1>1. ASSUME NEW i \in 1 .. Len(data) PROVE data[Len(data) + 1 - i] \in Byte
  <2>1. Len(data) + 1 - i \in 1 .. Len(data)
    OBVIOUS
  <2> QED BY <2>1
<1> QED
  BY <1>1 DEF swapEndian

\* Two hex characters, readable or not, make a byte.
LEMMA HexFacts ==
    ASSUME NEW chars \in Seq(HexChar)
    PROVE  HexBytes(chars) \in Seq(Byte)
<1>1. ASSUME NEW hi \in HexChar, NEW lo \in HexChar PROVE HexByte(hi, lo) \in Byte
  <2>1. HexBase \in Nat /\ HexBase > 1
    BY HexAssumption
  <2>2. ASSUME NEW t \in 0 .. (HexBase - 1), NEW l \in 0 .. (HexBase - 1)
        PROVE  t * HexBase + l \in 0 .. (HexBase * HexBase - 1)
    <3>1. t * HexBase <= (HexBase - 1) * HexBase /\ t * HexBase \in Nat
      BY <2>1
    <3>2. (HexBase - 1) * HexBase = HexBase * HexBase - HexBase
      BY <2>1
    <3> QED BY <2>1, <3>1, <3>2
  <2>3. HexBase * HexBase - 1 \in Byte
    BY ByteFacts DEF Byte
  <2> QED BY <2>1, <2>2, <2>3 DEF HexByte, HexChar, NotHex, Byte
<1>2. ASSUME NEW k \in 1 .. (Len(chars) \div 2)
      PROVE  chars[2 * k - 1] \in HexChar /\ chars[2 * k] \in HexChar
  <2>1. 2 * k - 1 \in 1 .. Len(chars) /\ 2 * k \in 1 .. Len(chars)
    OBVIOUS
  <2> QED BY <2>1
<1>3. Len(chars) \div 2 \in Nat
  OBVIOUS
<1> QED
  BY <1>1, <1>2, <1>3 DEF HexBytes

\* A write that is accepted puts the bytes behind the ones written before.
LEMMA WriteEffect ==
    ASSUME NEW b, WellFormed(b), NEW data \in Seq(Byte), Len(data) <= MaxSize
    PROVE  /\ b.m_writeIndex + Len(data) <= b.m_bufferSz =>
                writeArray(b, data).self =
                  Buffer(b.m_bufferSz, Poke(b.m_buffer, b.m_writeIndex, data),
                         b.m_readIndex, b.m_writeIndex + Len(data))
           /\ ~(b.m_writeIndex + Len(data) <= b.m_bufferSz) =>
                writeArray(b, data).self = b
<1>1. Add(b.m_writeIndex, Len(data)) = b.m_writeIndex + Len(data)
  <2>1. Len(data) \in Nat
    OBVIOUS
  <2>2. b.m_writeIndex \in Nat /\ b.m_writeIndex + Len(data) < SizeMod
    BY <2>1, Fields
  <2> QED BY <2>1, <2>2, AddFacts
<1> QED
  BY <1>1 DEF writeArray, Fits, Result, WriteAt, Holding, Buffer

\* Reading n bytes that fit hands out exactly the next n bytes; n is the size
\* of an array the caller owns, so the check does not wrap.
LEMMA ReadFacts ==
    ASSUME NEW b, WellFormed(b), NEW n \in Nat, n <= MaxSize
    PROVE  /\ Honest(b, readBytes(b, n))
           /\ Fits(b, b.m_readIndex, n) <=> b.m_readIndex + n <= b.m_bufferSz
           /\ b.m_readIndex + n <= b.m_bufferSz =>
                readBytes(b, n) = Result(ReadAt(b, b.m_readIndex + n), TRUE,
                                         Peek(b.m_buffer, b.m_readIndex, n))
           /\ readBytes(b, n).out \in Seq(Byte)
<1>1. /\ b.m_readIndex \in Nat /\ b.m_bufferSz \in Nat
      /\ b.m_buffer \in Array(b.m_bufferSz)
      /\ b.m_readIndex + n < SizeMod
  BY Fields
<1>2. Add(b.m_readIndex, n) = b.m_readIndex + n
  BY <1>1, AddFacts
<1>3. Fits(b, b.m_readIndex, n) <=> b.m_readIndex + n <= b.m_bufferSz
  BY <1>2 DEF Fits
<1>4. CASE b.m_readIndex + n <= b.m_bufferSz
  <2>1. readBytes(b, n) = Result(ReadAt(b, b.m_readIndex + n), TRUE,
                                 Peek(b.m_buffer, b.m_readIndex, n))
    BY <1>2, <1>3, <1>4 DEF readBytes
  <2>2. b.m_readIndex + n \in Nat
    BY <1>1
  <2>3. Honest(b, readBytes(b, n))
    BY <1>1, <1>4, <2>1, <2>2, Success
  <2>4. Peek(b.m_buffer, b.m_readIndex, n) \in Seq(Byte)
    BY <1>1, <1>4, PeekFacts
  <2>5. readBytes(b, n).out = Peek(b.m_buffer, b.m_readIndex, n)
    BY <2>1 DEF Result
  <2> QED BY <1>3, <2>1, <2>3, <2>4, <2>5
<1>5. CASE ~(b.m_readIndex + n <= b.m_bufferSz)
  <2>1. readBytes(b, n) = Result(b, FALSE, <<>>)
    BY <1>3, <1>5 DEF readBytes
  <2>2. <<>> \in Seq(Byte)
    OBVIOUS
  <2> QED BY <1>3, <1>5, <2>1, <2>2, Refusal DEF Result
<1> QED
  BY <1>4, <1>5

\* The scan of readLine stops at the first byte of D or at the end.
LEMMA FirstInFacts ==
    ASSUME NEW b, WellFormed(b), NEW from \in Nat, from <= b.m_bufferSz, NEW D
    PROVE  LET p == FirstIn(b, from, D)
           IN  /\ p \in from .. b.m_bufferSz
               /\ p < b.m_bufferSz => b.m_buffer[p] \in D
               /\ \A q \in from .. (p - 1) : b.m_buffer[q] \notin D
<1> DEFINE Stop(p) == /\ p < b.m_bufferSz => b.m_buffer[p] \in D
                      /\ \A q \in from .. (p - 1) : b.m_buffer[q] \notin D
           T == {p \in from .. b.m_bufferSz : p < b.m_bufferSz => b.m_buffer[p] \in D}
<1>1. b.m_bufferSz \in Nat
  BY Fields
<1>2. T \subseteq Nat /\ b.m_bufferSz \in T
  BY <1>1
<1>3. PICK p \in T : \A q \in T : ~(<<q, p>> \in OpToRel(<, Nat))
  <2>1. T # {}
    BY <1>2
  <2> QED BY <1>2, <2>1, WFMin, NatLessThanWellFounded
<1>4. \A q \in T : ~(q < p)
  BY <1>2, <1>3 DEF OpToRel
<1>5. p \in from .. b.m_bufferSz /\ Stop(p)
  <2>1. ASSUME NEW q \in from .. (p - 1) PROVE b.m_buffer[q] \notin D
    <3>1. q \in from .. b.m_bufferSz /\ q < b.m_bufferSz /\ q < p
      BY <1>1
    <3> QED BY <1>4, <3>1
  <2> QED BY <2>1
<1>6. \E z \in from .. b.m_bufferSz : Stop(z)
  BY <1>5
<1> HIDE DEF Stop
<1>7. (CHOOSE z \in from .. b.m_bufferSz : Stop(z)) \in from .. b.m_bufferSz
      /\ Stop(CHOOSE z \in from .. b.m_bufferSz : Stop(z))
  BY <1>6
<1> QED
  BY <1>7 DEF FirstIn, Stop

\* readLine: the line has no delimiter, what is swallowed after it is only
\* delimiters, and the cursor stays inside the array.
LEMMA ReadLineFacts ==
    ASSUME NEW b, WellFormed(b), NEW delims, delims \subseteq Byte
    PROVE  \E eol, next \in Nat :
             /\ b.m_readIndex <= eol /\ eol <= next /\ next <= b.m_bufferSz
             /\ \A q \in b.m_readIndex .. (eol - 1) : b.m_buffer[q] \notin delims
             /\ \A q \in eol .. (next - 1) : b.m_buffer[q] \in delims
             /\ eol < b.m_bufferSz => b.m_buffer[eol] \in delims
             /\ next < b.m_bufferSz => b.m_buffer[next] \notin delims
             /\ readLine(b, delims).self = ReadAt(b, next)
             /\ readLine(b, delims).out =
                  Peek(b.m_buffer, b.m_readIndex, eol - b.m_readIndex)
<1> DEFINE eol == FirstIn(b, b.m_readIndex, delims)
           next == FirstIn(b, eol, Byte \ delims)
<1>1. /\ b.m_readIndex \in Nat /\ b.m_bufferSz \in Nat
      /\ b.m_readIndex <= b.m_bufferSz /\ b.m_buffer \in Array(b.m_bufferSz)
  BY Fields
<1>2. /\ eol \in b.m_readIndex .. b.m_bufferSz
      /\ \A q \in b.m_readIndex .. (eol - 1) : b.m_buffer[q] \notin delims
      /\ eol < b.m_bufferSz => b.m_buffer[eol] \in delims
  BY <1>1, FirstInFacts
<1>3. /\ next \in eol .. b.m_bufferSz
      /\ \A q \in eol .. (next - 1) : b.m_buffer[q] \notin (Byte \ delims)
      /\ next < b.m_bufferSz => b.m_buffer[next] \in Byte \ delims
  <2>1. eol \in Nat /\ eol <= b.m_bufferSz
    BY <1>1, <1>2
  <2> HIDE DEF eol
  <2> QED BY <2>1, FirstInFacts
<1>4. readLine(b, delims).self = ReadAt(b, next)
      /\ readLine(b, delims).out = Peek(b.m_buffer, b.m_readIndex, eol - b.m_readIndex)
  BY DEF readLine, Result
<1> HIDE DEF eol, next
<1>5. ASSUME NEW q \in eol .. (next - 1) PROVE b.m_buffer[q] \in delims
  <2>1. q \in 0 .. (b.m_bufferSz - 1)
    BY <1>1, <1>2, <1>3
  <2>2. b.m_buffer[q] \in Byte
    BY <1>1, <2>1 DEF Array
  <2> QED BY <1>3, <2>2
<1>6. eol \in Nat /\ next \in Nat /\ b.m_readIndex <= eol /\ eol <= next /\ next <= b.m_bufferSz
  BY <1>1, <1>2, <1>3
<1> QED
  BY <1>2, <1>3, <1>4, <1>5, <1>6

\* A line that is read moves the cursor unless nothing is left, and readLine
\* reports more as long as the two cursors differ.
LEMMA ReadLineAdvances ==
    ASSUME NEW b, WellFormed(b), NEW delims, delims \subseteq Byte
    PROVE  \E next \in Nat :
             /\ b.m_readIndex <= next /\ next <= b.m_bufferSz
             /\ b.m_readIndex < b.m_bufferSz => b.m_readIndex < next
             /\ readLine(b, delims).self = ReadAt(b, next)
             /\ readLine(b, delims).ok = (Sub(b.m_writeIndex, next) > 0)
             /\ readLine(b, delims).out \in Seq(Byte)
             /\ b.m_readIndex = b.m_bufferSz => readLine(b, delims).out = <<>>
<1> DEFINE eol == FirstIn(b, b.m_readIndex, delims)
           next == FirstIn(b, eol, Byte \ delims)
<1>1. /\ b.m_readIndex \in Nat /\ b.m_bufferSz \in Nat
      /\ b.m_readIndex <= b.m_bufferSz /\ b.m_buffer \in Array(b.m_bufferSz)
  BY Fields
<1>2. /\ eol \in b.m_readIndex .. b.m_bufferSz
      /\ eol < b.m_bufferSz => b.m_buffer[eol] \in delims
  BY <1>1, FirstInFacts
<1>3. /\ next \in eol .. b.m_bufferSz
      /\ next < b.m_bufferSz => b.m_buffer[next] \in Byte \ delims
  <2>1. eol \in Nat /\ eol <= b.m_bufferSz
    BY <1>1, <1>2
  <2> HIDE DEF eol
  <2> QED BY <2>1, FirstInFacts
<1>4. /\ readLine(b, delims).self = ReadAt(b, next)
      /\ readLine(b, delims).ok = (remainingLength(ReadAt(b, next)) > 0)
      /\ readLine(b, delims).out = Peek(b.m_buffer, b.m_readIndex, eol - b.m_readIndex)
  BY DEF readLine, Result
<1>5. remainingLength(ReadAt(b, next)) = Sub(b.m_writeIndex, next)
  BY DEF remainingLength, ReadAt, Buffer
<1> HIDE DEF eol, next
<1>6. b.m_readIndex < b.m_bufferSz => b.m_readIndex < next
  <2>1. eol = next => next = b.m_bufferSz
    BY <1>1, <1>2, <1>3
  <2> QED BY <1>1, <1>2, <1>3, <2>1
<1>7. /\ Peek(b.m_buffer, b.m_readIndex, eol - b.m_readIndex) \in Seq(Byte)
      /\ Len(Peek(b.m_buffer, b.m_readIndex, eol - b.m_readIndex)) = eol - b.m_readIndex
  <2>1. eol - b.m_readIndex \in Nat /\ b.m_readIndex + (eol - b.m_readIndex) <= b.m_bufferSz
    BY <1>1, <1>2
  <2> QED BY <2>1, PeekBuffer
<1>8. b.m_readIndex = b.m_bufferSz => readLine(b, delims).out = <<>>
  <2>1. ASSUME NEW s \in Seq(Byte), Len(s) = 0 PROVE s = <<>>
    BY <2>1
  <2>2. b.m_readIndex = b.m_bufferSz => eol - b.m_readIndex = 0
    BY <1>1, <1>2
  <2> QED BY <1>4, <1>7, <2>1, <2>2
<1> QED
  BY <1>1, <1>2, <1>3, <1>4, <1>5, <1>6, <1>7, <1>8
-----------------------------------------------------------------------------
(* Recursion over numbers.                                                  *)

\* What holds at m and is passed on to the next number holds up to n.
LEMMA Reached ==
    ASSUME NEW m \in Nat, NEW n \in Nat, NEW T, m \in T,
           \A k \in (m + 1) .. n : k - 1 \in T => k \in T
    PROVE  \A k \in m .. n : k \in T
<1> DEFINE U == {k \in m .. n : k \notin T}
<1>1. SUFFICES ASSUME U # {} PROVE FALSE
  OBVIOUS
<1>2. U \subseteq Nat
  OBVIOUS
<1>3. PICK k \in U : \A j \in U : ~(<<j, k>> \in OpToRel(<, Nat))
  BY <1>1, <1>2, WFMin, NatLessThanWellFounded
<1>4. \A j \in U : ~(j < k)
  BY <1>2, <1>3 DEF OpToRel
<1>5. k # m /\ k \in (m + 1) .. n
  OBVIOUS
<1>6. k - 1 \in m .. n /\ k - 1 < k
  BY <1>5
<1>7. k - 1 \in T
  BY <1>4, <1>6
<1> QED
  BY <1>5, <1>7

\* The values of a function.
LEMMA PassedOn ==
    ASSUME NEW N \in Nat, NEW f, NEW S, f[0] \in S,
           \A k \in 1 .. N : f[k - 1] \in S => f[k] \in S
    PROVE  \A k \in 0 .. N : f[k] \in S
<1> DEFINE T == {k \in 0 .. N : f[k] \in S}
<1>1. 0 \in T /\ \A k \in (0 + 1) .. N : k - 1 \in T => k \in T
  OBVIOUS
<1> HIDE DEF T
<1>2. \A k \in 0 .. N : k \in T
  BY <1>1, Reached
<1> QED
  BY <1>2 DEF T

\* f starts at a and takes a step from each number to the next.
Stepwise(f, N, a, step) == f[0] = a /\ \A k \in 1 .. N : f[k] = step[k][f[k - 1]]

\* A function that starts at a and takes a step from each number to the next.
LEMMA StepwiseExists ==
    ASSUME NEW N \in Nat, NEW S, NEW a \in S, NEW step \in [1 .. N -> [S -> S]]
    PROVE  \E f \in [0 .. N -> S] : Stepwise(f, N, a, step)
<1> DEFINE Solves(f, n) == f[0] = a /\ \A k \in 1 .. n : f[k] = step[k][f[k - 1]]
           Upto(n) == {f \in [0 .. n -> S] : Solves(f, n)}
           some == [n \in 0 .. N |-> IF Upto(n) = {} THEN 0 ELSE 1]
<1>1. [k \in 0 .. 0 |-> a] \in Upto(0)
  OBVIOUS
<1>2. ASSUME NEW n \in 1 .. N, NEW g \in Upto(n - 1) PROVE Upto(n) # {}
  <2> DEFINE f == [k \in 0 .. n |-> IF k = n THEN step[n][g[n - 1]] ELSE g[k]]
  <2>1. g \in [0 .. (n - 1) -> S] /\ Solves(g, n - 1)
    OBVIOUS
  <2>2. g[n - 1] \in S /\ step[n][g[n - 1]] \in S
    BY <2>1
  <2>3. f \in [0 .. n -> S]
    BY <2>1, <2>2
  <2>4. ASSUME NEW k \in 1 .. n PROVE f[k] = step[k][f[k - 1]]
    <3>1. k - 1 \in 0 .. n /\ k - 1 # n /\ k \in 0 .. n
      OBVIOUS
    <3>2. f[k - 1] = g[k - 1]
      BY <3>1
    <3>3. CASE k = n
      BY <3>1, <3>2, <3>3
    <3>4. CASE k # n
      <4>1. k \in 1 .. (n - 1) /\ f[k] = g[k]
        BY <3>1, <3>4
      <4> QED BY <2>1, <3>2, <4>1
    <3> QED BY <3>3, <3>4
  <2>5. f[0] = a
    BY <2>1
  <2> HIDE DEF f
  <2> QED BY <2>3, <2>4, <2>5
<1> HIDE DEF Upto
<1>3. \A n \in 0 .. N : some[n] \in {1}
  <2>1. some[0] \in {1}
    BY <1>1
  <2>2. ASSUME NEW n \in 1 .. N, some[n - 1] \in {1} PROVE some[n] \in {1}
    <3>1. n - 1 \in 0 .. N /\ n \in 0 .. N
      OBVIOUS
    <3>2. Upto(n - 1) # {}
      BY <2>2, <3>1
    <3>3. Upto(n) # {}
      BY <1>2, <3>2
    <3> QED BY <3>1, <3>3
  <2> HIDE DEF some
  <2> QED BY <2>1, <2>2, PassedOn
<1>4. N \in 0 .. N /\ some[N] = 1
  BY <1>3
<1>5. Upto(N) # {}
  BY <1>4
<1> QED
  BY <1>5 DEF Upto, Stepwise
=============================================================================

--------------------------- MODULE ByteBufferOps ---------------------------
(***************************************************************************)
(* The methods of psi::tools::ByteBuffer that work inside one buffer, as   *)
(* operators on a record with the fields of the class.  m_buffer is the    *)
(* array the class owns, indexed from 0 like the C++ array; the modules    *)
(* that care who owns which array (ByteBuffer) keep it in a heap and build *)
(* this record from it.                                                    *)
(*                                                                         *)
(* A method returns [self, ok, out]: the buffer after the call, the bool   *)
(* result, and the bytes handed to the caller.                             *)
(***************************************************************************)
EXTENDS Integers, Sequences

CONSTANTS
    SizeMod,    \* size_t is arithmetic modulo SizeMod: 2^64 in the build
    MaxSize,    \* the largest array operator new can grant: PTRDIFF_MAX
    HexBase     \* a byte is two digits of this base: 16 in the code

ASSUME SizeAssumption == /\ SizeMod \in Nat /\ MaxSize \in Nat
                         /\ 2 * MaxSize < SizeMod
ASSUME HexAssumption == HexBase \in Nat /\ HexBase > 1

Byte == 0 .. (HexBase * HexBase - 1)
SizeT == 0 .. (SizeMod - 1)

Array(n) == [0 .. (n - 1) -> Byte]
Zeros(n) == [i \in 0 .. (n - 1) |-> 0]

\* The four data members of the class.
Buffers == [m_bufferSz : Nat, m_buffer : UNION {Array(n) : n \in 0 .. MaxSize},
            m_readIndex : Nat, m_writeIndex : Nat]

\* A buffer as every method expects to find it: the array has m_bufferSz bytes
\* and neither cursor is past its end.
WellFormed(b) == /\ b \in Buffers
                 /\ b.m_bufferSz \in 0 .. MaxSize
                 /\ b.m_buffer \in Array(b.m_bufferSz)
                 /\ b.m_readIndex <= b.m_bufferSz
                 /\ b.m_writeIndex <= b.m_bufferSz

\* size_t addition and subtraction.
Add(i, n) == (i + n) % SizeMod
Sub(i, n) == (i - n) % SizeMod

Buffer(sz, array, readIndex, writeIndex) ==
    [m_bufferSz |-> sz, m_buffer |-> array,
     m_readIndex |-> readIndex, m_writeIndex |-> writeIndex]

\* b with its read cursor, its write cursor or its bytes replaced.
ReadAt(b, i) == Buffer(b.m_bufferSz, b.m_buffer, i, b.m_writeIndex)
WriteAt(b, i) == Buffer(b.m_bufferSz, b.m_buffer, b.m_readIndex, i)
Holding(b, array) == Buffer(b.m_bufferSz, array, b.m_readIndex, b.m_writeIndex)

\* ByteBuffer(size_t): `new uint8_t[n]()` and both cursors at 0.
NewBuffer(n) == Buffer(n, Zeros(n), 0, 0)

size(b) == b.m_bufferSz
length(b) == b.m_writeIndex
remainingLength(b) == Sub(b.m_writeIndex, b.m_readIndex)
at(b, pos) == IF pos >= b.m_bufferSz THEN 0 ELSE b.m_buffer[pos]

Result(b, ok, out) == [self |-> b, ok |-> ok, out |-> out]

-----------------------------------------------------------------------------
(* Cursors.  The one check every method makes is index + n > m_bufferSz in
   size_t arithmetic, so an n close to 2^64 wraps around and passes it.     *)

\* Mutant: one byte past the end is accepted.
FitsOffByOne(b, index, n) == Add(index, n) <= b.m_bufferSz + 1

Fits(b, index, n) == Add(index, n) <= b.m_bufferSz

\* Mutants: resetRead loses the write cursor too; reset forgets the read cursor.
resetBoth(b) == WriteAt(ReadAt(b, 0), 0)
resetHalf(b) == WriteAt(b, 0)

resetRead(b) == ReadAt(b, 0)
resetWrite(b) == WriteAt(b, 0)
reset(b) == resetWrite(resetRead(b))
clear(b) == reset(Holding(b, Zeros(b.m_bufferSz)))

skipRead(b, n) ==
    IF Fits(b, b.m_readIndex, n)
    THEN Result(ReadAt(b, Add(b.m_readIndex, n)), TRUE, <<>>)
    ELSE Result(b, FALSE, <<>>)

skipWrite(b, n) ==
    IF Fits(b, b.m_writeIndex, n)
    THEN Result(WriteAt(b, Add(b.m_writeIndex, n)), TRUE, <<>>)
    ELSE Result(b, FALSE, <<>>)

-----------------------------------------------------------------------------
(* Writing: the bytes of the argument at m_writeIndex, all of them or none. *)

Poke(array, from, bytes) ==
    [i \in DOMAIN array |-> IF i \in from .. (from + Len(bytes) - 1)
                            THEN bytes[i - from + 1] ELSE array[i]]

writeArray(b, data) ==
    IF Fits(b, b.m_writeIndex, Len(data))
    THEN Result(WriteAt(Holding(b, Poke(b.m_buffer, b.m_writeIndex, data)),
                        Add(b.m_writeIndex, Len(data))), TRUE, <<>>)
    ELSE Result(b, FALSE, <<>>)

swapEndian(data) == [i \in 1 .. Len(data) |-> data[Len(data) + 1 - i]]

write(b, data) == writeArray(b, data)
writeSwapped(b, data) == write(b, swapEndian(data))
writeString(b, data) == writeArray(b, data)

\* A character of a hex string is the digit it stands for, or NotHex, for
\* which the lookup table of writeHexString holds 0xff.
NotHex == HexBase
HexChar == 0 .. NotHex

\* uint8_t(hi << 4) | lo: a bad hi leaves the high digit all ones, a bad lo
\* makes the whole byte ones.
HexByte(hi, lo) ==
    LET top == IF hi = NotHex THEN HexBase - 1 ELSE hi
    IN  IF lo = NotHex THEN HexBase * HexBase - 1 ELSE top * HexBase + lo

HexBytes(chars) ==
    [k \in 1 .. (Len(chars) \div 2) |-> HexByte(chars[2 * k - 1], chars[2 * k])]

writeHexString(b, chars) ==
    IF Len(chars) % 2 # 0 THEN Result(b, FALSE, <<>>)
                          ELSE writeArray(b, HexBytes(chars))

-----------------------------------------------------------------------------
(* Reading: bounded by m_bufferSz, not by m_writeIndex.                     *)

Peek(array, from, n) == [i \in 1 .. n |-> array[from + i - 1]]

readBytes(b, n) ==
    IF Fits(b, b.m_readIndex, n)
    THEN Result(ReadAt(b, Add(b.m_readIndex, n)), TRUE,
                Peek(b.m_buffer, b.m_readIndex, n))
    ELSE Result(b, FALSE, <<>>)

read(b, n) == readBytes(b, n)
readString(b, n) == readBytes(b, n)

readSwapped(b, n) ==
    LET r == read(b, n) IN Result(r.self, r.ok, swapEndian(r.out))

\* The loop of readLine: the first position from `from` on whose byte is in D,
\* or the end of the buffer.
FirstIn(b, from, D) ==
    CHOOSE p \in from .. b.m_bufferSz :
        /\ p < b.m_bufferSz => b.m_buffer[p] \in D
        /\ \A q \in from .. (p - 1) : b.m_buffer[q] \notin D

\* Mutant: the last byte is given back even if the loop ran off the end.
readLineStepsBack(b, delims) ==
    LET eol == FirstIn(b, b.m_readIndex, delims)
    IN  Result(ReadAt(b, FirstIn(b, eol, Byte \ delims) - 1), TRUE, <<>>)

\* A line ends at the first delimiter; the delimiters that follow it are
\* swallowed with it.  The result is not whether a delimiter was met but
\* whether remainingLength() is non-zero afterwards.
readLine(b, delims) ==
    LET eol == FirstIn(b, b.m_readIndex, delims)
        next == FirstIn(b, eol, Byte \ delims)
        self == ReadAt(b, next)
    IN  Result(self, remainingLength(self) > 0,
               Peek(b.m_buffer, b.m_readIndex, eol - b.m_readIndex))

-----------------------------------------------------------------------------
(* From one buffer into another one: readToByteBuffer(buffer, N).           *)

\* Both bounds are checked before either buffer is touched.
CanTransferUnchecked(src, dst, n) ==   \* Mutant: the destination is not looked at.
    Fits(src, src.m_readIndex, n)

CanTransfer(src, dst, n) == /\ Fits(src, src.m_readIndex, n)
                            /\ Fits(dst, dst.m_writeIndex, n)

\* The destination after a successful transfer.
Received(src, dst, n) ==
    writeArray(dst, readBytes(src, n).out).self
=============================================================================

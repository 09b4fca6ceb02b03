-------------------------------- MODULE Sha --------------------------------
(***************************************************************************)
(* psi::tools::crypt::sha: how messages are padded and cut into blocks,    *)
(* how HMAC is built from the hash, and the loop of hkdf256Expand, all on  *)
(* ByteBuffers whose cursors each call moves.  The compression function is *)
(* a parameter.                                                            *)
(***************************************************************************)
EXTENDS ByteBufferOps

CONSTANTS
    BlockLen,         \* bytes of a block: 64
    DigestLen,        \* bytes of a hash: 32
    LengthLen,        \* bytes of the length field: 8
    CounterMod,       \* the block counter of HKDF is modulo this: 2^8
    Mark,             \* the byte that ends the data: 0x80
    Compress(_, _),   \* the hash after one more block
    H,                \* the initial hash
    IPad, OPad,       \* b ^ 0x36 and b ^ 0x5c, as functions on bytes
    Keys, Infos,      \* the pseudo-random keys and the infos of a client
    MaxLen            \* the longest output it asks for

ASSUME ShaAssumption ==
    /\ {BlockLen, DigestLen, LengthLen, CounterMod} \subseteq Nat \ {0}
    /\ DigestLen < BlockLen /\ LengthLen < BlockLen
    /\ CounterMod \in 2 .. (HexBase * HexBase)
    /\ Mark \in Byte /\ H \in [1 .. DigestLen -> Byte]
    /\ IPad \in [Byte -> Byte] /\ OPad \in [Byte -> Byte]
    /\ \A s \in Keys \cup Infos : s \in Seq(Byte)

\* What is hashed, and the output, fit in memory.
ASSUME MemoryAssumption ==
    /\ 3 * BlockLen <= MaxSize
    /\ \A s \in Keys \cup Infos : Len(s) + 3 * BlockLen <= MaxSize
    /\ MaxLen \in Nat /\ MaxLen + DigestLen <= MaxSize

VARIABLES
    prk, info,   \* the const ByteBuffers of the caller
    len,
    okm, temp,   \* the locals of hkdf256Expand
    i,
    result       \* the bytes returned, NoResult before that

vars == <<prk, info, len, okm, temp, i, result>>

NoResult == <<-1>>

-----------------------------------------------------------------------------
(* Hashing: operators on byte strings.                                      *)

Repeat(b, n) == [k \in 1 .. n |-> b]
Bytes(b) == Peek(b.m_buffer, 0, b.m_bufferSz)
Full(data) == writeArray(NewBuffer(Len(data)), data).self

\* The bytes of a number in memory, least significant first.
LittleEndian(n) ==
    LET byte == HexBase * HexBase
        rest[k \in 0 .. LengthLen] == IF k = 0 THEN n ELSE rest[k - 1] \div byte
    IN  [k \in 1 .. LengthLen |-> rest[k - 1] % byte]

\* requiredBytes - 1 - 8 is a size_t: it wraps around when the block has no
\* room for the length, and skipWrite then moves the cursor back.
padMessage(data) ==
    LET required == BlockLen - (Len(data) % BlockLen)
        written == writeArray(NewBuffer(Len(data) + required), data).self
        marked == write(written, <<Mark>>).self
        skipped == skipWrite(marked, Sub(Sub(required, 1), LengthLen)).self
    IN  Bytes(writeSwapped(skipped, LittleEndian(8 * Len(data))).self)

\* The loop of encode256 over the blocks of a padded message.
Chain(padded) ==
    LET block(k) == SubSeq(padded, BlockLen * (k - 1) + 1, BlockLen * k)
        hash[k \in 0 .. (Len(padded) \div BlockLen)] ==
            IF k = 0 THEN H ELSE Compress(hash[k - 1], block(k))
    IN  hash[Len(padded) \div BlockLen]

encode256(data) == Chain(padMessage(data))

ZeroFilled(key) == key \o Repeat(0, BlockLen - Len(key))
Masked(pad, key) == [k \in 1 .. Len(key) |-> pad[key[k]]]

\* A key of more than one block is hashed; zeros fill it up.
hmac256(key, data) ==
    LET paddedKey == ZeroFilled(IF Len(key) > BlockLen THEN encode256(key) ELSE key)
        inner == encode256(Masked(IPad, paddedKey) \o data)
    IN  encode256(Masked(OPad, paddedKey) \o inner)

-----------------------------------------------------------------------------
(* hkdf256Expand.                                                           *)

\* Mutant: no block for the incomplete end.
OutputBufferTooSmall(n) == NewBuffer((n \div DigestLen) * DigestLen)

OutputBuffer(n) == NewBuffer(((n \div DigestLen) + 1) * DigestLen)

\* The caller's buffers may have been read before.
Init ==
    /\ \E k \in Keys : \E c \in 0 .. Len(k) : prk = ReadAt(Full(k), c)
    /\ \E f \in Infos : \E c \in 0 .. Len(f) : info = ReadAt(Full(f), c)
    /\ len \in 0 .. MaxLen
    /\ okm = OutputBuffer(len)
    /\ temp = NewBuffer(DigestLen + size(info) + 1)
    /\ i = 1
    /\ result = NoResult

\* Mutant: a wider counter.
IncrementWide(n) == n + 1

Increment(n) == (n + 1) % CounterMod

\* readToByteBuffer(to, size): the pair of buffers after the call.
ReadTo(from, to, n) ==
    IF CanTransfer(from, to, n) THEN <<readBytes(from, n).self, Received(from, to, n)>>
                                ELSE <<from, to>>

\* What hmac256 leaves of the key: one of at most a block is read to its end.
KeyRead(key) == IF size(key) > BlockLen THEN resetRead(key) ELSE ReadAt(key, size(key))

\* Mutant: temp is not cleared before the hash is stored in it.
ExpandUncleared ==
    LET infoRead == ReadTo(resetRead(info), temp, size(info))
        input == resetRead(write(infoRead[2], <<i>>).self)
        message == readBytes(input, length(input))
        t == Full(hmac256(Bytes(prk), message.out))
    IN  /\ result = NoResult /\ length(okm) < len
        /\ okm' = ReadTo(t, okm, size(t))[2]
        /\ temp' = ReadTo(t, message.self, size(t))[2]
        /\ i' = Increment(i)
        /\ info' = infoRead[1]
        /\ prk' = KeyRead(prk)
        /\ UNCHANGED <<len, result>>

\* One turn of the loop.
Expand ==
    LET infoRead == ReadTo(resetRead(info), temp, size(info))
        input == resetRead(write(infoRead[2], <<i>>).self)
        message == readBytes(input, length(input))
        t == Full(hmac256(Bytes(prk), message.out))
    IN  /\ result = NoResult /\ length(okm) < len
        /\ okm' = ReadTo(t, okm, size(t))[2]
        /\ temp' = ReadTo(t, clear(message.self), size(t))[2]
        /\ i' = Increment(i)
        /\ info' = infoRead[1]
        /\ prk' = KeyRead(prk)
        /\ UNCHANGED <<len, result>>

Finish ==
    /\ result = NoResult /\ length(okm) >= len
    /\ result' = readBytes(okm, len).out
    /\ okm' = readBytes(okm, len).self
    /\ UNCHANGED <<prk, info, len, temp, i>>

Next == Expand \/ Finish
Spec == Init /\ [][Next]_vars

-----------------------------------------------------------------------------
(* Properties.                                                              *)

ValidBuffer(b) == /\ b.m_buffer \in Array(b.m_bufferSz)
                  /\ {b.m_readIndex, b.m_writeIndex} \subseteq 0 .. b.m_bufferSz
TypeOK == /\ \A b \in {prk, info, okm, temp} : ValidBuffer(b)
          /\ len \in 0 .. MaxLen /\ i \in 0 .. (CounterMod - 1)
          /\ result = NoResult \/ result \in [1 .. len -> Byte]

\* FIPS 180-4, section 5.1.1: the mark, as few zeros as possible and the number
\* of bits, most significant byte first.
FipsPadding(data) ==
    LET zeros == CHOOSE z \in 0 .. (BlockLen - 1) :
                    (Len(data) + 1 + z + LengthLen) % BlockLen = 0
    IN  data \o <<Mark>> \o Repeat(0, zeros) \o swapEndian(LittleEndian(8 * Len(data)))
FipsHash(data) == Chain(FipsPadding(data))

\* RFC 2104: H(K XOR opad, H(K XOR ipad, text)).
RfcHmac(key, text) ==
    LET K == ZeroFilled(IF Len(key) > BlockLen THEN FipsHash(key) ELSE key)
    IN  FipsHash(Masked(OPad, K) \o FipsHash(Masked(IPad, K) \o text))

\* RFC 5869, section 2.3: T(n) = HMAC-Hash(PRK, T(n-1) | info | n).
RfcBlock(n) ==
    LET T[k \in 0 .. n] ==
          IF k = 0 THEN <<>>
          ELSE RfcHmac(Bytes(prk), T[k - 1] \o Bytes(info) \o <<k>>)
    IN  T[n]

\* "Generate key material using HKDF algorithm" (Encryptor.h, hkdf256Expand): the
\* output is T(1) T(2) ... block after block, whatever the cursors of the caller's
\* buffers are, and `result` is as much of it as was asked for.
OkmFollowsRfc ==
    /\ \A n \in 1 .. (length(okm) \div DigestLen) :
         Peek(okm.m_buffer, DigestLen * (n - 1), DigestLen) = RfcBlock(n)
    /\ result # NoResult => result = Peek(okm.m_buffer, 0, len) /\ length(okm) >= len

\* Every turn of the loop adds a block to the output, up to what the buffer can
\* hold, so the loop ends: `while (okm.length() < len)` never turns on the spot.
EveryTurnAddsABlock ==
    [][length(okm') = length(okm) + DigestLen \/ result' # NoResult]_vars
=============================================================================

------------------------------- MODULE AesGcm -------------------------------
(***************************************************************************)
(* psi::tools::crypt::aes_gcm on ByteBuffers.  A block is a number, its    *)
(* first byte the most significant.  The block cipher is a parameter.  A   *)
(* call returns the data and the iv after it, the result and the tag.      *)
(***************************************************************************)
EXTENDS ByteBufferOps, XorBytes

CONSTANTS
    BlockLen,     \* bytes of a block: 16
    IvLen,        \* bytes of an iv that is used as it is: 12
    KeyLen,       \* bytes of a key: 16
    LengthMod,    \* lengths are written modulo this: 2^32
    R_POLY,       \* what is added when a bit is shifted out: 0xe1
    Cipher(_, _)  \* a block encrypted with the bytes of a key

ASSUME GcmAssumption ==
    /\ {BlockLen, IvLen, KeyLen, LengthMod} \subseteq Nat \ {0}
    /\ IvLen < BlockLen /\ BlockLen < 256 /\ R_POLY \in Uint8 /\ Byte = Uint8

Power256[n \in Nat] == IF n = 0 THEN 1 ELSE 256 * Power256[n - 1]
BlockMod == Power256[BlockLen]
Bytes(b) == Peek(b.m_buffer, 0, b.m_bufferSz)
Written(b) == Peek(b.m_buffer, 0, length(b))
Zero(n) == [k \in 1 .. n |-> 0]

\* The block of at most BlockLen bytes, filled up with zeros; and its bytes.
BlockOf(bytes) ==
    LET value[k \in 0 .. BlockLen] ==
          IF k = 0 THEN 0
          ELSE 256 * value[k - 1] + (IF k <= Len(bytes) THEN bytes[k] ELSE 0)
    IN  value[BlockLen]
BytesOf(block) == [k \in 1 .. BlockLen |-> (block \div Power256[BlockLen - k]) % 256]

xorBlocks(a, b) ==
    BlockOf([k \in 1 .. BlockLen |-> Xor(BytesOf(a)[k], BytesOf(b)[k])])

\* The counter after n increments.
incr(counter, n) == (counter + n) % BlockMod

rightshiftBlock(a) == a \div 2
Bit(block, n) == (block \div 2 ^ (8 * BlockLen - 1 - n)) % 2

\* Bit after bit of y, the most significant first: v, shifted, is added to p.
gfMultBlock(x, y) ==
    LET shift(v) == IF v % 2 = 0 THEN rightshiftBlock(v)
                    ELSE xorBlocks(rightshiftBlock(v), BlockOf(<<R_POLY>>))
        turn(n) == [s \in [p : 0 .. (BlockMod - 1), v : 0 .. (BlockMod - 1)] |->
                      [p |-> IF Bit(y, n) = 1 THEN xorBlocks(s.p, s.v) ELSE s.p,
                       v |-> shift(s.v)]]
        step[n \in 0 .. (8 * BlockLen)] ==
          IF n = 0 THEN [p |-> 0, v |-> x] ELSE turn(n - 1)[step[n - 1]]
    IN  step[8 * BlockLen].p

Ceil(n) == (n + BlockLen - 1) \div BlockLen
Upto(s, from, to) == SubSeq(s, from, IF to > Len(s) THEN Len(s) ELSE to)

ghashBlock(h, data, result) ==
    LET n == Ceil(Len(data))
        block(i) == BlockOf(Upto(data, i * BlockLen + 1, (i + 1) * BlockLen))
        multiplied == [x \in 0 .. (BlockMod - 1) |-> gfMultBlock(x, h)]
        temp[i \in 0 .. n] ==
          IF i = 0 THEN result ELSE multiplied[xorBlocks(temp[i - 1], block(i - 1))]
    IN  temp[n]

\* The lengths, in bits, end the two halves of the last block.
lengthBlock(m, n) == ((8 * m) % LengthMod) * Power256[BlockLen \div 2] + ((8 * n) % LengthMod)

ghash(h, acc, cipher) ==
    gfMultBlock(xorBlocks(ghashBlock(h, cipher, ghashBlock(h, acc, 0)),
                          lengthBlock(Len(acc), Len(cipher))), h)

-----------------------------------------------------------------------------
(* The calls.                                                               *)

\* A key of the wrong size encrypts to nothing, and the block that should be
\* read from that stays zero.
Encrypted(key, block) == IF size(key) # KeyLen THEN 0 ELSE Cipher(Bytes(key), block)
H(key) == Encrypted(key, 0)

\* Y[0].  An iv of IvLen bytes is read from its cursor; where that fails, the
\* counter keeps its zeros.
Y0(key, iv) ==
    IF length(iv) = IvLen
    THEN BlockOf(IF readBytes(iv, IvLen).ok THEN readBytes(iv, IvLen).out ELSE <<>>) + 1
    ELSE ghash(H(key), <<>>, Written(iv))

\* Mutant: the cursor moves whether or not there are bytes left.
IvSkipped(iv) == IF length(iv) = IvLen THEN ReadAt(iv, iv.m_readIndex + IvLen) ELSE iv

IvRead(iv) == IF length(iv) = IvLen THEN readBytes(iv, IvLen).self ELSE iv

\* The loop over data.length() bytes: a block that cannot be read from the
\* cursor is zero, but the incomplete one at the end may still be there.
SeenOf(data) ==
    LET n == length(data) \div BlockLen
        extra == length(data) % BlockLen
        left == size(data) - data.m_readIndex
        whole == IF n * BlockLen <= left THEN n ELSE left \div BlockLen
        tail == readBytes(ReadAt(data, data.m_readIndex + whole * BlockLen), extra)
    IN  [bytes |-> Peek(data.m_buffer, data.m_readIndex, whole * BlockLen)
                       \o Zero((n - whole) * BlockLen)
                       \o (IF tail.ok THEN tail.out ELSE Zero(extra)),
         self  |-> tail.self]

\* Byte k of the result is combined with the counter of its block.
Streamed(key, y0, bytes) ==
    LET stream(n) == BytesOf(Encrypted(key, incr(y0, n)))
    IN  [k \in 1 .. Len(bytes) |->
            Xor(bytes[k], stream((k - 1) \div BlockLen + 1)[((k - 1) % BlockLen) + 1])]

Crypted(data, key, iv) ==
    writeArray(NewBuffer(size(data)), Streamed(key, Y0(key, iv), SeenOf(data).bytes)).self

TagOf(key, iv, acc, cipher) ==
    BytesOf(xorBlocks(ghash(H(key), Written(acc), Written(cipher)),
                      Encrypted(key, Y0(key, iv))))

GcmCall(data, iv, out, tag) == [data |-> data, iv |-> iv, out |-> out, tag |-> tag]

encrypt(data, key, iv, acc) ==
    LET out == Crypted(data, key, iv)
    IN  GcmCall(SeenOf(data).self, IvRead(iv), out, TagOf(key, iv, acc, out))

\* Mutant: a tag of the right size will do.
TagFits(tag, computed) == size(tag) > 0 => size(tag) = Len(computed)

\* An empty tag is not compared.
TagMatches(tag, computed) == size(tag) > 0 => Bytes(tag) = computed

decrypt(data, key, iv, tag, acc) ==
    LET computed == TagOf(key, iv, acc, data)
    IN  IF TagMatches(tag, computed)
        THEN GcmCall(SeenOf(data).self, IvRead(iv), Crypted(data, key, iv), computed)
        ELSE GcmCall(data, IvRead(iv), NewBuffer(0), computed)
=============================================================================

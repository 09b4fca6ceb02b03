----------------------------- MODULE Encryptor -----------------------------
(***************************************************************************)
(* psi::tools::Encryptor: a client wraps a text into layers of Base64,     *)
(* AES-128 and AES-128-GCM and takes them off again, with one iv, one tag  *)
(* and one key whose cursors the calls move.                               *)
(***************************************************************************)
EXTENDS AesGcm

CONSTANTS
    Decipher(_, _),   \* the inverse of Cipher
    Texts,            \* what the client starts from
    Ivs, TagSizes,    \* the bytes of its iv, the size of its tag buffer
    Acc,              \* its additional data
    Rands,            \* the numbers a session key is made of
    MaxCalls          \* bound: the calls of the client

B64 == INSTANCE Base64

ASSUME TextAssumption ==
    /\ Texts \cup Ivs \cup {Acc} \subseteq Seq(Byte) /\ Rands \subseteq Byte
    /\ \A s \in Texts \cup Ivs \cup {Acc} : Len(s) <= MaxSize
    /\ TagSizes \subseteq 0 .. MaxSize /\ KeyLen < 256 /\ 32 <= MaxSize /\ KeyLen <= MaxSize
    /\ MaxCalls \in Nat

VARIABLES
    text,     \* what the client wrapped
    data,     \* the buffer it has got to
    key, iv, tag,
    calls,    \* the calls so far
    layers,   \* history: the layers around the text, the last one first
    sealed,   \* history: what GCM encryption read, with the tag it made
    sound     \* history: the client called as a call can be expected to work

vars == <<text, data, key, iv, tag, calls, layers, sealed, sound>>

Filled(n, bytes) == writeArray(NewBuffer(n), bytes).self
Whole(bytes) == Filled(Len(bytes), bytes)
acc == Whole(Acc)

\* 32 bytes: a number of four bytes and fifteen of two are written, of which
\* the last does not fit.
SessionKey(r) ==
    LET Written16[n \in 0 .. 15] ==
          IF n = 0 THEN write(NewBuffer(32), <<r, r, r, r>>).self
                   ELSE write(Written16[n - 1], <<r, r>>).self
    IN  Written16[15]

GoodKey == Whole([k \in 1 .. KeyLen |-> k])

Init ==
    /\ text \in Texts /\ data = Whole(text)
    /\ key = GoodKey
    /\ iv \in {Whole(v) : v \in Ivs}
    /\ tag \in {NewBuffer(n) : n \in TagSizes}
    /\ calls = 0 /\ layers = <<>> /\ sealed = {} /\ sound = TRUE

Layer(kind, computed) ==
    [kind |-> kind, plain |-> Bytes(data), tag |-> computed]
Push(kind, computed) ==
    /\ calls + Len(layers) + 2 <= MaxCalls   \* leaves room to take all layers off
    /\ calls' = calls + 1
    /\ layers' = <<Layer(kind, computed)>> \o layers
Pop(kind) == /\ layers # <<>> /\ Head(layers).kind = kind
             /\ calls' = calls + 1
             /\ layers' = Tail(layers)

\* A call whose result is larger than any array throws, and changes nothing.
Allocated(b) == size(b) <= MaxSize

-----------------------------------------------------------------------------
(* Wrapping and unwrapping.                                                 *)

encryptBase64 ==
    /\ Push("base64", <<>>)
    /\ data' = B64!encryptBase64(data).out /\ Allocated(data')
    /\ sound' = (sound /\ data.m_readIndex = 0)
    /\ UNCHANGED <<text, key, iv, tag, sealed>>

decryptBase64 ==
    /\ Pop("base64")
    /\ data' = B64!decryptBase64(data).out
    /\ sound' = (sound /\ data.m_readIndex = 0)
    /\ UNCHANGED <<text, key, iv, tag, sealed>>

\* The blocks of the bytes, each looked up in the code.
Blockwise(code, bytes) ==
    [k \in 1 .. (BlockLen * Ceil(Len(bytes))) |->
        LET n == (k - 1) \div BlockLen
        IN  BytesOf(code[BlockOf(Upto(bytes, n * BlockLen + 1, (n + 1) * BlockLen))])
                [((k - 1) % BlockLen) + 1]]
Ciphered == [b \in 0 .. (BlockMod - 1) |-> Cipher(Bytes(key), b)]
Deciphered == [b \in 0 .. (BlockMod - 1) |-> Decipher(Bytes(key), b)]

\* AES writes through data(): the write cursor of the result stays at 0.
Unwritten(bytes) == resetWrite(Whole(bytes))

encryptAes128 ==
    LET bytes == Bytes(data)
        extra == Len(bytes) % BlockLen
    IN  /\ Push("aes", <<>>)
        /\ data' = IF size(key) # KeyLen THEN NewBuffer(0)
                   ELSE Unwritten(Blockwise(Ciphered, bytes)
                                      \o (IF extra = 0 THEN <<>> ELSE <<extra>>))
        /\ Allocated(data')
        /\ sound' = (sound /\ size(key) = KeyLen)
        /\ UNCHANGED <<text, key, iv, tag, sealed>>

\* The last byte of an incomplete number of blocks tells how much of the last
\* block is data.  The calls that are left out read or write outside a buffer.
decryptAes128 ==
    LET bytes == Bytes(data)
        n == Len(bytes)
        extra == IF n % BlockLen = 0 THEN 0 ELSE bytes[n]
    IN  /\ Pop("aes")
        /\ n % BlockLen = 0 \/ (n % BlockLen = 1 /\ n > BlockLen /\ extra < BlockLen)
        /\ data' = IF size(key) # KeyLen THEN NewBuffer(0)
                   ELSE IF n % BlockLen = 0 THEN Unwritten(Blockwise(Deciphered, bytes))
                   ELSE Unwritten(SubSeq(Blockwise(Deciphered, SubSeq(bytes, 1, n - 1)),
                                         1, n - 1 - BlockLen + extra))
        /\ sound' = (sound /\ size(key) = KeyLen)
        /\ UNCHANGED <<text, key, iv, tag, sealed>>

GcmReady == /\ data.m_readIndex = 0 /\ length(data) = size(data)
            /\ length(iv) = IvLen => iv.m_readIndex = 0

\* The tag is appended to the client's buffer, if there is room for it.
encryptAes128Gcm ==
    LET call == encrypt(data, key, iv, acc)
    IN  /\ Push("gcm", call.tag)
        /\ data' = call.out /\ iv' = call.iv
        /\ tag' = write(tag, call.tag).self
        /\ sealed' = sealed \cup {[tag |-> call.tag, seen |-> SeenOf(data).bytes]}
        /\ sound' = (sound /\ GcmReady)
        /\ UNCHANGED <<text, key>>

decryptAes128Gcm ==
    LET call == decrypt(data, key, iv, tag, acc)
    IN  /\ Pop("gcm")
        /\ data' = call.out /\ iv' = call.iv
        /\ sound' = (sound /\ GcmReady /\ TagMatches(tag, Head(layers).tag))
        /\ UNCHANGED <<text, key, tag, sealed>>

-----------------------------------------------------------------------------
(* What else the client does, and what may happen to a text.                *)

generateSessionKey ==
    /\ layers = <<>>
    /\ \E r \in Rands : key' = SessionKey(r)
    /\ UNCHANGED <<text, data, iv, tag, calls, layers, sealed, sound>>

ReadAByte == /\ data.m_readIndex = 0   \* bound
             /\ data' = read(data, 1).self /\ data' # data
             /\ UNCHANGED <<text, key, iv, tag, calls, layers, sealed, sound>>
Rewind == \/ data' = resetRead(data) /\ UNCHANGED <<text, key, iv, tag, calls, layers, sealed, sound>>
          \/ iv' = resetRead(iv) /\ UNCHANGED <<text, data, key, tag, calls, layers, sealed, sound>>
          \/ tag' = resetWrite(tag) /\ UNCHANGED <<text, data, key, iv, calls, layers, sealed, sound>>

\* A character of a Base64 text is damaged: it is another digit, padding or none
\* of the alphabet.
Damage ==
    /\ layers # <<>> /\ Head(layers).kind = "base64"
    /\ sound   \* bound: one damage, and nothing else wrong before
    /\ \E p \in DOMAIN data.m_buffer, c \in {65, B64!m_base64Pad, 42} :
          data' = Holding(data, Poke(data.m_buffer, p, <<c>>))
    /\ sound' = FALSE
    /\ UNCHANGED <<text, key, iv, tag, calls, layers, sealed>>

Next == \/ encryptBase64 \/ decryptBase64 \/ encryptAes128 \/ decryptAes128
        \/ encryptAes128Gcm \/ decryptAes128Gcm
        \/ generateSessionKey \/ ReadAByte \/ Rewind \/ Damage

Spec == Init /\ [][Next]_vars

-----------------------------------------------------------------------------
(* Properties.                                                              *)

\* The buffers are arrays of bytes and no cursor is past the end of one.
TypeOK ==
    /\ \A b \in {data, key, iv, tag} :
          /\ b.m_buffer \in Array(b.m_bufferSz)
          /\ {b.m_readIndex, b.m_writeIndex} \subseteq 0 .. b.m_bufferSz
    /\ calls + Len(layers) <= MaxCalls /\ sound \in BOOLEAN

\* However the layers are stacked, a client that gives AES a key of its size, the
\* other calls buffers whose cursors are at the start, to GCM only buffers that were
\* written to their end, and to its decryption the tag that belongs to the layer or
\* an empty one, gets its text back.
SoundCallsRestore == sound /\ layers = <<>> => Bytes(data) = text

\* "AES-128-GCM decrypt, verifies `tag`" (README.md:97), with a key of the right
\* size, a tag to compare and data that is read from its start: what comes back is
\* what the encryption that made this tag read, or nothing, whether the text was
\* damaged on the way, the iv not rewound between the calls, or the buffer still
\* holds the tag of another layer because it was full (Encryptor.cpp:41).  The three
\* conditions are needed: a key of another size encrypts nothing and makes tags of
\* zeros, an empty buffer is not compared (aes_gcm.cpp:255), and where the cursor of
\* the data has moved, the tag is computed from the start (aes_gcm.cpp:246-253) but
\* the text from the cursor (aes_gcm.cpp:270).  Encryption does not read the whole
\* text if its cursor has moved or its end was not written.
RefusedOrRestored ==
    [][decryptAes128Gcm /\ size(key) = KeyLen /\ size(tag) > 0 /\ data.m_readIndex = 0
       => Written(data') \in {<<>>} \cup {s.seen : s \in {t \in sealed : t.tag = Bytes(tag)}}]_vars
=============================================================================

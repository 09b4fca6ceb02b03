-------------------------------- MODULE Aes --------------------------------
(***************************************************************************)
(* psi::tools::crypt::aes: a client encrypts data of any length and        *)
(* decrypts what it got.  One step is one word of the key schedule, one    *)
(* round on a block, or the storing of a block.  Byte strings are          *)
(* sequences, a block is rows of columns as in the code.                   *)
(***************************************************************************)
EXTENDS XorBytes, Sequences

CONSTANTS
    Jobs,      \* what the client encrypts: words in a key (4 or 8), key and data
    Examples   \* jobs with the result that is known for them

ASSUME JobAssumption ==
    \A j \in Jobs : j.Nk \in {4, 8} /\ {j.key, j.data} \subseteq Seq(Uint8)
ASSUME ExampleAssumption == \A e \in Examples : e.job \in Jobs

VARIABLES
    job,       \* what the client does
    call,      \* "encrypt" or "decrypt", "encrypted" or "decrypted" when it returned
    in,        \* the data of the call
    w,         \* the words of the sub-keys so far
    block,     \* the block being worked on, NoBlock between two of them
    round,     \* the sub-key that is applied next
    cycleN,    \* the number of blocks stored
    out,       \* the result
    trail      \* history: the block encrypted after each round, of each cycle

aesVars == <<job, call, in, w, block, round, cycleN, out, trail>>

Nk == job.Nk
Nr == Nk + 6
NoBlock == <<>>
Index == 0 .. 3

-----------------------------------------------------------------------------
(* Tables and bytes.                                                        *)

m_sBox ==
    <<99, 124, 119, 123, 242, 107, 111, 197, 48, 1, 103, 43, 254, 215, 171, 118, 202, 130,
      201, 125, 250, 89, 71, 240, 173, 212, 162, 175, 156, 164, 114, 192, 183, 253, 147, 38,
      54, 63, 247, 204, 52, 165, 229, 241, 113, 216, 49, 21, 4, 199, 35, 195, 24, 150, 5,
      154, 7, 18, 128, 226, 235, 39, 178, 117, 9, 131, 44, 26, 27, 110, 90, 160, 82, 59, 214,
      179, 41, 227, 47, 132, 83, 209, 0, 237, 32, 252, 177, 91, 106, 203, 190, 57, 74, 76,
      88, 207, 208, 239, 170, 251, 67, 77, 51, 133, 69, 249, 2, 127, 80, 60, 159, 168, 81,
      163, 64, 143, 146, 157, 56, 245, 188, 182, 218, 33, 16, 255, 243, 210, 205, 12, 19,
      236, 95, 151, 68, 23, 196, 167, 126, 61, 100, 93, 25, 115, 96, 129, 79, 220, 34, 42,
      144, 136, 70, 238, 184, 20, 222, 94, 11, 219, 224, 50, 58, 10, 73, 6, 36, 92, 194, 211,
      172, 98, 145, 149, 228, 121, 231, 200, 55, 109, 141, 213, 78, 169, 108, 86, 244, 234,
      101, 122, 174, 8, 186, 120, 37, 46, 28, 166, 180, 198, 232, 221, 116, 31, 75, 189, 139,
      138, 112, 62, 181, 102, 72, 3, 246, 14, 97, 53, 87, 185, 134, 193, 29, 158, 225, 248,
      152, 17, 105, 217, 142, 148, 155, 30, 135, 233, 206, 85, 40, 223, 140, 161, 137, 13,
      191, 230, 66, 104, 65, 153, 45, 15, 176, 84, 187, 22>>

m_iBox ==
    <<82, 9, 106, 213, 48, 54, 165, 56, 191, 64, 163, 158, 129, 243, 215, 251, 124, 227, 57,
      130, 155, 47, 255, 135, 52, 142, 67, 68, 196, 222, 233, 203, 84, 123, 148, 50, 166,
      194, 35, 61, 238, 76, 149, 11, 66, 250, 195, 78, 8, 46, 161, 102, 40, 217, 36, 178,
      118, 91, 162, 73, 109, 139, 209, 37, 114, 248, 246, 100, 134, 104, 152, 22, 212, 164,
      92, 204, 93, 101, 182, 146, 108, 112, 72, 80, 253, 237, 185, 218, 94, 21, 70, 87, 167,
      141, 157, 132, 144, 216, 171, 0, 140, 188, 211, 10, 247, 228, 88, 5, 184, 179, 69, 6,
      208, 44, 30, 143, 202, 63, 15, 2, 193, 175, 189, 3, 1, 19, 138, 107, 58, 145, 17, 65,
      79, 103, 220, 234, 151, 242, 207, 206, 240, 180, 230, 115, 150, 172, 116, 34, 231, 173,
      53, 133, 226, 249, 55, 232, 28, 117, 223, 110, 71, 241, 26, 113, 29, 41, 197, 137, 111,
      183, 98, 14, 170, 24, 190, 27, 252, 86, 62, 75, 198, 210, 121, 32, 154, 219, 192, 254,
      120, 205, 90, 244, 31, 221, 168, 51, 136, 7, 199, 49, 177, 18, 16, 89, 39, 128, 236,
      95, 96, 81, 127, 169, 25, 181, 74, 13, 45, 229, 122, 159, 147, 201, 156, 239, 160, 224,
      59, 77, 174, 42, 245, 176, 200, 235, 187, 60, 131, 83, 153, 97, 23, 43, 4, 126, 186,
      119, 214, 38, 225, 105, 20, 99, 85, 33, 12, 125>>

m_rCon == <<1, 2, 4, 8, 16, 32, 64, 128, 27, 54>>

mul2(v) == IF v >= 128 THEN Xor((2 * v) % 256, 27) ELSE 2 * v
mul3(v) == Xor(mul2(v), v)
mul9(v) == Xor(mul2(mul2(mul2(v))), v)
mul11(v) == Xor(mul9(v), mul2(v))
mul13(v) == Xor(mul9(v), mul2(mul2(v)))
mul14(v) == Xor(Xor(mul2(mul2(mul2(v))), mul2(mul2(v))), mul2(v))

-----------------------------------------------------------------------------
(* Operations on blocks and on words.                                       *)

subBytes(box, b) == [r \in Index |-> [c \in Index |-> box[b[r][c] + 1]]]

\* Row r goes r bytes to the left, and back to the right.
shiftRows(b) == [r \in Index |-> [c \in Index |-> b[r][(c + r) % 4]]]
invShiftRows(b) == [r \in Index |-> [c \in Index |-> b[r][(c + 4 - r) % 4]]]

\* Row r of a column: its bytes from row r on, around the end, each multiplied.
Mixed(b, r, c, m0(_), m1(_), m2(_), m3(_)) ==
    Xor(Xor(m0(b[r][c]), m1(b[(r + 1) % 4][c])),
        Xor(m2(b[(r + 2) % 4][c]), m3(b[(r + 3) % 4][c])))
mul1(v) == v
mixColumns(b) ==
    [r \in Index |-> [c \in Index |-> Mixed(b, r, c, mul2, mul3, mul1, mul1)]]
invMixColumns(b) ==
    [r \in Index |-> [c \in Index |-> Mixed(b, r, c, mul14, mul11, mul13, mul9)]]

\* Sub-key k is the words 4k .. 4k+3, a word to a column.
applySubKey(k, b) ==
    [r \in Index |-> [c \in Index |-> Xor(b[r][c], w[4 * k + c + 1][r + 1])]]

writeBlock(bytes) == [r \in Index |-> [c \in Index |-> bytes[4 * c + r + 1]]]
readBlock(b) == [k \in 1 .. 16 |-> b[(k - 1) % 4][(k - 1) \div 4]]

doRoundKeyEncode(k, b) ==
    LET shifted == shiftRows(subBytes(m_sBox, b))
    IN  applySubKey(k, IF k = Nr THEN shifted ELSE mixColumns(shifted))

\* Mutant: the columns are mixed back before the sub-key is applied.
doRoundKeyDecodeMixedFirst(k, b) ==
    LET back == subBytes(m_iBox, invShiftRows(b))
    IN  IF k = 0 THEN applySubKey(k, back) ELSE applySubKey(k, invMixColumns(back))

doRoundKeyDecode(k, b) ==
    LET keyed == applySubKey(k, subBytes(m_iBox, invShiftRows(b)))
    IN  IF k = 0 THEN keyed ELSE invMixColumns(keyed)

rotWord(word) == Tail(word) \o <<Head(word)>>
subWord(word) == [k \in 1 .. 4 |-> m_sBox[word[k] + 1]]
XorWords(u, v) == [k \in 1 .. 4 |-> Xor(u[k], v[k])]

-----------------------------------------------------------------------------
(* The calls.                                                               *)

\* The bytes of the incomplete block at the end.  When decrypting, they are in
\* the last byte if the length shows that there is one.
extraBytes ==
    IF Len(in) % 16 = 0 THEN 0
    ELSE IF call = "encrypt" THEN Len(in) % 16 ELSE in[Len(in)]

\* Mutant: no room for the byte that tells the length.
resultLenUnmarked ==
    IF Len(in) % 16 = 0 THEN Len(in)
    ELSE IF call = "encrypt" THEN Len(in) + 16 - extraBytes
                             ELSE Len(in) - 1 - 16 + extraBytes

resultLen ==
    IF Len(in) % 16 = 0 THEN Len(in)
    ELSE IF call = "encrypt" THEN Len(in) + 16 - extraBytes + 1
                             ELSE Len(in) - 1 - 16 + extraBytes

cycles == (IF call = "encrypt" THEN Len(in) ELSE resultLen) \div 16
\* Mutant: the incomplete block is left out.
BlocksComplete == cycles

Blocks == cycles + (IF extraBytes = 0 THEN 0 ELSE 1)

Chunk(n) ==
    LET from == IF n = cycles /\ call = "decrypt" THEN Len(in) - 1 - 16 ELSE n * 16
    IN  [k \in 1 .. 16 |-> IF from + k <= Len(in) THEN in[from + k] ELSE 0]

KeyFits == Len(job.key) = Nk * 4
KeyWords(key) == [k \in 1 .. (Len(key) \div 4) |-> SubSeq(key, 4 * k - 3, 4 * k)]

AesInit ==
    /\ job \in Jobs
    /\ call = "encrypt" /\ in = job.data
    /\ w = KeyWords(job.key)
    /\ block = NoBlock /\ round = 0 /\ cycleN = 0
    /\ out = <<>> /\ trail = <<>>

\* A key of the wrong size: an empty buffer is returned.
RefuseKey ==
    /\ call \in {"encrypt", "decrypt"} /\ ~ KeyFits
    /\ out' = <<>>
    /\ call' = IF call = "encrypt" THEN "encrypted" ELSE "decrypted"
    /\ UNCHANGED <<job, in, w, block, round, cycleN, trail>>

\* Mutant: the words in the middle of a 256-bit key are taken as they are.
ScheduledPlainly(i) ==
    LET temp == w[i]
    IN  IF i % Nk = 0
        THEN [subWord(rotWord(temp)) EXCEPT ![1] = Xor(@, m_rCon[i \div Nk])]
        ELSE temp

\* What word i - Nk is combined with for word i, counted from 0.
Scheduled(i) ==
    LET temp == w[i]
    IN  IF i % Nk = 0
        THEN [subWord(rotWord(temp)) EXCEPT ![1] = Xor(@, m_rCon[i \div Nk])]
        ELSE IF Nk > 6 /\ i % Nk = 4 THEN subWord(temp) ELSE temp

KeysReady == Len(w) = (Nr + 1) * 4

\* One turn of generateSubKeys_impl.
GenerateSubKeyWord ==
    /\ call \in {"encrypt", "decrypt"} /\ KeyFits /\ ~ KeysReady
    /\ LET i == Len(w) IN w' = Append(w, XorWords(w[i - Nk + 1], Scheduled(i)))
    /\ UNCHANGED <<job, call, in, block, round, cycleN, out, trail>>

\* The next block is loaded and its first sub-key applied.
LoadBlock ==
    /\ call \in {"encrypt", "decrypt"} /\ KeyFits /\ KeysReady
    /\ block = NoBlock /\ cycleN < Blocks
    /\ LET first == IF call = "encrypt" THEN 0 ELSE Nr
           loaded == applySubKey(first, writeBlock(Chunk(cycleN)))
       IN  /\ block' = loaded
           /\ IF call = "encrypt" THEN /\ round' = 1
                                       /\ trail' = Append(trail, <<loaded>>)
              ELSE round' = Nr - 1 /\ UNCHANGED trail
    /\ UNCHANGED <<job, call, in, w, cycleN, out>>

EncodeRound ==
    /\ call = "encrypt" /\ block # NoBlock /\ round <= Nr
    /\ block' = doRoundKeyEncode(round, block)
    /\ trail' = [trail EXCEPT ![cycleN + 1] = Append(@, block')]
    /\ round' = round + 1
    /\ UNCHANGED <<job, call, in, w, cycleN, out>>

DecodeRound ==
    /\ call = "decrypt" /\ block # NoBlock /\ round >= 0
    /\ block' = doRoundKeyDecode(round, block)
    /\ round' = round - 1
    /\ UNCHANGED <<job, call, in, w, cycleN, out, trail>>

\* Mutant: the block that was filled up is not cut when decrypted.
StoredUncut(bytes) ==
    IF cycleN < cycles \/ call = "decrypt" THEN bytes ELSE Append(bytes, extraBytes)

\* The incomplete block is encrypted as a whole and followed by its length, and
\* cut to that length when decrypted.
Stored(bytes) ==
    IF cycleN < cycles THEN bytes
    ELSE IF call = "encrypt" THEN Append(bytes, extraBytes)
    ELSE SubSeq(bytes, 1, extraBytes)

StoreBlock ==
    /\ block # NoBlock
    /\ round = IF call = "encrypt" THEN Nr + 1 ELSE -1
    /\ out' = out \o Stored(readBlock(block))
    /\ block' = NoBlock /\ round' = 0 /\ cycleN' = cycleN + 1
    /\ UNCHANGED <<job, call, in, w, trail>>

Return ==
    /\ call \in {"encrypt", "decrypt"} /\ KeyFits /\ KeysReady
    /\ block = NoBlock /\ cycleN = Blocks
    /\ call' = IF call = "encrypt" THEN "encrypted" ELSE "decrypted"
    /\ UNCHANGED <<job, in, w, block, round, cycleN, out, trail>>

\* The client decrypts what it got with the same key.
Decrypt ==
    /\ call = "encrypted"
    /\ call' = "decrypt" /\ in' = out
    /\ w' = KeyWords(job.key)
    /\ cycleN' = 0 /\ out' = <<>>
    /\ UNCHANGED <<job, block, round, trail>>

AesNext == \/ RefuseKey \/ GenerateSubKeyWord \/ LoadBlock
        \/ EncodeRound \/ DecodeRound \/ StoreBlock \/ Return \/ Decrypt

AesSpec == AesInit /\ [][AesNext]_aesVars

-----------------------------------------------------------------------------
(* Properties.                                                              *)

AesTypeOK ==
    /\ job \in Jobs /\ call \in {"encrypt", "encrypted", "decrypt", "decrypted"}
    /\ {in, out} \subseteq Seq(Uint8) /\ w \in Seq(Seq(Uint8))
    /\ block \in [Index -> [Index -> Uint8]] \cup {NoBlock}
    /\ round \in -1 .. (Nr + 1) /\ cycleN \in Nat
    /\ call \in {"encrypt", "decrypt"} => cycleN <= Blocks /\ Len(out) <= resultLen
    /\ KeyFits => Len(w) <= (Nr + 1) * 4

\* Decryption goes back through the very blocks encryption went through: before
\* the round of sub-key k the block is what the S-box and the shift made of the
\* block after round k of encryption.
RoundsUnwind ==
    call = "decrypt" /\ block # NoBlock /\ round >= 0 =>
        block = shiftRows(subBytes(m_sBox, trail[cycleN + 1][round + 1]))

\* What was encrypted is decrypted to the same bytes, whatever their number is:
\* an incomplete block is filled up, marked and cut off again.
RoundTrip == call = "decrypted" /\ KeyFits => out = job.data

\* A call that returns has filled the buffer it allocated; with AesTypeOK, no byte
\* was stored beyond its end.
ResultFillsBuffer == [][Return => Len(out) = resultLen]_aesVars

\* The examples of FIPS 197 that the tests of the repository quote.
FollowsExamples ==
    \A e \in Examples : job = e.job /\ call = "encrypted" => out = e.cipher
=============================================================================

------------------------------- MODULE Base64 -------------------------------
(***************************************************************************)
(* psi::tools::crypt::base64 on ByteBuffers.  Both directions read the     *)
(* input byte after byte from its read cursor, but take as many as its     *)
(* size says.  A call returns [self, out]: the input after it, the result. *)
(***************************************************************************)
EXTENDS ByteBufferOps

Call(self, out) == [self |-> self, out |-> out]
Nothing == NewBuffer(0)
Holds(n, data) == writeArray(NewBuffer(n), data).self

\* m_base64Table, and back.
Char(d) == CASE d \in 0 .. 25  -> 65 + d
             [] d \in 26 .. 51 -> 71 + d
             [] d \in 52 .. 61 -> d - 4
             [] d = 62 -> 43
             [] d = 63 -> 47
m_base64Pad == 61
Digit == [c \in {Char(d) : d \in 0 .. 63} |-> CHOOSE d \in 0 .. 63 : Char(d) = c]

OrZero(s, k) == IF k \in DOMAIN s THEN s[k] ELSE 0

\* Digit k of the bytes, counted from 0: of three bytes the top six bits first.
Sextet(bytes, k) ==
    LET g == 3 * (k \div 4)
        temp == OrZero(bytes, g + 1) * 2 ^ 16 + OrZero(bytes, g + 2) * 2 ^ 8 + OrZero(bytes, g + 3)
    IN  (temp \div 2 ^ (18 - 6 * (k % 4))) % 64

\* Byte j of the digits, counted from 0.
Octet(digits, j) ==
    LET g == 4 * (j \div 3)
        temp == OrZero(digits, g + 1) * 2 ^ 18 + OrZero(digits, g + 2) * 2 ^ 12
                    + OrZero(digits, g + 3) * 2 ^ 6 + OrZero(digits, g + 4)
    IN  (temp \div 2 ^ (16 - 8 * (j % 3))) % 256

Ceiling(n, d) == (n + d - 1) \div d

\* An input whose cursor is not at its start runs out of bytes.
encryptBase64(in) ==
    LET n == size(in)
        chars == 4 * Ceiling(n, 3)
        bytes == Peek(in.m_buffer, 0, n)
    IN  Call(ReadAt(in, n),
             IF in.m_readIndex > 0 THEN Nothing
             ELSE Holds(chars, [k \in 1 .. chars |->
                      IF k <= Ceiling(4 * n, 3) THEN Char(Sextet(bytes, k - 1))
                      ELSE m_base64Pad]))

\* Mutant: a second padding character does not shorten the result.
paddingOnce(in) == IF at(in, size(in) - 1) = m_base64Pad THEN 1 ELSE 0

padding(in) == (IF at(in, size(in) - 1) = m_base64Pad THEN 1 ELSE 0)
                   + (IF at(in, size(in) - 2) = m_base64Pad THEN 1 ELSE 0)

\* The digits are read up to the first byte that is none, at idx `stop`.
Stops(chars) == {k \in 1 .. Len(chars) : chars[k] \notin DOMAIN Digit}
Stop(chars) == LET stops == Stops(chars)
               IN  IF stops = {} THEN Len(chars)
                   ELSE (CHOOSE k \in stops : \A o \in stops : k <= o) - 1
Decoded(chars, stop) ==
    LET digits == [k \in 1 .. stop |-> Digit[chars[k]]]
    IN  [j \in 1 .. ((3 * stop) \div 4) |-> Octet(digits, j - 1)]

\* There, a padding character one or two before the end completes the result, the
\* others and the end of the buffer make it empty.
Complete(chars, stop, n) ==
    \/ Stops(chars) # {} /\ chars[stop + 1] = m_base64Pad /\ n - stop \in {1, 2}
    \/ stop = n

decryptBase64(in) ==
    LET n == size(in)
        chars == Peek(in.m_buffer, in.m_readIndex, n - in.m_readIndex)
        stop == Stop(chars)
        used == stop + (IF Stops(chars) = {} THEN 0 ELSE 1)
    IN  IF n % 4 # 0 \/ n = 0 THEN Call(in, Nothing)
        ELSE Call(ReadAt(in, in.m_readIndex + used),
                  IF Complete(chars, stop, n)
                  THEN Holds(3 * (n \div 4) - padding(in), Decoded(chars, stop))
                  ELSE Nothing)
=============================================================================

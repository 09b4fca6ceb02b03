---------------------------- MODULE Tools_proofs ----------------------------
(***************************************************************************)
(* The theorems about two tools that share nothing: BitSet keeps its types *)
(* and implements SharedBits, for every number of variables and            *)
(* implementations, every width of bytes and words, and every size, stream *)
(* and string; convertToSyncCall is safe for any number of callbacks on    *)
(* any threads.                                                            *)
(***************************************************************************)
EXTENDS BitSet, SyncCall, TLAPS

-----------------------------------------------------------------------------
(* Division.                                                                *)

LEMMA DivMod ==
    ASSUME NEW n \in Nat, NEW d \in Nat \ {0}
    PROVE  /\ n \div d \in Nat /\ n % d \in Nat /\ n % d < d
           /\ n = (n \div d) * d + (n % d)
  OBVIOUS

LEMMA Quotient ==
    ASSUME NEW q \in Nat, NEW d \in Nat \ {0}, NEW r \in Nat, r < d
    PROVE  /\ (q * d + r) \div d = q /\ (q * d + r) % d = r
           /\ q * d + r \in Nat
<1> DEFINE n == q * d + r
<1>1. n \in Nat
  OBVIOUS
<1>2. n \div d \in Nat /\ n % d \in Nat /\ n % d < d /\ n = (n \div d) * d + (n % d)
  BY <1>1, DivMod
<1>3. PICK p, s \in Nat : p = n \div d /\ s = n % d
  BY <1>2
<1>4. p * d + s = q * d + r /\ s < d
  BY <1>2, <1>3
<1> HIDE DEF n
<1>5. (p - q) * d = r - s
  BY <1>4
<1>6. ~(p - q >= 1) /\ ~(p - q <= -1)
  <2>1. ASSUME p - q >= 1 PROVE FALSE
    <3>1. (p - q) * d >= d
      BY <2>1
    <3> QED BY <1>4, <1>5, <3>1
  <2>2. ASSUME p - q <= -1 PROVE FALSE
    <3>1. (p - q) * d <= -d
      BY <2>2
    <3> QED BY <1>4, <1>5, <3>1
  <2> QED BY <2>1, <2>2
<1>7. p = q
  BY <1>6
<1> QED
  BY <1>1, <1>3, <1>5, <1>7 DEF n

\* The order of two numbers decides the order of their quotients.
LEMMA QuotientBelow ==
    ASSUME NEW n \in Nat, NEW d \in Nat \ {0}, NEW q \in Nat
    PROVE  /\ n < q * d <=> n \div d < q
<1>1. n \div d \in Nat /\ n % d \in Nat /\ n % d < d /\ n = (n \div d) * d + (n % d)
  BY DivMod
<1>2. PICK p, s \in Nat : p = n \div d /\ n = p * d + s /\ s < d
  BY <1>1
<1>3. ASSUME p < q PROVE n < q * d
  <2>1. p + 1 <= q /\ (q - (p + 1)) \in Nat
    BY <1>3
  <2>2. (q - (p + 1)) * d \in Nat
    BY <2>1
  <2>3. q * d = p * d + d + (q - (p + 1)) * d
    OBVIOUS
  <2> QED BY <1>2, <2>2, <2>3
<1>4. ASSUME q <= p PROVE q * d <= n
  <2>1. p - q \in Nat
    BY <1>4
  <2>2. (p - q) * d \in Nat
    BY <2>1
  <2>3. p * d = q * d + (p - q) * d
    OBVIOUS
  <2> QED BY <1>2, <2>2, <2>3
<1>5. q * d \in Nat
  OBVIOUS
<1> QED
  BY <1>2, <1>3, <1>4, <1>5

-----------------------------------------------------------------------------
(* Words.                                                                   *)

LEMMA Widths ==
    /\ ByteBits \in Nat \ {0} /\ WordBytes \in Nat \ {0} /\ WordBits \in Nat \ {0}
    /\ WordBits = ByteBits * WordBytes /\ WordBits = WordBytes * ByteBits
<1>1. ByteBits \in Nat \ {0} /\ WordBytes \in Nat \ {0}
  BY WidthAssumption
<1>2. ByteBits * WordBytes \in Nat \ {0}
  BY <1>1
<1> QED
  BY <1>1, <1>2 DEF WordBits

\* The words that are there are those that hold a bit.
LEMMA WordCountFacts ==
    ASSUME NEW n \in Nat
    PROVE  /\ WordCount(n) \in Nat
           /\ \A i \in 0 .. (n - 1) : i \div WordBits \in 0 .. (WordCount(n) - 1)
           /\ \A k \in 0 .. (WordCount(n) - 1) : k * WordBits < n
           /\ n % WordBits = 0 => n = WordCount(n) * WordBits
           /\ n % WordBits # 0 => n = (WordCount(n) - 1) * WordBits + (n % WordBits)
<1> DEFINE W == WordBits
           q == n \div W
           r == n % W
<1>1. W \in Nat \ {0}
  BY Widths
<1>2. q \in Nat /\ r \in Nat /\ r < W /\ n = q * W + r
  BY <1>1, DivMod
<1>3. WordCount(n) = q + (IF r = 0 THEN 0 ELSE 1)
  BY DEF WordCount
<1> HIDE DEF W, q, r
<1>4. PICK c \in Nat : c = WordCount(n)
  BY <1>2, <1>3
<1>5. (r = 0 => c = q) /\ (r # 0 => c = q + 1)
  BY <1>2, <1>3, <1>4
<1>6. n <= c * W
  BY <1>1, <1>2, <1>5
<1>7. ASSUME NEW i \in 0 .. (n - 1) PROVE i \div W \in 0 .. (c - 1)
  <2>1. i < c * W /\ i \in Nat
    BY <1>1, <1>6
  <2>2. i \div W < c /\ i \div W \in Nat
    BY <1>1, <2>1, QuotientBelow, DivMod
  <2> QED BY <2>2
<1>8. ASSUME NEW k \in 0 .. (c - 1) PROVE k * W < n
  <2>1. CASE k = q
    <3>1. r # 0 /\ r > 0
      BY <1>2, <1>5, <2>1
    <3>2. q * W \in Nat /\ q * W < n
      BY <1>1, <1>2, <3>1
    <3> QED BY <2>1, <3>2
  <2>2. CASE k # q
    <3>1. k + 1 <= q /\ q - k - 1 \in Nat
      BY <1>2, <1>5, <2>2
    <3>2. (q - k - 1) * W \in Nat /\ q * W = k * W + W + (q - k - 1) * W
      BY <1>1, <1>2, <3>1
    <3>3. W \in Nat /\ q * W \in Nat /\ k * W \in Nat /\ W > 0
      BY <1>1, <1>2
    <3> QED BY <1>2, <3>2, <3>3
  <2> QED BY <2>1, <2>2
<1>9. (r = 0 => n = c * W) /\ (r # 0 => n = (c - 1) * W + r)
  BY <1>1, <1>2, <1>5
<1>10. \A i \in 0 .. (n - 1) : i \div W \in 0 .. (c - 1)
  BY <1>7
<1>11. \A k \in 0 .. (c - 1) : k * W < n
  BY <1>8
<1> QED
  BY <1>4, <1>9, <1>10, <1>11 DEF W, r

-----------------------------------------------------------------------------
(* Implementations and the bits a client sees of them.                      *)

Words(n) == [0 .. (WordCount(n) - 1) -> Word]
Impl == UNION {[m_bitsNumber : {n}, m_value : Words(n)] : n \in Nat}

LEMMA ImplMade ==
    ASSUME NEW n \in Nat, NEW words \in Words(n)
    PROVE  /\ BitSetImpl(n, words) \in Impl
           /\ BitSetImpl(n, words).m_bitsNumber = n /\ BitSetImpl(n, words).m_value = words
  BY DEF Impl, BitSetImpl

LEMMA ImplParts ==
    ASSUME NEW b \in Impl
    PROVE  /\ b.m_bitsNumber \in Nat /\ b.m_value \in Words(b.m_bitsNumber)
           /\ b = BitSetImpl(b.m_bitsNumber, b.m_value)
  BY DEF Impl, BitSetImpl

Ones(b) == {i \in 0 .. (b.m_bitsNumber - 1) : i % WordBits \in b.m_value[i \div WordBits]}

\* The text of a BitSet shows the bits within its size, each from its word.
LEMMA BitsFacts ==
    ASSUME NEW b \in Impl
    PROVE  Bits(b) = [size |-> b.m_bitsNumber, ones |-> Ones(b)]
<1> DEFINE n == b.m_bitsNumber
           text == toString(b)
<1>1. n \in Nat
  BY ImplParts
<1>2. text = [k \in 1 .. n |-> IF test(b, k - 1) THEN "1" ELSE "0"]
  BY DEF toString, size
<1>3. \A i : test(b, i) <=> i < n /\ i % WordBits \in b.m_value[i \div WordBits]
  BY DEF test, size
<1>4. Bits(b) = [size |-> n, ones |-> {k - 1 : k \in {j \in DOMAIN text : text[j] = "1"}}]
  BY DEF Bits, size
<1>5. Ones(b) = {i \in 0 .. (n - 1) : i % WordBits \in b.m_value[i \div WordBits]}
  BY DEF Ones
<1> HIDE DEF n, text
<1>6. ASSUME NEW i \in 0 .. (n - 1), test(b, i)
      PROVE  i \in {k - 1 : k \in {j \in DOMAIN text : text[j] = "1"}}
  <2>1. i + 1 \in DOMAIN text /\ text[i + 1] = "1" /\ (i + 1) - 1 = i
    BY <1>1, <1>2, <1>6
  <2> QED BY <2>1
<1>7. ASSUME NEW k \in DOMAIN text, text[k] = "1"
      PROVE  k - 1 \in 0 .. (n - 1) /\ test(b, k - 1)
  BY <1>1, <1>2, <1>7
<1>8. Ones(b) = {i \in 0 .. (n - 1) : test(b, i)}
  BY <1>1, <1>3, <1>5
<1>9. {i \in 0 .. (n - 1) : test(b, i)} = {k - 1 : k \in {j \in DOMAIN text : text[j] = "1"}}
  BY <1>6, <1>7
<1> QED
  BY <1>4, <1>8, <1>9 DEF n

\* No words, no bits.
LEMMA ZerosFacts ==
    ASSUME NEW n \in Nat
    PROVE  /\ Zeros(n) \in Words(n)
           /\ Bits(BitSetImpl(n, Zeros(n))) = [size |-> n, ones |-> {}]
<1> DEFINE b == BitSetImpl(n, Zeros(n))
<1>1. Zeros(n) \in Words(n)
  BY DEF Zeros, Words, Word
<1>2. b \in Impl /\ b.m_bitsNumber = n /\ b.m_value = Zeros(n)
  BY <1>1, ImplMade
<1> HIDE DEF b
<1>3. Ones(b) = {}
  <2>1. ASSUME NEW i \in 0 .. (n - 1) PROVE b.m_value[i \div WordBits] = {}
    BY <1>2, WordCountFacts DEF Zeros
  <2> QED BY <1>2, <2>1 DEF Ones
<1> QED
  BY <1>1, <1>2, <1>3, BitsFacts DEF b

-----------------------------------------------------------------------------
(* Reversal.                                                                *)

\* Reversing the bytes and the bits of each byte reverses the bits of a word.
LEMMA Reverse64Facts ==
    ASSUME NEW word \in Word
    PROVE  reverse64(word) = {WordBits - 1 - j : j \in word}
<1> DEFINE B == ByteBits   N == WordBytes   W == WordBits
<1>1. B \in Nat \ {0} /\ N \in Nat \ {0} /\ W \in Nat \ {0} /\ W = N * B
  BY Widths
<1>2. word \subseteq 0 .. (W - 1)
  BY DEF Word
<1>3. \A k, b : b \in ByteOf(word, k) <=> b \in 0 .. (B - 1) /\ k * B + b \in word
  BY DEF ByteOf
<1>4. \A x : x \in reverse64(word) <=>
         \E k \in 0 .. (N - 1) : \E b \in ByteOf(word, k) : x = (N - 1 - k) * B + (B - 1 - b)
  BY DEF reverse64, reverseByte
<1> HIDE DEF B, N, W
<1>5. ASSUME NEW k \in 0 .. (N - 1), NEW b \in 0 .. (B - 1)
      PROVE  (N - 1 - k) * B + (B - 1 - b) = W - 1 - (k * B + b)
  <2>1. (N - 1 - k) * B = N * B - B - k * B
    BY <1>1
  <2>2. N * B \in Nat /\ k * B \in Nat
    BY <1>1
  <2> QED BY <1>1, <2>1, <2>2
<1>6. ASSUME NEW x \in reverse64(word) PROVE x \in {W - 1 - j : j \in word}
  <2>0. PICK k \in 0 .. (N - 1) : \E b \in ByteOf(word, k) : x = (N - 1 - k) * B + (B - 1 - b)
    BY <1>4, <1>6
  <2>1. PICK b \in ByteOf(word, k) : x = (N - 1 - k) * B + (B - 1 - b)
    BY <2>0
  <2>2. b \in 0 .. (B - 1) /\ k * B + b \in word
    BY <1>3, <2>1
  <2>3. x = W - 1 - (k * B + b)
    BY <1>5, <2>1, <2>2
  <2> QED BY <2>2, <2>3
<1>7. ASSUME NEW j \in word PROVE W - 1 - j \in reverse64(word)
  <2>1. j \in Nat /\ j < N * B
    BY <1>1, <1>2
  <2>2. PICK k, b \in Nat : k = j \div B /\ b < B /\ j = k * B + b
    BY <1>1, <2>1, DivMod
  <2>3. k \in 0 .. (N - 1) /\ b \in 0 .. (B - 1)
    BY <1>1, <2>1, <2>2, QuotientBelow
  <2>4. b \in ByteOf(word, k)
    BY <1>3, <2>2, <2>3
  <2>5. W - 1 - j = (N - 1 - k) * B + (B - 1 - b)
    BY <1>5, <2>2, <2>3
  <2> QED BY <1>4, <2>3, <2>4, <2>5
<1> QED
  BY <1>6, <1>7 DEF W

\* Which bits of a word are in a word of the result.
LEMMA ShiftFacts ==
    ASSUME NEW word \in Word, NEW n \in 1 .. WordBits, NEW c \in 0 .. (WordBits - 1)
    PROVE  /\ c \in reverse64(word) <=> WordBits - 1 - c \in word
           /\ c \in ShiftRight(reverse64(word), WordBits - n) <=> n - 1 - c \in word
           /\ c \in ShiftLeft(reverse64(word), n) <=> WordBits - 1 - c + n \in word
<1> DEFINE W == WordBits   back == reverse64(word)
<1>1. W \in Nat /\ word \subseteq 0 .. (W - 1)
  BY Widths DEF Word
<1>2. back = {W - 1 - j : j \in word}
  BY Reverse64Facts
<1>3. ShiftRight(back, W - n) = {b - (W - n) : b \in {a \in back : a >= W - n}}
  BY DEF ShiftRight
<1>4. ShiftLeft(back, n) = {b + n : b \in {a \in back : a + n < W}}
  BY DEF ShiftLeft
<1>5. \A a \in Int : a \in back <=> W - 1 - a \in word
  <2> HIDE DEF W
  <2>1. ASSUME NEW a \in Int, a \in back PROVE W - 1 - a \in word
    BY <1>1, <1>2, <2>1
  <2>2. ASSUME NEW a \in Int, W - 1 - a \in word PROVE a \in back
    <3>1. W - 1 - (W - 1 - a) = a
      BY <1>1
    <3> QED BY <1>2, <2>2, <3>1
  <2> QED BY <2>1, <2>2
<1>6. back \subseteq Int
  BY <1>1, <1>2
<1> HIDE DEF W, back
<1>7. n \in Int /\ c \in Int /\ c >= 0 /\ c < W
  BY <1>1 DEF W
<1>8. c \in ShiftRight(back, W - n) <=> c + (W - n) \in back
  <2>1. ASSUME c + (W - n) \in back PROVE c \in ShiftRight(back, W - n)
    <3>1. (c + (W - n)) - (W - n) = c /\ c + (W - n) >= W - n
      BY <1>1, <1>7
    <3> QED BY <1>3, <2>1, <3>1
  <2>2. ASSUME c \in ShiftRight(back, W - n) PROVE c + (W - n) \in back
    BY <1>1, <1>3, <1>6, <1>7, <2>2
  <2> QED BY <2>1, <2>2
<1>9. c \in ShiftLeft(back, n) <=> c - n \in back
  <2>1. ASSUME c - n \in back PROVE c \in ShiftLeft(back, n)
    <3>1. (c - n) + n = c /\ (c - n) + n < W
      BY <1>1, <1>7
    <3> QED BY <1>4, <2>1, <3>1
  <2>2. ASSUME c \in ShiftLeft(back, n) PROVE c - n \in back
    BY <1>1, <1>4, <1>6, <1>7, <2>2
  <2> QED BY <2>1, <2>2
<1>10. c + (W - n) \in back <=> n - 1 - c \in word
  <2>1. c + (W - n) \in Int /\ W - 1 - (c + (W - n)) = n - 1 - c
    BY <1>1, <1>7
  <2> QED BY <1>5, <2>1
<1>11. c - n \in back <=> W - 1 - c + n \in word
  <2>1. c - n \in Int /\ W - 1 - (c - n) = W - 1 - c + n
    BY <1>1, <1>7
  <2> QED BY <1>5, <2>1
<1>12. c \in back <=> W - 1 - c \in word
  BY <1>5, <1>7
<1> QED
  BY <1>8, <1>9, <1>10, <1>11, <1>12 DEF W, back

\* The word and the place of the bit that lies as far from the end of the whole
\* as bit i lies from its start.
LEMMA MirrorFacts ==
    ASSUME NEW n \in Nat, NEW i \in 0 .. (n - 1)
    PROVE  LET W == WordBits
               k == i \div W
               c == i % W
               r == n % W
               last == WordCount(n) - 1
               j == n - 1 - i
           IN  /\ k \in 0 .. last /\ c \in 0 .. (W - 1) /\ j \in 0 .. (n - 1)
               /\ r = 0 => j \div W = last - k /\ j % W = W - 1 - c
               /\ r # 0 /\ c < r => j \div W = last - k /\ j % W = r - 1 - c
               /\ r # 0 /\ c >= r => /\ k < last
                                     /\ j \div W = last - (k + 1) /\ j % W = W - 1 - c + r
<1> DEFINE W == WordBits
           k == i \div W
           c == i % W
           r == n % W
           last == WordCount(n) - 1
           j == n - 1 - i
<1>1. W \in Nat \ {0}
  BY Widths
<1>2. i \in Nat /\ j \in Nat /\ j \in 0 .. (n - 1)
  OBVIOUS
<1>3. k \in Nat /\ c \in Nat /\ c < W /\ i = k * W + c
  BY <1>1, <1>2, DivMod
<1>4. r \in Nat /\ r < W
  BY <1>1, DivMod
<1>5. /\ last \in Int /\ k \in 0 .. last
      /\ r = 0 => n = (last + 1) * W
      /\ r # 0 => n = last * W + r
  BY WordCountFacts
<1>6. j = n - 1 - i
  OBVIOUS
<1> HIDE DEF W, k, c, r, last, j
<1>7. ASSUME NEW q \in Nat, NEW s \in Nat, s < W, j = q * W + s
      PROVE  j \div W = q /\ j % W = s
  BY <1>1, <1>7, Quotient
<1>8. ASSUME r = 0 PROVE j \div W = last - k /\ j % W = W - 1 - c
  <2>1. last - k \in Nat /\ W - 1 - c \in Nat /\ W - 1 - c < W
    BY <1>1, <1>3, <1>5
  <2>2. j = (last - k) * W + (W - 1 - c)
    <3>1. (last + 1) * W = last * W + W /\ (last - k) * W = last * W - k * W
          /\ last * W \in Int /\ k * W \in Int
      BY <1>1, <1>3, <1>5
    <3> QED BY <1>1, <1>3, <1>5, <1>6, <1>8, <3>1
  <2> QED BY <1>7, <2>1, <2>2
<1>9. ASSUME r # 0, c < r PROVE j \div W = last - k /\ j % W = r - 1 - c
  <2>1. last - k \in Nat /\ r - 1 - c \in Nat /\ r - 1 - c < W
    BY <1>1, <1>3, <1>4, <1>5, <1>9
  <2>2. j = (last - k) * W + (r - 1 - c)
    <3>1. (last - k) * W = last * W - k * W /\ last * W \in Int /\ k * W \in Int
      BY <1>1, <1>3, <1>5
    <3> QED BY <1>3, <1>4, <1>5, <1>6, <1>9, <3>1
  <2> QED BY <1>7, <2>1, <2>2
<1>10. ASSUME r # 0, c >= r
       PROVE  k < last /\ j \div W = last - (k + 1) /\ j % W = W - 1 - c + r
  <2>1. k < last
    <3>1. k * W + c < last * W + r
      BY <1>2, <1>3, <1>5, <1>10
    <3>2. k # last
      BY <1>1, <1>3, <1>4, <1>10, <3>1
    <3> QED BY <1>5, <3>2
  <2>2. last - (k + 1) \in Nat /\ W - 1 - c + r \in Nat /\ W - 1 - c + r < W
    BY <1>1, <1>3, <1>4, <1>5, <1>10, <2>1
  <2>3. j = (last - (k + 1)) * W + (W - 1 - c + r)
    <3>1. (last - (k + 1)) * W = last * W - k * W - W /\ last * W \in Int /\ k * W \in Int
      BY <1>1, <1>3, <1>5
    <3> QED BY <1>1, <1>3, <1>4, <1>5, <1>6, <1>10, <3>1
  <2> QED BY <1>7, <2>1, <2>2, <2>3
<1>11. k \in 0 .. last /\ c \in 0 .. (W - 1)
  BY <1>1, <1>3, <1>5
<1> QED
  BY <1>2, <1>8, <1>9, <1>10, <1>11 DEF W, k, c, r, last, j

\* reverse turns the order of the bits within the size around, whatever the bits
\* beyond it are.
LEMMA ReversedFacts ==
    ASSUME NEW b \in Impl
    PROVE  /\ Reversed(b) \in Words(b.m_bitsNumber)
           /\ Ones(BitSetImpl(b.m_bitsNumber, Reversed(b)))
                = {b.m_bitsNumber - 1 - i : i \in Ones(b)}
<1> DEFINE n == b.m_bitsNumber
           W == WordBits
           r == n % W
           last == WordCount(n) - 1
           word(k) == b.m_value[last - k]
           new == Reversed(b)
<1>1. n \in Nat /\ b.m_value \in Words(n) /\ W \in Nat \ {0}
  BY ImplParts, Widths
<1>2. r \in Nat /\ r < W /\ last \in Int
  <2>1. r \in Nat /\ r < W
    BY <1>1, DivMod
  <2>2. WordCount(n) \in Nat
    BY <1>1, WordCountFacts
  <2> QED BY <2>1, <2>2
<1>3. \A k \in 0 .. last : word(k) \in Word
  <2>1. \A k \in 0 .. last : last - k \in 0 .. last
    BY <1>2
  <2> QED BY <1>1, <2>1 DEF Words
<1>4. new = [k \in 0 .. last |->
               IF r = 0 THEN reverse64(word(k))
               ELSE ShiftRight(reverse64(word(k)), W - r)
                    \cup (IF k < last THEN ShiftLeft(reverse64(word(k + 1)), r) ELSE {})]
  BY DEF Reversed
<1> HIDE DEF new, word, last, r
<1>5. ASSUME NEW k \in 0 .. last PROVE new[k] \subseteq 0 .. (W - 1)
  <2>1. ASSUME NEW a \in Word PROVE reverse64(a) \subseteq 0 .. (W - 1)
    <3>1. reverse64(a) = {W - 1 - j : j \in a} /\ a \subseteq 0 .. (W - 1)
      BY Reverse64Facts DEF Word
    <3> HIDE DEF W
    <3> QED BY <1>1, <3>1
  <2>2. ASSUME NEW s, s \subseteq 0 .. (W - 1)
        PROVE  ShiftRight(s, W - r) \subseteq 0 .. (W - 1) /\ ShiftLeft(s, r) \subseteq 0 .. (W - 1)
    <3>1. /\ ShiftRight(s, W - r) = {p - (W - r) : p \in {a \in s : a >= W - r}}
          /\ ShiftLeft(s, r) = {p + r : p \in {a \in s : a + r < W}}
      BY DEF ShiftRight, ShiftLeft
    <3> HIDE DEF W
    <3> QED BY <1>1, <1>2, <2>2, <3>1
  <2>3. k < last => k + 1 \in 0 .. last
    BY <1>2
  <2> QED BY <1>3, <1>4, <2>1, <2>2, <2>3
<1>6. new \in Words(n)
  <2>1. \A k \in 0 .. last : new[k] \in Word
    BY <1>5 DEF Word
  <2>2. new = [k \in 0 .. last |-> new[k]]
    BY <1>4
  <2> QED BY <2>1, <2>2 DEF Words, last
<1>7. ASSUME NEW i \in 0 .. (n - 1)
      PROVE  i % W \in new[i \div W]
               <=> (n - 1 - i) % W \in b.m_value[(n - 1 - i) \div W]
  <2> DEFINE k == i \div W   c == i % W   j == n - 1 - i
  <2>1. /\ k \in 0 .. last /\ c \in 0 .. (W - 1)
        /\ r = 0 => j \div W = last - k /\ j % W = W - 1 - c
        /\ r # 0 /\ c < r => j \div W = last - k /\ j % W = r - 1 - c
        /\ r # 0 /\ c >= r => /\ k < last
                              /\ j \div W = last - (k + 1) /\ j % W = W - 1 - c + r
    BY <1>1, MirrorFacts DEF last, r
  <2> HIDE DEF k, c, j
  <2>2. word(k) \in Word /\ word(k) \subseteq 0 .. (W - 1)
    BY <1>3, <2>1 DEF Word
  <2>3. k < last => word(k + 1) \in Word /\ word(k + 1) \subseteq 0 .. (W - 1)
    <3>1. k < last => k + 1 \in 0 .. last
      BY <1>2, <2>1
    <3> QED BY <1>3, <3>1 DEF Word
  <2>4. CASE r = 0
    <3>1. c \in new[k] <=> W - 1 - c \in word(k)
      <4>1. c \in reverse64(word(k)) <=> W - 1 - c \in word(k)
        <5>1. 1 \in 1 .. W
          BY <1>1
        <5> QED BY <2>1, <2>2, <5>1, ShiftFacts
      <4> QED BY <1>4, <2>1, <2>4, <4>1
    <3> QED BY <2>1, <2>4, <3>1 DEF word, k, c, j
  <2>5. CASE r # 0
    <3>0. r \in 1 .. W
      BY <1>1, <1>2, <2>5
    <3>1. c \in ShiftRight(reverse64(word(k)), W - r) <=> r - 1 - c \in word(k)
      BY <2>1, <2>2, <3>0, ShiftFacts
    <3>2. k < last => (c \in ShiftLeft(reverse64(word(k + 1)), r) <=> W - 1 - c + r \in word(k + 1))
      BY <2>1, <2>3, <3>0, ShiftFacts
    <3>3. c \in new[k] <=> \/ r - 1 - c \in word(k)
                           \/ k < last /\ W - 1 - c + r \in word(k + 1)
      BY <1>4, <2>1, <2>5, <3>1, <3>2
    <3>4. CASE c < r
      <4>1. ~(k < last /\ W - 1 - c + r \in word(k + 1))
        <5>1. W - 1 - c + r \notin 0 .. (W - 1)
          BY <1>1, <1>2, <2>1, <3>4
        <5> QED BY <2>3, <5>1
      <4> QED BY <2>1, <2>5, <3>3, <3>4, <4>1 DEF word, k, c, j
    <3>5. CASE c >= r
      <4>1. r - 1 - c \notin word(k)
        <5>1. r - 1 - c \notin 0 .. (W - 1)
          BY <1>1, <1>2, <2>1, <3>5
        <5> QED BY <2>2, <5>1
      <4> QED BY <2>1, <2>5, <3>3, <3>5, <4>1 DEF word, k, c, j
    <3>6. c < r \/ c >= r
      BY <1>2, <2>1
    <3> QED BY <3>4, <3>5, <3>6
  <2> QED BY <2>4, <2>5
<1> DEFINE made == BitSetImpl(n, new)
<1>8. Ones(made) = {i \in 0 .. (n - 1) : i % W \in new[i \div W]}
  BY DEF Ones, BitSetImpl
<1>9. Ones(b) = {i \in 0 .. (n - 1) : i % W \in b.m_value[i \div W]}
  BY DEF Ones
<1> HIDE DEF made, n, W
<1>10. \A i \in 0 .. (n - 1) : n - 1 - i \in 0 .. (n - 1) /\ n - 1 - (n - 1 - i) = i
  BY <1>1
<1>11. Ones(made) = {n - 1 - i : i \in Ones(b)}
  <2>1. \A i \in 0 .. (n - 1) : i \in Ones(made) <=> n - 1 - i \in Ones(b)
    BY <1>7, <1>8, <1>9, <1>10
  <2>2. Ones(made) \subseteq 0 .. (n - 1) /\ Ones(b) \subseteq 0 .. (n - 1)
    BY <1>8, <1>9
  <2>3. ASSUME NEW i \in Ones(made) PROVE i \in {n - 1 - a : a \in Ones(b)}
    <3>1. n - 1 - i \in Ones(b) /\ n - 1 - (n - 1 - i) = i
      BY <1>10, <2>1, <2>2
    <3> QED BY <3>1
  <2>4. ASSUME NEW a \in Ones(b) PROVE n - 1 - a \in Ones(made)
    <3>1. a \in 0 .. (n - 1) /\ n - 1 - a \in 0 .. (n - 1) /\ n - 1 - (n - 1 - a) = a
      BY <1>10, <2>2
    <3> QED BY <2>1, <3>1
  <2> QED BY <2>3, <2>4
<1> QED
  BY <1>6, <1>11 DEF made, new, n

-----------------------------------------------------------------------------
(* Construction from streams and strings.                                   *)

\* Word k is filled from the characters from k * m on, of which the last word may
\* have fewer than m.
LEMMA ChunkFacts ==
    ASSUME NEW S, NEW s \in Seq(S), NEW m \in Nat \ {0}, NEW k \in Nat, k * m < Len(s)
    PROVE  /\ Chunk(s, k, m) \in Seq(S)
           /\ Len(Chunk(s, k, m)) \in 1 .. m
           /\ \A j \in 1 .. Len(Chunk(s, k, m)) : /\ k * m + j \in 1 .. Len(s)
                                                  /\ Chunk(s, k, m)[j] = s[k * m + j]
           /\ \A j \in 1 .. m : k * m + j <= Len(s) => j <= Len(Chunk(s, k, m))
<1> DEFINE from == k * m
           to == IF (k + 1) * m > Len(s) THEN Len(s) ELSE (k + 1) * m
<1>1. Chunk(s, k, m) = SubSeq(s, from + 1, to)
  BY DEF Chunk
<1>2. (k + 1) * m = from + m /\ from \in Nat /\ Len(s) \in Nat
  OBVIOUS
<1>3. from < Len(s)
  OBVIOUS
<1>4. to \in Nat /\ to > from /\ to <= from + m /\ to <= Len(s) /\ (to < Len(s) => to = from + m)
  BY <1>2, <1>3
<1> HIDE DEF from, to
<1>5. /\ SubSeq(s, from + 1, to) \in Seq(S) /\ Len(SubSeq(s, from + 1, to)) = to - from
      /\ \A j \in 1 .. (to - from) : SubSeq(s, from + 1, to)[j] = s[from + j]
  <2>1. SubSeq(s, from + 1, to) = [j \in 1 .. (to - from) |-> s[from + j]]
    BY <1>2, <1>4
  <2>2. \A j \in 1 .. (to - from) : from + j \in 1 .. Len(s) /\ s[from + j] \in S
    BY <1>2, <1>4
  <2>3. [j \in 1 .. (to - from) |-> s[from + j]] \in Seq(S)
    BY <1>2, <1>4, <2>2
  <2>4. SubSeq(s, from + 1, to) \in Seq(S)
    BY <2>1, <2>3, Zenon
  <2>5. PICK l \in Nat : l = to - from
    BY <1>2, <1>4
  <2>6. /\ Len([j \in 1 .. l |-> s[from + j]]) = l
        /\ \A j \in 1 .. l : [i \in 1 .. l |-> s[from + i]][j] = s[from + j]
    BY <2>3, <2>5
  <2> QED BY <2>1, <2>4, <2>5, <2>6, Zenon
<1>6. \A j \in 1 .. (to - from) : from + j \in 1 .. Len(s)
  BY <1>2, <1>4
<1>7. \A j \in 1 .. m : from + j <= Len(s) => j <= to - from
  BY <1>2, <1>4
<1>8. to - from \in 1 .. m
  BY <1>2, <1>4
<1> QED
  BY <1>1, <1>5, <1>6, <1>7, <1>8 DEF from

\* The bit of a stream that bit i of the object is.
StreamBit(data, i) == i % ByteBits \in data[i \div ByteBits + 1]

LEMMA FromStreamFacts ==
    ASSUME NEW data \in Seq(Byte)
    PROVE  /\ FromStream(data) \in Impl
           /\ FromStream(data).m_bitsNumber = ByteBits * Len(data)
           /\ Ones(FromStream(data)) = {i \in 0 .. (ByteBits * Len(data) - 1) : StreamBit(data, i)}
<1> DEFINE B == ByteBits   N == WordBytes   W == WordBits
           len == Len(data)
           n == len * B
           chunk(k) == Chunk(data, k, N)
           words == [k \in 0 .. (WordCount(n) - 1) |-> fill64(chunk(k))]
<1>1. B \in Nat \ {0} /\ N \in Nat \ {0} /\ W \in Nat \ {0} /\ W = N * B
  BY Widths
<1>2. len \in Nat /\ n \in Nat /\ n = B * len
  BY <1>1
<1>3. FromStream(data) = BitSetImpl(n, words)
  BY DEF FromStream
<1>4. \A k : fill64(chunk(k)) = {i \in 0 .. (B * Len(chunk(k)) - 1) :
                                   i % B \in chunk(k)[i \div B + 1]}
  BY DEF fill64
<1>5. /\ \A i \in 0 .. (n - 1) : i \div W \in 0 .. (WordCount(n) - 1)
      /\ \A k \in 0 .. (WordCount(n) - 1) : k * W < n
      /\ WordCount(n) \in Nat
  BY <1>2, WordCountFacts
<1> HIDE DEF B, N, W, len, n
<1>6. ASSUME NEW k \in 0 .. (WordCount(n) - 1) PROVE k \in Nat /\ k * N < len
  <2>1. k \in Nat /\ k * W < n /\ k * N \in Nat
    BY <1>1, <1>5
  <2>2. k * W = (k * N) * B
    BY <1>1, <2>1
  <2>3. ASSUME k * N >= len PROVE FALSE
    <3>1. (k * N - len) * B \in Nat
      BY <1>1, <1>2, <2>1, <2>3
    <3>2. (k * N - len) * B = (k * N) * B - len * B /\ (k * N) * B \in Nat /\ len * B \in Nat
      BY <1>1, <1>2, <2>1
    <3> QED BY <2>1, <2>2, <3>1, <3>2 DEF n
  <2> QED BY <1>2, <2>1, <2>3
<1>7. ASSUME NEW k \in 0 .. (WordCount(n) - 1)
      PROVE  /\ Len(chunk(k)) \in 1 .. N
             /\ \A j \in 1 .. Len(chunk(k)) : chunk(k)[j] = data[k * N + j]
             /\ \A j \in 1 .. N : k * N + j <= len => j <= Len(chunk(k))
  BY <1>1, <1>6, ChunkFacts DEF len
<1> HIDE DEF chunk
<1>8. ASSUME NEW k \in 0 .. (WordCount(n) - 1) PROVE fill64(chunk(k)) \in Word
  <2>1. PICK l \in Nat : l = Len(chunk(k)) /\ l <= N
    BY <1>7
  <2>2. B * l <= W
    <3>1. (N - l) * B \in Nat
      BY <1>1, <2>1
    <3>2. (N - l) * B = N * B - B * l /\ B * l \in Nat
      BY <1>1, <2>1
    <3> QED BY <1>1, <3>1, <3>2
  <2>3. B * l \in Nat
    BY <1>1, <2>1
  <2>4. 0 .. (B * l - 1) \subseteq 0 .. (W - 1)
    BY <1>1, <2>2, <2>3
  <2>5. fill64(chunk(k)) \subseteq 0 .. (B * l - 1)
    BY <1>4, <2>1
  <2> QED BY <2>4, <2>5 DEF Word, W
<1>9. words \in Words(n)
  BY <1>8 DEF Words
<1>10. ASSUME NEW i \in 0 .. (n - 1)
       PROVE  i % W \in fill64(chunk(i \div W)) <=> StreamBit(data, i)
  <2>0. i \in Nat /\ i < n
    BY <1>2
  <2>a. /\ i \div W \in Nat /\ i % W \in Nat /\ i % W < W
        /\ i = (i \div W) * W + (i % W)
    BY <1>1, <2>0, DivMod
  <2>1. PICK k, c \in Nat : k = i \div W /\ c = i % W /\ c < W /\ i = k * W + c
    BY <2>a
  <2>2. k \in 0 .. (WordCount(n) - 1)
    BY <1>5, <2>1
  <2>b. /\ c \div B \in Nat /\ c % B \in Nat /\ c % B < B
        /\ c = (c \div B) * B + (c % B)
    BY <1>1, DivMod
  <2>3. PICK q, s \in Nat : q = c \div B /\ s = c % B /\ s < B /\ c = q * B + s
    BY <2>b
  <2>4. k * N \in Nat /\ k * N + q \in Nat /\ i = (k * N + q) * B + s
    <3>1. k * N \in Nat
      BY <1>1
    <3>2. (k * N + q) * B = (k * N) * B + q * B
      BY <1>1, <3>1
    <3>3. (k * N) * B = k * (N * B)
      BY <1>1
    <3>4. i = (k * N) * B + (q * B + s)
      BY <1>1, <2>1, <2>3, <3>3
    <3>5. (k * N) * B \in Nat /\ q * B \in Nat
      BY <1>1, <3>1
    <3> QED BY <3>1, <3>2, <3>4, <3>5
  <2>5. i \div B = k * N + q /\ i % B = s
    BY <1>1, <2>3, <2>4, Quotient
  <2>6. q < N
    BY <1>1, <2>1, <2>3, QuotientBelow
  <2>7. k * N + q < len
    BY <1>1, <1>2, <2>4, <2>5, QuotientBelow DEF n
  <2>8. q + 1 \in 1 .. N /\ q + 1 <= Len(chunk(k)) /\ Len(chunk(k)) \in Nat
    <3>1. q + 1 \in 1 .. N
      BY <1>1, <2>6
    <3>2. k * N + (q + 1) <= len
      BY <1>2, <2>4, <2>7
    <3>3. \A j \in 1 .. N : k * N + j <= len => j <= Len(chunk(k))
      BY <1>7, <2>2
    <3>4. Len(chunk(k)) \in 1 .. N
      BY <1>7, <2>2
    <3>5. Len(chunk(k)) \in Nat
      BY <1>1, <3>4
    <3>6. q + 1 <= Len(chunk(k))
      BY <3>1, <3>2, <3>3
    <3> QED BY <3>1, <3>5, <3>6
  <2>9. chunk(k)[q + 1] = data[k * N + q + 1]
    <3>1. q + 1 \in 1 .. Len(chunk(k))
      BY <2>8
    <3>2. k * N \in Int
      BY <2>4
    <3>3. k * N + (q + 1) = k * N + q + 1
      BY <3>2
    <3> QED BY <1>7, <2>2, <3>1, <3>3
  <2>10. c < B * Len(chunk(k)) /\ B * Len(chunk(k)) \in Nat
    <3>1. PICK l \in Nat : l = Len(chunk(k)) /\ q < l
      BY <2>8
    <3>2. c < l * B
      BY <1>1, <2>3, <3>1, QuotientBelow
    <3>3. l * B = B * l /\ B * l \in Nat
      BY <1>1
    <3> QED BY <3>1, <3>2, <3>3
  <2>11. c \in fill64(chunk(k)) <=> s \in chunk(k)[q + 1]
    <3>1. c \in 0 .. (B * Len(chunk(k)) - 1)
      BY <2>1, <2>10
    <3> QED BY <1>4, <2>3, <3>1
  <2>12. StreamBit(data, i) <=> s \in data[k * N + q + 1]
    BY <2>5 DEF StreamBit, B
  <2> QED BY <2>1, <2>9, <2>11, <2>12
<1> DEFINE made == BitSetImpl(n, words)
<1>11. made \in Impl /\ made.m_bitsNumber = n /\ made.m_value = words
  BY <1>2, <1>9, ImplMade
<1>12. Ones(made) = {i \in 0 .. (n - 1) : i % W \in words[i \div W]}
  BY <1>11 DEF Ones, W
<1> HIDE DEF made
<1>13. Ones(made) = {i \in 0 .. (n - 1) : StreamBit(data, i)}
  <2>1. \A i \in 0 .. (n - 1) : words[i \div W] = fill64(chunk(i \div W))
    BY <1>5
  <2> QED BY <1>10, <1>12, <2>1
<1> QED
  BY <1>2, <1>3, <1>11, <1>13 DEF made, B, len

\* The bit of a string that bit i of the object is.
StringBit(s, i) == /\ s[i + 1] = "1"
                   /\ ~ \E o \in DOMAIN s : /\ s[o] = "other"
                                            /\ (o - 1) \div WordBits = i \div WordBits

LEMMA FromStringFacts ==
    ASSUME NEW s \in Seq(Chars)
    PROVE  /\ FromString(s) \in Impl
           /\ FromString(s).m_bitsNumber = Len(s)
           /\ Ones(FromString(s)) = {i \in 0 .. (Len(s) - 1) : StringBit(s, i)}
<1> DEFINE W == WordBits
           n == Len(s)
           chunk(k) == Chunk(s, k, W)
           words == [k \in 0 .. (WordCount(n) - 1) |-> fill64Bin(chunk(k))]
           bad(k) == \E o \in DOMAIN s : s[o] = "other" /\ (o - 1) \div W = k
<1>1. W \in Nat \ {0} /\ n \in Nat /\ DOMAIN s = 1 .. n
  BY Widths
<1>2. FromString(s) = BitSetImpl(n, words)
  BY DEF FromString
<1>3. \A k : fill64Bin(chunk(k)) = IF \E j \in DOMAIN chunk(k) : chunk(k)[j] = "other" THEN {}
                                   ELSE {i \in 0 .. (Len(chunk(k)) - 1) : chunk(k)[i + 1] = "1"}
  BY DEF fill64Bin
<1>4. /\ \A i \in 0 .. (n - 1) : i \div W \in 0 .. (WordCount(n) - 1)
      /\ \A k \in 0 .. (WordCount(n) - 1) : k * W < n
      /\ WordCount(n) \in Nat
  BY <1>1, WordCountFacts
<1> HIDE DEF W, n
<1>5. ASSUME NEW k \in 0 .. (WordCount(n) - 1)
      PROVE  /\ k \in Nat /\ Len(chunk(k)) \in 1 .. W /\ DOMAIN chunk(k) = 1 .. Len(chunk(k))
             /\ \A j \in 1 .. Len(chunk(k)) : k * W + j \in 1 .. n /\ chunk(k)[j] = s[k * W + j]
             /\ \A j \in 1 .. W : k * W + j <= n => j <= Len(chunk(k))
  <2>1. k \in Nat /\ k * W < Len(s)
    BY <1>4 DEF n
  <2>2. chunk(k) \in Seq(Chars)
    BY <1>1, <2>1, ChunkFacts
  <2>3. /\ Len(chunk(k)) \in 1 .. W
        /\ \A j \in 1 .. Len(chunk(k)) : k * W + j \in 1 .. n /\ chunk(k)[j] = s[k * W + j]
        /\ \A j \in 1 .. W : k * W + j <= n => j <= Len(chunk(k))
    <3>1. Len(chunk(k)) \in 1 .. W
      BY <1>1, <2>1, ChunkFacts
    <3>2. \A j \in 1 .. Len(chunk(k)) : k * W + j \in 1 .. n /\ chunk(k)[j] = s[k * W + j]
      BY <1>1, <2>1, ChunkFacts DEF n
    <3>3. \A j \in 1 .. W : k * W + j <= n => j <= Len(chunk(k))
      BY <1>1, <2>1, ChunkFacts DEF n
    <3> QED
      BY <3>1, <3>2, <3>3
  <2> HIDE DEF chunk
  <2>4. DOMAIN chunk(k) = 1 .. Len(chunk(k))
    BY <2>2
  <2> QED BY <2>1, <2>3, <2>4
<1> HIDE DEF chunk
<1>6. ASSUME NEW k \in 0 .. (WordCount(n) - 1)
      PROVE  (\E j \in DOMAIN chunk(k) : chunk(k)[j] = "other") <=> bad(k)
  <2>1. k \in Nat /\ k * W \in Nat
    BY <1>1, <1>5
  <2>2. ASSUME NEW j \in DOMAIN chunk(k), chunk(k)[j] = "other" PROVE bad(k)
    <3>1. /\ j \in 1 .. Len(chunk(k)) /\ Len(chunk(k)) \in 1 .. W
          /\ k * W + j \in 1 .. n /\ s[k * W + j] = "other"
      BY <1>5, <2>2
    <3>2. j - 1 \in Nat /\ j - 1 < W /\ (k * W + j) - 1 = k * W + (j - 1)
      BY <1>1, <2>1, <3>1
    <3>3. (k * W + (j - 1)) \div W = k
      BY <1>1, <2>1, <3>2, Quotient
    <3>4. (k * W + j) - 1 = k * W + (j - 1) /\ ((k * W + j) - 1) \div W = k
      BY <3>2, <3>3
    <3> QED BY <1>1, <3>1, <3>4
  <2>3. ASSUME bad(k) PROVE \E j \in DOMAIN chunk(k) : chunk(k)[j] = "other"
    <3>1. PICK o \in 1 .. n : s[o] = "other" /\ (o - 1) \div W = k
      BY <1>1, <2>3
    <3>2. o - 1 \in Nat
      BY <1>1
    <3>3. (o - 1) % W \in Nat /\ (o - 1) % W < W /\ o - 1 = ((o - 1) \div W) * W + ((o - 1) % W)
      BY <1>1, <3>2, DivMod
    <3>4. PICK r \in Nat : r < W /\ o - 1 = k * W + r
      BY <3>1, <3>3
    <3>5. r + 1 \in 1 .. W /\ k * W + (r + 1) = o
      BY <1>1, <2>1, <3>4
    <3>6. r + 1 \in 1 .. Len(chunk(k))
      BY <1>1, <1>5, <3>5
    <3> QED BY <1>5, <3>1, <3>5, <3>6
  <2> QED BY <2>2, <2>3
<1>7. ASSUME NEW k \in 0 .. (WordCount(n) - 1) PROVE fill64Bin(chunk(k)) \in Word
  <2>1. Len(chunk(k)) \in 1 .. W
    BY <1>5
  <2>2. fill64Bin(chunk(k)) \subseteq 0 .. (Len(chunk(k)) - 1)
    BY <1>3
  <2>3. 0 .. (Len(chunk(k)) - 1) \subseteq 0 .. (W - 1)
    BY <1>1, <2>1
  <2> QED BY <2>2, <2>3 DEF Word, W
<1>8. words \in Words(n)
  BY <1>7 DEF Words
<1>9. ASSUME NEW i \in 0 .. (n - 1)
      PROVE  i % W \in fill64Bin(chunk(i \div W)) <=> StringBit(s, i)
  <2>1. i \in Nat /\ i < n
    BY <1>1
  <2>2. i \div W \in Nat /\ i % W \in Nat /\ i % W < W /\ i = (i \div W) * W + (i % W)
    BY <1>1, <2>1, DivMod
  <2>3. PICK k, c \in Nat : k = i \div W /\ c = i % W /\ c < W /\ i = k * W + c
    BY <2>2
  <2>4. k \in 0 .. (WordCount(n) - 1)
    BY <1>4, <2>3
  <2>5. k * W \in Nat /\ c + 1 \in 1 .. W /\ k * W + (c + 1) = i + 1 /\ i + 1 <= n
    BY <1>1, <2>1, <2>3
  <2>6. c + 1 \in 1 .. Len(chunk(k)) /\ chunk(k)[c + 1] = s[i + 1]
    BY <1>1, <1>5, <2>4, <2>5
  <2>7. c \in 0 .. (Len(chunk(k)) - 1)
    BY <1>5, <2>4, <2>6
  <2>8. c \in fill64Bin(chunk(k)) <=> ~ bad(k) /\ s[i + 1] = "1"
    BY <1>3, <1>6, <2>4, <2>6, <2>7
  <2>9. StringBit(s, i) <=> s[i + 1] = "1" /\ ~ bad(k)
    BY <2>3 DEF StringBit, W
  <2> QED BY <2>3, <2>8, <2>9
<1> DEFINE made == BitSetImpl(n, words)
<1>10. made \in Impl /\ made.m_bitsNumber = n /\ made.m_value = words
  BY <1>1, <1>8, ImplMade
<1>11. Ones(made) = {i \in 0 .. (n - 1) : i % W \in words[i \div W]}
  BY <1>10 DEF Ones, W
<1> HIDE DEF made
<1>12. Ones(made) = {i \in 0 .. (n - 1) : StringBit(s, i)}
  <2>1. \A i \in 0 .. (n - 1) : words[i \div W] = fill64Bin(chunk(i \div W))
    BY <1>4
  <2> QED BY <1>9, <1>11, <2>1
<1> QED
  BY <1>2, <1>10, <1>12 DEF made, n

-----------------------------------------------------------------------------
(* The methods that change bits.                                            *)

\* set changes the bit it is given and no other.
LEMMA SetFacts ==
    ASSUME NEW b \in Impl, NEW i \in 0 .. (b.m_bitsNumber - 1), NEW flag \in BOOLEAN
    PROVE  LET k == i \div WordBits
               c == i % WordBits
               words == [b.m_value EXCEPT ![k] = IF flag THEN @ \cup {c} ELSE @ \ {c}]
           IN  /\ words \in Words(b.m_bitsNumber)
               /\ Ones(BitSetImpl(b.m_bitsNumber, words))
                    = IF flag THEN Ones(b) \cup {i} ELSE Ones(b) \ {i}
<1> DEFINE W == WordBits
           n == b.m_bitsNumber
           old == b.m_value
           k == i \div W
           c == i % W
           word == IF flag THEN old[k] \cup {c} ELSE old[k] \ {c}
           words == [old EXCEPT ![k] = word]
<1>1. W \in Nat \ {0} /\ n \in Nat /\ old \in Words(n)
  BY Widths, ImplParts
<1>2. i \in Nat /\ i < n
  BY <1>1
<1>3. k \in Nat /\ c \in Nat /\ c < W /\ i = k * W + c
  BY <1>1, <1>2, DivMod
<1>4. \A j \in 0 .. (n - 1) : j \div W \in 0 .. (WordCount(n) - 1)
  BY <1>1, WordCountFacts
<1>5. k \in 0 .. (WordCount(n) - 1)
  BY <1>4
<1> HIDE DEF W, n, old, k, c
<1>6. old \in [0 .. (WordCount(n) - 1) -> Word]
  BY <1>1 DEF Words
<1>7. word \in Word
  <2>1. c \in 0 .. (W - 1) /\ Word = SUBSET (0 .. (W - 1))
    BY <1>1, <1>3 DEF Word, W
  <2>2. old[k] \in Word
    BY <1>5, <1>6
  <2> QED BY <2>1, <2>2
<1>8. words \in Words(n)
  BY <1>5, <1>6, <1>7 DEF Words
<1>9. \A j \in 0 .. (n - 1) : words[j \div W] = IF j \div W = k THEN word ELSE old[j \div W]
  BY <1>4, <1>6
<1>10. ASSUME NEW j \in 0 .. (n - 1), j \div W = k, j % W = c PROVE j = i
  <2>1. j \in Nat
    BY <1>1
  <2>2. j = (j \div W) * W + (j % W)
    BY <1>1, <2>1, DivMod
  <2> QED BY <1>3, <1>10, <2>2
<1>11. i \div W = k /\ i % W = c /\ i \in 0 .. (n - 1)
  BY <1>1, <1>2 DEF k, c
<1>12. ASSUME NEW j \in 0 .. (n - 1)
       PROVE  j % W \in words[j \div W]
                <=> (IF j = i THEN flag ELSE j % W \in old[j \div W])
  BY <1>9, <1>10, <1>11
<1> HIDE DEF words
<1>13. /\ Ones(BitSetImpl(n, words)) = {j \in 0 .. (n - 1) : j % W \in words[j \div W]}
       /\ Ones(b) = {j \in 0 .. (n - 1) : j % W \in old[j \div W]}
  BY DEF Ones, BitSetImpl, W, n, old
<1>14. Ones(BitSetImpl(n, words)) = IF flag THEN Ones(b) \cup {i} ELSE Ones(b) \ {i}
  BY <1>11, <1>12, <1>13
<1>15. words = [old EXCEPT ![k] = IF flag THEN @ \cup {c} ELSE @ \ {c}]
  BY DEF words
<1> QED
  BY <1>8, <1>14, <1>15 DEF n, old, k, c, W

\* inverse turns the bits within the size over, whatever those beyond it are.
LEMMA InverseFacts ==
    ASSUME NEW b \in Impl
    PROVE  LET words == [k \in DOMAIN b.m_value |-> (0 .. (WordBits - 1)) \ b.m_value[k]]
           IN  /\ words \in Words(b.m_bitsNumber)
               /\ Ones(BitSetImpl(b.m_bitsNumber, words)) = (0 .. (b.m_bitsNumber - 1)) \ Ones(b)
<1> DEFINE W == WordBits
           n == b.m_bitsNumber
           old == b.m_value
           words == [k \in DOMAIN old |-> (0 .. (W - 1)) \ old[k]]
<1>1. W \in Nat \ {0} /\ n \in Nat /\ old \in Words(n)
  BY Widths, ImplParts
<1>2. DOMAIN old = 0 .. (WordCount(n) - 1)
  BY <1>1 DEF Words
<1>3. words \in Words(n)
  BY <1>2 DEF Words, Word
<1>4. ASSUME NEW j \in 0 .. (n - 1)
      PROVE  j % W \in words[j \div W] <=> j % W \notin old[j \div W]
  <2>1. j \in Nat
    BY <1>1
  <2>2. j % W \in Nat /\ j % W < W
    BY <1>1, <2>1, DivMod
  <2>3. j \div W \in DOMAIN old
    BY <1>1, <1>2, WordCountFacts
  <2>4. j % W \in 0 .. (W - 1)
    BY <1>1, <2>2
  <2> QED BY <2>3, <2>4
<1> HIDE DEF words
<1>5. /\ Ones(BitSetImpl(n, words)) = {j \in 0 .. (n - 1) : j % W \in words[j \div W]}
      /\ Ones(b) = {j \in 0 .. (n - 1) : j % W \in old[j \div W]}
  BY DEF Ones, BitSetImpl
<1>6. Ones(BitSetImpl(n, words)) = (0 .. (n - 1)) \ Ones(b)
  BY <1>4, <1>5
<1> QED
  BY <1>3, <1>6 DEF words

-----------------------------------------------------------------------------
(* What the constructors make.                                              *)

LEMMA ExpectedSizes ==
    ASSUME NEW n \in Sizes
    PROVE  /\ BitSetImpl(n, Zeros(n)) \in Impl
           /\ Bits(BitSetImpl(n, Zeros(n))) \in Expected
<1>1. n \in Nat
  BY InputAssumption
<1>2. BitSetImpl(n, Zeros(n)) \in Impl
  BY <1>1, ZerosFacts, ImplMade
<1>3. [size |-> n, ones |-> {}] \in Expected
  BY DEF Expected
<1> QED
  BY <1>1, <1>2, <1>3, ZerosFacts

LEMMA ExpectedStreams ==
    ASSUME NEW data \in Streams
    PROVE  FromStream(data) \in Impl /\ Bits(FromStream(data)) \in Expected
<1> DEFINE B == ByteBits
           len == Len(data)
           pairs == {q \in (DOMAIN data) \X (0 .. (B - 1)) : q[2] \in data[q[1]]}
           ones == {B * (p[1] - 1) + p[2] : p \in pairs}
           b == FromStream(data)
<1>1. data \in Seq(Byte) /\ B \in Nat \ {0} /\ len \in Nat /\ DOMAIN data = 1 .. len
  BY InputAssumption, Widths
<1>2. b \in Impl /\ b.m_bitsNumber = B * len
      /\ Ones(b) = {i \in 0 .. (B * len - 1) : StreamBit(data, i)}
  BY <1>1, FromStreamFacts
<1>3. [size |-> B * len, ones |-> ones] \in Expected
  BY DEF Expected
<1>4. \A i : StreamBit(data, i) <=> i % B \in data[i \div B + 1]
  BY DEF StreamBit
<1> HIDE DEF B, len, b
<1>5. B * len \in Nat /\ B * len = len * B
  BY <1>1
<1>6. ASSUME NEW i \in Ones(b) PROVE i \in ones
  <2>1. i \in Nat /\ i < len * B /\ i % B \in data[i \div B + 1]
    BY <1>2, <1>4, <1>5
  <2>2. /\ i \div B \in Nat /\ i % B \in Nat /\ i % B < B
        /\ i = (i \div B) * B + (i % B)
    BY <1>1, <2>1, DivMod
  <2>3. i \div B < len
    BY <1>1, <2>1, QuotientBelow
  <2>4. PICK q, r \in Nat : q = i \div B /\ r = i % B /\ r < B /\ i = q * B + r
    BY <2>2
  <2> DEFINE p == <<q + 1, r>>
  <2>5. q + 1 \in DOMAIN data /\ r \in 0 .. (B - 1)
    BY <1>1, <2>3, <2>4
  <2>6. p \in pairs /\ p[1] = q + 1 /\ p[2] = r
    BY <2>1, <2>4, <2>5
  <2>7. i = B * (p[1] - 1) + p[2]
    <3>1. (q + 1) - 1 = q /\ q * B = B * q
      BY <1>1, <2>4
    <3> QED BY <2>4, <2>6, <3>1
  <2> QED BY <2>6, <2>7
<1>7. ASSUME NEW p \in pairs PROVE B * (p[1] - 1) + p[2] \in Ones(b)
  <2>1. PICK q, r \in Nat : /\ q = p[1] - 1 /\ r = p[2] /\ r < B
                            /\ q < len /\ r \in data[q + 1]
    <3>1. p[1] \in 1 .. len /\ p[2] \in 0 .. (B - 1) /\ p[2] \in data[p[1]]
      BY <1>1
    <3>2. p[1] - 1 \in Nat /\ p[2] \in Nat /\ p[2] < B /\ p[1] - 1 < len /\ (p[1] - 1) + 1 = p[1]
      BY <1>1, <3>1
    <3> QED BY <3>1, <3>2
  <2>2. q * B + r \in Nat /\ (q * B + r) \div B = q /\ (q * B + r) % B = r
    BY <1>1, <2>1, Quotient
  <2>3. q * B + r < len * B
    BY <1>1, <2>1, <2>2, QuotientBelow
  <2>4. B * q = q * B
    BY <1>1
  <2>5. q * B + r \in 0 .. (B * len - 1)
    BY <1>5, <2>2, <2>3
  <2>6. StreamBit(data, q * B + r)
    BY <1>4, <2>1, <2>2
  <2> QED BY <1>2, <2>1, <2>4, <2>5, <2>6
<1>8. Ones(b) = ones
  BY <1>6, <1>7
<1>9. Bits(b) = [size |-> B * len, ones |-> Ones(b)]
  BY <1>2, BitsFacts
<1> QED
  BY <1>2, <1>3, <1>8, <1>9 DEF b

LEMMA ExpectedStrings ==
    ASSUME NEW s \in Strings
    PROVE  FromString(s) \in Impl /\ Bits(FromString(s)) \in Expected
<1> DEFINE digits == {j \in DOMAIN s : s[j] = "1" /\
                        ~ \E o \in DOMAIN s : /\ s[o] = "other"
                                              /\ (o - 1) \div WordBits = (j - 1) \div WordBits}
           ones == {k - 1 : k \in digits}
           b == FromString(s)
<1>1. s \in Seq(Chars) /\ Len(s) \in Nat /\ DOMAIN s = 1 .. Len(s)
  BY InputAssumption
<1>2. /\ b \in Impl /\ b.m_bitsNumber = Len(s)
      /\ Ones(b) = {i \in 0 .. (Len(s) - 1) : StringBit(s, i)}
  BY <1>1, FromStringFacts
<1>3. [size |-> Len(s), ones |-> ones] \in Expected
  BY DEF Expected
<1> HIDE DEF b
<1>4. ASSUME NEW i \in Ones(b) PROVE i \in ones
  <2>1. i \in 0 .. (Len(s) - 1) /\ StringBit(s, i)
    BY <1>2
  <2>2. i + 1 \in DOMAIN s /\ (i + 1) - 1 = i
    BY <1>1, <2>1
  <2>3. i + 1 \in digits
    BY <2>1, <2>2 DEF StringBit
  <2> QED BY <2>2, <2>3
<1>5. ASSUME NEW j \in digits PROVE j - 1 \in Ones(b)
  <2>1. j - 1 \in 0 .. (Len(s) - 1) /\ (j - 1) + 1 = j
    BY <1>1
  <2>2. StringBit(s, j - 1)
    BY <2>1 DEF StringBit
  <2> QED BY <1>2, <2>1, <2>2
<1>6. Ones(b) = ones
  BY <1>4, <1>5
<1>7. Bits(b) = [size |-> Len(s), ones |-> Ones(b)]
  BY <1>2, BitsFacts
<1> QED
  BY <1>2, <1>3, <1>6, <1>7 DEF b

-----------------------------------------------------------------------------
(* The inductive invariant and the abstract state.                          *)

Unowned == \A a \in Ids : (\A x \in Vars : m_value[x] # a) => impl[a] = Gone

Inv == /\ m_value \in [Vars -> Ids \cup {None}]
       /\ impl \in [Ids -> Impl]
       /\ Unowned

View == [a \in Ids |-> Bits(impl[a])]
AbstractStep == [Abs!Next]_<<m_value, View>>

LEMMA InvTypeOK == Inv => TypeOK
<1> SUFFICES ASSUME Inv, NEW a \in Ids
             PROVE  /\ m_value \in [Vars -> Ids \cup {None}]
                    /\ impl[a].m_bitsNumber \in Nat
                    /\ impl[a].m_value \in [0 .. (WordCount(impl[a].m_bitsNumber) - 1) -> Word]
                    /\ (\A x \in Vars : m_value[x] # a) => impl[a] = Gone
  BY DEF TypeOK, Inv
<1>1. impl[a] \in Impl
  BY DEF Inv
<1>2. impl[a].m_bitsNumber \in Nat /\ impl[a].m_value \in Words(impl[a].m_bitsNumber)
  BY <1>1, ImplParts
<1> QED
  BY <1>2 DEF Inv, Unowned, Words

LEMMA GoneFacts == Gone \in Impl /\ Bits(Gone) = Abs!Empty
<1>1. 0 \in Nat
  OBVIOUS
<1>2. Gone \in Impl
  BY <1>1, ZerosFacts, ImplMade DEF Gone
<1>3. Bits(Gone) = [size |-> 0, ones |-> {}]
  BY <1>1, ZerosFacts DEF Gone
<1> QED
  BY <1>2, <1>3 DEF Abs!Empty

LEMMA InitMaps ==
    ASSUME Init PROVE Inv /\ Abs!Init
<1>1. \A a \in Ids : impl[a] = Gone /\ impl[a] \in Impl
  BY GoneFacts DEF Init
<1>2. Inv
  BY <1>1 DEF Init, Inv, Unowned
<1>3. Abs!Init
  BY <1>1, GoneFacts DEF Init, Abs!Init
<1> QED
  BY <1>2, <1>3

\* Constructors.
LEMMA ConstructMaps ==
    ASSUME Inv, NEW x \in Vars, NEW new \in Impl, Bits(new) \in Expected, Construct(x, new)
    PROVE  Inv' /\ AbstractStep
<1>1. PICK a \in Ids : /\ m_value[x] = None /\ \A y \in Vars : m_value[y] # a
                       /\ m_value' = [m_value EXCEPT ![x] = a]
                       /\ impl' = [impl EXCEPT ![a] = new]
  BY DEF Construct
<1>2. Inv'
  <2>1. m_value' \in [Vars -> Ids \cup {None}] /\ impl' \in [Ids -> Impl]
    BY <1>1 DEF Inv
  <2>2. ASSUME NEW c \in Ids, \A y \in Vars : m_value'[y] # c PROVE impl'[c] = Gone
    <3>1. c # a
      BY <1>1, <2>2 DEF Inv
    <3>2. ASSUME NEW y \in Vars PROVE m_value[y] # c
      <4>1. CASE y = x
        BY <1>1, <4>1, IdAssumption
      <4>2. CASE y # x
        BY <1>1, <2>2, <4>2 DEF Inv
      <4> QED BY <4>1, <4>2
    <3>3. impl[c] = Gone
      BY <3>2 DEF Inv, Unowned
    <3> QED BY <1>1, <3>1, <3>3 DEF Inv
  <2> QED BY <2>1, <2>2 DEF Inv, Unowned
<1>3. View' = [View EXCEPT ![a] = Bits(new)]
  <2>1. \A c \in Ids : impl'[c] = IF c = a THEN new ELSE impl[c]
    BY <1>1 DEF Inv
  <2>2. \A c \in Ids : Bits(impl'[c]) = IF c = a THEN Bits(new) ELSE Bits(impl[c])
    BY <2>1
  <2> QED BY <2>2 DEF View
<1>4. Abs!Make(x, a, Bits(new))
  BY <1>1, <1>3 DEF Abs!Make, View
<1>5. Abs!Next
  BY <1>4 DEF Abs!Next
<1> QED
  BY <1>2, <1>5 DEF AbstractStep

\* Copies, moves and destruction: what loses its last owner is gone in both.
LEMMA OwnedMaps ==
    ASSUME Inv, m_value' \in [Vars -> Ids \cup {None}], impl' = Owned(m_value')
    PROVE  Inv' /\ View' = Abs!Live(m_value', View)
<1>1. \A a \in Ids : impl'[a] = IF \E x \in Vars : m_value'[x] = a THEN impl[a] ELSE Gone
  BY DEF Owned
<1>2. impl' = [a \in Ids |-> impl'[a]]
  BY DEF Owned
<1>3. \A a \in Ids : impl'[a] \in Impl
  BY <1>1, GoneFacts DEF Inv
<1>4. Inv'
  BY <1>1, <1>2, <1>3 DEF Inv, Unowned
<1>5. \A a \in Ids : Bits(impl'[a]) = IF \E x \in Vars : m_value'[x] = a
                                      THEN Bits(impl[a]) ELSE Abs!Empty
  BY <1>1, GoneFacts
<1> QED
  BY <1>4, <1>5 DEF View, Abs!Live

LEMMA CopyMaps ==
    ASSUME Inv, NEW x \in Vars, NEW y \in Vars, Copy(x, y)
    PROVE  Inv' /\ AbstractStep
<1>1. /\ m_value[y] # None /\ m_value' = [m_value EXCEPT ![x] = m_value[y]]
      /\ impl' = Owned(m_value')
  BY DEF Copy, Point
<1>2. m_value' \in [Vars -> Ids \cup {None}]
  BY <1>1 DEF Inv
<1>3. Inv' /\ View' = Abs!Live(m_value', View)
  BY <1>1, <1>2, OwnedMaps
<1>4. Abs!Refer(x, m_value[y])
  BY <1>1, <1>3 DEF Abs!Refer, View
<1>5. Abs!Next
  BY <1>1, <1>4 DEF Abs!Next
<1> QED
  BY <1>3, <1>5 DEF AbstractStep

LEMMA MoveMaps ==
    ASSUME Inv, NEW x \in Vars, NEW y \in Vars, Move(x, y)
    PROVE  Inv' /\ AbstractStep
<1>1. /\ x # y /\ m_value[y] # None
      /\ m_value' = [m_value EXCEPT ![x] = m_value[y], ![y] = None]
      /\ impl' = Owned(m_value')
  BY DEF Move
<1>2. m_value' \in [Vars -> Ids \cup {None}]
  BY <1>1 DEF Inv
<1>3. Inv' /\ View' = Abs!Live(m_value', View)
  BY <1>1, <1>2, OwnedMaps
<1>4. Abs!Next
  BY <1>1, <1>3 DEF Abs!Next, View
<1> QED
  BY <1>3, <1>4 DEF AbstractStep

LEMMA DestroyMaps ==
    ASSUME Inv, NEW x \in Vars, Destroy(x)
    PROVE  Inv' /\ AbstractStep
<1>1. /\ m_value[x] # None /\ m_value' = [m_value EXCEPT ![x] = None]
      /\ impl' = Owned(m_value')
  BY DEF Destroy, Point
<1>2. m_value' \in [Vars -> Ids \cup {None}]
  BY <1>1 DEF Inv
<1>3. Inv' /\ View' = Abs!Live(m_value', View)
  BY <1>1, <1>2, OwnedMaps
<1>4. Abs!Refer(x, None)
  BY <1>1, <1>3 DEF Abs!Refer, View
<1>5. Abs!Next
  BY <1>1, <1>4 DEF Abs!Next
<1> QED
  BY <1>3, <1>5 DEF AbstractStep

\* A method that changes the words of x's implementation changes its ones in the
\* abstract state, for every variable that shares it.
LEMMA UpdateMaps ==
    ASSUME Inv, NEW x \in Vars, m_value[x] # None,
           NEW words \in Words(impl[m_value[x]].m_bitsNumber), Update(x, words)
    PROVE  /\ Inv' /\ m_value' = m_value
           /\ View' = [View EXCEPT ![m_value[x]].ones =
                         Ones(BitSetImpl(impl[m_value[x]].m_bitsNumber, words))]
<1>1. PICK a \in Ids : a = m_value[x]
  BY DEF Inv
<1>2. PICK b \in Impl : b = impl[a]
  BY DEF Inv
<1>3. PICK n \in Nat : n = b.m_bitsNumber /\ b = BitSetImpl(n, b.m_value)
  BY ImplParts
<1>4. words \in Words(n)
  BY <1>1, <1>2, <1>3
<1> DEFINE new == BitSetImpl(n, words)
<1>5. new \in Impl /\ new.m_bitsNumber = n /\ new.m_value = words
  BY <1>4, ImplMade
<1>6. [b EXCEPT !.m_value = words] = new
  BY <1>3 DEF BitSetImpl
<1>7. m_value' = m_value /\ impl' = [impl EXCEPT ![a] = new]
  <2>1. impl' = [impl EXCEPT ![a].m_value = words] /\ m_value' = m_value
    BY <1>1 DEF Update
  <2>2. impl' = [impl EXCEPT ![a] = [b EXCEPT !.m_value = words]]
    BY <1>2, <2>1 DEF Inv
  <2> QED BY <1>6, <2>1, <2>2
<1> HIDE DEF new
<1>8. \A c \in Ids : impl'[c] = IF c = a THEN new ELSE impl[c]
  BY <1>7 DEF Inv
<1>9. Inv'
  <2>1. impl' \in [Ids -> Impl]
    BY <1>5, <1>7 DEF Inv
  <2>2. ASSUME NEW c \in Ids, \A y \in Vars : m_value'[y] # c PROVE impl'[c] = Gone
    <3>1. c # a
      BY <1>1, <1>7, <2>2
    <3> QED BY <1>7, <1>8, <2>2, <3>1 DEF Inv, Unowned
  <2> QED BY <1>7, <2>1, <2>2 DEF Inv, Unowned
<1>10. Bits(b) = [size |-> n, ones |-> Ones(b)] /\ Bits(new) = [size |-> n, ones |-> Ones(new)]
  BY <1>3, <1>5, BitsFacts
<1>11. View' = [View EXCEPT ![a].ones = Ones(new)]
  <2>1. \A c \in Ids : Bits(impl'[c]) = IF c = a THEN Bits(new) ELSE Bits(impl[c])
    BY <1>8
  <2>2. View' = [c \in Ids |-> IF c = a THEN Bits(new) ELSE View[c]]
    BY <2>1 DEF View
  <2>3. [View[a] EXCEPT !.ones = Ones(new)] = Bits(new)
    BY <1>2, <1>10 DEF View
  <2>4. View = [c \in Ids |-> View[c]]
    BY DEF View
  <2> QED BY <2>2, <2>3, <2>4
<1> QED
  BY <1>1, <1>2, <1>3, <1>7, <1>9, <1>11 DEF new

\* The implementation that a method of x works on.
LEMMA Shared ==
    ASSUME Inv, NEW x \in Vars, m_value[x] # None
    PROVE  /\ impl[m_value[x]] \in Impl
           /\ View[m_value[x]] = [size |-> impl[m_value[x]].m_bitsNumber,
                                  ones |-> Ones(impl[m_value[x]])]
<1>1. m_value[x] \in Ids
  BY DEF Inv
<1>2. impl[m_value[x]] \in Impl
  BY <1>1 DEF Inv
<1> QED
  BY <1>1, <1>2, BitsFacts DEF View

LEMMA SetMaps ==
    ASSUME Inv, NEW x \in Vars, NEW i \in 0 .. MaxBit, NEW flag \in BOOLEAN, set(x, i, flag)
    PROVE  Inv' /\ AbstractStep
<1> DEFINE b == impl[m_value[x]]
           words == [b.m_value EXCEPT ![i \div WordBits] =
                       IF flag THEN @ \cup {i % WordBits} ELSE @ \ {i % WordBits}]
<1>1. m_value[x] # None /\ i < b.m_bitsNumber /\ Update(x, words)
  BY DEF set
<1>2. b \in Impl /\ View[m_value[x]] = [size |-> b.m_bitsNumber, ones |-> Ones(b)]
  BY <1>1, Shared
<1>3. i \in 0 .. (b.m_bitsNumber - 1)
  BY <1>1, <1>2, ImplParts, BoundAssumption
<1>4. /\ words \in Words(b.m_bitsNumber)
      /\ Ones(BitSetImpl(b.m_bitsNumber, words))
           = IF flag THEN Ones(b) \cup {i} ELSE Ones(b) \ {i}
  BY <1>2, <1>3, SetFacts
<1>5. /\ Inv' /\ m_value' = m_value
      /\ View' = [View EXCEPT ![m_value[x]].ones = Ones(BitSetImpl(b.m_bitsNumber, words))]
  BY <1>1, <1>4, UpdateMaps
<1> HIDE DEF words, b
<1>6. View' = [View EXCEPT ![m_value[x]].ones =
                 IF flag THEN View[m_value[x]].ones \cup {i} ELSE View[m_value[x]].ones \ {i}]
  BY <1>2, <1>4, <1>5
<1>7. Abs!SetBit(x, i, flag)
  BY <1>5, <1>6 DEF Abs!SetBit, Abs!Change, View
<1>8. i \in 0 .. (View[m_value[x]].size - 1)
  BY <1>2, <1>3
<1>9. Abs!Next
  BY <1>1, <1>7, <1>8 DEF Abs!Next, View
<1> QED
  BY <1>5, <1>9 DEF AbstractStep

LEMMA InverseMaps ==
    ASSUME Inv, NEW x \in Vars, inverse(x)
    PROVE  Inv' /\ AbstractStep
<1> DEFINE b == impl[m_value[x]]
           words == [k \in DOMAIN b.m_value |-> (0 .. (WordBits - 1)) \ b.m_value[k]]
<1>1. m_value[x] # None /\ Update(x, words)
  BY DEF inverse
<1>2. b \in Impl /\ View[m_value[x]] = [size |-> b.m_bitsNumber, ones |-> Ones(b)]
  BY <1>1, Shared
<1>3. /\ words \in Words(b.m_bitsNumber)
      /\ Ones(BitSetImpl(b.m_bitsNumber, words)) = (0 .. (b.m_bitsNumber - 1)) \ Ones(b)
  BY <1>2, InverseFacts
<1>4. /\ Inv' /\ m_value' = m_value
      /\ View' = [View EXCEPT ![m_value[x]].ones = Ones(BitSetImpl(b.m_bitsNumber, words))]
  BY <1>1, <1>3, UpdateMaps
<1> HIDE DEF words, b
<1>5. View' = [View EXCEPT ![m_value[x]].ones =
                 (0 .. (View[m_value[x]].size - 1)) \ View[m_value[x]].ones]
  BY <1>2, <1>3, <1>4
<1>6. Abs!Inverse(x)
  BY <1>4, <1>5 DEF Abs!Inverse, Abs!Change, View
<1>7. Abs!Next
  BY <1>1, <1>6 DEF Abs!Next
<1> QED
  BY <1>4, <1>7 DEF AbstractStep

LEMMA ReverseMaps ==
    ASSUME Inv, NEW x \in Vars, reverse(x)
    PROVE  Inv' /\ AbstractStep
<1> DEFINE b == impl[m_value[x]]
<1>1. m_value[x] # None /\ Update(x, Reversed(b))
  BY DEF reverse
<1>2. b \in Impl /\ View[m_value[x]] = [size |-> b.m_bitsNumber, ones |-> Ones(b)]
  BY <1>1, Shared
<1>3. /\ Reversed(b) \in Words(b.m_bitsNumber)
      /\ Ones(BitSetImpl(b.m_bitsNumber, Reversed(b))) = {b.m_bitsNumber - 1 - i : i \in Ones(b)}
  BY <1>2, ReversedFacts
<1>4. /\ Inv' /\ m_value' = m_value
      /\ View' = [View EXCEPT ![m_value[x]].ones = Ones(BitSetImpl(b.m_bitsNumber, Reversed(b)))]
  BY <1>1, <1>3, UpdateMaps
<1> HIDE DEF b
<1>5. View' = [View EXCEPT ![m_value[x]].ones =
                 {View[m_value[x]].size - 1 - i : i \in View[m_value[x]].ones}]
  BY <1>2, <1>3, <1>4
<1>6. Abs!Reverse(x)
  BY <1>4, <1>5 DEF Abs!Reverse, Abs!Change, View
<1>7. Abs!Next
  BY <1>1, <1>6 DEF Abs!Next
<1> QED
  BY <1>4, <1>7 DEF AbstractStep

LEMMA NextMaps ==
    ASSUME Inv, [Next]_vars PROVE Inv' /\ AbstractStep
<1>1. CASE \E x \in Vars : ConstructSize(x) \/ ConstructStream(x) \/ ConstructString(x)
  <2>1. PICK x \in Vars : ConstructSize(x) \/ ConstructStream(x) \/ ConstructString(x)
    BY <1>1
  <2>2. CASE ConstructSize(x)
    BY <2>2, ExpectedSizes, ConstructMaps DEF ConstructSize
  <2>3. CASE ConstructStream(x)
    BY <2>3, ExpectedStreams, ConstructMaps DEF ConstructStream
  <2>4. CASE ConstructString(x)
    BY <2>4, ExpectedStrings, ConstructMaps DEF ConstructString
  <2> QED BY <2>1, <2>2, <2>3, <2>4
<1>2. CASE \E x, y \in Vars : Copy(x, y) \/ Move(x, y)
  BY <1>2, CopyMaps, MoveMaps
<1>3. CASE \E x \in Vars : Destroy(x) \/ inverse(x) \/ reverse(x)
  BY <1>3, DestroyMaps, InverseMaps, ReverseMaps
<1>4. CASE \E x \in Vars, i \in 0 .. MaxBit, flag \in BOOLEAN : set(x, i, flag)
  BY <1>4, SetMaps
<1>5. CASE UNCHANGED vars
  BY <1>5 DEF vars, Inv, Unowned, View, AbstractStep
<1>6. CASE \E x \in Vars, i \in 0 .. MaxBit : setOutside(x, i)
  BY <1>5, <1>6 DEF setOutside
<1> QED
  BY <1>1, <1>2, <1>3, <1>4, <1>5, <1>6 DEF Next

-----------------------------------------------------------------------------
(* Theorems.                                                                *)

\* For every number of variables and implementations, every width of bytes and
\* words, and every input of the constructors: an implementation has the words
\* its size asks for, and what no object refers to has been deleted.
THEOREM BitSetTypeCorrect == Spec => []TypeOK
<1>1. Init => Inv
  BY InitMaps
<1>2. Inv /\ [Next]_vars => Inv'
  BY NextMaps
<1>3. Inv => TypeOK
  BY InvTypeOK
<1> QED
  BY <1>1, <1>2, <1>3, PTL DEF Spec

\* The words, with whatever their last one holds beyond the size, implement
\* shared sets of bits: the bytes of a stream and the characters of a string
\* arrive in order, set reaches one bit, inverse and reverse act on the bits
\* within the size alone, all copies see a change, and the last owner's bits go.
THEOREM BitSetImplementsSharedBits == Spec => ActsAsSharedBits
<1>1. Init => Inv /\ Abs!Init
  BY InitMaps
<1>2. Inv /\ [Next]_vars => Inv' /\ [Abs!Next]_<<m_value, [a \in Ids |-> Bits(impl[a])]>>
  BY NextMaps DEF AbstractStep, View
<1> QED
  BY <1>1, <1>2, PTL DEF Spec, ActsAsSharedBits, Abs!Spec

-----------------------------------------------------------------------------
(* convertToSyncCall: the inductive invariant.                               *)

\* The states of an invocation that has set the flag, that has finished with
\* the promise, and that has not been turned away.
Finished == {"delivered", "threw", "dangling"}
Marked == Finished \cup {"delivering"}
Active == Marked \cup {"checked"}

\* The promise lives until the caller returns, and a timeout is seen only after
\* waiting.
CallerInv == /\ alive <=> pc # "returned"
             /\ pc \in {"calling", "waiting", "terminated"} => ~timedOut

\* The value is that of the one callback that delivered.
ValueInv == /\ value # Empty => value \in Callbacks /\ cpc[value] = "delivered"
            /\ \A c \in Callbacks : cpc[c] = "delivered" => value = c

\* Who has set the flag, and when that became visible.
FlagInv == /\ \A t \in stored : \/ t = Caller /\ pc \in {"leaving", "returned"}
                                \/ \E d \in Callbacks : Thread(d) = t /\ cpc[d] \in Marked
           /\ \A c \in Callbacks : cpc[c] \in Marked => Thread(c) \in stored
           /\ \A c \in Callbacks : cpc[c] \in Finished => Thread(c) \notin pending

\* Serial callbacks get past the check one at a time.
SerialInv == serial => \A c, d \in Callbacks :
                 cpc[c] \in Active /\ cpc[d] \in Active => c = d

\* The inductive invariant.
IInv == /\ SyncTypeOK /\ CallerInv /\ ValueInv /\ FlagInv /\ SerialInv
        /\ AnswerOrFallback /\ DeadPromise /\ SerialNeverThrows /\ IgnoredOnlyIfTaken

-----------------------------------------------------------------------------
(* The strings that stand for program points.                               *)

USE DEF Finished, Marked, Active

LEMMA InitInv == SyncInit => IInv
  BY ThreadAssumption, ValueAssumption
     DEF SyncInit, IInv, SyncTypeOK, CallerInv, ValueInv, FlagInv, SerialInv, AnswerOrFallback,
         DeadPromise, SerialNeverThrows, IgnoredOnlyIfTaken, Threads

\* `if (*validator) return`: a callback that is turned away has someone ahead of
\* it; a serial one that is let through has nobody.
LEMMA CheckInv == ASSUME IInv, NEW c \in Callbacks, Check(c) PROVE IInv'
<1> DEFINE to == IF Validator(Thread(c)) THEN "ignored" ELSE "checked"
<1>1. /\ cpc[c] = "idle" /\ cpc' = [cpc EXCEPT ![c] = to]
      /\ serial' = serial /\ pc' = pc /\ stored' = stored /\ pending' = pending
      /\ value' = value /\ alive' = alive /\ timedOut' = timedOut /\ arg' = arg
  BY DEF Check, caller
<1>2. to \in {"ignored", "checked"}
  OBVIOUS
<1>3. to = "ignored" => Validator(Thread(c))
  OBVIOUS
<1>4. to = "checked" => ~Validator(Thread(c))
  OBVIOUS
<1> HIDE DEF to
<1>5. cpc'[c] = to /\ \A d \in Callbacks : d # c => cpc'[d] = cpc[d]
  BY <1>1 DEF IInv, SyncTypeOK
<1>6. SyncTypeOK'
  BY <1>1, <1>2 DEF IInv, SyncTypeOK
<1>7. CallerInv' /\ ValueInv'
  BY <1>1, <1>2, <1>5 DEF IInv, CallerInv, ValueInv
<1>8. FlagInv'
  BY <1>1, <1>2, <1>5 DEF IInv, FlagInv
<1>9. SerialInv'
  <2> SUFFICES ASSUME serial, to = "checked", NEW d \in Callbacks, d # c, cpc[d] \in Active
               PROVE  FALSE
    BY <1>1, <1>2, <1>5 DEF IInv, SerialInv
  <2>1. ~Busy(d)
    BY DEF Check, MayStart
  <2>2. cpc[d] \in Finished
    BY <2>1 DEF Busy
  <2>3. Thread(d) \in stored /\ Thread(d) \notin pending
    BY <2>2 DEF IInv, FlagInv
  <2> QED BY <1>4, <2>3 DEF Validator
<1>10. AnswerOrFallback' /\ DeadPromise' /\ SerialNeverThrows'
  BY <1>1, <1>2, <1>5 DEF IInv, AnswerOrFallback, DeadPromise, SerialNeverThrows
<1>11. IgnoredOnlyIfTaken'
  <2>1. ASSUME to = "ignored"
        PROVE  \/ pc \in {"leaving", "returned"}
               \/ \E d \in Callbacks \ {c} : cpc[d] \in Marked
    <3>1. PICK t : t \in stored
      BY <1>3, <2>1 DEF Validator
    <3> QED BY <1>1, <3>1 DEF IInv, FlagInv
  <2>2. ASSUME NEW e \in Callbacks, cpc'[e] = "ignored"
        PROVE  \/ pc' \in {"leaving", "returned"}
               \/ \E d \in Callbacks \ {e} : cpc'[d] \in Marked
    <3>1. \/ pc \in {"leaving", "returned"}
          \/ \E d \in Callbacks \ {e} : cpc[d] \in Marked
      <4>1. CASE e = c
        BY <1>5, <2>1, <2>2, <4>1
      <4>2. CASE e # c
        BY <1>5, <2>2, <4>2 DEF IInv, IgnoredOnlyIfTaken
      <4> QED BY <4>1, <4>2
    <3>2. \A d \in Callbacks : cpc[d] \in Marked => d # c
      BY <1>1
    <3> QED BY <1>1, <1>5, <3>1, <3>2
  <2> QED BY <2>2 DEF IgnoredOnlyIfTaken
<1> QED
  BY <1>6, <1>7, <1>8, <1>9, <1>10, <1>11 DEF IInv

\* `*validator = true` in the callback.
LEMMA MarkInv == ASSUME IInv, NEW c \in Callbacks, Mark(c) PROVE IInv'
<1>1. /\ cpc[c] = "checked" /\ cpc' = [cpc EXCEPT ![c] = "delivering"]
      /\ serial' = serial /\ pc' = pc
      /\ value' = value /\ alive' = alive /\ timedOut' = timedOut /\ arg' = arg
      /\ stored' = stored \cup {Thread(c)}
      /\ pending' = pending \cup ({Thread(c)} \ stored)
  BY DEF Mark, caller, StoreBy
<1>2. cpc'[c] = "delivering" /\ \A d \in Callbacks : d # c => cpc'[d] = cpc[d]
  BY <1>1 DEF IInv, SyncTypeOK
<1>3. Thread(c) \in Threads
  BY DEF Thread, Threads
<1>4. SyncTypeOK'
  BY <1>1, <1>3 DEF IInv, SyncTypeOK
<1>5. CallerInv' /\ ValueInv' /\ SerialInv'
  BY <1>1, <1>2 DEF IInv, CallerInv, ValueInv, SerialInv
<1>6. FlagInv'
  <2>1. ASSUME NEW t \in stored'
        PROVE  \/ t = Caller /\ pc' \in {"leaving", "returned"}
               \/ \E d \in Callbacks : Thread(d) = t /\ cpc'[d] \in Marked
    <3>1. CASE t = Thread(c)
      BY <1>2, <3>1
    <3>2. CASE t \in stored
      <4>1. \/ t = Caller /\ pc \in {"leaving", "returned"}
            \/ \E d \in Callbacks : Thread(d) = t /\ cpc[d] \in Marked
        BY <3>2 DEF IInv, FlagInv
      <4> QED BY <1>1, <1>2, <4>1
    <3> QED BY <1>1, <3>1, <3>2
  <2>2. \A d \in Callbacks : cpc'[d] \in Marked => Thread(d) \in stored'
    BY <1>1, <1>2 DEF IInv, FlagInv
  <2>3. ASSUME NEW d \in Callbacks, cpc'[d] \in Finished PROVE Thread(d) \notin pending'
    <3>1. d # c /\ cpc[d] \in Finished
      BY <1>2, <2>3
    <3>2. Thread(d) \notin pending /\ Thread(d) \in stored
      BY <3>1 DEF IInv, FlagInv
    <3> QED BY <1>1, <3>2
  <2> QED BY <2>1, <2>2, <2>3 DEF FlagInv
<1>7. AnswerOrFallback' /\ DeadPromise' /\ SerialNeverThrows' /\ IgnoredOnlyIfTaken'
  BY <1>1, <1>2 DEF IInv, AnswerOrFallback, DeadPromise, SerialNeverThrows, IgnoredOnlyIfTaken
<1> QED
  BY <1>4, <1>5, <1>6, <1>7 DEF IInv

\* p.set_value(res).
LEMMA DeliverInv == ASSUME IInv, NEW c \in Callbacks, Deliver(c) PROVE IInv'
<1>1. /\ cpc[c] = "delivering" /\ Thread(c) \notin pending
      /\ serial' = serial /\ pc' = pc /\ stored' = stored /\ pending' = pending
      /\ alive' = alive /\ timedOut' = timedOut /\ arg' = arg
  BY DEF Deliver, caller
<1>2. PICK to \in Finished :
        /\ cpc' = [cpc EXCEPT ![c] = to]
        /\ \/ to = "delivered" /\ alive /\ value = Empty /\ value' = c
           \/ to = "threw" /\ alive /\ value # Empty /\ value' = value
           \/ to = "dangling" /\ ~alive /\ value' = value
  BY DEF Deliver
<1>3. cpc'[c] = to /\ \A d \in Callbacks : d # c => cpc'[d] = cpc[d]
  BY <1>2 DEF IInv, SyncTypeOK
<1>4. SyncTypeOK'
  BY <1>1, <1>2 DEF IInv, SyncTypeOK
<1>5. ValueInv'
  BY <1>1, <1>2, <1>3, ValueAssumption DEF IInv, ValueInv
<1>6. CallerInv' /\ SerialInv'
  BY <1>1, <1>2, <1>3 DEF IInv, CallerInv, SerialInv
<1>7. FlagInv'
  <2>1. \A d \in Callbacks : cpc[d] \in Marked => cpc'[d] \in Marked
    BY <1>1, <1>2, <1>3
  <2>2. \A d \in Callbacks : cpc'[d] \in Marked => Thread(d) \in stored'
    BY <1>1, <1>3 DEF IInv, FlagInv
  <2>3. \A d \in Callbacks : cpc'[d] \in Finished => Thread(d) \notin pending'
    BY <1>1, <1>3 DEF IInv, FlagInv
  <2>4. ASSUME NEW t \in stored'
        PROVE  \/ t = Caller /\ pc' \in {"leaving", "returned"}
               \/ \E d \in Callbacks : Thread(d) = t /\ cpc'[d] \in Marked
    <3>1. \/ t = Caller /\ pc \in {"leaving", "returned"}
          \/ \E d \in Callbacks : Thread(d) = t /\ cpc[d] \in Marked
      BY <1>1 DEF IInv, FlagInv
    <3> QED BY <1>1, <2>1, <3>1
  <2> QED BY <2>2, <2>3, <2>4 DEF FlagInv
<1>8. AnswerOrFallback'
  <2>1. ASSUME pc \in {"storing", "leaving", "returned"}, ~timedOut
        PROVE  arg \in Callbacks /\ cpc'[arg] = "delivered" /\ arg = value'
    <3>1. arg \in Callbacks /\ cpc[arg] = "delivered" /\ arg = value
      BY <2>1 DEF IInv, AnswerOrFallback
    <3>2. arg # c /\ value # Empty
      BY <1>1, <3>1, ValueAssumption
    <3>3. value' = value
      BY <1>2, <3>2
    <3> QED BY <1>3, <3>1, <3>2, <3>3
  <2>2. pc \in {"storing", "leaving", "returned"} /\ timedOut => arg = Default
    BY DEF IInv, AnswerOrFallback
  <2>3. timedOut \in BOOLEAN
    BY DEF IInv, SyncTypeOK
  <2> QED BY <1>1, <2>1, <2>2, <2>3 DEF AnswerOrFallback
<1>9. DeadPromise'
  <2>1. ASSUME to = "dangling", ~timedOut
        PROVE  ~serial /\ \E d \in Callbacks \ {c} : cpc[d] = "delivered"
    <3>1. pc = "returned"
      BY <1>2, <2>1 DEF IInv, CallerInv
    <3>2. arg \in Callbacks /\ cpc[arg] = "delivered"
      BY <2>1, <3>1 DEF IInv, AnswerOrFallback
    <3>3. arg # c
      BY <1>1, <3>2
    <3>4. ~serial
      BY <1>1, <3>2, <3>3 DEF IInv, SerialInv
    <3> QED BY <3>2, <3>3, <3>4
  <2>2. \A d \in Callbacks : cpc[d] = "delivered" => cpc'[d] = "delivered"
    BY <1>1, <1>3
  <2>3. ASSUME NEW e \in Callbacks, cpc'[e] = "dangling", ~timedOut
        PROVE  ~serial /\ \E d \in Callbacks \ {e} : cpc[d] = "delivered"
    <3>1. CASE e = c
      BY <1>3, <2>1, <2>3, <3>1
    <3>2. CASE e # c
      BY <1>3, <2>3, <3>2 DEF IInv, DeadPromise
    <3> QED BY <3>1, <3>2
  <2> QED BY <1>1, <2>2, <2>3 DEF DeadPromise
<1>10. SerialNeverThrows'
  <2>1. ASSUME serial, to = "threw" PROVE FALSE
    <3>1. value \in Callbacks /\ cpc[value] = "delivered"
      BY <1>2, <2>1 DEF IInv, ValueInv
    <3> QED BY <1>1, <2>1, <3>1 DEF IInv, SerialInv
  <2> QED BY <1>1, <1>3, <2>1 DEF IInv, SerialNeverThrows
<1>11. IgnoredOnlyIfTaken'
  BY <1>1, <1>2, <1>3 DEF IInv, IgnoredOnlyIfTaken
<1> QED
  BY <1>4, <1>5, <1>6, <1>7, <1>8, <1>9, <1>10, <1>11 DEF IInv

\* The caller, up to its last statement.
LEMMA CallerInvStep ==
    ASSUME IInv, CallReturns \/ Terminate \/ Ready \/ Timeout \/ Return PROVE IInv'
<1>1. /\ serial' = serial /\ cpc' = cpc /\ stored' = stored /\ pending' = pending
      /\ value' = value
  BY DEF CallReturns, Terminate, Ready, Timeout, Return
<1>2. \/ /\ pc = "calling" /\ pc' \in {"waiting", "terminated"}
         /\ alive' = alive /\ timedOut' = timedOut /\ arg' = arg
      \/ /\ pc = "waiting" /\ pc' = "storing" /\ alive' = alive
         /\ \/ value # Empty /\ arg' = value /\ timedOut' = timedOut
            \/ timedOut' = TRUE /\ arg' = Default
      \/ /\ pc = "leaving" /\ pc' = "returned" /\ alive' = FALSE
         /\ timedOut' = timedOut /\ arg' = arg
  BY DEF CallReturns, Terminate, Ready, Timeout, Return
<1>3. SyncTypeOK'
  BY <1>1, <1>2 DEF IInv, SyncTypeOK
<1>4. CallerInv' /\ ValueInv' /\ SerialInv'
  BY <1>1, <1>2 DEF IInv, SyncTypeOK, CallerInv, ValueInv, SerialInv
<1>5. FlagInv'
  BY <1>1, <1>2 DEF IInv, FlagInv
<1>6. AnswerOrFallback'
  BY <1>1, <1>2 DEF IInv, AnswerOrFallback, CallerInv, ValueInv
<1>7. DeadPromise' /\ SerialNeverThrows' /\ IgnoredOnlyIfTaken'
  BY <1>1, <1>2 DEF IInv, DeadPromise, SerialNeverThrows, IgnoredOnlyIfTaken
<1> QED
  BY <1>3, <1>4, <1>5, <1>6, <1>7 DEF IInv

\* The caller's own store, and stores that become visible.
LEMMA StoreInv ==
    ASSUME IInv, Store \/ \E t \in Threads : Flush(t) PROVE IInv'
<1>1. /\ serial' = serial /\ cpc' = cpc /\ value' = value
      /\ alive' = alive /\ timedOut' = timedOut /\ arg' = arg
  BY DEF Store, Flush, caller
<1>2. \/ /\ pc = "storing" /\ pc' = "leaving" /\ stored' = stored \cup {Caller}
         /\ pending' = pending \cup ({Caller} \ stored)
      \/ pc' = pc /\ stored' = stored /\ pending' \subseteq pending
  BY DEF Store, StoreBy, Flush, caller
<1>3. SyncTypeOK'
  BY <1>1, <1>2 DEF IInv, SyncTypeOK, Threads
<1>4. CallerInv' /\ ValueInv' /\ SerialInv'
  BY <1>1, <1>2 DEF IInv, CallerInv, ValueInv, SerialInv
<1>5. FlagInv'
  <2>1. \A c \in Callbacks : cpc[c] \in Finished => Thread(c) \in stored /\ Thread(c) \notin pending
    BY DEF IInv, FlagInv
  <2>2. \A c \in Callbacks : cpc'[c] \in Finished => Thread(c) \notin pending'
    BY <1>1, <1>2, <2>1
  <2> QED BY <1>1, <1>2, <2>2 DEF IInv, FlagInv
<1>6. AnswerOrFallback' /\ DeadPromise' /\ SerialNeverThrows' /\ IgnoredOnlyIfTaken'
  BY <1>1, <1>2 DEF IInv, AnswerOrFallback, DeadPromise, SerialNeverThrows, IgnoredOnlyIfTaken
<1> QED
  BY <1>3, <1>4, <1>5, <1>6 DEF IInv

-----------------------------------------------------------------------------
(* The theorems.                                                            *)

\* The inductive invariant holds in every state of a call, whatever the threads
\* that invoke the callback do and whenever the deadline is reached.
THEOREM SyncCallInvariance == SyncSpec => []IInv
<1>1. IInv /\ [SyncNext]_syncVars => IInv'
  <2> SUFFICES ASSUME IInv, [SyncNext]_syncVars PROVE IInv'
    OBVIOUS
  <2>1. CASE SyncNext
    BY <2>1, CheckInv, MarkInv, DeliverInv, CallerInvStep, StoreInv DEF SyncNext, CallerNext
  <2>2. CASE UNCHANGED syncVars
    BY <2>2 DEF syncVars, IInv, SyncTypeOK, CallerInv, ValueInv, FlagInv, SerialInv,
                AnswerOrFallback, DeadPromise, SerialNeverThrows, IgnoredOnlyIfTaken
  <2> QED BY <2>1, <2>2
<1> QED
  BY <1>1, InitInv, PTL DEF SyncSpec

\* The variables keep their types.
THEOREM SyncCallTypeCorrect == SyncSpec => []SyncTypeOK
<1>1. IInv => SyncTypeOK
  BY DEF IInv
<1> QED
  BY <1>1, SyncCallInvariance, PTL

\* The caller gets the answer of the callback that satisfied the promise, or the
\* fallback, and never a mixture of the two, with any number of callbacks.
THEOREM CallerGetsAnswerOrFallback == SyncSpec => []AnswerOrFallback
<1>1. IInv => AnswerOrFallback
  BY DEF IInv
<1> QED
  BY <1>1, SyncCallInvariance, PTL

\* The promise is used after its end only after a timeout or a race of callbacks.
THEOREM DeadPromiseOnlyAfterTimeout == SyncSpec => []DeadPromise
<1>1. IInv => DeadPromise
  BY DEF IInv
<1> QED
  BY <1>1, SyncCallInvariance, PTL

\* Serial callbacks never satisfy the promise twice.
THEOREM SerialCallbacksNeverThrow == SyncSpec => []SerialNeverThrows
<1>1. IInv => SerialNeverThrows
  BY DEF IInv
<1> QED
  BY <1>1, SyncCallInvariance, PTL

\* A callback is turned away only if another one, or the caller, was faster.
THEOREM NoAnswerIsDroppedForNothing == SyncSpec => []IgnoredOnlyIfTaken
<1>1. IInv => IgnoredOnlyIfTaken
  BY DEF IInv
<1> QED
  BY <1>1, SyncCallInvariance, PTL
=============================================================================

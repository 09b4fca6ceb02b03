-------------------------- MODULE Encryptor_proofs --------------------------
(***************************************************************************)
(* aes decrypts what it encrypted, for every key of the right size and     *)
(* data of every length.  The buffers of an Encryptor's client stay arrays *)
(* with cursors inside, and what sound calls wrapped, sound calls unwrap,  *)
(* for every text, number of layers and length of the blocks.              *)
(***************************************************************************)
EXTENDS Aes, Encryptor, ByteBufferLemmas, SequenceTheorems, TLAPS

-----------------------------------------------------------------------------
(* Exclusive or.                                                            *)

Half == 0 .. 15
Weight == {1, 2, 4, 8}
BitOf(d, a) == (a \div d) % 2

\* The bits of a half byte, the value of some bits, and what they decide.
LEMMA HalfBits ==
  ASSUME NEW a \in Half
  PROVE  /\ \A d \in Weight : BitOf(d, a) \in 0 .. 1
         /\ a = BitOf(1, a) + 2 * BitOf(2, a) + 4 * BitOf(4, a) + 8 * BitOf(8, a)
  BY DEF Half, Weight, BitOf

LEMMA BitsOfSum ==
  ASSUME NEW x \in 0 .. 1, NEW y \in 0 .. 1, NEW z \in 0 .. 1, NEW t \in 0 .. 1,
         NEW s, s = x + 2 * y + 4 * z + 8 * t
  PROVE  s \in Half /\ BitOf(1, s) = x /\ BitOf(2, s) = y /\ BitOf(4, s) = z /\ BitOf(8, s) = t
  BY DEF Half, BitOf

LEMMA HalfBitsDecide ==
  ASSUME NEW a \in Half, NEW b \in Half, \A d \in Weight : BitOf(d, a) = BitOf(d, b)
  PROVE  a = b
  BY HalfBits DEF Weight

LEMMA XorHalvesBits ==
  ASSUME NEW a \in Half, NEW b \in Half
  PROVE  /\ XorHalves[a][b] \in Half
         /\ \A d \in Weight : BitOf(d, XorHalves[a][b]) = (BitOf(d, a) + BitOf(d, b)) % 2
<1> DEFINE x(e) == (BitOf(e, a) + BitOf(e, b)) % 2
<1>1. ASSUME NEW e \in Weight PROVE x(e) = ((a \div e) + (b \div e)) % 2
  BY DEF Half, Weight, BitOf
<1>2. XorHalves[a][b] = x(1) + 2 * x(2) + 4 * x(4) + 8 * x(8)
  BY <1>1 DEF XorHalves, Half, Weight
<1>3. \A e \in Weight : x(e) \in 0 .. 1
  BY HalfBits
<1> HIDE DEF x
<1>4. x(1) \in 0 .. 1 /\ x(2) \in 0 .. 1 /\ x(4) \in 0 .. 1 /\ x(8) \in 0 .. 1
  BY <1>3 DEF Weight
<1>5. XorHalves[a][b] \in Half
  BY <1>2, <1>4, BitsOfSum
<1>6. ASSUME NEW d \in Weight PROVE BitOf(d, XorHalves[a][b]) = x(d)
  BY <1>2, <1>4, BitsOfSum DEF Weight
<1> QED
  BY <1>5, <1>6 DEF x

\* Combining twice the same, in another order, or otherwise grouped.
LEMMA XorHalvesGroup ==
  ASSUME NEW a \in Half, NEW b \in Half, NEW c \in Half
  PROVE  /\ XorHalves[a][b] = XorHalves[b][a]
         /\ XorHalves[a][a] = 0 /\ XorHalves[a][0] = a
         /\ XorHalves[XorHalves[a][b]][c] = XorHalves[a][XorHalves[b][c]]
<1>8. XorHalves[a][b] = XorHalves[b][a]
  BY DEF XorHalves, Half
<1>9. XorHalves[a][a] = 0
  BY DEF XorHalves, Half
<1>1. XorHalves[a][0] = a
  BY DEF XorHalves, Half
<1>2. \A x, y, z \in 0 .. 1 : (((x + y) % 2) + z) % 2 = (x + ((y + z) % 2)) % 2
  OBVIOUS
<1> DEFINE l == XorHalves[XorHalves[a][b]][c]
           r == XorHalves[a][XorHalves[b][c]]
<1>3. l \in Half /\ r \in Half /\ XorHalves[a][b] \in Half /\ XorHalves[b][c] \in Half
  BY XorHalvesBits
<1>4. ASSUME NEW d \in Weight PROVE BitOf(d, l) = BitOf(d, r)
  BY <1>2, <1>3, XorHalvesBits, HalfBits
<1>5. l = r
  BY <1>3, <1>4, HalfBitsDecide
<1> QED
  BY <1>1, <1>5, <1>8, <1>9

\* Bytes and their halves.
LEMMA HalvesOf ==
  ASSUME NEW a \in Uint8
  PROVE  a \div 16 \in Half /\ a % 16 \in Half /\ a = 16 * (a \div 16) + (a % 16)
<1>1. a \div 16 \in Half
  BY DEF Uint8, Half
<1>2. a % 16 \in Half
  BY DEF Uint8, Half
<1>3. a = 16 * (a \div 16) + (a % 16)
  BY DEF Uint8
<1> QED
  BY <1>1, <1>2, <1>3

LEMMA XorHalfwise ==
  ASSUME NEW a \in Uint8, NEW b \in Uint8
  PROVE  /\ Xor(a, b) \in Uint8
         /\ Xor(a, b) \div 16 = XorHalves[a \div 16][b \div 16]
         /\ Xor(a, b) % 16 = XorHalves[a % 16][b % 16]
<1> DEFINE h == XorHalves[a \div 16][b \div 16]
           l == XorHalves[a % 16][b % 16]
<1>1. h \in Half /\ l \in Half
  BY HalvesOf, XorHalvesBits
<1> HIDE DEF h, l
<1>2. Xor(a, b) = 16 * h + l
  BY DEF Xor, h, l
<1>3. Xor(a, b) \in Uint8 /\ Xor(a, b) \div 16 = h /\ Xor(a, b) % 16 = l
  BY <1>1, <1>2 DEF Half, Uint8
<1> QED
  BY <1>3 DEF h, l

LEMMA HalvesDecide ==
  ASSUME NEW a \in Uint8, NEW b \in Uint8, a \div 16 = b \div 16, a % 16 = b % 16
  PROVE  a = b
  BY HalvesOf

\* Exclusive or is a group operation.
LEMMA XorType == \A a, b \in Uint8 : Xor(a, b) \in Uint8
  BY XorHalfwise

LEMMA XorComm == \A a, b \in Uint8 : Xor(a, b) = Xor(b, a)
  BY HalvesOf, XorHalvesGroup DEF Xor

LEMMA XorSelf == \A a \in Uint8 : Xor(a, a) = 0 /\ Xor(a, 0) = a /\ Xor(0, a) = a
<1> SUFFICES ASSUME NEW a \in Uint8 PROVE Xor(a, a) = 0 /\ Xor(a, 0) = a
  BY XorComm DEF Uint8
<1>1. a \div 16 \in Half /\ a % 16 \in Half /\ a = 16 * (a \div 16) + (a % 16)
  BY HalvesOf
<1>2. 0 \div 16 = 0 /\ 0 % 16 = 0 /\ 0 \in Half
  BY DEF Half
<1>3. PICK h \in Half, l \in Half : h = a \div 16 /\ l = a % 16
  BY <1>1
<1>4. /\ Xor(a, a) = 16 * XorHalves[h][h] + XorHalves[l][l]
      /\ Xor(a, 0) = 16 * XorHalves[h][0] + XorHalves[l][0]
  BY <1>2, <1>3 DEF Xor
<1>5. /\ XorHalves[h][h] = 0 /\ XorHalves[h][0] = h
      /\ XorHalves[l][l] = 0 /\ XorHalves[l][0] = l
  BY <1>2, XorHalvesGroup
<1> QED
  BY <1>1, <1>3, <1>4, <1>5

LEMMA XorAssoc == \A a, b, c \in Uint8 : Xor(Xor(a, b), c) = Xor(a, Xor(b, c))
<1> SUFFICES ASSUME NEW a \in Uint8, NEW b \in Uint8, NEW c \in Uint8
             PROVE  Xor(Xor(a, b), c) = Xor(a, Xor(b, c))
  OBVIOUS
<1>1. Xor(a, b) \in Uint8 /\ Xor(b, c) \in Uint8
  BY XorType
<1>2. Xor(Xor(a, b), c) \in Uint8 /\ Xor(a, Xor(b, c)) \in Uint8
  BY <1>1, XorType
<1>3. PICK ah \in Half, al \in Half : ah = a \div 16 /\ al = a % 16
  BY HalvesOf
<1>4. PICK bh \in Half, bl \in Half : bh = b \div 16 /\ bl = b % 16
  BY HalvesOf
<1>5. PICK ch \in Half, cl \in Half : ch = c \div 16 /\ cl = c % 16
  BY HalvesOf
<1>6. /\ Xor(Xor(a, b), c) \div 16 = XorHalves[XorHalves[ah][bh]][ch]
      /\ Xor(Xor(a, b), c) % 16 = XorHalves[XorHalves[al][bl]][cl]
  BY <1>1, <1>3, <1>4, <1>5, XorHalfwise
<1>7. /\ Xor(a, Xor(b, c)) \div 16 = XorHalves[ah][XorHalves[bh][ch]]
      /\ Xor(a, Xor(b, c)) % 16 = XorHalves[al][XorHalves[bl][cl]]
  BY <1>1, <1>3, <1>4, <1>5, XorHalfwise
<1>8. /\ XorHalves[XorHalves[ah][bh]][ch] = XorHalves[ah][XorHalves[bh][ch]]
      /\ XorHalves[XorHalves[al][bl]][cl] = XorHalves[al][XorHalves[bl][cl]]
  BY XorHalvesGroup
<1> QED
  BY <1>2, <1>6, <1>7, <1>8, HalvesDecide

\* What was combined with b is got back by combining it with b again.
LEMMA XorCancel == \A a, b \in Uint8 : Xor(Xor(a, b), b) = a /\ Xor(b, Xor(b, a)) = a
  BY XorAssoc, XorSelf
-----------------------------------------------------------------------------
(* Multiplication by two.                                                   *)

ByteWeight == {1, 2, 4, 8, 16, 32, 64, 128}

\* A byte and its bits.
LEMMA BitsOfBytes ==
  ASSUME NEW a \in Uint8
  PROVE  /\ \A d \in Weight : BitOf(d, a) = BitOf(d, a % 16)
         /\ \A d \in Weight : BitOf(16 * d, a) = BitOf(d, a \div 16)
<1>1. ASSUME NEW d \in Weight PROVE BitOf(d, a) = BitOf(d, a % 16)
  BY DEF Uint8, Weight, BitOf
<1>2. ASSUME NEW d \in Weight PROVE BitOf(16 * d, a) = BitOf(d, a \div 16)
  BY DEF Uint8, Weight, BitOf
<1> QED
  BY <1>1, <1>2

LEMMA ByteBitsDecide ==
  ASSUME NEW a \in Uint8, NEW b \in Uint8, \A d \in ByteWeight : BitOf(d, a) = BitOf(d, b)
  PROVE  a = b
<1>1. ASSUME NEW d \in Weight PROVE d \in ByteWeight /\ 16 * d \in ByteWeight
  BY DEF Weight, ByteWeight
<1>2. a \div 16 \in Half /\ a % 16 \in Half /\ b \div 16 \in Half /\ b % 16 \in Half
  BY HalvesOf
<1>3. \A d \in Weight : BitOf(d, a % 16) = BitOf(d, b % 16)
  BY <1>1, BitsOfBytes
<1>4. \A d \in Weight : BitOf(d, a \div 16) = BitOf(d, b \div 16)
  BY <1>1, BitsOfBytes
<1>5. a % 16 = b % 16
  BY <1>2, <1>3, HalfBitsDecide
<1>6. a \div 16 = b \div 16
  BY <1>2, <1>4, HalfBitsDecide
<1> QED
  BY <1>5, <1>6, HalvesDecide

LEMMA XorBit ==
  ASSUME NEW a \in Uint8, NEW b \in Uint8, NEW d \in ByteWeight
  PROVE  BitOf(d, Xor(a, b)) = (BitOf(d, a) + BitOf(d, b)) % 2
<1>1. /\ a \div 16 \in Half /\ a % 16 \in Half /\ b \div 16 \in Half /\ b % 16 \in Half
      /\ Xor(a, b) \in Uint8
  BY HalvesOf, XorType
<1>2. CASE d \in Weight
  <2>1. BitOf(d, Xor(a, b)) = BitOf(d, XorHalves[a % 16][b % 16])
    BY <1>1, <1>2, BitsOfBytes, XorHalfwise
  <2> QED
    BY <1>1, <1>2, <2>1, BitsOfBytes, XorHalvesBits
<1>3. CASE d \notin Weight
  <2>1. PICK e \in Weight : d = 16 * e
    BY <1>3 DEF Weight, ByteWeight
  <2>2. BitOf(16 * e, Xor(a, b)) = BitOf(e, XorHalves[a \div 16][b \div 16])
    BY <1>1, BitsOfBytes, XorHalfwise
  <2> QED
    BY <1>1, <2>1, <2>2, BitsOfBytes, XorHalvesBits
<1> QED
  BY <1>2, <1>3

Shifted(v) == (2 * v) % 256

LEMMA ShiftedBits ==
  ASSUME NEW v \in Uint8
  PROVE  /\ Shifted(v) \in Uint8 /\ BitOf(1, Shifted(v)) = 0
         /\ BitOf(2, Shifted(v)) = BitOf(1, v) /\ BitOf(4, Shifted(v)) = BitOf(2, v)
         /\ BitOf(8, Shifted(v)) = BitOf(4, v) /\ BitOf(16, Shifted(v)) = BitOf(8, v)
         /\ BitOf(32, Shifted(v)) = BitOf(16, v) /\ BitOf(64, Shifted(v)) = BitOf(32, v)
         /\ BitOf(128, Shifted(v)) = BitOf(64, v)
  BY DEF Uint8, BitOf, Shifted

LEMMA ShiftedLinear == \A a, b \in Uint8 : Shifted(Xor(a, b)) = Xor(Shifted(a), Shifted(b))
<1> SUFFICES ASSUME NEW a \in Uint8, NEW b \in Uint8
             PROVE  Shifted(Xor(a, b)) = Xor(Shifted(a), Shifted(b))
  OBVIOUS
<1> DEFINE l == Shifted(Xor(a, b))
           r == Xor(Shifted(a), Shifted(b))
<1>1. Xor(a, b) \in Uint8 /\ Shifted(a) \in Uint8 /\ Shifted(b) \in Uint8
  BY XorType, ShiftedBits
<1>2. l \in Uint8 /\ r \in Uint8
  BY <1>1, XorType, ShiftedBits
<1>3. BitOf(1, l) = 0 /\ BitOf(1, r) = 0
  BY <1>1, XorBit, ShiftedBits DEF ByteWeight
<1>4. ASSUME NEW d \in ByteWeight \ {1} PROVE BitOf(d, l) = BitOf(d, r)
  <2>1. PICK e \in ByteWeight : d = 2 * e /\ \A v \in Uint8 : BitOf(d, Shifted(v)) = BitOf(e, v)
    BY ShiftedBits DEF ByteWeight
  <2>2. BitOf(d, l) = (BitOf(e, a) + BitOf(e, b)) % 2
    BY <1>1, <2>1, XorBit
  <2>3. BitOf(d, r) = (BitOf(d, Shifted(a)) + BitOf(d, Shifted(b))) % 2
    BY <1>1, XorBit
  <2> QED
    BY <2>1, <2>2, <2>3
<1>5. l = r
  BY <1>2, <1>3, <1>4, ByteBitsDecide
<1> QED
  BY <1>5

LEMMA TopBit == \A v \in Uint8 : BitOf(128, v) = IF v >= 128 THEN 1 ELSE 0
  BY DEF Uint8, BitOf

\* mul2 shifts a byte to the left and adds 27 for the bit that goes out.
LEMMA Mul2Shifts ==
  ASSUME NEW v \in Uint8
  PROVE  mul2(v) = (IF BitOf(128, v) = 1 THEN Xor(Shifted(v), 27) ELSE Shifted(v))
<1>1. v < 128 => Shifted(v) = 2 * v
  BY DEF Uint8, Shifted
<1>2. BitOf(128, v) = 1 <=> v >= 128
  BY TopBit
<1>3. mul2(v) = IF v >= 128 THEN Xor(Shifted(v), 27) ELSE 2 * v
  BY DEF mul2, Shifted
<1>4. CASE v >= 128
  BY <1>2, <1>3, <1>4
<1>5. CASE ~(v >= 128)
  <2>1. v < 128
    BY <1>5 DEF Uint8
  <2> QED
    BY <1>1, <1>2, <1>3, <1>5, <2>1 DEF Uint8
<1> QED
  BY <1>4, <1>5

LEMMA Mul2Type == \A v \in Uint8 : mul2(v) \in Uint8
<1> SUFFICES ASSUME NEW v \in Uint8 PROVE mul2(v) \in Uint8
  OBVIOUS
<1>1. Shifted(v) \in Uint8
  BY ShiftedBits
<1>2. 27 \in Uint8
  BY DEF Uint8
<1>3. Xor(Shifted(v), 27) \in Uint8
  BY <1>1, <1>2, XorType
<1> QED
  BY <1>1, <1>3, Mul2Shifts

\* The two sides of a sum of two sums.
LEMMA XorSwap ==
  ASSUME NEW a \in Uint8, NEW b \in Uint8, NEW c \in Uint8, NEW d \in Uint8
  PROVE  Xor(Xor(a, b), Xor(c, d)) = Xor(Xor(a, c), Xor(b, d))
<1>1. Xor(a, b) \in Uint8 /\ Xor(c, d) \in Uint8 /\ Xor(a, c) \in Uint8 /\ Xor(b, d) \in Uint8
  BY XorType
<1>2. Xor(Xor(a, b), Xor(c, d)) = Xor(Xor(Xor(a, b), c), d)
  BY <1>1, XorAssoc
<1>3. Xor(Xor(a, b), c) = Xor(Xor(a, c), b)
  BY XorAssoc, XorComm
<1>4. Xor(Xor(Xor(a, c), b), d) = Xor(Xor(a, c), Xor(b, d))
  BY <1>1, XorAssoc
<1> QED
  BY <1>2, <1>3, <1>4

\* mul2 of a sum.
LEMMA Mul2Linear == \A a, b \in Uint8 : mul2(Xor(a, b)) = Xor(mul2(a), mul2(b))
<1> SUFFICES ASSUME NEW a \in Uint8, NEW b \in Uint8
             PROVE  mul2(Xor(a, b)) = Xor(mul2(a), mul2(b))
  OBVIOUS
<1> DEFINE over(v) == IF BitOf(128, v) = 1 THEN 27 ELSE 0
<1>1. 27 \in Uint8 /\ 0 \in Uint8 /\ 128 \in ByteWeight
  BY DEF Uint8, ByteWeight
<1>2. Xor(a, b) \in Uint8 /\ Shifted(a) \in Uint8 /\ Shifted(b) \in Uint8
  BY XorType, ShiftedBits
<1>3. ASSUME NEW v \in Uint8 PROVE mul2(v) = Xor(Shifted(v), over(v)) /\ over(v) \in Uint8
  BY <1>1, Mul2Shifts, ShiftedBits, XorSelf
<1>4. over(Xor(a, b)) = Xor(over(a), over(b))
  <2>1. BitOf(128, Xor(a, b)) = (BitOf(128, a) + BitOf(128, b)) % 2
    BY <1>1, XorBit
  <2>2. BitOf(128, a) \in 0 .. 1 /\ BitOf(128, b) \in 0 .. 1
    BY TopBit
  <2> QED
    BY <1>1, <2>1, <2>2, XorSelf
<1> HIDE DEF over
<1>5. mul2(Xor(a, b)) = Xor(Xor(Shifted(a), Shifted(b)), Xor(over(a), over(b)))
  BY <1>2, <1>3, <1>4, ShiftedLinear
<1>6. Xor(mul2(a), mul2(b)) = Xor(Xor(Shifted(a), over(a)), Xor(Shifted(b), over(b)))
  BY <1>3
<1> QED
  BY <1>2, <1>3, <1>5, <1>6, XorSwap

\* The other products are sums of repeated doublings.
LEMMA MulType ==
  ASSUME NEW v \in Uint8
  PROVE  /\ mul3(v) \in Uint8 /\ mul9(v) \in Uint8 /\ mul11(v) \in Uint8
         /\ mul13(v) \in Uint8 /\ mul14(v) \in Uint8
<1>1. mul2(v) \in Uint8 /\ mul2(mul2(v)) \in Uint8 /\ mul2(mul2(mul2(v))) \in Uint8
  BY Mul2Type
<1>2. mul9(v) \in Uint8 /\ mul3(v) \in Uint8
  BY <1>1, XorType DEF mul3, mul9
<1>3. mul11(v) \in Uint8 /\ mul13(v) \in Uint8
  BY <1>1, <1>2, XorType DEF mul11, mul13
<1>4. Xor(mul2(mul2(mul2(v))), mul2(mul2(v))) \in Uint8
  BY <1>1, XorType
<1>5. mul14(v) \in Uint8
  BY <1>1, <1>4, XorType DEF mul14
<1> QED
  BY <1>2, <1>3, <1>5

LEMMA MulLinear ==
  ASSUME NEW a \in Uint8, NEW b \in Uint8
  PROVE  /\ mul3(Xor(a, b)) = Xor(mul3(a), mul3(b)) /\ mul9(Xor(a, b)) = Xor(mul9(a), mul9(b))
         /\ mul11(Xor(a, b)) = Xor(mul11(a), mul11(b))
         /\ mul13(Xor(a, b)) = Xor(mul13(a), mul13(b))
         /\ mul14(Xor(a, b)) = Xor(mul14(a), mul14(b))
<1> DEFINE a1 == mul2(a)  a2 == mul2(a1)  a3 == mul2(a2)
           b1 == mul2(b)  b2 == mul2(b1)  b3 == mul2(b2)
<1>1. /\ a1 \in Uint8 /\ a2 \in Uint8 /\ a3 \in Uint8
      /\ b1 \in Uint8 /\ b2 \in Uint8 /\ b3 \in Uint8
  BY Mul2Type
<1>2. /\ mul2(Xor(a, b)) = Xor(a1, b1) /\ mul2(Xor(a1, b1)) = Xor(a2, b2)
      /\ mul2(Xor(a2, b2)) = Xor(a3, b3)
  BY <1>1, Mul2Linear
<1>3. /\ mul3(Xor(a, b)) = Xor(Xor(a1, b1), Xor(a, b))
      /\ mul9(Xor(a, b)) = Xor(Xor(a3, b3), Xor(a, b))
      /\ mul11(Xor(a, b)) = Xor(mul9(Xor(a, b)), Xor(a1, b1))
      /\ mul13(Xor(a, b)) = Xor(mul9(Xor(a, b)), Xor(a2, b2))
      /\ mul14(Xor(a, b)) = Xor(Xor(Xor(a3, b3), Xor(a2, b2)), Xor(a1, b1))
  BY <1>2 DEF mul3, mul9, mul11, mul13, mul14
<1>4. /\ mul3(a) = Xor(a1, a) /\ mul9(a) = Xor(a3, a) /\ mul11(a) = Xor(mul9(a), a1)
      /\ mul13(a) = Xor(mul9(a), a2) /\ mul14(a) = Xor(Xor(a3, a2), a1)
      /\ mul3(b) = Xor(b1, b) /\ mul9(b) = Xor(b3, b) /\ mul11(b) = Xor(mul9(b), b1)
      /\ mul13(b) = Xor(mul9(b), b2) /\ mul14(b) = Xor(Xor(b3, b2), b1)
  BY DEF mul3, mul9, mul11, mul13, mul14
<1>5. mul9(a) \in Uint8 /\ mul9(b) \in Uint8 /\ Xor(a3, a2) \in Uint8 /\ Xor(b3, b2) \in Uint8
  BY <1>1, MulType, XorType
<1> HIDE DEF a1, a2, a3, b1, b2, b3
<1>6. mul3(Xor(a, b)) = Xor(mul3(a), mul3(b)) /\ mul9(Xor(a, b)) = Xor(mul9(a), mul9(b))
  BY <1>1, <1>3, <1>4, XorSwap
<1>7. mul11(Xor(a, b)) = Xor(mul11(a), mul11(b)) /\ mul13(Xor(a, b)) = Xor(mul13(a), mul13(b))
  BY <1>1, <1>3, <1>4, <1>5, <1>6, XorSwap
<1>8. Xor(Xor(a3, b3), Xor(a2, b2)) = Xor(Xor(a3, a2), Xor(b3, b2))
  BY <1>1, XorSwap
<1>9. mul14(Xor(a, b)) = Xor(mul14(a), mul14(b))
  BY <1>1, <1>3, <1>4, <1>5, <1>8, XorSwap
<1> QED
  BY <1>6, <1>7, <1>9

\* A column is mixed and mixed back, byte by byte.
Mix(p, q, r, s) == Xor(Xor(mul2(p), mul3(q)), Xor(r, s))
Unmix(p, q, r, s) == Xor(Xor(mul14(p), mul11(q)), Xor(mul13(r), mul9(s)))

LEMMA UnmixType == \A p, q, r, s \in Uint8 : Unmix(p, q, r, s) \in Uint8
  BY MulType, XorType DEF Unmix

AddsUp(p, q, r, s, t, u, v, x) ==
    Unmix(Xor(p, t), Xor(q, u), Xor(r, v), Xor(s, x)) = Xor(Unmix(p, q, r, s), Unmix(t, u, v, x))

LEMMA UnmixLinear ==
  ASSUME NEW p \in Uint8, NEW q \in Uint8, NEW r \in Uint8, NEW s \in Uint8,
         NEW t \in Uint8, NEW u \in Uint8, NEW v \in Uint8, NEW x \in Uint8
  PROVE  AddsUp(p, q, r, s, t, u, v, x)
<1>1. /\ mul14(p) \in Uint8 /\ mul14(t) \in Uint8 /\ mul11(q) \in Uint8 /\ mul11(u) \in Uint8
      /\ mul13(r) \in Uint8 /\ mul13(v) \in Uint8 /\ mul9(s) \in Uint8 /\ mul9(x) \in Uint8
  BY MulType
<1>2. /\ Xor(mul14(p), mul11(q)) \in Uint8 /\ Xor(mul14(t), mul11(u)) \in Uint8
      /\ Xor(mul13(r), mul9(s)) \in Uint8 /\ Xor(mul13(v), mul9(x)) \in Uint8
  BY <1>1, XorType
<1>3. Unmix(Xor(p, t), Xor(q, u), Xor(r, v), Xor(s, x))
          = Xor(Xor(Xor(mul14(p), mul14(t)), Xor(mul11(q), mul11(u))),
                Xor(Xor(mul13(r), mul13(v)), Xor(mul9(s), mul9(x))))
  BY MulLinear DEF Unmix
<1>4. /\ Xor(Xor(mul14(p), mul14(t)), Xor(mul11(q), mul11(u)))
            = Xor(Xor(mul14(p), mul11(q)), Xor(mul14(t), mul11(u)))
      /\ Xor(Xor(mul13(r), mul13(v)), Xor(mul9(s), mul9(x)))
            = Xor(Xor(mul13(r), mul9(s)), Xor(mul13(v), mul9(x)))
  BY <1>1, XorSwap
<1> QED
  BY <1>2, <1>3, <1>4, XorSwap DEF Unmix, AddsUp

\* Sums of five bytes that are equal as bits.
LEMMA UnmixScalars ==
  ASSUME NEW v \in Uint8
  PROVE  /\ Unmix(mul2(v), v, v, mul3(v)) = v
         /\ Unmix(mul3(v), mul2(v), v, v) = 0
         /\ Unmix(v, mul3(v), mul2(v), v) = 0
         /\ Unmix(v, v, mul3(v), mul2(v)) = 0
<1> DEFINE a1 == mul2(v)  a2 == mul2(a1)  a3 == mul2(a2)  a4 == mul2(a3)
<1>1. a1 \in Uint8 /\ a2 \in Uint8 /\ a3 \in Uint8 /\ a4 \in Uint8
  BY Mul2Type
<1>0. 0 \in Uint8
  BY DEF Uint8
<1>2. /\ mul9(v) = Xor(a3, v) /\ mul11(v) = Xor(Xor(a3, v), a1)
      /\ mul13(v) = Xor(Xor(a3, v), a2) /\ mul14(v) = Xor(Xor(a3, a2), a1)
      /\ mul9(a1) = Xor(a4, a1) /\ mul11(a1) = Xor(Xor(a4, a1), a2)
      /\ mul13(a1) = Xor(Xor(a4, a1), a3) /\ mul14(a1) = Xor(Xor(a4, a3), a2)
  BY DEF mul9, mul11, mul13, mul14
<1>3. mul3(v) = Xor(a1, v)
  BY DEF mul3
<1>4. /\ mul9(mul3(v)) = Xor(mul9(a1), mul9(v)) /\ mul11(mul3(v)) = Xor(mul11(a1), mul11(v))
      /\ mul13(mul3(v)) = Xor(mul13(a1), mul13(v)) /\ mul14(mul3(v)) = Xor(mul14(a1), mul14(v))
  BY <1>1, <1>3, MulLinear
<1> HIDE DEF a1, a2, a3, a4
<1> DEFINE m9 == mul9(v)  m11 == mul11(v)  m13 == mul13(v)  m14 == mul14(v)
           n9 == mul9(a1)  n11 == mul11(a1)  n13 == mul13(a1)  n14 == mul14(a1)
           o9 == mul9(mul3(v))  o11 == mul11(mul3(v))  o13 == mul13(mul3(v))  o14 == mul14(mul3(v))
<1>5. /\ m9 \in Uint8 /\ m11 \in Uint8 /\ m13 \in Uint8 /\ m14 \in Uint8
      /\ n9 \in Uint8 /\ n11 \in Uint8 /\ n13 \in Uint8 /\ n14 \in Uint8
      /\ o9 \in Uint8 /\ o11 \in Uint8 /\ o13 \in Uint8 /\ o14 \in Uint8
  BY <1>1, MulType
<1>10. o9 = Xor(n9, m9) /\ o11 = Xor(n11, m11) /\ o13 = Xor(n13, m13) /\ o14 = Xor(n14, m14)
  BY <1>4
<1> HIDE DEF m9, m11, m13, m14, n9, n11, n13, n14, o9, o11, o13, o14
<1>6. ASSUME NEW d \in ByteWeight
      PROVE  /\ BitOf(d, Xor(Xor(n14, m11), Xor(m13, o9))) = BitOf(d, v)
             /\ BitOf(d, Xor(Xor(o14, n11), Xor(m13, m9))) = BitOf(d, 0)
             /\ BitOf(d, Xor(Xor(m14, o11), Xor(n13, m9))) = BitOf(d, 0)
             /\ BitOf(d, Xor(Xor(m14, m11), Xor(o13, n9))) = BitOf(d, 0)
  <2> DEFINE b(x) == BitOf(d, x)
  <2>1. \A x \in Uint8 : b(x) \in 0 .. 1
    BY DEF BitOf, Uint8, ByteWeight
  <2>2. \A x, y \in Uint8 : b(Xor(x, y)) = (b(x) + b(y)) % 2
    BY XorBit
  <2>3. /\ Xor(a3, v) \in Uint8 /\ Xor(a3, a2) \in Uint8 /\ Xor(a4, a1) \in Uint8 /\ Xor(a4, a3) \in Uint8
    BY <1>1, XorType
  <2>4. b(0) = 0
    BY DEF BitOf, ByteWeight
  <2> HIDE DEF b
  <2>5. PICK x0 \in 0 .. 1, x1 \in 0 .. 1, x2 \in 0 .. 1, x3 \in 0 .. 1, x4 \in 0 .. 1 :
            x0 = b(v) /\ x1 = b(a1) /\ x2 = b(a2) /\ x3 = b(a3) /\ x4 = b(a4)
    BY <1>1, <2>1
  <2>6. /\ b(m9) = (x3 + x0) % 2 /\ b(m11) = (((x3 + x0) % 2) + x1) % 2
        /\ b(m13) = (((x3 + x0) % 2) + x2) % 2 /\ b(m14) = (((x3 + x2) % 2) + x1) % 2
    BY <1>1, <1>2, <2>2, <2>3, <2>5 DEF m9, m11, m13, m14
  <2>7. /\ b(n9) = (x4 + x1) % 2 /\ b(n11) = (((x4 + x1) % 2) + x2) % 2
        /\ b(n13) = (((x4 + x1) % 2) + x3) % 2 /\ b(n14) = (((x4 + x3) % 2) + x2) % 2
    BY <1>1, <1>2, <2>2, <2>3, <2>5 DEF n9, n11, n13, n14
  <2>8. /\ b(o9) = (b(n9) + b(m9)) % 2 /\ b(o11) = (b(n11) + b(m11)) % 2
        /\ b(o13) = (b(n13) + b(m13)) % 2 /\ b(o14) = (b(n14) + b(m14)) % 2
    <3>1. b(o9) = (b(n9) + b(m9)) % 2 /\ b(o11) = (b(n11) + b(m11)) % 2
      BY <1>5, <1>10, <2>2
    <3>2. b(o13) = (b(n13) + b(m13)) % 2 /\ b(o14) = (b(n14) + b(m14)) % 2
      BY <1>5, <1>10, <2>2
    <3> QED
      BY <3>1, <3>2
  <2>9. \A p, q, r, s \in Uint8 :
            b(Xor(Xor(p, q), Xor(r, s))) = (((b(p) + b(q)) % 2) + ((b(r) + b(s)) % 2)) % 2
    BY <2>2, XorType
  <2>10. b(Xor(Xor(n14, m11), Xor(m13, o9))) = x0
    <3>1. b(Xor(Xor(n14, m11), Xor(m13, o9))) = (((b(n14) + b(m11)) % 2) + ((b(m13) + b(o9)) % 2)) % 2
      BY <1>5, <2>9
    <3> QED
      BY <2>6, <2>7, <2>8, <3>1
  <2>11. b(Xor(Xor(o14, n11), Xor(m13, m9))) = 0
    <3>1. b(Xor(Xor(o14, n11), Xor(m13, m9))) = (((b(o14) + b(n11)) % 2) + ((b(m13) + b(m9)) % 2)) % 2
      BY <1>5, <2>9
    <3> QED
      BY <2>6, <2>7, <2>8, <3>1
  <2>12. b(Xor(Xor(m14, o11), Xor(n13, m9))) = 0
    <3>1. b(Xor(Xor(m14, o11), Xor(n13, m9))) = (((b(m14) + b(o11)) % 2) + ((b(n13) + b(m9)) % 2)) % 2
      BY <1>5, <2>9
    <3> QED
      BY <2>6, <2>7, <2>8, <3>1
  <2>13. b(Xor(Xor(m14, m11), Xor(o13, n9))) = 0
    <3>1. b(Xor(Xor(m14, m11), Xor(o13, n9))) = (((b(m14) + b(m11)) % 2) + ((b(o13) + b(n9)) % 2)) % 2
      BY <1>5, <2>9
    <3> QED
      BY <2>6, <2>7, <2>8, <3>1
  <2> QED
    BY <2>4, <2>5, <2>10, <2>11, <2>12, <2>13 DEF b
<1>7. /\ Xor(Xor(n14, m11), Xor(m13, o9)) \in Uint8 /\ Xor(Xor(o14, n11), Xor(m13, m9)) \in Uint8
      /\ Xor(Xor(m14, o11), Xor(n13, m9)) \in Uint8 /\ Xor(Xor(m14, m11), Xor(o13, n9)) \in Uint8
  BY <1>5, XorType
<1>8. /\ Xor(Xor(n14, m11), Xor(m13, o9)) = v /\ Xor(Xor(o14, n11), Xor(m13, m9)) = 0
      /\ Xor(Xor(m14, o11), Xor(n13, m9)) = 0 /\ Xor(Xor(m14, m11), Xor(o13, n9)) = 0
  BY <1>0, <1>1, <1>6, <1>7, ByteBitsDecide
<1> QED
  BY <1>8 DEF Unmix, a1, m9, m11, m13, m14, n9, n11, n13, n14, o9, o11, o13, o14

\* The four summands may be taken in the order of any row.
LEMMA XorRotate ==
  ASSUME NEW a \in Uint8, NEW b \in Uint8, NEW c \in Uint8, NEW d \in Uint8
  PROVE  /\ Xor(Xor(a, b), Xor(c, d)) = Xor(Xor(d, a), Xor(b, c))
         /\ Xor(Xor(a, b), Xor(c, d)) = Xor(Xor(c, d), Xor(a, b))
         /\ Xor(Xor(a, b), Xor(c, d)) = Xor(Xor(b, c), Xor(d, a))
<1>1. /\ Xor(a, b) \in Uint8 /\ Xor(c, d) \in Uint8 /\ Xor(b, c) \in Uint8 /\ Xor(d, a) \in Uint8
  BY XorType
<1>2. Xor(Xor(a, b), Xor(c, d)) = Xor(Xor(c, d), Xor(a, b))
  BY <1>1, XorComm
<1>3. Xor(Xor(a, b), Xor(d, c)) = Xor(Xor(a, d), Xor(b, c))
  BY XorSwap
<1>4. Xor(c, d) = Xor(d, c) /\ Xor(a, d) = Xor(d, a)
  BY XorComm
<1>5. Xor(Xor(a, b), Xor(c, d)) = Xor(Xor(d, a), Xor(b, c))
  BY <1>3, <1>4
<1>6. Xor(Xor(d, a), Xor(b, c)) = Xor(Xor(b, c), Xor(d, a))
  BY <1>1, XorComm
<1> QED
  BY <1>2, <1>5, <1>6

LEMMA Unmixed ==
  ASSUME NEW p \in Uint8, NEW q \in Uint8, NEW r \in Uint8, NEW s \in Uint8
  PROVE  Unmix(Mix(p, q, r, s), Mix(q, r, s, p), Mix(r, s, p, q), Mix(s, p, q, r)) = p
<1> DEFINE p2 == mul2(p)  q2 == mul2(q)  r2 == mul2(r)  s2 == mul2(s)
           p3 == mul3(p)  q3 == mul3(q)  r3 == mul3(r)  s3 == mul3(s)
<1>1. /\ p2 \in Uint8 /\ q2 \in Uint8 /\ r2 \in Uint8 /\ s2 \in Uint8
      /\ p3 \in Uint8 /\ q3 \in Uint8 /\ r3 \in Uint8 /\ s3 \in Uint8
  BY Mul2Type, MulType
<1>2. /\ Unmix(p2, p, p, p3) = p /\ Unmix(q3, q2, q, q) = 0
      /\ Unmix(r, r3, r2, r) = 0 /\ Unmix(s, s, s3, s2) = 0
  BY UnmixScalars
<1>3. /\ Mix(p, q, r, s) = Xor(Xor(p2, q3), Xor(r, s))
      /\ Mix(q, r, s, p) = Xor(Xor(q2, r3), Xor(s, p))
      /\ Mix(r, s, p, q) = Xor(Xor(r2, s3), Xor(p, q))
      /\ Mix(s, p, q, r) = Xor(Xor(s2, p3), Xor(q, r))
  BY DEF Mix
<1> HIDE DEF p2, q2, r2, s2, p3, q3, r3, s3
<1>4. /\ Mix(q, r, s, p) = Xor(Xor(p, q2), Xor(r3, s))
      /\ Mix(r, s, p, q) = Xor(Xor(p, q), Xor(r2, s3))
      /\ Mix(s, p, q, r) = Xor(Xor(p3, q), Xor(r, s2))
  BY <1>1, <1>3, XorRotate
<1>5. /\ Xor(p2, q3) \in Uint8 /\ Xor(p, q2) \in Uint8 /\ Xor(p, q) \in Uint8 /\ Xor(p3, q) \in Uint8
      /\ Xor(r, s) \in Uint8 /\ Xor(r3, s) \in Uint8 /\ Xor(r2, s3) \in Uint8 /\ Xor(r, s2) \in Uint8
  BY <1>1, XorType
<1>6. Unmix(Mix(p, q, r, s), Mix(q, r, s, p), Mix(r, s, p, q), Mix(s, p, q, r))
          = Xor(Unmix(Xor(p2, q3), Xor(p, q2), Xor(p, q), Xor(p3, q)),
                Unmix(Xor(r, s), Xor(r3, s), Xor(r2, s3), Xor(r, s2)))
  <2>1. AddsUp(Xor(p2, q3), Xor(p, q2), Xor(p, q), Xor(p3, q),
               Xor(r, s), Xor(r3, s), Xor(r2, s3), Xor(r, s2))
    BY <1>5, UnmixLinear
  <2> QED
    BY <1>3, <1>4, <2>1 DEF AddsUp
<1>7. Unmix(Xor(p2, q3), Xor(p, q2), Xor(p, q), Xor(p3, q))
          = Xor(Unmix(p2, p, p, p3), Unmix(q3, q2, q, q))
  <2>1. AddsUp(p2, p, p, p3, q3, q2, q, q)
    BY <1>1, UnmixLinear
  <2> QED
    BY <2>1 DEF AddsUp
<1>8. Unmix(Xor(r, s), Xor(r3, s), Xor(r2, s3), Xor(r, s2))
          = Xor(Unmix(r, r3, r2, r), Unmix(s, s, s3, s2))
  <2>1. AddsUp(r, r3, r2, r, s, s, s3, s2)
    BY <1>1, UnmixLinear
  <2> QED
    BY <2>1 DEF AddsUp
<1>9. Xor(p, 0) = p /\ Xor(0, 0) = 0
  BY XorSelf DEF Uint8
<1> QED
  BY <1>2, <1>6, <1>7, <1>8, <1>9

-----------------------------------------------------------------------------
(* Blocks.                                                                  *)

Block == [Index -> [Index -> Uint8]]

LEMMA MixType == \A p, q, r, s \in Uint8 : Mix(p, q, r, s) \in Uint8
<1> SUFFICES ASSUME NEW p \in Uint8, NEW q \in Uint8, NEW r \in Uint8, NEW s \in Uint8
             PROVE  Mix(p, q, r, s) \in Uint8
  OBVIOUS
<1>1. mul2(p) \in Uint8 /\ mul3(q) \in Uint8
  BY Mul2Type, MulType
<1>2. Xor(mul2(p), mul3(q)) \in Uint8 /\ Xor(r, s) \in Uint8
  BY <1>1, XorType
<1> QED
  BY <1>2, XorType DEF Mix

LEMMA Rotated ==
  ASSUME NEW b \in Block, NEW r \in Index, NEW c \in Index
  PROVE  /\ b[r][c] \in Uint8 /\ b[(r + 1) % 4][c] \in Uint8 /\ b[(r + 2) % 4][c] \in Uint8
         /\ b[(r + 3) % 4][c] \in Uint8
<1>1. /\ (r + 1) % 4 \in Index /\ (r + 2) % 4 \in Index /\ (r + 3) % 4 \in Index
  BY DEF Index
<1> QED
  BY <1>1 DEF Block

\* The columns of a block mixed, and mixed back.
LEMMA MixColumnsType ==
  ASSUME NEW b \in Block
  PROVE  /\ mixColumns(b) \in Block
         /\ \A r, c \in Index : mixColumns(b)[r][c]
                = Mix(b[r][c], b[(r + 1) % 4][c], b[(r + 2) % 4][c], b[(r + 3) % 4][c])
<1> DEFINE m(r, c) == Mix(b[r][c], b[(r + 1) % 4][c], b[(r + 2) % 4][c], b[(r + 3) % 4][c])
<1>1. mixColumns(b) = [r \in Index |-> [c \in Index |-> m(r, c)]]
  BY DEF mixColumns, Mixed, Mix, mul1
<1>2. ASSUME NEW r \in Index, NEW c \in Index PROVE m(r, c) \in Uint8
  BY Rotated, MixType
<1> HIDE DEF m
<1>3. mixColumns(b) \in Block
  BY <1>1, <1>2 DEF Block
<1>4. \A r, c \in Index : mixColumns(b)[r][c] = m(r, c)
  BY <1>1
<1> QED
  BY <1>3, <1>4 DEF m

LEMMA InvMixColumnsType ==
  ASSUME NEW b \in Block
  PROVE  /\ invMixColumns(b) \in Block
         /\ \A r, c \in Index : invMixColumns(b)[r][c]
                = Unmix(b[r][c], b[(r + 1) % 4][c], b[(r + 2) % 4][c], b[(r + 3) % 4][c])
<1> DEFINE m(r, c) == Unmix(b[r][c], b[(r + 1) % 4][c], b[(r + 2) % 4][c], b[(r + 3) % 4][c])
<1>1. invMixColumns(b) = [r \in Index |-> [c \in Index |-> m(r, c)]]
  BY DEF invMixColumns, Mixed, Unmix
<1>2. ASSUME NEW r \in Index, NEW c \in Index PROVE m(r, c) \in Uint8
  BY Rotated, UnmixType
<1> HIDE DEF m
<1>3. invMixColumns(b) \in Block
  BY <1>1, <1>2 DEF Block
<1>4. \A r, c \in Index : invMixColumns(b)[r][c] = m(r, c)
  BY <1>1
<1> QED
  BY <1>3, <1>4 DEF m

LEMMA BlocksEqual ==
  ASSUME NEW a \in Block, NEW b \in Block, \A r, c \in Index : a[r][c] = b[r][c]
  PROVE  a = b
<1>1. ASSUME NEW r \in Index PROVE a[r] = b[r]
  BY DEF Block
<1> QED
  BY <1>1 DEF Block

LEMMA MixColumnsUndone == \A b \in Block : invMixColumns(mixColumns(b)) = b
<1> SUFFICES ASSUME NEW b \in Block PROVE invMixColumns(mixColumns(b)) = b
  OBVIOUS
<1>1. mixColumns(b) \in Block /\ invMixColumns(mixColumns(b)) \in Block
  BY MixColumnsType, InvMixColumnsType
<1>2. ASSUME NEW r \in Index, NEW c \in Index
      PROVE  invMixColumns(mixColumns(b))[r][c] = b[r][c]
  <2> DEFINE r1 == (r + 1) % 4  r2 == (r + 2) % 4  r3 == (r + 3) % 4  m == mixColumns(b)
  <2>1. r1 \in Index /\ r2 \in Index /\ r3 \in Index
    BY DEF Index
  <2>2. /\ (r1 + 1) % 4 = r2 /\ (r1 + 2) % 4 = r3 /\ (r1 + 3) % 4 = r
        /\ (r2 + 1) % 4 = r3 /\ (r2 + 2) % 4 = r /\ (r2 + 3) % 4 = r1
        /\ (r3 + 1) % 4 = r /\ (r3 + 2) % 4 = r1 /\ (r3 + 3) % 4 = r2
    BY DEF Index
  <2> HIDE DEF r1, r2, r3
  <2>3. invMixColumns(m)[r][c] = Unmix(m[r][c], m[r1][c], m[r2][c], m[r3][c])
    BY <1>1, InvMixColumnsType DEF r1, r2, r3
  <2>4. m[r][c] = Mix(b[r][c], b[r1][c], b[r2][c], b[r3][c])
    BY MixColumnsType DEF r1, r2, r3
  <2>5. m[r1][c] = Mix(b[r1][c], b[r2][c], b[r3][c], b[r][c])
    BY <2>1, <2>2, MixColumnsType
  <2>6. m[r2][c] = Mix(b[r2][c], b[r3][c], b[r][c], b[r1][c])
    BY <2>1, <2>2, MixColumnsType
  <2>7. m[r3][c] = Mix(b[r3][c], b[r][c], b[r1][c], b[r2][c])
    BY <2>1, <2>2, MixColumnsType
  <2>8. b[r][c] \in Uint8 /\ b[r1][c] \in Uint8 /\ b[r2][c] \in Uint8 /\ b[r3][c] \in Uint8
    BY <2>1 DEF Block
  <2> QED
    BY <2>3, <2>4, <2>5, <2>6, <2>7, <2>8, Unmixed
<1> QED
  BY <1>1, <1>2, BlocksEqual

\* The two boxes are inverse to each other.
LEMMA BoxesType == \A v \in Uint8 : m_sBox[v + 1] \in Uint8 /\ m_iBox[v + 1] \in Uint8
<1>1. \A v \in 0 .. 255 : m_sBox[v + 1] \in 0 .. 255
  BY DEF m_sBox
<1>2. \A v \in 0 .. 255 : m_iBox[v + 1] \in 0 .. 255
  BY DEF m_iBox
<1> QED
  BY <1>1, <1>2 DEF Uint8

LEMMA BoxUndone == \A v \in Uint8 : m_iBox[m_sBox[v + 1] + 1] = v
<1>1. \A v \in 0 .. 255 : m_iBox[m_sBox[v + 1] + 1] = v
  BY DEF m_sBox, m_iBox
<1> QED
  BY <1>1 DEF Uint8

LEMMA SubBytesType ==
  ASSUME NEW b \in Block
  PROVE  subBytes(m_sBox, b) \in Block /\ subBytes(m_iBox, b) \in Block
<1>1. \A r, c \in Index : b[r][c] \in Uint8
  BY DEF Block
<1>2. subBytes(m_sBox, b) \in Block
  BY <1>1, BoxesType DEF subBytes, Block
<1>3. subBytes(m_iBox, b) \in Block
  BY <1>1, BoxesType DEF subBytes, Block
<1> QED
  BY <1>2, <1>3

LEMMA SubBytesUndone == \A b \in Block : subBytes(m_iBox, subBytes(m_sBox, b)) = b
<1> SUFFICES ASSUME NEW b \in Block PROVE subBytes(m_iBox, subBytes(m_sBox, b)) = b
  OBVIOUS
<1>1. subBytes(m_sBox, b) \in Block /\ subBytes(m_iBox, subBytes(m_sBox, b)) \in Block
  BY SubBytesType
<1>2. ASSUME NEW r \in Index, NEW c \in Index
      PROVE  subBytes(m_iBox, subBytes(m_sBox, b))[r][c] = b[r][c]
  <2>1. b[r][c] \in Uint8
    BY DEF Block
  <2>2. subBytes(m_iBox, subBytes(m_sBox, b))[r][c] = m_iBox[m_sBox[b[r][c] + 1] + 1]
    BY DEF subBytes
  <2> QED
    BY <2>1, <2>2, BoxUndone
<1> QED
  BY <1>1, <1>2, BlocksEqual

\* The rows shifted, and shifted back.
LEMMA ShiftRowsType ==
  ASSUME NEW b \in Block
  PROVE  shiftRows(b) \in Block /\ invShiftRows(b) \in Block
<1>1. \A r, c \in Index : (c + r) % 4 \in Index /\ (c + 4 - r) % 4 \in Index
  BY DEF Index
<1>2. \A r, c \in Index : b[r][c] \in Uint8
  BY DEF Block
<1>3. shiftRows(b) \in Block
  BY <1>1, <1>2 DEF shiftRows, Block
<1>4. invShiftRows(b) \in Block
  BY <1>1, <1>2 DEF invShiftRows, Block
<1> QED
  BY <1>3, <1>4

LEMMA ShiftRowsUndone == \A b \in Block : invShiftRows(shiftRows(b)) = b
<1> SUFFICES ASSUME NEW b \in Block PROVE invShiftRows(shiftRows(b)) = b
  OBVIOUS
<1>1. shiftRows(b) \in Block /\ invShiftRows(shiftRows(b)) \in Block
  BY ShiftRowsType
<1>2. ASSUME NEW r \in Index, NEW c \in Index
      PROVE  invShiftRows(shiftRows(b))[r][c] = b[r][c]
  <2>1. (c + 4 - r) % 4 \in Index /\ (((c + 4 - r) % 4) + r) % 4 = c
    BY DEF Index
  <2>2. invShiftRows(shiftRows(b))[r][c] = b[r][(((c + 4 - r) % 4) + r) % 4]
    BY <2>1 DEF shiftRows, invShiftRows
  <2> QED
    BY <2>1, <2>2
<1> QED
  BY <1>1, <1>2, BlocksEqual

-----------------------------------------------------------------------------
(* Rounds.                                                                  *)

\* What a round does to a block before the columns are mixed.
Turned(b) == shiftRows(subBytes(m_sBox, b))

Word == [1 .. 4 -> Uint8]
KeyAt(W, k) == \A c \in Index : W[4 * k + c + 1] \in Word
KeyedBy(W, k, b) == [r \in Index |-> [c \in Index |-> Xor(b[r][c], W[4 * k + c + 1][r + 1])]]
Encoded(W, last, k, b) == KeyedBy(W, k, IF k = last THEN Turned(b) ELSE mixColumns(Turned(b)))
Decoded(W, k, b) ==
    LET keyed == KeyedBy(W, k, subBytes(m_iBox, invShiftRows(b)))
    IN  IF k = 0 THEN keyed ELSE invMixColumns(keyed)

\* The S-box and the shift, and the sub-key, are undone.
LEMMA TurnedBack ==
  ASSUME NEW b \in Block
  PROVE  Turned(b) \in Block /\ subBytes(m_iBox, invShiftRows(Turned(b))) = b
<1>1. subBytes(m_sBox, b) \in Block
  BY SubBytesType
<1>2. Turned(b) \in Block /\ invShiftRows(Turned(b)) = subBytes(m_sBox, b)
  BY <1>1, ShiftRowsType, ShiftRowsUndone DEF Turned
<1> QED
  BY <1>2, SubBytesUndone

LEMMA KeyedUndone ==
  ASSUME NEW W, NEW k, KeyAt(W, k), NEW b \in Block
  PROVE  KeyedBy(W, k, b) \in Block /\ KeyedBy(W, k, KeyedBy(W, k, b)) = b
<1> DEFINE raw(r, c) == W[4 * k + c + 1][r + 1]
<1>1. ASSUME NEW r \in Index, NEW c \in Index PROVE raw(r, c) \in Uint8
  BY DEF KeyAt, Word, Index
<1>2. \A r, c \in Index : b[r][c] \in Uint8
  BY DEF Block
<1>3. \A a : KeyedBy(W, k, a) = [r \in Index |-> [c \in Index |-> Xor(a[r][c], raw(r, c))]]
  BY DEF KeyedBy
<1> HIDE DEF raw
<1>4. \A a \in Block : KeyedBy(W, k, a) \in Block
  <2> SUFFICES ASSUME NEW a \in Block PROVE KeyedBy(W, k, a) \in Block
    OBVIOUS
  <2>1. ASSUME NEW r \in Index, NEW c \in Index PROVE Xor(a[r][c], raw(r, c)) \in Uint8
    BY <1>1, XorType DEF Block
  <2> QED
    BY <1>3, <2>1 DEF Block
<1>5. ASSUME NEW r \in Index, NEW c \in Index
      PROVE  KeyedBy(W, k, KeyedBy(W, k, b))[r][c] = b[r][c]
  <2>1. KeyedBy(W, k, KeyedBy(W, k, b))[r][c] = Xor(Xor(b[r][c], raw(r, c)), raw(r, c))
    BY <1>3
  <2> QED
    BY <1>1, <1>2, <2>1, XorCancel
<1> QED
  BY <1>4, <1>5, BlocksEqual

\* Each round is undone by the same sub-key.
LEMMA RoundUndone ==
  ASSUME NEW W, NEW last, NEW k, KeyAt(W, k), NEW b \in Block
  PROVE  /\ Encoded(W, last, k, b) \in Block
         /\ KeyedBy(W, k, b) \in Block
         /\ Decoded(W, k, Turned(KeyedBy(W, k, b))) = (IF k = 0 THEN b ELSE invMixColumns(b))
         /\ k = last => KeyedBy(W, k, Encoded(W, last, k, b)) = Turned(b)
         /\ k # last /\ k # 0 => Decoded(W, k, Turned(Encoded(W, last, k, b))) = Turned(b)
<1>1. Turned(b) \in Block /\ mixColumns(Turned(b)) \in Block
  BY TurnedBack, MixColumnsType
<1>2. \A a \in Block : KeyedBy(W, k, a) \in Block /\ KeyedBy(W, k, KeyedBy(W, k, a)) = a
  BY KeyedUndone
<1>3. Encoded(W, last, k, b) \in Block
  BY <1>1, <1>2 DEF Encoded
<1>4. ASSUME NEW a \in Block
      PROVE  Decoded(W, k, Turned(KeyedBy(W, k, a))) = (IF k = 0 THEN a ELSE invMixColumns(a))
  <2>1. subBytes(m_iBox, invShiftRows(Turned(KeyedBy(W, k, a)))) = KeyedBy(W, k, a)
    BY <1>2, TurnedBack
  <2> QED
    BY <1>2, <2>1 DEF Decoded
<1>5. k = last => KeyedBy(W, k, Encoded(W, last, k, b)) = Turned(b)
  BY <1>1, <1>2 DEF Encoded
<1>6. ASSUME k # last, k # 0 PROVE Decoded(W, k, Turned(Encoded(W, last, k, b))) = Turned(b)
  <2>1. Encoded(W, last, k, b) = KeyedBy(W, k, mixColumns(Turned(b)))
    BY <1>6 DEF Encoded
  <2> QED
    BY <1>1, <1>4, <1>6, <2>1, MixColumnsUndone
<1> QED
  BY <1>2, <1>3, <1>4, <1>5, <1>6

\* Blocks and their bytes.
Chunk16 == [1 .. 16 -> Uint8]

LEMMA BlockOfBytes ==
  ASSUME NEW x \in Chunk16
  PROVE  writeBlock(x) \in Block /\ readBlock(writeBlock(x)) = x
<1>1. \A r, c \in Index : 4 * c + r + 1 \in 1 .. 16
  BY DEF Index
<1>2. writeBlock(x) \in Block
  BY <1>1 DEF writeBlock, Block, Chunk16
<1>3. ASSUME NEW k \in 1 .. 16 PROVE readBlock(writeBlock(x))[k] = x[k]
  <2>1. /\ (k - 1) % 4 \in Index /\ (k - 1) \div 4 \in Index
        /\ 4 * ((k - 1) \div 4) + ((k - 1) % 4) + 1 = k
    BY DEF Index
  <2> QED
    BY <2>1 DEF readBlock, writeBlock
<1> QED
  BY <1>2, <1>3 DEF readBlock, Chunk16

LEMMA BytesOfBlock ==
  ASSUME NEW b \in Block
  PROVE  readBlock(b) \in Chunk16 /\ writeBlock(readBlock(b)) = b
<1>1. \A k \in 1 .. 16 : (k - 1) % 4 \in Index /\ (k - 1) \div 4 \in Index
  BY DEF Index
<1>2. readBlock(b) \in Chunk16
  BY <1>1 DEF readBlock, Block, Chunk16
<1>3. writeBlock(readBlock(b)) \in Block
  BY <1>2, BlockOfBytes
<1>4. ASSUME NEW r \in Index, NEW c \in Index PROVE writeBlock(readBlock(b))[r][c] = b[r][c]
  <2> DEFINE k == 4 * c + r + 1
  <2>1. k \in 1 .. 16 /\ (k - 1) % 4 = r /\ (k - 1) \div 4 = c
    BY DEF Index
  <2>2. writeBlock(readBlock(b))[r][c] = readBlock(b)[k]
    BY DEF writeBlock
  <2> HIDE DEF k
  <2>3. readBlock(b)[k] = b[(k - 1) % 4][(k - 1) \div 4]
    BY <2>1 DEF readBlock
  <2> QED
    BY <2>1, <2>2, <2>3
<1> QED
  BY <1>2, <1>3, <1>4, BlocksEqual

\* Functions on 1 .. n are sequences.
LEMMA RowIsSeq ==
  ASSUME NEW n \in Nat, NEW S, NEW x \in [1 .. n -> S]
  PROVE  x \in Seq(S) /\ Len(x) = n
  OBVIOUS

LEMMA SeqIsRow ==
  ASSUME NEW S, NEW x \in Seq(S)
  PROVE  x \in [1 .. Len(x) -> S] /\ Len(x) \in Nat
  OBVIOUS

LEMMA WordIsSeq == \A x \in Word : x \in Seq(Uint8) /\ Len(x) = 4
<1>1. 4 \in Nat
  OBVIOUS
<1> QED
  BY <1>1, RowIsSeq, Zenon DEF Word

LEMMA SeqIsWord == \A x \in Seq(Uint8) : Len(x) = 4 => x \in Word
  BY SeqIsRow DEF Word

LEMMA ChunkIsSeq == \A x \in Chunk16 : x \in Seq(Uint8) /\ Len(x) = 16
<1>1. 16 \in Nat
  OBVIOUS
<1> QED
  BY <1>1, RowIsSeq, Zenon DEF Chunk16

-----------------------------------------------------------------------------
(* The key schedule.                                                        *)

\* The number of sub-keys and of words of job j, and the word that follows the
\* words W of its schedule.
Last(j) == j.Nk + 6
WordCount(j) == (Last(j) + 1) * 4
Turn(j, W, i) ==
    IF i % j.Nk = 0
    THEN [subWord(rotWord(W[i])) EXCEPT ![1] = Xor(@, m_rCon[i \div j.Nk])]
    ELSE IF j.Nk > 6 /\ i % j.Nk = 4 THEN subWord(W[i]) ELSE W[i]
NextWord(j, W, i) == XorWords(W[i - j.Nk + 1], Turn(j, W, i))

Runs(j) == Len(j.key) = j.Nk * 4
Schedule(j, W) ==
    /\ W \in Seq(Word) /\ j.Nk <= Len(W) /\ Len(W) <= WordCount(j)
    /\ \A i \in 1 .. j.Nk : W[i] = SubSeq(j.key, 4 * i - 3, 4 * i)
    /\ \A i \in j.Nk .. (Len(W) - 1) : W[i + 1] = NextWord(j, W, i)

LEMMA JobFacts ==
  ASSUME NEW j \in Jobs
  PROVE  /\ j.Nk \in {4, 8} /\ j.key \in Seq(Uint8) /\ j.data \in Seq(Uint8)
         /\ j.Nk \in Nat /\ Last(j) \in Nat /\ WordCount(j) \in Nat
         /\ WordCount(j) = 4 * Last(j) + 4 /\ 10 <= Last(j) /\ j.Nk <= WordCount(j)
<1>1. j.Nk \in {4, 8} /\ j.key \in Seq(Uint8) /\ j.data \in Seq(Uint8)
  BY JobAssumption
<1> QED
  BY <1>1 DEF Last, WordCount

\* The operations on words return words.
LEMMA RotWordType == \A x \in Word : rotWord(x) \in Word
<1> SUFFICES ASSUME NEW x \in Word PROVE rotWord(x) \in Word
  OBVIOUS
<1>1. x \in Seq(Uint8) /\ Len(x) = 4 /\ x # <<>>
  BY WordIsSeq
<1>2. Tail(x) \in Seq(Uint8) /\ Len(Tail(x)) = 3 /\ Head(x) \in Uint8
  BY <1>1
<1>3. <<Head(x)>> \in Seq(Uint8) /\ Len(<<Head(x)>>) = 1
  BY <1>2
<1>4. rotWord(x) \in Seq(Uint8) /\ Len(rotWord(x)) = 4
  BY <1>2, <1>3, ConcatProperties DEF rotWord
<1> QED
  BY <1>4, SeqIsWord

LEMMA SubWordType == \A x \in Word : subWord(x) \in Word
<1> SUFFICES ASSUME NEW x \in Word PROVE subWord(x) \in Word
  OBVIOUS
<1>1. \A k \in 1 .. 4 : x[k] \in Uint8
  BY DEF Word
<1> QED
  BY <1>1, BoxesType DEF subWord, Word

LEMMA XorWordsType == \A x, y \in Word : XorWords(x, y) \in Word
<1> SUFFICES ASSUME NEW x \in Word, NEW y \in Word PROVE XorWords(x, y) \in Word
  OBVIOUS
<1>1. \A k \in 1 .. 4 : x[k] \in Uint8 /\ y[k] \in Uint8
  BY DEF Word
<1>2. \A k \in 1 .. 4 : Xor(x[k], y[k]) \in Uint8
  BY <1>1, XorType
<1> QED
  BY <1>2 DEF XorWords, Word

LEMMA RConType == \A i \in 1 .. 10 : m_rCon[i] \in Uint8
<1>1. \A i \in 1 .. 10 : m_rCon[i] \in 0 .. 255
  BY DEF m_rCon
<1> QED
  BY <1>1 DEF Uint8

LEMMA TurnType ==
  ASSUME NEW j \in Jobs, NEW W, NEW i \in Nat, j.Nk <= i, i < WordCount(j), W[i] \in Word
  PROVE  Turn(j, W, i) \in Word
<1>1. subWord(W[i]) \in Word /\ subWord(rotWord(W[i])) \in Word
  BY RotWordType, SubWordType
<1>2. ASSUME i % j.Nk = 0
      PROVE  [subWord(rotWord(W[i])) EXCEPT ![1] = Xor(@, m_rCon[i \div j.Nk])] \in Word
  <2>1. i \div j.Nk \in 1 .. 10
    <3>1. CASE j.Nk = 4
      <4>1. i < 44 /\ 4 <= i
        BY <3>1 DEF Last, WordCount
      <4> QED
        BY <3>1, <4>1
    <3>2. CASE j.Nk = 8
      <4>1. i < 60 /\ 8 <= i
        BY <3>2 DEF Last, WordCount
      <4> QED
        BY <3>2, <4>1
    <3> QED
      BY <3>1, <3>2, JobFacts
  <2>2. m_rCon[i \div j.Nk] \in Uint8
    BY <2>1, RConType
  <2>3. PICK x \in Word : x = subWord(rotWord(W[i]))
    BY <1>1
  <2>4. Xor(x[1], m_rCon[i \div j.Nk]) \in Uint8
    BY <2>2, XorType DEF Word
  <2> QED
    BY <2>3, <2>4 DEF Word
<1> QED
  BY <1>1, <1>2 DEF Turn

LEMMA NextWordType ==
  ASSUME NEW j \in Jobs, NEW W, NEW i \in Nat, j.Nk <= i, i < WordCount(j),
         W[i] \in Word, W[i - j.Nk + 1] \in Word
  PROVE  NextWord(j, W, i) \in Word
  BY TurnType, XorWordsType DEF NextWord

\* A turn of the loop goes on with the schedule.
LEMMA ScheduleStep ==
  ASSUME NEW j \in Jobs, NEW W, Schedule(j, W), Len(W) < WordCount(j)
  PROVE  Schedule(j, Append(W, NextWord(j, W, Len(W))))
<1> DEFINE n == Len(W)  x == NextWord(j, W, n)  V == Append(W, x)
<1>1. W \in Seq(Word) /\ n \in Nat /\ j.Nk <= n /\ n < WordCount(j) /\ j.Nk \in {4, 8}
  BY JobFacts DEF Schedule
<1>2. n \in 1 .. n /\ n - j.Nk + 1 \in 1 .. n
  BY <1>1
<1>3. W[n] \in Word /\ W[n - j.Nk + 1] \in Word
  BY <1>1, <1>2
<1>4. x \in Word
  BY <1>1, <1>3, NextWordType
<1> HIDE DEF x
<1>5. V \in Seq(Word) /\ Len(V) = n + 1 /\ V[n + 1] = x /\ \A i \in 1 .. n : V[i] = W[i]
  BY <1>1, <1>4
<1>6. \A i \in 1 .. j.Nk : V[i] = SubSeq(j.key, 4 * i - 3, 4 * i)
  BY <1>1, <1>5 DEF Schedule
<1>7. ASSUME NEW i \in j.Nk .. n PROVE V[i + 1] = NextWord(j, V, i)
  <2>1. i \in 1 .. n /\ i - j.Nk + 1 \in 1 .. n
    BY <1>1
  <2>2. V[i] = W[i] /\ V[i - j.Nk + 1] = W[i - j.Nk + 1]
    BY <1>5, <2>1
  <2>3. NextWord(j, V, i) = NextWord(j, W, i)
    BY <2>2 DEF NextWord, Turn
  <2>4. CASE i = n
    BY <1>5, <2>3, <2>4 DEF x
  <2>5. CASE i < n
    <3>1. W[i + 1] = NextWord(j, W, i)
      BY <1>1, <2>5 DEF Schedule
    <3>2. i + 1 \in 1 .. n
      BY <1>1, <2>5
    <3> QED
      BY <1>5, <2>3, <3>1, <3>2
  <2> QED
    BY <1>1, <2>4, <2>5
<1>8. n + 1 <= WordCount(j)
  BY <1>1, JobFacts
<1> HIDE DEF n
<1> QED
  BY <1>1, <1>5, <1>6, <1>7, <1>8 DEF Schedule, x, n

\* Two schedules of a length are the same.
LEMMA ScheduleUnique ==
  ASSUME NEW j \in Jobs, NEW V, NEW W, Schedule(j, V), Schedule(j, W), Len(V) = Len(W)
  PROVE  V = W
<1> DEFINE n == Len(W)  U == {i \in 1 .. n : V[i] # W[i]}
<1>0. V \in Seq(Word) /\ W \in Seq(Word) /\ Len(V) = n /\ n \in Nat /\ j.Nk \in {4, 8}
  BY JobFacts DEF Schedule
<1>9. \A i \in 1 .. j.Nk : V[i] = W[i]
  BY DEF Schedule
<1>1. /\ V \in Seq(Word) /\ W \in Seq(Word) /\ Len(V) = n /\ n \in Nat /\ j.Nk \in {4, 8}
      /\ \A i \in 1 .. j.Nk : V[i] = W[i]
  BY <1>0, <1>9, Zenon
<1>2. ASSUME U # {} PROVE FALSE
  <2>1. U \subseteq Nat
    OBVIOUS
  <2>2. PICK k \in U : \A i \in U : ~(<<i, k>> \in OpToRel(<, Nat))
    BY <1>2, <2>1, WFMin, NatLessThanWellFounded
  <2>3. \A i \in U : ~(i < k)
    BY <2>1, <2>2 DEF OpToRel
  <2>4. k \in 1 .. n /\ k \notin 1 .. j.Nk /\ V[k] # W[k]
    BY <1>1
  <2>5. PICK i \in Nat : i = k - 1 /\ j.Nk <= i /\ i <= n - 1 /\ i \in 1 .. n /\ i - j.Nk + 1 \in 1 .. n
    BY <1>1, <2>4
  <2>6. i < k /\ i - j.Nk + 1 < k
    BY <1>1, <2>5
  <2>7. V[i] = W[i] /\ V[i - j.Nk + 1] = W[i - j.Nk + 1]
    BY <2>3, <2>5, <2>6
  <2>8. V[i + 1] = NextWord(j, V, i) /\ W[i + 1] = NextWord(j, W, i)
    BY <1>1, <2>5 DEF Schedule
  <2>9. NextWord(j, V, i) = NextWord(j, W, i)
    BY <2>7 DEF NextWord, Turn
  <2> QED
    BY <2>4, <2>5, <2>8, <2>9
<1>3. \A i \in 1 .. n : V[i] = W[i]
  BY <1>2
<1> QED
  BY <1>1, <1>3, SeqEqual

\* The schedule of a job's key, once it is complete.
Complete(j, W) == Schedule(j, W) /\ Len(W) = WordCount(j)
KeysOf(j) == CHOOSE W : Complete(j, W)

LEMMA KeysAreKnown ==
  ASSUME NEW j \in Jobs, NEW W, Complete(j, W)
  PROVE  W = KeysOf(j) /\ \A k \in 0 .. Last(j) : KeyAt(W, k)
<1>1. Complete(j, KeysOf(j))
  BY Zenon DEF KeysOf
<1>2. W = KeysOf(j)
  BY <1>1, ScheduleUnique DEF Complete
<1>3. W \in Seq(Word) /\ Len(W) = 4 * Last(j) + 4 /\ Last(j) \in Nat
  BY JobFacts DEF Complete, Schedule
<1>4. ASSUME NEW k \in 0 .. Last(j), NEW c \in Index PROVE W[4 * k + c + 1] \in Word
  <2>1. 4 * k + c + 1 \in 1 .. Len(W)
    BY <1>3 DEF Index
  <2> QED
    BY <1>3, <2>1
<1> QED
  BY <1>2, <1>4 DEF KeyAt

\* The words of the key itself, with which each call starts.
LEMMA KeyWordsFacts ==
  ASSUME NEW raw \in Seq(Uint8)
  PROVE  /\ KeyWords(raw) \in Seq(Seq(Uint8)) /\ Len(KeyWords(raw)) = Len(raw) \div 4
         /\ \A i \in 1 .. (Len(raw) \div 4) :
               KeyWords(raw)[i] = SubSeq(raw, 4 * i - 3, 4 * i) /\ KeyWords(raw)[i] \in Word
<1> DEFINE n == Len(raw) \div 4
<1>1. n \in Nat /\ 4 * n <= Len(raw) /\ Len(raw) \in Nat
  OBVIOUS
<1>2. ASSUME NEW i \in 1 .. n PROVE SubSeq(raw, 4 * i - 3, 4 * i) \in Word
  <2>1. 4 * i - 3 \in 1 .. Len(raw) /\ 4 * i \in 1 .. Len(raw) /\ 4 * i - 3 <= 4 * i + 1
    BY <1>1
  <2>2. SubSeq(raw, 4 * i - 3, 4 * i) \in Seq(Uint8) /\ Len(SubSeq(raw, 4 * i - 3, 4 * i)) = 4
    BY <1>1, <2>1
  <2> QED
    BY <2>2, SeqIsWord
<1> HIDE DEF n
<1>3. KeyWords(raw) = [i \in 1 .. n |-> SubSeq(raw, 4 * i - 3, 4 * i)]
  BY DEF KeyWords, n
<1>4. KeyWords(raw) \in [1 .. n -> Word]
  BY <1>2, <1>3
<1>5. KeyWords(raw) \in Seq(Word) /\ Len(KeyWords(raw)) = n
  BY <1>1, <1>4, RowIsSeq
<1>6. Word \subseteq Seq(Uint8)
  BY WordIsSeq
<1>7. KeyWords(raw) \in Seq(Seq(Uint8))
  BY <1>5, <1>6, SeqMonotonic
<1> QED
  BY <1>2, <1>3, <1>5, <1>7 DEF n

LEMMA ScheduleStart ==
  ASSUME NEW j \in Jobs, Runs(j)
  PROVE  Schedule(j, KeyWords(j.key))
<1>1. j.key \in Seq(Uint8) /\ j.Nk \in {4, 8} /\ Len(j.key) \div 4 = j.Nk /\ j.Nk <= WordCount(j)
  BY JobFacts DEF Runs
<1>2. KeyWords(j.key) \in [1 .. j.Nk -> Word] /\ Len(KeyWords(j.key)) = j.Nk
  <2>1. KeyWords(j.key) \in Seq(Seq(Uint8)) /\ Len(KeyWords(j.key)) = j.Nk
        /\ \A i \in 1 .. j.Nk : KeyWords(j.key)[i] \in Word
    BY <1>1, KeyWordsFacts
  <2> QED
    BY <2>1, SeqIsRow
<1>3. KeyWords(j.key) \in Seq(Word)
  BY <1>1, <1>2, RowIsSeq
<1>4. \A i \in 1 .. j.Nk : KeyWords(j.key)[i] = SubSeq(j.key, 4 * i - 3, 4 * i)
  BY <1>1, KeyWordsFacts
<1>5. j.Nk .. (Len(KeyWords(j.key)) - 1) = {}
  BY <1>1, <1>2
<1> QED
  BY <1>1, <1>2, <1>3, <1>4, <1>5 DEF Schedule

-----------------------------------------------------------------------------
(* The inductive invariant.                                                 *)

\* The blocks of a job's data, and the length of the encrypted data.
PlainExtra(j) == Len(j.data) % 16
PlainBlocks(j) == (Len(j.data) \div 16) + (IF PlainExtra(j) = 0 THEN 0 ELSE 1)
PlainChunk(j, n) == [k \in 1 .. 16 |-> IF 16 * n + k <= Len(j.data) THEN j.data[16 * n + k] ELSE 0]
CipherLen(j) == 16 * PlainBlocks(j) + (IF PlainExtra(j) = 0 THEN 0 ELSE 1)

\* t is what block n goes through, up to some round.
Trace(j, t, n) ==
    /\ t \in Seq(Block) /\ 1 <= Len(t) /\ Len(t) <= Last(j) + 1
    /\ t[1] = KeyedBy(KeysOf(j), 0, writeBlock(PlainChunk(j, n)))
    /\ \A k \in 1 .. (Len(t) - 1) : t[k + 1] = Encoded(KeysOf(j), Last(j), k, t[k])

Traces(j, T, m) == \A n \in 0 .. (m - 1) : Trace(j, T[n + 1], n)
Finished(j, T, m) == \A n \in 0 .. (m - 1) : Len(T[n + 1]) = Last(j) + 1

\* The first m blocks of o are the encrypted ones; o is all of them, and the
\* size of the last.
CodedBytes(j, T, n) == readBlock(T[n + 1][Last(j) + 1])
Coded(j, T, o, m) == \A n \in 0 .. (m - 1) : \A k \in 1 .. 16 : o[16 * n + k] = CodedBytes(j, T, n)[k]
CodedText(j, T, o) ==
    /\ Len(o) = CipherLen(j)
    /\ PlainExtra(j) # 0 => o[Len(o)] = PlainExtra(j)
    /\ Coded(j, T, o, PlainBlocks(j))
AllDone(j, T) ==
    /\ Len(T) = PlainBlocks(j) /\ Traces(j, T, PlainBlocks(j)) /\ Finished(j, T, PlainBlocks(j))

Types ==
    /\ job \in Jobs /\ call \in {"encrypt", "encrypted", "decrypt", "decrypted"}
    /\ in \in Seq(Uint8) /\ out \in Seq(Uint8) /\ w \in Seq(Seq(Uint8))
    /\ block = NoBlock \/ block \in Block
    /\ round \in Int /\ cycleN \in Nat /\ trail \in Seq(Seq(Block))
    /\ block = NoBlock => round = 0

\* With a key of the right size, the words are those of its schedule, and no
\* block is touched before they are all there.
KeyInv == Runs(job) => /\ Schedule(job, w)
                       /\ block # NoBlock => Len(w) = WordCount(job)

\* With another key nothing is done.
RefusedInv == ~Runs(job) => /\ block = NoBlock /\ cycleN = 0 /\ out = <<>> /\ trail = <<>>
                            /\ call \in {"decrypt", "decrypted"} => in = <<>>

EncryptInv ==
    Runs(job) /\ call = "encrypt" =>
        /\ in = job.data /\ cycleN <= PlainBlocks(job)
        /\ Len(trail) = cycleN + (IF block = NoBlock THEN 0 ELSE 1)
        /\ Traces(job, trail, Len(trail)) /\ Finished(job, trail, cycleN)
        /\ block # NoBlock => /\ cycleN < PlainBlocks(job) /\ round = Len(trail[cycleN + 1])
                              /\ block = trail[cycleN + 1][round]
        /\ Len(out) = 16 * cycleN + (IF cycleN = PlainBlocks(job) /\ PlainExtra(job) # 0 THEN 1 ELSE 0)
        /\ cycleN = PlainBlocks(job) /\ PlainExtra(job) # 0 => out[Len(out)] = PlainExtra(job)
        /\ Coded(job, trail, out, cycleN)

EncryptedInv ==
    Runs(job) /\ call = "encrypted" =>
        block = NoBlock /\ AllDone(job, trail) /\ CodedText(job, trail, out)

\* What is decrypted of the job's data, and how far the block is.
DecryptInv ==
    Runs(job) /\ call = "decrypt" =>
        /\ AllDone(job, trail) /\ CodedText(job, trail, in) /\ cycleN <= PlainBlocks(job)
        /\ block # NoBlock =>
              /\ cycleN < PlainBlocks(job) /\ -1 <= round /\ round < Last(job)
              /\ round >= 0 => block = Turned(trail[cycleN + 1][round + 1])
              /\ round = -1 => block = writeBlock(PlainChunk(job, cycleN))
        /\ Len(out) = IF 16 * cycleN <= Len(job.data) THEN 16 * cycleN ELSE Len(job.data)
        /\ \A i \in 1 .. Len(out) : out[i] = job.data[i]

DecryptedInv == Runs(job) /\ call = "decrypted" => block = NoBlock /\ out = job.data

IInv == Types /\ KeyInv /\ RefusedInv /\ EncryptInv /\ EncryptedInv /\ DecryptInv /\ DecryptedInv

-----------------------------------------------------------------------------
(* What the call allocates and loads.                                       *)

\* The blocks of the data that is encrypted.
LEMMA PlainFacts ==
  ASSUME NEW j \in Jobs
  PROVE  /\ Len(j.data) \in Nat /\ PlainExtra(j) \in 0 .. 15 /\ PlainBlocks(j) \in Nat
         /\ CipherLen(j) \in Nat
         /\ Len(j.data) = 16 * (Len(j.data) \div 16) + PlainExtra(j)
         /\ PlainExtra(j) = 0 => Len(j.data) = 16 * PlainBlocks(j)
         /\ PlainExtra(j) # 0 => Len(j.data) = 16 * PlainBlocks(j) - 16 + PlainExtra(j)
         /\ \A n \in Nat : PlainChunk(j, n) \in Chunk16
<1>1. j.data \in Seq(Uint8) /\ Len(j.data) \in Nat
  BY JobFacts
<1>2. PICK L \in Nat : L = Len(j.data)
  BY <1>1
<1>3. PICK q \in Nat, e \in 0 .. 15 : q = L \div 16 /\ e = L % 16 /\ L = 16 * q + e
  OBVIOUS
<1>4. PlainExtra(j) = e /\ PlainBlocks(j) = q + (IF e = 0 THEN 0 ELSE 1)
  BY <1>2, <1>3 DEF PlainExtra, PlainBlocks
<1>5. ASSUME NEW n \in Nat PROVE PlainChunk(j, n) \in Chunk16
  <2>1. ASSUME NEW k \in 1 .. 16, 16 * n + k <= L PROVE j.data[16 * n + k] \in Uint8
    BY <1>1, <1>2, <2>1
  <2>2. 0 \in Uint8
    BY DEF Uint8
  <2> QED
    BY <1>2, <2>1, <2>2 DEF PlainChunk, Chunk16
<1>6. PICK m \in Nat : m = PlainBlocks(j) /\ m = q + (IF e = 0 THEN 0 ELSE 1)
  BY <1>4
<1>7. CipherLen(j) = 16 * m + (IF e = 0 THEN 0 ELSE 1)
  BY <1>4, <1>6 DEF CipherLen
<1>8. CipherLen(j) \in Nat
  BY <1>7
<1>9. e = 0 => L = 16 * m
  BY <1>3, <1>6
<1>10. e # 0 => L = 16 * m - 16 + e
  BY <1>3, <1>6
<1> QED
  BY <1>2, <1>3, <1>4, <1>5, <1>6, <1>8, <1>9, <1>10

\* A call that encrypts works on those blocks.
LEMMA EncryptShape ==
  ASSUME job \in Jobs, call = "encrypt", in = job.data
  PROVE  /\ extraBytes = PlainExtra(job) /\ cycles = Len(job.data) \div 16
         /\ Blocks = PlainBlocks(job) /\ resultLen = CipherLen(job)
         /\ \A n \in Nat : Chunk(n) = PlainChunk(job, n)
<1>1. extraBytes = PlainExtra(job)
  BY DEF extraBytes, PlainExtra
<1>2. cycles = Len(job.data) \div 16
  BY DEF cycles
<1>3. Blocks = PlainBlocks(job)
  BY <1>1, <1>2 DEF Blocks, PlainBlocks
<1>4. resultLen = CipherLen(job)
  <2>1. PICK L \in Nat, e \in 0 .. 15, m \in Nat :
            /\ L = Len(job.data) /\ e = PlainExtra(job) /\ m = PlainBlocks(job)
            /\ e = 0 => L = 16 * m
            /\ e # 0 => L = 16 * m - 16 + e
    BY PlainFacts
  <2>2. resultLen = IF e = 0 THEN L ELSE L + 16 - e + 1
    BY <1>1, <2>1 DEF resultLen, PlainExtra
  <2> QED
    BY <2>1, <2>2 DEF CipherLen
<1>5. \A n \in Nat : Chunk(n) = PlainChunk(job, n)
  <2> SUFFICES ASSUME NEW n \in Nat PROVE Chunk(n) = PlainChunk(job, n)
    OBVIOUS
  <2>1. n * 16 = 16 * n /\ call # "decrypt" /\ in = job.data
    OBVIOUS
  <2>2. Chunk(n) = [k \in 1 .. 16 |-> IF 16 * n + k <= Len(in) THEN in[16 * n + k] ELSE 0]
    BY <2>1, Zenon DEF Chunk
  <2> QED BY <2>1, <2>2, Zenon DEF PlainChunk
<1> QED
  BY <1>1, <1>2, <1>3, <1>4, <1>5

\* So does a call that decrypts the result.
LEMMA DecryptShape ==
  ASSUME job \in Jobs, call = "decrypt", in \in Seq(Uint8), CodedText(job, trail, in),
         \A n \in 0 .. (PlainBlocks(job) - 1) : CodedBytes(job, trail, n) \in Chunk16
  PROVE  /\ extraBytes = PlainExtra(job) /\ cycles = Len(job.data) \div 16
         /\ Blocks = PlainBlocks(job) /\ resultLen = Len(job.data)
         /\ \A n \in 0 .. (PlainBlocks(job) - 1) : Chunk(n) = CodedBytes(job, trail, n)
<1>1. PICK L \in Nat, e \in 0 .. 15, m \in Nat :
          L = Len(job.data) /\ e = PlainExtra(job) /\ m = PlainBlocks(job)
  BY PlainFacts
<1>9. L = 16 * (L \div 16) + e /\ (e = 0 => L = 16 * m) /\ (e # 0 => L = 16 * m - 16 + e)
  BY <1>1, PlainFacts
<1>10. /\ Len(in) = 16 * m + (IF e = 0 THEN 0 ELSE 1)
       /\ e # 0 => in[Len(in)] = e
  BY <1>1 DEF CodedText, CipherLen
<1>2. /\ L = 16 * (L \div 16) + e
      /\ e = 0 => L = 16 * m /\ Len(in) = 16 * m
      /\ e # 0 => L = 16 * m - 16 + e /\ Len(in) = 16 * m + 1 /\ in[Len(in)] = e
  BY <1>9, <1>10
<1>3. /\ e = 0 => Len(in) % 16 = 0
      /\ e # 0 => Len(in) % 16 = 1
  BY <1>2
<1>4. extraBytes = e
  BY <1>1, <1>2, <1>3 DEF extraBytes
<1>11. resultLen = IF e = 0 THEN Len(in) ELSE Len(in) - 1 - 16 + e
  BY <1>3, <1>4 DEF resultLen
<1>5. resultLen = L
  BY <1>2, <1>11
<1>6. cycles = L \div 16
  BY <1>5 DEF cycles
<1>7. Blocks = m
  <2>1. PICK q \in Nat : q = L \div 16
    OBVIOUS
  <2>2. Blocks = q + (IF e = 0 THEN 0 ELSE 1)
    BY <1>4, <1>6, <2>1 DEF Blocks
  <2>3. e = 0 => q = m
    BY <1>2, <2>1
  <2>4. e # 0 => q + 1 = m
    BY <1>2, <2>1
  <2> QED
    BY <2>2, <2>3, <2>4
<1>8. ASSUME NEW n \in 0 .. (m - 1) PROVE Chunk(n) = CodedBytes(job, trail, n)
  <2>1. n = cycles => Len(in) - 1 - 16 = n * 16
    BY <1>2, <1>6
  <2>2. \A k \in 1 .. 16 : n * 16 + k <= Len(in) /\ n * 16 + k = 16 * n + k
    BY <1>1, <1>2
  <2>3. Chunk(n) = [k \in 1 .. 16 |-> in[16 * n + k]]
    BY <2>1, <2>2 DEF Chunk
  <2>4. \A k \in 1 .. 16 : in[16 * n + k] = CodedBytes(job, trail, n)[k]
    BY <1>1 DEF CodedText, Coded
  <2>5. CodedBytes(job, trail, n) \in Chunk16
    BY <1>1
  <2> QED
    BY <2>3, <2>4, <2>5 DEF Chunk16
<1> QED
  BY <1>1, <1>4, <1>5, <1>6, <1>7, <1>8

-----------------------------------------------------------------------------
(* The steps.                                                               *)

\* What the operators on the state are, with their parameters made explicit.
LEMMA BlockIsBlock == \A b \in Block : b # NoBlock
<1> SUFFICES ASSUME NEW b \in Block, b = NoBlock PROVE FALSE
  OBVIOUS
<1>1. DOMAIN b = Index /\ DOMAIN b = 1 .. 0
  BY DEF Block, NoBlock
<1> QED
  BY <1>1 DEF Index

LEMMA StateOperators ==
  /\ Nr = Last(job) /\ KeyFits = Runs(job)
  /\ KeysReady <=> Len(w) = WordCount(job)
  /\ \A k, b : applySubKey(k, b) = KeyedBy(w, k, b)
  /\ \A k, b : doRoundKeyEncode(k, b) = Encoded(w, Last(job), k, b)
  /\ \A k, b : doRoundKeyDecode(k, b) = Decoded(w, k, b)
<1>1. Nr = Last(job) /\ KeyFits = Runs(job)
  BY DEF Nr, Nk, Last, KeyFits, Runs
<1>2. KeysReady <=> Len(w) = WordCount(job)
  BY <1>1 DEF KeysReady, WordCount
<1>3. ASSUME NEW k, NEW b PROVE applySubKey(k, b) = KeyedBy(w, k, b)
  BY DEF applySubKey, KeyedBy
<1>4. ASSUME NEW k, NEW b PROVE doRoundKeyEncode(k, b) = Encoded(w, Last(job), k, b)
  BY <1>1, <1>3 DEF doRoundKeyEncode, Encoded, Turned
<1>5. ASSUME NEW k, NEW b PROVE doRoundKeyDecode(k, b) = Decoded(w, k, b)
  BY <1>3 DEF doRoundKeyDecode, Decoded
<1> QED
  BY <1>1, <1>2, <1>3, <1>4, <1>5

LEMMA TraceTypes ==
  ASSUME NEW j \in Jobs, NEW t, NEW n, Trace(j, t, n)
  PROVE  t \in Seq(Block) /\ Len(t) \in Nat /\ \A k \in 1 .. Len(t) : t[k] \in Block
  BY DEF Trace

\* A round is added to what a block went through.
LEMMA TraceGrows ==
  ASSUME NEW j \in Jobs, NEW t, NEW n, Trace(j, t, n), Len(t) <= Last(j),
         NEW b \in Block, b = Encoded(KeysOf(j), Last(j), Len(t), t[Len(t)])
  PROVE  Trace(j, Append(t, b), n)
<1> DEFINE u == Append(t, b)  m == Len(t)
<1>1. t \in Seq(Block) /\ m \in Nat /\ 1 <= m /\ m <= Last(j) /\ Last(j) \in Nat
  BY JobFacts DEF Trace
<1>2. u \in Seq(Block) /\ Len(u) = m + 1 /\ u[m + 1] = b /\ \A k \in 1 .. m : u[k] = t[k]
  BY <1>1
<1>3. u[1] = KeyedBy(KeysOf(j), 0, writeBlock(PlainChunk(j, n)))
  BY <1>1, <1>2 DEF Trace
<1>4. ASSUME NEW k \in 1 .. m PROVE u[k + 1] = Encoded(KeysOf(j), Last(j), k, u[k])
  <2>1. CASE k = m
    BY <1>1, <1>2, <2>1
  <2>2. CASE k # m
    <3>1. k \in 1 .. (m - 1) /\ k + 1 \in 1 .. m
      BY <1>1, <2>2
    <3>2. t[k + 1] = Encoded(KeysOf(j), Last(j), k, t[k])
      BY <3>1 DEF Trace
    <3> QED
      BY <1>2, <3>1, <3>2
  <2> QED
    BY <2>1, <2>2
<1> HIDE DEF u, m
<1>5. 1 <= Len(u) /\ Len(u) <= Last(j) + 1 /\ Len(u) - 1 = m
  BY <1>1, <1>2
<1>6. Trace(j, u, n)
  BY <1>2, <1>3, <1>4, <1>5 DEF Trace
<1> QED
  BY <1>6 DEF u

\* The invariant holds initially.
LEMMA InitInv == AesInit => IInv
<1> SUFFICES ASSUME AesInit PROVE IInv
  OBVIOUS
<1>1. /\ job \in Jobs /\ call = "encrypt" /\ in = job.data /\ w = KeyWords(job.key)
      /\ block = NoBlock /\ round = 0 /\ cycleN = 0 /\ out = <<>> /\ trail = <<>>
  BY DEF AesInit
<1>2. job.key \in Seq(Uint8) /\ job.data \in Seq(Uint8) /\ w \in Seq(Seq(Uint8))
  BY <1>1, JobFacts, KeyWordsFacts
<1>3. Types
  BY <1>1, <1>2 DEF Types
<1>4. KeyInv
  BY <1>1, ScheduleStart DEF KeyInv
<1>5. RefusedInv
  BY <1>1 DEF RefusedInv
<1>6. EncryptInv
  <2>1. PlainBlocks(job) \in Nat /\ (PlainExtra(job) # 0 => PlainBlocks(job) # 0)
    <3>1. PICK L \in Nat, e \in 0 .. 15, m \in Nat :
              e = PlainExtra(job) /\ m = PlainBlocks(job) /\ (e # 0 => L = 16 * m - 16 + e)
      BY <1>1, PlainFacts
    <3> QED
      BY <3>1
  <2>2. Traces(job, trail, 0) /\ Finished(job, trail, 0) /\ Coded(job, trail, out, 0)
    BY DEF Traces, Finished, Coded
  <2>3. Len(trail) = 0 /\ Len(out) = 0
    BY <1>1
  <2> QED
    BY <1>1, <2>1, <2>2, <2>3 DEF EncryptInv
<1> QED
  BY <1>1, <1>3, <1>4, <1>5, <1>6 DEF IInv, EncryptedInv, DecryptInv, DecryptedInv

LEMMA RefuseKeyInv == ASSUME IInv, RefuseKey PROVE IInv'
<1>1. /\ ~Runs(job) /\ out' = <<>> /\ job' = job /\ in' = in /\ w' = w /\ block' = block
      /\ round' = round /\ cycleN' = cycleN /\ trail' = trail
      /\ \/ call = "encrypt" /\ call' = "encrypted"
         \/ call = "decrypt" /\ call' = "decrypted"
  BY StateOperators DEF RefuseKey
<1>2. Types'
  BY <1>1 DEF IInv, Types
<1>3. ~Runs(job')
  BY <1>1
<1>4. RefusedInv'
  BY <1>1 DEF IInv, RefusedInv
<1> QED
  BY <1>2, <1>3, <1>4 DEF IInv, KeyInv, EncryptInv, EncryptedInv, DecryptInv, DecryptedInv

LEMMA GenerateSubKeyWordInv == ASSUME IInv, GenerateSubKeyWord PROVE IInv'
<1>1. /\ Runs(job) /\ Len(w) # WordCount(job) /\ job' = job /\ in' = in /\ block' = block
      /\ round' = round /\ cycleN' = cycleN /\ trail' = trail /\ call' = call /\ out' = out
      /\ w' = Append(w, NextWord(job, w, Len(w)))
  BY StateOperators DEF GenerateSubKeyWord, NextWord, Turn, Scheduled, Nk
<1>2. job \in Jobs /\ Schedule(job, w) /\ Len(w) < WordCount(job)
  <2>1. job \in Jobs /\ Schedule(job, w)
    BY <1>1 DEF IInv, Types, KeyInv
  <2> QED
    BY <1>1, <2>1, JobFacts DEF Schedule
<1>3. Schedule(job, w')
  BY <1>1, <1>2, ScheduleStep
<1>4. w' \in Seq(Seq(Uint8))
  BY <1>3, WordIsSeq, SeqMonotonic DEF Schedule
<1>5. block = NoBlock
  BY <1>1, <1>2 DEF IInv, KeyInv
<1>6. Types'
  BY <1>1, <1>4 DEF IInv, Types
<1>7. KeyInv'
  BY <1>1, <1>3, <1>5 DEF KeyInv, NoBlock
<1>8. RefusedInv' /\ EncryptInv' /\ EncryptedInv' /\ DecryptInv' /\ DecryptedInv'
  BY <1>1 DEF IInv, RefusedInv, EncryptInv, EncryptedInv, DecryptInv, DecryptedInv
<1> QED
  BY <1>6, <1>7, <1>8 DEF IInv

\* What is known once the key schedule is complete.
LEMMA LastKeyReady ==
  ASSUME job \in Jobs, Schedule(job, w), Len(w) = WordCount(job)
  PROVE  w = KeysOf(job) /\ \A k \in 0 .. Last(job) : KeyAt(KeysOf(job), k)
  BY KeysAreKnown DEF Complete

LEMMA DoneTypes ==
  ASSUME NEW j \in Jobs, NEW T, AllDone(j, T), NEW n \in 0 .. (PlainBlocks(j) - 1)
  PROVE  /\ Trace(j, T[n + 1], n) /\ Len(T[n + 1]) = Last(j) + 1
         /\ \A k \in 0 .. Last(j) : T[n + 1][k + 1] \in Block
         /\ CodedBytes(j, T, n) \in Chunk16
<1>1. Trace(j, T[n + 1], n) /\ Len(T[n + 1]) = Last(j) + 1
  BY DEF AllDone, Traces, Finished
<1>2. \A k \in 0 .. Last(j) : k + 1 \in 1 .. (Last(j) + 1)
  BY JobFacts
<1>3. \A k \in 0 .. Last(j) : T[n + 1][k + 1] \in Block
  BY <1>1, <1>2, TraceTypes
<1>4. Last(j) \in 0 .. Last(j)
  BY JobFacts
<1> QED
  BY <1>1, <1>3, <1>4, BytesOfBlock DEF CodedBytes

\* The first sub-key is applied to a block of the data.
LEMMA LoadToEncrypt ==
  ASSUME IInv, LoadBlock, call = "encrypt"
  PROVE  IInv'
<1> DEFINE n == cycleN  b == KeyedBy(KeysOf(job), 0, writeBlock(PlainChunk(job, n)))
<1>1. /\ Runs(job) /\ Len(w) = WordCount(job) /\ block = NoBlock /\ n < Blocks
      /\ block' = applySubKey(0, writeBlock(Chunk(n))) /\ round' = 1
      /\ trail' = Append(trail, <<block'>>)
      /\ job' = job /\ call' = call /\ in' = in /\ w' = w /\ cycleN' = cycleN /\ out' = out
  BY StateOperators DEF LoadBlock
<1>2. job \in Jobs /\ Schedule(job, w) /\ n \in Nat /\ trail \in Seq(Seq(Block)) /\ in = job.data
  BY <1>1 DEF IInv, Types, KeyInv, EncryptInv
<1>3. n < PlainBlocks(job) /\ Chunk(n) = PlainChunk(job, n)
  BY <1>1, <1>2, EncryptShape
<1>4. w = KeysOf(job) /\ KeyAt(KeysOf(job), 0)
  BY <1>1, <1>2, LastKeyReady, JobFacts
<1>5. writeBlock(PlainChunk(job, n)) \in Block
  BY <1>2, PlainFacts, BlockOfBytes
<1>6. block' = b /\ b \in Block
  BY <1>1, <1>3, <1>4, <1>5, StateOperators, KeyedUndone
<1>7. /\ Len(trail) = n /\ Traces(job, trail, n) /\ Finished(job, trail, n)
      /\ Len(out) = 16 * n /\ Coded(job, trail, out, n)
  BY <1>1, <1>2, <1>3 DEF IInv, EncryptInv
<1>17. b = KeyedBy(KeysOf(job), 0, writeBlock(PlainChunk(job, n)))
  OBVIOUS
<1> HIDE DEF b
<1>8. Trace(job, <<b>>, n) /\ <<b>> \in Seq(Block) /\ Len(<<b>>) = 1 /\ <<b>>[1] = b
  <2>1. <<b>> \in Seq(Block) /\ Len(<<b>>) = 1 /\ <<b>>[1] = b
    BY <1>6
  <2>2. 1 <= Last(job) + 1 /\ 1 .. (Len(<<b>>) - 1) = {}
    BY <1>2, <2>1, JobFacts
  <2>3. Trace(job, <<b>>, n)
    BY <1>17, <2>1, <2>2 DEF Trace
  <2> QED
    BY <2>1, <2>3
<1>9. /\ trail' = Append(trail, <<b>>) /\ trail' \in Seq(Seq(Block)) /\ Len(trail') = n + 1
      /\ trail'[n + 1] = <<b>> /\ \A i \in 1 .. n : trail'[i] = trail[i]
  BY <1>1, <1>2, <1>6, <1>7, <1>8
<1>10. Traces(job, trail', n + 1) /\ Finished(job, trail', n)
  <2>1. \A m \in 0 .. (n - 1) : m + 1 \in 1 .. n
    BY <1>2
  <2>2. ASSUME NEW m \in 0 .. n PROVE Trace(job, trail'[m + 1], m)
    <3>1. CASE m = n
      BY <1>8, <1>9, <3>1
    <3>2. CASE m # n
      <4>1. m \in 0 .. (n - 1)
        BY <1>2, <3>2
      <4> QED
        BY <1>7, <1>9, <2>1, <4>1 DEF Traces
    <3> QED
      BY <3>1, <3>2
  <2>3. 0 .. ((n + 1) - 1) = 0 .. n
    BY <1>2
  <2>6. ASSUME NEW m \in 0 .. ((n + 1) - 1) PROVE Trace(job, trail'[m + 1], m)
    BY <2>2, <2>3
  <2>4. Traces(job, trail', n + 1)
    BY <2>6 DEF Traces
  <2>5. Finished(job, trail', n)
    BY <1>7, <1>9, <2>1 DEF Finished
  <2> QED
    BY <2>4, <2>5
<1>11. Coded(job, trail', out, n)
  <2>1. \A m \in 0 .. (n - 1) : m + 1 \in 1 .. n
    BY <1>2
  <2> QED
    BY <1>7, <1>9, <2>1 DEF Coded, CodedBytes
<1>12. block' # NoBlock
  BY <1>6, BlockIsBlock
<1>13. Types'
  BY <1>1, <1>6, <1>9, <1>12 DEF IInv, Types, NoBlock
<1>14. KeyInv' /\ RefusedInv'
  BY <1>1 DEF IInv, KeyInv, RefusedInv
<1>15. EncryptInv'
  <2>1. n # PlainBlocks(job) /\ n <= PlainBlocks(job) /\ PlainBlocks(job) \in Nat
    <3>1. PlainBlocks(job) \in Nat /\ n < PlainBlocks(job) /\ n \in Nat
      BY <1>2, <1>3, PlainFacts, Zenon
    <3> QED
      BY <3>1
  <2>2. round' = Len(trail'[n + 1]) /\ block' = trail'[n + 1][round']
    BY <1>1, <1>6, <1>8, <1>9
  <2>3. Len(trail') = n + 1 /\ Traces(job, trail', Len(trail'))
    BY <1>9, <1>10
  <2>4. Len(out) = 16 * n + 0
    BY <1>2, <1>7
  <2>5. /\ in' = job'.data /\ cycleN' <= PlainBlocks(job')
        /\ Len(trail') = cycleN' + (IF block' = NoBlock THEN 0 ELSE 1)
    BY <1>1, <1>2, <1>12, <2>1, <2>3
  <2>6. /\ Traces(job', trail', Len(trail')) /\ Finished(job', trail', cycleN')
        /\ Coded(job', trail', out', cycleN')
    BY <1>1, <1>10, <1>11, <2>3
  <2>7. cycleN' < PlainBlocks(job') /\ round' = Len(trail'[cycleN' + 1])
        /\ block' = trail'[cycleN' + 1][round']
    BY <1>1, <1>3, <2>2
  <2>8. /\ Len(out') = 16 * cycleN' + (IF cycleN' = PlainBlocks(job') /\ PlainExtra(job') # 0 THEN 1 ELSE 0)
        /\ cycleN' # PlainBlocks(job')
    BY <1>1, <2>1, <2>4
  <2> QED
    BY <2>5, <2>6, <2>7, <2>8 DEF EncryptInv, NoBlock
<1>16. EncryptedInv' /\ DecryptInv' /\ DecryptedInv'
  BY <1>1 DEF EncryptedInv, DecryptInv, DecryptedInv
<1> QED
  BY <1>13, <1>14, <1>15, <1>16 DEF IInv

\* The last sub-key is applied to an encrypted block.
LEMMA LoadToDecrypt ==
  ASSUME IInv, LoadBlock, call = "decrypt"
  PROVE  IInv'
<1> DEFINE n == cycleN  K == KeysOf(job)
<1>1. /\ Runs(job) /\ Len(w) = WordCount(job) /\ block = NoBlock /\ n < Blocks
      /\ block' = applySubKey(Last(job), writeBlock(Chunk(n))) /\ round' = Last(job) - 1
      /\ trail' = trail
      /\ job' = job /\ call' = call /\ in' = in /\ w' = w /\ cycleN' = cycleN /\ out' = out
  BY StateOperators DEF LoadBlock
<1>2. /\ job \in Jobs /\ Schedule(job, w) /\ n \in Nat /\ in \in Seq(Uint8)
      /\ AllDone(job, trail) /\ CodedText(job, trail, in)
  BY <1>1 DEF IInv, Types, KeyInv, DecryptInv
<1>3. n < PlainBlocks(job) /\ n \in 0 .. (PlainBlocks(job) - 1) /\ Chunk(n) = CodedBytes(job, trail, n)
  <2>1. \A m \in 0 .. (PlainBlocks(job) - 1) : CodedBytes(job, trail, m) \in Chunk16
    BY <1>2, DoneTypes
  <2>2. Blocks = PlainBlocks(job) /\ PlainBlocks(job) \in Nat
    BY <1>1, <1>2, <2>1, DecryptShape, PlainFacts
  <2>3. n < PlainBlocks(job) /\ n \in 0 .. (PlainBlocks(job) - 1)
    BY <1>1, <1>2, <2>2
  <2>4. \A m \in 0 .. (PlainBlocks(job) - 1) : Chunk(m) = CodedBytes(job, trail, m)
    BY <1>2, <2>1, DecryptShape
  <2> QED
    BY <2>3, <2>4
<1>4. w = K /\ \A k \in 0 .. Last(job) : KeyAt(K, k)
  BY <1>1, <1>2, LastKeyReady
<1> DEFINE t == trail[n + 1]  b == t[Last(job)]
<1>5. Last(job) \in 1 .. (Len(t) - 1) /\ Last(job) \in 0 .. Last(job) /\ Last(job) - 1 \in 0 .. Last(job)
      /\ Last(job) \in Nat /\ 10 <= Last(job)
  BY <1>2, <1>3, DoneTypes, JobFacts
<1>6. b \in Block /\ t[Last(job) + 1] \in Block /\ t[Last(job) + 1] = Encoded(K, Last(job), Last(job), b)
  <2>1. t[Last(job) - 1 + 1] \in Block /\ t[Last(job) + 1] \in Block /\ Trace(job, t, n)
    BY <1>2, <1>3, <1>5, DoneTypes
  <2> QED
    BY <1>5, <2>1 DEF Trace
<1>7. block' = Turned(b) /\ Turned(b) \in Block
  <2>1. writeBlock(Chunk(n)) = t[Last(job) + 1]
    BY <1>3, <1>6, BytesOfBlock DEF CodedBytes
  <2>2. block' = KeyedBy(K, Last(job), Encoded(K, Last(job), Last(job), b))
    BY <1>1, <1>4, <1>6, <2>1, StateOperators
  <2> QED
    BY <1>4, <1>5, <1>6, <2>2, RoundUndone, TurnedBack
<1>8. block' # NoBlock
  BY <1>7, BlockIsBlock
<1>9. Types'
  BY <1>1, <1>5, <1>7, <1>8 DEF IInv, Types, NoBlock
<1>10. KeyInv' /\ RefusedInv'
  BY <1>1 DEF IInv, KeyInv, RefusedInv
<1>11. DecryptInv'
  <2>1. round' >= 0 /\ round' # -1 /\ round' + 1 = Last(job) /\ -1 <= round' /\ round' < Last(job)
    BY <1>1, <1>5
  <2>2. block' = Turned(trail[n + 1][round' + 1])
    BY <1>7, <2>1
  <2> QED
    BY <1>1, <1>2, <1>3, <2>1, <2>2 DEF IInv, DecryptInv
<1>12. EncryptInv' /\ EncryptedInv' /\ DecryptedInv'
  BY <1>1 DEF EncryptInv, EncryptedInv, DecryptedInv
<1> QED
  BY <1>9, <1>10, <1>11, <1>12 DEF IInv

LEMMA LoadBlockInv == ASSUME IInv, LoadBlock PROVE IInv'
  BY LoadToEncrypt, LoadToDecrypt DEF LoadBlock

\* A round of encryption adds a block to the trail.
LEMMA EncodeRoundInv == ASSUME IInv, EncodeRound PROVE IInv'
<1> DEFINE n == cycleN  K == KeysOf(job)  t == trail[n + 1]  b == block'
<1>1. /\ call = "encrypt" /\ block # NoBlock /\ round <= Last(job)
      /\ b = Encoded(w, Last(job), round, block)
      /\ trail' = [trail EXCEPT ![n + 1] = Append(@, b)] /\ round' = round + 1
      /\ job' = job /\ call' = call /\ in' = in /\ w' = w /\ cycleN' = cycleN /\ out' = out
  BY StateOperators DEF EncodeRound
<1>2. job \in Jobs /\ n \in Nat /\ trail \in Seq(Seq(Block)) /\ Runs(job) /\ cycleN = 0 + n
  BY <1>1 DEF IInv, Types, RefusedInv
<1>3. Schedule(job, w) /\ Len(w) = WordCount(job)
  BY <1>1, <1>2 DEF IInv, KeyInv
<1>4. w = K /\ \A k \in 0 .. Last(job) : KeyAt(K, k)
  BY <1>2, <1>3, LastKeyReady
<1>5. /\ Len(trail) = n + 1 /\ Traces(job, trail, n + 1) /\ Finished(job, trail, n)
      /\ n < PlainBlocks(job) /\ round = Len(t) /\ block = t[round]
  BY <1>1, <1>2 DEF IInv, EncryptInv
<1>6. Trace(job, t, n) /\ t \in Seq(Block) /\ 1 <= round /\ round <= Last(job) + 1
      /\ Len(t) \in Nat /\ round \in Nat
  <2>1. n \in 0 .. ((n + 1) - 1)
    BY <1>2
  <2>2. Trace(job, t, n)
    BY <1>5, <2>1 DEF Traces
  <2> QED
    BY <1>5, <2>2 DEF Trace
<1>7. block \in Block /\ b \in Block /\ b = Encoded(K, Last(job), Len(t), t[Len(t)])
  <2>1. round \in 1 .. Len(t)
    BY <1>5, <1>6
  <2>2. block \in Block
    BY <1>5, <1>6, <2>1
  <2>3. round \in 0 .. Last(job)
    BY <1>1, <1>2, <1>6, JobFacts
  <2>4. KeyAt(K, round)
    BY <1>4, <2>3
  <2> QED
    BY <1>1, <1>4, <1>5, <2>2, <2>4, RoundUndone
<1> HIDE DEF b, K
<1>8. Trace(job, Append(t, b), n)
  BY <1>1, <1>2, <1>5, <1>6, <1>7, TraceGrows DEF K
<1>9. /\ Append(t, b) \in Seq(Block) /\ Len(Append(t, b)) = round + 1
      /\ Append(t, b)[round + 1] = b
  BY <1>5, <1>6, <1>7
<1>10. /\ trail' \in Seq(Seq(Block)) /\ Len(trail') = n + 1 /\ trail'[n + 1] = Append(t, b)
       /\ \A i \in 1 .. n : trail'[i] = trail[i]
  <2>1. n + 1 \in 1 .. Len(trail)
    BY <1>2, <1>5
  <2>2. \A i \in 1 .. n : i \in DOMAIN trail /\ i # n + 1
    BY <1>2, <1>5
  <2> QED
    BY <1>1, <1>2, <1>5, <1>9, <2>1, <2>2
<1>11. \A m \in 0 .. (n - 1) : m + 1 \in 1 .. n
  BY <1>2
<1>12. Traces(job, trail', n + 1)
  <2>1. ASSUME NEW m \in 0 .. n PROVE Trace(job, trail'[m + 1], m)
    <3>1. CASE m = n
      BY <1>8, <1>10, <3>1
    <3>2. CASE m # n
      <4>1. m \in 0 .. (n - 1) /\ m \in 0 .. ((n + 1) - 1)
        BY <1>2, <3>2
      <4> QED
        BY <1>5, <1>10, <1>11, <4>1 DEF Traces
    <3> QED
      BY <3>1, <3>2
  <2>2. 0 .. ((n + 1) - 1) = 0 .. n
    BY <1>2
  <2>3. ASSUME NEW m \in 0 .. ((n + 1) - 1) PROVE Trace(job, trail'[m + 1], m)
    BY <2>1, <2>2
  <2> QED
    BY <2>3 DEF Traces
<1>13. Finished(job, trail', n)
  BY <1>5, <1>10, <1>11 DEF Finished
<1>14. Coded(job, trail', out, n)
  <2>1. Coded(job, trail, out, n)
    BY <1>1, <1>2 DEF IInv, EncryptInv
  <2> QED
    BY <2>1, <1>10, <1>11 DEF Coded, CodedBytes
<1>15. block' # NoBlock
  BY <1>7, BlockIsBlock DEF b
<1>16. Types'
  BY <1>1, <1>6, <1>7, <1>10, <1>15 DEF IInv, Types, NoBlock, b
<1>17. KeyInv' /\ RefusedInv'
  BY <1>1, <1>2, <1>3 DEF KeyInv, RefusedInv
<1>18. EncryptInv'
  <2>1. round' = Len(trail'[n + 1]) /\ block' = trail'[n + 1][round']
    BY <1>1, <1>9, <1>10 DEF b
  <2>2. /\ in' = job'.data /\ cycleN' <= PlainBlocks(job')
        /\ Len(out') = 16 * cycleN'
              + (IF cycleN' = PlainBlocks(job') /\ PlainExtra(job') # 0 THEN 1 ELSE 0)
        /\ cycleN' = PlainBlocks(job') /\ PlainExtra(job') # 0 => out'[Len(out')] = PlainExtra(job')
    BY <1>1, <1>2 DEF IInv, EncryptInv
  <2>3. /\ Len(trail') = cycleN' + (IF block' = NoBlock THEN 0 ELSE 1)
        /\ Traces(job', trail', Len(trail')) /\ Finished(job', trail', cycleN')
        /\ Coded(job', trail', out', cycleN')
    BY <1>1, <1>10, <1>12, <1>13, <1>14, <1>15
  <2>4. cycleN' < PlainBlocks(job') /\ round' = Len(trail'[cycleN' + 1])
        /\ block' = trail'[cycleN' + 1][round']
    BY <1>1, <1>5, <2>1
  <2> QED
    BY <2>2, <2>3, <2>4 DEF EncryptInv, NoBlock
<1>19. EncryptedInv' /\ DecryptInv' /\ DecryptedInv'
  BY <1>1 DEF EncryptedInv, DecryptInv, DecryptedInv
<1> QED
  BY <1>16, <1>17, <1>18, <1>19 DEF IInv

\* A round of decryption goes back by one block of the trail.
LEMMA DecodeRoundInv == ASSUME IInv, DecodeRound PROVE IInv'
<1> DEFINE n == cycleN  K == KeysOf(job)  t == trail[n + 1]  x == writeBlock(PlainChunk(job, n))
<1>1. /\ call = "decrypt" /\ block # NoBlock /\ round >= 0
      /\ block' = Decoded(w, round, block) /\ round' = round - 1 /\ trail' = trail
      /\ job' = job /\ call' = call /\ in' = in /\ w' = w /\ cycleN' = cycleN /\ out' = out
  BY StateOperators DEF DecodeRound
<1>2. job \in Jobs /\ n \in Nat /\ Runs(job)
  BY <1>1 DEF IInv, Types, RefusedInv
<1>3. Schedule(job, w) /\ Len(w) = WordCount(job)
  BY <1>1, <1>2 DEF IInv, KeyInv
<1>4. w = K /\ \A k \in 0 .. Last(job) : KeyAt(K, k)
  BY <1>2, <1>3, LastKeyReady
<1>5. /\ AllDone(job, trail) /\ n < PlainBlocks(job) /\ round < Last(job)
      /\ block = Turned(t[round + 1])
  BY <1>1, <1>2 DEF IInv, DecryptInv
<1>6. /\ n \in 0 .. (PlainBlocks(job) - 1) /\ round \in 0 .. Last(job) /\ round # Last(job)
      /\ round \in Nat
  <2>1. round \in Int
    BY DEF IInv, Types
  <2>2. PlainBlocks(job) \in Nat /\ Last(job) \in Nat
    BY <1>2, PlainFacts, JobFacts
  <2>3. n < PlainBlocks(job) /\ round >= 0 /\ round < Last(job)
    BY <1>1, <1>5
  <2> QED
    BY <1>2, <2>1, <2>2, <2>3
<1>7. Trace(job, t, n) /\ Len(t) = Last(job) + 1 /\ \A k \in 0 .. Last(job) : t[k + 1] \in Block
  BY <1>2, <1>5, <1>6, DoneTypes
<1>8. x \in Block
  BY <1>2, PlainFacts, BlockOfBytes
<1>9. CASE round = 0
  <2>1. t[0 + 1] = KeyedBy(K, 0, x)
    BY <1>7 DEF Trace
  <2>2. block' = Decoded(K, 0, Turned(KeyedBy(K, 0, x)))
    BY <1>1, <1>4, <1>5, <1>9, <2>1
  <2>3. KeyAt(K, 0)
    BY <1>4, <1>6, <1>9
  <2>4. block' = x /\ block' \in Block /\ block' # NoBlock
    BY <1>8, <2>2, <2>3, RoundUndone, BlockIsBlock
  <2>5. round' = -1
    BY <1>1, <1>9
  <2>6. Types'
    BY <1>1, <2>4, <2>5 DEF IInv, Types, NoBlock
  <2>7. KeyInv' /\ RefusedInv'
    BY <1>1, <1>2, <1>3 DEF KeyInv, RefusedInv
  <2>8. DecryptInv'
    <3>1. -1 <= round' /\ round' < Last(job) /\ ~(round' >= 0)
      BY <1>2, <2>5, JobFacts
    <3> QED
      BY <1>1, <1>2, <1>5, <2>4, <3>1 DEF IInv, DecryptInv
  <2>9. EncryptInv' /\ EncryptedInv' /\ DecryptedInv'
    BY <1>1 DEF EncryptInv, EncryptedInv, DecryptedInv
  <2> QED
    BY <2>6, <2>7, <2>8, <2>9 DEF IInv
<1>10. CASE round # 0
  <2>1. /\ round - 1 \in 0 .. Last(job) /\ (round - 1) + 1 = round
        /\ round \in 1 .. (Len(t) - 1) /\ round' \in Int /\ round' >= 0 /\ round' + 1 = round
        /\ -1 <= round' /\ round' < Last(job) /\ round' # -1
    BY <1>1, <1>2, <1>6, <1>7, <1>10, JobFacts
  <2>2. t[round] \in Block /\ t[round + 1] = Encoded(K, Last(job), round, t[round])
    BY <1>7, <2>1 DEF Trace
  <2>3. block' = Decoded(K, round, Turned(Encoded(K, Last(job), round, t[round])))
    BY <1>1, <1>4, <1>5, <2>2
  <2>4. KeyAt(K, round)
    BY <1>4, <1>6
  <2>5. block' = Turned(t[round])
    BY <1>6, <1>10, <2>2, <2>3, <2>4, RoundUndone
  <2>6. block' \in Block /\ block' # NoBlock
    BY <2>2, <2>5, TurnedBack, BlockIsBlock
  <2>7. Types'
    BY <1>1, <2>1, <2>6 DEF IInv, Types, NoBlock
  <2>8. KeyInv' /\ RefusedInv'
    BY <1>1, <1>2, <1>3 DEF KeyInv, RefusedInv
  <2>9. DecryptInv'
    BY <1>1, <1>2, <1>5, <2>1, <2>5 DEF IInv, DecryptInv
  <2>10. EncryptInv' /\ EncryptedInv' /\ DecryptedInv'
    BY <1>1 DEF EncryptInv, EncryptedInv, DecryptedInv
  <2> QED
    BY <2>7, <2>8, <2>9, <2>10 DEF IInv
<1> QED
  BY <1>9, <1>10

\* The last block is the one that may be incomplete.
LEMMA LastBlock ==
  ASSUME NEW j \in Jobs, NEW n \in Nat, n < PlainBlocks(j)
  PROVE  /\ 16 * n <= Len(j.data)
         /\ n < Len(j.data) \div 16 =>
               /\ 16 * n + 16 <= Len(j.data)
               /\ n + 1 = PlainBlocks(j) => PlainExtra(j) = 0
         /\ ~(n < Len(j.data) \div 16) =>
               /\ n + 1 = PlainBlocks(j) /\ PlainExtra(j) # 0
               /\ Len(j.data) = 16 * n + PlainExtra(j)
<1>1. PICK L \in Nat, e \in 0 .. 15, m \in Nat :
          /\ L = Len(j.data) /\ e = PlainExtra(j) /\ m = PlainBlocks(j)
          /\ L = 16 * (L \div 16) + e
          /\ e = 0 => L = 16 * m
          /\ e # 0 => L = 16 * m - 16 + e
  BY PlainFacts
<1>2. PICK q \in Nat : q = L \div 16
  OBVIOUS
<1>3. L = 16 * q + e /\ (e = 0 => q = m) /\ (e # 0 => q + 1 = m) /\ n < m
  <2>1. L = 16 * q + e
    BY <1>1, <1>2
  <2>2. (e = 0 => L = 16 * m) /\ (e # 0 => L = (16 * m - 16) + e)
    BY <1>1
  <2>3. e # 0 => q + 1 = m
    BY <2>1, <2>2
  <2>4. e = 0 => q = m
    BY <2>1, <2>2
  <2> QED
    BY <1>1, <2>1, <2>3, <2>4
<1>4. 16 * n <= L
  BY <1>3
<1>5. ASSUME n < q PROVE 16 * n + 16 <= L /\ (n + 1 = m => e = 0)
  BY <1>3, <1>5
<1>6. ASSUME ~(n < q) PROVE n + 1 = m /\ e # 0 /\ L = 16 * n + e
  <2>1. e # 0
    BY <1>3, <1>6
  <2>2. n = q /\ n + 1 = m
    BY <1>3, <1>6, <2>1
  <2> QED
    BY <1>3, <2>1, <2>2
<1> QED
  BY <1>1, <1>2, <1>4, <1>5, <1>6

\* Bytes put together.
LEMMA AppendIs ==
  ASSUME NEW x \in Seq(Uint8), NEW a \in Uint8
  PROVE  /\ Append(x, a) \in Seq(Uint8) /\ Len(x) \in Nat /\ Len(Append(x, a)) = Len(x) + 1
         /\ Append(x, a)[Len(x) + 1] = a
         /\ \A k \in 1 .. Len(x) : Append(x, a)[k] = x[k]
  OBVIOUS

LEMMA ConcatAt ==
  ASSUME NEW o \in Seq(Uint8), NEW s \in Seq(Uint8)
  PROVE  /\ o \o s \in Seq(Uint8) /\ Len(o \o s) = Len(o) + Len(s)
         /\ Len(o) \in Nat /\ Len(s) \in Nat
         /\ \A i \in 1 .. Len(o) : (o \o s)[i] = o[i]
         /\ \A i \in 1 .. Len(s) : (o \o s)[Len(o) + i] = s[i]
  OBVIOUS

LEMMA CodedGrows ==
  ASSUME NEW j \in Jobs, NEW T, NEW n \in Nat, NEW o \in Seq(Uint8), Len(o) = 16 * n,
         Coded(j, T, o, n), NEW s \in Seq(Uint8), 16 <= Len(s),
         \A k \in 1 .. 16 : s[k] = CodedBytes(j, T, n)[k]
  PROVE  Coded(j, T, o \o s, n + 1)
<1>1. PICK l \in Nat : l = Len(s) /\ 16 <= l
  BY ConcatAt
<1>2. \A i \in 1 .. (16 * n) : (o \o s)[i] = o[i]
  BY ConcatAt
<1>3. \A k \in 1 .. l : (o \o s)[16 * n + k] = s[k]
  <2>1. \A k \in 1 .. Len(s) : (o \o s)[Len(o) + k] = s[k]
    BY ConcatAt
  <2> QED
    BY <1>1, <2>1
<1>5. \A k \in 1 .. 16 : k \in 1 .. l
  BY <1>1
<1>4. ASSUME NEW m \in 0 .. ((n + 1) - 1), NEW k \in 1 .. 16
      PROVE  (o \o s)[16 * m + k] = CodedBytes(j, T, m)[k]
  <2>1. CASE m = n
    BY <1>3, <1>5, <2>1
  <2>2. CASE m # n
    <3>1. m \in 0 .. (n - 1)
      BY <2>2
    <3>2. 16 * m + k \in 1 .. (16 * n)
      BY <3>1
    <3>3. o[16 * m + k] = CodedBytes(j, T, m)[k]
      BY <3>1 DEF Coded
    <3> QED
      BY <1>2, <3>2, <3>3
  <2> QED
    BY <2>1, <2>2
<1> QED
  BY <1>4 DEF Coded

\* An encrypted block is stored, with the mark if it was filled up.
LEMMA StoreEncrypted ==
  ASSUME IInv, StoreBlock, call = "encrypt"
  PROVE  IInv'
<1> DEFINE n == cycleN  t == trail[n + 1]  bytes == readBlock(block)  s == Stored(bytes)
           e == PlainExtra(job)  m == PlainBlocks(job)
<1>1. /\ block # NoBlock /\ round = Last(job) + 1 /\ out' = out \o s
      /\ block' = NoBlock /\ round' = 0 /\ cycleN' = n + 1 /\ trail' = trail
      /\ job' = job /\ call' = call /\ in' = in /\ w' = w
  BY StateOperators DEF StoreBlock
<1>2. job \in Jobs /\ n \in Nat /\ trail \in Seq(Seq(Block)) /\ Runs(job) /\ out \in Seq(Uint8)
  BY <1>1 DEF IInv, Types, RefusedInv
<1>3. /\ Len(trail) = n + 1 /\ Traces(job, trail, n + 1) /\ Finished(job, trail, n)
      /\ n < m /\ round = Len(t) /\ block = t[round] /\ in = job.data
      /\ Len(out) = 16 * n + (IF n = m /\ e # 0 THEN 1 ELSE 0) /\ Coded(job, trail, out, n)
  BY <1>1, <1>2 DEF IInv, EncryptInv
<1>4. m \in Nat /\ e \in 0 .. 15 /\ e \in Uint8 /\ Last(job) \in Nat /\ n # m
  <2>1. m \in Nat /\ e \in 0 .. 15 /\ Last(job) \in Nat
    BY <1>2, PlainFacts, JobFacts
  <2>2. \A i \in 0 .. 15 : i \in Uint8
    BY DEF Uint8
  <2>3. n # m
    BY <1>2, <1>3, <2>1
  <2> QED
    BY <2>1, <2>2, <2>3
<1>5. Len(out) = 16 * n
  BY <1>2, <1>3, <1>4
<1>6. bytes = CodedBytes(job, trail, n) /\ bytes \in Chunk16 /\ bytes \in Seq(Uint8) /\ Len(bytes) = 16
  <2>1. n \in 0 .. ((n + 1) - 1)
    BY <1>2
  <2>2. t \in Seq(Block) /\ Len(t) \in Nat /\ Len(t) = Last(job) + 1
    BY <1>1, <1>3, <2>1 DEF Traces, Trace
  <2>3. block \in Block
    BY <1>1, <1>3, <1>4, <2>2
  <2>4. bytes \in Chunk16
    BY <2>3, BytesOfBlock
  <2>5. block = trail[n + 1][Last(job) + 1]
    BY <1>1, <1>3
  <2> QED
    BY <2>4, <2>5, ChunkIsSeq DEF CodedBytes
<1>7. s = IF n < Len(job.data) \div 16 THEN bytes ELSE Append(bytes, e)
  BY <1>2, <1>3, EncryptShape DEF Stored
<1> HIDE DEF bytes, s, e, m
<1>8. /\ s \in Seq(Uint8) /\ 16 <= Len(s) /\ \A k \in 1 .. 16 : s[k] = CodedBytes(job, trail, n)[k]
      /\ Len(s) = 16 + (IF n + 1 = m /\ e # 0 THEN 1 ELSE 0)
      /\ n + 1 = m /\ e # 0 => s[17] = e
  <2>1. CASE n < Len(job.data) \div 16
    <3>1. s = bytes /\ (n + 1 = m => e = 0)
      BY <1>2, <1>3, <1>7, <2>1, LastBlock DEF e, m
    <3>2. Len(s) = 16 /\ ~(n + 1 = m /\ e # 0)
      BY <1>6, <3>1
    <3>3. 16 <= Len(s) /\ Len(s) = 16 + (IF n + 1 = m /\ e # 0 THEN 1 ELSE 0)
      BY <3>2
    <3>4. s \in Seq(Uint8) /\ \A k \in 1 .. 16 : s[k] = CodedBytes(job, trail, n)[k]
      BY <1>6, <3>1, Zenon
    <3> QED
      BY <3>2, <3>3, <3>4, Zenon
  <2>2. CASE ~(n < Len(job.data) \div 16)
    <3>1. s = Append(bytes, e) /\ n + 1 = m /\ e # 0
      BY <1>2, <1>3, <1>7, <2>2, LastBlock DEF e, m
    <3>5. /\ s \in Seq(Uint8) /\ Len(s) = 16 + 1 /\ s[16 + 1] = e
          /\ \A k \in 1 .. 16 : s[k] = bytes[k]
      <4>1. bytes \in Seq(Uint8) /\ Len(bytes) = 16 /\ e \in Uint8 /\ s = Append(bytes, e)
        BY <1>4, <1>6, <3>1
      <4>2. /\ Append(bytes, e) \in Seq(Uint8) /\ Len(Append(bytes, e)) = Len(bytes) + 1
            /\ Append(bytes, e)[Len(bytes) + 1] = e
            /\ \A k \in 1 .. Len(bytes) : Append(bytes, e)[k] = bytes[k]
        BY <4>1, AppendIs, Zenon
      <4> QED
        BY <4>1, <4>2, Zenon
    <3>2. /\ s \in Seq(Uint8) /\ Len(s) = 17 /\ s[17] = e
          /\ \A k \in 1 .. 16 : s[k] = bytes[k]
      <4>1. 16 + 1 = 17
        OBVIOUS
      <4> QED
        BY <3>5, <4>1, Zenon
    <3>3. 16 <= Len(s) /\ Len(s) = 16 + (IF n + 1 = m /\ e # 0 THEN 1 ELSE 0)
      BY <3>1, <3>2
    <3>4. \A k \in 1 .. 16 : s[k] = CodedBytes(job, trail, n)[k]
      BY <1>6, <3>2, Zenon
    <3> QED
      BY <3>2, <3>3, <3>4, Zenon
  <2> QED
    BY <2>1, <2>2
<1>9. out' \in Seq(Uint8) /\ Coded(job, trail, out', n + 1)
  BY <1>1, <1>2, <1>3, <1>5, <1>8, CodedGrows, ConcatAt
<1>10. /\ Len(out') = 16 * (n + 1) + (IF n + 1 = m /\ e # 0 THEN 1 ELSE 0)
       /\ n + 1 = m /\ e # 0 => out'[Len(out')] = e
  <2>1. Len(out') = 16 * n + Len(s) /\ Len(s) \in Nat
    BY <1>1, <1>2, <1>5, <1>8, ConcatAt
  <2>2. Len(out') = 16 * (n + 1) + (IF n + 1 = m /\ e # 0 THEN 1 ELSE 0)
    BY <1>2, <1>8, <2>1
  <2>3. ASSUME n + 1 = m, e # 0 PROVE out'[Len(out')] = e
    <3>1. Len(s) = 17 /\ s[17] = e /\ Len(out') = 16 * n + 17
      BY <1>8, <2>1, <2>3
    <3>2. (out \o s)[16 * n + 17] = s[17]
      <4>1. 17 \in 1 .. Len(s)
        BY <3>1
      <4>2. (out \o s)[Len(out) + 17] = s[17]
        BY <1>2, <1>8, <4>1, ConcatAt
      <4> QED
        BY <1>5, <4>2
    <3> QED
      BY <1>1, <3>1, <3>2
  <2> QED
    BY <2>2, <2>3
<1>11. Finished(job, trail, n + 1)
  <2>1. ASSUME NEW i \in 0 .. ((n + 1) - 1) PROVE Len(trail[i + 1]) = Last(job) + 1
    <3>1. CASE i = n
      BY <1>1, <1>3, <3>1
    <3>2. CASE i # n
      <4>1. i \in 0 .. (n - 1)
        BY <1>2, <3>2
      <4> QED
        BY <1>3, <4>1 DEF Finished
    <3> QED
      BY <3>1, <3>2
  <2> QED
    BY <2>1 DEF Finished
<1>12. Types'
  BY <1>1, <1>2, <1>9 DEF IInv, Types, NoBlock
<1>13. KeyInv' /\ RefusedInv'
  BY <1>1, <1>2 DEF IInv, KeyInv, RefusedInv, NoBlock
<1>14. EncryptInv'
  <2>1. n + 1 <= m /\ Len(trail) = (n + 1) + 0
    BY <1>2, <1>3, <1>4
  <2>2. in' = job'.data /\ cycleN' <= PlainBlocks(job') /\ block' = NoBlock
    BY <1>1, <1>3, <2>1 DEF m
  <2>3. /\ Len(trail') = cycleN' + (IF block' = NoBlock THEN 0 ELSE 1)
        /\ Traces(job', trail', Len(trail')) /\ Finished(job', trail', cycleN')
        /\ Coded(job', trail', out', cycleN')
    BY <1>1, <1>3, <1>9, <1>11, <2>1
  <2>4. /\ Len(out') = 16 * cycleN'
              + (IF cycleN' = PlainBlocks(job') /\ PlainExtra(job') # 0 THEN 1 ELSE 0)
        /\ cycleN' = PlainBlocks(job') /\ PlainExtra(job') # 0 => out'[Len(out')] = PlainExtra(job')
    BY <1>1, <1>10 DEF m, e
  <2> QED
    BY <2>2, <2>3, <2>4 DEF EncryptInv, NoBlock
<1>15. EncryptedInv' /\ DecryptInv' /\ DecryptedInv'
  BY <1>1 DEF EncryptedInv, DecryptInv, DecryptedInv
<1> QED
  BY <1>12, <1>13, <1>14, <1>15 DEF IInv

\* Bytes cut, and compared.
LEMMA CutTo ==
  ASSUME NEW x \in Seq(Uint8), NEW e \in Nat, e <= Len(x)
  PROVE  /\ SubSeq(x, 1, e) \in Seq(Uint8) /\ Len(SubSeq(x, 1, e)) = e
         /\ \A k \in 1 .. e : SubSeq(x, 1, e)[k] = x[k]
  OBVIOUS

LEMMA SequencesEqual ==
  ASSUME NEW x \in Seq(Uint8), NEW y \in Seq(Uint8), Len(x) = Len(y),
         \A i \in 1 .. Len(x) : x[i] = y[i]
  PROVE  x = y
  OBVIOUS

\* A decrypted block is stored, cut if it was filled up.
LEMMA StoreDecrypted ==
  ASSUME IInv, StoreBlock, call = "decrypt"
  PROVE  IInv'
<1> DEFINE n == cycleN  x == PlainChunk(job, n)  s == Stored(readBlock(block))
           e == PlainExtra(job)  m == PlainBlocks(job)  L == Len(job.data)
<1>1. /\ block # NoBlock /\ round = -1 /\ out' = out \o s
      /\ block' = NoBlock /\ round' = 0 /\ cycleN' = n + 1 /\ trail' = trail
      /\ job' = job /\ call' = call /\ in' = in /\ w' = w
  BY DEF StoreBlock
<1>2. job \in Jobs /\ n \in Nat /\ Runs(job) /\ in \in Seq(Uint8) /\ out \in Seq(Uint8)
  BY <1>1 DEF IInv, Types, RefusedInv
<1>3. /\ AllDone(job, trail) /\ CodedText(job, trail, in) /\ n < m /\ block = writeBlock(x)
      /\ Len(out) = (IF 16 * n <= L THEN 16 * n ELSE L)
      /\ \A i \in 1 .. Len(out) : out[i] = job.data[i]
  BY <1>1, <1>2 DEF IInv, DecryptInv
<1>4. readBlock(block) = x /\ x \in Seq(Uint8) /\ Len(x) = 16
  BY <1>2, <1>3, PlainFacts, BlockOfBytes, ChunkIsSeq
<1>5. extraBytes = e /\ cycles = L \div 16
  BY <1>1, <1>2, <1>3, DoneTypes, DecryptShape
<1>6. s = IF n < L \div 16 THEN x ELSE SubSeq(x, 1, e)
  BY <1>4, <1>5 DEF Stored
<1>7. m \in Nat /\ e \in 0 .. 15 /\ L \in Nat
  BY <1>2, PlainFacts
<1>8. /\ 16 * n <= L
      /\ n < L \div 16 => 16 * n + 16 <= L
      /\ ~(n < L \div 16) => L = 16 * n + e /\ e # 0
  BY <1>2, <1>3, LastBlock
<1>9. \A k \in 1 .. 16 : 16 * n + k <= L => x[k] = job.data[16 * n + k]
  BY DEF PlainChunk
<1> HIDE DEF x, s, e, m, L
<1>10. Len(out) = 16 * n
  BY <1>3, <1>8
<1>11. /\ s \in Seq(Uint8) /\ Len(s) \in Nat
       /\ 16 * n + Len(s) = IF 16 * (n + 1) <= L THEN 16 * (n + 1) ELSE L
       /\ \A k \in 1 .. Len(s) : s[k] = job.data[16 * n + k]
  <2>1. CASE n < L \div 16
    <3>1. s = x /\ Len(s) = 16 /\ s \in Seq(Uint8) /\ 16 * n + 16 <= L
      BY <1>4, <1>6, <1>8, <2>1
    <3>2. 16 * n + Len(s) = IF 16 * (n + 1) <= L THEN 16 * (n + 1) ELSE L
      BY <1>2, <1>7, <3>1
    <3>3. \A k \in 1 .. 16 : 16 * n + k <= L
      BY <1>2, <1>7, <3>1
    <3> QED
      BY <1>9, <3>1, <3>2, <3>3
  <2>2. CASE ~(n < L \div 16)
    <3>1. s = SubSeq(x, 1, e) /\ L = 16 * n + e /\ e # 0 /\ e \in Nat /\ e < 16
      BY <1>6, <1>7, <1>8, <2>2
    <3>2. s \in Seq(Uint8) /\ Len(s) = e /\ \A k \in 1 .. e : s[k] = x[k]
      <4>1. e <= Len(x)
        BY <1>4, <3>1
      <4> QED
        BY <1>4, <3>1, <4>1, CutTo
    <3>3. 16 * n + Len(s) = IF 16 * (n + 1) <= L THEN 16 * (n + 1) ELSE L
      BY <1>2, <3>1, <3>2
    <3>4. \A k \in 1 .. e : k \in 1 .. 16 /\ 16 * n + k <= L
      BY <1>2, <3>1
    <3> QED
      BY <1>9, <3>1, <3>2, <3>3, <3>4
  <2> QED
    BY <2>1, <2>2
<1>12. /\ out' \in Seq(Uint8) /\ Len(out') = (IF 16 * (n + 1) <= L THEN 16 * (n + 1) ELSE L)
       /\ \A i \in 1 .. Len(out') : out'[i] = job.data[i]
  <2>1. out' \in Seq(Uint8) /\ Len(out') = 16 * n + Len(s)
    BY <1>1, <1>2, <1>10, <1>11, ConcatAt
  <2>2. ASSUME NEW i \in 1 .. (16 * n + Len(s)) PROVE out'[i] = job.data[i]
    <3>1. CASE i \in 1 .. (16 * n)
      BY <1>1, <1>2, <1>3, <1>10, <1>11, <3>1, ConcatAt
    <3>2. CASE i \notin 1 .. (16 * n)
      <4>1. PICK k \in 1 .. Len(s) : i = 16 * n + k
        <5>1. i - 16 * n \in 1 .. Len(s) /\ i = 16 * n + (i - 16 * n)
          BY <1>2, <1>11, <3>2
        <5> QED
          BY <5>1
      <4>2. (out \o s)[Len(out) + k] = s[k]
        BY <1>2, <1>11, ConcatAt
      <4> QED
        BY <1>1, <1>10, <1>11, <4>1, <4>2
    <3> QED
      BY <3>1, <3>2
  <2> QED
    BY <1>11, <2>1, <2>2
<1>13. Types'
  BY <1>1, <1>2, <1>12 DEF IInv, Types, NoBlock
<1>14. KeyInv' /\ RefusedInv'
  BY <1>1, <1>2 DEF IInv, KeyInv, RefusedInv, NoBlock
<1>15. DecryptInv'
  <2>1. n + 1 <= m
    BY <1>2, <1>3, <1>7 DEF m
  <2>2. AllDone(job', trail') /\ CodedText(job', trail', in') /\ cycleN' <= PlainBlocks(job')
    BY <1>1, <1>3, <2>1 DEF m
  <2>3. /\ Len(out') = (IF 16 * cycleN' <= Len(job'.data) THEN 16 * cycleN' ELSE Len(job'.data))
        /\ \A i \in 1 .. Len(out') : out'[i] = job'.data[i]
    BY <1>1, <1>12 DEF L
  <2> QED
    BY <1>1, <2>2, <2>3 DEF DecryptInv, NoBlock
<1>16. EncryptInv' /\ EncryptedInv' /\ DecryptedInv'
  BY <1>1 DEF EncryptInv, EncryptedInv, DecryptedInv
<1> QED
  BY <1>13, <1>14, <1>15, <1>16 DEF IInv

LEMMA StoreBlockInv == ASSUME IInv, StoreBlock PROVE IInv'
<1>1. CASE call = "encrypt"
  BY <1>1, StoreEncrypted
<1>2. CASE call = "decrypt"
  BY <1>2, StoreDecrypted
<1>3. block # NoBlock
  BY DEF StoreBlock
<1>4. call \in {"encrypt", "encrypted", "decrypt", "decrypted"}
  BY DEF IInv, Types
<1>5. Runs(job)
  BY <1>3 DEF IInv, RefusedInv
<1>6. call # "encrypted" /\ call # "decrypted"
  BY <1>3, <1>5 DEF IInv, EncryptedInv, DecryptedInv
<1> QED
  BY <1>1, <1>2, <1>4, <1>6

\* A call returns; the client decrypts what it got.
LEMMA ReturnInv == ASSUME IInv, Return PROVE IInv'
<1> DEFINE e == PlainExtra(job)  m == PlainBlocks(job)  L == Len(job.data)
<1>1. /\ call \in {"encrypt", "decrypt"} /\ block = NoBlock /\ cycleN = Blocks
      /\ call' = IF call = "encrypt" THEN "encrypted" ELSE "decrypted"
      /\ job' = job /\ in' = in /\ w' = w /\ block' = block /\ round' = round
      /\ cycleN' = cycleN /\ out' = out /\ trail' = trail
  BY DEF Return
<1>2. job \in Jobs /\ Runs(job) /\ in \in Seq(Uint8) /\ out \in Seq(Uint8)
  BY StateOperators DEF Return, IInv, Types
<1>3. Types'
  BY <1>1 DEF IInv, Types, NoBlock
<1>4. KeyInv'
  BY <1>1 DEF IInv, KeyInv, NoBlock
<1>5. RefusedInv'
  BY <1>1, <1>2 DEF RefusedInv
<1>6. m \in Nat /\ e \in 0 .. 15 /\ L \in Nat /\ (e = 0 => L = 16 * m)
      /\ (e # 0 => L = (16 * m - 16) + e)
  BY <1>2, PlainFacts
<1>7. CASE call = "encrypt"
  <2>1. cycleN = m
    BY <1>1, <1>2, <1>7, EncryptShape DEF IInv, EncryptInv
  <2>2. /\ Len(trail) = m + 0 /\ Traces(job, trail, Len(trail)) /\ Finished(job, trail, m)
        /\ Len(out) = 16 * m + (IF e # 0 THEN 1 ELSE 0) /\ (e # 0 => out[Len(out)] = e)
        /\ Coded(job, trail, out, m)
    BY <1>1, <1>2, <1>7, <2>1 DEF IInv, EncryptInv
  <2>3. AllDone(job, trail)
    BY <1>6, <2>2 DEF AllDone
  <2>4. Len(out) = CipherLen(job)
    BY <1>6, <2>2 DEF CipherLen
  <2>5. CodedText(job, trail, out)
    BY <2>2, <2>4 DEF CodedText
  <2>6. EncryptedInv'
    BY <1>1, <2>3, <2>5 DEF EncryptedInv, NoBlock
  <2> QED
    BY <1>1, <1>3, <1>4, <1>5, <1>7, <2>6 DEF IInv, EncryptInv, DecryptInv, DecryptedInv
<1>8. CASE call = "decrypt"
  <2>1. /\ AllDone(job, trail) /\ CodedText(job, trail, in)
        /\ Len(out) = IF 16 * cycleN <= L THEN 16 * cycleN ELSE L
        /\ \A i \in 1 .. Len(out) : out[i] = job.data[i]
    BY <1>2, <1>8 DEF IInv, DecryptInv
  <2>2. cycleN = m
    BY <1>1, <1>2, <1>8, <2>1, DoneTypes, DecryptShape
  <2>3. job.data \in Seq(Uint8)
    BY <1>2, JobFacts
  <2> HIDE DEF L, m, e
  <2>4. Len(out) = L
    BY <1>6, <2>1, <2>2
  <2>5. out = job.data
    BY <1>2, <2>1, <2>3, <2>4, SequencesEqual DEF L
  <2>6. DecryptedInv'
    BY <1>1, <2>5 DEF DecryptedInv, NoBlock
  <2> QED
    BY <1>1, <1>3, <1>4, <1>5, <1>8, <2>6 DEF IInv, EncryptInv, EncryptedInv, DecryptInv
<1> QED
  BY <1>1, <1>7, <1>8

LEMMA DecryptCallInv == ASSUME IInv, Decrypt PROVE IInv'
<1>1. /\ call = "encrypted" /\ call' = "decrypt" /\ in' = out /\ w' = KeyWords(job.key)
      /\ cycleN' = 0 /\ out' = <<>>
      /\ job' = job /\ block' = block /\ round' = round /\ trail' = trail
  BY DEF Decrypt
<1>2. job \in Jobs /\ job.key \in Seq(Uint8) /\ w' \in Seq(Seq(Uint8))
  <2>1. job \in Jobs
    BY DEF IInv, Types
  <2> QED
    BY <1>1, <2>1, JobFacts, KeyWordsFacts
<1>3. Runs(job) => block = NoBlock /\ AllDone(job, trail) /\ CodedText(job, trail, out)
  BY <1>1 DEF IInv, EncryptedInv
<1>4. ~Runs(job) => block = NoBlock /\ out = <<>> /\ trail = <<>>
  BY DEF IInv, RefusedInv
<1>5. Types'
  <2>1. 0 \in Nat /\ <<>> \in Seq(Uint8)
    OBVIOUS
  <2> QED
    BY <1>1, <1>2, <2>1 DEF IInv, Types, NoBlock
<1>6. KeyInv'
  BY <1>1, <1>2, <1>3, ScheduleStart DEF KeyInv, NoBlock
<1>7. RefusedInv'
  BY <1>1, <1>4 DEF RefusedInv, NoBlock
<1>8. DecryptInv'
  <2>1. PlainBlocks(job) \in Nat /\ Len(job.data) \in Nat
    BY <1>2, PlainFacts
  <2>2. /\ 0 <= PlainBlocks(job)
        /\ 0 = IF 16 * 0 <= Len(job.data) THEN 16 * 0 ELSE Len(job.data)
    BY <2>1
  <2>3. Len(out') = 0 /\ \A i \in 1 .. Len(out') : out'[i] = job.data[i]
    BY <1>1
  <2> QED
    BY <1>1, <1>3, <2>2, <2>3 DEF DecryptInv, NoBlock
<1> QED
  BY <1>1, <1>5, <1>6, <1>7, <1>8 DEF IInv, EncryptInv, EncryptedInv, DecryptedInv

\* Every step keeps the invariant.
LEMMA NextInv == ASSUME IInv, [AesNext]_aesVars PROVE IInv'
<1>1. CASE UNCHANGED aesVars
  BY <1>1 DEF aesVars, IInv, Types, KeyInv, RefusedInv, EncryptInv, EncryptedInv, DecryptInv,
     DecryptedInv, NoBlock
<1> QED
  BY <1>1, RefuseKeyInv, GenerateSubKeyWordInv, LoadBlockInv, EncodeRoundInv, DecodeRoundInv,
     StoreBlockInv, ReturnInv, DecryptCallInv DEF AesNext

\* IInv holds throughout: every block is what its trail says, and what is
\* decrypted so far is what the data began with.
THEOREM AesInvariance == AesSpec => []IInv
  BY InitInv, NextInv, PTL DEF AesSpec

-----------------------------------------------------------------------------
(* What follows.                                                            *)

\* The bounds of AesTypeOK, for each kind of call.
LEMMA TypesFollow == ASSUME IInv PROVE AesTypeOK
<1> DEFINE e == PlainExtra(job)  m == PlainBlocks(job)  L == Len(job.data)
<1>1. /\ job \in Jobs /\ call \in {"encrypt", "encrypted", "decrypt", "decrypted"}
      /\ in \in Seq(Uint8) /\ out \in Seq(Uint8) /\ w \in Seq(Seq(Uint8))
      /\ block = NoBlock \/ block \in Block
      /\ cycleN \in Nat /\ (block = NoBlock => round = 0)
  BY DEF IInv, Types
<1>2. m \in Nat /\ e \in 0 .. 15 /\ L \in Nat /\ (e = 0 => L = 16 * m)
      /\ (e # 0 => L = (16 * m - 16) + e) /\ Last(job) \in Nat /\ Nr = Last(job) /\ 10 <= Last(job)
  BY <1>1, PlainFacts, JobFacts, StateOperators
<1>3. round \in -1 .. (Nr + 1)
  <2>1. CASE block = NoBlock
    BY <1>1, <1>2, <2>1
  <2>2. ASSUME block # NoBlock, call = "encrypt" PROVE round \in 1 .. (Last(job) + 1)
    <3>1. /\ Len(trail) = cycleN + 1 /\ Traces(job, trail, Len(trail))
          /\ round = Len(trail[cycleN + 1])
      BY <2>2 DEF IInv, RefusedInv, EncryptInv
    <3>2. cycleN \in 0 .. (Len(trail) - 1)
      BY <1>1, <3>1
    <3>3. Trace(job, trail[cycleN + 1], cycleN)
      BY <3>1, <3>2 DEF Traces
    <3> QED
      BY <1>2, <3>1, <3>3 DEF Trace
  <2>3. ASSUME block # NoBlock, call = "decrypt" PROVE -1 <= round /\ round < Last(job) /\ round \in Int
    BY <2>3 DEF IInv, RefusedInv, DecryptInv, Types
  <2>4. call = "encrypted" \/ call = "decrypted" => block = NoBlock
    BY DEF IInv, RefusedInv, EncryptedInv, DecryptedInv
  <2> QED
    BY <1>1, <1>2, <2>1, <2>2, <2>3, <2>4
<1>4. ASSUME ~Runs(job), call \in {"encrypt", "decrypt"}
      PROVE  cycleN <= Blocks /\ Len(out) <= resultLen
  <2>1. cycleN = 0 /\ Len(out) = 0 /\ (call = "decrypt" => in = <<>>)
    BY <1>4 DEF IInv, RefusedInv
  <2>2. CASE call = "encrypt"
    <3>1. PICK l \in Nat : l = Len(in)
      BY <1>1
    <3>2. extraBytes = l % 16 /\ cycles = l \div 16
      BY <2>2, <3>1 DEF extraBytes, cycles
    <3>3. 0 <= Blocks
      BY <3>1, <3>2 DEF Blocks
    <3>4. 0 <= resultLen
      BY <2>2, <3>1, <3>2 DEF resultLen
    <3> QED
      BY <2>1, <3>3, <3>4
  <2>3. CASE call = "decrypt"
    <3>1. Len(in) = 0
      BY <2>1, <2>3
    <3>2. extraBytes = 0 /\ resultLen = 0
      BY <3>1 DEF extraBytes, resultLen
    <3>3. cycles = 0
      BY <2>3, <3>2 DEF cycles
    <3>4. Blocks = 0
      BY <3>2, <3>3 DEF Blocks
    <3> QED
      BY <2>1, <3>2, <3>4
  <2> QED
    BY <1>4, <2>2, <2>3
<1>5. ASSUME Runs(job), call = "encrypt" PROVE cycleN <= Blocks /\ Len(out) <= resultLen
  <2>1. /\ in = job.data /\ cycleN <= m
        /\ Len(out) = 16 * cycleN + (IF cycleN = m /\ e # 0 THEN 1 ELSE 0)
    BY <1>5 DEF IInv, EncryptInv
  <2>2. Blocks = m /\ resultLen = 16 * m + (IF e = 0 THEN 0 ELSE 1)
    BY <1>1, <1>5, <2>1, EncryptShape DEF CipherLen
  <2> HIDE DEF e, m, L
  <2> QED
    BY <1>1, <1>2, <2>1, <2>2
<1>6. ASSUME Runs(job), call = "decrypt" PROVE cycleN <= Blocks /\ Len(out) <= resultLen
  <2>1. /\ AllDone(job, trail) /\ CodedText(job, trail, in) /\ cycleN <= m
        /\ Len(out) = IF 16 * cycleN <= L THEN 16 * cycleN ELSE L
    BY <1>6 DEF IInv, DecryptInv
  <2>2. Blocks = m /\ resultLen = L
    BY <1>1, <1>6, <2>1, DoneTypes, DecryptShape
  <2> HIDE DEF e, m, L
  <2> QED
    BY <1>1, <1>2, <2>1, <2>2
<1>7. KeyFits => Len(w) <= (Nr + 1) * 4
  BY StateOperators DEF IInv, KeyInv, Schedule, WordCount
<1>8. call \in {"encrypt", "decrypt"} => cycleN <= Blocks /\ Len(out) <= resultLen
  BY <1>4, <1>5, <1>6
<1> QED
  BY <1>1, <1>3, <1>7, <1>8 DEF AesTypeOK, Block

\* The buffers hold bytes, the rounds stay between the sub-keys, and no call
\* stores beyond the buffer it allocated.
THEOREM AesTypeCorrect == AesSpec => []AesTypeOK
  BY AesInvariance, TypesFollow, PTL

\* Before each round of decryption the block is what encryption had made of it
\* with that sub-key.
THEOREM RoundsAreUnwound == AesSpec => []RoundsUnwind
<1>1. IInv => RoundsUnwind
  BY DEF IInv, RefusedInv, DecryptInv, RoundsUnwind, Turned
<1> QED
  BY <1>1, AesInvariance, PTL

\* decrypt returns what encrypt was given, for every key of the right size and
\* every length of the data.
THEOREM DecryptionInverts == AesSpec => []RoundTrip
<1>1. IInv => RoundTrip
  BY StateOperators DEF IInv, DecryptedInv, RoundTrip
<1> QED
  BY <1>1, AesInvariance, PTL

\* What a call returns.
LEMMA ReturnedIsFull == ASSUME IInv, Return PROVE Len(out) = resultLen
<1> DEFINE e == PlainExtra(job)  m == PlainBlocks(job)  L == Len(job.data)
<1>1. call \in {"encrypt", "decrypt"} /\ cycleN = Blocks /\ Runs(job) /\ job \in Jobs
      /\ in \in Seq(Uint8)
  BY StateOperators DEF Return, IInv, Types
<1>2. m \in Nat /\ e \in 0 .. 15 /\ L \in Nat /\ (e = 0 => L = 16 * m)
      /\ (e # 0 => L = (16 * m - 16) + e)
  BY <1>1, PlainFacts
<1>3. CASE call = "encrypt"
  <2>1. in = job.data /\ Len(out) = 16 * cycleN + (IF cycleN = m /\ e # 0 THEN 1 ELSE 0)
    BY <1>1, <1>3 DEF IInv, EncryptInv
  <2>2. Blocks = m /\ resultLen = 16 * m + (IF e = 0 THEN 0 ELSE 1)
    BY <1>1, <1>3, <2>1, EncryptShape DEF CipherLen
  <2> HIDE DEF e, m, L
  <2> QED
    BY <1>1, <1>2, <2>1, <2>2
<1>4. CASE call = "decrypt"
  <2>1. /\ AllDone(job, trail) /\ CodedText(job, trail, in)
        /\ Len(out) = IF 16 * cycleN <= L THEN 16 * cycleN ELSE L
    BY <1>1, <1>4 DEF IInv, DecryptInv
  <2>2. Blocks = m /\ resultLen = L
    BY <1>1, <1>4, <2>1, DoneTypes, DecryptShape
  <2> HIDE DEF e, m, L
  <2> QED
    BY <1>1, <1>2, <2>1, <2>2
<1> QED
  BY <1>1, <1>3, <1>4

\* A call that returns has stored exactly the bytes of the buffer it allocated.
THEOREM ResultIsFilled == AesSpec => ResultFillsBuffer
<1>1. IInv => [Return => Len(out) = resultLen]_aesVars
  BY ReturnedIsFull
<1> QED
  BY <1>1, AesInvariance, PTL DEF ResultFillsBuffer

-----------------------------------------------------------------------------
(* Quotients and powers.                                                    *)

\* The one quotient and remainder there is.
LEMMA QuotientIs ==
    ASSUME NEW q \in Nat, NEW d \in Nat \ {0}, NEW r \in Nat, r < d
    PROVE  /\ (q * d + r) \div d = q /\ (q * d + r) % d = r
           /\ q * d + r \in Nat
<1> DEFINE n == q * d + r
<1>1. n \in Nat
  OBVIOUS
<1>2. n \div d \in Nat /\ n % d \in Nat /\ n % d < d /\ n = (n \div d) * d + (n % d)
  BY <1>1
<1>3. PICK p, s \in Nat : p = n \div d /\ s = n % d
  BY <1>2
<1>4. p * d + s = q * d + r /\ s < d
  BY <1>2, <1>3
<1> HIDE DEF n
<1>5. (p - q) * d = r - s
  BY <1>4
<1>6. ~(p - q >= 1) /\ ~(p - q <= -1)
  <2>1. ASSUME p - q >= 1 PROVE FALSE
    <3>1. (p - q) * d >= d
      BY <2>1
    <3> QED BY <1>4, <1>5, <3>1
  <2>2. ASSUME p - q <= -1 PROVE FALSE
    <3>1. (p - q) * d <= -d
      BY <2>2
    <3> QED BY <1>4, <1>5, <3>1
  <2> QED BY <2>1, <2>2
<1>7. p = q /\ s = r
  <2>1. p = q
    BY <1>6
  <2> QED BY <1>4, <2>1
<1> QED
  BY <1>1, <1>3, <1>7 DEF n

\* w has a digit more than v, and e a zero more than p.
Appended(v, p, d, c, e) == c = 256 * v + d /\ e = 256 * p
SameQuotient(c, e, v, p) == c \div e = v \div p

\* A digit appended and dropped again with what is behind it.
LEMMA DigitDropped ==
    ASSUME NEW v \in Nat, NEW p \in Nat \ {0}, NEW d \in Nat, d < 256,
           NEW c \in Nat, NEW e \in Nat \ {0}, Appended(v, p, d, c, e)
    PROVE  SameQuotient(c, e, v, p)
<1>1. PICK q, r \in Nat : q = v \div p /\ r = v % p /\ r < p /\ v = q * p + r
  OBVIOUS
<1>2. e = 256 * p /\ c = 256 * v + d
  BY DEF Appended
<1>3. PICK s \in Nat : s = 256 * r + d
  OBVIOUS
<1>4. s < e
  BY <1>1, <1>2, <1>3
<1>5. c = q * e + s
  <2>1. PICK t \in Nat : t = q * p
    OBVIOUS
  <2>2. q * e = 256 * t
    BY <1>2, <2>1
  <2> QED BY <1>1, <1>2, <1>3, <2>1, <2>2
<1>6. (q * e + s) \div e = q
  BY <1>4, QuotientIs
<1> QED
  BY <1>1, <1>2, <1>5, <1>6 DEF SameQuotient

\* Two divisions in a row.
LEMMA DividedTwice ==
    ASSUME NEW b \in Nat, NEW p \in Nat \ {0}
    PROVE  b \div (256 * p) = (b \div p) \div 256
<1>1. PICK x, r \in Nat : x = b \div p /\ r < p /\ b = x * p + r
  OBVIOUS
<1>2. PICK y, z \in Nat : y = x \div 256 /\ z < 256 /\ x = 256 * y + z
  OBVIOUS
<1>3. PICK e \in Nat \ {0} : e = 256 * p
  OBVIOUS
<1>4. z * p + r \in Nat /\ z * p + r < e
  <2>1. 255 - z \in Nat /\ (255 - z) * p \in Nat
    BY <1>2
  <2>2. (255 - z) * p = 255 * p - z * p
    BY <1>2
  <2>3. PICK t \in Nat : t = z * p
    OBVIOUS
  <2> QED BY <1>1, <1>3, <2>1, <2>2, <2>3
<1>5. PICK s \in Nat : s = z * p + r /\ s < e
  BY <1>4
<1>6. b = y * e + s
  <2>1. PICK t, u \in Nat : t = y * p /\ u = z * p
    OBVIOUS
  <2>2. y * e = 256 * t
    BY <1>3, <2>1
  <2>3. x * p = 256 * t + u
    BY <1>2, <2>1
  <2> QED BY <1>1, <1>5, <2>1, <2>2, <2>3
<1>7. (y * e + s) \div e = y
  BY <1>5, QuotientIs
<1> QED
  BY <1>1, <1>2, <1>3, <1>6, <1>7

LEMMA GcmSizes ==
    /\ BlockLen \in Nat /\ BlockLen >= 2 /\ BlockLen < 256
    /\ IvLen \in Nat /\ IvLen >= 1 /\ IvLen < BlockLen
    /\ KeyLen \in Nat /\ KeyLen >= 1 /\ LengthMod \in Nat /\ LengthMod >= 1
    /\ R_POLY \in Uint8 /\ Byte = Uint8
  BY GcmAssumption

\* The recursive definition defines a function.
LEMMA PowerEquation ==
    Power256 = [n \in Nat |-> IF n = 0 THEN 1 ELSE 256 * Power256[n - 1]]
<1> DEFINE step(n) == [k \in 1 .. n |-> [x \in Nat |-> 256 * x]]
           G(n) == {g \in [0 .. n -> Nat] : Stepwise(g, n, 1, step(n))}
           chosen(n) == CHOOSE g \in G(n) : TRUE
           F == [n \in Nat |-> chosen(n)[n]]
<1>1. ASSUME NEW n \in Nat PROVE chosen(n) \in G(n)
  <2>1. step(n) \in [1 .. n -> [Nat -> Nat]] /\ 1 \in Nat
    OBVIOUS
  <2>2. G(n) # {}
    BY <2>1, StepwiseExists
  <2> QED BY <2>2
<1>2. ASSUME NEW n \in Nat, NEW g \in G(n)
      PROVE  /\ g \in [0 .. n -> Nat] /\ g[0] = 1
             /\ \A k \in 1 .. n : g[k] = 256 * g[k - 1]
  <2>1. g \in [0 .. n -> Nat] /\ g[0] = 1 /\ \A k \in 1 .. n : g[k] = step(n)[k][g[k - 1]]
    BY DEF Stepwise
  <2> HIDE DEF G, step
  <2>2. \A k \in 1 .. n : k - 1 \in 0 .. n /\ g[k - 1] \in Nat
    BY <2>1
  <2>3. \A k \in 1 .. n : g[k] = step(n)[k][g[k - 1]]
    BY <2>1
  <2>4. \A k \in 1 .. n, x \in Nat : step(n)[k][x] = 256 * x
    BY DEF step
  <2> QED BY <2>1, <2>2, <2>3, <2>4
<1> HIDE DEF G, chosen
<1>3. ASSUME NEW n \in Nat, NEW g \in G(n), NEW h \in G(n + 1) PROVE g[n] = h[n]
  <2> DEFINE U == {k \in 0 .. n : g[k] = h[k]}
  <2>1. n + 1 \in Nat
    OBVIOUS
  <2>2. /\ g[0] = 1 /\ \A k \in 1 .. n : g[k] = 256 * g[k - 1]
        /\ h[0] = 1 /\ \A k \in 1 .. (n + 1) : h[k] = 256 * h[k - 1]
    BY <1>2, <2>1
  <2>3. 0 \in U
    BY <2>2
  <2>4. \A k \in (0 + 1) .. n : k - 1 \in U => k \in U
    BY <2>2
  <2> HIDE DEF U
  <2>5. \A k \in 0 .. n : k \in U
    BY <2>3, <2>4, Reached
  <2> QED BY <2>5 DEF U
<1>4. ASSUME NEW n \in Nat PROVE F[n] = IF n = 0 THEN 1 ELSE 256 * F[n - 1]
  <2>1. CASE n = 0
    BY <1>1, <1>2, <2>1
  <2>2. CASE n # 0
    <3>1. PICK m \in Nat : n = m + 1 /\ m = n - 1
      BY <2>2
    <3>2. chosen(n)[n] = 256 * chosen(n)[n - 1]
      BY <1>1, <1>2, <3>1
    <3>3. chosen(m)[m] = chosen(n)[m]
      BY <1>1, <1>3, <3>1
    <3> QED BY <2>2, <3>1, <3>2, <3>3
  <2> QED BY <2>1, <2>2
<1>5. F = [n \in Nat |-> IF n = 0 THEN 1 ELSE 256 * F[n - 1]]
  <2>1. \A n \in Nat : F[n] = IF n = 0 THEN 1 ELSE 256 * F[n - 1]
    BY <1>4
  <2>2. F = [n \in Nat |-> F[n]]
    OBVIOUS
  <2> HIDE DEF F
  <2> QED BY <2>1, <2>2
<1> HIDE DEF F
<1>6. \E f : f = [n \in Nat |-> IF n = 0 THEN 1 ELSE 256 * f[n - 1]]
  BY <1>5
<1> QED
  BY <1>6 DEF Power256

LEMMA PowerFacts ==
    /\ Power256[0] = 1
    /\ \A n \in Nat : Power256[n] \in Nat \ {0}
    /\ \A n \in Nat : Power256[n + 1] = 256 * Power256[n]
<1>1. \A n \in Nat : Power256[n] = IF n = 0 THEN 1 ELSE 256 * Power256[n - 1]
  BY PowerEquation
<1>2. Power256[0] = 1
  BY <1>1
<1>3. ASSUME NEW n \in Nat PROVE Power256[n + 1] = 256 * Power256[n]
  <2>1. n + 1 \in Nat /\ n + 1 # 0 /\ (n + 1) - 1 = n
    OBVIOUS
  <2> QED BY <1>1, <2>1
<1>4. ASSUME NEW n \in Nat PROVE Power256[n] \in Nat \ {0}
  <2>1. ASSUME NEW k \in 1 .. n, Power256[k - 1] \in Nat \ {0} PROVE Power256[k] \in Nat \ {0}
    <3>1. Power256[k] = 256 * Power256[k - 1]
      BY <1>1
    <3> QED BY <2>1, <3>1
  <2>2. Power256[0] \in Nat \ {0}
    BY <1>2
  <2>3. \A k \in 0 .. n : Power256[k] \in Nat \ {0}
    BY <2>1, <2>2, PassedOn
  <2> QED BY <2>3
<1> QED
  BY <1>2, <1>3, <1>4

\* The power before the n-th.
LEMMA PowerBelow ==
    ASSUME NEW n \in Nat, n >= 1
    PROVE  Power256[n] = 256 * Power256[n - 1] /\ Power256[n - 1] \in Nat \ {0}
<1>1. n - 1 \in Nat /\ (n - 1) + 1 = n
  OBVIOUS
<1> QED
  BY <1>1, PowerFacts

-----------------------------------------------------------------------------
(* Blocks.                                                                  *)

BlockRange == 0 .. (BlockMod - 1)
Padded(s) == [k \in 1 .. BlockLen |-> IF k <= Len(s) THEN s[k] ELSE 0]

\* The numbers of which the last one is the block of s.
ReadsBlock(f, s) ==
    /\ f \in [0 .. BlockLen -> Nat] /\ f[0] = 0
    /\ \A k \in 1 .. BlockLen : f[k] = 256 * f[k - 1] + Padded(s)[k]

LEMMA BlockRangeFacts == BlockMod \in Nat /\ BlockMod >= 256 /\ 0 \in BlockRange
<1>1. BlockMod = 256 * Power256[BlockLen - 1] /\ Power256[BlockLen - 1] \in Nat \ {0}
  BY PowerBelow, GcmSizes DEF BlockMod
<1> QED
  BY <1>1 DEF BlockRange

LEMMA PaddedFacts ==
    ASSUME NEW s \in Seq(Uint8)
    PROVE  Padded(s) \in [1 .. BlockLen -> Uint8]
<1>1. 0 \in Uint8
  BY DEF Uint8
<1>2. \A k \in 1 .. BlockLen : k <= Len(s) => s[k] \in Uint8
  BY GcmSizes
<1> QED
  BY <1>1, <1>2 DEF Padded

LEMMA BlockIsRead ==
    ASSUME NEW s \in Seq(Uint8)
    PROVE  \E f : ReadsBlock(f, s) /\ BlockOf(s) = f[BlockLen]
<1> DEFINE Eq(f) == f = [k \in 0 .. BlockLen |->
              IF k = 0 THEN 0
              ELSE 256 * f[k - 1] + (IF k <= Len(s) THEN s[k] ELSE 0)]
           step == [k \in 1 .. BlockLen |-> [x \in Nat |-> 256 * x + Padded(s)[k]]]
<1>1. BlockOf(s) = (CHOOSE f : Eq(f))[BlockLen]
  BY DEF BlockOf
<1>2. \A k \in 1 .. BlockLen : Padded(s)[k] \in Nat
  <2>1. \A d \in Uint8 : d \in Nat
    BY DEF Uint8
  <2> QED BY <2>1, PaddedFacts
<1>3. step \in [1 .. BlockLen -> [Nat -> Nat]]
  BY <1>2
<1>4. PICK g \in [0 .. BlockLen -> Nat] : Stepwise(g, BlockLen, 0, step)
  BY <1>3, StepwiseExists, GcmSizes
<1>5. g[0] = 0 /\ \A k \in 1 .. BlockLen : g[k] = step[k][g[k - 1]]
  BY <1>4 DEF Stepwise
<1>6. \A k \in 1 .. BlockLen : g[k - 1] \in Nat
  <2> HIDE DEF step
  <2>1. \A k \in 1 .. BlockLen : k - 1 \in 0 .. BlockLen
    BY GcmSizes
  <2> QED BY <1>4, <2>1
<1>7. \A k \in 1 .. BlockLen : g[k] = 256 * g[k - 1] + Padded(s)[k]
  BY <1>5, <1>6
<1>8. Eq(g)
  <2>1. g = [k \in 0 .. BlockLen |-> g[k]]
    BY <1>4
  <2>2. \A k \in 0 .. BlockLen : g[k] =
              IF k = 0 THEN 0
              ELSE 256 * g[k - 1] + (IF k <= Len(s) THEN s[k] ELSE 0)
    BY <1>5, <1>7, GcmSizes DEF Padded
  <2> HIDE DEF step
  <2> QED BY <2>1, <2>2
<1>9. PICK f : Eq(f) /\ BlockOf(s) = f[BlockLen]
  BY <1>1, <1>8
<1>10. DOMAIN f = 0 .. BlockLen /\ f[0] = 0
  BY <1>9, GcmSizes
<1>11. \A k \in 1 .. BlockLen : f[k] = 256 * f[k - 1] + Padded(s)[k]
  BY <1>9, GcmSizes DEF Padded
<1>12. \A k \in 1 .. BlockLen : f[k - 1] \in Nat => f[k] \in Nat
  BY <1>2, <1>11
<1>13. \A k \in 0 .. BlockLen : f[k] \in Nat
  <2> DEFINE Numbers == Nat
  <2>1. f[0] \in Numbers /\ \A k \in 1 .. BlockLen : f[k - 1] \in Numbers => f[k] \in Numbers
    BY <1>10, <1>12
  <2> HIDE DEF Numbers
  <2>2. \A k \in 0 .. BlockLen : f[k] \in Numbers
    BY <2>1, PassedOn, GcmSizes
  <2> QED BY <2>2 DEF Numbers
<1>14. f \in [0 .. BlockLen -> Nat]
  <2> DEFINE term(h, k) == IF k = 0 THEN 0
                           ELSE 256 * h[k - 1] + (IF k <= Len(s) THEN s[k] ELSE 0)
  <2>1. \E h : f = [k \in 0 .. BlockLen |-> term(h, k)]
    BY <1>9
  <2> HIDE DEF term
  <2> QED BY <1>13, <2>1
<1> QED
  BY <1>9, <1>10, <1>11, <1>14 DEF ReadsBlock

\* What the numbers of a block are below, and the quotients they are.
LEMMA BlockDigits ==
    ASSUME NEW s \in Seq(Uint8), NEW f, ReadsBlock(f, s)
    PROVE  /\ \A k \in 0 .. BlockLen : f[k] \in Nat /\ f[k] < Power256[k]
           /\ \A k \in 0 .. BlockLen : f[BlockLen] \div Power256[BlockLen - k] = f[k]
<1>1. /\ f \in [0 .. BlockLen -> Nat] /\ f[0] = 0
      /\ \A k \in 1 .. BlockLen : f[k] = 256 * f[k - 1] + Padded(s)[k]
  BY DEF ReadsBlock
<1>2. \A k \in 1 .. BlockLen : Padded(s)[k] \in 0 .. 255
  BY PaddedFacts DEF Uint8
<1>3. \A k \in 0 .. BlockLen : f[k] \in Nat /\ f[k] < Power256[k]
  <2> DEFINE U == {k \in 0 .. BlockLen : f[k] < Power256[k]}
  <2>1. 0 \in U
    <3>1. 0 \in 0 .. BlockLen /\ f[0] < Power256[0]
      BY <1>1, PowerFacts, GcmSizes
    <3> QED BY <3>1
  <2>2. ASSUME NEW k \in (0 + 1) .. BlockLen, k - 1 \in U PROVE k \in U
    <3>1. k \in Nat /\ k >= 1 /\ k \in 1 .. BlockLen /\ k - 1 \in 0 .. BlockLen
      BY GcmSizes
    <3>2. PICK v, p \in Nat : v = f[k - 1] /\ p = Power256[k - 1] /\ v < p
      BY <1>1, <2>2, <3>1, PowerBelow
    <3>3. Power256[k] = 256 * p
      BY <3>1, <3>2, PowerBelow
    <3>4. PICK d \in 0 .. 255 : d = Padded(s)[k]
      BY <1>2, <3>1
    <3>5. f[k] = 256 * v + d
      <4>1. f[k] = 256 * f[k - 1] + Padded(s)[k]
        BY <1>1, <3>1
      <4> QED BY <3>2, <3>4, <4>1
    <3>6. f[k] < Power256[k] /\ k \in 0 .. BlockLen
      <4>1. 256 * v + d < 256 * p
        <5>1. v < p
          BY <3>2
        <5> QED BY <5>1
      <4>2. f[k] < Power256[k]
        BY <3>3, <3>5, <4>1, Zenon
      <4> QED BY <3>1, <4>2
    <3> QED BY <3>6
  <2> HIDE DEF U
  <2>3. \A k \in 0 .. BlockLen : k \in U
    BY <2>1, <2>2, Reached, GcmSizes
  <2> QED BY <1>1, <2>3 DEF U
<1>4. ASSUME NEW k \in 0 .. BlockLen
      PROVE  f[BlockLen] \div Power256[BlockLen - k] = f[k]
  <2> DEFINE U == {n \in k .. BlockLen : f[n] \div Power256[n - k] = f[k]}
  <2>1. k \in U
    <3>1. f[k] \in Nat /\ f[k] \div 1 = f[k] /\ k - k = 0 /\ k \in k .. BlockLen
      BY <1>1, GcmSizes
    <3> QED BY <3>1, PowerFacts
  <2>2. ASSUME NEW n \in (k + 1) .. BlockLen, n - 1 \in U PROVE n \in U
    <3>1. /\ n \in 1 .. BlockLen /\ n \in k .. BlockLen /\ n - 1 \in 0 .. BlockLen
          /\ n - k \in Nat /\ n - k >= 1 /\ (n - 1) - k = (n - k) - 1
      BY GcmSizes
    <3>2. PICK v \in Nat, p \in Nat \ {0} :
               v = f[n - 1] /\ p = Power256[(n - k) - 1] /\ Power256[n - k] = 256 * p
      <4>1. f[n - 1] \in Nat
        BY <1>1, <3>1
      <4>2. /\ Power256[(n - k) - 1] \in Nat \ {0}
            /\ Power256[n - k] = 256 * Power256[(n - k) - 1]
        BY <3>1, PowerBelow
      <4> QED BY <4>1, <4>2
    <3>3. v \div p = f[k]
      BY <2>2, <3>1, <3>2
    <3>4. PICK d \in 0 .. 255 : d = Padded(s)[n]
      BY <1>2, <3>1
    <3>5. f[n] = 256 * v + d
      <4>1. f[n] = 256 * f[n - 1] + Padded(s)[n]
        BY <1>1, <3>1
      <4> QED BY <3>2, <3>4, <4>1
    <3>6. PICK x \in Nat, e \in Nat \ {0} : x = 256 * v + d /\ e = 256 * p
      OBVIOUS
    <3>7. f[n] \div Power256[n - k] = f[k]
      <4>1. f[n] = x /\ Power256[n - k] = e
        BY <3>2, <3>5, <3>6
      <4>2. x \div e = v \div p
        <5>1. Appended(v, p, d, x, e)
          BY <3>6 DEF Appended
        <5>2. d \in Nat /\ d < 256
          OBVIOUS
        <5>3. SameQuotient(x, e, v, p)
          BY <5>1, <5>2, DigitDropped
        <5> QED BY <5>3 DEF SameQuotient
      <4> QED BY <3>3, <4>1, <4>2, Zenon
    <3> QED BY <3>1, <3>7
  <2> HIDE DEF U
  <2>3. k \in Nat /\ BlockLen \in Nat /\ BlockLen \in k .. BlockLen
    BY GcmSizes
  <2>4. \A n \in k .. BlockLen : n \in U
    BY <2>1, <2>2, <2>3, Reached
  <2> QED BY <2>3, <2>4 DEF U
<1> QED
  BY <1>3, <1>4

\* A block is a number of its range, and its bytes are those it was made of.
LEMMA BlockFacts ==
    ASSUME NEW s \in Seq(Uint8)
    PROVE  /\ BlockOf(s) \in BlockRange
           /\ BytesOf(BlockOf(s)) = Padded(s)
           /\ Len(s) < BlockLen => BlockOf(s) + 1 \in BlockRange
<1>1. PICK f : ReadsBlock(f, s) /\ BlockOf(s) = f[BlockLen]
  BY BlockIsRead
<1>2. /\ f[0] = 0
      /\ \A k \in 1 .. BlockLen : f[k] = 256 * f[k - 1] + Padded(s)[k]
  BY <1>1 DEF ReadsBlock
<1>3. /\ \A k \in 0 .. BlockLen : f[k] \in Nat /\ f[k] < Power256[k]
      /\ \A k \in 0 .. BlockLen : f[BlockLen] \div Power256[BlockLen - k] = f[k]
  BY <1>1, BlockDigits
<1>4. BlockOf(s) \in BlockRange
  BY <1>1, <1>3, BlockRangeFacts, GcmSizes DEF BlockRange, BlockMod
<1>5. ASSUME NEW k \in 1 .. BlockLen PROVE BytesOf(BlockOf(s))[k] = Padded(s)[k]
  <2>1. k \in 0 .. BlockLen /\ k - 1 \in 0 .. BlockLen
    BY GcmSizes
  <2>2. BytesOf(BlockOf(s))[k] = f[k] % 256
    BY <1>1, <1>3, <2>1 DEF BytesOf
  <2>3. PICK v \in Nat, d \in 0 .. 255 : v = f[k - 1] /\ d = Padded(s)[k]
    BY <1>3, <2>1, PaddedFacts DEF Uint8
  <2>4. f[k] = 256 * v + d
    BY <1>2, <2>3
  <2>5. (256 * v + d) % 256 = d
    OBVIOUS
  <2> QED BY <2>2, <2>3, <2>4, <2>5
<1>6. BytesOf(BlockOf(s)) = Padded(s)
  <2>1. /\ \E g : BytesOf(BlockOf(s)) = [k \in 1 .. BlockLen |-> g[k]]
        /\ \E g : Padded(s) = [k \in 1 .. BlockLen |-> g[k]]
    <3>1. BytesOf(BlockOf(s)) = [k \in 1 .. BlockLen |-> BytesOf(BlockOf(s))[k]]
      BY DEF BytesOf
    <3>2. Padded(s) = [k \in 1 .. BlockLen |-> Padded(s)[k]]
      BY DEF Padded
    <3> QED BY <3>1, <3>2
  <2> QED BY <1>5, <2>1
<1>7. Len(s) < BlockLen => BlockOf(s) + 1 \in BlockRange
  <2> SUFFICES ASSUME Len(s) < BlockLen PROVE BlockOf(s) + 1 \in BlockRange
    OBVIOUS
  <2>1. BlockLen \in 1 .. BlockLen /\ BlockLen - 1 \in 0 .. BlockLen
    BY GcmSizes
  <2>2. Padded(s)[BlockLen] = 0
    BY <2>1, GcmSizes DEF Padded
  <2>3. PICK v, p \in Nat : v = f[BlockLen - 1] /\ p = Power256[BlockLen - 1] /\ v < p
    <3>1. f[BlockLen - 1] \in Nat /\ f[BlockLen - 1] < Power256[BlockLen - 1]
      BY <1>3, <2>1
    <3>2. Power256[BlockLen - 1] \in Nat
      BY PowerBelow, GcmSizes
    <3> QED BY <3>1, <3>2
  <2>4. f[BlockLen] = 256 * v
    BY <1>2, <2>1, <2>2, <2>3
  <2>5. BlockMod = 256 * p
    BY <2>3, PowerBelow, GcmSizes DEF BlockMod
  <2> QED BY <1>1, <2>3, <2>4, <2>5 DEF BlockRange
<1> QED
  BY <1>4, <1>6, <1>7

LEMMA BytesOfType ==
    ASSUME NEW b \in Int
    PROVE  /\ BytesOf(b) \in [1 .. BlockLen -> Uint8]
           /\ BytesOf(b) \in Seq(Uint8) /\ Len(BytesOf(b)) = BlockLen
<1>1. ASSUME NEW k \in 1 .. BlockLen
      PROVE  (b \div Power256[BlockLen - k]) % 256 \in Uint8
  <2>1. PICK p \in Nat \ {0} : p = Power256[BlockLen - k]
    <3>1. BlockLen - k \in Nat
      BY GcmSizes
    <3> QED BY <3>1, PowerFacts
  <2>2. PICK x \in Int : x = b \div p
    OBVIOUS
  <2> QED BY <2>1, <2>2 DEF Uint8
<1>2. BytesOf(b) \in [1 .. BlockLen -> Uint8]
  BY <1>1 DEF BytesOf
<1> HIDE DEF Uint8
<1>3. \A g \in [1 .. BlockLen -> Uint8] : g \in Seq(Uint8) /\ Len(g) = BlockLen
  BY GcmSizes
<1> QED
  BY <1>2, <1>3

\* The block of the bytes of a block.
LEMMA BlockOfBytesOf ==
    ASSUME NEW b \in BlockRange
    PROVE  BlockOf(BytesOf(b)) = b
<1>0. b \in Nat /\ b < BlockMod /\ BlockMod = Power256[BlockLen]
  BY BlockRangeFacts DEF BlockRange, BlockMod
<1>1. PICK s : s = BytesOf(b)
  OBVIOUS
<1>2. s \in [1 .. BlockLen -> Uint8] /\ s \in Seq(Uint8) /\ Len(s) = BlockLen
  BY <1>0, <1>1, BytesOfType
<1>3. PICK f : ReadsBlock(f, s) /\ BlockOf(s) = f[BlockLen]
  BY <1>2, BlockIsRead
<1>4. /\ f[0] = 0
      /\ \A k \in 1 .. BlockLen : f[k] = 256 * f[k - 1] + Padded(s)[k]
  BY <1>3 DEF ReadsBlock
<1> DEFINE U == {k \in 0 .. BlockLen : f[k] = b \div Power256[BlockLen - k]}
<1>5. 0 \in U
  <2>1. PICK p \in Nat \ {0} : p = Power256[BlockLen]
    BY PowerFacts, GcmSizes
  <2>2. b \div p = 0
    BY <1>0, <2>1
  <2>3. 0 \in 0 .. BlockLen /\ BlockLen - 0 = BlockLen
    BY GcmSizes
  <2> QED BY <1>4, <2>1, <2>2, <2>3
<1>6. ASSUME NEW k \in (0 + 1) .. BlockLen, k - 1 \in U PROVE k \in U
  <2>1. /\ k \in 1 .. BlockLen /\ k \in 0 .. BlockLen /\ k - 1 \in 0 .. BlockLen
        /\ BlockLen - k \in Nat /\ (BlockLen - k) + 1 = BlockLen - (k - 1)
    BY GcmSizes
  <2>2. PICK p \in Nat \ {0} : p = Power256[BlockLen - k] /\ Power256[BlockLen - (k - 1)] = 256 * p
    BY <2>1, PowerFacts
  <2>3. f[k - 1] = b \div (256 * p)
    BY <1>6, <2>2
  <2>4. PICK x \in Nat : x = b \div p
    BY <1>0
  <2>5. f[k - 1] = x \div 256
    BY <1>0, <2>3, <2>4, DividedTwice
  <2>6. Padded(s)[k] = x % 256
    <3>1. Padded(s)[k] = s[k]
      BY <1>2, <2>1, GcmSizes DEF Padded
    <3>2. s[k] = (b \div p) % 256
      BY <1>1, <2>1, <2>2 DEF BytesOf
    <3> QED BY <2>4, <3>1, <3>2
  <2>7. f[k] = 256 * (x \div 256) + (x % 256)
    BY <1>4, <2>1, <2>5, <2>6
  <2>8. 256 * (x \div 256) + (x % 256) = x
    OBVIOUS
  <2> QED BY <2>1, <2>2, <2>4, <2>7, <2>8
<1> HIDE DEF U
<1>7. BlockLen \in U
  <2>1. \A k \in 0 .. BlockLen : k \in U
    BY <1>5, <1>6, Reached, GcmSizes
  <2> QED BY <2>1, GcmSizes
<1>8. f[BlockLen] = b \div Power256[0]
  <2>1. BlockLen - BlockLen = 0
    BY GcmSizes
  <2> QED BY <1>7, <2>1 DEF U
<1>9. b \div 1 = b
  BY <1>0
<1> QED
  BY <1>1, <1>3, <1>8, <1>9, PowerFacts

-----------------------------------------------------------------------------
(* What GCM computes with blocks.                                           *)

LEMMA XorBlocksType ==
    ASSUME NEW a \in Int, NEW b \in Int
    PROVE  xorBlocks(a, b) \in BlockRange
<1> DEFINE s == [k \in 1 .. BlockLen |-> Xor(BytesOf(a)[k], BytesOf(b)[k])]
<1>1. BytesOf(a) \in [1 .. BlockLen -> Uint8] /\ BytesOf(b) \in [1 .. BlockLen -> Uint8]
  BY BytesOfType
<1>2. \A k \in 1 .. BlockLen : Xor(BytesOf(a)[k], BytesOf(b)[k]) \in Uint8
  BY <1>1, XorType
<1>3. s \in Seq(Uint8)
  BY <1>2, GcmSizes
<1>4. xorBlocks(a, b) = BlockOf(s)
  BY DEF xorBlocks
<1> HIDE DEF s
<1> QED
  BY <1>3, <1>4, BlockFacts

\* A block shifted to the right, with the polynomial if a bit was shifted out.
LEMMA ShiftType ==
    ASSUME NEW v \in BlockRange
    PROVE  /\ rightshiftBlock(v) \in BlockRange
           /\ xorBlocks(rightshiftBlock(v), BlockOf(<<R_POLY>>)) \in BlockRange
<1>1. rightshiftBlock(v) \in BlockRange
  BY BlockRangeFacts DEF rightshiftBlock, BlockRange
<1>2. <<R_POLY>> \in Seq(Uint8)
  BY GcmSizes
<1>3. \A b \in BlockRange : b \in Int
  BY BlockRangeFacts DEF BlockRange
<1>4. BlockOf(<<R_POLY>>) \in BlockRange
  BY <1>2, BlockFacts
<1> QED
  BY <1>1, <1>3, <1>4, XorBlocksType

LEMMA ProductType ==
    ASSUME NEW x \in BlockRange, NEW y
    PROVE  gfMultBlock(x, y) \in BlockRange
<1> DEFINE S == [p : BlockRange, v : BlockRange]
           shifted(v) == IF v % 2 = 0 THEN rightshiftBlock(v)
                         ELSE xorBlocks(rightshiftBlock(v), BlockOf(<<R_POLY>>))
           after(n, s) == [p |-> IF Bit(y, n) = 1 THEN xorBlocks(s.p, s.v) ELSE s.p,
                           v |-> shifted(s.v)]
           turn(n) == [s \in S |-> after(n, s)]
           first == [p |-> 0, v |-> x]
           Eq(f) == f = [n \in 0 .. (8 * BlockLen) |->
                            IF n = 0 THEN first ELSE turn(n - 1)[f[n - 1]]]
           step == [n \in 1 .. (8 * BlockLen) |-> turn(n - 1)]
<1>1. gfMultBlock(x, y) = (CHOOSE f : Eq(f))[8 * BlockLen].p
  BY DEF gfMultBlock, BlockRange
<1>2. first \in S
  BY BlockRangeFacts
<1>3. ASSUME NEW n, NEW s \in S PROVE turn(n)[s] \in S
  <2>1. s.p \in BlockRange /\ s.v \in BlockRange
    OBVIOUS
  <2>2. shifted(s.v) \in BlockRange
    BY <2>1, ShiftType
  <2>3. \A b \in BlockRange : b \in Int
    BY BlockRangeFacts DEF BlockRange
  <2>4. xorBlocks(s.p, s.v) \in BlockRange
    BY <2>1, <2>3, XorBlocksType
  <2> HIDE DEF shifted
  <2>5. after(n, s) \in S
    BY <2>1, <2>2, <2>4
  <2> QED BY <2>5
<1>4. \A n : turn(n) \in [S -> S]
  <2> SUFFICES ASSUME NEW n PROVE turn(n) \in [S -> S]
    OBVIOUS
  <2>1. turn(n) = [s \in S |-> turn(n)[s]]
    OBVIOUS
  <2> HIDE DEF turn
  <2> QED BY <1>3, <2>1
<1> HIDE DEF S, turn, after, first
<1>5. 8 * BlockLen \in Nat /\ 8 * BlockLen \in 0 .. (8 * BlockLen)
  BY GcmSizes
<1>steps. step \in [1 .. (8 * BlockLen) -> [S -> S]]
  BY <1>4
<1>6. PICK g \in [0 .. (8 * BlockLen) -> S] : Stepwise(g, 8 * BlockLen, first, step)
  BY <1>2, <1>steps, <1>5, StepwiseExists
<1>7. g[0] = first /\ \A n \in 1 .. (8 * BlockLen) : g[n] = step[n][g[n - 1]]
  BY <1>6 DEF Stepwise
<1>8. ASSUME NEW n \in 1 .. (8 * BlockLen) PROVE g[n] = turn(n - 1)[g[n - 1]]
  <2>1. n - 1 \in 0 .. (8 * BlockLen)
    BY <1>5
  <2>2. g[n - 1] \in S
    BY <1>6, <2>1
  <2> QED BY <1>7, <2>2
<1>9. Eq(g)
  <2>1. g = [n \in 0 .. (8 * BlockLen) |-> g[n]]
    BY <1>6
  <2>2. \A n \in 0 .. (8 * BlockLen) : g[n] = IF n = 0 THEN first ELSE turn(n - 1)[g[n - 1]]
    BY <1>5, <1>7, <1>8
  <2> QED BY <2>1, <2>2
<1>10. PICK f : Eq(f) /\ gfMultBlock(x, y) = f[8 * BlockLen].p
  BY <1>1, <1>9
<1>11. f[0] \in S
  BY <1>2, <1>5, <1>10
<1>12. \A n \in 1 .. (8 * BlockLen) : f[n - 1] \in S => f[n] \in S
  <2>1. \A n \in 1 .. (8 * BlockLen) : f[n] = turn(n - 1)[f[n - 1]]
    BY <1>5, <1>10
  <2> QED BY <1>3, <2>1
<1>13. f[8 * BlockLen] \in S
  <2> HIDE DEF Eq
  <2>1. \A n \in 0 .. (8 * BlockLen) : f[n] \in S
    BY <1>5, <1>11, <1>12, PassedOn
  <2> QED BY <1>5, <2>1
<1> QED
  BY <1>10, <1>13 DEF S

\* The part of s from one position on up to another one, or to its end.
LEMMA UptoFacts ==
    ASSUME NEW s \in Seq(Uint8), NEW from \in Nat, from >= 1, NEW to \in Nat
    PROVE  Upto(s, from, to) \in Seq(Uint8)
<1>1. PICK last \in Nat : last = (IF to > Len(s) THEN Len(s) ELSE to) /\ last <= Len(s)
  OBVIOUS
<1>2. \A i \in from .. last : s[i] \in Uint8
  BY <1>1
<1>3. SubSeq(s, from, last) \in Seq(Uint8)
  BY <1>1, <1>2
<1> QED
  BY <1>1, <1>3 DEF Upto

LEMMA CeilType == ASSUME NEW n \in Nat PROVE Ceil(n) \in Nat
<1>1. PICK m \in Nat, d \in Nat \ {0} : m = n + BlockLen - 1 /\ d = BlockLen
  BY GcmSizes
<1>2. m \div d \in Nat
  OBVIOUS
<1> QED
  BY <1>1, <1>2 DEF Ceil

LEMMA GhashBlockType ==
    ASSUME NEW h, NEW s \in Seq(Uint8), NEW r \in BlockRange
    PROVE  ghashBlock(h, s, r) \in BlockRange
<1> DEFINE N == Ceil(Len(s))
           chunk(i) == BlockOf(Upto(s, i * BlockLen + 1, (i + 1) * BlockLen))
           multiplied == [x \in 0 .. (BlockMod - 1) |-> gfMultBlock(x, h)]
           turn(i, x) == multiplied[xorBlocks(x, chunk(i - 1))]
           Eq(f) == f = [i \in 0 .. N |-> IF i = 0 THEN r ELSE turn(i, f[i - 1])]
           S == BlockRange
           step == [i \in 1 .. N |-> [x \in S |-> turn(i, x)]]
<1>1. ghashBlock(h, s, r) = (CHOOSE f : Eq(f))[N]
  BY DEF ghashBlock
<1>2. N \in Nat
  BY CeilType
<1>3. ASSUME NEW i \in 1 .. N, NEW x \in S PROVE turn(i, x) \in S
  <2>1. (i - 1) * BlockLen + 1 \in Nat /\ (i - 1) * BlockLen + 1 >= 1 /\ ((i - 1) + 1) * BlockLen \in Nat
    <3>1. i - 1 \in Nat /\ (i - 1) * BlockLen \in Nat
      BY <1>2, GcmSizes
    <3> QED BY <3>1, GcmSizes
  <2>2. chunk(i - 1) \in BlockRange
    BY <2>1, UptoFacts, BlockFacts
  <2>3. \A b \in BlockRange : b \in Int
    BY BlockRangeFacts DEF BlockRange
  <2>4. xorBlocks(x, chunk(i - 1)) \in BlockRange
    BY <2>2, <2>3, XorBlocksType
  <2>5. \A y \in BlockRange : multiplied[y] \in BlockRange
    BY ProductType DEF BlockRange
  <2> HIDE DEF multiplied, chunk
  <2> QED BY <2>4, <2>5
<1> HIDE DEF S, turn, N
<1>4. step \in [1 .. N -> [S -> S]]
  BY <1>3
<1>5. r \in S
  BY DEF S
<1>6. PICK g \in [0 .. N -> S] : Stepwise(g, N, r, step)
  BY <1>2, <1>4, <1>5, StepwiseExists
<1>7. g[0] = r /\ \A i \in 1 .. N : g[i] = step[i][g[i - 1]]
  BY <1>6 DEF Stepwise
<1>8. ASSUME NEW i \in 1 .. N PROVE g[i] = turn(i, g[i - 1])
  <2>1. i - 1 \in 0 .. N
    BY <1>2
  <2>2. g[i - 1] \in S
    BY <1>6, <2>1
  <2> QED BY <1>7, <2>2
<1>9. Eq(g)
  <2>1. g = [i \in 0 .. N |-> g[i]]
    BY <1>6
  <2>2. \A i \in 0 .. N : g[i] = IF i = 0 THEN r ELSE turn(i, g[i - 1])
    BY <1>2, <1>7, <1>8
  <2> QED BY <2>1, <2>2
<1>10. PICK f : Eq(f) /\ ghashBlock(h, s, r) = f[N]
  BY <1>1, <1>9
<1>11. f[0] \in S
  BY <1>2, <1>5, <1>10
<1>12. \A i \in 1 .. N : f[i - 1] \in S => f[i] \in S
  <2>1. \A i \in 1 .. N : f[i] = turn(i, f[i - 1])
    BY <1>2, <1>10
  <2> QED BY <1>3, <2>1
<1>13. f[N] \in S
  <2> HIDE DEF Eq
  <2>1. \A i \in 0 .. N : f[i] \in S
    BY <1>2, <1>11, <1>12, PassedOn
  <2> QED BY <1>2, <2>1
<1> QED
  BY <1>10, <1>13 DEF S

LEMMA GhashType ==
    ASSUME NEW h, NEW s \in Seq(Uint8), NEW c \in Seq(Uint8)
    PROVE  ghash(h, s, c) \in BlockRange
<1>1. ghashBlock(h, s, 0) \in BlockRange
  BY BlockRangeFacts, GhashBlockType
<1>2. ghashBlock(h, c, ghashBlock(h, s, 0)) \in BlockRange
  BY <1>1, GhashBlockType
<1>3. lengthBlock(Len(s), Len(c)) \in Int
  <2>1. PICK m, n \in Nat, d \in Nat \ {0} : m = Len(s) /\ n = Len(c) /\ d = LengthMod
    BY GcmSizes
  <2>2. PICK p \in Nat : p = Power256[BlockLen \div 2]
    <3>1. BlockLen \div 2 \in Nat
      BY GcmSizes
    <3> QED BY <3>1, PowerFacts
  <2>3. PICK a, b \in Nat : a = (8 * m) % d /\ b = (8 * n) % d
    <3>1. PICK x, y \in Nat : x = 8 * m /\ y = 8 * n
      OBVIOUS
    <3>2. x % d \in Nat /\ y % d \in Nat
      OBVIOUS
    <3> QED BY <3>1, <3>2
  <2>4. lengthBlock(Len(s), Len(c)) = a * p + b
    BY <2>1, <2>2, <2>3 DEF lengthBlock
  <2> QED BY <2>4
<1>4. \A b \in BlockRange : b \in Int
  BY BlockRangeFacts DEF BlockRange
<1>5. xorBlocks(ghashBlock(h, c, ghashBlock(h, s, 0)), lengthBlock(Len(s), Len(c))) \in BlockRange
  BY <1>2, <1>3, <1>4, XorBlocksType
<1> QED
  BY <1>5, ProductType DEF ghash

-----------------------------------------------------------------------------
(* Buffers.                                                                 *)

\* The bytes of a buffer, and those that have been written.
LEMMA BytesFacts ==
    ASSUME NEW b, WellFormed(b)
    PROVE  /\ Bytes(b) \in Seq(Byte) /\ Len(Bytes(b)) = b.m_bufferSz
           /\ \A i \in 1 .. b.m_bufferSz : Bytes(b)[i] = b.m_buffer[i - 1]
           /\ Written(b) \in Seq(Byte) /\ Len(Written(b)) = b.m_writeIndex
           /\ b.m_bufferSz \in Nat /\ b.m_bufferSz <= MaxSize
<1>1. PICK sz, n \in Nat : sz = b.m_bufferSz /\ n = b.m_writeIndex /\ n <= sz
  BY Fields
<1>2. PICK arr \in Array(sz) : arr = b.m_buffer
  BY <1>1, Fields
<1>3. /\ Peek(arr, 0, sz) \in Seq(Byte) /\ Len(Peek(arr, 0, sz)) = sz
      /\ \A i \in 1 .. sz : Peek(arr, 0, sz)[i] = arr[0 + i - 1]
      /\ Peek(arr, 0, n) \in Seq(Byte) /\ Len(Peek(arr, 0, n)) = n
  <2>1. 0 \in Nat /\ 0 + sz <= sz /\ 0 + n <= sz
    BY <1>1
  <2>2. /\ Peek(arr, 0, sz) \in Seq(Byte) /\ Len(Peek(arr, 0, sz)) = sz
        /\ \A i \in 1 .. sz : Peek(arr, 0, sz)[i] = arr[0 + i - 1]
    BY <2>1, PeekFacts
  <2>3. Peek(arr, 0, n) \in Seq(Byte) /\ Len(Peek(arr, 0, n)) = n
    BY <2>1, PeekFacts
  <2> QED BY <2>2, <2>3
<1>4. \A i \in 1 .. sz : 0 + i - 1 = i - 1
  OBVIOUS
<1>5. b.m_bufferSz <= MaxSize
  BY Fields
<1>6. Bytes(b) = Peek(arr, 0, sz) /\ Written(b) = Peek(arr, 0, n)
  BY <1>1, <1>2 DEF Bytes, Written, length
<1>7. \A i \in 1 .. sz : Peek(arr, 0, sz)[i] = arr[i - 1]
  BY <1>3, <1>4
<1>8. \A i \in 1 .. b.m_bufferSz : Bytes(b)[i] = b.m_buffer[i - 1]
  <2>1. \A i \in 1 .. sz : Bytes(b)[i] = arr[i - 1]
    BY <1>6, <1>7
  <2> QED BY ONLY <1>1, <1>2, <2>1
<1>9. /\ Bytes(b) \in Seq(Byte) /\ Len(Bytes(b)) = sz
      /\ Written(b) \in Seq(Byte) /\ Len(Written(b)) = n
  BY <1>3, <1>6
<1> QED
  BY <1>1, <1>5, <1>8, <1>9

\* What a new buffer holds after bytes have been written to it.
LEMMA FilledFacts ==
    ASSUME NEW n \in Nat, n <= MaxSize, NEW s \in Seq(Byte), Len(s) <= n
    PROVE  /\ WellFormed(Filled(n, s))
           /\ Filled(n, s).m_bufferSz = n /\ Filled(n, s).m_readIndex = 0
           /\ Filled(n, s).m_writeIndex = Len(s)
           /\ Written(Filled(n, s)) = s
           /\ Len(s) = n => Bytes(Filled(n, s)) = s
<1> DEFINE b == NewBuffer(n)
           arr == Poke(Zeros(n), 0, s)
<1>1. WellFormed(b) /\ b.m_bufferSz = n /\ b.m_writeIndex = 0 /\ b.m_readIndex = 0 /\ b.m_buffer = Zeros(n)
  BY NewBufferFacts DEF NewBuffer, Buffer
<1>2. Len(s) \in Nat /\ Len(s) <= MaxSize
  BY SizeAssumption
<1>3. Zeros(n) \in Array(n)
  BY ByteFacts DEF Zeros, Array
<1>4. arr \in Array(n)
  BY <1>3, PokeFacts
<1> HIDE DEF b, arr
<1>5. writeArray(b, s).self = Buffer(n, arr, 0, Len(s))
  <2>1. 0 + Len(s) <= n /\ 0 + Len(s) = Len(s)
    BY <1>2
  <2>2. writeArray(b, s).self = Buffer(b.m_bufferSz, Poke(b.m_buffer, b.m_writeIndex, s),
                         b.m_readIndex, b.m_writeIndex + Len(s))
    BY <1>1, <1>2, <2>1, WriteEffect
  <2> QED BY <1>1, <2>1, <2>2 DEF arr
<1>6. Filled(n, s) = Buffer(n, arr, 0, Len(s))
  BY <1>5 DEF Filled, b
<1>7. WellFormed(Filled(n, s))
  BY <1>2, <1>4, <1>6, Assemble
<1>8. /\ Filled(n, s).m_bufferSz = n /\ Filled(n, s).m_readIndex = 0
      /\ Filled(n, s).m_writeIndex = Len(s) /\ Filled(n, s).m_buffer = arr
  BY <1>6 DEF Buffer
<1>9. \A i \in 1 .. Len(s) : arr[0 + i - 1] = s[i]
  <2> SUFFICES ASSUME NEW i \in 1 .. Len(s) PROVE arr[0 + i - 1] = s[i]
    OBVIOUS
  <2>1. PICK m \in Nat : m = Len(s) /\ m <= n
    BY <1>2
  <2>2. PICK k \in Nat : k = 0 + i - 1 /\ k \in 0 .. (n - 1) /\ k \in 0 .. (0 + m - 1) /\ k - 0 + 1 = i
    BY <2>1
  <2>3. DOMAIN Zeros(n) = 0 .. (n - 1)
    BY DEF Zeros
  <2>4. arr[k] = s[k - 0 + 1]
    BY <2>1, <2>2, <2>3 DEF arr, Poke
  <2> QED BY <2>2, <2>4
<1>10. Peek(arr, 0, Len(s)) = s
  <2>1. s = [i \in 1 .. Len(s) |-> s[i]]
    OBVIOUS
  <2>2. Peek(arr, 0, Len(s)) = [i \in 1 .. Len(s) |-> arr[0 + i - 1]]
    BY DEF Peek
  <2> QED BY <1>9, <2>1, <2>2
<1> QED
  BY <1>7, <1>8, <1>10 DEF Written, Bytes, length

LEMMA WholeFacts ==
    ASSUME NEW s \in Seq(Byte), Len(s) <= MaxSize
    PROVE  /\ WellFormed(Whole(s))
           /\ Whole(s).m_bufferSz = Len(s) /\ Whole(s).m_readIndex = 0
           /\ Whole(s).m_writeIndex = Len(s)
           /\ Written(Whole(s)) = s /\ Bytes(Whole(s)) = s
<1>1. Len(s) \in Nat
  OBVIOUS
<1> QED
  BY <1>1, FilledFacts DEF Whole

-----------------------------------------------------------------------------
(* The calls of GCM.                                                        *)

\* What is needed of the block cipher: it maps blocks to blocks and has an inverse.
CipherFact ==
    \A k \in Seq(Byte) : Len(k) = KeyLen =>
        \A b \in BlockRange : /\ Cipher(k, b) \in BlockRange /\ Decipher(k, b) \in BlockRange
                              /\ Decipher(k, Cipher(k, b)) = b

LEMMA EncryptedType ==
    ASSUME CipherFact, NEW k, WellFormed(k), NEW b \in BlockRange
    PROVE  Encrypted(k, b) \in BlockRange
  BY BytesFacts, BlockRangeFacts DEF CipherFact, Encrypted, size

LEMMA Y0Type ==
    ASSUME CipherFact, NEW k, WellFormed(k), NEW v, WellFormed(v)
    PROVE  Y0(k, v) \in BlockRange
<1>1. CASE length(v) = IvLen
  <2>1. IvLen \in Nat /\ IvLen < BlockLen /\ Byte = Uint8
    BY GcmSizes
  <2>2. IvLen <= MaxSize
    BY <1>1, Fields, SizeAssumption DEF length
  <2> DEFINE s == IF readBytes(v, IvLen).ok THEN readBytes(v, IvLen).out ELSE <<>>
  <2>3. readBytes(v, IvLen).out \in Seq(Byte)
    BY <2>1, <2>2, ReadFacts
  <2>4. readBytes(v, IvLen).ok => Len(readBytes(v, IvLen).out) = IvLen
    <3>1. readBytes(v, IvLen).ok => readBytes(v, IvLen).out = Peek(v.m_buffer, v.m_readIndex, IvLen)
      BY DEF readBytes, Result
    <3> QED BY <2>1, <3>1 DEF Peek
  <2>5. s \in Seq(Uint8) /\ Len(s) < BlockLen
    BY <2>1, <2>3, <2>4, GcmSizes
  <2>6. Y0(k, v) = BlockOf(s) + 1
    BY <1>1 DEF Y0
  <2> HIDE DEF s
  <2> QED BY <2>5, <2>6, BlockFacts
<1>2. CASE length(v) # IvLen
  <2>1. <<>> \in Seq(Uint8) /\ Written(v) \in Seq(Uint8)
    BY BytesFacts, GcmSizes
  <2> QED BY <1>2, <2>1, GhashType DEF Y0
<1> QED
  BY <1>1, <1>2

\* Whole blocks and the rest.
LEMMA BlocksAndRest ==
    ASSUME NEW n \in Nat
    PROVE  /\ n \div BlockLen \in Nat /\ n % BlockLen \in Nat /\ n % BlockLen < BlockLen
           /\ (n \div BlockLen) * BlockLen \in Nat
           /\ (n \div BlockLen) * BlockLen + (n % BlockLen) = n
<1>1. PICK d \in Nat \ {0} : d = BlockLen
  BY GcmSizes
<1>2. n \div d \in Nat /\ n % d \in Nat /\ n % d < d /\ (n \div d) * d + (n % d) = n
  OBVIOUS
<1>3. PICK q \in Nat : q = n \div d
  BY <1>2
<1>4. q * d \in Nat
  OBVIOUS
<1> QED
  BY <1>1, <1>2, <1>3, <1>4

LEMMA BlocksFit ==
    ASSUME NEW n \in Nat, NEW m \in Nat, ~(n * BlockLen <= m)
    PROVE  m \div BlockLen < n
<1>1. PICK d \in Nat \ {0} : d = BlockLen
  BY GcmSizes
<1>2. PICK q, r \in Nat : q = m \div d /\ r < d /\ m = q * d + r
  OBVIOUS
<1>3. ASSUME n <= q PROVE FALSE
  <2>1. q - n \in Nat /\ (q - n) * d \in Nat
    BY <1>3
  <2>2. (q - n) * d = q * d - n * d
    OBVIOUS
  <2>3. PICK x, y \in Nat : x = q * d /\ y = n * d
    OBVIOUS
  <2>4. ~(y <= m)
    BY <1>1, <2>3
  <2> QED BY <1>2, <2>1, <2>2, <2>3, <2>4
<1> QED
  BY <1>1, <1>2, <1>3

LEMMA ConcatFacts ==
    ASSUME NEW s \in Seq(Byte), NEW t \in Seq(Byte)
    PROVE  /\ s \o t \in Seq(Byte) /\ Len(s \o t) = Len(s) + Len(t)
           /\ \A i \in 1 .. Len(s) : (s \o t)[i] = s[i]
           /\ \A i \in 1 .. Len(t) : (s \o t)[Len(s) + i] = t[i]
  OBVIOUS

LEMMA ZeroFacts ==
    ASSUME NEW n \in Nat
    PROVE  Zero(n) \in Seq(Byte) /\ Len(Zero(n)) = n
  BY ByteFacts DEF Zero

\* A call sees as many bytes as have been written, and all of them as they are if
\* the buffer has been written to its end and is read from its start.
LEMMA SeenFacts ==
    ASSUME NEW b, WellFormed(b)
    PROVE  /\ SeenOf(b).bytes \in Seq(Byte) /\ Len(SeenOf(b).bytes) = b.m_writeIndex
           /\ b.m_readIndex = 0 /\ b.m_writeIndex = b.m_bufferSz =>
                 SeenOf(b).bytes = Bytes(b)
<1>1. PICK sz, i, l \in Nat : /\ sz = b.m_bufferSz /\ i = b.m_readIndex /\ l = b.m_writeIndex
                              /\ i <= sz /\ l <= sz /\ sz <= MaxSize
  BY Fields
<1>2. PICK arr \in Array(sz) : arr = b.m_buffer
  BY <1>1, Fields
<1>3. PICK n, extra \in Nat : /\ n = l \div BlockLen /\ extra = l % BlockLen
                              /\ extra < BlockLen /\ n * BlockLen \in Nat
                              /\ n * BlockLen + extra = l
  BY BlocksAndRest
<1>4. PICK left \in Nat : left = sz - i
  BY <1>1
<1>5. PICK whole \in Nat :
         /\ whole = (IF n * BlockLen <= left THEN n ELSE left \div BlockLen)
         /\ whole <= n /\ whole * BlockLen \in Nat /\ whole * BlockLen <= left
  <2>1. CASE n * BlockLen <= left
    BY <1>3, <2>1
  <2>2. CASE ~(n * BlockLen <= left)
    <3>1. /\ left \div BlockLen \in Nat /\ (left \div BlockLen) * BlockLen \in Nat
          /\ left % BlockLen \in Nat
          /\ (left \div BlockLen) * BlockLen + (left % BlockLen) = left
      BY BlocksAndRest
    <3>2. (left \div BlockLen) < n
      BY <2>2, BlocksFit
    <3>3. PICK q \in Nat : q = left \div BlockLen
      BY <3>1
    <3>4. PICK x \in Nat : x = q * BlockLen
      BY <3>1, <3>3
    <3>5. x <= left
      BY <3>1, <3>3, <3>4
    <3> QED BY <2>2, <3>2, <3>3, <3>4, <3>5
  <2> QED BY <2>1, <2>2
<1>6. PICK g \in Nat : g = whole * BlockLen /\ g <= left /\ i + g <= sz
  BY <1>1, <1>4, <1>5
<1>7. (n - whole) * BlockLen \in Nat /\ g + (n - whole) * BlockLen = n * BlockLen
  <2>1. n - whole \in Nat /\ BlockLen \in Nat
    BY <1>5, GcmSizes
  <2>2. (n - whole) * BlockLen \in Nat
    BY <2>1
  <2>3. whole * BlockLen + (n - whole) * BlockLen = n * BlockLen
    BY <2>1
  <2> QED BY <1>6, <2>2, <2>3
<1> DEFINE rest == ReadAt(b, i + g)
           tail == readBytes(rest, extra)
           head == Peek(arr, i, g)
           zeros == Zero((n - whole) * BlockLen)
           end == IF tail.ok THEN tail.out ELSE Zero(extra)
<1>8. SeenOf(b) = [bytes |-> head \o zeros \o end, self |-> tail.self]
  <2>1. size(b) = sz /\ length(b) = l
    BY <1>1 DEF size, length
  <2> QED BY <1>1, <1>2, <1>3, <1>4, <1>5, <1>6, <2>1 DEF SeenOf
<1>9. WellFormed(rest) /\ rest.m_readIndex = i + g /\ rest.m_buffer = arr /\ rest.m_bufferSz = sz
  <2>1. i + g \in Nat /\ i + g <= b.m_bufferSz
    BY <1>1, <1>6
  <2>2. b.m_buffer \in Array(b.m_bufferSz)
    BY Fields
  <2>3. WellFormed(ReadAt(b, i + g))
    BY <2>1, <2>2, Updates
  <2> QED BY <1>1, <1>2, <2>3 DEF ReadAt, Buffer
<1>10. head \in Seq(Byte) /\ Len(head) = g /\ \A k \in 1 .. g : head[k] = arr[i + k - 1]
  BY <1>6, PeekFacts
<1>11. zeros \in Seq(Byte) /\ Len(zeros) = (n - whole) * BlockLen
  BY <1>7, ZeroFacts
<1>12. extra <= MaxSize
  BY <1>1, <1>3, SizeAssumption
<1> HIDE DEF rest
<1>13. tail.out \in Seq(Byte) /\ tail.ok => Len(tail.out) = extra
  <2>1. tail.ok => tail.out = Peek(rest.m_buffer, rest.m_readIndex, extra)
    BY DEF readBytes, Result
  <2> QED BY <2>1, <1>3 DEF Peek
<1>14. tail.out \in Seq(Byte)
  BY <1>9, <1>12, ReadFacts
<1>15. end \in Seq(Byte) /\ Len(end) = extra
  BY <1>13, <1>14, ZeroFacts
<1> HIDE DEF head, zeros, tail, end
<1>16. /\ head \o zeros \o end \in Seq(Byte)
       /\ Len(head \o zeros \o end) = l
  <2>1. head \o zeros \in Seq(Byte) /\ Len(head \o zeros) = n * BlockLen
    BY <1>7, <1>10, <1>11, ConcatFacts
  <2> QED BY <1>3, <1>15, <2>1, ConcatFacts
<1>17. ASSUME b.m_readIndex = 0, b.m_writeIndex = b.m_bufferSz
       PROVE  head \o zeros \o end = Bytes(b)
  <2>1. i = 0 /\ l = sz /\ left = sz
    BY <1>1, <1>4, <1>17
  <2>2. n * BlockLen <= left
    <3>1. PICK x \in Nat : x = n * BlockLen /\ x + extra = l
      BY <1>3
    <3> QED BY <2>1, <3>1
  <2>3. whole = n /\ g + extra = sz
    BY <1>3, <1>5, <1>6, <2>1, <2>2
  <2>4. Len(zeros) = 0
    <3>1. n - whole = 0 /\ 0 * BlockLen = 0
      BY <2>3, GcmSizes
    <3> QED BY <1>11, <3>1
  <2>5. end = Peek(arr, g, extra)
    <3>1. rest.m_readIndex = g /\ g + extra <= rest.m_bufferSz
      BY <1>6, <1>9, <2>1, <2>3
    <3>2. readBytes(rest, extra) = Result(ReadAt(rest, rest.m_readIndex + extra), TRUE,
                                   Peek(rest.m_buffer, rest.m_readIndex, extra))
      BY <1>9, <1>12, <3>1, ReadFacts
    <3> QED BY <1>9, <3>1, <3>2 DEF end, tail, Result
  <2>6. \A k \in 1 .. extra : end[k] = arr[g + k - 1]
    BY <2>5 DEF Peek
  <2>7. Len(head \o zeros) = g /\ \A k \in 1 .. g : (head \o zeros)[k] = arr[k - 1]
    BY <1>10, <1>11, <2>1, <2>4
  <2>8. head \o zeros \in Seq(Byte)
    BY <1>10, <1>11, ConcatFacts
  <2>9. PICK h \in Seq(Byte) : h = head \o zeros
    BY <2>8
  <2>10. Len(h \o end) = sz /\ \A k \in 1 .. sz : (h \o end)[k] = arr[k - 1]
    <3>1. Len(h) = g /\ \A k \in 1 .. g : h[k] = arr[k - 1]
      BY <2>7, <2>9
    <3>2. ASSUME NEW k \in 1 .. sz PROVE (h \o end)[k] = arr[k - 1]
      <4>1. CASE k <= g
        BY <1>15, <3>1, <4>1, ConcatFacts
      <4>2. CASE ~(k <= g)
        <5>1. PICK j \in 1 .. extra : j = k - g /\ g + j = k /\ g + j - 1 = k - 1
          BY <2>3, <4>2
        <5>2. (h \o end)[Len(h) + j] = end[j]
          BY <1>15, <5>1, ConcatFacts
        <5>3. end[j] = arr[k - 1]
          BY <2>6, <5>1
        <5>4. Len(h) + j = k
          BY <3>1, <5>1
        <5> QED BY <5>2, <5>3, <5>4
      <4> QED BY <4>1, <4>2
    <3> QED BY <1>15, <2>3, <3>1, <3>2, ConcatFacts
  <2>11. /\ Bytes(b) \in Seq(Byte) /\ Len(Bytes(b)) = sz
         /\ \A k \in 1 .. sz : Bytes(b)[k] = arr[k - 1]
    BY <1>1, <1>2, BytesFacts
  <2>12. h \o end \in Seq(Byte)
    BY <1>15, ConcatFacts
  <2>13. PICK u, v \in Seq(Byte) : u = h \o end /\ v = Bytes(b)
    BY <2>11, <2>12
  <2>14. Len(u) = Len(v) /\ \A k \in 1 .. Len(u) : u[k] = v[k]
    BY <2>10, <2>11, <2>13
  <2>15. u = v
    BY <2>14
  <2> QED BY <2>9, <2>13, <2>15
<1> QED
  BY <1>1, <1>8, <1>16, <1>17

\* Every byte of the stream is a byte.
LEMMA StreamType ==
    ASSUME CipherFact, NEW k, WellFormed(k), NEW y \in BlockRange, NEW i \in Nat
    PROVE  BytesOf(Encrypted(k, incr(y, i \div BlockLen + 1)))[(i % BlockLen) + 1] \in Uint8
<1>1. i \div BlockLen + 1 \in Nat /\ (i % BlockLen) + 1 \in 1 .. BlockLen
  BY BlocksAndRest, GcmSizes
<1>2. PICK n \in Nat : n = i \div BlockLen + 1
  BY <1>1
<1>3. incr(y, n) \in BlockRange
  BY BlockRangeFacts DEF incr, BlockRange
<1>4. Encrypted(k, incr(y, n)) \in BlockRange
  BY <1>3, EncryptedType
<1>5. Encrypted(k, incr(y, n)) \in Int
  BY <1>4, BlockRangeFacts DEF BlockRange
<1>6. BytesOf(Encrypted(k, incr(y, n))) \in [1 .. BlockLen -> Uint8]
  BY <1>5, BytesOfType
<1> QED
  BY <1>1, <1>2, <1>6

\* The stream is taken off again by adding it a second time.
LEMMA StreamedFacts ==
    ASSUME CipherFact, NEW k, WellFormed(k), NEW y \in BlockRange, NEW s \in Seq(Byte)
    PROVE  /\ Streamed(k, y, s) \in Seq(Byte) /\ Len(Streamed(k, y, s)) = Len(s)
           /\ Streamed(k, y, Streamed(k, y, s)) = s
<1> DEFINE at_(i) == BytesOf(Encrypted(k, incr(y, (i - 1) \div BlockLen + 1)))
                            [((i - 1) % BlockLen) + 1]
<1>1. \A i \in 1 .. Len(s) : at_(i) \in Uint8
  <2> SUFFICES ASSUME NEW i \in 1 .. Len(s) PROVE at_(i) \in Uint8
    OBVIOUS
  <2>1. PICK j \in Nat : j = i - 1
    OBVIOUS
  <2> QED BY <2>1, StreamType
<1>2. \A t : Streamed(k, y, t) = [i \in 1 .. Len(t) |-> Xor(t[i], at_(i))]
  BY DEF Streamed
<1> HIDE DEF at_
<1>3. Byte = Uint8
  BY GcmSizes
<1>4. \A i \in 1 .. Len(s) : s[i] \in Uint8 /\ Xor(s[i], at_(i)) \in Uint8
  BY <1>1, <1>3, XorType
<1>5. Len(s) \in Nat
  OBVIOUS
<1>6. PICK t : t = Streamed(k, y, s)
  OBVIOUS
<1>7. t \in Seq(Byte) /\ Len(t) = Len(s) /\ \A i \in 1 .. Len(s) : t[i] = Xor(s[i], at_(i))
  <2>1. t = [i \in 1 .. Len(s) |-> Xor(s[i], at_(i))]
    BY <1>2, <1>6
  <2>2. \A i \in 1 .. Len(s) : Xor(s[i], at_(i)) \in Byte
    BY <1>3, <1>4
  <2> QED BY ONLY <1>5, <2>1, <2>2
<1>8. \A i \in 1 .. Len(s) : Xor(t[i], at_(i)) = s[i]
  BY <1>1, <1>4, <1>7, XorCancel
<1>9. Streamed(k, y, t) = s
  <2>1. s = [i \in 1 .. Len(s) |-> s[i]]
    OBVIOUS
  <2>2. Streamed(k, y, t) = [i \in 1 .. Len(s) |-> Xor(t[i], at_(i))]
    BY <1>2, <1>7
  <2> QED BY <1>8, <2>1, <2>2
<1> QED
  BY <1>6, <1>7, <1>9

LEMMA CryptedFacts ==
    ASSUME CipherFact, NEW k, WellFormed(k), NEW v, WellFormed(v), NEW b, WellFormed(b)
    PROVE  /\ WellFormed(Crypted(b, k, v))
           /\ Crypted(b, k, v).m_bufferSz = b.m_bufferSz
           /\ Written(Crypted(b, k, v)) = Streamed(k, Y0(k, v), SeenOf(b).bytes)
           /\ b.m_writeIndex = b.m_bufferSz => Bytes(Crypted(b, k, v)) = Written(Crypted(b, k, v))
<1>1. PICK sz, l \in Nat : sz = b.m_bufferSz /\ l = b.m_writeIndex /\ l <= sz /\ sz <= MaxSize
  BY Fields
<1>2. SeenOf(b).bytes \in Seq(Byte) /\ Len(SeenOf(b).bytes) = l
  BY <1>1, SeenFacts
<1>3. PICK s \in Seq(Byte) : s = Streamed(k, Y0(k, v), SeenOf(b).bytes) /\ Len(s) = l
  <2>1. PICK y \in BlockRange : y = Y0(k, v)
    BY Y0Type
  <2>2. PICK t \in Seq(Byte) : t = SeenOf(b).bytes /\ Len(t) = l
    BY <1>2
  <2>3. Streamed(k, y, t) \in Seq(Byte) /\ Len(Streamed(k, y, t)) = Len(t)
    BY StreamedFacts
  <2> QED BY <2>1, <2>2, <2>3
<1>4. Crypted(b, k, v) = Filled(sz, s)
  BY <1>1, <1>3 DEF Crypted, Filled, size
<1> QED
  BY <1>1, <1>3, <1>4, FilledFacts

LEMMA TagType ==
    ASSUME CipherFact, NEW k, WellFormed(k), NEW v, WellFormed(v), NEW a, WellFormed(a),
           NEW c, WellFormed(c)
    PROVE  TagOf(k, v, a, c) \in Seq(Byte) /\ Len(TagOf(k, v, a, c)) = BlockLen
<1>1. Written(a) \in Seq(Uint8) /\ Written(c) \in Seq(Uint8)
  BY BytesFacts, GcmSizes
<1>2. ghash(H(k), Written(a), Written(c)) \in BlockRange
  BY <1>1, GhashType
<1>3. Encrypted(k, Y0(k, v)) \in BlockRange
  BY Y0Type, EncryptedType
<1>4. \A b \in BlockRange : b \in Int
  BY BlockRangeFacts DEF BlockRange
<1>5. xorBlocks(ghash(H(k), Written(a), Written(c)), Encrypted(k, Y0(k, v))) \in Int
  BY <1>2, <1>3, <1>4, XorBlocksType
<1> QED
  BY <1>5, BytesOfType, GcmSizes DEF TagOf

\* The operators of ByteBufferOps under the name of the instance.
LEMMA SameOperators ==
    /\ \A n : B64!NewBuffer(n) = NewBuffer(n)
    /\ \A b, s : B64!writeArray(b, s) = writeArray(b, s)
    /\ \A a, i, n : B64!Peek(a, i, n) = Peek(a, i, n)
    /\ \A b, i : B64!at(b, i) = at(b, i)
    /\ \A b, i : B64!ReadAt(b, i) = ReadAt(b, i)
    /\ \A b : B64!size(b) = size(b)
<1>1. \A sz, a, i, j : B64!Buffer(sz, a, i, j) = Buffer(sz, a, i, j)
  BY DEF B64!Buffer, Buffer
<1>2. \A n : B64!NewBuffer(n) = NewBuffer(n)
  BY <1>1 DEF B64!NewBuffer, NewBuffer, B64!Zeros, Zeros
<1>3. \A b, i : B64!ReadAt(b, i) = ReadAt(b, i)
  BY <1>1 DEF B64!ReadAt, ReadAt
<1>4. \A b, i : B64!WriteAt(b, i) = WriteAt(b, i)
  BY <1>1 DEF B64!WriteAt, WriteAt
<1>5. \A b, a : B64!Holding(b, a) = Holding(b, a)
  BY <1>1 DEF B64!Holding, Holding
<1>6. \A b, i, n : B64!Fits(b, i, n) = Fits(b, i, n)
  BY DEF B64!Fits, Fits, B64!Add, Add
<1>7. \A a, i, s : B64!Poke(a, i, s) = Poke(a, i, s)
  BY DEF B64!Poke, Poke
<1>8. \A i, n : B64!Add(i, n) = Add(i, n)
  BY DEF B64!Add, Add
<1>9. \A b, ok, s : B64!Result(b, ok, s) = Result(b, ok, s)
  BY DEF B64!Result, Result
<1>10. \A b, s : B64!writeArray(b, s) = writeArray(b, s)
  BY <1>4, <1>5, <1>6, <1>7, <1>8, <1>9 DEF B64!writeArray, writeArray
<1>11. \A a, i, n : B64!Peek(a, i, n) = Peek(a, i, n)
  BY DEF B64!Peek, Peek
<1>12. \A b, i : B64!at(b, i) = at(b, i)
  BY DEF B64!at, at
<1>13. \A b : B64!size(b) = size(b)
  BY DEF B64!size, size
<1> QED
  BY <1>2, <1>3, <1>10, <1>11, <1>12, <1>13

-----------------------------------------------------------------------------
(* Base64: digits.                                                          *)

Sixbit == 0 .. 63
Pad == B64!m_base64Pad
Char(d) == B64!Char(d)
Digit == B64!Digit

LEMMA CharFacts ==
    /\ \A d \in Sixbit : Char(d) \in 43 .. 122 /\ Char(d) # 61
    /\ \A d, e \in Sixbit : Char(d) = Char(e) => d = e
    /\ Pad = 61
<1>1. ASSUME NEW d \in Sixbit
      PROVE  \/ d \in 0 .. 25 /\ Char(d) = 65 + d
             \/ d \in 26 .. 51 /\ Char(d) = 71 + d
             \/ d \in 52 .. 61 /\ Char(d) = d - 4
             \/ d = 62 /\ Char(d) = 43
             \/ d = 63 /\ Char(d) = 47
  BY DEF Char, B64!Char, Sixbit
<1>2. \A d \in Sixbit : Char(d) \in 43 .. 122 /\ Char(d) # 61
  BY <1>1
<1>3. ASSUME NEW d \in Sixbit, NEW e \in Sixbit, Char(d) = Char(e) PROVE d = e
  BY <1>1, <1>3
<1>4. Pad = 61
  BY DEF Pad, B64!m_base64Pad
<1> QED
  BY <1>2, <1>3, <1>4

LEMMA DigitFacts ==
    /\ \A d \in Sixbit : Char(d) \in DOMAIN Digit /\ Digit[Char(d)] = d
    /\ \A c \in DOMAIN Digit : Digit[c] \in Sixbit
    /\ Pad \notin DOMAIN Digit
<1>1. Digit = [c \in {Char(d) : d \in Sixbit} |-> CHOOSE d \in Sixbit : Char(d) = c]
  BY DEF Digit, B64!Digit, Char, Sixbit
<1>2. DOMAIN Digit = {Char(d) : d \in Sixbit}
  BY <1>1
<1>3. ASSUME NEW e \in Sixbit PROVE Char(e) \in DOMAIN Digit /\ Digit[Char(e)] = e
  <2>1. Char(e) \in DOMAIN Digit
    BY <1>2
  <2>2. Digit[Char(e)] = CHOOSE d \in Sixbit : Char(d) = Char(e)
    BY <1>1, <2>1
  <2>3. \A d \in Sixbit : Char(d) = Char(e) <=> d = e
    BY CharFacts
  <2> HIDE DEF Sixbit
  <2> QED BY <2>1, <2>2, <2>3
<1>4. \A c \in DOMAIN Digit : \E d \in Sixbit : c = Char(d)
  BY <1>2
<1>5. \A c \in DOMAIN Digit : Digit[c] \in Sixbit
  BY <1>3, <1>4
<1>6. Pad \notin DOMAIN Digit
  BY <1>4, CharFacts
<1> QED
  BY <1>3, <1>5, <1>6

\* The digits of six bits and the bytes of a group, and the group they make.
First(t) == (t \div 262144) % 64
Second(t) == (t \div 4096) % 64
Third(t) == (t \div 64) % 64
Fourth(t) == t % 64
High(t) == (t \div 65536) % 256
Middle(t) == (t \div 256) % 256
Low(t) == t % 256
OfDigits(a, b, c, e) == a * 262144 + b * 4096 + c * 64 + e
OfBytes(x, y, z) == x * 65536 + y * 256 + z

LEMMA PartsType ==
    ASSUME NEW t \in Nat
    PROVE  /\ {First(t), Second(t), Third(t), Fourth(t)} \subseteq 0 .. 63
           /\ {High(t), Middle(t), Low(t)} \subseteq 0 .. 255
  BY SMT DEF First, Second, Third, Fourth, High, Middle, Low

LEMMA GroupFacts ==
    ASSUME NEW x \in Nat, NEW y \in Nat, NEW z \in Nat, x < 256, y < 256, z < 256,
           NEW t \in Nat, t = OfBytes(x, y, z)
    PROVE  /\ OfDigits(First(t), Second(t), Third(t), Fourth(t)) = t
           /\ High(t) = x /\ Middle(t) = y /\ Low(t) = z
           /\ z = 0 => Fourth(t) = 0
           /\ y = 0 /\ z = 0 => Third(t) = 0
<1> USE DEF OfBytes
<1>2. High(t) = x /\ Middle(t) = y /\ Low(t) = z
  <2>1. t \div 65536 = x /\ t \div 256 = x * 256 + y
    OBVIOUS
  <2>2. (x * 256 + y) % 256 = y /\ x % 256 = x /\ t % 256 = z
    OBVIOUS
  <2> QED BY <2>1, <2>2 DEF High, Middle, Low
<1>3. PICK u, v, h \in Nat : u = t \div 64 /\ v = t \div 4096 /\ h = t \div 262144
  OBVIOUS
<1>4. t = 64 * u + (t % 64) /\ u = 64 * v + (u % 64) /\ v = 64 * h + (v % 64)
  BY <1>3
<1>5. h < 64
  BY <1>3
<1>6. OfDigits(First(t), Second(t), Third(t), Fourth(t)) = t
  <2>1. h % 64 = h
    BY <1>5
  <2> QED BY <1>3, <1>4, <2>1 DEF OfDigits, First, Second, Third, Fourth
<1>7. z = 0 => Fourth(t) = 0
  BY DEF Fourth
<1>8. y = 0 /\ z = 0 => Third(t) = 0
  <2>1. y = 0 /\ z = 0 => t = 64 * (1024 * x)
    OBVIOUS
  <2>2. \A m \in Nat : (64 * m) \div 64 = m
    OBVIOUS
  <2>3. 1024 * x \in Nat /\ (1024 * x) % 64 = 0
    OBVIOUS
  <2> QED BY <2>1, <2>2, <2>3 DEF Third
<1> QED
  BY <1>2, <1>6, <1>7, <1>8

OrZero(s, k) == IF k \in DOMAIN s THEN s[k] ELSE 0
Group(s, q) == OfBytes(OrZero(s, 3 * q + 1), OrZero(s, 3 * q + 2), OrZero(s, 3 * q + 3))
Sextet(s, k) == B64!Sextet(s, k)
Octet(s, j) == B64!Octet(s, j)

LEMMA GroupType ==
    ASSUME NEW s \in Seq(Byte), NEW q \in Nat
    PROVE  /\ \A k \in Nat : OrZero(s, k) \in 0 .. 255
           /\ Group(s, q) \in Nat
<1>1. \A k \in Nat : OrZero(s, k) \in 0 .. 255
  <2>0. Byte = 0 .. 255
    BY GcmSizes DEF Uint8
  <2>1. \A k \in DOMAIN s : s[k] \in 0 .. 255
    <3>1. \A k \in DOMAIN s : s[k] \in Byte
      OBVIOUS
    <3> QED BY <2>0, <3>1
  <2> QED BY <2>1 DEF OrZero
<1>2. 3 * q + 1 \in Nat /\ 3 * q + 2 \in Nat /\ 3 * q + 3 \in Nat
  OBVIOUS
<1>3. PICK x, y, z \in 0 .. 255 : x = OrZero(s, 3 * q + 1) /\ y = OrZero(s, 3 * q + 2)
                                    /\ z = OrZero(s, 3 * q + 3)
  BY <1>1, <1>2
<1>4. Group(s, q) = OfBytes(x, y, z) /\ OfBytes(x, y, z) \in Nat
  <2>1. Group(s, q) = OfBytes(x, y, z)
    BY <1>3 DEF Group
  <2>2. OfBytes(x, y, z) \in Nat
    BY ONLY SMT DEF OfBytes
  <2> QED BY <2>1, <2>2
<1> QED
  BY <1>1, <1>4

\* Digit i of group q.
LEMMA SextetFacts ==
    ASSUME NEW s \in Seq(Byte), NEW q \in Nat
    PROVE  /\ Sextet(s, 4 * q) = First(Group(s, q))
           /\ Sextet(s, 4 * q + 1) = Second(Group(s, q))
           /\ Sextet(s, 4 * q + 2) = Third(Group(s, q))
           /\ Sextet(s, 4 * q + 3) = Fourth(Group(s, q))
<1>1. ASSUME NEW i \in 0 .. 3
      PROVE  Sextet(s, 4 * q + i) = (Group(s, q) \div 2 ^ (18 - 6 * i)) % 64
  <2>1. PICK k \in Nat : k = 4 * q + i
    OBVIOUS
  <2>2. k \div 4 = q /\ k % 4 = i
    BY <2>1
  <2>3. Sextet(s, k) = (LET g == 3 * (k \div 4)
                            temp == OrZero(s, g + 1) * 2 ^ 16 + OrZero(s, g + 2) * 2 ^ 8
                                      + OrZero(s, g + 3)
                        IN  (temp \div 2 ^ (18 - 6 * (k % 4))) % 64)
    BY DEF Sextet, B64!Sextet, OrZero, B64!OrZero
  <2>4. 2 ^ 16 = 65536 /\ 2 ^ 8 = 256
    OBVIOUS
  <2> QED BY <2>1, <2>2, <2>3, <2>4 DEF Group, OfBytes
<1>2. 2 ^ (18 - 6 * 0) = 262144 /\ 2 ^ (18 - 6 * 1) = 4096 /\ 2 ^ (18 - 6 * 2) = 64 /\ 2 ^ (18 - 6 * 3) = 1
  OBVIOUS
<1>3. 4 * q + 0 = 4 * q /\ 0 \in 0 .. 3 /\ 1 \in 0 .. 3 /\ 2 \in 0 .. 3 /\ 3 \in 0 .. 3
  OBVIOUS
<1>4. Group(s, q) \div 1 = Group(s, q)
  BY GroupType
<1>5. Sextet(s, 4 * q) = First(Group(s, q))
  BY <1>1, <1>2, <1>3, SMT DEF First
<1>6. Sextet(s, 4 * q + 1) = Second(Group(s, q))
  BY <1>1, <1>2, <1>3, SMT DEF Second
<1>7. Sextet(s, 4 * q + 2) = Third(Group(s, q))
  BY <1>1, <1>2, <1>3, SMT DEF Third
<1>8. Sextet(s, 4 * q + 3) = Fourth(Group(s, q))
  BY <1>1, <1>2, <1>3, <1>4, SMT DEF Fourth
<1> QED
  BY <1>5, <1>6, <1>7, <1>8

\* Every number is a group and a place in it.
LEMMA InGroups ==
    ASSUME NEW k \in Nat
    PROVE  \E q \in Nat, i \in 0 .. 3 : k = 4 * q + i
<1>1. k \div 4 \in Nat /\ k % 4 \in 0 .. 3 /\ k = 4 * (k \div 4) + (k % 4)
  OBVIOUS
<1> QED
  BY <1>1

LEMMA SextetIsDigit ==
    ASSUME NEW s \in Seq(Byte), NEW k \in Nat
    PROVE  Sextet(s, k) \in Sixbit
<1>1. PICK q \in Nat, i \in 0 .. 3 : k = 4 * q + i
  BY InGroups
<1>2. PICK t \in Nat : t = Group(s, q)
  BY GroupType
<1>3. {First(t), Second(t), Third(t), Fourth(t)} \subseteq Sixbit
  BY PartsType DEF Sixbit
<1>4. i = 0 \/ i = 1 \/ i = 2 \/ i = 3
  OBVIOUS
<1>5. CASE i = 0
  <2>1. k = 4 * q
    BY <1>1, <1>5
  <2> QED BY <1>2, <1>3, <2>1, SextetFacts
<1>6. CASE i = 1
  BY <1>1, <1>2, <1>3, <1>6, SextetFacts
<1>7. CASE i = 2
  BY <1>1, <1>2, <1>3, <1>7, SextetFacts
<1>8. CASE i = 3
  BY <1>1, <1>2, <1>3, <1>8, SextetFacts
<1> QED
  BY <1>4, <1>5, <1>6, <1>7, <1>8

\* How many digits and how many groups n bytes have.
Digits(n) == B64!Ceiling(4 * n, 3)
Groups(n) == B64!Ceiling(n, 3)

LEMMA DigitCounts ==
    ASSUME NEW n \in Nat
    PROVE  \E g \in Nat :
             \/ n = 3 * g /\ Digits(n) = 4 * g /\ Groups(n) = g
             \/ n = 3 * g + 1 /\ Digits(n) = 4 * g + 2 /\ Groups(n) = g + 1
             \/ n = 3 * g + 2 /\ Digits(n) = 4 * g + 3 /\ Groups(n) = g + 1
<1>1. PICK g \in Nat, r \in 0 .. 2 : n = 3 * g + r
  <2>1. n \div 3 \in Nat /\ n % 3 \in 0 .. 2 /\ n = 3 * (n \div 3) + (n % 3)
    OBVIOUS
  <2> QED BY <2>1
<1>2. Digits(n) = (4 * n + 3 - 1) \div 3 /\ Groups(n) = (n + 3 - 1) \div 3
  BY DEF Digits, Groups, B64!Ceiling
<1>3. CASE r = 0
  <2>1. (4 * n + 3 - 1) \div 3 = 4 * g /\ (n + 3 - 1) \div 3 = g
    BY <1>1, <1>3
  <2> QED BY <1>1, <1>2, <1>3, <2>1
<1>4. CASE r = 1
  <2>1. (4 * n + 3 - 1) \div 3 = 4 * g + 2 /\ (n + 3 - 1) \div 3 = g + 1
    BY <1>1, <1>4
  <2> QED BY <1>1, <1>2, <1>4, <2>1
<1>5. CASE r = 2
  <2>1. (4 * n + 3 - 1) \div 3 = 4 * g + 3 /\ (n + 3 - 1) \div 3 = g + 1
    BY <1>1, <1>5
  <2> QED BY <1>1, <1>2, <1>5, <2>1
<1> QED
  BY <1>3, <1>4, <1>5

\* The Base64 text of some bytes.
Base64Of(s) == [k \in 1 .. (4 * Groups(Len(s))) |->
                   IF k <= Digits(Len(s)) THEN Char(Sextet(s, k - 1)) ELSE Pad]

LEMMA Base64OfType ==
    ASSUME NEW s \in Seq(Byte)
    PROVE  /\ Base64Of(s) \in Seq(Byte) /\ Len(Base64Of(s)) = 4 * Groups(Len(s))
           /\ 4 * Groups(Len(s)) \in Nat
<1>1. 4 * Groups(Len(s)) \in Nat
  <2>1. Len(s) \in Nat
    OBVIOUS
  <2> QED BY <2>1, DigitCounts
<1>2. Byte = 0 .. 255
  BY GcmSizes DEF Uint8
<1>3. ASSUME NEW k \in 1 .. (4 * Groups(Len(s)))
      PROVE  (IF k <= Digits(Len(s)) THEN Char(Sextet(s, k - 1)) ELSE Pad) \in Byte
  <2>1. k - 1 \in Nat
    BY <1>1
  <2>2. Char(Sextet(s, k - 1)) \in 43 .. 122
    BY <2>1, SextetIsDigit, CharFacts
  <2>3. Pad = 61
    BY CharFacts
  <2> QED BY <1>2, <2>2, <2>3
<1> QED
  BY <1>1, <1>3 DEF Base64Of

\* What the encoder returns.
Base64Result(b) == B64!encryptBase64(b).out

LEMMA EncodedFacts ==
    ASSUME NEW b, WellFormed(b)
    PROVE  /\ size(Base64Result(b)) <= MaxSize => WellFormed(Base64Result(b))
           /\ size(Base64Result(b)) <= MaxSize /\ b.m_readIndex = 0 =>
                 /\ Bytes(Base64Result(b)) = Base64Of(Bytes(b))
                 /\ Base64Result(b).m_readIndex = 0
<1> DEFINE o == Base64Result(b)
           n == b.m_bufferSz
           s == Base64Of(Bytes(b))
<1>1. o = IF b.m_readIndex > 0 THEN NewBuffer(0)
          ELSE writeArray(NewBuffer(4 * Groups(n)), s).self
  <2>1. Len(Bytes(b)) = n
    BY BytesFacts
  <2>2. B64!size(b) = n
    BY SameOperators DEF size
  <2>3. B64!Peek(b.m_buffer, 0, n) = Bytes(b)
    BY SameOperators DEF Bytes
  <2> DEFINE chars == [k \in 1 .. (4 * B64!Ceiling(n, 3)) |->
                         IF k <= B64!Ceiling(4 * n, 3) THEN B64!Char(B64!Sextet(Bytes(b), k - 1))
                         ELSE B64!m_base64Pad]
  <2>4. chars = s
    BY <2>1 DEF Base64Of, Char, Sextet, Pad, Groups, Digits
  <2>5. o = IF b.m_readIndex > 0 THEN B64!Nothing
            ELSE B64!Holds(4 * B64!Ceiling(n, 3), chars)
    <3>1. B64!encryptBase64(b) =
            B64!Call(B64!ReadAt(b, n), IF b.m_readIndex > 0 THEN B64!Nothing
                                       ELSE B64!Holds(4 * B64!Ceiling(n, 3), chars))
      BY <2>2, <2>3 DEF B64!encryptBase64
    <3> HIDE DEF chars
    <3> QED BY <3>1 DEF B64!Call, Base64Result
  <2> HIDE DEF chars, s
  <2>6. B64!Holds(4 * B64!Ceiling(n, 3), s) = writeArray(NewBuffer(4 * Groups(n)), s).self
    BY SameOperators DEF B64!Holds, Groups
  <2>7. B64!Nothing = NewBuffer(0)
    BY SameOperators DEF B64!Nothing
  <2> QED BY <2>4, <2>5, <2>6, <2>7
<1>2. s \in Seq(Byte) /\ Len(s) = 4 * Groups(n) /\ 4 * Groups(n) \in Nat
  BY BytesFacts, Base64OfType
<1> HIDE DEF s
<1>3. CASE b.m_readIndex > 0
  <2>1. o = NewBuffer(0)
    BY <1>1, <1>3
  <2>2. WellFormed(NewBuffer(0))
    BY NewBufferFacts, SizeAssumption
  <2> QED BY <1>3, <2>1, <2>2
<1>4. CASE ~(b.m_readIndex > 0)
  <2>1. o = Filled(4 * Groups(n), s)
    BY <1>1, <1>4 DEF Filled
  <2>2. size(o) = 4 * Groups(n)
    BY <2>1 DEF Filled, writeArray, Result, WriteAt, Holding, NewBuffer, Buffer, size
  <2>3. size(o) <= MaxSize => WellFormed(o) /\ Bytes(o) = s /\ o.m_readIndex = 0
    <3>1. PICK m \in Nat : m = 4 * Groups(n)
      BY <1>2
    <3>2. m <= MaxSize => /\ WellFormed(Filled(m, s)) /\ Bytes(Filled(m, s)) = s
                          /\ Filled(m, s).m_readIndex = 0
      <4>1. Len(s) <= m /\ Len(s) = m
        BY <1>2, <3>1
      <4> QED BY <1>2, <4>1, FilledFacts
    <3> QED BY <2>1, <2>2, <3>1, <3>2
  <2> QED BY <2>3 DEF s
<1> QED
  BY <1>3, <1>4

Least(S) == CHOOSE k \in S : \A o \in S : k <= o

LEMMA LeastFacts ==
    ASSUME NEW S, S \subseteq Nat, S # {}
    PROVE  Least(S) \in S /\ \A o \in S : Least(S) <= o
<1>1. PICK k \in S : \A j \in S : ~(<<j, k>> \in OpToRel(<, Nat))
  BY WFMin, NatLessThanWellFounded
<1>2. \A j \in S : ~(j < k)
  BY <1>1 DEF OpToRel
<1>3. \A j \in S : k <= j
  BY <1>2
<1> QED
  BY <1>3 DEF Least

\* Where the decoder stops, and what it has decoded there.
Stops(chars) == B64!Stops(chars)
StopOf(chars) == B64!Stop(chars)
DigitsOf(chars) == [k \in 1 .. StopOf(chars) |-> Digit[chars[k]]]
DecodedOf(chars) == B64!Decoded(chars, StopOf(chars))
IsComplete(chars, n) == B64!Complete(chars, StopOf(chars), n)
Base64Decoded(b) == B64!decryptBase64(b).out
PaddingOf(b) == (IF at(b, size(b) - 1) = Pad THEN 1 ELSE 0)
                    + (IF at(b, size(b) - 2) = Pad THEN 1 ELSE 0)

LEMMA StopFacts ==
    ASSUME NEW chars \in Seq(Byte)
    PROVE  /\ StopOf(chars) \in Nat /\ StopOf(chars) <= Len(chars)
           /\ \A k \in 1 .. StopOf(chars) : chars[k] \in DOMAIN Digit
           /\ StopOf(chars) < Len(chars) => chars[StopOf(chars) + 1] \notin DOMAIN Digit
<1> DEFINE S == Stops(chars)
<1>1. S \subseteq 1 .. Len(chars) /\ Len(chars) \in Nat
  BY DEF Stops, B64!Stops
<1>2. \A k \in 1 .. Len(chars) : k \in S <=> chars[k] \notin DOMAIN Digit
  BY DEF Stops, B64!Stops, Digit
<1>3. StopOf(chars) = IF S = {} THEN Len(chars) ELSE Least(S) - 1
  BY DEF StopOf, B64!Stop, Stops, Least
<1> HIDE DEF S
<1>4. CASE S = {}
  BY <1>1, <1>2, <1>3, <1>4
<1>5. CASE S # {}
  <2>1. Least(S) \in S /\ \A o \in S : Least(S) <= o
    <3>1. S \subseteq Nat
      BY <1>1
    <3> QED BY <1>5, <3>1, LeastFacts
  <2>2. PICK m \in 1 .. Len(chars) : m = Least(S)
    BY <1>1, <2>1
  <2>3. StopOf(chars) = m - 1 /\ (m - 1) + 1 = m /\ m - 1 \in Nat /\ m - 1 < Len(chars)
    <3>1. m \in Nat /\ m >= 1 /\ m <= Len(chars)
      BY <1>1
    <3>2. StopOf(chars) = m - 1
      BY <1>3, <1>5, <2>2
    <3> QED BY <1>1, <3>1, <3>2
  <2>4. chars[m] \notin DOMAIN Digit
    BY <1>2, <2>1, <2>2
  <2>5. \A k \in 1 .. (m - 1) : chars[k] \in DOMAIN Digit
    <3>1. \A k \in 1 .. (m - 1) : k \in 1 .. Len(chars) /\ ~(m <= k)
      BY <1>1
    <3>2. \A k \in 1 .. (m - 1) : k \notin S
      BY <2>1, <2>2, <3>1
    <3> QED BY <1>2, <3>1, <3>2
  <2> QED BY <2>3, <2>4, <2>5
<1> QED
  BY <1>4, <1>5

\* Every byte of a group of digits is a byte.
LEMMA OctetFacts ==
    ASSUME NEW d, \A k \in Nat : OrZero(d, k) \in Sixbit, NEW q \in Nat, NEW t \in Nat,
           t = OfDigits(OrZero(d, 4 * q + 1), OrZero(d, 4 * q + 2),
                        OrZero(d, 4 * q + 3), OrZero(d, 4 * q + 4))
    PROVE  /\ Octet(d, 3 * q) = High(t)
           /\ Octet(d, 3 * q + 1) = Middle(t)
           /\ Octet(d, 3 * q + 2) = Low(t)
<1>1. ASSUME NEW i \in 0 .. 2
      PROVE  Octet(d, 3 * q + i) = (t \div 2 ^ (16 - 8 * i)) % 256
  <2>1. PICK j \in Nat : j = 3 * q + i
    OBVIOUS
  <2>2. j \div 3 = q /\ j % 3 = i
    BY <2>1
  <2>3. Octet(d, j) = (LET g == 4 * (j \div 3)
                           temp == OrZero(d, g + 1) * 2 ^ 18 + OrZero(d, g + 2) * 2 ^ 12
                                     + OrZero(d, g + 3) * 2 ^ 6 + OrZero(d, g + 4)
                       IN  (temp \div 2 ^ (16 - 8 * (j % 3))) % 256)
    BY DEF Octet, B64!Octet, OrZero, B64!OrZero
  <2>4. 2 ^ 18 = 262144 /\ 2 ^ 12 = 4096 /\ 2 ^ 6 = 64
    OBVIOUS
  <2> QED BY <2>1, <2>2, <2>3, <2>4, SMT DEF OfDigits
<1>2. 2 ^ (16 - 8 * 0) = 65536 /\ 2 ^ (16 - 8 * 1) = 256 /\ 2 ^ (16 - 8 * 2) = 1
  OBVIOUS
<1>3. 3 * q + 0 = 3 * q /\ 0 \in 0 .. 2 /\ 1 \in 0 .. 2 /\ 2 \in 0 .. 2 /\ t \div 1 = t
  OBVIOUS
<1>4. Octet(d, 3 * q) = High(t)
  BY <1>1, <1>2, <1>3, SMT DEF High
<1>5. Octet(d, 3 * q + 1) = Middle(t)
  BY <1>1, <1>2, <1>3, SMT DEF Middle
<1>6. Octet(d, 3 * q + 2) = Low(t)
  BY <1>1, <1>2, <1>3, SMT DEF Low
<1> QED
  BY <1>4, <1>5, <1>6

LEMMA DigitGroup ==
    ASSUME NEW d, \A k \in Nat : OrZero(d, k) \in Sixbit, NEW q \in Nat
    PROVE  \E t \in Nat : t = OfDigits(OrZero(d, 4 * q + 1), OrZero(d, 4 * q + 2),
                                      OrZero(d, 4 * q + 3), OrZero(d, 4 * q + 4))
<1>1. PICK x, y, z, u \in 0 .. 63 : /\ x = OrZero(d, 4 * q + 1) /\ y = OrZero(d, 4 * q + 2)
                                    /\ z = OrZero(d, 4 * q + 3) /\ u = OrZero(d, 4 * q + 4)
  <2>1. 4 * q + 1 \in Nat /\ 4 * q + 2 \in Nat /\ 4 * q + 3 \in Nat /\ 4 * q + 4 \in Nat
    OBVIOUS
  <2> QED BY <2>1 DEF Sixbit
<1>2. OfDigits(x, y, z, u) \in Nat
  BY SMT DEF OfDigits
<1> QED
  BY <1>1, <1>2

LEMMA InTriples ==
    ASSUME NEW j \in Nat
    PROVE  \E q \in Nat, i \in 0 .. 2 : j = 3 * q + i
<1>1. j \div 3 \in Nat /\ j % 3 \in 0 .. 2 /\ j = 3 * (j \div 3) + (j % 3)
  OBVIOUS
<1> QED
  BY <1>1

LEMMA OctetType ==
    ASSUME NEW d, \A k \in Nat : OrZero(d, k) \in Sixbit, NEW j \in Nat
    PROVE  Octet(d, j) \in 0 .. 255
<1>1. PICK q \in Nat, i \in 0 .. 2 : j = 3 * q + i
  BY InTriples
<1>2. PICK t \in Nat : t = OfDigits(OrZero(d, 4 * q + 1), OrZero(d, 4 * q + 2),
                                    OrZero(d, 4 * q + 3), OrZero(d, 4 * q + 4))
  BY DigitGroup
<1>3. Octet(d, 3 * q) = High(t) /\ Octet(d, 3 * q + 1) = Middle(t) /\ Octet(d, 3 * q + 2) = Low(t)
  BY <1>2, OctetFacts
<1>4. {High(t), Middle(t), Low(t)} \subseteq 0 .. 255
  BY PartsType
<1>5. j = 3 * q \/ j = 3 * q + 1 \/ j = 3 * q + 2
  BY <1>1
<1> QED
  BY <1>3, <1>4, <1>5

\* The digits read are six bits each.
LEMMA DigitsOfType ==
    ASSUME NEW chars \in Seq(Byte)
    PROVE  /\ \A k \in Nat : OrZero(DigitsOf(chars), k) \in Sixbit
           /\ DecodedOf(chars) \in Seq(Byte)
           /\ Len(DecodedOf(chars)) = (3 * StopOf(chars)) \div 4
<1>1. \A k \in 1 .. StopOf(chars) : Digit[chars[k]] \in Sixbit
  BY StopFacts, DigitFacts
<1>2. \A k \in Nat : OrZero(DigitsOf(chars), k) \in Sixbit
  <2>1. 0 \in Sixbit
    BY DEF Sixbit
  <2> QED BY <1>1, <2>1 DEF OrZero, DigitsOf
<1>3. PICK n \in Nat : n = (3 * StopOf(chars)) \div 4
  <2>1. PICK m \in Nat : m = StopOf(chars)
    BY StopFacts
  <2>2. (3 * m) \div 4 \in Nat
    OBVIOUS
  <2> QED BY <2>1, <2>2
<1>4. \A j \in 1 .. n : Octet(DigitsOf(chars), j - 1) \in Byte
  <2> SUFFICES ASSUME NEW j \in 1 .. n PROVE Octet(DigitsOf(chars), j - 1) \in Byte
    OBVIOUS
  <2>1. PICK i \in Nat : i = j - 1
    OBVIOUS
  <2>2. Octet(DigitsOf(chars), i) \in 0 .. 255
    BY <1>2, OctetType
  <2>3. Byte = 0 .. 255
    BY GcmSizes DEF Uint8
  <2> QED BY <2>1, <2>2, <2>3
<1>5. DecodedOf(chars) = [j \in 1 .. n |-> Octet(DigitsOf(chars), j - 1)]
  BY <1>3 DEF DecodedOf, B64!Decoded, StopOf, DigitsOf, Octet, Digit
<1>6. DecodedOf(chars) \in Seq(Byte) /\ Len(DecodedOf(chars)) = n
  BY <1>4, <1>5
<1> QED
  BY <1>2, <1>3, <1>6

\* The decoder in these words.
LEMMA DecoderIs ==
    ASSUME NEW b, WellFormed(b),
           NEW chars, chars = Peek(b.m_buffer, b.m_readIndex, b.m_bufferSz - b.m_readIndex)
    PROVE  Base64Decoded(b) =
             IF b.m_bufferSz % 4 # 0 \/ b.m_bufferSz = 0 THEN NewBuffer(0)
             ELSE IF IsComplete(chars, b.m_bufferSz)
             THEN writeArray(NewBuffer(3 * (b.m_bufferSz \div 4) - PaddingOf(b)),
                             DecodedOf(chars)).self
             ELSE NewBuffer(0)
<1> DEFINE n == b.m_bufferSz
           buffer == IF IsComplete(chars, n)
                     THEN B64!Holds(3 * (n \div 4) - B64!padding(b), DecodedOf(chars))
                     ELSE B64!Nothing
<1>1. B64!size(b) = n /\ B64!Peek(b.m_buffer, b.m_readIndex, n - b.m_readIndex) = chars
  BY SameOperators DEF size
<1>2. B64!decryptBase64(b).out = IF n % 4 # 0 \/ n = 0 THEN B64!Nothing ELSE buffer
  <2>1. B64!decryptBase64(b) =
          IF n % 4 # 0 \/ n = 0 THEN B64!Call(b, B64!Nothing)
          ELSE B64!Call(B64!ReadAt(b, b.m_readIndex + (B64!Stop(chars)
                                        + (IF B64!Stops(chars) = {} THEN 0 ELSE 1))), buffer)
    BY <1>1 DEF B64!decryptBase64, IsComplete, DecodedOf, StopOf
  <2> HIDE DEF buffer
  <2> QED BY <2>1 DEF B64!Call
<1>3. B64!padding(b) = PaddingOf(b)
  BY SameOperators DEF B64!padding, PaddingOf, Pad
<1>4. B64!Nothing = NewBuffer(0)
  BY SameOperators DEF B64!Nothing
<1>5. \A m, s : B64!Holds(m, s) = writeArray(NewBuffer(m), s).self
  BY SameOperators DEF B64!Holds
<1> QED
  BY <1>2, <1>3, <1>4, <1>5 DEF Base64Decoded

\* What is left of a text behind its cursor.
LEMMA RestFacts ==
    ASSUME NEW b, WellFormed(b)
    PROVE  /\ Peek(b.m_buffer, b.m_readIndex, b.m_bufferSz - b.m_readIndex) \in Seq(Byte)
           /\ b.m_readIndex = 0 =>
                Peek(b.m_buffer, b.m_readIndex, b.m_bufferSz - b.m_readIndex) = Bytes(b)
<1>1. PICK sz, i, n \in Nat : /\ sz = b.m_bufferSz /\ i = b.m_readIndex /\ n = sz - i
                              /\ i + n <= sz
  BY Fields
<1>2. PICK arr \in Array(sz) : arr = b.m_buffer
  BY <1>1, Fields
<1>3. Peek(arr, i, n) \in Seq(Byte)
  BY <1>1, PeekFacts
<1>4. ASSUME b.m_readIndex = 0 PROVE Peek(arr, i, n) = Bytes(b)
  <2>1. i = 0 /\ n = sz
    BY <1>1, <1>4
  <2> QED BY <1>1, <1>2, <2>1 DEF Bytes
<1> QED
  BY <1>1, <1>2, <1>3, <1>4

\* Whatever it is given, the decoder returns a buffer.
LEMMA DecodedIsBuffer ==
    ASSUME NEW b, WellFormed(b)
    PROVE  WellFormed(Base64Decoded(b))
<1>1. PICK chars \in Seq(Byte) :
         chars = Peek(b.m_buffer, b.m_readIndex, b.m_bufferSz - b.m_readIndex)
  BY RestFacts
<1>2. WellFormed(NewBuffer(0))
  BY NewBufferFacts, SizeAssumption
<1>3. PICK n \in Nat : n = b.m_bufferSz /\ n <= MaxSize
  BY Fields
<1>4. ASSUME ~(n % 4 # 0 \/ n = 0)
      PROVE  WellFormed(writeArray(NewBuffer(3 * (n \div 4) - PaddingOf(b)), DecodedOf(chars)).self)
  <2>1. PICK p \in 0 .. 2 : p = PaddingOf(b)
    BY DEF PaddingOf
  <2>2. PICK g \in Nat : g = n \div 4 /\ n = 4 * g /\ g >= 1
    <3>1. n % 4 = 0 /\ n > 0
      BY <1>4
    <3>2. n \div 4 \in Nat /\ n = 4 * (n \div 4)
      BY <3>1
    <3>3. PICK g \in Nat : g = n \div 4 /\ n = 4 * g
      BY <3>2
    <3> QED BY <3>1, <3>3
  <2>3. PICK m \in Nat : m = 3 * (n \div 4) - p /\ m <= n
    <3>1. 3 * g - p \in Nat /\ 3 * g - p <= n
      BY <2>2
    <3> QED BY <2>2, <3>1
  <2>4. WellFormed(NewBuffer(m))
    BY <1>3, <2>3, SizeAssumption, NewBufferFacts
  <2>5. DecodedOf(chars) \in Seq(Byte)
    BY DigitsOfType
  <2>6. WellFormed(writeArray(NewBuffer(m), DecodedOf(chars)).self)
    BY <2>4, <2>5, WriteFacts DEF Honest
  <2> QED BY <2>1, <2>3, <2>6
<1> QED
  BY <1>1, <1>2, <1>3, <1>4, DecoderIs

\* d holds the digits of s and no others.
HoldsDigits(d, s) ==
    /\ \A k \in 1 .. Digits(Len(s)) : k \in DOMAIN d /\ d[k] = Sextet(s, k - 1)
    /\ \A k \in Nat : k > Digits(Len(s)) => k \notin DOMAIN d

\* A digit that was not written reads as the zero it would have been.
LEMMA DigitsRead ==
    ASSUME NEW s \in Seq(Byte), NEW d, HoldsDigits(d, s), NEW q \in Nat, 3 * q < Len(s)
    PROVE  /\ OrZero(d, 4 * q + 1) = Sextet(s, 4 * q)
           /\ OrZero(d, 4 * q + 2) = Sextet(s, 4 * q + 1)
           /\ OrZero(d, 4 * q + 3) = Sextet(s, 4 * q + 2)
           /\ OrZero(d, 4 * q + 4) = Sextet(s, 4 * q + 3)
<1>1. PICK n, D \in Nat, g \in Nat :
         /\ n = Len(s) /\ D = Digits(n)
         /\ \/ n = 3 * g /\ D = 4 * g
            \/ n = 3 * g + 1 /\ D = 4 * g + 2
            \/ n = 3 * g + 2 /\ D = 4 * g + 3
  <2>1. PICK n \in Nat : n = Len(s)
    OBVIOUS
  <2>2. PICK g \in Nat : \/ n = 3 * g /\ Digits(n) = 4 * g
                         \/ n = 3 * g + 1 /\ Digits(n) = 4 * g + 2
                         \/ n = 3 * g + 2 /\ Digits(n) = 4 * g + 3
    BY DigitCounts
  <2>3. PICK D \in Nat : D = Digits(n)
    BY <2>2
  <2> QED BY <2>1, <2>2, <2>3
<1>2. ASSUME NEW k \in Nat, k <= D, k >= 1
      PROVE  OrZero(d, k) = Sextet(s, k - 1)
  <2>1. k \in 1 .. Digits(Len(s))
    BY <1>1, <1>2
  <2>2. k \in DOMAIN d /\ d[k] = Sextet(s, k - 1)
    BY <2>1 DEF HoldsDigits
  <2> QED BY <2>2 DEF OrZero
<1>3. ASSUME NEW k \in Nat, ~(k <= D)
      PROVE  OrZero(d, k) = 0
  <2>1. k > Digits(Len(s))
    BY <1>1, <1>3
  <2>2. k \notin DOMAIN d
    BY <2>1 DEF HoldsDigits
  <2> QED BY <2>2 DEF OrZero
<1>4. PICK x, y, z \in 0 .. 255 : x = OrZero(s, 3 * q + 1) /\ y = OrZero(s, 3 * q + 2)
                                    /\ z = OrZero(s, 3 * q + 3)
  <2>1. 3 * q + 1 \in Nat /\ 3 * q + 2 \in Nat /\ 3 * q + 3 \in Nat
    OBVIOUS
  <2> QED BY <2>1, GroupType
<1>5. PICK t \in Nat : t = Group(s, q) /\ t = OfBytes(x, y, z)
  <2>1. Group(s, q) = OfBytes(x, y, z)
    BY <1>4 DEF Group
  <2>2. Group(s, q) \in Nat
    BY GroupType
  <2> QED BY ONLY <2>1, <2>2, Zenon
<1>6. (z = 0 => Fourth(t) = 0) /\ (y = 0 /\ z = 0 => Third(t) = 0)
  <2>1. x \in Nat /\ y \in Nat /\ z \in Nat /\ x < 256 /\ y < 256 /\ z < 256
    OBVIOUS
  <2> QED BY <1>5, <2>1, GroupFacts
<1>7. /\ 3 * q + 2 > n => y = 0
      /\ 3 * q + 3 > n => z = 0
  BY <1>1, <1>4 DEF OrZero
<1>8. OrZero(d, 4 * q + 1) = Sextet(s, 4 * q)
  <2>1. 4 * q + 1 \in Nat /\ 4 * q + 1 <= D /\ 4 * q + 1 >= 1
    BY <1>1
  <2>2. OrZero(d, 4 * q + 1) = Sextet(s, (4 * q + 1) - 1)
    BY <1>2, <2>1
  <2>3. (4 * q + 1) - 1 = 4 * q
    OBVIOUS
  <2> QED BY <2>2, <2>3
<1>9. OrZero(d, 4 * q + 2) = Sextet(s, 4 * q + 1)
  <2>1. 4 * q + 2 \in Nat /\ 4 * q + 2 <= D /\ 4 * q + 2 >= 1
    BY <1>1
  <2>2. OrZero(d, 4 * q + 2) = Sextet(s, (4 * q + 2) - 1)
    BY <1>2, <2>1
  <2>3. (4 * q + 2) - 1 = 4 * q + 1
    OBVIOUS
  <2> QED BY <2>2, <2>3
<1>10. OrZero(d, 4 * q + 3) = Sextet(s, 4 * q + 2)
  <2>1. 4 * q + 3 \in Nat /\ (4 * q + 3) - 1 = 4 * q + 2 /\ 4 * q + 3 >= 1
    OBVIOUS
  <2>2. CASE 4 * q + 3 <= D
    <3>1. OrZero(d, 4 * q + 3) = Sextet(s, (4 * q + 3) - 1)
      BY <1>2, <2>1, <2>2
    <3> QED BY <2>1, <3>1
  <2>3. CASE ~(4 * q + 3 <= D)
    <3>1. 3 * q + 2 > n /\ 3 * q + 3 > n
      BY <1>1, <2>3
    <3>2. Sextet(s, 4 * q + 2) = 0
      <4>1. Third(t) = 0
        BY <1>6, <1>7, <3>1
      <4> QED BY <1>5, <4>1, SextetFacts
    <3>3. OrZero(d, 4 * q + 3) = 0
      BY <1>3, <2>1, <2>3
    <3> QED BY <3>2, <3>3
  <2> QED BY <2>2, <2>3
<1>11. OrZero(d, 4 * q + 4) = Sextet(s, 4 * q + 3)
  <2>1. 4 * q + 4 \in Nat /\ (4 * q + 4) - 1 = 4 * q + 3 /\ 4 * q + 4 >= 1
    OBVIOUS
  <2>2. CASE 4 * q + 4 <= D
    <3>1. OrZero(d, 4 * q + 4) = Sextet(s, (4 * q + 4) - 1)
      BY <1>2, <2>1, <2>2
    <3> QED BY <2>1, <3>1
  <2>3. CASE ~(4 * q + 4 <= D)
    <3>1. 3 * q + 3 > n
      BY <1>1, <2>3
    <3>2. Sextet(s, 4 * q + 3) = 0
      <4>1. Fourth(t) = 0
        BY <1>6, <1>7, <3>1
      <4> QED BY <1>5, <4>1, SextetFacts
    <3>3. OrZero(d, 4 * q + 4) = 0
      BY <1>3, <2>1, <2>3
    <3> QED BY <3>2, <3>3
  <2> QED BY <2>2, <2>3
<1> QED
  BY <1>8, <1>9, <1>10, <1>11

\* The bytes of those digits.
LEMMA BytesRead ==
    ASSUME NEW s \in Seq(Byte), NEW d, \A k \in Nat : OrZero(d, k) \in Sixbit,
           HoldsDigits(d, s), NEW j \in Nat, j < Len(s)
    PROVE  Octet(d, j) = s[j + 1]
<1>1. PICK q \in Nat, i \in 0 .. 2 : j = 3 * q + i
  BY InTriples
<1>2. 3 * q < Len(s)
  BY <1>1
<1>3. /\ OrZero(d, 4 * q + 1) = Sextet(s, 4 * q)
      /\ OrZero(d, 4 * q + 2) = Sextet(s, 4 * q + 1)
      /\ OrZero(d, 4 * q + 3) = Sextet(s, 4 * q + 2)
      /\ OrZero(d, 4 * q + 4) = Sextet(s, 4 * q + 3)
  BY <1>2, DigitsRead
<1>4. PICK x, y, z \in 0 .. 255 : x = OrZero(s, 3 * q + 1) /\ y = OrZero(s, 3 * q + 2)
                                    /\ z = OrZero(s, 3 * q + 3)
  <2>1. 3 * q + 1 \in Nat /\ 3 * q + 2 \in Nat /\ 3 * q + 3 \in Nat
    OBVIOUS
  <2> QED BY <2>1, GroupType
<1>5. PICK t \in Nat : t = Group(s, q) /\ t = OfBytes(x, y, z)
  <2>1. Group(s, q) = OfBytes(x, y, z)
    BY <1>4 DEF Group
  <2>2. Group(s, q) \in Nat
    BY GroupType
  <2> QED BY ONLY <2>1, <2>2, Zenon
<1>6. /\ OfDigits(First(t), Second(t), Third(t), Fourth(t)) = t
      /\ High(t) = x /\ Middle(t) = y /\ Low(t) = z
  <2>1. x \in Nat /\ y \in Nat /\ z \in Nat /\ x < 256 /\ y < 256 /\ z < 256
    OBVIOUS
  <2> QED BY <1>5, <2>1, GroupFacts
<1>7. t = OfDigits(OrZero(d, 4 * q + 1), OrZero(d, 4 * q + 2),
                   OrZero(d, 4 * q + 3), OrZero(d, 4 * q + 4))
  <2>1. /\ Sextet(s, 4 * q) = First(t) /\ Sextet(s, 4 * q + 1) = Second(t)
        /\ Sextet(s, 4 * q + 2) = Third(t) /\ Sextet(s, 4 * q + 3) = Fourth(t)
    BY <1>5, SextetFacts
  <2> QED BY ONLY <1>3, <1>6, <2>1, Zenon
<1>8. Octet(d, 3 * q) = x /\ Octet(d, 3 * q + 1) = y /\ Octet(d, 3 * q + 2) = z
  <2>1. /\ Octet(d, 3 * q) = High(t)
        /\ Octet(d, 3 * q + 1) = Middle(t)
        /\ Octet(d, 3 * q + 2) = Low(t)
    BY <1>7, OctetFacts
  <2> QED BY <1>6, <2>1
<1>9. OrZero(s, j + 1) = s[j + 1]
  <2>1. j + 1 \in 1 .. Len(s)
    OBVIOUS
  <2> QED BY <2>1 DEF OrZero
<1>10. j = 3 * q \/ j = 3 * q + 1 \/ j = 3 * q + 2
  BY <1>1
<1>11. 3 * q + 1 + 1 = 3 * q + 2 /\ 3 * q + 2 + 1 = 3 * q + 3
  OBVIOUS
<1> QED
  BY <1>4, <1>8, <1>9, <1>10, <1>11

CodeSizes(N, D, L) ==
    /\ N <= L /\ D <= L /\ L % 4 = 0 /\ (3 * D) \div 4 = N
    /\ N = 3 * (L \div 4) - (L - D)
    /\ L - D \in 0 .. 2 /\ (N = 0 <=> L = 0) /\ (L = 0 \/ L >= 4)
CodeChars(s, D, L) ==
    /\ \A k \in 1 .. D : Base64Of(s)[k] = Char(Sextet(s, k - 1))
    /\ \A k \in (D + 1) .. L : Base64Of(s)[k] = Pad

\* The characters of the text that encodes s: digits, and padding up to a whole group.
LEMMA CodeFacts ==
    ASSUME NEW s \in Seq(Byte)
    PROVE  \E N, D, L \in Nat :
             /\ N = Len(s) /\ D = Digits(N) /\ L = Len(Base64Of(s))
             /\ CodeSizes(N, D, L) /\ CodeChars(s, D, L)
<1>1. PICK N \in Nat : N = Len(s)
  OBVIOUS
<1>2. PICK g \in Nat :
         \/ N = 3 * g /\ Digits(N) = 4 * g /\ Groups(N) = g
         \/ N = 3 * g + 1 /\ Digits(N) = 4 * g + 2 /\ Groups(N) = g + 1
         \/ N = 3 * g + 2 /\ Digits(N) = 4 * g + 3 /\ Groups(N) = g + 1
  BY DigitCounts
<1>3. PICK D, G \in Nat : D = Digits(N) /\ G = Groups(N)
  BY <1>2
<1>4. PICK L \in Nat : L = 4 * G
  OBVIOUS
<1>5. L = Len(Base64Of(s)) /\ L = 4 * Groups(N)
  BY <1>1, <1>3, <1>4, Base64OfType
<1>6. \/ N = 3 * g /\ D = 4 * g /\ G = g
      \/ N = 3 * g + 1 /\ D = 4 * g + 2 /\ G = g + 1
      \/ N = 3 * g + 2 /\ D = 4 * g + 3 /\ G = g + 1
  BY <1>2, <1>3
<1>7. /\ N <= L /\ D <= L /\ L % 4 = 0 /\ L \div 4 = G /\ (3 * D) \div 4 = N
      /\ L - D \in 0 .. 2 /\ (N = 0 <=> L = 0) /\ (L = 0 \/ L >= 4)
      /\ N = 3 * G - (L - D)
  <2>1. L % 4 = 0 /\ L \div 4 = G
    BY <1>4
  <2>2. CASE N = 3 * g /\ D = 4 * g /\ G = g
    <3>1. (3 * (4 * g)) \div 4 = 3 * g
      OBVIOUS
    <3> QED BY <1>4, <2>1, <2>2, <3>1
  <2>3. CASE N = 3 * g + 1 /\ D = 4 * g + 2 /\ G = g + 1
    <3>1. (3 * (4 * g + 2)) \div 4 = 3 * g + 1
      OBVIOUS
    <3> QED BY <1>4, <2>1, <2>3, <3>1
  <2>4. CASE N = 3 * g + 2 /\ D = 4 * g + 3 /\ G = g + 1
    <3>1. (3 * (4 * g + 3)) \div 4 = 3 * g + 2
      OBVIOUS
    <3> QED BY <1>4, <2>1, <2>4, <3>1
  <2> QED BY <1>6, <2>2, <2>3, <2>4
<1>8. ASSUME NEW k \in 1 .. L
      PROVE  Base64Of(s)[k] = IF k <= D THEN Char(Sextet(s, k - 1)) ELSE Pad
  BY <1>1, <1>3, <1>5 DEF Base64Of
<1>9. ASSUME NEW k \in 1 .. D
      PROVE  Base64Of(s)[k] = Char(Sextet(s, k - 1))
  <2>1. k \in 1 .. L /\ k <= D
    BY <1>7
  <2> QED BY <1>8, <2>1
<1>10. ASSUME NEW k \in (D + 1) .. L
       PROVE  Base64Of(s)[k] = Pad
  <2>1. k \in 1 .. L /\ ~(k <= D)
    BY <1>7
  <2> QED BY <1>8, <2>1
<1>11. N = 3 * (L \div 4) - (L - D)
  BY <1>7
<1>12. CodeSizes(N, D, L)
  BY <1>7, <1>11 DEF CodeSizes
<1>13. CodeChars(s, D, L)
  BY <1>9, <1>10 DEF CodeChars
<1> QED
  BY <1>1, <1>3, <1>5, <1>12, <1>13

\* The decoder reads that text up to its padding, and finds s.
LEMMA CodeIsRead ==
    ASSUME NEW s \in Seq(Byte)
    PROVE  /\ StopOf(Base64Of(s)) = Digits(Len(s))
           /\ DecodedOf(Base64Of(s)) = s
           /\ IsComplete(Base64Of(s), Len(Base64Of(s)))
<1>1. PICK N, D, L \in Nat :
         /\ N = Len(s) /\ D = Digits(N) /\ L = Len(Base64Of(s))
         /\ CodeSizes(N, D, L) /\ CodeChars(s, D, L)
  BY CodeFacts
<1>sizes. /\ N <= L /\ D <= L /\ L % 4 = 0 /\ L - D \in 0 .. 2 /\ (N = 0 <=> L = 0)
          /\ L = 0 \/ L >= 4
  BY <1>1 DEF CodeSizes
<1>2. PICK c \in Seq(Byte) : c = Base64Of(s) /\ Len(c) = L
  BY <1>1, Base64OfType
<1>3. ASSUME NEW k \in 1 .. D
      PROVE  c[k] \in DOMAIN Digit /\ Digit[c[k]] = Sextet(s, k - 1)
  <2>1. k - 1 \in Nat
    OBVIOUS
  <2>2. Sextet(s, k - 1) \in Sixbit
    BY <2>1, SextetIsDigit
  <2>3. c[k] = Char(Sextet(s, k - 1))
    BY <1>1, <1>2 DEF CodeChars
  <2> QED BY <2>2, <2>3, DigitFacts
<1>4. ASSUME NEW k \in (D + 1) .. L
      PROVE  c[k] = Pad /\ c[k] \notin DOMAIN Digit
  BY <1>1, <1>2, DigitFacts DEF CodeChars
<1>5. PICK stop \in Nat :
         /\ stop = StopOf(c) /\ stop <= L
         /\ \A k \in 1 .. stop : c[k] \in DOMAIN Digit
         /\ stop < L => c[stop + 1] \notin DOMAIN Digit
  BY <1>2, StopFacts
<1>6. stop = D
  <2>1. CASE stop < D
    <3>1. stop + 1 \in 1 .. D /\ stop < L
      BY <1>sizes, <2>1
    <3> QED BY <1>3, <1>5, <3>1
  <2>2. CASE D < stop
    <3>1. D + 1 \in 1 .. stop /\ D + 1 \in (D + 1) .. L
      BY <1>5, <2>2
    <3> QED BY <1>4, <1>5, <3>1
  <2> QED BY <2>1, <2>2
<1>7. HoldsDigits(DigitsOf(c), s)
  <2>1. DigitsOf(c) = [k \in 1 .. D |-> Digit[c[k]]]
    BY <1>5, <1>6 DEF DigitsOf
  <2>2. ASSUME NEW k \in 1 .. D
        PROVE  k \in DOMAIN DigitsOf(c) /\ DigitsOf(c)[k] = Sextet(s, k - 1)
    BY <1>3, <2>1
  <2>3. ASSUME NEW k \in Nat, k > D PROVE k \notin DOMAIN DigitsOf(c)
    BY <2>1, <2>3
  <2> QED BY <1>1, <2>2, <2>3 DEF HoldsDigits
<1>8. DecodedOf(c) = s
  <2>1. /\ \A k \in Nat : OrZero(DigitsOf(c), k) \in Sixbit
        /\ DecodedOf(c) \in Seq(Byte) /\ Len(DecodedOf(c)) = N
    BY <1>1, <1>5, <1>6, DigitsOfType DEF CodeSizes
  <2>2. DecodedOf(c) = [j \in 1 .. N |-> Octet(DigitsOf(c), j - 1)]
    BY <1>1, <1>5, <1>6 DEF CodeSizes, DecodedOf, B64!Decoded, StopOf, DigitsOf, Octet, Digit
  <2>3. ASSUME NEW j \in 1 .. N PROVE DecodedOf(c)[j] = s[j]
    <3>1. PICK i \in Nat : i = j - 1 /\ i < Len(s) /\ i + 1 = j
      BY <1>1
    <3>2. Octet(DigitsOf(c), i) = s[i + 1]
      BY <1>7, <2>1, <3>1, BytesRead
    <3> QED BY <2>2, <3>1, <3>2
  <2> QED BY <1>1, <2>1, <2>3
<1>9. IsComplete(c, L)
  <2>1. IsComplete(c, L) <=> \/ Stops(c) # {} /\ c[stop + 1] = Pad /\ L - stop \in {1, 2}
                             \/ stop = L
    BY <1>5 DEF IsComplete, B64!Complete, Stops, StopOf, Pad
  <2>2. CASE D = L
    BY <1>6, <2>1, <2>2
  <2>3. CASE D # L
    <3>1. D + 1 \in (D + 1) .. L /\ D + 1 \in 1 .. L /\ L - D \in {1, 2}
      BY <1>sizes, <2>3
    <3>2. c[D + 1] = Pad /\ c[D + 1] \notin DOMAIN Digit
      BY <1>4, <3>1
    <3>3. D + 1 \in Stops(c)
      BY <1>2, <3>1, <3>2 DEF Stops, B64!Stops, Digit
    <3> QED BY <1>6, <2>1, <3>1, <3>2, <3>3
  <2> QED BY <2>2, <2>3
<1> QED
  BY <1>1, <1>2, <1>5, <1>6, <1>8, <1>9

\* The buffer is allocated for as many bytes as there are.
LEMMA PaddingFacts ==
    ASSUME NEW s \in Seq(Byte), NEW b, WellFormed(b), Bytes(b) = Base64Of(s), Len(s) > 0
    PROVE  3 * (b.m_bufferSz \div 4) - PaddingOf(b) = Len(s)
<1>1. PICK N, D, L \in Nat :
         /\ N = Len(s) /\ D = Digits(N) /\ L = Len(Base64Of(s))
         /\ CodeSizes(N, D, L) /\ CodeChars(s, D, L)
  BY CodeFacts
<1>sizes. /\ N <= L /\ D <= L /\ L % 4 = 0 /\ L - D \in 0 .. 2 /\ (N = 0 <=> L = 0)
          /\ L = 0 \/ L >= 4
  BY <1>1 DEF CodeSizes
<1>2. b.m_bufferSz = L /\ \A i \in 1 .. L : b.m_buffer[i - 1] = Base64Of(s)[i]
  <2>1. Len(Bytes(b)) = b.m_bufferSz /\ \A i \in 1 .. b.m_bufferSz : Bytes(b)[i] = b.m_buffer[i - 1]
    BY BytesFacts
  <2>2. b.m_bufferSz = L
    BY <1>1, <2>1
  <2> QED BY <2>1, <2>2
<1>3. L >= 4 /\ L - 1 \in 1 .. L /\ L \in 1 .. L /\ (L - 1) - 1 = L - 2
  BY <1>1, <1>sizes
<1>4. at(b, size(b) - 1) = Base64Of(s)[L] /\ at(b, size(b) - 2) = Base64Of(s)[L - 1]
  <2>1. b.m_buffer[L - 1] = Base64Of(s)[L] /\ b.m_buffer[L - 2] = Base64Of(s)[L - 1]
    BY <1>2, <1>3
  <2>2. ~(L - 1 >= L) /\ ~(L - 2 >= L)
    OBVIOUS
  <2> QED BY <1>2, <2>1, <2>2 DEF at, size
<1>5. ASSUME NEW k \in 1 .. L
      PROVE  Base64Of(s)[k] = Pad <=> k > D
  <2>1. CASE k > D
    <3>1. k \in (D + 1) .. L
      BY <2>1
    <3> QED BY <1>1, <2>1, <3>1 DEF CodeChars
  <2>2. CASE ~(k > D)
    <3>1. k \in 1 .. D /\ k - 1 \in Nat
      BY <2>2
    <3>2. Base64Of(s)[k] = Char(Sextet(s, k - 1)) /\ Sextet(s, k - 1) \in Sixbit
      BY <1>1, <3>1, SextetIsDigit DEF CodeChars
    <3>3. Base64Of(s)[k] # Pad
      BY <3>2, CharFacts
    <3> QED BY <2>2, <3>3
  <2> QED BY <2>1, <2>2
<1>6. /\ at(b, size(b) - 1) = Pad <=> L > D
      /\ at(b, size(b) - 2) = Pad <=> L - 1 > D
  BY <1>3, <1>4, <1>5
<1>7. PaddingOf(b) = (IF L > D THEN 1 ELSE 0) + (IF L - 1 > D THEN 1 ELSE 0)
  BY <1>6 DEF PaddingOf
<1>8. (IF L > D THEN 1 ELSE 0) + (IF L - 1 > D THEN 1 ELSE 0) = L - D
  BY <1>sizes
<1> QED
  BY <1>1, <1>2, <1>7, <1>8 DEF CodeSizes

\* What was encoded comes back.
LEMMA Base64RoundTrip ==
    ASSUME NEW s \in Seq(Byte), NEW b, WellFormed(b), b.m_readIndex = 0, Bytes(b) = Base64Of(s)
    PROVE  Bytes(Base64Decoded(b)) = s
<1>1. PICK N, D, L \in Nat :
         /\ N = Len(s) /\ D = Digits(N) /\ L = Len(Base64Of(s))
         /\ CodeSizes(N, D, L) /\ CodeChars(s, D, L)
  BY CodeFacts
<1>sizes. /\ N <= L /\ D <= L /\ L % 4 = 0 /\ L - D \in 0 .. 2 /\ (N = 0 <=> L = 0)
          /\ L = 0 \/ L >= 4
  BY <1>1 DEF CodeSizes
<1>2. PICK c \in Seq(Byte) :
         /\ c = Base64Of(s) /\ c = Peek(b.m_buffer, b.m_readIndex, b.m_bufferSz - b.m_readIndex)
  BY RestFacts
<1>3. b.m_bufferSz = L /\ L <= MaxSize
  BY <1>1, BytesFacts
<1>4. Base64Decoded(b) = IF b.m_bufferSz % 4 # 0 \/ b.m_bufferSz = 0 THEN NewBuffer(0)
                         ELSE IF IsComplete(c, b.m_bufferSz)
                         THEN writeArray(NewBuffer(3 * (b.m_bufferSz \div 4) - PaddingOf(b)),
                                         DecodedOf(c)).self
                         ELSE NewBuffer(0)
  BY <1>2, DecoderIs
<1>5. CASE L = 0
  <2>1. Base64Decoded(b) = NewBuffer(0)
    BY <1>3, <1>4, <1>5
  <2>2. Bytes(NewBuffer(0)) = s
    <3>1. Len(Bytes(NewBuffer(0))) = 0 /\ Bytes(NewBuffer(0)) \in Seq(Byte)
      <4>1. WellFormed(NewBuffer(0))
        BY NewBufferFacts, SizeAssumption
      <4>2. NewBuffer(0).m_bufferSz = 0
        BY DEF NewBuffer, Buffer
      <4> QED BY <4>1, <4>2, BytesFacts
    <3>2. Len(s) = 0
      BY <1>1, <1>sizes, <1>5
    <3> QED BY <3>1, <3>2
  <2> QED BY <2>1, <2>2
<1>6. CASE L # 0
  <2>1. IsComplete(c, L) /\ DecodedOf(c) = s
    BY <1>1, <1>2, CodeIsRead
  <2>2. Len(s) > 0
    BY <1>1, <1>sizes, <1>6
  <2>3. 3 * (b.m_bufferSz \div 4) - PaddingOf(b) = N
    BY <1>1, <2>2, PaddingFacts
  <2>4. Base64Decoded(b) = Filled(N, s)
    <3>1. ~(b.m_bufferSz % 4 # 0 \/ b.m_bufferSz = 0) /\ IsComplete(c, b.m_bufferSz)
      BY <1>1, <1>sizes, <1>3, <1>6, <2>1
    <3>2. Base64Decoded(b) =
            writeArray(NewBuffer(3 * (b.m_bufferSz \div 4) - PaddingOf(b)), DecodedOf(c)).self
      BY <1>4, <3>1
    <3> QED BY <2>1, <2>3, <3>2 DEF Filled
  <2>5. N <= MaxSize /\ Len(s) = N
    BY <1>1, <1>3, <1>sizes, SizeAssumption
  <2> QED BY <2>4, <2>5, FilledFacts
<1> QED
  BY <1>5, <1>6

\* What encryptBase64 makes of a buffer that is read from its start is decrypted
\* to the bytes of that buffer, whatever they are and however many.
THEOREM Base64GivesBack ==
    ASSUME NEW b, WellFormed(b), b.m_readIndex = 0, size(B64!encryptBase64(b).out) <= MaxSize
    PROVE  Bytes(B64!decryptBase64(B64!encryptBase64(b).out).out) = Bytes(b)
<1> DEFINE c == Base64Result(b)
<1>1. WellFormed(c) /\ Bytes(c) = Base64Of(Bytes(b)) /\ c.m_readIndex = 0
  BY EncodedFacts DEF Base64Result
<1>2. Bytes(b) \in Seq(Byte)
  BY BytesFacts
<1> HIDE DEF c
<1>3. Bytes(Base64Decoded(c)) = Bytes(b)
  BY <1>1, <1>2, Base64RoundTrip
<1> QED
  BY <1>3 DEF c, Base64Decoded, Base64Result

\* T bytes are the whole blocks that L bytes need.
InBlocks(L, T, x) ==
    /\ T = BlockLen * Ceil(L) /\ L <= T /\ Ceil(T) = Ceil(L)
    /\ T % BlockLen = 0 /\ (T + 1) % BlockLen = 1
    /\ x = L % BlockLen /\ x < BlockLen
    /\ x = 0 => T = L
    /\ x # 0 => (T + x) - BlockLen = L /\ T >= BlockLen

LEMMA BlocksNeeded ==
    ASSUME NEW L \in Nat
    PROVE  \E T, x \in Nat : InBlocks(L, T, x)
<1>1. PICK B \in Nat : B = BlockLen /\ B >= 2 /\ B \in Nat \ {0}
  BY GcmSizes
<1>2. PICK q, x, p \in Nat : p = q * B /\ L = p + x /\ x < B /\ x = L % BlockLen
  <2>1. PICK q, x \in Nat : q = L \div BlockLen /\ x = L % BlockLen /\ x < BlockLen
    BY BlocksAndRest
  <2>2. PICK p \in Nat : p = q * B
    BY BlocksAndRest
  <2>3. L = p + x
    BY <1>1, <2>1, <2>2, BlocksAndRest
  <2> QED BY <1>1, <2>1, <2>2, <2>3
<1>3. ASSUME NEW c \in Nat, NEW T \in Nat, T = c * B
      PROVE  Ceil(T) = c /\ T % B = 0 /\ (T + 1) % B = 1
  <2>1. (c * B + (B - 1)) \div B = c
    <3>1. B - 1 \in Nat /\ B - 1 < B
      BY <1>1
    <3> QED BY <1>1, <3>1, QuotientIs
  <2>2. (c * B + 0) % B = 0
    <3>1. 0 < B
      BY <1>1
    <3> QED BY <1>1, <3>1, QuotientIs
  <2>3. (c * B + 1) % B = 1
    <3>1. PICK r \in Nat : r = 1 /\ r < B
      BY <1>1
    <3>2. (c * B + r) % B = r
      BY <1>1, <3>1, QuotientIs
    <3> QED BY <3>1, <3>2
  <2>4. T + B - 1 = c * B + (B - 1) /\ T = c * B + 0
    BY <1>1, <1>3
  <2> QED BY <1>1, <1>3, <2>1, <2>2, <2>3, <2>4 DEF Ceil
<1>4. CASE x = 0
  <2>1. Ceil(L) = q /\ L = p
    <3>1. Ceil(p) = q
      BY <1>2, <1>3
    <3>2. L = p + x
      BY <1>2, Zenon
    <3>3. L = p
      BY ONLY <1>4, <3>2
    <3> QED BY <3>1, <3>3
  <2>2. p = BlockLen * q
    BY <1>1, <1>2
  <2>3. InBlocks(L, L, x)
    BY <1>1, <1>2, <1>3, <1>4, <2>1, <2>2 DEF InBlocks
  <2> QED BY <2>3
<1>5. CASE x # 0
  <2>1. PICK c, T \in Nat : c = q + 1 /\ T = p + B
    BY <1>1
  <2>2. T = c * B /\ T = BlockLen * c
    BY <1>1, <1>2, <2>1
  <2>3. Ceil(T) = c /\ T % B = 0 /\ (T + 1) % B = 1
    BY <1>3, <2>2
  <2>4. Ceil(L) = c
    <3>1. x - 1 \in Nat /\ x - 1 < B
      BY <1>2, <1>5
    <3>2. (c * B + (x - 1)) \div B = c
      BY <1>1, <3>1, QuotientIs
    <3>3. L + B - 1 = c * B + (x - 1)
      BY <1>2, <2>1, <2>2
    <3> QED BY <1>1, <3>2, <3>3 DEF Ceil
  <2>5. L <= T /\ (T + x) - B = L /\ T >= B
    BY <1>2, <2>1
  <2>6. InBlocks(L, T, x)
    BY <1>1, <1>2, <1>5, <2>2, <2>3, <2>4, <2>5 DEF InBlocks
  <2> QED BY <2>6
<1> QED
  BY <1>4, <1>5

\* Byte m of them is byte r of block n, which begins at p.
AtByte(m, n, r, p) ==
    /\ n = m \div BlockLen /\ r = m % BlockLen /\ r < BlockLen
    /\ p = n * BlockLen /\ p + BlockLen = (n + 1) * BlockLen /\ m = p + r

LEMMA BytePlace ==
    ASSUME NEW m \in Nat
    PROVE  \E n, r, p \in Nat : AtByte(m, n, r, p)
<1>1. PICK B \in Nat : B = BlockLen
  BY GcmSizes
<1>2. PICK n, r \in Nat : n = m \div BlockLen /\ r = m % BlockLen /\ r < BlockLen
  BY BlocksAndRest
<1>3. PICK p \in Nat : p = n * BlockLen
  BY <1>2, BlocksAndRest
<1>4. m = p + r
  BY <1>2, <1>3, BlocksAndRest
<1>5. p + BlockLen = (n + 1) * BlockLen
  BY <1>1, <1>3
<1> QED
  BY <1>2, <1>3, <1>4, <1>5 DEF AtByte

LEMMA InTheBlock ==
    ASSUME NEW n \in Nat, NEW r \in Nat, r < BlockLen, NEW p \in Nat, p = n * BlockLen
    PROVE  AtByte(p + r, n, r, p)
<1>1. PICK B \in Nat \ {0} : B = BlockLen
  BY GcmSizes
<1>2. (n * B + r) \div B = n /\ (n * B + r) % B = r
  BY <1>1, QuotientIs
<1>3. p + BlockLen = (n + 1) * BlockLen
  BY <1>1
<1> QED
  BY <1>1, <1>2, <1>3 DEF AtByte

\* A block that begins in front of the end of whole blocks ends in front of it.
LEMMA BlockEnds ==
    ASSUME NEW L \in Nat, NEW T \in Nat, T = BlockLen * Ceil(L),
           NEW m \in Nat, m < T, NEW n \in Nat, NEW r \in Nat, NEW p \in Nat, AtByte(m, n, r, p)
    PROVE  p + BlockLen <= T
<1>1. PICK B, c \in Nat : B = BlockLen /\ c = Ceil(L) /\ B >= 1
  BY GcmSizes, CeilType
<1>2. T = B * c /\ p = n * B /\ p + B = (n + 1) * B /\ p <= m
  BY <1>1 DEF AtByte
<1>3. CASE n + 1 <= c
  <2>1. PICK e \in Nat : c = (n + 1) + e
    BY <1>3
  <2>2. B * c = (n + 1) * B + e * B /\ e * B \in Nat
    BY <1>1, <2>1
  <2> QED BY <1>1, <1>2, <2>2
<1>4. CASE ~(n + 1 <= c)
  <2>1. PICK e \in Nat : n = c + e
    BY <1>4
  <2>2. n * B = B * c + e * B /\ e * B \in Nat
    BY <1>1, <2>1
  <2> QED BY <1>2, <2>2
<1> QED
  BY <1>3, <1>4

\* Block n of some bytes.
BlockAt(s, p) == BlockOf(Upto(s, p + 1, p + BlockLen))
BlockCode == [BlockRange -> BlockRange]

LEMMA BlockAtFacts ==
    ASSUME NEW s \in Seq(Byte), NEW p \in Nat
    PROVE  /\ BlockAt(s, p) \in BlockRange
           /\ \A r \in Nat : r < BlockLen /\ p + r < Len(s) =>
                 BytesOf(BlockAt(s, p))[r + 1] = s[p + r + 1]
<1>1. PICK B, L \in Nat : B = BlockLen /\ L = Len(s)
  BY GcmSizes
<1>2. PICK u \in Seq(Uint8) : u = Upto(s, p + 1, p + BlockLen)
  <2>1. p + 1 \in Nat /\ p + 1 >= 1 /\ p + BlockLen \in Nat
    BY <1>1
  <2> QED BY <2>1, GcmSizes, UptoFacts
<1>3. BlockAt(s, p) \in BlockRange /\ BytesOf(BlockAt(s, p)) = Padded(u)
  BY <1>2, BlockFacts DEF BlockAt
<1>4. ASSUME NEW r \in Nat, r < B, p + r < L
      PROVE  Padded(u)[r + 1] = s[p + r + 1]
  <2>1. PICK to \in Nat : to = (IF p + B > L THEN L ELSE p + B) /\ p + r < to /\ to <= L
    BY <1>4
  <2>2. u = SubSeq(s, p + 1, to)
    BY <1>1, <1>2, <2>1 DEF Upto
  <2>3. Len(u) = to - p /\ r + 1 <= Len(u) /\ r + 1 \in 1 .. Len(u)
    BY <1>1, <2>1, <2>2
  <2>4. u[r + 1] = s[p + r + 1]
    <3>1. u[r + 1] = s[(p + 1) + (r + 1) - 1]
      <4>1. PICK f \in Nat : f = p + 1 /\ f >= 1 /\ to - f + 1 = to - p
        BY <2>1
      <4>2. u = [i \in 1 .. (to - f + 1) |-> s[f + i - 1]]
        BY <2>2, <4>1
      <4>3. r + 1 \in 1 .. (to - f + 1)
        BY <2>3, <4>1
      <4>4. u[r + 1] = s[f + (r + 1) - 1]
        BY <4>2, <4>3
      <4> QED BY <4>1, <4>4
    <3>2. (p + 1) + (r + 1) - 1 = p + r + 1
      OBVIOUS
    <3> QED BY <3>1, <3>2
  <2>5. r + 1 \in 1 .. BlockLen
    BY <1>1, <1>4
  <2> QED BY <2>3, <2>4, <2>5 DEF Padded
<1> QED
  BY <1>1, <1>3, <1>4

\* What the loop over the blocks returns.
LEMMA BlockwiseFacts ==
    ASSUME NEW f \in BlockCode, NEW s \in Seq(Byte), NEW T \in Nat, T = BlockLen * Ceil(Len(s))
    PROVE  /\ Blockwise(f, s) \in Seq(Byte) /\ Len(Blockwise(f, s)) = T
           /\ \A m, n, r, p \in Nat : m < T /\ AtByte(m, n, r, p) =>
                 Blockwise(f, s)[m + 1] = BytesOf(f[BlockAt(s, p)])[r + 1]
<1>1. Blockwise(f, s) =
        [k \in 1 .. T |->
           BytesOf(f[BlockOf(Upto(s, ((k - 1) \div BlockLen) * BlockLen + 1,
                                  ((k - 1) \div BlockLen + 1) * BlockLen))])
             [((k - 1) % BlockLen) + 1]]
  BY DEF Blockwise
<1>2. ASSUME NEW m \in Nat, NEW n \in Nat, NEW r \in Nat, NEW p \in Nat, m < T,
             AtByte(m, n, r, p)
      PROVE  /\ Blockwise(f, s)[m + 1] = BytesOf(f[BlockAt(s, p)])[r + 1]
             /\ Blockwise(f, s)[m + 1] \in Byte
  <2>1. m + 1 \in 1 .. T /\ (m + 1) - 1 = m
    BY <1>2
  <2>2. Blockwise(f, s)[m + 1] =
          BytesOf(f[BlockOf(Upto(s, (m \div BlockLen) * BlockLen + 1,
                                 (m \div BlockLen + 1) * BlockLen))])[(m % BlockLen) + 1]
    BY <1>1, <2>1
  <2>3. Blockwise(f, s)[m + 1] =
          BytesOf(f[BlockOf(Upto(s, p + 1, p + BlockLen))])[r + 1]
    BY <1>2, <2>2 DEF AtByte
  <2>4. f[BlockAt(s, p)] \in BlockRange
    BY BlockAtFacts DEF BlockCode
  <2>5. BytesOf(f[BlockAt(s, p)]) \in [1 .. BlockLen -> Uint8]
    <3>1. f[BlockAt(s, p)] \in Int
      BY <2>4, BlockRangeFacts DEF BlockRange
    <3> QED BY <3>1, BytesOfType
  <2>6. r + 1 \in 1 .. BlockLen
    BY <1>2, GcmSizes DEF AtByte
  <2>7. BytesOf(f[BlockAt(s, p)])[r + 1] \in Byte
    BY <2>5, <2>6, GcmSizes
  <2> QED BY <2>3, <2>7 DEF BlockAt
<1>3. ASSUME NEW k \in 1 .. T PROVE Blockwise(f, s)[k] \in Byte
  <2>1. PICK m \in Nat : k = m + 1 /\ m < T
    <3>1. k - 1 \in Nat /\ k = (k - 1) + 1 /\ k - 1 < T
      OBVIOUS
    <3> QED BY <3>1
  <2>2. PICK n, r, p \in Nat : AtByte(m, n, r, p)
    BY BytePlace
  <2> QED BY <1>2, <2>1, <2>2
<1>4. Blockwise(f, s) \in Seq(Byte) /\ Len(Blockwise(f, s)) = T
  <2>1. DOMAIN Blockwise(f, s) = 1 .. T
    BY <1>1
  <2>2. Blockwise(f, s) = [k \in 1 .. T |-> Blockwise(f, s)[k]]
    BY <1>1
  <2> QED BY <1>3, <2>2
<1> QED
  BY <1>2, <1>4

\* Two codes of which the second undoes the first.
Undoes(g, f) == \A b \in BlockRange : g[f[b]] = b

\* The blocks of the code are deciphered to the bytes they were made of.
LEMMA BlockwiseUndone ==
    ASSUME NEW f \in BlockCode, NEW g \in BlockCode, Undoes(g, f), NEW s \in Seq(Byte),
           NEW L \in Nat, L = Len(s), NEW T \in Nat, NEW x \in Nat, InBlocks(L, T, x)
    PROVE  /\ Blockwise(g, Blockwise(f, s)) \in Seq(Byte)
           /\ Len(Blockwise(g, Blockwise(f, s))) = T
           /\ \A k \in 1 .. L : Blockwise(g, Blockwise(f, s))[k] = s[k]
<1>1. T = BlockLen * Ceil(L) /\ T = BlockLen * Ceil(T) /\ L <= T
  BY DEF InBlocks
<1>2. PICK t \in Seq(Byte) :
         /\ t = Blockwise(f, s) /\ Len(t) = T
         /\ \A m, n, r, p \in Nat : m < T /\ AtByte(m, n, r, p) =>
               t[m + 1] = BytesOf(f[BlockAt(s, p)])[r + 1]
  BY <1>1, BlockwiseFacts
<1>3. PICK u \in Seq(Byte) :
         /\ u = Blockwise(g, t) /\ Len(u) = T
         /\ \A m, n, r, p \in Nat : m < T /\ AtByte(m, n, r, p) =>
               u[m + 1] = BytesOf(g[BlockAt(t, p)])[r + 1]
  BY <1>1, <1>2, BlockwiseFacts
<1>4. ASSUME NEW m \in Nat, m < L
      PROVE  u[m + 1] = s[m + 1]
  <2>1. m < T
    BY <1>1, <1>4
  <2>2. PICK n, r, p \in Nat : AtByte(m, n, r, p)
    BY BytePlace
  <2>3. p + BlockLen <= T
    BY <1>1, <2>1, <2>2, BlockEnds
  <2>4. PICK a \in BlockRange : a = BlockAt(s, p)
    BY BlockAtFacts
  <2>5. PICK e \in BlockRange : e = f[a]
    BY DEF BlockCode
  <2>6. PICK B \in Nat : B = BlockLen /\ B >= 1
    BY GcmSizes
  <2>7. ASSUME NEW i \in 1 .. BlockLen
        PROVE  /\ t[(p + 1) + i - 1] = BytesOf(e)[i]
               /\ (p + 1) + i - 1 \in 1 .. T
    <3>1. PICK j \in Nat : j = i - 1 /\ j < BlockLen /\ j + 1 = i
      BY <2>6
    <3>2. AtByte(p + j, n, j, p)
      BY <2>2, <3>1, InTheBlock DEF AtByte
    <3>3. p + j \in Nat /\ p + j < T /\ (p + 1) + i - 1 = p + j + 1
      BY <2>3, <2>6, <3>1
    <3>4. t[p + j + 1] = BytesOf(e)[j + 1]
      BY <1>2, <2>4, <2>5, <3>2, <3>3
    <3>5. (p + 1) + i - 1 \in 1 .. T
      BY <3>3
    <3> QED BY <3>1, <3>3, <3>4, <3>5
  <2>8. Upto(t, p + 1, p + BlockLen) = BytesOf(e)
    <3>1. Upto(t, p + 1, p + BlockLen) = SubSeq(t, p + 1, p + B)
      BY <1>2, <2>3, <2>6 DEF Upto
    <3>2. /\ BytesOf(e) \in Seq(Uint8) /\ Len(BytesOf(e)) = BlockLen
      <4>1. e \in Int
        BY BlockRangeFacts DEF BlockRange
      <4> QED BY <4>1, BytesOfType
    <3>3. SubSeq(t, p + 1, p + B) = [i \in 1 .. B |-> t[(p + 1) + i - 1]]
      <4>1. (p + B) - (p + 1) + 1 = B
        BY <2>6
      <4>2. SubSeq(t, p + 1, p + B) = [i \in 1 .. ((p + B) - (p + 1) + 1) |-> t[(p + 1) + i - 1]]
        BY <1>2, <2>3, <2>6
      <4> QED BY <4>1, <4>2
    <3>4. BytesOf(e) = [i \in 1 .. B |-> BytesOf(e)[i]]
      BY <2>6, <3>2
    <3>5. \A i \in 1 .. B : t[(p + 1) + i - 1] = BytesOf(e)[i]
      BY <2>6, <2>7
    <3> QED BY <3>1, <3>3, <3>4, <3>5
  <2>9. BlockAt(t, p) = e
    BY <2>8, BlockOfBytesOf DEF BlockAt
  <2>10. g[e] = a
    BY <2>5 DEF Undoes
  <2>11. u[m + 1] = BytesOf(a)[r + 1]
    BY <1>3, <2>1, <2>2, <2>9, <2>10
  <2>12. BytesOf(a)[r + 1] = s[p + r + 1]
    <3>1. r < BlockLen /\ p + r < Len(s)
      BY <1>4, <2>2 DEF AtByte
    <3> QED BY <2>4, <3>1, BlockAtFacts
  <2>13. p + r = m
    BY <2>2 DEF AtByte
  <2> QED BY <2>11, <2>12, <2>13
<1>5. ASSUME NEW k \in 1 .. L PROVE u[k] = s[k]
  <2>1. PICK m \in Nat : m = k - 1 /\ m < L /\ m + 1 = k
    OBVIOUS
  <2> QED BY <1>4, <2>1
<1> QED
  BY <1>2, <1>3, <1>5

\* AES of some bytes with the bytes of a key, and back.
Enciphering(k) == [b \in BlockRange |-> Cipher(k, b)]
Deciphering(k) == [b \in BlockRange |-> Decipher(k, b)]
AesOf(k, s) == Blockwise(Enciphering(k), s)
                   \o (IF Len(s) % BlockLen = 0 THEN <<>> ELSE <<Len(s) % BlockLen>>)
Readable(c) == \/ Len(c) % BlockLen = 0
               \/ Len(c) % BlockLen = 1 /\ Len(c) > BlockLen /\ c[Len(c)] < BlockLen
AesBack(k, c) ==
    IF Len(c) % BlockLen = 0 THEN Blockwise(Deciphering(k), c)
    ELSE SubSeq(Blockwise(Deciphering(k), SubSeq(c, 1, Len(c) - 1)),
                1, Len(c) - 1 - BlockLen + c[Len(c)])

LEMMA CodesUndo ==
    ASSUME CipherFact, NEW k \in Seq(Byte), Len(k) = KeyLen
    PROVE  /\ Enciphering(k) \in BlockCode /\ Deciphering(k) \in BlockCode
           /\ Undoes(Deciphering(k), Enciphering(k))
<1>1. \A b \in BlockRange : /\ Cipher(k, b) \in BlockRange /\ Decipher(k, b) \in BlockRange
                            /\ Decipher(k, Cipher(k, b)) = b
  BY DEF CipherFact
<1> QED
  BY <1>1 DEF Enciphering, Deciphering, BlockCode, Undoes

LEMMA OneByte ==
    ASSUME NEW x \in Nat, x < BlockLen
    PROVE  <<x>> \in Seq(Byte) /\ Len(<<x>>) = 1 /\ <<x>>[1] = x
<1>1. x \in Byte
  <2>1. x < 256
    BY GcmSizes
  <2> QED BY <2>1, GcmSizes DEF Uint8
<1> QED
  BY <1>1

LEMMA AesRoundTrip ==
    ASSUME CipherFact, NEW k \in Seq(Byte), Len(k) = KeyLen, NEW s \in Seq(Byte)
    PROVE  AesOf(k, s) \in Seq(Byte) /\ AesBack(k, AesOf(k, s)) = s
<1>1. PICK f, g \in BlockCode : f = Enciphering(k) /\ g = Deciphering(k) /\ Undoes(g, f)
  BY CodesUndo
<1>2. PICK L \in Nat : L = Len(s)
  OBVIOUS
<1>3. PICK T, x \in Nat : InBlocks(L, T, x)
  BY BlocksNeeded
<1>4. /\ T = BlockLen * Ceil(L) /\ L <= T /\ T % BlockLen = 0 /\ (T + 1) % BlockLen = 1
      /\ x = L % BlockLen /\ x < BlockLen
      /\ x = 0 => T = L
      /\ x # 0 => (T + x) - BlockLen = L /\ T >= BlockLen
  BY <1>3 DEF InBlocks
<1>5. PICK t \in Seq(Byte) : t = Blockwise(f, s) /\ Len(t) = T
  BY <1>2, <1>4, BlockwiseFacts
<1>6. PICK u \in Seq(Byte) : u = Blockwise(g, t) /\ Len(u) = T /\ \A i \in 1 .. L : u[i] = s[i]
  BY <1>1, <1>2, <1>3, <1>5, BlockwiseUndone
<1>7. PICK B \in Nat : B = BlockLen /\ B >= 2
  BY GcmSizes
<1>8. CASE x = 0
  <2>1. AesOf(k, s) = t
    BY <1>1, <1>2, <1>4, <1>5, <1>8 DEF AesOf
  <2>2. AesBack(k, t) = u
    BY <1>1, <1>4, <1>5, <1>6 DEF AesBack
  <2>3. u = s
    BY <1>2, <1>4, <1>6, <1>8
  <2> QED BY <2>1, <2>2, <2>3
<1>9. CASE x # 0
  <2>1. PICK d \in Seq(Byte) : d = <<x>> /\ Len(d) = 1 /\ d[1] = x
    BY <1>4, OneByte
  <2>2. PICK c \in Seq(Byte) : c = t \o d /\ Len(c) = T + 1
    <3>1. t \o d \in Seq(Byte) /\ Len(t \o d) = Len(t) + Len(d)
      BY ConcatFacts
    <3> QED BY <1>5, <2>1, <3>1
  <2>3. /\ \A i \in 1 .. T : c[i] = t[i]
        /\ c[T + 1] = x
    <3>1. /\ \A i \in 1 .. Len(t) : (t \o d)[i] = t[i]
          /\ \A i \in 1 .. Len(d) : (t \o d)[Len(t) + i] = d[i]
      BY ConcatFacts
    <3>2. c[T + 1] = d[1]
      <4>1. 1 \in 1 .. Len(d)
        BY <2>1
      <4> QED BY <1>5, <2>2, <3>1, <4>1
    <3> QED BY <1>5, <2>1, <2>2, <3>1, <3>2
  <2>4. AesOf(k, s) = c
    BY <1>1, <1>2, <1>4, <1>5, <1>9, <2>1, <2>2 DEF AesOf
  <2>5. SubSeq(c, 1, T) = t
    BY <1>5, <2>2, <2>3
  <2>6. Len(c) % BlockLen # 0 /\ Len(c) - 1 = T
    BY <1>4, <2>2
  <2>7. Len(c) - 1 - BlockLen + c[Len(c)] = L
    <3>1. Len(c) = T + 1 /\ c[T + 1] = x
      BY <2>2, <2>3
    <3>2. (T + x) - B = L
      BY <1>4, <1>7, <1>9
    <3>3. (T + 1) - 1 - B + x = L
      BY ONLY T \in Nat, x \in Nat, B \in Nat, L \in Nat, <3>2
    <3> QED BY <1>7, <3>1, <3>3
  <2>8. AesBack(k, c) = SubSeq(u, 1, L)
    BY <1>1, <1>6, <2>5, <2>6, <2>7 DEF AesBack
  <2>9. SubSeq(u, 1, L) = s
    <3>1. L <= Len(u)
      BY <1>4, <1>6
    <3>2. /\ SubSeq(u, 1, L) \in Seq(Byte) /\ Len(SubSeq(u, 1, L)) = L
          /\ \A i \in 1 .. L : SubSeq(u, 1, L)[i] = u[i]
      BY ONLY u \in Seq(Byte), L \in Nat, <3>1
    <3>3. \A i \in 1 .. L : u[i] = s[i]
      BY <1>6
    <3> QED BY <1>2, <3>2, <3>3
  <2> QED BY <2>4, <2>8, <2>9
<1> QED
  BY <1>8, <1>9

\* What is deciphered is never longer than the code.
LEMMA AesBackType ==
    ASSUME CipherFact, NEW k \in Seq(Byte), Len(k) = KeyLen, NEW c \in Seq(Byte), Readable(c)
    PROVE  AesBack(k, c) \in Seq(Byte) /\ Len(AesBack(k, c)) <= Len(c)
<1>1. PICK g \in BlockCode : g = Deciphering(k)
  BY CodesUndo
<1>2. PICK n \in Nat : n = Len(c)
  OBVIOUS
<1>3. PICK B \in Nat : B = BlockLen /\ B >= 2
  BY GcmSizes
<1>4. ASSUME NEW s \in Seq(Byte), Len(s) % BlockLen = 0
      PROVE  Blockwise(g, s) \in Seq(Byte) /\ Len(Blockwise(g, s)) = Len(s)
  <2>1. PICK L \in Nat : L = Len(s)
    OBVIOUS
  <2>2. PICK T, x \in Nat : InBlocks(L, T, x)
    BY BlocksNeeded
  <2>3. T = BlockLen * Ceil(L) /\ T = L
    BY <1>4, <2>1, <2>2 DEF InBlocks
  <2> QED BY <2>1, <2>3, BlockwiseFacts
<1>5. CASE n % BlockLen = 0
  <2>1. AesBack(k, c) = Blockwise(g, c)
    BY <1>1, <1>2, <1>5 DEF AesBack
  <2> QED BY <1>2, <1>4, <1>5, <2>1
<1>6. CASE ~(n % BlockLen = 0)
  <2>1. n % BlockLen = 1 /\ n > B /\ c[n] < B
    BY <1>2, <1>3, <1>6 DEF Readable
  <2>2. PICK e \in Nat : e = c[n] /\ e < B
    <3>1. n \in 1 .. Len(c)
      BY <1>2, <2>1
    <3>2. c[n] \in Byte
      BY <3>1
    <3>3. c[n] \in Nat
      BY <3>2 DEF Byte
    <3> QED BY <2>1, <3>3
  <2>3. PICK m \in Nat : m = n - 1 /\ m >= B
    BY <1>3, <2>1
  <2>4. m % BlockLen = 0
    <3>1. PICK q, p \in Nat : q = n \div BlockLen /\ p = q * BlockLen /\ p + 1 = n
      <4>1. PICK q \in Nat : q = n \div BlockLen
        BY BlocksAndRest
      <4>2. PICK p \in Nat : p = q * BlockLen
        BY <4>1, BlocksAndRest
      <4>3. p + 1 = n
        BY <2>1, <4>1, <4>2, BlocksAndRest
      <4> QED BY <4>1, <4>2, <4>3
    <3>2. AtByte(p + 0, q, 0, p)
      <4>1. 0 < BlockLen /\ 0 \in Nat
        BY GcmSizes
      <4> QED BY <3>1, <4>1, InTheBlock
    <3>3. p + 0 = m
      BY <2>3, <3>1
    <3> QED BY <3>2, <3>3 DEF AtByte
  <2>5. PICK t \in Seq(Byte) : t = SubSeq(c, 1, m) /\ Len(t) = m
    <3>1. m <= Len(c)
      BY <1>2, <2>3
    <3>2. SubSeq(c, 1, m) \in Seq(Byte) /\ Len(SubSeq(c, 1, m)) = m
      BY <3>1
    <3> QED BY <3>2
  <2>6. PICK u \in Seq(Byte) : u = Blockwise(g, t) /\ Len(u) = m
    BY <1>4, <2>4, <2>5
  <2>7. PICK to \in Nat : to = m - B + e /\ to <= m
    BY <2>2, <2>3
  <2>8. AesBack(k, c) = SubSeq(u, 1, to)
    <3>1. Len(c) - 1 = m /\ Len(c) - 1 - BlockLen + c[Len(c)] = to
      BY <1>2, <1>3, <2>2, <2>3, <2>7
    <3> QED BY <1>1, <1>2, <1>6, <2>5, <2>6, <3>1 DEF AesBack
  <2>9. SubSeq(u, 1, to) \in Seq(Byte) /\ Len(SubSeq(u, 1, to)) = to
    BY <2>6, <2>7
  <2> QED BY <1>2, <2>3, <2>7, <2>8, <2>9
<1> QED
  BY <1>5, <1>6

\* What is left of a buffer that was written through data().
LEMMA UnwrittenFacts ==
    ASSUME NEW s \in Seq(Byte), Len(s) <= MaxSize
    PROVE  /\ WellFormed(Unwritten(s)) /\ Bytes(Unwritten(s)) = s
           /\ Unwritten(s).m_bufferSz = Len(s)
<1>1. PICK b : b = Whole(s) /\ WellFormed(b) /\ b.m_bufferSz = Len(s) /\ Bytes(b) = s
  BY WholeFacts
<1>2. Unwritten(s) = resetWrite(b)
  BY <1>1 DEF Unwritten
<1>3. WellFormed(resetWrite(b))
  BY <1>1, ResetFacts
<1>4. resetWrite(b).m_bufferSz = b.m_bufferSz /\ resetWrite(b).m_buffer = b.m_buffer
  BY DEF resetWrite, WriteAt, Buffer
<1>5. Bytes(resetWrite(b)) = Bytes(b)
  BY <1>4 DEF Bytes
<1> QED
  BY <1>1, <1>2, <1>3, <1>4, <1>5

\* A buffer that is filled is as large as it was made, whatever is written to it.
LEMMA SizeOfFilled ==
    ASSUME NEW n, NEW s
    PROVE  size(Filled(n, s)) = n /\ size(Unwritten(s)) = Len(s) /\ size(NewBuffer(n)) = n
<1>1. \A b : size(writeArray(b, s).self) = size(b)
  BY DEF writeArray, Result, WriteAt, Holding, Buffer, size
<1>2. size(NewBuffer(n)) = n /\ size(NewBuffer(Len(s))) = Len(s)
  BY DEF NewBuffer, Buffer, size
<1>3. size(Filled(n, s)) = n /\ size(Filled(Len(s), s)) = Len(s)
  BY <1>1, <1>2 DEF Filled
<1>4. \A b : size(resetWrite(b)) = size(b)
  BY DEF resetWrite, WriteAt, Buffer, size
<1> QED
  BY <1>2, <1>3, <1>4 DEF Unwritten, Whole

\* A key made of random numbers is a buffer.
LEMMA SessionKeyFacts ==
    ASSUME NEW r \in Byte
    PROVE  WellFormed(SessionKey(r))
<1> DEFINE Filling == {b \in Buffers : WellFormed(b)}
           first == write(NewBuffer(32), <<r, r, r, r>>).self
           step == [k \in 1 .. 15 |-> [b \in Filling |-> write(b, <<r, r>>).self]]
           Steps(h) == [n \in 0 .. 15 |-> IF n = 0 THEN first ELSE write(h[n - 1], <<r, r>>).self]
           Written16 == CHOOSE h : h = Steps(h)
<1>1. <<r, r, r, r>> \in Seq(Byte) /\ <<r, r>> \in Seq(Byte)
  OBVIOUS
<1>2. \A b : b \in Filling <=> WellFormed(b)
  BY DEF WellFormed
<1>3. first \in Filling
  <2>1. WellFormed(NewBuffer(32))
    BY NewBufferFacts, TextAssumption
  <2>2. Honest(NewBuffer(32), writeArray(NewBuffer(32), <<r, r, r, r>>))
    BY <1>1, <2>1, WriteFacts
  <2> QED BY <1>2, <2>2 DEF Honest, write
<1>4. \A b \in Filling : write(b, <<r, r>>).self \in Filling
  <2> SUFFICES ASSUME NEW b \in Filling PROVE write(b, <<r, r>>).self \in Filling
    OBVIOUS
  <2>1. WellFormed(b)
    BY <1>2
  <2>2. Honest(b, writeArray(b, <<r, r>>))
    BY <1>1, <2>1, WriteFacts
  <2> QED BY <1>2, <2>2 DEF Honest, write
<1> HIDE DEF Filling, first
<1>5. step \in [1 .. 15 -> [Filling -> Filling]]
  BY <1>4
<1>6. PICK f \in [0 .. 15 -> Filling] : Stepwise(f, 15, first, step)
  <2> HIDE DEF step
  <2> QED BY <1>3, <1>5, StepwiseExists
<1>7. f = Steps(f)
  <2>1. f[0] = first /\ \A k \in 1 .. 15 : f[k] = step[k][f[k - 1]]
    BY <1>6 DEF Stepwise
  <2>2. ASSUME NEW k \in 0 .. 15
        PROVE  f[k] = Steps(f)[k]
    <3>1. CASE k = 0
      BY <2>1, <3>1
    <3>2. CASE k # 0
      <4>1. k \in 1 .. 15 /\ k - 1 \in 0 .. 15
        BY <3>2
      <4>2. f[k] = step[k][f[k - 1]] /\ f[k - 1] \in Filling
        BY <1>6, <2>1, <4>1
      <4>3. f[k] = write(f[k - 1], <<r, r>>).self
        BY <4>1, <4>2
      <4> QED BY <3>2, <4>3
    <3> QED BY <3>1, <3>2
  <2>3. f = [k \in 0 .. 15 |-> f[k]] /\ Steps(f) = [k \in 0 .. 15 |-> Steps(f)[k]]
    BY <1>6
  <2> HIDE DEF Steps
  <2> QED BY <2>2, <2>3
<1>8. Written16 = Steps(Written16)
  <2> HIDE DEF Steps
  <2> QED BY <1>7
<1>9. SessionKey(r) = Written16[15]
  BY DEF SessionKey, first
<1> HIDE DEF Written16
<1>10. \A k \in 0 .. 15 : Written16[k] \in Filling
  <2> DEFINE P(k) == Written16[k] \in Filling
  <2>1. Written16[0] \in Filling
    BY <1>3, <1>8
  <2>2. \A k \in 1 .. 15 : Written16[k - 1] \in Filling => Written16[k] \in Filling
    <3> SUFFICES ASSUME NEW k \in 1 .. 15, Written16[k - 1] \in Filling
                 PROVE  Written16[k] \in Filling
      OBVIOUS
    <3>1. Written16[k] = write(Written16[k - 1], <<r, r>>).self
      BY <1>8
    <3> QED BY <1>4, <3>1
  <2> QED BY <2>1, <2>2, PassedOn
<1> QED
  BY <1>2, <1>9, <1>10

LEMMA GoodKeyFacts ==
    WellFormed(GoodKey) /\ size(GoodKey) = KeyLen
<1> DEFINE s == [k \in 1 .. KeyLen |-> k]
<1>1. KeyLen \in Nat /\ KeyLen < 256 /\ KeyLen <= MaxSize
  BY GcmSizes, TextAssumption
<1>2. s \in Seq(Byte) /\ Len(s) = KeyLen
  <2>1. \A k \in 1 .. KeyLen : k \in Byte
    <3>1. \A k \in 1 .. KeyLen : k \in 0 .. 255
      BY <1>1
    <3> QED BY <3>1, GcmSizes DEF Uint8
  <2> QED BY <1>1, <2>1
<1> HIDE DEF s
<1>3. WellFormed(Whole(s)) /\ Whole(s).m_bufferSz = Len(s)
  BY <1>1, <1>2, WholeFacts
<1> QED
  BY <1>2, <1>3 DEF GoodKey, s, size

LEMMA AccFacts ==
    WellFormed(acc) /\ Written(acc) \in Seq(Byte)
<1>1. Acc \in Seq(Byte) /\ Len(Acc) <= MaxSize
  BY TextAssumption
<1>2. WellFormed(Whole(Acc))
  BY <1>1, WholeFacts
<1> QED
  BY <1>2, BytesFacts DEF acc

-----------------------------------------------------------------------------
(* What a call makes of the bytes of a layer.                               *)

TagBytes(k, y, c) == BytesOf(xorBlocks(ghash(H(k), Written(acc), c), Encrypted(k, y)))

\* c is what a call of this kind makes of the plain bytes of the layer.
Wraps(l, c, k, v) ==
    /\ l.kind = "base64" => c = Base64Of(l.plain)
    /\ l.kind = "aes" => c = AesOf(Bytes(k), l.plain)
    /\ l.kind = "gcm" => /\ c = Streamed(k, Y0(k, v), l.plain)
                         /\ l.tag = TagBytes(k, Y0(k, v), c)

Layers == [kind : {"base64", "aes", "gcm"}, plain : Seq(Byte), tag : Seq(Byte)]

\* The layers ls lead from the bytes c to the text.
Around(ls, c, i) == IF i = 1 THEN c ELSE ls[i - 1].plain
Leads(ls, c, t, k, v) ==
    /\ ls = <<>> => c = t
    /\ ls # <<>> => ls[Len(ls)].plain = t
    /\ \A i \in 1 .. Len(ls) : Wraps(ls[i], Around(ls, c, i), k, v)

LEMMA Wrapped ==
    ASSUME NEW ls \in Seq(Layers), NEW c, NEW t, NEW k, NEW v, Leads(ls, c, t, k, v),
           NEW l \in Layers, l.plain = c, NEW d, Wraps(l, d, k, v)
    PROVE  Leads(<<l>> \o ls, d, t, k, v)
<1>1. PICK n \in Nat : n = Len(ls)
  OBVIOUS
<1>2. PICK q \in Seq(Layers) : q = <<l>> \o ls
  <2>1. <<l>> \in Seq(Layers)
    OBVIOUS
  <2>2. <<l>> \o ls \in Seq(Layers)
    BY <2>1, ConcatProperties, Zenon
  <2> QED BY <2>2
<1>3. /\ Len(q) = n + 1 /\ q[1] = l
      /\ \A i \in 2 .. (n + 1) : q[i] = ls[i - 1]
  BY <1>1, <1>2
<1>4. q # <<>>
  BY <1>1, <1>3
<1>5. q[Len(q)].plain = t
  <2>1. CASE n = 0
    <3>1. ls = <<>>
      <4>1. ls # <<>> => Len(ls) \in Nat \ {0}
        BY EmptySeq, Zenon
      <4> QED BY <1>1, <2>1, <4>1
    <3>2. q[Len(q)] = l
      BY <1>3, <2>1
    <3> QED BY <3>1, <3>2 DEF Leads
  <2>2. CASE n # 0
    <3>1. ls # <<>>
      BY <1>1, <2>2
    <3>2. q[Len(q)] = ls[n]
      <4>1. n + 1 \in 2 .. (n + 1) /\ (n + 1) - 1 = n
        BY <2>2
      <4> QED BY <1>3, <4>1
    <3> QED BY <1>1, <3>1, <3>2 DEF Leads
  <2> QED BY <2>1, <2>2
<1>6. ASSUME NEW i \in 1 .. (n + 1)
      PROVE  Wraps(q[i], Around(q, d, i), k, v)
  <2>1. CASE i = 1
    BY <1>3, <2>1 DEF Around
  <2>2. CASE i = 2
    <3>1. Around(q, d, i) = c /\ q[i] = ls[1] /\ 1 \in 1 .. n
      BY <1>3, <2>2 DEF Around
    <3>2. Wraps(ls[1], Around(ls, c, 1), k, v)
      BY <1>1, <3>1 DEF Leads
    <3>3. Around(ls, c, 1) = c
      BY DEF Around
    <3> QED BY <3>1, <3>2, <3>3
  <2>3. CASE i # 1 /\ i # 2
    <3>1. PICK j \in 1 .. n : j = i - 1 /\ j # 1
      BY <2>3
    <3>2. i \in 2 .. (n + 1) /\ i - 1 \in 2 .. (n + 1) /\ (i - 1) - 1 = j - 1
      BY <2>3, <3>1
    <3>3. q[i] = ls[j] /\ q[i - 1] = ls[j - 1]
      BY <1>3, <3>1, <3>2
    <3>4. Around(q, d, i) = Around(ls, c, j)
      BY <2>3, <3>1, <3>3 DEF Around
    <3>5. Wraps(ls[j], Around(ls, c, j), k, v)
      BY <1>1 DEF Leads
    <3> QED BY <3>3, <3>4, <3>5
  <2> QED BY <2>1, <2>2, <2>3
<1> QED
  BY <1>2, <1>3, <1>4, <1>5, <1>6 DEF Leads

LEMMA Unwrapped ==
    ASSUME NEW ls \in Seq(Layers), ls # <<>>, NEW c, NEW t, NEW k, NEW v, Leads(ls, c, t, k, v)
    PROVE  /\ Head(ls) \in Layers /\ Tail(ls) \in Seq(Layers) /\ Len(Tail(ls)) = Len(ls) - 1
           /\ Wraps(Head(ls), c, k, v)
           /\ Leads(Tail(ls), Head(ls).plain, t, k, v)
<1>1. PICK n \in Nat : n = Len(ls) /\ n >= 1
  OBVIOUS
<1>2. PICK q \in Seq(Layers) : q = Tail(ls)
  <2>1. Tail(ls) \in Seq(Layers)
    BY HeadTailProperties, Zenon
  <2> QED BY <2>1
<1>3. /\ Len(q) = n - 1 /\ Head(ls) = ls[1] /\ ls[1] \in Layers
      /\ \A i \in 1 .. (n - 1) : q[i] = ls[i + 1]
  BY <1>1, <1>2
<1>4. ASSUME NEW i \in 1 .. n
      PROVE  Wraps(ls[i], Around(ls, c, i), k, v)
  BY <1>1 DEF Leads
<1>5. Wraps(Head(ls), c, k, v)
  <2>1. 1 \in 1 .. n /\ Around(ls, c, 1) = c
    BY <1>1 DEF Around
  <2> QED BY <1>3, <1>4, <2>1
<1>6. q = <<>> => Head(ls).plain = t
  <2> SUFFICES ASSUME q = <<>> PROVE Head(ls).plain = t
    OBVIOUS
  <2>1. n = 1
    BY <1>3
  <2> QED BY <1>1, <1>3, <2>1 DEF Leads
<1>7. q # <<>> => q[Len(q)].plain = t
  <2> SUFFICES ASSUME q # <<>> PROVE q[Len(q)].plain = t
    OBVIOUS
  <2>1. n - 1 \in 1 .. (n - 1) /\ (n - 1) + 1 = n
    BY <1>3
  <2>2. q[Len(q)] = ls[n]
    BY <1>3, <2>1
  <2> QED BY <1>1, <2>2 DEF Leads
<1>8. ASSUME NEW i \in 1 .. (n - 1)
      PROVE  Wraps(q[i], Around(q, Head(ls).plain, i), k, v)
  <2>1. i + 1 \in 1 .. n /\ (i + 1) - 1 = i
    BY <1>1
  <2>2. Wraps(ls[i + 1], Around(ls, c, i + 1), k, v)
    BY <1>4, <2>1
  <2>3. Around(ls, c, i + 1) = ls[i].plain
    BY <2>1 DEF Around
  <2>4. Around(q, Head(ls).plain, i) = ls[i].plain
    <3>1. CASE i = 1
      BY <1>3, <3>1 DEF Around
    <3>2. CASE i # 1
      <4>1. i - 1 \in 1 .. (n - 1) /\ (i - 1) + 1 = i
        BY <3>2
      <4>2. q[i - 1] = ls[i]
        BY <1>3, <4>1
      <4> QED BY <3>2, <4>2 DEF Around
    <3> QED BY <3>1, <3>2
  <2>5. q[i] = ls[i + 1]
    BY <1>3
  <2> QED BY <2>2, <2>3, <2>4, <2>5
<1> QED
  BY <1>1, <1>2, <1>3, <1>5, <1>6, <1>7, <1>8 DEF Leads

-----------------------------------------------------------------------------
(* The invariant of the Encryptor.                                          *)

BuffersHeld == WellFormed(data) /\ WellFormed(key) /\ WellFormed(iv) /\ WellFormed(tag)
HistoryKept == /\ calls \in Nat /\ layers \in Seq(Layers)
               /\ calls + Len(layers) <= MaxCalls /\ sound \in BOOLEAN
\* As long as every call was sound, the data is what the layers made of the text.
Unwrappable == sound => Leads(layers, Bytes(data), text, key, resetRead(iv))
EncryptorInv == BuffersHeld /\ HistoryKept /\ Unwrappable

\* What the assumptions say of the constants.
LEMMA TextFacts ==
    /\ \A s \in Texts : s \in Seq(Byte) /\ Len(s) <= MaxSize
    /\ \A s \in Ivs : s \in Seq(Byte) /\ Len(s) <= MaxSize
    /\ \A n \in TagSizes : n \in Nat /\ n <= MaxSize
    /\ \A r \in Rands : r \in Byte
    /\ MaxCalls \in Nat /\ MaxSize \in Nat
<1>1. MaxSize \in Nat
  BY SizeAssumption
<1>2. \A n \in TagSizes : n \in Nat /\ n <= MaxSize
  BY <1>1, TextAssumption
<1>3. \A s \in Texts \cup Ivs \cup {Acc} : s \in Seq(Byte) /\ Len(s) <= MaxSize
  BY TextAssumption, Zenon
<1>4. (\A r \in Rands : r \in Byte) /\ MaxCalls \in Nat
  BY TextAssumption, Zenon
<1>5. \A s \in Texts : s \in Seq(Byte) /\ Len(s) <= MaxSize
  BY <1>3, Zenon
<1>6. \A s \in Ivs : s \in Seq(Byte) /\ Len(s) <= MaxSize
  BY <1>3, Zenon
<1> QED
  BY <1>1, <1>2, <1>4, <1>5, <1>6

\* The layer a call puts around the data.
LEMMA LayerType ==
    ASSUME WellFormed(data), NEW kind \in {"base64", "aes", "gcm"}, NEW computed \in Seq(Byte)
    PROVE  /\ Layer(kind, computed) \in Layers
           /\ Layer(kind, computed).kind = kind /\ Layer(kind, computed).plain = Bytes(data)
           /\ Layer(kind, computed).tag = computed
<1>1. Bytes(data) \in Seq(Byte)
  BY BytesFacts
<1> QED
  BY <1>1, Zenon DEF Layer, Layers

\* A layer more.
LEMMA LayerPushed ==
    ASSUME HistoryKept, Unwrappable, WellFormed(data),
           NEW kind \in {"base64", "aes", "gcm"}, NEW computed \in Seq(Byte),
           Push(kind, computed), text' = text, key' = key, resetRead(iv') = resetRead(iv),
           sound' \in BOOLEAN, sound' => sound,
           sound' => Wraps(Layer(kind, computed), Bytes(data'), key, resetRead(iv))
    PROVE  HistoryKept' /\ Unwrappable'
<1> DEFINE l == Layer(kind, computed)
<1>1. l \in Layers /\ l.plain = Bytes(data)
  BY LayerType
<1> HIDE DEF l
<1>2. layers' = <<l>> \o layers /\ calls' = calls + 1 /\ calls + Len(layers) + 2 <= MaxCalls
  BY DEF Push, l
<1>3. layers \in Seq(Layers) /\ calls \in Nat /\ MaxCalls \in Nat
  BY TextFacts DEF HistoryKept
<1>4. layers' \in Seq(Layers) /\ Len(layers') = Len(layers) + 1
  BY <1>1, <1>2, <1>3
<1>5. HistoryKept'
  <2>1. Len(layers) \in Nat
    BY <1>3
  <2>2. calls' \in Nat /\ calls' + Len(layers') <= MaxCalls
    BY <1>2, <1>3, <1>4, <2>1
  <2> QED BY <1>4, <2>2 DEF HistoryKept
<1>6. ASSUME sound' PROVE Leads(layers', Bytes(data'), text', key', resetRead(iv'))
  <2>1. Leads(layers, Bytes(data), text, key, resetRead(iv))
    BY <1>6 DEF Unwrappable
  <2>2. Wraps(l, Bytes(data'), key, resetRead(iv))
    BY <1>6 DEF l
  <2>3. Leads(<<l>> \o layers, Bytes(data'), text, key, resetRead(iv))
    BY <1>1, <1>3, <2>1, <2>2, Wrapped, Zenon
  <2> QED BY <1>2, <2>3, Zenon
<1> QED
  BY <1>5, <1>6 DEF Unwrappable

\* A layer less.
LEMMA LayerPopped ==
    ASSUME HistoryKept, Unwrappable, NEW kind, Pop(kind),
           text' = text, key' = key, resetRead(iv') = resetRead(iv),
           sound' \in BOOLEAN, sound' => sound,
           sound' /\ Wraps(Head(layers), Bytes(data), key, resetRead(iv)) =>
               Bytes(data') = Head(layers).plain
    PROVE  HistoryKept' /\ Unwrappable'
<1>1. layers # <<>> /\ layers' = Tail(layers) /\ calls' = calls + 1
  BY DEF Pop
<1>2. layers \in Seq(Layers) /\ calls \in Nat /\ MaxCalls \in Nat
  BY TextFacts DEF HistoryKept
<1>3. Tail(layers) \in Seq(Layers) /\ Len(Tail(layers)) = Len(layers) - 1
  BY <1>1, <1>2, HeadTailProperties
<1>4. HistoryKept'
  <2>1. calls + Len(layers) <= MaxCalls /\ Len(layers) \in Nat
    BY <1>2 DEF HistoryKept
  <2>2. calls' \in Nat /\ calls' + Len(layers') <= MaxCalls
    BY <1>1, <1>2, <1>3, <2>1
  <2> QED BY <1>1, <1>3, <2>2 DEF HistoryKept
<1>5. ASSUME sound' PROVE Leads(layers', Bytes(data'), text', key', resetRead(iv'))
  <2>1. Leads(layers, Bytes(data), text, key, resetRead(iv))
    BY <1>5 DEF Unwrappable
  <2>2. /\ Wraps(Head(layers), Bytes(data), key, resetRead(iv))
        /\ Leads(Tail(layers), Head(layers).plain, text, key, resetRead(iv))
    BY <1>1, <1>2, <2>1, Unwrapped, Zenon
  <2>3. Bytes(data') = Head(layers).plain
    BY <1>5, <2>2, Zenon
  <2> QED BY <1>1, <2>2, <2>3, Zenon
<1> QED
  BY <1>4, <1>5 DEF Unwrappable

\* The start.
LEMMA EncryptorStart == Init => EncryptorInv
<1> SUFFICES ASSUME Init PROVE EncryptorInv
  OBVIOUS
<1>1. text \in Seq(Byte) /\ Len(text) <= MaxSize /\ data = Whole(text)
  BY TextFacts DEF Init
<1>2. PICK v \in Ivs : iv = Whole(v)
  BY DEF Init
<1>3. PICK n \in TagSizes : tag = NewBuffer(n)
  BY DEF Init
<1>4. WellFormed(data) /\ Bytes(data) = text
  BY <1>1, WholeFacts
<1>5. WellFormed(iv)
  BY <1>2, TextFacts, WholeFacts
<1>6. WellFormed(tag)
  BY <1>3, TextFacts, NewBufferFacts
<1>7. WellFormed(key)
  BY GoodKeyFacts DEF Init
<1>8. calls = 0 /\ layers = <<>> /\ sound = TRUE
  BY DEF Init
<1>9. <<>> \in Seq(Layers) /\ Len(<<>>) = 0
  OBVIOUS
<1>10. HistoryKept
  BY <1>8, <1>9, TextFacts DEF HistoryKept
<1>11. Leads(layers, Bytes(data), text, key, resetRead(iv))
  BY <1>4, <1>8, <1>9 DEF Leads
<1> QED
  BY <1>4, <1>5, <1>6, <1>7, <1>10, <1>11 DEF EncryptorInv, BuffersHeld, Unwrappable

-----------------------------------------------------------------------------
(* Every action keeps the invariant.                                        *)

LEMMA EncryptBase64Step == EncryptorInv /\ encryptBase64 => EncryptorInv'
<1> SUFFICES ASSUME EncryptorInv, encryptBase64 PROVE EncryptorInv'
  OBVIOUS
<1> DEFINE l == Layer("base64", <<>>)
<1>1. /\ WellFormed(data) /\ WellFormed(key) /\ WellFormed(iv) /\ WellFormed(tag)
      /\ HistoryKept /\ Unwrappable
  BY DEF EncryptorInv, BuffersHeld
<1>2. /\ Push("base64", <<>>) /\ data' = Base64Result(data) /\ size(Base64Result(data)) <= MaxSize
      /\ text' = text /\ key' = key /\ iv' = iv /\ tag' = tag
      /\ sound' = (sound /\ data.m_readIndex = 0)
  BY DEF encryptBase64, Base64Result, Allocated
<1>3. WellFormed(data') /\ (data.m_readIndex = 0 => Bytes(data') = Base64Of(Bytes(data)))
  BY <1>1, <1>2, EncodedFacts
<1>4. sound' \in BOOLEAN /\ (sound' => sound /\ data.m_readIndex = 0)
  BY <1>1, <1>2 DEF HistoryKept
<1>5. <<>> \in Seq(Byte) /\ "base64" \in {"base64", "aes", "gcm"}
  OBVIOUS
<1>6. l.kind = "base64" /\ l.plain = Bytes(data)
  BY <1>1, <1>5, LayerType
<1> HIDE DEF l
<1>7. sound' => Wraps(l, Bytes(data'), key, resetRead(iv))
  BY <1>3, <1>4, <1>6 DEF Wraps
<1>8. HistoryKept' /\ Unwrappable'
  BY <1>1, <1>2, <1>4, <1>5, <1>7, LayerPushed DEF l
<1> QED
  BY <1>1, <1>2, <1>3, <1>8 DEF EncryptorInv, BuffersHeld

LEMMA DecryptBase64Step == EncryptorInv /\ decryptBase64 => EncryptorInv'
<1> SUFFICES ASSUME EncryptorInv, decryptBase64 PROVE EncryptorInv'
  OBVIOUS
<1>1. /\ WellFormed(data) /\ WellFormed(key) /\ WellFormed(iv) /\ WellFormed(tag)
      /\ HistoryKept /\ Unwrappable
  BY DEF EncryptorInv, BuffersHeld
<1>2. /\ Pop("base64") /\ data' = Base64Decoded(data)
      /\ text' = text /\ key' = key /\ iv' = iv /\ tag' = tag
      /\ sound' = (sound /\ data.m_readIndex = 0)
  BY DEF decryptBase64, Base64Decoded
<1>3. WellFormed(data')
  BY <1>1, <1>2, DecodedIsBuffer
<1>4. sound' \in BOOLEAN /\ (sound' => sound /\ data.m_readIndex = 0)
  BY <1>1, <1>2 DEF HistoryKept
<1>5. Head(layers) \in Layers /\ Head(layers).kind = "base64"
  BY <1>1, <1>2, HeadTailProperties DEF Pop, HistoryKept
<1>6. ASSUME sound', Wraps(Head(layers), Bytes(data), key, resetRead(iv))
      PROVE  Bytes(data') = Head(layers).plain
  <2>1. Bytes(data) = Base64Of(Head(layers).plain)
    BY <1>5, <1>6 DEF Wraps
  <2>2. Head(layers).plain \in Seq(Byte)
    BY <1>5 DEF Layers
  <2> QED BY <1>1, <1>2, <1>4, <1>6, <2>1, <2>2, Base64RoundTrip
<1>7. HistoryKept' /\ Unwrappable'
  BY <1>1, <1>2, <1>4, <1>6, LayerPopped
<1> QED
  BY <1>1, <1>2, <1>3, <1>7 DEF EncryptorInv, BuffersHeld

LEMMA EncryptAesStep == CipherFact /\ EncryptorInv /\ encryptAes128 => EncryptorInv'
<1> SUFFICES ASSUME CipherFact, EncryptorInv, encryptAes128 PROVE EncryptorInv'
  OBVIOUS
<1> DEFINE l == Layer("aes", <<>>)
           s == Bytes(data)
<1>1. /\ WellFormed(data) /\ WellFormed(key) /\ WellFormed(iv) /\ WellFormed(tag)
      /\ HistoryKept /\ Unwrappable
  BY DEF EncryptorInv, BuffersHeld
<1>2. /\ Push("aes", <<>>) /\ text' = text /\ key' = key /\ iv' = iv /\ tag' = tag
      /\ sound' = (sound /\ size(key) = KeyLen)
      /\ size(data') <= MaxSize
  BY DEF encryptAes128, Allocated
<1>3. data' = IF size(key) # KeyLen THEN NewBuffer(0) ELSE Unwritten(AesOf(Bytes(key), s))
  BY DEF encryptAes128, AesOf, Ciphered, Enciphering, BlockRange
<1>4. s \in Seq(Byte) /\ Bytes(key) \in Seq(Byte) /\ Len(Bytes(key)) = size(key)
  BY <1>1, BytesFacts DEF size
<1> HIDE DEF s
<1>5. CASE size(key) # KeyLen
  <2>1. WellFormed(data')
    BY <1>3, <1>5, NewBufferFacts, TextFacts
  <2>2. sound' = FALSE
    BY <1>2, <1>5
  <2>3. <<>> \in Seq(Byte) /\ "aes" \in {"base64", "aes", "gcm"}
    OBVIOUS
  <2>4. HistoryKept' /\ Unwrappable'
    BY <1>1, <1>2, <2>2, <2>3, LayerPushed
  <2> QED BY <1>1, <1>2, <2>1, <2>4 DEF EncryptorInv, BuffersHeld
<1>6. CASE size(key) = KeyLen
  <2>1. data' = Unwritten(AesOf(Bytes(key), s))
    BY <1>3, <1>6
  <2>2. AesOf(Bytes(key), s) \in Seq(Byte)
    BY <1>4, <1>6, AesRoundTrip
  <2>3. Len(AesOf(Bytes(key), s)) <= MaxSize
    BY <1>2, <2>1, SizeOfFilled
  <2>4. WellFormed(data') /\ Bytes(data') = AesOf(Bytes(key), s)
    BY <2>1, <2>2, <2>3, UnwrittenFacts
  <2>5. <<>> \in Seq(Byte) /\ "aes" \in {"base64", "aes", "gcm"}
    OBVIOUS
  <2>6. l.kind = "aes" /\ l.plain = s
    BY <1>1, <2>5, LayerType DEF s
  <2> HIDE DEF l
  <2>7. Wraps(l, Bytes(data'), key, resetRead(iv))
    BY <2>4, <2>6 DEF Wraps
  <2>8. sound' \in BOOLEAN /\ (sound' => sound)
    BY <1>1, <1>2 DEF HistoryKept
  <2>9. HistoryKept' /\ Unwrappable'
    BY <1>1, <1>2, <2>5, <2>7, <2>8, LayerPushed DEF l
  <2> QED BY <1>1, <1>2, <2>4, <2>9 DEF EncryptorInv, BuffersHeld
<1> QED
  BY <1>5, <1>6

LEMMA DecryptAesStep == CipherFact /\ EncryptorInv /\ decryptAes128 => EncryptorInv'
<1> SUFFICES ASSUME CipherFact, EncryptorInv, decryptAes128 PROVE EncryptorInv'
  OBVIOUS
<1> DEFINE c == Bytes(data)
           k == Bytes(key)
<1>1. /\ WellFormed(data) /\ WellFormed(key) /\ WellFormed(iv) /\ WellFormed(tag)
      /\ HistoryKept /\ Unwrappable
  BY DEF EncryptorInv, BuffersHeld
<1>2. /\ Pop("aes") /\ text' = text /\ key' = key /\ iv' = iv /\ tag' = tag
      /\ sound' = (sound /\ size(key) = KeyLen)
  BY DEF decryptAes128
<1>3. c \in Seq(Byte) /\ k \in Seq(Byte) /\ Len(k) = size(key) /\ Len(c) <= MaxSize
  BY <1>1, BytesFacts DEF size
<1>4. Readable(c) /\ data' = IF size(key) # KeyLen THEN NewBuffer(0) ELSE Unwritten(AesBack(k, c))
  <2>1. Len(c) % BlockLen = 0 =>
           Readable(c) /\ data' = IF size(key) # KeyLen THEN NewBuffer(0)
                                  ELSE Unwritten(AesBack(k, c))
    BY DEF decryptAes128, AesBack, Readable, Deciphered, Deciphering, BlockRange
  <2>2. Len(c) % BlockLen # 0 =>
           Readable(c) /\ data' = IF size(key) # KeyLen THEN NewBuffer(0)
                                  ELSE Unwritten(AesBack(k, c))
    BY DEF decryptAes128, AesBack, Readable, Deciphered, Deciphering, BlockRange
  <2> QED BY <2>1, <2>2
<1> HIDE DEF c, k
<1>5. sound' \in BOOLEAN /\ (sound' => sound /\ size(key) = KeyLen)
  BY <1>1, <1>2 DEF HistoryKept
<1>6. CASE size(key) # KeyLen
  <2>1. WellFormed(data')
    BY <1>4, <1>6, NewBufferFacts, TextFacts
  <2>2. HistoryKept' /\ Unwrappable'
    BY <1>1, <1>2, <1>5, <1>6, LayerPopped
  <2> QED BY <1>1, <1>2, <2>1, <2>2 DEF EncryptorInv, BuffersHeld
<1>7. CASE size(key) = KeyLen
  <2>1. AesBack(k, c) \in Seq(Byte) /\ Len(AesBack(k, c)) <= Len(c)
    BY <1>3, <1>4, <1>7, AesBackType
  <2>2. Len(AesBack(k, c)) <= MaxSize
    <3>1. Len(c) \in Nat /\ Len(AesBack(k, c)) \in Nat
      BY <1>3, <2>1
    <3> QED BY <1>3, <2>1, <3>1, TextFacts
  <2>3. WellFormed(data') /\ Bytes(data') = AesBack(k, c)
    BY <1>4, <1>7, <2>1, <2>2, UnwrittenFacts
  <2>4. Head(layers) \in Layers /\ Head(layers).kind = "aes"
    BY <1>1, <1>2, HeadTailProperties DEF Pop, HistoryKept
  <2>5. ASSUME sound', Wraps(Head(layers), Bytes(data), key, resetRead(iv))
        PROVE  Bytes(data') = Head(layers).plain
    <3>1. c = AesOf(k, Head(layers).plain)
      BY <2>4, <2>5 DEF Wraps, c, k
    <3>2. Head(layers).plain \in Seq(Byte)
      BY <2>4 DEF Layers
    <3> QED BY <1>3, <1>7, <2>3, <3>1, <3>2, AesRoundTrip
  <2>6. HistoryKept' /\ Unwrappable'
    BY <1>1, <1>2, <1>5, <2>5, LayerPopped
  <2> QED BY <1>1, <1>2, <2>3, <2>6 DEF EncryptorInv, BuffersHeld
<1> QED
  BY <1>6, <1>7

\* The iv and the cursor: what a read leaves of it, and what the counter is made of.
LEMMA IvFacts ==
    ASSUME NEW v, WellFormed(v)
    PROVE  /\ WellFormed(IvRead(v)) /\ WellFormed(resetRead(v))
           /\ resetRead(IvRead(v)) = resetRead(v)
           /\ (length(v) = IvLen => v.m_readIndex = 0) =>
                 \A k : Y0(k, v) = Y0(k, resetRead(v))
<1>1. /\ v = Buffer(v.m_bufferSz, v.m_buffer, v.m_readIndex, v.m_writeIndex)
      /\ v.m_bufferSz \in Nat /\ v.m_bufferSz <= MaxSize
  BY Fields
<1>2. WellFormed(resetRead(v))
  BY ResetFacts
<1>3. (IvLen \in Nat /\ IvLen <= MaxSize) \/ length(v) # IvLen
  <2>1. v.m_writeIndex \in Nat /\ v.m_writeIndex <= MaxSize
    <3>1. v.m_writeIndex \in Nat /\ v.m_writeIndex <= v.m_bufferSz /\ MaxSize \in Nat
      BY Fields
    <3> QED BY <1>1, <3>1
  <2> QED BY <2>1 DEF length
<1>4. WellFormed(IvRead(v)) /\ resetRead(IvRead(v)) = resetRead(v)
  <2>1. CASE length(v) # IvLen
    BY <2>1 DEF IvRead
  <2>2. CASE length(v) = IvLen
    <3>1. IvLen \in Nat /\ IvLen <= MaxSize
      BY <1>3, <2>2
    <3>2. Honest(v, readBytes(v, IvLen))
      BY <3>1, ReadFacts
    <3>3. IvRead(v) = readBytes(v, IvLen).self
      BY <2>2 DEF IvRead
    <3>4. readBytes(v, IvLen).self = v
              \/ readBytes(v, IvLen).self = ReadAt(v, Add(v.m_readIndex, IvLen))
      BY DEF readBytes, Result
    <3>5. \A i : resetRead(ReadAt(v, i)) = resetRead(v)
      BY DEF resetRead, ReadAt, Buffer
    <3> QED BY <3>2, <3>3, <3>4, <3>5 DEF Honest
  <2> QED BY <2>1, <2>2
<1>5. ASSUME length(v) = IvLen => v.m_readIndex = 0, NEW k
      PROVE  Y0(k, v) = Y0(k, resetRead(v))
  <2>1. length(resetRead(v)) = length(v) /\ Written(resetRead(v)) = Written(v)
    BY DEF resetRead, ReadAt, Buffer, length, Written
  <2>2. CASE length(v) # IvLen
    BY <2>1, <2>2, Zenon DEF Y0
  <2>3. CASE length(v) = IvLen
    <3>1. resetRead(v) = v
      BY <1>1, <1>5, <2>3 DEF resetRead, ReadAt
    <3> QED BY <3>1
  <2> QED BY <2>2, <2>3
<1> QED
  BY <1>2, <1>4, <1>5

\* A tag is appended to a buffer, or it is not.
LEMMA TagWritten ==
    ASSUME NEW b, WellFormed(b), NEW s \in Seq(Byte)
    PROVE  WellFormed(write(b, s).self)
BY WriteFacts DEF write, Honest

\* What GCM is called with in a sound call.
LEMMA ReadyFacts ==
    ASSUME WellFormed(data), WellFormed(iv), GcmReady
    PROVE  /\ SeenOf(data).bytes = Bytes(data) /\ Written(data) = Bytes(data)
           /\ data.m_writeIndex = data.m_bufferSz
           /\ \A k : Y0(k, iv) = Y0(k, resetRead(iv))
<1>1. data.m_readIndex = 0 /\ data.m_writeIndex = data.m_bufferSz
  BY DEF GcmReady, length, size
<1>2. SeenOf(data).bytes = Bytes(data)
  BY <1>1, SeenFacts
<1>3. Written(data) = Bytes(data)
  BY <1>1 DEF Written, Bytes, length
<1>4. \A k : Y0(k, iv) = Y0(k, resetRead(iv))
  BY IvFacts DEF GcmReady
<1> QED
  BY <1>1, <1>2, <1>3, <1>4

LEMMA EncryptGcmStep == CipherFact /\ EncryptorInv /\ encryptAes128Gcm => EncryptorInv'
<1> SUFFICES ASSUME CipherFact, EncryptorInv, encryptAes128Gcm PROVE EncryptorInv'
  OBVIOUS
<1> DEFINE res == Crypted(data, key, iv)
           computed == TagOf(key, iv, acc, res)
           l == Layer("gcm", computed)
<1>1. /\ WellFormed(data) /\ WellFormed(key) /\ WellFormed(iv) /\ WellFormed(tag)
      /\ HistoryKept /\ Unwrappable
  BY DEF EncryptorInv, BuffersHeld
<1>2. /\ Push("gcm", computed) /\ data' = res /\ iv' = IvRead(iv)
      /\ tag' = write(tag, computed).self
      /\ sound' = (sound /\ GcmReady) /\ text' = text /\ key' = key
  BY DEF encryptAes128Gcm, encrypt, GcmCall
<1>3. /\ WellFormed(res) /\ Written(res) = Streamed(key, Y0(key, iv), SeenOf(data).bytes)
      /\ data.m_writeIndex = data.m_bufferSz => Bytes(res) = Written(res)
  BY <1>1, CryptedFacts
<1> HIDE DEF res
<1>4. computed \in Seq(Byte) /\ "gcm" \in {"base64", "aes", "gcm"}
  BY <1>1, <1>3, AccFacts, TagType
<1>5. computed = TagBytes(key, Y0(key, iv), Written(res))
  BY DEF TagOf, TagBytes
<1> HIDE DEF computed
<1>6. WellFormed(iv') /\ resetRead(iv') = resetRead(iv)
  BY <1>1, <1>2, IvFacts
<1>7. WellFormed(tag')
  BY <1>1, <1>2, <1>4, TagWritten
<1>8. l.kind = "gcm" /\ l.plain = Bytes(data) /\ l.tag = computed
  BY <1>1, <1>4, LayerType
<1> HIDE DEF l
<1>9. sound' \in BOOLEAN /\ (sound' => sound /\ GcmReady)
  BY <1>1, <1>2 DEF HistoryKept
<1>10. ASSUME sound' PROVE Wraps(l, Bytes(data'), key, resetRead(iv))
  <2>1. GcmReady
    BY <1>9, <1>10
  <2>2. /\ SeenOf(data).bytes = Bytes(data) /\ data.m_writeIndex = data.m_bufferSz
        /\ Y0(key, iv) = Y0(key, resetRead(iv))
    BY <1>1, <2>1, ReadyFacts
  <2>3. Bytes(res) = Streamed(key, Y0(key, resetRead(iv)), Bytes(data))
    BY <1>3, <2>2
  <2>4. computed = TagBytes(key, Y0(key, resetRead(iv)), Bytes(res))
    BY <1>3, <1>5, <2>2
  <2> QED BY <1>2, <1>8, <2>3, <2>4 DEF Wraps
<1>11. HistoryKept' /\ Unwrappable'
  BY <1>1, <1>2, <1>4, <1>6, <1>9, <1>10, LayerPushed DEF l
<1> QED
  BY <1>1, <1>2, <1>3, <1>6, <1>7, <1>11 DEF EncryptorInv, BuffersHeld

LEMMA DecryptGcmStep == CipherFact /\ EncryptorInv /\ decryptAes128Gcm => EncryptorInv'
<1> SUFFICES ASSUME CipherFact, EncryptorInv, decryptAes128Gcm PROVE EncryptorInv'
  OBVIOUS
<1> DEFINE res == Crypted(data, key, iv)
           computed == TagOf(key, iv, acc, data)
<1>1. /\ WellFormed(data) /\ WellFormed(key) /\ WellFormed(iv) /\ WellFormed(tag)
      /\ HistoryKept /\ Unwrappable
  BY DEF EncryptorInv, BuffersHeld
<1>2. /\ Pop("gcm") /\ iv' = IvRead(iv) /\ text' = text /\ key' = key /\ tag' = tag
      /\ data' = IF TagMatches(tag, computed) THEN res ELSE NewBuffer(0)
      /\ sound' = (sound /\ GcmReady /\ TagMatches(tag, Head(layers).tag))
  BY DEF decryptAes128Gcm, decrypt, GcmCall
<1>3. /\ WellFormed(res) /\ Written(res) = Streamed(key, Y0(key, iv), SeenOf(data).bytes)
      /\ data.m_writeIndex = data.m_bufferSz => Bytes(res) = Written(res)
  BY <1>1, CryptedFacts
<1> HIDE DEF res
<1>4. computed = TagBytes(key, Y0(key, iv), Written(data))
  BY DEF TagOf, TagBytes
<1> HIDE DEF computed
<1>5. WellFormed(data')
  <2>1. WellFormed(NewBuffer(0))
    BY NewBufferFacts, TextFacts
  <2> QED BY <1>2, <1>3, <2>1
<1>6. WellFormed(iv') /\ resetRead(iv') = resetRead(iv)
  BY <1>1, <1>2, IvFacts
<1>7. sound' \in BOOLEAN /\ (sound' => sound /\ GcmReady /\ TagMatches(tag, Head(layers).tag))
  BY <1>1, <1>2 DEF HistoryKept
<1>8. Head(layers) \in Layers /\ Head(layers).kind = "gcm"
  BY <1>1, <1>2, HeadTailProperties DEF Pop, HistoryKept
<1>9. ASSUME sound', Wraps(Head(layers), Bytes(data), key, resetRead(iv))
      PROVE  Bytes(data') = Head(layers).plain
  <2> DEFINE y == Y0(key, iv)
             p == Head(layers).plain
  <2>1. GcmReady /\ TagMatches(tag, Head(layers).tag)
    BY <1>7, <1>9
  <2>2. /\ SeenOf(data).bytes = Bytes(data) /\ Written(data) = Bytes(data)
        /\ data.m_writeIndex = data.m_bufferSz /\ y = Y0(key, resetRead(iv))
    BY <1>1, <2>1, ReadyFacts
  <2>3. p \in Seq(Byte)
    BY <1>8 DEF Layers
  <2>4. y \in BlockRange
    BY <1>1, Y0Type
  <2> HIDE DEF y, p
  <2>5. Bytes(data) = Streamed(key, y, p) /\ Head(layers).tag = TagBytes(key, y, Bytes(data))
    BY <1>8, <1>9, <2>2 DEF Wraps, p
  <2>6. Head(layers).tag = computed
    BY <1>4, <2>2, <2>5 DEF y
  <2>7. data' = res
    BY <1>2, <2>1, <2>6
  <2>8. Bytes(res) = Streamed(key, y, Streamed(key, y, p))
    BY <1>3, <2>2, <2>5 DEF y
  <2>9. Streamed(key, y, Streamed(key, y, p)) = p
    BY <1>1, <2>3, <2>4, StreamedFacts
  <2> QED BY <2>7, <2>8, <2>9 DEF p
<1>10. HistoryKept' /\ Unwrappable'
  BY <1>1, <1>2, <1>6, <1>7, <1>9, LayerPopped
<1> QED
  BY <1>1, <1>2, <1>5, <1>6, <1>10 DEF EncryptorInv, BuffersHeld

\* With nothing around the text, the key does not matter.
LEMMA SessionKeyStep == EncryptorInv /\ generateSessionKey => EncryptorInv'
<1> SUFFICES ASSUME EncryptorInv, generateSessionKey PROVE EncryptorInv'
  OBVIOUS
<1>1. /\ WellFormed(data) /\ WellFormed(iv) /\ WellFormed(tag)
      /\ HistoryKept /\ Unwrappable
  BY DEF EncryptorInv, BuffersHeld
<1>2. /\ layers = <<>> /\ text' = text /\ data' = data /\ iv' = iv /\ tag' = tag
      /\ calls' = calls /\ layers' = layers /\ sound' = sound
  BY DEF generateSessionKey
<1>3. PICK r \in Rands : key' = SessionKey(r)
  BY DEF generateSessionKey
<1>4. WellFormed(key')
  BY <1>3, TextFacts, SessionKeyFacts
<1>5. HistoryKept'
  BY <1>1, <1>2 DEF HistoryKept
<1>6. ASSUME sound' PROVE Leads(layers', Bytes(data'), text', key', resetRead(iv'))
  <2>1. Bytes(data) = text
    BY <1>1, <1>2, <1>6 DEF Unwrappable, Leads
  <2>2. layers' = <<>> /\ Bytes(data') = text'
    BY <1>2, <2>1
  <2>3. Len(<<>>) = 0
    OBVIOUS
  <2> QED BY <2>2, <2>3 DEF Leads
<1> QED
  BY <1>1, <1>2, <1>4, <1>5, <1>6 DEF EncryptorInv, BuffersHeld, Unwrappable

LEMMA ReadAByteStep == EncryptorInv /\ ReadAByte => EncryptorInv'
<1> SUFFICES ASSUME EncryptorInv, ReadAByte PROVE EncryptorInv'
  OBVIOUS
<1>1. /\ WellFormed(data) /\ WellFormed(key) /\ WellFormed(iv) /\ WellFormed(tag)
      /\ HistoryKept /\ Unwrappable
  BY DEF EncryptorInv, BuffersHeld
<1>2. /\ data' = readBytes(data, 1).self /\ data' # data
      /\ text' = text /\ key' = key /\ iv' = iv /\ tag' = tag
      /\ calls' = calls /\ layers' = layers /\ sound' = sound
  BY DEF ReadAByte, read
<1>3. data' = ReadAt(data, Add(data.m_readIndex, 1))
  BY <1>2 DEF readBytes, Result
<1>4. MaxSize >= 1
  BY TextAssumption, SizeAssumption
<1>5. WellFormed(data')
  BY <1>1, <1>2, <1>4, ReadFacts DEF Honest
<1>6. Bytes(data') = Bytes(data)
  BY <1>3 DEF ReadAt, Buffer, Bytes
<1>7. HistoryKept' /\ Unwrappable'
  BY <1>1, <1>2, <1>6 DEF HistoryKept, Unwrappable
<1> QED
  BY <1>1, <1>2, <1>5, <1>7 DEF EncryptorInv, BuffersHeld

LEMMA RewindStep == EncryptorInv /\ Rewind => EncryptorInv'
<1> SUFFICES ASSUME EncryptorInv, Rewind PROVE EncryptorInv'
  OBVIOUS
<1>1. /\ WellFormed(data) /\ WellFormed(key) /\ WellFormed(iv) /\ WellFormed(tag)
      /\ HistoryKept /\ Unwrappable
  BY DEF EncryptorInv, BuffersHeld
<1>2. /\ text' = text /\ key' = key
      /\ calls' = calls /\ layers' = layers /\ sound' = sound
      /\ data' \in {data, resetRead(data)} /\ iv' \in {iv, resetRead(iv)}
      /\ tag' \in {tag, resetWrite(tag)}
  BY DEF Rewind
<1>3. WellFormed(data') /\ WellFormed(iv') /\ WellFormed(tag')
  BY <1>1, <1>2, ResetFacts
<1>4. Bytes(data') = Bytes(data) /\ resetRead(iv') = resetRead(iv)
  BY <1>2 DEF resetRead, ReadAt, Buffer, Bytes
<1>5. HistoryKept' /\ Unwrappable'
  BY <1>1, <1>2, <1>4 DEF HistoryKept, Unwrappable
<1> QED
  BY <1>1, <1>2, <1>3, <1>5 DEF EncryptorInv, BuffersHeld

LEMMA DamageStep == EncryptorInv /\ Damage => EncryptorInv'
<1> SUFFICES ASSUME EncryptorInv, Damage PROVE EncryptorInv'
  OBVIOUS
<1>1. /\ WellFormed(data) /\ WellFormed(key) /\ WellFormed(iv) /\ WellFormed(tag)
      /\ HistoryKept
  BY DEF EncryptorInv, BuffersHeld
<1>2. /\ text' = text /\ key' = key /\ iv' = iv /\ tag' = tag
      /\ calls' = calls /\ layers' = layers /\ sound' = FALSE
  BY DEF Damage
<1>3. PICK p \in DOMAIN data.m_buffer, c \in {65, Pad, 42} :
         data' = Holding(data, Poke(data.m_buffer, p, <<c>>))
  BY DEF Damage, Pad
<1>4. data.m_bufferSz \in Nat /\ data.m_buffer \in Array(data.m_bufferSz)
      /\ data.m_readIndex \in Nat /\ data.m_readIndex <= data.m_bufferSz
  BY <1>1, Fields
<1>5. p \in Nat
  BY <1>3, <1>4 DEF Array
<1>6. c \in Byte
  <2>1. c \in {65, 61, 42}
    BY <1>3 DEF Pad, B64!m_base64Pad
  <2> QED BY <2>1, GcmSizes DEF Uint8
<1>7. <<c>> \in Seq(Byte)
  BY <1>6
<1>8. Poke(data.m_buffer, p, <<c>>) \in Array(data.m_bufferSz)
  BY <1>4, <1>5, <1>7, PokeFacts
<1>9. WellFormed(data')
  BY <1>1, <1>3, <1>4, <1>8, Updates
<1>10. HistoryKept' /\ Unwrappable'
  BY <1>1, <1>2 DEF HistoryKept, Unwrappable
<1> QED
  BY <1>1, <1>2, <1>9, <1>10 DEF EncryptorInv, BuffersHeld

-----------------------------------------------------------------------------

\* The invariant of the Encryptor: its buffers are well-formed, and as long as
\* every call was sound the layers lead from the data back to the text.
THEOREM EncryptorInvariance == ASSUME CipherFact PROVE Spec => []EncryptorInv
<1>1. EncryptorInv /\ [Next]_vars => EncryptorInv'
  <2> SUFFICES ASSUME EncryptorInv, [Next]_vars PROVE EncryptorInv'
    OBVIOUS
  <2>1. CASE encryptBase64
    BY <2>1, EncryptBase64Step
  <2>2. CASE decryptBase64
    BY <2>2, DecryptBase64Step
  <2>3. CASE encryptAes128
    BY <2>3, EncryptAesStep
  <2>4. CASE decryptAes128
    BY <2>4, DecryptAesStep
  <2>5. CASE encryptAes128Gcm
    BY <2>5, EncryptGcmStep
  <2>6. CASE decryptAes128Gcm
    BY <2>6, DecryptGcmStep
  <2>7. CASE generateSessionKey
    BY <2>7, SessionKeyStep
  <2>8. CASE ReadAByte
    BY <2>8, ReadAByteStep
  <2>9. CASE Rewind
    BY <2>9, RewindStep
  <2>10. CASE Damage
    BY <2>10, DamageStep
  <2>11. CASE UNCHANGED vars
    BY <2>11 DEF vars, EncryptorInv, BuffersHeld, HistoryKept, Unwrappable
  <2> QED
    BY <2>1, <2>2, <2>3, <2>4, <2>5, <2>6, <2>7, <2>8, <2>9, <2>10, <2>11 DEF Next
<1> QED
  BY <1>1, EncryptorStart, PTL DEF Spec

\* No call of the Encryptor leaves a buffer that is no array of bytes or a
\* cursor that is past its end, whatever was called before.
THEOREM EncryptorTypeCorrect == ASSUME CipherFact PROVE Spec => []TypeOK
<1>1. EncryptorInv => TypeOK
  <2> SUFFICES ASSUME EncryptorInv PROVE TypeOK
    OBVIOUS
  <2>1. ASSUME NEW b, WellFormed(b)
        PROVE  /\ b.m_buffer \in Array(b.m_bufferSz)
               /\ {b.m_readIndex, b.m_writeIndex} \subseteq 0 .. b.m_bufferSz
    <3>1. /\ b.m_bufferSz \in Nat /\ b.m_buffer \in Array(b.m_bufferSz)
          /\ b.m_readIndex \in Nat /\ b.m_readIndex <= b.m_bufferSz
          /\ b.m_writeIndex \in Nat /\ b.m_writeIndex <= b.m_bufferSz
      BY <2>1, Fields
    <3> QED BY <3>1
  <2>2. \A b \in {data, key, iv, tag} : WellFormed(b)
    BY DEF EncryptorInv, BuffersHeld
  <2>3. calls + Len(layers) <= MaxCalls /\ sound \in BOOLEAN
    BY DEF EncryptorInv, HistoryKept
  <2> QED BY <2>1, <2>2, <2>3 DEF TypeOK
<1> QED
  BY <1>1, EncryptorInvariance, PTL

\* Layers of Base64, AES-128 and AES-128-GCM, stacked in any order and any
\* number, come off again to the text for a client whose calls were all sound.
THEOREM SoundCallsGiveBack == ASSUME CipherFact PROVE Spec => []SoundCallsRestore
<1>1. EncryptorInv => SoundCallsRestore
  BY DEF EncryptorInv, Unwrappable, Leads, SoundCallsRestore
<1> QED
  BY <1>1, EncryptorInvariance, PTL
=============================================================================

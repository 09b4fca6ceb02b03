------------------------------- MODULE BitSet -------------------------------
(***************************************************************************)
(* psi::tools::BitSet: a client's variables share implementations through  *)
(* m_value, a shared_ptr; an implementation is a vector of words.  A word  *)
(* or byte is the set of its one bits, 0 the least significant.  The bits  *)
(* of the last word beyond m_bitsNumber may be anything.                   *)
(***************************************************************************)
EXTENDS Integers, Sequences, FiniteSetsExt

CONSTANTS
    Vars, Ids,            \* the client's variables, the implementations
    None,                 \* a null shared_ptr: no object, or moved from
    ByteBits, WordBytes,  \* 8 and 8
    Sizes, Streams, Strings,  \* what the client constructs from
    MaxBit,               \* bound: the highest bit number the client passes
    MaxTotal              \* bound: the bits of all implementations together

WordBits == ByteBits * WordBytes
Byte == SUBSET (0 .. (ByteBits - 1))
Word == SUBSET (0 .. (WordBits - 1))
Chars == {"0", "1", "other"}

ASSUME WidthAssumption == {ByteBits, WordBytes} \subseteq Nat \ {0}
ASSUME IdAssumption == None \notin Ids
ASSUME BoundAssumption == {MaxBit, MaxTotal} \subseteq Nat
ASSUME InputAssumption ==
    Sizes \subseteq Nat /\ Streams \subseteq Seq(Byte) /\ Strings \subseteq Seq(Chars)

VARIABLES m_value,   \* the implementation of each variable
          impl       \* the members of each implementation

vars == <<m_value, impl>>

\* BitSetImpl(bitsNumber), with words in place of the zeros.
WordCount(n) == n \div WordBits + (IF n % WordBits = 0 THEN 0 ELSE 1)
BitSetImpl(n, words) == [m_bitsNumber |-> n, m_value |-> words]
Zeros(n) == [k \in 0 .. (WordCount(n) - 1) |-> {}]
Gone == BitSetImpl(0, Zeros(0))

Init == /\ m_value = [x \in Vars |-> None]
        /\ impl = [a \in Ids |-> Gone]

-----------------------------------------------------------------------------
(* Construction, copies, moves and destruction.                             *)

Construct(x, new) ==
    /\ m_value[x] = None
    /\ MapThenSumSet(LAMBDA a : impl[a].m_bitsNumber, Ids)
          + new.m_bitsNumber <= MaxTotal
    /\ \E a \in Ids : /\ \A y \in Vars : m_value[y] # a
                      /\ m_value' = [m_value EXCEPT ![x] = a]
                      /\ impl' = [impl EXCEPT ![a] = new]

ConstructSize(x) == \E n \in Sizes : Construct(x, BitSetImpl(n, Zeros(n)))

\* The chunk of a stream or string that word k is filled from.
Chunk(s, k, n) == SubSeq(s, k * n + 1, IF (k + 1) * n > Len(s) THEN Len(s) ELSE (k + 1) * n)

\* Where data is null, the code takes zeros for up to one word (BitSet.cpp:37); a
\* stream of zeros stands for that call.
fill64(data) == {i \in 0 .. (ByteBits * Len(data) - 1) :
                    i % ByteBits \in data[i \div ByteBits + 1]}

FromStream(data) ==
    LET n == Len(data) * ByteBits
    IN  BitSetImpl(n, [k \in 0 .. (WordCount(n) - 1) |-> fill64(Chunk(data, k, WordBytes))])

\* One character that is no digit makes all of its word zero.
fill64Bin(data) ==
    IF \E k \in DOMAIN data : data[k] = "other" THEN {}
    ELSE {i \in 0 .. (Len(data) - 1) : data[i + 1] = "1"}

FromString(s) ==
    BitSetImpl(Len(s), [k \in 0 .. (WordCount(Len(s)) - 1) |-> fill64Bin(Chunk(s, k, WordBits))])

ConstructStream(x) == \E data \in Streams : Construct(x, FromStream(data))
ConstructString(x) == \E s \in Strings : Construct(x, FromString(s))

\* Mutant: nobody deletes an implementation.
Leaked(ptr) == impl

\* The last owner of an implementation deletes it.
Owned(ptr) == [a \in Ids |-> IF \E x \in Vars : ptr[x] = a THEN impl[a] ELSE Gone]
Point(x, a) == /\ m_value' = [m_value EXCEPT ![x] = a]
               /\ impl' = Owned(m_value')

Copy(x, y) == m_value[y] # None /\ Point(x, m_value[y])
Move(x, y) == /\ x # y /\ m_value[y] # None
              /\ m_value' = [m_value EXCEPT ![x] = m_value[y], ![y] = None]
              /\ impl' = Owned(m_value')
Destroy(x) == m_value[x] # None /\ Point(x, None)

-----------------------------------------------------------------------------
(* The methods.                                                             *)

\* x changes the words of the implementation it shares.
Update(x, words) == /\ impl' = [impl EXCEPT ![m_value[x]].m_value = words]
                    /\ UNCHANGED m_value

size(b) == b.m_bitsNumber
test(b, i) == i < size(b) /\ i % WordBits \in b.m_value[i \div WordBits]
\* Bit 0 comes first (BitSet.cpp:201-203), as the tests expect
\* (BitSet_Tests.cpp:105-110); BitSet.h:84 says that the most significant does.
toString(b) == [k \in 1 .. size(b) |-> IF test(b, k - 1) THEN "1" ELSE "0"]

set(x, i, value) ==
    LET words == impl[m_value[x]].m_value
        k == i \div WordBits
    IN  /\ m_value[x] # None
        /\ i < impl[m_value[x]].m_bitsNumber
        /\ Update(x, [words EXCEPT ![k] = IF value THEN @ \cup {i % WordBits}
                                                   ELSE @ \ {i % WordBits}])

\* A bit number beyond the size changes nothing.
setOutside(x, i) ==
    /\ m_value[x] # None /\ i >= impl[m_value[x]].m_bitsNumber
    /\ UNCHANGED vars

\* All bits of all words, those beyond the size included.
inverse(x) ==
    LET words == impl[m_value[x]].m_value
    IN  /\ m_value[x] # None
        /\ Update(x, [k \in DOMAIN words |-> (0 .. (WordBits - 1)) \ words[k]])

\* The bytes in reverse, the bits of each byte in reverse.
reverseByte(byte) == {ByteBits - 1 - b : b \in byte}
ByteOf(word, k) == {b \in 0 .. (ByteBits - 1) : k * ByteBits + b \in word}
reverse64(word) ==
    UNION {{(WordBytes - 1 - k) * ByteBits + b : b \in reverseByte(ByteOf(word, k))} :
              k \in 0 .. (WordBytes - 1)}

ShiftLeft(word, n) == {b + n : b \in {c \in word : c + n < WordBits}}
ShiftRight(word, n) == {b - n : b \in {c \in word : c >= n}}

\* Mutant: what is shifted out of a word does not reach its neighbour.
ReversedAlone(b) ==
    LET last == WordCount(b.m_bitsNumber) - 1
        required == b.m_bitsNumber % WordBits
        back(k) == reverse64(b.m_value[last - k])
    IN  [k \in 0 .. last |-> IF required = 0 THEN back(k)
                             ELSE ShiftRight(back(k), WordBits - required)]

\* The words from back to front; if the last one is not full, every word is
\* split between two of the result.
Reversed(b) ==
    LET last == WordCount(b.m_bitsNumber) - 1
        required == b.m_bitsNumber % WordBits
        back(k) == reverse64(b.m_value[last - k])
    IN  [k \in 0 .. last |->
           IF required = 0 THEN back(k)
           ELSE ShiftRight(back(k), WordBits - required)
                \cup (IF k < last THEN ShiftLeft(back(k + 1), required) ELSE {})]

reverse(x) == m_value[x] # None /\ Update(x, Reversed(impl[m_value[x]]))

Next ==
    \/ \E x \in Vars : ConstructSize(x) \/ ConstructStream(x) \/ ConstructString(x)
    \/ \E x, y \in Vars : Copy(x, y) \/ Move(x, y)
    \/ \E x \in Vars : Destroy(x) \/ inverse(x) \/ reverse(x)
    \/ \E x \in Vars, i \in 0 .. MaxBit, value \in BOOLEAN : set(x, i, value) \/ setOutside(x, i)

Spec == Init /\ [][Next]_vars

-----------------------------------------------------------------------------
(* Properties.                                                              *)

\* An object's implementation has the words its size asks for; what no object
\* refers to has been deleted.
TypeOK ==
    /\ m_value \in [Vars -> Ids \cup {None}]
    /\ \A a \in Ids : /\ impl[a].m_bitsNumber \in Nat
                      /\ impl[a].m_value \in [0 .. (WordCount(impl[a].m_bitsNumber) - 1) -> Word]
                      /\ (\A x \in Vars : m_value[x] # a) => impl[a] = Gone

\* What a client sees of an implementation.
Bits(b) == [size |-> size(b),
            ones |-> LET text == toString(b)
                     IN  {k - 1 : k \in {j \in DOMAIN text : text[j] = "1"}}]

\* What a client expects of each construction: no bit set, the bits of the
\* bytes in order, or the positions of the characters 1, of which those that
\* share a word with a character that is no digit are lost.
Expected ==
    {[size |-> n, ones |-> {}] : n \in Sizes}
    \cup {[size |-> ByteBits * Len(data),
           ones |-> {ByteBits * (p[1] - 1) + p[2] :
                       p \in {q \in (DOMAIN data) \X (0 .. (ByteBits - 1)) : q[2] \in data[q[1]]}}] :
             data \in Streams}
    \cup {[size |-> Len(s),
           ones |-> {k - 1 : k \in {j \in DOMAIN s : s[j] = "1" /\
                       ~ \E o \in DOMAIN s : /\ s[o] = "other"
                                             /\ (o - 1) \div WordBits = (j - 1) \div WordBits}}] :
             s \in Strings}

Abs == INSTANCE SharedBits WITH ref <- m_value, bits <- [a \in Ids |-> Bits(impl[a])],
                                Sets <- Expected

\* Whatever the bits beyond the size hold, the objects behave as variables that
\* refer to sets of bits: set touches one bit, inverse and reverse act on the
\* bits within the size alone, and all copies see the change.
ActsAsSharedBits == Abs!Spec
=============================================================================

-------------------------- MODULE HttpParser_proofs --------------------------
(***************************************************************************)
(* HttpParser keeps its types, and no loop of it turns without moving the  *)
(* read cursor, for every response, however it is cut.  Of a response that *)
(* follows the grammar it yields the payload and the fields, and tells the *)
(* client what is still to come.                                           *)
(***************************************************************************)
EXTENDS HttpParser, ByteBufferLemmas, SequenceTheorems

\* The message is a buffer that can be read, and the counters are numbers.
Inv == TypeOK /\ WellFormed(msg)

-----------------------------------------------------------------------------
(* What the operators of the parser and of its client yield.                *)

\* The delimiters are bytes, and so are the two that a text line ends with.
LEMMA Delimiters ==
    /\ LineDelims \subseteq Byte /\ {LF} \subseteq Byte
    /\ <<CR, LF>> \in Texts /\ <<>> \in Texts
  BY ResponseAssumption DEF LineDelims, Texts

\* A well-formed buffer has what TypeOK says of one.
LEMMA Formed ==
    ASSUME NEW b, WellFormed(b)
    PROVE  /\ b.m_bufferSz \in 0 .. MaxSize /\ b.m_buffer \in Array(b.m_bufferSz)
           /\ {b.m_readIndex, b.m_writeIndex} \subseteq 0 .. b.m_bufferSz
<1>1. /\ b.m_bufferSz \in Nat /\ b.m_bufferSz <= MaxSize /\ MaxSize \in Nat
      /\ b.m_readIndex \in Nat /\ b.m_readIndex <= b.m_bufferSz
      /\ b.m_writeIndex \in Nat /\ b.m_writeIndex <= b.m_bufferSz
      /\ b.m_buffer \in Array(b.m_bufferSz)
  BY Fields
<1> QED
  BY <1>1

\* What arrives is a buffer with the cursor at its start and, without slack, no
\* byte that was not written.
LEMMA PieceFacts ==
    ASSUME response \in Responses, NEW n \in Nat, NEW s \in Nat,
           arrived \in Nat, arrived + n <= Len(response.bytes), n + s <= MaxSize
    PROVE  /\ WellFormed(Piece(n, s))
           /\ Piece(n, s).m_bufferSz = n + s
           /\ Piece(n, s).m_readIndex = 0
           /\ Piece(n, s).m_writeIndex = n
           /\ \A j \in 0 .. (n - 1) :
                Piece(n, s).m_buffer[j] = response.bytes[arrived + j + 1].byte
<1> DEFINE bytes == [i \in 1 .. n |-> response.bytes[arrived + i].byte]
           new == NewBuffer(n + s)
<1>1. bytes \in Seq(Byte) /\ Len(bytes) = n
  <2>1. response.bytes \in Seq(Tagged)
    BY ResponseAssumption
  <2>2. ASSUME NEW i \in 1 .. n PROVE response.bytes[arrived + i] \in Tagged
    <3>1. arrived + i \in 1 .. Len(response.bytes)
      BY <2>1, LenProperties
    <3> QED BY <2>1, <3>1, ElementOfSeq
  <2>3. ASSUME NEW i \in 1 .. n PROVE response.bytes[arrived + i].byte \in Byte
    BY <2>2 DEF Tagged
  <2> QED BY <2>3
<1>2. WellFormed(new) /\ new = Buffer(n + s, Zeros(n + s), 0, 0)
  <2>1. n + s \in Nat
    OBVIOUS
  <2> QED BY <2>1, NewBufferFacts DEF NewBuffer
<1>3. new.m_bufferSz = n + s /\ new.m_readIndex = 0 /\ new.m_writeIndex = 0
  BY <1>2 DEF Buffer
<1>4. Piece(n, s) = writeArray(new, bytes).self
  BY DEF Piece
<1> HIDE DEF bytes, new
<1>5. MaxSize \in Nat
  BY SizeAssumption
<1>6. WellFormed(writeArray(new, bytes).self)
  BY <1>1, <1>2, WriteFacts DEF Honest
<1>7. writeArray(new, bytes).self
        = Buffer(new.m_bufferSz, Poke(new.m_buffer, new.m_writeIndex, bytes),
                 new.m_readIndex, new.m_writeIndex + Len(bytes))
  <2>1. Len(bytes) <= MaxSize /\ new.m_writeIndex + Len(bytes) <= new.m_bufferSz
    BY <1>1, <1>3, <1>5
  <2> QED BY <1>1, <1>2, <2>1, WriteEffect
<1>8. ASSUME NEW j \in 0 .. (n - 1)
      PROVE  Poke(new.m_buffer, 0, bytes)[j] = response.bytes[arrived + j + 1].byte
  <2>1. j \in 0 .. (n + s - 1) /\ j \in 0 .. (0 + n - 1) /\ j - 0 + 1 = j + 1
    OBVIOUS
  <2>2. new.m_buffer \in Array(n + s)
    BY <1>2, <1>3, Fields
  <2>3. j \in DOMAIN new.m_buffer
    BY <2>1, <2>2 DEF Array
  <2>4. Poke(new.m_buffer, 0, bytes)[j] = bytes[j + 1]
    BY <1>1, <2>1, <2>3 DEF Poke
  <2>5. j + 1 \in 1 .. n /\ arrived + (j + 1) = arrived + j + 1
    OBVIOUS
  <2> QED BY <2>4, <2>5 DEF bytes
<1>9. Piece(n, s).m_buffer = Poke(new.m_buffer, 0, bytes)
  BY <1>3, <1>4, <1>7 DEF Buffer
<1> QED
  BY <1>1, <1>3, <1>4, <1>6, <1>7, <1>8, <1>9 DEF Buffer

\* skipToHttpData stops behind the first blank line of the buffer, or at its end.
BlankLine(b, p) == /\ p >= b.m_readIndex + 4
                   /\ Peek(b.m_buffer, p - 4, 4) = <<CR, LF, CR, LF>>
LEMMA SkipToDataFacts ==
    ASSUME NEW b, WellFormed(b)
    PROVE  /\ WellFormed(skipToHttpData(b))
           /\ DataStart(b) \in b.m_readIndex .. b.m_bufferSz
           /\ DataStart(b) < b.m_bufferSz => BlankLine(b, DataStart(b))
           /\ \A q \in b.m_readIndex .. (DataStart(b) - 1) : ~BlankLine(b, q)
<1> DEFINE Stop(p) == /\ p < b.m_bufferSz => BlankLine(b, p)
                      /\ \A q \in b.m_readIndex .. (p - 1) : ~BlankLine(b, q)
           T == {p \in b.m_readIndex .. b.m_bufferSz : p < b.m_bufferSz => BlankLine(b, p)}
<1>1. /\ b.m_readIndex \in Nat /\ b.m_bufferSz \in Nat /\ b.m_readIndex <= b.m_bufferSz
  BY Fields
<1>2. T \subseteq Nat /\ b.m_bufferSz \in T
  BY <1>1
<1>3. PICK p \in T : \A q \in T : ~(<<q, p>> \in OpToRel(<, Nat))
  <2>1. T # {}
    BY <1>2
  <2> QED BY <1>2, <2>1, WFMin, NatLessThanWellFounded
<1>4. \A q \in T : ~(q < p)
  BY <1>2, <1>3 DEF OpToRel
<1>5. p \in b.m_readIndex .. b.m_bufferSz /\ Stop(p)
  <2>1. ASSUME NEW q \in b.m_readIndex .. (p - 1) PROVE ~BlankLine(b, q)
    <3>1. q \in b.m_readIndex .. b.m_bufferSz /\ q < p
      BY <1>1
    <3> QED BY <1>4, <3>1
  <2> QED BY <2>1
<1>6. \E z \in b.m_readIndex .. b.m_bufferSz : Stop(z)
  BY <1>5
<1>7. DataStart(b) = CHOOSE z \in b.m_readIndex .. b.m_bufferSz : Stop(z)
  BY DEF DataStart, BlankLine
<1> HIDE DEF Stop
<1>8. DataStart(b) \in b.m_readIndex .. b.m_bufferSz /\ Stop(DataStart(b))
  BY <1>6, <1>7
<1>9. WellFormed(skipToHttpData(b))
  BY <1>1, <1>8, Updates, Fields DEF skipToHttpData
<1> QED
  BY <1>8, <1>9 DEF Stop

\* Name and value of a field are strings of bytes.
LEMMA FieldFacts ==
    ASSUME NEW line \in Texts, IsField(line)
    PROVE  Key(line) \in Texts /\ Value(line) \in Texts
<1> DEFINE First(i) == line[i] = Colon /\ \A j \in 1 .. (i - 1) : line[j] # Colon
           T == {i \in 1 .. Len(line) : line[i] = Colon}
<1>1. Len(line) \in Nat
  BY DEF Texts
<1>2. T \subseteq Nat /\ T # {}
  BY <1>1 DEF IsField
<1>3. PICK i \in T : \A j \in T : ~(<<j, i>> \in OpToRel(<, Nat))
  BY <1>2, WFMin, NatLessThanWellFounded
<1>4. \A j \in T : ~(j < i)
  BY <1>2, <1>3 DEF OpToRel
<1>5. \E z \in 1 .. Len(line) : First(z)
  <2>1. ASSUME NEW j \in 1 .. (i - 1) PROVE line[j] # Colon
    <3>1. j \in 1 .. Len(line) /\ j < i
      BY <1>1
    <3> QED BY <1>4, <3>1
  <2> QED BY <2>1
<1>6. ColonAt(line) = (CHOOSE z \in 1 .. Len(line) : First(z)) - 1
  BY DEF ColonAt
<1> HIDE DEF First
<1>7. PICK c \in 1 .. Len(line) : ColonAt(line) = c - 1
  BY <1>5, <1>6
<1>8. /\ SubSeq(line, 1, c - 1) \in Seq(Byte)
      /\ SubSeq(line, c + 2, Len(line) - 1) \in Seq(Byte)
  <2>1. \A k \in 1 .. Len(line) : line[k] \in Byte
    BY DEF Texts
  <2>2. c - 1 \in Int /\ c + 2 \in Int /\ Len(line) - 1 \in Int
    BY <1>1
  <2>3. (\A k \in 1 .. (c - 1) : line[k] \in Byte)
        /\ (\A k \in (c + 2) .. (Len(line) - 1) : line[k] \in Byte)
    BY <1>1, <2>1
  <2> QED BY <2>2, <2>3, SubSeqProperties
<1>9. ASSUME NEW s \in Seq(Byte) PROVE to_upper(s) \in Seq(Byte)
  <2>1. \A k \in 1 .. Len(s) : Upper[s[k]] \in Byte
    BY ResponseAssumption
  <2> QED BY <2>1 DEF to_upper
<1>10. Key(line) = to_upper(SubSeq(line, 1, c - 1))
  BY <1>7 DEF Key
<1>11. Value(line) = SubSeq(line, c + 2, Len(line) - 1)
  <2>1. ColonAt(line) + 3 = c + 2
    BY <1>7
  <2> QED BY <2>1 DEF Value
<1> QED
  BY <1>8, <1>9, <1>10, <1>11 DEF Texts

\* A field is added to fields.
LEMMA EmplacedFacts ==
    ASSUME NEW m, DOMAIN m \subseteq Texts, \A k \in DOMAIN m : m[k] \in Texts,
           NEW key \in Texts, NEW value \in Texts
    PROVE  LET new == Emplaced(m, key, value)
           IN  DOMAIN new \subseteq Texts /\ \A k \in DOMAIN new : new[k] \in Texts
  BY DEF Emplaced

-----------------------------------------------------------------------------
(* The types.                                                               *)

LEMMA InitInv == Init => Inv
<1> SUFFICES ASSUME Init PROVE Inv
  OBVIOUS
<1>1. WellFormed(msg)
  BY NewBufferFacts, SizeAssumption DEF Init
<1>2. MAX_MSG_LENGTH \in SizeT
  BY SizeAssumption DEF MAX_MSG_LENGTH, SizeT
<1>3. response \in Responses /\ arrived \in 0 .. Len(response.bytes)
  <2>1. response.bytes \in Seq(Tagged)
    BY ResponseAssumption DEF Init
  <2>2. Len(response.bytes) \in Nat
    BY <2>1, LenProperties
  <2> QED BY <2>2 DEF Init
<1>4. DOMAIN EmptyMeta = {}
  BY DEF EmptyMeta
<1> QED
  BY <1>1, <1>2, <1>3, <1>4, Formed, Delimiters DEF Init, Inv, TypeOK

\* The client: what has arrived is part of the response, and is in the buffer.
LEMMA ArriveFacts ==
    ASSUME Inv, NEW n \in 0 .. MaxSize, NEW s \in Slack, n + s <= MaxSize, Arrive(n)
    PROVE  /\ response' \in Responses /\ arrived' \in 0 .. Len(response'.bytes)
           /\ first' \in BOOLEAN
           /\ WellFormed(Piece(n, s))
           /\ Piece(n, s).m_bufferSz = n + s
           /\ Piece(n, s).m_readIndex = 0
           /\ Piece(n, s).m_writeIndex = n
<1>1. n \in Nat /\ s \in Nat
  BY ResponseAssumption, SizeAssumption
<1>2. response.bytes \in Seq(Tagged)
  BY ResponseAssumption DEF Inv, TypeOK
<1>3. Len(response.bytes) \in Nat
  BY <1>2, LenProperties
<1>4. arrived \in Nat /\ arrived + n <= Len(response.bytes)
  BY <1>3 DEF Arrive, Inv, TypeOK
<1>5. arrived' \in 0 .. Len(response.bytes) /\ response' = response /\ first' = FALSE
  BY <1>1, <1>3, <1>4 DEF Arrive
<1>6. response \in Responses
  BY DEF Inv, TypeOK
<1> QED
  BY <1>1, <1>4, <1>5, <1>6, PieceFacts

LEMMA ClientKeepsInv ==
    ASSUME Inv, NEW n \in 0 .. MaxSize, NEW s \in Slack, n + s <= MaxSize,
           ParseMessage(n, s) \/ SkipMessage(n, s) \/ ParseFragment(n, s)
    PROVE  Inv'
<1>1. Arrive(n)
  BY DEF ParseMessage, SkipMessage, ParseFragment
<1>2. MAX_MSG_LENGTH \in SizeT
  BY SizeAssumption DEF MAX_MSG_LENGTH, SizeT
<1>3. CASE ParseMessage(n, s)
  <2>1. WellFormed(msg')
    BY <1>1, <1>3, ArriveFacts DEF ParseMessage
  <2>2. DOMAIN EmptyMeta = {}
    BY DEF EmptyMeta
  <2>3. DOMAIN meta' \subseteq Texts /\ \A k \in DOMAIN meta' : meta'[k] \in Texts
    BY <1>3, <2>2 DEF ParseMessage
  <2> QED BY <1>1, <1>2, <1>3, <2>1, <2>3, ArriveFacts, Formed, Delimiters
          DEF ParseMessage, Inv, TypeOK
<1>4. CASE SkipMessage(n, s)
  <2>1. WellFormed(msg')
    BY <1>1, <1>4, ArriveFacts, SkipToDataFacts DEF SkipMessage
  <2> QED BY <1>1, <1>4, <2>1, ArriveFacts, Formed DEF SkipMessage, Inv, TypeOK, out
<1>5. CASE ParseFragment(n, s)
  <2>1. WellFormed(msg')
    BY <1>1, <1>5, ArriveFacts DEF ParseFragment
  <2> QED BY <1>1, <1>5, <2>1, ArriveFacts, Formed DEF ParseFragment, Inv, TypeOK, out
<1> QED
  BY <1>3, <1>4, <1>5

\* What every line read leaves behind.
LEMMA LineRead ==
    ASSUME Inv, NEW delims, delims \subseteq Byte
    PROVE  /\ WellFormed(readLine(msg, delims).self)
           /\ readLine(msg, delims).out \in Texts
<1>1. WellFormed(msg)
  BY DEF Inv
<1>2. PICK next \in Nat : /\ next <= msg.m_bufferSz
                          /\ readLine(msg, delims).self = ReadAt(msg, next)
                          /\ readLine(msg, delims).out \in Seq(Byte)
  BY <1>1, ReadLineAdvances
<1>3. msg.m_buffer \in Array(msg.m_bufferSz)
  BY <1>1, Fields
<1>4. WellFormed(ReadAt(msg, next))
  BY <1>1, <1>2, <1>3, Updates
<1> QED
  BY <1>2, <1>4 DEF Texts

LEMMA ParserKeepsInv == ASSUME Inv, Parser PROVE Inv'
<1> USE DEF client, out
<1>1. CASE Header
  <2>1. WellFormed(msg') /\ header' \in Texts
    BY <1>1, LineRead, Delimiters DEF Header
  <2> QED BY <1>1, <2>1, Formed DEF Header, Inv, TypeOK
<1>2. CASE Field
  <2> DEFINE r == readLine(msg, {LF})
  <2>1. WellFormed(r.self) /\ r.out \in Texts /\ msg' = r.self
    BY <1>2, LineRead, Delimiters DEF Field
  <2> HIDE DEF r
  <2>2. DOMAIN meta' \subseteq Texts /\ \A k \in DOMAIN meta' : meta'[k] \in Texts
    <3>1. CASE UNCHANGED meta
      BY <3>1 DEF Inv, TypeOK
    <3>2. CASE IsField(r.out) /\ meta' = Emplaced(meta, Key(r.out), Value(r.out))
      <4>1. Key(r.out) \in Texts /\ Value(r.out) \in Texts
        BY <2>1, <3>2, FieldFacts
      <4>2. DOMAIN meta \subseteq Texts /\ \A k \in DOMAIN meta : meta[k] \in Texts
        BY DEF Inv, TypeOK
      <4> QED BY <3>2, <4>1, <4>2, EmplacedFacts
    <3> QED BY <1>2, <3>1, <3>2 DEF Field, r
  <2>3. pc' \in {"fields", "fragment", "threw"} /\ endOfData' \in BOOLEAN
    BY <1>2 DEF Field, Inv, TypeOK
  <2>4. UNCHANGED <<response, arrived, first, skipped, header, remainingSz, data, done>>
    BY <1>2 DEF Field
  <2> QED BY <2>1, <2>2, <2>3, <2>4, Formed DEF Inv, TypeOK
<1>3. CASE Line
  <2> DEFINE r == readLine(msg, LineDelims)
  <2>1. WellFormed(r.self) /\ r.out \in Texts /\ msg' = r.self
    BY <1>3, LineRead, Delimiters DEF Line
  <2> HIDE DEF r
  <2>2. SizeMod \in Nat /\ SizeMod > 0 /\ MAX_MSG_LENGTH \in SizeT
    BY SizeAssumption DEF MAX_MSG_LENGTH, SizeT
  <2>3. ASSUME NEW k \in Nat, NEW a \in SizeT PROVE Sub(a, k) \in SizeT
    BY <2>2 DEF Sub, SizeT
  <2>4. Len(r.out) \in Nat
    BY <2>1 DEF Texts
  <2>5. remainingSz \in SizeT /\ data \in Texts /\ endOfData \in BOOLEAN /\ pc = "fragment"
    BY <1>3 DEF Line, Inv, TypeOK
  <2>6. data \o r.out \in Texts /\ data \o r.out \o <<CR, LF>> \in Texts
    BY <2>1, <2>5, Delimiters DEF Texts
  <2>7. /\ remainingSz' \in SizeT /\ data' \in Texts /\ endOfData' \in BOOLEAN
        /\ pc' \in {"fragment", "threw"}
    <3>1. CASE TextLine(r.out)
      BY <2>3, <2>4, <2>5, <2>6, <3>1 DEF TextLine
    <3>2. CASE SizeLine(r.out)
      BY <2>5, <3>2 DEF SizeLine
    <3>3. CASE DataLine(r.out)
      BY <2>2, <2>3, <2>4, <2>5, <2>6, <3>3 DEF DataLine
    <3>4. CASE UNCHANGED <<pc, remainingSz, data, endOfData>>
      BY <2>5, <3>4
    <3> QED BY <1>3, <3>1, <3>2, <3>3, <3>4 DEF Line, r
  <2>8. UNCHANGED <<response, arrived, first, skipped, header, meta, done>>
    BY <1>3 DEF Line
  <2> QED BY <2>1, <2>7, <2>8, Formed DEF Inv, TypeOK
<1>4. CASE Return
  <2>1. WellFormed(msg')
    BY <1>4, LineRead, Delimiters DEF Return
  <2> QED BY <1>4, <2>1, Formed DEF Return, Inv, TypeOK
<1> QED
  BY <1>1, <1>2, <1>3, <1>4 DEF Parser

LEMMA NextKeepsInv == ASSUME Inv, [Next]_vars PROVE Inv'
<1>1. CASE Next
  BY <1>1, ClientKeepsInv, ParserKeepsInv DEF Next
<1>2. CASE UNCHANGED vars
  BY <1>2 DEF vars, Inv, TypeOK
<1> QED
  BY <1>1, <1>2

THEOREM Invariance == Spec => []Inv
<1>1. Inv /\ [Next]_vars => Inv'
  BY NextKeepsInv
<1> QED
  BY <1>1, InitInv, PTL DEF Spec

\* Whatever arrives, of the grammar or not, and however it is cut: the cursors stay
\* inside the message, the number kept between two calls is a size_t, and the
\* names and values of fields are cut out of the lines they are in.
THEOREM TypeCorrect == Spec => []TypeOK
<1>1. Inv => TypeOK
  BY DEF Inv
<1> QED
  BY <1>1, Invariance, PTL

-----------------------------------------------------------------------------
(* Progress.                                                                *)

LoopsAdvance == Parser /\ pc' = pc /\ ~Overread' => msg.m_readIndex < msg'.m_readIndex

\* A line read from the message: the cursor never goes back; beyond what was written
\* there are more lines for ever; up to there it moves, unless it is at the end, where
\* the line is empty and the last one.
LEMMA LineReadAdvances ==
    ASSUME Inv, NEW delims, delims \subseteq Byte
    PROVE  LET r == readLine(msg, delims)
           IN  /\ r.self.m_writeIndex = msg.m_writeIndex
               /\ msg.m_readIndex \in Nat /\ r.self.m_readIndex \in Nat
               /\ msg.m_writeIndex \in Nat
               /\ msg.m_readIndex <= r.self.m_readIndex
               /\ r.self.m_readIndex > msg.m_writeIndex => MoreLines(r)
               /\ MoreLines(r) /\ ~(r.self.m_readIndex > msg.m_writeIndex) =>
                      msg.m_readIndex < r.self.m_readIndex
<1> DEFINE r == readLine(msg, delims)
<1>1. WellFormed(msg)
  BY DEF Inv
<1>2. PICK next \in Nat : /\ msg.m_readIndex <= next /\ next <= msg.m_bufferSz
                          /\ msg.m_readIndex < msg.m_bufferSz => msg.m_readIndex < next
                          /\ r.self = ReadAt(msg, next)
                          /\ r.ok = (Sub(msg.m_writeIndex, next) > 0)
                          /\ msg.m_readIndex = msg.m_bufferSz => r.out = <<>>
  BY <1>1, ReadLineAdvances
<1>3. /\ msg.m_readIndex \in Nat /\ msg.m_bufferSz \in Nat /\ msg.m_writeIndex \in Nat
      /\ msg.m_readIndex <= msg.m_bufferSz /\ msg.m_bufferSz < SizeMod
      /\ msg.m_writeIndex <= msg.m_bufferSz /\ SizeMod \in Nat
  BY <1>1, Fields
<1> HIDE DEF r
<1>4. /\ r.self.m_readIndex = next /\ r.self.m_writeIndex = msg.m_writeIndex
  BY <1>2 DEF ReadAt, Buffer
<1>5. ASSUME next > msg.m_writeIndex PROVE MoreLines(r)
  <2>1. Sub(msg.m_writeIndex, next) > 0
    BY <1>2, <1>3, <1>5, SubWraps
  <2>2. r.ok
    BY <1>2, <2>1
  <2> QED BY <2>2 DEF MoreLines
<1>6. ASSUME msg.m_readIndex = msg.m_bufferSz, ~(next > msg.m_writeIndex) PROVE ~MoreLines(r)
  <2>1. next = msg.m_writeIndex
    BY <1>2, <1>3, <1>6
  <2>2. Sub(msg.m_writeIndex, next) = 0
    BY <1>3, <2>1, SubFacts
  <2>3. ~(Sub(msg.m_writeIndex, next) > 0)
    BY <2>2
  <2>4. ~r.ok /\ r.out = <<>>
    BY <1>2, <1>6, <2>3, Zenon
  <2> QED BY <2>4 DEF MoreLines
<1>7. msg.m_readIndex < msg.m_bufferSz \/ msg.m_readIndex = msg.m_bufferSz
  BY <1>3
<1>8. MoreLines(r) /\ ~(next > msg.m_writeIndex) => msg.m_readIndex < next
  BY <1>2, <1>6, <1>7
<1> QED
  BY <1>2, <1>3, <1>4, <1>5, <1>8 DEF r

LEMMA LoopStep == ASSUME Inv, [Next]_vars PROVE [LoopsAdvance]_vars
<1> SUFFICES ASSUME Parser, pc' = pc, ~Overread' PROVE msg.m_readIndex < msg'.m_readIndex
  BY DEF LoopsAdvance
<1>1. PICK delims \in SUBSET Byte : /\ msg' = readLine(msg, delims).self
                                    /\ MoreLines(readLine(msg, delims))
  <2>1. LineDelims \in SUBSET Byte /\ {LF} \in SUBSET Byte
    BY Delimiters
  <2>2. CASE Header
    BY <2>2 DEF Header
  <2>3. CASE Field
    <3>1. msg' = readLine(msg, {LF}).self /\ MoreLines(readLine(msg, {LF}))
      BY <2>3 DEF Field
    <3> QED BY <2>1, <3>1
  <2>4. CASE Line
    BY <2>1, <2>4 DEF Line
  <2>5. CASE Return
    BY <2>5 DEF Return
  <2> QED BY <2>2, <2>3, <2>4, <2>5 DEF Parser
<1> QED
  BY <1>1, LineReadAdvances DEF Overread

\* No loop of the parser turns without reading on, as long as it has not read beyond
\* what was written: with TypeCorrect, which bounds the cursor, each of them makes
\* until then at most as many turns as the message has bytes.
THEOREM EveryTurnReadsOn == Spec => [][LoopsAdvance]_vars
<1>1. Inv /\ [Next]_vars => [LoopsAdvance]_vars
  BY LoopStep
<1> QED
  BY <1>1, Invariance, PTL DEF Spec

LEMMA OverreadStep == ASSUME Inv, [Next]_vars PROVE [NoReturn]_vars
<1> SUFFICES ASSUME Next, pc # "idle", Overread PROVE pc' # "idle" /\ Overread'
  BY DEF NoReturn
<1>1. Parser
  BY DEF Next, ParseMessage, SkipMessage, ParseFragment, Arrive
<1>2. ASSUME NEW delims \in SUBSET Byte, msg' = readLine(msg, delims).self
      PROVE  Overread' /\ MoreLines(readLine(msg, delims))
  <2> DEFINE r == readLine(msg, delims)
  <2>1. /\ r.self.m_writeIndex = msg.m_writeIndex
        /\ msg.m_readIndex \in Nat /\ r.self.m_readIndex \in Nat /\ msg.m_writeIndex \in Nat
        /\ msg.m_readIndex <= r.self.m_readIndex
        /\ r.self.m_readIndex > msg.m_writeIndex => MoreLines(r)
    BY LineReadAdvances
  <2> HIDE DEF r
  <2>2. r.self.m_readIndex > msg.m_writeIndex
    BY <2>1 DEF Overread
  <2>3. msg' = r.self
    BY <1>2 DEF r
  <2>4. MoreLines(r)
    BY <2>1, <2>2
  <2> QED BY <2>1, <2>2, <2>3, <2>4 DEF r, Overread
<1>3. LineDelims \in SUBSET Byte /\ {LF} \in SUBSET Byte
  BY Delimiters
<1>4. CASE Header
  <2>1. msg' = readLine(msg, LineDelims).self /\ pc' = "fields"
    BY <1>4 DEF Header
  <2> QED BY <1>2, <1>3, <2>1
<1>5. CASE Field
  <2>1. msg' = readLine(msg, {LF}).self /\ pc' \in {"fields", "fragment", "threw"}
    BY <1>5 DEF Field
  <2> QED BY <1>2, <1>3, <2>1
<1>6. CASE Line
  <2>1. msg' = readLine(msg, LineDelims).self /\ pc' \in {"fragment", "threw"}
    BY <1>6 DEF Line, TextLine, SizeLine, DataLine
  <2> QED BY <1>2, <1>3, <2>1
<1>7. CASE Return
  <2>1. msg' = readLine(msg, LineDelims).self /\ ~MoreLines(readLine(msg, LineDelims))
    BY <1>7 DEF Return
  <2> QED BY <1>2, <1>3, <2>1
<1> QED
  BY <1>1, <1>4, <1>5, <1>6, <1>7 DEF Parser

\* The other half of CallReturns: a call that has read beyond what was written never
\* returns, whatever the message holds.
THEOREM OverreadNeverReturns == Spec => [][NoReturn]_vars
<1>1. Inv /\ [Next]_vars => [NoReturn]_vars
  BY OverreadStep
<1> QED
  BY <1>1, Invariance, PTL DEF Spec

\* In a call, a buffer is written to its end.
AllWritten == pc # "idle" => msg.m_writeIndex = msg.m_bufferSz

LEMMA AllWrittenStep ==
    ASSUME Slack = {0}, Inv, AllWritten, [Next]_vars
    PROVE  AllWritten'
<1>1. ASSUME NEW n \in 0 .. MaxSize, NEW s \in Slack, n + s <= MaxSize, Arrive(n)
      PROVE  Piece(n, s).m_writeIndex = Piece(n, s).m_bufferSz
  <2>1. n \in Nat /\ n + s = n
    BY <1>1, SizeAssumption
  <2> QED BY <1>1, <2>1, ArriveFacts
<1>2. CASE Next /\ ~Parser
  <2>1. PICK n \in 0 .. MaxSize, s \in Slack :
              /\ n + s <= MaxSize
              /\ ParseMessage(n, s) \/ SkipMessage(n, s) \/ ParseFragment(n, s)
    BY <1>2 DEF Next
  <2>2. Arrive(n)
    BY <2>1 DEF ParseMessage, SkipMessage, ParseFragment
  <2>3. Piece(n, s).m_writeIndex = Piece(n, s).m_bufferSz
    BY <1>1, <2>1, <2>2
  <2> QED BY <2>1, <2>3
          DEF ParseMessage, SkipMessage, ParseFragment, skipToHttpData, ReadAt, Buffer, AllWritten
<1>3. CASE Parser
  <2>1. PICK delims : msg' = readLine(msg, delims).self
    BY <1>3 DEF Parser, Header, Field, Line, Return
  <2>2. msg'.m_writeIndex = msg.m_writeIndex /\ msg'.m_bufferSz = msg.m_bufferSz
    BY <2>1 DEF readLine, Result, ReadAt, Buffer
  <2>3. pc # "idle"
    BY <1>3 DEF Parser, Header, Field, Line, Return
  <2> QED BY <2>2, <2>3 DEF AllWritten
<1>4. CASE UNCHANGED vars
  BY <1>4 DEF vars, AllWritten
<1> QED
  BY <1>2, <1>3, <1>4

\* The condition of CallReturns is the client's to keep: a parser that gets only
\* buffers written to their ends never reads beyond what was written.
THEOREM WrittenIsNeverOverread ==
    (Slack = {0}) => (Spec => [](pc # "idle" => ~Overread))
<1> SUFFICES ASSUME Slack = {0} PROVE Spec => [](pc # "idle" => ~Overread)
  OBVIOUS
<1>1. Init => AllWritten
  BY DEF Init, AllWritten
<1>2. Inv /\ AllWritten /\ [Next]_vars => AllWritten'
  BY AllWrittenStep
<1>3. Inv /\ AllWritten => (pc # "idle" => ~Overread)
  BY Fields DEF Inv, AllWritten, Overread
<1> QED
  BY <1>1, <1>2, <1>3, Invariance, PTL DEF Spec
-----------------------------------------------------------------------------
(* Regular responses: the head.                                             *)

\* The special bytes, and the mark of an unknown size.
LEMMA SpecialBytes ==
    /\ CR \in LineDelims /\ LF \in LineDelims /\ CR # LF /\ LineDelims \subseteq Byte
    /\ Colon \notin LineDelims /\ Colon # LF /\ Colon # CR /\ Colon \in Byte
    /\ \A d \in DOMAIN HexDigit : d \notin LineDelims
    /\ MAX_MSG_LENGTH \in SizeT
<1>1. MAX_MSG_LENGTH \in SizeT
  BY SizeAssumption DEF MAX_MSG_LENGTH, SizeT
<1> QED
  BY <1>1, ResponseAssumption DEF LineDelims

LEMMA BytesOf ==
    ASSUME NEW r \in Responses
    PROVE  /\ Len(r.bytes) \in Nat /\ r.header \in Seq(Byte)
           /\ r.lines \in Seq([name : Seq(Byte), value : Seq(Byte), end : Nat])
           /\ \A p \in 1 .. Len(r.bytes) :
                /\ r.bytes[p].byte \in Byte /\ r.bytes[p].left \in SizeT
                /\ r.bytes[p].payload \in BOOLEAN /\ r.bytes[p].cut \in BOOLEAN
<1>1. r.bytes \in Seq(Tagged)
  BY ResponseAssumption
<1>2. \A p \in 1 .. Len(r.bytes) : r.bytes[p] \in Tagged
  BY <1>1, ElementOfSeq
<1>3. Len(r.bytes) \in Nat
  BY <1>1, LenProperties
<1> QED
  BY <1>2, <1>3, ResponseAssumption DEF Tagged

\* The parts of a text that is found at a position.
LEMMA HasJoined ==
    ASSUME NEW r, NEW p \in Nat, NEW s \in Seq(Byte), NEW t \in Seq(Byte), Has(r, p, s \o t)
    PROVE  Has(r, p, s) /\ Has(r, p + Len(s), t)
<1>1. Len(s) \in Nat /\ Len(t) \in Nat /\ Len(s \o t) = Len(s) + Len(t)
  OBVIOUS
<1>2. ASSUME NEW j \in 1 .. Len(s) PROVE r.bytes[p + j].byte = s[j]
  <2>1. j \in 1 .. Len(s \o t) /\ (s \o t)[j] = s[j]
    BY <1>1
  <2> QED BY <2>1 DEF Has
<1>3. ASSUME NEW j \in 1 .. Len(t) PROVE r.bytes[p + Len(s) + j].byte = t[j]
  <2>1. Len(s) + j \in 1 .. Len(s \o t) /\ (s \o t)[Len(s) + j] = t[j]
    BY <1>1
  <2>2. p + (Len(s) + j) = p + Len(s) + j
    BY <1>1
  <2>3. r.bytes[p + (Len(s) + j)].byte = t[j]
    BY <2>1 DEF Has
  <2> QED BY <2>2, <2>3
<1> QED
  BY <1>2, <1>3 DEF Has

LEMMA HasPair ==
    ASSUME NEW r, NEW p \in Nat, NEW x \in Byte, NEW y \in Byte, Has(r, p, <<x, y>>)
    PROVE  r.bytes[p + 1].byte = x /\ r.bytes[p + 2].byte = y
<1>1. 1 \in 1 .. Len(<<x, y>>) /\ 2 \in 1 .. Len(<<x, y>>)
  OBVIOUS
<1>2. <<x, y>>[1] = x /\ <<x, y>>[2] = y
  OBVIOUS
<1> QED
  BY <1>1, <1>2 DEF Has

\* The header line takes all bytes before the first field.
LEMMA HeaderText ==
    ASSUME NEW r \in Responses, FollowsGrammar(r)
    PROVE  /\ LineStart(r, 1) = Len(r.header) + 2 /\ Len(r.header) \in Nat
           /\ \A j \in 1 .. Len(r.header) : /\ r.bytes[j].byte = r.header[j]
                                            /\ r.header[j] \notin LineDelims
           /\ r.bytes[Len(r.header) + 1].byte = CR
           /\ r.bytes[Len(r.header) + 2].byte = LF
<1>1. r.header \in Seq(Byte) /\ Len(r.header) \in Nat
  BY BytesOf
<1>2. CR \in Byte /\ LF \in Byte /\ <<CR, LF>> \in Seq(Byte)
  BY SpecialBytes
<1>3. Has(r, 0, r.header \o <<CR, LF>>)
  BY DEF FollowsGrammar
<1>4. Has(r, 0, r.header) /\ Has(r, 0 + Len(r.header), <<CR, LF>>)
  BY <1>1, <1>2, <1>3, HasJoined
<1>5. 0 + Len(r.header) = Len(r.header)
  BY <1>1
<1>6. r.bytes[Len(r.header) + 1].byte = CR /\ r.bytes[Len(r.header) + 2].byte = LF
  BY <1>1, <1>2, <1>4, <1>5, HasPair
<1>7. ASSUME NEW j \in 1 .. Len(r.header) PROVE r.bytes[j].byte = r.header[j]
  <2>1. 0 + j = j
    BY <1>1
  <2>2. r.bytes[0 + j].byte = r.header[j]
    BY <1>4 DEF Has
  <2> QED BY <2>1, <2>2
<1> QED
  BY <1>1, <1>6, <1>7 DEF LineStart, FollowsGrammar

\* Field i, byte by byte.
LEMMA FieldText ==
    ASSUME NEW r \in Responses, FollowsGrammar(r), NEW i \in 1 .. Len(r.lines),
           LineStart(r, i) \in Nat
    PROVE  LET name == r.lines[i].name
               value == r.lines[i].value
               from == LineStart(r, i)
               colon == from + Len(name) + 1
               blank == from + Len(name) + 2
           IN  /\ name \in Seq(Byte) /\ value \in Seq(Byte)
               /\ LineStart(r, i + 1) = from + Len(name) + Len(value) + 4
               /\ \A j \in 1 .. Len(name) : /\ r.bytes[from + j].byte = name[j]
                                            /\ name[j] \notin LineDelims /\ name[j] # Colon
               /\ r.bytes[colon].byte = Colon /\ r.bytes[blank].byte # LF
               /\ \A j \in 1 .. Len(value) : r.bytes[blank + j].byte = value[j] /\ value[j] # LF
               /\ r.bytes[blank + Len(value) + 1].byte = CR
               /\ r.bytes[blank + Len(value) + 2].byte = LF
<1>1. r.lines[i] \in [name : Seq(Byte), value : Seq(Byte), end : Nat] /\ Len(r.lines) \in Nat
  <2>1. r.lines \in Seq([name : Seq(Byte), value : Seq(Byte), end : Nat])
    BY BytesOf
  <2> QED BY <2>1, ElementOfSeq, LenProperties
<1>2. PICK name, value \in Seq(Byte) : name = r.lines[i].name /\ value = r.lines[i].value
  BY <1>1
<1>3. PICK from \in Nat : from = LineStart(r, i)
  OBVIOUS
<1>4. FieldRule(r, i)
  BY DEF FollowsGrammar
<1>5. /\ \A j \in 1 .. Len(name) : name[j] \notin LineDelims /\ name[j] # Colon
      /\ \A j \in 1 .. Len(value) : value[j] # LF
      /\ r.lines[i].end = from + Len(name) + Len(value) + 4
  BY <1>2, <1>3, <1>4 DEF FieldRule
<1>6. PICK blank \in Byte \ {LF} :
        Has(r, from, name \o <<Colon, blank>> \o value \o <<CR, LF>>)
  BY <1>2, <1>3, <1>4 DEF FieldRule
<1>7. CR \in Byte /\ LF \in Byte /\ Colon \in Byte /\ blank \in Byte /\ blank # LF
  BY <1>6, SpecialBytes
<1>8. /\ <<Colon, blank>> \in Seq(Byte) /\ <<CR, LF>> \in Seq(Byte)
      /\ Len(<<Colon, blank>>) = 2
  BY <1>7
<1>9. PICK start, head \in Seq(Byte) :
          /\ start = name \o <<Colon, blank>> /\ head = start \o value
          /\ Len(start) = Len(name) + 2 /\ Len(head) = Len(name) + 2 + Len(value)
  <2>1. PICK start \in Seq(Byte) : start = name \o <<Colon, blank>> /\ Len(start) = Len(name) + 2
    <3>1. /\ name \o <<Colon, blank>> \in Seq(Byte)
          /\ Len(name \o <<Colon, blank>>) = Len(name) + Len(<<Colon, blank>>)
      BY <1>8, ConcatProperties
    <3> QED BY <1>8, <3>1
  <2>2. PICK head \in Seq(Byte) : head = start \o value /\ Len(head) = Len(start) + Len(value)
    BY ConcatProperties
  <2> QED BY <2>1, <2>2
<1>10. Has(r, from, head) /\ Has(r, from + Len(head), <<CR, LF>>)
  BY <1>6, <1>8, <1>9, HasJoined
<1>11. Has(r, from, start) /\ Has(r, from + Len(start), value)
  BY <1>9, <1>10, HasJoined
<1>12. Has(r, from, name) /\ Has(r, from + Len(name), <<Colon, blank>>)
  BY <1>8, <1>9, <1>11, HasJoined
<1>13. PICK n, v \in Nat : n = Len(name) /\ v = Len(value)
  OBVIOUS
<1>14. r.bytes[from + n + 1].byte = Colon /\ r.bytes[from + n + 2].byte = blank
  <2>1. from + n \in Nat
    OBVIOUS
  <2> QED BY <1>7, <1>12, <1>13, <2>1, HasPair
<1>15. ASSUME NEW j \in 1 .. v PROVE r.bytes[from + n + 2 + j].byte = value[j]
  <2>1. from + Len(start) + j = from + n + 2 + j
    BY <1>9, <1>13
  <2>2. r.bytes[from + Len(start) + j].byte = value[j]
    BY <1>11, <1>13 DEF Has
  <2> QED BY <2>1, <2>2
<1>16. r.bytes[from + n + 2 + v + 1].byte = CR /\ r.bytes[from + n + 2 + v + 2].byte = LF
  <2>1. PICK q \in Nat : q = from + n + 2 + v
    OBVIOUS
  <2>2. Has(r, q, <<CR, LF>>)
    BY <1>9, <1>10, <1>13, <2>1
  <2> QED BY <1>7, <2>1, <2>2, HasPair
<1>17. ASSUME NEW j \in 1 .. n PROVE r.bytes[from + j].byte = name[j]
  BY <1>12, <1>13 DEF Has
<1>18. LineStart(r, i + 1) = from + n + v + 4
  <2>1. i + 1 # 1 /\ (i + 1) - 1 = i
    BY <1>1
  <2> QED BY <1>5, <1>13, <2>1 DEF LineStart
<1> QED
  BY <1>2, <1>3, <1>5, <1>7, <1>13, <1>14, <1>15, <1>16, <1>17, <1>18

\* Fields follow each other, four bytes or more apart, up to the blank line.
LEMMA LineStarts ==
    ASSUME NEW r \in Responses, FollowsGrammar(r)
    PROVE  /\ Len(r.lines) \in Nat /\ Len(r.lines) >= 1
           /\ \A i \in 1 .. (Len(r.lines) + 1) :
                /\ LineStart(r, i) \in Nat /\ LineStart(r, i) >= 2
                /\ LineStart(r, i) <= HeadEnd(r)
                /\ \A j \in (i + 1) .. (Len(r.lines) + 1) : LineStart(r, j) >= LineStart(r, i) + 4
<1>1. PICK k \in Nat : k = Len(r.lines) /\ k >= 1
  <2>1. r.lines \in Seq([name : Seq(Byte), value : Seq(Byte), end : Nat])
    BY BytesOf
  <2>2. Len(r.lines) \in Nat
    BY <2>1, LenProperties
  <2>3. Len(r.lines) # 0
    BY <2>1, EmptySeq DEF FollowsGrammar
  <2> QED BY <2>2, <2>3
<1>2. LineStart(r, 1) \in Nat /\ LineStart(r, 1) >= 2
  BY HeaderText
<1>3. ASSUME NEW i \in 1 .. k, LineStart(r, i) \in Nat
      PROVE  LineStart(r, i + 1) \in Nat /\ LineStart(r, i + 1) >= LineStart(r, i) + 4
  <2>1. i \in 1 .. Len(r.lines)
    BY <1>1
  <2>2. /\ r.lines[i].name \in Seq(Byte) /\ r.lines[i].value \in Seq(Byte)
        /\ LineStart(r, i + 1)
             = LineStart(r, i) + Len(r.lines[i].name) + Len(r.lines[i].value) + 4
    BY <1>3, <2>1, FieldText
  <2>3. PICK n, v, from \in Nat :
          n = Len(r.lines[i].name) /\ v = Len(r.lines[i].value) /\ from = LineStart(r, i)
    BY <1>3, <2>2, LenProperties
  <2>4. LineStart(r, i + 1) = from + n + v + 4
    BY <2>2, <2>3
  <2>5. from + n + v + 4 \in Nat /\ from + n + v + 4 >= from + 4
    OBVIOUS
  <2> QED BY <2>3, <2>4, <2>5
<1>4. \A i \in 1 .. (k + 1) : LineStart(r, i) \in Nat /\ LineStart(r, i) >= 2
  <2> DEFINE T == {i \in 1 .. (k + 1) : LineStart(r, i) \in Nat /\ LineStart(r, i) >= 2}
  <2>1. 1 \in T
    BY <1>2
  <2>2. ASSUME NEW i \in 2 .. (k + 1), i - 1 \in T PROVE i \in T
    <3>1. i - 1 \in 1 .. k /\ (i - 1) + 1 = i
      OBVIOUS
    <3>2. LineStart(r, i) \in Nat /\ LineStart(r, i) >= LineStart(r, i - 1) + 4
      BY <1>3, <2>2, <3>1
    <3>3. LineStart(r, i - 1) >= 2 /\ LineStart(r, i - 1) \in Nat
      BY <2>2
    <3> QED BY <3>1, <3>2, <3>3
  <2> HIDE DEF T
  <2>3. \A i \in 1 .. (k + 1) : i \in T
    <3>1. 1 + 1 = 2 /\ k + 1 \in Nat /\ 1 \in Nat
      OBVIOUS
    <3> QED BY <2>1, <2>2, <3>1, Reached
  <2> QED BY <2>3 DEF T
<1>5. ASSUME NEW i \in 1 .. (k + 1), NEW j \in (i + 1) .. (k + 1)
      PROVE  LineStart(r, j) >= LineStart(r, i) + 4
  <2> DEFINE T == {q \in (i + 1) .. (k + 1) : LineStart(r, q) >= LineStart(r, i) + 4}
  <2>1. i \in 1 .. k
    OBVIOUS
  <2>2. i + 1 \in T
    BY <1>3, <1>4, <2>1
  <2>3. ASSUME NEW q \in (i + 2) .. (k + 1), q - 1 \in T PROVE q \in T
    <3>1. q - 1 \in 1 .. k /\ (q - 1) + 1 = q /\ q \in 1 .. (k + 1)
      OBVIOUS
    <3>2. LineStart(r, q) >= LineStart(r, q - 1) + 4
      BY <1>3, <1>4, <3>1
    <3>3. LineStart(r, q - 1) >= LineStart(r, i) + 4
      BY <2>3
    <3>4. LineStart(r, q) \in Nat /\ LineStart(r, q - 1) \in Nat /\ LineStart(r, i) \in Nat
      BY <1>4, <3>1
    <3>5. LineStart(r, q) >= LineStart(r, i) + 4
      BY <3>2, <3>3, <3>4
    <3> QED BY <3>5
  <2> HIDE DEF T
  <2>4. \A q \in (i + 1) .. (k + 1) : q \in T
    <3>1. (i + 1) + 1 = i + 2 /\ k + 1 \in Nat /\ i + 1 \in Nat
      OBVIOUS
    <3> QED BY <2>2, <2>3, <3>1, Reached
  <2> QED BY <2>4 DEF T
<1>6. ASSUME NEW i \in 1 .. (k + 1) PROVE LineStart(r, i) <= HeadEnd(r)
  <2>1. CASE i = k + 1
    BY <1>1, <1>4, <2>1 DEF HeadEnd
  <2>2. CASE i # k + 1
    <3>1. k + 1 \in (i + 1) .. (k + 1)
      BY <2>2
    <3>2. LineStart(r, k + 1) >= LineStart(r, i) + 4 /\ LineStart(r, k + 1) \in Nat
      BY <1>4, <1>5, <3>1
    <3> QED BY <1>1, <1>4, <3>2 DEF HeadEnd
  <2> QED BY <2>1, <2>2
<1> QED
  BY <1>1, <1>4, <1>5, <1>6

\* A line feed in the head ends the header line or a field; so no blank line is
\* before the one that ends the head.
LEMMA LineFeeds ==
    ASSUME NEW r \in Responses, FollowsGrammar(r), NEW p \in 1 .. HeadEnd(r),
           r.bytes[p].byte = LF
    PROVE  \E i \in 1 .. (Len(r.lines) + 1) : p = LineStart(r, i)
<1>1. PICK k \in Nat : k = Len(r.lines) /\ k >= 1
  BY LineStarts
<1> DEFINE Known(i) == \A q \in 1 .. LineStart(r, i) :
                         r.bytes[q].byte = LF => \E j \in 1 .. (k + 1) : q = LineStart(r, j)
           T == {i \in 1 .. (k + 1) : Known(i)}
<1>2. 1 \in T
  <2>1. PICK n \in Nat : n = Len(r.header) /\ LineStart(r, 1) = n + 2
    BY HeaderText
  <2>2. ASSUME NEW q \in 1 .. (n + 2), r.bytes[q].byte = LF PROVE q = n + 2
    <3>1. q \notin 1 .. n
      BY <2>1, <2>2, HeaderText, SpecialBytes
    <3>2. q # n + 1
      BY <2>1, <2>2, HeaderText, SpecialBytes
    <3> QED BY <3>1, <3>2
  <2> QED BY <1>1, <2>1, <2>2
<1>3. ASSUME NEW i \in 1 .. k, i \in T PROVE i + 1 \in T
  <2>1. PICK from \in Nat : from = LineStart(r, i)
    BY <1>1, LineStarts
  <2>2. PICK name, value \in Seq(Byte) : name = r.lines[i].name /\ value = r.lines[i].value
    BY <1>1, <2>1, FieldText
  <2>3. PICK n, v \in Nat : n = Len(name) /\ v = Len(value)
    OBVIOUS
  <2>4. /\ LineStart(r, i + 1) = from + n + v + 4
        /\ \A j \in 1 .. n : r.bytes[from + j].byte = name[j] /\ name[j] \notin LineDelims
        /\ r.bytes[from + n + 1].byte = Colon /\ r.bytes[from + n + 2].byte # LF
        /\ \A j \in 1 .. v : r.bytes[from + n + 2 + j].byte = value[j] /\ value[j] # LF
        /\ r.bytes[from + n + 2 + v + 1].byte = CR
    <3>1. i \in 1 .. Len(r.lines) /\ LineStart(r, i) \in Nat
      BY <1>1, <2>1
    <3>2. LineStart(r, i + 1) = from + n + v + 4
      BY <2>1, <2>2, <2>3, <3>1, FieldText
    <3>3. \A j \in 1 .. n : r.bytes[from + j].byte = name[j] /\ name[j] \notin LineDelims
      BY <2>1, <2>2, <2>3, <3>1, FieldText
    <3>4. r.bytes[from + n + 1].byte = Colon /\ r.bytes[from + n + 2].byte # LF
      BY <2>1, <2>2, <2>3, <3>1, FieldText
    <3>5. \A j \in 1 .. v : r.bytes[from + n + 2 + j].byte = value[j] /\ value[j] # LF
      BY <2>1, <2>2, <2>3, <3>1, FieldText
    <3>6. r.bytes[from + n + 2 + v + 1].byte = CR
      BY <2>1, <2>2, <2>3, <3>1, FieldText
    <3> QED BY <3>2, <3>3, <3>4, <3>5, <3>6
  <2>5. ASSUME NEW q \in (from + 1) .. (from + n + v + 4), r.bytes[q].byte = LF
        PROVE  q = from + n + v + 4
    <3>1. PICK j \in Nat : q = from + j
      OBVIOUS
    <3>2. j \notin 1 .. n
      <4>1. SUFFICES ASSUME j \in 1 .. n PROVE FALSE
        OBVIOUS
      <4>2. r.bytes[from + j].byte \notin LineDelims
        BY <2>4, <4>1
      <4> QED BY <2>5, <3>1, <4>2, SpecialBytes
    <3>3. j # n + 1 /\ j # n + 2
      <4>1. j = n + 1 => q = from + n + 1
        BY <3>1
      <4>2. j = n + 2 => q = from + n + 2
        BY <3>1
      <4> QED BY <2>4, <2>5, <4>1, <4>2, SpecialBytes
    <3>4. j \notin (n + 3) .. (n + 2 + v)
      <4>1. SUFFICES ASSUME j \in (n + 3) .. (n + 2 + v) PROVE FALSE
        OBVIOUS
      <4>2. j - n - 2 \in 1 .. v /\ q = from + n + 2 + (j - n - 2)
        BY <3>1, <4>1
      <4> QED BY <2>4, <2>5, <4>2
    <3>5. j # n + v + 3
      <4>1. j = n + v + 3 => q = from + n + 2 + v + 1
        BY <3>1
      <4> QED BY <2>4, <2>5, <4>1, SpecialBytes
    <3> QED BY <3>1, <3>2, <3>3, <3>4, <3>5
  <2>6. ASSUME NEW q \in 1 .. LineStart(r, i + 1), r.bytes[q].byte = LF
        PROVE  \E j \in 1 .. (k + 1) : q = LineStart(r, j)
    <3>1. CASE q <= from
      BY <1>3, <2>1, <2>6, <3>1
    <3>2. CASE q > from
      <4>1. q = LineStart(r, i + 1)
        <5>1. PICK end \in Nat : end = from + n + v + 4
          OBVIOUS
        <5>2. q \in (from + 1) .. end
          BY <2>4, <3>2, <5>1
        <5> QED BY <2>4, <2>5, <2>6, <5>1, <5>2
      <4> QED BY <4>1
    <3> QED BY <3>1, <3>2
  <2> QED BY <2>6
<1>4. \A i \in 2 .. (k + 1) : i - 1 \in T => i \in T
  <2>1. ASSUME NEW i \in 2 .. (k + 1), i - 1 \in T PROVE i \in T
    <3>1. i - 1 \in 1 .. k /\ (i - 1) + 1 = i
      OBVIOUS
    <3>2. (i - 1) + 1 \in T
      <4> HIDE DEF T
      <4> QED BY <1>3, <2>1, <3>1
    <3> QED BY <3>1, <3>2
  <2> QED BY <2>1
<1> HIDE DEF T
<1>5. k + 1 \in T
  <2>1. 1 + 1 = 2 /\ k + 1 \in Nat /\ 1 \in Nat /\ k + 1 \in 1 .. (k + 1)
    OBVIOUS
  <2>2. \A i \in 1 .. (k + 1) : i \in T
    BY <1>2, <1>4, <2>1, Reached
  <2> QED BY <2>1, <2>2
<1>6. Known(k + 1) /\ HeadEnd(r) = LineStart(r, k + 1)
  BY <1>1, <1>5 DEF T, HeadEnd
<1> QED
  BY <1>1, <1>6

\* The blank line.
LEMMA BlankLineFacts ==
    ASSUME NEW r \in Responses, FollowsGrammar(r)
    PROVE  LET h == HeadEnd(r)
           IN  /\ h \in Nat /\ h >= 6 /\ h + 2 <= Len(r.bytes) /\ Len(r.bytes) \in Nat
               /\ r.bytes[h - 1].byte = CR /\ r.bytes[h].byte = LF
               /\ r.bytes[h + 1].byte = CR /\ r.bytes[h + 2].byte = LF
               /\ \A p \in 3 .. (h + 1) : ~(r.bytes[p - 2].byte = LF /\ r.bytes[p].byte = LF)
<1>1. PICK k \in Nat : k = Len(r.lines) /\ k >= 1
  BY LineStarts
<1>2. PICK h \in Nat : h = HeadEnd(r) /\ h = LineStart(r, k + 1) /\ h >= 6
  <2>1. 1 \in 1 .. (k + 1) /\ k + 1 \in (1 + 1) .. (k + 1) /\ k + 1 \in 1 .. (k + 1)
    BY <1>1
  <2>2. PICK one \in Nat : one = LineStart(r, 1) /\ one >= 2
    BY <1>1, <2>1, LineStarts
  <2>3. LineStart(r, k + 1) \in Nat /\ LineStart(r, k + 1) >= one + 4
    BY <1>1, <2>1, <2>2, LineStarts
  <2> QED BY <1>1, <2>2, <2>3 DEF HeadEnd
<1>3. h + 2 <= Len(r.bytes) /\ Len(r.bytes) \in Nat
  BY <1>2, BytesOf DEF FollowsGrammar
<1>4. r.bytes[h + 1].byte = CR /\ r.bytes[h + 2].byte = LF
  <2>1. Has(r, h, <<CR, LF>>) /\ CR \in Byte /\ LF \in Byte
    BY <1>2, SpecialBytes DEF FollowsGrammar
  <2> QED BY <2>1, HasPair
<1>5. r.bytes[h - 1].byte = CR /\ r.bytes[h].byte = LF
  <2>1. k \in 1 .. (k + 1) /\ k \in 1 .. k
    BY <1>1
  <2>2. PICK from \in Nat : from = LineStart(r, k)
    BY <1>1, <2>1, LineStarts
  <2>3. r.lines[k].name \in Seq(Byte) /\ r.lines[k].value \in Seq(Byte)
    BY <1>1, <2>1, <2>2, FieldText
  <2>4. PICK n, v \in Nat : n = Len(r.lines[k].name) /\ v = Len(r.lines[k].value)
    BY <2>3, LenProperties
  <2>5. /\ h = from + n + v + 4
        /\ r.bytes[from + n + 2 + v + 1].byte = CR /\ r.bytes[from + n + 2 + v + 2].byte = LF
    BY <1>1, <1>2, <2>1, <2>2, <2>4, FieldText
  <2>6. h - 1 = from + n + 2 + v + 1 /\ h = from + n + 2 + v + 2
    BY <2>5
  <2> QED BY <2>5, <2>6
<1>6. ASSUME NEW p \in 3 .. (h + 1), r.bytes[p - 2].byte = LF, r.bytes[p].byte = LF PROVE FALSE
  <2>1. p # h + 1
    BY <1>4, <1>6, SpecialBytes
  <2>2. p \in 1 .. h /\ p - 2 \in 1 .. h
    BY <2>1
  <2>3. PICK i \in 1 .. (k + 1) : p = LineStart(r, i)
    BY <1>1, <1>2, <1>6, <2>2, LineFeeds
  <2>4. PICK j \in 1 .. (k + 1) : p - 2 = LineStart(r, j)
    BY <1>1, <1>2, <1>6, <2>2, LineFeeds
  <2>5. CASE j < i
    <3>1. i \in (j + 1) .. (k + 1)
      BY <2>5
    <3>2. LineStart(r, i) >= LineStart(r, j) + 4
      BY <1>1, <3>1, LineStarts
    <3> QED BY <2>3, <2>4, <3>2
  <2>6. CASE i < j
    <3>1. j \in (i + 1) .. (k + 1)
      BY <2>6
    <3>2. LineStart(r, j) >= LineStart(r, i) + 4
      BY <1>1, <3>1, LineStarts
    <3> QED BY <2>3, <2>4, <3>2
  <2>7. CASE i = j
    BY <2>3, <2>4, <2>7
  <2> QED BY <2>5, <2>6, <2>7
<1> QED
  BY <1>2, <1>3, <1>4, <1>5, <1>6

-----------------------------------------------------------------------------
(* Regular responses: the body.                                             *)

\* The payload up to a position: the recursive definition defines a function.
LEMMA PayloadFacts ==
    ASSUME NEW r \in Responses
    PROVE  /\ PayloadOf(r)[0] = <<>>
           /\ \A p \in 1 .. Len(r.bytes) :
                PayloadOf(r)[p] = IF r.bytes[p].payload
                                  THEN Append(PayloadOf(r)[p - 1], r.bytes[p].byte)
                                  ELSE PayloadOf(r)[p - 1]
           /\ \A p \in 0 .. Len(r.bytes) : PayloadOf(r)[p] \in Seq(Byte)
<1> DEFINE N == Len(r.bytes)
           Strings == Seq(Byte)
           After(p, s) == IF r.bytes[p].payload THEN Append(s, r.bytes[p].byte) ELSE s
           Eq(f) == f = [p \in 0 .. N |-> IF p = 0 THEN <<>>
                                          ELSE IF r.bytes[p].payload
                                               THEN Append(f[p - 1], r.bytes[p].byte)
                                               ELSE f[p - 1]]
           step == [p \in 1 .. N |-> [s \in Strings |-> After(p, s)]]
           kept == CHOOSE f : Eq(f)
<1>1. N \in Nat
  BY BytesOf
<1>2. ASSUME NEW p \in 1 .. N, NEW s \in Seq(Byte) PROVE After(p, s) \in Seq(Byte)
  <2>1. r.bytes[p].byte \in Byte
    BY BytesOf
  <2> QED BY <2>1
<1>3. PayloadOf(r) = kept
  BY DEF PayloadOf
<1>4. \E f \in [0 .. N -> Strings] : Eq(f)
  <2>1. <<>> \in Strings /\ step \in [1 .. N -> [Strings -> Strings]]
    BY <1>2
  <2> HIDE DEF step, Strings
  <2>2. PICK f \in [0 .. N -> Strings] : Stepwise(f, N, <<>>, step)
    BY <1>1, <2>1, StepwiseExists
  <2>3. ASSUME NEW p \in 1 .. N PROVE step[p][f[p - 1]] = After(p, f[p - 1])
    <3>1. p - 1 \in 0 .. N
      BY <1>1
    <3>2. f[p - 1] \in Strings
      BY <2>2, <3>1
    <3> HIDE DEF After
    <3> QED BY <3>2 DEF step
  <2>4. ASSUME NEW p \in 0 .. N
        PROVE  f[p] = IF p = 0 THEN <<>> ELSE After(p, f[p - 1])
    <3>1. p # 0 => p \in 1 .. N
      BY <1>1
    <3> HIDE DEF After
    <3> QED BY <2>2, <2>3, <3>1 DEF Stepwise
  <2> QED BY <2>2, <2>4
<1>5. Eq(kept)
  BY <1>4
<1> HIDE DEF kept
<1>6. kept[0] = <<>> /\ \A p \in 1 .. N : kept[p] = After(p, kept[p - 1])
  <2>1. \A p \in 0 .. N : kept[p] = IF p = 0 THEN <<>> ELSE After(p, kept[p - 1])
    BY <1>5
  <2>2. 0 \in 0 .. N /\ \A p \in 1 .. N : p \in 0 .. N /\ p # 0
    BY <1>1
  <2> HIDE DEF After
  <2> QED BY <2>1, <2>2
<1> HIDE DEF Eq
<1>7. \A p \in 0 .. N : kept[p] \in Seq(Byte)
  <2>1. kept[0] \in Seq(Byte)
    BY <1>6
  <2>2. ASSUME NEW p \in 1 .. N, kept[p - 1] \in Seq(Byte) PROVE kept[p] \in Seq(Byte)
    <3> HIDE DEF After
    <3> QED BY <1>2, <1>6, <2>2
  <2> HIDE DEF After
  <2> QED BY <1>1, <2>1, <2>2, PassedOn
<1> QED
  BY <1>3, <1>6, <1>7

\* Bytes that are not payload add nothing.
LEMMA NoPayload ==
    ASSUME NEW r \in Responses, NEW a \in Nat, NEW e \in Nat, a <= e, e <= Len(r.bytes),
           \A p \in (a + 1) .. e : ~r.bytes[p].payload
    PROVE  PayloadOf(r)[e] = PayloadOf(r)[a]
<1> DEFINE T == {p \in a .. e : PayloadOf(r)[p] = PayloadOf(r)[a]}
<1>1. a \in T
  OBVIOUS
<1>2. ASSUME NEW p \in (a + 1) .. e, p - 1 \in T PROVE p \in T
  <2>1. p \in 1 .. Len(r.bytes)
    BY BytesOf
  <2> QED BY <1>2, <2>1, PayloadFacts
<1> HIDE DEF T
<1>3. \A p \in a .. e : p \in T
  BY <1>1, <1>2, Reached
<1>4. e \in a .. e
  OBVIOUS
<1>5. e \in T
  BY <1>3, <1>4
<1> QED
  BY <1>5 DEF T

LEMMA BodyRules ==
    ASSUME NEW r \in Responses, FollowsGrammar(r),
           NEW p \in Nat, p >= HeadEnd(r), p < Len(r.bytes)
    PROVE  BodyRule(r, p)
<1>1. HeadEnd(r) \in Nat /\ Len(r.bytes) \in Nat
  BY BlankLineFacts
<1>2. p \in HeadEnd(r) .. (Len(r.bytes) - 1)
  BY <1>1
<1> QED
  BY <1>2 DEF FollowsGrammar

\* Line breaks change nothing.
LEMMA BreakFacts ==
    ASSUME NEW r \in Responses, FollowsGrammar(r), NEW a \in Nat, NEW e \in Nat,
           HeadEnd(r) <= a, a <= e, e <= Len(r.bytes),
           \A p \in (a + 1) .. e : r.bytes[p].byte \in LineDelims
    PROVE  /\ PayloadOf(r)[e] = PayloadOf(r)[a]
           /\ r.bytes[e].left = r.bytes[a].left
<1>1. HeadEnd(r) \in Nat /\ Len(r.bytes) \in Nat
  BY BlankLineFacts
<1>2. ASSUME NEW p \in (a + 1) .. e
      PROVE  ~r.bytes[p].payload /\ r.bytes[p].left = r.bytes[p - 1].left
  <2>1. p - 1 \in Nat /\ p - 1 >= HeadEnd(r) /\ p - 1 < Len(r.bytes) /\ (p - 1) + 1 = p
    BY <1>1
  <2>2. BodyRule(r, p - 1)
    BY <2>1, BodyRules
  <2>3. r.bytes[p].byte \in LineDelims
    OBVIOUS
  <2> QED BY <2>1, <2>2, <2>3 DEF BodyRule
<1> DEFINE T == {p \in a .. e : r.bytes[p].left = r.bytes[a].left}
<1>3. a \in T /\ \A p \in (a + 1) .. e : p - 1 \in T => p \in T
  BY <1>2
<1> HIDE DEF T
<1>4. e \in T
  <2>1. e \in a .. e
    OBVIOUS
  <2>2. \A p \in a .. e : p \in T
    BY <1>3, Reached
  <2> QED BY <2>1, <2>2
<1>5. r.bytes[e].left = r.bytes[a].left
  BY <1>4 DEF T
<1> QED
  BY <1>2, <1>5, NoPayload

\* The bytes from a to e.
Span(r, a, e) == [j \in 1 .. (e - a) |-> r.bytes[a + j].byte]

\* Chunk data: each byte is payload and one less of what the chunk lacks.
LEMMA DataFacts ==
    ASSUME NEW r \in Responses, FollowsGrammar(r), NEW a \in Nat, NEW e \in Nat,
           HeadEnd(r) <= a, a <= e, e <= Len(r.bytes),
           \A p \in (a + 1) .. e : r.bytes[p].byte \notin LineDelims,
           r.bytes[a].left # 0, r.bytes[a].left # MAX_MSG_LENGTH
    PROVE  /\ e - a <= r.bytes[a].left
           /\ r.bytes[e].left = IF e - a = r.bytes[a].left THEN MAX_MSG_LENGTH
                                                           ELSE r.bytes[a].left - (e - a)
           /\ PayloadOf(r)[e] = PayloadOf(r)[a] \o Span(r, a, e)
<1>1. HeadEnd(r) \in Nat /\ HeadEnd(r) >= 6 /\ Len(r.bytes) \in Nat
  BY BlankLineFacts
<1>2. PICK L \in Nat : L = r.bytes[a].left /\ L # 0 /\ L < MAX_MSG_LENGTH
  <2>1. a \in 1 .. Len(r.bytes)
    BY <1>1
  <2>2. r.bytes[a].left \in SizeT
    BY <2>1, BytesOf
  <2> QED BY <2>2, SizeAssumption DEF SizeT, MAX_MSG_LENGTH
<1>3. MAX_MSG_LENGTH \in Nat
  BY SizeAssumption, <1>2 DEF MAX_MSG_LENGTH
<1> DEFINE T == {p \in a .. e : /\ p - a <= L
                                /\ r.bytes[p].left = IF p - a = L THEN MAX_MSG_LENGTH
                                                                  ELSE L - (p - a)
                                /\ p > a => r.bytes[p].payload
                                /\ PayloadOf(r)[p] = PayloadOf(r)[a] \o Span(r, a, p)}
<1>4. a \in T
  <2>1. PayloadOf(r)[a] \in Seq(Byte)
    BY <1>1, PayloadFacts
  <2>2. Span(r, a, a) = <<>>
    BY DEF Span
  <2>3. PayloadOf(r)[a] = PayloadOf(r)[a] \o Span(r, a, a)
    BY <2>1, <2>2, ConcatEmptySeq
  <2>4. a - a = 0 /\ L - 0 = L
    BY <1>2
  <2> QED BY <1>2, <2>3, <2>4
<1>5. ASSUME NEW p \in (a + 1) .. e, p - 1 \in T PROVE p \in T
  <2>1. PICK q \in Nat : q = p - 1 /\ p = q + 1 /\ q >= a /\ q < e
    OBVIOUS
  <2>2. /\ q - a <= L /\ r.bytes[q].left = IF q - a = L THEN MAX_MSG_LENGTH ELSE L - (q - a)
        /\ q > a => r.bytes[q].payload
        /\ PayloadOf(r)[q] = PayloadOf(r)[a] \o Span(r, a, q)
    BY <1>5, <2>1
  <2> HIDE DEF T
  <2>3. BodyRule(r, q)
    BY <1>1, <2>1, BodyRules
  <2>4. r.bytes[q + 1].byte \notin LineDelims
    BY <2>1
  <2>5. q - a # L
    <3>1. SUFFICES ASSUME q - a = L PROVE FALSE
      OBVIOUS
    <3>2. q > a /\ r.bytes[q].left = MAX_MSG_LENGTH /\ r.bytes[q].payload
      BY <1>2, <2>1, <2>2, <3>1
    <3>3. r.bytes[q].byte \notin LineDelims
      BY <2>1, <3>2
    <3> QED BY <2>3, <2>4, <3>2, <3>3 DEF BodyRule
  <2>6. r.bytes[q].left = L - (q - a) /\ L - (q - a) # 0 /\ L - (q - a) # MAX_MSG_LENGTH
    <3>1. PICK x, M \in Nat : x = q - a /\ x <= L /\ x # L /\ M = MAX_MSG_LENGTH /\ L < M
      <4>1. q - a \in Nat /\ q - a <= L /\ q - a # L
        BY <2>1, <2>2, <2>5
      <4> QED BY <1>2, <1>3, <4>1
    <3>2. L - x # 0 /\ L - x # M
      BY <1>2, <3>1
    <3> QED BY <2>2, <2>5, <3>1, <3>2
  <2>7. /\ r.bytes[q + 1].payload
        /\ r.bytes[q + 1].left = IF r.bytes[q].left = 1 THEN MAX_MSG_LENGTH
                                                        ELSE r.bytes[q].left - 1
    BY <2>3, <2>4, <2>6 DEF BodyRule
  <2>8. /\ p - a <= L
        /\ r.bytes[p].left = IF p - a = L THEN MAX_MSG_LENGTH ELSE L - (p - a)
    <3>1. PICK x \in Nat : x = q - a /\ x <= L /\ x # L /\ p - a = x + 1
      BY <1>2, <2>1, <2>2, <2>5
    <3>2. r.bytes[p].left = IF L - x = 1 THEN MAX_MSG_LENGTH ELSE L - x - 1
      BY <2>1, <2>6, <2>7, <3>1
    <3>3. x + 1 <= L /\ (L - x = 1 <=> x + 1 = L) /\ L - x - 1 = L - (x + 1)
      BY <1>2, <3>1
    <3> QED BY <3>1, <3>2, <3>3
  <2>9. PayloadOf(r)[p] = Append(PayloadOf(r)[q], r.bytes[p].byte)
    <3>1. p \in 1 .. Len(r.bytes) /\ p - 1 = q
      BY <1>1, <2>1
    <3> QED BY <2>1, <2>7, <3>1, PayloadFacts
  <2>10. \A x \in a .. e : \A j \in 1 .. (x - a) : r.bytes[a + j].byte \in Byte
    <3>1. ASSUME NEW x \in a .. e, NEW j \in 1 .. (x - a) PROVE r.bytes[a + j].byte \in Byte
      <4>1. a + j \in 1 .. Len(r.bytes)
        BY <1>1
      <4> QED BY <4>1, BytesOf
    <3> QED BY <3>1
  <2>11. Span(r, a, q) \in Seq(Byte) /\ Span(r, a, p) = Append(Span(r, a, q), r.bytes[p].byte)
    <3>1. PICK n \in Nat : n = q - a /\ n + 1 = p - a /\ a + (n + 1) = p
      <4>1. q - a \in Nat /\ (q - a) + 1 = p - a /\ a + ((q - a) + 1) = p
        BY <2>1, SMTT(30)
      <4> QED BY <4>1
    <3>2. \A j \in 1 .. n : r.bytes[a + j].byte \in Byte
      <4>1. q \in a .. e
        BY <2>1
      <4> QED BY <2>10, <3>1, <4>1
    <3>3. Span(r, a, q) = [j \in 1 .. n |-> r.bytes[a + j].byte]
      BY <3>1 DEF Span
    <3>4. Span(r, a, p) = [j \in 1 .. (n + 1) |-> r.bytes[a + j].byte]
      BY <3>1 DEF Span
    <3>5. Span(r, a, q) \in Seq(Byte) /\ Len(Span(r, a, q)) = n
      BY <3>2, <3>3
    <3> QED BY <3>1, <3>3, <3>4, <3>5
  <2>12. PayloadOf(r)[a] \in Seq(Byte) /\ r.bytes[p].byte \in Byte
    <3>1. a \in 0 .. Len(r.bytes) /\ p \in 1 .. Len(r.bytes)
      BY <1>1
    <3> QED BY <3>1, PayloadFacts, BytesOf
  <2>13. PayloadOf(r)[p] = PayloadOf(r)[a] \o Span(r, a, p)
    <3>1. ASSUME NEW s \in Seq(Byte), NEW t \in Seq(Byte), NEW b \in Byte
          PROVE  Append(s \o t, b) = s \o Append(t, b)
      <4>1. <<b>> \in Seq(Byte) /\ Append(t, b) = t \o <<b>>
        OBVIOUS
      <4>2. s \o t \in Seq(Byte)
        BY ConcatProperties
      <4>3. Append(s \o t, b) = (s \o t) \o <<b>>
        BY <4>2
      <4> QED BY <4>1, <4>3, ConcatAssociative
    <3>2. PICK s, t \in Seq(Byte), b \in Byte :
             s = PayloadOf(r)[a] /\ t = Span(r, a, q) /\ b = r.bytes[p].byte
      BY <2>11, <2>12
    <3>3. PayloadOf(r)[p] = Append(s \o t, b)
      BY <2>2, <2>9, <3>2
    <3>4. Span(r, a, p) = Append(t, b)
      BY <2>11, <3>2
    <3>5. Append(s \o t, b) = s \o Append(t, b)
      BY <3>1
    <3> QED BY <3>2, <3>3, <3>4, <3>5, Zenon
  <2>14. p \in a .. e /\ r.bytes[p].payload
    BY <2>1, <2>7
  <2> QED BY <2>8, <2>13, <2>14, Zenon DEF T
<1> HIDE DEF T
<1>6. e \in T
  <2>1. e \in a .. e
    OBVIOUS
  <2>2. \A p \in a .. e : p \in T
    BY <1>4, <1>5, Reached
  <2> QED BY <2>1, <2>2
<1> QED
  BY <1>2, <1>6 DEF T

\* The size of a chunk, whose digits are all there.
LEMMA SizeFacts ==
    ASSUME NEW r \in Responses, FollowsGrammar(r), NEW a \in Nat, NEW e \in Nat,
           HeadEnd(r) <= a, a < e, e <= Len(r.bytes),
           \A p \in (a + 1) .. e : r.bytes[p].byte \notin LineDelims,
           r.bytes[a].left = MAX_MSG_LENGTH,
           r.bytes[a].byte \in LineDelims \/ r.bytes[a].cut,
           r.bytes[e].cut \/ (e < Len(r.bytes) /\ r.bytes[e + 1].byte \in LineDelims)
    PROVE  /\ AllHex(Span(r, a, e))
           /\ stoull(Span(r, a, e)) \in SizeT /\ stoull(Span(r, a, e)) # MAX_MSG_LENGTH
           /\ r.bytes[e].left = stoull(Span(r, a, e))
           /\ PayloadOf(r)[e] = PayloadOf(r)[a]
<1>1. HeadEnd(r) \in Nat /\ HeadEnd(r) >= 6 /\ Len(r.bytes) \in Nat
  BY BlankLineFacts
<1>2. PICK q \in (a + 1) .. Len(r.bytes) : SizeRule(r, a, q)
  <2>1. BodyRule(r, a)
    BY <1>1, BodyRules
  <2>2. r.bytes[a + 1].byte \notin LineDelims
    OBVIOUS
  <2> QED BY <2>1, <2>2 DEF BodyRule
<1>3. /\ \A j \in 1 .. (q - a) : Span(r, a, q)[j] \in DOMAIN HexDigit /\ ~r.bytes[a + j].payload
      /\ \A j \in (a + 1) .. (q - 1) : r.bytes[j].left = MAX_MSG_LENGTH
      /\ r.bytes[q].left = stoull(Span(r, a, q)) /\ stoull(Span(r, a, q)) # MAX_MSG_LENGTH
      /\ q < Len(r.bytes) => r.bytes[q + 1].byte \in LineDelims
  BY <1>2 DEF SizeRule, Span
<1>4. ~(q < e)
  <2>1. SUFFICES ASSUME q < e PROVE FALSE
    OBVIOUS
  <2>2. q + 1 \in (a + 1) .. e /\ q < Len(r.bytes)
    BY <1>1, <2>1
  <2> QED BY <1>3, <2>2
<1>5. ~(e < q)
  <2>1. SUFFICES ASSUME e < q PROVE FALSE
    OBVIOUS
  <2>2. PICK j \in 1 .. (q - a) : e + 1 = a + j
    <3>1. e + 1 - a \in 1 .. (q - a) /\ e + 1 = a + (e + 1 - a)
      BY <2>1
    <3> QED BY <3>1
  <2>3. r.bytes[e + 1].byte \notin LineDelims
    <3>1. Span(r, a, q)[j] = r.bytes[e + 1].byte
      BY <2>2 DEF Span
    <3> QED BY <1>3, <3>1, SpecialBytes
  <2>4. e \in (a + 1) .. (q - 1) /\ e < Len(r.bytes) /\ e >= HeadEnd(r)
    BY <1>1, <2>1
  <2>5. r.bytes[e].left = MAX_MSG_LENGTH /\ r.bytes[e].byte \notin LineDelims
    BY <1>3, <2>4
  <2>6. BodyRule(r, e)
    BY <2>4, BodyRules
  <2>7. ~r.bytes[e].cut
    BY <2>3, <2>5, <2>6 DEF BodyRule
  <2> QED BY <2>3, <2>7
<1>6. q = e
  BY <1>1, <1>4, <1>5
<1>7. AllHex(Span(r, a, e))
  <2>1. e - a \in Nat /\ Len(Span(r, a, e)) = e - a
    BY DEF Span
  <2> QED BY <1>3, <1>6, <2>1 DEF AllHex
<1>8. r.bytes[e].left \in SizeT
  <2>1. e \in 1 .. Len(r.bytes)
    BY <1>1
  <2> QED BY <2>1, BytesOf
<1>9. PayloadOf(r)[e] = PayloadOf(r)[a]
  <2>1. ASSUME NEW p \in (a + 1) .. e PROVE ~r.bytes[p].payload
    <3>1. p - a \in 1 .. (q - a) /\ a + (p - a) = p
      BY <1>6
    <3> QED BY <1>3, <3>1
  <2> QED BY <2>1, NoPayload
<1> QED
  BY <1>3, <1>6, <1>7, <1>8, <1>9

\* Behind the last chunk there are only line breaks.
LEMMA EndFacts ==
    ASSUME NEW r \in Responses, FollowsGrammar(r), NEW a \in Nat,
           HeadEnd(r) <= a, a < Len(r.bytes), r.bytes[a].left = 0, MAX_MSG_LENGTH # 0
    PROVE  r.bytes[a + 1].byte \in LineDelims
<1>1. BodyRule(r, a)
  BY BodyRules
<1> QED
  BY <1>1 DEF BodyRule

-----------------------------------------------------------------------------
(* Lines of a regular response.                                             *)

\* What was written to the message is the last piece that arrived.
HoldsPiece ==
    /\ msg.m_writeIndex <= arrived
    /\ \A j \in 0 .. (msg.m_writeIndex - 1) :
         msg.m_buffer[j] = response.bytes[arrived - msg.m_writeIndex + j + 1].byte

\* How far the parser has read the response.
Behind == arrived - msg.m_writeIndex + msg.m_readIndex

\* Nothing of the body has been parsed.
Fresh == data = <<>> /\ remainingSz = MAX_MSG_LENGTH

\* The body has been parsed up to position p.
ParsedTo(p) == /\ p >= HeadEnd(response)
               /\ data = PayloadOf(response)[p] /\ remainingSz = response.bytes[p].left

HeadParsed == header = response.header /\ meta = FieldsOf(response, Len(response.lines))

GrammarInv ==
    /\ first => arrived = 0 /\ pc = "idle" /\ ~skipped /\ Fresh
    /\ arrived = 0 => pc = "idle" /\ (first \/ done)
    /\ arrived > 0 => /\ response.bytes[arrived].cut /\ arrived >= HeadEnd(response)
                      /\ MAX_MSG_LENGTH # 0
    /\ pc \in {"header", "fields", "fragment"} => HoldsPiece
    /\ pc \in {"header", "fields"} => msg.m_writeIndex = arrived /\ ~skipped /\ Fresh
    /\ pc = "header" => msg.m_readIndex = 0 /\ meta = EmptyMeta
    /\ pc = "fields" =>
         /\ header = response.header
         /\ \E i \in 1 .. (Len(response.lines) + 1) :
              msg.m_readIndex = LineStart(response, i) /\ meta = FieldsOf(response, i - 1)
    /\ pc = "fragment" =>
         /\ ParsedTo(Behind) /\ (skipped \/ HeadParsed)
         /\ response.bytes[Behind].byte \in LineDelims \/ response.bytes[Behind].cut
         /\ endOfData = (response.bytes[Behind].left = 0)
    /\ pc = "idle" /\ arrived > 0 =>
         /\ ParsedTo(arrived) /\ (skipped \/ HeadParsed)
         /\ done = (response.bytes[arrived].left = 0)

\* Of the bytes before position top, the line behind position a ends at e and
\* the delimiters that follow it at z.
IsLine(r, D, a, e, z, top) ==
    /\ a <= e /\ e <= z /\ z <= top
    /\ \A p \in (a + 1) .. e : r.bytes[p].byte \notin D
    /\ \A p \in (e + 1) .. z : r.bytes[p].byte \in D
    /\ e < top => r.bytes[e + 1].byte \in D
    /\ z < top => r.bytes[z + 1].byte \notin D

\* readLine, in positions of the response, as long as it reads what was written.
LEMMA LineSpan ==
    ASSUME Inv, HoldsPiece, NEW D, D \subseteq Byte,
           ~(readLine(msg, D).self.m_readIndex > msg.m_writeIndex)
    PROVE  LET r == readLine(msg, D)
           IN  /\ Behind \in Nat
               /\ \E e, z \in Nat :
                    /\ IsLine(response, D, Behind, e, z, arrived)
                    /\ r.self = ReadAt(msg, z - (arrived - msg.m_writeIndex))
                    /\ r.out = Span(response, Behind, e)
                    /\ MoreLines(r) <=> (z < arrived \/ Behind < e)
<1> DEFINE r == readLine(msg, D)
<1>1. WellFormed(msg)
  BY DEF Inv
<1>2. PICK sz, from, gap \in Nat :
          /\ sz = msg.m_writeIndex /\ from = msg.m_readIndex /\ gap = arrived - msg.m_writeIndex
          /\ arrived = gap + sz /\ arrived \in Nat /\ sz < SizeMod
          /\ sz <= msg.m_bufferSz /\ msg.m_bufferSz \in Nat
  <2>1. response.bytes \in Seq(Tagged)
    BY ResponseAssumption DEF Inv, TypeOK
  <2>2. arrived \in Nat
    BY <2>1, LenProperties DEF Inv, TypeOK
  <2>3. /\ msg.m_writeIndex \in Nat /\ msg.m_readIndex \in Nat /\ msg.m_bufferSz \in Nat
        /\ msg.m_writeIndex <= msg.m_bufferSz /\ msg.m_writeIndex < SizeMod
    BY <1>1, Fields
  <2>4. msg.m_writeIndex <= arrived
    BY DEF HoldsPiece
  <2>5. arrived - msg.m_writeIndex \in Nat /\ arrived = (arrived - msg.m_writeIndex) + msg.m_writeIndex
    BY <2>2, <2>3, <2>4
  <2> QED BY <2>2, <2>3, <2>4, <2>5
<1>3. Behind = gap + from
  BY <1>2 DEF Behind
<1>4. PICK eol, next \in Nat :
          /\ from <= eol /\ eol <= next /\ next <= sz
          /\ \A q \in from .. (eol - 1) : msg.m_buffer[q] \notin D
          /\ \A q \in eol .. (next - 1) : msg.m_buffer[q] \in D
          /\ eol < sz => msg.m_buffer[eol] \in D
          /\ next < sz => msg.m_buffer[next] \notin D
          /\ r.self = ReadAt(msg, next)
          /\ r.out = Peek(msg.m_buffer, from, eol - from)
  <2>1. PICK eol, next \in Nat :
          /\ from <= eol /\ eol <= next
          /\ \A q \in from .. (eol - 1) : msg.m_buffer[q] \notin D
          /\ \A q \in eol .. (next - 1) : msg.m_buffer[q] \in D
          /\ eol < msg.m_bufferSz => msg.m_buffer[eol] \in D
          /\ next < msg.m_bufferSz => msg.m_buffer[next] \notin D
          /\ r.self = ReadAt(msg, next)
          /\ r.out = Peek(msg.m_buffer, from, eol - from)
    BY <1>1, <1>2, ReadLineFacts
  <2>2. r.self.m_readIndex = next
    <3> HIDE DEF r
    <3> QED BY <2>1 DEF ReadAt, Buffer
  <2>3. next <= sz
    BY <1>2, <2>2
  <2> QED BY <1>2, <2>1, <2>3
<1>5. r.ok = (next < sz)
  <2>1. PICK last \in Nat : r.self = ReadAt(msg, last) /\ r.ok = (Sub(msg.m_writeIndex, last) > 0)
    BY <1>1, ReadLineAdvances
  <2>2. last = next
    <3>1. r.self.m_readIndex = last /\ r.self.m_readIndex = next
      <4> HIDE DEF r
      <4> QED BY <1>4, <2>1 DEF ReadAt, Buffer
    <3> QED BY <3>1
  <2>3. Sub(msg.m_writeIndex, last) = sz - next
    BY <1>2, <1>4, <2>2, SubFacts
  <2>4. (sz - next > 0) = (next < sz)
    BY <1>4
  <2> QED BY <2>1, <2>3, <2>4
<1> HIDE DEF r
<1>6. ASSUME NEW q \in 0 .. (sz - 1) PROVE msg.m_buffer[q] = response.bytes[gap + q + 1].byte
  BY <1>2 DEF HoldsPiece
<1>7. PICK e, z \in Nat : e = gap + eol /\ z = gap + next
  OBVIOUS
<1>8. Behind \in Nat /\ Behind <= e /\ e <= z /\ z <= arrived
  <2>1. from <= eol /\ eol <= next /\ next <= sz
    BY <1>4
  <2>2. arrived = gap + sz
    BY <1>2
  <2> QED BY <1>3, <1>7, <2>1, <2>2
<1>9. ASSUME NEW p \in (Behind + 1) .. e PROVE response.bytes[p].byte \notin D
  <2>1. PICK q \in from .. (eol - 1) : p = gap + q + 1
    <3>1. p - gap - 1 \in from .. (eol - 1) /\ p = gap + (p - gap - 1) + 1
      BY <1>3, <1>7
    <3> QED BY <3>1
  <2>2. q \in 0 .. (sz - 1)
    BY <1>4, <2>1
  <2> QED BY <1>4, <1>6, <2>1, <2>2
<1>10. ASSUME NEW p \in (e + 1) .. z PROVE response.bytes[p].byte \in D
  <2>1. PICK q \in eol .. (next - 1) : p = gap + q + 1
    <3>1. p - gap - 1 \in eol .. (next - 1) /\ p = gap + (p - gap - 1) + 1
      BY <1>7
    <3> QED BY <3>1
  <2>2. q \in 0 .. (sz - 1)
    BY <1>4, <2>1
  <2> QED BY <1>4, <1>6, <2>1, <2>2
<1>11. e < arrived => response.bytes[e + 1].byte \in D
  <2>1. SUFFICES ASSUME e < arrived PROVE response.bytes[e + 1].byte \in D
    OBVIOUS
  <2>2. eol < sz /\ eol \in 0 .. (sz - 1) /\ e + 1 = gap + eol + 1
    BY <1>2, <1>7, <2>1
  <2> QED BY <1>4, <1>6, <2>2
<1>12. z < arrived => response.bytes[z + 1].byte \notin D
  <2>1. SUFFICES ASSUME z < arrived PROVE response.bytes[z + 1].byte \notin D
    OBVIOUS
  <2>2. next < sz /\ next \in 0 .. (sz - 1) /\ z + 1 = gap + next + 1
    BY <1>2, <1>7, <2>1
  <2> QED BY <1>4, <1>6, <2>2
<1>13. r.self = ReadAt(msg, z - (arrived - msg.m_writeIndex))
  <2>1. z - (arrived - msg.m_writeIndex) = next
    BY <1>2, <1>7
  <2> QED BY <1>4, <2>1
<1>14. r.out = Span(response, Behind, e) /\ (r.out = <<>> <=> ~(Behind < e))
  <2>1. PICK n \in Nat : n = eol - from /\ n = e - Behind
    <3>1. eol - from \in Nat /\ eol - from = e - Behind
      BY <1>3, <1>4, <1>7
    <3> QED BY <3>1
  <2>2. ASSUME NEW j \in 1 .. n
        PROVE  msg.m_buffer[from + j - 1] = response.bytes[Behind + j].byte
    <3>1. from + j - 1 \in 0 .. (sz - 1) /\ gap + (from + j - 1) + 1 = Behind + j
      BY <1>3, <1>4, <2>1
    <3> QED BY <1>6, <3>1
  <2>3. r.out = [j \in 1 .. n |-> response.bytes[Behind + j].byte]
    BY <1>4, <2>1, <2>2 DEF Peek
  <2>4. Len([j \in 1 .. n |-> response.bytes[Behind + j].byte]) = n
    OBVIOUS
  <2>5. n = 0 <=> ~(Behind < e)
    BY <1>8, <2>1
  <2>6. Len(<<>>) = 0
    OBVIOUS
  <2>7. n = 0 => [j \in 1 .. n |-> response.bytes[Behind + j].byte] = <<>>
    OBVIOUS
  <2>8. r.out = <<>> <=> n = 0
    BY <2>3, <2>4, <2>6, <2>7
  <2> QED BY <2>1, <2>3, <2>5, <2>8 DEF Span
<1>15. MoreLines(r) <=> (z < arrived \/ Behind < e)
  <2>1. r.ok <=> z < arrived
    <3>1. (next < sz) <=> (z < arrived)
      BY <1>2, <1>7
    <3> QED BY <1>5, <3>1, Zenon
  <2> QED BY <1>14, <2>1 DEF MoreLines
<1>16. IsLine(response, D, Behind, e, z, arrived)
  BY <1>8, <1>9, <1>10, <1>11, <1>12 DEF IsLine
<1> QED
  BY <1>8, <1>13, <1>14, <1>15, <1>16 DEF r

\* A line that does not end beyond what was written.
LEMMA ReadsWritten ==
    ASSUME Inv, NEW D, D \subseteq Byte, msg' = readLine(msg, D).self, ~Overread'
    PROVE  ~(readLine(msg, D).self.m_readIndex > msg.m_writeIndex)
  BY LineReadAdvances DEF Overread

\* Reading on does not change what the message holds.
LEMMA ReadingOn ==
    ASSUME Inv, HoldsPiece, NEW z \in Nat, UNCHANGED <<response, arrived>>,
           msg' = ReadAt(msg, z - (arrived - msg.m_writeIndex))
    PROVE  HoldsPiece' /\ Behind' = z /\ msg'.m_writeIndex = msg.m_writeIndex
           /\ msg'.m_readIndex = z - (arrived - msg.m_writeIndex)
<1>1. /\ msg'.m_writeIndex = msg.m_writeIndex /\ msg'.m_buffer = msg.m_buffer
      /\ msg'.m_writeIndex = msg.m_writeIndex
      /\ msg'.m_readIndex = z - (arrived - msg.m_writeIndex)
  BY DEF ReadAt, Buffer
<1>2. HoldsPiece'
  BY <1>1 DEF HoldsPiece
<1>3. arrived \in Nat /\ msg.m_writeIndex \in Nat
  <2>1. response.bytes \in Seq(Tagged)
    BY ResponseAssumption DEF Inv, TypeOK
  <2>2. arrived \in Nat
    BY <2>1, LenProperties DEF Inv, TypeOK
  <2>3. msg.m_writeIndex \in Nat
    BY Fields DEF Inv
  <2> QED BY <2>2, <2>3
<1>4. Behind' = z
  BY <1>1, <1>3 DEF Behind
<1> QED
  BY <1>1, <1>2, <1>4

\* The first of the fields 1 .. n with a name.
IsFirst(r, j, key) == /\ to_upper(r.lines[j].name) = key
                      /\ \A k \in 1 .. (j - 1) : to_upper(r.lines[k].name) # key
FirstNamed(r, n, key) == CHOOSE j \in 1 .. n : IsFirst(r, j, key)

LEMMA FirstNamedFacts ==
    ASSUME NEW r, NEW n \in Nat, NEW key, NEW i \in 1 .. n, to_upper(r.lines[i].name) = key
    PROVE  FirstNamed(r, n, key) \in 1 .. n /\ IsFirst(r, FirstNamed(r, n, key), key)
<1> DEFINE Is(j) == to_upper(r.lines[j].name) = key
           T == {j \in 1 .. n : Is(j)}
<1>1. T \subseteq Nat /\ T # {}
  OBVIOUS
<1> HIDE DEF Is
<1>2. PICK j \in T : \A k \in T : ~(<<k, j>> \in OpToRel(<, Nat))
  BY <1>1, WFMin, NatLessThanWellFounded
<1>3. \A k \in T : ~(k < j)
  BY <1>1, <1>2 DEF OpToRel
<1>4. ASSUME NEW k \in 1 .. (j - 1) PROVE ~Is(k)
  <2>1. k \in 1 .. n /\ k < j
    BY <1>1
  <2> QED BY <1>3, <2>1
<1>5. j \in 1 .. n /\ IsFirst(r, j, key)
  BY <1>4 DEF IsFirst, Is
<1> QED
  BY <1>5 DEF FirstNamed

\* There is only one first field with a name.
LEMMA FirstNamedIs ==
    ASSUME NEW r, NEW n \in Nat, NEW key, NEW i \in 1 .. n, IsFirst(r, i, key)
    PROVE  FirstNamed(r, n, key) = i
<1>1. ASSUME NEW j \in 1 .. n, IsFirst(r, j, key) PROVE j = i
  <2>1. j < i => j \in 1 .. (i - 1)
    OBVIOUS
  <2>2. i < j => i \in 1 .. (j - 1)
    OBVIOUS
  <2>3. ~(j < i) /\ ~(i < j)
    BY <1>1, <2>1, <2>2 DEF IsFirst
  <2> QED BY <2>3
<1> QED
  BY <1>1 DEF FirstNamed

\* The fields grow as emplace lets them grow.
LEMMA FieldAdded ==
    ASSUME NEW r, NEW n \in Nat
    PROVE  /\ FieldsOf(r, 0) = EmptyMeta
           /\ FieldsOf(r, n + 1) = Emplaced(FieldsOf(r, n), to_upper(r.lines[n + 1].name),
                                            r.lines[n + 1].value)
<1> DEFINE name(j) == to_upper(r.lines[j].name)
           Names(m) == {name(j) : j \in 1 .. m}
           Of(m) == [key \in Names(m) |-> r.lines[FirstNamed(r, m, key)].value]
           m0 == Of(n)
           added == [key \in Names(n) \cup {name(n + 1)} |->
                       IF key \in Names(n) THEN m0[key] ELSE r.lines[n + 1].value]
<1>1. \A m : FieldsOf(r, m) = Of(m)
  BY DEF FieldsOf, FirstNamed, IsFirst
<1>2. Of(0) = EmptyMeta
  <2>1. Names(0) = {}
    OBVIOUS
  <2> HIDE DEF Names
  <2> QED BY <2>1 DEF EmptyMeta
<1>3. Emplaced(m0, name(n + 1), r.lines[n + 1].value) = added
  <2> HIDE DEF Names, name
  <2>1. DOMAIN m0 = Names(n)
    OBVIOUS
  <2> HIDE DEF m0
  <2> QED BY <2>1 DEF Emplaced
<1>4. Names(n + 1) = Names(n) \cup {name(n + 1)}
  <2>1. 1 .. (n + 1) = (1 .. n) \cup {n + 1}
    OBVIOUS
  <2> HIDE DEF name
  <2> QED BY <2>1
<1>5. ASSUME NEW key \in Names(n)
      PROVE  Of(n + 1)[key] = m0[key]
  <2>1. PICK i \in 1 .. n : name(i) = key
    OBVIOUS
  <2>2. PICK f \in 1 .. n : f = FirstNamed(r, n, key) /\ IsFirst(r, f, key)
    BY <2>1, FirstNamedFacts
  <2>3. FirstNamed(r, n + 1, key) = f
    <3>1. f \in 1 .. (n + 1) /\ n + 1 \in Nat
      OBVIOUS
    <3> QED BY <2>2, <3>1, FirstNamedIs
  <2>4. key \in Names(n + 1)
    BY <1>4
  <2> HIDE DEF Names, name
  <2> QED BY <2>2, <2>3, <2>4
<1>6. ASSUME name(n + 1) \notin Names(n)
      PROVE  Of(n + 1)[name(n + 1)] = r.lines[n + 1].value
  <2>1. \A k \in 1 .. n : name(k) # name(n + 1)
    BY <1>6
  <2>2. FirstNamed(r, n + 1, name(n + 1)) = n + 1
    <3>1. n + 1 \in 1 .. (n + 1) /\ n + 1 \in Nat /\ (n + 1) - 1 = n
      OBVIOUS
    <3>2. IsFirst(r, n + 1, name(n + 1))
      BY <2>1, <3>1 DEF IsFirst
    <3> QED BY <3>1, <3>2, FirstNamedIs
  <2>3. name(n + 1) \in Names(n + 1)
    BY <1>4
  <2> HIDE DEF Names, name
  <2> QED BY <2>2, <2>3
<1>7. Of(n + 1) = added
  <2>1. ASSUME NEW key \in Names(n + 1) PROVE Of(n + 1)[key] = added[key]
    <3>1. key \in Names(n) \cup {name(n + 1)}
      BY <1>4
    <3> HIDE DEF Names, name, m0, Of
    <3>2. added[key] = IF key \in Names(n) THEN m0[key] ELSE r.lines[n + 1].value
      BY <3>1
    <3>3. CASE key \in Names(n)
      BY <1>5, <3>2, <3>3
    <3>4. CASE key \notin Names(n)
      <4>1. key = name(n + 1)
        BY <3>1, <3>4
      <4> QED BY <1>6, <3>2, <3>4, <4>1
    <3> QED BY <3>3, <3>4
  <2>2. DOMAIN Of(n + 1) = Names(n + 1) /\ DOMAIN added = Names(n + 1)
    <3> HIDE DEF Names, name, m0
    <3> QED BY <1>4
  <2>3. Of(n + 1) = [key \in Names(n + 1) |-> Of(n + 1)[key]]
    <3> HIDE DEF Names
    <3> QED OBVIOUS
  <2>4. added = [key \in Names(n + 1) |-> added[key]]
    <3> HIDE DEF Names, name, m0
    <3> QED BY <1>4
  <2> HIDE DEF Of, added, Names
  <2> QED BY <2>1, <2>3, <2>4
<1> HIDE DEF Of, added
<1> QED
  BY <1>1, <1>2, <1>3, <1>7

\* The line of a field.
LEMMA FieldLine ==
    ASSUME NEW r \in Responses, FollowsGrammar(r), NEW i \in 1 .. Len(r.lines)
    PROVE  LET line == Span(r, LineStart(r, i), LineStart(r, i + 1) - 1)
           IN  /\ line \notin {<<>>, <<CR>>} /\ IsField(line)
               /\ ColonAt(line) + 2 <= Len(line) /\ ~(ColonAt(line) + 2 > Len(line))
               /\ Key(line) = to_upper(r.lines[i].name)
               /\ Value(line) = r.lines[i].value
<1>1. PICK from \in Nat : from = LineStart(r, i)
  <2>1. i \in 1 .. (Len(r.lines) + 1)
    BY LineStarts
  <2> QED BY <2>1, LineStarts
<1>2. PICK name, value \in Seq(Byte) : name = r.lines[i].name /\ value = r.lines[i].value
  BY <1>1, FieldText
<1>3. PICK n, v \in Nat : n = Len(name) /\ v = Len(value)
  OBVIOUS
<1>4. LineStart(r, i + 1) = from + n + v + 4
  BY <1>1, <1>2, <1>3, FieldText
<1>5. \A j \in 1 .. n : r.bytes[from + j].byte = name[j] /\ name[j] # Colon
  BY <1>1, <1>2, <1>3, FieldText
<1>6. r.bytes[from + n + 1].byte = Colon
  BY <1>1, <1>2, <1>3, FieldText
<1>7. \A j \in 1 .. v : r.bytes[from + n + 2 + j].byte = value[j]
  BY <1>1, <1>2, <1>3, FieldText
<1> DEFINE line == [j \in 1 .. (n + v + 3) |-> r.bytes[from + j].byte]
<1>8. Span(r, LineStart(r, i), LineStart(r, i + 1) - 1) = line
  <2>1. (from + n + v + 4) - 1 - from = n + v + 3
    OBVIOUS
  <2> QED BY <1>1, <1>4, <2>1 DEF Span
<1>9. Len(line) = n + v + 3 /\ \A j \in 1 .. (n + v + 3) : line[j] = r.bytes[from + j].byte
  OBVIOUS
<1> HIDE DEF line
<1>10. line \notin {<<>>, <<CR>>}
  <2>1. Len(<<>>) = 0 /\ Len(<<CR>>) = 1 /\ n + v + 3 # 0 /\ n + v + 3 # 1
    OBVIOUS
  <2> QED BY <1>9, <2>1
<1>11. n + 1 \in 1 .. Len(line) /\ line[n + 1] = Colon
  <2>1. n + 1 \in 1 .. (n + v + 3) /\ from + (n + 1) = from + n + 1
    OBVIOUS
  <2>2. line[n + 1] = r.bytes[from + (n + 1)].byte
    BY <1>9, <2>1
  <2> QED BY <1>6, <1>9, <2>1, <2>2
<1>12. \A j \in 1 .. n : line[j] = name[j] /\ line[j] # Colon
  <2>1. \A j \in 1 .. n : j \in 1 .. (n + v + 3)
    OBVIOUS
  <2> QED BY <1>5, <1>9, <2>1
<1>13. ColonAt(line) = n
  <2> DEFINE First(j) == line[j] = Colon /\ \A k \in 1 .. (j - 1) : line[k] # Colon
  <2>1. First(n + 1)
    <3>1. (n + 1) - 1 = n
      OBVIOUS
    <3> QED BY <1>11, <1>12, <3>1
  <2>2. ASSUME NEW j \in 1 .. Len(line), First(j) PROVE j = n + 1
    <3>1. ~(j < n + 1)
      <4>1. j < n + 1 => j \in 1 .. n
        OBVIOUS
      <4> QED BY <1>12, <2>2, <4>1
    <3>2. ~(n + 1 < j)
      <4>1. n + 1 < j => n + 1 \in 1 .. (j - 1)
        OBVIOUS
      <4> QED BY <1>11, <2>2, <4>1
    <3>3. j \in Int /\ n + 1 \in Int
      BY <1>9
    <3> QED BY <3>1, <3>2, <3>3
  <2>3. ColonAt(line) = (CHOOSE j \in 1 .. Len(line) : First(j)) - 1
    BY DEF ColonAt
  <2> HIDE DEF First
  <2>4. (CHOOSE j \in 1 .. Len(line) : First(j)) = n + 1
    BY <1>11, <2>1, <2>2
  <2>5. (n + 1) - 1 = n
    OBVIOUS
  <2>6. ColonAt(line) = (n + 1) - 1
    BY <2>3, <2>4
  <2> QED BY <2>5, <2>6
<1>14. IsField(line)
  BY <1>11 DEF IsField
<1>15. SubSeq(line, 1, n) = name
  <2>1. \A j \in 1 .. n : line[j] \in Byte
    BY <1>3, <1>12, ElementOfSeq
  <2>2. 1 \in Int /\ n \in Int
    OBVIOUS
  <2>3. PICK s \in Seq(Byte) : /\ s = SubSeq(line, 1, n) /\ Len(s) = IF 1 <= n THEN n - 1 + 1 ELSE 0
                               /\ \A j \in 1 .. (n - 1 + 1) : s[j] = line[1 + j - 1]
    <3>1. /\ SubSeq(line, 1, n) \in Seq(Byte)
          /\ Len(SubSeq(line, 1, n)) = IF 1 <= n THEN n - 1 + 1 ELSE 0
          /\ \A j \in 1 .. (n - 1 + 1) : SubSeq(line, 1, n)[j] = line[1 + j - 1]
      BY <2>1, <2>2, SubSeqProperties
    <3> QED BY <3>1
  <2>4. Len(s) = n /\ \A j \in 1 .. n : s[j] = line[j]
    <3>1. n - 1 + 1 = n /\ \A j \in 1 .. n : 1 + j - 1 = j
      OBVIOUS
    <3> QED BY <2>3, <3>1
  <2> QED BY <1>3, <1>12, <2>3, <2>4, SeqEqual
<1>16. SubSeq(line, n + 3, Len(line) - 1) = value
  <2>1. ASSUME NEW j \in 1 .. v PROVE line[n + 3 + j - 1] = value[j]
    <3>1. n + 3 + j - 1 \in 1 .. (n + v + 3) /\ from + (n + 3 + j - 1) = from + n + 2 + j
      OBVIOUS
    <3> QED BY <1>7, <1>9, <3>1
  <2>2. ASSUME NEW k \in (n + 3) .. (n + v + 2) PROVE line[k] \in Byte
    <3>1. k - n - 2 \in 1 .. v /\ n + 3 + (k - n - 2) - 1 = k
      OBVIOUS
    <3>2. line[k] = value[k - n - 2]
      BY <2>1, <3>1
    <3>3. value[k - n - 2] \in Byte
      BY <1>3, <3>1, ElementOfSeq
    <3> QED BY <3>2, <3>3
  <2>3. n + 3 \in Int /\ n + v + 2 \in Int /\ (n + v + 2) - (n + 3) + 1 = v
    OBVIOUS
  <2>4. PICK s \in Seq(Byte) :
            /\ s = SubSeq(line, n + 3, n + v + 2)
            /\ Len(s) = IF n + 3 <= n + v + 2 THEN (n + v + 2) - (n + 3) + 1 ELSE 0
            /\ \A j \in 1 .. ((n + v + 2) - (n + 3) + 1) : s[j] = line[(n + 3) + j - 1]
    <3>1. PICK m, k \in Int : m = n + 3 /\ k = n + v + 2
      OBVIOUS
    <3>2. \A j \in m .. k : line[j] \in Byte
      BY <2>2, <3>1
    <3>3. /\ SubSeq(line, m, k) \in Seq(Byte)
          /\ Len(SubSeq(line, m, k)) = IF m <= k THEN k - m + 1 ELSE 0
          /\ \A j \in 1 .. (k - m + 1) : SubSeq(line, m, k)[j] = line[m + j - 1]
      BY <3>2, SubSeqProperties
    <3> QED BY <3>1, <3>3
  <2>5. Len(s) = v /\ \A j \in 1 .. v : s[j] = value[j]
    <3>1. n + 3 <= n + v + 2 \/ v = 0
      OBVIOUS
    <3> QED BY <2>1, <2>3, <2>4, <3>1
  <2>6. Len(line) - 1 = n + v + 2
    BY <1>9
  <2> QED BY <1>3, <2>4, <2>5, <2>6, SeqEqual
<1>17. Key(line) = to_upper(name)
  BY <1>13, <1>15 DEF Key
<1>18. Value(line) = value
  BY <1>13, <1>16 DEF Value
<1>19. ColonAt(line) + 2 <= Len(line) /\ ~(ColonAt(line) + 2 > Len(line))
  BY <1>9, <1>13
<1> QED
  BY <1>2, <1>8, <1>10, <1>14, <1>17, <1>18, <1>19

-----------------------------------------------------------------------------
(* What is read of a regular response.                                      *)

\* No field and no blank line starts with a delimiter of what is before it.
LEMMA FirstByte ==
    ASSUME NEW r \in Responses, FollowsGrammar(r), NEW i \in 1 .. (Len(r.lines) + 1)
    PROVE  /\ r.bytes[LineStart(r, i) + 1].byte # LF
           /\ i <= Len(r.lines) => r.bytes[LineStart(r, i) + 1].byte \notin LineDelims
<1>1. PICK k \in Nat : k = Len(r.lines)
  BY LineStarts
<1>2. CASE i = k + 1
  <2>1. LineStart(r, i) = HeadEnd(r)
    BY <1>1, <1>2 DEF HeadEnd
  <2>2. ~(i <= k)
    BY <1>2
  <2> QED BY <1>1, <2>1, <2>2, BlankLineFacts, SpecialBytes
<1>3. CASE i # k + 1
  <2>1. i \in 1 .. Len(r.lines)
    BY <1>1, <1>3
  <2>2. PICK from \in Nat : from = LineStart(r, i)
    BY LineStarts
  <2>3. PICK name \in Seq(Byte) : name = r.lines[i].name
    BY <2>1, <2>2, FieldText
  <2>4. PICK n \in Nat : n = Len(name)
    OBVIOUS
  <2>5. \A j \in 1 .. n : r.bytes[from + j].byte = name[j] /\ name[j] \notin LineDelims
    BY <2>1, <2>2, <2>3, <2>4, FieldText
  <2>6. r.bytes[from + n + 1].byte = Colon
    BY <2>1, <2>2, <2>3, <2>4, FieldText
  <2>7. r.bytes[from + 1].byte \notin LineDelims
    <3>1. CASE n = 0
      <4>1. from + n + 1 = from + 1
        BY <3>1
      <4> QED BY <2>6, <4>1, SpecialBytes
    <3>2. CASE n # 0
      <4>1. 1 \in 1 .. n
        BY <3>2
      <4> QED BY <2>5, <4>1
    <3> QED BY <3>1, <3>2
  <2> QED BY <2>2, <2>7, SpecialBytes
<1> QED
  BY <1>2, <1>3

LEMMA HeaderRead ==
    ASSUME NEW r \in Responses, FollowsGrammar(r), NEW e \in Nat, NEW z \in Nat, NEW top \in Nat,
           top >= HeadEnd(r), IsLine(r, LineDelims, 0, e, z, top)
    PROVE  z = LineStart(r, 1) /\ Span(r, 0, e) = r.header
<1>1. PICK n \in Nat : n = Len(r.header) /\ LineStart(r, 1) = n + 2
  BY HeaderText
<1>2. n + 2 <= top
  <2>1. 1 \in 1 .. (Len(r.lines) + 1)
    BY LineStarts
  <2>2. LineStart(r, 1) <= HeadEnd(r) /\ HeadEnd(r) \in Nat
    BY <2>1, LineStarts, BlankLineFacts
  <2> QED BY <1>1, <2>2
<1>3. /\ \A j \in 1 .. n : r.bytes[j].byte = r.header[j] /\ r.header[j] \notin LineDelims
      /\ r.bytes[n + 1].byte \in LineDelims /\ r.bytes[n + 2].byte \in LineDelims
  BY <1>1, HeaderText, SpecialBytes
<1>4. r.bytes[n + 3].byte \notin LineDelims
  <2>1. 1 \in 1 .. (Len(r.lines) + 1) /\ 1 <= Len(r.lines)
    BY LineStarts
  <2>2. LineStart(r, 1) + 1 = n + 3
    BY <1>1
  <2> QED BY <2>1, <2>2, FirstByte
<1>5. e = n
  <2>1. ~(e < n)
    <3>1. e < n => e + 1 \in 1 .. n /\ e < top
      BY <1>2
    <3> QED BY <1>3, <3>1 DEF IsLine
  <2>2. ~(n < e)
    <3>1. n < e => n + 1 \in (0 + 1) .. e
      OBVIOUS
    <3> QED BY <1>3, <3>1 DEF IsLine
  <2> QED BY <2>1, <2>2
<1>6. z = n + 2
  <2>1. ~(z < n + 2)
    <3>1. z < n + 2 => z < top /\ (z = n \/ z = n + 1)
      BY <1>2, <1>5 DEF IsLine
    <3>2. (n + 1) + 1 = n + 2
      OBVIOUS
    <3> QED BY <1>3, <3>1, <3>2 DEF IsLine
  <2>2. ~(n + 2 < z)
    <3>1. n + 2 < z => n + 3 \in (e + 1) .. z
      BY <1>5
    <3> QED BY <1>4, <3>1 DEF IsLine
  <2> QED BY <2>1, <2>2
<1>7. Span(r, 0, e) = r.header
  <2>1. e - 0 = n /\ \A j \in 1 .. n : 0 + j = j
    BY <1>5
  <2>2. Span(r, 0, e) = [j \in 1 .. n |-> r.header[j]]
    BY <1>3, <2>1 DEF Span
  <2>3. r.header \in Seq(Byte)
    BY BytesOf
  <2> QED BY <1>1, <2>2, <2>3
<1> QED
  BY <1>1, <1>6, <1>7

\* The line of a field ends where the field does.
LEMMA FieldRead ==
    ASSUME NEW r \in Responses, FollowsGrammar(r), NEW e \in Nat, NEW z \in Nat, NEW top \in Nat,
           NEW i \in 1 .. Len(r.lines), top >= HeadEnd(r),
           IsLine(r, {LF}, LineStart(r, i), e, z, top)
    PROVE  /\ z = LineStart(r, i + 1) /\ e = LineStart(r, i + 1) - 1
           /\ LineStart(r, i) < e
<1>1. PICK k \in Nat : k = Len(r.lines) /\ k >= 1 /\ i \in 1 .. (k + 1) /\ i + 1 \in 1 .. (k + 1)
  BY LineStarts
<1>2. PICK from, to \in Nat : /\ from = LineStart(r, i) /\ to = LineStart(r, i + 1)
                              /\ to >= from + 4 /\ to <= HeadEnd(r) /\ HeadEnd(r) \in Nat
  <2>1. i + 1 \in (i + 1) .. (k + 1)
    BY <1>1
  <2>2. LineStart(r, i) \in Nat /\ LineStart(r, i + 1) \in Nat /\ LineStart(r, i + 1) <= HeadEnd(r)
    BY <1>1, LineStarts
  <2>3. LineStart(r, i + 1) >= LineStart(r, i) + 4
    BY <1>1, <2>1, LineStarts
  <2> QED BY <2>2, <2>3, BlankLineFacts
<1>3. r.bytes[to].byte = LF
  <2>1. r.lines[i].name \in Seq(Byte) /\ r.lines[i].value \in Seq(Byte)
    BY <1>2, FieldText
  <2>2. PICK n, v \in Nat : n = Len(r.lines[i].name) /\ v = Len(r.lines[i].value)
    BY <2>1, LenProperties
  <2>3. to = from + n + v + 4 /\ r.bytes[from + n + 2 + v + 2].byte = LF
    BY <1>2, <2>2, FieldText
  <2>4. from + n + 2 + v + 2 = to
    BY <2>3
  <2> QED BY <2>3, <2>4
<1>4. ASSUME NEW p \in (from + 1) .. to, r.bytes[p].byte = LF PROVE p = to
  <2>1. p \in 1 .. HeadEnd(r)
    BY <1>2
  <2>2. PICK j \in 1 .. (k + 1) : p = LineStart(r, j)
    BY <1>1, <1>4, <2>1, LineFeeds
  <2>3. j > i
    <3>1. SUFFICES ASSUME j < i PROVE FALSE
      BY <1>2, <2>2
    <3>2. i \in (j + 1) .. (k + 1)
      BY <1>1, <3>1
    <3>3. LineStart(r, i) >= LineStart(r, j) + 4
      BY <1>1, <3>2, LineStarts
    <3> QED BY <1>2, <2>2, <3>3
  <2>4. j < i + 2
    <3>1. SUFFICES ASSUME j >= i + 2 PROVE FALSE
      OBVIOUS
    <3>2. j \in ((i + 1) + 1) .. (k + 1)
      BY <1>1, <3>1
    <3>3. LineStart(r, j) >= LineStart(r, i + 1) + 4
      BY <1>1, <3>2, LineStarts
    <3> QED BY <1>2, <2>2, <3>3
  <2>5. j = i + 1
    BY <2>3, <2>4
  <2> QED BY <1>2, <2>2, <2>5
<1>5. r.bytes[to + 1].byte # LF
  BY <1>1, <1>2, FirstByte
<1>6. from <= e /\ e <= z /\ z <= top /\ to <= top
  BY <1>2 DEF IsLine
<1>7. e = to - 1
  <2>1. ~(e >= to)
    <3>1. e >= to => to \in (from + 1) .. e
      BY <1>2
    <3> QED BY <1>2, <1>3, <3>1 DEF IsLine
  <2>2. e + 1 \in (from + 1) .. to /\ e < top
    BY <1>6, <2>1
  <2>3. r.bytes[e + 1].byte = LF
    BY <2>2 DEF IsLine
  <2>4. e + 1 = to
    BY <1>4, <2>2, <2>3
  <2> QED BY <2>4
<1>8. z = to
  <2>1. z # to - 1
    <3>1. z = to - 1 => z < top /\ z + 1 = to
      BY <1>6
    <3> QED BY <1>3, <3>1 DEF IsLine
  <2>2. ~(z > to)
    <3>1. z > to => to + 1 \in (e + 1) .. z
      BY <1>7
    <3> QED BY <1>5, <3>1 DEF IsLine
  <2> QED BY <1>6, <1>7, <2>1, <2>2
<1> QED
  BY <1>2, <1>7, <1>8

\* The blank line, which a cut may end early.
LEMMA BlankRead ==
    ASSUME NEW r \in Responses, FollowsGrammar(r), NEW e \in Nat, NEW z \in Nat, NEW top \in Nat,
           top >= HeadEnd(r), IsLine(r, {LF}, HeadEnd(r), e, z, top)
    PROVE  /\ Span(r, HeadEnd(r), e) \in {<<>>, <<CR>>}
           /\ HeadEnd(r) <= z /\ z <= top
           /\ \A p \in (HeadEnd(r) + 1) .. z : r.bytes[p].byte \in LineDelims
<1>1. PICK h \in Nat : /\ h = HeadEnd(r)
                       /\ r.bytes[h + 1].byte = CR /\ r.bytes[h + 2].byte = LF
  BY BlankLineFacts
<1>2. h <= e /\ e <= z /\ z <= top
  BY <1>1 DEF IsLine
<1>3. e = h \/ e = h + 1
  <2>1. ~(e >= h + 2)
    <3>1. e >= h + 2 => h + 2 \in (h + 1) .. e
      OBVIOUS
    <3> QED BY <1>1, <3>1 DEF IsLine
  <2> QED BY <1>2, <2>1
<1>4. Span(r, h, e) \in {<<>>, <<CR>>}
  <2>1. CASE e = h
    <3>1. Span(r, h, e) = <<>>
      BY <2>1 DEF Span
    <3> QED BY <3>1
  <2>2. CASE e = h + 1
    <3>1. e - h = 1
      BY <2>2
    <3>2. Span(r, h, e) = [j \in 1 .. 1 |-> r.bytes[h + j].byte]
      BY <3>1 DEF Span
    <3>3. [j \in 1 .. 1 |-> r.bytes[h + j].byte] = <<CR>>
      BY <1>1
    <3> QED BY <3>2, <3>3
  <2> QED BY <1>3, <2>1, <2>2
<1>5. ASSUME NEW p \in (h + 1) .. z PROVE r.bytes[p].byte \in LineDelims
  <2>1. CASE p <= e
    <3>1. p = h + 1
      BY <1>3, <2>1
    <3> QED BY <1>1, <3>1, SpecialBytes
  <2>2. CASE p > e
    <3>1. p \in (e + 1) .. z
      BY <2>2
    <3> QED BY <3>1, SpecialBytes DEF IsLine
  <2> QED BY <2>1, <2>2
<1> QED
  BY <1>1, <1>2, <1>4, <1>5

\* Behind the head, or within the blank line, nothing of the body is parsed.
LEMMA BodyStart ==
    ASSUME NEW r \in Responses, FollowsGrammar(r), NEW z \in Nat,
           HeadEnd(r) <= z, z <= Len(r.bytes),
           \A p \in (HeadEnd(r) + 1) .. z : r.bytes[p].byte \in LineDelims
    PROVE  /\ PayloadOf(r)[z] = <<>> /\ r.bytes[z].left = MAX_MSG_LENGTH
           /\ r.bytes[z].byte \in LineDelims
<1>1. PICK h \in Nat : h = HeadEnd(r) /\ h >= 6 /\ r.bytes[h].byte = LF /\ Len(r.bytes) \in Nat
  BY BlankLineFacts
<1>2. PayloadOf(r)[h] = <<>>
  <2>1. \A p \in (0 + 1) .. h : ~r.bytes[p].payload
    BY <1>1 DEF FollowsGrammar
  <2>2. 0 \in Nat /\ 0 <= h /\ h <= Len(r.bytes)
    BY <1>1
  <2>3. PayloadOf(r)[h] = PayloadOf(r)[0]
    BY <2>1, <2>2, NoPayload
  <2> QED BY <2>3, PayloadFacts
<1>3. r.bytes[h].left = MAX_MSG_LENGTH
  BY <1>1 DEF FollowsGrammar
<1>4. h <= h /\ h <= z /\ \A p \in (h + 1) .. z : r.bytes[p].byte \in LineDelims
  BY <1>1
<1>5. PayloadOf(r)[z] = PayloadOf(r)[h] /\ r.bytes[z].left = r.bytes[h].left
  BY <1>1, <1>4, BreakFacts
<1>6. r.bytes[z].byte \in LineDelims
  <2>1. z = h \/ z \in (h + 1) .. z
    BY <1>4
  <2> QED BY <1>1, <1>4, <2>1, SpecialBytes
<1> QED
  BY <1>2, <1>3, <1>5, <1>6

\* What was written to the buffer are the first bytes of the response.
Begins(b, r) == \A j \in 0 .. (b.m_writeIndex - 1) : b.m_buffer[j] = r.bytes[j + 1].byte

\* What skipToHttpData skips of a piece with the whole head is the head, and the
\* blank line as far as it has arrived, unless it skips what was not written.
LEMMA DataStartFacts ==
    ASSUME NEW r \in Responses, FollowsGrammar(r), NEW b, WellFormed(b),
           b.m_readIndex = 0, b.m_writeIndex >= HeadEnd(r), b.m_writeIndex <= Len(r.bytes),
           Begins(b, r), ~(DataStart(b) > b.m_writeIndex)
    PROVE  /\ DataStart(b) \in Nat
           /\ HeadEnd(r) <= DataStart(b) /\ DataStart(b) <= b.m_writeIndex
           /\ \A p \in (HeadEnd(r) + 1) .. DataStart(b) : r.bytes[p].byte \in LineDelims
<1>1. PICK h, n \in Nat :
          /\ h = HeadEnd(r) /\ h >= 6 /\ n = b.m_writeIndex /\ h <= n /\ n <= b.m_bufferSz
          /\ r.bytes[h - 1].byte = CR /\ r.bytes[h].byte = LF
          /\ r.bytes[h + 1].byte = CR /\ r.bytes[h + 2].byte = LF
          /\ \A p \in 3 .. (h + 1) : ~(r.bytes[p - 2].byte = LF /\ r.bytes[p].byte = LF)
  <2>1. b.m_writeIndex \in Nat /\ b.m_writeIndex <= b.m_bufferSz
    BY Fields
  <2> QED BY <2>1, BlankLineFacts
<1>2. PICK d \in 0 .. n : /\ d = DataStart(b) /\ (d < n => BlankLine(b, d))
                          /\ \A q \in 0 .. (d - 1) : ~BlankLine(b, q)
  <2>1. /\ DataStart(b) \in 0 .. b.m_bufferSz /\ b.m_bufferSz \in Nat
        /\ DataStart(b) < b.m_bufferSz => BlankLine(b, DataStart(b))
        /\ \A q \in 0 .. (DataStart(b) - 1) : ~BlankLine(b, q)
    BY SkipToDataFacts, Fields
  <2>2. DataStart(b) \in 0 .. n /\ (DataStart(b) < n => DataStart(b) < b.m_bufferSz)
    BY <1>1, <2>1
  <2> QED BY <2>1, <2>2
<1>3. ASSUME NEW p \in 4 .. n
      PROVE  BlankLine(b, p) <=> /\ r.bytes[p - 3].byte = CR /\ r.bytes[p - 2].byte = LF
                                 /\ r.bytes[p - 1].byte = CR /\ r.bytes[p].byte = LF
  <2>1. /\ b.m_buffer[p - 4] = r.bytes[p - 3].byte /\ b.m_buffer[p - 3] = r.bytes[p - 2].byte
        /\ b.m_buffer[p - 2] = r.bytes[p - 1].byte /\ b.m_buffer[p - 1] = r.bytes[p].byte
    <3>1. /\ {p - 4, p - 3, p - 2, p - 1} \subseteq 0 .. (n - 1)
          /\ (p - 4) + 1 = p - 3 /\ (p - 3) + 1 = p - 2 /\ (p - 2) + 1 = p - 1 /\ (p - 1) + 1 = p
      OBVIOUS
    <3> QED BY <1>1, <3>1 DEF Begins
  <2>2. Peek(b.m_buffer, p - 4, 4)
          = <<b.m_buffer[p - 4], b.m_buffer[p - 3], b.m_buffer[p - 2], b.m_buffer[p - 1]>>
    <3>1. /\ (p - 4) + 1 - 1 = p - 4 /\ (p - 4) + 2 - 1 = p - 3
          /\ (p - 4) + 3 - 1 = p - 2 /\ (p - 4) + 4 - 1 = p - 1
      OBVIOUS
    <3>2. PICK f : f = Peek(b.m_buffer, p - 4, 4)
      OBVIOUS
    <3>3. f = [i \in 1 .. 4 |-> b.m_buffer[(p - 4) + i - 1]]
      BY <3>2 DEF Peek
    <3>4. /\ f[1] = b.m_buffer[p - 4] /\ f[2] = b.m_buffer[p - 3]
          /\ f[3] = b.m_buffer[p - 2] /\ f[4] = b.m_buffer[p - 1]
      BY <3>1, <3>3
    <3>5. f = <<f[1], f[2], f[3], f[4]>>
      BY <3>3
    <3> QED BY <3>2, <3>4, <3>5
  <2>3. p >= b.m_readIndex + 4
    OBVIOUS
  <2>4. BlankLine(b, p) <=> <<b.m_buffer[p - 4], b.m_buffer[p - 3],
                              b.m_buffer[p - 2], b.m_buffer[p - 1]>> = <<CR, LF, CR, LF>>
    BY <2>2, <2>3 DEF BlankLine
  <2>5. \A w, x, y, z : <<w, x, y, z>> = <<CR, LF, CR, LF>> <=>
                          w = CR /\ x = LF /\ y = CR /\ z = LF
    OBVIOUS
  <2> QED BY <2>1, <2>4, <2>5
<1>4. ~(d < h)
  <2>1. SUFFICES ASSUME d < h PROVE FALSE
    OBVIOUS
  <2>2. d < n /\ BlankLine(b, d)
    BY <1>1, <1>2, <2>1
  <2>3. d \in 4 .. n /\ d \in 3 .. (h + 1)
    BY <1>2, <2>1, <2>2 DEF BlankLine
  <2> QED BY <1>1, <1>3, <2>2, <2>3
<1>5. ~(d > h + 2)
  <2>1. SUFFICES ASSUME d > h + 2 PROVE FALSE
    OBVIOUS
  <2>2. /\ h + 2 \in 0 .. (d - 1) /\ h + 2 \in 4 .. n
        /\ (h + 2) - 3 = h - 1 /\ (h + 2) - 2 = h /\ (h + 2) - 1 = h + 1
    BY <1>1, <2>1
  <2>3. BlankLine(b, h + 2)
    BY <1>1, <1>3, <2>2
  <2> QED BY <1>2, <2>2, <2>3
<1>6. ASSUME NEW p \in (h + 1) .. d PROVE r.bytes[p].byte \in LineDelims
  <2>1. p = h + 1 \/ p = h + 2
    BY <1>5
  <2> QED BY <1>1, <2>1, SpecialBytes
<1> QED
  BY <1>1, <1>2, <1>4, <1>6

-----------------------------------------------------------------------------
(* Regular responses: the steps.                                            *)

LEMMA RegularFacts ==
    ASSUME Inv, response.regular
    PROVE  /\ response \in Responses /\ FollowsGrammar(response)
           /\ Len(response.bytes) \in Nat /\ arrived \in Nat /\ arrived <= Len(response.bytes)
           /\ HeadEnd(response) \in Nat /\ HeadEnd(response) >= 6
<1>1. response \in Responses /\ arrived \in 0 .. Len(response.bytes)
  BY DEF Inv, TypeOK
<1>2. FollowsGrammar(response)
  BY <1>1, GrammarAssumption
<1>3. Len(response.bytes) \in Nat
  BY <1>1, BytesOf
<1> QED
  BY <1>1, <1>2, <1>3, BlankLineFacts

LEMMA ClientKeepsGrammar ==
    ASSUME Inv, response.regular, GrammarInv, ~Overread',
           NEW n \in 0 .. MaxSize, NEW s \in Slack, n + s <= MaxSize,
           ParseMessage(n, s) \/ SkipMessage(n, s) \/ ParseFragment(n, s)
    PROVE  GrammarInv'
<1>1. /\ n \in Nat /\ n <= MaxSize /\ s \in Nat
      /\ pc = "idle" /\ ~done /\ arrived + n <= Len(response.bytes)
      /\ n > 0 => response.bytes[arrived + n].cut
      /\ arrived' = arrived + n /\ response' = response /\ ~first'
  <2>1. Arrive(n)
    BY DEF ParseMessage, SkipMessage, ParseFragment
  <2>2. n \in Nat /\ n <= MaxSize /\ s \in Nat
    BY SizeAssumption, ResponseAssumption
  <2> QED BY <2>1, <2>2 DEF Arrive
<1>2. /\ response \in Responses /\ FollowsGrammar(response)
      /\ Len(response.bytes) \in Nat /\ arrived \in Nat
      /\ HeadEnd(response) \in Nat /\ HeadEnd(response) >= 6
  BY RegularFacts
<1>3. PICK piece : /\ piece = Piece(n, s) /\ WellFormed(piece)
                   /\ piece.m_readIndex = 0 /\ piece.m_writeIndex = n
                   /\ \A j \in 0 .. (n - 1) :
                        piece.m_buffer[j] = response.bytes[arrived + j + 1].byte
  BY <1>1, <1>2, PieceFacts
<1>4. ASSUME n > 0
      PROVE  /\ arrived' > 0 /\ response'.bytes[arrived'].cut
             /\ arrived' >= HeadEnd(response') /\ MAX_MSG_LENGTH # 0
  <2>1. PICK top \in Nat : top = arrived + n /\ top > 0 /\ response.bytes[top].cut
    BY <1>1, <1>2, <1>4
  <2>2. top >= HeadEnd(response)
    <3>1. SUFFICES ASSUME top < HeadEnd(response) PROVE FALSE
      BY <1>2, <2>1
    <3>2. top \in 1 .. HeadEnd(response)
      BY <1>2, <2>1, <3>1
    <3> QED BY <1>2, <2>1, <3>1, <3>2 DEF FollowsGrammar
  <2>3. MAX_MSG_LENGTH # 0
    BY <1>1, <1>4, SizeAssumption DEF MAX_MSG_LENGTH
  <2> QED BY <1>1, <2>1, <2>2, <2>3
<1>5. ASSUME NEW from \in Nat, msg' = ReadAt(piece, from)
      PROVE  HoldsPiece' /\ Behind' = arrived + from /\ msg'.m_writeIndex = n
             /\ msg'.m_readIndex = from
  <2>1. /\ msg'.m_writeIndex = n /\ msg'.m_readIndex = from
        /\ msg'.m_buffer = piece.m_buffer
    BY <1>3, <1>5 DEF ReadAt, Buffer
  <2>2. ASSUME NEW j \in 0 .. (n - 1)
        PROVE  msg'.m_buffer[j] = response'.bytes[arrived' - n + j + 1].byte
    <3>1. arrived' - n + j + 1 = arrived + j + 1
      BY <1>1, <1>2
    <3> QED BY <1>1, <1>3, <2>1, <3>1
  <2>3. n <= arrived' /\ arrived' - n + from = arrived + from
    BY <1>1, <1>2
  <2> QED BY <2>1, <2>2, <2>3 DEF HoldsPiece, Behind
<1>6. piece = ReadAt(piece, 0)
  BY <1>3, Fields DEF ReadAt
<1>7. CASE ParseMessage(n, s) /\ n = 0
  <2>1. arrived' = 0 /\ ~(arrived' > 0) /\ pc' = "idle" /\ (first' \/ done')
    BY <1>1, <1>2, <1>7 DEF ParseMessage, GrammarInv
  <2>2. pc' \notin {"header", "fields", "fragment"} /\ pc' \notin {"header", "fields"}
        /\ pc' # "header" /\ pc' # "fields" /\ pc' # "fragment"
    BY <2>1
  <2> QED BY <1>1, <2>1, <2>2, Zenon DEF GrammarInv
<1>8. CASE ParseMessage(n, s) /\ n # 0
  <2>1. n > 0 /\ first /\ pc' = "header" /\ msg' = ReadAt(piece, 0)
    BY <1>1, <1>3, <1>6, <1>8 DEF ParseMessage
  <2>2. arrived = 0 /\ arrived' = n /\ ~skipped' /\ Fresh' /\ meta' = EmptyMeta
    BY <1>1, <1>8 DEF ParseMessage, GrammarInv, Fresh
  <2>3. HoldsPiece' /\ msg'.m_writeIndex = n /\ msg'.m_readIndex = 0
    BY <1>5, <2>1
  <2> QED BY <1>1, <1>4, <2>1, <2>2, <2>3 DEF GrammarInv
<1>9. CASE SkipMessage(n, s)
  <2>1. /\ n > 0 /\ first /\ pc' = "fragment" /\ skipped' /\ endOfData' = FALSE
        /\ data' = data /\ remainingSz' = remainingSz
        /\ msg' = ReadAt(piece, DataStart(piece))
    BY <1>3, <1>9 DEF SkipMessage, out, skipToHttpData
  <2>2. arrived = 0 /\ arrived' = n /\ Fresh
    BY <1>1, <2>1 DEF GrammarInv
  <2>3. HeadEnd(response) <= n /\ n <= Len(response.bytes) /\ MAX_MSG_LENGTH # 0
    BY <1>1, <1>2, <1>4, <2>1, <2>2
  <2>4. \A j \in 0 .. (n - 1) : piece.m_buffer[j] = response.bytes[j + 1].byte
    <3>1. \A j \in 0 .. (n - 1) : arrived + j + 1 = j + 1
      BY <2>2
    <3> QED BY <1>3, <3>1
  <2>5. PICK d \in Nat : /\ d = DataStart(piece) /\ HeadEnd(response) <= d /\ d <= n
                         /\ \A p \in (HeadEnd(response) + 1) .. d :
                              response.bytes[p].byte \in LineDelims
    <3>1. /\ piece.m_writeIndex >= HeadEnd(response) /\ piece.m_writeIndex <= Len(response.bytes)
          /\ \A j \in 0 .. (piece.m_writeIndex - 1) :
               piece.m_buffer[j] = response.bytes[j + 1].byte
      BY <1>2, <1>3, <2>3, <2>4
    <3>2. /\ DataStart(piece) \in Nat /\ HeadEnd(response) <= DataStart(piece)
          /\ DataStart(piece) <= piece.m_writeIndex
          /\ \A p \in (HeadEnd(response) + 1) .. DataStart(piece) :
               response.bytes[p].byte \in LineDelims
      <4>1. Begins(piece, response)
        BY <3>1 DEF Begins
      <4>2. ~(DataStart(piece) > piece.m_writeIndex)
        BY <2>1 DEF Overread, ReadAt, Buffer
      <4> QED BY <1>2, <1>3, <3>1, <4>1, <4>2, DataStartFacts
    <3> QED BY <1>3, <3>2
  <2>6. /\ PayloadOf(response)[d] = <<>> /\ response.bytes[d].left = MAX_MSG_LENGTH
        /\ response.bytes[d].byte \in LineDelims
    <3>1. d <= Len(response.bytes)
      BY <1>2, <2>3, <2>5
    <3> QED BY <1>2, <2>5, <3>1, BodyStart
  <2>7. HoldsPiece' /\ Behind' = d
    <3>1. HoldsPiece' /\ Behind' = arrived + d
      BY <1>5, <2>1, <2>5
    <3> QED BY <2>2, <3>1
  <2>8. ParsedTo(Behind)'
    BY <1>1, <2>1, <2>2, <2>5, <2>6, <2>7 DEF ParsedTo, Fresh
  <2>9. /\ response'.bytes[Behind'].byte \in LineDelims
        /\ endOfData' = (response'.bytes[Behind'].left = 0)
    BY <1>1, <2>1, <2>3, <2>6, <2>7
  <2> QED BY <1>1, <1>4, <2>1, <2>7, <2>8, <2>9 DEF GrammarInv
<1>10. CASE ParseFragment(n, s)
  <2>1. /\ n > 0 /\ ~first /\ pc' = "fragment" /\ endOfData' = FALSE /\ msg' = ReadAt(piece, 0)
        /\ skipped' = skipped /\ header' = header /\ meta' = meta
        /\ data' = data /\ remainingSz' = remainingSz
    BY <1>3, <1>6, <1>10 DEF ParseFragment, out
  <2>2. arrived > 0
    BY <1>1, <1>2, <2>1 DEF GrammarInv
  <2>3. /\ ParsedTo(arrived) /\ (skipped \/ HeadParsed) /\ response.bytes[arrived].cut
        /\ done = (response.bytes[arrived].left = 0)
    BY <1>1, <2>2 DEF GrammarInv
  <2>4. HoldsPiece' /\ Behind' = arrived
    <3>1. HoldsPiece' /\ Behind' = arrived + 0
      BY <1>5, <2>1
    <3> QED BY <1>2, <3>1
  <2>5. ParsedTo(Behind)' /\ (skipped' \/ HeadParsed')
    BY <1>1, <2>1, <2>3, <2>4 DEF ParsedTo, HeadParsed
  <2>6. /\ response'.bytes[Behind'].cut
        /\ endOfData' = (response'.bytes[Behind'].left = 0)
    BY <1>1, <2>1, <2>3, <2>4
  <2> QED BY <1>1, <1>4, <2>1, <2>4, <2>5, <2>6 DEF GrammarInv
<1> QED
  BY <1>7, <1>8, <1>9, <1>10

LEMMA HeaderKeepsGrammar ==
    ASSUME Inv, response.regular, GrammarInv, Header, ~Overread'
    PROVE  GrammarInv'
<1>1. /\ response \in Responses /\ FollowsGrammar(response)
      /\ Len(response.bytes) \in Nat /\ arrived \in Nat /\ arrived <= Len(response.bytes)
      /\ HeadEnd(response) \in Nat /\ HeadEnd(response) >= 6
  BY RegularFacts
<1>2. PICK r : /\ r = readLine(msg, LineDelims) /\ msg' = r.self /\ header' = r.out
               /\ pc = "header" /\ pc' = "fields"
               /\ response' = response /\ arrived' = arrived /\ first' = first
               /\ skipped' = skipped /\ meta' = meta
               /\ data' = data /\ remainingSz' = remainingSz
  BY DEF Header, client
<1>3. /\ HoldsPiece /\ msg.m_writeIndex = arrived /\ ~skipped /\ Fresh /\ msg.m_readIndex = 0
      /\ meta = EmptyMeta /\ arrived # 0 /\ ~first
  BY <1>2 DEF GrammarInv
<1>4. /\ arrived > 0 /\ response.bytes[arrived].cut /\ arrived >= HeadEnd(response)
      /\ MAX_MSG_LENGTH # 0
  BY <1>1, <1>3 DEF GrammarInv
<1>5. Behind = 0
  BY <1>1, <1>3 DEF Behind
<1>6. PICK e, z \in Nat : /\ IsLine(response, LineDelims, 0, e, z, arrived)
                          /\ r.self = ReadAt(msg, z - (arrived - msg.m_writeIndex))
                          /\ r.out = Span(response, 0, e)
  <2>1. ~(readLine(msg, LineDelims).self.m_readIndex > msg.m_writeIndex)
    BY <1>2, ReadsWritten, SpecialBytes
  <2> QED BY <1>2, <1>3, <1>5, <2>1, LineSpan, SpecialBytes
<1>7. z = LineStart(response, 1) /\ header' = response.header
  BY <1>1, <1>2, <1>4, <1>6, HeaderRead
<1>8. HoldsPiece' /\ msg'.m_writeIndex = arrived' /\ msg'.m_readIndex = z
  <2>1. /\ HoldsPiece' /\ msg'.m_writeIndex = msg.m_writeIndex
        /\ msg'.m_readIndex = z - (arrived - msg.m_writeIndex)
    BY <1>2, <1>3, <1>6, ReadingOn
  <2> QED BY <1>1, <1>2, <1>3, <2>1
<1>9. \E i \in 1 .. (Len(response'.lines) + 1) :
         msg'.m_readIndex = LineStart(response', i) /\ meta' = FieldsOf(response', i - 1)
  <2>1. 1 \in 1 .. (Len(response.lines) + 1) /\ 1 - 1 = 0
    BY <1>1, LineStarts
  <2>2. FieldsOf(response, 0) = EmptyMeta
    BY FieldAdded
  <2>3. meta' = FieldsOf(response, 1 - 1)
    BY <1>2, <1>3, <2>1, <2>2
  <2> QED BY <1>2, <1>7, <1>8, <2>1, <2>3
<1>10. Fresh'
  BY <1>2, <1>3 DEF Fresh
<1> QED
  BY <1>2, <1>3, <1>4, <1>7, <1>8, <1>9, <1>10 DEF GrammarInv

LEMMA FieldKeepsGrammar ==
    ASSUME Inv, response.regular, GrammarInv, Field, ~Overread'
    PROVE  GrammarInv'
<1>1. /\ response \in Responses /\ FollowsGrammar(response)
      /\ Len(response.bytes) \in Nat /\ arrived \in Nat /\ arrived <= Len(response.bytes)
      /\ HeadEnd(response) \in Nat /\ HeadEnd(response) >= 6
  BY RegularFacts
<1>2. PICK r : /\ r = readLine(msg, {LF}) /\ msg' = r.self /\ pc = "fields"
               /\ response' = response /\ arrived' = arrived /\ first' = first
               /\ skipped' = skipped /\ header' = header
               /\ data' = data /\ remainingSz' = remainingSz
  BY DEF Field, client
<1>3. /\ HoldsPiece /\ msg.m_writeIndex = arrived /\ ~skipped /\ Fresh
      /\ header = response.header /\ arrived # 0 /\ ~first
  BY <1>2 DEF GrammarInv
<1>4. /\ arrived > 0 /\ response.bytes[arrived].cut /\ arrived >= HeadEnd(response)
      /\ MAX_MSG_LENGTH # 0
  BY <1>1, <1>3 DEF GrammarInv
<1>5. PICK k \in Nat : k = Len(response.lines) /\ k >= 1
  BY <1>1, LineStarts
<1>6. PICK i \in 1 .. (k + 1) :
          msg.m_readIndex = LineStart(response, i) /\ meta = FieldsOf(response, i - 1)
  BY <1>2, <1>5 DEF GrammarInv
<1>7. Behind = LineStart(response, i)
  <2>1. LineStart(response, i) \in Nat
    BY <1>1, <1>5, LineStarts
  <2> QED BY <1>1, <1>3, <1>6, <2>1 DEF Behind
<1>8. PICK e, z \in Nat : /\ IsLine(response, {LF}, Behind, e, z, arrived)
                          /\ r.self = ReadAt(msg, z - (arrived - msg.m_writeIndex))
                          /\ r.out = Span(response, Behind, e)
                          /\ MoreLines(r) <=> (z < arrived \/ Behind < e)
  <2>1. ~(readLine(msg, {LF}).self.m_readIndex > msg.m_writeIndex)
    BY <1>2, ReadsWritten, SpecialBytes
  <2> QED BY <1>2, <1>3, <2>1, LineSpan, SpecialBytes
<1>9. /\ HoldsPiece' /\ msg'.m_writeIndex = arrived' /\ msg'.m_readIndex = z /\ Behind' = z
  <2>1. /\ HoldsPiece' /\ msg'.m_writeIndex = msg.m_writeIndex /\ Behind' = z
        /\ msg'.m_readIndex = z - (arrived - msg.m_writeIndex)
    BY <1>2, <1>3, <1>8, ReadingOn
  <2> QED BY <1>1, <1>2, <1>3, <2>1
<1>10. CASE i # k + 1
  <2>1. i \in 1 .. Len(response.lines) /\ (i + 1) - 1 = i /\ (i - 1) + 1 = i /\ i - 1 \in Nat
    BY <1>5, <1>10
  <2>2. z = LineStart(response, i + 1) /\ e = LineStart(response, i + 1) - 1 /\ Behind < e
    BY <1>1, <1>4, <1>7, <1>8, <2>1, FieldRead
  <2>3. /\ r.out \notin {<<>>, <<CR>>} /\ IsField(r.out) /\ ~(ColonAt(r.out) + 2 > Len(r.out))
        /\ Key(r.out) = to_upper(response.lines[i].name) /\ Value(r.out) = response.lines[i].value
    <3>1. r.out = Span(response, LineStart(response, i), LineStart(response, i + 1) - 1)
      BY <1>7, <1>8, <2>2
    <3> QED BY <1>1, <2>1, <3>1, FieldLine
  <2>4. MoreLines(r)
    BY <1>8, <2>2
  <2>5. pc' = "fields" /\ meta' = Emplaced(meta, Key(r.out), Value(r.out))
    BY <1>2, <2>3, <2>4 DEF Field
  <2>6. meta' = FieldsOf(response, (i + 1) - 1)
    <3>1. FieldsOf(response, (i - 1) + 1)
            = Emplaced(FieldsOf(response, i - 1), to_upper(response.lines[(i - 1) + 1].name),
                       response.lines[(i - 1) + 1].value)
      BY <2>1, FieldAdded
    <3> QED BY <1>6, <2>1, <2>3, <2>5, <3>1
  <2>7. \E j \in 1 .. (Len(response'.lines) + 1) :
           msg'.m_readIndex = LineStart(response', j) /\ meta' = FieldsOf(response', j - 1)
    <3>1. i + 1 \in 1 .. (Len(response.lines) + 1)
      BY <1>5, <2>1
    <3> QED BY <1>2, <1>9, <2>2, <2>6, <3>1
  <2>8. Fresh'
    BY <1>2, <1>3 DEF Fresh
  <2> QED BY <1>2, <1>3, <1>4, <1>9, <2>5, <2>7, <2>8 DEF GrammarInv
<1>11. CASE i = k + 1
  <2>1. Behind = HeadEnd(response) /\ i - 1 = k
    BY <1>5, <1>7, <1>11 DEF HeadEnd
  <2>2. /\ r.out \in {<<>>, <<CR>>} /\ HeadEnd(response) <= z /\ z <= arrived
        /\ \A p \in (HeadEnd(response) + 1) .. z : response.bytes[p].byte \in LineDelims
    BY <1>1, <1>4, <1>8, <2>1, BlankRead
  <2>3. pc' = "fragment" /\ endOfData' = FALSE /\ meta' = meta
    BY <1>2, <2>2 DEF Field
  <2>4. /\ PayloadOf(response)[z] = <<>> /\ response.bytes[z].left = MAX_MSG_LENGTH
        /\ response.bytes[z].byte \in LineDelims
    <3>1. z <= Len(response.bytes)
      BY <1>1, <2>2
    <3> QED BY <1>1, <2>2, <3>1, BodyStart
  <2>5. ParsedTo(Behind)' /\ HeadParsed'
    BY <1>2, <1>3, <1>5, <1>6, <1>9, <2>1, <2>2, <2>3, <2>4 DEF ParsedTo, HeadParsed, Fresh
  <2>6. /\ response'.bytes[Behind'].byte \in LineDelims
        /\ endOfData' = (response'.bytes[Behind'].left = 0)
    BY <1>2, <1>4, <1>9, <2>3, <2>4
  <2> QED BY <1>2, <1>3, <1>4, <1>9, <2>3, <2>5, <2>6 DEF GrammarInv
<1> QED
  BY <1>10, <1>11

LEMMA LineKeepsGrammar ==
    ASSUME Inv, response.regular, GrammarInv, Line, ~Overread'
    PROVE  GrammarInv'
<1>1. /\ response \in Responses /\ FollowsGrammar(response)
      /\ Len(response.bytes) \in Nat /\ arrived \in Nat /\ arrived <= Len(response.bytes)
      /\ HeadEnd(response) \in Nat /\ HeadEnd(response) >= 6
  BY RegularFacts
<1>2. PICK r : /\ r = readLine(msg, LineDelims) /\ msg' = r.self /\ pc = "fragment"
               /\ MoreLines(r)
               /\ response' = response /\ arrived' = arrived /\ first' = first
               /\ skipped' = skipped /\ header' = header /\ meta' = meta
  BY DEF Line, client
<1>3. /\ HoldsPiece /\ ParsedTo(Behind) /\ (skipped \/ HeadParsed)
      /\ response.bytes[Behind].byte \in LineDelims \/ response.bytes[Behind].cut
      /\ endOfData = (response.bytes[Behind].left = 0)
      /\ arrived # 0 /\ ~first
  BY <1>2 DEF GrammarInv
<1>4. /\ arrived > 0 /\ response.bytes[arrived].cut /\ arrived >= HeadEnd(response)
      /\ MAX_MSG_LENGTH # 0
  BY <1>1, <1>3 DEF GrammarInv
<1>5. PICK a, e, z \in Nat :
          /\ a = Behind /\ IsLine(response, LineDelims, a, e, z, arrived)
          /\ r.self = ReadAt(msg, z - (arrived - msg.m_writeIndex))
          /\ r.out = Span(response, a, e)
          /\ MoreLines(r) <=> (z < arrived \/ a < e)
  <2>1. ~(readLine(msg, LineDelims).self.m_readIndex > msg.m_writeIndex)
    BY <1>2, ReadsWritten, SpecialBytes
  <2> QED BY <1>2, <1>3, <2>1, LineSpan, SpecialBytes
<1>6. /\ a <= e /\ e <= z /\ z <= arrived /\ z <= Len(response.bytes)
      /\ \A p \in (a + 1) .. e : response.bytes[p].byte \notin LineDelims
      /\ \A p \in (e + 1) .. z : response.bytes[p].byte \in LineDelims
      /\ e < arrived => response.bytes[e + 1].byte \in LineDelims
      /\ z < arrived => response.bytes[z + 1].byte \notin LineDelims
  BY <1>1, <1>5 DEF IsLine
<1>7. /\ HeadEnd(response) <= a /\ data = PayloadOf(response)[a]
      /\ remainingSz = response.bytes[a].left
  BY <1>1, <1>3, <1>5 DEF ParsedTo
<1>8. HoldsPiece' /\ Behind' = z
  BY <1>2, <1>3, <1>5, ReadingOn
<1>9. response.bytes[z].byte \in LineDelims \/ response.bytes[z].cut
  <2>1. CASE e < z
    <3>1. z \in (e + 1) .. z
      BY <2>1
    <3> QED BY <1>6, <3>1
  <2>2. CASE ~(e < z)
    <3>1. e = z /\ ~(z < arrived)
      BY <1>6, <2>2
    <3>2. z = arrived
      BY <1>1, <1>6, <3>1
    <3> QED BY <1>4, <3>2
  <2> QED BY <2>1, <2>2
<1>10. /\ PayloadOf(response)[z] = PayloadOf(response)[e]
       /\ response.bytes[z].left = response.bytes[e].left
  <2>1. HeadEnd(response) <= e
    BY <1>1, <1>6, <1>7
  <2> QED BY <1>1, <1>6, <2>1, BreakFacts
<1>11. Len(r.out) = e - a /\ (r.out = <<>> <=> e = a)
  <2>1. PICK n \in Nat : n = e - a
    <3>1. e - a \in Nat
      BY <1>6
    <3> QED BY <3>1
  <2>2. r.out = [j \in 1 .. n |-> response.bytes[a + j].byte]
    BY <1>5, <2>1 DEF Span
  <2>3. Len([j \in 1 .. n |-> response.bytes[a + j].byte]) = n /\ Len(<<>>) = 0
        /\ (n = 0 => [j \in 1 .. n |-> response.bytes[a + j].byte] = <<>>)
    OBVIOUS
  <2>4. Len(r.out) = n /\ (r.out = <<>> <=> n = 0)
    BY <2>2, <2>3
  <2> QED BY <2>1, <2>4
<1>12. /\ pc' = "fragment" /\ data' = PayloadOf(response)[z]
       /\ remainingSz' = response.bytes[z].left
       /\ endOfData' = (response.bytes[z].left = 0)
  <2>1. CASE e = a
    <3>1. /\ pc' = pc /\ remainingSz' = remainingSz /\ data' = data /\ endOfData' = endOfData
      BY <1>2, <1>11, <2>1 DEF Line
    <3> QED BY <1>2, <1>3, <1>5, <1>7, <1>10, <2>1, <3>1
  <2>2. CASE e # a
    <3>1. a < e /\ a < Len(response.bytes) /\ a + 1 \in (a + 1) .. e /\ e <= Len(response.bytes)
      BY <1>1, <1>6, <2>2
    <3>2. TextLine(r.out) \/ SizeLine(r.out) \/ DataLine(r.out)
      BY <1>2, <1>11, <2>2 DEF Line
    <3>3. response.bytes[a].left # 0
      BY <1>1, <1>4, <1>6, <1>7, <3>1, EndFacts
    <3>4. CASE response.bytes[a].left = MAX_MSG_LENGTH
      <4>1. response.bytes[e].cut \/ (e < Len(response.bytes)
                                      /\ response.bytes[e + 1].byte \in LineDelims)
        <5>1. e < arrived \/ e = arrived
          BY <1>1, <1>6
        <5>2. e < arrived => e < Len(response.bytes)
          BY <1>1
        <5> QED BY <1>4, <1>6, <5>1, <5>2
      <4>2. response.bytes[a].byte \in LineDelims \/ response.bytes[a].cut
        BY <1>3, <1>5
      <4>3. /\ AllHex(r.out) /\ stoull(r.out) \in SizeT
            /\ response.bytes[e].left = stoull(r.out)
            /\ PayloadOf(response)[e] = PayloadOf(response)[a]
        <5>1. PICK line : line = Span(response, a, e) /\ r.out = line
          BY <1>5
        <5>2. /\ HeadEnd(response) <= a /\ a < e /\ e <= Len(response.bytes)
              /\ \A p \in (a + 1) .. e : response.bytes[p].byte \notin LineDelims
          BY <1>6, <1>7, <3>1
        <5>3. AllHex(line)
          BY <1>1, <3>4, <4>1, <4>2, <5>1, <5>2, SizeFacts
        <5>4. stoull(line) \in SizeT /\ response.bytes[e].left = stoull(line)
          BY <1>1, <3>4, <4>1, <4>2, <5>1, <5>2, SizeFacts
        <5>5. PayloadOf(response)[e] = PayloadOf(response)[a]
          BY <1>1, <3>4, <4>1, <4>2, <5>1, <5>2, SizeFacts
        <5> QED BY <5>1, <5>3, <5>4, <5>5
      <4>4. SizeLine(r.out)
        BY <1>7, <3>2, <3>4, <4>3 DEF TextLine, DataLine
      <4>5. /\ remainingSz' = stoull(r.out) /\ endOfData' = (stoull(r.out) = 0)
            /\ pc' = pc /\ data' = data
        BY <4>3, <4>4 DEF SizeLine
      <4> QED BY <1>2, <1>7, <1>10, <4>3, <4>5
    <3>5. CASE response.bytes[a].left # MAX_MSG_LENGTH
      <4>1. /\ e - a <= response.bytes[a].left
            /\ response.bytes[e].left = IF e - a = response.bytes[a].left
                                        THEN MAX_MSG_LENGTH
                                        ELSE response.bytes[a].left - (e - a)
            /\ PayloadOf(response)[e] = PayloadOf(response)[a] \o Span(response, a, e)
        BY <1>1, <1>6, <1>7, <3>1, <3>3, <3>5, DataFacts
      <4>2. DataLine(r.out)
        BY <1>7, <3>2, <3>5 DEF TextLine, SizeLine
      <4>3. PICK L, n \in Nat : /\ L = response.bytes[a].left /\ n = e - a
                                /\ n <= L /\ L < SizeMod
        <5>1. a \in 1 .. Len(response.bytes)
          BY <1>1, <1>7, <3>1
        <5>2. response.bytes[a].left \in SizeT
          BY <1>1, <5>1, BytesOf
        <5>3. e - a \in Nat
          BY <3>1
        <5> QED BY <4>1, <5>2, <5>3, SizeAssumption DEF SizeT
      <4>4. Sub(remainingSz, Len(r.out)) = L - n
        <5>1. Sub(L, n) = L - n
          BY <4>3, SubFacts
        <5> QED BY <1>7, <1>11, <4>3, <5>1
      <4>5. /\ remainingSz' = IF L - n = 0 THEN MAX_MSG_LENGTH ELSE L - n
            /\ data' = data \o r.out /\ pc' = pc /\ endOfData' = endOfData
        BY <4>2, <4>4 DEF DataLine
      <4>6. remainingSz' = response.bytes[e].left /\ response.bytes[e].left # 0
        <5>1. L - n = 0 <=> n = L
          BY <4>3
        <5>2. response.bytes[e].left = IF n = L THEN MAX_MSG_LENGTH ELSE L - n
          BY <4>1, <4>3
        <5> QED BY <1>4, <4>5, <5>1, <5>2
      <4>7. endOfData' = (response.bytes[z].left = 0)
        <5>1. endOfData' = (response.bytes[a].left = 0)
          BY <1>3, <1>5, <4>5
        <5>2. ~(response.bytes[a].left = 0) /\ ~(response.bytes[z].left = 0)
          BY <1>10, <3>3, <4>6
        <5> QED BY <5>1, <5>2
      <4> QED BY <1>2, <1>5, <1>7, <1>10, <4>1, <4>5, <4>6, <4>7
    <3> QED BY <3>4, <3>5
  <2> QED BY <2>1, <2>2
<1>13. ParsedTo(Behind)' /\ (skipped' \/ HeadParsed')
  <2>1. z >= HeadEnd(response)
    BY <1>1, <1>6, <1>7
  <2> QED BY <1>2, <1>3, <1>8, <1>12, <2>1 DEF ParsedTo, HeadParsed
<1>14. /\ response'.bytes[Behind'].byte \in LineDelims \/ response'.bytes[Behind'].cut
       /\ endOfData' = (response'.bytes[Behind'].left = 0)
  BY <1>2, <1>8, <1>9, <1>12
<1> QED
  BY <1>2, <1>3, <1>4, <1>8, <1>12, <1>13, <1>14 DEF GrammarInv

LEMMA ReturnKeepsGrammar ==
    ASSUME Inv, response.regular, GrammarInv, Return
    PROVE  GrammarInv'
<1>1. /\ response \in Responses /\ FollowsGrammar(response)
      /\ Len(response.bytes) \in Nat /\ arrived \in Nat /\ arrived <= Len(response.bytes)
      /\ HeadEnd(response) \in Nat /\ HeadEnd(response) >= 6
  BY RegularFacts
<1>2. PICK r : /\ r = readLine(msg, LineDelims) /\ pc = "fragment" /\ pc' = "idle"
               /\ ~MoreLines(r) /\ done' = endOfData
               /\ response' = response /\ arrived' = arrived /\ first' = first
               /\ skipped' = skipped /\ header' = header /\ meta' = meta
               /\ data' = data /\ remainingSz' = remainingSz
  BY DEF Return, client, out
<1>3. /\ HoldsPiece /\ ParsedTo(Behind) /\ (skipped \/ HeadParsed)
      /\ endOfData = (response.bytes[Behind].left = 0)
      /\ arrived # 0 /\ ~first
  BY <1>2 DEF GrammarInv
<1>4. /\ arrived > 0 /\ response.bytes[arrived].cut /\ arrived >= HeadEnd(response)
      /\ MAX_MSG_LENGTH # 0
  BY <1>1, <1>3 DEF GrammarInv
<1>5. PICK a, e, z \in Nat :
          /\ a = Behind /\ IsLine(response, LineDelims, a, e, z, arrived)
          /\ MoreLines(r) <=> (z < arrived \/ a < e)
  <2>1. ~(readLine(msg, LineDelims).self.m_readIndex > msg.m_writeIndex)
    BY <1>2, LineReadAdvances, SpecialBytes
  <2> QED BY <1>2, <1>3, <2>1, LineSpan, SpecialBytes
<1>6. e = a /\ z = arrived /\ a <= arrived
      /\ \A p \in (a + 1) .. arrived : response.bytes[p].byte \in LineDelims
  <2>1. ~(z < arrived) /\ ~(a < e)
    BY <1>2, <1>5
  <2>2. a <= e /\ e <= z /\ z <= arrived
    BY <1>5 DEF IsLine
  <2>3. e = a /\ z = arrived /\ a <= arrived
    BY <1>1, <2>1, <2>2
  <2> QED BY <1>5, <2>3 DEF IsLine
<1>7. /\ HeadEnd(response) <= a /\ data = PayloadOf(response)[a]
      /\ remainingSz = response.bytes[a].left
  BY <1>1, <1>3, <1>5 DEF ParsedTo
<1>8. /\ PayloadOf(response)[arrived] = PayloadOf(response)[a]
      /\ response.bytes[arrived].left = response.bytes[a].left
  BY <1>1, <1>6, <1>7, BreakFacts
<1>9. ParsedTo(arrived)' /\ (skipped' \/ HeadParsed')
  BY <1>2, <1>3, <1>4, <1>7, <1>8 DEF ParsedTo, HeadParsed
<1>10. done' = (response'.bytes[arrived'].left = 0)
  BY <1>2, <1>3, <1>5, <1>8
<1> QED
  BY <1>2, <1>3, <1>4, <1>9, <1>10 DEF GrammarInv

\* In a call that has read beyond what was written, which never returns.
Lost == pc # "idle" /\ Overread

\* A regular response is in the hands of a parser that keeps to the grammar, unless
\* it is lost.
Follows == response.regular => Lost \/ GrammarInv

LEMMA GrammarStep == ASSUME Inv, Follows, [Next]_vars PROVE Follows'
<1>1. response' = response
  BY DEF Next, Parser, ParseMessage, SkipMessage, ParseFragment, Arrive,
         Header, Field, Line, Return, client, vars
<1> SUFFICES ASSUME response.regular PROVE Lost' \/ GrammarInv'
  BY <1>1 DEF Follows
<1>2. CASE Lost
  <2>1. [NoReturn]_vars
    BY OverreadStep
  <2>2. CASE UNCHANGED vars
    BY <1>2, <2>2 DEF vars, Lost, Overread
  <2> QED BY <1>2, <2>1, <2>2 DEF NoReturn, Lost
<1>3. CASE GrammarInv /\ UNCHANGED vars
  BY <1>3 DEF vars, GrammarInv, HoldsPiece, Behind, Fresh, ParsedTo, HeadParsed
<1>4. CASE GrammarInv /\ Parser
  <2>1. CASE Return
    BY <1>4, <2>1, ReturnKeepsGrammar
  <2>2. CASE ~Return /\ Overread'
    <3>1. pc' \in {"fields", "fragment", "threw"}
      BY <1>4, <2>2 DEF Parser, Header, Field, Line, TextLine, SizeLine, DataLine
    <3> QED BY <2>2, <3>1 DEF Lost
  <2>3. CASE ~Return /\ ~Overread'
    BY <1>4, <2>3, HeaderKeepsGrammar, FieldKeepsGrammar, LineKeepsGrammar DEF Parser
  <2> QED BY <2>1, <2>2, <2>3
<1>5. CASE GrammarInv /\ Next /\ ~Parser
  <2>1. PICK n \in 0 .. MaxSize, s \in Slack :
              /\ n + s <= MaxSize
              /\ ParseMessage(n, s) \/ SkipMessage(n, s) \/ ParseFragment(n, s)
    BY <1>5 DEF Next
  <2>2. CASE ~Overread'
    BY <1>5, <2>1, <2>2, ClientKeepsGrammar
  <2>3. CASE Overread'
    <3>1. Arrive(n)
      BY <2>1 DEF ParseMessage, SkipMessage, ParseFragment
    <3>2. /\ Piece(n, s).m_readIndex = 0 /\ Piece(n, s).m_writeIndex = n
          /\ n \in Nat
      BY <2>1, <3>1, ArriveFacts, SizeAssumption
    <3>3. msg' # Piece(n, s)
      BY <2>3, <3>2 DEF Overread
    <3>4. SkipMessage(n, s)
      BY <2>1, <3>3 DEF ParseMessage, ParseFragment
    <3> QED BY <2>3, <3>4 DEF SkipMessage, Lost
  <2> QED BY <2>2, <2>3
<1> QED
  BY <1>2, <1>3, <1>4, <1>5 DEF Follows

LEMMA InitGrammar == ASSUME Init PROVE GrammarInv
<1>1. ~(arrived > 0) /\ pc = "idle" /\ first /\ arrived = 0 /\ ~skipped /\ Fresh
  BY DEF Init, Fresh
<1> QED
  BY <1>1 DEF GrammarInv

THEOREM GrammarInvariance == Spec => []Follows
<1>1. Init => Follows
  BY InitGrammar DEF Follows
<1>2. Inv /\ Follows /\ [Next]_vars => Follows'
  BY GrammarStep
<1> QED
  BY <1>1, <1>2, Invariance, PTL DEF Spec

\* Wherever a response that follows the grammar is cut, whatever its chunks are and
\* however large its buffers: when a call of the parser returns, the data collected
\* so far is the payload of the chunks that have arrived, no byte lost, doubled or
\* taken from a line break or from behind the message.
THEOREM BodyIsReassembled == Spec => []BodyReassembled
<1>1. Follows => BodyReassembled
  BY DEF Follows, Lost, GrammarInv, ParsedTo, BodyReassembled, Judged
<1> QED
  BY <1>1, GrammarInvariance, PTL

\* What a call hands back for the next one is exactly what the current chunk lacks.
THEOREM RemainderIsExact == Spec => []RemainingIsExact
<1>1. Follows => RemainingIsExact
  BY DEF Follows, Lost, GrammarInv, ParsedTo, RemainingIsExact, Judged
<1> QED
  BY <1>1, GrammarInvariance, PTL

\* The end of the data is reported by the call that met the last chunk, no other.
THEOREM EndIsReportedOnce == Spec => []EndIsReported
<1>1. Follows => EndIsReported
  BY DEF Follows, Lost, GrammarInv, EndIsReported, Judged
<1> QED
  BY <1>1, GrammarInvariance, PTL

\* The header line and the fields come out as they were sent, each under its name in
\* upper case, the first of two with one name, unless the client skipped them.
THEOREM FieldsAreKept == Spec => []FieldsKept
<1>1. Follows => FieldsKept
  BY DEF Follows, Lost, GrammarInv, HeadParsed, FieldsKept, Judged
<1> QED
  BY <1>1, GrammarInvariance, PTL
=============================================================================

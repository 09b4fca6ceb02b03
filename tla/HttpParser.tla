---------------------------- MODULE HttpParser ----------------------------
(***************************************************************************)
(* psi::tools::HttpParser and the client that feeds it: a chunked response *)
(* arrives in pieces, the first one goes to parseHttpChunkedMessage (or to *)
(* skipToHttpData and parseHttpFragment), each later one, with the         *)
(* remaining size the last call left behind, to parseHttpFragment, until   *)
(* the parser reports the end of the data.                                 *)
(*                                                                         *)
(* A step is one iteration of a parser loop: one readLine and what follows *)
(* from it.                                                                *)
(***************************************************************************)
EXTENDS ByteBufferOps

CONSTANTS
    CR, LF, ETB, Colon,  \* '\r', '\n', 0x17 and ':'
    HexDigit,            \* the hex digits, as a function to their value
    Radix,               \* 16
    Upper,               \* std::toupper, as a function on bytes
    Responses,           \* what may arrive: see the type below
    Slack                \* by how much a receive buffer exceeds what it got

LineDelims == {LF, CR, ETB}

\* A response is the sequence of its bytes, each with what is right to know
\* after it: whether it is payload, whether the client may cut the response
\* after it, and the bytes of the current chunk that are still to come; and
\* the header line and fields it starts with, each with the position of its
\* end.  Only responses that follow the grammar (regular) say what is right.
Tagged == [byte : Byte, payload : BOOLEAN, cut : BOOLEAN, left : SizeT]
ASSUME ResponseAssumption ==
    /\ LineDelims \cup {Colon} \cup DOMAIN HexDigit \subseteq Byte
    /\ CR # LF /\ (DOMAIN HexDigit \cup {Colon}) \cap LineDelims = {}
    /\ Upper \in [Byte -> Byte]
    /\ \A r \in Responses :
         /\ r.bytes \in Seq(Tagged) /\ r.header \in Seq(Byte)
         /\ r.lines \in Seq([name : Seq(Byte), value : Seq(Byte), end : Nat])
    /\ Slack \subseteq Nat

VARIABLES
    response,     \* the response
    arrived,      \* how many of its bytes the client has received
    msg,          \* the buffer with the last piece
    pc,           \* the loop the parser is in, "idle" between calls
    first,        \* no piece has been parsed yet
    skipped,      \* the client used skipToHttpData
    header, meta, \* the out parameters
    remainingSz, data,
    endOfData,    \* the local of parseHttpFragment
    done          \* the result of the last call

out == <<header, meta, remainingSz, data>>
client == <<response, arrived, first, skipped>>
vars == <<response, arrived, msg, pc, first, skipped, header, meta,
          remainingSz, data, endOfData, done>>

MAX_MSG_LENGTH == SizeMod - 1

EmptyMeta == [k \in {} |-> <<>>]

Init == /\ response \in Responses /\ arrived = 0
        /\ msg = NewBuffer(0)
        /\ pc = "idle" /\ first = TRUE /\ skipped = FALSE
        /\ header = <<>> /\ meta = EmptyMeta
        /\ remainingSz = MAX_MSG_LENGTH /\ data = <<>>
        /\ endOfData = FALSE /\ done = FALSE

-----------------------------------------------------------------------------
(* The client.                                                              *)

\* n more bytes arrive, in a buffer with room for s more.
Piece(n, s) == writeArray(NewBuffer(n + s),
                          [i \in 1 .. n |-> response.bytes[arrived + i].byte]).self
Arrive(n) ==
    /\ pc = "idle" /\ ~done
    /\ arrived + n <= Len(response.bytes)
    /\ n > 0 => response.bytes[arrived + n].cut
    /\ arrived' = arrived + n
    /\ first' = FALSE
    /\ UNCHANGED response

\* The entry of parseHttpChunkedMessage; an empty message ends it at once.
ParseMessage(n, s) ==
    /\ first /\ Arrive(n)
    /\ msg' = Piece(n, s)
    /\ header' = <<>> /\ meta' = EmptyMeta /\ remainingSz' = MAX_MSG_LENGTH
    /\ IF n = 0 THEN pc' = "idle" /\ done' = TRUE ELSE pc' = "header" /\ UNCHANGED done
    /\ UNCHANGED <<skipped, data, endOfData>>

\* Where the loop of skipToHttpData stops: behind the first blank line, or at
\* the end of the buffer.
DataStart(b) ==
    LET BlankLine(p) == /\ p >= b.m_readIndex + 4
                        /\ Peek(b.m_buffer, p - 4, 4) = <<CR, LF, CR, LF>>
    IN  CHOOSE p \in b.m_readIndex .. b.m_bufferSz :
           /\ p < b.m_bufferSz => BlankLine(p)
           /\ \A q \in b.m_readIndex .. (p - 1) : ~BlankLine(q)

\* Mutant: one byte too many is skipped.
skipPastHttpData(b) == ReadAt(b, DataStart(b) + 1)

skipToHttpData(b) == ReadAt(b, DataStart(b))

\* The client that has no use for the header: skipToHttpData, parseHttpFragment.
SkipMessage(n, s) ==
    /\ first /\ n > 0 /\ Arrive(n)
    /\ msg' = skipToHttpData(Piece(n, s))
    /\ pc' = "fragment" /\ endOfData' = FALSE /\ skipped' = TRUE
    /\ UNCHANGED <<out, done>>

\* The entry of parseHttpFragment.
ParseFragment(n, s) ==
    /\ ~first /\ n > 0 /\ Arrive(n)
    /\ msg' = Piece(n, s)
    /\ pc' = "fragment" /\ endOfData' = FALSE
    /\ UNCHANGED <<skipped, out, done>>

-----------------------------------------------------------------------------
(* parseHttpChunkedMessage.                                                 *)

Header ==
    LET r == readLine(msg, LineDelims)
    IN  /\ pc = "header"
        /\ header' = r.out /\ msg' = r.self
        /\ pc' = "fields"
        /\ UNCHANGED <<client, meta, remainingSz, data, endOfData, done>>

\* Mutant: a line that could not be read is read again.
MoreLinesForever(r) == r.ok \/ r.out = <<>>

\* The condition of both loops, `readLine(line) || !line.empty()`.
MoreLines(r) == r.ok \/ r.out # <<>>

\* find_first_of(':') as the C++ index of the character, and the key and the
\* value around it: the value is what is left without the blank that follows
\* the colon and the '\r' that ends the line.
ColonAt(line) == (CHOOSE i \in 1 .. Len(line) :
                     line[i] = Colon /\ \A j \in 1 .. (i - 1) : line[j] # Colon) - 1
to_upper(s) == [i \in 1 .. Len(s) |-> Upper[s[i]]]
Key(line) == to_upper(SubSeq(line, 1, ColonAt(line)))

\* Mutant: the blank after the colon is kept.
ValueWithBlank(line) == SubSeq(line, ColonAt(line) + 2, Len(line) - 1)

\* substr(pos + 2, size - pos - 3): a count that wraps around means the rest of
\* the line, and there is none.
Value(line) == SubSeq(line, ColonAt(line) + 3, Len(line) - 1)

\* emplace does not replace what is there.
Emplaced(m, key, value) ==
    [k \in DOMAIN m \cup {key} |-> IF k \in DOMAIN m THEN m[k] ELSE value]

IsField(line) == \E i \in 1 .. Len(line) : line[i] = Colon

Field ==
    LET r == readLine(msg, {LF})
        over == ~MoreLines(r) \/ r.out \in {<<>>, <<CR>>}
    IN  /\ pc = "fields"
        /\ msg' = r.self
        /\ UNCHANGED <<client, header, remainingSz, data, done>>
        /\ \/ over /\ pc' = "fragment" /\ endOfData' = FALSE /\ UNCHANGED meta
           \/ ~over /\ ~IsField(r.out) /\ UNCHANGED <<pc, meta, endOfData>>
           \/ /\ ~over /\ IsField(r.out) /\ ColonAt(r.out) + 2 <= Len(r.out)
              /\ meta' = Emplaced(meta, Key(r.out), Value(r.out))
              /\ UNCHANGED <<pc, endOfData>>
           \/ /\ ~over /\ IsField(r.out) /\ ColonAt(r.out) + 2 > Len(r.out)
              /\ pc' = "threw"      \* std::out_of_range
              /\ UNCHANGED <<meta, endOfData>>

-----------------------------------------------------------------------------
(* parseHttpFragment: what becomes of a line.                               *)

AllHex(line) == \A i \in 1 .. Len(line) : line[i] \in DOMAIN HexDigit

\* std::stoull(line, nullptr, 16), before it is known to fit.
stoull(line) ==
    LET value[i \in 0 .. Len(line)] ==
          IF i = 0 THEN 0 ELSE value[i - 1] * Radix + HexDigit[line[i]]
    IN  value[Len(line)]

TextLine(line) ==
    /\ remainingSz = MAX_MSG_LENGTH /\ ~AllHex(line)
    /\ remainingSz' = Sub(remainingSz, Len(line))
    /\ data' = data \o line \o <<CR, LF>>
    /\ UNCHANGED <<pc, endOfData>>

\* Mutant: endOfData is computed before the size is.
SizeLineTooEarly(line) ==
    /\ remainingSz = MAX_MSG_LENGTH /\ AllHex(line)
    /\ stoull(line) \in SizeT
    /\ remainingSz' = stoull(line) /\ endOfData' = (remainingSz = 0)
    /\ UNCHANGED <<pc, data>>

SizeLine(line) ==
    /\ remainingSz = MAX_MSG_LENGTH /\ AllHex(line)
    /\ \/ /\ stoull(line) \in SizeT
          /\ remainingSz' = stoull(line) /\ endOfData' = (stoull(line) = 0)
          /\ UNCHANGED <<pc, data>>
       \/ /\ stoull(line) \notin SizeT
          /\ pc' = "threw"          \* std::out_of_range
          /\ UNCHANGED <<remainingSz, data, endOfData>>

\* Mutants: the end of a chunk is not noticed; the line break is counted.
DataLineNoReset(line) ==
    /\ remainingSz # MAX_MSG_LENGTH
    /\ remainingSz' = Sub(remainingSz, Len(line))
    /\ data' = data \o line
    /\ UNCHANGED <<pc, endOfData>>
DataLineCountsBreak(line) ==
    /\ remainingSz # MAX_MSG_LENGTH
    /\ remainingSz' = LET rest == Sub(remainingSz, Len(line) + 2)
                      IN  IF rest = 0 THEN MAX_MSG_LENGTH ELSE rest
    /\ data' = data \o line
    /\ UNCHANGED <<pc, endOfData>>

DataLine(line) ==
    /\ remainingSz # MAX_MSG_LENGTH
    /\ remainingSz' = LET rest == Sub(remainingSz, Len(line))
                      IN  IF rest = 0 THEN MAX_MSG_LENGTH ELSE rest
    /\ data' = data \o line
    /\ UNCHANGED <<pc, endOfData>>

Line ==
    LET r == readLine(msg, LineDelims)
    IN  /\ pc = "fragment" /\ MoreLines(r)
        /\ msg' = r.self
        /\ \/ r.out = <<>> /\ UNCHANGED <<pc, remainingSz, data, endOfData>>
           \/ r.out # <<>> /\ (TextLine(r.out) \/ SizeLine(r.out) \/ DataLine(r.out))
        /\ UNCHANGED <<client, header, meta, done>>

Return ==
    LET r == readLine(msg, LineDelims)
    IN  /\ pc = "fragment" /\ ~MoreLines(r)
        /\ msg' = r.self
        /\ pc' = "idle" /\ done' = endOfData
        /\ UNCHANGED <<client, out, endOfData>>

-----------------------------------------------------------------------------
Parser == Header \/ Field \/ Line \/ Return

Next == \/ \E n \in 0 .. MaxSize, s \in Slack :
             /\ n + s <= MaxSize
             /\ ParseMessage(n, s) \/ SkipMessage(n, s) \/ ParseFragment(n, s)
        \/ Parser

\* The parser is sequential code: it goes on with the call it is in.
Spec == Init /\ [][Next]_vars /\ WF_vars(Parser)

-----------------------------------------------------------------------------
(* The grammar of a regular response.  Position p is the one behind its p-th
   byte.  The parser is line based and keeps no part of a line: no delimiter is
   inside chunk data, and no cut inside the head or between two digits.       *)

Has(r, p, text) == \A j \in 1 .. Len(text) : r.bytes[p + j].byte = text[j]

\* Where field i starts; the one behind the last is the blank line.
LineStart(r, i) == IF i = 1 THEN Len(r.header) + 2 ELSE r.lines[i - 1].end
HeadEnd(r) == LineStart(r, Len(r.lines) + 1)

FieldRule(r, i) ==
    LET f == r.lines[i]
    IN  /\ f.end = LineStart(r, i) + Len(f.name) + Len(f.value) + 4
        /\ \A j \in 1 .. Len(f.name) : f.name[j] \notin LineDelims \cup {Colon}
        /\ \A j \in 1 .. Len(f.value) : f.value[j] # LF
        /\ \E blank \in Byte \ {LF} :
             Has(r, LineStart(r, i), f.name \o <<Colon, blank>> \o f.value \o <<CR, LF>>)

\* The digits from p to q are the size of a chunk.
SizeRule(r, p, q) ==
    LET digits == [j \in 1 .. (q - p) |-> r.bytes[p + j].byte]
    IN  /\ \A j \in 1 .. (q - p) : digits[j] \in DOMAIN HexDigit /\ ~r.bytes[p + j].payload
        /\ \A j \in (p + 1) .. (q - 1) : r.bytes[j].left = MAX_MSG_LENGTH
        /\ r.bytes[q].left = stoull(digits) /\ stoull(digits) # MAX_MSG_LENGTH
        /\ q < Len(r.bytes) => r.bytes[q + 1].byte \in LineDelims

\* What may follow position p: a line break, a byte of chunk data, the size of
\* a chunk, or the next digit of a size.
BodyRule(r, p) ==
    LET here == r.bytes[p]
        next == r.bytes[p + 1]
    IN  \/ /\ next.byte \in LineDelims /\ ~next.payload /\ next.left = here.left
           /\ here.payload => here.left = MAX_MSG_LENGTH
        \/ /\ next.byte \notin LineDelims /\ here.left \notin {0, MAX_MSG_LENGTH}
           /\ next.payload
           /\ next.left = IF here.left = 1 THEN MAX_MSG_LENGTH ELSE here.left - 1
        \/ /\ next.byte \notin LineDelims /\ here.left = MAX_MSG_LENGTH
           /\ here.byte \in LineDelims /\ \E q \in (p + 1) .. Len(r.bytes) : SizeRule(r, p, q)
        \/ /\ next.byte \notin LineDelims /\ here.left = MAX_MSG_LENGTH
           /\ here.byte \notin LineDelims /\ ~here.payload /\ ~here.cut

FollowsGrammar(r) ==
    /\ r.lines # <<>> /\ HeadEnd(r) + 2 <= Len(r.bytes)
    /\ \A j \in 1 .. Len(r.header) : r.header[j] \notin LineDelims
    /\ Has(r, 0, r.header \o <<CR, LF>>)
    /\ \A i \in 1 .. Len(r.lines) : FieldRule(r, i)
    /\ Has(r, HeadEnd(r), <<CR, LF>>)
    /\ \A p \in 1 .. HeadEnd(r) : ~r.bytes[p].payload /\ (p < HeadEnd(r) => ~r.bytes[p].cut)
    /\ r.bytes[HeadEnd(r)].left = MAX_MSG_LENGTH
    /\ \A p \in HeadEnd(r) .. (Len(r.bytes) - 1) : BodyRule(r, p)

ASSUME GrammarAssumption == \A r \in Responses : r.regular => FollowsGrammar(r)

-----------------------------------------------------------------------------
(* Properties.                                                              *)

Texts == Seq(Byte)
TypeOK == /\ response \in Responses /\ arrived \in 0 .. Len(response.bytes)
          /\ msg.m_bufferSz \in 0 .. MaxSize /\ msg.m_buffer \in Array(msg.m_bufferSz)
          /\ {msg.m_readIndex, msg.m_writeIndex} \subseteq 0 .. msg.m_bufferSz
          /\ pc \in {"idle", "header", "fields", "fragment", "threw"}
          /\ {first, skipped, endOfData, done} \subseteq BOOLEAN
          /\ header \in Texts /\ data \in Texts
          /\ DOMAIN meta \subseteq Texts /\ \A k \in DOMAIN meta : meta[k] \in Texts
          /\ remainingSz \in SizeT

\* The payload among the first p bytes of a response.
PayloadOf(r) ==
    LET kept[p \in 0 .. Len(r.bytes)] ==
          IF p = 0 THEN <<>>
          ELSE IF r.bytes[p].payload THEN Append(kept[p - 1], r.bytes[p].byte)
                                     ELSE kept[p - 1]
    IN  kept

\* The first n fields of a response: the first of two with one name counts.
FieldsOf(r, n) ==
    LET name(j) == to_upper(r.lines[j].name)
        FirstWith(key) == CHOOSE j \in 1 .. n : /\ name(j) = key
                                               /\ \A k \in 1 .. (j - 1) : name(k) # key
    IN  [key \in {name(j) : j \in 1 .. n} |-> r.lines[FirstWith(key)].value]

Judged == response.regular /\ pc = "idle" /\ arrived > 0

\* "Parses HTTP/1.1 chunked-transfer-encoding responses, including fragmented
\* delivery" (README.md): between two calls the data is the payload of the
\* chunks that have arrived, wherever the response was cut.
BodyReassembled == Judged => data = PayloadOf(response)[arrived]

\* "Return expected length of data block in next fragment" (HttpParser.h:44):
\* what the client hands to the next call is what the current chunk lacks.
RemainingIsExact == Judged => remainingSz = response.bytes[arrived].left

\* "true if end of data is found (last data block length = 0)"
\* (HttpParser.h:46): reported by the call that met the last chunk, no other.
EndIsReported == Judged => done = (response.bytes[arrived].left = 0)

\* The fields of the message are found under their upper-case names, the first
\* of two with one name, unless the client skipped them.
FieldsKept ==
    Judged /\ ~skipped =>
        header = response.header /\ meta = FieldsOf(response, Len(response.lines))

\* The parser has read beyond what was written: remainingLength() has wrapped
\* around, and readLine reports more from here on.
Overread == msg.m_readIndex > msg.m_writeIndex
NoReturn == pc # "idle" /\ Overread => pc' # "idle" /\ Overread'

\* A call returns, "'true' if end of data is found, 'false' if end of data is NOT
\* found" (HttpParser.h:33-34), or throws, unless it reads beyond the bytes that
\* were written, as it may in a buffer larger than its message.  From there on it
\* never returns: unless it throws, the loop of parseHttpFragment turns for ever
\* (HttpParser.cpp:41).
CallReturns == /\ (pc # "idle") ~> (pc \in {"idle", "threw"} \/ Overread)
               /\ [][NoReturn]_vars
=============================================================================

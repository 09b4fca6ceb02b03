--------------------------- MODULE MCHttpParser ---------------------------
(* Responses of up to two chunks over an alphabet of ten bytes: 0, which    *)
(* fills new buffers, two digits (d0 and d1, so sizes are binary), two      *)
(* letters, a space, the colon and the three delimiters.                    *)
EXTENDS HttpParser, TLC
LOCAL INSTANCE SequencesExt

d0 == 1
d1 == 2
x == 3
X == 4
sp == 9
MCHexDigit == d0 :> 0 @@ d1 :> 1
MCUpper == [b \in Byte |-> IF b = x THEN X ELSE b]

Tag(bytes, payload, cut, left) ==
    [i \in 1 .. Len(bytes) |-> [byte |-> bytes[i], payload |-> payload,
                                cut |-> cut[i], left |-> left[i]]]
Always(s, v) == [i \in 1 .. Len(s) |-> v]

Break == <<CR, LF>>

\* The header line and the fields must arrive in one piece.
Text(f) == f.name \o <<Colon, sp>> \o f.value \o Break
HeadBytes(fields) == <<x>> \o Break \o FlattenSeq([i \in DOMAIN fields |-> Text(fields[i])]) \o Break
Preamble(fields) ==
    LET s == HeadBytes(fields)
    IN  Tag(s, FALSE, [i \in 1 .. Len(s) |-> i >= Len(s) - 2], Always(s, MAX_MSG_LENGTH))

\* A chunk: its size may not be cut between two digits.
Chunk(digits, bytes) ==
    LET n == Len(bytes)
        after(i) == IF i = n THEN MAX_MSG_LENGTH ELSE n - i
        k == Len(digits)
    IN  Tag(digits, FALSE, [i \in 1 .. k |-> i = k],
            [i \in 1 .. k |-> IF i < k THEN MAX_MSG_LENGTH ELSE n])
        \o Tag(Break, FALSE, Always(Break, TRUE), Always(Break, n))
        \o Tag(bytes, TRUE, Always(bytes, TRUE), [i \in 1 .. n |-> after(i)])
        \o Tag(Break, FALSE, Always(Break, TRUE), Always(Break, IF n = 0 THEN 0 ELSE MAX_MSG_LENGTH))

Regular(fields, chunks) ==
    [regular |-> TRUE, header |-> <<x>>,
     lines |-> [i \in DOMAIN fields |->
                  [name |-> fields[i].name, value |-> fields[i].value,
                   end |-> Len(HeadBytes(SubSeq(fields, 1, i))) - 2]],
     bytes |-> Preamble(fields) \o FlattenSeq(chunks)]

\* A response that follows no grammar: nothing is said of its parts.
Irregular(bytes) ==
    [regular |-> FALSE, header |-> <<>>, lines |-> <<>>,
     bytes |-> Tag(bytes, FALSE, Always(bytes, TRUE), Always(bytes, 0))]

Field1 == [name |-> <<x>>, value |-> <<x>>]
Field2 == [name |-> <<X>>, value |-> <<d0>>]
Field3 == [name |-> <<d0>>, value |-> <<Colon, d1>>]

Chunks == {Chunk(<<d1>>, <<x>>), Chunk(<<d1, d0>>, <<d1, x>>),
                   Chunk(<<d1, d1>>, <<d0, Colon, d1>>)}
LastChunk == Chunk(<<d0>>, <<>>)

RegularResponses ==
    {Regular(<<Field1, Field3>>, <<c, d, LastChunk>>) : c, d \in Chunks}

MCResponses ==
    RegularResponses
    \cup {Regular(<<Field1, Field2>>, <<c, LastChunk>>) : c \in Chunks}
    \cup {Irregular(HeadBytes(<<Field1>>) \o <<x>> \o Break \o <<x, x>> \o Break \o <<ETB>>),
          Irregular(HeadBytes(<<>>) \o <<d1>> \o Break \o <<x>> \o Break),
          Irregular(<<x, LF, x, LF, x, Colon, LF, LF>>),
          Irregular(HeadBytes(<<Field1>>) \o <<d1, d1, d1, d1, d1, d1, d1>> \o Break)}
=============================================================================
